------------------------------ MODULE Children ------------------------------
(***************************************************************************)
(* The processes that the pool waits for and the code of exec_child runs   *)
(* in, and what waitpid tells about how one of them ended.                 *)
(***************************************************************************)
EXTENDS Integers

CONSTANTS
  Child,           \* every process phxargs can ever be the parent of
  ExitCodes        \* exit codes that children use

Signalled == -1     \* WIFSIGNALED: the child was killed by a signal
RawStatus == ExitCodes \cup {Signalled}

=============================================================================
