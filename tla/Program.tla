------------------------------- MODULE Program -------------------------------
(***************************************************************************)
(* phxargs with its input and its children, in the mode of -I: the pool    *)
(* and the mode of ReplacerMode, which fork children that prompt, reopen   *)
(* standard input and execute commands as in ExecChild, while parent and   *)
(* children share the open file of InputStream.  An item of the input is   *)
(* a line.                                                                 *)
(*                                                                         *)
(* Here a child exits where its own control flow takes it, and phxargs     *)
(* reads what the input really has for it.                                 *)
(***************************************************************************)
EXTENDS ReplacerMode, ExecChild

programVars == <<allVars, childVars>>

\* -p is refused with -P above 1, but not with -P 0, which is no limit.
PromptAccepted == prompt => requested_procs \in {0, 1}

ProgramInit == ReplacerInit /\ ChildInit /\ PromptAccepted

\* xargs_mode_next_token, on the input file
ReadItem ==
  /\ \E len \in TokenLengths : TokenRead(len, TRUE)
  /\ GetItem
  /\ UNCHANGED <<childOptions, step, fate>>

\* End of file, or ferror().  The bound on tokens ends the input too.
ReadEndOfFile ==
  \E err \in InputErrors :
    /\ err \/ AtEof \/ Len(read) = MaxTokens
    /\ InputEnds(err, FALSE)
    /\ UNCHANGED childVars

ForkCommand(c) == LaunchCommand(c) /\ Fork(c)

ParentStep ==
  /\ \/ ReplacerStep
     \/ /\ process_pool_install_signal_handlers \/ PoolStep
        /\ UNCHANGED modeVars
  /\ UNCHANGED childVars

ChildStep(c) ==
  \/ ChildMoves(c) /\ UNCHANGED allVars
  \/ \E raw \in RawStatus : ChildEnds(c, raw) /\ ChildExits(c, raw) /\ UNCHANGED modeVars

\* SIGUSR1 or SIGUSR2 reaches phxargs; its children have counters of their own.
SignalArrives == (on_sigusr1 \/ on_sigusr2) /\ UNCHANGED <<modeVars, childVars>>

ProgramNext ==
  \/ ReadItem \/ ReadEndOfFile
  \/ \E c \in Child : ForkCommand(c) \/ ChildStep(c)
  \/ ParentStep \/ SignalArrives
  \/ (RetryWaitpid \/ Terminated) /\ UNCHANGED <<modeVars, childVars>>

ProgramSpec == ProgramInit /\ [][ProgramNext]_programVars

-----------------------------------------------------------------------------
(* Properties. *)

\* No child has moved the offset of the file back: exit() does so in a child
\* that does not become a command, freopen may do so under -o.
NothingRewound ==
  \/ ~seekable
  \/ /\ \A c \in Child : fate[c] \in {"none", "run"}
     /\ from_stdin => ~open_tty

\* Commands have no part in the file: it is that of -a, or -o gives them the
\* terminal in its place.
CommandsKeepOff == open_tty \/ ~from_stdin

\* Parent and children share the offset of the input file, and yet the parent
\* consumes its items once each and in order, unless a command may read the
\* file or a child has moved the offset back.
InputReadOnce ==
  CommandsKeepOff /\ NothingRewound => items = Items(1, Len(items))

\* If phxargs exits with 0 then for every line of an undisturbed input there
\* was a child that executed its command, and that exited with 0, or that was
\* told not to: no failure between fork and exec is taken for success.
SuccessMeansRun ==
  ExitCode = 0 /\ CommandsKeepOff /\ NothingRewound /\ Len(read) < MaxTokens =>
    /\ Len(given) = FileItems
    /\ \A c \in Child : step[c] # "unborn" => fate[c] \in {"run", "refused"}

\* A limit of 1 keeps the terminal to one child at a time, from its prompt to
\* the end of the command it asks for, where phxargs -p gets its answers.  So it
\* is until the first SIGUSR1: -p is refused with -P above 1, but the signal
\* raises the limit all the same (process_pool.c:117-145), and prompts mix.
OnePromptAtATime ==
  prompt /\ requested_procs # 0 /\ sigusr1_count = 0 =>
    \A c, d \in Child :
      step[c] \in {"asking", "skipping"} /\ step[d] \notin {"unborn", "ended"} => c = d

-----------------------------------------------------------------------------
(* What the documents say, where the code disagrees. *)

\* man page: phxargs reads items from standard input until it is exhausted.
\* No item of the file is read twice.
NoItemReadTwice == \A i, j \in DOMAIN items : items[i] = items[j] => i = j

=============================================================================
