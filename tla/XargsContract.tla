--------------------------- MODULE XargsContract ---------------------------
(***************************************************************************)
(* phxargs seen from outside, in either mode: it takes arguments from its  *)
(* input, gives them to children in order and once each, and exits with    *)
(* the worst status only after everything has been given away, unless a    *)
(* child halted it.  How arguments are divided among commands is left to   *)
(* the limits of Command; that children come and go as they do is the      *)
(* promise of the pool.                                                    *)
(***************************************************************************)
EXTENDS PoolContract, Sequences

VARIABLES
  empty_due,    \* whether one command is due if there is no input
  broken,       \* the input could not be read to its end
  taken,        \* the arguments taken from the input
  handed        \* the arguments handed to children

arguments    == <<empty_due, broken, taken, handed>>
xargsPromise == <<poolPromise, arguments>>

Untouched == \A c \in Process : stage[c] = "unborn"

XargsInit ==
  /\ PromiseInit
  /\ empty_due \in BOOLEAN
  /\ broken = FALSE
  /\ taken = <<>> /\ handed = <<>>

\* Arguments are taken one by one, and none once a child has asked to halt.
Take ==
  /\ phase = "open" /\ ~halted /\ ~broken
  /\ Len(taken') = Len(taken) + 1
  /\ SubSeq(taken', 1, Len(taken)) = taken
  /\ UNCHANGED <<poolPromise, empty_due, broken, handed>>

InputBreaks ==
  /\ phase = "open" /\ ~halted
  /\ broken' = TRUE
  /\ UNCHANGED <<poolPromise, empty_due, taken, handed>>

\* A command gets the arguments that come next, at least one; or none if it
\* is the first and the input is empty.
Execute(c) ==
  /\ Start(c) /\ ~broken
  /\ \E n \in 0 .. Len(taken) - Len(handed) :
       /\ n = 0 => empty_due /\ taken = <<>> /\ Untouched
       /\ handed' = handed \o SubSeq(taken, Len(handed) + 1, Len(handed) + n)
  /\ UNCHANGED <<empty_due, broken, taken>>

\* The regular end, at which the exit status is the worst of the children.
ExitWithStatus ==
  /\ Drained /\ ~broken
  /\ handed = taken \/ halted
  /\ empty_due /\ taken = <<>> => ~Untouched
  /\ UNCHANGED arguments

\* The end with EXIT_FAILURE.
ExitWithFailure == GiveUp /\ UNCHANGED arguments

XargsNext ==
  \/ Take \/ InputBreaks \/ ExitWithStatus \/ ExitWithFailure
  \/ \E c \in Process : Execute(c)
  \/ /\ \/ MoveLimit
        \/ \E c \in Process : Collected(c)
        \/ \E c \in Process, r \in Raw : End(c, r)
     /\ UNCHANGED arguments

XargsSpec == XargsInit /\ [][XargsNext]_xargsPromise

=============================================================================
