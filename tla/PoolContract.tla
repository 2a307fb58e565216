---------------------------- MODULE PoolContract ----------------------------
(***************************************************************************)
(* What the pool of src/src/process_pool.c promises to the execution mode  *)
(* that uses it, without the table of pids, the signal counters and the    *)
(* control points of ProcessPool: at most `limit' children at a time, each *)
(* collected once, a worst status, and no launch after a halt.             *)
(***************************************************************************)
EXTENDS Integers, FiniteSets

CONSTANTS
  Process,      \* the children that can be launched
  Raw,          \* what a child can exit with: a code, or Killed
  Killed,       \* it died from a signal
  Ceilings      \* values of CHILD_MAX; not positive if there is none

VARIABLES
  limit,        \* children allowed at a time; 0 for any number
  ceiling,      \* what the limit never exceeds, if positive
  stage,        \* how far each child has come
  raw,          \* what it exited with
  worst,        \* the worst status collected
  halted,       \* a child asked for no more launches
  phase         \* "open", "drained" with all children collected, or "given up"

poolPromise == <<limit, ceiling, stage, raw, worst, halted, phase>>

\* The status that stands for a child's exit.
Meaning(r) ==
  CASE r = Killed -> 125
    [] r \in {0, 126, 127} -> r
    [] r = 255 -> 124
    [] OTHER -> 123

\* Of the severities, what is beyond dispute: any failure is worse than success,
\* and 125 > 124 > 123.  Where 126 and 127 come among these the man page and the
\* code say differently (see StatusAsDocumented in ProcessPool), and nothing is
\* promised here.
Outranks(s, t) ==
  \/ s # 0 /\ t = 0
  \/ {s, t} \subseteq 123..125 /\ s > t

WorstOf(s, t) == {x \in {s, t} : ~Outranks(s, x) /\ ~Outranks(t, x)}

InFlightNow == {c \in Process : stage[c] \in {"running", "zombie"}}

PromiseInit ==
  /\ limit \in Nat /\ ceiling \in Ceilings
  /\ ceiling > 0 => limit <= ceiling
  /\ stage = [c \in Process |-> "unborn"]
  /\ raw = [c \in Process |-> 0]
  /\ worst = 0 /\ halted = FALSE
  /\ phase = "open"

-----------------------------------------------------------------------------

Moves(c, from, to) == stage[c] = from /\ stage' = [stage EXCEPT ![c] = to]

\* Signals may move a limit, but never remove or introduce one.
MoveLimit ==
  /\ phase = "open" /\ limit # 0
  /\ limit' \in Nat \ {0}
  /\ ceiling > 0 => limit' <= ceiling
  /\ UNCHANGED <<ceiling, stage, raw, worst, halted, phase>>

Start(c) ==
  /\ phase = "open" /\ ~halted
  /\ limit = 0 \/ Cardinality(InFlightNow) < limit
  /\ Moves(c, "unborn", "running")
  /\ UNCHANGED <<limit, ceiling, raw, worst, halted, phase>>

\* Children end on their own, before and after phxargs does.
End(c, r) ==
  /\ Moves(c, "running", "zombie")
  /\ raw' = [raw EXCEPT ![c] = r]
  /\ UNCHANGED <<limit, ceiling, worst, halted, phase>>

Collected(c) ==
  /\ phase = "open"
  /\ Moves(c, "zombie", "reaped")
  /\ worst' \in WorstOf(worst, Meaning(raw[c]))
  /\ halted' = (halted \/ Meaning(raw[c]) = 124)
  /\ UNCHANGED <<limit, ceiling, raw, phase>>

\* The drain returns: nobody is left.
Drained ==
  /\ phase = "open" /\ InFlightNow = {}
  /\ phase' = "drained"
  /\ UNCHANGED <<limit, ceiling, stage, raw, worst, halted>>

\* phxargs exits without having drained the pool.
GiveUp ==
  /\ phase = "open"
  /\ phase' = "given up"
  /\ UNCHANGED <<limit, ceiling, stage, raw, worst, halted>>

PromiseNext ==
  \/ MoveLimit \/ Drained \/ GiveUp
  \/ \E c \in Process : Start(c) \/ Collected(c)
  \/ \E c \in Process, r \in Raw : End(c, r)

PromiseSpec == PromiseInit /\ [][PromiseNext]_poolPromise

=============================================================================
