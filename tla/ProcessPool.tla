---------------------------- MODULE ProcessPool ----------------------------
(***************************************************************************)
(* The pool of in-flight children of phxargs (src/src/process_pool.c) with *)
(* the operating system around it: children that run and exit on their     *)
(* own, waitpid, the inherited SIGCHLD disposition, and the SIGUSR1 and    *)
(* SIGUSR2 handlers that interrupt the main thread between any two         *)
(* accesses to the signal counters.                                        *)
(*                                                                         *)
(* The main thread is at pc.  While pc = "caller" it runs the execution    *)
(* mode, here any client that calls xargs_mode_execute_command and         *)
(* xargs_mode_drain as often as it likes; AppenderMode and ReplacerMode    *)
(* put the real clients in its place.                                      *)
(***************************************************************************)
EXTENDS Integers, FiniteSets, Children

CONSTANTS
  Inherited,       \* children it already had when it was exec'd
  ProcsChoices,    \* values of -P to consider (0 is "unlimited")
  ChildMaxChoices, \* values of sysconf(_SC_CHILD_MAX); -1 if indeterminate
  DefaultCapacity, \* slots allocated under -P 0 (16 in the code)
  MaxSignals,      \* bound: deliveries of each of SIGUSR1 and SIGUSR2
  NDEBUG           \* TRUE when assert() is compiled out

ASSUME ProcessPoolAssumption ==
  /\ Inherited \subseteq Child
  /\ ExitCodes \subseteq 0..255
  /\ ProcsChoices \subseteq Nat
  /\ ChildMaxChoices \subseteq Nat \cup {-1}
  /\ DefaultCapacity \in Nat \ {0}
  /\ MaxSignals \in Nat
  /\ NDEBUG \in BOOLEAN

VARIABLES
  \* struct process_pool_s
  max_procs, capacity, child_max, count, status, halt, pids,
  \* the -P argument process_pool_create was given
  requested_procs,
  \* the signal counters, and the locals of apply_signal_adjustments
  sigusr1_count, sigusr2_count, applied_sigusr1, applied_sigusr2, u1, u2,
  \* the operating system: where each child is in its life, how it exited,
  \* and what SIGCHLD does
  life, raw_status, sigchld,
  \* control point of the main thread
  pc

fields     == <<max_procs, capacity, child_max, count, status, halt, pids>>
counters   == <<sigusr1_count, sigusr2_count>>
adjustment == <<applied_sigusr1, applied_sigusr2, u1, u2>>
kernel     == <<life, raw_status, sigchld>>
poolVars   == <<fields, requested_procs, counters, adjustment, kernel, pc>>

-----------------------------------------------------------------------------
(* Exit statuses. *)

ExitStatuses == {0, 123, 124, 125, 126, 127}

severity(phxargs_status) ==
  CASE phxargs_status = 127 -> 6
    [] phxargs_status = 126 -> 5
    [] phxargs_status = 125 -> 4
    [] phxargs_status = 124 -> 3
    [] phxargs_status = 123 -> 2
    [] OTHER -> 0

child_exit_status(raw) ==
  CASE raw = Signalled -> 125
    [] raw = 255 -> 124
    [] raw \in {0, 126, 127} -> raw
    [] OTHER -> 123

\* Faulty variant: the last child to be reaped decides the status.
LastStatusWins(current, new) == new

accumulate_status(current, new) ==
  IF severity(new) > severity(current) THEN new ELSE current

-----------------------------------------------------------------------------
(* The pid table. *)

Slots == 1..count

double_capacity(n) == IF n = 0 THEN 1 ELSE 2 * n

\* Faulty variant: the table grows one submission too late.
CapacityGrownLate == IF count > capacity THEN double_capacity(capacity) ELSE capacity

CapacityForSubmit == IF count = capacity THEN double_capacity(capacity) ELSE capacity

\* Faulty variant: the freed slot is not refilled from the last one.
PidsWithoutRefill(i) == [j \in 1..(count - 1) |-> pids[j]]

\* Slot i is refilled from the last slot.
PidsWithout(i) == [j \in 1..(count - 1) |-> IF j = i THEN pids[count] ELSE pids[j]]

PidsWith(c) == [j \in 1..(count + 1) |-> IF j = count + 1 THEN c ELSE pids[j]]

-----------------------------------------------------------------------------
(* The kernel's view. *)

Alive  == {c \in Child : life[c] \in {"running", "zombie"}}
Reaped == {c \in Child : life[c] = "reaped"}

\* Faulty variant: the limit is taken inclusively.
FullOffByOne == max_procs # 0 /\ count > max_procs

Full == max_procs # 0 /\ count >= max_procs

\* Faulty variant: the last child is left behind.
InFlightButOne == count > 1

InFlight == count > 0

Waiting == (pc = "full" /\ Full) \/ (pc = "drain" /\ InFlight)

Calling == {"usr2", "mark1", "mark2", "full", "drain"}
Final   == {"done", "exited", "aborted"}

-----------------------------------------------------------------------------
(* Initial states: right after exec, and as process_pool_create leaves the *)
(* pool.  options.c rejects a -P above CHILD_MAX.                          *)

Init ==
  /\ max_procs \in ProcsChoices
  /\ child_max \in ChildMaxChoices
  /\ child_max > 0 => max_procs <= child_max
  /\ requested_procs = max_procs
  /\ capacity = IF max_procs = 0 THEN DefaultCapacity ELSE max_procs
  /\ count = 0
  /\ status = 0
  /\ halt = FALSE
  /\ pids = [j \in {} |-> 0]
  /\ sigusr1_count = 0 /\ sigusr2_count = 0
  /\ applied_sigusr1 = 0 /\ applied_sigusr2 = 0
  /\ u1 = 0 /\ u2 = 0
  /\ life = [c \in Child |-> IF c \in Inherited THEN "running" ELSE "unborn"]
  /\ raw_status = [c \in Child |-> 0]
  /\ sigchld \in {"SIG_DFL", "SIG_IGN"}
  /\ pc = "start"

\* Faulty variant: an inherited SIG_IGN is left in place.
InstallUsrHandlersOnly ==
  /\ pc = "start"
  /\ pc' = "caller"
  /\ UNCHANGED <<fields, requested_procs, counters, adjustment, kernel>>

process_pool_install_signal_handlers ==
  /\ pc = "start"
  /\ sigchld' = "SIG_DFL"
  /\ pc' = "caller"
  /\ UNCHANGED <<fields, requested_procs, counters, adjustment, life, raw_status>>

-----------------------------------------------------------------------------
(* apply_signal_adjustments, one step per access to a signal counter.      *)

\* Entry of process_pool_wait_if_full, from xargs_mode_execute_command.
ReadUsr1 ==
  /\ pc = "caller"
  /\ u1' = sigusr1_count - applied_sigusr1
  /\ pc' = "usr2"
  /\ UNCHANGED <<fields, requested_procs, counters, kernel,
                 applied_sigusr1, applied_sigusr2, u2>>

ReadUsr2 ==
  /\ pc = "usr2"
  /\ u2' = sigusr2_count - applied_sigusr2
  /\ pc' = IF u1 = 0 /\ u2' = 0 THEN "full" ELSE "mark1"
  /\ UNCHANGED <<fields, requested_procs, counters, kernel,
                 applied_sigusr1, applied_sigusr2, u1>>

\* Faulty variant: the signals are not marked as applied.
ForgetUsr1 ==
  /\ pc = "mark1"
  /\ pc' = "mark2"
  /\ UNCHANGED <<fields, requested_procs, counters, adjustment, kernel>>

MarkUsr1 ==
  /\ pc = "mark1"
  /\ applied_sigusr1' = sigusr1_count
  /\ pc' = "mark2"
  /\ UNCHANGED <<fields, requested_procs, counters, kernel, applied_sigusr2, u1, u2>>

\* Faulty variants: no floor at 1; no ceiling at CHILD_MAX.
NewMaxWithoutFloor ==
  LET new_max == max_procs + u1 - u2
  IN IF child_max > 0 /\ new_max > child_max THEN child_max ELSE new_max
NewMaxWithoutCeiling ==
  LET new_max == max_procs + u1 - u2
  IN IF new_max < 1 THEN 1 ELSE new_max

NewMax ==
  LET new_max == max_procs + u1 - u2
  IN CASE new_max < 1 -> 1
       [] child_max > 0 /\ new_max > child_max -> child_max
       [] OTHER -> new_max

\* The locals u1 and u2 go out of scope, here by returning to 0.
AdjustLimit ==
  /\ pc = "mark2"
  /\ applied_sigusr2' = sigusr2_count
  /\ \/ max_procs = 0 /\ UNCHANGED <<max_procs, capacity>>
     \/ /\ max_procs # 0
        /\ max_procs' = NewMax
        /\ capacity' = IF NewMax > capacity THEN NewMax ELSE capacity
  /\ u1' = 0 /\ u2' = 0
  /\ pc' = "full"
  /\ UNCHANGED <<child_max, count, status, halt, pids, requested_procs,
                 counters, kernel, applied_sigusr1>>

-----------------------------------------------------------------------------
(* reap_one: waitpid(-1) hands over any zombie.  It fails only when there  *)
(* is no child at all, and then phxargs exits; that path is left out, and  *)
(* WaitHasChild shows that it cannot be taken.                             *)

Collect(c) ==
  /\ Waiting
  /\ life[c] = "zombie"
  /\ life' = [life EXCEPT ![c] = "reaped"]
  /\ UNCHANGED <<max_procs, capacity, child_max, requested_procs,
                 counters, adjustment, raw_status, sigchld>>

\* Faulty variant: every failure halts.
HaltOnFailure(c) ==
  /\ count' = count - 1
  /\ status' = accumulate_status(status, child_exit_status(raw_status[c]))
  /\ halt' = (halt \/ raw_status[c] # 0)
  /\ pc' = pc

AccountFor(c) ==
  /\ count' = count - 1
  /\ status' = accumulate_status(status, child_exit_status(raw_status[c]))
  /\ halt' = (halt \/ raw_status[c] = 255)
  /\ pc' = pc

ReapLaunched(c) ==
  /\ Collect(c)
  /\ \E i \in Slots : pids[i] = c /\ pids' = PidsWithout(i)
  /\ AccountFor(c)

\* A zombie that is not in the table: the search falls off its end, and
\* without assert() the last entry is dropped in its stead.
ReapUnknownRelease(c) ==
  /\ \A i \in Slots : pids[i] # c
  /\ Collect(c)
  /\ pids' = [j \in 1..(count - 1) |-> pids[j]]
  /\ AccountFor(c)

ReapUnknownDebug(c) ==
  /\ \A i \in Slots : pids[i] # c
  /\ Collect(c)
  /\ pc' = "aborted"
  /\ UNCHANGED <<count, status, halt, pids>>

ReapUnknown(c) == IF NDEBUG THEN ReapUnknownRelease(c) ELSE ReapUnknownDebug(c)

reap_one(c) == ReapLaunched(c) \/ ReapUnknown(c)

\* EINTR: waitpid is called again.
RetryWaitpid == Waiting /\ UNCHANGED poolVars

-----------------------------------------------------------------------------
(* The rest of xargs_mode_execute_command, and xargs_mode_drain.           *)

\* Faulty variant: a halted pool goes on launching.
MayLaunchThoughHalted == pc = "full" /\ ~Full

MayLaunch == pc = "full" /\ ~Full /\ ~halt

\* command_execute_async forks c, process_pool_submit records it.
Launch(c) ==
  /\ MayLaunch
  /\ life[c] = "unborn"
  /\ life' = [life EXCEPT ![c] = "running"]
  /\ capacity' = CapacityForSubmit
  /\ pids' = PidsWith(c)
  /\ count' = count + 1
  /\ pc' = "caller"
  /\ UNCHANGED <<max_procs, child_max, status, halt, requested_procs, counters,
                 adjustment, raw_status, sigchld>>

SkipHalted ==
  /\ pc = "full" /\ ~Full /\ halt
  /\ pc' = "caller"
  /\ UNCHANGED <<fields, requested_procs, counters, adjustment, kernel>>

ForkFails ==
  /\ MayLaunch
  /\ pc' = "exited"
  /\ UNCHANGED <<fields, requested_procs, counters, adjustment, kernel>>

StartDrain ==
  /\ pc = "caller"
  /\ pc' = "drain"
  /\ UNCHANGED <<fields, requested_procs, counters, adjustment, kernel>>

\* The caller gives up: exit(EXIT_FAILURE) without a drain.
CallerExits ==
  /\ pc = "caller"
  /\ pc' = "exited"
  /\ UNCHANGED <<fields, requested_procs, counters, adjustment, kernel>>

DrainReturns ==
  /\ pc = "drain" /\ ~InFlight
  /\ pc' = "done"
  /\ UNCHANGED <<fields, requested_procs, counters, adjustment, kernel>>

-----------------------------------------------------------------------------
(* The environment. *)

\* A zombie stays for waitpid only under SIG_DFL.
ChildExits(c, raw) ==
  /\ life[c] = "running"
  /\ life' = [life EXCEPT ![c] = IF sigchld = "SIG_IGN" THEN "gone" ELSE "zombie"]
  /\ raw_status' = [raw_status EXCEPT ![c] = raw]
  /\ UNCHANGED <<fields, requested_procs, counters, adjustment, sigchld, pc>>

Interruptible == pc \notin Final \cup {"start"}

on_sigusr1 ==
  /\ Interruptible
  /\ sigusr1_count < MaxSignals
  /\ sigusr1_count' = sigusr1_count + 1
  /\ UNCHANGED <<fields, requested_procs, sigusr2_count, adjustment, kernel, pc>>

on_sigusr2 ==
  /\ Interruptible
  /\ sigusr2_count < MaxSignals
  /\ sigusr2_count' = sigusr2_count + 1
  /\ UNCHANGED <<fields, requested_procs, sigusr1_count, adjustment, kernel, pc>>

Terminated == pc \in Final /\ UNCHANGED poolVars

-----------------------------------------------------------------------------

\* Steps inside a call, all but the fork.
PoolStep ==
  \/ ReadUsr2 \/ MarkUsr1 \/ AdjustLimit
  \/ \E c \in Child : reap_one(c)
  \/ SkipHalted \/ ForkFails \/ DrainReturns

Environment ==
  \/ \E c \in Child, raw \in RawStatus : ChildExits(c, raw)
  \/ on_sigusr1 \/ on_sigusr2

Next ==
  \/ process_pool_install_signal_handlers
  \/ ReadUsr1 \/ StartDrain \/ CallerExits
  \/ PoolStep
  \/ \E c \in Child : Launch(c)
  \/ Environment
  \/ RetryWaitpid \/ Terminated

Spec == Init /\ [][Next]_poolVars

-----------------------------------------------------------------------------
(* Properties. *)

Launched == Child \ Inherited

\* Types of the pool, the counters and the kernel's tables.
TypeOK ==
  /\ max_procs \in Nat /\ requested_procs \in ProcsChoices
  /\ capacity \in Nat /\ count \in Nat
  /\ child_max \in ChildMaxChoices
  /\ status \in ExitStatuses
  /\ halt \in BOOLEAN
  /\ pids \in [Slots -> Child]
  /\ sigusr1_count \in 0..MaxSignals /\ sigusr2_count \in 0..MaxSignals
  /\ applied_sigusr1 \in 0..sigusr1_count /\ applied_sigusr2 \in 0..sigusr2_count
  /\ u1 \in 0..MaxSignals /\ u2 \in 0..MaxSignals
  /\ life \in [Child -> {"unborn", "running", "zombie", "reaped", "gone"}]
  /\ raw_status \in [Child -> RawStatus \cup {0}]
  /\ sigchld \in {"SIG_DFL", "SIG_IGN"}
  /\ pc \in {"start", "caller"} \cup Calling \cup Final

\* The table holds every launched child that has not been waited for, once,
\* and nothing else: the swap with the last entry in reap_one loses no child.
PidsTrackChildren ==
  pc # "aborted" =>
    /\ {pids[i] : i \in Slots} = Alive \cap Launched
    /\ count = Cardinality(Alive \cap Launched)

\* The table never holds more pids than were allocated for it, whatever mix
\* of submissions and signals made it grow.
CapacityCoversPids == count <= capacity

\* The status is the worst over all collected children in whatever order
\* they were collected, and one of them (or success) accounts for it.  Worse is
\* here what severity() puts higher; StatusAsDocumented says where the man page
\* has it otherwise.
StatusIsMostSevere ==
  /\ \A c \in Reaped \cap Launched :
       severity(child_exit_status(raw_status[c])) <= severity(status)
  /\ status = 0 \/ \E c \in Reaped : status = child_exit_status(raw_status[c])

\* Whatever was signalled, a limited pool stays limited, at 1 or more and at
\* no more than CHILD_MAX; an unlimited one stays unlimited.
LimitInRange ==
  /\ max_procs = 0 <=> requested_procs = 0
  /\ child_max > 0 => max_procs <= child_max

\* No signal moves the limit twice, however deliveries interleave with the
\* reads of the counters.
LimitNeverOverCounts ==
  requested_procs # 0 =>
    /\ max_procs <= requested_procs + sigusr1_count
    /\ max_procs >= requested_procs - sigusr2_count

\* The pool waits only while there is a child to wait for, even if phxargs
\* was started with SIGCHLD ignored.
WaitHasChild == Waiting => Alive # {}

\* Once process_pool_drain has returned no launched child is left behind.
DrainedWhenDone == pc = "done" => Alive \cap Launched = {}

Starts(c) == life[c] = "unborn" /\ life'[c] = "running"

\* After a child that exited with 255 has been collected nothing is launched.
NoLaunchAfterHalt ==
  [][(\E c \in Reaped : raw_status[c] = 255) => \A c \in Child : ~Starts(c)]_poolVars

\* A launch finds fewer children in existence than the limit in force, also
\* when SIGUSR2 has just lowered that limit below the number in flight.
LaunchWithinLimit ==
  [][(\E c \in Child : Starts(c)) =>
       max_procs = 0 \/ Cardinality(Alive \cap Launched) < max_procs]_poolVars

\* What the pool promises its caller: what process_pool.h offers, with the
\* kernel's children in place of the table and the locals left out.
Promise == INSTANCE PoolContract WITH
  Process <- Launched, Raw <- RawStatus, Killed <- Signalled,
  Ceilings <- ChildMaxChoices,
  limit <- max_procs, ceiling <- child_max,
  stage <- [c \in Launched |-> life[c]],
  raw <- [c \in Launched |-> raw_status[c]],
  worst <- status, halted <- halt,
  phase <- CASE pc = "done" -> "drained"
             [] pc \in {"exited", "aborted"} -> "given up"
             [] OTHER -> "open"

\* Table, counters and control points keep that promise: a step of the pool is
\* one of the contract, or nothing that a caller or a child could notice.
KeepsPromise == Promise!PromiseSpec

-----------------------------------------------------------------------------
(* What the documents and the assertions say, where the code disagrees.    *)

\* man page, -P: SIGUSR1 increases the limit by 1.  So every signal that was
\* marked as applied is in the limit (no floor or ceiling being in play).
EverySignalCounts ==
  (pc = "caller" /\ requested_procs # 0 /\ child_max = -1 /\ sigusr2_count = 0)
    => max_procs = requested_procs + applied_sigusr1

\* man page, EXIT STATUS: the most severe wins (125 > 124 > 123 > 126/127).
documented_severity(phxargs_status) ==
  CASE phxargs_status = 125 -> 4
    [] phxargs_status = 124 -> 3
    [] phxargs_status = 123 -> 2
    [] phxargs_status \in {126, 127} -> 1
    [] OTHER -> 0

\* No child was collected whose status is worse by that order: 126 and 127, the
\* least severe of the failures there, are the most severe in severity().
StatusAsDocumented ==
  \A c \in Reaped \cap Launched :
    documented_severity(child_exit_status(raw_status[c])) <= documented_severity(status)

\* process_pool.c:110, assert(i < pool->count): waitpid returns only pids
\* of the table.
AssertHolds == pc # "aborted"

=============================================================================
