------------------------- MODULE ProcessPoolProofs -------------------------
(***************************************************************************)
(* Theorems about ProcessPool, for every set of children, every limit and  *)
(* any number of signals.  Each layer rests on the ones before it:         *)
(* types, then the capacity and the limit, then the pid table against the  *)
(* kernel's children, then the exit status and the halt flag.              *)
(***************************************************************************)
EXTENDS ProcessPool, FiniteSetTheorems, TLAPS

-----------------------------------------------------------------------------
(* Types. *)

\* What accumulate_status and child_exit_status return is an exit status of
\* phxargs, whichever of the pool's functions calls them.
LEMMA StatusTypes ==
  ASSUME NEW raw \in RawStatus \cup {0}, NEW current \in ExitStatuses
  PROVE  /\ child_exit_status(raw) \in ExitStatuses
         /\ accumulate_status(current, child_exit_status(raw)) \in ExitStatuses
  <1>1. child_exit_status(raw) \in ExitStatuses
    BY ProcessPoolAssumption
    DEF child_exit_status, ExitStatuses, RawStatus, Signalled
  <1> QED
    BY <1>1 DEF accumulate_status

\* A wait happens only with something in the table.
LEMMA WaitingCounts ==
  ASSUME TypeOK, Waiting
  PROVE  count >= 1 /\ count \in Slots
  BY DEF TypeOK, Waiting, Full, InFlight, Slots

\* The adjusted limit is a positive number, so the pool stays limited.
LEMMA NewMaxPositive ==
  ASSUME TypeOK, max_procs # 0
  PROVE  NewMax \in Nat \ {0}
  BY ProcessPoolAssumption DEF TypeOK, NewMax

LEMMA TypeOKInit == Init => TypeOK
  <1> SUFFICES ASSUME Init
               PROVE  TypeOK
    OBVIOUS
  <1>1. max_procs \in Nat /\ capacity \in Nat /\ child_max \in ChildMaxChoices
    BY ProcessPoolAssumption DEF Init
  <1>2. pids \in [Slots -> Child]
    <2>1. Slots = {}
      BY DEF Init, Slots
    <2> QED
      BY <2>1 DEF Init
  <1>3. /\ life \in [Child -> {"unborn", "running", "zombie", "reaped", "gone"}]
        /\ raw_status \in [Child -> RawStatus \cup {0}]
    BY DEF Init
  <1>4. /\ count \in Nat /\ status \in ExitStatuses /\ halt \in BOOLEAN
        /\ sigusr1_count = 0 /\ sigusr2_count = 0
        /\ applied_sigusr1 = 0 /\ applied_sigusr2 = 0 /\ u1 = 0 /\ u2 = 0
        /\ requested_procs \in ProcsChoices
        /\ sigchld \in {"SIG_DFL", "SIG_IGN"} /\ pc = "start"
    BY DEF Init, ExitStatuses
  <1> QED
    BY <1>1, <1>2, <1>3, <1>4, ProcessPoolAssumption DEF TypeOK

LEMMA TypeOKStep == TypeOK /\ [Next]_poolVars => TypeOK'
  <1> SUFFICES ASSUME TypeOK, [Next]_poolVars
               PROVE  TypeOK'
    OBVIOUS
  <1> USE ProcessPoolAssumption
  <1>1. CASE process_pool_install_signal_handlers
    BY <1>1 DEF TypeOK, Slots, process_pool_install_signal_handlers,
                fields, counters, adjustment
  <1>2. CASE ReadUsr1
    BY <1>2 DEF TypeOK, Slots, ReadUsr1, fields, counters, kernel, Calling
  <1>3. CASE ReadUsr2
    BY <1>3 DEF TypeOK, Slots, ReadUsr2, fields, counters, kernel, Calling
  <1>4. CASE MarkUsr1
    BY <1>4 DEF TypeOK, Slots, MarkUsr1, fields, counters, kernel, Calling
  <1>5. CASE AdjustLimit
    <2>1. max_procs' \in Nat /\ capacity' \in Nat
      BY <1>5, NewMaxPositive DEF AdjustLimit, TypeOK
    <2> QED
      BY <1>5, <2>1 DEF TypeOK, Slots, AdjustLimit, counters, kernel, Calling
  <1>6. ASSUME NEW c \in Child, reap_one(c)
        PROVE  TypeOK'
    <2>1. Collect(c)
      BY <1>6 DEF reap_one, ReapLaunched, ReapUnknownRelease,
                  ReapUnknown, ReapUnknownDebug
    <2>2. count >= 1 /\ count \in Slots
      BY <2>1, WaitingCounts DEF Collect
    <2>3. life' \in [Child -> {"unborn", "running", "zombie", "reaped", "gone"}]
      BY <2>1 DEF Collect, TypeOK
    <2>4. CASE AccountFor(c) /\ pids' \in [1..(count - 1) -> Child]
      <3>1. raw_status[c] \in RawStatus \cup {0}
        BY DEF TypeOK
      <3>2. status' \in ExitStatuses
        BY <2>4, <3>1, StatusTypes DEF AccountFor, TypeOK
      <3>3. count' = count - 1 /\ count' \in Nat /\ halt' \in BOOLEAN /\ pc' = pc
        BY <2>2, <2>4 DEF AccountFor, TypeOK
      <3> QED
        BY <2>1, <2>3, <2>4, <3>2, <3>3
        DEF TypeOK, Slots, Collect, counters, adjustment
    <2>5. CASE ReapLaunched(c)
      <3>1. pids' \in [1..(count - 1) -> Child]
        BY <2>2, <2>5 DEF ReapLaunched, PidsWithout, TypeOK, Slots
      <3> QED
        BY <2>4, <2>5, <3>1 DEF ReapLaunched
    <2>6. CASE ReapUnknownRelease(c)
      <3>1. pids' \in [1..(count - 1) -> Child]
        BY <2>2, <2>6 DEF ReapUnknownRelease, TypeOK, Slots
      <3> QED
        BY <2>4, <2>6, <3>1 DEF ReapUnknownRelease
    <2>7. CASE ReapUnknownDebug(c)
      BY <2>1, <2>3, <2>7
      DEF TypeOK, Slots, ReapUnknownDebug, Collect, counters, adjustment, Final
    <2> QED
      BY <1>6, <2>5, <2>6, <2>7 DEF reap_one, ReapUnknown
  <1>7. ASSUME NEW c \in Child, Launch(c)
        PROVE  TypeOK'
    <2>1. pids' \in [1..(count + 1) -> Child]
      BY <1>7 DEF Launch, PidsWith, TypeOK, Slots
    <2>2. capacity' \in Nat
      BY <1>7 DEF Launch, CapacityForSubmit, double_capacity, TypeOK
    <2>3. life' \in [Child -> {"unborn", "running", "zombie", "reaped", "gone"}]
      BY <1>7 DEF Launch, TypeOK
    <2> QED
      BY <1>7, <2>1, <2>2, <2>3 DEF TypeOK, Slots, Launch, counters, adjustment
  <1>8. CASE SkipHalted \/ ForkFails \/ StartDrain \/ CallerExits \/ DrainReturns
    <2>1. /\ UNCHANGED <<fields, requested_procs, counters, adjustment, kernel>>
          /\ pc' \in {"caller", "drain"} \cup Final
      BY <1>8 DEF SkipHalted, ForkFails, StartDrain, CallerExits, DrainReturns, Final
    <2>2. Slots' = Slots
      BY <2>1 DEF Slots, fields
    <2>3. pc' \in {"start", "caller"} \cup Calling \cup Final
      BY <2>1 DEF Calling
    <2> QED
      BY <2>1, <2>2, <2>3 DEF TypeOK, fields, counters, adjustment, kernel
  <1>9. ASSUME NEW c \in Child, NEW raw \in RawStatus, ChildExits(c, raw)
        PROVE  TypeOK'
    <2>1. /\ life' \in [Child -> {"unborn", "running", "zombie", "reaped", "gone"}]
          /\ raw_status' \in [Child -> RawStatus \cup {0}]
      BY <1>9 DEF ChildExits, TypeOK
    <2> QED
      BY <1>9, <2>1 DEF TypeOK, Slots, ChildExits, fields, counters, adjustment
  <1>10. CASE on_sigusr1 \/ on_sigusr2
    <2>1. UNCHANGED <<fields, requested_procs, adjustment, kernel, pc>>
      BY <1>10 DEF on_sigusr1, on_sigusr2
    <2>2. /\ sigusr1_count' \in 0..MaxSignals /\ sigusr2_count' \in 0..MaxSignals
          /\ sigusr1_count <= sigusr1_count' /\ sigusr2_count <= sigusr2_count'
      BY <1>10, ProcessPoolAssumption DEF TypeOK, on_sigusr1, on_sigusr2
    <2>3. /\ applied_sigusr1' \in 0..sigusr1_count' /\ applied_sigusr2' \in 0..sigusr2_count'
      BY <2>1, <2>2 DEF TypeOK, adjustment
    <2> QED
      BY <2>1, <2>2, <2>3 DEF TypeOK, Slots, fields, adjustment, kernel
  <1>11. CASE UNCHANGED poolVars
    BY <1>11 DEF TypeOK, Slots, poolVars, fields, counters, adjustment, kernel
  <1> QED
    BY <1>1, <1>2, <1>3, <1>4, <1>5, <1>6, <1>7, <1>8, <1>9, <1>10, <1>11
    DEF Next, PoolStep, Environment, RetryWaitpid, Terminated

\* The state of the pool, of the counters and of the kernel's tables keeps its
\* type, whatever the environment does.
THEOREM TypeCorrect == Spec => []TypeOK
  BY TypeOKInit, TypeOKStep, PTL DEF Spec

-----------------------------------------------------------------------------
(* The capacity of the table and the limit. *)

LEMMA CapacityStep ==
  TypeOK /\ CapacityCoversPids /\ [Next]_poolVars => CapacityCoversPids'
  <1> SUFFICES ASSUME TypeOK, CapacityCoversPids, [Next]_poolVars
               PROVE  CapacityCoversPids'
    OBVIOUS
  <1> USE DEF CapacityCoversPids
  <1>1. CASE AdjustLimit
    BY <1>1, NewMaxPositive DEF AdjustLimit, TypeOK
  <1>2. ASSUME NEW c \in Child, reap_one(c)
        PROVE  CapacityCoversPids'
    BY <1>2 DEF reap_one, ReapLaunched, ReapUnknownRelease, ReapUnknown,
                ReapUnknownDebug, Collect, AccountFor, TypeOK
  <1>3. ASSUME NEW c \in Child, Launch(c)
        PROVE  CapacityCoversPids'
    BY <1>3 DEF Launch, CapacityForSubmit, double_capacity, TypeOK
  <1>4. CASE UNCHANGED fields
    BY <1>4 DEF fields
  <1> QED
    BY <1>1, <1>2, <1>3, <1>4
    DEF Next, PoolStep, Environment, process_pool_install_signal_handlers,
        ReadUsr1, ReadUsr2, MarkUsr1, SkipHalted, ForkFails, StartDrain, CallerExits,
        DrainReturns, ChildExits, on_sigusr1, on_sigusr2, RetryWaitpid,
        Terminated, poolVars

\* No submission and no SIGUSR1 ever leaves more pids in the table than
\* process_pool_create, process_pool_submit and apply_signal_adjustments have
\* allocated for it.
THEOREM CapacitySuffices == Spec => []CapacityCoversPids
  <1>1. Init => CapacityCoversPids
    BY ProcessPoolAssumption DEF Init, CapacityCoversPids
  <1> QED
    BY <1>1, CapacityStep, TypeCorrect, PTL DEF Spec

\* The limit relative to -P and to the signals applied so far.  While
\* apply_signal_adjustments is between marking SIGUSR1 and changing the limit
\* (pc = "mark2"), u1 is applied but not yet in the limit.
LimitInv ==
  /\ LimitInRange
  /\ child_max > 0 => requested_procs <= child_max
  /\ pc \in {"usr2", "mark1"} => u1 <= sigusr1_count - applied_sigusr1
  /\ pc \in {"mark1", "mark2"} => u2 <= sigusr2_count - applied_sigusr2
  /\ requested_procs # 0 =>
       /\ max_procs <= requested_procs + applied_sigusr1
       /\ pc = "mark2" => max_procs + u1 <= requested_procs + applied_sigusr1
       /\ max_procs >= requested_procs - applied_sigusr2

LEMMA LimitStep == TypeOK /\ LimitInv /\ [Next]_poolVars => LimitInv'
  <1> SUFFICES ASSUME TypeOK, LimitInv, [Next]_poolVars
               PROVE  LimitInv'
    OBVIOUS
  <1> USE ProcessPoolAssumption DEF LimitInv, LimitInRange
  <1>1. CASE ReadUsr1
    BY <1>1 DEF ReadUsr1, TypeOK, fields, counters, kernel
  <1>2. CASE ReadUsr2
    BY <1>2 DEF ReadUsr2, TypeOK, fields, counters, kernel
  <1>3. CASE MarkUsr1
    BY <1>3 DEF MarkUsr1, TypeOK, fields, counters, kernel
  <1>4. CASE AdjustLimit
    <2>1. /\ applied_sigusr2' = sigusr2_count /\ applied_sigusr1' = applied_sigusr1
          /\ sigusr1_count' = sigusr1_count /\ sigusr2_count' = sigusr2_count
          /\ requested_procs' = requested_procs /\ child_max' = child_max
          /\ pc = "mark2" /\ pc' = "full"
      BY <1>4 DEF AdjustLimit, counters
    <2>2. CASE max_procs = 0
      <3>1. max_procs' = 0
        BY <1>4, <2>2 DEF AdjustLimit
      <3> QED
        BY <2>1, <2>2, <3>1 DEF TypeOK
    <2>3. CASE max_procs # 0
      <3>1. max_procs' = NewMax
        BY <1>4, <2>3 DEF AdjustLimit
      <3>2. /\ NewMax \in Nat \ {0}
            /\ child_max > 0 => NewMax <= child_max
            /\ NewMax <= max_procs + u1 \/ NewMax = 1
            /\ NewMax >= max_procs - u2 \/ (child_max > 0 /\ NewMax = child_max)
        BY <2>3 DEF NewMax, TypeOK
      <3>3. requested_procs \in Nat \ {0}
        BY <2>3 DEF TypeOK
      <3>4. /\ NewMax <= requested_procs + applied_sigusr1
            /\ NewMax >= requested_procs - sigusr2_count
        BY <2>1, <2>3, <3>2, <3>3 DEF TypeOK
      <3> QED
        BY <2>1, <3>1, <3>2, <3>3, <3>4
    <2> QED
      BY <2>2, <2>3
  <1>5. ASSUME NEW c \in Child, reap_one(c)
        PROVE  LimitInv'
    <2>1. /\ UNCHANGED <<max_procs, child_max, requested_procs, counters, adjustment>>
          /\ pc' = pc \/ pc' = "aborted"
      BY <1>5 DEF reap_one, ReapLaunched, ReapUnknownRelease, ReapUnknown,
                  ReapUnknownDebug, Collect, AccountFor
    <2> QED
      BY <2>1 DEF counters, adjustment
  <1>6. ASSUME NEW c \in Child, Launch(c)
        PROVE  LimitInv'
    BY <1>6 DEF Launch, TypeOK, counters, adjustment
  <1>7. CASE on_sigusr1 \/ on_sigusr2
    BY <1>7 DEF on_sigusr1, on_sigusr2, TypeOK, fields, adjustment, kernel
  <1>8. CASE /\ UNCHANGED <<fields, requested_procs, counters, adjustment>>
             /\ pc' = pc \/ pc' \notin {"usr2", "mark1", "mark2"}
    BY <1>8 DEF TypeOK, fields, counters, adjustment
  <1> QED
    BY <1>1, <1>2, <1>3, <1>4, <1>5, <1>6, <1>7, <1>8
    DEF Next, PoolStep, Environment, process_pool_install_signal_handlers,
        SkipHalted, ForkFails, StartDrain, CallerExits, DrainReturns, ChildExits,
        RetryWaitpid, Terminated, poolVars

LEMMA LimitInvariant == Spec => []LimitInv
  <1>1. Init => LimitInv
    BY ProcessPoolAssumption DEF Init, LimitInv, LimitInRange
  <1> QED
    BY <1>1, LimitStep, TypeCorrect, PTL DEF Spec

\* SIGUSR1 and SIGUSR2 neither turn a limited pool into an unlimited one, nor
\* the reverse, nor push the limit beyond CHILD_MAX.
THEOREM LimitStaysInRange == Spec => []LimitInRange
  BY LimitInvariant, PTL DEF LimitInv

\* No delivery of SIGUSR1 or SIGUSR2 moves the limit twice, in whatever order
\* deliveries and the reads of apply_signal_adjustments come.
THEOREM SignalsCountAtMostOnce == Spec => []LimitNeverOverCounts
  <1>1. TypeOK /\ LimitInv => LimitNeverOverCounts
    BY ProcessPoolAssumption DEF TypeOK, LimitInv, LimitNeverOverCounts
  <1> QED
    BY <1>1, LimitInvariant, TypeCorrect, PTL

-----------------------------------------------------------------------------
(* The table of pids against the kernel's children.  A release build must  *)
(* not have been exec'd over children of its own for this to hold: the run *)
(* pool_assert shows the collision.                                        *)

NoStrangers == NDEBUG => Inherited = {}

TableIsInjective == \A i, j \in Slots : pids[i] = pids[j] => i = j

TableIsExact ==
  /\ \A i \in Slots : pids[i] \in Alive \cap Launched
  /\ \A c \in Alive \cap Launched : \E i \in Slots : pids[i] = c

\* SIG_DFL is in place before the first fork, so no launched child is ever
\* "gone" without having been collected.
KernelInv ==
  /\ \A c \in Inherited : life[c] # "unborn"
  /\ \A c \in Launched : life[c] # "gone"
  /\ pc = "start" => \A c \in Launched : life[c] = "unborn"
  /\ pc # "start" => sigchld = "SIG_DFL"

TableInv ==
  /\ KernelInv
  /\ TableIsInjective
  /\ pc # "aborted" => TableIsExact
  /\ pc = "done" => count = 0

LEMMA KernelStep == TypeOK /\ KernelInv /\ [Next]_poolVars => KernelInv'
  <1> SUFFICES ASSUME TypeOK, KernelInv, [Next]_poolVars
               PROVE  KernelInv'
    OBVIOUS
  <1> USE DEF KernelInv
  <1>1. CASE process_pool_install_signal_handlers
    BY <1>1 DEF process_pool_install_signal_handlers
  <1>2. ASSUME NEW c \in Child, reap_one(c)
        PROVE  KernelInv'
    <2>1. Collect(c) /\ pc # "start" /\ pc' # "start"
      BY <1>2 DEF reap_one, ReapLaunched, ReapUnknownRelease, ReapUnknown,
                  ReapUnknownDebug, Collect, AccountFor, Waiting
    <2>2. /\ sigchld' = sigchld
          /\ life' = [life EXCEPT ![c] = "reaped"]
      BY <2>1 DEF Collect
    <2> QED
      BY <2>1, <2>2 DEF TypeOK, Launched
  <1>3. ASSUME NEW c \in Child, Launch(c)
        PROVE  KernelInv'
    BY <1>3 DEF Launch, MayLaunch, TypeOK, Launched
  <1>4. ASSUME NEW c \in Child, NEW raw \in RawStatus, ChildExits(c, raw)
        PROVE  KernelInv'
    BY <1>4 DEF ChildExits, TypeOK, Launched
  <1>5. ASSUME UNCHANGED kernel, pc' = "start" <=> pc = "start"
        PROVE  KernelInv'
    BY <1>5 DEF kernel
  <1>6. CASE ReadUsr1 \/ ReadUsr2 \/ MarkUsr1 \/ AdjustLimit
    BY <1>5, <1>6 DEF ReadUsr1, ReadUsr2, MarkUsr1, AdjustLimit
  <1>7. CASE SkipHalted \/ ForkFails \/ StartDrain \/ CallerExits \/ DrainReturns
    BY <1>5, <1>7 DEF SkipHalted, ForkFails, MayLaunch, StartDrain, CallerExits, DrainReturns
  <1>8. CASE on_sigusr1 \/ on_sigusr2 \/ UNCHANGED poolVars
    BY <1>5, <1>8 DEF on_sigusr1, on_sigusr2, poolVars
  <1> QED
    BY <1>1, <1>2, <1>3, <1>4, <1>6, <1>7, <1>8
    DEF Next, PoolStep, Environment, RetryWaitpid, Terminated

\* The swap of reap_one takes out the collected child and nothing else.
LEMMA SwapRemoves ==
  ASSUME TypeOK, TableIsInjective, NEW i \in Slots,
         pids' = PidsWithout(i), count' = count - 1
  PROVE  /\ \A j, k \in 1..count' : pids'[j] = pids'[k] => j = k
         /\ \A j \in 1..count' : pids'[j] # pids[i] /\ \E k \in Slots : pids'[j] = pids[k]
         /\ \A k \in Slots : k # i => \E j \in 1..count' : pids'[j] = pids[k]
  <1>1. count \in Nat /\ i \in 1..count /\ count >= 1
    BY DEF TypeOK, Slots
  <1>2. \A j \in 1..count' : pids'[j] = IF j = i THEN pids[count] ELSE pids[j]
    BY DEF PidsWithout
  <1>3. \A j, k \in 1..count : pids[j] = pids[k] => j = k
    BY DEF TableIsInjective, Slots
  <1>4. \A j, k \in 1..count' : pids'[j] = pids'[k] => j = k
    BY <1>1, <1>2, <1>3
  <1>5. \A j \in 1..count' : pids'[j] # pids[i] /\ \E k \in Slots : pids'[j] = pids[k]
    BY <1>1, <1>2, <1>3 DEF Slots
  <1>6. ASSUME NEW k \in Slots, k # i
        PROVE  \E j \in 1..count' : pids'[j] = pids[k]
    <2>1. CASE k = count
      BY <1>1, <1>2, <1>6, <2>1 DEF Slots
    <2>2. CASE k # count
      BY <1>1, <1>2, <1>6, <2>2 DEF Slots
    <2> QED
      BY <2>1, <2>2
  <1> QED
    BY <1>4, <1>5, <1>6

LEMMA ReapKeepsTable ==
  ASSUME TypeOK, TableInv, NoStrangers, NEW c \in Child, reap_one(c), KernelInv'
  PROVE  TableInv'
  <1>1. /\ Collect(c)
        /\ pc # "done" /\ pc # "aborted"
        /\ TableIsExact /\ TableIsInjective
        /\ c \in Alive
    BY DEF reap_one, ReapLaunched, ReapUnknownRelease, ReapUnknown,
           ReapUnknownDebug, Collect, Waiting, TableInv, Alive
  <1>2. (Alive \cap Launched)' = (Alive \cap Launched) \ {c}
    BY <1>1 DEF Collect, Alive, Launched, TypeOK
  <1>3. CASE ReapLaunched(c)
    <2>1. PICK i \in Slots : pids[i] = c /\ pids' = PidsWithout(i)
      BY <1>3 DEF ReapLaunched
    <2>2. count' = count - 1 /\ pc' = pc
      BY <1>3 DEF ReapLaunched, AccountFor
    <2>3. /\ \A j, k \in 1..count' : pids'[j] = pids'[k] => j = k
          /\ \A j \in 1..count' : pids'[j] # c /\ \E k \in Slots : pids'[j] = pids[k]
          /\ \A k \in Slots : k # i => \E j \in 1..count' : pids'[j] = pids[k]
      BY <1>1, <2>1, <2>2, SwapRemoves
    <2>4. TableIsInjective'
      BY <2>3 DEF TableIsInjective, Slots
    <2>5. TableIsExact'
      <3>1. \A j \in Slots' : pids'[j] \in (Alive \cap Launched)'
        BY <1>1, <1>2, <2>3 DEF TableIsExact, Slots
      <3>2. ASSUME NEW d \in (Alive \cap Launched)'
            PROVE  \E j \in Slots' : pids'[j] = d
        <4>1. PICK k \in Slots : pids[k] = d
          BY <1>1, <1>2 DEF TableIsExact
        <4>2. k # i
          BY <1>2, <2>1, <4>1
        <4> QED
          BY <2>3, <4>1, <4>2 DEF Slots
      <3> QED
        BY <3>1, <3>2 DEF TableIsExact
    <2> QED
      BY <1>1, <2>2, <2>4, <2>5 DEF TableInv
  <1>4. CASE ReapUnknownDebug(c)
    BY <1>4 DEF ReapUnknownDebug, TableInv, TableIsInjective, Slots
  <1>5. CASE NDEBUG /\ ReapUnknownRelease(c)
    <2>1. c \in Launched
      BY <1>5 DEF NoStrangers, Launched
    <2>2. \E i \in Slots : pids[i] = c
      BY <1>1, <2>1 DEF TableIsExact
    <2> QED
      BY <1>5, <2>2 DEF ReapUnknownRelease
  <1> QED
    BY <1>3, <1>4, <1>5 DEF reap_one, ReapUnknown

LEMMA LaunchKeepsTable ==
  ASSUME TypeOK, TableInv, NEW c \in Child, Launch(c), KernelInv'
  PROVE  TableInv'
  <1>1. /\ count \in Nat /\ count' = count + 1
        /\ pc' = "caller" /\ pc = "full"
        /\ \A j \in 1..count' : pids'[j] = IF j = count + 1 THEN c ELSE pids[j]
        /\ life[c] = "unborn" /\ life' = [life EXCEPT ![c] = "running"]
        /\ TableIsExact /\ TableIsInjective
    BY DEF Launch, MayLaunch, PidsWith, TypeOK, TableInv
  <1>2. c \in Launched /\ c \notin Alive
    BY <1>1 DEF TableInv, KernelInv, Launched, Alive
  <1>3. (Alive \cap Launched)' = (Alive \cap Launched) \cup {c}
    BY <1>1, <1>2 DEF Alive, Launched, TypeOK
  <1>4. \A i \in 1..count : pids[i] # c /\ i # count + 1
    BY <1>1, <1>2 DEF TableIsExact, Slots
  <1>5. TableIsInjective'
    BY <1>1, <1>4 DEF TableIsInjective, Slots
  <1>6. TableIsExact'
    <2>1. \A j \in Slots' : pids'[j] \in (Alive \cap Launched)'
      BY <1>1, <1>3 DEF TableIsExact, Slots
    <2>2. \A d \in (Alive \cap Launched)' : \E j \in Slots' : pids'[j] = d
      BY <1>1, <1>3, <1>4 DEF TableIsExact, Slots
    <2> QED
      BY <2>1, <2>2 DEF TableIsExact
  <1> QED
    BY <1>1, <1>5, <1>6 DEF TableInv

LEMMA TableStep ==
  ASSUME NoStrangers
  PROVE  TypeOK /\ TableInv /\ [Next]_poolVars => TableInv'
  <1> SUFFICES ASSUME TypeOK, TableInv, [Next]_poolVars
               PROVE  TableInv'
    OBVIOUS
  <1>1. KernelInv'
    BY KernelStep DEF TableInv
  <1>2. ASSUME NEW c \in Child, reap_one(c)
        PROVE  TableInv'
    BY <1>1, <1>2, ReapKeepsTable
  <1>3. ASSUME NEW c \in Child, Launch(c)
        PROVE  TableInv'
    BY <1>1, <1>3, LaunchKeepsTable
  <1>4. ASSUME (Alive \cap Launched)' = Alive \cap Launched,
               UNCHANGED <<pids, count>>,
               pc' = "aborted" => pc = "aborted", pc # "aborted" \/ pc' = pc,
               pc' = "done" => pc = "done" \/ count = 0
        PROVE  TableInv'
    BY <1>1, <1>4 DEF TableInv, TableIsInjective, TableIsExact, Slots
  <1>5. ASSUME NEW c \in Child, NEW raw \in RawStatus, ChildExits(c, raw)
        PROVE  TableInv'
    <2>1. (Alive \cap Launched)' = Alive \cap Launched
      BY <1>5 DEF ChildExits, Alive, Launched, TypeOK, TableInv, KernelInv
    <2> QED
      BY <1>4, <1>5, <2>1 DEF ChildExits, fields
  <1>6. CASE UNCHANGED <<pids, count, life>> /\ pc' # "aborted" /\ pc # "aborted"
             /\ (pc' = "done" => count = 0)
    BY <1>4, <1>6 DEF Alive, Launched
  <1>7. CASE DrainReturns
    BY <1>6, <1>7 DEF DrainReturns, InFlight, TypeOK, fields, kernel
  <1>8. CASE AdjustLimit
    BY <1>6, <1>8 DEF AdjustLimit, kernel
  <1>9. CASE UNCHANGED <<pids, count, life, pc>>
    BY <1>4, <1>9 DEF Alive, Launched, TableInv
  <1>10. CASE \/ process_pool_install_signal_handlers
              \/ ReadUsr1 \/ ReadUsr2 \/ MarkUsr1
              \/ SkipHalted \/ ForkFails \/ StartDrain \/ CallerExits
    BY <1>6, <1>10
    DEF process_pool_install_signal_handlers, ReadUsr1, ReadUsr2, MarkUsr1,
        SkipHalted, ForkFails, MayLaunch, StartDrain, CallerExits, fields, kernel
  <1> QED
    BY <1>2, <1>3, <1>5, <1>7, <1>8, <1>9, <1>10
    DEF Next, PoolStep, Environment, on_sigusr1, on_sigusr2,
        RetryWaitpid, Terminated, poolVars, fields, kernel

LEMMA TableInvariant ==
  ASSUME NoStrangers
  PROVE  Spec => []TableInv
  <1>1. Init => TableInv
    BY ProcessPoolAssumption
    DEF Init, TableInv, KernelInv, TableIsInjective, TableIsExact, Slots,
        Alive, Launched
  <1>2. TypeOK /\ TableInv /\ [Next]_poolVars => TableInv'
    BY TableStep
  <1> QED
    BY <1>1, <1>2, TypeCorrect, PTL DEF Spec

\* An injective table that is exact counts the launched children.
LEMMA TableCounts ==
  ASSUME TypeOK, TableIsInjective, TableIsExact
  PROVE  count = Cardinality(Alive \cap Launched)
  <1>1. pids \in Bijection(1..count, Alive \cap Launched)
    BY DEF TypeOK, TableIsInjective, TableIsExact, Slots, Bijection, Injection,
           Surjection, IsInjective
  <1> QED
    BY <1>1, FS_CountingElements DEF ExistsBijection, TypeOK

\* process_pool_submit and reap_one keep in the table exactly the launched
\* children that have not been waited for.
THEOREM TableTracksChildren ==
  ASSUME NoStrangers
  PROVE  Spec => []PidsTrackChildren
  <1>1. TypeOK /\ TableInv => PidsTrackChildren
    BY TableCounts
    DEF TableInv, TableIsExact, PidsTrackChildren, Slots
  <1> QED
    BY <1>1, TypeCorrect, TableInvariant, PTL

\* phxargs never blocks in waitpid, nor has it fail, for want of a child.
THEOREM WaitsOnlyForChildren ==
  ASSUME NoStrangers
  PROVE  Spec => []WaitHasChild
  <1>1. TypeOK /\ TableInv => WaitHasChild
    BY WaitingCounts
    DEF TableInv, TableIsExact, WaitHasChild, Waiting, Slots
  <1> QED
    BY <1>1, TypeCorrect, TableInvariant, PTL

\* When process_pool_drain returns, every launched child has been collected.
THEOREM DrainLeavesNobody ==
  ASSUME NoStrangers
  PROVE  Spec => []DrainedWhenDone
  <1>1. TypeOK /\ TableInv => DrainedWhenDone
    BY DEF TableInv, TableIsExact, DrainedWhenDone, Slots
  <1> QED
    BY <1>1, TypeCorrect, TableInvariant, PTL

\* Only the fork in xargs_mode_execute_command brings a child to life.
LEMMA OnlyLaunchStarts ==
  ASSUME TypeOK, [Next]_poolVars, NEW c \in Child, Starts(c)
  PROVE  \E d \in Child : Launch(d)
  <1>1. ASSUME UNCHANGED life
        PROVE  FALSE
    BY <1>1 DEF Starts
  <1>2. ASSUME NEW d \in Child, reap_one(d)
        PROVE  FALSE
    BY <1>2 DEF reap_one, ReapLaunched, ReapUnknownRelease, ReapUnknown,
                ReapUnknownDebug, Collect, Starts, TypeOK
  <1>3. ASSUME NEW d \in Child, NEW raw \in RawStatus, ChildExits(d, raw)
        PROVE  FALSE
    BY <1>3 DEF ChildExits, Starts, TypeOK
  <1> QED
    BY <1>1, <1>2, <1>3
    DEF Next, PoolStep, Environment, process_pool_install_signal_handlers,
        ReadUsr1, ReadUsr2, MarkUsr1, AdjustLimit, SkipHalted, ForkFails,
        StartDrain, CallerExits, DrainReturns, on_sigusr1, on_sigusr2, RetryWaitpid,
        Terminated, poolVars, kernel

\* A launch happens with fewer children in existence than the limit in force,
\* also after SIGUSR2 has lowered it below the number in flight.
THEOREM LaunchesRespectLimit ==
  ASSUME NoStrangers
  PROVE  Spec => LaunchWithinLimit
  <1>1. ASSUME TypeOK, TableInv, [Next]_poolVars, NEW c \in Child, Starts(c)
        PROVE  max_procs = 0 \/ Cardinality(Alive \cap Launched) < max_procs
    <2>1. PICK d \in Child : Launch(d)
      BY <1>1, OnlyLaunchStarts
    <2>2. ~Full /\ pc # "aborted"
      BY <2>1 DEF Launch, MayLaunch
    <2>3. count = Cardinality(Alive \cap Launched)
      BY <1>1, <2>2, TableCounts DEF TableInv
    <2> QED
      BY <1>1, <2>2, <2>3 DEF Full, TypeOK
  <1>2. TypeOK /\ TableInv /\ [Next]_poolVars
          => [(\E c \in Child : Starts(c)) =>
                max_procs = 0 \/ Cardinality(Alive \cap Launched) < max_procs]_poolVars
    BY <1>1
  <1> QED
    BY <1>2, TypeCorrect, TableInvariant, PTL DEF Spec, LaunchWithinLimit

-----------------------------------------------------------------------------
(* Outcomes: the halt flag and the exit status. *)

\* The halt flag remembers every collected exit with 255.
HaltInv == pc # "aborted" => \A c \in Reaped : raw_status[c] = 255 => halt

\* What a step does to the set of collected children and their statuses.
LEMMA ReapedOrKept ==
  ASSUME TypeOK, [Next]_poolVars
  PROVE  \/ \E c \in Child : /\ reap_one(c)
                             /\ Reaped' = Reaped \cup {c}
                             /\ raw_status' = raw_status
         \/ /\ Reaped' = Reaped
            /\ \A c \in Reaped : raw_status'[c] = raw_status[c]
            /\ UNCHANGED <<status, halt>>
            /\ pc = "aborted" => pc' = "aborted"
  <1>1. ASSUME NEW c \in Child, reap_one(c)
        PROVE  Reaped' = Reaped \cup {c} /\ raw_status' = raw_status
    <2>1. Collect(c)
      BY <1>1 DEF reap_one, ReapLaunched, ReapUnknownRelease,
                  ReapUnknown, ReapUnknownDebug
    <2> QED
      BY <2>1 DEF Collect, Reaped, TypeOK
  <1>2. ASSUME NEW c \in Child, Launch(c)
        PROVE  Reaped' = Reaped /\ UNCHANGED <<raw_status, status, halt>>
               /\ pc # "aborted"
    BY <1>2 DEF Launch, MayLaunch, Reaped, TypeOK
  <1>3. ASSUME NEW c \in Child, NEW raw \in RawStatus, ChildExits(c, raw)
        PROVE  /\ Reaped' = Reaped
               /\ \A d \in Reaped : raw_status'[d] = raw_status[d]
               /\ UNCHANGED <<status, halt, pc>>
    BY <1>3 DEF ChildExits, Reaped, TypeOK, fields
  <1>4. CASE UNCHANGED <<life, raw_status, status, halt>>
             /\ (pc = "aborted" => pc' = "aborted")
    BY <1>4 DEF Reaped
  <1>5. CASE \/ process_pool_install_signal_handlers \/ ReadUsr1 \/ ReadUsr2
             \/ MarkUsr1 \/ AdjustLimit \/ SkipHalted \/ ForkFails
             \/ StartDrain \/ CallerExits \/ DrainReturns
    BY <1>4, <1>5
    DEF process_pool_install_signal_handlers, ReadUsr1, ReadUsr2, MarkUsr1,
        AdjustLimit, SkipHalted, ForkFails, MayLaunch, StartDrain, CallerExits,
        DrainReturns, fields, kernel
  <1>6. CASE on_sigusr1 \/ on_sigusr2 \/ UNCHANGED poolVars
    BY <1>4, <1>6 DEF on_sigusr1, on_sigusr2, poolVars, fields, kernel
  <1> QED
    BY <1>1, <1>2, <1>3, <1>5, <1>6
    DEF Next, PoolStep, Environment, RetryWaitpid, Terminated

\* A collected child is accounted for, or the assertion ends the program.
LEMMA ReapAccounts ==
  ASSUME NEW c \in Child, reap_one(c)
  PROVE  AccountFor(c) \/ pc' = "aborted"
  BY DEF reap_one, ReapLaunched, ReapUnknown, ReapUnknownRelease, ReapUnknownDebug

LEMMA HaltStep == TypeOK /\ HaltInv /\ [Next]_poolVars => HaltInv'
  <1> SUFFICES ASSUME TypeOK, HaltInv, [Next]_poolVars
               PROVE  HaltInv'
    OBVIOUS
  <1>1. ASSUME NEW c \in Child, reap_one(c),
               Reaped' = Reaped \cup {c}, raw_status' = raw_status
        PROVE  HaltInv'
    <2>1. CASE pc' = "aborted"
      BY <2>1 DEF HaltInv
    <2>2. CASE AccountFor(c)
      <3>1. pc' = pc /\ halt' = (halt \/ raw_status[c] = 255)
        BY <2>2 DEF AccountFor
      <3> QED
        BY <1>1, <3>1 DEF HaltInv
    <2> QED
      BY <1>1, <2>1, <2>2, ReapAccounts
  <1>2. ASSUME Reaped' = Reaped,
               \A c \in Reaped : raw_status'[c] = raw_status[c],
               halt' = halt, pc = "aborted" => pc' = "aborted"
        PROVE  HaltInv'
    BY <1>2 DEF HaltInv
  <1> QED
    BY <1>1, <1>2, ReapedOrKept

\* Once a child that exited with 255 has been collected,
\* xargs_mode_execute_command starts nothing more, for any pool and any
\* number of children still in flight.
THEOREM HaltStopsLaunches == Spec => NoLaunchAfterHalt
  <1>1. Init => HaltInv
    BY DEF Init, HaltInv, Reaped
  <1>2. ASSUME TypeOK, HaltInv, [Next]_poolVars,
               NEW c \in Reaped, raw_status[c] = 255, NEW d \in Child, Starts(d)
        PROVE  FALSE
    <2>1. PICK e \in Child : Launch(e)
      BY <1>2, OnlyLaunchStarts
    <2> QED
      BY <1>2, <2>1 DEF Launch, MayLaunch, HaltInv
  <1>3. TypeOK /\ HaltInv /\ [Next]_poolVars
          => [(\E c \in Reaped : raw_status[c] = 255)
                => \A c \in Child : ~Starts(c)]_poolVars
    BY <1>2
  <1> QED
    BY <1>1, <1>3, HaltStep, TypeCorrect, PTL DEF Spec, NoLaunchAfterHalt

LEMMA SeverityIsInteger == \A x : severity(x) \in 0..6
  BY DEF severity

\* accumulate_status returns the worse of the two.
LEMMA AccumulatesTheWorse ==
  ASSUME NEW current, NEW new
  PROVE  /\ severity(current) <= severity(accumulate_status(current, new))
         /\ severity(new) <= severity(accumulate_status(current, new))
         /\ accumulate_status(current, new) \in {current, new}
  BY SeverityIsInteger DEF accumulate_status

LEMMA StatusStep ==
  TypeOK /\ TableInv /\ StatusIsMostSevere /\ [Next]_poolVars => StatusIsMostSevere'
  <1> SUFFICES ASSUME TypeOK, TableInv, StatusIsMostSevere, [Next]_poolVars
               PROVE  StatusIsMostSevere'
    OBVIOUS
  <1>1. ASSUME NEW c \in Child, reap_one(c),
               Reaped' = Reaped \cup {c}, raw_status' = raw_status
        PROVE  StatusIsMostSevere'
    <2>1. CASE AccountFor(c)
      <3> DEFINE new == child_exit_status(raw_status[c])
      <3>1. /\ severity(status) <= severity(status')
            /\ severity(new) <= severity(status')
            /\ status' \in {status, new}
        BY <2>1, AccumulatesTheWorse DEF AccountFor
      <3>2. \A d \in Reaped' \cap Launched :
               severity(child_exit_status(raw_status'[d])) <= severity(status')
        <4> SUFFICES ASSUME NEW d \in (Reaped \cup {c}) \cap Launched
                     PROVE  severity(child_exit_status(raw_status[d])) <= severity(status')
          BY <1>1
        <4>1. CASE d = c
          BY <3>1, <4>1
        <4>2. CASE d \in Reaped
          <5>1. severity(child_exit_status(raw_status[d])) <= severity(status)
            BY <4>2 DEF StatusIsMostSevere
          <5> QED
            BY <3>1, <5>1, SeverityIsInteger
        <4> QED
          BY <4>1, <4>2
      <3>3. status' = 0 \/ \E d \in Reaped' : status' = child_exit_status(raw_status'[d])
        BY <1>1, <3>1 DEF StatusIsMostSevere
      <3> QED
        BY <3>2, <3>3 DEF StatusIsMostSevere, Launched
    <2>2. CASE ReapUnknownDebug(c)
      <3>1. c \notin Launched /\ status' = status
        BY <2>2 DEF ReapUnknownDebug, Collect, Waiting, TableInv, TableIsExact, Alive
      <3> QED
        BY <1>1, <3>1 DEF StatusIsMostSevere, Launched
    <2> QED
      BY <1>1, <2>1, <2>2
      DEF reap_one, ReapLaunched, ReapUnknownRelease, ReapUnknown
  <1>2. ASSUME Reaped' = Reaped, status' = status,
               \A c \in Reaped : raw_status'[c] = raw_status[c]
        PROVE  StatusIsMostSevere'
    BY <1>2 DEF StatusIsMostSevere, Launched
  <1> QED
    BY <1>1, <1>2, ReapedOrKept

\* The status process_pool_drain returns is the worst, in the order of
\* severity(), over all collected children, whatever the order of collection.
THEOREM StatusIsTheWorst ==
  ASSUME NoStrangers
  PROVE  Spec => []StatusIsMostSevere
  <1>1. Init => StatusIsMostSevere
    BY DEF Init, StatusIsMostSevere, Reaped
  <1> QED
    BY <1>1, StatusStep, TypeCorrect, TableInvariant, PTL DEF Spec

-----------------------------------------------------------------------------
(* For the proofs about the modes. *)

\* halt is never reset.
LEMMA HaltStays == [Next]_poolVars /\ halt => halt'
  <1> SUFFICES ASSUME [Next]_poolVars, halt
               PROVE  halt'
    OBVIOUS
  <1> QED
    BY DEF Next, PoolStep, Environment, process_pool_install_signal_handlers,
       ReadUsr1, StartDrain, CallerExits, ReadUsr2, MarkUsr1, AdjustLimit, reap_one,
       ReapLaunched, ReapUnknownDebug, ReapUnknownRelease, ReapUnknown,
       AccountFor, SkipHalted, ForkFails, DrainReturns, Launch, ChildExits,
       on_sigusr1, on_sigusr2, RetryWaitpid, Terminated, poolVars, fields

\* The points inside a call of xargs_mode_execute_command.
Asking == {"usr2", "mark1", "mark2", "full"}

\* On its own the pool enters no such call, and returns from one to its caller
\* only because it has halted.
LEMMA CallsReturnHalted ==
  ASSUME \/ process_pool_install_signal_handlers
         \/ PoolStep \/ Environment \/ RetryWaitpid \/ Terminated
         \/ UNCHANGED poolVars
  PROVE  /\ pc' \in Asking => pc \in Asking
         /\ pc' = "caller" => pc = "caller" \/ pc = "start" \/ halt'
         /\ pc' = "start" => pc = "start"
  BY DEF PoolStep, Environment, process_pool_install_signal_handlers, ReadUsr2,
     MarkUsr1, AdjustLimit, reap_one, ReapLaunched, ReapUnknownDebug,
     ReapUnknownRelease, ReapUnknown, AccountFor, SkipHalted, ForkFails, DrainReturns,
     ChildExits, on_sigusr1, on_sigusr2, RetryWaitpid, Terminated, poolVars, fields, Asking

-----------------------------------------------------------------------------
(***************************************************************************)
(* The pool implements PoolContract, whatever the number of children, the  *)
(* limit, the signals and the statuses: the table of pids, the counters    *)
(* and the control points are never to be noticed.                         *)
(***************************************************************************)

\* accumulate_status and child_exit_status are what the contract says of them.
LEMMA SameMeaning ==
  ASSUME NEW raw \in RawStatus \cup {0}
  PROVE  /\ Promise!Meaning(raw) = child_exit_status(raw)
         /\ Promise!Meaning(raw) = 124 <=> raw = 255
  BY ProcessPoolAssumption
  DEF Promise!Meaning, child_exit_status, RawStatus, Signalled

LEMMA AmongTheWorst ==
  ASSUME NEW s \in ExitStatuses, NEW t \in ExitStatuses
  PROVE  accumulate_status(s, t) \in Promise!WorstOf(s, t)
  BY DEF Promise!WorstOf, Promise!Outranks, accumulate_status, severity, ExitStatuses

\* The contract counts as the pool does.
LEMMA SameCount == \A S : Promise!Cardinality(S) = Cardinality(S)
  BY DEF Promise!Cardinality, Cardinality

-----------------------------------------------------------------------------

\* In flight are the children that the pool has launched and not yet collected.
LEMMA InFlightIsAlive == Promise!InFlightNow = Alive \cap Launched
  BY DEF Promise!InFlightNow, Alive, Launched

LEMMA PromiseHoldsInitially == Init => Promise!PromiseInit
  <1> SUFFICES ASSUME Init
               PROVE  Promise!PromiseInit
    OBVIOUS
  <1>1. [c \in Launched |-> life[c]] = [c \in Launched |-> "unborn"]
    BY DEF Init, Launched
  <1>2. [c \in Launched |-> raw_status[c]] = [c \in Launched |-> 0]
    BY DEF Init, Launched
  <1> QED
    BY <1>1, <1>2, ProcessPoolAssumption DEF Init, Promise!PromiseInit

LEMMA LaunchStarts ==
  ASSUME TypeOK, TableInv, NEW c \in Child, Launch(c)
  PROVE  c \in Launched /\ Promise!Start(c)
  <1>1. c \in Launched
    BY DEF TableInv, KernelInv, Launch, Launched
  <1>2. max_procs = 0 \/ Cardinality(Promise!InFlightNow) < max_procs
    BY InFlightIsAlive, TableCounts
    DEF TypeOK, TableInv, Launch, MayLaunch, Full
  <1>3. [d \in Launched |-> life[d]]' =
          [[d \in Launched |-> life[d]] EXCEPT ![c] = "running"]
    BY <1>1 DEF TypeOK, Launch, Launched
  <1>4. /\ pc = "full" /\ pc' = "caller" /\ ~halt /\ life[c] = "unborn"
        /\ UNCHANGED <<max_procs, child_max, raw_status, status, halt>>
    BY DEF Launch, MayLaunch
  <1>5. Promise!Moves(c, "unborn", "running")
    BY <1>1, <1>3, <1>4 DEF Promise!Moves
  <1>6. Promise!Start(c)
    BY <1>2, <1>4, <1>5, SameCount DEF Promise!Start
  <1> QED
    BY <1>1, <1>6

LEMMA ChildEndsItself ==
  ASSUME TypeOK, TableInv, NEW c \in Child, NEW r \in RawStatus, ChildExits(c, r)
  PROVE  (c \in Launched /\ Promise!End(c, r)) \/ UNCHANGED Promise!poolPromise
  <1>1. CASE c \notin Launched
    BY <1>1 DEF ChildExits, TypeOK, Launched, fields, Promise!poolPromise
  <1>2. CASE c \in Launched
    <2>1. pc # "start" /\ sigchld = "SIG_DFL"
      BY <1>2 DEF TableInv, KernelInv, ChildExits
    <2>2. [d \in Launched |-> life[d]]' =
            [[d \in Launched |-> life[d]] EXCEPT ![c] = "zombie"]
      BY <1>2, <2>1 DEF TypeOK, ChildExits, Launched
    <2>3. [d \in Launched |-> raw_status[d]]' =
            [[d \in Launched |-> raw_status[d]] EXCEPT ![c] = r]
      BY <1>2 DEF TypeOK, ChildExits, Launched
    <2>4. Promise!End(c, r)
      BY <1>2, <2>2, <2>3 DEF ChildExits, fields, Promise!End, Promise!Moves
    <2> QED
      BY <1>2, <2>4
  <1> QED
    BY <1>1, <1>2

\* Collecting a launched child is a step of the contract; collecting a stranger
\* ends phxargs on its assertion.
LEMMA ReapCollects ==
  ASSUME NoStrangers, TypeOK, TableInv, NEW c \in Child, reap_one(c)
  PROVE  \/ c \in Launched /\ Promise!Collected(c)
         \/ Promise!GiveUp
  <1>1. /\ Collect(c) /\ Waiting /\ life[c] = "zombie"
        /\ life' = [life EXCEPT ![c] = "reaped"]
        /\ UNCHANGED <<max_procs, child_max, raw_status>>
    BY DEF reap_one, ReapLaunched, ReapUnknown, ReapUnknownRelease,
           ReapUnknownDebug, Collect
  <1>2. pc \in {"full", "drain"}
    BY <1>1 DEF Waiting
  <1>3. CASE c \in Launched
    <2>1. \E i \in Slots : pids[i] = c
      BY <1>1, <1>2, <1>3 DEF TableInv, TableIsExact, Alive
    <2>2. AccountFor(c)
      BY <2>1 DEF reap_one, ReapLaunched, ReapUnknown, ReapUnknownRelease, ReapUnknownDebug
    <2>3. [d \in Launched |-> life[d]]' =
            [[d \in Launched |-> life[d]] EXCEPT ![c] = "reaped"]
      BY <1>1, <1>3 DEF TypeOK, Launched
    <2>4. /\ raw_status[c] \in RawStatus \cup {0} /\ status \in ExitStatuses
          /\ child_exit_status(raw_status[c]) \in ExitStatuses
      BY StatusTypes DEF TypeOK
    <2>5. /\ status' \in Promise!WorstOf(status, Promise!Meaning(raw_status[c]))
          /\ halt' = (halt \/ Promise!Meaning(raw_status[c]) = 124)
          /\ pc' = pc
      BY <2>2, <2>4, SameMeaning, AmongTheWorst DEF AccountFor
    <2>6. Promise!Collected(c)
      BY <1>1, <1>2, <1>3, <2>3, <2>5 DEF Promise!Collected, Promise!Moves
    <2> QED
      BY <1>3, <2>6
  <1>4. CASE c \notin Launched
    <2>1. ~NDEBUG /\ \A i \in Slots : pids[i] # c
      BY <1>2, <1>4 DEF NoStrangers, Launched, TableInv, TableIsExact
    <2>2. pc' = "aborted" /\ UNCHANGED <<count, status, halt, pids>>
      BY <2>1 DEF reap_one, ReapLaunched, ReapUnknown, ReapUnknownDebug
    <2>3. UNCHANGED [d \in Launched |-> life[d]]
      BY <1>1, <1>4 DEF TypeOK, Launched
    <2>4. Promise!GiveUp
      BY <1>1, <1>2, <2>2, <2>3 DEF Promise!GiveUp
    <2> QED
      BY <2>4
  <1> QED
    BY <1>3, <1>4

LEMMA AdjustMovesLimit ==
  ASSUME TypeOK, AdjustLimit
  PROVE  Promise!MoveLimit \/ UNCHANGED Promise!poolPromise
  <1>1. CASE max_procs = 0
    BY <1>1 DEF AdjustLimit, kernel, Promise!poolPromise
  <1>2. CASE max_procs # 0
    <2>1. /\ max_procs' = NewMax /\ NewMax \in Nat \ {0}
          /\ child_max > 0 => NewMax <= child_max
      BY <1>2, NewMaxPositive, ProcessPoolAssumption DEF AdjustLimit, NewMax, TypeOK
    <2>2. Promise!MoveLimit
      BY <1>2, <2>1 DEF AdjustLimit, kernel, Promise!MoveLimit
    <2> QED
      BY <2>2
  <1> QED
    BY <1>1, <1>2

\* Both ways out of the pool.
LEMMA PoolEnds ==
  ASSUME TypeOK, TableInv, DrainReturns \/ ForkFails \/ CallerExits
  PROVE  (DrainReturns /\ Promise!Drained) \/ Promise!GiveUp
  <1>1. CASE DrainReturns
    <2>1. Promise!InFlightNow = {}
      BY <1>1, InFlightIsAlive
      DEF DrainReturns, InFlight, TypeOK, TableInv, TableIsExact, Slots
    <2>2. Promise!Drained
      BY <1>1, <2>1 DEF DrainReturns, fields, kernel, Promise!Drained
    <2> QED
      BY <1>1, <2>2
  <1>2. CASE ForkFails \/ CallerExits
    <2>1. Promise!GiveUp
      BY <1>2 DEF ForkFails, MayLaunch, CallerExits, fields, kernel, Promise!GiveUp
    <2> QED
      BY <2>1
  <1> QED
    BY <1>1, <1>2

\* Every other step of the pool is one that its caller does not see.
LEMMA OtherStepsAreInternal ==
  ASSUME \/ process_pool_install_signal_handlers
         \/ ReadUsr1 \/ StartDrain \/ ReadUsr2 \/ MarkUsr1 \/ SkipHalted
         \/ on_sigusr1 \/ on_sigusr2 \/ RetryWaitpid \/ Terminated
         \/ UNCHANGED poolVars
  PROVE  UNCHANGED Promise!poolPromise
  BY DEF process_pool_install_signal_handlers, ReadUsr1, StartDrain, ReadUsr2,
         MarkUsr1, SkipHalted, on_sigusr1, on_sigusr2, RetryWaitpid, Terminated,
         poolVars, fields, kernel, Interruptible, Final, Promise!poolPromise

LEMMA PromiseStep ==
  ASSUME NoStrangers, TypeOK, TableInv, [Next]_poolVars
  PROVE  [Promise!PromiseNext]_(Promise!poolPromise)
  <1>1. ASSUME NEW c \in Child, Launch(c)
        PROVE  Promise!PromiseNext
    BY <1>1, LaunchStarts DEF Promise!PromiseNext
  <1>2. ASSUME NEW c \in Child, reap_one(c)
        PROVE  Promise!PromiseNext
    BY <1>2, ReapCollects DEF Promise!PromiseNext
  <1>3. ASSUME NEW c \in Child, NEW r \in RawStatus, ChildExits(c, r)
        PROVE  Promise!PromiseNext \/ UNCHANGED Promise!poolPromise
    BY <1>3, ChildEndsItself DEF Promise!PromiseNext
  <1>4. AdjustLimit => Promise!PromiseNext \/ UNCHANGED Promise!poolPromise
    BY AdjustMovesLimit DEF Promise!PromiseNext
  <1>5. DrainReturns \/ ForkFails \/ CallerExits => Promise!PromiseNext
    BY PoolEnds DEF Promise!PromiseNext
  <1> QED
    BY <1>1, <1>2, <1>3, <1>4, <1>5, OtherStepsAreInternal
    DEF Next, PoolStep, Environment

\* The pool does what PoolContract promises, and nothing else that its caller or
\* a child could notice (src/src/process_pool.c behind process_pool.h).
THEOREM PoolKeepsPromise ==
  ASSUME NoStrangers
  PROVE  Spec => KeepsPromise
  <1>1. TypeOK /\ TableInv /\ [Next]_poolVars
          => [Promise!PromiseNext]_(Promise!poolPromise)
    BY PromiseStep
  <1> QED
    BY <1>1, PromiseHoldsInitially, TypeCorrect, TableInvariant, PTL
    DEF Spec, KeepsPromise, Promise!PromiseSpec

=============================================================================
