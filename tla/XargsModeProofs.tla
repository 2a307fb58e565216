--------------------------- MODULE XargsModeProofs ---------------------------
(***************************************************************************)
(* What either mode shows of its pool: under the mapping of XargsMode a    *)
(* step of the pool is a step of XargsContract, which the mode may combine *)
(* with one of its own.                                                    *)
(***************************************************************************)
EXTENDS XargsMode, ProcessPoolProofs, SequenceTheorems

-----------------------------------------------------------------------------
(* Sequences. *)

\* What comes next after s in s, t, u is t.
LEMMA MiddlePart ==
  ASSUME NEW S, NEW s \in Seq(S), NEW t \in Seq(S), NEW u \in Seq(S)
  PROVE  SubSeq((s \o t) \o u, Len(s) + 1, Len(s) + Len(t)) = t
  <1>1. /\ Len(s) \in Nat /\ Len(t) \in Nat /\ Len(u) \in Nat
        /\ s \o t \in Seq(S) /\ Len(s \o t) = Len(s) + Len(t)
        /\ (s \o t) \o u \in Seq(S)
        /\ Len((s \o t) \o u) = Len(s) + Len(t) + Len(u)
    BY ConcatProperties, LenProperties
  <1>2. CASE Len(t) = 0
    <2>1. t = <<>>
      BY <1>2, EmptySeq
    <2> QED
      BY <1>1, <1>2, <2>1, SubSeqEmpty
  <1>3. CASE Len(t) # 0
    <2>1. SubSeq((s \o t) \o u, Len(s) + 1, Len(s) + Len(t))
            = SubSeq(s \o t, Len(s) + 1, Len(s) + Len(t))
      BY <1>1, <1>3, SubSeqOfConcat1
    <2>2. SubSeq(s \o t, Len(s) + 1, Len(s) + Len(t)) = SubSeq(t, 1, Len(t))
      BY <1>1, <1>3, SubSeqOfConcat2
    <2> QED
      BY <2>1, <2>2, SubSeqFull
  <1> QED
    BY <1>2, <1>3

LEMMA BeforeTheLast ==
  ASSUME NEW S, NEW s \in Seq(S), NEW e \in S
  PROVE  Len(Append(s, e)) = Len(s) + 1 /\ SubSeq(Append(s, e), 1, Len(s)) = s
  <1>1. Append(s, e) = (<<>> \o s) \o <<e>>
    BY AppendIsConcat, ConcatEmptySeq
  <1>2. SubSeq(Append(s, e), 1, Len(s)) = s
    BY <1>1, MiddlePart
  <1> QED
    BY <1>2, AppendProperties

LEMMA TheLast ==
  ASSUME NEW S, NEW s \in Seq(S), NEW e \in S
  PROVE  /\ SubSeq(Append(s, e), Len(s) + 1, Len(s) + 1) = <<e>>
         /\ Append(s, e) \in Seq(S) /\ Len(Append(s, e)) = Len(s) + 1 /\ Len(s) \in Nat
  <1>1. <<e>> \in Seq(S) /\ Len(<<e>>) = 1 /\ <<>> \in Seq(S)
    OBVIOUS
  <1>2. Append(s, e) = s \o <<e>> /\ (s \o <<e>>) \o <<>> = s \o <<e>>
    BY <1>1, AppendIsConcat, ConcatEmptySeq, ConcatProperties
  <1>3. SubSeq((s \o <<e>>) \o <<>>, Len(s) + 1, Len(s) + Len(<<e>>)) = <<e>>
    BY <1>1, MiddlePart
  <1> QED
    BY <1>1, <1>2, <1>3, AppendProperties, LenProperties

-----------------------------------------------------------------------------
(* The pool in the two contracts. *)

\* While phxargs runs, both contracts see the same pool.
LEMMA SamePool ==
  ASSUME pc \notin Final, pc' \notin Final
  PROVE  /\ \A c \in Launched : Promise!Start(c) => Whole!Start(c)
         /\ \A c \in Launched : Promise!Collected(c) => Whole!Collected(c)
         /\ Promise!MoveLimit => Whole!MoveLimit
         /\ UNCHANGED Promise!poolPromise => UNCHANGED Whole!poolPromise
  <1>1. \A S : Whole!Cardinality(S) = Promise!Cardinality(S)
    BY DEF Whole!Cardinality, Promise!Cardinality
  <1>2. Whole!InFlightNow = Promise!InFlightNow
    BY DEF Whole!InFlightNow, Promise!InFlightNow
  <1>3. ASSUME NEW c \in Launched, Promise!Start(c)
        PROVE  Whole!Start(c)
    BY <1>1, <1>2, <1>3 DEF Promise!Start, Whole!Start, Promise!Moves, Whole!Moves, Final
  <1>4. \A s : Whole!Meaning(s) = Promise!Meaning(s)
    BY DEF Whole!Meaning, Promise!Meaning
  <1>5. \A s, t : Whole!WorstOf(s, t) = Promise!WorstOf(s, t)
    BY DEF Whole!WorstOf, Promise!WorstOf, Whole!Outranks, Promise!Outranks
  <1>6. ASSUME NEW c \in Launched, Promise!Collected(c)
        PROVE  Whole!Collected(c)
    BY <1>4, <1>5, <1>6
    DEF Promise!Collected, Whole!Collected, Promise!Moves, Whole!Moves, Final
  <1>7. Promise!MoveLimit => Whole!MoveLimit
    BY DEF Promise!MoveLimit, Whole!MoveLimit, Final
  <1>8. UNCHANGED Promise!poolPromise => UNCHANGED Whole!poolPromise
    BY DEF Promise!poolPromise, Whole!poolPromise, Final
  <1> QED
    BY <1>3, <1>6, <1>7, <1>8

\* Where neither the pool nor the mode moves on, neither does the phase.
LEMMA SamePhase ==
  ASSUME UNCHANGED <<pc, at>>
  PROVE  /\ \A c \in Launched, r \in RawStatus : Promise!End(c, r) => Whole!End(c, r)
         /\ UNCHANGED Promise!poolPromise => UNCHANGED Whole!poolPromise
  <1>1. ASSUME NEW c \in Launched, NEW r \in RawStatus, Promise!End(c, r)
        PROVE  Whole!End(c, r)
    BY <1>1 DEF Promise!End, Whole!End, Promise!Moves, Whole!Moves
  <1>2. UNCHANGED Promise!poolPromise => UNCHANGED Whole!poolPromise
    BY DEF Promise!poolPromise, Whole!poolPromise
  <1> QED
    BY <1>1, <1>2

\* An end other than the return of the last drain is a failure.
LEMMA EndsInFailure ==
  ASSUME pc \notin Final, pc' \in Final, pc' # "done" \/ at' # "finishing",
         Promise!GiveUp \/ Promise!Drained
  PROVE  Whole!GiveUp
  BY DEF Promise!GiveUp, Promise!Drained, Whole!GiveUp, Final

LEMMA EndsDrained ==
  ASSUME pc \notin Final, pc' = "done", at' = "finishing", Promise!Drained
  PROVE  Whole!Drained
  <1>1. Whole!InFlightNow = Promise!InFlightNow
    BY DEF Whole!InFlightNow, Promise!InFlightNow
  <1> QED
    BY <1>1 DEF Promise!Drained, Whole!Drained, Final

-----------------------------------------------------------------------------
(* Steps of the pool on its own. *)

\* What the regular end of XargsContract asks for.
ReadyToFinish ==
  /\ ~tokenizer_err
  /\ given = read \/ halt
  /\ ~opts.arg_placeholder /\ ~opts.suppress_execution_on_empty_input /\ read = <<>>
       => ~Whole!Untouched

LEMMA PoolMovesKeepPromise ==
  ASSUME NoStrangers, TypeOK, TableInv, PoolMoves, at = "finishing" => ReadyToFinish
  PROVE  Whole!XargsNext \/ UNCHANGED Whole!xargsPromise
  <1>1. UNCHANGED Whole!arguments /\ at' = at
    BY DEF PoolMoves, modeVars, cmd, limits, reading, history, Whole!arguments
  <1>2. ASSUME \/ process_pool_install_signal_handlers
               \/ ReadUsr2 \/ MarkUsr1 \/ SkipHalted
        PROVE  UNCHANGED Whole!xargsPromise
    <2>1. UNCHANGED Promise!poolPromise
      BY <1>2, OtherStepsAreInternal
    <2>2. pc \notin Final /\ pc' \notin Final
      BY <1>2 DEF process_pool_install_signal_handlers, ReadUsr2, MarkUsr1, SkipHalted, Final
    <2> QED
      BY <1>1, <2>1, <2>2, SamePool DEF Whole!xargsPromise
  <1>3. ASSUME on_sigusr1 \/ on_sigusr2 \/ RetryWaitpid \/ Terminated
        PROVE  UNCHANGED Whole!xargsPromise
    <2>1. UNCHANGED Promise!poolPromise
      BY <1>3, OtherStepsAreInternal
    <2>2. UNCHANGED <<pc, at>>
      BY <1>1, <1>3 DEF on_sigusr1, on_sigusr2, RetryWaitpid, Terminated, poolVars
    <2> QED
      BY <1>1, <2>1, <2>2, SamePhase DEF Whole!xargsPromise
  <1>4. ASSUME AdjustLimit
        PROVE  Whole!XargsNext \/ UNCHANGED Whole!xargsPromise
    <2>1. Promise!MoveLimit \/ UNCHANGED Promise!poolPromise
      BY <1>4, AdjustMovesLimit
    <2>2. pc \notin Final /\ pc' \notin Final
      BY <1>4 DEF AdjustLimit, Final
    <2>3. Whole!MoveLimit \/ UNCHANGED Whole!poolPromise
      BY <2>1, <2>2, SamePool
    <2> QED
      BY <1>1, <2>3 DEF Whole!XargsNext, Whole!xargsPromise
  <1>5. ASSUME NEW c \in Child, reap_one(c)
        PROVE  Whole!XargsNext
    <2>1. pc \notin Final
      BY <1>5 DEF reap_one, ReapLaunched, ReapUnknown, ReapUnknownRelease,
             ReapUnknownDebug, Collect, Waiting, Final
    <2>2. CASE c \in Launched /\ Promise!Collected(c)
      <3>1. pc' \notin Final
        BY <2>2 DEF Promise!Collected, Final
      <3>2. Whole!Collected(c)
        BY <2>1, <2>2, <3>1, SamePool
      <3> QED
        BY <1>1, <2>2, <3>2 DEF Whole!XargsNext
    <2>3. CASE Promise!GiveUp
      <3>1. pc' \in Final /\ pc' # "done"
        BY <2>3 DEF Promise!GiveUp, Final
      <3>2. Whole!GiveUp
        BY <2>1, <2>3, <3>1, EndsInFailure
      <3> QED
        BY <1>1, <3>2 DEF Whole!XargsNext, Whole!ExitWithFailure
    <2> QED
      BY <1>5, <2>2, <2>3, ReapCollects
  <1>6. ASSUME ForkFails
        PROVE  Whole!XargsNext
    <2>1. pc \notin Final /\ pc' = "exited" /\ pc' \in Final
      BY <1>6 DEF ForkFails, MayLaunch, Final
    <2>2. Promise!GiveUp
      BY <1>6, <2>1, PoolEnds DEF DrainReturns
    <2>3. Whole!GiveUp
      BY <2>1, <2>2, EndsInFailure
    <2> QED
      BY <1>1, <2>3 DEF Whole!XargsNext, Whole!ExitWithFailure
  <1>7. ASSUME DrainReturns
        PROVE  Whole!XargsNext
    <2>1. pc \notin Final /\ pc' = "done" /\ pc' \in Final
      BY <1>7 DEF DrainReturns, Final
    <2>2. Promise!Drained \/ Promise!GiveUp
      BY <1>7, PoolEnds
    <2>3. CASE at # "finishing"
      <3>1. Whole!GiveUp
        BY <1>1, <2>1, <2>2, <2>3, EndsInFailure
      <3> QED
        BY <1>1, <3>1 DEF Whole!XargsNext, Whole!ExitWithFailure
    <2>4. CASE at = "finishing"
      <3>1. Promise!Drained
        BY <2>1, <2>2 DEF Promise!GiveUp
      <3>2. Whole!Drained
        BY <1>1, <2>1, <2>4, <3>1, EndsDrained
      <3>3. Whole!ExitWithStatus
        BY <1>1, <2>4, <3>2 DEF ReadyToFinish, Whole!ExitWithStatus
      <3> QED
        BY <3>3 DEF Whole!XargsNext
    <2> QED
      BY <2>3, <2>4
  <1>8. ASSUME NEW c \in Child, NEW r \in RawStatus, ChildExits(c, r)
        PROVE  Whole!XargsNext \/ UNCHANGED Whole!xargsPromise
    <2>1. UNCHANGED <<pc, at>>
      BY <1>1, <1>8 DEF ChildExits
    <2>2. (c \in Launched /\ Promise!End(c, r)) \/ UNCHANGED Promise!poolPromise
      BY <1>8, ChildEndsItself
    <2>3. (c \in Launched /\ Whole!End(c, r)) \/ UNCHANGED Whole!poolPromise
      BY <2>1, <2>2, SamePhase
    <2> QED
      BY <1>1, <2>3 DEF Whole!XargsNext, Whole!xargsPromise
  <1> QED
    BY <1>2, <1>3, <1>4, <1>5, <1>6, <1>7, <1>8 DEF PoolMoves, PoolStep, Environment

\* A call into the pool, or a step of the mode between two calls, does not show
\* in it; giving up does.
LEMMA CallsKeepPromise ==
  /\ UNCHANGED poolVars /\ pc = "caller" => UNCHANGED Whole!poolPromise
  /\ ReadUsr1 \/ StartDrain => UNCHANGED Whole!poolPromise
  /\ CallerExits /\ at' = at => Whole!GiveUp
  <1>1. ASSUME (UNCHANGED poolVars /\ pc = "caller") \/ ReadUsr1 \/ StartDrain
        PROVE  UNCHANGED Whole!poolPromise
    <2>1. UNCHANGED Promise!poolPromise
      BY <1>1, OtherStepsAreInternal
    <2>2. pc \notin Final /\ pc' \notin Final
      BY <1>1 DEF ReadUsr1, StartDrain, Final, poolVars
    <2> QED
      BY <2>1, <2>2, SamePool
  <1>2. ASSUME CallerExits, at' = at
        PROVE  Whole!GiveUp
    BY <1>2 DEF CallerExits, fields, kernel, Whole!GiveUp, Final
  <1> QED
    BY <1>1, <1>2

-----------------------------------------------------------------------------
(* Children that have been launched stay so, and only they halt the pool. *)

LEMMA TouchedStays ==
  ASSUME TypeOK, [Next]_poolVars, Whole!Untouched'
  PROVE  Whole!Untouched
  <1>1. ASSUME NEW c \in Launched, life[c] # "unborn"
        PROVE  life'[c] # "unborn"
    <2>1. CASE UNCHANGED life
      BY <1>1, <2>1
    <2>2. ASSUME NEW d \in Child, reap_one(d)
          PROVE  life' = [life EXCEPT ![d] = "reaped"]
      BY <2>2 DEF reap_one, ReapLaunched, ReapUnknown, ReapUnknownRelease,
             ReapUnknownDebug, Collect
    <2>3. ASSUME NEW d \in Child, Launch(d)
          PROVE  life' = [life EXCEPT ![d] = "running"]
      BY <2>3 DEF Launch
    <2>4. ASSUME NEW d \in Child, NEW r \in RawStatus, ChildExits(d, r)
          PROVE  \/ life' = [life EXCEPT ![d] = "zombie"]
                 \/ life' = [life EXCEPT ![d] = "gone"]
      BY <2>4 DEF ChildExits
    <2>5. \/ UNCHANGED life
          \/ \E d \in Child : \E v \in {"reaped", "running", "zombie", "gone"} :
               life' = [life EXCEPT ![d] = v]
      BY <2>2, <2>3, <2>4
      DEF Next, PoolStep, Environment, process_pool_install_signal_handlers, ReadUsr1,
          StartDrain, CallerExits, ReadUsr2, MarkUsr1, AdjustLimit, SkipHalted, ForkFails,
          DrainReturns, on_sigusr1, on_sigusr2, RetryWaitpid, Terminated, kernel, poolVars
    <2> QED
      BY <1>1, <2>1, <2>5 DEF TypeOK, Launched
  <1> QED
    BY <1>1 DEF Whole!Untouched

LEMMA UntouchedStays ==
  ASSUME TypeOK, Whole!Untouched,
         PoolMoves \/ ReadUsr1 \/ StartDrain \/ CallerExits \/ UNCHANGED poolVars
  PROVE  Whole!Untouched'
  <1>1. \A c \in Launched : c \in Child /\ life[c] = "unborn"
    BY DEF Whole!Untouched, Launched
  <1>2. ASSUME NEW d \in Child, reap_one(d)
        PROVE  life[d] # "unborn" /\ life' = [life EXCEPT ![d] = "reaped"]
    BY <1>2 DEF reap_one, ReapLaunched, ReapUnknown, ReapUnknownRelease,
           ReapUnknownDebug, Collect
  <1>3. ASSUME NEW d \in Child, NEW r \in RawStatus, ChildExits(d, r)
        PROVE  /\ life[d] # "unborn"
               /\ \/ life' = [life EXCEPT ![d] = "zombie"]
                  \/ life' = [life EXCEPT ![d] = "gone"]
    BY <1>3 DEF ChildExits
  <1>4. \/ UNCHANGED life
        \/ \E d \in Child : \E v \in {"reaped", "zombie", "gone"} :
             life[d] # "unborn" /\ life' = [life EXCEPT ![d] = v]
    BY <1>2, <1>3
    DEF PoolMoves, PoolStep, Environment, process_pool_install_signal_handlers, ReadUsr1,
        StartDrain, CallerExits, ReadUsr2, MarkUsr1, AdjustLimit, SkipHalted, ForkFails,
        DrainReturns, on_sigusr1, on_sigusr2, RetryWaitpid, Terminated, kernel, poolVars
  <1>5. \A c \in Launched : life'[c] = "unborn"
    BY <1>1, <1>4 DEF TypeOK
  <1> QED
    BY <1>5 DEF Whole!Untouched

HaltInvolvesChild == halt => ~Whole!Untouched

LEMMA HaltInvolvesChildStep ==
  ASSUME NoStrangers, TypeOK, TableInv, HaltInvolvesChild, [Next]_poolVars
  PROVE  HaltInvolvesChild'
  <1>1. CASE halt
    BY <1>1, TouchedStays DEF HaltInvolvesChild
  <1>2. ASSUME NEW c \in Child, reap_one(c), ~halt, halt'
        PROVE  ~Whole!Untouched'
    <2>1. c \in Launched /\ life'[c] = "reaped"
      <3>1. life' = [life EXCEPT ![c] = "reaped"]
        BY <1>2 DEF reap_one, ReapLaunched, ReapUnknown, ReapUnknownRelease,
               ReapUnknownDebug, Collect
      <3>2. c \in Launched
        BY <1>2, ReapCollects DEF Promise!GiveUp
      <3> QED
        BY <3>1, <3>2 DEF TypeOK
    <2> QED
      BY <2>1 DEF Whole!Untouched, Launched
  <1>3. ~halt /\ halt' => \E c \in Child : reap_one(c)
    BY DEF Next, PoolStep, Environment, process_pool_install_signal_handlers, ReadUsr1,
       StartDrain, CallerExits, ReadUsr2, MarkUsr1, AdjustLimit, SkipHalted, ForkFails,
       DrainReturns, Launch, ChildExits, on_sigusr1, on_sigusr2, RetryWaitpid, Terminated,
       fields, poolVars
  <1> QED
    BY <1>1, <1>2, <1>3 DEF HaltInvolvesChild

LEMMA WholeBegins == ModeInit => Whole!XargsInit /\ HaltInvolvesChild
  <1> SUFFICES ASSUME ModeInit
               PROVE  Whole!XargsInit /\ HaltInvolvesChild
    OBVIOUS
  <1>1. Init /\ Promise!PromiseInit
    BY PromiseHoldsInitially DEF ModeInit
  <1>2. Whole!PromiseInit
    BY <1>1 DEF Init, Promise!PromiseInit, Whole!PromiseInit, Final
  <1>3. tokenizer_err = FALSE /\ read = <<>> /\ given = <<>> /\ halt = FALSE
    BY <1>1 DEF ModeInit, Init
  <1> QED
    BY <1>2, <1>3 DEF Whole!XargsInit, HaltInvolvesChild

\* Outside of its calls the pool stands still.
LEMMA PoolRests ==
  ASSUME PoolMoves, pc \in {"start", "caller", "exited"}
  PROVE  pc' \in {"start", "caller", "exited"} /\ halt' = halt
  BY DEF PoolMoves, PoolStep, Environment, process_pool_install_signal_handlers, ReadUsr2,
     MarkUsr1, AdjustLimit, reap_one, ReapLaunched, ReapUnknown, ReapUnknownRelease,
     ReapUnknownDebug, Collect, Waiting, SkipHalted, ForkFails, MayLaunch, DrainReturns,
     ChildExits, on_sigusr1, on_sigusr2, RetryWaitpid, Terminated, fields, poolVars

=============================================================================
