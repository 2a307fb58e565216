---------------------------- MODULE ProgramProofs ----------------------------
(***************************************************************************)
(* Theorems about ReplacerMode and about Program, which is that mode with  *)
(* its input and its children.  Of the mode: its pool behaves as           *)
(* ProcessPool says; the k-th command is that of the k-th line, without a  *)
(* trace of another; and the mode implements XargsContract.  Of the        *)
(* program: it is still the phxargs of ReplacerMode; it reads its input    *)
(* once as long as nobody else moves the offset; it succeeds only if every *)
(* line had its command; and -p asks one question at a time.               *)
(***************************************************************************)
EXTENDS Program, XargsModeProofs

-----------------------------------------------------------------------------
(* The replacer mode is a client of the process pool. *)

\* What a step of the mode itself, not of the pool, does to the pool.
LEMMA ModeStepsCallThePool ==
  ReplacerModeStep => UNCHANGED poolVars \/ ReadUsr1 \/ StartDrain \/ CallerExits
<1> SUFFICES ASSUME ReplacerModeStep
             PROVE  UNCHANGED poolVars \/ ReadUsr1 \/ StartDrain \/ CallerExits
  OBVIOUS
<1>1. CASE ReadsInput
  BY <1>1 DEF ReadsInput, TokenRead, InputEnds, Goto
<1>2. CASE EnsureFits \/ AfterLine
  BY <1>2 DEF EnsureFits, AfterLine, ContinueUnlessHalted, Goto
<1>3. CASE ReplaceAndExecute
  BY <1>3 DEF ReplaceAndExecute, CallExecute
<1>4. CASE FailOnInputError \/ FinishLines
  BY <1>4 DEF FailOnInputError, FinishLines, CallDrain
<1>5. CASE LineTooLong
  BY <1>5 DEF LineTooLong, Exit
<1> QED
  BY <1>1, <1>2, <1>3, <1>4, <1>5 DEF ReplacerModeStep, ReplacerStep

LEMMA StepsOfThePool == [replacer_mode_run]_allVars => [Next]_poolVars
<1> SUFFICES ASSUME [replacer_mode_run]_allVars PROVE [Next]_poolVars
  OBVIOUS
<1>1. CASE ReplacerModeStep
  BY <1>1, ModeStepsCallThePool DEF Next
<1>2. CASE \E c \in Child : LaunchCommand(c)
  BY <1>2 DEF LaunchCommand, Next
<1>3. CASE PoolMoves
  BY <1>3 DEF PoolMoves, Next
<1>4. CASE UNCHANGED allVars
  BY <1>4 DEF allVars
<1> QED
  BY <1>1, <1>2, <1>3, <1>4 DEF replacer_mode_run

\* The mode of -I uses the pool as any client of ProcessPool may, so that every
\* theorem about ProcessPool!Spec holds with -I as well (replacer_mode_run).
THEOREM ReplacerUsesPool == ReplacerSpec => Spec
<1>1. ModeInit => Init
  BY DEF ModeInit
<1> QED
  BY <1>1, StepsOfThePool, PTL DEF ReplacerSpec, ReplacerInit, Spec

-----------------------------------------------------------------------------
(* One command for each line. *)

Replaced(line) == [i \in 1..FixedCount |-> line]

Executed == [args : {<<>>}, replaced : Seq(Token), length : Nat, lines : Nat]

\* The line in hand has not been replaced yet; it has, and waits for its
\* launch; no line is in hand.
InHand  == token \in Token /\ read = Append(given, token) /\ replaced_fixed_args = <<>>
Pending == token \in Token /\ read = Append(given, token)
                           /\ replaced_fixed_args = Replaced(token)
Settled == read = given /\ replaced_fixed_args = <<>>

\* The commands executed are those of the lines given away.
ExecutedGiven ==
  /\ executed \in Seq(Executed) /\ Len(executed) = Len(given)
  /\ \A k \in 1..Len(given) : executed[k].replaced = Replaced(given[k])

TypesOfLines ==
  /\ opts \in OptionChoices /\ opts.arg_placeholder
  /\ read \in Seq(Token) /\ given \in Seq(Token)
  /\ input_args = <<>> /\ input_length = 0 /\ line_count \in Nat

\* Strengthening: what is in hand at each point, and that a call that may yet
\* launch a command is made from one point only, with a line pending.
LinesInv ==
  /\ TypesOfLines
  /\ ExecutedGiven
  /\ pc = "start" => at = "next"
  /\ pc \in Asking => at = "executed" /\ Pending
  /\ at = "next" => Settled
  /\ at \in {"check", "replace"} => InHand
  /\ at = "executed" => Pending \/ Settled
  /\ at = "executed" /\ pc = "caller" => Settled \/ halt
  /\ at \in {"ended", "finishing", "failing"} =>
       read = given \/ (halt /\ read = Append(given, token))
  /\ at \in {"next", "check", "replace", "executed", "ended", "finishing", "failing"}

LEMMA LinesInitially == ReplacerInit => LinesInv
<1> SUFFICES ASSUME ReplacerInit PROVE LinesInv
  OBVIOUS
<1>1. TypesOfLines /\ Settled /\ at = "next" /\ pc = "start"
  BY DEF ReplacerInit, ModeInit, command_create, Init, TypesOfLines, Settled
<1>2. ExecutedGiven
  BY DEF ReplacerInit, ModeInit, ExecutedGiven
<1> QED
  BY <1>1, <1>2 DEF LinesInv, Asking

LEMMA LineRead ==
  ASSUME LinesInv, NEW len \in TokenLengths, NEW ends_line \in BOOLEAN,
         TokenRead(len, ends_line)
  PROVE  LinesInv'
<1>1. /\ at = "next" /\ at' = "check" /\ pc' = pc /\ pc = "caller"
      /\ read' = Append(read, token')
      /\ UNCHANGED <<opts, given, executed, input_args, input_length, replaced_fixed_args>>
      /\ line_count' = line_count + (IF ends_line THEN 1 ELSE 0)
      /\ token' = [id |-> Len(read) + 1, len |-> len, ends_line |-> ends_line]
  BY DEF TokenRead, Running, Goto, history, command_increment_line_count, limits, poolVars
<1>2. token' \in Token
  BY <1>1 DEF Token, LinesInv, TypesOfLines
<1>3. TypesOfLines' /\ ExecutedGiven'
  BY <1>1, <1>2, AppendProperties DEF LinesInv, TypesOfLines, ExecutedGiven
<1>4. InHand'
  BY <1>1, <1>2 DEF LinesInv, Settled, InHand
<1> QED
  BY <1>1, <1>3, <1>4 DEF LinesInv, Asking

\* The line takes the place of every placeholder.
LEMMA LineReplaced ==
  ASSUME LinesInv, ReplaceAndExecute
  PROVE  LinesInv'
<1>1. /\ at = "replace" /\ at' = "executed" /\ pc' = "usr2"
      /\ replaced_fixed_args' = replaced_fixed_args \o Replaced(token)
      /\ UNCHANGED <<opts, token, read, given, executed, input_args, input_length, line_count>>
  BY DEF ReplaceAndExecute, Running, CallExecute, ReadUsr1, command_replace_args,
     limits, reading, history, Replaced
<1>2. InHand
  BY <1>1 DEF LinesInv
<1>3. Replaced(token) \in Seq(Token)
  BY <1>2, CommandAssumption DEF Replaced, InHand
<1>4. Pending'
  BY <1>1, <1>2, <1>3, ConcatEmptySeq DEF InHand, Pending, Replaced
<1>5. TypesOfLines' /\ ExecutedGiven'
  BY <1>1 DEF LinesInv, TypesOfLines, ExecutedGiven
<1> QED
  BY <1>1, <1>4, <1>5 DEF LinesInv, Asking

\* A launch gives the pending line away; nothing of it stays behind.
LEMMA LineLaunched ==
  ASSUME LinesInv, NEW c \in Child, LaunchCommand(c)
  PROVE  LinesInv'
<1>1. pc = "full" /\ pc' = "caller" /\ at = "executed" /\ Pending
  BY DEF LaunchCommand, Launch, MayLaunch, LinesInv, Asking
<1>2. opts.arg_placeholder /\ opts \in OptionChoices
  BY DEF LinesInv, TypesOfLines
<1> DEFINE command == [args |-> input_args, replaced |-> replaced_fixed_args,
                       length |-> command_length, lines |-> line_count]
<1>3. /\ UNCHANGED <<opts, at, token, read>>
      /\ executed' = Append(executed, command)
      /\ given' = given \o <<token>>
      /\ input_args' = <<>> /\ input_length' = 0 /\ line_count' = 0
      /\ replaced_fixed_args' = <<>>
  BY <1>2 DEF LaunchCommand, recycle_command, limits, reading
<1>4. given' = Append(given, token) /\ given' = read /\ given' \in Seq(Token)
  BY <1>1, <1>3, AppendIsConcat DEF LinesInv, TypesOfLines, Pending
<1>5. command \in Executed
  <2>1. Replaced(token) \in Seq(Token)
    BY <1>1, CommandAssumption DEF Replaced, Pending
  <2>2. command_length \in Nat
    BY CommandAssumption DEF command_length, LinesInv, TypesOfLines
  <2> QED
    BY <1>1, <2>1, <2>2 DEF Executed, Pending, LinesInv, TypesOfLines
<1>6. ExecutedGiven'
  <2>1. /\ executed \in Seq(Executed) /\ given \in Seq(Token) /\ token \in Token
        /\ Len(executed) = Len(given)
    BY <1>1 DEF LinesInv, ExecutedGiven, TypesOfLines, Pending
  <2>2. /\ executed' \in Seq(Executed) /\ Len(executed') = Len(executed) + 1
        /\ Len(given') = Len(given) + 1
    BY <1>3, <1>4, <1>5, <2>1, AppendProperties
  <2>3. ASSUME NEW k \in 1..Len(given') PROVE executed'[k].replaced = Replaced(given'[k])
    <3>1. CASE k = Len(given) + 1
      <4>1. executed'[k] = command /\ given'[k] = token
        BY <1>3, <1>4, <1>5, <2>1, <3>1, AppendProperties
      <4> QED
        BY <1>1, <4>1 DEF Pending
    <3>2. CASE k # Len(given) + 1
      <4>1. k \in 1..Len(given)
        BY <2>1, <2>2, <3>2
      <4>2. executed'[k] = executed[k] /\ given'[k] = given[k]
        BY <1>3, <1>4, <1>5, <2>1, <4>1, AppendProperties
      <4> QED
        BY <4>1, <4>2 DEF LinesInv, ExecutedGiven
    <3> QED
      BY <3>1, <3>2
  <2> QED
    BY <2>1, <2>2, <2>3 DEF ExecutedGiven, Replaced
<1> QED
  BY <1>1, <1>3, <1>4, <1>6 DEF LinesInv, TypesOfLines, Settled, Asking

linesVars == <<opts, at, token, read, given, executed, input_args, input_length,
               line_count, replaced_fixed_args>>

\* The pool moves no line.
LEMMA LinesAtRest ==
  ASSUME LinesInv, UNCHANGED linesVars, PoolMoves \/ UNCHANGED poolVars, halt => halt'
  PROVE  LinesInv'
<1>1. /\ pc' \in Asking => pc \in Asking
      /\ pc' = "caller" => pc = "caller" \/ pc = "start" \/ halt'
      /\ pc' = "start" => pc = "start"
  BY CallsReturnHalted DEF PoolMoves
<1>2. /\ TypesOfLines' = TypesOfLines /\ ExecutedGiven' = ExecutedGiven
      /\ Pending' = Pending /\ InHand' = InHand /\ Settled' = Settled
  BY DEF linesVars, TypesOfLines, ExecutedGiven, Pending, InHand, Settled, Replaced
<1> QED
  BY <1>1, <1>2 DEF LinesInv, linesVars

\* Every other step only moves on, to where the line in hand may be.
LEMMA LinesStep == LinesInv /\ [replacer_mode_run]_allVars => LinesInv'
<1> SUFFICES ASSUME LinesInv, [replacer_mode_run]_allVars PROVE LinesInv'
  OBVIOUS
<1>0. halt => halt'
  BY StepsOfThePool, HaltStays
<1>1. CASE ReadsInput
  <2>1. CASE \E len \in TokenLengths, ends_line \in BOOLEAN : TokenRead(len, ends_line)
    BY <2>1, LineRead
  <2>2. ASSUME NEW err \in InputErrors, NEW ends_line \in BOOLEAN, InputEnds(err, ends_line)
        PROVE  LinesInv'
    <3>1. /\ at = "next" /\ at' = "ended" /\ pc = "caller" /\ pc' = pc
          /\ UNCHANGED <<opts, read, given, executed, input_args, input_length>>
          /\ line_count' = line_count + (IF ends_line THEN 1 ELSE 0)
      BY <2>2 DEF InputEnds, Running, Goto, history, command_increment_line_count, limits,
                  poolVars
    <3>2. TypesOfLines' /\ ExecutedGiven'
      BY <3>1 DEF LinesInv, TypesOfLines, ExecutedGiven
    <3> QED
      BY <3>1, <3>2 DEF LinesInv, Settled, Asking
  <2> QED
    BY <1>1, <2>1, <2>2 DEF ReadsInput
<1>2. ASSUME UNCHANGED <<cmd, reading, history>>
      PROVE  /\ TypesOfLines' /\ ExecutedGiven'
             /\ Pending' = Pending /\ InHand' = InHand /\ Settled' = Settled
             /\ UNCHANGED <<read, given, token>>
  BY <1>2 DEF LinesInv, cmd, limits, batch, reading, history, TypesOfLines, ExecutedGiven,
              Pending, InHand, Settled, Replaced
<1>3. CASE EnsureFits
  BY <1>2, <1>3 DEF EnsureFits, Running, Goto, poolVars, LinesInv, Asking
<1>4. CASE LineTooLong
  BY <1>2, <1>4 DEF LineTooLong, Running, Exit, CallerExits, LinesInv, Asking
<1>5. CASE ReplaceAndExecute
  BY <1>5, LineReplaced
<1>6. CASE AfterLine
  <2>1. /\ at = "executed" /\ pc = "caller" /\ pc' = pc
        /\ at' = IF halt THEN "ended" ELSE "next"
        /\ UNCHANGED <<cmd, reading, history>>
    BY <1>6 DEF AfterLine, ContinueUnlessHalted, Running, Goto, poolVars
  <2>2. Pending \/ Settled
    BY <2>1 DEF LinesInv
  <2>3. ~halt => Settled
    BY <2>1 DEF LinesInv
  <2> QED
    BY <1>0, <1>2, <2>1, <2>2, <2>3 DEF LinesInv, Asking, Pending, Settled
<1>7. CASE FailOnInputError \/ FinishLines
  <2>1. /\ at = "ended" /\ at' \in {"failing", "finishing"} /\ pc' = "drain"
        /\ UNCHANGED <<cmd, reading, history>>
    BY <1>7 DEF FailOnInputError, FinishLines, Running, CallDrain, StartDrain
  <2> QED
    BY <1>0, <1>2, <2>1 DEF LinesInv, Asking
<1>8. CASE \E c \in Child : LaunchCommand(c)
  BY <1>8, LineLaunched
<1>9. CASE PoolMoves \/ UNCHANGED allVars
  <2>1. UNCHANGED linesVars /\ (PoolMoves \/ UNCHANGED poolVars)
    BY <1>9 DEF PoolMoves, allVars, modeVars, cmd, limits, batch, reading, history, linesVars
  <2> QED
    BY <1>0, <2>1, LinesAtRest
<1> QED
  BY <1>1, <1>3, <1>4, <1>5, <1>6, <1>7, <1>8, <1>9 DEF replacer_mode_run, ReplacerModeStep, ReplacerStep

LEMMA LinesInvariant == ReplacerSpec => []LinesInv
  BY LinesInitially, LinesStep, PTL DEF ReplacerSpec, ReplacerInit

\* No line is skipped: commands are executed for the first lines, in order, and
\* at most the line in hand has none yet, unless the pool has halted
\* (replacer_mode_run).
THEOREM NoLineSkipped == ReplacerSpec => []LinesInOrder
<1>1. LinesInv => LinesInOrder
  BY DEF LinesInv, LinesInOrder, InHand, Pending, Settled
<1> QED
  BY <1>1, LinesInvariant, PTL

\* The k-th command holds the k-th line in every argument after the command
\* word, and nothing that an earlier command has left behind
\* (command_replace_args, recycle_command).
THEOREM EachLineItsCommand == ReplacerSpec => []OneCommandPerLine
<1>1. ASSUME LinesInv PROVE OneCommandPerLine
  <2>1. /\ executed \in Seq(Executed) /\ given \in Seq(Token)
        /\ Len(executed) = Len(given)
    BY <1>1 DEF LinesInv, ExecutedGiven, TypesOfLines
  <2>2. read = given \/ read = Append(given, token)
    BY <1>1 DEF LinesInv, InHand, Pending, Settled
  <2>3. ASSUME NEW k \in DOMAIN executed
        PROVE  /\ executed[k].replaced = [i \in 1..FixedCount |-> read[k]]
               /\ executed[k].args = <<>>
    <3>1. k \in 1..Len(given) /\ executed[k] \in Executed
      BY <2>1
    <3>2. read[k] = given[k]
      BY <2>1, <2>2, <3>1
    <3> QED
      BY <1>1, <3>1, <3>2 DEF LinesInv, ExecutedGiven, Replaced, Executed
  <2> QED
    BY <2>3 DEF OneCommandPerLine
<1> QED
  BY <1>1, LinesInvariant, PTL

-----------------------------------------------------------------------------
(* phxargs -I keeps its promise. *)

\* Strengthening: before the loop is left nothing has halted the pool, and an
\* error of the input leads straight out.
LoopInv ==
  /\ at \in {"next", "check", "replace"} => ~halt /\ pc \in {"start", "caller", "exited"}
  /\ tokenizer_err => at \in {"ended", "failing"}
  /\ tokenizer_err \in BOOLEAN

LEMMA LoopInvStep ==
  ASSUME LinesInv, LoopInv, [replacer_mode_run]_allVars
  PROVE  LoopInv'
<1>1. CASE ReadsInput
  BY <1>1, XargsModeAssumption
     DEF ReadsInput, TokenRead, InputEnds, Running, Goto, poolVars, fields, LoopInv
<1>2. CASE EnsureFits
  BY <1>2 DEF EnsureFits, Running, Goto, poolVars, fields, reading, LoopInv
<1>3. CASE LineTooLong
  BY <1>3 DEF LineTooLong, Running, Exit, CallerExits, fields, reading, LoopInv
<1>4. CASE ReplaceAndExecute
  BY <1>4 DEF ReplaceAndExecute, Running, CallExecute, reading, LoopInv
<1>5. CASE AfterLine
  BY <1>5 DEF AfterLine, ContinueUnlessHalted, Running, Goto, poolVars, fields, reading,
              LoopInv
<1>6. CASE FailOnInputError \/ FinishLines
  BY <1>6 DEF FailOnInputError, FinishLines, Running, CallDrain, reading, LoopInv
<1>7. ASSUME NEW c \in Child, LaunchCommand(c) PROVE LoopInv'
  BY <1>7 DEF LaunchCommand, Launch, MayLaunch, reading, LinesInv, Asking, LoopInv
<1>8. CASE PoolMoves
  <2>1. UNCHANGED <<at, tokenizer_err>>
    BY <1>8 DEF PoolMoves, modeVars, reading
  <2> QED
    BY <1>8, <2>1, PoolRests DEF LoopInv
<1>9. CASE UNCHANGED allVars
  BY <1>9 DEF allVars, modeVars, reading, poolVars, fields, LoopInv
<1> QED
  BY <1>1, <1>2, <1>3, <1>4, <1>5, <1>6, <1>7, <1>8, <1>9
     DEF replacer_mode_run, ReplacerModeStep, ReplacerStep

LEMMA LoopInvariant == ReplacerSpec => []LoopInv
<1>1. ModeInit => LoopInv
  BY DEF ModeInit, Init, LoopInv
<1> QED
  BY <1>1, LoopInvStep, LinesInvariant, PTL DEF ReplacerSpec, ReplacerInit

\* A launch gives away the line that comes next.
LEMMA LaunchGivesNextLine ==
  ASSUME TypeOK, TableInv, LinesInv, LoopInv, NEW c \in Child, LaunchCommand(c)
  PROVE  Whole!XargsNext
<1>1. Launch(c) /\ pc = "full" /\ pc' = "caller" /\ UNCHANGED <<at, read, tokenizer_err>>
  BY DEF LaunchCommand, Launch, MayLaunch, reading
<1>2. at = "executed" /\ Pending /\ ~tokenizer_err
  BY <1>1 DEF LinesInv, Asking, LoopInv
<1>3. c \in Launched /\ Promise!Start(c)
  BY <1>1, LaunchStarts
<1>4. Whole!Start(c)
  BY <1>1, <1>3, SamePool DEF Final
<1>5. opts.arg_placeholder /\ UNCHANGED opts /\ given' = given \o <<token>>
  BY DEF LaunchCommand, recycle_command, limits, LinesInv, TypesOfLines
<1>6. /\ given \in Seq(Token) /\ token \in Token /\ read = Append(given, token)
      /\ Len(read) = Len(given) + 1 /\ read \in Seq(Token)
  BY <1>2, AppendProperties DEF Pending, LinesInv, TypesOfLines
<1>7. SubSeq(read, Len(given) + 1, Len(given) + 1) = <<token>>
  BY <1>6, TheLast
<1>8. 1 \in 0 .. Len(read) - Len(given) /\ UNCHANGED read
      /\ given' = given \o SubSeq(read, Len(given) + 1, Len(given) + 1)
  <2>1. Len(given) \in Nat /\ Len(read) - Len(given) = 1
    BY <1>6, TheLast
  <2> QED
    <3>1. 1 \in 0 .. Len(read) - Len(given)
      BY <2>1
    <3> QED
      BY <1>1, <1>5, <1>7, <3>1
<1>9. Whole!Execute(c)
  BY <1>1, <1>2, <1>4, <1>5, <1>8 DEF Whole!Execute
<1> QED
  BY <1>3, <1>9 DEF Whole!XargsNext

\* Each step of phxargs -I is one of the contract, or does not show in it.
LEMMA LinesAsPromised ==
  ASSUME NoStrangers, TypeOK, TableInv, LinesInv, LoopInv, [replacer_mode_run]_allVars
  PROVE  Whole!XargsNext \/ UNCHANGED Whole!xargsPromise
<1>1. ASSUME NEW len \in TokenLengths, NEW ends_line \in BOOLEAN, TokenRead(len, ends_line)
      PROVE  Whole!XargsNext
  <2>1. /\ pc = "caller" /\ at = "next" /\ UNCHANGED poolVars
        /\ read' = Append(read, token')
        /\ UNCHANGED <<opts, tokenizer_err, given>>
    BY <1>1 DEF TokenRead, Running, Goto, history, command_increment_line_count, limits
  <2>2. ~halt /\ ~tokenizer_err /\ read \in Seq(Token)
    BY <2>1 DEF LoopInv, LinesInv, TypesOfLines
  <2>3. Len(read') = Len(read) + 1 /\ SubSeq(read', 1, Len(read)) = read
    <3>1. token' = [id |-> Len(read) + 1, len |-> len, ends_line |-> ends_line]
      BY <1>1 DEF TokenRead
    <3>2. token' \in Token
      BY <2>2, <3>1 DEF Token
    <3> QED
      BY <2>1, <2>2, <3>2, BeforeTheLast
  <2>4. UNCHANGED Whole!poolPromise
    BY <2>1, CallsKeepPromise
  <2>5. Whole!Take
    BY <2>1, <2>2, <2>3, <2>4 DEF Whole!Take, Final
  <2> QED
    BY <2>5 DEF Whole!XargsNext
<1>2. ASSUME NEW err \in InputErrors, NEW ends_line \in BOOLEAN, InputEnds(err, ends_line)
      PROVE  Whole!XargsNext \/ UNCHANGED Whole!xargsPromise
  <2>1. /\ pc = "caller" /\ at = "next" /\ UNCHANGED poolVars
        /\ tokenizer_err' = err
        /\ UNCHANGED <<opts, read, given>>
    BY <1>2 DEF InputEnds, Running, Goto, history, command_increment_line_count, limits
  <2>2. ~halt /\ tokenizer_err = FALSE /\ err \in BOOLEAN
    BY <2>1, XargsModeAssumption DEF LoopInv
  <2>3. UNCHANGED Whole!poolPromise
    BY <2>1, CallsKeepPromise
  <2>4. CASE err
    <3>1. Whole!InputBreaks
      BY <2>1, <2>2, <2>3, <2>4 DEF Whole!InputBreaks, Final
    <3> QED
      BY <3>1 DEF Whole!XargsNext
  <2>5. CASE ~err
    <3>1. tokenizer_err' = tokenizer_err
      BY <2>1, <2>2, <2>5
    <3> QED
      BY <2>1, <2>3, <3>1 DEF Whole!xargsPromise, Whole!arguments
  <2> QED
    BY <2>4, <2>5
<1>3. CASE EnsureFits \/ ReplaceAndExecute \/ AfterLine \/ FailOnInputError \/ FinishLines
  <2>1. /\ UNCHANGED <<opts, read, given, tokenizer_err>>
        /\ (UNCHANGED poolVars /\ pc = "caller") \/ ReadUsr1 \/ StartDrain
    BY <1>3 DEF EnsureFits, ReplaceAndExecute, AfterLine, ContinueUnlessHalted,
                FailOnInputError, FinishLines, Running, Goto, CallExecute, CallDrain, cmd, limits,
                reading, history, command_replace_args
  <2> QED
    BY <2>1, CallsKeepPromise DEF Whole!xargsPromise, Whole!arguments
<1>4. CASE LineTooLong
  <2>1. CallerExits /\ at' = at /\ UNCHANGED <<opts, read, given, tokenizer_err>>
    BY <1>4 DEF LineTooLong, Exit, cmd, limits, reading, history
  <2> QED
    BY <2>1, CallsKeepPromise
       DEF Whole!XargsNext, Whole!ExitWithFailure, Whole!arguments
<1>5. ASSUME NEW c \in Child, LaunchCommand(c)
      PROVE  Whole!XargsNext
  BY <1>5, LaunchGivesNextLine
<1>6. CASE PoolMoves
  <2>1. at = "finishing" => ReadyToFinish
    BY DEF LinesInv, TypesOfLines, LoopInv, ReadyToFinish
  <2> QED
    BY <1>6, <2>1, PoolMovesKeepPromise
<1>7. CASE UNCHANGED allVars
  <2>1. UNCHANGED Whole!poolPromise
    <3>1. UNCHANGED Promise!poolPromise /\ UNCHANGED <<pc, at>>
      BY <1>7, OtherStepsAreInternal DEF allVars, modeVars, poolVars
    <3> QED
      BY <3>1, SamePhase
  <2> QED
    BY <1>7, <2>1 DEF allVars, modeVars, cmd, limits, reading, history,
                      Whole!xargsPromise, Whole!arguments
<1> QED
  BY <1>1, <1>2, <1>3, <1>4, <1>5, <1>6, <1>7
     DEF replacer_mode_run, ReplacerModeStep, ReadsInput, ReplacerStep

\* With -I phxargs keeps XargsContract: lines reach children once and in order,
\* none is read after a halt, and the worst status is reported only when every
\* line has been given away or a child has halted (replacer_mode_run).
THEOREM ReplacerKeepsPromise ==
  ASSUME NoStrangers
  PROVE  ReplacerSpec => KeepsXargsPromise
<1>1. ModeInit => Whole!XargsInit /\ LoopInv
  BY WholeBegins DEF ModeInit, Init, LoopInv
<1>2. TypeOK /\ TableInv /\ LinesInv /\ LoopInv /\ [replacer_mode_run]_allVars
        => [Whole!XargsNext]_(Whole!xargsPromise) /\ LoopInv'
  BY LinesAsPromised, LoopInvStep
<1> QED
  BY <1>1, <1>2, ReplacerUsesPool, TypeCorrect, TableInvariant, LinesInvariant, PTL
  DEF ReplacerSpec, ReplacerInit, KeepsXargsPromise, Whole!XargsSpec

-----------------------------------------------------------------------------
(* The replacer mode at work. *)

LEMMA StepsOfTheMode == [ProgramNext]_programVars => [replacer_mode_run]_allVars
<1> SUFFICES ASSUME [ProgramNext]_programVars PROVE [replacer_mode_run]_allVars
  OBVIOUS
<1>1. CASE ReadItem
  BY <1>1 DEF ReadItem, replacer_mode_run, ReplacerModeStep, ReadsInput
<1>2. CASE ReadEndOfFile
  BY <1>2 DEF ReadEndOfFile, replacer_mode_run, ReplacerModeStep, ReadsInput
<1>3. ASSUME NEW c \in Child, ForkCommand(c) PROVE replacer_mode_run
  BY <1>3 DEF ForkCommand, replacer_mode_run
<1>4. ASSUME NEW c \in Child, ChildStep(c) PROVE [replacer_mode_run]_allVars
  BY <1>4 DEF ChildStep, replacer_mode_run, PoolMoves, Environment
<1>5. CASE ParentStep
  BY <1>5 DEF ParentStep, replacer_mode_run, ReplacerModeStep, PoolMoves
<1>6. CASE SignalArrives \/ ((RetryWaitpid \/ Terminated) /\ UNCHANGED <<modeVars, childVars>>)
  BY <1>6 DEF SignalArrives, replacer_mode_run, PoolMoves, Environment
<1>7. CASE UNCHANGED programVars
  BY <1>7 DEF programVars
<1> QED
  BY <1>1, <1>2, <1>3, <1>4, <1>5, <1>6, <1>7 DEF ProgramNext

\* Whatever its input and its children do, phxargs behaves as ReplacerMode says,
\* so that the theorems about that mode and about the pool hold for the whole
\* program (main, replacer_mode_run).
THEOREM ProgramRunsMode == ProgramSpec => ReplacerSpec
<1>1. ProgramInit => ReplacerInit
  BY DEF ProgramInit
<1> QED
  BY <1>1, StepsOfTheMode, PTL DEF ProgramSpec, ReplacerSpec

-----------------------------------------------------------------------------
(* The children. *)

Steps == {"unborn", "forked", "asking", "skipping", "confirmed", "refused", "reopened",
          "command", "command at tty", "ended"}

\* Where no command has taken the place of the child yet.
BeforeExec == {"unborn", "forked", "asking", "skipping", "confirmed", "refused", "reopened"}

Commands == {"command", "command at tty"}

\* A child meets its fate once, at exec or at the exit that comes instead; under
\* -o no command gets at the input.
FatesInv ==
  /\ step \in [Child -> Steps]
  /\ fate \in [Child -> {"none", "run", "refused", "not run"}]
  /\ \A c \in Child :
       /\ step[c] \in BeforeExec => fate[c] = "none"
       /\ step[c] \in Commands => fate[c] = "run"
       /\ step[c] = "ended" => fate[c] # "none"
       /\ open_tty => step[c] # "command"

\* From where a child moves on or ends, and what of it remains.
LEMMA ChildMoved ==
  ASSUME FatesInv, NEW c \in Child, ChildMoves(c)
  PROVE  /\ step[c] \notin {"unborn", "ended"}
         /\ \E to \in Steps \ {"unborn", "ended"} : step' = [step EXCEPT ![c] = to]
         /\ UNCHANGED childOptions
         /\ FatesInv'
         /\ \A d \in Child : d # c => fate'[d] = fate[d]
<1>1. CASE \/ SkipPrompt(c) \/ OpenTty(c) \/ ReadYes(c) \/ ReadOther(c) \/ ReadBlank(c)
           \/ SkipRestOfLine(c) \/ ReopenStdin(c)
  <2>1. /\ step[c] \in BeforeExec \ {"unborn"} /\ UNCHANGED <<fate, childOptions>>
        /\ \E to \in BeforeExec \ {"unborn"} : step' = [step EXCEPT ![c] = to]
    BY <1>1 DEF SkipPrompt, OpenTty, ReadYes, ReadOther, ReadBlank, SkipRestOfLine,
                ReopenStdin, Continue, Proceed, BeforeExec
  <2> QED
    BY <2>1 DEF FatesInv, BeforeExec, Commands, Steps, childOptions
<1>2. CASE Exec(c)
  <2> DEFINE to == IF step[c] = "reopened" THEN "command at tty" ELSE "command"
  <2>1. /\ step[c] = (IF open_tty THEN "reopened" ELSE "confirmed")
        /\ step' = [step EXCEPT ![c] = to] /\ fate' = [fate EXCEPT ![c] = "run"]
        /\ UNCHANGED childOptions
    BY <1>2 DEF Exec, ReadyToExec, Proceed, Settle
  <2> QED
    BY <2>1 DEF FatesInv, BeforeExec, Commands, Steps, childOptions
<1>3. CASE CommandReads(c)
  <2>1. step[c] = "command" /\ UNCHANGED <<childOptions, step, fate>>
    BY <1>3 DEF CommandReads
  <2>2. step' = [step EXCEPT ![c] = "command"]
    BY <2>1 DEF FatesInv
  <2> QED
    BY <2>1, <2>2 DEF FatesInv, Steps, childOptions
<1> QED
  BY <1>1, <1>2, <1>3 DEF ChildMoves

LEMMA ChildEnded ==
  ASSUME FatesInv, NEW c \in Child, NEW raw \in RawStatus, ChildEnds(c, raw)
  PROVE  /\ step[c] \notin {"unborn", "ended"}
         /\ step' = [step EXCEPT ![c] = "ended"]
         /\ UNCHANGED childOptions
         /\ FatesInv'
         /\ fate'[c] = "not run" => raw # 0
         /\ \A d \in Child : d # c => fate'[d] = fate[d]
<1>1. CASE CommandEnds(c)
  <2>1. step[c] \in Commands /\ step' = [step EXCEPT ![c] = "ended"]
        /\ UNCHANGED <<fate, childOptions>>
    BY <1>1 DEF CommandEnds, Continue, Proceed, Commands
  <2> QED
    BY <2>1 DEF FatesInv, BeforeExec, Commands, Steps, childOptions
<1>2. ASSUME NEW f \in {"refused", "not run"},
             step[c] \in BeforeExec \ {"unborn"}, step' = [step EXCEPT ![c] = "ended"],
             fate' = [fate EXCEPT ![c] = f], UNCHANGED childOptions,
             f = "not run" => raw # 0
      PROVE  /\ step[c] \notin {"unborn", "ended"}
             /\ FatesInv'
             /\ fate'[c] = "not run" => raw # 0
             /\ \A d \in Child : d # c => fate'[d] = fate[d]
  BY <1>2 DEF FatesInv, BeforeExec, Commands, Steps, childOptions
<1>3. CASE (CannotOpenTty(c) \/ CannotReopenStdin(c)) /\ raw = 1
  <2>1. /\ step[c] \in {"forked", "confirmed"} /\ step' = [step EXCEPT ![c] = "ended"]
        /\ fate' = [fate EXCEPT ![c] = "not run"] /\ UNCHANGED childOptions
    BY <1>3 DEF CannotOpenTty, CannotReopenStdin, exit, Proceed, Settle
  <2>2. raw # 0
    BY <1>3
  <2>3. step[c] \in BeforeExec \ {"unborn"}
    BY <2>1 DEF BeforeExec
  <2> QED
    BY <1>2, <2>1, <2>2, <2>3
<1>4. CASE Refuse(c)
  BY <1>2, <1>4 DEF Refuse, exit, Proceed, Settle, BeforeExec
<1>5. CASE ExecFails(c) /\ \E errno \in {"E2BIG", "ENOENT", "EACCES"} : raw = exec_status(errno)
  <2>1. raw # 0
    BY <1>5 DEF exec_status
  <2>2. step[c] \in BeforeExec \ {"unborn"}
    BY <1>5 DEF ExecFails, ReadyToExec, BeforeExec
  <2>3. /\ step' = [step EXCEPT ![c] = "ended"] /\ fate' = [fate EXCEPT ![c] = "not run"]
        /\ UNCHANGED childOptions
    BY <1>5 DEF ExecFails, exit, Proceed, Settle
  <2> QED
    BY <1>2, <2>1, <2>2, <2>3
<1> QED
  BY <1>1, <1>3, <1>4, <1>5 DEF ChildEnds

\* The steps of the parent, but for the fork, of the input, and the signals.
ParentActs ==
  \/ ReadItem \/ ReadEndOfFile \/ ParentStep \/ SignalArrives
  \/ (RetryWaitpid \/ Terminated) /\ UNCHANGED <<modeVars, childVars>>
  \/ UNCHANGED programVars

\* They leave the children alone, except that they collect the ended ones.
LEMMA ParentOnlyCollects ==
  ASSUME ParentActs
  PROVE  /\ UNCHANGED <<childOptions, step, fate, raw_status, requested_procs>>
         /\ UNCHANGED sigusr1_count \/ sigusr1_count' = sigusr1_count + 1
         /\ \/ UNCHANGED life
            \/ \E c \in Child : life[c] = "zombie" /\ life' = [life EXCEPT ![c] = "reaped"]
<1>1. UNCHANGED <<childOptions, step, fate>>
  BY DEF ParentActs, ReadItem, ReadEndOfFile, ParentStep, SignalArrives, programVars, childVars
<1>2. ASSUME NEW c \in Child, reap_one(c)
      PROVE  /\ UNCHANGED <<raw_status, sigusr1_count, requested_procs>>
             /\ life[c] = "zombie" /\ life' = [life EXCEPT ![c] = "reaped"]
  BY <1>2 DEF reap_one, ReapLaunched, ReapUnknown, ReapUnknownRelease, ReapUnknownDebug,
              Collect, counters
<1>3. CASE \/ process_pool_install_signal_handlers
           \/ ReadUsr2 \/ MarkUsr1 \/ AdjustLimit \/ SkipHalted \/ ForkFails \/ DrainReturns
           \/ ReadUsr1 \/ StartDrain \/ CallerExits \/ UNCHANGED poolVars
  BY <1>1, <1>3
     DEF process_pool_install_signal_handlers, ReadUsr2, MarkUsr1, AdjustLimit, SkipHalted,
         ForkFails, DrainReturns, ReadUsr1, StartDrain, CallerExits, poolVars, kernel, counters
<1>4. CASE ReadItem \/ ReadEndOfFile
  BY <1>3, <1>4 DEF ReadItem, ReadEndOfFile, TokenRead, InputEnds, Goto
<1>5. CASE ParentStep
  BY <1>1, <1>2, <1>3, <1>5, ModeStepsCallThePool DEF ParentStep, ReplacerModeStep, PoolStep
<1>6. CASE RetryWaitpid \/ Terminated \/ UNCHANGED programVars
  BY <1>3, <1>6 DEF RetryWaitpid, Terminated, programVars, allVars
<1>7. CASE SignalArrives
  BY <1>1, <1>7 DEF SignalArrives, on_sigusr1, on_sigusr2, kernel
<1> QED
  BY <1>4, <1>5, <1>6, <1>7 DEF ParentActs

LEMMA WhoActs ==
  ASSUME [ProgramNext]_programVars
  PROVE  \/ ParentActs
         \/ \E c \in Child : \/ ForkCommand(c)
                             \/ ChildMoves(c) /\ UNCHANGED allVars
                             \/ \E raw \in RawStatus : /\ ChildEnds(c, raw)
                                                       /\ ChildExits(c, raw)
                                                       /\ UNCHANGED modeVars
  BY DEF ProgramNext, ParentActs, ChildStep

LEMMA ChildForked ==
  ASSUME FatesInv, NEW c \in Child, ForkCommand(c)
  PROVE  /\ step[c] = "unborn" /\ step' = [step EXCEPT ![c] = "forked"]
         /\ life[c] = "unborn" /\ life' = [life EXCEPT ![c] = "running"]
         /\ UNCHANGED <<fate, childOptions, raw_status, counters, requested_procs>>
         /\ FatesInv'
<1>1. /\ step[c] = "unborn" /\ step' = [step EXCEPT ![c] = "forked"]
      /\ UNCHANGED <<fate, childOptions>>
  BY DEF ForkCommand, Fork, Proceed
<1>2. /\ life[c] = "unborn" /\ life' = [life EXCEPT ![c] = "running"]
      /\ UNCHANGED <<raw_status, counters, requested_procs>>
  BY DEF ForkCommand, LaunchCommand, Launch
<1>3. FatesInv'
  BY <1>1 DEF FatesInv, BeforeExec, Commands, Steps, childOptions
<1> QED
  BY <1>1, <1>2, <1>3

LEMMA FatesStep == FatesInv /\ [ProgramNext]_programVars => FatesInv'
<1> SUFFICES ASSUME FatesInv, [ProgramNext]_programVars PROVE FatesInv'
  OBVIOUS
<1>1. CASE ParentActs
  <2>1. UNCHANGED <<childOptions, step, fate>>
    BY <1>1, ParentOnlyCollects
  <2> QED
    BY <2>1 DEF FatesInv, childOptions
<1> QED
  BY <1>1, WhoActs, ChildForked, ChildMoved, ChildEnded

\* The process of a child lives as long as the child has something left to do,
\* and of a command that was not run it tells by its status.
LivesInv ==
  \A c \in Child :
    /\ c \in Inherited => step[c] = "unborn"
    /\ c \in Launched => (step[c] = "unborn" <=> life[c] = "unborn")
    /\ step[c] \notin {"unborn", "ended"} => life[c] = "running"
    /\ fate[c] = "not run" => raw_status[c] # 0

LEMMA LivesStep ==
  TypeOK /\ KernelInv /\ FatesInv /\ LivesInv /\ [ProgramNext]_programVars => LivesInv'
<1> SUFFICES ASSUME TypeOK, KernelInv, FatesInv, LivesInv, [ProgramNext]_programVars
             PROVE  LivesInv'
  OBVIOUS
<1> USE DEF LivesInv, Launched
<1>1. CASE ParentActs
  <2>1. /\ UNCHANGED <<step, fate, raw_status>>
        /\ \/ UNCHANGED life
           \/ \E c \in Child : life[c] = "zombie" /\ life' = [life EXCEPT ![c] = "reaped"]
    BY <1>1, ParentOnlyCollects
  <2> QED
    BY <2>1 DEF TypeOK
<1>2. ASSUME NEW c \in Child, ForkCommand(c) PROVE LivesInv'
  <2>1. /\ step[c] = "unborn" /\ step' = [step EXCEPT ![c] = "forked"]
        /\ life[c] = "unborn" /\ life' = [life EXCEPT ![c] = "running"]
        /\ UNCHANGED <<fate, raw_status>>
    BY <1>2, ChildForked
  <2>2. c \notin Inherited
    BY <2>1 DEF KernelInv
  <2> QED
    BY <2>1, <2>2 DEF TypeOK, FatesInv
<1>3. ASSUME NEW c \in Child, ChildMoves(c), UNCHANGED allVars PROVE LivesInv'
  <2>1. /\ step[c] \notin {"unborn", "ended"} /\ FatesInv'
        /\ \E to \in Steps \ {"unborn", "ended"} : step' = [step EXCEPT ![c] = to]
        /\ \A d \in Child : d # c => fate'[d] = fate[d]
    BY <1>3, ChildMoved
  <2>2. UNCHANGED <<life, raw_status>>
    BY <1>3 DEF allVars, poolVars, kernel
  <2>3. fate'[c] # "not run"
    BY <2>1 DEF FatesInv, BeforeExec, Commands, Steps
  <2> QED
    BY <2>1, <2>2, <2>3 DEF FatesInv
<1>4. ASSUME NEW c \in Child, NEW raw \in RawStatus, ChildEnds(c, raw), ChildExits(c, raw)
      PROVE  LivesInv'
  <2>1. /\ step[c] \notin {"unborn", "ended"} /\ step' = [step EXCEPT ![c] = "ended"]
        /\ fate'[c] = "not run" => raw # 0
        /\ \A d \in Child : d # c => fate'[d] = fate[d]
    BY <1>4, ChildEnded
  <2>2. /\ \E v \in {"zombie", "gone"} : life' = [life EXCEPT ![c] = v]
        /\ raw_status' = [raw_status EXCEPT ![c] = raw]
    BY <1>4 DEF ChildExits
  <2> QED
    BY <2>1, <2>2 DEF TypeOK, FatesInv
<1> QED
  BY <1>1, <1>2, <1>3, <1>4, WhoActs

LEMMA ChildrenInvariant == ProgramSpec => [](FatesInv /\ LivesInv)
<1>1. ProgramInit => FatesInv /\ LivesInv
  <2> SUFFICES ASSUME ProgramInit PROVE FatesInv /\ LivesInv
    OBVIOUS
  <2>1. step = [c \in Child |-> "unborn"] /\ fate = [c \in Child |-> "none"]
    BY DEF ProgramInit, ChildInit
  <2>2. life = [c \in Child |-> IF c \in Inherited THEN "running" ELSE "unborn"]
    BY DEF ProgramInit, ReplacerInit, ModeInit, Init
  <2> QED
    BY <2>1, <2>2 DEF FatesInv, LivesInv, BeforeExec, Commands, Steps, Launched
<1>2. Init => KernelInv
  BY ProcessPoolAssumption DEF Init, KernelInv, Launched
<1> QED
  BY <1>1, <1>2, FatesStep, LivesStep, KernelStep, ProgramRunsMode, ReplacerUsesPool,
     TypeCorrect, PTL DEF ProgramSpec, Spec

-----------------------------------------------------------------------------
(* One question at a time. *)

\* Without SIGUSR1 a limit of 1 stays so, and it keeps a second child from being
\* launched before the first has been collected.
OneChildInv ==
  /\ prompt => requested_procs \in {0, 1}
  /\ requested_procs = 1 /\ sigusr1_count = 0 => \A c, d \in Alive \cap Launched : c = d

LEMMA OneChildStep ==
  TypeOK /\ TableInv /\ LimitInv /\ OneChildInv /\ FatesInv /\ [ProgramNext]_programVars
    => OneChildInv'
<1> SUFFICES ASSUME TypeOK, TableInv, LimitInv, OneChildInv, FatesInv,
                    [ProgramNext]_programVars
             PROVE  OneChildInv'
  OBVIOUS
<1>1. ASSUME UNCHANGED <<childOptions, requested_procs>>,
             UNCHANGED sigusr1_count \/ sigusr1_count' = sigusr1_count + 1,
             \A c \in Child : life'[c] \in {"running", "zombie"} =>
                                life[c] \in {"running", "zombie"}
      PROVE  OneChildInv'
  <2>1. sigusr1_count' = 0 => sigusr1_count = 0
    BY <1>1 DEF TypeOK
  <2> QED
    BY <1>1, <2>1 DEF OneChildInv, childOptions, Alive, Launched
<1>2. CASE ParentActs
  <2>1. /\ UNCHANGED <<childOptions, requested_procs>>
        /\ UNCHANGED sigusr1_count \/ sigusr1_count' = sigusr1_count + 1
        /\ \/ UNCHANGED life
           \/ \E c \in Child : life[c] = "zombie" /\ life' = [life EXCEPT ![c] = "reaped"]
    BY <1>2, ParentOnlyCollects
  <2> QED
    BY <1>1, <2>1 DEF TypeOK
<1>3. ASSUME NEW c \in Child, ForkCommand(c) PROVE OneChildInv'
  <2>1. /\ life' = [life EXCEPT ![c] = "running"]
        /\ UNCHANGED <<childOptions, counters, requested_procs>>
    BY <1>3, ChildForked
  <2>2. ~Full /\ pc = "full"
    BY <1>3 DEF ForkCommand, LaunchCommand, Launch, MayLaunch
  <2>3. ASSUME requested_procs = 1, sigusr1_count = 0
        PROVE  Alive \cap Launched = {}
    <3>1. max_procs = 1
      BY <2>3, ProcessPoolAssumption DEF LimitInv, LimitInRange, OneChildInv, TypeOK
    <3>2. count = 0
      BY <2>2, <3>1 DEF Full, TypeOK
    <3> QED
      BY <2>2, <3>2 DEF TableInv, TableIsExact, Slots
  <2>4. (Alive \cap Launched)' \subseteq (Alive \cap Launched) \cup {c}
    BY <2>1 DEF Alive, Launched, TypeOK
  <2> QED
    BY <2>1, <2>3, <2>4 DEF OneChildInv, childOptions, counters
<1>4. ASSUME NEW c \in Child, ChildMoves(c), UNCHANGED allVars PROVE OneChildInv'
  BY <1>1, <1>4, ChildMoved DEF allVars, poolVars, kernel, counters
<1>5. ASSUME NEW c \in Child, NEW raw \in RawStatus, ChildEnds(c, raw), ChildExits(c, raw)
      PROVE  OneChildInv'
  <2>1. /\ life[c] = "running" /\ UNCHANGED <<counters, requested_procs>>
        /\ \E v \in {"zombie", "gone"} : life' = [life EXCEPT ![c] = v]
    BY <1>5 DEF ChildExits
  <2>2. UNCHANGED childOptions
    BY <1>5, ChildEnded
  <2> QED
    BY <1>1, <2>1, <2>2 DEF TypeOK, counters
<1> QED
  BY <1>2, <1>3, <1>4, <1>5, WhoActs

\* Under -p without -P, or with -P 1, and until the first SIGUSR1, no child asks,
\* or reads on to the end of an answer, while the child of another command lives:
\* the answers of the user reach the child that has asked (exec_child,
\* confirm_execution).
THEOREM AsksOneAtATime ==
  ASSUME NoStrangers
  PROVE  ProgramSpec => []OnePromptAtATime
<1>1. ProgramInit => OneChildInv
  <2> SUFFICES ASSUME ProgramInit PROVE OneChildInv
    OBVIOUS
  <2>1. Init /\ (prompt => requested_procs \in {0, 1})
    BY DEF ProgramInit, ReplacerInit, ModeInit, PromptAccepted
  <2>2. Alive \cap Launched = {}
    BY <2>1 DEF Init, Alive, Launched
  <2> QED
    BY <2>1, <2>2 DEF Init, OneChildInv
<1>2. ASSUME FatesInv, LivesInv, OneChildInv
      PROVE  OnePromptAtATime
  <2>1. \A c \in Child : step[c] \notin {"unborn", "ended"} => c \in Alive \cap Launched
    BY <1>2 DEF LivesInv, Alive, Launched
  <2> QED
    BY <1>2, <2>1 DEF OneChildInv, OnePromptAtATime
<1> QED
  BY <1>1, <1>2, OneChildStep, ChildrenInvariant, LimitInvariant, TypeCorrect,
     TableInvariant, ProgramRunsMode, ReplacerUsesPool, PTL DEF ProgramSpec

-----------------------------------------------------------------------------
(* The input. *)

\* The items from one place to another, one taken from the front or one added.
LEMMA ItemsInOrder ==
  ASSUME NEW first \in Nat, NEW last \in Nat
  PROVE  /\ Items(first, last) = <<>> <=> last < first
         /\ first <= last =>
              /\ Len(Items(first, last)) = last - first + 1
              /\ Head(Items(first, last)) = first
              /\ Tail(Items(first, last)) = Items(first + 1, last)
         /\ first >= 1 /\ last = first - 1 => Items(1, first) = Append(Items(1, last), first)
<1> DEFINE whole == Items(first, last)
<1>1. whole \in [1..(last - first + 1) -> Nat]
  BY DEF Items
<1>2. ASSUME first <= last
      PROVE  /\ Len(whole) = last - first + 1 /\ Head(whole) = first
             /\ Tail(whole) = Items(first + 1, last)
  <2>1. whole \in Seq(Nat) /\ Len(whole) = last - first + 1 /\ whole # <<>>
    BY <1>1, <1>2
  <2>2. Head(whole) = first
    BY <1>2, <2>1 DEF Items
  <2>3. /\ Tail(whole) \in Seq(Nat) /\ Len(Tail(whole)) = last - first
        /\ \A i \in 1..(last - first) : Tail(whole)[i] = whole[i + 1]
    BY <1>2, <2>1, HeadTailProperties
  <2>4. Items(first + 1, last) = [i \in 1..(last - first) |-> first + i]
    BY DEF Items
  <2>5. \A i \in 1..(last - first) : whole[i + 1] = first + i
    BY <1>2 DEF Items
  <2> QED
    BY <2>1, <2>2, <2>3, <2>4, <2>5
<1>3. Items(first, last) = <<>> <=> last < first
  BY <1>1, <1>2 DEF Items
<1>4. first >= 1 /\ last = first - 1 => Items(1, first) = Append(Items(1, last), first)
  BY DEF Items
<1> QED
  BY <1>2, <1>3, <1>4

\* The file that nobody else reads from and in which nobody moves back.
Undisturbed == CommandsKeepOff /\ NothingRewound

\* What has been consumed and what the buffer holds make up the file as far as
\* its offset.
Contiguous ==
  /\ offset \in 0..FileItems /\ Len(items) \in 0..offset
  /\ items = Items(1, Len(items))
  /\ buffered = Items(Len(items) + 1, offset)

LEMMA ItemConsumed ==
  ASSUME Contiguous, GetItem
  PROVE  Contiguous' /\ Len(items') = Len(items) + 1
<1> DEFINE n == Len(items)
<1>0. n \in Nat /\ offset \in Nat /\ n <= offset /\ FileItems \in Nat
  BY InputStreamAssumption DEF Contiguous
<1>1. PICK full \in Fetched :
        /\ items' = Append(items, Head(full))
        /\ buffered' = Tail(full)
        /\ offset' = IF buffered = <<>> THEN offset + Len(full) ELSE offset
  BY DEF GetItem
<1>2. PICK last \in 0..FileItems : /\ n + 1 <= last
                                   /\ full = Items(n + 1, last) /\ offset' = last
  <2>1. CASE buffered # <<>>
    <3>1. full = Items(n + 1, offset) /\ offset' = offset
      BY <1>1, <2>1 DEF Fetched, Contiguous
    <3>2. n + 1 <= offset
      BY <1>0, <2>1, ItemsInOrder DEF Contiguous
    <3> QED
      BY <1>0, <3>1, <3>2 DEF Contiguous
  <2>2. CASE buffered = <<>>
    <3>1. n = offset
      BY <1>0, <2>2, ItemsInOrder DEF Contiguous
    <3>2. PICK m \in 1..BufferItems : /\ offset + m <= FileItems
                                      /\ full = Items(offset + 1, offset + m)
      BY <1>0, <1>1, <2>2, InputStreamAssumption DEF Fetched
    <3>3. Len(full) = m
      <4>1. offset + 1 \in Nat /\ offset + m \in Nat /\ offset + 1 <= offset + m
        BY <1>0
      <4>2. Len(full) = (offset + m) - (offset + 1) + 1
        BY <3>2, <4>1, ItemsInOrder
      <4> QED
        BY <1>0, <4>2
    <3>4. offset' = offset + m
      BY <1>1, <2>2, <3>3
    <3>5. offset + m \in 0..FileItems /\ n + 1 <= offset + m
      BY <1>0, <3>1, <3>2, InputStreamAssumption
    <3> QED
      BY <3>1, <3>2, <3>4, <3>5
  <2> QED
    BY <2>1, <2>2
<1>3. n + 1 \in Nat /\ last \in Nat /\ 1 <= n + 1 /\ n = (n + 1) - 1
  BY <1>0, <1>2
<1>4. Head(full) = n + 1 /\ Tail(full) = Items((n + 1) + 1, last)
  BY <1>2, <1>3, ItemsInOrder
<1>5. Items(1, n + 1) = Append(Items(1, n), n + 1)
  BY <1>0, <1>3, ItemsInOrder
<1>6. items' = Items(1, n + 1) /\ buffered' = Items((n + 1) + 1, last)
  BY <1>1, <1>4, <1>5 DEF Contiguous
<1>7. Len(items') = n + 1
  <2>1. Len(items') = (n + 1) - 1 + 1
    BY <1>3, <1>6, ItemsInOrder
  <2> QED
    BY <1>0, <2>1
<1> QED
  BY <1>0, <1>2, <1>6, <1>7 DEF Contiguous

\* Whatever keeps the file undisturbed leaves the position of the parent alone.
LEMMA ChildLeavesInput ==
  ASSUME FatesInv, NEW c \in Child, Undisturbed',
         ChildMoves(c) \/ \E raw \in RawStatus : ChildEnds(c, raw)
  PROVE  Undisturbed /\ UNCHANGED <<offset, buffered, items>>
<1>1. /\ UNCHANGED <<childOptions, from_stdin, seekable, buffered, items>>
      /\ \/ UNCHANGED offset /\ UNCHANGED fate
         \/ UNCHANGED offset /\ step[c] \in BeforeExec /\ fate' = [fate EXCEPT ![c] = "run"]
         \/ FlushStream(c) /\ UNCHANGED fate /\ open_tty /\ from_stdin
         \/ /\ FlushStream(c) \/ DropStream(c)
            /\ step[c] \in BeforeExec
            /\ \E f \in {"refused", "not run"} : fate' = [fate EXCEPT ![c] = f]
         \/ step[c] = "command" /\ from_stdin /\ UNCHANGED fate
  <2>1. CASE \/ SkipPrompt(c) \/ OpenTty(c) \/ ReadYes(c) \/ ReadOther(c) \/ ReadBlank(c)
             \/ SkipRestOfLine(c) \/ CommandEnds(c)
    BY <2>1 DEF SkipPrompt, OpenTty, ReadYes, ReadOther, ReadBlank, SkipRestOfLine,
                CommandEnds, Continue, Proceed, stream
  <2>2. CASE ReopenStdin(c)
    BY <2>2 DEF ReopenStdin, Proceed, FlushStream, DropStream, stream
  <2>3. CASE Exec(c)
    BY <2>3 DEF Exec, ReadyToExec, Proceed, DropStream, Settle, BeforeExec
  <2>4. CASE CommandReads(c)
    BY <2>4 DEF CommandReads, StealItems
  <2>5. CASE CannotOpenTty(c) \/ CannotReopenStdin(c) \/ Refuse(c) \/ ExecFails(c)
    <3>1. /\ FlushStream(c) \/ DropStream(c)
          /\ step[c] \in BeforeExec /\ UNCHANGED childOptions
          /\ \E f \in {"refused", "not run"} : fate' = [fate EXCEPT ![c] = f]
      BY <2>5 DEF CannotOpenTty, CannotReopenStdin, Refuse, ExecFails, ReadyToExec, exit,
                  Proceed, Settle, BeforeExec
    <3> QED
      BY <3>1 DEF FlushStream, DropStream
  <2> QED
    BY <2>1, <2>2, <2>3, <2>4, <2>5 DEF ChildMoves, ChildEnds
<1>2. \/ ~seekable
      \/ (\A d \in Child : fate'[d] \in {"none", "run"}) /\ (from_stdin => ~open_tty)
  BY <1>1 DEF Undisturbed, NothingRewound, childOptions
<1>3. open_tty \/ ~from_stdin
  BY <1>1 DEF Undisturbed, CommandsKeepOff, childOptions
<1>4. UNCHANGED offset
  <2>1. ~seekable /\ (FlushStream(c) \/ DropStream(c)) => UNCHANGED offset
    BY DEF FlushStream, DropStream, Rewound
  <2>2. step[c] = "command" => ~open_tty
    BY DEF FatesInv
  <2>3. (\A d \in Child : fate'[d] \in {"none", "run"})
           => ~\E f \in {"refused", "not run"} : fate' = [fate EXCEPT ![c] = f]
    BY DEF FatesInv
  <2> QED
    BY <1>1, <1>2, <1>3, <2>1, <2>2, <2>3
<1>5. (\A d \in Child : fate'[d] \in {"none", "run"})
         => \A d \in Child : fate[d] \in {"none", "run"}
  BY <1>1 DEF FatesInv
<1> QED
  BY <1>1, <1>2, <1>3, <1>4, <1>5 DEF Undisturbed, CommandsKeepOff, NothingRewound

\* The end of the loop of the mode, other than by a halt or an error, is that of
\* the file, or of the tokens that the model allows.
EofReached ==
  at \in {"ended", "finishing"} /\ ~tokenizer_err /\ ~halt
    => AtEof \/ Len(read) >= MaxTokens

\* Strengthening: the parent has consumed an item for every line it has read, and
\* its buffer goes on from there.
InputInv == Undisturbed => Contiguous /\ Len(items) = Len(read) /\ EofReached

\* How the loop comes to its end, and that nothing is read from there on.
LEMMA LoopEnds ==
  ASSUME LinesInv, [ProgramNext]_programVars,
         at' \in {"ended", "finishing"}, ~tokenizer_err', ~halt'
  PROVE  /\ UNCHANGED read
         /\ \/ at \in {"ended", "finishing"} /\ ~tokenizer_err /\ ~halt /\ ~ReadItem
            \/ (AtEof \/ Len(read) = MaxTokens) /\ UNCHANGED childVars
<1>0. ~halt
  BY StepsOfTheMode, StepsOfThePool, HaltStays
<1>1. CASE ReadItem
  BY <1>1 DEF ReadItem, TokenRead, Goto
<1>2. CASE ReadEndOfFile
  <2>1. PICK err \in InputErrors : /\ err \/ AtEof \/ Len(read) = MaxTokens
                                   /\ InputEnds(err, FALSE)
                                   /\ UNCHANGED childVars
    BY <1>2 DEF ReadEndOfFile
  <2> QED
    BY <2>1 DEF InputEnds
<1>3. ASSUME NEW c \in Child, ForkCommand(c) PROVE FALSE
  <2>1. at' = at /\ pc = "full"
    BY <1>3 DEF ForkCommand, LaunchCommand, Launch, MayLaunch
  <2> QED
    BY <2>1 DEF LinesInv, Asking
<1>4. CASE UNCHANGED modeVars
  <2>1. at' = at /\ tokenizer_err' = tokenizer_err /\ read' = read
    BY <1>4 DEF modeVars, reading
  <2>2. ReadItem => at' # at
    BY DEF ReadItem, TokenRead, Running
  <2> QED
    BY <1>0, <2>1, <2>2
<1>5. CASE ReplacerStep
  <2>1. UNCHANGED <<read, tokenizer_err>>
    BY <1>5 DEF ReplacerStep, EnsureFits, LineTooLong, ReplaceAndExecute, AfterLine,
                ContinueUnlessHalted, FailOnInputError, FinishLines, reading
  <2>2. at = "ended"
    BY <1>0, <1>5 DEF ReplacerStep, EnsureFits, LineTooLong, ReplaceAndExecute, AfterLine,
                ContinueUnlessHalted, FailOnInputError, FinishLines, Running, Goto, Exit,
                CallExecute, CallDrain, LinesInv
  <2>3. ~ReadItem
    BY <2>2 DEF ReadItem, TokenRead, Running
  <2> QED
    BY <1>0, <2>1, <2>2, <2>3
<1>6. CASE UNCHANGED programVars
  BY <1>4, <1>6 DEF programVars, allVars
<1> QED
  BY <1>1, <1>2, <1>3, <1>4, <1>5, <1>6 DEF ProgramNext, ChildStep, ParentStep, SignalArrives, allVars

LEMMA InputStep == LinesInv /\ FatesInv /\ InputInv /\ [ProgramNext]_programVars => InputInv'
<1> SUFFICES ASSUME LinesInv, FatesInv, InputInv, [ProgramNext]_programVars, Undisturbed'
             PROVE  Contiguous' /\ Len(items') = Len(read') /\ EofReached'
  BY DEF InputInv
<1>1. CASE ReadItem
  <2>1. UNCHANGED <<childOptions, fate, from_stdin, seekable>> /\ GetItem
    BY <1>1 DEF ReadItem, GetItem
  <2>2. Undisturbed
    BY <2>1 DEF Undisturbed, CommandsKeepOff, NothingRewound, childOptions
  <2>3. Contiguous' /\ Len(items') = Len(items) + 1
    BY <2>1, <2>2, ItemConsumed DEF InputInv
  <2>4. at' = "check" /\ read' = Append(read, token') /\ token' \in Token
    <3>1. PICK len \in TokenLengths : TokenRead(len, TRUE)
      BY <1>1 DEF ReadItem
    <3>2. /\ at' = "check" /\ read' = Append(read, token')
          /\ token' = [id |-> Len(read) + 1, len |-> len, ends_line |-> TRUE]
      BY <3>1 DEF TokenRead, Goto
    <3>3. token' \in Token
      BY <3>2 DEF Token, LinesInv, TypesOfLines
    <3> QED
      BY <3>2, <3>3
  <2>5. Len(read') = Len(read) + 1
    BY <2>4, AppendProperties DEF LinesInv, TypesOfLines
  <2> QED
    BY <2>2, <2>3, <2>4, <2>5 DEF InputInv, EofReached
<1>2. CASE ~ReadItem
  <2>1. Undisturbed /\ UNCHANGED <<offset, buffered, items>>
    <3>1. CASE UNCHANGED childVars
      BY <3>1 DEF childVars, stream, Undisturbed, CommandsKeepOff, NothingRewound, childOptions
    <3>2. CASE ParentActs
      BY <1>2, <3>1, <3>2 DEF ParentActs, ReadEndOfFile, ParentStep, SignalArrives, programVars
    <3>3. ASSUME NEW c \in Child, ForkCommand(c)
          PROVE  Undisturbed /\ UNCHANGED <<offset, buffered, items>>
      BY <3>3 DEF ForkCommand, Fork, Proceed, ForkStream, Undisturbed, CommandsKeepOff,
                  NothingRewound, childOptions
    <3> QED
      BY <3>2, <3>3, ChildLeavesInput, WhoActs
  <2>2. UNCHANGED read
    <3>1. CASE ReadEndOfFile
      BY <3>1 DEF ReadEndOfFile, InputEnds
    <3>2. CASE UNCHANGED modeVars
      BY <3>2 DEF modeVars, reading
    <3>3. CASE ReplacerStep
      BY <3>3 DEF ReplacerStep, EnsureFits, LineTooLong, ReplaceAndExecute, AfterLine,
                  ContinueUnlessHalted, FailOnInputError, FinishLines, reading
    <3>4. ASSUME NEW c \in Child, ForkCommand(c) PROVE UNCHANGED read
      BY <3>4 DEF ForkCommand, LaunchCommand, reading
    <3> QED
      BY <1>2, <3>1, <3>2, <3>3, <3>4
         DEF ProgramNext, ChildStep, ParentStep, SignalArrives, programVars, allVars
  <2>3. Contiguous' /\ Len(items') = Len(read')
    BY <2>1, <2>2 DEF InputInv, Contiguous
  <2>4. Len(read) = MaxTokens => Len(read) >= MaxTokens
    BY XargsModeAssumption
  <2>5. EofReached'
    BY <2>1, <2>2, <2>4, LoopEnds DEF InputInv, EofReached, AtEof
  <2> QED
    BY <2>3, <2>5
<1> QED
  BY <1>1, <1>2

LEMMA InputInvariant == ProgramSpec => []InputInv
<1>1. ProgramInit => InputInv
  <2> SUFFICES ASSUME ProgramInit PROVE Contiguous /\ Len(items) = Len(read) /\ EofReached
    BY DEF InputInv
  <2>1. /\ items = <<>> /\ buffered = <<>> /\ offset = 0 /\ read = <<>> /\ at = "next"
    BY DEF ProgramInit, ChildInit, StreamInit, ReplacerInit, ModeInit
  <2>2. Items(1, 0) = <<>>
    BY ItemsInOrder
  <2>3. Len(items) = 0 /\ Items(Len(items) + 1, offset) = <<>> /\ 0 \in 0..FileItems
    BY <2>1, <2>2, InputStreamAssumption
  <2> QED
    BY <2>1, <2>2, <2>3 DEF Contiguous, EofReached
<1> QED
  BY <1>1, InputStep, ChildrenInvariant, LinesInvariant, ProgramRunsMode, PTL
     DEF ProgramSpec

\* Sharing the offset of the input with its children, the parent consumes every
\* item once and in order, whatever part of the file a fetch brings, unless a
\* command may read the file or a child has moved the offset back.
THEOREM ReadsInputOnce == ProgramSpec => []InputReadOnce
<1>1. InputInv => InputReadOnce
  BY DEF InputInv, Undisturbed, Contiguous, InputReadOnce
<1> QED
  BY <1>1, InputInvariant, PTL

-----------------------------------------------------------------------------
(* Success. *)

\* A halt shows in the status.
HaltShows == halt => severity(status) >= 3

LEMMA HaltShowsStep == TypeOK /\ HaltShows /\ [Next]_poolVars => HaltShows'
<1> SUFFICES ASSUME TypeOK, HaltShows, [Next]_poolVars PROVE HaltShows'
  OBVIOUS
<1>1. ASSUME NEW c \in Child, reap_one(c) PROVE HaltShows'
  <2>1. CASE AccountFor(c)
    <3>1. /\ severity(status) <= severity(status')
          /\ severity(child_exit_status(raw_status[c])) <= severity(status')
      BY <2>1, AccumulatesTheWorse DEF AccountFor
    <3>2. raw_status[c] = 255 => severity(child_exit_status(raw_status[c])) = 3
      BY DEF child_exit_status, severity, Signalled
    <3>3. halt' => halt \/ raw_status[c] = 255
      BY <2>1 DEF AccountFor, TypeOK
    <3> QED
      BY <3>1, <3>2, <3>3, SeverityIsInteger DEF HaltShows
  <2>2. CASE UNCHANGED <<status, halt>>
    BY <2>2 DEF HaltShows
  <2> QED
    BY <1>1, <2>1, <2>2
       DEF reap_one, ReapLaunched, ReapUnknown, ReapUnknownRelease, ReapUnknownDebug
<1>2. CASE UNCHANGED <<status, halt>>
  BY <1>2 DEF HaltShows
<1> QED
  BY <1>1, <1>2, ReapedOrKept

LEMMA HaltShowsInvariant == Spec => []HaltShows
<1>1. Init => HaltShows
  BY DEF Init, HaltShows
<1> QED
  BY <1>1, HaltShowsStep, TypeCorrect, PTL DEF Spec

\* Of the statuses of phxargs only 0 is no failure, and only a child that exited
\* with 0 has it.
LEMMA OnlySuccessIsSuccess ==
  ASSUME NEW raw \in RawStatus \cup {0}, severity(child_exit_status(raw)) <= severity(0)
  PROVE  raw = 0
<1>1. severity(0) = 0 /\ severity(child_exit_status(raw)) = 0
  BY SeverityIsInteger DEF severity
<1>2. child_exit_status(raw) = 0
  BY <1>1, StatusTypes, ProcessPoolAssumption DEF severity, ExitStatuses
<1> QED
  BY <1>2 DEF child_exit_status

\* When phxargs exits with 0 then no failure was lost between fork and exec, and
\* there was a child for every line of the input: neither is a line dropped nor
\* a child that could not run its command taken for a success (exec_child,
\* accumulate_status, replacer_mode_run).
THEOREM SuccessIsComplete ==
  ASSUME NoStrangers
  PROVE  ProgramSpec => []SuccessMeansRun
<1>1. ASSUME TypeOK, TableInv, StatusIsMostSevere, HaltShows, LinesInv, LoopInv,
             FatesInv, LivesInv, InputInv,
             ExitCode = 0, CommandsKeepOff, NothingRewound, Len(read) < MaxTokens
      PROVE  /\ Len(given) = FileItems
             /\ \A c \in Child : step[c] # "unborn" => fate[c] \in {"run", "refused"}
  <2>1. pc = "done" /\ at = "finishing" /\ status = 0
    BY <1>1 DEF ExitCode
  <2>2. ~halt /\ ~tokenizer_err
    BY <1>1, <2>1 DEF HaltShows, severity, LoopInv
  <2>3. Len(given) = FileItems
    <3>1. read = given /\ Len(read) \in Nat
      BY <1>1, <2>1, <2>2 DEF LinesInv, TypesOfLines
    <3>2. Contiguous /\ Len(items) = Len(read) /\ AtEof
      BY <1>1, <2>1, <2>2, <3>1, XargsModeAssumption DEF InputInv, Undisturbed, EofReached
    <3>3. Len(items) = offset
      BY <3>1, <3>2, ItemsInOrder DEF Contiguous, AtEof
    <3> QED
      BY <3>1, <3>2, <3>3 DEF AtEof
  <2>4. ASSUME NEW c \in Child, step[c] # "unborn"
        PROVE  fate[c] \in {"run", "refused"}
    <3>1. c \in Launched /\ life[c] # "unborn"
      BY <1>1, <2>4 DEF LivesInv, Launched
    <3>2. life[c] = "reaped"
      <4>1. Alive \cap Launched = {}
        BY <1>1, <2>1 DEF TableInv, TableIsExact, Slots
      <4> QED
        BY <1>1, <3>1, <4>1 DEF Alive, TypeOK, TableInv, KernelInv
    <3>3. raw_status[c] = 0
      <4>1. severity(child_exit_status(raw_status[c])) <= severity(0)
        BY <1>1, <2>1, <3>1, <3>2 DEF StatusIsMostSevere, Reaped
      <4> QED
        BY <1>1, <4>1, OnlySuccessIsSuccess DEF TypeOK
    <3>4. step[c] = "ended"
      BY <1>1, <2>4, <3>2 DEF LivesInv
    <3> QED
      BY <1>1, <3>3, <3>4 DEF FatesInv, LivesInv
  <2> QED
    BY <2>3, <2>4
<1>2. TypeOK /\ TableInv /\ StatusIsMostSevere /\ HaltShows /\ LinesInv /\ LoopInv
        /\ FatesInv /\ LivesInv /\ InputInv => SuccessMeansRun
  BY <1>1 DEF SuccessMeansRun
<1> QED
  BY <1>2, TypeCorrect, TableInvariant, StatusIsTheWorst, HaltShowsInvariant,
     LinesInvariant, LoopInvariant, ChildrenInvariant, InputInvariant, ProgramRunsMode,
     ReplacerUsesPool, PTL

=============================================================================
