------------------------- MODULE AppenderModeProofs -------------------------
(***************************************************************************)
(* Theorems about AppenderMode: its pool behaves as ProcessPool says, so   *)
(* that what is proved of the pool holds in it; no argument is lost; no    *)
(* command exceeds its limits, and none is executed before one of them is  *)
(* reached or the input ends; a command of -L holds whole lines; and the   *)
(* mode implements XargsContract.                                          *)
(***************************************************************************)
EXTENDS AppenderMode, XargsModeProofs

-----------------------------------------------------------------------------
(* The appender mode is a client of the process pool. *)

\* What a step of the mode itself, not of the pool, does to the pool.
LEMMA ModeStepsCallThePool ==
  AppenderModeStep => UNCHANGED poolVars \/ ReadUsr1 \/ StartDrain \/ CallerExits
<1> SUFFICES ASSUME AppenderModeStep
             PROVE  UNCHANGED poolVars \/ ReadUsr1 \/ StartDrain \/ CallerExits
  OBVIOUS
<1>1. CASE ReadsInput
  BY <1>1 DEF ReadsInput, TokenRead, InputEnds, Goto
<1>2. CASE ArgFits \/ AfterFlush \/ AddArgument \/ KeepCollecting \/ AfterExecution
  BY <1>2 DEF ArgFits, AfterFlush, AddArgument, KeepCollecting, AfterExecution,
              ContinueUnlessHalted, Goto
<1>3. CASE FlushBeforeAdding \/ ExecuteAfterAdding \/ ExecuteRemainder
  BY <1>3 DEF FlushBeforeAdding, ExecuteAfterAdding, ExecuteRemainder, CallExecute
<1>4. CASE FailTooLong \/ FailOnInputError \/ Finish
  BY <1>4 DEF FailTooLong, FailOnInputError, Finish, CallDrain
<1>5. CASE ArgTooLong
  BY <1>5 DEF ArgTooLong, Exit
<1> QED
  BY <1>1, <1>2, <1>3, <1>4, <1>5 DEF AppenderModeStep

LEMMA StepsOfThePool == [appender_mode_run]_allVars => [Next]_poolVars
<1> SUFFICES ASSUME [appender_mode_run]_allVars PROVE [Next]_poolVars
  OBVIOUS
<1>1. CASE AppenderModeStep
  BY <1>1, ModeStepsCallThePool DEF Next
<1>2. CASE \E c \in Child : LaunchCommand(c)
  BY <1>2 DEF LaunchCommand, Next
<1>3. CASE PoolMoves
  BY <1>3 DEF PoolMoves, Next
<1>4. CASE UNCHANGED allVars
  BY <1>4 DEF allVars
<1> QED
  BY <1>1, <1>2, <1>3, <1>4 DEF appender_mode_run

\* The default mode uses the pool as any client of ProcessPool may: every
\* theorem about ProcessPool!Spec is one about phxargs without -I
\* (xargs_mode_execute_command and xargs_mode_drain are its only ways in).
THEOREM AppenderUsesPool == AppenderSpec => Spec
<1>1. ModeInit => Init
  BY DEF ModeInit
<1>2. [appender_mode_run]_allVars => [Next]_poolVars
  BY StepsOfThePool
<1> QED
  BY <1>1, <1>2, PTL DEF AppenderSpec, AppenderInit, Spec

-----------------------------------------------------------------------------
(* No argument is lost. *)

HoldsToken == {"check", "flushed", "add"}
HoldsNone  == {"next", "added", "executed"}

\* Strengthening: where the mode holds a token, and where it holds none.
ArgumentsInv ==
  /\ opts \in OptionChoices /\ ~opts.arg_placeholder
  /\ read \in Seq(Token) /\ given \in Seq(Token) /\ input_args \in Seq(Token)
  /\ at \in HoldsToken =>
       token \in Token /\ read = (given \o input_args) \o <<token>>
  /\ at \in HoldsNone => read = given \o input_args
  /\ at \notin HoldsToken \cup HoldsNone => NothingLost

argsVars == <<opts, at, token, read, given, input_args>>

LEMMA ArgumentsInitially == AppenderInit => ArgumentsInv
<1> SUFFICES ASSUME AppenderInit PROVE ArgumentsInv
  OBVIOUS
<1>1. opts \in OptionChoices /\ ~opts.arg_placeholder /\ input_args = <<>>
  BY DEF AppenderInit, ModeInit, command_create
<1>2. read = <<>> /\ given = <<>> /\ at = "next"
  BY DEF AppenderInit, ModeInit
<1>3. <<>> \in Seq(Token) /\ <<>> \o <<>> = <<>>
  OBVIOUS
<1> QED
  BY <1>1, <1>2, <1>3 DEF ArgumentsInv, HoldsToken, HoldsNone

\* A step of the pool, or a stutter, moves no argument.
LEMMA ArgumentsAtRest ==
  ASSUME ArgumentsInv, UNCHANGED argsVars, halt => halt'
  PROVE  ArgumentsInv'
BY DEF ArgumentsInv, argsVars, NothingLost

\* A launch moves the collected arguments to the child, wherever it happens.
LEMMA ArgumentsLaunched ==
  ASSUME ArgumentsInv, NEW c \in Child, LaunchCommand(c)
  PROVE  ArgumentsInv'
<1>1. /\ UNCHANGED <<opts, at, token, read, halt>>
      /\ ~halt
      /\ input_args' = <<>>
      /\ given' = given \o input_args
  BY DEF LaunchCommand, recycle_command, limits, reading, Launch,
     MayLaunch, ArgumentsInv
<1>2. given' \in Seq(Token) /\ input_args' \in Seq(Token) /\ given' \o input_args' = given'
  BY <1>1, ConcatProperties, ConcatEmptySeq DEF ArgumentsInv
<1> QED
  BY <1>1, <1>2 DEF ArgumentsInv, NothingLost, HoldsToken, HoldsNone

\* The next token is in hand.
LEMMA ArgumentRead ==
  ASSUME ArgumentsInv, NEW len \in TokenLengths, NEW ends_line \in BOOLEAN,
         TokenRead(len, ends_line)
  PROVE  ArgumentsInv'
<1>1. /\ at = "next" /\ at' = "check"
      /\ read' = Append(read, token')
      /\ UNCHANGED <<opts, given, input_args>>
      /\ token' = [id |-> Len(read) + 1, len |-> len, ends_line |-> ends_line]
  BY DEF TokenRead, Running, Goto, history, command_increment_line_count, limits
<1>2. token' \in Token
  BY <1>1 DEF Token, ArgumentsInv
<1>3. read' \in Seq(Token) /\ read' = read \o <<token'>>
  BY <1>1, <1>2, AppendProperties, AppendIsConcat DEF ArgumentsInv
<1> QED
  BY <1>1, <1>2, <1>3 DEF ArgumentsInv, HoldsToken, HoldsNone

\* The token in hand becomes the last of the arguments collected.
LEMMA ArgumentAdded ==
  ASSUME ArgumentsInv, AddArgument
  PROVE  ArgumentsInv'
<1>1. /\ at = "add" /\ at' = "added"
      /\ input_args' = Append(input_args, token)
      /\ UNCHANGED <<opts, token, read, given>>
  BY DEF AddArgument, Running, Goto, command_add_input_argument, limits, reading, history
<1>2. token \in Token /\ read = (given \o input_args) \o <<token>>
  BY <1>1 DEF ArgumentsInv, HoldsToken
<1>3. input_args' \in Seq(Token) /\ input_args' = input_args \o <<token>>
  BY <1>1, <1>2, AppendProperties, AppendIsConcat DEF ArgumentsInv
<1>4. given \in Seq(Token) /\ input_args \in Seq(Token) /\ <<token>> \in Seq(Token)
  BY <1>2 DEF ArgumentsInv
<1>5. \A s, t, u \in Seq(Token) : (s \o t) \o u = s \o (t \o u)
  BY ConcatAssociative
<1>6. (given \o input_args) \o <<token>> = given \o (input_args \o <<token>>)
  BY <1>4, <1>5
<1> QED
  BY <1>1, <1>2, <1>3, <1>6 DEF ArgumentsInv, HoldsToken, HoldsNone

LEMMA ArgumentsStep == ArgumentsInv /\ [appender_mode_run]_allVars => ArgumentsInv'
<1> SUFFICES ASSUME ArgumentsInv, [appender_mode_run]_allVars PROVE ArgumentsInv'
  OBVIOUS
<1>0. halt => halt'
  BY StepsOfThePool, HaltStays
<1>1. ASSUME ReadsInput PROVE ArgumentsInv'
  <2>1. CASE \E len \in TokenLengths, ends_line \in BOOLEAN : TokenRead(len, ends_line)
    BY <2>1, ArgumentRead
  <2>2. ASSUME NEW err \in InputErrors, NEW ends_line \in BOOLEAN, InputEnds(err, ends_line)
        PROVE  ArgumentsInv'
    <3>1. /\ at = "next" /\ at' = "ended"
          /\ UNCHANGED <<opts, read, given, input_args>>
      BY <2>2 DEF InputEnds, Running, Goto, history, command_increment_line_count, limits
    <3> QED
      BY <3>1 DEF ArgumentsInv, NothingLost, HoldsToken, HoldsNone
  <2> QED
    BY <1>1, <2>1, <2>2 DEF ReadsInput
<1>2. CASE ArgFits
  BY <1>2 DEF ArgFits, Running, Goto, cmd, limits, batch, reading, history, ArgumentsInv,
              HoldsToken, HoldsNone
<1>3. CASE FlushBeforeAdding
  BY <1>3 DEF FlushBeforeAdding, Running, CallExecute, cmd, limits, batch, reading, history,
              ArgumentsInv, HoldsToken, HoldsNone
<1>4. CASE ArgTooLong
  BY <1>4 DEF ArgTooLong, Running, Exit, cmd, limits, batch, reading, history,
              ArgumentsInv, HoldsToken, HoldsNone
<1>5. CASE AfterFlush
  <2>1. /\ at = "flushed" /\ at' = (IF halt THEN "ended" ELSE "add")
        /\ UNCHANGED <<opts, token, read, given, input_args>>
    BY <1>5 DEF AfterFlush, ContinueUnlessHalted, Running, Goto, cmd, limits, batch,
                reading, history
  <2> QED
    BY <1>0, <2>1 DEF ArgumentsInv, NothingLost, HoldsToken, HoldsNone
<1>6. CASE AfterExecution
  <2>1. /\ at = "executed" /\ at' \in {"ended", "next"}
        /\ UNCHANGED <<opts, token, read, given, input_args>>
    BY <1>6 DEF AfterExecution, ContinueUnlessHalted, Running, Goto, cmd, limits, batch,
                reading, history
  <2> QED
    BY <2>1 DEF ArgumentsInv, NothingLost, HoldsToken, HoldsNone
<1>7. CASE AddArgument
  BY <1>7, ArgumentAdded
<1>8. CASE FailTooLong \/ ExecuteAfterAdding \/ KeepCollecting
  <2>1. /\ at = "added" /\ at' \in {"failing", "executed", "next"}
        /\ UNCHANGED <<opts, token, read, given, input_args>>
    BY <1>8 DEF FailTooLong, ExecuteAfterAdding, KeepCollecting, Running, CallDrain,
                CallExecute, Goto, cmd, limits, batch, reading, history
  <2> QED
    BY <2>1 DEF ArgumentsInv, NothingLost, HoldsToken, HoldsNone
<1>9. CASE FailOnInputError \/ ExecuteRemainder \/ Finish
  <2>1. /\ at \in {"ended", "last"} /\ at' \in {"failing", "last", "finishing"}
        /\ UNCHANGED <<opts, token, read, given, input_args>>
    BY <1>9 DEF FailOnInputError, ExecuteRemainder, Finish, Running, CallDrain,
                CallExecute, cmd, limits, batch, reading, history
  <2> QED
    BY <1>0, <2>1 DEF ArgumentsInv, NothingLost, HoldsToken, HoldsNone
<1>10. CASE \E c \in Child : LaunchCommand(c)
  BY <1>10, ArgumentsLaunched
<1>11. CASE PoolMoves \/ UNCHANGED allVars
  <2>1. UNCHANGED argsVars
    BY <1>11 DEF PoolMoves, allVars, modeVars, cmd, limits, batch, reading, history, argsVars
  <2> QED
    BY <1>0, <2>1, ArgumentsAtRest
<1> QED
  BY <1>1, <1>2, <1>3, <1>4, <1>5, <1>6, <1>7, <1>8, <1>9, <1>10, <1>11
     DEF appender_mode_run, AppenderModeStep

\* Every argument read is, once and in order, with a child, in the command
\* under construction or in hand, and only a halted pool lets the one in hand
\* go: for any number of arguments and of children, any limits, and whatever
\* the tokenizer does (appender_mode_run, recycle_command).
THEOREM ArgumentsNeverLost == AppenderSpec => []NothingLost
<1>1. ArgumentsInv => NothingLost
  BY DEF ArgumentsInv, NothingLost, HoldsToken, HoldsNone
<1> QED
  BY <1>1, ArgumentsInitially, ArgumentsStep, PTL DEF AppenderSpec, AppenderInit

LEMMA ArgumentsInvariant == AppenderSpec => []ArgumentsInv
  BY ArgumentsInitially, ArgumentsStep, PTL DEF AppenderSpec, AppenderInit

-----------------------------------------------------------------------------
(* Types. *)

Executed == [args : Seq(Token), replaced : {<<>>}, length : Nat, lines : Nat]

Points == {"next", "check", "flushed", "add", "added", "executed", "ended",
           "last", "finishing", "failing"}

TypesInv ==
  /\ ModeTypeOK /\ executed \in Seq(Executed)
  /\ at \in Points /\ replaced_fixed_args = <<>>

LEMMA TypesInitially == ModeInit => TypesInv
  <1> SUFFICES ASSUME ModeInit PROVE TypesInv
    OBVIOUS
  <1>1. MaximumLength \in Nat
    BY CommandAssumption DEF MaximumLength
  <1>2. opts \in OptionChoices /\ opts \in Option /\ max_length = decide_max_length(opts)
    BY CommandAssumption DEF ModeInit, command_create, Configured
  <1>3. max_length \in Nat
    BY <1>1, <1>2, CommandAssumption DEF decide_max_length, smaller, Option
  <1> QED
    <2>1. /\ line_count = 0 /\ input_length = 0 /\ input_args = <<>>
          /\ replaced_fixed_args = <<>> /\ at = "next" /\ token = NoToken
          /\ input_present = FALSE /\ tokenizer_err = FALSE
          /\ read = <<>> /\ given = <<>> /\ executed = <<>>
      BY DEF ModeInit, command_create
    <2>2. <<>> \in Seq(Token) /\ <<>> \in Seq(Executed)
      OBVIOUS
    <2>3. ModeTypeOK
      BY <1>2, <1>3, <2>1, <2>2 DEF ModeTypeOK
    <2> QED
      BY <2>1, <2>2, <2>3 DEF TypesInv, Points

\* Most steps only move on.
LEMMA TypesMovedOn ==
  ASSUME TypesInv, UNCHANGED <<cmd, reading, history>>, at' \in Points
  PROVE  TypesInv'
  BY DEF TypesInv, ModeTypeOK, Points, cmd, limits, batch, reading, history

\* The command under construction is the only thing that grows.
LEMMA TypesStep ==
  ASSUME ArgumentsInv, TypesInv, [appender_mode_run]_allVars
  PROVE  TypesInv'
  <1>1. CASE ReadsInput
    <2>1. ASSUME NEW len \in TokenLengths, NEW ends_line \in BOOLEAN, TokenRead(len, ends_line)
          PROVE  TypesInv'
      <3>1. /\ at' = "check" /\ input_present' = TRUE
            /\ token' = [id |-> Len(read) + 1, len |-> len, ends_line |-> ends_line]
            /\ read' = Append(read, token')
            /\ line_count' = line_count + (IF ends_line THEN 1 ELSE 0)
            /\ UNCHANGED <<tokenizer_err, given, executed, opts, max_length, input_args,
                           input_length, replaced_fixed_args>>
        BY <2>1 DEF TokenRead, Goto, history, command_increment_line_count, limits
      <3>2. token' \in Token /\ read \in Seq(Token)
        BY <3>1 DEF Token, ArgumentsInv
      <3>3. read' \in Seq(Token)
        BY <3>1, <3>2, AppendProperties
      <3>4. line_count' \in Nat
        BY <3>1 DEF TypesInv, ModeTypeOK, Points
      <3> QED
        BY <3>1, <3>2, <3>3, <3>4 DEF TypesInv, ModeTypeOK, Points
    <2>2. ASSUME NEW err \in InputErrors, NEW ends_line \in BOOLEAN, InputEnds(err, ends_line)
          PROVE  TypesInv'
      <3>1. /\ at' = "ended" /\ token' = NoToken /\ tokenizer_err' \in BOOLEAN
            /\ line_count' = line_count + (IF ends_line THEN 1 ELSE 0)
            /\ UNCHANGED <<input_present, read, given, executed, opts, max_length, input_args,
                           input_length, replaced_fixed_args>>
        BY <2>2, XargsModeAssumption
        DEF InputEnds, Goto, history, command_increment_line_count, limits
      <3>2. line_count' \in Nat
        BY <3>1 DEF TypesInv, ModeTypeOK, Points
      <3> QED
        BY <3>1, <3>2 DEF TypesInv, ModeTypeOK, Points
    <2> QED
      BY <1>1, <2>1, <2>2 DEF ReadsInput
  <1>2. CASE AddArgument
    <2>1. /\ at = "add" /\ at' = "added"
          /\ input_args' = Append(input_args, token)
          /\ input_length' = input_length + token.len + 1
          /\ UNCHANGED <<opts, max_length, line_count, replaced_fixed_args, token,
                         input_present, tokenizer_err, read, given, executed>>
      BY <1>2 DEF AddArgument, Running, Goto, command_add_input_argument, limits, reading,
         history
    <2>2. token \in Token /\ input_args \in Seq(Token)
      BY <2>1 DEF ArgumentsInv, HoldsToken
    <2>3. input_args' \in Seq(Token)
      BY <2>1, <2>2, AppendProperties
    <2>4. input_length' \in Nat
      <3>1. token.len \in Nat
        BY <2>2, CommandAssumption DEF Token
      <3> QED
        BY <2>1, <3>1 DEF TypesInv, ModeTypeOK, Points
    <2> QED
      BY <2>1, <2>3, <2>4 DEF TypesInv, ModeTypeOK, Points
  <1>3. ASSUME NEW c \in Child, LaunchCommand(c)
        PROVE  TypesInv'
    <2>1. ~opts.arg_placeholder
      BY DEF ArgumentsInv
    <2> DEFINE command == [args |-> input_args, replaced |-> replaced_fixed_args,
                           length |-> command_length, lines |-> line_count]
    <2>2. /\ UNCHANGED <<opts, max_length, at, token, input_present, tokenizer_err, read,
                         replaced_fixed_args>>
          /\ input_args' = <<>> /\ input_length' = 0 /\ line_count' = 0
          /\ given' = given \o input_args
          /\ executed' = Append(executed, command)
      BY <1>3, <2>1 DEF LaunchCommand, recycle_command, limits, reading
    <2>3. given' \in Seq(Token)
      BY <2>2, ConcatProperties DEF ArgumentsInv
    <2>4. command_length \in Nat
      BY CommandAssumption DEF command_length, TypesInv, ModeTypeOK
    <2>5. command \in Executed
      BY <2>4 DEF Executed, TypesInv, ModeTypeOK
    <2>6. executed' \in Seq(Executed)
      BY <2>2, <2>5, AppendProperties DEF TypesInv, Points
    <2> QED
      BY <2>2, <2>3, <2>6 DEF TypesInv, ModeTypeOK, Points
  <1>4. CASE \/ ArgFits \/ ArgTooLong \/ FlushBeforeAdding \/ AfterFlush \/ FailTooLong
             \/ ExecuteAfterAdding \/ KeepCollecting \/ AfterExecution
             \/ FailOnInputError \/ ExecuteRemainder \/ Finish
             \/ PoolMoves \/ UNCHANGED allVars
    <2>1. UNCHANGED <<cmd, reading, history>>
      BY <1>4 DEF ArgFits, ArgTooLong, FlushBeforeAdding, AfterFlush, FailTooLong,
         ExecuteAfterAdding, KeepCollecting, AfterExecution, ContinueUnlessHalted,
         FailOnInputError, ExecuteRemainder, Finish, PoolMoves, allVars, modeVars
    <2>2. at' \in Points
      BY <1>4 DEF ArgFits, ArgTooLong, FlushBeforeAdding, AfterFlush, FailTooLong,
         ExecuteAfterAdding, KeepCollecting, AfterExecution, ContinueUnlessHalted,
         FailOnInputError, ExecuteRemainder, Finish, PoolMoves, allVars, modeVars, Goto,
         CallExecute, CallDrain, Exit, Points, TypesInv, ModeTypeOK
    <2> QED
      BY <2>1, <2>2, TypesMovedOn
  <1> QED
    BY <1>1, <1>2, <1>3, <1>4 DEF appender_mode_run, AppenderModeStep

LEMMA TypesInvariant == AppenderSpec => []TypesInv
  BY TypesInitially, TypesStep, ArgumentsInvariant, PTL DEF AppenderSpec, AppenderInit

\* The command, the arguments and the control point keep their types, whatever
\* the options and the input (appender_mode_run).
THEOREM AppenderTypes == AppenderSpec => []ModeTypeOK
  BY TypesInvariant, PTL DEF TypesInv

-----------------------------------------------------------------------------
(* The mode and its pool. *)

Collecting == {"next", "check", "add", "added"}
Outside    == {"start", "caller", "exited"}

\* Where the mode and the pool can be: while arguments are collected nothing
\* has halted the pool, and commands are asked for at three points only.
ControlInv ==
  /\ tokenizer_err \in BOOLEAN
  /\ tokenizer_err => at \in {"ended", "failing"}
  /\ pc = "start" => at = "next"
  /\ at \in Collecting => ~halt /\ pc \in Outside
  /\ at = "ended" => pc \in Outside
  /\ pc \in Asking => at \in {"flushed", "executed", "last"}

\* The control points at which the pool stands still or is called.
LEMMA ControlStep ==
  ASSUME ControlInv, [appender_mode_run]_allVars
  PROVE  ControlInv'
  <1>1. CASE ReadsInput
    BY <1>1, XargsModeAssumption
    DEF ReadsInput, TokenRead, InputEnds, Running, Goto, poolVars, fields,
        ControlInv, Collecting, Outside, Asking
  <1>2. CASE ArgFits \/ AddArgument \/ KeepCollecting
    BY <1>2 DEF ArgFits, AddArgument, KeepCollecting, Running, Goto, poolVars, fields, reading,
                ControlInv, Collecting, Outside, Asking
  <1>3. CASE ArgTooLong
    BY <1>3 DEF ArgTooLong, Running, Exit, CallerExits, fields, reading,
                ControlInv, Collecting, Outside, Asking
  <1>4. CASE FlushBeforeAdding \/ ExecuteAfterAdding
    BY <1>4 DEF FlushBeforeAdding, ExecuteAfterAdding, Running, CallExecute, ReadUsr1, fields,
                reading, ControlInv, Collecting, Outside, Asking
  <1>5. CASE AfterFlush \/ AfterExecution
    BY <1>5 DEF AfterFlush, AfterExecution, ContinueUnlessHalted, Running, Goto, poolVars, fields,
                reading, ControlInv, Collecting, Outside, Asking
  <1>6. CASE FailTooLong \/ FailOnInputError \/ Finish
    BY <1>6 DEF FailTooLong, FailOnInputError, Finish, Running, CallDrain, StartDrain, fields,
                reading, ControlInv, Collecting, Outside, Asking
  <1>7. CASE ExecuteRemainder
    BY <1>7 DEF ExecuteRemainder, Running, CallExecute, ReadUsr1, fields,
                reading, ControlInv, Collecting, Outside, Asking
  <1>8. ASSUME NEW c \in Child, LaunchCommand(c) PROVE ControlInv'
    BY <1>8 DEF LaunchCommand, Launch, MayLaunch, reading, fields,
                ControlInv, Collecting, Outside, Asking
  <1>9. CASE PoolMoves
    <2>1. UNCHANGED <<at, tokenizer_err>>
      BY <1>9 DEF PoolMoves, modeVars, reading
    <2>2. /\ pc \in Outside => pc' \in Outside /\ halt' = halt
          /\ pc' \in Asking => pc \in Asking
          /\ pc' = "start" => pc = "start"
      BY <1>9, PoolRests, CallsReturnHalted DEF PoolMoves, Outside
    <2> QED
      BY <2>1, <2>2 DEF ControlInv
  <1>10. CASE UNCHANGED allVars
    BY <1>10 DEF allVars, modeVars, reading, poolVars, fields, ControlInv
  <1> QED
    BY <1>1, <1>2, <1>3, <1>4, <1>5, <1>6, <1>7, <1>8, <1>9, <1>10
    DEF appender_mode_run, AppenderModeStep

LEMMA ControlInvariant == AppenderSpec => []ControlInv
  <1>1. ModeInit => ControlInv
    BY DEF ModeInit, Init, ControlInv, Collecting, Outside, Asking
  <1> QED
    BY <1>1, ControlStep, PTL DEF AppenderSpec, AppenderInit

-----------------------------------------------------------------------------
(* No command exceeds its limits. *)

\* What has been collected fits, with room for what is about to be added; only
\* just after that it may be too long, and then it is not executed.
SizesInv ==
  /\ CommandsWithinLimits
  /\ opts.max_args > 0 =>
       /\ Len(input_args) <= opts.max_args
       /\ at = "add" => Len(input_args) < opts.max_args
  /\ at = "flushed" /\ pc = "caller" => input_args = <<>> \/ halt
  /\ opts.terminate_on_too_large_command /\ input_args # <<>>
       /\ at \notin {"added", "failing"} => command_length <= max_length

\* The numbers compared.
SizesTyped ==
  /\ command_length \in Int /\ max_length \in Int
  /\ Len(input_args) \in Int /\ opts.max_args \in Nat

LEMMA SizesAreTyped == TypesInv => SizesTyped
  <1> SUFFICES ASSUME TypesInv PROVE SizesTyped
    OBVIOUS
  <1>1. command_length \in Int /\ max_length \in Int
    BY CommandAssumption DEF TypesInv, ModeTypeOK, command_length
  <1>2. opts.max_args \in Nat
    BY CommandAssumption DEF TypesInv, ModeTypeOK, Configured, Option
  <1>3. Len(input_args) \in Int
    BY LenProperties DEF TypesInv, ModeTypeOK
  <1> QED
    BY <1>1, <1>2, <1>3 DEF SizesTyped

LEMMA SizesInitially == ModeInit => SizesInv
  <1> SUFFICES ASSUME ModeInit PROVE SizesInv
    OBVIOUS
  <1>1. SizesTyped
    BY TypesInitially, SizesAreTyped
  <1>2. input_args = <<>> /\ Len(input_args) = 0 /\ executed = <<>> /\ at = "next"
    BY DEF ModeInit, command_create
  <1> QED
    BY <1>1, <1>2 DEF SizesInv, SizesTyped, CommandsWithinLimits

\* Adding: there was room for one more.
LEMMA SizesAdd ==
  ASSUME TypesInv, ArgumentsInv, SizesInv, AddArgument
  PROVE  SizesInv'
  <1>1. /\ at = "add" /\ at' = "added" /\ input_args' = Append(input_args, token)
        /\ UNCHANGED <<opts, max_length, executed>>
    BY DEF AddArgument, Running, Goto, command_add_input_argument, limits, history
  <1>2. Len(input_args') = Len(input_args) + 1
    BY <1>1, AppendProperties DEF ArgumentsInv, HoldsToken
  <1>3. opts.max_args > 0 => Len(input_args') <= opts.max_args
    BY <1>1, <1>2, SizesAreTyped DEF SizesInv, SizesTyped
  <1>4. CommandsWithinLimits'
    BY <1>1 DEF SizesInv, CommandsWithinLimits
  <1> QED
    BY <1>1, <1>3, <1>4 DEF SizesInv

\* A launch: one more command, made of what was collected, and the next begins.
LEMMA LaunchExecutes ==
  ASSUME TypesInv, ControlInv, NEW c \in Child, LaunchCommand(c)
  PROVE  /\ at \in {"flushed", "executed", "last"} /\ pc \in Asking /\ pc' = "caller"
         /\ UNCHANGED <<at, opts, max_length, token, input_present>>
         /\ input_args' = <<>> /\ line_count' = 0
         /\ Len(executed) \in Nat /\ Len(executed') = Len(executed) + 1
         /\ DOMAIN executed = 1..Len(executed) /\ DOMAIN executed' = 1..Len(executed')
         /\ \A k \in 1..Len(executed) : executed'[k] = executed[k]
         /\ executed'[Len(executed')].args = input_args
         /\ executed'[Len(executed')].length = command_length
  <1> DEFINE command == [args |-> input_args, replaced |-> replaced_fixed_args,
                         length |-> command_length, lines |-> line_count]
  <1>1. /\ pc = "full" /\ pc' = "caller"
        /\ UNCHANGED <<at, opts, max_length, token, input_present>>
        /\ input_args' = <<>> /\ line_count' = 0
        /\ executed' = Append(executed, command)
    BY DEF LaunchCommand, Launch, MayLaunch, recycle_command, limits, reading
  <1>2. executed \in Seq(Executed) /\ command \in Executed
    <2>1. command_length \in Nat
      BY CommandAssumption DEF command_length, TypesInv, ModeTypeOK
    <2> QED
      BY <2>1 DEF Executed, TypesInv, ModeTypeOK
  <1>3. /\ executed' \in Seq(Executed) /\ Len(executed') = Len(executed) + 1
        /\ \A k \in 1..Len(executed) : executed'[k] = executed[k]
        /\ executed'[Len(executed')] = command
    BY <1>1, <1>2, AppendProperties
  <1>4. /\ Len(executed) \in Nat
        /\ DOMAIN executed = 1..Len(executed) /\ DOMAIN executed' = 1..Len(executed')
    BY <1>2, <1>3, LenProperties
  <1> QED
    BY <1>1, <1>3, <1>4 DEF ControlInv, Asking

\* Launching: what was collected is within the limits, and a new command begins.
LEMMA SizesLaunch ==
  ASSUME TypesInv, ControlInv, SizesInv, NEW c \in Child, LaunchCommand(c)
  PROVE  SizesInv'
  <1>1. /\ at \in {"flushed", "executed", "last"}
        /\ UNCHANGED <<at, opts, max_length>>
        /\ input_args' = <<>> /\ Len(input_args') = 0
    BY LaunchExecutes
  <1>2. ASSUME NEW k \in DOMAIN executed'
        PROVE  /\ opts.max_args > 0 => Len(executed'[k].args) <= opts.max_args
               /\ opts.terminate_on_too_large_command /\ executed'[k].args # <<>>
                    => executed'[k].length <= max_length
    <2>1. CASE k = Len(executed')
      <3>1. executed'[k].args = input_args /\ executed'[k].length = command_length
        BY <2>1, LaunchExecutes
      <3> QED
        BY <1>1, <3>1 DEF SizesInv
    <2>2. CASE k # Len(executed')
      <3>1. k \in DOMAIN executed /\ executed'[k] = executed[k]
        BY <1>2, <2>2, LaunchExecutes
      <3> QED
        BY <3>1 DEF SizesInv, CommandsWithinLimits
    <2> QED
      BY <2>1, <2>2
  <1>3. CommandsWithinLimits'
    BY <1>1, <1>2 DEF CommandsWithinLimits
  <1>4. opts.max_args \in Nat
    BY SizesAreTyped DEF SizesTyped
  <1> QED
    BY <1>1, <1>3, <1>4 DEF SizesInv

\* Room is made before an argument is added, and what is too long is not executed.
LEMMA SizesStep ==
  ASSUME TypesInv, ArgumentsInv, ControlInv, SizesInv, [appender_mode_run]_allVars
  PROVE  SizesInv'
  <1>1. halt => halt'
    BY StepsOfThePool, HaltStays
  \* A step that leaves command and commands alone has to keep the rest only.
  <1>2. ASSUME UNCHANGED <<opts, max_length, input_args, input_length, executed>>,
               at' = "add" /\ opts.max_args > 0 => Len(input_args) < opts.max_args,
               at' = "flushed" /\ pc' = "caller" => input_args = <<>> \/ halt',
               opts.terminate_on_too_large_command /\ input_args # <<>>
                 /\ at \in {"added", "failing"} /\ at' \notin {"added", "failing"}
                 => command_length <= max_length
        PROVE  SizesInv'
    <2>1. CommandsWithinLimits' /\ command_length' = command_length
      BY <1>2 DEF SizesInv, CommandsWithinLimits, command_length
    <2> QED
      BY <1>2, <2>1 DEF SizesInv
  <1>3. CASE ReadsInput
    <2>1. /\ at = "next" /\ at' \in {"check", "ended"}
          /\ UNCHANGED <<opts, max_length, input_args, input_length, executed>>
      BY <1>3 DEF ReadsInput, TokenRead, InputEnds, Running, Goto, history,
         command_increment_line_count, limits
    <2> QED
      BY <1>2, <2>1
  <1>4. CASE ArgFits
    <2>1. /\ at = "check" /\ at' = "add" /\ ~command_arg_would_exceed_limits(token)
          /\ UNCHANGED <<opts, max_length, input_args, input_length, executed>>
      BY <1>4 DEF ArgFits, Running, Goto, cmd, limits, batch, history
    <2>2. opts.max_args > 0 => Len(input_args) # opts.max_args
      BY <2>1 DEF command_arg_would_exceed_limits
    <2>3. opts.max_args > 0 => Len(input_args) < opts.max_args
      BY <2>2, SizesAreTyped DEF SizesInv, SizesTyped
    <2> QED
      BY <1>2, <2>1, <2>3
  <1>5. CASE AfterFlush
    <2>1. /\ at = "flushed" /\ pc = "caller" /\ at' = (IF halt THEN "ended" ELSE "add")
          /\ UNCHANGED <<opts, max_length, input_args, input_length, executed>>
      BY <1>5 DEF AfterFlush, ContinueUnlessHalted, Running, Goto, cmd, limits, batch, history
    <2>2. at' = "add" => Len(input_args) = 0
      BY <2>1 DEF SizesInv
    <2> QED
      BY <1>2, <2>1, <2>2
  <1>6. CASE ExecuteAfterAdding \/ KeepCollecting \/ FailTooLong
    <2>1. /\ at = "added" /\ at' \in {"executed", "next", "failing"}
          /\ at' # "failing" => ~TooLongAfterArgAdded
          /\ UNCHANGED <<opts, max_length, input_args, input_length, executed>>
      BY <1>6 DEF ExecuteAfterAdding, KeepCollecting, FailTooLong, Running, Goto, CallExecute,
         CallDrain, command_should_execute_after_arg_added, cmd, limits, batch, history
    <2>2. at' # "failing" /\ opts.terminate_on_too_large_command
            => command_length <= max_length
      BY <2>1, SizesAreTyped DEF TooLongAfterArgAdded, SizesTyped
    <2> QED
      BY <1>2, <2>1, <2>2
  <1>7. CASE ArgTooLong \/ FlushBeforeAdding \/ AfterExecution
    <2>1. /\ at \in {"check", "executed"} /\ at' \in {"check", "flushed", "ended", "next"}
          /\ at' = "flushed" => pc' = "usr2"
          /\ UNCHANGED <<opts, max_length, input_args, input_length, executed>>
      BY <1>7 DEF ArgTooLong, FlushBeforeAdding, AfterExecution, ContinueUnlessHalted, Running,
         Goto, Exit, CallExecute, ReadUsr1, cmd, limits, batch, history
    <2> QED
      BY <1>2, <2>1
  <1>8. CASE FailOnInputError \/ ExecuteRemainder \/ Finish
    <2>1. /\ at \in {"ended", "last"} /\ at' \in {"failing", "last", "finishing"}
          /\ UNCHANGED <<opts, max_length, input_args, input_length, executed>>
      BY <1>8 DEF FailOnInputError, ExecuteRemainder, Finish, Running, CallDrain, CallExecute,
         cmd, limits, batch, history
    <2> QED
      BY <1>2, <2>1
  <1>9. CASE PoolMoves \/ UNCHANGED allVars
    <2>1. UNCHANGED <<at, opts, max_length, input_args, input_length, executed>>
      BY <1>9 DEF PoolMoves, allVars, modeVars, cmd, limits, batch, history
    <2>2. pc' = "caller" => pc \in {"caller", "start"} \/ halt'
      BY <1>9, CallsReturnHalted DEF PoolMoves, allVars
    <2>3. at' = "flushed" /\ pc' = "caller" => input_args = <<>> \/ halt'
      BY <1>1, <2>1, <2>2 DEF SizesInv, ControlInv
    <2>4. at' = "add" /\ opts.max_args > 0 => Len(input_args) < opts.max_args
      BY <2>1 DEF SizesInv
    <2> QED
      BY <1>2, <2>1, <2>3, <2>4
  <1> QED
    BY <1>3, <1>4, <1>5, <1>6, <1>7, <1>8, <1>9, SizesAdd, SizesLaunch
    DEF appender_mode_run, AppenderModeStep

LEMMA SizesInvariant == AppenderSpec => []SizesInv
  BY SizesInitially, SizesStep, TypesInvariant, ArgumentsInvariant, ControlInvariant, PTL
     DEF AppenderSpec, AppenderInit

\* No command is executed with more than -n arguments, nor, with -x, with more
\* than -s bytes, although a length that is exceeded is noticed only after the
\* argument has been added (xargs_mode_should_execute_command_after_arg_added).
THEOREM LimitsAreKept == AppenderSpec => []CommandsWithinLimits
  <1>1. SizesInv => CommandsWithinLimits
    BY DEF SizesInv
  <1> QED
    BY <1>1, SizesInvariant, PTL

-----------------------------------------------------------------------------
(* No command is executed before it must be. *)

\* A command is asked for because of the next argument only where there is one
\* already.
LEMMA FlushHasArguments ==
  ASSUME TypesInv, ArgumentsInv, FlushBeforeAdding
  PROVE  input_args # <<>>
  <1>1. /\ at = "check" /\ command_ensure_length_not_exceeded(token)
        /\ command_arg_would_exceed_limits(token)
    BY DEF FlushBeforeAdding, Running
  <1>2. LengthWith(token) \in Int /\ max_length \in Int
    <2>1. token.len \in Nat
      BY <1>1, CommandAssumption DEF ArgumentsInv, HoldsToken, Token
    <2>2. max_length \in Nat /\ input_length \in Nat /\ EnvLength \in Nat /\ FixedLength \in Nat
      BY CommandAssumption DEF TypesInv, ModeTypeOK
    <2> QED
      BY <2>1, <2>2 DEF LengthWith, command_length
  <1>3. input_args = <<>> => LengthWith(token) <= max_length /\ Len(input_args) = 0
    BY <1>1 DEF command_ensure_length_not_exceeded, command_input_args_remain
  <1> QED
    BY <1>1, <1>2, <1>3 DEF command_arg_would_exceed_limits

\* `next' does not fit into a command of these arguments and this length.
NoRoom(args, length, next) ==
  \/ opts.max_args > 0 /\ Len(args) = opts.max_args
  \/ length + next.len + 1 > max_length

LastCommand == executed[Len(executed)]

\* Without -L: a command that has arguments collects until the next one does
\* not fit, and only the first command may have none.
PlacesInv ==
  ~opts.line_mode =>
    /\ at # "executed"
    /\ at = "added" => input_args # <<>>
    /\ at \in {"next", "check"} /\ input_args = <<>> => executed = <<>>
    /\ ~input_present => at \notin HoldsToken \cup {"added"}
    /\ ~input_present /\ at \in {"next", "ended"} => executed = <<>>
    /\ pc \in Asking =>
         /\ at = "flushed" => input_args # <<>>
         /\ input_args # <<>> \/ executed = <<>>

\* Strengthening: the argument that did not fit into the last command is the
\* first of the next one, or in hand.
RoomInv ==
  ~opts.line_mode =>
    /\ CommandsAreMaximal
    /\ at = "flushed" /\ input_args # <<>> => NoRoom(input_args, command_length, token)
    /\ executed # <<>> =>
         /\ input_args # <<>> => NoRoom(LastCommand.args, LastCommand.length, input_args[1])
         /\ input_args = <<>> /\ at \in HoldsToken =>
              NoRoom(LastCommand.args, LastCommand.length, token)

LEMMA PlacesStep ==
  ASSUME TypesInv, ArgumentsInv, ControlInv, SizesInv, PlacesInv, [appender_mode_run]_allVars
  PROVE  PlacesInv'
  <1>1. CASE ReadsInput
    <2>1. /\ at = "next" /\ pc = "caller" /\ pc' = "caller"
          /\ \/ at' = "check" /\ input_present' = TRUE
             \/ at' = "ended" /\ input_present' = input_present
          /\ UNCHANGED <<opts, input_args, executed>>
      BY <1>1 DEF ReadsInput, TokenRead, InputEnds, Running, Goto, poolVars, history,
         command_increment_line_count, limits
    <2> QED
      BY <2>1 DEF PlacesInv, HoldsToken, Asking
  <1>2. CASE ArgFits \/ ArgTooLong \/ KeepCollecting
    <2>1. /\ at \in {"check", "added"} /\ at' \in {"check", "add", "next"}
          /\ at = "added" <=> at' = "next"
          /\ pc' \in {"caller", "exited"}
          /\ UNCHANGED <<opts, input_args, input_present, executed>>
      BY <1>2 DEF ArgFits, ArgTooLong, KeepCollecting, Running, Goto, Exit, CallerExits, cmd,
         limits, batch, reading, history, poolVars
    <2> QED
      BY <2>1 DEF PlacesInv, HoldsToken, Asking
  <1>3. CASE FlushBeforeAdding
    <2>1. /\ at = "check" /\ at' = "flushed"
          /\ UNCHANGED <<opts, input_args, input_present, executed>>
      BY <1>3 DEF FlushBeforeAdding, Running, CallExecute, cmd, limits, batch, reading, history
    <2> QED
      BY <1>3, <2>1, FlushHasArguments DEF PlacesInv, HoldsToken
  <1>4. CASE AfterFlush \/ AfterExecution
    <2>1. /\ at \in {"flushed", "executed"}
          /\ at = "flushed" => at' \in {"ended", "add"}
          /\ pc' = "caller"
          /\ UNCHANGED <<opts, input_args, input_present, executed>>
      BY <1>4 DEF AfterFlush, AfterExecution, ContinueUnlessHalted, Running, Goto, cmd, limits,
         batch, reading, history, poolVars
    <2> QED
      BY <2>1 DEF PlacesInv, HoldsToken, Asking
  <1>5. CASE AddArgument
    <2>1. /\ at = "add" /\ at' = "added" /\ pc' = "caller"
          /\ input_args' = Append(input_args, token)
          /\ UNCHANGED <<opts, input_present, executed>>
      BY <1>5 DEF AddArgument, Running, Goto, command_add_input_argument, limits, reading,
         history, poolVars
    <2>2. input_args' # <<>>
      BY <2>1, AppendProperties DEF ArgumentsInv, HoldsToken
    <2> QED
      BY <2>1, <2>2 DEF PlacesInv, HoldsToken, Asking
  <1>6. CASE ExecuteAfterAdding \/ FailTooLong
    <2>1. /\ at = "added" /\ at' \in {"executed", "failing"}
          /\ at' = "executed" => opts.line_mode
          /\ pc' \in Asking => at' = "executed"
          /\ UNCHANGED <<opts, input_args, input_present, executed>>
      BY <1>6 DEF ExecuteAfterAdding, FailTooLong, Running, CallExecute, CallDrain, StartDrain,
         command_should_execute_after_arg_added, cmd, limits, batch, reading, history, Asking
    <2> QED
      BY <2>1 DEF PlacesInv, HoldsToken
  <1>7. CASE FailOnInputError \/ ExecuteRemainder \/ Finish
    <2>1. /\ at \in {"ended", "last"} /\ at' \in {"failing", "last", "finishing"}
          /\ pc' \in Asking => at = "ended" /\ ExecutesAtEnd
          /\ UNCHANGED <<opts, input_args, input_present, executed>>
      BY <1>7 DEF FailOnInputError, ExecuteRemainder, Finish, Running, CallExecute, CallDrain,
         StartDrain, cmd, limits, batch, reading, history, Asking
    <2>2. pc' \in Asking /\ input_present => input_args # <<>>
      BY <2>1 DEF ExecutesAtEnd, command_input_args_remain
    <2> QED
      BY <2>1, <2>2 DEF PlacesInv, HoldsToken
  <1>8. ASSUME NEW c \in Child, LaunchCommand(c)
        PROVE  PlacesInv'
    BY <1>8, LaunchExecutes DEF PlacesInv, HoldsToken, Asking
  <1>9. CASE PoolMoves \/ UNCHANGED allVars
    <2>1. UNCHANGED <<at, opts, input_args, input_present, executed>>
      BY <1>9 DEF PoolMoves, allVars, modeVars, cmd, limits, batch, reading, history
    <2>2. pc' \in Asking => pc \in Asking
      BY <1>9, CallsReturnHalted DEF PoolMoves, allVars
    <2> QED
      BY <2>1, <2>2 DEF PlacesInv
  <1> QED
    BY <1>1, <1>2, <1>3, <1>4, <1>5, <1>6, <1>7, <1>8, <1>9 DEF appender_mode_run, AppenderModeStep

\* What the limits leave no room for when the command is executed, they leave
\* none for afterwards.
LEMMA RoomLaunch ==
  ASSUME TypesInv, ArgumentsInv, ControlInv, PlacesInv, RoomInv,
         NEW c \in Child, LaunchCommand(c)
  PROVE  RoomInv'
  <1> SUFFICES ASSUME ~opts.line_mode
               PROVE  RoomInv'
    BY LaunchExecutes DEF RoomInv
  <1>1. /\ at \in {"flushed", "last"} /\ pc \in Asking
        /\ at = "flushed" => input_args # <<>>
        /\ UNCHANGED <<at, opts, max_length, token>> /\ input_args' = <<>>
    BY LaunchExecutes DEF PlacesInv
  <1>2. /\ Len(executed) \in Nat /\ Len(executed') = Len(executed) + 1
        /\ DOMAIN executed = 1..Len(executed) /\ DOMAIN executed' = 1..Len(executed')
        /\ \A k \in 1..Len(executed) : executed'[k] = executed[k]
        /\ executed'[Len(executed')].args = input_args
        /\ executed'[Len(executed')].length = command_length
    BY LaunchExecutes
  <1>3. ASSUME NEW k \in DOMAIN executed', k < Len(executed')
        PROVE  \/ Len(executed'[k].args) = opts.max_args
               \/ executed'[k].length + executed'[k + 1].args[1].len + 1 > max_length
    <2>1. k \in DOMAIN executed /\ executed'[k] = executed[k] /\ executed # <<>>
      BY <1>2, <1>3
    <2>2. CASE k = Len(executed)
      <3>1. executed'[k + 1].args = input_args
        BY <1>2, <2>2
      <3>2. input_args # <<>>
        BY <1>1, <2>1 DEF PlacesInv
      <3> QED
        BY <2>1, <2>2, <3>1, <3>2 DEF RoomInv, LastCommand, NoRoom
    <2>3. CASE k < Len(executed)
      <3>1. executed'[k + 1] = executed[k + 1]
        BY <1>2, <2>1, <2>3
      <3> QED
        BY <2>1, <2>3, <3>1 DEF RoomInv, CommandsAreMaximal, ArgumentsInv
    <2> QED
      BY <1>2, <2>1, <2>2, <2>3
  <1>4. CommandsAreMaximal'
    BY <1>1, <1>2, <1>3 DEF CommandsAreMaximal
  <1>5. at = "flushed" => NoRoom(input_args, command_length, token)
    BY <1>1 DEF RoomInv
  <1>6. at = "flushed" => NoRoom(LastCommand.args, LastCommand.length, token)'
    BY <1>1, <1>2, <1>5 DEF NoRoom, LastCommand
  <1> QED
    BY <1>1, <1>4, <1>6 DEF RoomInv, HoldsToken

LEMMA RoomAdd ==
  ASSUME ArgumentsInv, RoomInv, AddArgument
  PROVE  RoomInv'
  <1>1. /\ at = "add" /\ at' = "added" /\ input_args' = Append(input_args, token)
        /\ UNCHANGED <<opts, max_length, token, executed>>
    BY DEF AddArgument, Running, Goto, command_add_input_argument, limits, reading, history
  <1>2. input_args \in Seq(Token) /\ token \in Token
    BY <1>1 DEF ArgumentsInv, HoldsToken
  <1>3. input_args'[1] = IF input_args = <<>> THEN token ELSE input_args[1]
    <2>1. CASE input_args = <<>>
      BY <1>1, <1>2, <2>1, AppendProperties
    <2>2. CASE input_args # <<>>
      <3>1. Len(input_args) \in Nat /\ Len(input_args) # 0
        BY <1>2, <2>2, LenProperties, EmptySeq
      <3> QED
        BY <1>1, <1>2, <2>2, <3>1, AppendProperties
    <2> QED
      BY <2>1, <2>2
  <1>4. input_args' # <<>>
    BY <1>1, <1>2, AppendProperties
  <1>5. /\ CommandsAreMaximal <=> CommandsAreMaximal'
        /\ LastCommand' = LastCommand
        /\ NoRoom(LastCommand.args, LastCommand.length, input_args[1])'
             <=> NoRoom(LastCommand.args, LastCommand.length, input_args'[1])
    BY <1>1 DEF CommandsAreMaximal, LastCommand, NoRoom
  <1>6. ~opts.line_mode /\ executed # <<>>
          => NoRoom(LastCommand.args, LastCommand.length, input_args'[1])
    BY <1>1, <1>3 DEF RoomInv, HoldsToken
  <1> QED
    BY <1>1, <1>4, <1>5, <1>6 DEF RoomInv

LEMMA RoomStep ==
  ASSUME TypesInv, ArgumentsInv, ControlInv, PlacesInv, RoomInv, [appender_mode_run]_allVars
  PROVE  RoomInv'
  <1> SUFFICES ASSUME ~opts.line_mode \/ ~opts.line_mode'
               PROVE  RoomInv'
    BY DEF RoomInv
  \* A step that leaves command and commands alone has to keep the rest only.
  <1>1. ASSUME UNCHANGED <<opts, max_length, input_args, input_length, executed>>,
               at' = "flushed" /\ input_args # <<>> =>
                 NoRoom(input_args, command_length, token'),
               at' \in HoldsToken =>
                 (at \in HoldsToken /\ token' = token) \/ input_args # <<>> \/ executed = <<>>
        PROVE  RoomInv'
    <2>1. /\ CommandsAreMaximal => CommandsAreMaximal'
          /\ command_length' = command_length /\ LastCommand' = LastCommand
          /\ NoRoom(input_args, command_length, token') => NoRoom(input_args, command_length, token)'
          /\ NoRoom(LastCommand.args, LastCommand.length, input_args[1])
               => NoRoom(LastCommand.args, LastCommand.length, input_args[1])'
          /\ NoRoom(LastCommand.args, LastCommand.length, token) /\ token' = token
               => NoRoom(LastCommand.args, LastCommand.length, token)'
      BY <1>1 DEF CommandsAreMaximal, command_length, LastCommand, NoRoom
    <2> QED
      BY <1>1, <2>1 DEF RoomInv
  <1>2. CASE ReadsInput
    <2>1. /\ at = "next" /\ at' \in {"check", "ended"}
          /\ UNCHANGED <<opts, max_length, input_args, input_length, executed>>
      BY <1>2 DEF ReadsInput, TokenRead, InputEnds, Running, Goto, history,
         command_increment_line_count, limits
    <2>2. input_args # <<>> \/ executed = <<>>
      BY <2>1 DEF PlacesInv
    <2> QED
      BY <1>1, <2>1, <2>2
  <1>3. CASE FlushBeforeAdding
    <2>1. /\ at = "check" /\ at' = "flushed" /\ command_arg_would_exceed_limits(token)
          /\ token' = token
          /\ UNCHANGED <<opts, max_length, input_args, input_length, executed>>
      BY <1>3 DEF FlushBeforeAdding, Running, CallExecute, cmd, limits, batch, reading, history
    <2>2. NoRoom(input_args, command_length, token)
      BY <2>1 DEF command_arg_would_exceed_limits, LengthWith, NoRoom
    <2> QED
      BY <1>1, <2>1, <2>2 DEF HoldsToken
  <1>4. CASE \/ ArgFits \/ ArgTooLong \/ AfterFlush \/ FailTooLong \/ ExecuteAfterAdding
             \/ KeepCollecting \/ AfterExecution \/ FailOnInputError \/ ExecuteRemainder
             \/ Finish
    <2>1. /\ at' # "flushed"
          /\ at' \in HoldsToken => at \in HoldsToken
          /\ UNCHANGED <<opts, max_length, input_args, input_length, executed, token>>
      BY <1>4 DEF ArgFits, ArgTooLong, AfterFlush, FailTooLong, ExecuteAfterAdding,
         KeepCollecting, AfterExecution, ContinueUnlessHalted, FailOnInputError,
         ExecuteRemainder, Finish, Running, Goto, Exit, CallExecute, CallDrain, cmd, limits,
         batch, reading, history, HoldsToken
    <2> QED
      BY <1>1, <2>1
  <1>5. CASE PoolMoves \/ UNCHANGED allVars
    <2>1. UNCHANGED <<at, opts, max_length, input_args, input_length, executed, token>>
      BY <1>5 DEF PoolMoves, allVars, modeVars, cmd, limits, batch, reading, history
    <2>2. at' = "flushed" /\ input_args # <<>> => NoRoom(input_args, command_length, token')
      BY <2>1 DEF RoomInv
    <2> QED
      BY <1>1, <2>1, <2>2
  <1>6. CASE AddArgument
    BY <1>6, RoomAdd
  <1>7. ASSUME NEW c \in Child, LaunchCommand(c)
        PROVE  RoomInv'
    BY <1>7, RoomLaunch
  <1> QED
    BY <1>2, <1>3, <1>4, <1>5, <1>6, <1>7 DEF appender_mode_run, AppenderModeStep

\* Without -L phxargs starts no more processes than the limits ask for: each
\* command but the last is executed with -n arguments, or because the next one
\* would have made it too long (xargs_mode_arg_would_exceed_limits).
THEOREM NoCommandTooEarly == AppenderSpec => []CommandsAreMaximal
  <1>1. ModeInit => PlacesInv /\ RoomInv
    BY DEF ModeInit, Init, command_create, PlacesInv, RoomInv, CommandsAreMaximal, HoldsToken,
           Asking
  <1>2. RoomInv => CommandsAreMaximal
    BY DEF RoomInv, CommandsAreMaximal
  <1> QED
    BY <1>1, <1>2, PlacesStep, RoomStep, SizesInvariant, TypesInvariant, ArgumentsInvariant,
       ControlInvariant, PTL DEF AppenderSpec, AppenderInit

-----------------------------------------------------------------------------
(* Commands hold whole lines. *)

LEMMA LineEndsFinite ==
  ASSUME NEW args \in Seq(Token)
  PROVE  /\ LineEnds(args) \subseteq 1..Len(args) /\ IsFiniteSet(LineEnds(args))
         /\ Cardinality(LineEnds(args)) \in Nat
  <1>1. LineEnds(args) \subseteq 1..Len(args) /\ Len(args) \in Nat
    BY LenProperties DEF LineEnds
  <1>2. IsFiniteSet(1..Len(args))
    BY <1>1, FS_Interval
  <1>3. IsFiniteSet(LineEnds(args))
    BY <1>1, <1>2, FS_Subset
  <1> QED
    BY <1>1, <1>3, FS_CardinalityType

\* One more argument, one more line end if it ends a line.
LEMMA LineEndsCounted ==
  ASSUME NEW args \in Seq(Token), NEW next \in Token
  PROVE  Cardinality(LineEnds(Append(args, next))) =
           Cardinality(LineEnds(args)) + (IF next.ends_line THEN 1 ELSE 0)
  <1> DEFINE n == Len(args)
  <1>1. n \in Nat /\ DOMAIN args = 1..n
    BY LenProperties
  <1>2. LineEnds(args) \subseteq 1..n /\ IsFiniteSet(LineEnds(args))
    BY LineEndsFinite
  <1>3. Cardinality(LineEnds(args)) \in Nat
    BY LineEndsFinite
  <1>4. /\ DOMAIN Append(args, next) = 1..(n + 1)
        /\ Append(args, next)[n + 1] = next
        /\ \A i \in 1..n : Append(args, next)[i] = args[i]
    BY <1>1, AppendProperties, LenProperties
  <1>5. CASE next.ends_line
    <2>1. LineEnds(Append(args, next)) = LineEnds(args) \cup {n + 1}
      BY <1>1, <1>4, <1>5 DEF LineEnds
    <2>2. n + 1 \notin LineEnds(args)
      BY <1>1, <1>2
    <2> QED
      BY <1>2, <1>3, <1>5, <2>1, <2>2, FS_AddElement
  <1>6. CASE ~next.ends_line
    <2>1. LineEnds(Append(args, next)) = LineEnds(args)
      BY <1>1, <1>4, <1>6 DEF LineEnds
    <2> QED
      BY <1>3, <1>6, <2>1
  <1> QED
    BY <1>5, <1>6

LEMMA NoLineEnds == LineEnds(<<>>) = {} /\ Cardinality(LineEnds(<<>>)) = 0
  <1>1. LineEnds(<<>>) = {}
    BY DEF LineEnds
  <1> QED
    BY <1>1, FS_EmptySet

\* The lines of the arguments collected.
LinesHeld == Cardinality(LineEnds(input_args))

WholeLines(args) ==
  /\ Cardinality(LineEnds(args)) = opts.max_lines
  /\ args[Len(args)].ends_line

\* Strengthening, for -L: line_count is the number of lines held, and of the
\* one in hand; there is room for one more while arguments are collected; and
\* unless it is the last, a command is executed, and was, when its lines are
\* complete.
LinesInv ==
  opts.line_mode =>
    /\ CommandsHoldWholeLines
    /\ at # "flushed"
    /\ LinesHeld <= opts.max_lines
    /\ at \in {"next", "check", "add"} => LinesHeld < opts.max_lines
    /\ at \in {"next", "added"} => line_count = LinesHeld
    /\ at \in {"check", "add"} =>
         line_count = LinesHeld + (IF token.ends_line THEN 1 ELSE 0)
    /\ at = "added" /\ line_count = opts.max_lines => WholeLines(input_args)
    /\ at = "executed" =>
         /\ pc \in Asking => WholeLines(input_args)
         /\ pc = "caller" => halt \/ (input_args = <<>> /\ line_count = 0)
    /\ executed # <<>> /\ (at \notin {"last", "finishing", "failing"} \/ pc \in Asking) =>
         WholeLines(LastCommand.args)

\* The numbers compared.
LEMMA LinesAreTyped ==
  ASSUME TypesInv
  PROVE  /\ LinesHeld \in Nat /\ opts.max_lines \in Nat /\ line_count \in Nat
         /\ opts.line_mode => opts.max_lines > 0 /\ opts.max_args = 0
  <1>1. opts.max_lines \in Nat /\ (opts.line_mode => opts.max_lines > 0 /\ opts.max_args = 0)
    BY CommandAssumption DEF TypesInv, ModeTypeOK, Configured, Option
  <1>2. LinesHeld \in Nat
    BY LineEndsFinite DEF LinesHeld, TypesInv, ModeTypeOK
  <1> QED
    BY <1>1, <1>2 DEF TypesInv, ModeTypeOK

LEMMA LinesStart == ModeInit => LinesInv
  <1> SUFFICES ASSUME ModeInit PROVE LinesInv
    OBVIOUS
  <1>1. at = "next" /\ input_args = <<>> /\ executed = <<>> /\ line_count = 0
    BY DEF ModeInit, command_create
  <1>2. LinesHeld = 0
    BY <1>1, NoLineEnds DEF LinesHeld
  <1>3. opts.line_mode => opts.max_lines > 0
    BY TypesInitially, LinesAreTyped
  <1>4. opts.max_lines \in Nat
    BY TypesInitially, LinesAreTyped
  <1> QED
    BY <1>1, <1>2, <1>3, <1>4 DEF LinesInv, CommandsHoldWholeLines

\* Adding: there was room for one more line, and where it is the last one, this
\* argument ends it.
LEMMA LinesAdd ==
  ASSUME TypesInv, ArgumentsInv, LinesInv, AddArgument
  PROVE  LinesInv'
  <1> SUFFICES ASSUME opts.line_mode
               PROVE  LinesInv'
    BY DEF AddArgument, command_add_input_argument, limits, LinesInv
  <1>1. /\ at = "add" /\ at' = "added" /\ input_args' = Append(input_args, token)
        /\ UNCHANGED <<opts, line_count, executed>>
    BY DEF AddArgument, Running, Goto, command_add_input_argument, limits, history
  <1>2. input_args \in Seq(Token) /\ token \in Token
    BY <1>1 DEF ArgumentsInv, HoldsToken
  <1>3. LinesHeld' = LinesHeld + (IF token.ends_line THEN 1 ELSE 0)
    BY <1>1, <1>2, LineEndsCounted DEF LinesHeld
  <1>4. /\ LinesHeld < opts.max_lines
        /\ line_count = LinesHeld + (IF token.ends_line THEN 1 ELSE 0)
    BY <1>1 DEF LinesInv
  <1>5. /\ LinesHeld' = line_count /\ LinesHeld' <= opts.max_lines
        /\ line_count = opts.max_lines => token.ends_line
    BY <1>3, <1>4, LinesAreTyped
  <1>6. input_args'[Len(input_args')] = token
    BY <1>1, <1>2, AppendProperties
  <1>7. line_count = opts.max_lines => WholeLines(input_args)'
    BY <1>1, <1>5, <1>6 DEF WholeLines, LinesHeld
  <1>8. /\ CommandsHoldWholeLines'
        /\ executed # <<>> => WholeLines(LastCommand.args)'
    BY <1>1 DEF LinesInv, CommandsHoldWholeLines, WholeLines, LastCommand
  <1> QED
    BY <1>1, <1>5, <1>7, <1>8 DEF LinesInv

\* Launching: the commands before this one were complete.
LEMMA LinesLaunch ==
  ASSUME TypesInv, ControlInv, LinesInv, NEW c \in Child, LaunchCommand(c)
  PROVE  LinesInv'
  <1> SUFFICES ASSUME opts.line_mode
               PROVE  LinesInv'
    BY LaunchExecutes DEF LinesInv
  <1>1. /\ at \in {"executed", "last"} /\ pc \in Asking /\ pc' = "caller"
        /\ UNCHANGED <<at, opts>> /\ input_args' = <<>> /\ line_count' = 0
    BY LaunchExecutes DEF LinesInv
  <1>2. /\ Len(executed) \in Nat /\ Len(executed') = Len(executed) + 1
        /\ DOMAIN executed = 1..Len(executed) /\ DOMAIN executed' = 1..Len(executed')
        /\ \A k \in 1..Len(executed) : executed'[k] = executed[k]
        /\ executed'[Len(executed')].args = input_args
    BY LaunchExecutes
  <1>3. LinesHeld' = 0 /\ opts.max_lines \in Nat /\ opts.max_lines > 0
    BY <1>1, NoLineEnds, LinesAreTyped DEF LinesHeld
  <1>4. ASSUME NEW k \in DOMAIN executed'
        PROVE  /\ Cardinality(LineEnds(executed'[k].args)) <= opts.max_lines
               /\ k < Len(executed') => WholeLines(executed'[k].args)
    <2>1. CASE k = Len(executed')
      BY <1>2, <2>1 DEF LinesInv, LinesHeld
    <2>2. CASE k = Len(executed)
      <3>1. executed'[k] = LastCommand /\ executed # <<>>
        BY <1>2, <1>4, <2>2 DEF LastCommand
      <3>2. WholeLines(LastCommand.args)
        BY <1>1, <3>1 DEF LinesInv
      <3> QED
        BY <1>3, <3>1, <3>2 DEF WholeLines
    <2>3. CASE k < Len(executed)
      <3>1. k \in DOMAIN executed /\ executed'[k] = executed[k]
        BY <1>2, <1>4, <2>3
      <3> QED
        BY <2>3, <3>1 DEF LinesInv, CommandsHoldWholeLines, WholeLines
    <2> QED
      BY <1>2, <1>4, <2>1, <2>2, <2>3
  <1>5. CommandsHoldWholeLines'
    BY <1>1, <1>4 DEF CommandsHoldWholeLines, WholeLines
  <1>6. at = "executed" => WholeLines(LastCommand.args)'
    <2>1. at = "executed" => WholeLines(input_args)
      BY <1>1 DEF LinesInv
    <2>2. LastCommand'.args = input_args
      BY <1>2 DEF LastCommand
    <2> QED
      BY <1>1, <2>1, <2>2 DEF WholeLines
  <1> QED
    BY <1>1, <1>3, <1>5, <1>6 DEF LinesInv, Asking

LEMMA LinesStep ==
  ASSUME TypesInv, ArgumentsInv, ControlInv, LinesInv, [appender_mode_run]_allVars
  PROVE  LinesInv'
  <1> SUFFICES ASSUME opts.line_mode \/ opts.line_mode'
               PROVE  LinesInv'
    BY DEF LinesInv
  <1>1. halt => halt'
    BY StepsOfThePool, HaltStays
  \* A step that leaves command and commands alone has to keep the rest only.
  <1>2. ASSUME UNCHANGED <<opts, input_args, executed>>,
               at' # "flushed",
               at' \in {"next", "check", "add"} => LinesHeld < opts.max_lines,
               at' \in {"next", "added"} => line_count' = LinesHeld,
               at' \in {"check", "add"} =>
                 line_count' = LinesHeld + (IF token'.ends_line THEN 1 ELSE 0),
               at' = "added" /\ line_count' = opts.max_lines => WholeLines(input_args),
               at' = "executed" =>
                 /\ pc' \in Asking => WholeLines(input_args)
                 /\ pc' = "caller" => halt' \/ (input_args = <<>> /\ line_count' = 0),
               executed # <<>> /\ (at' \notin {"last", "finishing", "failing"} \/ pc' \in Asking)
                 => at \notin {"last", "finishing", "failing"} \/ pc \in Asking
        PROVE  LinesInv'
    <2>1. /\ LinesHeld' = LinesHeld /\ LastCommand' = LastCommand
          /\ CommandsHoldWholeLines => CommandsHoldWholeLines'
          /\ WholeLines(input_args) => WholeLines(input_args)'
          /\ WholeLines(LastCommand.args) => WholeLines(LastCommand.args)'
      BY <1>2 DEF CommandsHoldWholeLines, WholeLines, LinesHeld, LastCommand
    <2> QED
      BY <1>2, <2>1 DEF LinesInv
  <1>3. CASE ReadsInput
    <2>1. /\ at = "next" /\ at' \in {"check", "ended"}
          /\ at' = "check" =>
               line_count' = line_count + (IF token'.ends_line THEN 1 ELSE 0)
          /\ UNCHANGED <<opts, input_args, executed>>
      BY <1>3 DEF ReadsInput, TokenRead, InputEnds, Running, Goto, history,
         command_increment_line_count, limits
    <2>2. line_count = LinesHeld /\ LinesHeld < opts.max_lines
      BY <2>1 DEF LinesInv
    <2> QED
      BY <1>2, <2>1, <2>2
  <1>4. CASE ArgFits \/ ArgTooLong
    <2>1. /\ at = "check" /\ at' \in {"check", "add"}
          /\ UNCHANGED <<opts, line_count, token, input_args, executed>>
      BY <1>4 DEF ArgFits, ArgTooLong, Running, Goto, Exit, cmd, limits, batch, reading, history
    <2>2. /\ LinesHeld < opts.max_lines
          /\ line_count = LinesHeld + (IF token.ends_line THEN 1 ELSE 0)
      BY <2>1 DEF LinesInv
    <2> QED
      BY <1>2, <2>1, <2>2
  <1>5. CASE FlushBeforeAdding
    <2>1. command_arg_would_exceed_limits(token) /\ UNCHANGED opts
      BY <1>5 DEF FlushBeforeAdding, cmd, limits
    <2> QED
      BY <2>1, LinesAreTyped DEF command_arg_would_exceed_limits
  <1>6. CASE AfterFlush \/ AfterExecution
    <2>1. /\ at \in {"flushed", "executed"} /\ pc = "caller"
          /\ at' \in {"ended", "next", "add"}
          /\ at = "executed" => at' \in {"ended", "next"}
          /\ at = "executed" /\ at' = "next" => ~halt
          /\ UNCHANGED <<opts, line_count, input_args, executed>>
      BY <1>6 DEF AfterFlush, AfterExecution, ContinueUnlessHalted, Running, Goto, cmd, limits,
         batch, reading, history
    <2>2. at = "executed"
      BY <2>1 DEF LinesInv
    <2>3. at' = "next" => line_count = LinesHeld /\ LinesHeld < opts.max_lines
      BY <2>1, <2>2, NoLineEnds, LinesAreTyped DEF LinesInv, LinesHeld
    <2> QED
      BY <1>2, <2>1, <2>2, <2>3
  <1>7. CASE KeepCollecting
    <2>1. /\ at = "added" /\ at' = "next"
          /\ ~TooLongAfterArgAdded /\ ~command_should_execute_after_arg_added
          /\ UNCHANGED <<opts, line_count, input_args, executed>>
      BY <1>7 DEF KeepCollecting, Running, Goto, cmd, limits, batch, reading, history
    <2>2. line_count # opts.max_lines
      BY <2>1 DEF command_should_execute_after_arg_added
    <2>3. line_count = LinesHeld /\ LinesHeld < opts.max_lines
      BY <2>1, <2>2, LinesAreTyped DEF LinesInv
    <2> QED
      BY <1>2, <2>1, <2>3
  <1>8. CASE ExecuteAfterAdding \/ FailTooLong
    <2>1. /\ at = "added" /\ at' \in {"executed", "failing"}
          /\ at' = "executed" => line_count = opts.max_lines /\ pc' # "caller"
          /\ UNCHANGED <<opts, line_count, input_args, executed>>
      BY <1>8 DEF ExecuteAfterAdding, FailTooLong, Running, CallExecute, CallDrain, ReadUsr1,
         StartDrain, command_should_execute_after_arg_added, cmd, limits, batch, reading, history
    <2>2. at' = "executed" => WholeLines(input_args)
      BY <2>1 DEF LinesInv
    <2> QED
      BY <1>2, <2>1, <2>2
  <1>9. CASE FailOnInputError \/ ExecuteRemainder \/ Finish
    <2>1. /\ at \in {"ended", "last"} /\ at' \in {"failing", "last", "finishing"}
          /\ at = "last" => pc' \notin Asking
          /\ UNCHANGED <<opts, line_count, input_args, executed>>
      BY <1>9 DEF FailOnInputError, ExecuteRemainder, Finish, Running, CallExecute, CallDrain,
         StartDrain, cmd, limits, batch, reading, history, Asking
    <2> QED
      BY <1>2, <2>1
  <1>10. CASE AddArgument
    BY <1>10, LinesAdd
  <1>11. ASSUME NEW c \in Child, LaunchCommand(c)
         PROVE  LinesInv'
    BY <1>11, LinesLaunch
  <1>12. CASE PoolMoves \/ UNCHANGED allVars
    <2>1. UNCHANGED <<at, opts, line_count, token, input_args, executed>>
      BY <1>12 DEF PoolMoves, allVars, modeVars, cmd, limits, batch, reading, history
    <2>2. /\ pc' \in Asking => pc \in Asking
          /\ pc' = "caller" => pc \in {"caller", "start"} \/ halt'
          /\ at # "next" => pc # "start"
      BY <1>12, CallsReturnHalted DEF PoolMoves, allVars, ControlInv
    <2>3. at' = "executed" =>
            /\ pc' \in Asking => WholeLines(input_args)
            /\ pc' = "caller" => halt' \/ (input_args = <<>> /\ line_count' = 0)
      BY <1>1, <2>1, <2>2 DEF LinesInv
    <2>4. /\ at' # "flushed"
          /\ at' \in {"next", "check", "add"} => LinesHeld < opts.max_lines
          /\ at' \in {"next", "added"} => line_count' = LinesHeld
          /\ at' \in {"check", "add"} =>
               line_count' = LinesHeld + (IF token'.ends_line THEN 1 ELSE 0)
          /\ at' = "added" /\ line_count' = opts.max_lines => WholeLines(input_args)
      BY <2>1 DEF LinesInv
    <2> QED
      BY <1>2, <2>1, <2>2, <2>3, <2>4
  <1> QED
    BY <1>3, <1>4, <1>5, <1>6, <1>7, <1>8, <1>9, <1>10, <1>11, <1>12
       DEF appender_mode_run, AppenderModeStep

\* With -L every command but the last is executed with exactly as many whole
\* lines as asked for, and the last one with no more: the count that the
\* tokenizer advances when it reads a line's end and the arguments collected
\* are never out of step (command_increment_line_count, appender_mode_run).
THEOREM LinesStayWhole == AppenderSpec => []CommandsHoldWholeLines
  <1>1. LinesInv => CommandsHoldWholeLines
    BY DEF LinesInv, CommandsHoldWholeLines
  <1> QED
    BY <1>1, LinesStart, LinesStep, TypesInvariant, ArgumentsInvariant, ControlInvariant, PTL
       DEF AppenderSpec, AppenderInit

-----------------------------------------------------------------------------
(* phxargs without -I keeps its promise. *)

\* What tells an empty input from one all given away: without input nothing
\* has been launched, until the last command is asked for.
PresentInv ==
  /\ input_present \in BOOLEAN
  /\ input_present => read # <<>>
  /\ ~input_present =>
       /\ read = <<>> /\ given = <<>> /\ input_args = <<>>
       /\ at \in {"next", "ended", "last", "finishing", "failing"}
       /\ at \in {"next", "ended"} => Whole!Untouched

\* A command asked for has arguments, unless it is the one for empty input.
AskedInv ==
  /\ at = "added" => input_args # <<>>
  /\ pc \in Asking /\ at \in {"flushed", "executed"} => input_args # <<>>
  /\ pc \in Asking /\ at = "last" => input_args # <<>> \/ (~input_present /\ Whole!Untouched)
  /\ at = "last" /\ ~input_present => ~opts.suppress_execution_on_empty_input

\* Once the last command has run, or has been withheld by a halt, phxargs may
\* finish.
EndInv ==
  /\ at = "last" /\ pc = "caller" =>
       /\ input_args = <<>> \/ halt
       /\ ~input_present => ~Whole!Untouched
  /\ at = "finishing" => ReadyToFinish
  /\ HaltInvolvesChild

LoopInv == ControlInv /\ PresentInv /\ AskedInv /\ EndInv

LEMMA LoopBegins == ModeInit => LoopInv
  <1> SUFFICES ASSUME ModeInit PROVE LoopInv
    OBVIOUS
  <1>1. /\ at = "next" /\ pc = "start" /\ halt = FALSE
        /\ input_present = FALSE /\ tokenizer_err = FALSE
        /\ read = <<>> /\ given = <<>> /\ input_args = <<>>
    BY DEF ModeInit, Init, command_create
  <1>2. Whole!Untouched
    BY DEF ModeInit, Init, Whole!Untouched, Launched
  <1>3. HaltInvolvesChild
    BY WholeBegins
  <1> QED
    BY <1>1, <1>2, <1>3
    DEF LoopInv, ControlInv, PresentInv, AskedInv, EndInv, Asking, Outside

\* Reading: the first token is the first sign of input.
LEMMA LoopReads ==
  ASSUME TypeOK, ArgumentsInv, LoopInv, ReadsInput
  PROVE  PresentInv' /\ AskedInv'
  <1>1. ASSUME NEW len \in TokenLengths, NEW ends_line \in BOOLEAN, TokenRead(len, ends_line)
        PROVE  PresentInv' /\ AskedInv'
    <2>1. /\ at' = "check" /\ pc' = pc /\ pc = "caller" /\ input_present' = TRUE
          /\ read' = Append(read, token')
          /\ token' = [id |-> Len(read) + 1, len |-> len, ends_line |-> ends_line]
      BY <1>1 DEF TokenRead, Running, Goto, poolVars
    <2>2. token' \in Token /\ read \in Seq(Token)
      BY <2>1 DEF Token, ArgumentsInv
    <2>3. read' # <<>>
      BY <2>1, <2>2, AppendProperties
    <2> QED
      BY <2>1, <2>3 DEF PresentInv, AskedInv, Asking
  <1>2. ASSUME NEW err \in InputErrors, NEW ends_line \in BOOLEAN, InputEnds(err, ends_line)
        PROVE  PresentInv' /\ AskedInv'
    <2>1. /\ at = "next" /\ at' = "ended" /\ UNCHANGED poolVars /\ pc = "caller"
          /\ UNCHANGED <<input_present, read, given, input_args, opts>>
      BY <1>2 DEF InputEnds, Running, Goto, history, command_increment_line_count, limits
    <2>2. Whole!Untouched => Whole!Untouched'
      BY <2>1, UntouchedStays
    <2> QED
      BY <2>1, <2>2 DEF LoopInv, PresentInv, AskedInv, Asking, poolVars
  <1> QED
    BY <1>1, <1>2 DEF ReadsInput

\* Collecting: only what has been added is asked to be executed.
LEMMA LoopCollects ==
  ASSUME TypesInv, ArgumentsInv, LoopInv,
         \/ ArgFits \/ ArgTooLong \/ FlushBeforeAdding \/ AfterFlush \/ AddArgument
         \/ FailTooLong \/ ExecuteAfterAdding \/ KeepCollecting \/ AfterExecution
  PROVE  /\ PresentInv' /\ AskedInv'
         /\ at' \notin {"last", "finishing"}
  <1>1. CASE ArgFits \/ ArgTooLong \/ AfterFlush \/ KeepCollecting \/ AfterExecution
    <2>1. /\ at \in {"check", "flushed", "added", "executed"}
          /\ at' \in {"check", "add", "ended", "next"}
          /\ pc' = pc \/ pc' = "exited"
          /\ pc = "caller"
          /\ UNCHANGED <<input_present, read, given, input_args, opts>>
      BY <1>1 DEF ArgFits, ArgTooLong, AfterFlush, KeepCollecting, AfterExecution,
             ContinueUnlessHalted, Running, Goto, Exit, CallerExits, cmd, limits, batch,
             reading, history, poolVars
    <2> QED
      BY <2>1 DEF LoopInv, PresentInv, AskedInv, Asking
  <1>2. CASE AddArgument
    <2>1. /\ at = "add" /\ at' = "added" /\ pc = "caller" /\ pc' = pc
          /\ input_args' = Append(input_args, token)
          /\ UNCHANGED <<input_present, read, given, opts>>
      BY <1>2 DEF AddArgument, Running, Goto, command_add_input_argument, limits, reading,
             history, poolVars
    <2>2. input_args' # <<>>
      BY <2>1, AppendProperties DEF ArgumentsInv, HoldsToken
    <2> QED
      BY <2>1, <2>2 DEF LoopInv, PresentInv, AskedInv, Asking
  <1>3. CASE FlushBeforeAdding
    <2>1. /\ at = "check" /\ at' = "flushed" /\ pc = "caller" /\ pc' = "usr2"
          /\ UNCHANGED <<input_present, read, given, input_args, opts>>
      BY <1>3 DEF FlushBeforeAdding, Running, CallExecute, ReadUsr1, cmd, limits, batch,
             reading, history
    <2>2. input_args # <<>>
      BY <1>3, FlushHasArguments
    <2> QED
      BY <2>1, <2>2 DEF LoopInv, PresentInv, AskedInv, Asking
  <1>4. CASE ExecuteAfterAdding \/ FailTooLong
    <2>1. /\ at = "added" /\ at' \in {"executed", "failing"}
          /\ UNCHANGED <<input_present, read, given, input_args, opts>>
      BY <1>4 DEF ExecuteAfterAdding, FailTooLong, Running, CallExecute, CallDrain, cmd, limits,
             batch, reading, history
    <2> QED
      BY <2>1 DEF LoopInv, PresentInv, AskedInv, Asking
  <1> QED
    BY <1>1, <1>2, <1>3, <1>4
    DEF ArgFits, ArgTooLong, FlushBeforeAdding, AfterFlush, AddArgument, FailTooLong,
        ExecuteAfterAdding, KeepCollecting, AfterExecution, ContinueUnlessHalted, Running, Goto,
        Exit, CallExecute, CallDrain

\* A launch: the command asked for is on its way, and the end may follow.
LEMMA LoopLaunches ==
  ASSUME TypeOK, TableInv, ArgumentsInv, LoopInv, NEW c \in Child, LaunchCommand(c)
  PROVE  PresentInv' /\ AskedInv' /\ EndInv'
  <1>1. /\ at \in {"flushed", "executed", "last"} /\ at' = at /\ pc' = "caller"
        /\ input_args' = <<>> /\ given' = given \o input_args
        /\ UNCHANGED <<input_present, read, opts, halt>> /\ ~halt
        /\ c \in Launched /\ life' = [life EXCEPT ![c] = "running"]
    <2>1. at \in {"flushed", "executed", "last"} /\ c \in Launched
      BY LaunchStarts
      DEF LaunchCommand, Launch, MayLaunch, LoopInv, ControlInv, Asking
    <2> QED
      BY <2>1
      DEF LaunchCommand, Launch, MayLaunch, recycle_command, limits, reading, ArgumentsInv
  <1>2. ~Whole!Untouched'
    BY <1>1 DEF Whole!Untouched, TypeOK, Launched
  <1>3. PresentInv'
    <2>1. CASE input_present
      BY <1>1, <2>1 DEF LoopInv, PresentInv
    <2>2. CASE ~input_present
      <3>1. at = "last" /\ given' = <<>>
        BY <1>1, <2>2 DEF LoopInv, PresentInv
      <3> QED
        BY <1>1, <2>2, <3>1 DEF LoopInv, PresentInv
    <2> QED
      BY <2>1, <2>2
  <1> QED
    BY <1>1, <1>2, <1>3 DEF LoopInv, AskedInv, EndInv, HaltInvolvesChild, Asking

\* Leaving the loop.
LEMMA LoopEnds ==
  ASSUME TypeOK, ArgumentsInv, LoopInv, FailOnInputError \/ ExecuteRemainder \/ Finish
  PROVE  PresentInv' /\ AskedInv' /\ EndInv'
  <1>1. /\ at \in {"ended", "last"} /\ at' \in {"failing", "last", "finishing"}
        /\ pc = "caller"
        /\ UNCHANGED <<input_present, tokenizer_err, read, given, input_args, opts, halt, life>>
    BY DEF FailOnInputError, ExecuteRemainder, Finish, Running, CallDrain, CallExecute,
       ReadUsr1, StartDrain, cmd, limits, batch, reading, history, fields, kernel
  <1>2. Whole!Untouched' <=> Whole!Untouched
    BY <1>1 DEF Whole!Untouched
  <1>3. PresentInv'
    BY <1>1 DEF LoopInv, PresentInv
  <1>4. HaltInvolvesChild'
    BY <1>1, <1>2 DEF LoopInv, EndInv, HaltInvolvesChild
  <1>5. CASE FailOnInputError
    <2>1. at' = "failing"
      BY <1>5 DEF FailOnInputError, CallDrain
    <2> QED
      BY <1>3, <1>4, <2>1 DEF AskedInv, EndInv
  <1>6. CASE ExecuteRemainder
    <2>1. at = "ended" /\ at' = "last" /\ pc' = "usr2" /\ ExecutesAtEnd
      BY <1>6 DEF ExecuteRemainder, Running, CallExecute, ReadUsr1
    <2>2. input_present => input_args # <<>>
      BY <2>1 DEF ExecutesAtEnd, command_input_args_remain
    <2>3. ~input_present => Whole!Untouched' /\ ~opts.suppress_execution_on_empty_input
      BY <1>2, <2>1 DEF LoopInv, PresentInv, ExecutesAtEnd
    <2> QED
      BY <1>1, <1>3, <1>4, <2>1, <2>2, <2>3 DEF AskedInv, EndInv
  <1>7. CASE Finish
    <2>1. /\ at' = "finishing" /\ pc' = "drain"
          /\ at = "ended" => ~tokenizer_err /\ ~ExecutesAtEnd
      BY <1>7 DEF Finish, Running, CallDrain, StartDrain
    <2>2. ~tokenizer_err
      BY <1>1, <2>1 DEF LoopInv, ControlInv
    <2>3. input_args = <<>> \/ halt
      <3>1. CASE at = "last"
        BY <1>1, <3>1 DEF LoopInv, EndInv
      <3>2. CASE at = "ended"
        <4>1. input_present => Len(input_args) = 0
          BY <2>1, <3>2, LenProperties
          DEF ExecutesAtEnd, command_input_args_remain, ArgumentsInv
        <4> QED
          BY <4>1, EmptySeq DEF ArgumentsInv, LoopInv, PresentInv
      <3> QED
        BY <1>1, <3>1, <3>2
    <2>4. given = read \/ halt
      <3>1. NothingLost /\ at \notin {"check", "flushed", "add"}
        BY <1>1 DEF ArgumentsInv, HoldsToken, HoldsNone
      <3>2. input_args = <<>> => given \o input_args = given
        BY ConcatEmptySeq DEF ArgumentsInv
      <3> QED
        BY <2>3, <3>1, <3>2 DEF NothingLost, ArgumentsInv
    <2>5. ~opts.suppress_execution_on_empty_input /\ read = <<>> => ~Whole!Untouched
      BY <1>1, <2>1 DEF LoopInv, PresentInv, EndInv, ExecutesAtEnd
    <2>6. ReadyToFinish'
      BY <1>1, <1>2, <2>2, <2>4, <2>5 DEF ReadyToFinish
    <2> QED
      BY <1>3, <1>4, <2>1, <2>6 DEF AskedInv, EndInv, Asking
  <1> QED
    BY <1>5, <1>6, <1>7, <1>3

\* A step of the pool alone: a call returns without a launch only after a halt,
\* and then a child has halted it.
LEMMA LoopRests ==
  ASSUME TypeOK, LoopInv, HaltInvolvesChild', [Next]_poolVars,
         PoolMoves \/ UNCHANGED allVars
  PROVE  PresentInv' /\ AskedInv' /\ EndInv'
  <1>1. UNCHANGED <<at, input_present, tokenizer_err, read, given, input_args, opts>>
    BY DEF PoolMoves, allVars, modeVars, cmd, limits, batch, reading, history
  <1>2. /\ pc' \in Asking => pc \in Asking
        /\ pc' = "caller" => pc \in {"caller", "start"} \/ halt'
        /\ halt => halt'
    BY CallsReturnHalted, HaltStays DEF PoolMoves, allVars
  <1>3. Whole!Untouched' <=> Whole!Untouched
    BY TouchedStays, UntouchedStays DEF allVars
  <1>4. PresentInv'
    BY <1>1, <1>3 DEF LoopInv, PresentInv
  <1>5. AskedInv'
    BY <1>1, <1>2, <1>3 DEF LoopInv, AskedInv
  <1>6. at = "last" /\ pc' = "caller" =>
          (input_args = <<>> \/ halt') /\ (~input_present => ~Whole!Untouched')
    BY <1>2, <1>3 DEF LoopInv, ControlInv, EndInv, HaltInvolvesChild
  <1>7. at = "finishing" => ReadyToFinish'
    BY <1>1, <1>2, <1>3 DEF LoopInv, EndInv, ReadyToFinish
  <1> QED
    BY <1>1, <1>4, <1>5, <1>6, <1>7 DEF EndInv

\* One case for each part of the mode that moves.
LEMMA LoopStep ==
  ASSUME NoStrangers, TypeOK, TableInv, TypesInv, ArgumentsInv, LoopInv, [appender_mode_run]_allVars
  PROVE  LoopInv'
  <1>1. [Next]_poolVars
    BY StepsOfThePool
  <1>2. HaltInvolvesChild'
    BY <1>1, HaltInvolvesChildStep DEF LoopInv, EndInv
  <1>3. ControlInv'
    BY ControlStep DEF LoopInv
  <1>4. CASE ReadsInput
    <2>1. at' \in {"check", "ended"}
      BY <1>4 DEF ReadsInput, TokenRead, InputEnds, Goto
    <2> QED
      BY <1>2, <1>3, <1>4, <2>1, LoopReads DEF LoopInv, EndInv
  <1>5. CASE \/ ArgFits \/ ArgTooLong \/ FlushBeforeAdding \/ AfterFlush \/ AddArgument
             \/ FailTooLong \/ ExecuteAfterAdding \/ KeepCollecting \/ AfterExecution
    <2>1. PresentInv' /\ AskedInv' /\ at' \notin {"last", "finishing"}
      BY <1>5, LoopCollects
    <2> QED
      BY <1>2, <1>3, <2>1 DEF LoopInv, EndInv
  <1>6. CASE FailOnInputError \/ ExecuteRemainder \/ Finish
    BY <1>3, <1>6, LoopEnds DEF LoopInv
  <1>7. CASE \E c \in Child : LaunchCommand(c)
    BY <1>3, <1>7, LoopLaunches DEF LoopInv
  <1>8. CASE PoolMoves \/ UNCHANGED allVars
    BY <1>1, <1>2, <1>3, <1>8, LoopRests DEF LoopInv
  <1> QED
    BY <1>4, <1>5, <1>6, <1>7, <1>8 DEF appender_mode_run, AppenderModeStep

\* A launch gives away the arguments that come next.
LEMMA LaunchGivesNextArguments ==
  ASSUME TypeOK, TableInv, ArgumentsInv, LoopInv, NEW c \in Child, LaunchCommand(c)
  PROVE  Whole!XargsNext
  <1>1. /\ Launch(c) /\ pc = "full" /\ pc' = "caller" /\ ~halt
        /\ UNCHANGED <<at, read, tokenizer_err>>
    BY DEF LaunchCommand, Launch, MayLaunch, reading
  <1>2. at \in {"flushed", "executed", "last"} /\ ~tokenizer_err
    BY <1>1 DEF LoopInv, ControlInv, Asking
  <1>3. c \in Launched /\ Promise!Start(c)
    BY <1>1, LaunchStarts
  <1>4. Whole!Start(c)
    BY <1>1, <1>3, SamePool DEF Final
  <1>5. ~opts.arg_placeholder /\ UNCHANGED opts /\ given' = given \o input_args
    BY DEF LaunchCommand, recycle_command, limits, ArgumentsInv
  <1>6. PICK rest \in Seq(Token) : read = (given \o input_args) \o rest
    <2>1. given \o input_args \in Seq(Token)
      BY ConcatProperties DEF ArgumentsInv
    <2>2. CASE at = "flushed"
      <3>1. token \in Token /\ read = (given \o input_args) \o <<token>>
        BY <2>2 DEF ArgumentsInv, HoldsToken
      <3>2. <<token>> \in Seq(Token)
        BY <3>1
      <3> QED
        BY <3>1, <3>2
    <2>3. CASE at \in {"executed", "last"}
      <3>1. read = given \o input_args
        BY <1>1, <2>3 DEF ArgumentsInv, HoldsNone, HoldsToken, NothingLost
      <3>2. <<>> \in Seq(Token) /\ (given \o input_args) \o <<>> = given \o input_args
        BY <2>1, ConcatEmptySeq
      <3> QED
        BY <3>1, <3>2
    <2> QED
      BY <1>2, <2>2, <2>3
  <1>7. /\ given \in Seq(Token) /\ input_args \in Seq(Token)
        /\ Len(given) \in Nat /\ Len(input_args) \in Nat /\ Len(rest) \in Nat
        /\ Len(read) = Len(given) + Len(input_args) + Len(rest)
    <2>1. given \in Seq(Token) /\ input_args \in Seq(Token)
      BY DEF ArgumentsInv
    <2> QED
      BY <1>6, <2>1, ConcatProperties, LenProperties
  <1>8. SubSeq(read, Len(given) + 1, Len(given) + Len(input_args)) = input_args
    BY <1>6, <1>7, MiddlePart
  <1>9. Len(input_args) \in 0 .. Len(read) - Len(given)
    BY <1>7
  <1>10. Len(input_args) = 0 =>
           /\ ~opts.arg_placeholder /\ ~opts.suppress_execution_on_empty_input
           /\ read = <<>> /\ Whole!Untouched
    <2>1. Len(input_args) = 0 => input_args = <<>>
      BY <1>7, EmptySeq
    <2> QED
      BY <1>1, <1>2, <1>5, <2>1 DEF LoopInv, AskedInv, PresentInv, Asking
  <1>11. Whole!Execute(c)
    BY <1>1, <1>2, <1>4, <1>5, <1>8, <1>9, <1>10 DEF Whole!Execute
  <1> QED
    BY <1>3, <1>11 DEF Whole!XargsNext

\* Each step of phxargs is one of the contract, or does not show in it.
LEMMA ArgumentsAsPromised ==
  ASSUME NoStrangers, TypeOK, TableInv, ArgumentsInv, LoopInv, [appender_mode_run]_allVars
  PROVE  Whole!XargsNext \/ UNCHANGED Whole!xargsPromise
  <1>1. ASSUME NEW len \in TokenLengths, NEW ends_line \in BOOLEAN, TokenRead(len, ends_line)
        PROVE  Whole!XargsNext
    <2>1. /\ pc = "caller" /\ at = "next" /\ UNCHANGED poolVars
          /\ read' = Append(read, token')
          /\ token' = [id |-> Len(read) + 1, len |-> len, ends_line |-> ends_line]
          /\ UNCHANGED <<opts, tokenizer_err, given>>
      BY <1>1 DEF TokenRead, Running, Goto, history, command_increment_line_count, limits
    <2>2. ~halt /\ ~tokenizer_err /\ read \in Seq(Token)
      BY <2>1 DEF LoopInv, ControlInv, Collecting, ArgumentsInv
    <2>3. token' \in Token
      BY <2>1, <2>2 DEF Token
    <2>4. Len(read') = Len(read) + 1 /\ SubSeq(read', 1, Len(read)) = read
      BY <2>1, <2>2, <2>3, BeforeTheLast
    <2>5. UNCHANGED Whole!poolPromise
      BY <2>1, CallsKeepPromise
    <2>6. Whole!Take
      BY <2>1, <2>2, <2>4, <2>5 DEF Whole!Take, Final
    <2> QED
      BY <2>6 DEF Whole!XargsNext
  <1>2. ASSUME NEW err \in InputErrors, NEW ends_line \in BOOLEAN, InputEnds(err, ends_line)
        PROVE  Whole!XargsNext \/ UNCHANGED Whole!xargsPromise
    <2>1. /\ pc = "caller" /\ at = "next" /\ UNCHANGED poolVars
          /\ tokenizer_err' = err
          /\ UNCHANGED <<opts, read, given>>
      BY <1>2 DEF InputEnds, Running, Goto, history, command_increment_line_count, limits
    <2>2. ~halt /\ tokenizer_err = FALSE /\ err \in BOOLEAN
      BY <2>1, XargsModeAssumption DEF LoopInv, ControlInv, Collecting
    <2>3. UNCHANGED Whole!poolPromise
      BY <2>1, CallsKeepPromise
    <2>4. CASE err
      <3>1. Whole!InputBreaks
        BY <2>1, <2>2, <2>3, <2>4 DEF Whole!InputBreaks, Final
      <3> QED
        BY <3>1 DEF Whole!XargsNext
    <2>5. CASE ~err
      <3>1. tokenizer_err' = tokenizer_err
        BY <2>1, <2>2, <2>5
      <3> QED
        BY <2>1, <2>3, <3>1 DEF Whole!xargsPromise, Whole!arguments
    <2> QED
      BY <2>4, <2>5
  <1>3. CASE \/ ArgFits \/ FlushBeforeAdding \/ AfterFlush \/ AddArgument \/ FailTooLong
             \/ ExecuteAfterAdding \/ KeepCollecting \/ AfterExecution
             \/ FailOnInputError \/ ExecuteRemainder \/ Finish
    <2>1. UNCHANGED <<opts, read, given, tokenizer_err>>
      BY <1>3 DEF ArgFits, FlushBeforeAdding, AfterFlush, AddArgument, FailTooLong,
         ExecuteAfterAdding, KeepCollecting, AfterExecution, ContinueUnlessHalted,
         FailOnInputError, ExecuteRemainder, Finish, cmd, limits, reading, history,
         command_add_input_argument
    <2>2. (UNCHANGED poolVars /\ pc = "caller") \/ ReadUsr1 \/ StartDrain
      BY <1>3 DEF ArgFits, FlushBeforeAdding, AfterFlush, AddArgument, FailTooLong,
         ExecuteAfterAdding, KeepCollecting, AfterExecution, ContinueUnlessHalted,
         FailOnInputError, ExecuteRemainder, Finish, Running, Goto, CallExecute, CallDrain
    <2> QED
      BY <2>1, <2>2, CallsKeepPromise DEF Whole!xargsPromise, Whole!arguments
  <1>4. CASE ArgTooLong
    <2>1. CallerExits /\ at' = at /\ UNCHANGED <<opts, read, given, tokenizer_err>>
      BY <1>4 DEF ArgTooLong, Exit, cmd, limits, reading, history
    <2> QED
      BY <2>1, CallsKeepPromise
      DEF Whole!XargsNext, Whole!ExitWithFailure, Whole!arguments
  <1>5. ASSUME NEW c \in Child, LaunchCommand(c)
        PROVE  Whole!XargsNext
    BY <1>5, LaunchGivesNextArguments
  <1>6. CASE PoolMoves
    BY <1>6, PoolMovesKeepPromise DEF LoopInv, EndInv
  <1>7. CASE UNCHANGED allVars
    <2>1. UNCHANGED Whole!poolPromise
      <3>1. UNCHANGED Promise!poolPromise /\ UNCHANGED <<pc, at>>
        BY <1>7, OtherStepsAreInternal DEF allVars, modeVars, poolVars
      <3> QED
        BY <3>1, SamePhase
    <2> QED
      BY <1>7, <2>1 DEF allVars, modeVars, cmd, limits, reading, history,
                        Whole!xargsPromise, Whole!arguments
  <1> QED
    BY <1>1, <1>2, <1>3, <1>4, <1>5, <1>6, <1>7
    DEF appender_mode_run, AppenderModeStep, ReadsInput

\* Without -I phxargs keeps XargsContract: arguments reach children once and in
\* order, none is read after a halt, and the worst status is reported only when
\* everything has been given away, the command for empty input included, or a
\* child has halted (appender_mode_run).
THEOREM AppenderKeepsPromise ==
  ASSUME NoStrangers
  PROVE  AppenderSpec => KeepsXargsPromise
  <1>1. ModeInit => Whole!XargsInit /\ LoopInv
    BY WholeBegins, LoopBegins
  <1>2. TypeOK /\ TableInv /\ TypesInv /\ ArgumentsInv /\ LoopInv /\ [appender_mode_run]_allVars
          => [Whole!XargsNext]_(Whole!xargsPromise) /\ LoopInv'
    BY ArgumentsAsPromised, LoopStep
  <1> QED
    BY <1>1, <1>2, AppenderUsesPool, TypeCorrect, TableInvariant, TypesInvariant,
       ArgumentsInvariant, PTL
    DEF AppenderSpec, AppenderInit, KeepsXargsPromise, Whole!XargsSpec

=============================================================================
