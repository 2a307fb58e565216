---------------------------- MODULE AppenderMode ----------------------------
(***************************************************************************)
(* The default mode (src/src/appender_mode.c): collect input arguments and *)
(* execute the command whenever a limit is reached.                        *)
(***************************************************************************)
EXTENDS XargsMode, FiniteSets

\* xargs_create chooses this mode where there is no placeholder.
AppenderInit == ModeInit /\ ~opts.arg_placeholder

\* xargs_mode_arg_would_exceed_limits exits, or says no.
ArgFits ==
  /\ Running("check")
  /\ command_ensure_length_not_exceeded(token)
  /\ ~command_arg_would_exceed_limits(token)
  /\ Goto("add")
  /\ UNCHANGED <<cmd, reading, history>>

ArgTooLong ==
  /\ Running("check")
  /\ ~command_ensure_length_not_exceeded(token)
  /\ Exit
  /\ UNCHANGED <<cmd, reading, history>>

FlushBeforeAdding ==
  /\ Running("check")
  /\ command_ensure_length_not_exceeded(token)
  /\ command_arg_would_exceed_limits(token)
  /\ CallExecute("flushed")
  /\ UNCHANGED <<cmd, reading, history>>

\* Faulty variant: a flush that a halted pool has skipped is tried again.
RetryFlush ==
  /\ Running("flushed")
  /\ Goto(IF halt THEN "check" ELSE "add")
  /\ UNCHANGED <<cmd, reading, history>>

AfterFlush == ContinueUnlessHalted("flushed", "add")

AddArgument ==
  /\ Running("add")
  /\ command_add_input_argument(token)
  /\ Goto("added")
  /\ UNCHANGED <<reading, history>>

\* xargs_mode_should_execute_command_after_arg_added drains, then exits.
FailTooLong ==
  /\ Running("added")
  /\ TooLongAfterArgAdded
  /\ CallDrain("failing")
  /\ UNCHANGED <<cmd, reading, history>>

ExecuteAfterAdding ==
  /\ Running("added")
  /\ command_should_execute_after_arg_added
  /\ CallExecute("executed")
  /\ UNCHANGED <<cmd, reading, history>>

KeepCollecting ==
  /\ Running("added")
  /\ ~TooLongAfterArgAdded /\ ~command_should_execute_after_arg_added
  /\ Goto("next")
  /\ UNCHANGED <<cmd, reading, history>>

AfterExecution == ContinueUnlessHalted("executed", "next")

\* Faulty variant: the remainder is dropped.
OnlyOnEmptyInput ==
  ~input_present /\ ~opts.suppress_execution_on_empty_input

ExecutesAtEnd ==
  IF input_present THEN command_input_args_remain
                   ELSE ~opts.suppress_execution_on_empty_input

ExecuteRemainder ==
  /\ Running("ended")
  /\ ~tokenizer_err
  /\ ExecutesAtEnd
  /\ CallExecute("last")
  /\ UNCHANGED <<cmd, reading, history>>

Finish ==
  /\ \/ Running("ended") /\ ~tokenizer_err /\ ~ExecutesAtEnd
     \/ Running("last")
  /\ CallDrain("finishing")
  /\ UNCHANGED <<cmd, reading, history>>

AppenderModeStep ==
  \/ ReadsInput
  \/ ArgFits \/ ArgTooLong \/ FlushBeforeAdding \/ AfterFlush
  \/ AddArgument \/ FailTooLong \/ ExecuteAfterAdding \/ KeepCollecting
  \/ AfterExecution \/ FailOnInputError \/ ExecuteRemainder \/ Finish

appender_mode_run ==
  \/ AppenderModeStep
  \/ \E c \in Child : LaunchCommand(c)
  \/ PoolMoves

AppenderSpec == AppenderInit /\ [][appender_mode_run]_allVars

-----------------------------------------------------------------------------
(* Properties. *)

\* Every argument read is, in the order of reading and once, with a child, in
\* the command under construction, or in hand; only a halted pool lets the
\* one in hand go.
NothingLost ==
  ~opts.arg_placeholder =>
    \/ read = given \o input_args
    \/ /\ read = given \o input_args \o <<token>>
       /\ at \in {"check", "flushed", "add"} \/ halt

\* No command holds more than -n arguments, nor, with -x, more than -s bytes.
\* (A command run on empty input is not measured.)
CommandsWithinLimits ==
  \A k \in DOMAIN executed :
    /\ opts.max_args > 0 => Len(executed[k].args) <= opts.max_args
    /\ opts.terminate_on_too_large_command /\ executed[k].args # <<>>
         => executed[k].length <= max_length

LineEnds(args) == {i \in DOMAIN args : args[i].ends_line}

\* Under -L every command but the last holds exactly max_lines whole lines, a
\* line going on after a trailing blank, and the last one no more.
CommandsHoldWholeLines ==
  opts.line_mode =>
    \A k \in DOMAIN executed :
      LET args == executed[k].args
      IN /\ Cardinality(LineEnds(args)) <= opts.max_lines
         /\ k < Len(executed) =>
              /\ Cardinality(LineEnds(args)) = opts.max_lines
              /\ args[Len(args)].ends_line

\* Without -L or -I a command is executed only when the next argument does not fit:
\* phxargs starts no more processes than the limits ask for.
CommandsAreMaximal ==
  ~opts.line_mode /\ ~opts.arg_placeholder =>
    \A k \in DOMAIN executed :
      k < Len(executed) =>
        \/ Len(executed[k].args) = opts.max_args
        \/ executed[k].length + executed[k + 1].args[1].len + 1 > max_length

-----------------------------------------------------------------------------
(* What the documents say, where the code disagrees. *)

\* README and man page, -s: no command line is longer than max-chars.
LengthLimitHolds ==
  \A k \in DOMAIN executed :
    opts.max_command_length > 0 => executed[k].length <= opts.max_command_length

=============================================================================
