---------------------------- MODULE ReplacerMode ----------------------------
(***************************************************************************)
(* The mode of -I (src/src/replacer_mode.c): one command per line of       *)
(* input, with the line in the place of every placeholder.                 *)
(***************************************************************************)
EXTENDS XargsMode

CONSTANTS
  PlaceholderLength,   \* length of the -I placeholder
  PlaceholderUses      \* how often the fixed arguments contain it

ASSUME ReplacerAssumption ==
  /\ PlaceholderLength \in Nat
  /\ PlaceholderUses \in Nat

\* xargs_create chooses this mode where there is a placeholder.
ReplacerInit == ModeInit /\ opts.arg_placeholder

\* Faulty variant: an empty line is taken for no line.
SkipEmptyLine ==
  /\ Running("check")
  /\ command_ensure_length_not_exceeded(token)
  /\ Goto(IF token.len = 0 THEN "next" ELSE "replace")
  /\ UNCHANGED <<cmd, reading, history>>

EnsureFits ==
  /\ Running("check")
  /\ command_ensure_length_not_exceeded(token)
  /\ Goto("replace")
  /\ UNCHANGED <<cmd, reading, history>>

LineTooLong ==
  /\ Running("check")
  /\ ~command_ensure_length_not_exceeded(token)
  /\ Exit
  /\ UNCHANGED <<cmd, reading, history>>

\* xargs_replace_args, then xargs_mode_execute_command
ReplaceAndExecute ==
  /\ Running("replace")
  /\ command_replace_args(token)
  /\ CallExecute("executed")
  /\ UNCHANGED <<reading, history>>

AfterLine == ContinueUnlessHalted("executed", "next")

FinishLines ==
  /\ Running("ended")
  /\ ~tokenizer_err
  /\ CallDrain("finishing")
  /\ UNCHANGED <<cmd, reading, history>>

ReplacerStep ==
  \/ EnsureFits \/ LineTooLong \/ ReplaceAndExecute \/ AfterLine
  \/ FailOnInputError \/ FinishLines

ReplacerModeStep == ReadsInput \/ ReplacerStep

replacer_mode_run ==
  \/ ReplacerModeStep
  \/ \E c \in Child : LaunchCommand(c)
  \/ PoolMoves

ReplacerSpec == ReplacerInit /\ [][replacer_mode_run]_allVars

-----------------------------------------------------------------------------
(* Properties. *)

\* The k-th command holds the k-th line, once in each argument after the
\* command word, and no other line: nothing of an earlier command is left in
\* replaced_fixed_args.
OneCommandPerLine ==
  opts.arg_placeholder =>
    \A k \in DOMAIN executed :
      /\ executed[k].replaced = [i \in 1..FixedCount |-> read[k]]
      /\ executed[k].args = <<>>

\* No line is skipped: the commands executed are those of the first lines, and
\* a line still without a command is the one in hand.
LinesInOrder ==
  opts.arg_placeholder =>
    \/ read = given
    \/ /\ read = Append(given, token)
       /\ at \in {"check", "replace", "executed"} \/ halt

-----------------------------------------------------------------------------
(* What the documents say, where the code disagrees. *)

ReplacedLength(len) ==
  EnvLength + FixedLength + PlaceholderUses * (len - PlaceholderLength)

\* man page, -x (implied by -I): phxargs exits if a constructed command line
\* would exceed -s.
ReplacedCommandFits ==
  \A k \in DOMAIN executed : ReplacedLength(given[k].len) <= max_length

=============================================================================
