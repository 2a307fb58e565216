----------------------------- MODULE XargsMode -----------------------------
(***************************************************************************)
(* What the two execution modes share (src/src/xargs_mode.c): a command    *)
(* under construction, a pool of children, and a tokenizer.  The pool runs *)
(* as specified in ProcessPool; while pc = "caller" the mode runs, at the  *)
(* control point `at'.  A call into the pool sets `at' to the point where  *)
(* the mode goes on when pc is "caller" again.                             *)
(*                                                                         *)
(* The tokenizer is seen from here as whatever hands over tokens, tells    *)
(* which of them end a line, and ends with or without an error.            *)
(***************************************************************************)
EXTENDS ProcessPool, Command

CONSTANTS
  MaxTokens,     \* bound: number of input arguments
  InputErrors    \* {FALSE, TRUE}, or {FALSE} for input without errors

ASSUME XargsModeAssumption ==
  /\ MaxTokens \in Nat
  /\ InputErrors \subseteq BOOLEAN

VARIABLES
  at,               \* control point of the mode
  token,            \* the token in hand
  input_present,    \* a token has been read
  tokenizer_err,    \* tokenizer_get_error(...) != TOKENIZER_ERR_NONE
  read,             \* history: all tokens the tokenizer returned
  given,            \* history: all tokens handed to a child, in order
  executed          \* history: the commands executed

reading == <<token, input_present, tokenizer_err, read>>
history == <<given, executed>>
modeVars == <<cmd, at, reading, history>>
allVars == <<poolVars, modeVars>>

NoToken == [id |-> 0, len |-> 0, ends_line |-> FALSE]

ModeInit ==
  /\ Init
  /\ command_create
  /\ at = "next"
  /\ token = NoToken
  /\ input_present = FALSE
  /\ tokenizer_err = FALSE
  /\ read = <<>>
  /\ given = <<>>
  /\ executed = <<>>

-----------------------------------------------------------------------------

\* At control point `point', not inside a call into the pool.
Running(point) == pc = "caller" /\ at = point

Goto(point) == at' = point /\ UNCHANGED poolVars

\* xargs_mode_execute_command: wait_if_full begins, the mode resumes at `point'.
CallExecute(point) == ReadUsr1 /\ at' = point

\* xargs_mode_drain: the exit status is settled once pc = "done".
CallDrain(point) == StartDrain /\ at' = point

\* exit(EXIT_FAILURE) without any further ado.
Exit == CallerExits /\ at' = at

\* xargs_mode_next_token
TokenRead(len, ends_line) ==
  /\ Running("next")
  /\ Len(read) < MaxTokens
  /\ token' = [id |-> Len(read) + 1, len |-> len, ends_line |-> ends_line]
  /\ read' = Append(read, token')
  /\ input_present' = TRUE
  /\ command_increment_line_count(ends_line)
  /\ Goto("check")
  /\ UNCHANGED <<tokenizer_err, history>>

\* NULL: end of input, the logical end-of-input marker (which may end a line
\* too), or an error.
InputEnds(err, ends_line) ==
  /\ Running("next")
  /\ tokenizer_err' = err
  /\ token' = NoToken
  /\ command_increment_line_count(ends_line)
  /\ Goto("ended")
  /\ UNCHANGED <<input_present, read, history>>

\* The loop of either mode ends with `break' when the pool has halted.
ContinueUnlessHalted(from, point) ==
  /\ Running(from)
  /\ Goto(IF halt THEN "ended" ELSE point)
  /\ UNCHANGED <<cmd, reading, history>>

\* After the loop: an input error drains the pool and fails.
FailOnInputError ==
  /\ Running("ended")
  /\ tokenizer_err
  /\ CallDrain("failing")
  /\ UNCHANGED <<cmd, reading, history>>

\* command_execute_async: the child gets a copy of the command, the parent
\* recycles its own.
LaunchCommand(c) ==
  /\ Launch(c)
  /\ executed' = Append(executed,
       [args |-> input_args, replaced |-> replaced_fixed_args,
        length |-> command_length, lines |-> line_count])
  /\ given' = given \o (IF opts.arg_placeholder THEN <<token>> ELSE input_args)
  /\ recycle_command
  /\ UNCHANGED <<at, reading>>

PoolMoves ==
  /\ \/ process_pool_install_signal_handlers
     \/ PoolStep \/ Environment \/ RetryWaitpid \/ Terminated
  /\ UNCHANGED modeVars

ReadsInput ==
  \/ \E len \in TokenLengths, ends_line \in BOOLEAN : TokenRead(len, ends_line)
  \/ \E err \in InputErrors, ends_line \in BOOLEAN : InputEnds(err, ends_line)

\* The status phxargs exits with.
ExitCode == IF pc = "done" /\ at = "finishing" THEN status ELSE 1

-----------------------------------------------------------------------------
(* Properties of either mode. *)

\* Types of the command, the control point and the histories.
ModeTypeOK ==
  /\ opts \in OptionChoices /\ max_length \in Nat
  /\ line_count \in Nat /\ input_length \in Nat
  /\ input_args \in Seq(Token) /\ replaced_fixed_args \in Seq(Token)
  /\ at \in {"next", "check", "flushed", "add", "added", "replace", "executed",
             "ended", "last", "finishing", "failing"}
  /\ token \in Token \cup {NoToken}
  /\ input_present \in BOOLEAN /\ tokenizer_err \in BOOLEAN
  /\ read \in Seq(Token) /\ given \in Seq(Token)

\* What phxargs promises as a whole.  The tokenizer's error and a command too
\* long end in EXIT_FAILURE, drained or not, and so count as giving up.
Whole == INSTANCE XargsContract WITH
  Process <- Launched, Raw <- RawStatus, Killed <- Signalled,
  Ceilings <- ChildMaxChoices,
  empty_due <- ~opts.arg_placeholder /\ ~opts.suppress_execution_on_empty_input,
  broken <- tokenizer_err,
  limit <- max_procs, ceiling <- child_max,
  stage <- [c \in Launched |-> life[c]],
  raw <- [c \in Launched |-> raw_status[c]],
  worst <- status, halted <- halt,
  phase <- CASE pc = "done" /\ at = "finishing" -> "drained"
             [] pc \in Final /\ ~(pc = "done" /\ at = "finishing") -> "given up"
             [] OTHER -> "open",
  taken <- read, handed <- given

\* Each mode keeps it: arguments reach children once and in order, none is
\* taken after a halt, and the worst status is the exit status only where
\* nothing was withheld without a reason.
KeepsXargsPromise == Whole!XargsSpec

\* phxargs exits.
Exits == <>(pc \in Final)

=============================================================================
