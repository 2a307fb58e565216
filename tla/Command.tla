------------------------------ MODULE Command ------------------------------
(***************************************************************************)
(* The command under construction (src/src/command.c): its limits, the     *)
(* arguments collected for it (src/src/command_args.c) and the decisions   *)
(* when to execute it.  A token is a record of its position in the input,  *)
(* its strlen, and whether it ends a line.  The modes of phxargs drive     *)
(* this module; see XargsMode.                                             *)
(***************************************************************************)
EXTENDS Integers, Sequences, CommandOptions

CONSTANTS
  TokenLengths,      \* lengths of the input arguments
  EnvLength,         \* calc_env_length()
  FixedLength,       \* length of the arguments given on the command line
  FixedCount,        \* how many of those follow the command word
  OptionChoices,     \* what options.c can hand over, see CommandOptions
  ArgMax,            \* sysconf(_SC_ARG_MAX), -1 if indeterminate
  ArgMaxHeadroom,    \* 2048 in the code
  DefaultMaxLength   \* 128 * 1024 in the code

ASSUME CommandAssumption ==
  /\ TokenLengths \subseteq Nat
  /\ EnvLength \in Nat
  /\ FixedLength \in Nat
  /\ FixedCount \in Nat
  /\ \A o \in OptionChoices : Configured(o)
  /\ ArgMax \in Nat \cup {-1}
  /\ ArgMaxHeadroom \in Nat
  /\ DefaultMaxLength \in Nat

VARIABLES
  \* struct command_s: the options it was created from, and max_length
  opts, max_length,
  \* line_count, input_args and its length (with a NUL byte for each)
  line_count, input_args, input_length,
  \* the tokens replaced_fixed_args was built from, one entry per argument
  replaced_fixed_args

limits == <<opts, max_length>>
batch  == <<line_count, input_args, input_length, replaced_fixed_args>>
cmd    == <<limits, batch>>

Token == [id : Nat, len : TokenLengths, ends_line : BOOLEAN]

-----------------------------------------------------------------------------
(* decide_max_length *)

smaller(a, b) == IF a < b THEN a ELSE b

\* The margin counts the environment twice; the subtraction does not wrap.
MaximumLength ==
  LET margin == 2 * EnvLength + ArgMaxHeadroom
  IN CASE ArgMax > margin -> ArgMax - margin
       [] ArgMax \in 1..margin -> 0
       [] OTHER -> DefaultMaxLength

MinimumLength == EnvLength + FixedLength

\* -s is refused below the length of the command without input arguments.
LengthAccepted(o) ==
  \/ o.max_command_length = 0
  \/ o.max_command_length \in MinimumLength..MaximumLength

\* Faulty variant: what remains for the arguments, also where -s is not given.
RoomForArguments(o) == o.max_command_length - MinimumLength

decide_max_length(o) ==
  IF o.max_command_length = 0 THEN smaller(DefaultMaxLength, MaximumLength)
                              ELSE o.max_command_length

command_create ==
  /\ opts \in {o \in OptionChoices : LengthAccepted(o)}
  /\ max_length = decide_max_length(opts)
  /\ line_count = 0
  /\ input_args = <<>>
  /\ input_length = 0
  /\ replaced_fixed_args = <<>>

-----------------------------------------------------------------------------
(* Decisions. *)

command_length == EnvLength + FixedLength + input_length

LengthWith(token) == command_length + token.len + 1

command_input_args_remain == Len(input_args) > 0

\* FALSE: phxargs exits with "command too long".
command_ensure_length_not_exceeded(token) ==
  opts.arg_placeholder \/ ~command_input_args_remain
    => LengthWith(token) <= max_length

\* Faulty variant: the command is executed already when it is just full.
WouldExceedEarly(token) ==
  \/ opts.max_args > 0 /\ Len(input_args) = opts.max_args
  \/ /\ ~opts.line_mode
     /\ command_input_args_remain /\ LengthWith(token) >= max_length
     /\ ~(opts.max_args > 0 /\ opts.terminate_on_too_large_command)

command_arg_would_exceed_limits(token) ==
  \/ opts.max_args > 0 /\ Len(input_args) = opts.max_args
  \/ /\ ~opts.line_mode
     /\ LengthWith(token) > max_length
     /\ ~(opts.max_args > 0 /\ opts.terminate_on_too_large_command)

\* Faulty variant: -x is not enforced after an argument has been added.
NeverTooLong == FALSE

TooLongAfterArgAdded ==
  opts.terminate_on_too_large_command /\ command_length > max_length

command_should_execute_after_arg_added ==
  ~TooLongAfterArgAdded /\ opts.line_mode /\ line_count = opts.max_lines

-----------------------------------------------------------------------------
(* Operations. *)

\* The callback the tokenizer makes when a token ends a line.
command_increment_line_count(ends_line) ==
  /\ line_count' = line_count + (IF ends_line THEN 1 ELSE 0)
  /\ UNCHANGED <<limits, input_args, input_length, replaced_fixed_args>>

command_add_input_argument(token) ==
  /\ input_args' = Append(input_args, token)
  /\ input_length' = input_length + token.len + 1
  /\ UNCHANGED <<limits, line_count, replaced_fixed_args>>

\* The command word itself is not subject to replacement.
command_replace_args(token) ==
  /\ replaced_fixed_args' =
       replaced_fixed_args \o [i \in 1..FixedCount |-> token]
  /\ UNCHANGED <<limits, line_count, input_args, input_length>>

\* Faulty variants: what was executed stays behind.
KeepInputArgs ==
  /\ line_count' = 0
  /\ UNCHANGED <<limits, input_args, input_length, replaced_fixed_args>>
KeepLineCount ==
  /\ input_args' = <<>>
  /\ input_length' = 0
  /\ UNCHANGED <<limits, line_count, replaced_fixed_args>>
KeepReplacedArgs ==
  /\ line_count' = 0
  /\ input_args' = <<>>
  /\ input_length' = 0
  /\ UNCHANGED <<limits, replaced_fixed_args>>

recycle_command ==
  /\ line_count' = 0
  /\ input_args' = <<>>
  /\ input_length' = 0
  /\ replaced_fixed_args' =
       IF opts.arg_placeholder THEN <<>> ELSE replaced_fixed_args
  /\ UNCHANGED limits

=============================================================================
