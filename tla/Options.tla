------------------------------- MODULE Options -------------------------------
(***************************************************************************)
(* The command line options of phxargs (src/src/options.c): getopt() hands *)
(* them over one at a time, each changes struct options_s, and             *)
(* configure_options applies what they imply together.  An option is a     *)
(* letter with its argument: the number that strtol() makes of it (or      *)
(* Invalid), the characters of -d, a name.                                 *)
(***************************************************************************)
EXTENDS Integers, Sequences, CommandOptions

CONSTANTS
  OptionLists,   \* the command lines, as sequences of options
  Names,         \* arguments of -a, -E, -I
  NULL,          \* not one of them
  Chars,         \* arguments of -d, NUL and Newline
  NUL, Newline,
  Invalid,       \* of strtol(): not a number, or out of the range of long
  ChildMax       \* sysconf(_SC_CHILD_MAX), -1 if indeterminate

ASSUME OptionsAssumption ==
  /\ NULL \notin Names
  /\ NUL \in Chars /\ Newline \in Chars /\ NUL # Newline
  /\ Invalid \notin Int
  /\ ChildMax \in Nat \cup {-1}

VARIABLES
  argv, optind,    \* the options, and how many getopt() has returned
  opts,            \* struct options_s
  outcome          \* "parsing", "configured", or "failed" for exit()

vars == <<argv, optind, opts, outcome>>

NumberOptions == {"L", "n", "P", "s"}
NameOptions   == {"a", "E", "I"}
Flags         == {"0", "o", "p", "r", "t", "x"}

\* What getopt() can return; ":" and "?" are its two errors.
Occurrence(o) ==
  \/ o.opt \in NumberOptions /\ (o.arg = Invalid \/ o.arg \in Int)
  \/ o.opt \in NameOptions   /\ o.arg \in Names
  \/ o.opt = "d"             /\ o.arg \in Seq(Chars \ {NUL})
  \/ o.opt \in Flags \cup {":", "?"}

ASSUME OptionListsAssumption ==
  \A list \in OptionLists :
    Len(list) \in Nat /\ \A i \in 1 .. Len(list) : Occurrence(list[i])

\* options_s.  NULL: the option is not in force.
OptionsRecord ==
  [use_nul_char_as_arg_delimiter : BOOLEAN,
   arg_file_path : Names \cup {NULL},
   arg_delimiter : Chars,
   logical_end_of_input_marker : Names \cup {NULL},
   arg_placeholder : Names \cup {NULL},
   max_lines_per_command : Nat, line_mode_specified : BOOLEAN,
   max_args_per_command : Nat,
   open_tty : BOOLEAN, prompt : BOOLEAN,
   suppress_execution_on_empty_input : BOOLEAN,
   max_command_length : Nat,
   trace : BOOLEAN,
   terminate_on_too_large_command : BOOLEAN,
   max_procs : Nat]

init_options ==
  [use_nul_char_as_arg_delimiter |-> FALSE,
   arg_file_path |-> NULL,
   arg_delimiter |-> NUL,
   logical_end_of_input_marker |-> NULL,
   arg_placeholder |-> NULL,
   max_lines_per_command |-> 0, line_mode_specified |-> FALSE,
   max_args_per_command |-> 0,
   open_tty |-> FALSE, prompt |-> FALSE,
   suppress_execution_on_empty_input |-> FALSE,
   max_command_length |-> 0,
   trace |-> FALSE,
   terminate_on_too_large_command |-> FALSE,
   max_procs |-> 1]

Init ==
  /\ argv \in OptionLists
  /\ optind = 0
  /\ opts = init_options
  /\ outcome = "parsing"

-----------------------------------------------------------------------------
(* The arguments that are refused. *)

\* Faulty variant: a number too small is accepted.
AnyNumber(arg, min) == arg # Invalid

\* parse_number_arg_with_min
number_at_least(arg, min) == arg # Invalid /\ arg >= min

\* Faulty variant: the limit of the system is not enforced.
AnyProcs(arg) == number_at_least(arg, 0)

procs_accepted(arg) ==
  number_at_least(arg, 0) /\ (arg > 0 /\ ChildMax > 0 => arg <= ChildMax)

accepted(o) ==
  CASE o.opt \in {"L", "n", "s"} -> number_at_least(o.arg, 1)
    [] o.opt = "P"               -> procs_accepted(o.arg)
    [] o.opt = "d"               -> Len(o.arg) = 1
    [] OTHER                     -> o.opt \notin {":", "?"}

-----------------------------------------------------------------------------
(* The setters: what one option makes of the options so far. *)

set_arg_delimiter(s, ch) ==
  [s EXCEPT !.arg_delimiter = ch, !.use_nul_char_as_arg_delimiter = FALSE]

enable_nul_char_as_arg_delimiter(s) ==
  [s EXCEPT !.arg_delimiter = NUL, !.use_nul_char_as_arg_delimiter = TRUE]

\* Faulty variant: an earlier -d stays.
KeepDelimiter(s) == [s EXCEPT !.use_nul_char_as_arg_delimiter = TRUE]

reset_arg_placeholder(s) == [s EXCEPT !.arg_placeholder = NULL]

reset_max_lines_per_command(s) ==
  [s EXCEPT !.max_lines_per_command = 0, !.line_mode_specified = FALSE]

reset_max_args_per_command(s) == [s EXCEPT !.max_args_per_command = 0]

reset_logical_end_of_input_marker(s) == [s EXCEPT !.logical_end_of_input_marker = NULL]

set_max_lines_per_command(s, n) ==
  reset_max_args_per_command(reset_arg_placeholder(
    [s EXCEPT !.max_lines_per_command = n, !.line_mode_specified = TRUE]))

\* Faulty variants: an earlier -L or -I stays in force.
KeepLineMode(s, n) == reset_arg_placeholder([s EXCEPT !.max_args_per_command = n])
KeepPlaceholder(s, name) ==
  [reset_max_lines_per_command(s) EXCEPT !.arg_placeholder = name]

set_max_args_per_command(s, n) ==
  reset_max_lines_per_command(reset_arg_placeholder(
    [s EXCEPT !.max_args_per_command = n]))

set_arg_placeholder(s, name) ==
  reset_max_args_per_command(reset_max_lines_per_command(
    [s EXCEPT !.arg_placeholder = name]))

enable_prompt(s) == [s EXCEPT !.prompt = TRUE, !.trace = TRUE]

enable_terminate_on_too_large_command(s) ==
  [s EXCEPT !.terminate_on_too_large_command = TRUE]

set_option(s, o) ==
  CASE o.opt = "0" -> enable_nul_char_as_arg_delimiter(s)
    [] o.opt = "a" -> [s EXCEPT !.arg_file_path = o.arg]
    [] o.opt = "d" -> set_arg_delimiter(s, o.arg[1])
    [] o.opt = "E" -> [s EXCEPT !.logical_end_of_input_marker = o.arg]
    [] o.opt = "I" -> set_arg_placeholder(s, o.arg)
    [] o.opt = "L" -> set_max_lines_per_command(s, o.arg)
    [] o.opt = "n" -> set_max_args_per_command(s, o.arg)
    [] o.opt = "o" -> [s EXCEPT !.open_tty = TRUE]
    [] o.opt = "p" -> enable_prompt(s)
    [] o.opt = "P" -> [s EXCEPT !.max_procs = o.arg]
    [] o.opt = "r" -> [s EXCEPT !.suppress_execution_on_empty_input = TRUE]
    [] o.opt = "s" -> [s EXCEPT !.max_command_length = o.arg]
    [] o.opt = "t" -> [s EXCEPT !.trace = TRUE]
    [] o.opt = "x" -> enable_terminate_on_too_large_command(s)

\* What the options imply together, once all are known.
apply_line_mode(s) ==
  IF s.line_mode_specified THEN enable_terminate_on_too_large_command(s) ELSE s

apply_limits(s) ==
  [reset_logical_end_of_input_marker(enable_terminate_on_too_large_command(s))
    EXCEPT !.max_lines_per_command = 1]

\* Faulty variant: the newline replaces any other delimiter.
AlwaysByLine(s) ==
  IF s.arg_placeholder = NULL THEN s
  ELSE set_arg_delimiter(apply_limits(s), Newline)

apply_placeholder(s) ==
  IF s.arg_placeholder = NULL THEN s
  ELSE IF ~s.use_nul_char_as_arg_delimiter /\ s.arg_delimiter = NUL
    THEN set_arg_delimiter(apply_limits(s), Newline)
    ELSE apply_limits(s)

prompt_and_procs_conflict(s) == s.prompt /\ s.max_procs > 1

-----------------------------------------------------------------------------

\* One iteration of the loop of parse_options.
parse_option ==
  /\ outcome = "parsing" /\ optind < Len(argv)
  /\ optind' = optind + 1
  /\ LET o == argv[optind + 1]
     IN \/ /\ accepted(o)
           /\ opts' = set_option(opts, o)
           /\ UNCHANGED outcome
        \/ /\ ~accepted(o)
           /\ outcome' = "failed"
           /\ UNCHANGED opts
  /\ UNCHANGED argv

\* configure_options, after parse_options.
configure_options ==
  /\ outcome = "parsing" /\ optind = Len(argv)
  /\ opts' = apply_placeholder(apply_line_mode(opts))
  /\ outcome' = IF prompt_and_procs_conflict(opts) THEN "failed" ELSE "configured"
  /\ UNCHANGED <<argv, optind>>

Done == outcome # "parsing" /\ UNCHANGED vars

Next == parse_option \/ configure_options \/ Done

Spec == Init /\ [][Next]_vars

-----------------------------------------------------------------------------
(* What the rest of phxargs makes of the options. *)

\* What command_create copies.
HandedOver ==
  [max_lines |-> opts.max_lines_per_command,
   max_args |-> opts.max_args_per_command,
   max_command_length |-> opts.max_command_length,
   arg_placeholder |-> opts.arg_placeholder # NULL,
   line_mode |-> opts.line_mode_specified,
   terminate_on_too_large_command |-> opts.terminate_on_too_large_command,
   suppress_execution_on_empty_input |-> opts.suppress_execution_on_empty_input]

\* xargs_mode_create: whether arguments are divided by a delimiter.
UsesDelimTokenizer ==
  opts.use_nul_char_as_arg_delimiter \/ opts.arg_delimiter # NUL

-----------------------------------------------------------------------------
(* Properties. *)

\* Every variable has its type.
TypeOK ==
  /\ optind \in 0 .. Len(argv)
  /\ opts \in OptionsRecord
  /\ outcome \in {"parsing", "configured", "failed"}

\* The last of some options on the command line; 0 if none is given.
LastOf(letters) ==
  LET given == {i \in 1 .. Len(argv) : argv[i].opt \in letters}
  IN IF given = {} THEN 0 ELSE CHOOSE i \in given : \A j \in given : j <= i

IsLast(letter, letters) ==
  LET k == LastOf(letters) IN k # 0 /\ argv[k].opt = letter

Limit == {"I", "L", "n"}

\* Commands are created from options that fit together: at most one of -I, -L
\* and -n is in force, and what the first two imply holds, whatever was given
\* in whatever order.  Command assumes this of every option record.
HandsOverConfigured == outcome = "configured" => Configured(HandedOver)

\* Of -I, -L and -n the last one is in force, with its own argument, and the
\* others have left nothing behind (set_arg_placeholder and the like).  So it is
\* for -n after -L too, where the documents disagree: a test has -n override
\* -L (test-echo-n-overrides-l.sh), but the man page says that -L takes
\* precedence (phxargs.1.md:157-159).
LastLimitWins ==
  outcome = "configured" =>
    LET value == argv[LastOf(Limit)].arg
    IN /\ opts.arg_placeholder = IF IsLast("I", Limit) THEN value ELSE NULL
       /\ opts.line_mode_specified = IsLast("L", Limit)
       /\ opts.max_lines_per_command =
            CASE IsLast("L", Limit) -> value
              [] IsLast("I", Limit) -> 1
              [] OTHER              -> 0
       /\ opts.max_args_per_command = IF IsLast("n", Limit) THEN value ELSE 0

\* The input is divided as the last of -0 and -d says; without either, by lines
\* under -I (so that no marker of -E applies) and by spaces otherwise.
SplitsAsAsked ==
  outcome = "configured" =>
    LET k == LastOf({"0", "d"})
    IN /\ UsesDelimTokenizer = (k # 0 \/ IsLast("I", Limit))
       /\ opts.arg_delimiter =
            CASE k # 0 /\ argv[k].opt = "d"      -> argv[k].arg[1]
              [] k = 0 /\ IsLast("I", Limit)     -> Newline
              [] OTHER                           -> NUL

\* The process pool is created with a number of processes that the system
\* allows, and with at most one, or with no limit, under -p (set_max_procs,
\* configure_options).
ProcsWithinLimits ==
  outcome = "configured" =>
    /\ ChildMax > 0 => opts.max_procs <= ChildMax
    /\ opts.prompt => opts.max_procs \in {0, 1}

=============================================================================
