--------------------------- MODULE CommandOptions ---------------------------
(***************************************************************************)
(* The part of the options (struct options_s of src/src/options.c) that    *)
(* decides how input arguments become commands: what Options hands over    *)
(* and what Command is created from.                                       *)
(***************************************************************************)
EXTENDS Integers

\* max_command_length = 0 means no -s; arg_placeholder tells whether there is
\* one (-I); line_mode whether -L is in force.
Option == [max_lines : Nat, max_args : Nat, max_command_length : Nat,
           arg_placeholder : BOOLEAN, line_mode : BOOLEAN,
           terminate_on_too_large_command : BOOLEAN,
           suppress_execution_on_empty_input : BOOLEAN]

\* -L excludes -n and implies -x; -I excludes both and implies -x; without
\* either max_lines is 0.
Configured(o) ==
  /\ o \in Option
  /\ o.line_mode => o.max_lines > 0 /\ o.max_args = 0 /\ ~o.arg_placeholder
  /\ o.arg_placeholder => o.max_lines = 1 /\ o.max_args = 0
  /\ o.line_mode \/ o.arg_placeholder => o.terminate_on_too_large_command
  /\ ~o.line_mode /\ ~o.arg_placeholder => o.max_lines = 0

=============================================================================
