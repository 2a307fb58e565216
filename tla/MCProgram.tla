------------------------------ MODULE MCProgram ------------------------------
(***************************************************************************)
(* Options for model-checking Program, as options.c hands them over.       *)
(***************************************************************************)
EXTENDS Program, TLC

\* -I alone.
Placeholder ==
  {[max_lines |-> 1, max_args |-> 0, max_command_length |-> 0,
    arg_placeholder |-> TRUE, line_mode |-> FALSE,
    terminate_on_too_large_command |-> TRUE,
    suppress_execution_on_empty_input |-> FALSE]}

Indeterminate == {-1}

ChildSymmetry == Permutations(Child)

=============================================================================
