------------------------------- MODULE MCXargs -------------------------------
(***************************************************************************)
(* Options for model-checking Xargs, as options.c hands them over.         *)
(***************************************************************************)
EXTENDS Xargs

Plain ==
  [max_lines |-> 0, max_args |-> 0, max_command_length |-> 0,
   arg_placeholder |-> FALSE, line_mode |-> FALSE,
   terminate_on_too_large_command |-> FALSE,
   suppress_execution_on_empty_input |-> FALSE]

\* -L n, which implies -x; -n n; -s n; -I, which implies -x and one line at a
\* time; with or without -x or -r.
Lines(n) == [Plain EXCEPT !.max_lines = n, !.line_mode = TRUE,
                          !.terminate_on_too_large_command = TRUE]
Args(n) == [Plain EXCEPT !.max_args = n]
Sized(o, n) == [o EXCEPT !.max_command_length = n]
Strict(o) == [o EXCEPT !.terminate_on_too_large_command = TRUE]
Suppressed(o) == [o EXCEPT !.suppress_execution_on_empty_input = TRUE]
Placeholder == [Strict(Plain) EXCEPT !.max_lines = 1, !.arg_placeholder = TRUE]

\* With EnvLength + FixedLength = 3 and tokens of length 0 and 2, the longest
\* commands within -s 6 are one of the longer tokens or three of the shorter;
\* a longer token does not fit into -s 5.
AllOptions ==
  {Suppressed(Plain), Lines(2), Args(2),
   Sized(Plain, 5), Sized(Plain, 6), Sized(Strict(Plain), 6),
   Sized(Args(2), 7), Sized(Strict(Args(2)), 7), Sized(Lines(1), 7),
   Placeholder, Sized(Placeholder, 5)}

\* -s alone, and -I with -s.
SizedOnly == {Sized(Plain, 6)}
SizedLines == {Sized(Placeholder, 8)}

Indeterminate == {-1}

=============================================================================
