------------------------------ MODULE MCStorage ------------------------------
(***************************************************************************)
(* Inputs and arguments for model-checking Storage.                        *)
(***************************************************************************)
EXTENDS Storage

\* NUL, newline, a comma, a letter, and a byte above 127.
Inputs == BoundedSeq({0, 10, 44, 97, 233}, 5)

\* The placeholder next to itself, twice with an overlap, not at all; the command
\* word, which is never replaced, is one as well.  Four occurrences and a line of
\* four bytes make 17, the largest size there is.
Fixed == <<<<97>>, <<97, 97, 44, 97, 97>>, <<97, 97, 97>>, <<44>>>>

PlaceholderChoices == {NULL, <<97>>, <<97, 97>>, <<>>}

=============================================================================
