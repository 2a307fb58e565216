--------------------------- MODULE MCSpaceTokenizer ---------------------------
EXTENDS SpaceTokenizer

\* One ordinary character that also makes the marker, and every special one.
Characters == {"a", " ", Newline, "'", "\"", Backslash}

ShortInputs == BoundedSeq(Characters, 5)

\* Shorter inputs with a second ordinary character, a tab and a NUL.
NulInputs == BoundedSeq(Characters \cup {"b", "\t", NUL}, 4)

MarkerOrNone == {NoMarker, <<"a">>}

\* Single arguments of up to three characters, pairs of up to one.
Lists ==
  {<<a>> : a \in BoundedSeq(Characters, 3)}
  \cup {<<a, b>> : a, b \in BoundedSeq(Characters, 1)}

WrittenInputs == UNION {LinesOf(args) : args \in Lists}

Inputs == ShortInputs \cup NulInputs \cup WrittenInputs
=============================================================================
