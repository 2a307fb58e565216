------------------------------ MODULE MCOptions ------------------------------
EXTENDS Options, SequencesExt

\* Every option, with arguments on both sides of each check.
Occurrences ==
       [opt : {"L", "n", "s"}, arg : {0, 2}]
  \cup [opt : {"L"}, arg : {Invalid}]
  \cup [opt : {"P"}, arg : {-1, 0, 1, 2, 3}]
  \cup [opt : {"a", "E", "I"}, arg : {"name"}]
  \cup [opt : {"d"}, arg : {<<>>, <<",">>, <<Newline>>, <<",", ",">>}]
  \cup [opt : Flags \cup {":", "?"}]

ShortLists == BoundedSeq(Occurrences, 3)

\* Longer lists of the options that depend on each other.
RelatedOccurrences ==
       [opt : {"L", "n"}, arg : {2}]
  \cup [opt : {"P"}, arg : {0, 2}]
  \cup [opt : {"E", "I"}, arg : {"name"}]
  \cup [opt : {"d"}, arg : {<<",">>}]
  \cup [opt : {"0", "p", "x"}]

LongLists == BoundedSeq(RelatedOccurrences, 5)

ShortAndLongLists == ShortLists \cup LongLists

OneName == {"name"}
SomeChars == {",", NUL, Newline}
=============================================================================
