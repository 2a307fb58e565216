----------------------------- MODULE StrReplace -----------------------------
(***************************************************************************)
(* Replacing the placeholder of -I in an argument (src/src/str.c): one     *)
(* scan computes how long the result is, a second one writes it.           *)
(***************************************************************************)
EXTENDS Util, Sequences, SequencesExt, FiniteSets

\* Where placeholder occurs in s.
Occurrences(s, placeholder) ==
  {i \in 1 .. Len(s) - Len(placeholder) + 1 :
     SubSeq(s, i, i + Len(placeholder) - 1) = placeholder}

\* strstr() from position i on; 0 if nothing is found.
strstr(s, placeholder, i) ==
  LET found == {j \in Occurrences(s, placeholder) : j >= i}
  IN IF found = {} THEN 0 ELSE Min(found)

Past(tmp, placeholder) == tmp + Len(placeholder)

occurrence_count(s, placeholder) ==
  LET from[i \in 1 .. Len(s) + 1] ==
        LET tmp == strstr(s, placeholder, i)
        IN IF tmp = 0 THEN 0 ELSE 1 + from[Past(tmp, placeholder)]
  IN from[1]

new_len(s, placeholder, replacement) ==
  LET n == occurrence_count(s, placeholder)
  IN Len(s) - n * Len(placeholder) + n * Len(replacement)

\* Faulty variant: no room for the NUL.
BytesWithoutNul(s, placeholder, replacement) ==
  Wrapped(new_len(s, placeholder, replacement))

\* What calloc() is asked for: new_len + 1 wraps where new_len is SIZE_MAX.
result_bytes(s, placeholder, replacement) ==
  Wrapped(new_len(s, placeholder, replacement) + 1)

\* checked_mul and checked_add let new_len be SIZE_MAX but not exceed it; what
\* is added alone exceeds it only if new_len does.  Then calloc() may fail.
str_replace_exits(s, placeholder, replacement) ==
  /\ placeholder # <<>>
  /\ \/ new_len(s, placeholder, replacement) > SizeMax
     \/ CannotAllocate(result_bytes(s, placeholder, replacement))

\* Faulty variant: the second scan stops at the first occurrence.
WriteFirstOnly(s, placeholder, replacement) ==
  LET tmp == strstr(s, placeholder, 1)
  IN IF tmp = 0 THEN s
     ELSE SubSeq(s, 1, tmp - 1) \o replacement \o SubSeq(s, Past(tmp, placeholder), Len(s))

\* What the second scan writes.
written(s, placeholder, replacement) ==
  LET from[pos \in 1 .. Len(s) + 1] ==
        LET tmp == strstr(s, placeholder, pos)
        IN IF tmp = 0 THEN SubSeq(s, pos, Len(s))
           ELSE SubSeq(s, pos, tmp - 1) \o replacement \o from[Past(tmp, placeholder)]
  IN from[1]

str_replace(s, placeholder, replacement) ==
  IF placeholder = <<>> THEN s ELSE written(s, placeholder, replacement)

\* It writes that and the NUL, however much has been allocated.
str_replace_overruns(s, placeholder, replacement) ==
  /\ placeholder # <<>> /\ ~str_replace_exits(s, placeholder, replacement)
  /\ Len(written(s, placeholder, replacement)) + 1
       > result_bytes(s, placeholder, replacement)

-----------------------------------------------------------------------------
(***************************************************************************)
(* The replacement, defined without scanning: the occurrences replaced do  *)
(* not overlap, and any other begins within one of them.                   *)
(***************************************************************************)

Replaced(s, placeholder) ==
  CHOOSE m \in SUBSET Occurrences(s, placeholder) :
    \A j \in Occurrences(s, placeholder) :
      j \in m <=> \A i \in m : i < j => j >= i + Len(placeholder)

ReplacedIn(s, placeholder, replacement) ==
  IF placeholder = <<>> THEN s
  ELSE LET m == Replaced(s, placeholder)
       IN FlattenSeq([j \in DOMAIN s |->
            CASE j \in m -> replacement
              [] \E i \in m : j \in i + 1 .. i + Len(placeholder) - 1 -> <<>>
              [] OTHER -> <<s[j]>>])

=============================================================================
