--------------------------- MODULE SequenceLemmas ---------------------------
(***************************************************************************)
(* What the proofs about strings rest on: induction over sets of natural   *)
(* numbers, and what FlattenSeq, SubSeq and concatenation compute.         *)
(***************************************************************************)
EXTENDS Integers, FiniteSets, Sequences, SequencesExt, SequenceTheorems,
        WellFoundedInduction, TLAPS

-----------------------------------------------------------------------------
(* Induction over sets of natural numbers. *)

LEMMA LeastNatural ==
  ASSUME NEW S, S \subseteq Nat, S # {}
  PROVE  \E n \in S : \A m \in S : n <= m
  <1> DEFINE less == {ss \in Nat \X Nat : ss[1] < ss[2]}
  <1>1. IsWellFoundedOn(less, Nat)
    BY NatLessThanWellFounded DEF OpToRel
  <1>2. \A m, n \in Nat : <<m, n>> \in less <=> m < n
    OBVIOUS
  <1> HIDE DEF less
  <1>3. PICK n \in S : \A m \in S : ~(<<m, n>> \in less)
    BY <1>1, WFMin
  <1>4. ASSUME NEW m \in S
        PROVE  n <= m
    <2>1. m \in Nat /\ n \in Nat
      OBVIOUS
    <2>2. ~(m < n)
      BY <1>2, <1>3, <2>1
    <2> QED
      BY <2>1, <2>2
  <1> QED
    BY <1>4

\* Whatever contains 0, and with each number the next, contains all of them.
LEMMA AllNaturals ==
  ASSUME NEW S, 0 \in S, \A n \in Nat : n \in S => n + 1 \in S
  PROVE  \A n \in Nat : n \in S
  <1> SUFFICES ASSUME NEW k \in Nat, k \notin S
               PROVE  FALSE
    OBVIOUS
  <1> DEFINE T == {n \in Nat : n \notin S}
  <1>1. T \subseteq Nat /\ T # {}
    OBVIOUS
  <1>2. PICK least \in T : \A m \in T : least <= m
    BY <1>1, LeastNatural
  <1>3. least \in Nat /\ least # 0
    OBVIOUS
  <1>4. least - 1 \in Nat /\ (least - 1) + 1 = least /\ ~(least <= least - 1)
    BY <1>3
  <1>5. least - 1 \in S
    BY <1>2, <1>4
  <1> QED
    BY <1>2, <1>4, <1>5

\* Positions are gone through to the end: a set that has a position when it has
\* all of the later ones has them all.
LEMMA FromTheEnd ==
  ASSUME NEW n \in Nat, NEW S,
         \A i \in 1..n : (\A j \in 1..n : i < j => j \in S) => i \in S
  PROVE  \A i \in 1..n : i \in S
  <1> SUFFICES ASSUME NEW i \in 1..n, i \notin S
               PROVE  FALSE
    OBVIOUS
  <1> DEFINE left == {d \in Nat : d < n /\ n - d \notin S}
  <1>1. n - i \in left
    BY DEF left
  <1>2. left \subseteq Nat /\ left # {}
    BY <1>1
  <1>3. PICK least \in left : \A d \in left : least <= d
    <2> HIDE DEF left
    <2> QED
      BY <1>2, LeastNatural
  <1>4. least \in Nat /\ n - least \in 1..n /\ n - least \notin S
    BY <1>3
  <1>5. ASSUME NEW j \in 1..n, n - least < j
        PROVE  j \in S
    <2> SUFFICES ASSUME j \notin S
                 PROVE  FALSE
      OBVIOUS
    <2>1. n - j \in left
      BY DEF left
    <2>2. ~(least <= n - j)
      BY <1>4, <1>5
    <2> QED
      BY <1>3, <2>1, <2>2
  <1> QED
    BY <1>4, <1>5

-----------------------------------------------------------------------------
(* FlattenSeq joins one sequence after the other. *)

\* f is what FlattenSeq computes for the first n of these sequences.
Flattens(f, seqs, n) ==
  f = [i \in 1..n |-> IF i = 1 THEN seqs[i] ELSE f[i - 1] \o seqs[i]]

LEMMA FlatteningExists ==
  ASSUME NEW seqs, NEW n \in Nat
  PROVE  \E f : Flattens(f, seqs, n)
  <1> DEFINE S == {k \in Nat : \E f : Flattens(f, seqs, k)}
  <1>1. 0 \in S
    <2>1. Flattens(<<>>, seqs, 0)
      BY DEF Flattens
    <2> QED
      BY <2>1
  <1>2. ASSUME NEW k \in Nat, k \in S
        PROVE  k + 1 \in S
    <2>1. PICK f : Flattens(f, seqs, k)
      BY <1>2
    <2> DEFINE g == [i \in 1..(k + 1) |->
                       IF i = k + 1
                         THEN IF i = 1 THEN seqs[i] ELSE f[i - 1] \o seqs[i]
                         ELSE f[i]]
    <2>2. ASSUME NEW i \in 1..(k + 1)
          PROVE  g[i] = IF i = 1 THEN seqs[i] ELSE g[i - 1] \o seqs[i]
      <3>1. CASE i = k + 1
        <4>1. i # 1 => i - 1 \in 1..(k + 1) /\ i - 1 # k + 1
          BY <3>1
        <4>2. i # 1 => g[i - 1] = f[i - 1]
          BY <4>1
        <4> QED
          BY <3>1, <4>2
      <3>2. CASE i # k + 1
        <4>1. i \in 1..k
          BY <3>2
        <4>2. f[i] = IF i = 1 THEN seqs[i] ELSE f[i - 1] \o seqs[i]
          BY <2>1, <4>1 DEF Flattens
        <4>3. i # 1 => i - 1 \in 1..(k + 1) /\ i - 1 # k + 1
          BY <4>1
        <4> QED
          BY <3>2, <4>2, <4>3
      <3> QED
        BY <3>1, <3>2
    <2>3. g = [i \in 1..(k + 1) |-> IF i = 1 THEN seqs[i] ELSE g[i - 1] \o seqs[i]]
      <3> HIDE DEF g
      <3>1. g = [i \in 1..(k + 1) |-> g[i]]
        BY DEF g
      <3> QED
        BY <2>2, <3>1
    <2> HIDE DEF g
    <2>4. Flattens(g, seqs, k + 1)
      BY <2>3 DEF Flattens
    <2> QED
      BY <2>4
  <1> HIDE DEF S
  <1>3. n \in S
    BY <1>1, <1>2, AllNaturals
  <1> QED
    BY <1>3 DEF S

\* What follows later does not change it.
LEMMA FlatteningsAgree ==
  ASSUME NEW seqs, NEW n \in Nat, NEW f, Flattens(f, seqs, n),
         NEW more, NEW m \in Nat, NEW g, Flattens(g, more, m),
         n <= m, \A i \in 1..n : seqs[i] = more[i]
  PROVE  \A i \in 1..n : f[i] = g[i]
  <1> DEFINE S == {k \in Nat : k + 1 \in 1..n => f[k + 1] = g[k + 1]}
  <1>1. 0 \in S
    BY DEF Flattens
  <1>2. ASSUME NEW k \in Nat, k \in S
        PROVE  k + 1 \in S
    <2> SUFFICES ASSUME (k + 1) + 1 \in 1..n
                 PROVE  f[(k + 1) + 1] = g[(k + 1) + 1]
      OBVIOUS
    <2> DEFINE i == (k + 1) + 1
    <2>1. i \in 1..n /\ i \in 1..m /\ i # 1 /\ i - 1 = k + 1 /\ k + 1 \in 1..n
      OBVIOUS
    <2> HIDE DEF i
    <2>2. f[i] = f[i - 1] \o seqs[i] /\ g[i] = g[i - 1] \o more[i]
      BY <2>1 DEF Flattens
    <2>3. f[k + 1] = g[k + 1]
      BY <1>2, <2>1
    <2> QED
      BY <2>1, <2>2, <2>3 DEF i
  <1> HIDE DEF S
  <1>3. \A k \in Nat : k \in S
    BY <1>1, <1>2, AllNaturals
  <1>4. ASSUME NEW i \in 1..n
        PROVE  f[i] = g[i]
    <2>1. i - 1 \in Nat /\ (i - 1) + 1 = i
      OBVIOUS
    <2>2. i - 1 \in S
      BY <1>3, <2>1
    <2> QED
      BY <2>1, <2>2 DEF S
  <1> QED
    BY <1>4

LEMMA FlattenByParts ==
  ASSUME NEW seqs, NEW n \in Nat, Len(seqs) = n, n # 0, NEW f, Flattens(f, seqs, n)
  PROVE  FlattenSeq(seqs) = f[n]
  <1> DEFINE flatten == CHOOSE g : g = [i \in 1..Len(seqs) |->
                                        IF i = 1 THEN seqs[i] ELSE g[i - 1] \o seqs[i]]
  <1>1. FlattenSeq(seqs) = flatten[Len(seqs)]
    BY DEF FlattenSeq
  <1>2. Flattens(flatten, seqs, n)
    BY DEF Flattens
  <1>3. \A i \in 1..n : flatten[i] = f[i]
    BY <1>2, FlatteningsAgree
  <1>4. n \in 1..n
    OBVIOUS
  <1> HIDE DEF flatten
  <1>5. flatten[n] = f[n]
    BY <1>3, <1>4
  <1> QED
    BY <1>1, <1>5

\* Joining one more sequence.
LEMMA FlattenAppend ==
  ASSUME NEW T, NEW seqs \in Seq(Seq(T)), NEW last \in Seq(T)
  PROVE  FlattenSeq(Append(seqs, last)) =
           IF seqs = <<>> THEN last ELSE FlattenSeq(seqs) \o last
  <1> DEFINE n == Len(seqs)
             more == Append(seqs, last)
  <1>1. /\ n \in Nat /\ n + 1 \in Nat /\ n + 1 # 0 /\ n + 1 \in 1..(n + 1) /\ n <= n + 1
        /\ Len(more) = n + 1 /\ more[n + 1] = last
        /\ \A i \in 1..n : seqs[i] = more[i]
    BY AppendProperties, LenProperties
  <1>2. seqs = <<>> <=> n = 0
    BY EmptySeq
  <1> HIDE DEF n, more
  <1>3. PICK g : Flattens(g, more, n + 1)
    BY <1>1, FlatteningExists
  <1>4. FlattenSeq(more) = g[n + 1]
    BY <1>1, <1>3, FlattenByParts
  <1>5. g[n + 1] = IF n + 1 = 1 THEN last ELSE g[(n + 1) - 1] \o last
    BY <1>1, <1>3 DEF Flattens
  <1>6. CASE n = 0
    BY <1>2, <1>4, <1>5, <1>6 DEF more
  <1>7. CASE n # 0
    <2>1. PICK f : Flattens(f, seqs, n)
      BY <1>1, FlatteningExists
    <2>2. FlattenSeq(seqs) = f[n]
      BY <1>1, <1>7, <2>1, FlattenByParts DEF n
    <2>3. f[n] = g[n]
      <3>1. \A i \in 1..n : f[i] = g[i]
        <4>1. n \in Nat /\ n + 1 \in Nat /\ n <= n + 1
          BY <1>1
        <4>2. \A i \in 1..n : seqs[i] = more[i]
          BY <1>1
        <4> QED
          BY <1>3, <2>1, <4>1, <4>2, FlatteningsAgree
      <3>2. n \in 1..n
        BY <1>1, <1>7
      <3> QED
        BY <3>1, <3>2
    <2>4. n + 1 # 1 /\ (n + 1) - 1 = n
      BY <1>1, <1>7
    <2> QED
      BY <1>2, <1>4, <1>5, <1>7, <2>2, <2>3, <2>4 DEF more
  <1> QED
    BY <1>6, <1>7

LEMMA FlattenNone == FlattenSeq(<<>>) = <<>>
  BY DEF FlattenSeq

\* Sequences joined make a sequence.
LEMMA FlattenIsSeq ==
  ASSUME NEW T, NEW seqs \in Seq(Seq(T))
  PROVE  FlattenSeq(seqs) \in Seq(T)
  <1> DEFINE n == Len(seqs)
  <1>1. n \in Nat /\ \A i \in 1..n : seqs[i] \in Seq(T)
    BY LenProperties, ElementOfSeq
  <1>2. CASE n = 0
    BY <1>2, FlattenNone, EmptySeq
  <1>3. CASE n # 0
    <2> HIDE DEF n
    <2>1. PICK f : Flattens(f, seqs, n)
      BY <1>1, FlatteningExists
    <2> DEFINE S == {k \in Nat : k + 1 \in 1..n => f[k + 1] \in Seq(T)}
    <2>2. 0 \in S
      BY <1>1, <2>1 DEF Flattens
    <2>3. ASSUME NEW k \in Nat, k \in S
          PROVE  k + 1 \in S
      <3> SUFFICES ASSUME (k + 1) + 1 \in 1..n
                   PROVE  f[(k + 1) + 1] \in Seq(T)
        OBVIOUS
      <3>1. k + 1 \in 1..n /\ (k + 1) + 1 # 1 /\ ((k + 1) + 1) - 1 = k + 1
        BY <1>1
      <3>2. f[(k + 1) + 1] = f[k + 1] \o seqs[(k + 1) + 1]
        BY <2>1, <3>1 DEF Flattens
      <3>3. f[k + 1] \in Seq(T) /\ seqs[(k + 1) + 1] \in Seq(T)
        BY <1>1, <2>3, <3>1
      <3> QED
        BY <3>2, <3>3, ConcatProperties
    <2> HIDE DEF S
    <2>4. \A k \in Nat : k \in S
      BY <2>2, <2>3, AllNaturals
    <2>5. n - 1 \in Nat /\ (n - 1) + 1 = n /\ n \in 1..n
      BY <1>1, <1>3
    <2>6. f[n] \in Seq(T)
      BY <2>4, <2>5 DEF S
    <2> QED
      BY <1>1, <1>3, <2>1, <2>6, FlattenByParts DEF n
  <1> QED
    BY <1>2, <1>3

\* In one form for every case.
LEMMA FlattenOneMore ==
  ASSUME NEW T, NEW seqs \in Seq(Seq(T)), NEW last \in Seq(T)
  PROVE  FlattenSeq(Append(seqs, last)) = FlattenSeq(seqs) \o last
  BY FlattenAppend, FlattenNone, ConcatEmptySeq

-----------------------------------------------------------------------------
(* Parts of sequences. *)

\* The first so many elements.
LEMMA PrefixProperties ==
  ASSUME NEW T, NEW s \in Seq(T), NEW n \in 0..Len(s)
  PROVE  /\ SubSeq(s, 1, n) \in Seq(T) /\ Len(SubSeq(s, 1, n)) = n
         /\ \A i \in 1..n : SubSeq(s, 1, n)[i] = s[i]
  <1>1. Len(s) \in Nat /\ n \in Int /\ 1 \in Int
    BY LenProperties
  <1>2. \A i \in 1..n : s[i] \in T
    BY <1>1, ElementOfSeq
  <1>3. /\ SubSeq(s, 1, n) \in Seq(T)
        /\ Len(SubSeq(s, 1, n)) = IF 1 <= n THEN n - 1 + 1 ELSE 0
        /\ \A i \in 1..(n - 1 + 1) : SubSeq(s, 1, n)[i] = s[1 + i - 1]
    BY <1>1, <1>2, SubSeqProperties
  <1> QED
    BY <1>1, <1>3

\* A sequence is all but its last element, and that.
LEMMA FrontAndLast ==
  ASSUME NEW T, NEW s \in Seq(T), s # <<>>
  PROVE  Front(s) \in Seq(T) /\ Last(s) \in T /\ s = Append(Front(s), Last(s))
  <1>1. Len(s) \in Nat /\ Len(s) # 0
    BY LenProperties, EmptySeq
  <1>2. Len(s) \in 1..Len(s) /\ 1 \in 1..Len(s) /\ Len(s) - 1 \in 0..Len(s)
    BY <1>1
  <1>3. Front(s) \in Seq(T) /\ Last(s) \in T
    BY <1>2, PrefixProperties, ElementOfSeq DEF Front, Last
  <1>4. SubSeq(s, 1, Len(s)) = SubSeq(s, 1, Len(s) - 1) \o <<s[Len(s)]>>
    BY <1>2, SubSeqRecursiveSecond
  <1> QED
    BY <1>3, <1>4, SubSeqFull, AppendIsConcat DEF Front, Last

LEMMA FrontOfAppend ==
  ASSUME NEW T, NEW s \in Seq(T), NEW e \in T
  PROVE  Front(Append(s, e)) = s /\ Last(Append(s, e)) = e
  <1>1. /\ Append(s, e) \in Seq(T) /\ Append(s, e) # <<>>
        /\ Len(Append(s, e)) = Len(s) + 1 /\ Append(s, e)[Len(s) + 1] = e
    BY AppendProperties
  <1>2. Last(Append(s, e)) = e
    BY <1>1 DEF Last
  <1>3. Append(s, e) = Append(Front(Append(s, e)), e) /\ Front(Append(s, e)) \in Seq(T)
    BY <1>1, <1>2, FrontAndLast
  <1> QED
    BY <1>2, <1>3, AppendInjective

Associative(T) == \A x, y, z \in Seq(T) : (x \o y) \o z = x \o (y \o z)

LEMMA Associates ==
  ASSUME NEW T
  PROVE  Associative(T)
  <1> SUFFICES ASSUME NEW x \in Seq(T), NEW y \in Seq(T), NEW z \in Seq(T)
               PROVE  (x \o y) \o z = x \o (y \o z)
    BY DEF Associative
  <1> QED
    BY ConcatAssociative

\* The end of what is joined is the end of the second part.
LEMMA FrontOfConcat ==
  ASSUME NEW T, NEW s \in Seq(T), NEW t \in Seq(T), t # <<>>
  PROVE  /\ s \o t # <<>> /\ Last(s \o t) = Last(t)
         /\ Front(s \o t) = s \o Front(t)
  <1>1. Front(t) \in Seq(T) /\ Last(t) \in T /\ t = Front(t) \o <<Last(t)>>
    BY FrontAndLast, AppendIsConcat
  <1> DEFINE u == s \o Front(t)
             e == Last(t)
  <1>2. <<e>> \in Seq(T) /\ u \in Seq(T) /\ e \in T
    BY <1>1, ConcatProperties
  <1>3. Associative(T)
    BY Associates
  <1>4. s \o t = u \o <<e>>
    <2>1. u \o <<e>> = s \o (Front(t) \o <<e>>)
      BY <1>1, <1>2, <1>3, Zenon DEF Associative
    <2> QED
      BY <1>1, <2>1, Zenon
  <1> HIDE DEF u, e
  <1>5. s \o t = Append(u, e)
    BY <1>2, <1>4, AppendIsConcat
  <1>6. Front(Append(u, e)) = u /\ Last(Append(u, e)) = e /\ Append(u, e) # <<>>
    BY <1>2, FrontOfAppend, AppendProperties
  <1> QED
    BY <1>5, <1>6 DEF u, e

\* One more element.
LEMMA PrefixGrows ==
  ASSUME NEW T, NEW s \in Seq(T), NEW n \in 0..Len(s), n < Len(s)
  PROVE  SubSeq(s, 1, n + 1) = Append(SubSeq(s, 1, n), s[n + 1]) /\ s[n + 1] \in T
  <1>1. Len(s) \in Nat /\ n \in Nat
    BY LenProperties
  <1>2. n + 1 \in 1..Len(s) /\ 1 \in 1..Len(s) /\ (n + 1) - 1 = n
    BY <1>1
  <1>3. SubSeq(s, 1, n + 1) = SubSeq(s, 1, (n + 1) - 1) \o <<s[n + 1]>>
    BY <1>2, SubSeqRecursiveSecond
  <1>4. SubSeq(s, 1, n) \in Seq(T) /\ s[n + 1] \in T
    BY <1>2, PrefixProperties, ElementOfSeq
  <1> QED
    BY <1>2, <1>3, <1>4, AppendIsConcat

LEMMA ConcatAppend ==
  ASSUME NEW T, NEW s \in Seq(T), NEW t \in Seq(T), NEW e \in T
  PROVE  s \o Append(t, e) = Append(s \o t, e)
  <1>1. <<e>> \in Seq(T) /\ s \o t \in Seq(T)
    BY ConcatProperties
  <1>2. Append(t, e) = t \o <<e>> /\ Append(s \o t, e) = (s \o t) \o <<e>>
    BY <1>1, AppendIsConcat
  <1>3. (s \o t) \o <<e>> = s \o (t \o <<e>>)
    BY <1>1, ConcatAssociative
  <1> QED
    BY <1>2, <1>3

LEMMA LeastOf ==
  ASSUME NEW S, NEW n \in S, n \in Int, \A m \in S : m \in Int /\ n <= m
  PROVE  Min(S) = n
  <1>1. Min(S) \in S /\ \A m \in S : Min(S) <= m
    BY DEF Min
  <1>2. Min(S) <= n /\ n <= Min(S) /\ Min(S) \in Int
    BY <1>1
  <1> QED
    BY <1>2

\* The elements from one position to another.
LEMMA PartProperties ==
  ASSUME NEW T, NEW s \in Seq(T), NEW m \in 1 .. Len(s) + 1, NEW n \in 0 .. Len(s)
  PROVE  /\ SubSeq(s, m, n) \in Seq(T)
         /\ Len(SubSeq(s, m, n)) = IF m <= n THEN n - m + 1 ELSE 0
         /\ \A i \in 1 .. n - m + 1 : SubSeq(s, m, n)[i] = s[m + i - 1]
  <1>1. Len(s) \in Nat /\ m \in Int /\ n \in Int
    BY LenProperties
  <1>2. \A i \in m..n : i \in 1..Len(s)
    BY <1>1
  <1>3. \A i \in m..n : s[i] \in T
    BY <1>2, ElementOfSeq
  <1> QED
    BY <1>1, <1>3, SubSeqProperties

\* What follows the first part of two is the second one.
LEMMA RestOfConcat ==
  ASSUME NEW T, NEW s \in Seq(T), NEW t \in Seq(T)
  PROVE  SubSeq(s \o t, Len(s) + 1, Len(s \o t)) = t
  <1> DEFINE u == s \o t
             n == Len(s)
             rest == SubSeq(u, n + 1, Len(u))
  <1>1. n \in Nat /\ Len(t) \in Nat
    BY LenProperties
  <1>2. /\ u \in Seq(T) /\ Len(u) = n + Len(t)
        /\ \A i \in 1 .. n + Len(t) : u[i] = IF i <= n THEN s[i] ELSE t[i - n]
    BY ConcatProperties
  <1> HIDE DEF u, n
  <1>3. n + 1 \in 1 .. Len(u) + 1 /\ Len(u) \in 0 .. Len(u)
    BY <1>1, <1>2
  <1>4. /\ rest \in Seq(T)
        /\ Len(rest) = IF n + 1 <= Len(u) THEN Len(u) - (n + 1) + 1 ELSE 0
        /\ \A i \in 1 .. Len(u) - (n + 1) + 1 : rest[i] = u[n + 1 + i - 1]
    BY <1>2, <1>3, PartProperties
  <1>5. Len(rest) = Len(t)
    BY <1>1, <1>2, <1>4
  <1>6. ASSUME NEW i \in 1 .. Len(t)
        PROVE  rest[i] = t[i]
    <2>1. /\ i \in 1 .. Len(u) - (n + 1) + 1 /\ n + 1 + i - 1 \in 1 .. n + Len(t)
          /\ ~(n + 1 + i - 1 <= n) /\ n + 1 + i - 1 - n = i
      BY <1>1, <1>2
    <2> DEFINE j == n + 1 + i - 1
    <2>2. rest[i] = u[j]
      BY <1>4, <2>1
    <2> HIDE DEF j, rest
    <2>3. u[j] = t[i]
      <3>1. j \in 1 .. n + Len(t) /\ ~(j <= n) /\ j - n = i
        BY <1>1, <1>2 DEF j
      <3> QED
        BY <1>2, <3>1
    <2> QED
      BY <2>2, <2>3
  <1> HIDE DEF rest
  <1> QED
    BY <1>4, <1>5, <1>6, SeqEqual DEF rest, u, n

LEMMA ConcatHasPrefix ==
  ASSUME NEW T, NEW s \in Seq(T), NEW t \in Seq(T)
  PROVE  IsPrefix(s, s \o t)
  <1> DEFINE u == s \o t
  <1>1. Len(s) \in Nat /\ Len(t) \in Nat
    BY LenProperties
  <1>2. /\ u \in Seq(T) /\ Len(u) = Len(s) + Len(t)
        /\ \A i \in 1 .. Len(s) + Len(t) : u[i] = IF i <= Len(s) THEN s[i] ELSE t[i - Len(s)]
    BY ConcatProperties
  <1> HIDE DEF u
  <1>3. Len(s) \in 0..Len(u)
    BY <1>1, <1>2
  <1>4. /\ SubSeq(u, 1, Len(s)) \in Seq(T) /\ Len(SubSeq(u, 1, Len(s))) = Len(s)
        /\ \A i \in 1..Len(s) : SubSeq(u, 1, Len(s))[i] = u[i]
    BY <1>2, <1>3, PrefixProperties
  <1>5. \A i \in 1..Len(s) : SubSeq(u, 1, Len(s))[i] = s[i]
    BY <1>1, <1>2, <1>4
  <1>6. SubSeq(u, 1, Len(s)) = s
    BY <1>4, <1>5, SeqEqual
  <1> QED
    BY <1>1, <1>2, <1>6 DEF IsPrefix, u

-----------------------------------------------------------------------------
(* Joining the first so many. *)

Joined(pieces, n) == FlattenSeq(SubSeq(pieces, 1, n))

LEMMA JoinedGrows ==
  ASSUME NEW T, NEW pieces \in Seq(Seq(T)), NEW n \in 0..Len(pieces)
  PROVE  /\ Joined(pieces, n) \in Seq(T)
         /\ n < Len(pieces) => Joined(pieces, n + 1) = Joined(pieces, n) \o pieces[n + 1]
  <1>1. SubSeq(pieces, 1, n) \in Seq(Seq(T))
    BY PrefixProperties
  <1>2. Joined(pieces, n) \in Seq(T)
    BY <1>1, FlattenIsSeq DEF Joined
  <1>3. ASSUME n < Len(pieces)
        PROVE  Joined(pieces, n + 1) = Joined(pieces, n) \o pieces[n + 1]
    <2>1. /\ SubSeq(pieces, 1, n + 1) = Append(SubSeq(pieces, 1, n), pieces[n + 1])
          /\ pieces[n + 1] \in Seq(T)
      BY <1>3, PrefixGrows
    <2> DEFINE last == pieces[n + 1]
               before == SubSeq(pieces, 1, n)
    <2> HIDE DEF last, before
    <2>2. last \in Seq(T) /\ before \in Seq(Seq(T))
      BY <1>1, <2>1 DEF last, before
    <2>3. FlattenSeq(Append(before, last)) = FlattenSeq(before) \o last
      BY <2>2, FlattenOneMore
    <2> QED
      BY <2>1, <2>3 DEF Joined, last, before
  <1> QED
    BY <1>2, <1>3

LEMMA JoinedEnds ==
  ASSUME NEW T, NEW pieces \in Seq(Seq(T))
  PROVE  Joined(pieces, 0) = <<>> /\ Joined(pieces, Len(pieces)) = FlattenSeq(pieces)
  <1>1. SubSeq(pieces, 1, 0) = <<>> /\ SubSeq(pieces, 1, Len(pieces)) = pieces
    BY SubSeqEmpty, SubSeqFull
  <1> QED
    BY <1>1, FlattenNone DEF Joined

Verbatim(pieces, s, pos, n) == \A j \in pos..n : pieces[j] = <<s[j]>>

Copies(pieces, s, pos, n) ==
  Joined(pieces, n) = Joined(pieces, pos - 1) \o SubSeq(s, pos, n)

\* Where the pieces are the characters of s, they are joined to a part of s.
LEMMA JoinedCopies ==
  ASSUME NEW T, NEW s \in Seq(T), NEW pieces \in Seq(Seq(T)), Len(pieces) = Len(s),
         NEW pos \in 1 .. Len(s) + 1, NEW n \in 0 .. Len(s), pos <= n + 1,
         Verbatim(pieces, s, pos, n)
  PROVE  Copies(pieces, s, pos, n)
  <1> DEFINE before == Joined(pieces, pos - 1)
             S == {d \in Nat : pos + d - 1 <= n => Copies(pieces, s, pos, pos + d - 1)}
  <1>1. Len(s) \in Nat /\ pos \in Nat /\ n \in Nat /\ pos - 1 \in 0..Len(pieces)
    BY LenProperties
  <1>2. before \in Seq(T)
    BY <1>1, JoinedGrows
  <1>7. Associative(T)
    BY Associates
  <1> HIDE DEF before
  <1>3. 0 \in S
    <2>1. pos + 0 - 1 = pos - 1 /\ pos - 1 < pos /\ pos - 1 \in Int
      BY <1>1
    <2>2. SubSeq(s, pos, pos - 1) = <<>>
      BY <1>1, <2>1, SubSeqEmpty
    <2>3. before \o <<>> = before
      BY <1>2, ConcatEmptySeq
    <2> QED
      BY <2>1, <2>2, <2>3 DEF before, Copies
  <1>4. ASSUME NEW d \in Nat, d \in S
        PROVE  d + 1 \in S
    <2> SUFFICES ASSUME pos + (d + 1) - 1 <= n
                 PROVE  Copies(pieces, s, pos, pos + (d + 1) - 1)
      OBVIOUS
    <2> DEFINE k == pos + d - 1
    <2>1. /\ pos + (d + 1) - 1 = k + 1 /\ k <= n /\ k \in 0..Len(pieces) /\ k < Len(pieces)
          /\ k + 1 \in pos..n /\ pos \in 1..Len(s) /\ k + 1 \in pos..Len(s)
          /\ (k + 1) - 1 = k /\ k \in 0..Len(s)
      BY <1>1
    <2>2. Joined(pieces, k) = before \o SubSeq(s, pos, k)
      BY <1>4, <2>1 DEF Copies, before
    <2> HIDE DEF k
    <2>3. Joined(pieces, k + 1) = Joined(pieces, k) \o <<s[k + 1]>>
      BY <2>1, JoinedGrows DEF Verbatim
    <2>4. SubSeq(s, pos, k + 1) = SubSeq(s, pos, k) \o <<s[k + 1]>>
      BY <2>1, SubSeqRecursiveSecond
    <2> DEFINE part == SubSeq(s, pos, k)
               char1 == <<s[k + 1]>>
    <2>5. part \in Seq(T)
      BY <2>1, PartProperties
    <2>6. char1 \in Seq(T)
      <3>1. k + 1 \in 1..Len(s)
        BY <1>1, <2>1
      <3> QED
        BY <3>1, ElementOfSeq
    <2> HIDE DEF part, char1
    <2>7. (before \o part) \o char1 = before \o (part \o char1)
      BY <1>2, <1>7, <2>5, <2>6 DEF Associative
    <2> QED
      BY <2>1, <2>2, <2>3, <2>4, <2>7 DEF part, char1, before, Copies
  <1> HIDE DEF S
  <1>5. n + 1 - pos \in S
    <2>1. n + 1 - pos \in Nat
      BY <1>1
    <2> QED
      BY <1>3, <1>4, <2>1, AllNaturals
  <1>6. pos + (n + 1 - pos) - 1 = n /\ n <= n
    BY <1>1
  <1> QED
    BY <1>5, <1>6 DEF S

\* Where they are empty, nothing is added.
LEMMA JoinedSkips ==
  ASSUME NEW T, NEW pieces \in Seq(Seq(T)), NEW a \in 0..Len(pieces),
         NEW b \in a..Len(pieces), \A j \in a + 1 .. b : pieces[j] = <<>>
  PROVE  Joined(pieces, b) = Joined(pieces, a)
  <1> DEFINE S == {d \in Nat : a + d <= b => Joined(pieces, a + d) = Joined(pieces, a)}
  <1>1. Len(pieces) \in Nat /\ a \in Nat /\ b \in Nat
    BY LenProperties
  <1>2. 0 \in S
    BY <1>1
  <1>3. ASSUME NEW d \in Nat, d \in S
        PROVE  d + 1 \in S
    <2> SUFFICES ASSUME a + (d + 1) <= b
                 PROVE  Joined(pieces, a + (d + 1)) = Joined(pieces, a)
      OBVIOUS
    <2> DEFINE k == a + d
    <2>1. /\ a + (d + 1) = k + 1 /\ k <= b /\ k \in 0..Len(pieces) /\ k < Len(pieces)
          /\ k + 1 \in a + 1 .. b
      BY <1>1
    <2>2. Joined(pieces, k) = Joined(pieces, a)
      BY <1>3, <2>1
    <2> HIDE DEF k
    <2>3. Joined(pieces, k + 1) = Joined(pieces, k) \o <<>> /\ Joined(pieces, k) \in Seq(T)
      BY <2>1, JoinedGrows
    <2>4. Joined(pieces, k) \o <<>> = Joined(pieces, k)
      BY <2>3, ConcatEmptySeq
    <2> QED
      BY <2>1, <2>2, <2>3, <2>4
  <1> HIDE DEF S
  <1>4. b - a \in S
    <2>1. b - a \in Nat
      BY <1>1
    <2> QED
      BY <1>2, <1>3, <2>1, AllNaturals
  <1>5. a + (b - a) = b /\ b <= b
    BY <1>1
  <1> QED
    BY <1>4, <1>5 DEF S

\* What is joined of some pieces begins what is joined of more.
LEMMA JoinedPrefix ==
  ASSUME NEW T, NEW pieces \in Seq(Seq(T)), NEW a \in 0..Len(pieces), NEW b \in a..Len(pieces)
  PROVE  /\ Len(Joined(pieces, a)) \in Nat /\ Len(Joined(pieces, b)) \in Nat
         /\ Len(Joined(pieces, a)) <= Len(Joined(pieces, b))
         /\ \A i \in 1 .. Len(Joined(pieces, a)) : Joined(pieces, b)[i] = Joined(pieces, a)[i]
  <1> DEFINE Begins(n) == /\ Len(Joined(pieces, a)) \in Nat /\ Len(Joined(pieces, n)) \in Nat
                          /\ Len(Joined(pieces, a)) <= Len(Joined(pieces, n))
                          /\ \A i \in 1 .. Len(Joined(pieces, a)) :
                               Joined(pieces, n)[i] = Joined(pieces, a)[i]
             S == {d \in Nat : a + d <= Len(pieces) => Begins(a + d)}
  <1>1. Len(pieces) \in Nat /\ a \in Nat /\ b \in Nat
    BY LenProperties
  <1>2. 0 \in S
    <2>1. Joined(pieces, a) \in Seq(T)
      BY JoinedGrows
    <2>2. Begins(a)
      BY <2>1, LenProperties
    <2> QED
      BY <1>1, <2>2
  <1>3. ASSUME NEW d \in Nat, d \in S
        PROVE  d + 1 \in S
    <2> SUFFICES ASSUME a + (d + 1) <= Len(pieces)
                 PROVE  Begins(a + (d + 1))
      OBVIOUS
    <2>1. PICK n : n = a + d
      OBVIOUS
    <2>2. n \in 0..Len(pieces) /\ n < Len(pieces) /\ n + 1 = a + (d + 1) /\ n + 1 \in 1..Len(pieces)
      BY <1>1, <2>1
    <2>3. Begins(n)
      BY <1>1, <1>3, <2>1, <2>2
    <2>4. /\ Joined(pieces, n) \in Seq(T) /\ pieces[n + 1] \in Seq(T)
          /\ Joined(pieces, n + 1) = Joined(pieces, n) \o pieces[n + 1]
      BY <2>2, JoinedGrows, ElementOfSeq
    <2>5. /\ Len(Joined(pieces, n + 1)) = Len(Joined(pieces, n)) + Len(pieces[n + 1])
          /\ \A i \in 1 .. Len(Joined(pieces, n)) : Joined(pieces, n + 1)[i] = Joined(pieces, n)[i]
          /\ Len(pieces[n + 1]) \in Nat
      <3>1. Len(Joined(pieces, n)) \in Nat /\ Len(pieces[n + 1]) \in Nat
        BY <2>4, LenProperties
      <3>2. \A i \in 1 .. Len(Joined(pieces, n)) :
              i \in 1 .. Len(Joined(pieces, n)) + Len(pieces[n + 1]) /\ i <= Len(Joined(pieces, n))
        BY <3>1
      <3> QED
        BY <2>4, <3>1, <3>2, ConcatProperties
    <2>6. Begins(n + 1)
      <3>1. \A i \in 1 .. Len(Joined(pieces, a)) : i \in 1 .. Len(Joined(pieces, n))
        BY <2>3
      <3> QED
        BY <2>3, <2>5, <3>1
    <2> QED
      BY <2>2, <2>6
  <1>4. \A d \in Nat : d \in S
    <2> HIDE DEF S
    <2> QED
      BY <1>2, <1>3, AllNaturals
  <1>5. b - a \in Nat /\ a + (b - a) = b
    BY <1>1
  <1>6. Begins(b)
    <2>1. PICK d : d = b - a
      OBVIOUS
    <2>2. d \in S
      BY <1>4, <1>5, <2>1
    <2> HIDE DEF Begins
    <2> QED
      BY <1>1, <1>5, <2>1, <2>2
  <1> QED
    BY <1>6

\* The elements of a piece within what is joined of all of them.
LEMMA JoinedElements ==
  ASSUME NEW T, NEW pieces \in Seq(Seq(T)), NEW n \in 0..Len(pieces), n < Len(pieces)
  PROVE  LET p == Len(Joined(pieces, n))
             piece == pieces[n + 1]
         IN /\ p \in Nat /\ Len(piece) \in Nat /\ piece \in Seq(T)
            /\ Len(Joined(pieces, n + 1)) = p + Len(piece)
            /\ p + Len(piece) <= Len(FlattenSeq(pieces))
            /\ \A i \in 1 .. Len(piece) : FlattenSeq(pieces)[p + i] = piece[i]
  <1> DEFINE p == Len(Joined(pieces, n))
             piece == pieces[n + 1]
             whole == FlattenSeq(pieces)
             more == Joined(pieces, n + 1)
  <1>1. Len(pieces) \in Nat /\ n \in Nat
    BY LenProperties
  <1>2. n + 1 \in 1..Len(pieces) /\ n + 1 \in 0..Len(pieces) /\ Len(pieces) \in n + 1 .. Len(pieces)
    BY <1>1
  <1>3. /\ Joined(pieces, n) \in Seq(T) /\ piece \in Seq(T)
        /\ more = Joined(pieces, n) \o piece
    BY <1>2, JoinedGrows, ElementOfSeq
  <1>4. p \in Nat /\ Len(piece) \in Nat
    BY <1>3, LenProperties
  <1>5. /\ Len(more) = p + Len(piece)
        /\ \A i \in 1 .. p + Len(piece) :
             more[i] = IF i <= p THEN Joined(pieces, n)[i] ELSE piece[i - p]
    BY <1>3, ConcatProperties
  <1>6. Joined(pieces, Len(pieces)) = whole
    BY JoinedEnds
  <1>7. /\ Len(more) <= Len(whole)
        /\ \A i \in 1 .. Len(more) : whole[i] = more[i]
    BY <1>2, <1>6, JoinedPrefix
  <1> HIDE DEF p, piece, whole, more
  <1>8. ASSUME NEW i \in 1 .. Len(piece)
        PROVE  whole[p + i] = piece[i]
    <2>1. PICK j : j = p + i
      OBVIOUS
    <2>2. j \in 1 .. p + Len(piece) /\ ~(j <= p) /\ j - p = i
      BY <1>4, <2>1
    <2>3. more[j] = piece[i]
      BY <1>5, <2>2
    <2>4. whole[j] = more[j]
      BY <1>5, <1>7, <2>2
    <2> QED
      BY <2>1, <2>3, <2>4
  <1> QED
    BY <1>3, <1>4, <1>5, <1>7, <1>8, Zenon DEF p, piece, whole, more

LEMMA OneElement ==
  ASSUME NEW T, NEW e \in T
  PROVE  <<e>> \in Seq(T) /\ Len(<<e>>) = 1 /\ <<e>>[1] = e
  OBVIOUS

LEMMA TwoElements ==
  ASSUME NEW T, NEW d \in T, NEW e \in T
  PROVE  <<d, e>> \in Seq(T) /\ Len(<<d, e>>) = 2 /\ <<d, e>>[1] = d /\ <<d, e>>[2] = e
  OBVIOUS

\* A sequence between two equal elements.
LEMMA Surrounded ==
  ASSUME NEW T, NEW t \in Seq(T), NEW q \in T, NEW w, w = (<<q>> \o t) \o <<q>>
  PROVE  /\ w \in Seq(T) /\ Len(t) \in Nat /\ Len(w) = Len(t) + 2
         /\ w[1] = q /\ w[Len(t) + 2] = q
         /\ \A i \in 1 .. Len(t) : w[i + 1] = t[i]
  <1>1. PICK s \in Seq(T) : s = <<q>> /\ Len(s) = 1 /\ s[1] = q
    BY OneElement
  <1>2. PICK n \in Nat : n = Len(t)
    BY LenProperties
  <1>3. PICK u \in Seq(T) :
          /\ u = s \o t /\ Len(u) = n + 1
          /\ \A i \in 1 .. n + 1 : u[i] = IF i <= 1 THEN s[i] ELSE t[i - 1]
    <2>1. /\ s \o t \in Seq(T) /\ Len(s \o t) = Len(s) + Len(t)
          /\ \A i \in 1 .. Len(s) + Len(t) :
               (s \o t)[i] = IF i <= Len(s) THEN s[i] ELSE t[i - Len(s)]
      BY ConcatProperties
    <2>2. Len(s) + Len(t) = n + 1 /\ Len(s) = 1
      BY <1>1, <1>2
    <2> QED
      BY <2>1, <2>2
  <1>4. PICK v \in Seq(T) :
          /\ v = u \o s /\ Len(v) = n + 2
          /\ \A i \in 1 .. n + 2 : v[i] = IF i <= n + 1 THEN u[i] ELSE s[i - (n + 1)]
    <2>1. /\ u \o s \in Seq(T) /\ Len(u \o s) = Len(u) + Len(s)
          /\ \A i \in 1 .. Len(u) + Len(s) :
               (u \o s)[i] = IF i <= Len(u) THEN u[i] ELSE s[i - Len(u)]
      BY ConcatProperties
    <2>2. Len(u) + Len(s) = n + 2 /\ Len(u) = n + 1
      BY <1>1, <1>2, <1>3
    <2> QED
      BY <2>1, <2>2
  <1>5. v[1] = q
    <2>1. 1 \in 1 .. n + 2 /\ 1 <= n + 1 /\ 1 \in 1 .. n + 1
      BY <1>2
    <2> QED
      BY <1>1, <1>3, <1>4, <2>1
  <1>6. v[n + 2] = q
    <2>1. n + 2 \in 1 .. n + 2 /\ ~(n + 2 <= n + 1) /\ n + 2 - (n + 1) = 1
      BY <1>2
    <2> QED
      BY <1>1, <1>4, <2>1
  <1>7. ASSUME NEW i \in 1 .. n
        PROVE  v[i + 1] = t[i]
    <2>1. i + 1 \in 1 .. n + 2 /\ i + 1 \in 1 .. n + 1 /\ i + 1 <= n + 1 /\ ~(i + 1 <= 1)
          /\ i + 1 - 1 = i
      BY <1>2
    <2>2. v[i + 1] = u[i + 1]
      BY <1>4, <2>1
    <2>3. PICK j \in 1 .. n + 1 : j = i + 1 /\ ~(j <= 1) /\ j - 1 = i
      BY <2>1
    <2>4. u[j] = t[j - 1]
      BY <1>3, <2>3
    <2> QED
      BY <2>2, <2>3, <2>4
  <1> QED
    <2>1. w = v
      BY <1>1, <1>3, <1>4, Zenon
    <2> QED
      BY <1>2, <1>4, <1>5, <1>6, <1>7, <2>1, Zenon

=============================================================================
