---------------------------- MODULE StorageProofs ----------------------------
(***************************************************************************)
(* Theorems about DelimTokenizer and Storage.  What the tokenizer of -d    *)
(* returns, joined again, is what it has read; the buffer, the argument    *)
(* lists and the trace stay within what is allocated for them; arguments   *)
(* are still what the tokenizer returned when commands get them; and what  *)
(* replaces a placeholder is the line, everywhere and nowhere else.        *)
(***************************************************************************)
EXTENDS Storage, SequenceLemmas

-----------------------------------------------------------------------------
(* The positions at which str_replace searches. *)

LEMMA Lengths ==
  ASSUME NEW T, NEW s \in Seq(T), NEW p \in Seq(T), p # <<>>
  PROVE  /\ Len(s) \in Nat /\ Len(p) \in Nat /\ Len(p) >= 1
         /\ Occurrences(s, p) \subseteq 1 .. Len(s) - Len(p) + 1
  <1>1. Len(s) \in Nat /\ Len(p) \in Nat /\ Len(p) # 0
    BY LenProperties, EmptySeq
  <1> QED
    BY <1>1 DEF Occurrences

\* The search goes on behind what it finds, and not behind the end.
LEMMA Found ==
  ASSUME NEW T, NEW s \in Seq(T), NEW p \in Seq(T), p # <<>>, NEW i \in 1 .. Len(s) + 1
  PROVE  /\ strstr(s, p, i) = 0 => \A j \in Occurrences(s, p) : j < i
         /\ strstr(s, p, i) # 0 =>
              /\ strstr(s, p, i) \in Occurrences(s, p) /\ i <= strstr(s, p, i)
              /\ \A j \in Occurrences(s, p) : i <= j => strstr(s, p, i) <= j
              /\ strstr(s, p, i) \in 1 .. Len(s) - Len(p) + 1
              /\ Past(strstr(s, p, i), p) = strstr(s, p, i) + Len(p)
              /\ Past(strstr(s, p, i), p) \in 1 .. Len(s) + 1
              /\ Past(strstr(s, p, i), p) > i
  <1> DEFINE Occ == Occurrences(s, p)
             found == {j \in Occ : j >= i}
             tmp == strstr(s, p, i)
  <1>1. /\ Len(s) \in Nat /\ Len(p) \in Nat /\ Len(p) >= 1
        /\ Occ \subseteq 1 .. Len(s) - Len(p) + 1
    BY Lengths
  <1> HIDE DEF Occ
  <1>2. CASE found = {}
    <2>1. tmp = 0
      BY <1>2 DEF strstr, Occ
    <2> QED
      BY <1>1, <1>2, <2>1 DEF Occ
  <1>3. CASE found # {}
    <2>1. found \subseteq Nat
      <3>1. \A j \in 1 .. Len(s) - Len(p) + 1 : j \in Nat
        BY <1>1
      <3> QED
        BY <1>1, <3>1
    <2>2. PICK least \in found : \A j \in found : least <= j
      <3> HIDE DEF found
      <3> QED
        BY <1>3, <2>1, LeastNatural
    <2>3. \A j \in found : j \in Int
      BY <2>1
    <2>4. Min(found) = least
      <3> HIDE DEF found
      <3> QED
        BY <2>2, <2>3, LeastOf
    <2>5. tmp = least
      BY <1>3, <2>4 DEF strstr, Occ
    <2> HIDE DEF tmp
    <2>6. /\ tmp \in Occ /\ i <= tmp /\ tmp \in 1 .. Len(s) - Len(p) + 1
          /\ \A j \in Occ : i <= j => tmp <= j
      BY <1>1, <2>2, <2>5
    <2>7. /\ tmp # 0 /\ tmp + Len(p) \in 1 .. Len(s) + 1 /\ tmp + Len(p) > i
      BY <1>1, <2>6
    <2> QED
      BY <2>6, <2>7 DEF Past, Occ, tmp
  <1> QED
    BY <1>2, <1>3

-----------------------------------------------------------------------------
(* The scan that writes. *)

\* f is what it writes from each position on, the first of them and those behind.
Writes(f, s, p, r, first) ==
  f = [pos \in first .. Len(s) + 1 |->
         LET tmp == strstr(s, p, pos)
         IN IF tmp = 0 THEN SubSeq(s, pos, Len(s))
            ELSE SubSeq(s, pos, tmp - 1) \o r \o f[Past(tmp, p)]]

LEMMA WritingExists ==
  ASSUME NEW T, NEW s \in Seq(T), NEW p \in Seq(T), p # <<>>, NEW r
  PROVE  \E f : Writes(f, s, p, r, 1)
  <1> DEFINE L == Len(s)
             S == {n \in Nat : n <= L + 1 => \E f : Writes(f, s, p, r, L + 2 - n)}
  <1>1. L \in Nat
    BY LenProperties
  <1>2. 0 \in S
    <2>1. L + 2 .. L + 1 = {}
      BY <1>1
    <2>2. Writes(<<>>, s, p, r, L + 2)
      BY <2>1 DEF Writes
    <2> QED
      BY <1>1, <2>2
  <1>3. ASSUME NEW n \in Nat, n \in S
        PROVE  n + 1 \in S
    <2> SUFFICES ASSUME n + 1 <= L + 1
                 PROVE  \E f : Writes(f, s, p, r, L + 2 - (n + 1))
      OBVIOUS
    <2>1. PICK f : Writes(f, s, p, r, L + 2 - n)
      BY <1>1, <1>3
    <2> DEFINE first == L + 2 - (n + 1)
               Suffix(h, pos) ==
                 IF strstr(s, p, pos) = 0 THEN SubSeq(s, pos, L)
                 ELSE SubSeq(s, pos, strstr(s, p, pos) - 1) \o r
                        \o h[Past(strstr(s, p, pos), p)]
               g == [pos \in first .. L + 1 |-> IF pos = first THEN Suffix(f, pos) ELSE f[pos]]
    <2>2. /\ first \in 1 .. L + 1 /\ first + 1 = L + 2 - n
          /\ \A pos \in first .. L + 1 : pos \in 1 .. L + 1
          /\ \A pos \in first .. L + 1 : pos = first \/ pos \in first + 1 .. L + 1
      BY <1>1
    <2>3. \A pos \in first + 1 .. L + 1 : f[pos] = Suffix(f, pos)
      BY <2>1, <2>2 DEF Writes
    <2>4. \A pos \in first + 1 .. L + 1 : g[pos] = f[pos]
      BY <1>1, <2>2
    <2>5. ASSUME NEW pos \in first .. L + 1
          PROVE  Suffix(g, pos) = Suffix(f, pos)
      <3>1. CASE strstr(s, p, pos) = 0
        BY <3>1
      <3>2. CASE strstr(s, p, pos) # 0
        <4>1. pos \in 1 .. Len(s) + 1
          BY <2>2
        <4>2. /\ Past(strstr(s, p, pos), p) \in 1 .. Len(s) + 1
              /\ Past(strstr(s, p, pos), p) > pos
          BY <3>2, <4>1, Found
        <4>3. Past(strstr(s, p, pos), p) \in first + 1 .. L + 1
          BY <1>1, <2>2, <4>2
        <4>4. g[Past(strstr(s, p, pos), p)] = f[Past(strstr(s, p, pos), p)]
          BY <2>4, <4>3
        <4> HIDE DEF g
        <4> QED
          BY <4>4
      <3> QED
        BY <3>1, <3>2
    <2>6. ASSUME NEW pos \in first .. L + 1
          PROVE  g[pos] = Suffix(f, pos)
      BY <2>2, <2>3, <2>4
    <2>7. g = [pos \in first .. L + 1 |-> g[pos]]
      OBVIOUS
    <2> HIDE DEF g, Suffix
    <2>8. g = [pos \in first .. L + 1 |-> Suffix(g, pos)]
      BY <2>5, <2>6, <2>7
    <2>9. Writes(g, s, p, r, first)
      BY <2>8 DEF Writes, Suffix
    <2> QED
      BY <2>9
  <1> HIDE DEF S
  <1>4. L + 1 \in S
    BY <1>1, <1>2, <1>3, AllNaturals
  <1>5. L + 2 - (L + 1) = 1
    BY <1>1
  <1> QED
    BY <1>1, <1>4, <1>5 DEF S

LEMMA WrittenByParts ==
  ASSUME NEW T, NEW s \in Seq(T), NEW p \in Seq(T), p # <<>>, NEW r
  PROVE  \E f : Writes(f, s, p, r, 1) /\ written(s, p, r) = f[1]
  <1> DEFINE from == CHOOSE f : Writes(f, s, p, r, 1)
  <1>1. Writes(from, s, p, r, 1)
    BY WritingExists
  <1>2. written(s, p, r) = from[1]
    BY DEF written, Writes
  <1> QED
    BY <1>1, <1>2

\* What it writes is a string.
LEMMA WritesStrings ==
  ASSUME NEW T, NEW s \in Seq(T), NEW p \in Seq(T), p # <<>>, NEW r \in Seq(T),
         NEW f, Writes(f, s, p, r, 1)
  PROVE  \A pos \in 1 .. Len(s) + 1 : f[pos] \in Seq(T)
  <1> DEFINE n == Len(s) + 1
             S == {pos \in 1..n : f[pos] \in Seq(T)}
  <1>1. Len(s) \in Nat /\ n \in Nat
    BY LenProperties
  <1>2. ASSUME NEW pos \in 1..n, \A j \in 1..n : pos < j => j \in S
        PROVE  pos \in S
    <2> DEFINE tmp == strstr(s, p, pos)
    <2>1. f[pos] = IF tmp = 0 THEN SubSeq(s, pos, Len(s))
                   ELSE SubSeq(s, pos, tmp - 1) \o r \o f[Past(tmp, p)]
      BY DEF Writes
    <2>2. CASE tmp = 0
      <3>1. SubSeq(s, pos, Len(s)) \in Seq(T)
        BY <1>1, PartProperties
      <3> QED
        BY <2>1, <2>2, <3>1
    <2>3. CASE tmp # 0
      <3>1. /\ tmp \in 1 .. Len(s) - Len(p) + 1 /\ Past(tmp, p) \in 1..n
            /\ Past(tmp, p) > pos /\ pos <= tmp
        BY <2>3, Found
      <3>2. f[Past(tmp, p)] \in Seq(T)
        BY <1>1, <1>2, <3>1
      <3>3. tmp - 1 \in 0 .. Len(s)
        BY <1>1, <3>1, Lengths
      <3> HIDE DEF tmp
      <3>4. SubSeq(s, pos, tmp - 1) \in Seq(T)
        BY <1>1, <3>3, PartProperties
      <3>5. SubSeq(s, pos, tmp - 1) \o r \in Seq(T)
        BY <3>4, ConcatProperties
      <3>6. SubSeq(s, pos, tmp - 1) \o r \o f[Past(tmp, p)] \in Seq(T)
        BY <3>2, <3>5, ConcatProperties
      <3> QED
        BY <2>1, <2>3, <3>6
    <2> QED
      BY <2>2, <2>3
  <1> HIDE DEF S
  <1>3. \A pos \in 1..n : pos \in S
    BY <1>1, <1>2, FromTheEnd
  <1> QED
    BY <1>3 DEF S

-----------------------------------------------------------------------------
(* The replacement defined without scanning. *)

IsReplaced(m, s, p) ==
  /\ m \in SUBSET Occurrences(s, p)
  /\ \A j \in Occurrences(s, p) : j \in m <=> \A i \in m : i < j => j >= i + Len(p)

\* There are occurrences to replace as Replaced chooses them.
LEMMA ReplacedExists ==
  ASSUME NEW T, NEW s \in Seq(T), NEW p \in Seq(T), p # <<>>
  PROVE  IsReplaced(Replaced(s, p), s, p)
  <1> DEFINE Occ == Occurrences(s, p)
             Upto(m, n) ==
               /\ m \subseteq Occ /\ \A j \in m : j <= n
               /\ \A j \in Occ : j <= n =>
                    (j \in m <=> \A i \in m : i < j => j >= i + Len(p))
             S == {n \in Nat : \E m : Upto(m, n)}
  <1>1. /\ Len(s) \in Nat /\ Len(p) \in Nat /\ Len(p) >= 1
        /\ Occ \subseteq 1 .. Len(s) - Len(p) + 1
    BY Lengths
  <1>2. \A j \in Occ : j \in Nat /\ 1 <= j /\ j <= Len(s)
    BY <1>1
  <1> HIDE DEF Occ
  <1>3. 0 \in S
    <2>1. Upto({}, 0)
      BY <1>2
    <2> HIDE DEF Upto
    <2> QED
      BY <2>1
  <1>4. ASSUME NEW n \in Nat, n \in S
        PROVE  n + 1 \in S
    <2> SUFFICES \E x : Upto(x, n + 1)
      OBVIOUS
    <2>1. PICK m : Upto(m, n)
      BY <1>4
    <2>2. m \subseteq Occ /\ \A j \in m : j \in Nat /\ j <= n /\ j < n + 1 /\ j # n + 1
      BY <1>2, <2>1
    <2>3. \A j \in Occ : j <= n + 1 => j <= n \/ j = n + 1
      BY <1>2
    <2>4. CASE n + 1 \in Occ /\ \A i \in m : n + 1 >= i + Len(p)
      <3> DEFINE more == m \cup {n + 1}
      <3>1. more \subseteq Occ /\ \A j \in more : j <= n + 1
        BY <2>2, <2>4
      <3>2. ASSUME NEW j \in Occ, j <= n
            PROVE  j \in more <=> \A i \in more : i < j => j >= i + Len(p)
        <4>1. j # n + 1 /\ ~(n + 1 < j)
          BY <1>2, <3>2
        <4> QED
          BY <2>1, <3>2, <4>1
      <3>3. \A i \in more : i < n + 1 => n + 1 >= i + Len(p)
        BY <2>4
      <3>4. Upto(more, n + 1)
        BY <2>3, <3>1, <3>2, <3>3
      <3> HIDE DEF more, Upto
      <3> QED
        BY <3>4
    <2>5. CASE ~(n + 1 \in Occ /\ \A i \in m : n + 1 >= i + Len(p))
      <3>1. n + 1 \in Occ => ~\A i \in m : i < n + 1 => n + 1 >= i + Len(p)
        BY <2>2, <2>5
      <3>2. n + 1 \notin m
        BY <2>2
      <3>3. Upto(m, n + 1)
        <4>1. m \subseteq Occ /\ \A j \in m : j <= n + 1
          BY <2>2
        <4>2. ASSUME NEW j \in Occ, j <= n + 1
              PROVE  j \in m <=> \A i \in m : i < j => j >= i + Len(p)
          <5>1. CASE j <= n
            BY <2>1, <5>1
          <5>2. CASE j = n + 1
            BY <3>1, <3>2, <5>2
          <5> QED
            BY <2>3, <4>2, <5>1, <5>2
        <4> QED
          BY <4>1, <4>2
      <3> HIDE DEF Upto
      <3> QED
        BY <3>3
    <2> QED
      BY <2>4, <2>5
  <1> HIDE DEF S
  <1>5. Len(s) \in S
    BY <1>1, <1>3, <1>4, AllNaturals
  <1>6. PICK m : Upto(m, Len(s))
    BY <1>5 DEF S
  <1>7. IsReplaced(m, s, p)
    BY <1>2, <1>6 DEF IsReplaced, Occ
  <1>8. \E x \in SUBSET Occurrences(s, p) :
          \A j \in Occurrences(s, p) : j \in x <=> \A i \in x : i < j => j >= i + Len(p)
    BY <1>7 DEF IsReplaced
  <1> QED
    BY <1>8 DEF IsReplaced, Replaced

\* The parts that ReplacedIn joins.
Pieces(s, m, p, r) ==
  [j \in DOMAIN s |->
     CASE j \in m -> r
       [] \E i \in m : j \in i + 1 .. i + Len(p) - 1 -> <<>>
       [] OTHER -> <<s[j]>>]

\* No occurrence replaced reaches over this position.
Apart(m, pos, p) == \A i \in m : i < pos => i + Len(p) <= pos

LEMMA PiecesAreStrings ==
  ASSUME NEW T, NEW s \in Seq(T), NEW p, NEW m, NEW r \in Seq(T)
  PROVE  Pieces(s, m, p, r) \in Seq(Seq(T)) /\ Len(Pieces(s, m, p, r)) = Len(s)
  <1>1. Len(s) \in Nat /\ DOMAIN s = 1..Len(s)
    BY LenProperties
  <1>2. ASSUME NEW j \in 1..Len(s)
        PROVE  <<s[j]>> \in Seq(T)
    BY ElementOfSeq
  <1>3. <<>> \in Seq(T)
    OBVIOUS
  <1>4. ASSUME NEW j \in 1..Len(s)
        PROVE  Pieces(s, m, p, r)[j] \in Seq(T)
    <2>1. CASE j \in m
      BY <1>1, <2>1 DEF Pieces
    <2>2. CASE j \notin m /\ \E i \in m : j \in i + 1 .. i + Len(p) - 1
      BY <1>1, <1>3, <2>2 DEF Pieces
    <2>3. CASE j \notin m /\ ~\E i \in m : j \in i + 1 .. i + Len(p) - 1
      BY <1>1, <1>2, <2>3 DEF Pieces
    <2> QED
      BY <2>1, <2>2, <2>3
  <1>5. Pieces(s, m, p, r) \in [1..Len(s) -> Seq(T)]
    <2>1. Pieces(s, m, p, r) = [j \in 1..Len(s) |-> Pieces(s, m, p, r)[j]]
      BY <1>1 DEF Pieces
    <2> QED
      BY <1>4, <2>1
  <1> QED
    BY <1>1, <1>5

\* Before the next occurrence the characters are copied.
LEMMA PiecesBefore ==
  ASSUME NEW T, NEW s \in Seq(T), NEW p \in Seq(T), p # <<>>, NEW r \in Seq(T),
         NEW m, IsReplaced(m, s, p), NEW pos \in 1 .. Len(s) + 1, Apart(m, pos, p),
         NEW n \in 0..Len(s), pos <= n + 1,
         \A j \in Occurrences(s, p) : ~(pos <= j /\ j <= n)
  PROVE  Copies(Pieces(s, m, p, r), s, pos, n)
  <1> DEFINE pieces == Pieces(s, m, p, r)
  <1>1. /\ Len(s) \in Nat /\ Len(p) \in Nat /\ Len(p) >= 1 /\ pos \in Nat /\ n \in Nat
        /\ Occurrences(s, p) \subseteq 1 .. Len(s) - Len(p) + 1
    BY Lengths, LenProperties
  <1>2. m \subseteq Occurrences(s, p) /\ \A i \in m : i \in Nat
    BY <1>1 DEF IsReplaced
  <1>3. ASSUME NEW j \in pos..n
        PROVE  pieces[j] = <<s[j]>>
    <2>1. j \in DOMAIN s /\ pos <= j /\ j <= n /\ j \in Nat
      BY <1>1, LenProperties
    <2>2. j \notin m
      BY <1>2, <2>1
    <2>3. ASSUME NEW i \in m, j \in i + 1 .. i + Len(p) - 1
          PROVE  FALSE
      <3>1. i \in Nat /\ i < j /\ j < i + Len(p)
        BY <1>1, <1>2, <2>1, <2>3
      <3>2. i < pos
        <4> SUFFICES ASSUME ~(i < pos)
                     PROVE  FALSE
          OBVIOUS
        <4>1. pos <= i /\ i <= n
          BY <1>1, <2>1, <3>1
        <4> QED
          BY <1>2, <4>1
      <3>3. i + Len(p) <= pos
        BY <3>2 DEF Apart
      <3> QED
        BY <1>1, <2>1, <3>1, <3>3
    <2> QED
      BY <2>1, <2>2, <2>3 DEF Pieces
  <1>4. Verbatim(pieces, s, pos, n)
    BY <1>3 DEF Verbatim
  <1>5. pieces \in Seq(Seq(T)) /\ Len(pieces) = Len(s)
    BY PiecesAreStrings
  <1> HIDE DEF pieces
  <1>6. Copies(pieces, s, pos, n)
    BY <1>4, <1>5, JoinedCopies
  <1> QED
    BY <1>6 DEF pieces

\* What is joined before a position.
Before(pieces, pos) == Joined(pieces, pos - 1)

\* The next occurrence.
IsNext(tmp, s, p, pos) ==
  /\ tmp \in Occurrences(s, p) /\ pos <= tmp
  /\ \A j \in Occurrences(s, p) : pos <= j => tmp <= j

\* An occurrence that is found is replaced, and its characters are left out.
LEMMA PiecesOfOne ==
  ASSUME NEW T, NEW s \in Seq(T), NEW p \in Seq(T), p # <<>>, NEW r \in Seq(T),
         NEW m, IsReplaced(m, s, p), NEW pos \in 1 .. Len(s) + 1, Apart(m, pos, p),
         NEW tmp, IsNext(tmp, s, p, pos)
  PROVE  /\ Apart(m, Past(tmp, p), p)
         /\ Before(Pieces(s, m, p, r), Past(tmp, p)) = Before(Pieces(s, m, p, r), tmp) \o r
  <1> DEFINE pieces == Pieces(s, m, p, r)
             k == Len(p)
  <1>1. /\ Len(s) \in Nat /\ k \in Nat /\ k >= 1 /\ pos \in Nat
        /\ Occurrences(s, p) \subseteq 1 .. Len(s) - k + 1
    BY Lengths, LenProperties
  <1>2. /\ m \subseteq Occurrences(s, p) /\ \A i \in m : i \in Nat
        /\ \A j \in Occurrences(s, p) : j \in m <=> \A i \in m : i < j => j >= i + k
    BY <1>1 DEF IsReplaced
  <1>3. tmp \in Nat /\ tmp >= 1 /\ tmp + k - 1 <= Len(s) /\ tmp <= Len(s)
    BY <1>1 DEF IsNext
  <1> HIDE DEF k
  <1>4. tmp \in m
    <2>1. ASSUME NEW i \in m, i < tmp
          PROVE  tmp >= i + k
      <3>1. i < pos
        BY <1>1, <1>2, <1>3, <2>1 DEF IsNext
      <3>2. i + k <= pos
        BY <3>1 DEF Apart, k
      <3>3. pos <= tmp
        BY DEF IsNext
      <3> QED
        BY <1>1, <1>2, <1>3, <3>2, <3>3
    <2>2. tmp \in Occurrences(s, p)
      BY DEF IsNext
    <2> QED
      BY <1>2, <2>1, <2>2
  <1>5. Apart(m, tmp + k, p)
    <2> SUFFICES ASSUME NEW i \in m, i < tmp + k
                 PROVE  i + k <= tmp + k
      BY DEF Apart, k
    <2>1. CASE i <= tmp
      BY <1>1, <1>2, <1>3, <2>1
    <2>2. CASE ~(i <= tmp)
      <3>1. tmp < i /\ i \in Nat
        BY <1>2, <1>3, <2>2
      <3>2. i >= tmp + k
        BY <1>2, <1>4, <3>1
      <3> QED
        BY <1>1, <1>3, <3>1, <3>2
    <2> QED
      BY <2>1, <2>2
  <1>6. pieces \in Seq(Seq(T)) /\ Len(pieces) = Len(s) /\ DOMAIN s = 1..Len(s)
    BY PiecesAreStrings, LenProperties
  <1>7. pieces[tmp] = r
    <2>1. tmp \in DOMAIN s
      BY <1>1, <1>3, <1>6
    <2>2. ASSUME NEW i \in m, tmp \in i + 1 .. i + k - 1
          PROVE  FALSE
      <3>1. i \in Nat /\ i < tmp /\ ~(tmp >= i + k)
        BY <1>1, <1>2, <1>3, <2>2
      <3> QED
        BY <1>2, <1>4, <3>1
    <2> QED
      BY <1>4, <2>1, <2>2 DEF Pieces, k
  <1>8. ASSUME NEW j \in tmp + 1 .. tmp + k - 1
        PROVE  pieces[j] = <<>>
    <2>1. j \in 1..Len(s) /\ tmp < j /\ ~(j >= tmp + k)
      BY <1>1, <1>3
    <2>2. j \notin m
      BY <1>2, <1>4, <2>1
    <2> QED
      BY <1>4, <1>6, <2>1, <2>2 DEF Pieces, k
  <1> HIDE DEF pieces
  <1>9. Joined(pieces, tmp) = Joined(pieces, tmp - 1) \o r
    <2>1. tmp - 1 \in 0..Len(pieces) /\ tmp - 1 < Len(pieces) /\ (tmp - 1) + 1 = tmp
      BY <1>1, <1>3, <1>6
    <2> QED
      BY <1>6, <1>7, <2>1, JoinedGrows
  <1>10. Joined(pieces, tmp + k - 1) = Joined(pieces, tmp)
    <2> DEFINE b == tmp + k - 1
    <2>1. tmp \in 0..Len(pieces) /\ b \in tmp..Len(pieces)
      BY <1>1, <1>3, <1>6
    <2>2. \A j \in tmp + 1 .. b : pieces[j] = <<>>
      BY <1>8
    <2> HIDE DEF b
    <2>3. Joined(pieces, b) = Joined(pieces, tmp)
      BY <1>6, <2>1, <2>2, JoinedSkips
    <2> QED
      BY <2>3 DEF b
  <1>11. Past(tmp, p) = tmp + k
    BY DEF k, Past
  <1>12. Before(pieces, Past(tmp, p)) = Joined(pieces, tmp + k - 1)
    <2>1. Past(tmp, p) - 1 = tmp + k - 1
      BY <1>1, <1>3, <1>11
    <2> QED
      BY <2>1, Zenon DEF Before
  <1>13. Before(pieces, tmp) = Joined(pieces, tmp - 1)
    BY DEF Before
  <1>14. Before(pieces, Past(tmp, p)) = Before(pieces, tmp) \o r
    BY <1>9, <1>10, <1>12, <1>13
  <1> QED
    BY <1>5, <1>11, <1>14 DEF pieces

\* What the scan writes is the replacement defined without scanning, for every
\* string, placeholder and replacement (str_replace): an occurrence is replaced
\* unless it overlaps one that was replaced before it.
THEOREM ScanReplaces ==
  ASSUME NEW T, NEW s \in Seq(T), NEW p \in Seq(T), NEW r \in Seq(T)
  PROVE  str_replace(s, p, r) = ReplacedIn(s, p, r) /\ str_replace(s, p, r) \in Seq(T)
  <1>1. CASE p = <<>>
    BY <1>1 DEF str_replace, ReplacedIn
  <1>2. CASE p # <<>>
    <2>8. Associative(T)
      BY Associates
    <2> DEFINE m == Replaced(s, p)
               pieces == Pieces(s, m, p, r)
    <2>1. str_replace(s, p, r) = written(s, p, r)
      BY <1>2 DEF str_replace
    <2>2. ReplacedIn(s, p, r) = FlattenSeq(pieces)
      BY <1>2 DEF ReplacedIn, Pieces
    <2>3. IsReplaced(m, s, p)
      BY <1>2, ReplacedExists
    <2>4. PICK f : Writes(f, s, p, r, 1) /\ written(s, p, r) = f[1]
      BY <1>2, WrittenByParts
    <2>5. \A pos \in 1 .. Len(s) + 1 : f[pos] \in Seq(T)
      BY <1>2, <2>4, WritesStrings
    <2>6. /\ Len(s) \in Nat /\ Len(p) \in Nat /\ Len(p) >= 1
          /\ Occurrences(s, p) \subseteq 1 .. Len(s) - Len(p) + 1
      BY <1>2, Lengths
    <2>7. pieces \in Seq(Seq(T)) /\ Len(pieces) = Len(s)
      BY PiecesAreStrings
    <2> HIDE DEF m
    <2> DEFINE Sound(pos) ==
                 Apart(m, pos, p) /\ Joined(pieces, pos - 1) \o f[pos] = f[1]
               left == {d \in Nat : d <= Len(s) /\ Sound(Len(s) + 1 - d)}
    <2>9. Sound(1)
      <3>1. \A i \in m : ~(i < 1)
        BY <2>3, <2>6 DEF IsReplaced
      <3>2. Apart(m, 1, p)
        BY <3>1 DEF Apart
      <3>3. 1 \in 1 .. Len(s) + 1
        BY <2>6
      <3> HIDE DEF pieces
      <3>4. Joined(pieces, 0) = <<>>
        BY <2>7, JoinedEnds
      <3>5. <<>> \o f[1] = f[1]
        BY <2>5, <3>3, ConcatEmptySeq
      <3>6. 1 - 1 = 0
        OBVIOUS
      <3> QED
        BY <3>2, <3>4, <3>5, <3>6
    <2>10. Len(s) \in left
      <3>1. Len(s) + 1 - Len(s) = 1
        BY <2>6
      <3> HIDE DEF Sound
      <3> QED
        BY <2>6, <2>9, <3>1
    <2> HIDE DEF Sound
    <2>11. left \subseteq Nat /\ left # {}
      BY <2>10
    <2>12. PICK least \in left : \A d \in left : least <= d
      <3> HIDE DEF left
      <3> QED
        BY <2>11, LeastNatural
    <2> DEFINE pos == Len(s) + 1 - least
               tmp == strstr(s, p, pos)
    <2>13. /\ least \in Nat /\ pos \in 1 .. Len(s) + 1 /\ Sound(pos)
           /\ Len(s) + 1 - pos = least
      BY <2>6, <2>12
    <2> HIDE DEF pos, left
    <2>14. Apart(m, pos, p) /\ Joined(pieces, pos - 1) \o f[pos] = f[1]
      BY <2>13 DEF Sound
    <2>15. f[pos] = IF tmp = 0 THEN SubSeq(s, pos, Len(s))
                    ELSE SubSeq(s, pos, tmp - 1) \o r \o f[Past(tmp, p)]
      BY <2>4, <2>13 DEF Writes
    <2> DEFINE before == Joined(pieces, pos - 1)
    <2>16. before \in Seq(T)
      <3>1. pos - 1 \in 0..Len(pieces)
        BY <2>6, <2>7, <2>13
      <3> HIDE DEF pieces
      <3> QED
        BY <2>7, <3>1, JoinedGrows
    <2>17. CASE tmp = 0
      <3>1. \A j \in Occurrences(s, p) : j < pos
        BY <1>2, <2>13, <2>17, Found
      <3>2. \A j \in Occurrences(s, p) : ~(pos <= j /\ j <= Len(s))
        BY <2>6, <2>13, <3>1
      <3>3. Len(s) \in 0..Len(s) /\ pos <= Len(s) + 1
        BY <2>6, <2>13
      <3>4. Copies(pieces, s, pos, Len(s))
        BY <1>2, <2>3, <2>13, <2>14, <3>2, <3>3, PiecesBefore
      <3> HIDE DEF pieces
      <3>5. Joined(pieces, Len(s)) = FlattenSeq(pieces)
        BY <2>7, JoinedEnds
      <3>6. Joined(pieces, Len(s)) = before \o SubSeq(s, pos, Len(s))
        BY <3>4 DEF Copies
      <3> HIDE DEF tmp
      <3>7. f[1] = before \o SubSeq(s, pos, Len(s))
        BY <2>14, <2>15, <2>17
      <3>8. f[1] = FlattenSeq(pieces)
        BY <3>5, <3>6, <3>7
      <3>9. f[1] \in Seq(T)
        BY <2>5, <2>6
      <3> QED
        BY <2>1, <2>2, <2>4, <3>8, <3>9
    <2>18. CASE tmp # 0
      <3>1. /\ tmp \in Occurrences(s, p) /\ pos <= tmp
            /\ \A j \in Occurrences(s, p) : pos <= j => tmp <= j
            /\ tmp \in 1 .. Len(s) - Len(p) + 1
            /\ Past(tmp, p) = tmp + Len(p) /\ Past(tmp, p) \in 1 .. Len(s) + 1
            /\ Past(tmp, p) > pos
        BY <1>2, <2>13, <2>18, Found
      <3> HIDE DEF tmp
      <3> DEFINE next == tmp + Len(p)
                 part == SubSeq(s, pos, tmp - 1)
      <3>2. /\ tmp - 1 \in 0..Len(s) /\ pos <= (tmp - 1) + 1
            /\ \A j \in Occurrences(s, p) : ~(pos <= j /\ j <= tmp - 1)
        BY <2>6, <2>13, <3>1
      <3>3. Copies(pieces, s, pos, tmp - 1)
        BY <1>2, <2>3, <2>13, <2>14, <3>2, PiecesBefore
      <3>4. Apart(m, next, p) /\ Joined(pieces, next - 1) = Joined(pieces, tmp - 1) \o r
        <4>1. pos \in 1 .. Len(s) + 1 /\ Apart(m, pos, p)
          BY <2>13, <2>14
        <4>2. IsNext(tmp, s, p, pos)
          BY <3>1 DEF IsNext
        <4>3. r \in Seq(T) /\ s \in Seq(T) /\ p \in Seq(T) /\ p # <<>>
          BY <1>2
        <4> HIDE DEF before, part
        <4>4. /\ Apart(m, Past(tmp, p), p)
              /\ Before(pieces, Past(tmp, p)) = Before(pieces, tmp) \o r
          BY <2>3, <4>1, <4>2, <4>3, PiecesOfOne
        <4> HIDE DEF next, pieces
        <4>5. next = Past(tmp, p)
          BY <3>1 DEF next
        <4> QED
          BY <4>4, <4>5 DEF Before
      <3>5. part \in Seq(T)
        BY <2>13, <3>2, PartProperties
      <3>6. f[next] \in Seq(T)
        BY <2>5, <3>1
      <3>7. f[pos] = (part \o r) \o f[next]
        BY <2>15, <2>18, <3>1
      <3>8. Joined(pieces, tmp - 1) = before \o part
        BY <3>3 DEF Copies
      <3>9. next \in 1 .. Len(s) + 1 /\ next > pos
        BY <3>1
      <3> HIDE DEF next, part, before, pieces
      <3>10. ((before \o part) \o r) \o f[next] = before \o ((part \o r) \o f[next])
        <4> DEFINE after == part \o r
        <4>1. (before \o part) \o r = before \o after
          BY <2>8, <2>16, <3>5, Zenon DEF Associative
        <4>2. after \in Seq(T)
          BY <3>5, ConcatProperties
        <4> HIDE DEF after
        <4>3. (before \o after) \o f[next] = before \o (after \o f[next])
          BY <2>8, <2>16, <3>6, <4>2, Zenon DEF Associative
        <4> QED
          BY <4>1, <4>3, Zenon DEF after
      <3>11. before \o f[pos] = f[1]
        BY <2>14 DEF before
      <3>12. Joined(pieces, next - 1) \o f[next] = f[1]
        BY <3>4, <3>7, <3>8, <3>10, <3>11
      <3>13. Sound(next)
        BY <3>4, <3>12 DEF Sound
      <3>14. Len(s) + 1 - next \in left
        <4>1. Len(s) + 1 - (Len(s) + 1 - next) = next /\ Len(s) + 1 - next \in Nat
              /\ Len(s) + 1 - next <= Len(s)
          BY <2>6, <3>9
        <4> QED
          BY <3>13, <4>1 DEF left
      <3>15. ~(least <= Len(s) + 1 - next)
        BY <2>6, <2>13, <3>9
      <3> QED
        BY <2>12, <3>14, <3>15
    <2> QED
      BY <2>1, <2>2, <2>4, <2>5, <2>6, <2>17, <2>18
  <1> QED
    BY <1>1, <1>2

-----------------------------------------------------------------------------
(* The scan that counts. *)

\* f is how many occurrences it counts from each position on.
Counts(f, s, p, first) ==
  f = [pos \in first .. Len(s) + 1 |->
         LET tmp == strstr(s, p, pos)
         IN IF tmp = 0 THEN 0 ELSE 1 + f[Past(tmp, p)]]

LEMMA CountingExists ==
  ASSUME NEW T, NEW s \in Seq(T), NEW p \in Seq(T), p # <<>>
  PROVE  \E f : Counts(f, s, p, 1)
  <1> DEFINE L == Len(s)
             S == {n \in Nat : n <= L + 1 => \E f : Counts(f, s, p, L + 2 - n)}
  <1>1. L \in Nat
    BY LenProperties
  <1>2. 0 \in S
    <2>1. L + 2 .. L + 1 = {}
      BY <1>1
    <2>2. Counts(<<>>, s, p, L + 2)
      BY <2>1 DEF Counts
    <2> QED
      BY <1>1, <2>2
  <1>3. ASSUME NEW n \in Nat, n \in S
        PROVE  n + 1 \in S
    <2> SUFFICES ASSUME n + 1 <= L + 1
                 PROVE  \E f : Counts(f, s, p, L + 2 - (n + 1))
      OBVIOUS
    <2>1. PICK f : Counts(f, s, p, L + 2 - n)
      BY <1>1, <1>3
    <2> DEFINE first == L + 2 - (n + 1)
               Count(h, pos) ==
                 IF strstr(s, p, pos) = 0 THEN 0 ELSE 1 + h[Past(strstr(s, p, pos), p)]
               g == [pos \in first .. L + 1 |-> IF pos = first THEN Count(f, pos) ELSE f[pos]]
    <2>2. /\ first \in 1 .. L + 1 /\ first + 1 = L + 2 - n
          /\ \A pos \in first .. L + 1 : pos \in 1 .. L + 1
          /\ \A pos \in first .. L + 1 : pos = first \/ pos \in first + 1 .. L + 1
      BY <1>1
    <2>3. \A pos \in first + 1 .. L + 1 : f[pos] = Count(f, pos)
      BY <2>1, <2>2 DEF Counts
    <2>4. \A pos \in first + 1 .. L + 1 : g[pos] = f[pos]
      BY <1>1, <2>2
    <2>5. ASSUME NEW pos \in first .. L + 1
          PROVE  Count(g, pos) = Count(f, pos)
      <3>1. CASE strstr(s, p, pos) = 0
        BY <3>1
      <3>2. CASE strstr(s, p, pos) # 0
        <4>1. pos \in 1 .. Len(s) + 1
          BY <2>2
        <4>2. /\ Past(strstr(s, p, pos), p) \in 1 .. Len(s) + 1
              /\ Past(strstr(s, p, pos), p) > pos
          BY <3>2, <4>1, Found
        <4>3. Past(strstr(s, p, pos), p) \in first + 1 .. L + 1
          BY <1>1, <2>2, <4>2
        <4>4. g[Past(strstr(s, p, pos), p)] = f[Past(strstr(s, p, pos), p)]
          BY <2>4, <4>3
        <4> HIDE DEF g
        <4> QED
          BY <4>4
      <3> QED
        BY <3>1, <3>2
    <2>6. ASSUME NEW pos \in first .. L + 1
          PROVE  g[pos] = Count(f, pos)
      BY <2>2, <2>3, <2>4
    <2>7. g = [pos \in first .. L + 1 |-> g[pos]]
      OBVIOUS
    <2> HIDE DEF g, Count
    <2>8. g = [pos \in first .. L + 1 |-> Count(g, pos)]
      BY <2>5, <2>6, <2>7
    <2>9. Counts(g, s, p, first)
      BY <2>8 DEF Counts, Count
    <2> QED
      BY <2>9
  <1> HIDE DEF S
  <1>4. L + 1 \in S
    BY <1>1, <1>2, <1>3, AllNaturals
  <1>5. L + 2 - (L + 1) = 1
    BY <1>1
  <1> QED
    BY <1>1, <1>4, <1>5 DEF S

\* What the first scan computes is the length of what the second one writes, so
\* that this fills the memory allocated for it (str_replace).
THEOREM ScansAgree ==
  ASSUME NEW T, NEW s \in Seq(T), NEW p \in Seq(T), p # <<>>, NEW r \in Seq(T)
  PROVE  Len(written(s, p, r)) = new_len(s, p, r)
  <1> DEFINE n == Len(s) + 1
             from == CHOOSE f : Counts(f, s, p, 1)
  <1>1. Counts(from, s, p, 1)
    BY CountingExists
  <1>2. occurrence_count(s, p) = from[1]
    BY DEF occurrence_count, Counts
  <1> HIDE DEF from
  <1>3. PICK f : Writes(f, s, p, r, 1) /\ written(s, p, r) = f[1]
    BY WrittenByParts
  <1>4. \A pos \in 1..n : f[pos] \in Seq(T)
    BY <1>3, WritesStrings
  <1>5. /\ Len(s) \in Nat /\ Len(p) \in Nat /\ Len(r) \in Nat /\ n \in Nat
        /\ Occurrences(s, p) \subseteq 1 .. Len(s) - Len(p) + 1 /\ Len(p) >= 1
    BY Lengths, LenProperties
  <1> DEFINE Fits(pos) ==
               /\ from[pos] \in Nat
               /\ Len(f[pos]) = n - pos - from[pos] * Len(p) + from[pos] * Len(r)
             S == {pos \in 1..n : Fits(pos)}
  <1>6. ASSUME NEW pos \in 1..n, \A j \in 1..n : pos < j => j \in S
        PROVE  pos \in S
    <2> DEFINE tmp == strstr(s, p, pos)
    <2>1. f[pos] = IF tmp = 0 THEN SubSeq(s, pos, Len(s))
                   ELSE SubSeq(s, pos, tmp - 1) \o r \o f[Past(tmp, p)]
      BY <1>3 DEF Writes
    <2>2. from[pos] = IF tmp = 0 THEN 0 ELSE 1 + from[Past(tmp, p)]
      BY <1>1 DEF Counts
    <2>3. CASE tmp = 0
      <3>1. Len(s) \in 0..Len(s) /\ pos \in 1 .. Len(s) + 1
        BY <1>5
      <3>2. Len(SubSeq(s, pos, Len(s)))
              = IF pos <= Len(s) THEN Len(s) - pos + 1 ELSE 0
        BY <3>1, PartProperties
      <3>3. Len(SubSeq(s, pos, Len(s))) = n - pos
        BY <1>5, <3>1, <3>2
      <3>4. from[pos] = 0 /\ Len(f[pos]) = n - pos
        BY <2>1, <2>2, <2>3, <3>3
      <3>5. 0 * Len(p) = 0 /\ 0 * Len(r) = 0 /\ n - pos - 0 + 0 = n - pos
        BY <1>5
      <3>6. Fits(pos)
        BY <3>4, <3>5
      <3> HIDE DEF Fits
      <3> QED
        BY <3>6
    <2>4. CASE tmp # 0
      <3>1. /\ tmp \in 1 .. Len(s) - Len(p) + 1 /\ Past(tmp, p) \in 1..n
            /\ Past(tmp, p) > pos /\ pos <= tmp /\ Past(tmp, p) = tmp + Len(p)
        BY <2>4, Found
      <3> DEFINE next == tmp + Len(p)
                 part == SubSeq(s, pos, tmp - 1)
      <3>2. /\ f[pos] = (part \o r) \o f[next] /\ from[pos] = 1 + from[next]
            /\ next \in 1..n /\ next > pos
        BY <2>1, <2>2, <2>4, <3>1
      <3> HIDE DEF tmp
      <3>3. tmp \in Nat /\ tmp - 1 \in 0..Len(s) /\ pos \in Nat /\ pos <= tmp
        BY <1>5, <3>1
      <3>4. /\ part \in Seq(T)
            /\ Len(part) = IF pos <= tmp - 1 THEN (tmp - 1) - pos + 1 ELSE 0
        BY <3>3, PartProperties
      <3>5. Len(part) = tmp - pos
        BY <3>3, <3>4
      <3> HIDE DEF part
      <3>6. next \in S
        BY <1>6, <3>2
      <3>7. /\ from[next] \in Nat
            /\ Len(f[next]) = n - next - from[next] * Len(p) + from[next] * Len(r)
        BY <3>6
      <3>8. f[next] \in Seq(T)
        BY <1>4, <3>2
      <3>9. part \o r \in Seq(T) /\ Len(part \o r) = Len(part) + Len(r)
        BY <3>4, ConcatProperties
      <3> DEFINE joined == part \o r
      <3>10. joined \in Seq(T) /\ Len(joined) = tmp - pos + Len(r)
        BY <3>5, <3>9
      <3> HIDE DEF joined
      <3>11. Len(joined \o f[next]) = Len(joined) + Len(f[next])
        BY <3>8, <3>10, ConcatProperties
      <3> DEFINE c == from[next]
      <3>12. Len(f[pos]) = (tmp - pos + Len(r))
                             + (n - next - c * Len(p) + c * Len(r))
        BY <3>2, <3>7, <3>10, <3>11 DEF joined
      <3>13. c \in Nat /\ from[pos] = 1 + c
        BY <3>2, <3>7
      <3> HIDE DEF c
      <3>14. (1 + c) * Len(p) = Len(p) + c * Len(p) /\ (1 + c) * Len(r) = Len(r) + c * Len(r)
             /\ c * Len(p) \in Int /\ c * Len(r) \in Int
        BY <1>5, <3>13
      <3>15. Len(f[pos]) = n - pos - (1 + c) * Len(p) + (1 + c) * Len(r)
        BY <1>5, <3>3, <3>12, <3>14
      <3>16. Fits(pos)
        <4> DEFINE d == 1 + c
        <4>1. d \in Nat /\ from[pos] = d
          BY <3>13
        <4>2. Len(f[pos]) = n - pos - d * Len(p) + d * Len(r)
          BY <3>15
        <4> HIDE DEF d
        <4> QED
          BY <4>1, <4>2
      <3> HIDE DEF Fits
      <3> QED
        BY <3>16
    <2> QED
      BY <2>3, <2>4
  <1> HIDE DEF S
  <1>7. \A pos \in 1..n : pos \in S
    BY <1>5, <1>6, FromTheEnd
  <1>8. 1 \in S
    BY <1>5, <1>7
  <1>9. from[1] \in Nat /\ Len(f[1]) = n - 1 - from[1] * Len(p) + from[1] * Len(r)
    BY <1>8 DEF S
  <1>10. n - 1 = Len(s)
    BY <1>5
  <1> QED
    BY <1>2, <1>3, <1>9, <1>10 DEF new_len

-----------------------------------------------------------------------------
(* What the tokenizer of -d returns. *)

Byte == 0..255

\* A C string is a part of its buffer, and all of it where there is no NUL.
LEMMA CStrings ==
  ASSUME NEW T, NEW s \in Seq(T)
  PROVE  c_string(s) \in Seq(T) /\ (NUL \notin T => c_string(s) = s)
  <1> DEFINE nuls == {i \in 1..Len(s) : s[i] = NUL}
  <1>1. CASE nuls = {}
    BY <1>1 DEF c_string
  <1>2. CASE nuls # {}
    <2>1. Len(s) \in Nat /\ nuls \subseteq Nat
      BY LenProperties
    <2>2. \E n \in nuls : \A m \in nuls : n <= m
      BY <1>2, <2>1, LeastNatural
    <2>3. Min(nuls) \in nuls
      BY <2>2 DEF Min
    <2>4. Min(nuls) - 1 \in 0..Len(s) /\ s[Min(nuls)] = NUL /\ Min(nuls) \in 1..Len(s)
      BY <2>1, <2>3
    <2>5. SubSeq(s, 1, Min(nuls) - 1) \in Seq(T)
      BY <2>4, PrefixProperties
    <2>6. NUL \in T
      BY <2>4, ElementOfSeq
    <2> QED
      BY <1>2, <2>5, <2>6 DEF c_string
  <1> QED
    BY <1>1, <1>2

\* The variables of the tokenizer, and that no argument is closed twice.
DelimTypes ==
  /\ input \in Seq(Byte) /\ consumed \in 0..Len(input)
  /\ read_failed \in BOOLEAN /\ finished \in BOOLEAN
  /\ delim_byte \in DelimChoices /\ delim = char(delim_byte)
  /\ buffer \in Seq(Byte) /\ tokens \in Seq(Seq(Byte))
  /\ boundaries \subseteq 1..Len(tokens)

\* Ending a token, in whatever characters it is written.
LEMMA TokenEnds ==
  ASSUME NEW T, tokens \in Seq(Seq(T)), NEW text \in Seq(T), delim_tokenizer_end_token(text)
  PROVE  /\ tokens' \in Seq(Seq(T)) /\ buffer' \in Seq(T) /\ buffer' = <<>>
         /\ tokens' = Append(tokens, c_string(text)) /\ c_string(text) \in Seq(T)
         /\ Len(tokens) \in Nat /\ Len(tokens') = Len(tokens) + 1
  <1>1. c_string(text) \in Seq(T)
    BY CStrings
  <1>2. tokens' = Append(tokens, c_string(text)) /\ buffer' = <<>>
    BY DEF delim_tokenizer_end_token
  <1>3. <<>> \in Seq(T)
    OBVIOUS
  <1> QED
    BY <1>1, <1>2, <1>3, AppendProperties, LenProperties

LEMMA StrippedIsSeq ==
  ASSUME NEW T, NEW s \in Seq(T), s # <<>>
  PROVE  strip_trailing_newline(s) \in Seq(T)
  BY FrontAndLast DEF strip_trailing_newline

LEMMA DelimTypesInitially == Init => DelimTypes
  <1> SUFFICES ASSUME Init PROVE DelimTypes
    OBVIOUS
  <1>1. /\ input \in Seq(Byte) /\ consumed = 0 /\ read_failed \in BOOLEAN
        /\ delim_byte \in DelimChoices /\ delim = char(delim_byte)
        /\ buffer = <<>> /\ tokens = <<>> /\ boundaries = {} /\ finished = FALSE
    BY DelimTokenizerAssumption DEF Init, Byte
  <1>2. Len(input) \in Nat /\ <<>> \in Seq(Byte) /\ <<>> \in Seq(Seq(Byte))
    BY <1>1, LenProperties
  <1>3. consumed \in 0..Len(input) /\ boundaries \subseteq 1..Len(tokens)
    BY <1>1, <1>2
  <1>4. FALSE \in BOOLEAN
    OBVIOUS
  <1> QED
    BY <1>1, <1>2, <1>3, <1>4, Zenon DEF DelimTypes

LEMMA DelimTypesStep ==
  ASSUME DelimTypes, [Next]_vars
  PROVE  DelimTypes'
  <1>1. Len(input) \in Nat /\ consumed \in Nat
    BY LenProperties DEF DelimTypes
  <1>2. CASE ReadByte
    <2> DEFINE ch == input[consumed + 1]
    <2>1. /\ consumed < Len(input) /\ consumed' = consumed + 1
          /\ UNCHANGED <<input, read_failed, delim_byte, delim>>
      BY <1>2 DEF ReadByte, source
    <2>2. ch \in Byte /\ consumed' \in 0..Len(input')
      BY <1>1, <2>1, ElementOfSeq DEF DelimTypes
    <2>3. CASE ~is_delimiter(ch)
      <3>1. buffer' = Append(buffer, ch) /\ UNCHANGED <<tokens, boundaries, finished>>
        BY <1>2, <2>3 DEF ReadByte
      <3>2. buffer' \in Seq(Byte)
        BY <2>2, <3>1, AppendProperties DEF DelimTypes
      <3> QED
        BY <2>1, <2>2, <3>1, <3>2 DEF DelimTypes
    <2>4. CASE is_delimiter(ch)
      <3>1. /\ boundaries' = boundaries \cup {Len(tokens) + 1}
            /\ delim_tokenizer_end_token(buffer)
        BY <1>2, <2>4 DEF ReadByte
      <3>2. /\ tokens' \in Seq(Seq(Byte)) /\ buffer' \in Seq(Byte)
            /\ Len(tokens) \in Nat /\ Len(tokens') = Len(tokens) + 1
        BY <3>1, TokenEnds DEF DelimTypes
      <3>3. boundaries \subseteq 1..Len(tokens)
        BY DEF DelimTypes
      <3>4. boundaries' = boundaries \cup {Len(tokens) + 1}
        BY <3>1
      <3>5. ASSUME NEW k \in boundaries'
            PROVE  k \in 1..Len(tokens')
        <4>1. k \in 1..Len(tokens) \/ k = Len(tokens) + 1
          BY <3>3, <3>4
        <4>2. Len(tokens) \in Nat /\ Len(tokens') = Len(tokens) + 1
          BY <3>2
        <4> QED
          BY <4>1, <4>2
      <3> QED
        BY <2>1, <2>2, <3>1, <3>2, <3>5 DEF DelimTypes, delim_tokenizer_end_token
    <2> QED
      BY <2>3, <2>4
  <1>3. CASE ReadEof
    <2>1. UNCHANGED <<input, read_failed, delim_byte, delim, consumed, boundaries>>
      BY <1>3 DEF ReadEof, source
    <2>2. CASE finished' = TRUE /\ UNCHANGED <<buffer, tokens>>
      BY <2>1, <2>2 DEF DelimTypes
    <2>3. CASE buffer # <<>> /\ delim_tokenizer_end_token(strip_trailing_newline(buffer))
      <3>1. strip_trailing_newline(buffer) \in Seq(Byte)
        BY <2>3, StrippedIsSeq DEF DelimTypes
      <3>2. /\ tokens' \in Seq(Seq(Byte)) /\ buffer' \in Seq(Byte)
            /\ Len(tokens) \in Nat /\ Len(tokens') = Len(tokens) + 1
        BY <2>3, <3>1, TokenEnds DEF DelimTypes
      <3>3. boundaries' \subseteq 1..Len(tokens')
        BY <2>1, <3>2 DEF DelimTypes
      <3> QED
        BY <2>1, <2>3, <3>2, <3>3 DEF DelimTypes, delim_tokenizer_end_token
    <2> QED
      BY <1>3, <2>2, <2>3 DEF ReadEof
  <1>4. CASE UNCHANGED vars
    BY <1>4 DEF vars, source, DelimTypes
  <1> QED
    BY <1>2, <1>3, <1>4 DEF Next, next_delim_token, Done

LEMMA DelimTypesInvariant == Spec => []DelimTypes
  BY DelimTypesInitially, DelimTypesStep, PTL DEF Spec

\* A byte that char can hold is its own conversion.
DelimitersFit == \A d \in DelimChoices : char(d) = d

\* What is collected, and what was, holds no delimiter.
SplitInv ==
  /\ buffer \in Seq(Byte \ {delim_byte})
  /\ tokens \in Seq(Seq(Byte \ {delim_byte}))

LEMMA SplitStep ==
  ASSUME DelimitersFit, DelimTypes, SplitInv, [Next]_vars
  PROVE  SplitInv'
  <1> DEFINE Item == Byte \ {delim_byte}
  <1>1. Len(input) \in Nat /\ consumed \in Nat /\ input \in Seq(Byte) /\ delim = delim_byte
    BY LenProperties DEF DelimTypes, DelimitersFit
  <1>2. buffer \in Seq(Item) /\ tokens \in Seq(Seq(Item))
    BY DEF SplitInv
  <1>3. delim_byte' = delim_byte
    BY DEF Next, next_delim_token, ReadByte, ReadEof, Done, vars, source
  <1> SUFFICES buffer' \in Seq(Item) /\ tokens' \in Seq(Seq(Item))
    BY <1>3 DEF SplitInv
  <1> HIDE DEF Item
  <1>4. CASE ReadByte
    <2> DEFINE ch == input[consumed + 1]
    <2>1. consumed < Len(input)
      BY <1>4 DEF ReadByte
    <2>2. CASE ~is_delimiter(ch)
      <3>1. buffer' = Append(buffer, ch) /\ tokens' = tokens
        BY <1>4, <2>2 DEF ReadByte
      <3>2. consumed + 1 \in 1..Len(input)
        BY <1>1, <2>1
      <3>3. ch \in Byte
        BY <1>1, <3>2, ElementOfSeq
      <3>4. ch \in Item
        BY <1>1, <2>2, <3>3 DEF Item, is_delimiter
      <3> QED
        BY <1>2, <3>1, <3>4, AppendProperties
    <2>3. CASE is_delimiter(ch)
      <3>1. delim_tokenizer_end_token(buffer)
        BY <1>4, <2>3 DEF ReadByte
      <3> QED
        BY <1>2, <3>1, TokenEnds
    <2> QED
      BY <2>2, <2>3
  <1>5. CASE ReadEof
    <2>1. CASE UNCHANGED <<buffer, tokens>>
      BY <1>2, <2>1
    <2>2. CASE buffer # <<>> /\ delim_tokenizer_end_token(strip_trailing_newline(buffer))
      BY <1>2, <2>2, StrippedIsSeq, TokenEnds
    <2> QED
      BY <1>5, <2>1, <2>2 DEF ReadEof
  <1>6. CASE UNCHANGED vars
    BY <1>2, <1>6 DEF vars
  <1> QED
    BY <1>4, <1>5, <1>6 DEF Next, next_delim_token, Done

\* No argument contains the delimiter, for every input and every delimiter that
\* char can hold; one above 127 never matches where char is signed, so that
\* is_delimiter is where the hypothesis comes from (next_delim_token).
THEOREM ItemsAreSplit ==
  ASSUME DelimitersFit
  PROVE  Spec => []DelimiterSplits
  <1>1. Init => SplitInv
    <2>1. <<>> \in Seq(Byte \ {delim_byte}) /\ <<>> \in Seq(Seq(Byte \ {delim_byte}))
      OBVIOUS
    <2> QED
      BY <2>1 DEF Init, SplitInv
  <1>2. DelimTypes /\ SplitInv /\ [Next]_vars => SplitInv'
    BY SplitStep
  <1>3. SplitInv => DelimiterSplits
    <2> SUFFICES ASSUME SplitInv, NEW k \in DOMAIN tokens
                 PROVE  delim_byte \notin Range(tokens[k])
      BY DEF DelimiterSplits
    <2>1. tokens[k] \in Seq(Byte \ {delim_byte})
      BY LenProperties, ElementOfSeq DEF SplitInv
    <2>2. Range(tokens[k]) \subseteq Byte \ {delim_byte}
      BY <2>1, RangeOfSeq
    <2> QED
      BY <2>2
  <1> QED
    BY <1>1, <1>2, <1>3, DelimTypesInvariant, PTL DEF Spec

-----------------------------------------------------------------------------
(* What the tokenizer of -d returns, joined again, is what it has read. *)

\* Each argument with the delimiter that closed it.
ItemsOf(toks, closed, d) ==
  [k \in DOMAIN toks |-> IF k \in closed THEN Append(toks[k], d) ELSE toks[k]]

NulsApart == delim_byte = NUL \/ NUL \notin Range(input)

\* Strengthening: until the last argument, which no delimiter closes, all of
\* them are closed, and nothing is read after it.
RejoinInv ==
  NulsApart =>
    /\ buffer \in Seq(Byte \ {NUL})
    /\ \/ /\ \A k \in DOMAIN tokens : k \in boundaries
          /\ Rejoined \o buffer = SubSeq(input, 1, consumed)
       \/ /\ LastArgumentReturned
          /\ buffer = <<>> /\ consumed = Len(input)
          /\ Rejoined = WithoutFinalNewline(input)

LEMMA ItemsAreStrings ==
  ASSUME NEW toks \in Seq(Seq(Byte)), NEW closed, NEW d \in Byte
  PROVE  ItemsOf(toks, closed, d) \in Seq(Seq(Byte))
         /\ Len(ItemsOf(toks, closed, d)) = Len(toks)
  <1>1. Len(toks) \in Nat /\ DOMAIN toks = 1..Len(toks)
    BY LenProperties
  <1>2. ASSUME NEW k \in 1..Len(toks)
        PROVE  toks[k] \in Seq(Byte) /\ Append(toks[k], d) \in Seq(Byte)
    BY <1>1, ElementOfSeq, AppendProperties
  <1>3. ItemsOf(toks, closed, d) \in [1..Len(toks) -> Seq(Byte)]
    BY <1>1, <1>2 DEF ItemsOf
  <1> QED
    BY <1>1, <1>3

\* One more argument is joined at the end.
LEMMA OneMoreItem ==
  ASSUME NEW toks \in Seq(Seq(Byte)), NEW text \in Seq(Byte), NEW d \in Byte,
         NEW closed, NEW closes,
         \A k \in 1..Len(toks) : k \in closes <=> k \in closed
  PROVE  FlattenSeq(ItemsOf(Append(toks, text), closes, d)) =
           FlattenSeq(ItemsOf(toks, closed, d))
             \o (IF Len(toks) + 1 \in closes THEN Append(text, d) ELSE text)
  <1> DEFINE n == Len(toks)
             item == IF n + 1 \in closes THEN Append(text, d) ELSE text
             old == ItemsOf(toks, closed, d)
             new == ItemsOf(Append(toks, text), closes, d)
  <1>1. item \in Seq(Byte)
    BY AppendProperties
  <1>2. n \in Nat /\ DOMAIN toks = 1..n
    BY LenProperties
  <1>3. /\ Append(toks, text) \in Seq(Seq(Byte)) /\ Len(Append(toks, text)) = n + 1
        /\ DOMAIN Append(toks, text) = 1..(n + 1) /\ Append(toks, text)[n + 1] = text
        /\ \A k \in 1..n : Append(toks, text)[k] = toks[k]
    BY <1>2, AppendProperties, LenProperties
  <1>4. old \in Seq(Seq(Byte)) /\ Len(old) = n /\ new \in Seq(Seq(Byte)) /\ Len(new) = n + 1
    BY <1>3, ItemsAreStrings
  <1>5. /\ n + 1 \in 1..(n + 1) /\ \A k \in 1..n : k \in 1..(n + 1)
        /\ \A k \in 1..(n + 1) : k \in 1..n \/ k = n + 1
    BY <1>2
  <1>6. \A k \in 1..n : k \in closes <=> k \in closed
    OBVIOUS
  <1> HIDE DEF n
  <1>7. new[n + 1] = item
    BY <1>3, <1>5 DEF ItemsOf
  <1>8. \A k \in 1..n : new[k] = old[k]
    BY <1>2, <1>3, <1>5, <1>6 DEF ItemsOf
  <1> HIDE DEF item, old, new
  <1>9. /\ Append(old, item) \in Seq(Seq(Byte)) /\ Len(Append(old, item)) = n + 1
        /\ Append(old, item)[n + 1] = item
        /\ \A k \in 1..n : Append(old, item)[k] = old[k]
    BY <1>1, <1>4, AppendProperties
  <1>10. new = Append(old, item)
    BY <1>4, <1>5, <1>7, <1>8, <1>9, SeqEqual
  <1>11. FlattenSeq(Append(old, item)) = FlattenSeq(old) \o item
    BY <1>1, <1>4, FlattenOneMore
  <1> QED
    BY <1>10, <1>11 DEF old, new, item, n

LEMMA RejoinedFlattens ==
  ASSUME DelimTypes
  PROVE  /\ Rejoined = FlattenSeq(ItemsOf(tokens, boundaries, delim_byte))
         /\ Rejoined \in Seq(Byte) /\ delim_byte \in Byte
  <1>1. delim_byte \in Byte /\ tokens \in Seq(Seq(Byte))
    BY DelimTokenizerAssumption DEF DelimTypes, Byte
  <1>2. ItemsOf(tokens, boundaries, delim_byte) \in Seq(Seq(Byte))
    BY <1>1, ItemsAreStrings
  <1>3. Rejoined = FlattenSeq(ItemsOf(tokens, boundaries, delim_byte))
    BY DEF Rejoined, ItemsOf
  <1> QED
    BY <1>1, <1>2, <1>3, FlattenIsSeq

\* A byte that is the delimiter is the one that -d gives: getc returns no
\* negative number.
LEMMA DelimiterRead ==
  ASSUME DelimTypes, NEW ch \in Byte, is_delimiter(ch)
  PROVE  ch = delim_byte
  <1>1. delim_byte \in Byte
    BY DelimTokenizerAssumption DEF DelimTypes, Byte
  <1>2. ch = char(delim_byte)
    BY DEF DelimTypes, is_delimiter
  <1>3. char(delim_byte) = delim_byte \/ char(delim_byte) < 0
    BY <1>1 DEF char, Byte
  <1> QED
    BY <1>2, <1>3 DEF Byte

LEMMA RejoinReadByte ==
  ASSUME DelimTypes, DelimTypes', RejoinInv, NulsApart, ReadByte
  PROVE  /\ buffer' \in Seq(Byte \ {NUL})
         /\ \A k \in DOMAIN tokens' : k \in boundaries'
         /\ Rejoined' \o buffer' = SubSeq(input, 1, consumed')
  <1> DEFINE ch == input[consumed + 1]
             read == SubSeq(input, 1, consumed)
             T == Byte \ {NUL}
  <1>1. /\ Len(input) \in Nat /\ consumed \in Nat /\ consumed < Len(input)
        /\ consumed' = consumed + 1 /\ consumed + 1 \in 1..Len(input)
        /\ UNCHANGED <<input, delim_byte, delim>> /\ input \in Seq(Byte)
    BY LenProperties DEF DelimTypes, ReadByte, source
  <1>2. /\ buffer \in Seq(T) /\ buffer \in Seq(Byte)
        /\ \A k \in DOMAIN tokens : k \in boundaries
        /\ Rejoined \o buffer = read
    BY <1>1 DEF RejoinInv, DelimTypes
  <1>3. SubSeq(input, 1, consumed') = Append(read, ch) /\ ch \in Byte
    BY <1>1, PrefixGrows
  <1>4. Rejoined \in Seq(Byte) /\ delim_byte \in Byte /\ delim_byte' = delim_byte
    BY <1>1, RejoinedFlattens
  <1>5. CASE ~is_delimiter(ch)
    <2>1. buffer' = Append(buffer, ch) /\ UNCHANGED <<tokens, boundaries>>
      BY <1>5 DEF ReadByte
    <2>2. ch # NUL
      <3>1. CASE delim_byte = NUL
        BY <1>5, <3>1 DEF is_delimiter, DelimTypes, char, NUL
      <3>2. CASE NUL \notin Range(input)
        BY <1>1, <3>2, RangeOfSeq DEF Range
      <3> QED
        BY <3>1, <3>2 DEF NulsApart
    <2>3. ch \in T
      BY <1>3, <2>2
    <2>4. Rejoined' = Rejoined
      BY <1>4, <2>1 DEF Rejoined
    <2> HIDE DEF ch, read, T
    <2>5. buffer' \in Seq(T)
      BY <1>2, <2>1, <2>3, AppendProperties
    <2>6. Rejoined \o Append(buffer, ch) = Append(Rejoined \o buffer, ch)
      BY <1>2, <1>3, <1>4, ConcatAppend
    <2> QED
      BY <1>2, <1>3, <2>1, <2>4, <2>5, <2>6 DEF T
  <1>6. CASE is_delimiter(ch)
    <2>1. /\ boundaries' = boundaries \cup {Len(tokens) + 1}
          /\ delim_tokenizer_end_token(buffer)
      BY <1>6 DEF ReadByte
    <2>2. c_string(buffer) = buffer
      <3>1. NUL \notin T
        OBVIOUS
      <3> HIDE DEF T
      <3> QED
        BY <1>2, <3>1, CStrings
    <2>3. tokens' = Append(tokens, buffer) /\ buffer' = <<>>
      BY <2>1, <2>2 DEF delim_tokenizer_end_token
    <2>4. /\ tokens \in Seq(Seq(Byte)) /\ Len(tokens) \in Nat
          /\ DOMAIN tokens = 1..Len(tokens) /\ Len(tokens') = Len(tokens) + 1
      BY <2>3, <1>2, AppendProperties, LenProperties DEF DelimTypes
    <2>5. DOMAIN tokens' = 1..(Len(tokens) + 1)
      BY <2>4, LenProperties DEF DelimTypes
    <2>6. \A k \in DOMAIN tokens' : k \in boundaries'
      BY <1>2, <2>1, <2>4, <2>5
    <2>7. \A k \in 1..Len(tokens) : k \in boundaries' <=> k \in boundaries
      BY <2>1, <2>4
    <2>8. ch = delim_byte
      BY <1>3, <1>6, DelimiterRead
    <2> HIDE DEF ch, read, T
    <2>9. Rejoined' = Rejoined \o Append(buffer, delim_byte)
      <3>1. Rejoined' = FlattenSeq(ItemsOf(tokens', boundaries', delim_byte))
        BY <1>4 DEF Rejoined, ItemsOf
      <3>2. Len(tokens) + 1 \in boundaries'
        BY <2>1
      <3>3. FlattenSeq(ItemsOf(Append(tokens, buffer), boundaries', delim_byte))
              = FlattenSeq(ItemsOf(tokens, boundaries, delim_byte))
                  \o (IF Len(tokens) + 1 \in boundaries'
                        THEN Append(buffer, delim_byte) ELSE buffer)
        <4>1. tokens \in Seq(Seq(Byte)) /\ buffer \in Seq(Byte) /\ delim_byte \in Byte
          BY <1>2, <1>4, <2>4
        <4> QED
          BY <4>1, <2>7, OneMoreItem, SMTT(30)
      <3> QED
        BY <2>3, <3>1, <3>2, <3>3, RejoinedFlattens
    <2>10. Rejoined \o Append(buffer, delim_byte) = Append(read, ch)
      <3>1. Rejoined \in Seq(Byte) /\ buffer \in Seq(Byte) /\ delim_byte \in Byte
        BY <1>2, <1>4
      <3>2. Rejoined \o Append(buffer, delim_byte) = Append(Rejoined \o buffer, delim_byte)
        BY <3>1, ConcatAppend
      <3> QED
        BY <1>2, <3>2, <2>8
    <2>11. Rejoined \o Append(buffer, delim_byte) \in Seq(Byte)
      BY <1>2, <1>4, ConcatProperties, AppendProperties
    <2>12. Rejoined' \o <<>> = Rejoined'
      BY <2>9, <2>11, ConcatEmptySeq
    <2>13. <<>> \in Seq(Byte \ {NUL})
      OBVIOUS
    <2> QED
      BY <1>3, <2>3, <2>6, <2>9, <2>10, <2>12, <2>13
  <1> QED
    BY <1>5, <1>6

LEMMA RejoinReadEof ==
  ASSUME DelimTypes, DelimTypes', RejoinInv, NulsApart, ReadEof,
         buffer # <<>>, delim_tokenizer_end_token(strip_trailing_newline(buffer))
  PROVE  /\ buffer' = <<>> /\ LastArgumentReturned' /\ consumed' = Len(input)
         /\ Rejoined' = WithoutFinalNewline(input)
  <1> DEFINE text == strip_trailing_newline(buffer)
             T == Byte \ {NUL}
  <1>1. /\ Len(input) \in Nat /\ consumed = Len(input) /\ input \in Seq(Byte)
        /\ UNCHANGED <<input, delim_byte, delim, consumed, boundaries>>
    BY LenProperties DEF DelimTypes, ReadEof, source
  <1>2. buffer \in Seq(T) /\ buffer \in Seq(Byte) /\ Rejoined \o buffer = input
    BY <1>1, SubSeqFull DEF RejoinInv, DelimTypes
  <1>3. Rejoined \in Seq(Byte) /\ delim_byte \in Byte /\ delim_byte' = delim_byte
    BY <1>1, RejoinedFlattens
  <1>4. c_string(text) = text /\ text \in Seq(Byte)
    <2>1. NUL \notin T
      OBVIOUS
    <2> HIDE DEF T
    <2>2. text \in Seq(T)
      BY <1>2, StrippedIsSeq
    <2> QED
      BY <1>2, <2>1, <2>2, CStrings, StrippedIsSeq
  <1>5. tokens' = Append(tokens, text) /\ buffer' = <<>>
    BY <1>4 DEF delim_tokenizer_end_token
  <1>6. /\ tokens \in Seq(Seq(Byte)) /\ Len(tokens) \in Nat
        /\ boundaries \subseteq 1..Len(tokens) /\ Len(tokens) + 1 \notin boundaries
    BY LenProperties DEF DelimTypes
  <1> HIDE DEF text
  <1>7. LastArgumentReturned'
    <2>1. Len(tokens') = Len(tokens) + 1
      BY <1>4, <1>5, <1>6, AppendProperties
    <2>2. DOMAIN tokens' = 1..(Len(tokens) + 1)
      BY <2>1, LenProperties DEF DelimTypes
    <2>3. Len(tokens) + 1 \in DOMAIN tokens' /\ Len(tokens) + 1 \notin boundaries'
      BY <1>1, <1>6, <2>2
    <2> QED
      BY <2>3 DEF LastArgumentReturned
  <1>8. Rejoined' = Rejoined \o text
    <2>1. Rejoined' = FlattenSeq(ItemsOf(tokens', boundaries', delim_byte))
      BY <1>3 DEF Rejoined, ItemsOf
    <2>2. FlattenSeq(ItemsOf(Append(tokens, text), boundaries, delim_byte))
            = FlattenSeq(ItemsOf(tokens, boundaries, delim_byte))
                \o (IF Len(tokens) + 1 \in boundaries
                      THEN Append(text, delim_byte) ELSE text)
      BY <1>3, <1>4, <1>6, OneMoreItem
    <2> QED
      BY <1>1, <1>5, <1>6, <2>1, <2>2, RejoinedFlattens
  <1>9. /\ Rejoined \o buffer # <<>> /\ Last(Rejoined \o buffer) = Last(buffer)
        /\ Front(Rejoined \o buffer) = Rejoined \o Front(buffer)
    BY <1>2, <1>3, FrontOfConcat
  <1>10. WithoutFinalNewline(input) = Rejoined \o text
    BY <1>2, <1>9 DEF WithoutFinalNewline, text, strip_trailing_newline
  <1> QED
    BY <1>1, <1>5, <1>7, <1>8, <1>10

LEMMA RejoinStep ==
  ASSUME DelimTypes, DelimTypes', RejoinInv, [Next]_vars
  PROVE  RejoinInv'
  <1>1. UNCHANGED <<input, delim_byte, delim>>
    BY DEF Next, next_delim_token, ReadByte, ReadEof, Done, vars, source
  <1> SUFFICES ASSUME NulsApart
               PROVE  RejoinInv'
    BY <1>1 DEF RejoinInv, NulsApart
  <1>2. CASE ReadByte
    BY <1>1, <1>2, RejoinReadByte DEF RejoinInv
  <1>3. CASE ReadEof /\ buffer # <<>>
             /\ delim_tokenizer_end_token(strip_trailing_newline(buffer))
    <2>1. <<>> \in Seq(Byte \ {NUL})
      OBVIOUS
    <2>2. WithoutFinalNewline(input)' = WithoutFinalNewline(input)
      BY <1>1 DEF WithoutFinalNewline
    <2> QED
      BY <1>1, <1>3, <2>1, <2>2, RejoinReadEof DEF RejoinInv
  <1>4. CASE UNCHANGED <<buffer, tokens, consumed, boundaries>>
    <2>1. /\ Rejoined' = Rejoined /\ (LastArgumentReturned' <=> LastArgumentReturned)
          /\ WithoutFinalNewline(input)' = WithoutFinalNewline(input)
      BY <1>1, <1>4 DEF Rejoined, LastArgumentReturned, WithoutFinalNewline
    <2> QED
      BY <1>1, <1>4, <2>1 DEF RejoinInv
  <1> QED
    BY <1>2, <1>3, <1>4 DEF Next, next_delim_token, ReadEof, Done, vars

\* Nothing that was read is lost, added or reordered, for every input, every
\* delimiter and either sign of char (delim_tokenizer_next_token).
THEOREM ItemsAreRejoined == Spec => []ItemsRejoin
  <1>1. Init => RejoinInv
    <2> SUFFICES ASSUME Init
                 PROVE  RejoinInv
      OBVIOUS
    <2>1. DelimTypes /\ tokens = <<>> /\ buffer = <<>> /\ consumed = 0
      BY DelimTypesInitially DEF Init
    <2>2. ItemsOf(tokens, boundaries, delim_byte) = <<>>
      <3>1. /\ ItemsOf(tokens, boundaries, delim_byte) \in Seq(Seq(Byte))
            /\ Len(ItemsOf(tokens, boundaries, delim_byte)) = 0
        BY <2>1, RejoinedFlattens, ItemsAreStrings DEF DelimTypes
      <3> QED
        BY <3>1, EmptySeq
    <2>3. Rejoined = <<>>
      BY <2>1, <2>2, RejoinedFlattens, FlattenNone
    <2>4. SubSeq(input, 1, consumed) = <<>>
      BY <2>1, SubSeqEmpty DEF DelimTypes
    <2>5. <<>> \in Seq(Byte \ {NUL}) /\ <<>> \o <<>> = <<>>
      OBVIOUS
    <2>6. \A k \in DOMAIN tokens : k \in boundaries
      BY <2>1
    <2> QED
      BY <2>1, <2>3, <2>4, <2>5, <2>6 DEF RejoinInv
  <1>2. DelimTypes /\ DelimTypes' /\ RejoinInv /\ [Next]_vars => RejoinInv'
    BY RejoinStep
  <1>3. DelimTypes /\ RejoinInv => ItemsRejoin
    <2> SUFFICES ASSUME DelimTypes, RejoinInv, NulsApart
                 PROVE  Rejoined \o buffer =
                          IF LastArgumentReturned THEN WithoutFinalNewline(input)
                                                  ELSE SubSeq(input, 1, consumed)
      BY DEF ItemsRejoin, NulsApart
    <2>1. Rejoined \in Seq(Byte)
      BY RejoinedFlattens
    <2>2. Rejoined \o <<>> = Rejoined
      BY <2>1, ConcatEmptySeq
    <2> QED
      BY <2>2 DEF RejoinInv, LastArgumentReturned
  <1> QED
    BY <1>1, <1>2, <1>3, DelimTypesInvariant, PTL DEF Spec

-----------------------------------------------------------------------------
(* The tokenizer in its memory. *)

\* Storage runs the tokenizer: with what it does to memory left out, each of its
\* steps is one of DelimTokenizer or none.
THEOREM StorageTokenizes == StorageSpec => Spec
  <1>1. StorageInit => Init
    BY DEF StorageInit
  <1>2. [StorageNext]_storageVars => [Next]_vars
    BY DEF StorageNext, storageVars, StoreByte, StoreEof, Exit, Overrun, Stop,
           AddInputArgument, ExecuteInput, ReplaceOne, ExecuteReplaced, StorageDone, NextCall,
           Next, next_delim_token
  <1> QED
    BY <1>1, <1>2, PTL DEF StorageSpec, Spec

Cell == Byte \cup {Unwritten}

Blocks == UNION {[0..n -> Cell] : n \in Nat}

IsBuffer(b) ==
  /\ b \in [buf : Blocks, block : Nat, sz : Nat, pos : Nat]
  /\ b.buf \in [0 .. b.sz -> Cell]
  /\ b.pos <= b.sz

\* The bytes in use are those of s.
Holds(b, s) ==
  /\ b.pos = Len(s)
  /\ \A i \in 1..Len(s) : b.buf[i - 1] = s[i]

LEMMA GrownHolds ==
  ASSUME NEW b, IsBuffer(b), NEW s \in Seq(Byte), Holds(b, s)
  PROVE  /\ IsBuffer(Grown(b)) /\ Holds(Grown(b), s)
         /\ Grown(b).sz > b.sz /\ Grown(b).pos = b.pos
  <1> DEFINE size == phxargs_double_capacity(b.sz)
  <1>1. /\ b.sz \in Nat /\ b.pos \in Nat /\ b.block \in Nat /\ b.pos <= b.sz
        /\ b.buf \in [0 .. b.sz -> Cell]
    BY DEF IsBuffer
  <1>2. size \in Nat /\ size > b.sz
    BY <1>1 DEF phxargs_double_capacity
  <1> DEFINE moved == [i \in 0..size |-> IF i \in DOMAIN b.buf THEN b.buf[i] ELSE Unwritten]
  <1>3. moved \in [0..size -> Cell]
    BY <1>1 DEF Cell
  <1>4. \A i \in 0 .. b.sz : moved[i] = b.buf[i]
    BY <1>1, <1>2
  <1> HIDE DEF size, moved
  <1>5. Grown(b) = [buf |-> moved, block |-> b.block + 1, sz |-> size, pos |-> b.pos]
    <2>1. Grown(b) = [b EXCEPT !.sz = size, !.block = b.block + 1, !.buf = moved]
      BY DEF Grown, size, moved
    <2> QED
      BY <2>1 DEF IsBuffer
  <1>6. IsBuffer(Grown(b))
    BY <1>1, <1>2, <1>3, <1>5 DEF IsBuffer, Blocks
  <1>7. \A i \in 1..Len(s) : i - 1 \in 0 .. b.sz
    BY <1>1, LenProperties DEF Holds
  <1>8. Holds(Grown(b), s)
    BY <1>4, <1>5, <1>7 DEF Holds
  <1> QED
    BY <1>2, <1>5, <1>6, <1>8

LEMMA PutHolds ==
  ASSUME NEW b, IsBuffer(b), NEW s \in Seq(Byte), Holds(b, s), NEW ch \in Byte
  PROVE  IsBuffer(buffer_put(b, ch)) /\ Holds(buffer_put(b, ch), Append(s, ch))
  <1> DEFINE roomy == IF b.pos = b.sz THEN Grown(b) ELSE b
  <1>1. IsBuffer(roomy) /\ Holds(roomy, s) /\ roomy.pos < roomy.sz
    <2>1. b.pos \in Nat /\ b.sz \in Nat /\ b.pos <= b.sz
      BY DEF IsBuffer
    <2> QED
      BY <2>1, GrownHolds
  <1>2. buffer_put(b, ch) = [roomy EXCEPT !.buf[roomy.pos] = ch, !.pos = @ + 1]
    BY DEF buffer_put
  <1> HIDE DEF roomy
  <1>3. /\ roomy.sz \in Nat /\ roomy.pos \in Nat /\ roomy.block \in Nat
        /\ roomy.buf \in [0 .. roomy.sz -> Cell] /\ roomy.pos \in 0 .. roomy.sz
        /\ roomy.pos = Len(s)
    BY <1>1 DEF IsBuffer, Holds
  <1> DEFINE cells == [roomy.buf EXCEPT ![roomy.pos] = ch]
  <1>4. /\ cells \in [0 .. roomy.sz -> Cell] /\ cells[Len(s)] = ch
        /\ \A i \in 0 .. roomy.sz : i # Len(s) => cells[i] = roomy.buf[i]
    BY <1>3 DEF Cell
  <1> HIDE DEF cells
  <1>5. buffer_put(b, ch) = [buf |-> cells, block |-> roomy.block, sz |-> roomy.sz,
                             pos |-> roomy.pos + 1]
    BY <1>1, <1>2 DEF IsBuffer, cells
  <1>6. IsBuffer(buffer_put(b, ch))
    <2>1. cells \in Blocks
      BY <1>3, <1>4 DEF Blocks
    <2>2. roomy.pos + 1 \in Nat /\ roomy.pos + 1 <= roomy.sz
      BY <1>1, <1>3
    <2> QED
      BY <1>3, <1>4, <1>5, <2>1, <2>2 DEF IsBuffer
  <1>7. /\ Len(Append(s, ch)) = Len(s) + 1 /\ Append(s, ch)[Len(s) + 1] = ch
        /\ \A i \in 1..Len(s) : Append(s, ch)[i] = s[i]
    BY AppendProperties
  <1>8. ASSUME NEW i \in 1..(Len(s) + 1)
        PROVE  cells[i - 1] = Append(s, ch)[i]
    <2>1. CASE i = Len(s) + 1
      BY <1>3, <1>4, <1>7, <2>1
    <2>2. CASE i # Len(s) + 1
      <3>1. i \in 1..Len(s) /\ i - 1 \in 0 .. roomy.sz /\ i - 1 # Len(s)
        BY <1>1, <1>3, <2>2
      <3> QED
        BY <1>1, <1>4, <1>7, <3>1 DEF Holds
    <2> QED
      BY <2>1, <2>2
  <1>9. Holds(buffer_put(b, ch), Append(s, ch))
    BY <1>3, <1>5, <1>7, <1>8 DEF Holds
  <1> QED
    BY <1>6, <1>9

LEMMA ResetHolds ==
  ASSUME NEW b, IsBuffer(b)
  PROVE  IsBuffer(buffer_reset(b)) /\ Holds(buffer_reset(b), <<>>)
  <1>1. buffer_reset(b) = [buf |-> b.buf, block |-> b.block, sz |-> b.sz, pos |-> 0]
    BY DEF buffer_reset, IsBuffer
  <1> QED
    BY <1>1 DEF IsBuffer, Holds

LEMMA DropHolds ==
  ASSUME NEW b, IsBuffer(b), NEW s \in Seq(Byte), s # <<>>, Holds(b, s)
  PROVE  /\ IsBuffer(buffer_drop_last(b)) /\ Holds(buffer_drop_last(b), Front(s))
         /\ b.buf[b.pos - 1] = Last(s)
  <1>1. Len(s) \in Nat /\ Len(s) # 0 /\ b.pos = Len(s) /\ b.sz \in Nat /\ b.pos <= b.sz
    BY LenProperties, EmptySeq DEF Holds, IsBuffer
  <1>2. buffer_drop_last(b) = [buf |-> b.buf, block |-> b.block, sz |-> b.sz,
                               pos |-> Len(s) - 1]
    BY <1>1 DEF buffer_drop_last, IsBuffer
  <1>3. IsBuffer(buffer_drop_last(b))
    BY <1>1, <1>2 DEF IsBuffer
  <1>4. /\ Len(Front(s)) = Len(s) - 1
        /\ \A i \in 1..(Len(s) - 1) : Front(s)[i] = s[i]
    <2>1. Len(s) - 1 \in 0..Len(s)
      BY <1>1
    <2> QED
      BY <2>1, PrefixProperties DEF Front
  <1>5. \A i \in 1..(Len(s) - 1) : i \in 1..Len(s)
    BY <1>1
  <1>6. Holds(buffer_drop_last(b), Front(s))
    BY <1>2, <1>4, <1>5 DEF Holds
  <1>7. Len(s) \in 1..Len(s) /\ Last(s) = s[Len(s)]
    BY <1>1 DEF Last
  <1> QED
    BY <1>1, <1>3, <1>6, <1>7 DEF Holds

\* The pointer that the mode is given is to the C string of what was collected.
LEMMA HandedOver ==
  ASSUME NEW b, IsBuffer(b), NEW s \in Seq(Byte), Holds(b, s)
  PROVE  /\ IsBuffer(buffer_put(b, NUL))
         /\ StringAt(buffer_put(b, NUL), tokenizer_token(buffer_put(b, NUL), 0)) = c_string(s)
  <1> DEFINE c == buffer_put(b, NUL)
             text == Append(s, NUL)
             ends == {i \in DOMAIN c.buf : i >= 0 /\ c.buf[i] = Terminator}
             nuls == {i \in 1..Len(s) : s[i] = NUL}
  <1>1. NUL \in Byte /\ NUL = Terminator
    BY DEF NUL, Byte, Terminator
  <1>2. IsBuffer(c) /\ Holds(c, text)
    BY <1>1, PutHolds
  <1>3. /\ text \in Seq(Byte) /\ Len(text) = Len(s) + 1 /\ text[Len(s) + 1] = NUL
        /\ \A i \in 1..Len(s) : text[i] = s[i]
    BY <1>1, AppendProperties
  <1>4. Len(s) \in Nat
    BY LenProperties
  <1> HIDE DEF c, text
  <1>5. /\ DOMAIN c.buf = 0 .. c.sz /\ c.sz \in Nat /\ c.pos = Len(s) + 1 /\ c.pos <= c.sz
        /\ \A i \in 1..(Len(s) + 1) : c.buf[i - 1] = text[i]
    BY <1>2, <1>3 DEF IsBuffer, Holds
  <1>6. c.buf[Len(s)] = NUL
    <2>1. Len(s) + 1 \in 1..(Len(s) + 1) /\ (Len(s) + 1) - 1 = Len(s)
      BY <1>4
    <2> QED
      BY <1>3, <1>5, <2>1
  <1>7. Len(s) \in ends
    BY <1>1, <1>4, <1>5, <1>6
  <1>8. \A i \in 1..Len(s) : c.buf[i - 1] = s[i]
    <2>1. \A i \in 1..Len(s) : i \in 1..(Len(s) + 1)
      BY <1>4
    <2> QED
      BY <1>3, <1>5, <2>1
  <1>9. \A m \in ends : m \in Int
    BY <1>5
  <1> DEFINE length == Min(ends)
             string == [i \in 1..length |-> c.buf[i - 1]]
  <1>10. StringAt(c, tokenizer_token(c, 0)) = string
    <2>1. StringAt(c, tokenizer_token(c, 0)) = [i \in 1 .. length - 0 |-> c.buf[0 + i - 1]]
      BY <1>7 DEF StringAt, tokenizer_token
    <2>2. length \in Int
      <3>1. ends \subseteq Nat /\ ends # {}
        BY <1>5, <1>7
      <3> HIDE DEF ends
      <3>2. \E n \in ends : \A m \in ends : n <= m
        BY <3>1, LeastNatural
      <3>3. length \in ends
        BY <3>2 DEF Min
      <3>4. ASSUME NEW n \in ends
            PROVE  n \in Int
        BY <3>1
      <3> HIDE DEF length
      <3> QED
        BY <3>3, <3>4
    <2> HIDE DEF length
    <2>3. 1 .. length - 0 = 1..length /\ \A i \in 1..length : 0 + i - 1 = i - 1
      BY <2>2
    <2> QED
      BY <2>1, <2>3
  <1>11. CASE nuls = {}
    <2>1. ASSUME NEW m \in ends
          PROVE  Len(s) <= m
      <3>1. m \in Nat /\ c.buf[m] = NUL
        BY <1>1, <1>5
      <3> SUFFICES ASSUME ~(Len(s) <= m)
                   PROVE  FALSE
        OBVIOUS
      <3>2. m + 1 \in 1..Len(s) /\ (m + 1) - 1 = m
        BY <1>4, <3>1
      <3>3. s[m + 1] = NUL
        BY <1>8, <3>1, <3>2
      <3> QED
        BY <1>11, <3>2, <3>3
    <2>2. length = Len(s)
      <3> HIDE DEF ends
      <3> QED
        BY <1>4, <1>7, <1>9, <2>1, LeastOf
    <2>3. s = [i \in 1..Len(s) |-> s[i]]
      BY LenProperties
    <2> HIDE DEF length
    <2>4. string = s
      BY <1>8, <2>2, <2>3
    <2>5. c_string(s) = s
      BY <1>11 DEF c_string
    <2> QED
      BY <1>2, <1>10, <2>4, <2>5 DEF c
  <1>12. CASE nuls # {}
    <2>0. nuls \subseteq Nat
      BY <1>4
    <2>1. PICK first \in nuls : \A m \in nuls : first <= m
      <3> HIDE DEF nuls
      <3> QED
        BY <1>12, <2>0, LeastNatural
    <2>2. first \in 1..Len(s) /\ s[first] = NUL
      BY <2>1
    <2>3. Min(nuls) = first
      <3>1. \A m \in nuls : m \in Int
        BY <1>4
      <3>2. first \in Int
        BY <2>2
      <3> HIDE DEF nuls
      <3> QED
        BY <2>1, <3>1, <3>2, LeastOf
    <2>4. first - 1 \in ends
      BY <1>1, <1>4, <1>5, <1>8, <2>2
    <2>5. ASSUME NEW m \in ends
          PROVE  first - 1 <= m
      <3>1. m \in Nat /\ c.buf[m] = NUL
        BY <1>1, <1>5
      <3> SUFFICES ASSUME ~(first - 1 <= m)
                   PROVE  FALSE
        OBVIOUS
      <3>2. m + 1 \in 1..Len(s) /\ (m + 1) - 1 = m /\ ~(first <= m + 1)
        BY <1>4, <2>2, <3>1
      <3>3. s[m + 1] = NUL
        BY <1>8, <3>1, <3>2
      <3> QED
        BY <2>1, <3>2, <3>3
    <2>6. length = first - 1
      <3>1. first - 1 \in Int
        BY <2>2
      <3> HIDE DEF ends
      <3> QED
        BY <1>9, <2>4, <2>5, <3>1, LeastOf
    <2>7. c_string(s) = SubSeq(s, 1, first - 1)
      BY <1>12, <2>3 DEF c_string
    <2>8. first - 1 \in 0..Len(s)
      BY <1>4, <2>2
    <2> DEFINE n == first - 1
    <2>9. \A i \in 1..n : i \in 1..Len(s)
      BY <1>4, <2>2
    <2> HIDE DEF length, n
    <2>10. n \in 0..Len(s) /\ length = n /\ c_string(s) = SubSeq(s, 1, n)
      BY <2>6, <2>7, <2>8 DEF n
    <2>11. /\ SubSeq(s, 1, n) \in Seq(Byte) /\ Len(SubSeq(s, 1, n)) = n
           /\ \A i \in 1..n : SubSeq(s, 1, n)[i] = s[i]
      BY <2>10, PrefixProperties
    <2>12. SubSeq(s, 1, n) = [i \in 1..n |-> SubSeq(s, 1, n)[i]]
      BY <2>11, LenProperties
    <2>13. string = SubSeq(s, 1, n)
      <3>1. \A i \in 1..n : c.buf[i - 1] = SubSeq(s, 1, n)[i]
        BY <1>8, <2>9, <2>11
      <3> QED
        BY <2>10, <2>12, <3>1
    <2> QED
      BY <1>2, <1>10, <2>10, <2>13 DEF c
  <1> QED
    BY <1>11, <1>12

-----------------------------------------------------------------------------
(* The lists of arguments. *)

\* The arrays that phxargs starts with could be allocated.
FirstArraysFit ==
  /\ PointerSize <= SizeMax
  /\ InputCapacity * PointerSize <= AllocMax
  /\ Len(FixedArgs) * PointerSize <= AllocMax

String == Seq(Int)

Arrays == UNION {[0 .. n - 1 -> String] : n \in Nat}

\* All of the strings counted are in the array, and the array is no larger than
\* what can be allocated, so that its size does not wrap around when it doubles.
IsArgs(a) ==
  /\ a \in [count : Nat, capacity : Nat, args : Arrays, length : Int]
  /\ a.args \in [0 .. a.capacity - 1 -> String]
  /\ a.count <= a.capacity
  /\ a.capacity * PointerSize <= AllocMax

LEMMA BytesOfArray ==
  ASSUME PointerSize <= SizeMax, NEW n \in Nat, n * PointerSize <= SizeMax
  PROVE  ArrayBytes(n) = n * PointerSize /\ ArrayBytes(n) \div PointerSize = n
  <1>1. PointerSize \in Nat \ {0} /\ SizeMax \in Nat
    BY UtilAssumption
  <1>2. n * PointerSize \in Nat
    BY <1>1
  <1>3. ASSUME NEW p \in Nat, p <= SizeMax
        PROVE  p % (SizeMax + 1) = p
    BY <1>1, <1>3
  <1>4. ArrayBytes(n) = n * PointerSize
    BY <1>2, <1>3 DEF ArrayBytes, Wrapped
  <1>5. (n * PointerSize) \div PointerSize = n
    BY <1>1
  <1> QED
    BY <1>4, <1>5

\* Without an exit there is room for the argument, in an array of that size.
LEMMA ReallocatedIsArgs ==
  ASSUME PointerSize <= SizeMax, NEW a, IsArgs(a), ~command_args_add_exits(a)
  PROVE  /\ IsArgs(reallocate_if_needed(a))
         /\ reallocate_if_needed(a).count = a.count
         /\ reallocate_if_needed(a).length = a.length
         /\ a.count < reallocate_if_needed(a).capacity
         /\ a.capacity <= reallocate_if_needed(a).capacity
         /\ \A i \in 0 .. a.capacity - 1 : reallocate_if_needed(a).args[i] = a.args[i]
  <1> DEFINE r == reallocate_if_needed(a)
             bigger == phxargs_double_capacity(a.capacity)
  <1>1. /\ a.count \in Nat /\ a.capacity \in Nat /\ a.length \in Int
        /\ a.count <= a.capacity /\ a.capacity * PointerSize <= AllocMax
        /\ a.args \in [0 .. a.capacity - 1 -> String]
    BY DEF IsArgs
  <1>2. PointerSize \in Nat \ {0} /\ SizeMax \in Nat /\ AllocMax \in Nat
        /\ 2 * AllocMax <= SizeMax
    BY UtilAssumption DEF AllocMax
  <1>3. CASE a.count < a.capacity
    <2>1. r = a
      BY <1>1, <1>3 DEF reallocate_if_needed
    <2> QED
      BY <1>1, <1>3, <2>1
  <1>4. CASE ~(a.count < a.capacity)
    <2>1. a.count >= a.capacity
      BY <1>1, <1>4
    <2>2. ~CannotAllocate(ArrayBytes(bigger))
      BY <2>1 DEF command_args_add_exits
    <2>3. bigger \in Nat /\ bigger > a.capacity
      BY <1>1 DEF phxargs_double_capacity
    <2>4. bigger * PointerSize <= SizeMax
      <3>1. CASE a.capacity = 0
        BY <1>2, <3>1 DEF phxargs_double_capacity
      <3>2. CASE a.capacity # 0
        <4>1. bigger = 2 * a.capacity
          BY <3>2 DEF phxargs_double_capacity
        <4>2. bigger * PointerSize = 2 * (a.capacity * PointerSize)
          BY <1>1, <1>2, <4>1
        <4>3. a.capacity * PointerSize \in Nat
          BY <1>1, <1>2
        <4> QED
          BY <1>1, <1>2, <4>2, <4>3
      <3> QED
        BY <3>1, <3>2
    <2>5. ArrayBytes(bigger) = bigger * PointerSize /\ ArrayBytes(bigger) \div PointerSize = bigger
      BY <2>3, <2>4, BytesOfArray
    <2>6. bigger * PointerSize <= AllocMax
      <3>1. bigger * PointerSize \in Nat
        BY <1>2, <2>3
      <3> QED
        BY <1>2, <2>2, <2>5, <3>1 DEF CannotAllocate
    <2> DEFINE moved == [i \in 0 .. bigger - 1 |->
                           IF i \in DOMAIN a.args THEN a.args[i] ELSE NULL]
    <2>7. moved \in [0 .. bigger - 1 -> String]
      BY <1>1 DEF String, NULL
    <2>8. \A i \in 0 .. a.capacity - 1 : moved[i] = a.args[i]
      BY <1>1, <2>3
    <2>9. moved \in Arrays
      BY <2>3, <2>7 DEF Arrays
    <2>10. r = [a EXCEPT !.capacity = bigger, !.args = moved]
      BY <2>1, <2>5 DEF reallocate_if_needed
    <2> HIDE DEF r, bigger, moved
    <2>11. r = [count |-> a.count, capacity |-> bigger, args |-> moved, length |-> a.length]
      BY <2>10 DEF IsArgs
    <2>12. IsArgs(r)
      BY <1>1, <2>3, <2>6, <2>7, <2>9, <2>11 DEF IsArgs
    <2> QED
      BY <1>1, <2>1, <2>3, <2>8, <2>11, <2>12 DEF r
  <1> QED
    BY <1>3, <1>4

LEMMA StringsOf ==
  ASSUME NEW a, IsArgs(a)
  PROVE  /\ Strings(a) \in Seq(String) /\ Len(Strings(a)) = a.count
         /\ \A i \in 1 .. a.count : Strings(a)[i] = a.args[i - 1]
  <1>1. /\ a.count \in Nat /\ a.capacity \in Nat /\ a.count <= a.capacity
        /\ a.args \in [0 .. a.capacity - 1 -> String]
    BY DEF IsArgs
  <1>2. \A i \in 1 .. a.count : i - 1 \in 0 .. a.capacity - 1
    BY <1>1
  <1>3. Strings(a) = [i \in 1 .. a.count |-> a.args[i - 1]]
    BY <1>1, <1>2 DEF Strings
  <1>4. Strings(a) \in [1 .. a.count -> String]
    BY <1>1, <1>2, <1>3
  <1>5. Strings(a) \in Seq(String) /\ Len(Strings(a)) = a.count
    BY <1>1, <1>4
  <1> QED
    BY <1>3, <1>5

\* An argument is added to the end, and the others stay.
LEMMA AddedArgument ==
  ASSUME PointerSize <= SizeMax, NEW a, IsArgs(a), ~command_args_add_exits(a),
         NEW s \in String
  PROVE  /\ IsArgs(command_args_add(a, s))
         /\ command_args_add(a, s).count = a.count + 1
         /\ command_args_add(a, s).capacity >= a.capacity
         /\ command_args_add(a, s).length = a.length + Len(s) + 1
         /\ Strings(command_args_add(a, s)) = Append(Strings(a), s)
  <1> DEFINE r == reallocate_if_needed(a)
             b == command_args_add(a, s)
             cells == [r.args EXCEPT ![r.count] = s]
  <1>1. /\ IsArgs(r) /\ r.count = a.count /\ r.length = a.length
        /\ a.count < r.capacity /\ a.capacity <= r.capacity
        /\ \A i \in 0 .. a.capacity - 1 : r.args[i] = a.args[i]
    BY ReallocatedIsArgs
  <1>2. /\ a.count \in Nat /\ a.capacity \in Nat /\ a.count <= a.capacity
    BY DEF IsArgs
  <1>3. b = [r EXCEPT !.args[r.count] = s, !.count = @ + 1, !.length = @ + Len(s) + 1]
    BY DEF command_args_add
  <1> HIDE DEF r
  <1>4. /\ r.capacity \in Nat /\ r.length \in Int /\ r.count \in Nat
        /\ r.args \in [0 .. r.capacity - 1 -> String]
        /\ r.capacity * PointerSize <= AllocMax
    BY <1>1 DEF IsArgs
  <1>5. /\ cells \in [0 .. r.capacity - 1 -> String] /\ cells[a.count] = s
        /\ \A i \in 0 .. r.capacity - 1 : i # a.count => cells[i] = r.args[i]
    BY <1>1, <1>2, <1>4
  <1>6. cells \in Arrays
    BY <1>4, <1>5 DEF Arrays
  <1> HIDE DEF cells
  <1>7. b = [count |-> r.count + 1, capacity |-> r.capacity, args |-> cells,
             length |-> r.length + Len(s) + 1]
    BY <1>1, <1>3 DEF IsArgs, cells
  <1>8. Len(s) \in Nat
    BY LenProperties DEF String
  <1>9. /\ r.count + 1 \in Nat /\ r.length + Len(s) + 1 \in Int
        /\ r.count + 1 <= r.capacity
    BY <1>1, <1>2, <1>4, <1>8
  <1> HIDE DEF b
  <1>10. IsArgs(b)
    BY <1>4, <1>5, <1>6, <1>7, <1>9 DEF IsArgs
  <1>11. Strings(b) = Append(Strings(a), s)
    <2>1. /\ Strings(a) \in Seq(String) /\ Len(Strings(a)) = a.count
          /\ \A i \in 1 .. a.count : Strings(a)[i] = a.args[i - 1]
      BY StringsOf
    <2>2. /\ Strings(b) \in Seq(String) /\ Len(Strings(b)) = a.count + 1
          /\ \A i \in 1 .. a.count + 1 : Strings(b)[i] = cells[i - 1]
      BY <1>1, <1>7, <1>10, StringsOf
    <2>3. /\ Append(Strings(a), s) \in Seq(String)
          /\ Len(Append(Strings(a), s)) = a.count + 1
          /\ Append(Strings(a), s)[a.count + 1] = s
          /\ \A i \in 1 .. a.count : Append(Strings(a), s)[i] = Strings(a)[i]
      BY <2>1, AppendProperties
    <2>4. ASSUME NEW i \in 1 .. a.count + 1
          PROVE  Strings(b)[i] = Append(Strings(a), s)[i]
      <3>1. CASE i = a.count + 1
        BY <1>2, <1>5, <2>2, <2>3, <3>1
      <3>2. CASE i # a.count + 1
        <4>1. /\ i \in 1 .. a.count /\ i - 1 \in 0 .. r.capacity - 1
              /\ i - 1 \in 0 .. a.capacity - 1 /\ i - 1 # a.count
          BY <1>1, <1>2, <1>4, <3>2
        <4> QED
          BY <1>1, <1>5, <2>1, <2>2, <2>3, <4>1
      <3> QED
        BY <3>1, <3>2
    <2> QED
      BY <2>2, <2>3, <2>4, SeqEqual
  <1> QED
    BY <1>1, <1>4, <1>7, <1>10, <1>11 DEF b

LEMMA CreatedArgs ==
  ASSUME NEW n \in Nat, n * PointerSize <= AllocMax
  PROVE  /\ IsArgs(command_args_create_with_capacity(n))
         /\ command_args_create_with_capacity(n).count = 0
         /\ command_args_create_with_capacity(n).capacity = n
         /\ command_args_create_with_capacity(n).length = 0
         /\ Strings(command_args_create_with_capacity(n)) = <<>>
  <1> DEFINE array == [i \in 0 .. n - 1 |-> NULL]
             a == command_args_create_with_capacity(n)
  <1>1. array \in [0 .. n - 1 -> String] /\ array \in Arrays
    BY DEF Arrays, String, NULL
  <1> HIDE DEF array
  <1>2. a = [count |-> 0, capacity |-> n, args |-> array, length |-> 0]
    BY DEF command_args_create_with_capacity, array
  <1>3. IsArgs(a)
    BY <1>1, <1>2 DEF IsArgs
  <1>4. Strings(a) \in Seq(String) /\ Len(Strings(a)) = 0
    BY <1>2, <1>3, StringsOf
  <1> QED
    BY <1>2, <1>3, <1>4, EmptySeq

-----------------------------------------------------------------------------
(* The way of an argument. *)

MemoryTypes ==
  /\ turn \in {"tokenizer", "mode", "exited", "overrun"} /\ arg_placeholder \in Placeholders
  /\ IsBuffer(buf) /\ IsArgs(input_args) /\ IsArgs(replaced_fixed_args)
  /\ replaced_fixed_args.count <= Len(FixedArgs)
  /\ replaced_fixed_args.capacity >= Len(FixedArgs)
  /\ executed \in Seq(Seq(String))

\* The steps that end the story.
Stops == Exit \/ Overrun

\* Until the mode has it, an argument is in the buffer; then it is where the
\* token points to.
TextInv ==
  /\ turn = "tokenizer" => Holds(buf, buffer)
  /\ turn = "mode" => buffer = <<>> /\ tokens # <<>> /\ Text = Last(tokens)

Kept ==
  /\ turn' = "tokenizer" /\ Holds(buf', buffer') /\ UNCHANGED <<tokens, turn>>

HandedTo ==
  /\ turn' = "mode" /\ buffer' = <<>>
  /\ Text' \in Seq(Byte) /\ tokens' = Append(tokens, Text')

\* What a step of the tokenizer does, as the mode sees it.
LEMMA TokenizerStep ==
  ASSUME DelimTypes, MemoryTypes, TextInv, StoreByte \/ StoreEof
  PROVE  /\ IsBuffer(buf') /\ UNCHANGED <<arg_placeholder, arguments>>
         /\ turn = "tokenizer"
         /\ \/ turn' = "exited" /\ UNCHANGED <<vars, buf>>
            \/ Kept
            \/ HandedTo
  <1>1. /\ turn = "tokenizer" /\ Holds(buf, buffer) /\ IsBuffer(buf)
        /\ buffer \in Seq(Byte) /\ input \in Seq(Byte)
        /\ Len(input) \in Nat /\ consumed \in Nat
        /\ tokens \in Seq(Seq(Byte))
    BY LenProperties DEF MemoryTypes, TextInv, DelimTypes, StoreByte, StoreEof
  <1>2. CASE Exit
    BY <1>1, <1>2 DEF Exit, Stop
  <1>3. ASSUME NEW b, IsBuffer(b), NEW s \in Seq(Byte), Holds(b, s),
               delim_tokenizer_end_token(s), HandOver(b)
        PROVE  IsBuffer(buf') /\ UNCHANGED <<arg_placeholder, arguments>> /\ HandedTo
    <2>1. /\ buf' = buffer_put(b, NUL) /\ token' = tokenizer_token(buffer_put(b, NUL), 0)
          /\ turn' = "mode" /\ UNCHANGED <<arg_placeholder, arguments>>
      BY <1>3 DEF HandOver
    <2>2. IsBuffer(buf') /\ StringAt(buf', token') = c_string(s)
      BY <1>3, <2>1, HandedOver
    <2>3. buffer' = <<>> /\ tokens' = Append(tokens, c_string(s)) /\ c_string(s) \in Seq(Byte)
      BY <1>1, <1>3, TokenEnds
    <2> QED
      BY <2>1, <2>2, <2>3 DEF HandedTo, Text
  <1>4. CASE StoreByte /\ ~Exit
    <2> DEFINE ch == input[consumed + 1]
    <2>1. /\ ReadByte
          /\ IF is_delimiter(ch) THEN HandOver(buf) ELSE Keep(buffer_put(buf, ch))
      BY <1>4 DEF StoreByte
    <2>2. CASE is_delimiter(ch)
      <3>1. delim_tokenizer_end_token(buffer) /\ HandOver(buf)
        BY <2>1, <2>2 DEF ReadByte
      <3> QED
        BY <1>1, <1>3, <3>1
    <2>3. CASE ~is_delimiter(ch)
      <3>1. /\ buffer' = Append(buffer, ch) /\ UNCHANGED tokens
            /\ Keep(buffer_put(buf, ch))
        BY <2>1, <2>3 DEF ReadByte
      <3>2. consumed + 1 \in 1..Len(input)
        BY <1>1, <2>1 DEF ReadByte
      <3>3. ch \in Byte
        BY <1>1, <3>2, ElementOfSeq
      <3> HIDE DEF ch
      <3>4. IsBuffer(buffer_put(buf, ch)) /\ Holds(buffer_put(buf, ch), Append(buffer, ch))
        BY <1>1, <3>3, PutHolds
      <3> QED
        BY <1>1, <3>1, <3>4 DEF Keep, Kept
    <2> QED
      BY <1>1, <2>2, <2>3
  <1>5. CASE StoreEof /\ ~Exit
    <2>1. buf.pos = Len(buffer) /\ Len(buffer) \in Nat /\ (buffer = <<>> <=> Len(buffer) = 0)
      BY <1>1, LenProperties, EmptySeq DEF Holds
    <2>2. CASE (read_failed \/ buf.pos = 0) /\ ReadEof /\ Keep(buf)
      <3>1. UNCHANGED <<buffer, tokens>>
        BY <2>1, <2>2 DEF ReadEof
      <3> QED
        BY <1>1, <2>2, <3>1 DEF Keep, Kept
    <2>3. CASE ~read_failed /\ buf.pos > 0 /\ ReadEof /\ HandOver(BufferStripped)
      <3>1. buffer # <<>> /\ delim_tokenizer_end_token(strip_trailing_newline(buffer))
        BY <2>1, <2>3 DEF ReadEof
      <3>2. /\ IsBuffer(buffer_drop_last(buf)) /\ Holds(buffer_drop_last(buf), Front(buffer))
            /\ buf.buf[buf.pos - 1] = Last(buffer)
        BY <1>1, <3>1, DropHolds
      <3>3. IsBuffer(BufferStripped) /\ Holds(BufferStripped, strip_trailing_newline(buffer))
        BY <1>1, <3>2 DEF BufferStripped, strip_trailing_newline
      <3>4. strip_trailing_newline(buffer) \in Seq(Byte)
        BY <1>1, <3>1, StrippedIsSeq
      <3> QED
        BY <1>1, <1>3, <2>3, <3>1, <3>3, <3>4
    <2> QED
      BY <1>1, <1>5, <2>2, <2>3 DEF StoreEof
  <1> QED
    BY <1>2, <1>4, <1>5

LEMMA BytesMakeStrings == Seq(Byte) \subseteq String
  <1>1. Byte \subseteq Int
    BY DEF Byte
  <1> HIDE DEF Byte
  <1> SUFFICES ASSUME NEW s \in Seq(Byte)
               PROVE  s \in Seq(Int)
    BY DEF String
  <1>2. Len(s) \in Nat /\ s \in [1..Len(s) -> Byte]
    BY LenProperties
  <1>3. s \in [1..Len(s) -> Int]
    BY <1>1, <1>2
  <1> QED
    BY <1>2, <1>3

LEMMA SequencesOfMore ==
  ASSUME NEW S, NEW T, S \subseteq T, NEW s \in Seq(S)
  PROVE  s \in Seq(T)
  <1>1. Len(s) \in Nat /\ s \in [1..Len(s) -> S]
    BY LenProperties
  <1>2. s \in [1..Len(s) -> T]
    BY <1>1
  <1> QED
    BY <1>1, <1>2

LEMMA FixedAreStrings ==
  /\ FixedArgs \in Seq(Seq(Byte)) /\ FixedArgs \in Seq(String) /\ Len(FixedArgs) \in Nat
  /\ DOMAIN FixedArgs = 1..Len(FixedArgs)
  /\ \A i \in 1..Len(FixedArgs) : FixedArgs[i] \in Seq(Byte) /\ FixedArgs[i] \in String
  <1>1. FixedArgs \in Seq(Seq(Byte))
    BY StorageAssumption DEF Byte
  <1>2. FixedArgs \in Seq(String)
    BY <1>1, BytesMakeStrings, SequencesOfMore
  <1>3. Len(FixedArgs) \in Nat /\ DOMAIN FixedArgs = 1..Len(FixedArgs)
    BY <1>1, LenProperties
  <1>4. \A i \in 1..Len(FixedArgs) : FixedArgs[i] \in Seq(Byte)
    BY <1>1, ElementOfSeq
  <1> QED
    BY <1>1, <1>2, <1>3, <1>4, BytesMakeStrings

\* The argument in hand.
LEMMA TextIsString ==
  ASSUME DelimTypes, TextInv, turn = "mode"
  PROVE  /\ Text = Last(tokens) /\ Text \in Seq(Byte) /\ Text \in String
         /\ buffer = <<>> /\ tokens # <<>>
  <1>1. Text = Last(tokens) /\ tokens # <<>> /\ tokens \in Seq(Seq(Byte)) /\ buffer = <<>>
    BY DEF TextInv, DelimTypes
  <1>2. Last(tokens) \in Seq(Byte)
    BY <1>1, FrontAndLast
  <1> QED
    BY <1>1, <1>2, BytesMakeStrings

\* What -I makes of an argument, by its place on the command line.
ReplacedArgument(i) ==
  IF i = 1 THEN FixedArgs[i] ELSE str_replace(FixedArgs[i], arg_placeholder, Text)

LEMMA OneReplaced ==
  ASSUME DelimTypes, MemoryTypes, TextInv, turn = "mode", arg_placeholder # NULL,
         NEW i \in 1..Len(FixedArgs)
  PROVE  /\ ReplacedArgument(i) \in String
         /\ ReplacedArgument(i) = CommandOf(Last(tokens))[i]
  <1>1. Text = Last(tokens) /\ Text \in Seq(Byte)
    BY TextIsString
  <1>2. /\ FixedArgs[i] \in Seq(Byte) /\ FixedArgs[i] \in String
        /\ DOMAIN FixedArgs = 1..Len(FixedArgs)
    BY FixedAreStrings
  <1>3. arg_placeholder \in Seq(Byte)
    BY StorageAssumption DEF MemoryTypes, Byte
  <1> DEFINE arg == FixedArgs[i]
  <1> HIDE DEF arg
  <1>4. ASSUME NEW s \in Seq(Byte)
        PROVE  /\ str_replace(s, arg_placeholder, Text) \in Seq(Byte)
               /\ str_replace(s, arg_placeholder, Text) = ReplacedIn(s, arg_placeholder, Text)
    BY <1>1, <1>3, ScanReplaces
  <1>5. CommandOf(Last(tokens))[i] =
          IF i = 1 THEN FixedArgs[1] ELSE ReplacedIn(FixedArgs[i], arg_placeholder, Last(tokens))
    BY <1>2 DEF CommandOf
  <1> QED
    BY <1>1, <1>2, <1>4, <1>5, BytesMakeStrings DEF ReplacedArgument

LEMMA ReplaceOneAdds ==
  ASSUME DelimTypes, FirstArraysFit, MemoryTypes, TextInv, ReplaceOne, ~Stops
  PROVE  /\ turn = "mode" /\ arg_placeholder # NULL
         /\ UNCHANGED <<vars, buf, token, arg_placeholder, input_args, turn, executed>>
         /\ IsArgs(replaced_fixed_args')
         /\ replaced_fixed_args'.count = replaced_fixed_args.count + 1
         /\ replaced_fixed_args.count + 1 \in 1..Len(FixedArgs)
         /\ replaced_fixed_args'.capacity >= Len(FixedArgs)
         /\ Strings(replaced_fixed_args') =
              Append(Strings(replaced_fixed_args),
                     CommandOf(Last(tokens))[replaced_fixed_args.count + 1])
         /\ ~command_args_add_exits(replaced_fixed_args)
         /\ \E arg \in String : replaced_fixed_args' = command_args_add(replaced_fixed_args, arg)
  <1> DEFINE a == replaced_fixed_args
             i == a.count + 1
  <1>1. /\ turn = "mode" /\ arg_placeholder # NULL /\ i <= Len(FixedArgs)
        /\ replaced_fixed_args' = command_args_add(a, ReplacedArgument(i))
        /\ UNCHANGED <<vars, buf, token, arg_placeholder, input_args, turn, executed>>
    BY DEF ReplaceOne, ReplacedArgument, Stops
  <1>2. /\ IsArgs(a) /\ a.count \in Nat /\ a.capacity \in Nat
        /\ a.capacity >= Len(FixedArgs) /\ Len(FixedArgs) \in Nat
    BY FixedAreStrings DEF MemoryTypes, IsArgs
  <1>3. i \in 1..Len(FixedArgs)
    BY <1>1, <1>2
  <1>4. ReplacedArgument(i) \in String /\ ReplacedArgument(i) = CommandOf(Last(tokens))[i]
    BY <1>1, <1>3, OneReplaced
  <1>5. ~command_args_add_exits(a)
    BY <1>1, <1>2 DEF command_args_add_exits
  <1> DEFINE arg == ReplacedArgument(i)
  <1> HIDE DEF a, arg
  <1>6. /\ IsArgs(command_args_add(a, arg))
        /\ command_args_add(a, arg).count = a.count + 1
        /\ command_args_add(a, arg).capacity >= a.capacity
        /\ Strings(command_args_add(a, arg)) = Append(Strings(a), arg)
    BY <1>2, <1>4, <1>5, AddedArgument DEF FirstArraysFit, arg
  <1>7. command_args_add(a, arg).capacity \in Nat
    BY <1>6 DEF IsArgs
  <1>8. arg \in String
    BY <1>4 DEF arg
  <1>9. replaced_fixed_args' = command_args_add(a, arg)
    BY <1>1 DEF arg
  <1> QED
    BY <1>1, <1>2, <1>3, <1>4, <1>5, <1>6, <1>7, <1>8, <1>9 DEF a, arg

\* A command is executed, and the history has it.
LEMMA OneMoreExecuted ==
  ASSUME MemoryTypes, executed' = Append(executed, build_exec_args)
  PROVE  /\ executed' \in Seq(Seq(String)) /\ build_exec_args \in Seq(String)
         /\ Len(executed) \in Nat /\ Len(executed') = Len(executed) + 1
         /\ executed'[Len(executed) + 1] = build_exec_args
         /\ \A k \in 1..Len(executed) : executed'[k] = executed[k]
  <1>1. FixedArgs \in Seq(String) /\ executed \in Seq(Seq(String))
    BY FixedAreStrings DEF MemoryTypes
  <1>2. /\ Strings(input_args) \in Seq(String) /\ Strings(replaced_fixed_args) \in Seq(String)
    BY StringsOf DEF MemoryTypes
  <1>3. build_exec_args \in Seq(String)
    BY <1>1, <1>2, ConcatProperties DEF build_exec_args
  <1> HIDE DEF build_exec_args
  <1> QED
    BY <1>1, <1>3, AppendProperties, LenProperties

\* The argument in hand can be forgotten only when it has been copied.
LEMMA NextCallForgets ==
  ASSUME DelimTypes, MemoryTypes, TextInv, turn = "mode", NextCall
  PROVE  /\ IsBuffer(buf') /\ turn' = "tokenizer" /\ arg_placeholder' = arg_placeholder
         /\ tokens' = tokens /\ TextInv'
  <1>1. buffer = <<>> /\ buffer' = buffer /\ tokens' = tokens
    BY TextIsString DEF NextCall, vars
  <1>2. IsBuffer(buffer_reset(buf)) /\ Holds(buffer_reset(buf), <<>>)
    BY ResetHolds DEF MemoryTypes
  <1> QED
    BY <1>1, <1>2 DEF NextCall, TextInv

LEMMA MemoryStep ==
  ASSUME DelimTypes, FirstArraysFit, MemoryTypes, TextInv, [StorageNext]_storageVars
  PROVE  MemoryTypes' /\ TextInv'
  <1>1. CASE UNCHANGED storageVars
    <2>1. UNCHANGED <<buf, token, arg_placeholder, input_args, replaced_fixed_args, turn,
                      executed, buffer, tokens>>
      BY <1>1 DEF storageVars, vars
    <2>2. Text' = Text
      BY <2>1 DEF Text
    <2> QED
      BY <2>1, <2>2 DEF MemoryTypes, TextInv
  <1>2. CASE Stops
    BY <1>2 DEF Stops, Exit, Overrun, Stop, arguments, MemoryTypes, TextInv
  <1>3. CASE StoreByte \/ StoreEof
    <2>1. /\ IsBuffer(buf') /\ UNCHANGED <<arg_placeholder, arguments>>
          /\ \/ turn' = "exited" /\ UNCHANGED <<vars, buf>>
             \/ Kept
             \/ HandedTo
      BY <1>3, TokenizerStep
    <2>2. MemoryTypes'
      BY <2>1 DEF arguments, MemoryTypes, Kept, HandedTo
    <2>3. CASE HandedTo
      <3>1. tokens' = Append(tokens, Text') /\ Text' \in Seq(Byte) /\ tokens \in Seq(Seq(Byte))
        BY <2>3 DEF HandedTo, DelimTypes
      <3>2. tokens' # <<>> /\ Last(tokens') = Text'
        BY <3>1, FrontOfAppend, AppendProperties
      <3> QED
        BY <2>2, <2>3, <3>2 DEF HandedTo, TextInv
    <2> QED
      BY <2>1, <2>2, <2>3 DEF Kept, TextInv
  <1>4. CASE AddInputArgument /\ ~Stops
    <2>1. /\ turn = "mode" /\ ~command_args_add_exits(input_args)
          /\ input_args' = command_args_add(input_args, Text)
          /\ NextCall /\ UNCHANGED <<replaced_fixed_args, executed>>
      BY <1>4 DEF AddInputArgument, Stops
    <2>2. Text \in String /\ IsArgs(input_args)
      BY <2>1, TextIsString DEF MemoryTypes
    <2>3. IsArgs(input_args')
      BY <2>1, <2>2, AddedArgument DEF FirstArraysFit
    <2> QED
      BY <2>1, <2>3, NextCallForgets DEF MemoryTypes
  <1>5. CASE ExecuteInput
    <2>1. /\ executed' = Append(executed, build_exec_args) /\ input_args' = NoInput
          /\ UNCHANGED <<vars, buf, token, arg_placeholder, replaced_fixed_args, turn>>
      BY <1>5 DEF ExecuteInput
    <2>2. executed' \in Seq(Seq(String))
      BY <2>1, OneMoreExecuted
    <2>3. IsArgs(NoInput)
      BY StorageAssumption, CreatedArgs DEF FirstArraysFit, NoInput
    <2>4. Text' = Text
      BY <2>1 DEF Text
    <2> QED
      BY <2>1, <2>2, <2>3, <2>4 DEF MemoryTypes, TextInv, vars
  <1>6. CASE ReplaceOne /\ ~Stops
    <2>1. /\ UNCHANGED <<vars, buf, token, arg_placeholder, input_args, turn, executed>>
          /\ IsArgs(replaced_fixed_args') /\ replaced_fixed_args'.count <= Len(FixedArgs)
          /\ replaced_fixed_args'.capacity >= Len(FixedArgs)
      BY <1>6, ReplaceOneAdds
    <2>2. Text' = Text
      BY <2>1 DEF Text
    <2> QED
      BY <2>1, <2>2 DEF MemoryTypes, TextInv, vars
  <1>7. CASE ExecuteReplaced
    <2>1. /\ turn = "mode" /\ executed' = Append(executed, build_exec_args)
          /\ replaced_fixed_args' = NoReplaced /\ NextCall /\ UNCHANGED input_args
      BY <1>7 DEF ExecuteReplaced
    <2>2. executed' \in Seq(Seq(String))
      BY <2>1, OneMoreExecuted
    <2>3. /\ IsArgs(NoReplaced) /\ NoReplaced.count = 0
          /\ NoReplaced.capacity = Len(FixedArgs) /\ Len(FixedArgs) \in Nat
      BY FixedAreStrings, CreatedArgs DEF FirstArraysFit, NoReplaced
    <2> QED
      BY <2>1, <2>2, <2>3, NextCallForgets DEF MemoryTypes
  <1>8. CASE StorageDone
    BY <1>1, <1>8 DEF StorageDone
  <1> QED
    BY <1>1, <1>2, <1>3, <1>4, <1>5, <1>6, <1>7, <1>8 DEF StorageNext

LEMMA MemoryInitially ==
  ASSUME FirstArraysFit, StorageInit
  PROVE  MemoryTypes /\ TextInv
  <1>1. /\ turn = "tokenizer" /\ arg_placeholder \in Placeholders /\ executed = <<>>
        /\ input_args = NoInput /\ replaced_fixed_args = NoReplaced /\ buffer = <<>>
    BY DEF StorageInit, Init
  <1>2. PICK size \in Nat : buf = buffer_create(size)
    BY StorageAssumption DEF StorageInit
  <1>3. IsBuffer(buf) /\ Holds(buf, <<>>)
    <2> DEFINE cells == [i \in 0..size |-> Terminator]
    <2>1. cells \in [0..size -> Cell]
      BY DEF Cell, Byte, Terminator
    <2> HIDE DEF cells
    <2>2. cells \in Blocks
      BY <2>1 DEF Blocks
    <2>3. buf = [buf |-> cells, block |-> 0, sz |-> size, pos |-> 0]
      BY <1>2 DEF buffer_create, cells
    <2> QED
      BY <2>1, <2>2, <2>3 DEF IsBuffer, Holds
  <1>4. IsArgs(NoInput)
    BY StorageAssumption, CreatedArgs DEF FirstArraysFit, NoInput
  <1>5. /\ IsArgs(NoReplaced) /\ NoReplaced.count = 0
        /\ NoReplaced.capacity = Len(FixedArgs) /\ Len(FixedArgs) \in Nat
    BY FixedAreStrings, CreatedArgs DEF FirstArraysFit, NoReplaced
  <1>6. executed \in Seq(Seq(String))
    BY <1>1
  <1> QED
    BY <1>1, <1>3, <1>4, <1>5, <1>6 DEF MemoryTypes, TextInv

LEMMA MemoryInvariant ==
  ASSUME FirstArraysFit
  PROVE  StorageSpec => [](DelimTypes /\ MemoryTypes /\ TextInv)
  <1>1. StorageInit => MemoryTypes /\ TextInv
    BY MemoryInitially
  <1>2. DelimTypes /\ MemoryTypes /\ TextInv /\ [StorageNext]_storageVars
          => MemoryTypes' /\ TextInv'
    BY MemoryStep
  <1> QED
    BY <1>1, <1>2, StorageTokenizes, DelimTypesInvariant, PTL DEF StorageSpec

\* Without -I: every argument is where it should be, and was put there once.
InputInv ==
  arg_placeholder = NULL /\ turn \in {"tokenizer", "mode"} =>
    /\ Given \o Strings(input_args) \o InHand = tokens
    /\ \A k \in DOMAIN executed : IsPrefix(FixedArgs, executed[k])

\* CommandOf, with the placeholder as a parameter.
CommandWith(placeholder, line) ==
  [i \in DOMAIN FixedArgs |->
     IF i = 1 THEN FixedArgs[1] ELSE ReplacedIn(FixedArgs[i], placeholder, line)]

\* The arguments of a are those of the command; each line has made its command.
Replacing(a, placeholder, line) ==
  \A i \in 1 .. a.count : Strings(a)[i] = CommandWith(placeholder, line)[i]

CommandsMade(commands, placeholder, lines) ==
  \A k \in DOMAIN commands : commands[k] = CommandWith(placeholder, lines[k])

\* With -I: the line in hand has been put into the arguments replaced so far, and
\* each line has made its command.
LineInv ==
  arg_placeholder # NULL =>
    /\ input_args = NoInput
    /\ turn \in {"tokenizer", "mode"} => Len(executed) + Len(InHand) = Len(tokens)
    /\ turn = "tokenizer" => replaced_fixed_args.count = 0
    /\ turn = "mode" =>
         Replacing(replaced_fixed_args, arg_placeholder, Last(tokens))
    /\ CommandsMade(executed, arg_placeholder, tokens)

GivenOf(commands) ==
  [k \in DOMAIN commands |->
     SubSeq(commands[k], Len(FixedArgs) + 1, Len(commands[k]))]

LEMMA GivenAreStrings ==
  ASSUME NEW commands \in Seq(Seq(String))
  PROVE  GivenOf(commands) \in Seq(Seq(String)) /\ Len(GivenOf(commands)) = Len(commands)
  <1>1. /\ Len(commands) \in Nat /\ DOMAIN commands = 1..Len(commands)
        /\ Len(FixedArgs) \in Nat
    BY LenProperties, FixedAreStrings
  <1>2. ASSUME NEW k \in 1..Len(commands)
        PROVE  SubSeq(commands[k], Len(FixedArgs) + 1, Len(commands[k])) \in Seq(String)
    <2>1. commands[k] \in Seq(String)
      BY <1>1, ElementOfSeq
    <2> DEFINE c == commands[k]
    <2> HIDE DEF c
    <2>2. c \in Seq(String) /\ Len(c) \in Nat
      BY <2>1, LenProperties DEF c
    <2>3. \A i \in Len(FixedArgs) + 1 .. Len(c) : i \in 1..Len(c)
      BY <1>1, <2>2
    <2>4. \A i \in Len(FixedArgs) + 1 .. Len(c) : c[i] \in String
      BY <2>2, <2>3, ElementOfSeq
    <2>5. SubSeq(c, Len(FixedArgs) + 1, Len(c)) \in Seq(String)
      <3>1. Len(FixedArgs) + 1 \in Int /\ Len(c) \in Int
        BY <1>1, <2>2
      <3> QED
        BY <2>4, <3>1, SubSeqProperties
    <2> QED
      BY <2>5 DEF c
  <1> DEFINE given == GivenOf(commands)
             n == Len(commands)
             T == Seq(String)
  <1>3. given \in [1..n -> T] /\ n \in Nat
    BY <1>1, <1>2 DEF GivenOf
  <1> HIDE DEF given, n, T
  <1>4. given \in Seq(T) /\ Len(given) = n
    BY <1>3
  <1> QED
    BY <1>4 DEF given, n, T

\* A command that is executed gets its arguments after all of the earlier ones.
LEMMA GivenOneMore ==
  ASSUME NEW commands \in Seq(Seq(String)), NEW more \in Seq(String)
  PROVE  FlattenSeq(GivenOf(Append(commands, FixedArgs \o more))) =
           FlattenSeq(GivenOf(commands)) \o more
  <1> DEFINE n == Len(commands)
             cmd == FixedArgs \o more
             later == Append(commands, cmd)
             old == GivenOf(commands)
             new == GivenOf(later)
  <1>1. n \in Nat /\ DOMAIN commands = 1..n /\ FixedArgs \in Seq(String)
    BY LenProperties, FixedAreStrings
  <1>2. cmd \in Seq(String) /\ SubSeq(cmd, Len(FixedArgs) + 1, Len(cmd)) = more
    BY <1>1, ConcatProperties, RestOfConcat
  <1> HIDE DEF cmd
  <1>3. /\ later \in Seq(Seq(String)) /\ Len(later) = n + 1 /\ later[n + 1] = cmd
        /\ \A k \in 1..n : later[k] = commands[k]
    BY <1>2, AppendProperties
  <1> HIDE DEF n, later
  <1>4. DOMAIN later = 1..(n + 1)
    BY <1>3, LenProperties
  <1>5. /\ n + 1 \in 1..(n + 1) /\ \A k \in 1..n : k \in 1..(n + 1)
        /\ \A k \in 1..(n + 1) : k \in 1..n \/ k = n + 1
    BY <1>1
  <1>6. old \in Seq(Seq(String)) /\ Len(old) = n /\ new \in Seq(Seq(String)) /\ Len(new) = n + 1
    BY <1>3, GivenAreStrings DEF n
  <1>7. new[n + 1] = more
    BY <1>2, <1>3, <1>4, <1>5 DEF GivenOf
  <1>8. \A k \in 1..n : new[k] = old[k]
    BY <1>1, <1>3, <1>4, <1>5 DEF GivenOf
  <1> HIDE DEF old, new
  <1>9. /\ Append(old, more) \in Seq(Seq(String)) /\ Len(Append(old, more)) = n + 1
        /\ Append(old, more)[n + 1] = more
        /\ \A k \in 1..n : Append(old, more)[k] = old[k]
    BY <1>6, AppendProperties
  <1>10. new = Append(old, more)
    BY <1>5, <1>6, <1>7, <1>8, <1>9, SeqEqual
  <1>11. FlattenSeq(Append(old, more)) = FlattenSeq(old) \o more
    BY <1>6, FlattenOneMore
  <1> QED
    BY <1>10, <1>11 DEF old, new, later, cmd

LEMMA InputStep ==
  ASSUME DelimTypes, FirstArraysFit, MemoryTypes, TextInv, InputInv,
         [StorageNext]_storageVars
  PROVE  InputInv'
  <1> DEFINE G == Given
             I == Strings(input_args)
  <1>1. /\ I \in Seq(String) /\ executed \in Seq(Seq(String)) /\ IsArgs(input_args)
        /\ tokens \in Seq(Seq(Byte)) /\ FixedArgs \in Seq(String)
    BY StringsOf, FixedAreStrings DEF MemoryTypes, DelimTypes
  <1>2. G = FlattenSeq(GivenOf(executed)) /\ Given' = FlattenSeq(GivenOf(executed'))
    BY DEF Given, GivenOf
  <1>3. G \in Seq(String)
    BY <1>1, <1>2, GivenAreStrings, FlattenIsSeq
  <1>4. G \o I \in Seq(String) /\ (G \o I) \o <<>> = G \o I
    BY <1>1, <1>3, ConcatProperties, ConcatEmptySeq
  <1> SUFFICES ASSUME arg_placeholder' = NULL, turn' \in {"tokenizer", "mode"}
               PROVE  /\ Given' \o Strings(input_args') \o InHand' = tokens'
                      /\ \A k \in DOMAIN executed' : IsPrefix(FixedArgs, executed'[k])
    BY DEF InputInv
  <1>5. UNCHANGED arg_placeholder
    BY DEF StorageNext, storageVars, StoreByte, StoreEof, Exit, Overrun, Stop, Keep, HandOver,
           AddInputArgument, NextCall, ExecuteInput, ReplaceOne, ExecuteReplaced, StorageDone
  <1>6. turn \in {"tokenizer", "mode"} =>
          (G \o I) \o InHand = tokens /\ \A k \in DOMAIN executed : IsPrefix(FixedArgs, executed[k])
    BY <1>5 DEF InputInv
  <1>7. CASE UNCHANGED storageVars
    <2>1. UNCHANGED <<buf, token, input_args, turn, executed, tokens>>
      BY <1>7 DEF storageVars, vars
    <2>2. InHand' = InHand /\ Given' = G
      BY <1>2, <2>1 DEF InHand, Text
    <2> QED
      BY <1>6, <2>1, <2>2
  <1>8. CASE Stops
    BY <1>8 DEF Stops, Exit, Overrun, Stop
  <1>9. CASE StoreByte \/ StoreEof
    <2>1. UNCHANGED <<input_args, executed>> /\ turn = "tokenizer" /\ (Kept \/ HandedTo)
      BY <1>9, TokenizerStep DEF arguments
    <2>2. InHand = <<>> /\ Given' = G
      BY <1>2, <2>1 DEF InHand
    <2>3. G \o I = tokens
      BY <1>4, <1>6, <2>1, <2>2
    <2>4. CASE Kept
      <3>1. InHand' = <<>> /\ tokens' = tokens
        BY <2>4 DEF Kept, InHand
      <3> QED
        BY <1>6, <2>1, <2>2, <3>1
    <2>5. CASE HandedTo
      <3>1. InHand' = <<Text'>> /\ tokens' = Append(tokens, Text') /\ Text' \in Seq(Byte)
        BY <2>5 DEF HandedTo, InHand
      <3>2. tokens' = tokens \o <<Text'>>
        BY <1>1, <3>1, AppendIsConcat
      <3> HIDE DEF G, I
      <3> QED
        BY <1>6, <2>1, <2>2, <2>3, <3>1, <3>2 DEF I
    <2> QED
      BY <2>1, <2>4, <2>5
  <1>10. CASE AddInputArgument /\ ~Stops
    <2>1. /\ turn = "mode" /\ ~command_args_add_exits(input_args)
          /\ input_args' = command_args_add(input_args, Text)
          /\ turn' = "tokenizer" /\ UNCHANGED <<tokens, executed>>
      BY <1>10 DEF AddInputArgument, NextCall, Stops, vars
    <2>2. Text \in String /\ InHand = <<Text>> /\ InHand' = <<>> /\ Given' = G
      BY <1>2, <2>1, TextIsString DEF InHand
    <2>3. Strings(input_args') = Append(I, Text)
      BY <1>1, <2>1, <2>2, AddedArgument DEF FirstArraysFit
    <2>4. /\ G \o Append(I, Text) = Append(G \o I, Text)
          /\ Append(G \o I, Text) = (G \o I) \o <<Text>>
          /\ Append(G \o I, Text) \in Seq(String)
      <3>1. I \in Seq(String) /\ G \in Seq(String) /\ G \o I \in Seq(String) /\ Text \in String
        BY <1>1, <1>3, <1>4, <2>2
      <3> HIDE DEF G, I
      <3>2. G \o Append(I, Text) = Append(G \o I, Text)
        BY <3>1, ConcatAppend
      <3>3. Append(G \o I, Text) = (G \o I) \o <<Text>>
        BY <3>1, AppendIsConcat
      <3>4. Append(G \o I, Text) \in Seq(String)
        BY <3>1, AppendProperties
      <3> QED
        BY <3>2, <3>3, <3>4
    <2>5. (G \o I) \o <<Text>> = tokens
      BY <1>6, <2>1, <2>2
    <2> DEFINE new == Append(G \o I, Text)
    <2>6. new = tokens /\ G \o Strings(input_args') = new /\ new \in Seq(String)
      BY <2>3, <2>4, <2>5
    <2> HIDE DEF new, G, I
    <2>7. new \o <<>> = new
      BY <2>6, ConcatEmptySeq
    <2> QED
      BY <1>6, <2>1, <2>2, <2>6, <2>7
  <1>11. CASE ExecuteInput
    <2>1. /\ executed' = Append(executed, build_exec_args) /\ input_args' = NoInput
          /\ turn \in {"tokenizer", "mode"}
          /\ UNCHANGED <<tokens, buf, token, arg_placeholder, turn>>
      BY <1>11 DEF ExecuteInput, vars
    <2>2. build_exec_args = FixedArgs \o I
      BY <1>5 DEF build_exec_args
    <2>3. Given' = G \o I
      BY <1>1, <1>2, <2>1, <2>2, GivenOneMore
    <2>4. Strings(input_args') = <<>>
      BY <2>1, StorageAssumption, CreatedArgs DEF FirstArraysFit, NoInput
    <2>5. InHand' = InHand
      BY <2>1 DEF InHand, Text
    <2>6. Given' \o Strings(input_args') \o InHand' = tokens'
      <3>1. Given' \o Strings(input_args') = G \o I
        BY <1>4, <2>3, <2>4
      <3> HIDE DEF G, I
      <3> QED
        BY <1>6, <2>1, <2>5, <3>1
    <2>7. ASSUME NEW k \in DOMAIN executed'
          PROVE  IsPrefix(FixedArgs, executed'[k])
      <3>1. /\ executed' \in Seq(Seq(String)) /\ Len(executed) \in Nat
            /\ Len(executed') = Len(executed) + 1
            /\ executed'[Len(executed) + 1] = build_exec_args
            /\ \A j \in 1..Len(executed) : executed'[j] = executed[j]
        BY <2>1, OneMoreExecuted
      <3>2. DOMAIN executed' = 1 .. Len(executed) + 1 /\ DOMAIN executed = 1..Len(executed)
        BY <1>1, <3>1, LenProperties
      <3>3. CASE k = Len(executed) + 1
        <4>1. IsPrefix(FixedArgs, FixedArgs \o I)
          BY <1>1, ConcatHasPrefix
        <4> QED
          BY <2>2, <3>1, <3>3, <4>1
      <3>4. CASE k # Len(executed) + 1
        <4>1. k \in 1..Len(executed)
          BY <3>1, <3>2, <3>4
        <4> QED
          BY <1>6, <2>1, <3>1, <3>2, <4>1
      <3> QED
        BY <3>3, <3>4
    <2> QED
      BY <2>6, <2>7
  <1>12. CASE ReplaceOne \/ ExecuteReplaced
    BY <1>5, <1>12 DEF ReplaceOne, ExecuteReplaced
  <1>13. CASE StorageDone
    BY <1>7, <1>13 DEF StorageDone
  <1> QED
    BY <1>7, <1>8, <1>9, <1>10, <1>11, <1>12, <1>13 DEF StorageNext

\* What has been put together when every argument is there is the command.
LEMMA AllReplaced ==
  ASSUME NEW a, IsArgs(a), a.count = Len(FixedArgs), NEW placeholder, NEW line,
         Replacing(a, placeholder, line)
  PROVE  Strings(a) = CommandWith(placeholder, line)
  <1> DEFINE n == Len(FixedArgs)
  <1>1. n \in Nat /\ DOMAIN FixedArgs = 1..n
    BY FixedAreStrings
  <1>2. Strings(a) \in Seq(String) /\ Len(Strings(a)) = n
    BY StringsOf
  <1>3. Strings(a) = [i \in 1..n |-> Strings(a)[i]]
    BY <1>2, LenProperties
  <1>4. CommandWith(placeholder, line) = [i \in 1..n |-> CommandWith(placeholder, line)[i]]
    BY <1>1 DEF CommandWith
  <1> DEFINE s == Strings(a)
             c == CommandWith(placeholder, line)
  <1>5. \A i \in 1..n : s[i] = c[i]
    BY DEF Replacing
  <1> HIDE DEF s, c, n
  <1>6. s = [i \in 1..n |-> s[i]] /\ c = [i \in 1..n |-> c[i]]
    BY <1>3, <1>4 DEF s, c
  <1> QED
    BY <1>5, <1>6 DEF s, c

LEMMA LineStep ==
  ASSUME DelimTypes, FirstArraysFit, MemoryTypes, TextInv, LineInv,
         [StorageNext]_storageVars
  PROVE  LineInv'
  <1> DEFINE a == replaced_fixed_args
             p == arg_placeholder
  <1>1. UNCHANGED arg_placeholder
    BY DEF StorageNext, storageVars, StoreByte, StoreEof, Exit, Overrun, Stop, Keep, HandOver,
           AddInputArgument, NextCall, ExecuteInput, ReplaceOne, ExecuteReplaced, StorageDone
  <1> SUFFICES ASSUME p # NULL
               PROVE  /\ input_args' = NoInput
                      /\ turn' \in {"tokenizer", "mode"} => Len(executed') + Len(InHand') = Len(tokens')
                      /\ turn' = "tokenizer" => replaced_fixed_args'.count = 0
                      /\ turn' = "mode" => Replacing(replaced_fixed_args', p, Last(tokens'))
                      /\ CommandsMade(executed', p, tokens')
    BY <1>1 DEF LineInv
  <1>2. /\ input_args = NoInput
        /\ turn \in {"tokenizer", "mode"} => Len(executed) + Len(InHand) = Len(tokens)
        /\ turn = "tokenizer" => a.count = 0
        /\ turn = "mode" => Replacing(a, p, Last(tokens))
        /\ CommandsMade(executed, p, tokens)
    BY DEF LineInv
  <1>3. /\ tokens \in Seq(Seq(Byte)) /\ Len(tokens) \in Nat
        /\ executed \in Seq(Seq(String)) /\ Len(executed) \in Nat
        /\ DOMAIN executed = 1..Len(executed) /\ IsArgs(a)
    BY LenProperties DEF MemoryTypes, DelimTypes
  <1>4. /\ input_args.count = 0 /\ Strings(input_args) = <<>>
    BY <1>2, StorageAssumption, CreatedArgs DEF FirstArraysFit, NoInput
  <1>5. /\ turn = "mode" => Len(InHand) = 1
        /\ turn # "mode" => Len(InHand) = 0
        /\ turn' = "mode" => Len(InHand') = 1
        /\ turn' # "mode" => Len(InHand') = 0
    BY DEF InHand
  <1>6. CASE UNCHANGED storageVars
    <2>1. UNCHANGED <<input_args, replaced_fixed_args, turn, executed, tokens>>
      BY <1>6 DEF storageVars, vars
    <2> QED
      BY <1>2, <1>5, <2>1
  <1>7. CASE Stops
    BY <1>2, <1>7 DEF Stops, Exit, Overrun, Stop, arguments, vars
  <1>8. CASE StoreByte \/ StoreEof
    <2>1. /\ UNCHANGED arguments /\ turn = "tokenizer"
          /\ \/ turn' = "exited" /\ UNCHANGED <<vars, buf>>
             \/ Kept
             \/ HandedTo
      BY <1>8, TokenizerStep
    <2>2. CASE turn' = "exited" /\ UNCHANGED vars
      BY <1>2, <2>1, <2>2 DEF arguments, vars
    <2>3. CASE Kept
      BY <1>2, <1>5, <2>1, <2>3 DEF arguments, Kept
    <2>4. CASE HandedTo
      <3>1. /\ turn' = "mode" /\ tokens' = Append(tokens, Text') /\ Text' \in Seq(Byte)
            /\ UNCHANGED <<input_args, replaced_fixed_args, executed>> /\ a.count = 0
        BY <1>2, <2>1, <2>4 DEF HandedTo, arguments
      <3>2. /\ Len(tokens') = Len(tokens) + 1
            /\ \A k \in 1..Len(tokens) : tokens'[k] = tokens[k]
        BY <1>3, <3>1, AppendProperties
      <3>3. Len(executed) = Len(tokens)
        BY <1>2, <1>3, <1>5, <2>1
      <3>4. CommandsMade(executed', p, tokens')
        BY <1>2, <1>3, <3>1, <3>2, <3>3 DEF CommandsMade
      <3>5. Len(executed') + Len(InHand') = Len(tokens')
        BY <1>5, <3>1, <3>2, <3>3
      <3>6. Replacing(replaced_fixed_args', p, Last(tokens'))
        BY <3>1 DEF Replacing
      <3> QED
        BY <1>2, <3>1, <3>4, <3>5, <3>6
    <2> QED
      BY <2>1, <2>2, <2>3, <2>4
  <1>9. CASE AddInputArgument \/ ExecuteInput
    BY <1>4, <1>9 DEF AddInputArgument, ExecuteInput
  <1>10. CASE ReplaceOne /\ ~Stops
    <2>1. /\ turn = "mode" /\ UNCHANGED <<vars, input_args, turn, executed>>
          /\ replaced_fixed_args'.count = a.count + 1
          /\ Strings(replaced_fixed_args') =
               Append(Strings(a), CommandOf(Last(tokens))[a.count + 1])
          /\ a.count + 1 \in 1..Len(FixedArgs)
      BY <1>10, ReplaceOneAdds
    <2>2. UNCHANGED tokens /\ CommandOf(Last(tokens)) = CommandWith(p, Last(tokens))
      BY <2>1 DEF vars, CommandOf, CommandWith
    <2> DEFINE next == CommandWith(p, Last(tokens))[a.count + 1]
    <2>3. next \in String
      BY <1>10, <2>1, <2>2, OneReplaced DEF ReplaceOne
    <2>4. Strings(a) \in Seq(String) /\ Len(Strings(a)) = a.count
      BY <1>3, StringsOf
    <2>5. Strings(replaced_fixed_args') = Append(Strings(a), next)
      BY <2>1, <2>2
    <2>6. a.count \in Nat
      BY <1>3 DEF IsArgs
    <2> HIDE DEF next, a
    <2>7. /\ Append(Strings(a), next)[a.count + 1] = next
          /\ \A i \in 1 .. a.count : Append(Strings(a), next)[i] = Strings(a)[i]
      BY <2>3, <2>4, AppendProperties
    <2>8. ASSUME NEW i \in 1 .. a.count + 1
          PROVE  Append(Strings(a), next)[i] = CommandWith(p, Last(tokens))[i]
      <3>1. CASE i = a.count + 1
        BY <2>7, <3>1 DEF next
      <3>2. CASE i # a.count + 1
        <4>1. i \in 1 .. a.count
          BY <2>6, <3>2
        <4> QED
          BY <1>2, <2>1, <2>7, <4>1 DEF Replacing
      <3> QED
        BY <3>1, <3>2
    <2>9. Replacing(replaced_fixed_args', p, Last(tokens'))
      BY <2>1, <2>2, <2>5, <2>8 DEF Replacing
    <2> QED
      BY <1>2, <1>5, <2>1, <2>2, <2>9
  <1>11. CASE ExecuteReplaced
    <2>1. /\ turn = "mode" /\ a.count = Len(FixedArgs)
          /\ executed' = Append(executed, build_exec_args)
          /\ replaced_fixed_args' = NoReplaced /\ NextCall /\ UNCHANGED input_args
      BY <1>11 DEF ExecuteReplaced
    <2>2. turn' = "tokenizer" /\ tokens' = tokens /\ tokens # <<>>
      BY <2>1, TextIsString DEF NextCall, vars
    <2>3. replaced_fixed_args'.count = 0
      BY <2>1, FixedAreStrings, CreatedArgs DEF FirstArraysFit, NoReplaced
    <2>4. Strings(a) = CommandWith(p, Last(tokens))
      <3> HIDE DEF p
      <3> QED
        BY <1>2, <1>3, <2>1, AllReplaced
    <2>5. build_exec_args = Strings(a)
      <3>1. Strings(a) \in Seq(String)
        BY <1>3, StringsOf
      <3>2. build_exec_args = Strings(a) \o <<>>
        BY <1>4 DEF build_exec_args
      <3> QED
        BY <3>1, <3>2, ConcatEmptySeq
    <2>6. /\ executed' \in Seq(Seq(String)) /\ Len(executed') = Len(executed) + 1
          /\ executed'[Len(executed) + 1] = build_exec_args
          /\ \A k \in 1..Len(executed) : executed'[k] = executed[k]
      BY <2>1, OneMoreExecuted
    <2>7. Len(executed) + 1 = Len(tokens)
      BY <1>2, <1>5, <2>1
    <2>8. DOMAIN executed' = 1 .. Len(executed) + 1
      BY <2>6, LenProperties
    <2>9. tokens[Len(executed) + 1] = Last(tokens)
      BY <2>7 DEF Last
    <2>10. ASSUME NEW k \in DOMAIN executed'
           PROVE  executed'[k] = CommandWith(p, tokens'[k])
      <3>1. CASE k = Len(executed) + 1
        BY <2>2, <2>4, <2>5, <2>6, <2>9, <3>1
      <3>2. CASE k # Len(executed) + 1
        <4>1. k \in 1..Len(executed)
          BY <1>3, <2>8, <3>2
        <4> QED
          BY <1>2, <1>3, <2>2, <2>6, <4>1 DEF CommandsMade
      <3> QED
        BY <3>1, <3>2
    <2>11. Len(executed') + Len(InHand') = Len(tokens')
      BY <1>3, <1>5, <2>2, <2>6, <2>7
    <2> QED
      BY <1>2, <2>1, <2>2, <2>3, <2>10, <2>11 DEF CommandsMade
  <1>12. CASE StorageDone
    BY <1>6, <1>12 DEF StorageDone
  <1> QED
    BY <1>6, <1>7, <1>8, <1>9, <1>10, <1>11, <1>12 DEF StorageNext

LEMMA WayInitially ==
  ASSUME FirstArraysFit, StorageInit
  PROVE  InputInv /\ LineInv
  <1>1. /\ turn = "tokenizer" /\ executed = <<>> /\ tokens = <<>>
        /\ input_args = NoInput /\ replaced_fixed_args = NoReplaced
    BY DEF StorageInit, Init
  <1>2. Strings(NoInput) = <<>>
    BY StorageAssumption, CreatedArgs DEF FirstArraysFit, NoInput
  <1>3. NoReplaced.count = 0
    BY FixedAreStrings, CreatedArgs DEF FirstArraysFit, NoReplaced
  <1>4. InHand = <<>> /\ Len(InHand) = 0 /\ Len(executed) = 0 /\ Len(tokens) = 0
    BY <1>1 DEF InHand
  <1>5. Given = <<>>
    <2>1. executed \in Seq(Seq(String)) /\ Len(executed) = 0
      BY <1>1
    <2>2. GivenOf(executed) \in Seq(Seq(String)) /\ Len(GivenOf(executed)) = 0
      BY <2>1, GivenAreStrings
    <2>3. GivenOf(executed) = <<>>
      BY <2>2, EmptySeq
    <2> QED
      BY <2>3, FlattenNone DEF Given, GivenOf
  <1>6. <<>> \o <<>> = <<>>
    OBVIOUS
  <1>7. InputInv
    BY <1>1, <1>2, <1>4, <1>5, <1>6 DEF InputInv
  <1>8. LineInv
    BY <1>1, <1>3, <1>4 DEF LineInv, CommandsMade
  <1> QED
    BY <1>7, <1>8

LEMMA WayInvariant ==
  ASSUME FirstArraysFit
  PROVE  StorageSpec => [](DelimTypes /\ MemoryTypes /\ TextInv /\ InputInv /\ LineInv)
  <1>1. StorageInit => InputInv /\ LineInv
    BY WayInitially
  <1>2. DelimTypes /\ MemoryTypes /\ TextInv /\ InputInv /\ LineInv
          /\ [StorageNext]_storageVars => InputInv' /\ LineInv'
    BY InputStep, LineStep
  <1> QED
    BY <1>1, <1>2, MemoryInvariant, PTL DEF StorageSpec

\* However the buffer grows and moves, and however often it is used again, every
\* argument is what was read when a command gets it, and each one gets to one
\* command, after its fixed arguments (next_delim_token, command_args_add).
THEOREM ArgumentsAreKept ==
  ASSUME FirstArraysFit
  PROVE  StorageSpec => []ArgumentsSurvive
  <1>1. TextInv /\ InputInv /\ LineInv => ArgumentsSurvive
    BY DEF TextInv, InputInv, LineInv, ArgumentsSurvive
  <1> QED
    BY <1>1, WayInvariant, PTL

\* Each command of -I is its fixed arguments with the line in the place of every
\* placeholder, for every line, placeholder and command line
\* (command_replace_args, str_replace).
THEOREM LinesAreReplaced ==
  ASSUME FirstArraysFit
  PROVE  StorageSpec => []LinesReplaced
  <1>1. LineInv => LinesReplaced
    BY DEF LineInv, CommandsMade, CommandWith, CommandOf, LinesReplaced
  <1> QED
    BY <1>1, WayInvariant, PTL

-----------------------------------------------------------------------------
(* Adding up. *)

\* f is what the numbers add up to, for the elements of each part of A.
Summing(f, numbers, A) ==
  f = [s \in SUBSET A |-> IF s = {} THEN 0 ELSE f[s \ {Max(s)}] + numbers[Max(s)]]

LEMMA TotalIs ==
  ASSUME NEW numbers
  PROVE  Total(numbers) =
           (CHOOSE f : Summing(f, numbers, DOMAIN numbers))[DOMAIN numbers]
  BY DEF Total, FoldLeft, MapThenFoldSet, Summing

LEMMA GreatestOf ==
  ASSUME NEW n \in Nat, NEW s \in SUBSET (1..n + 1)
  PROVE  /\ n + 1 \in s => Max(s) = n + 1
         /\ n + 1 \notin s => s \in SUBSET (1..n)
  <1>1. CASE n + 1 \in s
    <2>1. \A m \in s : m \in Int /\ n + 1 >= m
      OBVIOUS
    <2>2. Max(s) \in s /\ \A m \in s : Max(s) >= m
      BY <1>1, <2>1 DEF Max
    <2>3. Max(s) \in Int /\ Max(s) >= n + 1 /\ n + 1 >= Max(s)
      BY <1>1, <2>1, <2>2
    <2> QED
      BY <1>1, <2>3
  <1>2. CASE n + 1 \notin s
    <2>1. ASSUME NEW m \in s
          PROVE  m \in 1..n
      <3>1. m \in 1..n + 1 /\ m # n + 1
        BY <1>2
      <3> QED
        BY <3>1
    <2> QED
      BY <1>2, <2>1
  <1> QED
    BY <1>1, <1>2

LEMMA SummingExists ==
  ASSUME NEW numbers, NEW n \in Nat
  PROVE  \E f : Summing(f, numbers, 1..n)
  <1> DEFINE S == {k \in Nat : \E f : Summing(f, numbers, 1..k)}
  <1>1. 0 \in S
    <2> DEFINE f == [s \in SUBSET (1..0) |-> 0]
    <2>1. \A s \in SUBSET (1..0) : s = {}
      OBVIOUS
    <2>2. Summing(f, numbers, 1..0)
      BY <2>1 DEF Summing
    <2> HIDE DEF f
    <2> QED
      BY <2>2
  <1>2. ASSUME NEW k \in Nat, k \in S
        PROVE  k + 1 \in S
    <2>1. PICK f : Summing(f, numbers, 1..k)
      BY <1>2
    <2> DEFINE A == SUBSET (1..k + 1)
               g == [s \in A |-> IF k + 1 \in s THEN f[s \ {k + 1}] + numbers[k + 1] ELSE f[s]]
    <2>2. ASSUME NEW s \in A
          PROVE  g[s] = IF s = {} THEN 0 ELSE g[s \ {Max(s)}] + numbers[Max(s)]
      <3>1. /\ k + 1 \in s => Max(s) = k + 1
            /\ k + 1 \notin s => s \in SUBSET (1..k)
        BY GreatestOf
      <3>2. CASE k + 1 \in s
        <4>1. s \ {k + 1} \in A /\ k + 1 \notin s \ {k + 1} /\ s # {}
          BY <3>2
        <4>2. g[s \ {k + 1}] = f[s \ {k + 1}]
          BY <4>1
        <4>3. g[s] = f[s \ {k + 1}] + numbers[k + 1]
          BY <3>2
        <4> HIDE DEF g
        <4> QED
          BY <3>1, <3>2, <4>1, <4>2, <4>3
      <3>3. CASE k + 1 \notin s
        <4>1. s \ {Max(s)} \in A /\ k + 1 \notin s \ {Max(s)}
          BY <3>3
        <4>2. g[s \ {Max(s)}] = f[s \ {Max(s)}] /\ g[s] = f[s]
          BY <3>3, <4>1
        <4> HIDE DEF g
        <4>3. f[s] = IF s = {} THEN 0 ELSE f[s \ {Max(s)}] + numbers[Max(s)]
          BY <2>1, <3>1, <3>3 DEF Summing
        <4> QED
          BY <4>2, <4>3
      <3> QED
        BY <3>2, <3>3
    <2>3. g = [s \in A |-> g[s]]
      OBVIOUS
    <2> HIDE DEF g
    <2>4. g = [s \in A |-> IF s = {} THEN 0 ELSE g[s \ {Max(s)}] + numbers[Max(s)]]
      BY <2>2, <2>3
    <2>5. Summing(g, numbers, 1..k + 1)
      BY <2>4 DEF Summing
    <2> QED
      BY <2>5
  <1> HIDE DEF S
  <1>3. n \in S
    BY <1>1, <1>2, AllNaturals
  <1> QED
    BY <1>3 DEF S

LEMMA SummingStep ==
  ASSUME NEW numbers, NEW n \in Nat, NEW f, Summing(f, numbers, 1..n)
  PROVE  /\ f[1..0] = 0
         /\ \A k \in Nat : k + 1 <= n => f[1..k + 1] = f[1..k] + numbers[k + 1]
  <1>1. f[1..0] = 0
    <2>1. 1..0 = {}
      OBVIOUS
    <2> QED
      BY <2>1 DEF Summing
  <1>2. ASSUME NEW k \in Nat, k + 1 <= n
        PROVE  f[1..k + 1] = f[1..k] + numbers[k + 1]
    <2> DEFINE s == 1..k + 1
    <2>1. /\ s \in SUBSET (1..n) /\ s # {} /\ k + 1 \in s /\ s \in SUBSET (1..k + 1)
          /\ s \ {k + 1} = 1..k
      BY <1>2
    <2> HIDE DEF s
    <2>2. Max(s) = k + 1
      BY <2>1, GreatestOf
    <2>3. f[s] = f[s \ {Max(s)}] + numbers[Max(s)]
      BY <2>1 DEF Summing
    <2> QED
      BY <2>1, <2>2, <2>3 DEF s
  <1> QED
    BY <1>1, <1>2

\* What follows later does not change it.
LEMMA SummingsAgree ==
  ASSUME NEW numbers, NEW n \in Nat, NEW f, Summing(f, numbers, 1..n),
         NEW more, NEW m \in Nat, NEW g, Summing(g, more, 1..m),
         n <= m, \A i \in 1..n : numbers[i] = more[i]
  PROVE  f[1..n] = g[1..n]
  <1> DEFINE S == {k \in Nat : k <= n => f[1..k] = g[1..k]}
  <1>1. 0 \in S
    BY SummingStep
  <1>2. ASSUME NEW k \in Nat, k \in S
        PROVE  k + 1 \in S
    <2> SUFFICES ASSUME k + 1 <= n
                 PROVE  f[1..k + 1] = g[1..k + 1]
      OBVIOUS
    <2>1. k <= n /\ k + 1 <= m /\ k + 1 \in 1..n
      OBVIOUS
    <2>2. f[1..k] = g[1..k]
      BY <1>2, <2>1
    <2> HIDE DEF S
    <2>3. f[1..k + 1] = f[1..k] + numbers[k + 1]
      BY SummingStep
    <2>4. g[1..k + 1] = g[1..k] + more[k + 1]
      BY <2>1, SummingStep
    <2> QED
      BY <2>1, <2>2, <2>3, <2>4
  <1> HIDE DEF S
  <1>3. n \in S
    BY <1>1, <1>2, AllNaturals
  <1> QED
    BY <1>3 DEF S

LEMMA TotalByParts ==
  ASSUME NEW T, NEW numbers \in Seq(T), NEW f, Summing(f, numbers, 1..Len(numbers))
  PROVE  Total(numbers) = f[1..Len(numbers)]
  <1> DEFINE chosen == CHOOSE g : Summing(g, numbers, 1..Len(numbers))
  <1>1. Len(numbers) \in Nat /\ DOMAIN numbers = 1..Len(numbers)
    BY LenProperties
  <1>2. Total(numbers) = chosen[1..Len(numbers)]
    BY <1>1, TotalIs
  <1>3. Summing(chosen, numbers, 1..Len(numbers))
    OBVIOUS
  <1> HIDE DEF chosen
  <1>4. f[1..Len(numbers)] = chosen[1..Len(numbers)]
    <2>1. Len(numbers) <= Len(numbers)
      BY <1>1
    <2> QED
      BY <1>1, <1>3, <2>1, SummingsAgree
  <1> QED
    BY <1>2, <1>4

\* Nothing adds up to 0, and one more number is added.
LEMMA TotalOneMore ==
  ASSUME NEW T, NEW numbers \in Seq(T), NEW last \in T
  PROVE  Total(<<>>) = 0 /\ Total(Append(numbers, last)) = Total(numbers) + last
  <1> DEFINE n == Len(numbers)
             more == Append(numbers, last)
  <1>1. Total(<<>>) = 0
    <2>1. PICK f : Summing(f, <<>>, 1..0)
      BY SummingExists
    <2>2. <<>> \in Seq(T) /\ Len(<<>>) = 0
      OBVIOUS
    <2>3. Total(<<>>) = f[1..0]
      <3>1. Summing(f, <<>>, 1..Len(<<>>))
        BY <2>1, <2>2
      <3>2. Total(<<>>) = f[1..Len(<<>>)]
        BY <2>2, <3>1, TotalByParts
      <3> QED
        BY <2>2, <3>2
    <2>4. f[1..0] = 0
      BY <2>1, SummingStep
    <2> QED
      BY <2>3, <2>4
  <1>2. /\ n \in Nat /\ more \in Seq(T) /\ Len(more) = n + 1 /\ more[n + 1] = last
        /\ \A i \in 1..n : numbers[i] = more[i]
    BY LenProperties, AppendProperties
  <1>3. n + 1 \in Nat /\ n <= n + 1 /\ n + 1 <= n + 1
    BY <1>2
  <1> HIDE DEF more
  <1>4. PICK f : Summing(f, numbers, 1..n)
    BY <1>2, SummingExists
  <1>5. Total(numbers) = f[1..n]
    BY <1>4, TotalByParts
  <1> HIDE DEF n
  <1>6. PICK g : Summing(g, more, 1..n + 1)
    BY <1>3, SummingExists
  <1>7. Total(more) = g[1..n + 1]
    <2>1. Summing(g, more, 1..Len(more))
      BY <1>2, <1>6
    <2>2. Total(more) = g[1..Len(more)]
      BY <1>2, <2>1, TotalByParts
    <2> QED
      BY <1>2, <2>2
  <1>8. g[1..n + 1] = g[1..n] + more[n + 1]
    BY <1>2, <1>3, <1>6, SummingStep
  <1>9. f[1..n] = g[1..n]
    BY <1>2, <1>3, <1>4, <1>6, SummingsAgree
  <1> QED
    BY <1>1, <1>2, <1>5, <1>7, <1>8, <1>9 DEF more

\* The bytes of the strings of a, with their NULs.
LengthsOf(a) == [i \in 1 .. a.count |-> Len(Strings(a)[i]) + 1]

LEMMA LengthsAreNumbers ==
  ASSUME NEW a, IsArgs(a)
  PROVE  LengthsOf(a) \in Seq(Nat) /\ Len(LengthsOf(a)) = a.count
         /\ \A i \in 1 .. a.count : LengthsOf(a)[i] = Len(Strings(a)[i]) + 1
  <1> DEFINE n == a.count
             lengths == LengthsOf(a)
  <1>1. n \in Nat /\ Strings(a) \in Seq(String) /\ Len(Strings(a)) = n
    BY StringsOf DEF IsArgs
  <1>2. ASSUME NEW i \in 1..n
        PROVE  Len(Strings(a)[i]) + 1 \in Nat
    <2>1. Strings(a)[i] \in String
      BY <1>1, ElementOfSeq
    <2> DEFINE s == Strings(a)[i]
    <2> HIDE DEF s
    <2>2. Len(s) \in Nat
      BY <2>1, LenProperties DEF s, String
    <2> QED
      BY <2>2 DEF s
  <1>3. lengths = [i \in 1..n |-> Len(Strings(a)[i]) + 1]
    BY DEF LengthsOf
  <1>4. lengths \in [1..n -> Nat] /\ \A i \in 1..n : lengths[i] = Len(Strings(a)[i]) + 1
    BY <1>2, <1>3
  <1> HIDE DEF lengths, n
  <1>5. lengths \in Seq(Nat) /\ Len(lengths) = n
    BY <1>1, <1>4
  <1> QED
    BY <1>4, <1>5 DEF lengths, n

LengthKept(a) == a.length = Total(LengthsOf(a))

LEMMA LengthAdded ==
  ASSUME PointerSize <= SizeMax, NEW a, IsArgs(a), ~command_args_add_exits(a),
         NEW s \in String, LengthKept(a)
  PROVE  LengthKept(command_args_add(a, s))
  <1> DEFINE b == command_args_add(a, s)
             n == a.count
             old == LengthsOf(a)
             new == LengthsOf(b)
             e == Len(s) + 1
  <1>1. /\ IsArgs(b) /\ b.count = n + 1 /\ b.length = a.length + Len(s) + 1
        /\ Strings(b) = Append(Strings(a), s)
    BY AddedArgument
  <1>2. n \in Nat /\ a.length \in Int /\ Strings(a) \in Seq(String) /\ Len(Strings(a)) = n
    BY StringsOf DEF IsArgs
  <1> HIDE DEF b
  <1>3. /\ old \in Seq(Nat) /\ Len(old) = n /\ \A i \in 1..n : old[i] = Len(Strings(a)[i]) + 1
        /\ new \in Seq(Nat) /\ Len(new) = n + 1
        /\ \A i \in 1..n + 1 : new[i] = Len(Strings(b)[i]) + 1
    BY <1>1, LengthsAreNumbers
  <1>4. /\ Append(Strings(a), s)[n + 1] = s
        /\ \A i \in 1..n : Append(Strings(a), s)[i] = Strings(a)[i]
    BY <1>2, AppendProperties
  <1>5. Len(s) \in Nat /\ e \in Nat
    BY LenProperties DEF String
  <1>6. /\ n + 1 \in 1..n + 1 /\ \A i \in 1..n : i \in 1..n + 1
        /\ \A i \in 1..n + 1 : i \in 1..n \/ i = n + 1
    BY <1>2
  <1> HIDE DEF old, new, n
  <1>7. new[n + 1] = e /\ \A i \in 1..n : new[i] = old[i]
    <2> DEFINE before == Strings(a)
               after == Strings(b)
    <2>1. after[n + 1] = s /\ \A i \in 1..n : after[i] = before[i]
      BY <1>1, <1>4
    <2>2. /\ \A i \in 1..n : old[i] = Len(before[i]) + 1
          /\ \A i \in 1..n + 1 : new[i] = Len(after[i]) + 1
      BY <1>3
    <2> HIDE DEF before, after
    <2>3. new[n + 1] = Len(after[n + 1]) + 1
      BY <1>6, <2>2
    <2>4. ASSUME NEW i \in 1..n
          PROVE  new[i] = old[i]
      <3>1. new[i] = Len(after[i]) + 1 /\ old[i] = Len(before[i]) + 1
        BY <1>6, <2>2
      <3> QED
        BY <2>1, <3>1
    <2> QED
      BY <2>1, <2>3, <2>4
  <1> HIDE DEF e
  <1>8. /\ Append(old, e) \in Seq(Nat) /\ Len(Append(old, e)) = n + 1
        /\ Append(old, e)[n + 1] = e /\ \A i \in 1..n : Append(old, e)[i] = old[i]
    BY <1>3, <1>5, AppendProperties
  <1>9. new = Append(old, e)
    BY <1>3, <1>6, <1>7, <1>8, SeqEqual
  <1>10. Total(new) = Total(old) + e
    BY <1>3, <1>5, <1>9, TotalOneMore
  <1>11. a.length = Total(old)
    BY DEF LengthKept, old
  <1>12. b.length = Total(new)
    BY <1>1, <1>2, <1>5, <1>10, <1>11 DEF e
  <1> QED
    BY <1>12 DEF LengthKept, new, b

LEMMA LengthCreated ==
  ASSUME NEW a, IsArgs(a), a.count = 0, a.length = 0
  PROVE  LengthKept(a)
  <1>1. LengthsOf(a) = <<>>
    BY LengthsAreNumbers, EmptySeq
  <1>2. Total(<<>>) = 0
    <2>1. <<>> \in Seq(Nat) /\ 0 \in Nat
      OBVIOUS
    <2> QED
      BY <2>1, TotalOneMore
  <1> QED
    BY <1>1, <1>2 DEF LengthKept

\* Sequences joined are as long as their lengths add up to.
LEMMA LengthOfJoined ==
  ASSUME NEW T, NEW pieces \in Seq(Seq(T)), NEW lengths \in Seq(Nat),
         Len(lengths) = Len(pieces),
         \A i \in 1..Len(pieces) : lengths[i] = Len(pieces[i])
  PROVE  Len(FlattenSeq(pieces)) = Total(lengths)
  <1> DEFINE n == Len(pieces)
             Same(k) == Len(Joined(pieces, k)) = Total(SubSeq(lengths, 1, k))
             S == {k \in Nat : k <= n => Same(k)}
  <1>1. n \in Nat /\ Len(lengths) = n
    BY LenProperties
  <1>2. 0 \in S
    <2>1. Joined(pieces, 0) = <<>>
      BY JoinedEnds
    <2>2. SubSeq(lengths, 1, 0) = <<>>
      BY SubSeqEmpty
    <2>3. Total(<<>>) = 0
      <3>1. <<>> \in Seq(Nat) /\ 0 \in Nat
        OBVIOUS
      <3> QED
        BY <3>1, TotalOneMore
    <2>4. Len(<<>>) = 0
      OBVIOUS
    <2>5. Same(0)
      BY <2>1, <2>2, <2>3, <2>4
    <2> HIDE DEF Same
    <2> QED
      BY <2>5
  <1>3. ASSUME NEW k \in Nat, k \in S
        PROVE  k + 1 \in S
    <2> SUFFICES ASSUME k + 1 <= n
                 PROVE  Same(k + 1)
      BY DEF S
    <2>1. k \in 0..n /\ k < n /\ k + 1 \in 1..n /\ k <= n
      BY <1>1
    <2>2. Len(Joined(pieces, k)) = Total(SubSeq(lengths, 1, k))
      BY <1>3, <2>1
    <2> HIDE DEF S, Same
    <2>3. /\ Joined(pieces, k) \in Seq(T)
          /\ Joined(pieces, k + 1) = Joined(pieces, k) \o pieces[k + 1]
      BY <2>1, JoinedGrows
    <2>4. /\ SubSeq(lengths, 1, k + 1) = Append(SubSeq(lengths, 1, k), lengths[k + 1])
          /\ lengths[k + 1] \in Nat /\ SubSeq(lengths, 1, k) \in Seq(Nat)
      <3> HIDE DEF n
      <3>1. k \in 0..Len(lengths) /\ k < Len(lengths)
        BY <1>1, <2>1
      <3>2. SubSeq(lengths, 1, k) \in Seq(Nat)
        BY <3>1, PrefixProperties
      <3> QED
        BY <3>1, <3>2, PrefixGrows
    <2>5. pieces[k + 1] \in Seq(T) /\ lengths[k + 1] = Len(pieces[k + 1])
      BY <2>1, ElementOfSeq
    <2>6. Len(Joined(pieces, k + 1)) = Len(Joined(pieces, k)) + Len(pieces[k + 1])
      BY <2>3, <2>5, ConcatProperties
    <2>7. Total(SubSeq(lengths, 1, k + 1)) = Total(SubSeq(lengths, 1, k)) + lengths[k + 1]
      BY <2>4, TotalOneMore
    <2> QED
      BY <2>2, <2>5, <2>6, <2>7 DEF Same
  <1> HIDE DEF S
  <1>4. n \in S
    BY <1>1, <1>2, <1>3, AllNaturals
  <1>5. Same(n)
    BY <1>1, <1>4 DEF S
  <1>6. Joined(pieces, n) = FlattenSeq(pieces)
    BY JoinedEnds
  <1>7. SubSeq(lengths, 1, n) = lengths
    BY <1>1, SubSeqFull
  <1> QED
    BY <1>5, <1>6, <1>7

\* write_trace writes as much as it has allocated.
LEMMA TraceFits ==
  ASSUME NEW args \in Seq(String), NEW nl \in BOOLEAN
  PROVE  Len(trace_buf(args, nl)) = trace_len(args, nl)
  <1> DEFINE n == Len(args)
             piece(i) == IF i < n THEN Append(args[i], Space) ELSE args[i]
             long(i) == IF i < n THEN Len(args[i]) + 1 ELSE Len(args[i])
             pieces == [i \in 1..n |-> piece(i)]
             lengths == [i \in 1..n |-> long(i)]
             line == IF nl THEN <<Newline>> ELSE <<>>
  <1>1. n \in Nat /\ DOMAIN args = 1..n
    BY LenProperties
  <1>2. ASSUME NEW i \in 1..n
        PROVE  piece(i) \in String /\ long(i) \in Nat /\ Len(piece(i)) = long(i)
    <2>1. args[i] \in String
      BY ElementOfSeq
    <2> DEFINE s == args[i]
    <2> HIDE DEF s
    <2>2. s \in Seq(Int) /\ Space \in Int
      BY <2>1 DEF s, String, Space
    <2>3. /\ Len(s) \in Nat /\ Append(s, Space) \in Seq(Int)
          /\ Len(Append(s, Space)) = Len(s) + 1
      BY <2>2, AppendProperties, LenProperties
    <2> QED
      BY <2>2, <2>3 DEF s, String
  <1>3. trace_buf(args, nl) = FlattenSeq(pieces) \o line
    BY <1>1 DEF trace_buf
  <1>4. trace_len(args, nl) = Total(lengths) + (IF nl THEN 1 ELSE 0)
    BY <1>1 DEF trace_len
  <1>5. pieces \in [1..n -> String] /\ lengths \in [1..n -> Nat]
    BY <1>2
  <1>6. \A i \in 1..n : lengths[i] = Len(pieces[i])
    BY <1>2
  <1> HIDE DEF pieces, lengths, n
  <1>7. pieces \in Seq(String) /\ Len(pieces) = n /\ lengths \in Seq(Nat) /\ Len(lengths) = n
    BY <1>1, <1>5
  <1>8. pieces \in Seq(Seq(Int))
    BY <1>7 DEF String
  <1>9. Len(FlattenSeq(pieces)) = Total(lengths) /\ FlattenSeq(pieces) \in Seq(Int)
    BY <1>6, <1>7, <1>8, LengthOfJoined, FlattenIsSeq
  <1>10. line \in Seq(Int) /\ Len(line) = IF nl THEN 1 ELSE 0
    BY DEF Newline
  <1> HIDE DEF line
  <1>11. Len(FlattenSeq(pieces) \o line) = Len(FlattenSeq(pieces)) + Len(line)
    BY <1>9, <1>10, ConcatProperties
  <1> QED
    BY <1>3, <1>4, <1>9, <1>10, <1>11

-----------------------------------------------------------------------------
(* Staying within memory. *)

LengthInv == LengthKept(input_args) /\ LengthKept(replaced_fixed_args)

LEMMA FirstLengths ==
  ASSUME FirstArraysFit
  PROVE  LengthKept(NoInput) /\ LengthKept(NoReplaced)
  <1>1. IsArgs(NoInput) /\ NoInput.count = 0 /\ NoInput.length = 0
    BY StorageAssumption, CreatedArgs DEF FirstArraysFit, NoInput
  <1>2. IsArgs(NoReplaced) /\ NoReplaced.count = 0 /\ NoReplaced.length = 0
    BY FixedAreStrings, CreatedArgs DEF FirstArraysFit, NoReplaced
  <1> QED
    BY <1>1, <1>2, LengthCreated

LEMMA LengthStep ==
  ASSUME DelimTypes, FirstArraysFit, MemoryTypes, TextInv, LengthInv,
         [StorageNext]_storageVars
  PROVE  LengthInv'
  <1>1. CASE UNCHANGED <<input_args, replaced_fixed_args>>
    BY <1>1 DEF LengthInv
  <1>2. CASE StoreByte \/ StoreEof
    BY <1>1, <1>2, TokenizerStep DEF arguments
  <1>3. CASE AddInputArgument /\ ~Stops
    <2>1. /\ turn = "mode" /\ ~command_args_add_exits(input_args)
          /\ input_args' = command_args_add(input_args, Text)
          /\ UNCHANGED replaced_fixed_args
      BY <1>3 DEF AddInputArgument, Stops
    <2>2. Text \in String /\ IsArgs(input_args) /\ LengthKept(input_args)
      BY <2>1, TextIsString DEF MemoryTypes, LengthInv
    <2>3. LengthKept(input_args')
      BY <2>1, <2>2, LengthAdded DEF FirstArraysFit
    <2> QED
      BY <2>1, <2>3 DEF LengthInv
  <1>4. CASE ExecuteInput \/ ExecuteReplaced
    BY <1>4, FirstLengths DEF ExecuteInput, ExecuteReplaced, LengthInv
  <1>5. CASE ReplaceOne /\ ~Stops
    <2>1. ~command_args_add_exits(replaced_fixed_args) /\ UNCHANGED input_args
      BY <1>5, ReplaceOneAdds
    <2>2. PICK arg \in String :
            replaced_fixed_args' = command_args_add(replaced_fixed_args, arg)
      BY <1>5, ReplaceOneAdds
    <2>3. IsArgs(replaced_fixed_args) /\ LengthKept(replaced_fixed_args)
      BY DEF MemoryTypes, LengthInv
    <2>4. LengthKept(replaced_fixed_args')
      BY <2>1, <2>2, <2>3, LengthAdded DEF FirstArraysFit
    <2> QED
      BY <2>1, <2>4 DEF LengthInv
  <1>6. CASE Stops \/ StorageDone \/ UNCHANGED storageVars
    BY <1>1, <1>6 DEF Stops, Exit, Overrun, Stop, arguments, StorageDone, storageVars
  <1> QED
    BY <1>2, <1>3, <1>4, <1>5, <1>6 DEF StorageNext

LEMMA Wrapping ==
  /\ AllocMax \in Nat
  /\ \A n \in Nat : n <= SizeMax => Wrapped(n) = n
  /\ Wrapped(SizeMax + 1) = 0
  <1>1. SizeMax \in Nat
    BY UtilAssumption
  <1> QED
    BY <1>1 DEF AllocMax, Wrapped

\* What one scan has allocated is what the other one needs, unless it wraps.
LEMMA AllocatedAsWritten ==
  ASSUME NEW T, NEW s \in Seq(T), NEW p \in Seq(T), p # <<>>, NEW r \in Seq(T)
  PROVE  IF new_len(s, p, r) = SizeMax
           THEN str_replace_overruns(s, p, r)
           ELSE \/ str_replace_exits(s, p, r)
                \/ Len(written(s, p, r)) + 1 = result_bytes(s, p, r)
  <1>1. PICK n : n = new_len(s, p, r)
    OBVIOUS
  <1>2. Len(written(s, p, r)) = n /\ n \in Nat
    BY <1>1, ScansAgree
  <1>3. SizeMax \in Nat
    BY UtilAssumption
  <1>4. result_bytes(s, p, r) = Wrapped(n + 1)
    BY <1>1 DEF result_bytes
  <1>5. str_replace_exits(s, p, r) <=> n > SizeMax \/ Wrapped(n + 1) > AllocMax
    BY <1>1, <1>4 DEF str_replace_exits, CannotAllocate
  <1>6. CASE n = SizeMax
    <2>1. Wrapped(n + 1) = 0 /\ ~(n > SizeMax) /\ ~(0 > AllocMax)
      BY <1>3, <1>6, Wrapping
    <2>2. str_replace_overruns(s, p, r)
      BY <1>2, <1>4, <1>5, <2>1 DEF str_replace_overruns
    <2> QED
      BY <1>1, <1>6, <2>2
  <1>7. CASE n < SizeMax
    <2>1. n + 1 \in Nat /\ n + 1 <= SizeMax
      BY <1>2, <1>3, <1>7
    <2>2. Wrapped(n + 1) = n + 1
      BY <2>1, Wrapping
    <2> QED
      BY <1>1, <1>2, <1>4, <1>7, <2>2
  <1>8. CASE n > SizeMax
    BY <1>1, <1>3, <1>5, <1>8
  <1> QED
    BY <1>2, <1>3, <1>6, <1>7, <1>8

LEMMA WithinMemory ==
  ASSUME DelimTypes, MemoryTypes, TextInv, LengthInv
  PROVE  StaysWithinMemory
  <1>1. buf.pos \in 0 .. buf.sz /\ DOMAIN buf.buf = 0 .. buf.sz
    BY DEF MemoryTypes, IsBuffer
  <1>2. ASSUME NEW a \in {input_args, replaced_fixed_args}
        PROVE  /\ a.count <= a.capacity /\ 0 .. a.capacity - 1 \subseteq DOMAIN a.args
               /\ a.length = Total([i \in 1 .. a.count |-> Len(Strings(a)[i]) + 1])
    <2>1. IsArgs(a) /\ LengthKept(a)
      BY <1>2 DEF MemoryTypes, LengthInv
    <2> QED
      BY <2>1 DEF IsArgs, LengthKept, LengthsOf
  <1>3. ASSUME NEW k \in DOMAIN executed, NEW nl \in BOOLEAN
        PROVE  Len(trace_buf(executed[k], nl)) = trace_len(executed[k], nl)
    <2>1. executed[k] \in Seq(String)
      BY LenProperties, ElementOfSeq DEF MemoryTypes
    <2> QED
      BY <2>1, TraceFits
  <1>4. ASSUME turn = "mode", arg_placeholder \notin {NULL, <<>>}, NEW i \in DOMAIN FixedArgs
        PROVE  IF new_len(FixedArgs[i], arg_placeholder, Text) = SizeMax
                 THEN str_replace_overruns(FixedArgs[i], arg_placeholder, Text)
                 ELSE \/ str_replace_exits(FixedArgs[i], arg_placeholder, Text)
                      \/ Len(written(FixedArgs[i], arg_placeholder, Text)) + 1
                           = result_bytes(FixedArgs[i], arg_placeholder, Text)
    <2>1. arg_placeholder \in Seq(Byte) /\ arg_placeholder # <<>>
      BY <1>4, StorageAssumption DEF MemoryTypes, Byte
    <2>2. FixedArgs[i] \in Seq(Byte) /\ Text \in Seq(Byte)
      BY <1>4, FixedAreStrings, TextIsString
    <2> QED
      BY <2>1, <2>2, AllocatedAsWritten
  <1> QED
    BY <1>1, <1>2, <1>3, <1>4 DEF StaysWithinMemory

\* The buffer and the argument lists never hold more than was allocated for
\* them, and what is computed before an allocation is what is written into it,
\* NUL included (buffer_put, reallocate_if_needed, str_replace, write_trace): for
\* every size of size_t, every initial capacity, every input and every command
\* line.  The exception that StaysWithinMemory makes, a replacement of SIZE_MAX
\* bytes, is the only one.
THEOREM MemorySuffices ==
  ASSUME FirstArraysFit
  PROVE  StorageSpec => []StaysWithinMemory
  <1>1. StorageInit => LengthInv
    BY FirstLengths DEF StorageInit, LengthInv
  <1>2. DelimTypes /\ MemoryTypes /\ TextInv /\ LengthInv /\ [StorageNext]_storageVars
          => LengthInv'
    BY LengthStep
  <1>3. DelimTypes /\ MemoryTypes /\ TextInv /\ LengthInv => StaysWithinMemory
    BY WithinMemory
  <1> QED
    BY <1>1, <1>2, <1>3, MemoryInvariant, PTL DEF StorageSpec

=============================================================================
