------------------------ MODULE SpaceTokenizerProofs ------------------------
(***************************************************************************)
(* Theorems about SpaceTokenizer: whatever the input, the machine returns  *)
(* the words of the grammar, reports the ends of its lines, and ends with  *)
(* its error; and a list of arguments is returned as it was written.       *)
(***************************************************************************)
EXTENDS SpaceTokenizer, FiniteSetTheorems, FunctionTheorems, SequenceLemmas

-----------------------------------------------------------------------------
(* Types. *)

Text == Seq(STRING)

\* The special characters are different ones.
LEMMA Characters ==
  /\ Backslash \notin Quote \cup Blank \cup {Newline, NUL}
  /\ Newline \notin Quote \cup Blank \cup {NUL}
  /\ Quote \cap Blank = {} /\ NUL \notin Quote
  BY DEF Backslash, Quote, Blank, Newline, NUL

\* A C string is a part of its buffer, and all of it where there is no NUL.
LEMMA CStrings ==
  ASSUME NEW s \in Text
  PROVE  c_string(s) \in Text /\ ((\A i \in 1..Len(s) : s[i] # NUL) => c_string(s) = s)
  <1> DEFINE nuls == {i \in 1..Len(s) : s[i] = NUL}
  <1>1. CASE nuls = {}
    BY <1>1 DEF c_string
  <1>2. CASE nuls # {}
    <2>1. Len(s) \in Nat /\ nuls \subseteq Nat
      BY LenProperties DEF Text
    <2>2. \E n \in nuls : \A m \in nuls : n <= m
      BY <1>2, <2>1, LeastNatural
    <2>3. Min(nuls) \in nuls
      BY <2>2 DEF Min
    <2>4. Min(nuls) - 1 \in 0..Len(s) /\ Min(nuls) \in 1..Len(s) /\ s[Min(nuls)] = NUL
      BY <2>1, <2>3
    <2>5. SubSeq(s, 1, Min(nuls) - 1) \in Text
      BY <2>4, PrefixProperties DEF Text
    <2> QED
      BY <1>2, <2>4, <2>5 DEF c_string
  <1> QED
    BY <1>1, <1>2

Types ==
  /\ TypeOK
  /\ input \in Text /\ Len(input) \in Nat
  /\ buffer \in Text /\ tokens \in Seq(Text) /\ Len(tokens) \in Nat

LEMMA TypesInitially == Init => Types
  <1> SUFFICES ASSUME Init
               PROVE  Types
    OBVIOUS
  <1>1. input \in Text
    BY SpaceTokenizerAssumption DEF Init, Text
  <1>2. Len(input) \in Nat /\ Len(<<>>) = 0 /\ <<>> \in Text /\ <<>> \in Seq(Text)
    BY <1>1, LenProperties DEF Text
  <1>3. line_has_token = (state # "NO_TOKEN") /\ finished \in BOOLEAN
    BY Zenon DEF Init
  <1>4. /\ consumed \in 0..Len(input) /\ boundaries \subseteq 1 .. Len(tokens) + 1
        /\ quote_char \in Quote \cup {NoQuote} /\ buffer = <<>> /\ state = "NO_TOKEN"
        /\ input \in InputChoices /\ tokens = <<>> /\ err = "NONE"
    BY <1>1, <1>2 DEF Init
  <1> QED
    BY <1>1, <1>2, <1>3, <1>4, Zenon DEF Types, TypeOK, States

\* What a step has to show of the variables it changes.
Typed ==
  /\ input' = input /\ consumed' \in 0..Len(input)
  /\ state' \in States /\ quote_char' \in Quote \cup {NoQuote}
  /\ state' \in {"IN_QUOTED_TOKEN", "IN_TOKEN_QUOTED"} => quote_char' \in Quote
  /\ err' \in {"NONE", "IO", "BACKSLASH_AT_EOF", "UNTERMINATED_QUOTE"}
  /\ line_has_token' = (state' # "NO_TOKEN")
  /\ state' = "NO_TOKEN" => buffer' = <<>>
  /\ boundaries' \subseteq 1 .. Len(tokens') + 1
  /\ finished' \in BOOLEAN
  /\ buffer' \in Text /\ tokens' \in Seq(Text)

LEMMA TypedTypes ==
  ASSUME Types, Typed
  PROVE  Types'
  <1>1. Len(tokens') \in Nat
    BY LenProperties DEF Typed
  <1> QED
    BY <1>1, Zenon DEF Types, TypeOK, Typed

LEMMA NextCharacter ==
  ASSUME Types, ReadChar
  PROVE  /\ consumed' = consumed + 1 /\ consumed' \in 1..Len(input)
         /\ input[consumed + 1] \in STRING
         /\ ~finished /\ consumed \in Nat /\ consumed < Len(input)
         /\ Append(buffer, input[consumed + 1]) \in Text
  <1>1. /\ consumed \in 0..Len(input) /\ consumed < Len(input) /\ Len(input) \in Nat
        /\ consumed' = consumed + 1 /\ input \in Text /\ buffer \in Text /\ ~finished
    BY DEF ReadChar, Types, TypeOK
  <1>2. consumed + 1 \in 1..Len(input)
    BY <1>1
  <1>3. input[consumed + 1] \in STRING
    BY <1>1, <1>2, ElementOfSeq DEF Text
  <1> QED
    BY <1>1, <1>2, <1>3, AppendProperties DEF Text

\* Within a token nothing is returned.
LEMMA TypesWithin ==
  ASSUME Types, ReadChar, UNCHANGED answer,
         state' \in States, line_has_token' = (state' # "NO_TOKEN"),
         quote_char' \in Quote \cup {NoQuote},
         state' \in {"IN_QUOTED_TOKEN", "IN_TOKEN_QUOTED"} => quote_char' \in Quote,
         buffer' \in {buffer, Append(buffer, input[consumed + 1])},
         state' = "NO_TOKEN" => buffer' = <<>>
  PROVE  Types'
  <1>1. /\ input' = input /\ consumed' \in 0..Len(input) /\ buffer' \in Text
    <2>1. buffer \in Text
      BY DEF Types
    <2>2. input' = input
      BY DEF ReadChar, source
    <2>3. consumed' \in 0..Len(input)
      BY NextCharacter
    <2> QED
      BY <2>1, <2>2, <2>3, NextCharacter
  <1>2. /\ tokens' = tokens /\ boundaries' = boundaries /\ finished' = finished /\ err' = err
    BY DEF answer
  <1>3. /\ tokens \in Seq(Text) /\ boundaries \subseteq 1 .. Len(tokens) + 1
        /\ finished \in BOOLEAN
        /\ err \in {"NONE", "IO", "BACKSLASH_AT_EOF", "UNTERMINATED_QUOTE"}
    BY DEF Types, TypeOK
  <1>4. Typed
    BY <1>1, <1>2, <1>3, Zenon DEF Typed
  <1> QED
    BY <1>4, TypedTypes

LEMMA TypesReturning ==
  ASSUME Types, input' = input, consumed' \in 0..Len(input),
         space_tokenizer_end_token, boundaries' \in {boundaries, boundaries \cup {Len(tokens) + 1}}
  PROVE  Types'
  <1>1. /\ tokens \in Seq(Text) /\ Len(tokens) \in Nat /\ buffer \in Text
        /\ boundaries \subseteq 1 .. Len(tokens) + 1 /\ finished \in BOOLEAN
        /\ err \in {"NONE", "IO", "BACKSLASH_AT_EOF", "UNTERMINATED_QUOTE"}
    BY DEF Types, TypeOK
  <1>2. boundaries' \subseteq 1 .. Len(tokens) + 1
    BY <1>1
  <1>3. /\ state' = "NO_TOKEN" /\ quote_char' = NoQuote /\ buffer' = <<>>
        /\ line_has_token' = FALSE /\ err' = err
    BY DEF space_tokenizer_end_token, space_tokenizer_no_token
  <1>4. /\ tokens' \in Seq(Text) /\ boundaries' \subseteq 1 .. Len(tokens') + 1
        /\ finished' \in BOOLEAN
    <2>1. CASE c_string(buffer) = logical_end_of_input_marker
      BY <1>1, <1>2, <2>1 DEF space_tokenizer_end_token
    <2>2. CASE c_string(buffer) # logical_end_of_input_marker
      <3>1. tokens' = Append(tokens, c_string(buffer)) /\ finished' = finished
        BY <2>2 DEF space_tokenizer_end_token
      <3>2. tokens' \in Seq(Text) /\ Len(tokens') = Len(tokens) + 1
        BY <1>1, <3>1, CStrings, AppendProperties
      <3> QED
        BY <1>1, <1>2, <3>1, <3>2
    <2> QED
      BY <2>1, <2>2
  <1>5. line_has_token' = (state' # "NO_TOKEN") /\ buffer' \in Text
    <2>1. <<>> \in Text
      BY DEF Text
    <2> QED
      BY <1>3, <2>1, Zenon
  <1>6. /\ quote_char' \in Quote \cup {NoQuote} /\ state' \in States
        /\ state' \notin {"IN_QUOTED_TOKEN", "IN_TOKEN_QUOTED"}
    BY <1>3 DEF States
  <1>7. Typed
    BY <1>1, <1>3, <1>4, <1>5, <1>6, Zenon DEF Typed
  <1> QED
    BY <1>7, TypedTypes

LEMMA TypesFailing ==
  ASSUME Types, input' = input, consumed' \in 0..Len(input),
         NEW error \in {"IO", "BACKSLASH_AT_EOF", "UNTERMINATED_QUOTE"}, Fail(error)
  PROVE  Types'
  <1>1. Typed
    BY Zenon DEF Types, TypeOK, Fail, Typed
  <1> QED
    BY <1>1, TypedTypes

\* One case per handler.
LEMMA TypesStep == Types /\ [Next]_vars => Types'
<1> SUFFICES ASSUME Types, [Next]_vars
             PROVE  Types'
  OBVIOUS
<1> DEFINE ch == input[consumed + 1]
<1>1. ASSUME ReadChar, state = "NO_TOKEN", handle_no_token_char(ch)
      PROVE  Types'
  <2>1. CASE UNCHANGED <<state, quote_char, buffer, line_has_token, answer>>
    BY <1>1, <2>1, TypesWithin, Zenon DEF Types, TypeOK
  <2>2. CASE /\ ch \in Quote /\ state' = "IN_QUOTED_TOKEN" /\ quote_char' = ch
             /\ line_has_token' = TRUE /\ UNCHANGED <<buffer, answer>>
    <3>1. state' \in States
      BY <2>2 DEF States
    <3>2. line_has_token' = (state' # "NO_TOKEN")
      BY <2>2, Zenon
    <3> QED
      BY <1>1, <2>2, <3>1, <3>2, TypesWithin, Zenon
  <2>3. CASE /\ state' = "NO_TOKEN_ESCAPE" /\ line_has_token' = TRUE
             /\ UNCHANGED <<quote_char, buffer, answer>>
    <3>1. state' \in States /\ state' \notin {"IN_QUOTED_TOKEN", "IN_TOKEN_QUOTED"}
      BY <2>3 DEF States
    <3>2. line_has_token' = (state' # "NO_TOKEN")
      BY <2>3, Zenon
    <3> QED
      BY <1>1, <2>3, <3>1, <3>2, TypesWithin, Zenon DEF Types, TypeOK
  <2>4. CASE /\ state' = "IN_TOKEN" /\ buffer' = Append(buffer, ch)
             /\ line_has_token' = TRUE /\ UNCHANGED <<quote_char, answer>>
    <3>1. state' \in States /\ state' \notin {"IN_QUOTED_TOKEN", "IN_TOKEN_QUOTED"}
      BY <2>4 DEF States
    <3>2. line_has_token' = (state' # "NO_TOKEN")
      BY <2>4, Zenon
    <3> QED
      BY <1>1, <2>4, <3>1, <3>2, TypesWithin, Zenon DEF Types, TypeOK
  <2> QED
    BY <1>1, <2>1, <2>2, <2>3, <2>4, Zenon DEF handle_no_token_char
<1>2. ASSUME ReadChar, state \in {"NO_TOKEN_ESCAPE", "IN_TOKEN_ESCAPE"},
             space_tokenizer_end_escape(ch)
      PROVE  Types'
  <2>1. /\ state' = "IN_TOKEN" /\ buffer' = Append(buffer, ch)
        /\ UNCHANGED <<quote_char, line_has_token, answer>>
    BY <1>2 DEF space_tokenizer_end_escape
  <2>2. /\ state' \in States /\ state' \notin {"IN_QUOTED_TOKEN", "IN_TOKEN_QUOTED"}
        /\ state # "NO_TOKEN"
    BY <1>2, <2>1 DEF States
  <2>3. line_has_token' = (state' # "NO_TOKEN")
    BY <2>1, <2>2, Zenon DEF Types, TypeOK
  <2> QED
    BY <1>2, <2>1, <2>2, <2>3, TypesWithin, Zenon DEF Types, TypeOK
<1>3. ASSUME ReadChar, state = "IN_TOKEN", handle_in_token_char(ch)
      PROVE  Types'
  <2>1. ASSUME space_tokenizer_end_token,
               UNCHANGED boundaries \/ on_input_boundary
        PROVE  Types'
    <3>1. boundaries' \in {boundaries, boundaries \cup {Len(tokens) + 1}}
      BY <2>1 DEF on_input_boundary
    <3>2. input' = input /\ consumed' \in 0..Len(input)
      BY <1>3, NextCharacter DEF ReadChar, source
    <3> QED
      BY <2>1, <3>1, <3>2, TypesReturning
  <2>2. ASSUME UNCHANGED <<line_has_token, answer>>,
               \/ ch \in Quote /\ state' = "IN_TOKEN_QUOTED" /\ quote_char' = ch
                    /\ UNCHANGED buffer
               \/ state' = "IN_TOKEN_ESCAPE" /\ UNCHANGED <<quote_char, buffer>>
               \/ buffer' = Append(buffer, ch) /\ UNCHANGED <<state, quote_char>>
        PROVE  Types'
    <3>1. state' \in {"IN_TOKEN_QUOTED", "IN_TOKEN_ESCAPE", "IN_TOKEN"}
      BY <1>3, <2>2
    <3>2. state' \in States /\ state' # "NO_TOKEN" /\ state # "NO_TOKEN"
      BY <1>3, <3>1 DEF States
    <3>3. line_has_token' = (state' # "NO_TOKEN")
      BY <2>2, <3>2, Zenon DEF Types, TypeOK
    <3>4. buffer' \in {buffer, Append(buffer, ch)}
      BY <2>2
    <3>5. /\ quote_char' \in Quote \cup {NoQuote}
          /\ state' \in {"IN_QUOTED_TOKEN", "IN_TOKEN_QUOTED"} => quote_char' \in Quote
      <4>1. quote_char \in Quote \cup {NoQuote}
        BY DEF Types, TypeOK
      <4> QED
        BY <1>3, <2>2, <4>1
    <3> QED
      BY <1>3, <2>2, <3>2, <3>3, <3>4, <3>5, TypesWithin, Zenon
  <2> QED
    BY <1>3, <2>1, <2>2, Zenon DEF handle_in_token_char
<1>4. ASSUME ReadChar, state \in {"IN_QUOTED_TOKEN", "IN_TOKEN_QUOTED"},
             handle_quoted_char(ch)
      PROVE  Types'
  <2>1. CASE Fail("UNTERMINATED_QUOTE")
    <3>1. input' = input /\ consumed' \in 0..Len(input)
      BY <1>4, NextCharacter DEF ReadChar, source
    <3> QED
      BY <2>1, <3>1, TypesFailing
  <2>2. ASSUME UNCHANGED <<quote_char, line_has_token, answer>>,
               \/ state' = "IN_TOKEN" /\ UNCHANGED buffer
               \/ buffer' = Append(buffer, ch) /\ UNCHANGED state
        PROVE  Types'
    <3>1. /\ state' \in States /\ state' # "NO_TOKEN" /\ state # "NO_TOKEN"
          /\ buffer' \in {buffer, Append(buffer, ch)}
      BY <1>4, <2>2 DEF States
    <3>2. line_has_token' = (state' # "NO_TOKEN")
      BY <2>2, <3>1, Zenon DEF Types, TypeOK
    <3>3. /\ quote_char \in Quote \cup {NoQuote} /\ quote_char \in Quote
      BY <1>4 DEF Types, TypeOK
    <3> QED
      BY <1>4, <2>2, <3>1, <3>2, <3>3, TypesWithin, Zenon
  <2> QED
    BY <1>4, <2>1, <2>2, Zenon DEF handle_quoted_char
<1>5. CASE ReadEof
  <2>1. input' = input /\ consumed' \in 0..Len(input)
    BY <1>5 DEF ReadEof, source, Types, TypeOK
  <2>2. ASSUME NEW error \in {"IO", "BACKSLASH_AT_EOF", "UNTERMINATED_QUOTE"}, Fail(error)
        PROVE  Types'
    BY <2>1, <2>2, TypesFailing
  <2>3. CASE on_input_boundary /\ space_tokenizer_end_token
    BY <2>1, <2>3, TypesReturning DEF on_input_boundary
  <2>4. CASE /\ finished' = TRUE
             /\ UNCHANGED <<state, quote_char, buffer, line_has_token, err, tokens, boundaries>>
    <3>1. Typed
      BY <2>1, <2>4, Zenon DEF Types, TypeOK, Typed
    <3> QED
      BY <3>1, TypedTypes
  <2>5. /\ "IO" \in {"IO", "BACKSLASH_AT_EOF", "UNTERMINATED_QUOTE"}
        /\ "BACKSLASH_AT_EOF" \in {"IO", "BACKSLASH_AT_EOF", "UNTERMINATED_QUOTE"}
        /\ "UNTERMINATED_QUOTE" \in {"IO", "BACKSLASH_AT_EOF", "UNTERMINATED_QUOTE"}
    OBVIOUS
  <2> QED
    BY <1>5, <2>2, <2>3, <2>4, <2>5, Zenon DEF ReadEof, handle_eof
<1>6. CASE UNCHANGED vars
  BY <1>6, Zenon DEF vars, Types, TypeOK
<1> QED
  BY <1>1, <1>2, <1>3, <1>4, <1>5, <1>6 DEF Next, next_space_token, ReadChar, Done

LEMMA TypesInvariant == Spec => []Types
  BY TypesInitially, TypesStep, PTL DEF Spec

\* The variables keep their types, the buffer is empty outside of tokens, and the
\* line is known to have a token inside (next_space_token).
THEOREM TypeCorrect == Spec => []TypeOK
  <1>1. Types => TypeOK
    BY DEF Types
  <1> QED
    BY <1>1, TypesInvariant, PTL

-----------------------------------------------------------------------------
(* The pieces of the input. *)

\* starts is what the recursion in PieceStarts computes.
Marks(starts, s) ==
  starts = [i \in 1 .. Len(s) + 1 |->
              i = 1 \/ \E j \in 1 .. i - 1 : starts[j] /\ PieceEnd(s, j) = i]

\* It exists: the least set of positions with the first and with the end of each
\* piece that starts at one of them.
LEMMA MarksExist ==
  ASSUME NEW s, Len(s) \in Nat
  PROVE  \E starts : Marks(starts, s)
  <1> DEFINE D == 1 .. Len(s) + 1
             Closed(T) == /\ 1 \in T
                          /\ \A i \in D, j \in T : j < i /\ PieceEnd(s, j) = i => i \in T
             S == {i \in D : \A T \in SUBSET D : Closed(T) => i \in T}
             f == [i \in D |-> i \in S]
  <1>1. 1 \in S
    OBVIOUS
  <1>2. ASSUME NEW i \in D, NEW j \in S, j < i, PieceEnd(s, j) = i
        PROVE  i \in S
    BY <1>2
  <1>3. ASSUME NEW i \in S, i # 1
        PROVE  \E j \in S : j < i /\ PieceEnd(s, j) = i
    <2> SUFFICES ASSUME \A j \in S : ~(j < i /\ PieceEnd(s, j) = i)
                 PROVE  FALSE
      OBVIOUS
    <2> DEFINE T == S \ {i}
    <2>1. T \in SUBSET D /\ i \in D
      OBVIOUS
    <2>2. Closed(T)
      <3> HIDE DEF S
      <3>1. 1 \in T
        BY <1>1, <1>3
      <3> QED
        BY <1>2, <3>1
    <2>3. i \in T
      BY <2>1, <2>2
    <2> QED
      BY <2>3
  <1>4. S \subseteq D
    OBVIOUS
  <1> HIDE DEF S
  <1>5. \A i \in D : i \in S <=> (i = 1 \/ \E j \in 1 .. i - 1 : j \in S /\ PieceEnd(s, j) = i)
    <2> SUFFICES ASSUME NEW i \in D
                 PROVE  i \in S <=> (i = 1 \/ \E j \in 1 .. i - 1 : j \in S /\ PieceEnd(s, j) = i)
      OBVIOUS
    <2>1. \A j \in S : j < i <=> j \in 1 .. i - 1
      BY <1>4
    <2>2. \A j \in 1 .. i - 1 : j < i
      OBVIOUS
    <2> QED
      BY <1>1, <1>2, <1>3, <2>1, <2>2
  <1>6. \A i \in D : \A j \in 1 .. i - 1 : j \in D
    OBVIOUS
  <1>7. \A i \in D : f[i] = (i \in S)
    OBVIOUS
  <1>8. \A i \in D : (i \in S) = (i = 1 \/ \E j \in 1 .. i - 1 : f[j] /\ PieceEnd(s, j) = i)
    <2> SUFFICES ASSUME NEW i \in D
                 PROVE  (i \in S) <=> (i = 1 \/ \E j \in 1 .. i - 1 : f[j] /\ PieceEnd(s, j) = i)
      OBVIOUS
    <2>1. \A j \in 1 .. i - 1 : f[j] <=> j \in S
      BY <1>6, <1>7, Zenon
    <2> QED
      BY <1>5, <2>1, Zenon
  <1> HIDE DEF D
  <1>9. f = [i \in D |-> i = 1 \/ \E j \in 1 .. i - 1 : f[j] /\ PieceEnd(s, j) = i]
    BY <1>8, Zenon
  <1> HIDE DEF f
  <1>10. Marks(f, s)
    BY <1>9, Zenon DEF D, Marks
  <1> QED
    BY <1>10

\* A piece starts at the first position and wherever another one ends.
LEMMA PieceStartsAre ==
  ASSUME NEW s, Len(s) \in Nat
  PROVE  /\ PieceStarts(s) \subseteq 1 .. Len(s) + 1 /\ 1 \in PieceStarts(s)
         /\ \A i \in 1 .. Len(s) + 1 :
              i \in PieceStarts(s) <=>
                i = 1 \/ \E j \in PieceStarts(s) : j < i /\ PieceEnd(s, j) = i
  <1> DEFINE starts == CHOOSE f : Marks(f, s)
  <1>1. Marks(starts, s)
    BY MarksExist
  <1>2. PieceStarts(s) = {i \in 1 .. Len(s) + 1 : starts[i]}
    BY DEF PieceStarts, Marks
  <1> HIDE DEF starts
  <1>3. \A i \in 1 .. Len(s) + 1 :
          starts[i] <=> i = 1 \/ \E j \in 1 .. i - 1 : starts[j] /\ PieceEnd(s, j) = i
    BY <1>1, Zenon DEF Marks
  <1>4. \A i \in 1 .. Len(s) + 1 : \A j \in 1 .. i - 1 : j \in 1 .. Len(s) + 1 /\ j < i
    OBVIOUS
  <1>5. \A i, j \in 1 .. Len(s) + 1 : j < i => j \in 1 .. i - 1
    OBVIOUS
  <1>6. 1 \in 1 .. Len(s) + 1
    OBVIOUS
  <1> QED
    BY <1>2, <1>3, <1>4, <1>5, <1>6, Zenon

\* Where a piece ends that is no quoted string.
LEMMA PlainPieces ==
  ASSUME NEW s \in Text, NEW i \in 1 .. Len(s)
  PROVE  /\ s[i] = Backslash => PieceEnd(s, i) = IF i < Len(s) THEN i + 2 ELSE 0
         /\ s[i] \notin Quote \cup {Backslash} => PieceEnd(s, i) = i + 1
  BY Characters DEF PieceEnd

Unclosed(s, i, n) == \A j \in i + 1 .. n : s[j] # s[i]

\* A quoted string ends at the first quote like its own, unless a newline or the
\* end of the input comes before that.
LEMMA QuotedPieces ==
  ASSUME NEW s \in Text, NEW i \in 1 .. Len(s), s[i] \in Quote, NEW n \in i .. Len(s),
         Unclosed(s, i, n)
  PROVE  /\ PieceEnd(s, i) = 0 \/ PieceEnd(s, i) \in n + 2 .. Len(s) + 1
         /\ n = Len(s) => PieceEnd(s, i) = 0
         /\ (\E j \in i + 1 .. n : s[j] = Newline) => PieceEnd(s, i) = 0
         /\ n < Len(s) /\ s[n + 1] = s[i] /\ (\A j \in i + 1 .. n : s[j] # Newline)
              => PieceEnd(s, i) = n + 2
  <1> DEFINE closing == {j \in i + 1 .. Len(s) : s[j] = s[i]}
             unquotable == {j \in i + 1 .. Len(s) : s[j] = Newline}
  <1>1. Len(s) \in Nat /\ i \in Nat /\ n \in Nat /\ n <= Len(s) /\ i <= n
    BY LenProperties DEF Text
  <1>2. s[i] # Backslash
    BY Characters
  <1>3. PieceEnd(s, i) = IF closing # {} /\ \A j \in unquotable : j > Min(closing)
                           THEN Min(closing) + 1 ELSE 0
    BY <1>2 DEF PieceEnd
  <1>4. closing \subseteq Nat /\ \A j \in closing : j \in n + 1 .. Len(s)
    BY <1>1 DEF Unclosed
  <1>5. closing # {} => Min(closing) \in closing /\ \A j \in closing : Min(closing) <= j
    <2> HIDE DEF closing
    <2>1. closing # {} => \E m \in closing : \A j \in closing : m <= j
      BY <1>4, LeastNatural
    <2> QED
      BY <2>1 DEF Min
  <1>6. n = Len(s) => closing = {}
    BY <1>1, <1>4
  <1>7. ASSUME NEW j \in i + 1 .. n, s[j] = Newline, closing # {}
        PROVE  \E u \in unquotable : ~(u > Min(closing))
    <2>1. j \in unquotable
      BY <1>1, <1>7
    <2>2. Min(closing) \in n + 1 .. Len(s)
      BY <1>4, <1>5, <1>7
    <2>3. ~(j > Min(closing))
      <3> HIDE DEF closing
      <3> QED
        BY <1>1, <2>2
    <2> QED
      BY <2>1, <2>3
  <1>8. ASSUME n < Len(s), s[n + 1] = s[i], \A j \in i + 1 .. n : s[j] # Newline
        PROVE  PieceEnd(s, i) = n + 2
    <2>1. n + 1 \in closing
      BY <1>1, <1>8
    <2>2. Min(closing) = n + 1
      <3> HIDE DEF closing
      <3>1. Min(closing) \in closing /\ Min(closing) <= n + 1
        BY <1>5, <2>1
      <3>2. Min(closing) \in n + 1 .. Len(s)
        BY <1>4, <3>1
      <3> QED
        BY <1>1, <3>1, <3>2
    <2>3. ASSUME NEW u \in unquotable
          PROVE  u > n + 1
      <3>1. s[n + 1] # Newline
        BY <1>8, Characters
      <3>2. u \in i + 1 .. Len(s) /\ s[u] = Newline
        OBVIOUS
      <3>3. u # n + 1 /\ u \notin i + 1 .. n
        BY <1>8, <3>1, <3>2
      <3> QED
        BY <1>1, <3>2, <3>3
    <2> HIDE DEF closing, unquotable
    <2> QED
      BY <1>1, <1>3, <2>1, <2>2, <2>3
  <1> HIDE DEF closing, unquotable
  <1>9. PieceEnd(s, i) = 0 \/ PieceEnd(s, i) \in n + 2 .. Len(s) + 1
    <2> SUFFICES ASSUME closing # {}
                 PROVE  Min(closing) + 1 \in n + 2 .. Len(s) + 1
      BY <1>3
    <2>1. Min(closing) \in n + 1 .. Len(s)
      BY <1>4, <1>5
    <2> QED
      BY <1>1, <2>1
  <1>10. n = Len(s) => PieceEnd(s, i) = 0
    BY <1>3, <1>6
  <1>11. (\E j \in i + 1 .. n : s[j] = Newline) => PieceEnd(s, i) = 0
    BY <1>3, <1>7
  <1> QED
    BY <1>8, <1>9, <1>10, <1>11

\* A piece has at least one character, and a malformed one no end.
LEMMA PieceEndIs ==
  ASSUME NEW s \in Text, NEW i \in 1 .. Len(s)
  PROVE  PieceEnd(s, i) = 0 \/ PieceEnd(s, i) \in i + 1 .. Len(s) + 1
  <1>1. Len(s) \in Nat /\ i \in i .. Len(s)
    BY LenProperties DEF Text
  <1>2. CASE s[i] \in Quote
    <2>1. Unclosed(s, i, i)
      BY DEF Unclosed
    <2>2. PieceEnd(s, i) = 0 \/ PieceEnd(s, i) \in i + 2 .. Len(s) + 1
      BY <1>1, <1>2, <2>1, QuotedPieces
    <2> QED
      BY <1>1, <2>2
  <1>3. CASE s[i] \notin Quote
    BY <1>1, <1>3, PlainPieces
  <1> QED
    BY <1>2, <1>3

\* Pieces do not overlap, and none follows a malformed one.
LEMMA PiecesFollow ==
  ASSUME NEW s \in Text, NEW i \in PieceStarts(s), NEW j \in PieceStarts(s), j < i
  PROVE  PieceEnd(s, j) # 0 /\ PieceEnd(s, j) <= i
  <1> DEFINE P == PieceStarts(s)
             Apart(m) == \A k \in P : k < m => PieceEnd(s, k) # 0 /\ PieceEnd(s, k) <= m
             bad == {m \in P : ~Apart(m)}
  <1>1. Len(s) \in Nat
    BY LenProperties DEF Text
  <1>2. /\ P \subseteq 1 .. Len(s) + 1
        /\ \A m \in 1 .. Len(s) + 1 :
             m \in P => m = 1 \/ \E k \in P : k < m /\ PieceEnd(s, k) = m
    BY <1>1, PieceStartsAre
  <1> HIDE DEF P
  <1>3. SUFFICES bad = {}
    BY DEF P
  <1>4. SUFFICES ASSUME bad # {}
                 PROVE  FALSE
    OBVIOUS
  <1>5. bad \subseteq Nat
    <2>1. bad \subseteq P
      OBVIOUS
    <2>2. P \subseteq 1 .. Len(s) + 1
      BY <1>2
    <2>3. 1 .. Len(s) + 1 \subseteq Nat
      BY <1>1
    <2> QED
      BY <2>1, <2>2, <2>3, Zenon
  <1>6. PICK m \in bad : \A k \in bad : m <= k
    <2> HIDE DEF bad
    <2> QED
      BY <1>4, <1>5, LeastNatural
  <1>7. m \in P /\ m \in 1 .. Len(s) + 1 /\ ~Apart(m)
    BY <1>2, <1>6
  <1>8. PICK k \in P : k < m /\ ~(PieceEnd(s, k) # 0 /\ PieceEnd(s, k) <= m)
    BY <1>7
  <1>9. k \in 1 .. Len(s) + 1 /\ m # 1 /\ m <= m
    BY <1>2, <1>7, <1>8
  <1>10. PICK p \in P : p < m /\ PieceEnd(s, p) = m
    BY <1>2, <1>7, <1>9
  <1>11. p \in 1 .. Len(s) + 1 /\ p # k
    BY <1>2, <1>7, <1>8, <1>9, <1>10
  <1>12. p \notin bad /\ k \notin bad
    <2> HIDE DEF bad
    <2> QED
      BY <1>2, <1>6, <1>7, <1>8, <1>9, <1>10, <1>11
  <1>13. Apart(p) /\ Apart(k)
    BY <1>12
  <1>14. CASE k < p
    BY <1>7, <1>8, <1>9, <1>10, <1>11, <1>13, <1>14, PieceEndIs
  <1>15. CASE p < k
    <2>1. PieceEnd(s, p) <= k
      BY <1>13, <1>15
    <2> QED
      BY <1>7, <1>8, <1>9, <1>10, <2>1
  <1> QED
    BY <1>9, <1>11, <1>14, <1>15

-----------------------------------------------------------------------------
(* The text of a word, piece by piece. *)

PieceAt(s, i) == IF i \in PieceStarts(s) THEN PieceText(s, i) ELSE <<>>

TextFrom(s, i, e) == FlattenSeq([k \in 1 .. e - i |-> PieceAt(s, i + k - 1)])

LEMMA PieceTexts ==
  ASSUME NEW s \in Text, NEW i \in 1 .. Len(s), PieceEnd(s, i) # 0
  PROVE  /\ PieceText(s, i) \in Text
         /\ s[i] \notin Quote \cup {Backslash} => PieceText(s, i) = <<s[i]>>
         /\ s[i] = Backslash => PieceText(s, i) = <<s[i + 1]>>
         /\ s[i] \in Quote => PieceText(s, i) = SubSeq(s, i + 1, PieceEnd(s, i) - 2)
  <1>1. Len(s) \in Nat /\ i \in Nat
    BY LenProperties DEF Text
  <1>2. CASE s[i] \notin Quote \cup {Backslash}
    <2>1. s[i] \in STRING
      BY ElementOfSeq DEF Text
    <2>2. PieceText(s, i) = <<s[i]>>
      BY <1>2 DEF PieceText
    <2>3. PieceText(s, i) \in Text
      BY <2>1, <2>2 DEF Text
    <2> QED
      BY <1>2, <2>2, <2>3
  <1>3. CASE s[i] = Backslash
    <2>1. i + 1 \in 1 .. Len(s)
      BY <1>1, <1>3, PlainPieces
    <2>2. s[i + 1] \in STRING
      BY <2>1, ElementOfSeq DEF Text
    <2>3. PieceText(s, i) = <<s[i + 1]>>
      BY <1>3, Characters DEF PieceText
    <2> QED
      BY <1>3, <2>2, <2>3, Characters DEF Text
  <1>4. CASE s[i] \in Quote
    <2>1. Unclosed(s, i, i) /\ i \in i .. Len(s)
      BY <1>1 DEF Unclosed
    <2>2. PieceEnd(s, i) \in i + 2 .. Len(s) + 1
      BY <1>4, <2>1, QuotedPieces
    <2>3. i + 1 \in 1 .. Len(s) + 1 /\ PieceEnd(s, i) - 2 \in 0 .. Len(s)
      BY <1>1, <2>2
    <2>4. SubSeq(s, i + 1, PieceEnd(s, i) - 2) \in Text
      BY <2>3, PartProperties DEF Text
    <2>5. s[i] # Backslash
      BY <1>4, Characters
    <2>6. PieceText(s, i) = SubSeq(s, i + 1, PieceEnd(s, i) - 2)
      BY <1>4, <2>5 DEF PieceText
    <2> QED
      BY <1>4, <2>4, <2>5, <2>6
  <1> QED
    BY <1>2, <1>3, <1>4

\* A quoted string that is closed behind n has the text up to there.
LEMMA QuotedPiece ==
  ASSUME NEW s \in Text, NEW i \in 1 .. Len(s), s[i] \in Quote, NEW n \in i .. Len(s),
         Unclosed(s, i, n), n < Len(s), s[n + 1] = s[i],
         \A j \in i + 1 .. n : s[j] # Newline
  PROVE  PieceEnd(s, i) = n + 2 /\ PieceText(s, i) = SubSeq(s, i + 1, n)
  <1>1. PieceEnd(s, i) = n + 2
    BY QuotedPieces
  <1>2. n \in Int /\ n >= i /\ i > 0
    OBVIOUS
  <1>3. PieceEnd(s, i) # 0 /\ PieceEnd(s, i) - 2 = n
    BY <1>1, <1>2
  <1>4. PieceText(s, i) = SubSeq(s, i + 1, PieceEnd(s, i) - 2)
    BY <1>3, PieceTexts
  <1> QED
    BY <1>1, <1>3, <1>4, Zenon

\* A part of a text is the argument that it reads like.
LEMMA PartIs ==
  ASSUME NEW s \in Text, NEW arg \in Text, NEW m \in 1 .. Len(s) + 1, NEW n \in 0 .. Len(s),
         m <= n + 1, n - m + 1 = Len(arg), \A i \in 1 .. Len(arg) : s[m + i - 1] = arg[i]
  PROVE  SubSeq(s, m, n) = arg
  <1>1. Len(s) \in Nat
    BY LenProperties DEF Text
  <1>2. (IF m <= n THEN n - m + 1 ELSE 0) = n - m + 1
    BY <1>1
  <1>3. /\ SubSeq(s, m, n) \in Text
        /\ Len(SubSeq(s, m, n)) = IF m <= n THEN n - m + 1 ELSE 0
        /\ \A i \in 1 .. n - m + 1 : SubSeq(s, m, n)[i] = s[m + i - 1]
    BY PartProperties DEF Text
  <1>4. Len(SubSeq(s, m, n)) = Len(arg)
    BY <1>2, <1>3
  <1>5. \A i \in 1 .. Len(arg) : SubSeq(s, m, n)[i] = arg[i]
    BY <1>3
  <1> QED
    BY <1>3, <1>4, <1>5, SeqEqual DEF Text

\* Where what was read from a on lies, if there are n characters in quotes.
LEMMA QuotedSpan ==
  ASSUME NEW a \in Nat, NEW n \in Nat, NEW l \in Nat, a > 0, a + (n + 2) <= l
  PROVE  /\ a \in 1 .. l /\ a <= l /\ a + n \in Nat /\ a + n \in a .. l /\ a + n < l
         /\ a + n \in 0 .. l /\ a + 1 \in 1 .. l + 1 /\ a + 1 <= a + n + 1
         /\ (a + n) - (a + 1) + 1 = n
         /\ 1 \in 1 .. n + 2 /\ n + 2 \in 1 .. n + 2 /\ n + 2 \in Nat /\ n + 2 > 0
         /\ (a - 1) + 1 = a /\ (a - 1) + (n + 2) = (a + n) + 1
         /\ a + (n + 2) = (a + n) + 2 /\ (a + n) + 2 # 0
         /\ \A i \in 1 .. n : /\ i + 1 \in 1 .. n + 2 /\ (a - 1) + (i + 1) = a + i
                              /\ (a + 1) + i - 1 = a + i
         /\ \A j \in a + 1 .. a + n : j - a \in 1 .. n /\ a + (j - a) = j
  OBVIOUS

\* The pieces before the start of one are strings, and their text too.
LEMMA TextIsText ==
  ASSUME NEW s \in Text, NEW w \in 1 .. Len(s) + 1, NEW e \in PieceStarts(s), w <= e
  PROVE  /\ [k \in 1 .. e - w |-> PieceAt(s, w + k - 1)] \in Seq(Text)
         /\ Len([k \in 1 .. e - w |-> PieceAt(s, w + k - 1)]) = e - w
         /\ TextFrom(s, w, e) \in Text
         /\ w = e => TextFrom(s, w, e) = <<>>
  <1> DEFINE pieces == [k \in 1 .. e - w |-> PieceAt(s, w + k - 1)]
  <1>1. Len(s) \in Nat /\ PieceStarts(s) \subseteq 1 .. Len(s) + 1
    BY LenProperties, PieceStartsAre DEF Text
  <1>2. e \in 1 .. Len(s) + 1 /\ e - w \in Nat
    BY <1>1
  <1>3. ASSUME NEW k \in 1 .. e - w
        PROVE  PieceAt(s, w + k - 1) \in Text
    <2> DEFINE i == w + k - 1
    <2>1. i \in 1 .. Len(s) /\ i < e
      BY <1>1, <1>2
    <2> HIDE DEF i
    <2>2. CASE i \in PieceStarts(s)
      <3>1. PieceEnd(s, i) # 0
        BY <2>1, <2>2, PiecesFollow
      <3>2. PieceText(s, i) \in Text
        BY <2>1, <3>1, PieceTexts
      <3> QED
        BY <2>2, <3>2 DEF PieceAt, i
    <2>3. CASE i \notin PieceStarts(s)
      BY <2>3 DEF PieceAt, Text, i
    <2> QED
      BY <2>2, <2>3
  <1>4. pieces \in Seq(Text) /\ Len(pieces) = e - w
    BY <1>2, <1>3, IsASeq, LenProperties
  <1>5. TextFrom(s, w, e) \in Text
    <2> HIDE DEF pieces
    <2>1. FlattenSeq(pieces) \in Seq(STRING)
      BY <1>4, FlattenIsSeq DEF Text
    <2> QED
      BY <2>1 DEF TextFrom, Text, pieces
  <1>6. ASSUME w = e
        PROVE  TextFrom(s, w, e) = <<>>
    <2> HIDE DEF pieces
    <2>1. pieces = <<>>
      <3>1. Len(pieces) = 0
        BY <1>1, <1>4, <1>6
      <3> QED
        BY <1>4, <3>1, EmptySeq
    <2> QED
      BY <2>1, FlattenNone DEF TextFrom, pieces
  <1> QED
    BY <1>4, <1>5, <1>6

\* The next piece adds its own text.
LEMMA TextGrows ==
  ASSUME NEW s \in Text, NEW w \in 1 .. Len(s) + 1, NEW q \in PieceStarts(s), w <= q,
         q \in 1 .. Len(s), NEW e, e = PieceEnd(s, q), e # 0
  PROVE  TextFrom(s, w, e) = TextFrom(s, w, q) \o PieceText(s, q)
  <1> DEFINE pieces == [k \in 1 .. e - w |-> PieceAt(s, w + k - 1)]
             a == q - w
  <1>1. Len(s) \in Nat /\ e \in q + 1 .. Len(s) + 1
    BY LenProperties, PieceEndIs DEF Text
  <1>2. e \in PieceStarts(s)
    BY <1>1, PieceStartsAre
  <1>3. /\ pieces \in Seq(Text) /\ Len(pieces) = e - w
    <2>1. w <= e
      BY <1>1
    <2> HIDE DEF pieces
    <2> QED
      BY <1>2, <2>1, TextIsText DEF pieces
  <1>4. /\ a \in 0 .. Len(pieces) /\ a < Len(pieces) /\ a + 1 \in 0 .. Len(pieces)
        /\ e - w \in a + 1 .. Len(pieces) /\ w + (a + 1) - 1 = q /\ a + 1 \in 1 .. e - w
    BY <1>1, <1>3
  <1>5. SubSeq(pieces, 1, a) = [k \in 1 .. q - w |-> PieceAt(s, w + k - 1)]
    <2> DEFINE before == [k \in 1 .. q - w |-> PieceAt(s, w + k - 1)]
               some == SubSeq(pieces, 1, a)
    <2>1. before \in Seq(Text) /\ Len(before) = q - w
      BY TextIsText
    <2>2. some \in Seq(Text) /\ Len(some) = a /\ \A k \in 1 .. a : some[k] = pieces[k]
      <3> HIDE DEF pieces
      <3> QED
        BY <1>3, <1>4, PrefixProperties
    <2>3. ASSUME NEW k \in 1 .. a
          PROVE  pieces[k] = before[k]
      BY <1>1
    <2> HIDE DEF before, some, pieces, a
    <2>4. \A k \in 1 .. Len(some) : some[k] = before[k]
      BY <2>2, <2>3
    <2>5. some = before
      BY <2>1, <2>2, <2>4, SeqEqual DEF a
    <2> QED
      BY <2>5 DEF some, before
  <1>6. Joined(pieces, a) = TextFrom(s, w, q)
    BY <1>5 DEF Joined, TextFrom
  <1>7. pieces[a + 1] = PieceText(s, q)
    BY <1>4 DEF PieceAt
  <1>8. ASSUME NEW j \in a + 1 + 1 .. e - w
        PROVE  pieces[j] = <<>>
    <2>1. j \in 1 .. e - w /\ w + j - 1 > q /\ w + j - 1 < e
      BY <1>1, <1>4
    <2>2. w + j - 1 \notin PieceStarts(s)
      BY <1>1, <2>1, PiecesFollow
    <2> QED
      BY <2>1, <2>2 DEF PieceAt
  <1> HIDE DEF pieces, a
  <1>9. Joined(pieces, a + 1) = Joined(pieces, a) \o pieces[a + 1]
    BY <1>3, <1>4, JoinedGrows DEF Text
  <1>10. Joined(pieces, e - w) = Joined(pieces, a + 1)
    BY <1>3, <1>4, <1>8, JoinedSkips DEF Text
  <1>11. Joined(pieces, e - w) = TextFrom(s, w, e)
    BY <1>3, JoinedEnds DEF TextFrom, pieces, Text
  <1> QED
    BY <1>6, <1>7, <1>9, <1>10, <1>11

-----------------------------------------------------------------------------
(* The words in order. *)

Keyed(W) ==
  /\ IsFiniteSet(W) /\ \A v \in W : v.first \in Nat
  /\ \A v, w \in W : v.first = w.first => v = w

InOrder(q, W) ==
  /\ q \in [1 .. Cardinality(W) -> W]
  /\ \A j, k \in 1 .. Cardinality(W) : j < k => q[j].first < q[k].first

\* Those that remain in order without the first, put behind it.
LEMMA OrderExists ==
  ASSUME NEW W, Keyed(W)
  PROVE  \E q : InOrder(q, W)
  <1> DEFINE S == {n \in Nat : \A V : Keyed(V) /\ Cardinality(V) = n => \E q : InOrder(q, V)}
  <1>1. 0 \in S
    <2> SUFFICES ASSUME NEW V, Keyed(V), Cardinality(V) = 0
                 PROVE  \E q : InOrder(q, V)
      OBVIOUS
    <2>1. 1 .. 0 = {}
      OBVIOUS
    <2>2. InOrder([k \in {} |-> 0], V)
      BY <2>1 DEF InOrder
    <2> QED
      BY <2>2
  <1>2. ASSUME NEW n \in Nat, n \in S
        PROVE  n + 1 \in S
    <2> SUFFICES ASSUME NEW V, Keyed(V), Cardinality(V) = n + 1
                 PROVE  \E q : InOrder(q, V)
      OBVIOUS
    <2> DEFINE firsts == {v.first : v \in V}
    <2>1. V # {}
      BY FS_EmptySet
    <2>2. firsts \subseteq Nat /\ firsts # {}
      BY <2>1 DEF Keyed
    <2>3. PICK f \in firsts : \A m \in firsts : f <= m
      <3> HIDE DEF firsts
      <3> QED
        BY <2>2, LeastNatural
    <2>4. PICK least \in V : least.first = f
      OBVIOUS
    <2> DEFINE rest == V \ {least}
    <2>5. IsFiniteSet(rest) /\ Cardinality(rest) = n
      <3>1. IsFiniteSet(V)
        BY DEF Keyed
      <3>2. IsFiniteSet(rest) /\ Cardinality(rest) = Cardinality(V) - 1
        BY <3>1, FS_RemoveElement
      <3> QED
        BY <3>2
    <2>6. Keyed(rest)
      BY <2>5 DEF Keyed
    <2>7. PICK r : InOrder(r, rest)
      BY <1>2, <2>5, <2>6
    <2>8. \A v \in rest : least.first < v.first
      <3> SUFFICES ASSUME NEW v \in rest
                   PROVE  least.first < v.first
        OBVIOUS
      <3>1. v \in V /\ v # least /\ v.first \in firsts
        OBVIOUS
      <3>2. v.first # least.first /\ v.first \in Nat /\ least.first \in Nat
        BY <3>1 DEF Keyed
      <3>3. f <= v.first
        BY <2>3, <3>1
      <3> QED
        BY <2>4, <3>2, <3>3
    <2> DEFINE q == [k \in 1 .. n + 1 |-> IF k = 1 THEN least ELSE r[k - 1]]
    <2>9. r \in [1 .. n -> rest] /\ \A j, k \in 1 .. n : j < k => r[j].first < r[k].first
      BY <2>5, <2>7 DEF InOrder
    <2>10. \A k \in 1 .. n + 1 : k = 1 \/ k - 1 \in 1 .. n
      OBVIOUS
    <2> HIDE DEF rest
    <2>11. \A k \in 1 .. n + 1 : q[k] = (IF k = 1 THEN least ELSE r[k - 1])
      OBVIOUS
    <2>12. q \in [1 .. n + 1 -> V]
      <3>1. \A k \in 1 .. n + 1 : k # 1 => r[k - 1] \in V
        BY <2>9, <2>10 DEF rest
      <3> QED
        BY <3>1
    <2> HIDE DEF q
    <2>13. ASSUME NEW j \in 1 .. n + 1, NEW k \in 1 .. n + 1, j < k
           PROVE  q[j].first < q[k].first
      <3>1. k # 1 /\ q[k] = r[k - 1] /\ k - 1 \in 1 .. n
        BY <2>10, <2>11, <2>13
      <3>2. CASE j = 1
        BY <2>8, <2>9, <2>11, <3>1, <3>2
      <3>3. CASE j # 1
        <4>1. q[j] = r[j - 1] /\ j - 1 \in 1 .. n /\ j - 1 < k - 1
          BY <2>10, <2>11, <2>13, <3>3
        <4> QED
          BY <2>9, <3>1, <4>1
      <3> QED
        BY <3>2, <3>3
    <2>14. InOrder(q, V)
      BY <2>12, <2>13 DEF InOrder
    <2> QED
      BY <2>14
  <1> HIDE DEF S
  <1>3. Cardinality(W) \in S
    BY <1>1, <1>2, AllNaturals, FS_CardinalityType DEF Keyed
  <1> QED
    BY <1>3 DEF S

\* In order, all of them.
LEMMA OrderIsComplete ==
  ASSUME NEW W, Keyed(W), NEW q, InOrder(q, W)
  PROVE  \A w \in W : \E k \in 1 .. Cardinality(W) : q[k] = w
  <1> DEFINE n == Cardinality(W)
  <1>1. IsFiniteSet(W) /\ n \in Nat
    BY FS_CardinalityType DEF Keyed
  <1>2. Cardinality(1 .. n) = n /\ IsFiniteSet(1 .. n)
    BY <1>1, FS_Interval
  <1>3. q \in Injection(1 .. n, W)
    <2>1. q \in [1 .. n -> W]
      BY DEF InOrder
    <2>2. ASSUME NEW j \in 1 .. n, NEW k \in 1 .. n, q[j] = q[k]
          PROVE  j = k
      <3>1. q[j].first \in Nat
        BY <2>1 DEF Keyed
      <3>2. ~(q[j].first < q[k].first) /\ ~(q[k].first < q[j].first)
        BY <2>2, <3>1
      <3>3. ~(j < k) /\ ~(k < j)
        BY <3>2 DEF InOrder
      <3> QED
        BY <1>1, <3>3
    <2> QED
      BY <2>1, <2>2 DEF Injection, IsInjective
  <1> HIDE DEF n
  <1>4. q \in Surjection(1 .. n, W)
    BY <1>1, <1>2, <1>3, FS_Injection DEF n
  <1> QED
    BY <1>4 DEF Surjection, n

-----------------------------------------------------------------------------
(* The words of the input. *)

Starts == PieceStarts(input)

Separators == {i \in Starts \ {Len(input) + 1} : input[i] \in Blank \cup {Newline}}

Closings == Separators \cup (IF read_failed THEN {} ELSE {Len(input) + 1})

IsWord(i, e) ==
  /\ i < e /\ (i - 1) \in Separators \cup {0} /\ e \in Closings
  /\ (i .. e - 1) \cap Separators = {}

WordAt(i, e) ==
  [first |-> i, ends |-> e, text |-> c_string(TextFrom(input, i, e)),
   ends_line |-> e = Len(input) + 1 \/ input[e] = Newline]

Places == {x \in Starts \X Starts : IsWord(x[1], x[2])}

WordSet == {WordAt(p[1], p[2]) : p \in Places}

LEMMA StartsAre ==
  ASSUME Types
  PROVE  /\ Len(input) \in Nat /\ Starts \subseteq 1 .. Len(input) + 1 /\ 1 \in Starts
         /\ Separators \subseteq 1 .. Len(input) /\ Separators \subseteq Starts
         /\ Closings \subseteq 1 .. Len(input) + 1
         /\ \A i \in Starts : i <= Len(input) /\ PieceEnd(input, i) # 0 => PieceEnd(input, i) \in Starts
         /\ \A i, j \in Starts : j < i => PieceEnd(input, j) # 0 /\ PieceEnd(input, j) <= i
  <1>1. input \in Text /\ Len(input) \in Nat
    BY DEF Types
  <1>2. Starts \subseteq 1 .. Len(input) + 1 /\ 1 \in Starts
    BY <1>1, PieceStartsAre DEF Starts
  <1>3. Separators \subseteq 1 .. Len(input) /\ Separators \subseteq Starts
    <2>1. ASSUME NEW i \in Separators
          PROVE  i \in 1 .. Len(input) /\ i \in Starts
      <3>1. i \in Starts /\ i # Len(input) + 1
        BY DEF Separators
      <3>2. i \in 1 .. Len(input) + 1
        BY <1>2, <3>1
      <3> QED
        BY <1>1, <3>1, <3>2
    <2> QED
      BY <2>1
  <1>4. Closings \subseteq 1 .. Len(input) + 1
    <2>1. ASSUME NEW i \in Closings
          PROVE  i \in 1 .. Len(input) + 1
      <3>1. i \in Separators \/ i = Len(input) + 1
        BY DEF Closings
      <3>2. i \in Separators => i \in 1 .. Len(input)
        BY <1>3
      <3> QED
        BY <1>1, <3>1, <3>2
    <2> QED
      BY <2>1
  <1>5. ASSUME NEW i \in Starts, i <= Len(input), PieceEnd(input, i) # 0
        PROVE  PieceEnd(input, i) \in Starts
    <2>1. i \in 1 .. Len(input)
      BY <1>1, <1>2, <1>5
    <2>2. PieceEnd(input, i) \in i + 1 .. Len(input) + 1
      BY <1>1, <1>5, <2>1, PieceEndIs
    <2>3. PieceEnd(input, i) \in 1 .. Len(input) + 1 /\ i < PieceEnd(input, i)
      BY <1>1, <2>1, <2>2
    <2> QED
      BY <1>1, <2>3, PieceStartsAre DEF Starts
  <1>6. \A i, j \in Starts : j < i => PieceEnd(input, j) # 0 /\ PieceEnd(input, j) <= i
    BY <1>1, PiecesFollow DEF Starts
  <1> QED
    BY <1>1, <1>2, <1>3, <1>4, <1>5, <1>6

\* Words that start at the same position are the same.
LEMMA WordsAreKeyed ==
  ASSUME Types
  PROVE  Keyed(WordSet)
  <1>1. Len(input) \in Nat /\ Starts \subseteq 1 .. Len(input) + 1
    BY StartsAre
  <1>2. IsFiniteSet(Starts)
    <2>1. IsFiniteSet(1 .. Len(input) + 1)
      BY <1>1, FS_Interval
    <2> QED
      BY <1>1, <2>1, FS_Subset
  <1>3. IsFiniteSet(Places)
    <2>1. IsFiniteSet(Starts \X Starts)
      BY <1>2, FS_Product
    <2> QED
      BY <2>1, FS_Subset DEF Places
  <1>4. IsFiniteSet(WordSet)
    <2> DEFINE f == [p \in Places |-> WordAt(p[1], p[2])]
    <2>1. f \in Surjection(Places, WordSet)
      BY DEF Surjection, WordSet
    <2> QED
      BY <1>3, <2>1, FS_Surjection
  <1>5. ASSUME NEW v \in WordSet
        PROVE  v.first \in Nat
    <2>1. PICK p \in Places : v = WordAt(p[1], p[2])
      BY DEF WordSet
    <2>2. p[1] \in Starts
      BY DEF Places
    <2>3. p[1] \in 1 .. Len(input) + 1
      BY <1>1, <2>2
    <2>4. v.first = p[1]
      BY <2>1 DEF WordAt
    <2> QED
      BY <1>1, <2>3, <2>4
  <1>6. ASSUME NEW v \in WordSet, NEW w \in WordSet, v.first = w.first
        PROVE  v = w
    <2>1. PICK p \in Places : v = WordAt(p[1], p[2])
      BY DEF WordSet
    <2>2. PICK r \in Places : w = WordAt(r[1], r[2])
      BY DEF WordSet
    <2>3. /\ p[1] \in Starts /\ p[2] \in Starts /\ IsWord(p[1], p[2])
          /\ r[1] \in Starts /\ r[2] \in Starts /\ IsWord(r[1], r[2])
      BY DEF Places
    <2>4. p[1] = r[1]
      BY <1>6, <2>1, <2>2 DEF WordAt
    <2>5. ASSUME NEW i \in Starts, NEW e \in Starts, NEW d \in Starts,
                 IsWord(i, e), IsWord(i, d), e < d
          PROVE  FALSE
      <3>1. e # Len(input) + 1 /\ e \in i .. d - 1
        BY <1>1, <2>5 DEF IsWord
      <3>2. e \in Separators
        BY <2>5, <3>1 DEF IsWord, Closings
      <3> QED
        BY <2>5, <3>1, <3>2 DEF IsWord
    <2>6. p[2] = r[2]
      <3>1. ~(p[2] < r[2]) /\ ~(r[2] < p[2])
        BY <2>3, <2>4, <2>5
      <3>2. p[2] \in 1 .. Len(input) + 1 /\ r[2] \in 1 .. Len(input) + 1
        BY <1>1, <2>3
      <3> QED
        BY <3>1, <3>2
    <2> QED
      BY <2>1, <2>2, <2>4, <2>6
  <1> QED
    BY <1>4, <1>5, <1>6 DEF Keyed

LEMMA WordsReadIs == WordsRead = CHOOSE q : InOrder(q, WordSet)
  BY Zenon DEF WordsRead, InOrder, WordSet, Places, WordAt, TextFrom, PieceAt, IsWord, Closings,
         Separators, Starts

\* Each word has one number, and it ends before the next one starts.
LEMMA WordsAre ==
  ASSUME Types
  PROVE  /\ Len(WordsRead) \in Nat /\ DOMAIN WordsRead = 1 .. Len(WordsRead)
         /\ WordsRead \in Seq(WordSet)
         /\ \A k \in 1 .. Len(WordsRead) :
              \E i, e \in Starts : IsWord(i, e) /\ WordsRead[k] = WordAt(i, e)
         /\ \A i, e \in Starts : IsWord(i, e) =>
              \E k \in 1 .. Len(WordsRead) : WordsRead[k] = WordAt(i, e)
         /\ \A j, k \in 1 .. Len(WordsRead) : j < k => WordsRead[j].ends < WordsRead[k].ends
  <1> DEFINE n == Cardinality(WordSet)
  <1>1. Keyed(WordSet)
    BY WordsAreKeyed
  <1>2. InOrder(WordsRead, WordSet)
    BY <1>1, OrderExists, WordsReadIs
  <1>3. n \in Nat
    BY <1>1, FS_CardinalityType DEF Keyed
  <1>4. WordsRead \in [1 .. n -> WordSet]
    BY <1>2 DEF InOrder
  <1>5. WordsRead \in Seq(WordSet) /\ Len(WordsRead) = n /\ DOMAIN WordsRead = 1 .. n
    <2> HIDE DEF n
    <2> QED
      BY <1>3, <1>4
  <1>6. ASSUME NEW k \in 1 .. n
        PROVE  \E i, e \in Starts : IsWord(i, e) /\ WordsRead[k] = WordAt(i, e)
    <2>1. WordsRead[k] \in WordSet
      BY <1>4
    <2> QED
      BY <2>1 DEF WordSet, Places
  <1>7. ASSUME NEW i \in Starts, NEW e \in Starts, IsWord(i, e)
        PROVE  \E k \in 1 .. n : WordsRead[k] = WordAt(i, e)
    <2>1. <<i, e>> \in Places
      BY <1>7 DEF Places
    <2>2. WordAt(i, e) \in WordSet
      BY <2>1 DEF WordSet
    <2> QED
      BY <1>1, <1>2, <2>2, OrderIsComplete
  <1>8. ASSUME NEW j \in 1 .. n, NEW k \in 1 .. n, j < k
        PROVE  WordsRead[j].ends < WordsRead[k].ends
    <2>1. PICK i \in Starts, e \in Starts : IsWord(i, e) /\ WordsRead[j] = WordAt(i, e)
      BY <1>6
    <2>2. PICK l \in Starts, d \in Starts : IsWord(l, d) /\ WordsRead[k] = WordAt(l, d)
      BY <1>6
    <2>3. i < l
      <3>1. WordsRead[j].first < WordsRead[k].first
        BY <1>2, <1>8 DEF InOrder
      <3> QED
        BY <2>1, <2>2, <3>1 DEF WordAt
    <2>4. /\ i \in 1 .. Len(input) + 1 /\ e \in 1 .. Len(input) + 1
          /\ l \in 1 .. Len(input) + 1 /\ d \in 1 .. Len(input) + 1 /\ Len(input) \in Nat
      BY StartsAre
    <2>5. l - 1 \in Separators /\ l < d /\ i < e
      BY <2>1, <2>2, <2>3, <2>4 DEF IsWord
    <2>6. l - 1 \notin i .. e - 1
      BY <2>1, <2>5 DEF IsWord
    <2>7. e < d
      BY <2>3, <2>4, <2>5, <2>6
    <2> QED
      BY <2>1, <2>2, <2>7 DEF WordAt
  <1> HIDE DEF n
  <1> QED
    BY <1>3, <1>5, <1>6, <1>7, <1>8

\* Nothing of the grammar changes while the input is read.
LEMMA GrammarStays ==
  ASSUME UNCHANGED source
  PROVE  /\ input' = input /\ read_failed' = read_failed
         /\ logical_end_of_input_marker' = logical_end_of_input_marker
         /\ Starts' = Starts /\ Separators' = Separators /\ Closings' = Closings
         /\ WordsRead' = WordsRead
  <1>1. /\ input' = input /\ read_failed' = read_failed
        /\ logical_end_of_input_marker' = logical_end_of_input_marker
    BY DEF source
  <1>2. Starts' = Starts
    BY <1>1 DEF Starts
  <1>3. Separators' = Separators
    BY <1>1, <1>2 DEF Separators
  <1>4. Closings' = Closings
    BY <1>1, <1>3 DEF Closings
  <1>5. WordsRead' = WordsRead
    BY <1>1 DEF WordsRead
  <1> QED
    BY <1>1, <1>2, <1>3, <1>4, <1>5

-----------------------------------------------------------------------------
(* Where the machine is in the grammar. *)

\* A word that starts at w goes on at q.
Place(w, q) ==
  /\ w \in Starts /\ q \in Starts /\ w <= q
  /\ w - 1 \in Separators \cup {0} /\ (w .. q - 1) \cap Separators = {}

Between ==
  /\ state = "NO_TOKEN" /\ buffer = <<>>
  /\ consumed + 1 \in Starts /\ consumed \in Separators \cup {0, Len(input)}

InToken(w, q) ==
  /\ state = "IN_TOKEN" /\ w < q /\ q = consumed + 1
  /\ buffer = TextFrom(input, w, q)

InEscape(w, q) ==
  /\ state \in {"NO_TOKEN_ESCAPE", "IN_TOKEN_ESCAPE"}
  /\ q = consumed /\ input[q] = Backslash
  /\ buffer = TextFrom(input, w, q)

InQuotes(w, q) ==
  /\ state \in {"IN_QUOTED_TOKEN", "IN_TOKEN_QUOTED"}
  /\ q <= consumed /\ input[q] = quote_char
  /\ \A j \in q + 1 .. consumed : input[j] \notin {quote_char, Newline}
  /\ buffer = TextFrom(input, w, q) \o SubSeq(input, q + 1, consumed)

\* Strengthening: what has been read is divided into pieces and words as the
\* grammar divides it, and the buffer is the text of the word so far.
PlaceInv ==
  ~finished =>
    Between \/ \E w, q : Place(w, q) /\ (InToken(w, q) \/ InEscape(w, q) \/ InQuotes(w, q))

\* Behind one more piece.
LEMMA PieceDone ==
  ASSUME Types, NEW w, NEW q, Place(w, q), q <= Len(input), q \notin Separators,
         NEW e, e = PieceEnd(input, q), e # 0
  PROVE  /\ Place(w, e) /\ w < e /\ q \in 1 .. Len(input)
         /\ TextFrom(input, w, q) \in Text
         /\ TextFrom(input, w, e) = TextFrom(input, w, q) \o PieceText(input, q)
  <1>1. /\ Len(input) \in Nat /\ w \in 1 .. Len(input) + 1 /\ q \in 1 .. Len(input)
        /\ w <= q /\ input \in Text /\ q \in Starts
    <2>1. w \in Starts /\ q \in Starts /\ w <= q
      BY DEF Place
    <2>2. Len(input) \in Nat /\ Starts \subseteq 1 .. Len(input) + 1
      BY StartsAre
    <2>3. w \in 1 .. Len(input) + 1 /\ q \in 1 .. Len(input) + 1
      BY <2>1, <2>2
    <2> QED
      BY <2>1, <2>2, <2>3 DEF Types
  <1>2. e \in Starts /\ e \in q + 1 .. Len(input) + 1
    BY <1>1, StartsAre, PieceEndIs
  <1>3. ASSUME NEW i \in w .. e - 1, i \in Separators
        PROVE  FALSE
    <2>1. i \notin w .. q - 1 /\ i # q
      BY <1>3 DEF Place
    <2>2. q < i /\ i < e
      BY <1>1, <1>2, <1>3, <2>1
    <2>3. i \in Starts
      BY <1>3, StartsAre
    <2>4. e <= i
      BY <1>1, <2>2, <2>3, StartsAre
    <2> QED
      BY <1>1, <1>2, <2>2, <2>4
  <1>4. Place(w, e) /\ w < e
    BY <1>1, <1>2, <1>3 DEF Place
  <1>5. TextFrom(input, w, e) = TextFrom(input, w, q) \o PieceText(input, q)
    BY <1>1, TextGrows DEF Starts
  <1>6. TextFrom(input, w, q) \in Text
    BY <1>1, TextIsText DEF Starts
  <1> QED
    BY <1>1, <1>4, <1>5, <1>6

LEMMA OneLonger ==
  ASSUME NEW s \in Text, NEW e \in STRING
  PROVE  s \o <<e>> = Append(s, e) /\ s \o <<>> = s
  BY AppendIsConcat, ConcatEmptySeq DEF Text

LEMMA TextAppend ==
  ASSUME NEW s \in Text, NEW u \in Text, NEW e \in STRING
  PROVE  Append(s \o u, e) = s \o Append(u, e)
  <1>1. <<e>> \in Text
    BY OneElement DEF Text
  <1>2. s \o u \in Text
    BY ConcatProperties DEF Text
  <1>3. (s \o u) \o <<e>> = s \o (u \o <<e>>)
    BY <1>1, ConcatAssociative DEF Text
  <1> QED
    BY <1>2, <1>3, OneLonger

\* A blank or a newline outside of other pieces.
LEMMA Separates ==
  ASSUME Types, NEW p \in Starts, p <= Len(input), input[p] \in Blank \cup {Newline}
  PROVE  p \in Separators /\ p + 1 \in Starts /\ PieceEnd(input, p) = p + 1
  <1>1. Len(input) \in Nat /\ p \in 1 .. Len(input) /\ input \in Text
    BY StartsAre DEF Types
  <1>2. PieceEnd(input, p) = p + 1
    BY <1>1, PlainPieces, Characters
  <1> QED
    BY <1>1, <1>2, StartsAre DEF Separators

LEMMA NotSeparator ==
  ASSUME Types, NEW p, p \in Separators
  PROVE  input[p] \in Blank \cup {Newline} /\ input[p] \notin Quote \cup {Backslash}
  BY Characters DEF Separators

-----------------------------------------------------------------------------
(* The machine moves with the grammar. *)

\* What is known when a character is read.
LEMMA AtCharacter ==
  ASSUME Types, ReadChar
  PROVE  /\ input' = input /\ Starts' = Starts /\ Separators' = Separators
         /\ consumed' = consumed + 1 /\ consumed \in Nat /\ Len(input) \in Nat
         /\ consumed + 1 \in 1 .. Len(input) /\ consumed < Len(input) /\ ~finished
         /\ input \in Text /\ buffer \in Text /\ input[consumed + 1] \in STRING
  BY NextCharacter, GrammarStays DEF ReadChar, Types

LEMMA PlacesAre ==
  ASSUME Types, NEW w, NEW q, Place(w, q)
  PROVE  /\ w \in 1 .. Len(input) + 1 /\ q \in 1 .. Len(input) + 1 /\ w <= q
         /\ w \in Starts /\ q \in Starts /\ TextFrom(input, w, q) \in Text
         /\ w = q => TextFrom(input, w, q) = <<>>
  <1>1. w \in 1 .. Len(input) + 1 /\ q \in 1 .. Len(input) + 1
    BY StartsAre DEF Place
  <1> QED
    BY <1>1, TextIsText DEF Place, Types, Starts

\* A quote begins a quoted string, in a word or before one.
LEMMA QuoteOpens ==
  ASSUME Types, ReadChar, NEW w, Place(w, consumed + 1),
         buffer = TextFrom(input, w, consumed + 1),
         input[consumed + 1] \in Quote,
         state' \in {"IN_QUOTED_TOKEN", "IN_TOKEN_QUOTED"},
         quote_char' = input[consumed + 1], buffer' = buffer
  PROVE  PlaceInv'
  <1>0. PICK q : q = consumed + 1
    OBVIOUS
  <1>1. /\ input' = input /\ Starts' = Starts /\ Separators' = Separators
        /\ consumed' = q /\ q \in Nat /\ Len(input) \in Nat /\ input \in Text
    BY <1>0, AtCharacter
  <1>2. Place(w, q)'
    BY <1>0, <1>1 DEF Place
  <1>3. SubSeq(input, q + 1, q) = <<>> /\ q + 1 .. q = {}
    BY <1>1, SubSeqEmpty
  <1>4. TextFrom(input, w, q) \o <<>> = TextFrom(input, w, q)
    <2>1. TextFrom(input, w, q) \in Text
      BY <1>0, PlacesAre
    <2> QED
      BY <2>1, ConcatEmptySeq DEF Text
  <1>5. \A j \in q + 1 .. consumed' : input'[j] \notin {quote_char', Newline}
    BY <1>1, <1>3
  <1>6. buffer' = TextFrom(input', w, q) \o SubSeq(input', q + 1, consumed')
    BY <1>0, <1>1, <1>3, <1>4
  <1>7. q <= consumed' /\ input'[q] = quote_char'
    BY <1>0, <1>1
  <1>8. InQuotes(w, q)'
    BY <1>5, <1>6, <1>7 DEF InQuotes
  <1> QED
    BY <1>2, <1>8 DEF PlaceInv

LEMMA EscapeBegins ==
  ASSUME Types, ReadChar, NEW w, Place(w, consumed + 1),
         buffer = TextFrom(input, w, consumed + 1),
         input[consumed + 1] = Backslash,
         state' \in {"NO_TOKEN_ESCAPE", "IN_TOKEN_ESCAPE"}, buffer' = buffer
  PROVE  PlaceInv'
  <1>1. PICK q : q = consumed + 1
    OBVIOUS
  <1>2. /\ input' = input /\ Starts' = Starts /\ Separators' = Separators
        /\ consumed' = q
    BY <1>1, AtCharacter
  <1>3. Place(w, q)' /\ InEscape(w, q)'
    BY <1>1, <1>2 DEF Place, InEscape
  <1> QED
    BY <1>3 DEF PlaceInv

\* Behind a piece, with its text in the buffer.
LEMMA PieceRead ==
  ASSUME Types, ReadChar, NEW w, NEW q, Place(w, q), q <= Len(input), q \notin Separators,
         PieceEnd(input, q) = consumed + 2, state' = "IN_TOKEN",
         buffer' = TextFrom(input, w, q) \o PieceText(input, q)
  PROVE  PlaceInv'
  <1>1. /\ input' = input /\ Starts' = Starts /\ Separators' = Separators
        /\ consumed' = consumed + 1 /\ consumed \in Nat
    BY AtCharacter
  <1>0. PICK e : e = consumed + 2
    OBVIOUS
  <1>2. e # 0 /\ e = PieceEnd(input, q) /\ e = consumed' + 1
    BY <1>0, <1>1
  <1>3. /\ Place(w, e) /\ w < e
        /\ TextFrom(input, w, e) = TextFrom(input, w, q) \o PieceText(input, q)
    BY <1>2, PieceDone
  <1>4. Place(w, e)' /\ InToken(w, e)'
    BY <1>1, <1>2, <1>3 DEF Place, InToken
  <1> QED
    BY <1>4 DEF PlaceInv

\* An ordinary character is a piece of its own.
LEMMA OrdinaryRead ==
  ASSUME Types, ReadChar, NEW w, Place(w, consumed + 1),
         buffer = TextFrom(input, w, consumed + 1),
         input[consumed + 1] \notin Blank \cup {Newline} \cup Quote \cup {Backslash},
         state' = "IN_TOKEN", buffer' = Append(buffer, input[consumed + 1])
  PROVE  PlaceInv'
  <1> DEFINE q == consumed + 1
  <1>1. /\ q \in 1 .. Len(input) /\ consumed \in Nat /\ Len(input) \in Nat /\ input \in Text
        /\ buffer \in Text /\ input[q] \in STRING
    BY AtCharacter
  <1>2. PieceEnd(input, q) = consumed + 2
    <2>1. PieceEnd(input, q) = q + 1
      BY <1>1, PlainPieces
    <2> QED
      BY <1>1, <2>1
  <1>3. PieceText(input, q) = <<input[q]>>
    <2>1. PieceEnd(input, q) # 0
      BY <1>1, <1>2
    <2> QED
      BY <1>1, <2>1, PieceTexts
  <1>4. q \notin Separators
    BY NotSeparator
  <1>5. buffer' = TextFrom(input, w, q) \o PieceText(input, q)
    BY <1>1, <1>3, OneLonger
  <1>6. q <= Len(input)
    BY <1>1
  <1> HIDE DEF q
  <1> QED
    BY <1>2, <1>4, <1>5, <1>6, PieceRead DEF q

LEMMA PlaceNoToken ==
  ASSUME Types, PlaceInv, ReadChar, state = "NO_TOKEN",
         handle_no_token_char(input[consumed + 1])
  PROVE  PlaceInv'
  <1>0. PICK p : p = consumed + 1
    OBVIOUS
  <1> DEFINE ch == input[p]
  <1>1. /\ input' = input /\ Starts' = Starts /\ Separators' = Separators
        /\ consumed' = p /\ consumed \in Nat /\ Len(input) \in Nat
        /\ p \in 1 .. Len(input) /\ consumed < Len(input) /\ ~finished
    BY <1>0, AtCharacter
  <1>2. buffer = <<>> /\ p \in Starts /\ consumed \in Separators \cup {0}
    BY <1>0, <1>1 DEF PlaceInv, Between, InToken, InEscape, InQuotes
  <1>3. Place(p, p)
    <2>1. p - 1 = consumed /\ p .. p - 1 = {} /\ p <= p
      BY <1>0, <1>1
    <2> QED
      BY <1>2, <2>1 DEF Place
  <1>4. buffer = TextFrom(input, p, p)
    BY <1>2, <1>3, PlacesAre
  <1>5. CASE ch \in Blank \cup {Newline} /\ UNCHANGED <<state, buffer>>
    <2>1. p \in Separators /\ p + 1 \in Starts
      BY <1>1, <1>2, <1>5, Separates
    <2>2. Between'
      BY <1>1, <1>2, <1>5, <2>1 DEF Between
    <2> QED
      BY <2>2 DEF PlaceInv
  <1>6. CASE ch \in Quote /\ state' = "IN_QUOTED_TOKEN" /\ quote_char' = ch /\ buffer' = buffer
    BY <1>0, <1>3, <1>4, <1>6, QuoteOpens
  <1>7. CASE ch = Backslash /\ state' = "NO_TOKEN_ESCAPE" /\ buffer' = buffer
    BY <1>0, <1>3, <1>4, <1>7, EscapeBegins
  <1>8. CASE /\ ch \notin Blank \cup {Newline} \cup Quote \cup {Backslash}
             /\ state' = "IN_TOKEN" /\ buffer' = Append(buffer, ch)
    BY <1>0, <1>3, <1>4, <1>8, OrdinaryRead
  <1> QED
    BY <1>0, <1>5, <1>6, <1>7, <1>8 DEF handle_no_token_char

\* In a token: the place is known.
LEMMA TokenPlace ==
  ASSUME Types, PlaceInv, ~finished, state = "IN_TOKEN"
  PROVE  \E w : /\ Place(w, consumed + 1) /\ w < consumed + 1
                /\ buffer = TextFrom(input, w, consumed + 1)
  BY DEF PlaceInv, Between, InToken, InEscape, InQuotes

LEMMA EscapePlace ==
  ASSUME Types, PlaceInv, ~finished, state \in {"NO_TOKEN_ESCAPE", "IN_TOKEN_ESCAPE"}
  PROVE  \E w : /\ Place(w, consumed) /\ input[consumed] = Backslash
                /\ buffer = TextFrom(input, w, consumed)
  BY DEF PlaceInv, Between, InToken, InEscape, InQuotes

LEMMA QuotesPlace ==
  ASSUME Types, PlaceInv, ~finished, state \in {"IN_QUOTED_TOKEN", "IN_TOKEN_QUOTED"}
  PROVE  \E w, q : Place(w, q) /\ InQuotes(w, q)
  BY DEF PlaceInv, Between, InToken, InEscape

LEMMA PlaceInToken ==
  ASSUME Types, PlaceInv, ReadChar, state = "IN_TOKEN",
         handle_in_token_char(input[consumed + 1])
  PROVE  PlaceInv'
  <1>0. PICK p : p = consumed + 1
    OBVIOUS
  <1> DEFINE ch == input[p]
  <1>1. /\ input' = input /\ Starts' = Starts /\ Separators' = Separators
        /\ consumed' = p /\ consumed \in Nat /\ Len(input) \in Nat
        /\ p \in 1 .. Len(input) /\ consumed < Len(input) /\ ~finished
    BY <1>0, AtCharacter
  <1>2. PICK w : Place(w, p) /\ w < p /\ buffer = TextFrom(input, w, p)
    BY <1>0, <1>1, TokenPlace
  <1>3. ASSUME ch \in Blank \cup {Newline}, space_tokenizer_end_token
        PROVE  PlaceInv'
    <2>1. p \in Separators /\ p + 1 \in Starts
      BY <1>1, <1>2, <1>3, Separates, PlacesAre
    <2>2. state' = "NO_TOKEN" /\ buffer' = <<>>
      BY <1>3 DEF space_tokenizer_end_token, space_tokenizer_no_token
    <2>3. Between'
      BY <1>1, <2>1, <2>2 DEF Between
    <2> QED
      BY <2>3 DEF PlaceInv
  <1>4. CASE ch \in Quote /\ state' = "IN_TOKEN_QUOTED" /\ quote_char' = ch /\ buffer' = buffer
    BY <1>0, <1>2, <1>4, QuoteOpens
  <1>5. CASE ch = Backslash /\ state' = "IN_TOKEN_ESCAPE" /\ buffer' = buffer
    BY <1>0, <1>2, <1>5, EscapeBegins
  <1>6. CASE /\ ch \notin Blank \cup {Newline} \cup Quote \cup {Backslash}
             /\ state' = state /\ buffer' = Append(buffer, ch)
    BY <1>0, <1>2, <1>6, OrdinaryRead
  <1> QED
    BY <1>0, <1>3, <1>4, <1>5, <1>6 DEF handle_in_token_char

LEMMA PlaceInEscape ==
  ASSUME Types, PlaceInv, ReadChar, state \in {"NO_TOKEN_ESCAPE", "IN_TOKEN_ESCAPE"},
         space_tokenizer_end_escape(input[consumed + 1])
  PROVE  PlaceInv'
  <1>0. PICK q : q = consumed
    OBVIOUS
  <1>1. /\ q \in Nat /\ Len(input) \in Nat /\ q + 1 \in 1 .. Len(input) /\ ~finished
        /\ input \in Text /\ buffer \in Text /\ input[q + 1] \in STRING
    BY <1>0, AtCharacter
  <1>2. PICK w : Place(w, q) /\ input[q] = Backslash /\ buffer = TextFrom(input, w, q)
    BY <1>0, <1>1, EscapePlace
  <1>3. q \in 1 .. Len(input) /\ q < Len(input)
    BY <1>1, <1>2, PlacesAre
  <1>4. PieceEnd(input, q) = q + 2 /\ PieceEnd(input, q) # 0
    BY <1>1, <1>2, <1>3, PlainPieces
  <1>5. PieceText(input, q) = <<input[q + 1]>>
    BY <1>1, <1>2, <1>3, <1>4, PieceTexts
  <1>6. q \notin Separators
    BY <1>2, NotSeparator
  <1>7. buffer' = TextFrom(input, w, q) \o PieceText(input, q) /\ state' = "IN_TOKEN"
    BY <1>0, <1>1, <1>2, <1>5, OneLonger DEF space_tokenizer_end_escape
  <1>8. q <= Len(input) /\ PieceEnd(input, q) = consumed + 2
    BY <1>0, <1>1, <1>4
  <1> QED
    BY <1>2, <1>6, <1>7, <1>8, PieceRead

\* In quotes: what has been read of them.
LEMMA QuotesAre ==
  ASSUME Types, ~finished, NEW w, NEW q, Place(w, q), InQuotes(w, q)
  PROVE  /\ q \in 1 .. Len(input) /\ consumed \in q .. Len(input)
         /\ input[q] = quote_char /\ quote_char \in Quote /\ q \notin Separators
         /\ Unclosed(input, q, consumed)
         /\ \A j \in q + 1 .. consumed : input[j] # Newline
         /\ TextFrom(input, w, q) \in Text /\ SubSeq(input, q + 1, consumed) \in Text
  <1>1. /\ q \in 1 .. Len(input) + 1 /\ TextFrom(input, w, q) \in Text
        /\ consumed \in 0 .. Len(input) /\ Len(input) \in Nat /\ q <= consumed
        /\ input[q] = quote_char /\ quote_char \in Quote /\ input \in Text
    BY PlacesAre DEF InQuotes, Types, TypeOK
  <1>2. q \in 1 .. Len(input) /\ consumed \in q .. Len(input) /\ q + 1 \in 1 .. Len(input) + 1
    BY <1>1
  <1>3. q \notin Separators
    BY <1>1, NotSeparator
  <1>4. Unclosed(input, q, consumed) /\ \A j \in q + 1 .. consumed : input[j] # Newline
    BY <1>1 DEF InQuotes, Unclosed
  <1>5. SubSeq(input, q + 1, consumed) \in Text
    BY <1>1, <1>2, PartProperties DEF Text
  <1> QED
    BY <1>1, <1>2, <1>3, <1>4, <1>5

LEMMA PlaceInQuotes ==
  ASSUME Types, PlaceInv, ReadChar, state \in {"IN_QUOTED_TOKEN", "IN_TOKEN_QUOTED"},
         handle_quoted_char(input[consumed + 1])
  PROVE  PlaceInv'
  <1>0. PICK c : c = consumed
    OBVIOUS
  <1>1. /\ input' = input /\ Starts' = Starts /\ Separators' = Separators
        /\ consumed' = c + 1 /\ c \in Nat /\ Len(input) \in Nat
        /\ c + 1 \in 1 .. Len(input) /\ c < Len(input) /\ ~finished
        /\ input \in Text /\ buffer \in Text /\ input[c + 1] \in STRING
    BY <1>0, AtCharacter
  <1>2. PICK w, q : Place(w, q) /\ InQuotes(w, q)
    BY <1>1, QuotesPlace
  <1>3. /\ q \in 1 .. Len(input) /\ c \in q .. Len(input)
        /\ input[q] = quote_char /\ quote_char \in Quote /\ q \notin Separators
        /\ Unclosed(input, q, c) /\ \A j \in q + 1 .. c : input[j] # Newline
        /\ TextFrom(input, w, q) \in Text /\ SubSeq(input, q + 1, c) \in Text
    BY <1>0, <1>1, <1>2, QuotesAre
  <1>4. buffer = TextFrom(input, w, q) \o SubSeq(input, q + 1, c)
    BY <1>0, <1>2 DEF InQuotes
  <1>5. ASSUME input[c + 1] = quote_char, state' = "IN_TOKEN", buffer' = buffer
        PROVE  PlaceInv'
    <2>1. PieceEnd(input, q) = c + 2 /\ PieceText(input, q) = SubSeq(input, q + 1, c)
      BY <1>1, <1>3, <1>5, QuotedPiece
    <2>4. buffer' = TextFrom(input, w, q) \o PieceText(input, q)
      BY <1>4, <1>5, <2>1
    <2>5. q <= Len(input) /\ PieceEnd(input, q) = consumed + 2
      BY <1>0, <1>1, <1>3, <2>1
    <2> QED
      BY <1>2, <1>3, <1>5, <2>4, <2>5, PieceRead
  <1>6. ASSUME input[c + 1] \notin {quote_char, Newline}, state' = state,
               quote_char' = quote_char, buffer' = Append(buffer, input[c + 1])
        PROVE  PlaceInv'
    <2>1. SubSeq(input, q + 1, c + 1) = Append(SubSeq(input, q + 1, c), input[c + 1])
      BY <1>1, <1>3 DEF Text
    <2>2. buffer' = TextFrom(input, w, q) \o SubSeq(input, q + 1, c + 1)
      <3>1. buffer' = Append(TextFrom(input, w, q) \o SubSeq(input, q + 1, c), input[c + 1])
        BY <1>4, <1>6, Zenon
      <3>2. Append(TextFrom(input, w, q) \o SubSeq(input, q + 1, c), input[c + 1])
              = TextFrom(input, w, q) \o Append(SubSeq(input, q + 1, c), input[c + 1])
        BY <1>1, <1>3, TextAppend, Zenon
      <3> QED
        BY <2>1, <3>1, <3>2, Zenon
    <2>3. ASSUME NEW j \in q + 1 .. c + 1
          PROVE  input[j] \notin {quote_char, Newline}
      <3>1. j \in q + 1 .. c \/ j = c + 1
        BY <1>1, <1>3
      <3> QED
        BY <1>0, <1>2, <1>6, <3>1 DEF InQuotes
    <2>4. q <= c + 1 /\ state' \in {"IN_QUOTED_TOKEN", "IN_TOKEN_QUOTED"}
      BY <1>1, <1>3, <1>6
    <2>5. InQuotes(w, q)'
      BY <1>1, <1>3, <1>6, <2>2, <2>3, <2>4 DEF InQuotes
    <2>6. Place(w, q)'
      BY <1>1, <1>2 DEF Place
    <2> QED
      BY <2>5, <2>6 DEF PlaceInv
  <1>7. ASSUME Fail("UNTERMINATED_QUOTE")
        PROVE  PlaceInv'
    BY <1>7 DEF Fail, PlaceInv
  <1> QED
    BY <1>0, <1>5, <1>6, <1>7 DEF handle_quoted_char, answer

LEMMA PlaceAtEof ==
  ASSUME Types, PlaceInv, ReadEof
  PROVE  PlaceInv'
  <1>1. /\ input' = input /\ Starts' = Starts /\ consumed' = consumed
        /\ consumed = Len(input) /\ ~finished /\ Len(input) \in Nat
    BY GrammarStays DEF ReadEof, Types
  <1>2. CASE finished'
    BY <1>2 DEF PlaceInv
  <1>3. CASE state = "IN_TOKEN" /\ space_tokenizer_end_token
    <2>1. PICK w : Place(w, consumed + 1)
      BY <1>1, <1>3, TokenPlace
    <2>2. consumed + 1 \in Starts
      BY <2>1 DEF Place
    <2>3. state' = "NO_TOKEN" /\ buffer' = <<>>
      BY <1>3 DEF space_tokenizer_end_token, space_tokenizer_no_token
    <2>4. Between'
      BY <1>1, <2>2, <2>3 DEF Between
    <2> QED
      BY <2>4 DEF PlaceInv
  <1>4. line_has_token = (state # "NO_TOKEN")
    BY DEF Types, TypeOK
  <1>5. finished' \/ (state = "IN_TOKEN" /\ space_tokenizer_end_token)
    BY <1>4 DEF ReadEof, handle_eof, Fail
  <1> QED
    BY <1>2, <1>3, <1>5

LEMMA PlaceInitially == Init => PlaceInv
  <1> SUFFICES ASSUME Init
               PROVE  PlaceInv
    OBVIOUS
  <1>1. Types
    BY TypesInitially
  <1>2. 1 \in Starts /\ consumed = 0 /\ state = "NO_TOKEN" /\ buffer = <<>>
    BY <1>1, StartsAre DEF Init
  <1> QED
    BY <1>2 DEF PlaceInv, Between

LEMMA PlaceStep == Types /\ PlaceInv /\ [Next]_vars => PlaceInv'
  <1> SUFFICES ASSUME Types, PlaceInv, [Next]_vars
               PROVE  PlaceInv'
    OBVIOUS
  <1>1. CASE ReadChar
    <2>1. CASE state = "NO_TOKEN" /\ handle_no_token_char(input[consumed + 1])
      BY <1>1, <2>1, PlaceNoToken
    <2>2. CASE /\ state \in {"NO_TOKEN_ESCAPE", "IN_TOKEN_ESCAPE"}
               /\ space_tokenizer_end_escape(input[consumed + 1])
      BY <1>1, <2>2, PlaceInEscape
    <2>3. CASE state = "IN_TOKEN" /\ handle_in_token_char(input[consumed + 1])
      BY <1>1, <2>3, PlaceInToken
    <2>4. CASE /\ state \in {"IN_QUOTED_TOKEN", "IN_TOKEN_QUOTED"}
               /\ handle_quoted_char(input[consumed + 1])
      BY <1>1, <2>4, PlaceInQuotes
    <2> QED
      BY <1>1, <2>1, <2>2, <2>3, <2>4 DEF ReadChar
  <1>2. CASE ReadEof
    BY <1>2, PlaceAtEof
  <1>3. CASE UNCHANGED vars
    BY <1>3, Zenon DEF vars, PlaceInv, Between, Place, InToken, InEscape, InQuotes, Starts,
       Separators
  <1> QED
    BY <1>1, <1>2, <1>3 DEF Next, next_space_token, Done

-----------------------------------------------------------------------------
(* What has been returned so far. *)

\* The first n words are those that end by e.
Counted(n, e) == \A k \in 1 .. Len(WordsRead) : k <= n <=> WordsRead[k].ends <= e

LineEnds(n) == {k \in 1 .. n : WordsRead[k].ends_line}

\* How far the input has been seen: the end of the input closes a word too.
Reach == IF consumed = Len(input) /\ state = "NO_TOKEN" THEN Len(input) + 1 ELSE consumed

\* Strengthening: the words that end by what has been seen are returned, and no
\* other; at the end either the marker comes next or nothing is left.
ReadInv ==
  LET n == Len(tokens)
  IN /\ n <= Len(WordsRead)
     /\ \A k \in 1 .. n : /\ tokens[k] = WordsRead[k].text
                          /\ WordsRead[k].text # logical_end_of_input_marker
     /\ ~finished => Counted(n, Reach) /\ boundaries = LineEnds(n) /\ err = "NONE"
     /\ finished => /\ \/ n = Len(WordsRead)
                       \/ /\ n < Len(WordsRead)
                          /\ WordsRead[n + 1].text = logical_end_of_input_marker
                    /\ boundaries \cap (1 .. n) = LineEnds(n)
                    /\ err = ErrorIn(input)

LEMMA WordIs ==
  ASSUME Types, NEW k \in 1 .. Len(WordsRead)
  PROVE  \E i, e \in Starts : /\ IsWord(i, e) /\ WordsRead[k] = WordAt(i, e)
                              /\ WordsRead[k].ends = e /\ e \in 1 .. Len(input) + 1
                              /\ i \in 1 .. Len(input) + 1
  <1>1. PICK i \in Starts, e \in Starts : IsWord(i, e) /\ WordsRead[k] = WordAt(i, e)
    BY WordsAre
  <1>2. WordsRead[k].ends = e
    BY <1>1 DEF WordAt
  <1>3. e \in 1 .. Len(input) + 1 /\ i \in 1 .. Len(input) + 1
    BY StartsAre
  <1> QED
    BY <1>1, <1>2, <1>3

\* No word ends inside a piece, at another piece, or right behind a separator.
LEMMA NoWordEnds ==
  ASSUME Types, NEW e,
         e \notin Starts \/ e \notin Closings \/ e - 1 \in Separators \/ e = 1
  PROVE  \A k \in 1 .. Len(WordsRead) : WordsRead[k].ends # e
  <1> SUFFICES ASSUME NEW k \in 1 .. Len(WordsRead), WordsRead[k].ends = e
               PROVE  FALSE
    OBVIOUS
  <1>1. PICK i \in Starts : /\ e \in Starts /\ IsWord(i, e) /\ e \in 1 .. Len(input) + 1
                            /\ i \in 1 .. Len(input) + 1
    BY WordIs
  <1>2. e \in Closings /\ i < e /\ (i .. e - 1) \cap Separators = {} /\ Len(input) \in Nat
    BY <1>1, StartsAre DEF IsWord
  <1>3. e # 1 /\ e - 1 \in i .. e - 1
    BY <1>1, <1>2
  <1> QED
    BY <1>1, <1>2, <1>3

LEMMA CountedOn ==
  ASSUME Types, NEW n, NEW e \in Nat, Counted(n, e),
         \A k \in 1 .. Len(WordsRead) : WordsRead[k].ends # e + 1
  PROVE  Counted(n, e + 1)
  <1> SUFFICES ASSUME NEW k \in 1 .. Len(WordsRead)
               PROVE  k <= n <=> WordsRead[k].ends <= e + 1
    BY DEF Counted
  <1>1. WordsRead[k].ends \in 1 .. Len(input) + 1 /\ Len(input) \in Nat
    BY WordIs, StartsAre
  <1>2. k <= n <=> WordsRead[k].ends <= e
    BY DEF Counted
  <1>3. WordsRead[k].ends # e + 1
    OBVIOUS
  <1> QED
    BY <1>1, <1>2, <1>3

LEMMA AllCounted ==
  ASSUME Types, NEW n \in Nat, n <= Len(WordsRead), NEW e \in Nat, Counted(n, e),
         \A k \in 1 .. Len(WordsRead) : WordsRead[k].ends <= e
  PROVE  n = Len(WordsRead)
  <1>1. Len(WordsRead) \in Nat
    BY WordsAre
  <1>2. CASE Len(WordsRead) = 0
    BY <1>1, <1>2
  <1>3. CASE Len(WordsRead) # 0
    <2>1. Len(WordsRead) \in 1 .. Len(WordsRead)
      BY <1>1, <1>3
    <2>2. Len(WordsRead) <= n
      BY <2>1 DEF Counted
    <2> QED
      BY <1>1, <2>2
  <1> QED
    BY <1>2, <1>3

\* A word that ends behind those returned is the next one.
LEMMA WordNext ==
  ASSUME Types, NEW w, NEW e, Place(w, e), w < e, e \in Closings,
         NEW n \in Nat, n <= Len(WordsRead), NEW d \in Nat, e = d + 1, Counted(n, d)
  PROVE  /\ n + 1 \in 1 .. Len(WordsRead) /\ WordsRead[n + 1] = WordAt(w, e)
         /\ Counted(n + 1, e)
  <1>1. IsWord(w, e) /\ w \in Starts /\ e \in Starts
    BY DEF Place, IsWord
  <1>2. PICK k \in 1 .. Len(WordsRead) : WordsRead[k] = WordAt(w, e)
    BY <1>1, WordsAre
  <1>3. WordsRead[k].ends = e /\ Len(WordsRead) \in Nat
    BY <1>2, WordsAre DEF WordAt
  <1>4. k > n
    BY <1>3 DEF Counted
  <1>5. k = n + 1
    <2> SUFFICES ASSUME k > n + 1
                 PROVE  FALSE
      BY <1>3, <1>4
    <2>1. n + 1 \in 1 .. Len(WordsRead)
      BY <1>3
    <2>2. WordsRead[n + 1].ends < e
      BY <1>3, <2>1, WordsAre
    <2>3. WordsRead[n + 1].ends \in 1 .. Len(input) + 1 /\ Len(input) \in Nat
      BY <2>1, WordIs, StartsAre
    <2>4. WordsRead[n + 1].ends <= d
      BY <2>2, <2>3
    <2> QED
      BY <2>1, <2>4 DEF Counted
  <1>6. ASSUME NEW j \in 1 .. Len(WordsRead)
        PROVE  j <= n + 1 <=> WordsRead[j].ends <= e
    <2>1. WordsRead[j].ends \in 1 .. Len(input) + 1 /\ Len(input) \in Nat
      BY WordIs, StartsAre
    <2>2. j <= n <=> WordsRead[j].ends <= d
      BY DEF Counted
    <2>3. j > k => e < WordsRead[j].ends
      BY <1>3, WordsAre
    <2>4. j = k => WordsRead[j].ends = e
      BY <1>3
    <2> QED
      BY <1>3, <1>5, <2>1, <2>2, <2>3, <2>4
  <1> QED
    BY <1>2, <1>5, <1>6 DEF Counted

-----------------------------------------------------------------------------
(* The error of an input. *)

LEMMA ErrorStays ==
  ASSUME UNCHANGED source
  PROVE  ErrorIn(input)' = ErrorIn(input)
  <1>1. /\ input' = input /\ read_failed' = read_failed
        /\ logical_end_of_input_marker' = logical_end_of_input_marker
        /\ WordsRead' = WordsRead
    BY GrammarStays
  <1>2. MarkerIn(WordsRead)' = MarkerIn(WordsRead)
    BY <1>1 DEF MarkerIn
  <1> QED
    BY <1>1, <1>2 DEF ErrorIn

\* The marker among the words.
LEMMA MarkerIs ==
  ASSUME Types
  PROVE  /\ MarkerIn(WordsRead) = 0 =>
              \A k \in 1 .. Len(WordsRead) : WordsRead[k].text # logical_end_of_input_marker
         /\ MarkerIn(WordsRead) # 0 =>
              /\ MarkerIn(WordsRead) \in 1 .. Len(WordsRead)
              /\ WordsRead[MarkerIn(WordsRead)].text = logical_end_of_input_marker
              /\ \A k \in 1 .. Len(WordsRead) :
                   WordsRead[k].text = logical_end_of_input_marker => MarkerIn(WordsRead) <= k
         /\ (\A k \in 1 .. Len(WordsRead) : WordsRead[k].text # logical_end_of_input_marker)
              => MarkerIn(WordsRead) = 0
  <1> DEFINE W == WordsRead
             markers == {k \in DOMAIN W : W[k].text = logical_end_of_input_marker}
  <1>1. DOMAIN W = 1 .. Len(W) /\ Len(W) \in Nat
    BY WordsAre
  <1>2. MarkerIn(W) = IF markers = {} THEN 0 ELSE Min(markers)
    BY DEF MarkerIn
  <1>3. markers # {} => Min(markers) \in markers /\ \A k \in markers : Min(markers) <= k
    <2>1. markers \subseteq Nat
      BY <1>1
    <2> HIDE DEF markers
    <2>2. markers # {} => \E n \in markers : \A m \in markers : n <= m
      BY <2>1, LeastNatural
    <2> QED
      BY <2>2 DEF Min
  <1>4. CASE markers = {}
    BY <1>1, <1>2, <1>4
  <1>5. CASE markers # {}
    <2>1. MarkerIn(W) = Min(markers)
      BY <1>2, <1>5
    <2>2. /\ MarkerIn(W) \in 1 .. Len(W) /\ W[MarkerIn(W)].text = logical_end_of_input_marker
          /\ \A k \in 1 .. Len(W) : W[k].text = logical_end_of_input_marker => MarkerIn(W) <= k
      BY <1>1, <1>3, <1>5, <2>1
    <2>3. MarkerIn(W) # 0
      BY <1>1, <2>2
    <2> QED
      BY <2>2, <2>3
  <1> QED
    BY <1>4, <1>5

\* Where the input is at an end between pieces, nothing is malformed.
LEMMA NothingMalformed ==
  ASSUME Types, Len(input) + 1 \in Starts
  PROVE  Malformed(input) = {}
  <1> SUFFICES ASSUME NEW i \in Malformed(input)
               PROVE  FALSE
    OBVIOUS
  <1>1. i \in Starts /\ i # Len(input) + 1 /\ PieceEnd(input, i) = 0
    BY DEF Malformed, Starts
  <1>2. i \in 1 .. Len(input) + 1 /\ Len(input) \in Nat
    BY <1>1, StartsAre
  <1>3. i < Len(input) + 1
    BY <1>1, <1>2
  <1> QED
    BY <1>1, <1>3, StartsAre

\* Behind a malformed piece there is nothing.
LEMMA DeadEnd ==
  ASSUME Types, NEW q \in Starts, q <= Len(input), PieceEnd(input, q) = 0
  PROVE  Malformed(input) = {q} /\ \A k \in 1 .. Len(WordsRead) : WordsRead[k].ends <= q
  <1>1. q \in 1 .. Len(input) /\ Len(input) \in Nat
    BY StartsAre
  <1>2. ASSUME NEW i \in Malformed(input)
        PROVE  i = q
    <2>1. i \in Starts /\ PieceEnd(input, i) = 0
      BY <1>2 DEF Malformed, Starts
    <2>2. i \in 1 .. Len(input) + 1
      BY <2>1, StartsAre
    <2>3. ~(i < q) /\ ~(q < i)
      BY <2>1, StartsAre
    <2> QED
      BY <1>1, <2>2, <2>3
  <1>3. q \in Malformed(input)
    BY <1>1 DEF Malformed, Starts
  <1>4. ASSUME NEW k \in 1 .. Len(WordsRead)
        PROVE  WordsRead[k].ends <= q
    <2>1. PICK e \in Starts : WordsRead[k].ends = e /\ e \in 1 .. Len(input) + 1
      BY WordIs
    <2>2. ~(q < e)
      BY <2>1, StartsAre
    <2> QED
      BY <1>1, <2>1, <2>2
  <1> QED
    BY <1>2, <1>3, <1>4

\* Without a marker among the words, the error is that of the only malformed piece.
LEMMA NoMarkerError ==
  ASSUME Types, ReadInv, ~finished, Len(tokens) = Len(WordsRead)
  PROVE  MarkerIn(WordsRead) = 0
  BY MarkerIs DEF ReadInv

LEMMA ErrorOfNothing ==
  ASSUME MarkerIn(WordsRead) = 0, Malformed(input) = {}
  PROVE  ErrorIn(input) = IF read_failed THEN "IO" ELSE "NONE"
  BY DEF ErrorIn

LEMMA ErrorOfEscape ==
  ASSUME NEW q, MarkerIn(WordsRead) = 0, Malformed(input) = {q}, input[q] = Backslash
  PROVE  ErrorIn(input) = IF read_failed THEN "IO" ELSE "BACKSLASH_AT_EOF"
  BY Characters DEF ErrorIn

LEMMA ErrorOfQuotes ==
  ASSUME NEW q, MarkerIn(WordsRead) = 0, Malformed(input) = {q}, input[q] \in Quote
  PROVE  /\ (\A j \in q .. Len(input) : input[j] # Newline) =>
              ErrorIn(input) = IF read_failed THEN "IO" ELSE "UNTERMINATED_QUOTE"
         /\ (\E j \in q .. Len(input) : input[j] = Newline) =>
              ErrorIn(input) = "UNTERMINATED_QUOTE"
  BY DEF ErrorIn

LEMMA ErrorOfMarker ==
  ASSUME MarkerIn(WordsRead) # 0
  PROVE  ErrorIn(input) = "NONE"
  BY DEF ErrorIn

-----------------------------------------------------------------------------
(* The three ways of a step. *)

LEMMA TokenCount == Types => Len(tokens) \in Nat
  BY DEF Types

\* Nothing is returned, and no word ends.
LEMMA ReadSilent ==
  ASSUME Types, ReadInv, UNCHANGED source, ~finished, UNCHANGED answer,
         Counted(Len(tokens), Reach')
  PROVE  ReadInv'
  <1>1. /\ WordsRead' = WordsRead /\ tokens' = tokens /\ boundaries' = boundaries
        /\ err' = err /\ finished' = finished
        /\ logical_end_of_input_marker' = logical_end_of_input_marker
    BY GrammarStays DEF answer
  <1>2. Counted(Len(tokens), Reach)'
    BY <1>1 DEF Counted
  <1>3. LineEnds(Len(tokens))' = LineEnds(Len(tokens))
    BY <1>1 DEF LineEnds
  <1> QED
    BY <1>1, <1>2, <1>3 DEF ReadInv

\* The input ends, or is found in error.
LEMMA ReadStops ==
  ASSUME Types, ReadInv, UNCHANGED source, ~finished, finished',
         tokens' = tokens, boundaries' = boundaries,
         Len(tokens) = Len(WordsRead), err' = ErrorIn(input)
  PROVE  ReadInv'
  <1>1. /\ WordsRead' = WordsRead /\ ErrorIn(input)' = ErrorIn(input)
        /\ logical_end_of_input_marker' = logical_end_of_input_marker
    BY GrammarStays, ErrorStays
  <1>2. LineEnds(Len(tokens))' = LineEnds(Len(tokens))
    BY <1>1 DEF LineEnds
  <1>3. boundaries \cap (1 .. Len(tokens)) = LineEnds(Len(tokens))
    BY DEF ReadInv, LineEnds
  <1> QED
    BY <1>1, <1>2, <1>3 DEF ReadInv

\* A word ends, and it is returned unless it is the marker.
LEMMA ReadReturns ==
  ASSUME Types, ReadInv, UNCHANGED source, ~finished, space_tokenizer_end_token,
         NEW w, NEW e, Place(w, e), w < e, e \in Closings, buffer = TextFrom(input, w, e),
         NEW d \in Nat, e = d + 1, Counted(Len(tokens), d),
         Counted(Len(tokens) + 1, e) => Counted(Len(tokens) + 1, Reach'),
         boundaries' = boundaries \cup
           (IF e = Len(input) + 1 \/ input[e] = Newline THEN {Len(tokens) + 1} ELSE {})
  PROVE  ReadInv'
  <1> DEFINE n == Len(tokens)
             marker == logical_end_of_input_marker
  <1>1. n \in Nat /\ n <= Len(WordsRead) /\ tokens \in Seq(Text) /\ buffer \in Text
    BY DEF ReadInv, Types
  <1>2. /\ n + 1 \in 1 .. Len(WordsRead) /\ WordsRead[n + 1] = WordAt(w, e)
        /\ Counted(n + 1, e)
    BY <1>1, WordNext
  <1>3. /\ WordsRead' = WordsRead /\ ErrorIn(input)' = ErrorIn(input)
        /\ logical_end_of_input_marker' = logical_end_of_input_marker
    BY GrammarStays, ErrorStays
  <1>4. /\ WordsRead[n + 1].text = c_string(buffer)
        /\ WordsRead[n + 1].ends_line = (e = Len(input) + 1 \/ input[e] = Newline)
    <2> DEFINE last == e = Len(input) + 1 \/ input[e] = Newline
    <2> HIDE DEF last
    <2>1. WordAt(w, e) = [first |-> w, ends |-> e, text |-> c_string(TextFrom(input, w, e)),
                          ends_line |-> last]
      BY Zenon DEF WordAt, last
    <2>2. WordAt(w, e).text = c_string(buffer) /\ WordAt(w, e).ends_line = last
      BY <2>1
    <2> QED
      BY <1>2, <2>2, Zenon DEF last
  <1>5. \A k \in 1 .. n : tokens[k] = WordsRead[k].text /\ WordsRead[k].text # marker
    BY DEF ReadInv
  <1>6. boundaries = LineEnds(n) /\ err = "NONE"
    BY DEF ReadInv
  <1>7. CASE c_string(buffer) = marker
    <2>1. finished' = TRUE /\ tokens' = tokens /\ err' = err
      BY <1>7 DEF space_tokenizer_end_token
    <2>2. MarkerIn(WordsRead) # 0
      BY <1>2, <1>4, <1>7, MarkerIs
    <2>3. err' = ErrorIn(input)'
      BY <1>3, <1>6, <2>1, <2>2, ErrorOfMarker
    <2>4. boundaries' \cap (1 .. n) = LineEnds(n)
      BY <1>1, <1>6 DEF LineEnds
    <2>5. LineEnds(n)' = LineEnds(n)
      BY <1>3, <2>1 DEF LineEnds
    <2>6. n < Len(WordsRead)
      BY <1>1, <1>2
    <2> QED
      BY <1>1, <1>3, <1>4, <1>5, <1>7, <2>1, <2>3, <2>4, <2>5, <2>6 DEF ReadInv
  <1>8. CASE c_string(buffer) # marker
    <2>1. finished' = finished /\ tokens' = Append(tokens, c_string(buffer)) /\ err' = err
      BY <1>8 DEF space_tokenizer_end_token
    <2>2. c_string(buffer) \in Text
      BY <1>1, CStrings
    <2>3. /\ Len(tokens') = n + 1 /\ tokens'[n + 1] = c_string(buffer)
          /\ \A k \in 1 .. n : tokens'[k] = tokens[k]
      BY <1>1, <2>1, <2>2, AppendProperties
    <2>4. \A k \in 1 .. n + 1 : tokens'[k] = WordsRead[k].text /\ WordsRead[k].text # marker
      <3> SUFFICES ASSUME NEW k \in 1 .. n + 1
                   PROVE  tokens'[k] = WordsRead[k].text /\ WordsRead[k].text # marker
        OBVIOUS
      <3>1. k \in 1 .. n \/ k = n + 1
        BY <1>1
      <3> QED
        BY <1>4, <1>5, <1>8, <2>3, <3>1
    <2>5. boundaries' = LineEnds(n + 1)
      <3>1. ASSUME NEW k
            PROVE  k \in 1 .. n + 1 <=> k \in 1 .. n \/ k = n + 1
        BY <1>1
      <3>2. ASSUME NEW k
            PROVE  k \in boundaries' <=> k \in LineEnds(n + 1)
        BY <1>4, <1>6, <3>1 DEF LineEnds
      <3>3. \A k \in boundaries' : k \in LineEnds(n + 1)
        BY <3>2
      <3> QED
        BY <3>2
    <2>6. LineEnds(n + 1) = LineEnds(Len(tokens))'
      BY <1>3, <2>3 DEF LineEnds
    <2>7. Counted(Len(tokens), Reach)'
      BY <1>2, <1>3, <2>3 DEF Counted
    <2>8. Len(tokens') <= Len(WordsRead)
      BY <1>1, <1>2, <2>3
    <2> HIDE DEF n
    <2> QED
      BY <1>3, <1>6, <2>1, <2>3, <2>4, <2>5, <2>6, <2>7, <2>8 DEF ReadInv
  <1> QED
    BY <1>7, <1>8

-----------------------------------------------------------------------------
(* The machine returns what the grammar says. *)

\* What has been counted when a character is read.
LEMMA CountedBefore ==
  ASSUME Types, ReadInv, ReadChar
  PROVE  Counted(Len(tokens), consumed)
  <1>1. consumed < Len(input) /\ consumed \in Nat /\ Len(input) \in Nat /\ ~finished
    BY AtCharacter
  <1>2. Reach = consumed
    BY <1>1 DEF Reach
  <1> QED
    BY <1>1, <1>2 DEF ReadInv

LEMMA ReachAfter ==
  ASSUME Types, ReadChar, state' # "NO_TOKEN" \/ consumed + 1 \in Separators,
         NEW n, Counted(n, consumed + 1)
  PROVE  Counted(n, Reach')
  <1>0. PICK c : c = consumed + 1
    OBVIOUS
  <1>1. /\ input' = input /\ consumed' = c /\ c \in Nat /\ Len(input) \in Nat
    BY <1>0, AtCharacter
  <1>2. CASE c = Len(input) /\ state' = "NO_TOKEN"
    <2>1. Reach' = c + 1
      BY <1>1, <1>2 DEF Reach
    <2>2. PICK e : e = c + 1
      OBVIOUS
    <2>3. e - 1 \in Separators
      BY <1>0, <1>1, <1>2, <2>2
    <2>4. \A k \in 1 .. Len(WordsRead) : WordsRead[k].ends # e
      BY <2>3, NoWordEnds
    <2> QED
      BY <1>0, <1>1, <2>1, <2>2, <2>4, CountedOn
  <1>3. CASE ~(c = Len(input) /\ state' = "NO_TOKEN")
    <2>1. Reach' = c
      BY <1>1, <1>3 DEF Reach
    <2> QED
      BY <1>0, <2>1
  <1> QED
    BY <1>2, <1>3

LEMMA CharSilent ==
  ASSUME Types, ReadInv, ReadChar, UNCHANGED answer,
         \/ consumed + 1 \notin Starts \/ consumed + 1 \notin Separators
         \/ consumed \in Separators \cup {0},
         state' # "NO_TOKEN" \/ consumed + 1 \in Separators
  PROVE  ReadInv'
  <1>0. PICK e : e = consumed + 1
    OBVIOUS
  <1>1. consumed \in Nat /\ Len(input) \in Nat /\ consumed < Len(input) /\ ~finished
    BY AtCharacter
  <1>2. e # Len(input) + 1 /\ e - 1 = consumed
    BY <1>0, <1>1
  <1>3. e \notin Starts \/ e \notin Closings \/ e - 1 \in Separators \/ e = 1
    BY <1>0, <1>2 DEF Closings
  <1>4. \A k \in 1 .. Len(WordsRead) : WordsRead[k].ends # consumed + 1
    BY <1>0, <1>3, NoWordEnds
  <1>5. Counted(Len(tokens), consumed + 1)
    BY <1>1, <1>4, CountedBefore, CountedOn
  <1>6. Counted(Len(tokens), Reach')
    BY <1>5, ReachAfter
  <1> QED
    BY <1>1, <1>6, ReadSilent DEF ReadChar

LEMMA ReadNoToken ==
  ASSUME Types, PlaceInv, ReadInv, ReadChar, state = "NO_TOKEN",
         handle_no_token_char(input[consumed + 1])
  PROVE  ReadInv'
  <1>0. PICK p : p = consumed + 1
    OBVIOUS
  <1> DEFINE ch == input[p]
  <1>1. consumed \in Nat /\ Len(input) \in Nat /\ consumed < Len(input) /\ ~finished
        /\ p \in 1 .. Len(input)
    BY <1>0, AtCharacter
  <1>2. p \in Starts /\ consumed \in Separators \cup {0}
    BY <1>0, <1>1 DEF PlaceInv, Between, InToken, InEscape, InQuotes
  <1>3. UNCHANGED answer
    BY DEF handle_no_token_char
  <1>4. ch \in Blank \cup {Newline} => p \in Separators
    BY <1>1, <1>2, Separates
  <1>5. ch \in Blank \cup {Newline} \/ state' # "NO_TOKEN"
    BY <1>0 DEF handle_no_token_char
  <1> QED
    BY <1>0, <1>2, <1>3, <1>4, <1>5, CharSilent

LEMMA ReadEscape ==
  ASSUME Types, PlaceInv, ReadInv, ReadChar, state \in {"NO_TOKEN_ESCAPE", "IN_TOKEN_ESCAPE"},
         space_tokenizer_end_escape(input[consumed + 1])
  PROVE  ReadInv'
  <1>0. PICK q : q = consumed
    OBVIOUS
  <1>1. /\ q \in Nat /\ Len(input) \in Nat /\ q + 1 \in 1 .. Len(input) /\ ~finished
        /\ input \in Text
    BY <1>0, AtCharacter
  <1>2. PICK w : Place(w, q) /\ input[q] = Backslash
    BY <1>0, <1>1, EscapePlace
  <1>3. q \in 1 .. Len(input) /\ q < Len(input) /\ q \in Starts
    BY <1>1, <1>2, PlacesAre
  <1>4. PieceEnd(input, q) = q + 2
    BY <1>1, <1>2, <1>3, PlainPieces
  <1>5. q + 1 \notin Starts
    <2> SUFFICES ASSUME q + 1 \in Starts
                 PROVE  FALSE
      OBVIOUS
    <2>1. PieceEnd(input, q) <= q + 1
      BY <1>3, StartsAre
    <2> QED
      BY <1>3, <1>4, <2>1
  <1>6. UNCHANGED answer /\ state' # "NO_TOKEN"
    BY DEF space_tokenizer_end_escape
  <1> QED
    BY <1>0, <1>5, <1>6, CharSilent

LEMMA ReadInToken ==
  ASSUME Types, PlaceInv, ReadInv, ReadChar, state = "IN_TOKEN",
         handle_in_token_char(input[consumed + 1])
  PROVE  ReadInv'
  <1>0. PICK p : p = consumed + 1
    OBVIOUS
  <1> DEFINE ch == input[p]
  <1>1. /\ consumed \in Nat /\ Len(input) \in Nat
        /\ p \in 1 .. Len(input) /\ consumed < Len(input) /\ ~finished
    BY <1>0, AtCharacter
  <1>2. PICK w : Place(w, p) /\ w < p /\ buffer = TextFrom(input, w, p)
    BY <1>0, <1>1, TokenPlace
  <1>3. ASSUME ch \in Blank \cup {Newline}, space_tokenizer_end_token,
               boundaries' = boundaries \cup (IF ch = Newline THEN {Len(tokens) + 1} ELSE {})
        PROVE  ReadInv'
    <2>1. p \in Separators
      BY <1>1, <1>2, <1>3, Separates, PlacesAre
    <2>2. p \in Closings /\ p # Len(input) + 1
      BY <1>1, <2>1 DEF Closings
    <2>3. Counted(Len(tokens), consumed)
      BY CountedBefore
    <2>4. Counted(Len(tokens) + 1, p) => Counted(Len(tokens) + 1, Reach')
      BY <1>0, <2>1, ReachAfter
    <2>5. boundaries' = boundaries \cup
            (IF p = Len(input) + 1 \/ input[p] = Newline THEN {Len(tokens) + 1} ELSE {})
      BY <1>3, <2>2
    <2>6. UNCHANGED source
      BY DEF ReadChar
    <2> QED
      BY <1>0, <1>1, <1>2, <1>3, <2>2, <2>3, <2>4, <2>5, <2>6, ReadReturns
  <1>4. ASSUME ch \notin Blank \cup {Newline}, UNCHANGED answer, state' # "NO_TOKEN"
        PROVE  ReadInv'
    <2>1. p \notin Separators
      BY <1>4 DEF Separators
    <2> QED
      BY <1>0, <1>4, <2>1, CharSilent
  <1>5. line_has_token /\ Newline \notin Blank
    BY Characters DEF Types, TypeOK
  <1>6. CASE ch \in Blank /\ space_tokenizer_end_token /\ UNCHANGED boundaries
    BY <1>3, <1>5, <1>6
  <1>7. CASE ch = Newline /\ on_input_boundary /\ space_tokenizer_end_token
    BY <1>3, <1>7 DEF on_input_boundary
  <1>8. CASE ch \in Quote /\ state' = "IN_TOKEN_QUOTED" /\ UNCHANGED answer
    BY <1>4, <1>8, Characters
  <1>9. CASE ch = Backslash /\ state' = "IN_TOKEN_ESCAPE" /\ UNCHANGED answer
    BY <1>4, <1>9, Characters
  <1>10. CASE ch \notin Blank \cup {Newline} \cup Quote \cup {Backslash} /\ UNCHANGED <<state, answer>>
    BY <1>4, <1>10
  <1> QED
    BY <1>0, <1>5, <1>6, <1>7, <1>8, <1>9, <1>10 DEF handle_in_token_char

LEMMA ReadQuotes ==
  ASSUME Types, PlaceInv, ReadInv, ReadChar, state \in {"IN_QUOTED_TOKEN", "IN_TOKEN_QUOTED"},
         handle_quoted_char(input[consumed + 1])
  PROVE  ReadInv'
  <1>0. PICK c : c = consumed
    OBVIOUS
  <1>1. /\ c \in Nat /\ Len(input) \in Nat /\ c + 1 \in 1 .. Len(input) /\ c < Len(input)
        /\ ~finished /\ input \in Text /\ UNCHANGED source
    BY <1>0, AtCharacter DEF ReadChar
  <1>2. PICK w, q : Place(w, q) /\ InQuotes(w, q)
    BY <1>1, QuotesPlace
  <1>3. /\ q \in 1 .. Len(input) /\ c \in q .. Len(input) /\ q \in Starts
        /\ input[q] = quote_char /\ quote_char \in Quote
        /\ Unclosed(input, q, c) /\ \A j \in q + 1 .. c : input[j] # Newline
    BY <1>0, <1>1, <1>2, QuotesAre, PlacesAre
  <1>4. ASSUME UNCHANGED answer, state' # "NO_TOKEN"
        PROVE  ReadInv'
    <2>1. c + 1 \notin Starts
      <3> SUFFICES ASSUME c + 1 \in Starts
                   PROVE  FALSE
        OBVIOUS
      <3>1. PieceEnd(input, q) # 0 /\ PieceEnd(input, q) <= c + 1
        BY <1>1, <1>3, StartsAre
      <3>2. PieceEnd(input, q) \in c + 2 .. Len(input) + 1
        BY <1>1, <1>3, <3>1, QuotedPieces
      <3> QED
        BY <1>1, <3>1, <3>2
    <2> QED
      BY <1>0, <1>4, <2>1, CharSilent
  <1>5. ASSUME input[c + 1] = Newline, Fail("UNTERMINATED_QUOTE")
        PROVE  ReadInv'
    <2>1. PICK m : m = c + 1
      OBVIOUS
    <2>2. m \in q .. Len(input) /\ m \in q + 1 .. m /\ input[m] = Newline
      BY <1>1, <1>3, <1>5, <2>1
    <2>3. Unclosed(input, q, m)
      <3> SUFFICES ASSUME NEW j \in q + 1 .. m
                   PROVE  input[j] # input[q]
        BY DEF Unclosed
      <3>1. j \in q + 1 .. c \/ j = m
        BY <1>1, <1>3, <2>1
      <3> QED
        BY <1>3, <2>2, <3>1, Characters DEF Unclosed
    <2>4. PieceEnd(input, q) = 0
      BY <1>1, <1>3, <2>2, <2>3, QuotedPieces
    <2>5. q <= Len(input)
      BY <1>1, <1>3
    <2>6. Malformed(input) = {q} /\ \A k \in 1 .. Len(WordsRead) : WordsRead[k].ends <= q
      BY <1>3, <2>4, <2>5, DeadEnd
    <2>7. Len(tokens) = Len(WordsRead)
      <3>1. Counted(Len(tokens), c)
        BY <1>0, CountedBefore
      <3>2. \A k \in 1 .. Len(WordsRead) : WordsRead[k].ends <= c
        <4> SUFFICES ASSUME NEW k \in 1 .. Len(WordsRead)
                     PROVE  WordsRead[k].ends <= c
          OBVIOUS
        <4>1. WordsRead[k].ends \in 1 .. Len(input) + 1
          BY WordIs
        <4> QED
          BY <1>1, <1>3, <2>6, <4>1
      <3> QED
        BY <1>1, <3>1, <3>2, TokenCount, AllCounted DEF ReadInv
    <2>8. MarkerIn(WordsRead) = 0
      BY <1>1, <2>7, NoMarkerError
    <2>9. ErrorIn(input) = "UNTERMINATED_QUOTE"
      BY <1>3, <2>2, <2>6, <2>8, ErrorOfQuotes
    <2> QED
      BY <1>1, <1>5, <2>7, <2>9, ReadStops DEF Fail
  <1> QED
    BY <1>0, <1>4, <1>5 DEF handle_quoted_char

\* At the end of the input the machine is at a place whose error is known.
LEMMA EofPlace ==
  ASSUME Types, PlaceInv, ReadEof
  PROVE  /\ state \in {"NO_TOKEN", "IN_TOKEN"} => Len(input) + 1 \in Starts
         /\ MarkerIn(WordsRead) = 0 =>
              /\ read_failed => ErrorIn(input) = "IO"
              /\ ~read_failed /\ state \in {"NO_TOKEN", "IN_TOKEN"} => ErrorIn(input) = "NONE"
              /\ ~read_failed /\ state \in {"NO_TOKEN_ESCAPE", "IN_TOKEN_ESCAPE"}
                   => ErrorIn(input) = "BACKSLASH_AT_EOF"
              /\ ~read_failed /\ state \in {"IN_QUOTED_TOKEN", "IN_TOKEN_QUOTED"}
                   => ErrorIn(input) = "UNTERMINATED_QUOTE"
         /\ state \in {"NO_TOKEN_ESCAPE", "IN_TOKEN_ESCAPE", "IN_QUOTED_TOKEN", "IN_TOKEN_QUOTED"}
              => \A k \in 1 .. Len(WordsRead) : WordsRead[k].ends <= Len(input)
  <1>1. consumed = Len(input) /\ ~finished /\ Len(input) \in Nat /\ input \in Text
    BY DEF ReadEof, Types
  <1>2. state \in States
    BY DEF Types, TypeOK
  <1>3. ASSUME NEW q \in 1 .. Len(input),
               \A k \in 1 .. Len(WordsRead) : WordsRead[k].ends <= q
        PROVE  \A k \in 1 .. Len(WordsRead) : WordsRead[k].ends <= Len(input)
    <2> SUFFICES ASSUME NEW k \in 1 .. Len(WordsRead)
                 PROVE  WordsRead[k].ends <= Len(input)
      OBVIOUS
    <2>1. WordsRead[k].ends \in 1 .. Len(input) + 1 /\ WordsRead[k].ends <= q
      BY <1>3, WordIs
    <2> QED
      BY <1>1, <2>1
  <1>4. CASE state \in {"NO_TOKEN", "IN_TOKEN"}
    <2>1. Len(input) + 1 \in Starts
      <3>1. CASE state = "NO_TOKEN"
        BY <1>1, <3>1 DEF PlaceInv, Between, InToken, InEscape, InQuotes
      <3>2. CASE state = "IN_TOKEN"
        BY <1>1, <3>2, TokenPlace DEF Place
      <3> QED
        BY <1>4, <3>1, <3>2
    <2>2. Malformed(input) = {}
      BY <2>1, NothingMalformed
    <2> QED
      BY <1>4, <2>1, <2>2, ErrorOfNothing
  <1>5. CASE state \in {"NO_TOKEN_ESCAPE", "IN_TOKEN_ESCAPE"}
    <2>1. PICK w : Place(w, consumed) /\ input[consumed] = Backslash
      BY <1>1, <1>5, EscapePlace
    <2>2. PICK q : q = consumed
      OBVIOUS
    <2>3. q \in 1 .. Len(input) /\ q <= Len(input) /\ q \in Starts /\ input[q] = Backslash
          /\ ~(q < Len(input))
      BY <1>1, <2>1, <2>2, PlacesAre
    <2>4. PieceEnd(input, q) = 0
      BY <1>1, <2>3, PlainPieces
    <2>5. Malformed(input) = {q} /\ \A k \in 1 .. Len(WordsRead) : WordsRead[k].ends <= q
      BY <2>3, <2>4, DeadEnd
    <2>6. \A k \in 1 .. Len(WordsRead) : WordsRead[k].ends <= Len(input)
      BY <1>3, <2>3, <2>5
    <2> QED
      BY <1>5, <2>3, <2>5, <2>6, ErrorOfEscape
  <1>6. CASE state \in {"IN_QUOTED_TOKEN", "IN_TOKEN_QUOTED"}
    <2>1. PICK w, q : Place(w, q) /\ InQuotes(w, q)
      BY <1>1, <1>6, QuotesPlace
    <2>2. /\ q \in 1 .. Len(input) /\ consumed \in q .. Len(input) /\ q \in Starts
          /\ input[q] = quote_char /\ quote_char \in Quote
          /\ Unclosed(input, q, consumed) /\ \A j \in q + 1 .. consumed : input[j] # Newline
      BY <1>1, <2>1, QuotesAre, PlacesAre
    <2>3. PieceEnd(input, q) = 0 /\ q <= Len(input)
      BY <1>1, <2>2, QuotedPieces
    <2>4. Malformed(input) = {q} /\ \A k \in 1 .. Len(WordsRead) : WordsRead[k].ends <= q
      BY <2>2, <2>3, DeadEnd
    <2>5. \A k \in 1 .. Len(WordsRead) : WordsRead[k].ends <= Len(input)
      BY <1>3, <2>2, <2>4
    <2>6. \A j \in q .. Len(input) : input[j] # Newline
      <3> SUFFICES ASSUME NEW j \in q .. Len(input)
                   PROVE  input[j] # Newline
        OBVIOUS
      <3>1. j = q \/ j \in q + 1 .. consumed
        BY <1>1, <2>2
      <3> QED
        BY <2>2, <3>1, Characters
    <2> QED
      BY <1>6, <2>2, <2>4, <2>5, <2>6, ErrorOfQuotes
  <1> QED
    BY <1>2, <1>4, <1>5, <1>6 DEF States

LEMMA ReadAtEof ==
  ASSUME Types, PlaceInv, ReadInv, ReadEof
  PROVE  ReadInv'
  <1>0. PICK n : n = Len(tokens)
    OBVIOUS
  <1>1. /\ consumed = Len(input) /\ ~finished /\ Len(input) \in Nat /\ n \in Nat
        /\ UNCHANGED source /\ n <= Len(WordsRead) /\ Counted(n, Reach)
    BY <1>0, TokenCount DEF ReadEof, Types, ReadInv
  <1>2. ASSUME NEW k \in 1 .. Len(WordsRead)
        PROVE  WordsRead[k].ends \in 1 .. Len(input) + 1
    BY WordIs
  <1>3. state = "NO_TOKEN" => n = Len(WordsRead)
    <2> SUFFICES ASSUME state = "NO_TOKEN"
                 PROVE  n = Len(WordsRead)
      OBVIOUS
    <2>1. Counted(n, Len(input) + 1)
      BY <1>1 DEF Reach
    <2>2. \A k \in 1 .. Len(WordsRead) : WordsRead[k].ends <= Len(input) + 1
      BY <1>1, <1>2
    <2>3. Len(input) + 1 \in Nat
      BY <1>1
    <2> QED
      BY <1>1, <2>1, <2>2, <2>3, AllCounted
  <1>4. state # "NO_TOKEN" /\ (\A k \in 1 .. Len(WordsRead) : WordsRead[k].ends <= Len(input))
          => n = Len(WordsRead)
    <2> SUFFICES ASSUME state # "NO_TOKEN",
                        \A k \in 1 .. Len(WordsRead) : WordsRead[k].ends <= Len(input)
                 PROVE  n = Len(WordsRead)
      OBVIOUS
    <2>1. Counted(n, Len(input))
      BY <1>1 DEF Reach
    <2> QED
      BY <1>1, <2>1, AllCounted
  <1>5. read_failed => n = Len(WordsRead)
    <2> SUFFICES ASSUME read_failed, state # "NO_TOKEN"
                 PROVE  n = Len(WordsRead)
      BY <1>3
    <2>1. PICK e : e = Len(input) + 1
      OBVIOUS
    <2>2. e \notin Separators
      BY <1>1, <2>1 DEF Separators
    <2>3. e \notin Closings
      BY <2>2 DEF Closings
    <2>4. \A k \in 1 .. Len(WordsRead) : WordsRead[k].ends # e
      BY <2>3, NoWordEnds
    <2>5. \A k \in 1 .. Len(WordsRead) : WordsRead[k].ends <= Len(input)
      <3> SUFFICES ASSUME NEW k \in 1 .. Len(WordsRead)
                   PROVE  WordsRead[k].ends <= Len(input)
        OBVIOUS
      <3>1. WordsRead[k].ends # e /\ WordsRead[k].ends \in 1 .. Len(input) + 1
        BY <1>2, <2>4
      <3> QED
        BY <1>1, <2>1, <3>1
    <2> QED
      BY <1>4, <2>5
  <1>6. state \in {"NO_TOKEN_ESCAPE", "IN_TOKEN_ESCAPE", "IN_QUOTED_TOKEN", "IN_TOKEN_QUOTED"}
          => n = Len(WordsRead)
    BY <1>4, EofPlace
  <1>7. n = Len(WordsRead) => MarkerIn(WordsRead) = 0
    BY <1>0, <1>1, NoMarkerError
  <1>8. ASSUME n = Len(WordsRead), NEW error, Fail(error), error = ErrorIn(input)
        PROVE  ReadInv'
    BY <1>0, <1>1, <1>8, ReadStops DEF Fail
  <1>9. CASE read_failed /\ Fail("IO")
    BY <1>5, <1>7, <1>8, <1>9, EofPlace
  <1>10. CASE ~read_failed /\ state \in {"IN_TOKEN_ESCAPE", "NO_TOKEN_ESCAPE"}
              /\ Fail("BACKSLASH_AT_EOF")
    BY <1>6, <1>7, <1>8, <1>10, EofPlace
  <1>11. CASE ~read_failed /\ state \in {"IN_QUOTED_TOKEN", "IN_TOKEN_QUOTED"}
              /\ Fail("UNTERMINATED_QUOTE")
    BY <1>6, <1>7, <1>8, <1>11, EofPlace
  <1>12. CASE ~read_failed /\ state = "IN_TOKEN" /\ on_input_boundary /\ space_tokenizer_end_token
    <2>1. PICK w : /\ Place(w, consumed + 1) /\ w < consumed + 1
                   /\ buffer = TextFrom(input, w, consumed + 1)
      BY <1>1, <1>12, TokenPlace
    <2>2. PICK e : e = consumed + 1
      OBVIOUS
    <2>3. e \in Closings
      BY <1>1, <1>12, <2>2 DEF Closings
    <2>4. Counted(n, consumed)
      BY <1>1, <1>12 DEF Reach
    <2>5. input' = input /\ consumed' = consumed /\ state' = "NO_TOKEN"
      BY <1>12 DEF ReadEof, source, space_tokenizer_end_token, space_tokenizer_no_token
    <2>6. Reach' = e
      BY <1>1, <2>2, <2>5 DEF Reach
    <2>7. boundaries' = boundaries \cup
            (IF e = Len(input) + 1 \/ input[e] = Newline THEN {Len(tokens) + 1} ELSE {})
      BY <1>1, <1>12, <2>2 DEF on_input_boundary
    <2>8. Counted(Len(tokens) + 1, e) => Counted(Len(tokens) + 1, Reach')
      BY <2>6
    <2> QED
      BY <1>0, <1>1, <1>12, <2>1, <2>2, <2>3, <2>4, <2>7, <2>8, ReadReturns
  <1>13. CASE ~read_failed /\ state = "NO_TOKEN"
              /\ finished' = TRUE /\ UNCHANGED <<err, tokens, boundaries>>
    <2>1. ErrorIn(input) = "NONE" /\ err = "NONE"
      BY <1>1, <1>3, <1>7, <1>13, EofPlace DEF ReadInv
    <2> QED
      BY <1>0, <1>1, <1>3, <1>13, <2>1, ReadStops
  <1>14. line_has_token = (state # "NO_TOKEN")
    BY DEF Types, TypeOK
  <1> QED
    BY <1>9, <1>10, <1>11, <1>12, <1>13, <1>14 DEF ReadEof, handle_eof

LEMMA ReadInitially == Init => ReadInv
  <1> SUFFICES ASSUME Init
               PROVE  ReadInv
    OBVIOUS
  <1>1. Types
    BY TypesInitially
  <1>2. /\ tokens = <<>> /\ Len(tokens) = 0 /\ consumed = 0 /\ state = "NO_TOKEN"
        /\ finished = FALSE /\ boundaries = {} /\ err = "NONE"
    BY DEF Init
  <1>3. Len(input) \in Nat /\ Len(WordsRead) \in Nat
    BY <1>1, StartsAre, WordsAre
  <1>4. Counted(0, 0)
    <2> SUFFICES ASSUME NEW k \in 1 .. Len(WordsRead)
                 PROVE  ~(k <= 0) /\ ~(WordsRead[k].ends <= 0)
      BY DEF Counted
    <2>1. WordsRead[k].ends \in 1 .. Len(input) + 1
      BY <1>1, WordIs
    <2> QED
      BY <1>3, <2>1
  <1>5. Counted(0, Reach)
    <2>1. CASE Len(input) = 0
      <3>1. Reach = 1
        BY <1>2, <2>1 DEF Reach
      <3>2. PICK e : e = 0 + 1
        OBVIOUS
      <3>3. \A k \in 1 .. Len(WordsRead) : WordsRead[k].ends # e
        BY <1>1, <3>2, NoWordEnds
      <3> QED
        BY <1>1, <1>4, <3>1, <3>2, <3>3, CountedOn
    <2>2. CASE Len(input) # 0
      BY <1>2, <1>4, <2>2 DEF Reach
    <2> QED
      BY <2>1, <2>2
  <1>6. boundaries = LineEnds(0)
    BY <1>2 DEF LineEnds
  <1> QED
    BY <1>2, <1>3, <1>5, <1>6 DEF ReadInv

LEMMA ReadStep == Types /\ PlaceInv /\ ReadInv /\ [Next]_vars => ReadInv'
  <1> SUFFICES ASSUME Types, PlaceInv, ReadInv, [Next]_vars
               PROVE  ReadInv'
    OBVIOUS
  <1>1. CASE ReadChar
    <2>1. CASE state = "NO_TOKEN" /\ handle_no_token_char(input[consumed + 1])
      BY <1>1, <2>1, ReadNoToken
    <2>2. CASE /\ state \in {"NO_TOKEN_ESCAPE", "IN_TOKEN_ESCAPE"}
               /\ space_tokenizer_end_escape(input[consumed + 1])
      BY <1>1, <2>2, ReadEscape
    <2>3. CASE state = "IN_TOKEN" /\ handle_in_token_char(input[consumed + 1])
      BY <1>1, <2>3, ReadInToken
    <2>4. CASE /\ state \in {"IN_QUOTED_TOKEN", "IN_TOKEN_QUOTED"}
               /\ handle_quoted_char(input[consumed + 1])
      BY <1>1, <2>4, ReadQuotes
    <2> QED
      BY <1>1, <2>1, <2>2, <2>3, <2>4 DEF ReadChar
  <1>2. CASE ReadEof
    BY <1>2, ReadAtEof
  <1>3. CASE UNCHANGED vars
    <2>1. UNCHANGED source /\ UNCHANGED <<consumed, state, answer>>
      BY <1>3 DEF vars, source, answer
    <2>2. /\ WordsRead' = WordsRead /\ ErrorIn(input)' = ErrorIn(input) /\ input' = input
          /\ logical_end_of_input_marker' = logical_end_of_input_marker
      BY <2>1, GrammarStays, ErrorStays
    <2>3. Reach' = Reach
      BY <2>1, <2>2 DEF Reach
    <2> QED
      BY <2>1, <2>2, <2>3, Zenon DEF ReadInv, Counted, LineEnds, answer
  <1> QED
    BY <1>1, <1>2, <1>3 DEF Next, next_space_token, Done

LEMMA ReadInvariant == Spec => [](Types /\ PlaceInv /\ ReadInv)
  <1>1. Init => Types /\ PlaceInv /\ ReadInv
    BY TypesInitially, PlaceInitially, ReadInitially
  <1>2. (Types /\ PlaceInv /\ ReadInv) /\ [Next]_vars => (Types /\ PlaceInv /\ ReadInv)'
    BY TypesStep, PlaceStep, ReadStep
  <1> QED
    BY <1>1, <1>2, PTL DEF Spec

-----------------------------------------------------------------------------
(* The arguments, the ends of the lines, and the error. *)

LEMMA ArgumentsAre ==
  ASSUME Types
  PROVE  LET W == WordsRead
             m == Len(ArgumentsIn(W))
         IN /\ m \in 0 .. Len(W) /\ DOMAIN ArgumentsIn(W) = 1 .. m
            /\ \A k \in 1 .. m : ArgumentsIn(W)[k] = W[k]
            /\ MarkerIn(W) = 0 => m = Len(W)
            /\ MarkerIn(W) # 0 => m + 1 = MarkerIn(W)
  <1> DEFINE W == WordsRead
             m == Len(ArgumentsIn(W))
             Goal == /\ m \in 0 .. Len(W) /\ DOMAIN ArgumentsIn(W) = 1 .. m
                     /\ \A k \in 1 .. m : ArgumentsIn(W)[k] = W[k]
                     /\ MarkerIn(W) = 0 => m = Len(W)
                     /\ MarkerIn(W) # 0 => m + 1 = MarkerIn(W)
  <1>1. Len(W) \in Nat /\ W \in Seq(WordSet) /\ DOMAIN W = 1 .. Len(W)
    BY WordsAre
  <1> HIDE DEF W
  <1>2. ASSUME MarkerIn(W) = 0
        PROVE  Goal
    BY <1>1, <1>2 DEF ArgumentsIn
  <1>3. ASSUME MarkerIn(W) # 0
        PROVE  Goal
    <2>1. MarkerIn(W) \in 1 .. Len(W)
      BY <1>3, MarkerIs DEF W
    <2>2. PICK d : d = MarkerIn(W) - 1
      OBVIOUS
    <2>3. d \in 0 .. Len(W) /\ ArgumentsIn(W) = SubSeq(W, 1, d) /\ d + 1 = MarkerIn(W)
      BY <1>1, <1>3, <2>1, <2>2 DEF ArgumentsIn
    <2>4. Len(SubSeq(W, 1, d)) = d /\ SubSeq(W, 1, d) \in Seq(WordSet)
          /\ \A k \in 1 .. d : SubSeq(W, 1, d)[k] = W[k]
      BY <1>1, <2>3, PrefixProperties
    <2>5. DOMAIN SubSeq(W, 1, d) = 1 .. d
      BY <2>4, LenProperties
    <2> QED
      BY <1>3, <2>3, <2>4, <2>5
  <1> QED
    BY <1>2, <1>3, Zenon DEF W

\* Whatever the input, the arguments returned are the words of the grammar up to
\* the marker, each as soon as its separator has been read, and all of them when
\* NULL is (next_space_token, space_tokenizer_end_token).
THEOREM ArgumentsReturned == Spec => []ArgumentsAsWritten
  <1>1. ASSUME Types, ReadInv
        PROVE  ArgumentsAsWritten
    <2> DEFINE W == WordsRead
               arguments == ArgumentsIn(W)
               m == Len(arguments)
               n == Len(tokens)
               closed == {k \in DOMAIN arguments : arguments[k].ends <= consumed}
    <2>1. /\ m \in 0 .. Len(W) /\ DOMAIN arguments = 1 .. m
          /\ \A k \in 1 .. m : arguments[k] = W[k]
          /\ MarkerIn(W) = 0 => m = Len(W)
          /\ MarkerIn(W) # 0 => m + 1 = MarkerIn(W)
      BY <1>1, ArgumentsAre
    <2>2. /\ n \in Nat /\ n <= Len(W) /\ Len(W) \in Nat
          /\ \A k \in 1 .. n : tokens[k] = W[k].text
                               /\ W[k].text # logical_end_of_input_marker
          /\ DOMAIN tokens = 1 .. n
      BY <1>1, WordsAre DEF Types, ReadInv
    <2>3. /\ consumed \in 0 .. Len(input) /\ Len(input) \in Nat
      BY <1>1 DEF Types, TypeOK
    <2> HIDE DEF n, m
    <2>4. n <= m
      <3> SUFFICES ASSUME MarkerIn(W) # 0
                   PROVE  n <= m
        BY <2>1, <2>2
      <3>1. /\ MarkerIn(W) \in 1 .. Len(W)
            /\ W[MarkerIn(W)].text = logical_end_of_input_marker
        BY <1>1, MarkerIs
      <3>2. MarkerIn(W) \notin 1 .. n
        BY <2>2, <3>1
      <3> QED
        BY <2>1, <2>2, <3>1, <3>2
    <2>5. finished => n = m
      <3> SUFFICES ASSUME finished, n # Len(W)
                   PROVE  n = m
        BY <2>1, <2>2, <2>4 DEF W
      <3>1. n < Len(W) /\ W[n + 1].text = logical_end_of_input_marker
        BY <1>1 DEF ReadInv, n
      <3>2. n + 1 \in 1 .. Len(W)
        BY <2>2, <3>1
      <3>3. MarkerIn(W) # 0
        BY <1>1, <3>1, <3>2, MarkerIs
      <3>4. MarkerIn(W) <= n + 1
        BY <1>1, <3>1, <3>2, <3>3, MarkerIs
      <3> QED
        BY <2>1, <2>2, <2>4, <3>3, <3>4
    <2>6. closed \subseteq 1 .. n
      <3> SUFFICES ASSUME NEW k \in 1 .. m, W[k].ends <= consumed, ~finished
                   PROVE  k \in 1 .. n
        BY <2>1, <2>5
      <3>1. Counted(n, Reach)
        BY <1>1 DEF ReadInv, n
      <3>2. k \in 1 .. Len(W)
        BY <2>1, <2>2
      <3>3. W[k].ends \in 1 .. Len(input) + 1
        BY <1>1, <3>2, WordIs
      <3>4. Reach \in {consumed, Len(input) + 1}
        BY DEF Reach
      <3>5. W[k].ends <= Reach
        BY <2>3, <3>3, <3>4
      <3>6. k <= n
        BY <3>1, <3>2, <3>5 DEF Counted
      <3> QED
        BY <2>2, <3>2, <3>6
    <2>7. IsFiniteSet(1 .. n) /\ Cardinality(1 .. n) = n
      BY <2>2, FS_Interval
    <2> HIDE DEF closed
    <2>8. IsFiniteSet(closed) /\ Cardinality(closed) \in Nat /\ Cardinality(closed) <= n
      BY <2>6, <2>7, FS_Subset, FS_CardinalityType
    <2>9. n \in Cardinality(closed) .. m
      BY <2>1, <2>2, <2>4, <2>8
    <2>10. \A k \in DOMAIN tokens : tokens[k] = arguments[k].text
      <3> SUFFICES ASSUME NEW k \in 1 .. n
                   PROVE  tokens[k] = arguments[k].text
        BY <2>2
      <3>1. k \in 1 .. m
        BY <2>1, <2>2, <2>4
      <3> QED
        BY <2>1, <2>2, <3>1
    <2> QED
      BY <2>5, <2>9, <2>10, Zenon DEF ArgumentsAsWritten, closed, n, m
  <1> QED
    BY <1>1, ReadInvariant, PTL

\* Whatever the input, on_input_boundary is called with an argument exactly when
\* that argument is the last one of its line (handle_in_token_char, handle_eof).
THEOREM LineEndsReported == Spec => []LineEndsAsWritten
  <1>1. ASSUME Types, ReadInv
        PROVE  LineEndsAsWritten
    <2>1. DOMAIN tokens = 1 .. Len(tokens)
      BY <1>1 DEF Types
    <2>2. boundaries \cap (1 .. Len(tokens)) = LineEnds(Len(tokens))
      <3>1. ~finished => boundaries = LineEnds(Len(tokens))
        BY <1>1 DEF ReadInv
      <3>2. LineEnds(Len(tokens)) \subseteq 1 .. Len(tokens)
        BY DEF LineEnds
      <3> QED
        BY <1>1, <3>1, <3>2 DEF ReadInv
    <2> QED
      BY <2>1, <2>2 DEF LineEndsAsWritten, LineEnds
  <1> QED
    BY <1>1, ReadInvariant, PTL

\* Whatever the input, the error at the end is the one that the grammar finds in
\* it, unless the marker comes first (handle_eof, handle_quoted_char).
THEOREM ErrorReported == Spec => []ErrorAsWritten
  <1>1. ReadInv => ErrorAsWritten
    BY DEF ReadInv, ErrorAsWritten
  <1> QED
    BY <1>1, ReadInvariant, PTL

-----------------------------------------------------------------------------
(* Arguments as they are written. *)

\* The input reads v from a on.
ReadsFrom(a, v) == \A i \in 1 .. Len(v) : input[(a - 1) + i] = v[i]

\* What arguments are written with: any character, and those that are special.
Symbols == STRING \cup Quote \cup Blank \cup {Newline, Backslash}

LEMMA TextIsWritten ==
  ASSUME NEW arg \in Text
  PROVE  arg \in Seq(Symbols)
  <1>1. /\ Len(arg) \in Nat /\ arg = [i \in 1 .. Len(arg) |-> arg[i]]
        /\ \A i \in 1 .. Len(arg) : arg[i] \in Symbols
    BY LenProperties, ElementOfSeq DEF Text, Symbols
  <1>2. [i \in 1 .. Len(arg) |-> arg[i]] \in Seq(Symbols)
    BY <1>1, IsASeq
  <1> QED
    BY <1>1, <1>2

Escaped(arg) == [i \in 1 .. Len(arg) |-> <<Backslash, arg[i]>>]

\* A character and a backslash before it.
LEMMA EscapedIs ==
  ASSUME NEW arg \in Text
  PROVE  /\ Len(arg) \in Nat /\ Escaped(arg) \in Seq(Seq(Symbols)) /\ Len(Escaped(arg)) = Len(arg)
         /\ FlattenSeq(Escaped(arg)) \in Seq(Symbols)
         /\ \A n \in 0 .. Len(arg) : Len(Joined(Escaped(arg), n)) = 2 * n
         /\ Len(FlattenSeq(Escaped(arg))) = 2 * Len(arg)
         /\ \A n \in 0 .. Len(arg) - 1 :
              /\ FlattenSeq(Escaped(arg))[2 * n + 1] = Backslash
              /\ FlattenSeq(Escaped(arg))[2 * n + 2] = arg[n + 1]
  <1> DEFINE esc == Escaped(arg)
             whole == FlattenSeq(esc)
  <1>1. Len(arg) \in Nat
    BY LenProperties DEF Text
  <1>2. ASSUME NEW i \in 1 .. Len(arg)
        PROVE  /\ <<Backslash, arg[i]>> \in Seq(Symbols) /\ Len(<<Backslash, arg[i]>>) = 2
               /\ <<Backslash, arg[i]>>[1] = Backslash /\ <<Backslash, arg[i]>>[2] = arg[i]
    <2>1. arg[i] \in Symbols /\ Backslash \in Symbols
      BY ElementOfSeq DEF Text, Symbols
    <2> QED
      BY <2>1, TwoElements
  <1>3. esc \in Seq(Seq(Symbols)) /\ Len(esc) = Len(arg)
    BY <1>1, <1>2, IsASeq DEF Escaped
  <1>4. ASSUME NEW n \in 0 .. Len(arg), n < Len(arg)
        PROVE  /\ Len(esc[n + 1]) = 2 /\ esc[n + 1][1] = Backslash /\ esc[n + 1][2] = arg[n + 1]
               /\ Len(Joined(esc, n + 1)) = Len(Joined(esc, n)) + 2
               /\ whole[Len(Joined(esc, n)) + 1] = Backslash
               /\ whole[Len(Joined(esc, n)) + 2] = arg[n + 1]
    <2>1. n + 1 \in 1 .. Len(arg)
      BY <1>1, <1>4
    <2>2. Len(esc[n + 1]) = 2 /\ esc[n + 1][1] = Backslash /\ esc[n + 1][2] = arg[n + 1]
      BY <1>2, <2>1 DEF Escaped
    <2> HIDE DEF esc, whole
    <2>3. n \in 0 .. Len(esc) /\ n < Len(esc) /\ esc \in Seq(Seq(Symbols))
      BY <1>3, <1>4
    <2>4. /\ Len(Joined(esc, n + 1)) = Len(Joined(esc, n)) + Len(esc[n + 1])
          /\ \A i \in 1 .. Len(esc[n + 1]) :
               FlattenSeq(esc)[Len(Joined(esc, n)) + i] = esc[n + 1][i]
      BY <2>3, JoinedElements
    <2> QED
      BY <2>2, <2>4 DEF whole
  <1>5. Len(Joined(esc, 0)) = 0 /\ Joined(esc, Len(esc)) = whole
    <2> HIDE DEF esc
    <2>1. Joined(esc, 0) = <<>> /\ Joined(esc, Len(esc)) = FlattenSeq(esc)
      BY <1>3, JoinedEnds
    <2> QED
      BY <2>1 DEF whole
  <1> HIDE DEF esc, whole
  <1> DEFINE S == {n \in Nat : n <= Len(arg) => Len(Joined(esc, n)) = 2 * n}
  <1>6. 0 \in S
    BY <1>5
  <1>7. ASSUME NEW n \in Nat, n \in S
        PROVE  n + 1 \in S
    BY <1>1, <1>4, <1>7
  <1>8. \A n \in Nat : n \in S
    <2> HIDE DEF S
    <2> QED
      BY <1>6, <1>7, AllNaturals
  <1>9. \A n \in 0 .. Len(arg) : Len(Joined(esc, n)) = 2 * n
    BY <1>1, <1>8
  <1>10. whole \in Seq(Symbols)
    BY <1>3, FlattenIsSeq DEF whole
  <1>11. Len(whole) = 2 * Len(arg)
    BY <1>1, <1>3, <1>5, <1>9
  <1>12. \A n \in 0 .. Len(arg) - 1 : whole[2 * n + 1] = Backslash /\ whole[2 * n + 2] = arg[n + 1]
    <2> SUFFICES ASSUME NEW n \in 0 .. Len(arg) - 1
                 PROVE  whole[2 * n + 1] = Backslash /\ whole[2 * n + 2] = arg[n + 1]
      OBVIOUS
    <2>1. n \in 0 .. Len(arg) /\ n < Len(arg)
      BY <1>1
    <2>2. Len(Joined(esc, n)) = 2 * n
      BY <1>9, <2>1
    <2> QED
      BY <1>4, <2>1, <2>2
  <1> QED
    BY <1>1, <1>3, <1>9, <1>10, <1>11, <1>12 DEF esc, whole

\* The machine's text of an escaped argument.
LEMMA EscapedRead ==
  ASSUME Types, NEW a, Place(a, a), NEW arg \in Text, arg # <<>>,
         NEW v, v = FlattenSeq(Escaped(arg)), ReadsFrom(a, v), a + Len(v) <= Len(input)
  PROVE  /\ Place(a, a + Len(v)) /\ Len(v) \in Nat /\ Len(v) > 0
         /\ TextFrom(input, a, a + Len(v)) = arg
  <1>1. /\ Len(arg) \in Nat /\ Len(v) = 2 * Len(arg)
        /\ \A n \in 0 .. Len(arg) - 1 : v[2 * n + 1] = Backslash /\ v[2 * n + 2] = arg[n + 1]
    BY EscapedIs
  <1>2. Len(arg) # 0
    BY EmptySeq DEF Text
  <1>3. /\ a \in 1 .. Len(input) + 1 /\ Len(input) \in Nat /\ input \in Text
        /\ TextFrom(input, a, a) = <<>>
    BY PlacesAre, StartsAre DEF Types
  <1> DEFINE Read(n) == /\ Place(a, a + 2 * n)
                        /\ TextFrom(input, a, a + 2 * n) = SubSeq(arg, 1, n)
             S == {n \in Nat : n <= Len(arg) => Read(n)}
  <1>4. 0 \in S
    <2>1. SubSeq(arg, 1, 0) = <<>> /\ a + 2 * 0 = a
      BY <1>3, SubSeqEmpty
    <2> QED
      BY <1>3, <2>1
  <1>5. ASSUME NEW n \in Nat, n \in S
        PROVE  n + 1 \in S
    <2> SUFFICES ASSUME n + 1 <= Len(arg)
                 PROVE  Read(n + 1)
      OBVIOUS
    <2>1. PICK q : q = a + 2 * n
      OBVIOUS
    <2>2. Place(a, q) /\ TextFrom(input, a, q) = SubSeq(arg, 1, n) /\ n \in 0 .. Len(arg) - 1
      BY <1>1, <1>5, <2>1
    <2>3. /\ 2 * n + 1 \in 1 .. Len(v) /\ 2 * n + 2 \in 1 .. Len(v)
          /\ (a - 1) + (2 * n + 1) = q /\ (a - 1) + (2 * n + 2) = q + 1
          /\ q \in 1 .. Len(input) /\ q < Len(input) /\ q <= Len(input)
          /\ q + 2 = a + 2 * (n + 1)
      BY <1>1, <1>3, <2>1
    <2>4. v[2 * n + 1] = Backslash /\ v[2 * n + 2] = arg[n + 1]
      BY <1>1, <2>2
    <2>5. input[q] = Backslash /\ input[q + 1] = arg[n + 1]
      BY <2>3, <2>4 DEF ReadsFrom
    <2>6. PieceEnd(input, q) = q + 2 /\ PieceEnd(input, q) # 0
      BY <1>3, <2>3, <2>5, PlainPieces
    <2>7. PieceText(input, q) = <<arg[n + 1]>>
      BY <1>3, <2>3, <2>5, <2>6, PieceTexts
    <2>8. q \notin Separators
      BY <2>5, NotSeparator
    <2>9. PICK e : e = PieceEnd(input, q)
      OBVIOUS
    <2>10. /\ Place(a, e)
           /\ TextFrom(input, a, e) = TextFrom(input, a, q) \o PieceText(input, q)
      BY <2>2, <2>3, <2>6, <2>8, <2>9, PieceDone
    <2>11. n \in 0 .. Len(arg) /\ n < Len(arg)
      BY <1>1, <2>2
    <2>12. /\ SubSeq(arg, 1, n + 1) = Append(SubSeq(arg, 1, n), arg[n + 1])
           /\ arg[n + 1] \in STRING /\ SubSeq(arg, 1, n) \in Text
      BY <2>11, PrefixGrows, PrefixProperties DEF Text
    <2>13. SubSeq(arg, 1, n) \o <<arg[n + 1]>> = SubSeq(arg, 1, n + 1)
      BY <2>12, OneLonger
    <2>14. e = a + 2 * (n + 1)
      BY <2>3, <2>6, <2>9
    <2> QED
      BY <2>2, <2>7, <2>10, <2>13, <2>14, Zenon
  <1>6. \A n \in Nat : n \in S
    <2> HIDE DEF S
    <2> QED
      BY <1>4, <1>5, AllNaturals
  <1>7. Read(Len(arg))
    <2> HIDE DEF Read
    <2> QED
      BY <1>1, <1>6
  <1>8. SubSeq(arg, 1, Len(arg)) = arg
    BY SubSeqFull DEF Text
  <1> QED
    BY <1>1, <1>2, <1>7, <1>8

\* The machine's text of a quoted argument.
LEMMA QuotedRead ==
  ASSUME Types, NEW a, Place(a, a), NEW arg \in Text, NEW q \in Quote,
         \A i \in 1 .. Len(arg) : arg[i] \notin {q, Newline},
         NEW v, Len(v) = Len(arg) + 2, v[1] = q, v[Len(arg) + 2] = q,
         \A i \in 1 .. Len(arg) : v[i + 1] = arg[i], ReadsFrom(a, v), a + Len(v) <= Len(input)
  PROVE  /\ Place(a, a + Len(v)) /\ Len(v) \in Nat /\ Len(v) > 0
         /\ TextFrom(input, a, a + Len(v)) = arg
  <1>0. PICK n : n = Len(arg)
    OBVIOUS
  <1>1. n \in Nat
    BY <1>0, LenProperties DEF Text
  <1>2. /\ Len(v) = n + 2 /\ v[1] = q /\ v[n + 2] = q /\ \A i \in 1 .. n : v[i + 1] = arg[i]
    BY <1>0
  <1>3. /\ a \in 1 .. Len(input) + 1 /\ Len(input) \in Nat /\ input \in Text
        /\ TextFrom(input, a, a) = <<>>
    BY PlacesAre, StartsAre DEF Types
  <1>4. PICK l : l = Len(input)
    OBVIOUS
  <1>5. a \in Nat /\ l \in Nat /\ a > 0 /\ a + (n + 2) <= l
    <2>1. a \in 1 .. l + 1 /\ l \in Nat
      BY <1>3, <1>4
    <2> QED
      BY <1>2, <1>4, <2>1
  <1>6. PICK c \in Nat : c = a + n
    BY <1>1, <1>5
  <1>7. /\ a \in 1 .. l /\ a <= l /\ c \in a .. l /\ c < l
        /\ c \in 0 .. l /\ a + 1 \in 1 .. l + 1 /\ a + 1 <= c + 1 /\ c - (a + 1) + 1 = n
        /\ 1 \in 1 .. n + 2 /\ n + 2 \in 1 .. n + 2 /\ n + 2 \in Nat /\ n + 2 > 0
        /\ (a - 1) + 1 = a /\ (a - 1) + (n + 2) = c + 1
        /\ a + (n + 2) = c + 2 /\ c + 2 # 0
        /\ \A i \in 1 .. n : /\ i + 1 \in 1 .. n + 2 /\ (a - 1) + (i + 1) = a + i
                             /\ (a + 1) + i - 1 = a + i
        /\ \A j \in a + 1 .. c : j - a \in 1 .. n /\ a + (j - a) = j
    BY <1>1, <1>5, <1>6, QuotedSpan
  <1>8. \A i \in 1 .. n + 2 : input[(a - 1) + i] = v[i]
    BY <1>2 DEF ReadsFrom
  <1>9. input[a] = q /\ input[c + 1] = q
    BY <1>2, <1>7, <1>8
  <1>10. \A i \in 1 .. n : input[a + i] = arg[i] /\ arg[i] \notin {q, Newline}
    <2> SUFFICES ASSUME NEW i \in 1 .. n
                 PROVE  input[a + i] = arg[i] /\ arg[i] \notin {q, Newline}
      OBVIOUS
    <2>1. input[(a - 1) + (i + 1)] = v[i + 1] /\ (a - 1) + (i + 1) = a + i
      BY <1>7, <1>8
    <2>2. v[i + 1] = arg[i]
      BY <1>2
    <2> QED
      BY <1>0, <2>1, <2>2
  <1>11. Unclosed(input, a, c) /\ \A j \in a + 1 .. c : input[j] # Newline
    <2>1. ASSUME NEW j \in a + 1 .. c
          PROVE  input[j] # q /\ input[j] # Newline
      <3>1. PICK i : i = j - a
        OBVIOUS
      <3>2. i \in 1 .. n /\ a + i = j
        BY <1>7, <3>1
      <3>3. input[a + i] = arg[i] /\ arg[i] \notin {q, Newline}
        BY <1>10, <3>2
      <3> QED
        BY <3>2, <3>3
    <2> QED
      BY <1>9, <2>1 DEF Unclosed
  <1>12. PieceEnd(input, a) = c + 2 /\ PieceText(input, a) = SubSeq(input, a + 1, c)
    <2>1. a \in 1 .. Len(input) /\ c \in a .. Len(input) /\ c < Len(input)
      BY <1>4, <1>7
    <2>2. input[a] \in Quote /\ input[c + 1] = input[a]
      BY <1>9
    <2> QED
      BY <1>3, <1>11, <2>1, <2>2, QuotedPiece
  <1>13. SubSeq(input, a + 1, c) = arg
    <2>1. PICK m : m = a + 1
      OBVIOUS
    <2>2. ASSUME NEW i \in 1 .. n
          PROVE  input[m + i - 1] = arg[i]
      <3>1. m + i - 1 = a + i
        BY <1>7, <2>1
      <3>2. input[a + i] = arg[i]
        BY <1>10
      <3> QED
        BY <3>1, <3>2
    <2>3. m \in 1 .. Len(input) + 1 /\ c \in 0 .. Len(input) /\ m <= c + 1 /\ c - m + 1 = n
      BY <1>4, <1>7, <2>1
    <2>4. c - m + 1 = Len(arg) /\ \A i \in 1 .. Len(arg) : input[m + i - 1] = arg[i]
      BY <1>0, <2>2, <2>3
    <2>5. SubSeq(input, m, c) = arg
      BY <1>3, <2>3, <2>4, PartIs
    <2> QED
      BY <2>1, <2>5
  <1>14. a \notin Separators
    BY <1>9, NotSeparator
  <1>15. PICK e : e = PieceEnd(input, a)
    OBVIOUS
  <1>16. e = c + 2 /\ e # 0 /\ e = a + Len(v)
    <2>1. e = c + 2
      BY <1>12, <1>15, Zenon
    <2>2. a + Len(v) = a + (n + 2)
      BY <1>2, Zenon
    <2>3. a + (n + 2) = c + 2 /\ c + 2 # 0
      BY <1>7
    <2> QED
      BY <2>1, <2>2, <2>3, Zenon
  <1>17. Place(a, e) /\ TextFrom(input, a, e) = TextFrom(input, a, a) \o PieceText(input, a)
    <2>1. a <= Len(input)
      BY <1>4, <1>7
    <2> QED
      BY <1>14, <1>15, <1>16, <2>1, PieceDone
  <1>18. <<>> \o arg = arg
    BY ConcatEmptySeq DEF Text
  <1>19. TextFrom(input, a, e) = arg
    BY <1>3, <1>12, <1>13, <1>17, <1>18, Zenon
  <1>20. Len(v) \in Nat /\ Len(v) > 0
    BY <1>2, <1>7
  <1> QED
    BY <1>16, <1>17, <1>19, <1>20, Zenon

LEMMA WritingsAre ==
  ASSUME NEW arg \in Text, NEW v \in Writings(arg)
  PROVE  /\ v \in Seq(Symbols)
         /\ \/ arg # <<>> /\ v = FlattenSeq(Escaped(arg))
            \/ \E q \in Quote : /\ \A i \in 1 .. Len(arg) : arg[i] \notin {q, Newline}
                                /\ v = (<<q>> \o arg) \o <<q>>
  <1>1. DOMAIN arg = 1 .. Len(arg)
    BY DEF Text
  <1>2. CASE v \in {FlattenSeq([i \in DOMAIN arg |-> <<Backslash, arg[i]>>]) : a \in {arg} \ {<<>>}}
    <2>1. arg # <<>> /\ v = FlattenSeq(Escaped(arg))
      BY <1>1, <1>2, Zenon DEF Escaped
    <2> QED
      BY <2>1, EscapedIs
  <1>3. ASSUME NEW q \in Quote, Range(arg) \cap {q, Newline} = {}, v = (<<q>> \o arg) \o <<q>>
        PROVE  /\ v \in Seq(Symbols) /\ \A i \in 1 .. Len(arg) : arg[i] \notin {q, Newline}
    <2>1. \A i \in 1 .. Len(arg) : arg[i] \in Range(arg)
      BY <1>1 DEF Range
    <2>2. q \in Symbols /\ arg \in Seq(Symbols)
      BY TextIsWritten DEF Symbols
    <2>3. v \in Seq(Symbols)
      BY <1>3, <2>2, Surrounded
    <2> QED
      BY <1>3, <2>1, <2>3
  <1> QED
    BY <1>2, <1>3 DEF Writings

\* However an argument is written, the word there has its text.
LEMMA ArgumentRead ==
  ASSUME Types, NEW a, Place(a, a), NEW arg \in Text, NEW v \in Writings(arg),
         ReadsFrom(a, v), a + Len(v) <= Len(input)
  PROVE  /\ Place(a, a + Len(v)) /\ Len(v) \in Nat /\ Len(v) > 0
         /\ TextFrom(input, a, a + Len(v)) = arg
  <1>1. CASE arg # <<>> /\ v = FlattenSeq(Escaped(arg))
    BY <1>1, EscapedRead
  <1>2. ASSUME NEW q \in Quote, \A i \in 1 .. Len(arg) : arg[i] \notin {q, Newline},
               v = (<<q>> \o arg) \o <<q>>
        PROVE  /\ Place(a, a + Len(v)) /\ Len(v) \in Nat /\ Len(v) > 0
               /\ TextFrom(input, a, a + Len(v)) = arg
    <2>1. q \in Symbols /\ arg \in Seq(Symbols)
      BY TextIsWritten DEF Symbols
    <2>2. /\ Len(v) = Len(arg) + 2 /\ v[1] = q /\ v[Len(arg) + 2] = q
          /\ \A i \in 1 .. Len(arg) : v[i + 1] = arg[i]
      BY <1>2, <2>1, Surrounded
    <2> QED
      BY <1>2, <2>2, QuotedRead
  <1> QED
    BY <1>1, <1>2, WritingsAre

\* The first n arguments are the first n words, and they end at p.
Conveyed(args, n, p) ==
  /\ n <= Len(WordsRead) /\ Counted(n, p) /\ Place(p + 1, p + 1)
  /\ \A k \in 1 .. n : WordsRead[k].text = c_string(args[k])

\* One more argument with the separator behind it.
LEMMA OneMoreConveyed ==
  ASSUME Types, NEW args, NEW n \in Nat, NEW p \in Nat, Conveyed(args, n, p),
         args[n + 1] \in Text, NEW v \in Writings(args[n + 1]),
         NEW e \in Nat, e = p + 1 + Len(v), e <= Len(input),
         ReadsFrom(p + 1, v), input[e] \in Blank \cup {Newline}
  PROVE  Conveyed(args, n + 1, e) /\ e \in Separators
  <1>0. PICK a : a = p + 1
    OBVIOUS
  <1>1. Place(a, a)
    BY <1>0 DEF Conveyed
  <1>2. /\ Place(a, e) /\ Len(v) \in Nat /\ Len(v) > 0
        /\ TextFrom(input, a, e) = args[n + 1]
    BY <1>0, <1>1, ArgumentRead
  <1>3. a < e /\ a \in Nat /\ e - 1 \in Nat /\ e - 1 >= p /\ e - 1 + 1 = e
    BY <1>0, <1>2
  <1>4. e \in Separators /\ e + 1 \in Starts
    BY <1>2, Separates, PlacesAre
  <1>5. Len(WordsRead) \in Nat /\ n <= Len(WordsRead) /\ Len(input) \in Nat
    BY WordsAre, StartsAre DEF Conveyed
  <1>6. Counted(n, e - 1)
    <2> SUFFICES ASSUME NEW k \in 1 .. Len(WordsRead)
                 PROVE  k <= n <=> WordsRead[k].ends <= e - 1
      BY DEF Counted
    <2>1. k <= n <=> WordsRead[k].ends <= p
      BY DEF Conveyed, Counted
    <2>2. PICK i \in Starts, d \in Starts : /\ IsWord(i, d) /\ WordsRead[k].ends = d
                                            /\ d \in 1 .. Len(input) + 1
      BY WordIs
    <2>3. d \in Separators \/ d = Len(input) + 1
      BY <2>2 DEF IsWord, Closings
    <2>4. d \notin a .. e - 1
      <3>1. (a .. e - 1) \cap Separators = {}
        BY <1>2 DEF Place
      <3>2. Len(input) + 1 \notin a .. e - 1
        BY <1>3, <1>5
      <3> QED
        BY <2>3, <3>1, <3>2
    <2>5. d \in Nat
      BY <1>5, <2>2
    <2>6. d <= p <=> d <= e - 1
      BY <1>0, <1>3, <2>4, <2>5
    <2> QED
      BY <2>1, <2>2, <2>6
  <1>7. e \in Closings
    BY <1>4 DEF Closings
  <1>8. PICK d \in Nat : d = e - 1 /\ e = d + 1
    BY <1>3
  <1>9. /\ n + 1 \in 1 .. Len(WordsRead) /\ WordsRead[n + 1] = WordAt(a, e)
        /\ Counted(n + 1, e)
    BY <1>2, <1>3, <1>5, <1>6, <1>7, <1>8, WordNext
  <1>10. Place(e + 1, e + 1)
    <2>1. PICK b : b = e + 1 /\ b - 1 = e /\ b <= b /\ b .. b - 1 = {}
      <3>1. e + 1 - 1 = e /\ e + 1 <= e + 1 /\ e + 1 .. e + 1 - 1 = {}
        OBVIOUS
      <3> QED
        BY <3>1
    <2>2. Place(b, b)
      BY <1>4, <2>1 DEF Place
    <2> QED
      BY <2>1, <2>2
  <1>11. \A k \in 1 .. n + 1 : WordsRead[k].text = c_string(args[k])
    <2> SUFFICES ASSUME NEW k \in 1 .. n + 1
                 PROVE  WordsRead[k].text = c_string(args[k])
      OBVIOUS
    <2>1. k \in 1 .. n \/ k = n + 1
      OBVIOUS
    <2>2. WordsRead[n + 1].text = c_string(args[n + 1])
      BY <1>2, <1>9 DEF WordAt
    <2> QED
      BY <2>1, <2>2 DEF Conveyed
  <1> QED
    BY <1>4, <1>5, <1>9, <1>10, <1>11 DEF Conveyed

\* A segment of the input: an argument as it can be written, and a separator.
Writes(segment, arg) ==
  \E v \in Writings(arg) :
    /\ Len(v) \in Nat /\ Len(segment) = Len(v) + 1
    /\ \A i \in 1 .. Len(v) : segment[i] = v[i]
    /\ segment[Len(v) + 1] \in Blank \cup {Newline}

LEMMA OneAppended ==
  ASSUME NEW v \in Seq(Symbols), NEW e \in Symbols
  PROVE  /\ Append(v, e) \in Seq(Symbols) /\ Len(Append(v, e)) = Len(v) + 1
         /\ \A i \in 1 .. Len(v) : Append(v, e)[i] = v[i]
         /\ Append(v, e)[Len(v) + 1] = e
  BY AppendProperties, LenProperties

LEMMA SegmentIs ==
  ASSUME NEW arg \in Text, NEW v \in Writings(arg), NEW e \in {" ", Newline}
  PROVE  Append(v, e) \in Seq(Symbols) /\ Writes(Append(v, e), arg)
  <1>1. v \in Seq(Symbols) /\ e \in Symbols /\ e \in Blank \cup {Newline}
    BY WritingsAre DEF Blank, Symbols
  <1>2. /\ Append(v, e) \in Seq(Symbols) /\ Len(Append(v, e)) = Len(v) + 1
        /\ \A i \in 1 .. Len(v) : Append(v, e)[i] = v[i]
        /\ Append(v, e)[Len(v) + 1] = e
    BY <1>1, OneAppended
  <1>3. Len(v) \in Nat
    BY <1>1, LenProperties
  <1> QED
    BY <1>1, <1>2, <1>3 DEF Writes

\* An input that writes a list of arguments is made of such segments.
LEMMA LineSegments ==
  ASSUME NEW args \in Seq(Text), NEW line, line \in LinesOf(args)
  PROVE  \E segments \in Seq(Seq(Symbols)) :
           /\ Len(segments) = Len(args) /\ line = FlattenSeq(segments)
           /\ \A k \in 1 .. Len(args) : Writes(segments[k], args[k])
  <1>1. PICK n : n = Len(args)
    OBVIOUS
  <1>2. DOMAIN args = 1 .. n /\ n \in Nat /\ \A k \in 1 .. n : args[k] \in Text
    BY <1>1, LenProperties, ElementOfSeq
  <1>3. PICK segments \in SegmentLists(args) : line = FlattenSeq(segments)
    BY DEF LinesOf
  <1>4. segments = [k \in 1 .. n |-> segments[k]]
    BY <1>2 DEF SegmentLists
  <1>5. \A k \in 1 .. n : segments[k] \in Segments(args[k])
    BY <1>2 DEF SegmentLists
  <1>6. PICK s : s = segments
    OBVIOUS
  <1>7. ASSUME NEW k \in 1 .. n
        PROVE  s[k] \in Seq(Symbols) /\ Writes(s[k], args[k])
    <2>1. PICK v \in Writings(args[k]), e \in {" ", Newline} : s[k] = Append(v, e)
      BY <1>5, <1>6 DEF Segments
    <2> QED
      BY <1>2, <2>1, SegmentIs
  <1>8. [k \in 1 .. n |-> s[k]] \in Seq(Seq(Symbols))
    BY <1>2, <1>7, IsASeq
  <1>9. s = [k \in 1 .. n |-> s[k]]
    BY <1>4, <1>6, Zenon
  <1>10. Len(s) = n
    BY <1>2, <1>9
  <1>11. s \in Seq(Seq(Symbols))
    BY <1>8, <1>9, Zenon
  <1> QED
    BY <1>1, <1>3, <1>6, <1>7, <1>10, <1>11

\* The words of such an input are the arguments.
LEMMA SegmentsConveyed ==
  ASSUME Types, NEW args \in Seq(Text), NEW segments \in Seq(Seq(Symbols)),
         Len(segments) = Len(args), input = FlattenSeq(segments),
         \A k \in 1 .. Len(args) : Writes(segments[k], args[k])
  PROVE  /\ Len(WordsRead) = Len(args)
         /\ \A k \in 1 .. Len(args) : WordsRead[k].text = c_string(args[k])
  <1> DEFINE m == Len(args)
  <1>1. m \in Nat /\ \A k \in 1 .. m : args[k] \in Text
    BY LenProperties, ElementOfSeq
  <1>2. Len(segments) = m
    OBVIOUS
  <1> HIDE DEF m
  <1> DEFINE P(n) == Len(Joined(segments, n))
             Reached(n) == /\ Conveyed(args, n, P(n))
                           /\ n # 0 => P(n) \in Separators
             S == {n \in Nat : n <= m => Reached(n)}
  <1>7. P(0) = 0 /\ P(m) = Len(input)
    BY <1>2, JoinedEnds
  <1>8. /\ Len(WordsRead) \in Nat /\ Len(input) \in Nat /\ 1 \in Starts
    BY WordsAre, StartsAre
  <1>9. 0 \in S
    <2>1. Counted(0, 0)
      <3> SUFFICES ASSUME NEW k \in 1 .. Len(WordsRead)
                   PROVE  ~(k <= 0) /\ ~(WordsRead[k].ends <= 0)
        BY DEF Counted
      <3>1. WordsRead[k].ends \in 1 .. Len(input) + 1
        BY WordIs
      <3> QED
        BY <1>8, <3>1
    <2>2. Place(0 + 1, 0 + 1)
      BY <1>8 DEF Place
    <2> QED
      BY <1>7, <1>8, <2>1, <2>2 DEF Conveyed
  <1>10. ASSUME NEW n \in Nat, n \in S
         PROVE  n + 1 \in S
    <2> SUFFICES ASSUME n + 1 <= m
                 PROVE  Reached(n + 1)
      OBVIOUS
    <2>1. n \in 0 .. Len(segments) /\ n < Len(segments) /\ n + 1 \in 1 .. m /\ n <= m
      BY <1>1, <1>2
    <2>2. PICK p : p = P(n)
      OBVIOUS
    <2>3. PICK v \in Writings(args[n + 1]) :
             /\ Len(v) \in Nat /\ Len(segments[n + 1]) = Len(v) + 1
             /\ \A i \in 1 .. Len(v) : segments[n + 1][i] = v[i]
             /\ segments[n + 1][Len(v) + 1] \in Blank \cup {Newline}
      BY <2>1 DEF Writes, m
    <2>4. /\ p \in Nat /\ P(n + 1) = p + Len(segments[n + 1])
          /\ p + Len(segments[n + 1]) <= Len(input)
          /\ \A i \in 1 .. Len(segments[n + 1]) : input[p + i] = segments[n + 1][i]
      BY <2>1, <2>2, JoinedElements
    <2>6. Conveyed(args, n, p)
      BY <1>10, <2>1, <2>2
    <2>7. args[n + 1] \in Text
      BY <1>1, <2>1
    <2>8. PICK e \in Nat : e = p + 1 + Len(v) /\ e = p + (Len(v) + 1) /\ e <= Len(input)
      BY <1>8, <2>4, <2>3
    <2>9. ReadsFrom(p + 1, v)
      <3>1. PICK a : a = p + 1
        OBVIOUS
      <3>2. ASSUME NEW i \in 1 .. Len(v)
            PROVE  input[(a - 1) + i] = v[i]
        <4>1. i \in 1 .. Len(segments[n + 1]) /\ (a - 1) + i = p + i
          BY <2>3, <2>4, <3>1
        <4> QED
          BY <2>3, <2>4, <4>1
      <3>3. ReadsFrom(a, v)
        BY <3>2 DEF ReadsFrom
      <3> QED
        BY <3>1, <3>3
    <2>10. input[e] \in Blank \cup {Newline}
      <3>1. Len(v) + 1 \in 1 .. Len(segments[n + 1])
        BY <2>3
      <3> QED
        BY <2>3, <2>4, <2>8, <3>1
    <2>11. Conveyed(args, n + 1, e) /\ e \in Separators
      BY <2>4, <2>6, <2>7, <2>8, <2>9, <2>10, OneMoreConveyed
    <2>12. P(n + 1) = e
      BY <2>4, <2>3, <2>8
    <2> HIDE DEF P
    <2> QED
      BY <2>11, <2>12
  <1>11. \A n \in Nat : n \in S
    <2> HIDE DEF S
    <2> QED
      BY <1>9, <1>10, AllNaturals
  <1>12. Reached(m)
    <2> HIDE DEF Reached
    <2> QED
      BY <1>1, <1>11
  <1>13. Conveyed(args, m, Len(input)) /\ (m # 0 => Len(input) \in Separators)
    <2> HIDE DEF P
    <2> QED
      BY <1>7, <1>12
  <1>14. m = Len(WordsRead)
    <2>1. Len(input) = 0 \/ Len(input) \in Separators
      <3>1. m = 0 => Len(input) = 0
        BY <1>7
      <3> QED
        BY <1>13, <3>1
    <2>2. PICK e \in Nat : e = Len(input) + 1 /\ e - 1 = Len(input)
      BY <1>8
    <2>3. \A k \in 1 .. Len(WordsRead) : WordsRead[k].ends # e
      <3>1. e - 1 \in Separators \/ e = 1
        BY <1>8, <2>1, <2>2
      <3> QED
        BY <3>1, NoWordEnds
    <2>4. \A k \in 1 .. Len(WordsRead) : WordsRead[k].ends <= Len(input)
      <3> SUFFICES ASSUME NEW k \in 1 .. Len(WordsRead)
                   PROVE  WordsRead[k].ends <= Len(input)
        OBVIOUS
      <3>1. WordsRead[k].ends \in 1 .. Len(input) + 1 /\ WordsRead[k].ends # e
        BY <2>3, WordIs
      <3> QED
        BY <1>8, <2>2, <3>1
    <2>5. m <= Len(WordsRead) /\ Counted(m, Len(input))
      BY <1>13 DEF Conveyed
    <2> QED
      BY <1>1, <1>8, <2>4, <2>5, AllCounted
  <1> QED
    BY <1>13, <1>14 DEF Conveyed, m

\* Written in whatever way, the arguments are the words.
LEMMA LinesConveyed ==
  ASSUME Types, NEW args \in Seq(Text), input \in LinesOf(args)
  PROVE  /\ Len(WordsRead) = Len(args)
         /\ \A k \in 1 .. Len(args) : WordsRead[k].text = c_string(args[k])
  <1>1. PICK segments \in Seq(Seq(Symbols)) :
           /\ Len(segments) = Len(args) /\ input = FlattenSeq(segments)
           /\ \A k \in 1 .. Len(args) : Writes(segments[k], args[k])
    BY LineSegments
  <1> QED
    BY <1>1, SegmentsConveyed

\* Whatever the list of arguments, quoted or escaped in any of the ways that the
\* tokenizer's syntax has, and separated by blanks or newlines, it comes back as
\* it is (next_space_token).
THEOREM ArgumentsConveyed == Spec => []ConveysArguments
  <1>1. ASSUME Types, ReadInv, ArgumentsAsWritten
        PROVE  ConveysArguments
    <2> SUFFICES ASSUME finished, logical_end_of_input_marker = NoMarker,
                        NEW args \in ArgumentLists, input \in LinesOf(args)
                 PROVE  tokens = args
      BY DEF ConveysArguments, WrittenAs
    <2>1. args \in Seq(Seq(STRING \ {NUL}))
      BY SpaceTokenizerAssumption
    <2>2. Len(args) \in Nat
      BY <2>1, LenProperties
    <2>3. ASSUME NEW k \in 1 .. Len(args)
          PROVE  args[k] \in Text /\ c_string(args[k]) = args[k]
      <3>1. args[k] \in Seq(STRING \ {NUL})
        BY <2>1, ElementOfSeq
      <3>2. /\ Len(args[k]) \in Nat /\ args[k] = [i \in 1 .. Len(args[k]) |-> args[k][i]]
            /\ \A i \in 1 .. Len(args[k]) : args[k][i] \in STRING \ {NUL}
        BY <3>1, LenProperties, ElementOfSeq
      <3>3. [i \in 1 .. Len(args[k]) |-> args[k][i]] \in Seq(STRING)
        BY <3>2, IsASeq
      <3>4. args[k] \in Text
        BY <3>2, <3>3 DEF Text
      <3> QED
        BY <3>2, <3>4, CStrings
    <2>4. args \in Seq(Text)
      <3>1. args = [k \in 1 .. Len(args) |-> args[k]]
        BY <2>1, LenProperties
      <3>2. [k \in 1 .. Len(args) |-> args[k]] \in Seq(Text)
        BY <2>2, <2>3, IsASeq
      <3> QED
        BY <3>1, <3>2
    <2>5. /\ Len(WordsRead) = Len(args)
          /\ \A k \in 1 .. Len(args) : WordsRead[k].text = c_string(args[k])
      BY <1>1, <2>4, LinesConveyed
    <2>6. MarkerIn(WordsRead) = 0
      <3>1. ASSUME NEW k \in 1 .. Len(WordsRead)
            PROVE  WordsRead[k].text # logical_end_of_input_marker
        <4>1. WordsRead[k].text \in Seq(STRING)
          BY <2>3, <2>5 DEF Text
        <4> QED
          BY <4>1, SpaceTokenizerAssumption
      <3> QED
        BY <1>1, <3>1, MarkerIs
    <2>7. /\ Len(tokens) = Len(WordsRead) /\ tokens \in Seq(Text)
          /\ \A k \in 1 .. Len(tokens) : tokens[k] = WordsRead[k].text
      <3>1. ArgumentsIn(WordsRead) = WordsRead
        BY <2>6 DEF ArgumentsIn
      <3>2. tokens \in Seq(Text)
        BY <1>1 DEF Types
      <3> QED
        BY <1>1, <3>1, <3>2 DEF ArgumentsAsWritten, ReadInv
    <2> QED
      BY <2>3, <2>4, <2>5, <2>7, SeqEqual
  <1>2. Spec => [](Types /\ PlaceInv /\ ReadInv)
    BY ReadInvariant
  <1>3. Spec => []ArgumentsAsWritten
    BY ArgumentsReturned
  <1> QED
    BY <1>1, <1>2, <1>3, PTL

=============================================================================
