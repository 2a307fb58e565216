--------------------------- MODULE SpaceTokenizer ---------------------------
(***************************************************************************)
(* The default tokenizer of phxargs (src/src/space_tokenizer.c on top of   *)
(* src/src/tokenizer.c): a six-state machine that reads the input one      *)
(* character at a time and returns one argument per call of next_token.    *)
(* A call that returns is followed by the next one until NULL is returned, *)
(* as in the loops of the modes.                                           *)
(***************************************************************************)
EXTENDS Integers, Sequences, SequencesExt, FiniteSets

CONSTANTS
  InputChoices,    \* the inputs, as sequences of characters
  ArgumentLists,   \* lists of arguments that an input is to convey
  MarkerChoices,   \* what -E gives: a sequence of characters, or NoMarker
  NoMarker,
  ReadMayFail      \* whether a read error may end the input

VARIABLES
  \* the input, how much of it getc() has returned, and ferror()
  input, consumed, read_failed,
  \* struct space_tokenizer_s, its buffer, and the error of its base
  state, quote_char, buffer, logical_end_of_input_marker, err,
  \* local to next_space_token
  line_has_token,
  \* what the caller has got: the arguments; the numbers of those (or of the
  \* marker) at which on_input_boundary was called; and whether NULL was
  tokens, boundaries, finished

vars == <<input, consumed, read_failed, state, quote_char, buffer,
          logical_end_of_input_marker, err, line_has_token, tokens, boundaries,
          finished>>
source == <<input, read_failed, logical_end_of_input_marker>>
answer == <<err, tokens, boundaries, finished>>

NUL       == "NUL"
Newline   == "\n"
Blank     == {" ", "\t"}
Quote     == {"'", "\""}
Backslash == "\\"

NoQuote == NUL   \* quote_char outside quotes

\* Arguments are C strings, and no string means that there is no marker.
ASSUME SpaceTokenizerAssumption ==
  /\ InputChoices \subseteq Seq(STRING)
  /\ ArgumentLists \subseteq Seq(Seq(STRING \ {NUL}))
  /\ NoMarker \notin Seq(STRING)
  /\ ReadMayFail \in BOOLEAN

States == {"NO_TOKEN", "NO_TOKEN_ESCAPE", "IN_TOKEN", "IN_QUOTED_TOKEN",
           "IN_TOKEN_QUOTED", "IN_TOKEN_ESCAPE"}

\* The buffer as a C string: it ends at the first NUL character.
c_string(s) ==
  LET nuls == {i \in 1..Len(s) : s[i] = NUL}
  IN IF nuls = {} THEN s ELSE SubSeq(s, 1, Min(nuls) - 1)

Init ==
  /\ input \in InputChoices
  /\ consumed = 0
  /\ read_failed \in (IF ReadMayFail THEN BOOLEAN ELSE {FALSE})
  /\ logical_end_of_input_marker \in MarkerChoices
  /\ state = "NO_TOKEN" /\ quote_char = NoQuote /\ buffer = <<>>
  /\ err = "NONE" /\ line_has_token = FALSE
  /\ tokens = <<>> /\ boundaries = {} /\ finished = FALSE

-----------------------------------------------------------------------------
(* Returning from next_space_token. *)

\* Faulty variant: the state is reset, the buffer is not.
KeepBuffer ==
  /\ state' = "NO_TOKEN" /\ quote_char' = NoQuote /\ buffer' = buffer

\* space_tokenizer_end_token: the buffer is reset whatever it held.
space_tokenizer_no_token ==
  /\ state' = "NO_TOKEN" /\ quote_char' = NoQuote /\ buffer' = <<>>

\* The next call starts with a line_has_token of its own.
space_tokenizer_end_token ==
  /\ IF c_string(buffer) = logical_end_of_input_marker
       THEN finished' = TRUE /\ UNCHANGED tokens
       ELSE tokens' = Append(tokens, c_string(buffer)) /\ UNCHANGED finished
  /\ space_tokenizer_no_token
  /\ line_has_token' = FALSE
  /\ UNCHANGED err

on_input_boundary == boundaries' = boundaries \cup {Len(tokens) + 1}

Fail(error) ==
  /\ err' = error
  /\ finished' = TRUE
  /\ UNCHANGED <<state, quote_char, buffer, line_has_token, tokens, boundaries>>

-----------------------------------------------------------------------------
(* One handler per state. *)

\* Faulty variant: a line end before the token counts as one.
CountEmptyLines(ch) ==
  IF ch \in Blank \cup {Newline}
    THEN /\ IF ch = Newline THEN on_input_boundary ELSE UNCHANGED boundaries
         /\ UNCHANGED <<state, quote_char, buffer, line_has_token, err, tokens, finished>>
    ELSE /\ state' = IF ch \in Quote THEN "IN_QUOTED_TOKEN"
                     ELSE IF ch = Backslash THEN "NO_TOKEN_ESCAPE" ELSE "IN_TOKEN"
         /\ quote_char' = IF ch \in Quote THEN ch ELSE quote_char
         /\ buffer' = IF ch \in Quote \cup {Backslash} THEN buffer ELSE Append(buffer, ch)
         /\ line_has_token' = TRUE
         /\ UNCHANGED answer

\* Faulty variant: an escape does not count as the beginning of a token.
EscapeWithoutToken(ch) ==
  \/ /\ ch \in Blank \cup {Newline}
     /\ UNCHANGED <<state, quote_char, buffer, line_has_token, answer>>
  \/ /\ ch \in Quote
     /\ state' = "IN_QUOTED_TOKEN" /\ quote_char' = ch /\ line_has_token' = TRUE
     /\ UNCHANGED <<buffer, answer>>
  \/ /\ ch = Backslash
     /\ state' = "NO_TOKEN_ESCAPE"
     /\ UNCHANGED <<quote_char, buffer, line_has_token, answer>>
  \/ /\ ch \notin Blank \cup {Newline} \cup Quote \cup {Backslash}
     /\ state' = "IN_TOKEN" /\ buffer' = Append(buffer, ch) /\ line_has_token' = TRUE
     /\ UNCHANGED <<quote_char, answer>>

handle_no_token_char(ch) ==
  \/ /\ ch \in Blank \cup {Newline}
     /\ UNCHANGED <<state, quote_char, buffer, line_has_token, answer>>
  \/ /\ ch \in Quote
     /\ state' = "IN_QUOTED_TOKEN" /\ quote_char' = ch
     /\ line_has_token' = TRUE
     /\ UNCHANGED <<buffer, answer>>
  \/ /\ ch = Backslash
     /\ state' = "NO_TOKEN_ESCAPE"
     /\ line_has_token' = TRUE
     /\ UNCHANGED <<quote_char, buffer, answer>>
  \/ /\ ch \notin Blank \cup {Newline} \cup Quote \cup {Backslash}
     /\ state' = "IN_TOKEN" /\ buffer' = Append(buffer, ch)
     /\ line_has_token' = TRUE
     /\ UNCHANGED <<quote_char, answer>>

\* An escaped character is taken as it is, a newline too.
space_tokenizer_end_escape(ch) ==
  /\ state' = "IN_TOKEN"
  /\ buffer' = Append(buffer, ch)
  /\ UNCHANGED <<quote_char, line_has_token, answer>>

\* Where line_has_token is FALSE the line has been counted already.
handle_in_token_char(ch) ==
  \/ /\ ch \in Blank
     /\ space_tokenizer_end_token
     /\ UNCHANGED boundaries
  \/ /\ ch = Newline
     /\ IF line_has_token THEN on_input_boundary ELSE UNCHANGED boundaries
     /\ space_tokenizer_end_token
  \/ /\ ch \in Quote
     /\ state' = "IN_TOKEN_QUOTED" /\ quote_char' = ch
     /\ UNCHANGED <<buffer, line_has_token, answer>>
  \/ /\ ch = Backslash
     /\ state' = "IN_TOKEN_ESCAPE"
     /\ UNCHANGED <<quote_char, buffer, line_has_token, answer>>
  \/ /\ ch \notin Blank \cup {Newline} \cup Quote \cup {Backslash}
     /\ buffer' = Append(buffer, ch)
     /\ UNCHANGED <<state, quote_char, line_has_token, answer>>

\* Faulty variant: either quote character closes either kind of quotes.
AnyQuoteCloses(ch) ==
  \/ /\ ch \in Quote
     /\ state' = "IN_TOKEN"
     /\ UNCHANGED <<quote_char, buffer, line_has_token, answer>>
  \/ /\ ch = Newline
     /\ Fail("UNTERMINATED_QUOTE")
  \/ /\ ch \notin Quote \cup {Newline}
     /\ buffer' = Append(buffer, ch)
     /\ UNCHANGED <<state, quote_char, line_has_token, answer>>

handle_quoted_char(ch) ==
  \/ /\ ch = quote_char
     /\ state' = "IN_TOKEN"
     /\ UNCHANGED <<quote_char, buffer, line_has_token, answer>>
  \/ /\ ch = Newline
     /\ Fail("UNTERMINATED_QUOTE")
  \/ /\ ch \notin {quote_char, Newline}
     /\ buffer' = Append(buffer, ch)
     /\ UNCHANGED <<state, quote_char, line_has_token, answer>>

\* Faulty variant: the state is looked at before ferror().
StateBeforeError ==
  \/ state \in {"IN_TOKEN_ESCAPE", "NO_TOKEN_ESCAPE"} /\ Fail("BACKSLASH_AT_EOF")
  \/ state \in {"IN_QUOTED_TOKEN", "IN_TOKEN_QUOTED"} /\ Fail("UNTERMINATED_QUOTE")
  \/ state \in {"NO_TOKEN", "IN_TOKEN"} /\ read_failed /\ Fail("IO")
  \/ /\ state \in {"NO_TOKEN", "IN_TOKEN"} /\ ~read_failed /\ line_has_token
     /\ on_input_boundary /\ space_tokenizer_end_token
  \/ /\ state \in {"NO_TOKEN", "IN_TOKEN"} /\ ~read_failed /\ ~line_has_token
     /\ finished' = TRUE
     /\ UNCHANGED <<state, quote_char, buffer, line_has_token, err, tokens, boundaries>>

handle_eof ==
  \/ read_failed /\ Fail("IO")
  \/ /\ ~read_failed
     /\ \/ state \in {"IN_TOKEN_ESCAPE", "NO_TOKEN_ESCAPE"} /\ Fail("BACKSLASH_AT_EOF")
        \/ state \in {"IN_QUOTED_TOKEN", "IN_TOKEN_QUOTED"} /\ Fail("UNTERMINATED_QUOTE")
        \/ /\ state \in {"NO_TOKEN", "IN_TOKEN"}
           /\ line_has_token
           /\ on_input_boundary
           /\ space_tokenizer_end_token
        \/ /\ state \in {"NO_TOKEN", "IN_TOKEN"}
           /\ ~line_has_token
           /\ finished' = TRUE
           /\ UNCHANGED <<state, quote_char, buffer, line_has_token, err, tokens, boundaries>>

-----------------------------------------------------------------------------

ReadChar ==
  /\ ~finished /\ consumed < Len(input)
  /\ consumed' = consumed + 1
  /\ UNCHANGED source
  /\ LET ch == input[consumed + 1]
     IN \/ state = "NO_TOKEN" /\ handle_no_token_char(ch)
        \/ state \in {"NO_TOKEN_ESCAPE", "IN_TOKEN_ESCAPE"} /\ space_tokenizer_end_escape(ch)
        \/ state = "IN_TOKEN" /\ handle_in_token_char(ch)
        \/ state \in {"IN_QUOTED_TOKEN", "IN_TOKEN_QUOTED"} /\ handle_quoted_char(ch)

ReadEof ==
  /\ ~finished /\ consumed = Len(input)
  /\ UNCHANGED <<source, consumed>>
  /\ handle_eof

next_space_token == ReadChar \/ ReadEof

Done == finished /\ UNCHANGED vars

Next == next_space_token \/ Done

Spec == Init /\ [][Next]_vars

-----------------------------------------------------------------------------
(***************************************************************************)
(* The input, read as a grammar.  It is a sequence of pieces: a backslash  *)
(* with the character after it, a quoted string without newlines, or a     *)
(* character that is neither.  Bare blanks and newlines separate words; a  *)
(* word is a sequence of other pieces that a separator or the end of the   *)
(* input closes.                                                           *)
(***************************************************************************)

\* Where the piece that starts at i ends (exclusive); 0 if it is malformed.
PieceEnd(s, i) ==
  LET closing == {j \in i + 1 .. Len(s) : s[j] = s[i]}
      unquotable == {j \in i + 1 .. Len(s) : s[j] = Newline}
  IN CASE s[i] = Backslash -> IF i < Len(s) THEN i + 2 ELSE 0
       [] s[i] \in Quote ->
            IF closing # {} /\ \A j \in unquotable : j > Min(closing)
              THEN Min(closing) + 1 ELSE 0
       [] OTHER -> i + 1

PieceText(s, i) ==
  CASE s[i] = Backslash  -> <<s[i + 1]>>
    [] s[i] \in Quote    -> SubSeq(s, i + 1, PieceEnd(s, i) - 2)
    [] OTHER             -> <<s[i]>>

PieceStarts(s) ==
  LET starts[i \in 1 .. Len(s) + 1] ==
        i = 1 \/ \E j \in 1 .. i - 1 : starts[j] /\ PieceEnd(s, j) = i
  IN {i \in 1 .. Len(s) + 1 : starts[i]}

\* The words, in order: where each starts and ends, its text, and whether it
\* is the last one of a line that no trailing blank continues.  A read error
\* closes no word.
WordsRead ==
  LET s == input
      starts == PieceStarts(s)
      separators == {i \in starts \ {Len(s) + 1} : s[i] \in Blank \cup {Newline}}
      closings == separators \cup (IF read_failed THEN {} ELSE {Len(s) + 1})
      IsWord(i, e) ==
        /\ i < e /\ (i - 1) \in separators \cup {0} /\ e \in closings
        /\ (i .. e - 1) \cap separators = {}
      Text(i, e) ==
        c_string(FlattenSeq([k \in 1 .. e - i |->
          IF i + k - 1 \in starts THEN PieceText(s, i + k - 1) ELSE <<>>]))
      words == {[first |-> p[1], ends |-> p[2], text |-> Text(p[1], p[2]),
                 ends_line |-> p[2] = Len(s) + 1 \/ s[p[2]] = Newline] :
                  p \in {x \in starts \X starts : IsWord(x[1], x[2])}}
      n == Cardinality(words)
  IN CHOOSE q \in [1 .. n -> words] : \A j, k \in 1 .. n : j < k => q[j].first < q[k].first

\* The first word that equals the marker, 0 if none does.
MarkerIn(words) ==
  LET markers == {k \in DOMAIN words : words[k].text = logical_end_of_input_marker}
  IN IF markers = {} THEN 0 ELSE Min(markers)

ArgumentsIn(words) ==
  IF MarkerIn(words) = 0 THEN words ELSE SubSeq(words, 1, MarkerIn(words) - 1)

Malformed(s) == {i \in PieceStarts(s) \ {Len(s) + 1} : PieceEnd(s, i) = 0}

ErrorIn(s) ==
  LET bad == Malformed(s)
      EndsLine(i) == \E j \in i .. Len(s) : s[j] = Newline
  IN IF MarkerIn(WordsRead) # 0                              THEN "NONE"
     ELSE IF \E i \in bad : s[i] \in Quote /\ EndsLine(i)    THEN "UNTERMINATED_QUOTE"
     ELSE IF read_failed                                     THEN "IO"
     ELSE IF \E i \in bad : s[i] \in Quote                   THEN "UNTERMINATED_QUOTE"
     ELSE IF bad # {}                                        THEN "BACKSLASH_AT_EOF"
     ELSE                                                         "NONE"

-----------------------------------------------------------------------------
(* Properties. *)

\* Every variable has its type; outside of a token the buffer is empty, inside
\* one the line is known to have a token (so the last token is never dropped).
TypeOK ==
  /\ input \in InputChoices
  /\ consumed \in 0 .. Len(input)
  /\ state \in States
  /\ quote_char \in Quote \cup {NoQuote}
  /\ state \in {"IN_QUOTED_TOKEN", "IN_TOKEN_QUOTED"} => quote_char \in Quote
  /\ err \in {"NONE", "IO", "BACKSLASH_AT_EOF", "UNTERMINATED_QUOTE"}
  /\ line_has_token = (state # "NO_TOKEN")
  /\ state = "NO_TOKEN" => buffer = <<>>
  /\ boundaries \subseteq 1 .. Len(tokens) + 1
  /\ finished \in BOOLEAN

\* The arguments are the words of the input up to the marker, and each is
\* returned once its separator has been read, before any character after it
\* (next_space_token, space_tokenizer_end_token).
ArgumentsAsWritten ==
  LET arguments == ArgumentsIn(WordsRead)
      closed == {k \in DOMAIN arguments : arguments[k].ends <= consumed}
  IN /\ Len(tokens) \in Cardinality(closed) .. Len(arguments)
     /\ \A k \in DOMAIN tokens : tokens[k] = arguments[k].text
     /\ finished => Len(tokens) = Len(arguments)

\* on_input_boundary is called with an argument exactly when that argument is
\* the last one of its line: not for empty lines, not where a blank follows it,
\* and at the end of the input (handle_in_token_char, handle_eof).
LineEndsAsWritten ==
  LET words == WordsRead
  IN boundaries \cap DOMAIN tokens = {k \in DOMAIN tokens : words[k].ends_line}

\* An input that ends in the middle of a quoted string or of an escape, has a
\* newline in quotes or cannot be read is reported as such, unless the marker
\* comes first (handle_eof, handle_quoted_char).
ErrorAsWritten == finished => err = ErrorIn(input)

\* An argument can be written with a backslash before each character, or in
\* either kind of quotes that it does not contain, on one line.
Writings(arg) ==
  {FlattenSeq([i \in DOMAIN arg |-> <<Backslash, arg[i]>>]) : a \in {arg} \ {<<>>}}
  \cup {<<q>> \o arg \o <<q>> : q \in
          {q \in Quote : Range(arg) \cap {q, Newline} = {}}}

\* An argument with the separator behind it.
Segments(arg) ==
  {Append(v, " ") : v \in Writings(arg)} \cup {Append(v, Newline) : v \in Writings(arg)}

SegmentLists(args) ==
  {segments \in [DOMAIN args -> UNION {Segments(args[k]) : k \in DOMAIN args}] :
     \A k \in DOMAIN args : segments[k] \in Segments(args[k])}

\* The inputs that write a list of arguments, each followed by a separator.
LinesOf(args) == {FlattenSeq(segments) : segments \in SegmentLists(args)}

WrittenAs == [args \in ArgumentLists |-> LinesOf(args)]

\* However a list of arguments is written, the tokenizer returns that list:
\* quoting and escaping lose nothing, add nothing and merge nothing.
ConveysArguments ==
  finished /\ ~read_failed /\ logical_end_of_input_marker = NoMarker =>
    \A args \in ArgumentLists : input \in WrittenAs[args] => tokens = args

=============================================================================
