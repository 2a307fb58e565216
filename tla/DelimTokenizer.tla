--------------------------- MODULE DelimTokenizer ---------------------------
(***************************************************************************)
(* The tokenizer of -d and -0 (src/src/delim_tokenizer.c on top of         *)
(* src/src/tokenizer.c).  Characters are the bytes that getc() returns; a  *)
(* byte in the buffer stands for its conversion to char, which loses       *)
(* nothing.  A call of next_token that returns an argument is followed by  *)
(* the next call.                                                          *)
(***************************************************************************)
EXTENDS Integers, Sequences, SequencesExt, FiniteSets

CONSTANTS
  InputChoices,   \* the inputs, as sequences of bytes
  DelimChoices,   \* the bytes that -d gives (0 for -0)
  CharIsSigned,   \* whether char is a signed type
  ReadMayFail     \* whether a read error may end the input

ASSUME DelimTokenizerAssumption ==
  /\ InputChoices \subseteq Seq(0..255)
  /\ DelimChoices \subseteq 0..255
  /\ CharIsSigned \in BOOLEAN
  /\ ReadMayFail \in BOOLEAN

VARIABLES
  input, consumed, read_failed,     \* what getc() has returned, and ferror()
  delim_byte, delim,                \* the option, and struct delim_tokenizer_s
  buffer, err,                      \* of the base
  tokens, boundaries, finished      \* as in SpaceTokenizer

source == <<input, read_failed, delim_byte, delim>>
vars == <<source, consumed, buffer, err, tokens, boundaries, finished>>

NUL == 0
Newline == 10

\* (char) of a byte, promoted to int again in a comparison.
char(byte) == IF CharIsSigned /\ byte >= 128 THEN byte - 256 ELSE byte

\* The buffer as a C string: it ends at the first NUL byte.
c_string(s) ==
  LET nuls == {i \in 1..Len(s) : s[i] = NUL}
  IN IF nuls = {} THEN s ELSE SubSeq(s, 1, Min(nuls) - 1)

Init ==
  /\ input \in InputChoices
  /\ consumed = 0
  /\ read_failed \in (IF ReadMayFail THEN BOOLEAN ELSE {FALSE})
  /\ delim_byte \in DelimChoices
  /\ delim = char(delim_byte)
  /\ buffer = <<>> /\ err = "NONE"
  /\ tokens = <<>> /\ boundaries = {} /\ finished = FALSE

\* The next call resets the buffer before it reads.
delim_tokenizer_end_token(text) ==
  /\ tokens' = Append(tokens, c_string(text))
  /\ buffer' = <<>>
  /\ UNCHANGED <<err, finished>>

\* Faulty variant: a delimiter right after another one is part of the argument.
SkipEmptyItems(ch) == ch = delim /\ buffer # <<>>

is_delimiter(ch) == ch = delim

ReadByte ==
  /\ ~finished /\ consumed < Len(input)
  /\ consumed' = consumed + 1
  /\ UNCHANGED source
  /\ LET ch == input[consumed + 1]
     IN \/ /\ ~is_delimiter(ch)
           /\ buffer' = Append(buffer, ch)
           /\ UNCHANGED <<err, tokens, boundaries, finished>>
        \/ /\ is_delimiter(ch)
           /\ boundaries' = boundaries \cup {Len(tokens) + 1}
           /\ delim_tokenizer_end_token(buffer)

\* Faulty variant: the newline goes even where it is the delimiter itself, or
\* where it is not there.
StripLastByte(s) == Front(s)

strip_trailing_newline(s) ==
  IF delim # Newline /\ Last(s) = Newline THEN Front(s) ELSE s

\* At the end of the input no boundary is signalled.
ReadEof ==
  /\ ~finished /\ consumed = Len(input)
  /\ UNCHANGED <<source, consumed, boundaries>>
  /\ \/ /\ read_failed
        /\ err' = "IO"
        /\ finished' = TRUE
        /\ UNCHANGED <<buffer, tokens>>
     \/ /\ ~read_failed /\ buffer = <<>>
        /\ finished' = TRUE
        /\ UNCHANGED <<buffer, err, tokens>>
     \/ /\ ~read_failed /\ buffer # <<>>
        /\ delim_tokenizer_end_token(strip_trailing_newline(buffer))

next_delim_token == ReadByte \/ ReadEof

Done == finished /\ UNCHANGED vars

Next == next_delim_token \/ Done

Spec == Init /\ [][Next]_vars

-----------------------------------------------------------------------------
(* Properties. *)

\* The arguments with the delimiters that closed them.
Rejoined ==
  FlattenSeq([k \in DOMAIN tokens |->
    IF k \in boundaries THEN Append(tokens[k], delim_byte) ELSE tokens[k]])

WithoutFinalNewline(s) ==
  IF s # <<>> /\ delim # Newline /\ Last(s) = Newline THEN Front(s) ELSE s

\* The last argument is the one that no delimiter closes.
LastArgumentReturned == \E k \in DOMAIN tokens : k \notin boundaries

\* Nothing that was read is lost, added or reordered: the arguments, each with
\* the delimiter that closed it, followed by what is in the buffer, are the
\* bytes read, but for the one newline that ends the last argument.  Where the
\* bytes are not to be divided at NULs, this is about inputs without any.
ItemsRejoin ==
  delim_byte = NUL \/ NUL \notin Range(input) =>
    Rejoined \o buffer =
      IF LastArgumentReturned THEN WithoutFinalNewline(input)
                              ELSE SubSeq(input, 1, consumed)

\* No argument contains the delimiter that -d gives.
DelimiterSplits == \A k \in DOMAIN tokens : delim_byte \notin Range(tokens[k])

=============================================================================
