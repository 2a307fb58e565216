------------------------------- MODULE Storage -------------------------------
(***************************************************************************)
(* The way of an argument through memory.  The tokenizer of DelimTokenizer *)
(* assembles it in its Buffer and hands the mode a pointer into it; the    *)
(* mode has it copied to the input arguments, or into the fixed arguments  *)
(* in the place of their placeholders (command_replace_args in             *)
(* src/src/command.c), before it asks for the next one, which overwrites   *)
(* the buffer.                                                             *)
(*                                                                         *)
(* The steps are those of DelimTokenizer, whose variables tell what the    *)
(* arguments should be, with what they do to memory.  phxargs exits where  *)
(* memory ends.                                                            *)
(***************************************************************************)
EXTENDS DelimTokenizer, Buffer, CommandArgs, StrReplace

CONSTANTS
  BufferSizes,      \* what command_max_length() can be
  InputCapacity,    \* initial capacity of input_args (10 in the code)
  FixedArgs,        \* the command line, as a sequence of strings
  Placeholders      \* what -I can give; NULL without -I

ASSUME StorageAssumption ==
  /\ BufferSizes \subseteq Nat /\ InputCapacity \in Nat
  /\ FixedArgs \in Seq(Seq(0..255)) /\ Placeholders \subseteq {NULL} \cup Seq(0..255)

VARIABLES
  buf, token,            \* of the tokenizer; the pointer it has returned
  arg_placeholder,
  input_args, replaced_fixed_args,
  turn,                  \* "tokenizer", "mode" with an argument in hand; "exited",
                         \* or "overrun" when the code has lost control
  executed               \* history: the argument vectors of the commands executed

storageVars == <<vars, buf, token, arg_placeholder, input_args,
                 replaced_fixed_args, turn, executed>>
arguments == <<input_args, replaced_fixed_args, executed>>

Space == 32
NoToken == [block |-> -1, at |-> 0]
NoInput == command_args_create_with_capacity(InputCapacity)
NoReplaced == command_args_create_with_capacity(Len(FixedArgs))

StorageInit ==
  /\ Init
  /\ \E size \in BufferSizes : buf = buffer_create(size)
  /\ token = NoToken
  /\ arg_placeholder \in Placeholders
  /\ input_args = NoInput
  /\ replaced_fixed_args = NoReplaced
  /\ turn = "tokenizer"
  /\ executed = <<>>

-----------------------------------------------------------------------------

Stop(how) ==
  /\ turn' = how
  /\ UNCHANGED <<vars, buf, token, arg_placeholder, arguments>>

\* phxargs exits.
Exit == Stop("exited")

\* Memory that was not allocated is written: anything may happen from here on.
Overrun == Stop("overrun")

\* The tokenizer has put into the buffer what makes it b.
Keep(b) ==
  /\ buf' = b
  /\ UNCHANGED <<token, arg_placeholder, arguments, turn>>

\* Faulty variant: the pointer is taken before the NUL is added.
PointerFirst(b) ==
  /\ token' = tokenizer_token(b, 0)
  /\ buf' = buffer_put(b, NUL)
  /\ turn' = "mode"
  /\ UNCHANGED <<arg_placeholder, arguments>>

\* delim_tokenizer_end_token; token_start is 0 in every call.
HandOver(b) ==
  /\ buf' = buffer_put(b, NUL)
  /\ token' = tokenizer_token(buf', 0)
  /\ turn' = "mode"
  /\ UNCHANGED <<arg_placeholder, arguments>>

StoreByte ==
  LET ch == input[consumed + 1]
  IN /\ turn = "tokenizer" /\ ~finished /\ consumed < Len(input)
     /\ \/ buffer_put_exits(buf) /\ Exit
        \/ /\ ~buffer_put_exits(buf)
           /\ ReadByte
           /\ IF is_delimiter(ch) THEN HandOver(buf) ELSE Keep(buffer_put(buf, ch))

\* The last byte in the buffer is looked at in place.
BufferStripped ==
  IF delim # Newline /\ buf.buf[buf.pos - 1] = Newline THEN buffer_drop_last(buf) ELSE buf

StoreEof ==
  /\ turn = "tokenizer" /\ ~finished /\ consumed = Len(input)
  /\ \/ (read_failed \/ buf.pos = 0) /\ ReadEof /\ Keep(buf)
     \/ /\ ~read_failed /\ buf.pos > 0
        /\ \/ buffer_put_exits(BufferStripped) /\ Exit
           \/ ~buffer_put_exits(BufferStripped) /\ ReadEof /\ HandOver(BufferStripped)

-----------------------------------------------------------------------------

Text == StringAt(buf, token)

build_exec_args ==
  (IF arg_placeholder # NULL THEN Strings(replaced_fixed_args) ELSE FixedArgs)
    \o Strings(input_args)

\* The loops that add up lengths.
Total(lengths) == FoldLeft(LAMBDA sum, n : sum + n, 0, lengths)

\* write_trace: how much is allocated, and what is written into it.
trace_len(exec_args, with_newline) ==
  Total([i \in DOMAIN exec_args |->
           IF i < Len(exec_args) THEN Len(exec_args[i]) + 1 ELSE Len(exec_args[i])])
    + (IF with_newline THEN 1 ELSE 0)

trace_buf(exec_args, with_newline) ==
  FlattenSeq([i \in DOMAIN exec_args |->
    IF i < Len(exec_args) THEN Append(exec_args[i], Space) ELSE exec_args[i]])
    \o (IF with_newline THEN <<Newline>> ELSE <<>>)

\* The next call of next_delim_token resets the buffer.
NextCall ==
  /\ buf' = buffer_reset(buf)
  /\ token' = NoToken
  /\ turn' = "tokenizer"
  /\ UNCHANGED <<vars, arg_placeholder>>

\* command_add_input_argument
AddInputArgument ==
  /\ turn = "mode" /\ arg_placeholder = NULL
  /\ \/ command_args_add_exits(input_args) /\ Exit
     \/ /\ ~command_args_add_exits(input_args)
        /\ input_args' = command_args_add(input_args, Text)
        /\ NextCall
        /\ UNCHANGED <<replaced_fixed_args, executed>>

\* A command is executed with what there is, be it before the argument in hand
\* is added, and recycled.
ExecuteInput ==
  /\ turn = "mode" \/ (turn = "tokenizer" /\ buf.pos = 0)
  /\ input_args.count > 0
  /\ executed' = Append(executed, build_exec_args)
  /\ input_args' = NoInput
  /\ UNCHANGED <<vars, buf, token, arg_placeholder, replaced_fixed_args, turn>>

\* command_replace_args, argument by argument; the first one is just copied.
\* Where calloc() is asked for nothing it may say so by NULL, and phxargs exits.
ReplaceOne ==
  LET i == replaced_fixed_args.count + 1
      arg == FixedArgs[i]
      ends == i > 1 /\ str_replace_exits(arg, arg_placeholder, Text)
      overruns == i > 1 /\ str_replace_overruns(arg, arg_placeholder, Text)
  IN /\ turn = "mode" /\ arg_placeholder # NULL /\ i <= Len(FixedArgs)
     /\ \/ (ends \/ overruns) /\ Exit
        \/ overruns /\ Overrun
        \/ /\ ~ends /\ ~overruns
           /\ replaced_fixed_args' = command_args_add(replaced_fixed_args,
                IF i = 1 THEN arg ELSE str_replace(arg, arg_placeholder, Text))
           /\ UNCHANGED <<vars, buf, token, arg_placeholder, input_args, turn, executed>>

ExecuteReplaced ==
  /\ turn = "mode" /\ arg_placeholder # NULL
  /\ replaced_fixed_args.count = Len(FixedArgs)
  /\ executed' = Append(executed, build_exec_args)
  /\ replaced_fixed_args' = NoReplaced
  /\ NextCall
  /\ UNCHANGED input_args

StorageDone == (finished \/ turn \in {"exited", "overrun"}) /\ UNCHANGED storageVars

StorageNext ==
  \/ StoreByte \/ StoreEof
  \/ AddInputArgument \/ ExecuteInput
  \/ ReplaceOne \/ ExecuteReplaced
  \/ StorageDone

StorageSpec == StorageInit /\ [][StorageNext]_storageVars

-----------------------------------------------------------------------------
(* Properties. *)

InHand == IF turn = "mode" THEN <<Text>> ELSE <<>>

\* What the commands executed so far were given after their fixed arguments.
Given ==
  FlattenSeq([k \in DOMAIN executed |->
    SubSeq(executed[k], Len(FixedArgs) + 1, Len(executed[k]))])

\* The command that line makes of the fixed arguments.
CommandOf(line) ==
  [i \in DOMAIN FixedArgs |->
     IF i = 1 THEN FixedArgs[1] ELSE ReplacedIn(FixedArgs[i], arg_placeholder, line)]

\* Every argument is still what the tokenizer read when the mode has it copied,
\* however the buffer has grown and moved, and stays so when the buffer is used
\* again; commands are given each argument once, after the fixed ones.
ArgumentsSurvive ==
  turn \in {"tokenizer", "mode"} =>
    IF arg_placeholder = NULL
      THEN /\ Given \o Strings(input_args) \o InHand = tokens
           /\ \A k \in DOMAIN executed : IsPrefix(FixedArgs, executed[k])
      ELSE /\ Len(executed) + Len(InHand) = Len(tokens)
           /\ turn = "mode" => Text = Last(tokens)

\* Each command of -I has the line in the place of every placeholder, also of
\* those that overlap or are empty.
LinesReplaced ==
  arg_placeholder # NULL => \A k \in DOMAIN executed : executed[k] = CommandOf(tokens[k])

\* Nothing is written outside of what is allocated: growth may start from any
\* capacity and stop at any size, and where one scan or sum decides how much is
\* allocated and another one writes (str_replace, write_trace), they agree to
\* the byte.  The one exception is a replacement SIZE_MAX bytes long, for which
\* the size to allocate wraps to 0 (str.c:56): str_replace overruns it, and no
\* other one.
StaysWithinMemory ==
  /\ buf.pos \in 0 .. buf.sz /\ DOMAIN buf.buf = 0 .. buf.sz
  /\ \A a \in {input_args, replaced_fixed_args} :
       /\ a.count <= a.capacity /\ 0 .. a.capacity - 1 \subseteq DOMAIN a.args
       /\ a.length = Total([i \in 1 .. a.count |-> Len(Strings(a)[i]) + 1])
  /\ \A k \in DOMAIN executed, nl \in BOOLEAN :
       Len(trace_buf(executed[k], nl)) = trace_len(executed[k], nl)
  /\ turn = "mode" /\ arg_placeholder \notin {NULL, <<>>} =>
       \A i \in DOMAIN FixedArgs :
         IF new_len(FixedArgs[i], arg_placeholder, Text) = SizeMax
           THEN str_replace_overruns(FixedArgs[i], arg_placeholder, Text)
           ELSE \/ str_replace_exits(FixedArgs[i], arg_placeholder, Text)
                \/ Len(written(FixedArgs[i], arg_placeholder, Text)) + 1
                     = result_bytes(FixedArgs[i], arg_placeholder, Text)

=============================================================================
