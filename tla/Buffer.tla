------------------------------- MODULE Buffer -------------------------------
(***************************************************************************)
(* The growing buffer under the tokenizers (src/src/buffer.c): struct      *)
(* buffer_s as a record of the bytes allocated, by index; sz; and pos.     *)
(* Growing moves the bytes to a new block of memory, and a pointer into    *)
(* the old block is good for nothing.                                      *)
(***************************************************************************)
EXTENDS Util, Sequences, FiniteSetsExt

Terminator == 0    \* '\0'
Unwritten  == -1   \* a byte that realloc() has added

buffer_create(size) ==
  [buf |-> [i \in 0..size |-> Terminator], block |-> 0, sz |-> size, pos |-> 0]

buffer_put_exits(b) ==
  /\ b.pos = b.sz
  /\ \/ CannotDouble(b.sz)
     \/ CannotAllocate(phxargs_double_capacity(b.sz) + 1)

Grown(b) ==
  LET size == phxargs_double_capacity(b.sz)
  IN [b EXCEPT !.sz = size, !.block = @ + 1,
               !.buf = [i \in 0..size |-> IF i \in DOMAIN @ THEN @[i] ELSE Unwritten]]

buffer_put(b, ch) ==
  LET roomy == IF b.pos = b.sz THEN Grown(b) ELSE b
  IN [roomy EXCEPT !.buf[roomy.pos] = ch, !.pos = @ + 1]

buffer_drop_last(b) == IF b.pos > 0 THEN [b EXCEPT !.pos = @ - 1] ELSE b

buffer_reset(b) == [b EXCEPT !.pos = 0]

\* A pointer to a byte of the buffer, and the C string that it points to.
tokenizer_token(b, at) == [block |-> b.block, at |-> at]

Dangling == <<Unwritten>>

StringAt(b, pointer) ==
  LET ends == {i \in DOMAIN b.buf : i >= pointer.at /\ b.buf[i] = Terminator}
  IN IF pointer.block # b.block \/ ends = {} THEN Dangling
     ELSE [i \in 1 .. Min(ends) - pointer.at |-> b.buf[pointer.at + i - 1]]

=============================================================================
