---------------------------- MODULE InputStream ----------------------------
(***************************************************************************)
(* The input of phxargs as an open file (src/src/arg_source.c and the      *)
(* stdio library under it).  The parent reads through a buffer; a fork     *)
(* gives each child a copy of the buffer, while the file offset stays one  *)
(* for all.  exit() in a child flushes its copy: on a file that can be     *)
(* positioned, the offset moves back by what the copy holds unread.        *)
(*                                                                         *)
(* The unit is an item: an argument with its delimiter.  Items are         *)
(* numbered by their place in the file.                                    *)
(***************************************************************************)
EXTENDS Children, Sequences

CONSTANTS
  FileItems,     \* items in the file
  BufferItems    \* bound: items that one read() fetches at most

ASSUME InputStreamAssumption == FileItems \in Nat /\ BufferItems \in Nat \ {0}

VARIABLES
  from_stdin,    \* no -a: the file is standard input, for the children too
  seekable,      \* a regular file, not a pipe or a terminal
  offset,        \* items before the offset of the open file
  buffered,      \* items that the parent's FILE holds, still to be consumed
  copied,        \* the same of each child's copy of it
  items          \* history: the items that the parent has consumed

stream == <<from_stdin, seekable, offset, buffered, copied, items>>

StreamInit ==
  /\ from_stdin \in BOOLEAN /\ seekable \in BOOLEAN
  /\ offset = 0
  /\ buffered = <<>>
  /\ copied = [c \in Child |-> <<>>]
  /\ items = <<>>

Items(first, last) == [i \in 1..(last - first + 1) |-> first + i - 1]

\* getc() with an empty buffer: a read() fetches a bufferful, or from a pipe
\* any part of it.
Fetched ==
  IF buffered # <<>> THEN {buffered}
  ELSE {Items(offset + 1, offset + n) :
          n \in {m \in 1..BufferItems :
                   \/ offset + m = FileItems
                   \/ offset + m < FileItems /\ (seekable => m = BufferItems)}}

\* The parent consumes one item.
GetItem ==
  \E full \in Fetched :
    /\ items' = Append(items, Head(full))
    /\ buffered' = Tail(full)
    /\ offset' = IF buffered = <<>> THEN offset + Len(full) ELSE offset
    /\ UNCHANGED <<from_stdin, seekable, copied>>

AtEof == buffered = <<>> /\ offset = FileItems

ForkStream(c) ==
  /\ copied' = [copied EXCEPT ![c] = buffered]
  /\ UNCHANGED <<from_stdin, seekable, offset, buffered, items>>

\* Where lseek(fd, -unread, SEEK_CUR) leaves the offset; it fails on a pipe,
\* and where it would lead before the beginning.
Rewound(c) ==
  IF seekable /\ Len(copied[c]) <= offset THEN offset - Len(copied[c]) ELSE offset

\* The stream of child c is flushed, by exit(), or gone, by exec.
FlushStream(c) ==
  /\ offset' = Rewound(c)
  /\ copied' = [copied EXCEPT ![c] = <<>>]
  /\ UNCHANGED <<from_stdin, seekable, buffered, items>>

DropStream(c) ==
  /\ copied' = [copied EXCEPT ![c] = <<>>]
  /\ UNCHANGED <<from_stdin, seekable, offset, buffered, items>>

\* A command that inherited the input reads from it.
StealItems ==
  /\ from_stdin
  /\ offset' \in (offset + 1)..FileItems
  /\ UNCHANGED <<from_stdin, seekable, buffered, copied, items>>

=============================================================================
