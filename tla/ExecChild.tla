----------------------------- MODULE ExecChild -----------------------------
(***************************************************************************)
(* A child between fork and exec (exec_child in src/src/command.c): prompt *)
(* and answer at the terminal, reopening of standard input, and the ways   *)
(* in which it ends before a command has taken its place.  The user types  *)
(* any lines; each read from the terminal takes one of them, whichever     *)
(* child it is that reads.                                                 *)
(***************************************************************************)
EXTENDS InputStream

VARIABLES
  prompt, open_tty,   \* -p and -o, as command_create copies them
  has_tty,            \* whether /dev/tty can be opened
  step,               \* control point of each child
  fate                \* history: what became of its command

childOptions == <<prompt, open_tty, has_tty>>
childVars    == <<stream, childOptions, step, fate>>

ChildInit ==
  /\ StreamInit
  /\ prompt \in BOOLEAN /\ open_tty \in BOOLEAN /\ has_tty \in BOOLEAN
  /\ step = [c \in Child |-> "unborn"]
  /\ fate = [c \in Child |-> "none"]

\* Child c gets from one control point to another.
Proceed(c, from, to) ==
  /\ step[c] = from
  /\ step' = [step EXCEPT ![c] = to]
  /\ UNCHANGED childOptions

Continue(c, from, to) == Proceed(c, from, to) /\ UNCHANGED <<stream, fate>>

\* Its command has the outcome f.
Settle(c, f) == fate' = [fate EXCEPT ![c] = f]

\* exit() from `point', with stdio flushed.
exit(c, point, f) ==
  /\ Proceed(c, point, "ended")
  /\ FlushStream(c)
  /\ Settle(c, f)

-----------------------------------------------------------------------------

\* phxargs_fork
Fork(c) ==
  /\ Proceed(c, "unborn", "forked")
  /\ ForkStream(c)
  /\ UNCHANGED fate

SkipPrompt(c) == ~prompt /\ Continue(c, "forked", "confirmed")

OpenTty(c) == prompt /\ has_tty /\ Continue(c, "forked", "asking")

CannotOpenTty(c) == prompt /\ ~has_tty /\ exit(c, "forked", "not run")

\* confirm_execution looks at the first character of a line, then reads up to
\* a newline; of a blank line the first character is that newline.
ReadYes(c)   == Continue(c, "asking", "confirmed")
ReadOther(c) == Continue(c, "asking", "refused")
ReadBlank(c) == Continue(c, "asking", "skipping")

SkipRestOfLine(c) == Continue(c, "skipping", "refused")

Refuse(c) == exit(c, "refused", "refused")

\* freopen(stdin) leaves the parent's position alone, or flushes the stream
\* first as exit() does: libraries differ.  With -a stdin is not the input.
ReopenStdin(c) ==
  /\ open_tty /\ has_tty
  /\ Proceed(c, "confirmed", "reopened")
  /\ \/ from_stdin /\ (FlushStream(c) \/ DropStream(c))
     \/ ~from_stdin /\ UNCHANGED stream
  /\ UNCHANGED fate

CannotReopenStdin(c) ==
  /\ open_tty /\ ~has_tty
  /\ Proceed(c, "confirmed", "ended")
  /\ FlushStream(c) \/ (from_stdin /\ DropStream(c))
  /\ Settle(c, "not run")

\* Faulty variant: -o is forgotten.
ReadyWithoutTty(c) == step[c] \in {"confirmed", "reopened"}

ReadyToExec(c) == step[c] = IF open_tty THEN "reopened" ELSE "confirmed"

\* From here on a command runs, with phxargs's standard input or a terminal.
Exec(c) ==
  /\ ReadyToExec(c)
  /\ Proceed(c, step[c], IF step[c] = "reopened" THEN "command at tty" ELSE "command")
  /\ DropStream(c)
  /\ Settle(c, "run")

\* Faulty variant: a command that cannot be executed is passed over.
SkipNotExecutable(errno) ==
  CASE errno = "E2BIG" -> 125
    [] errno = "ENOENT" -> 127
    [] OTHER -> 0

exec_status(errno) ==
  CASE errno = "E2BIG" -> 125
    [] errno = "ENOENT" -> 127
    [] OTHER -> 126

ExecFails(c) == ReadyToExec(c) /\ exit(c, step[c], "not run")

-----------------------------------------------------------------------------

\* What a command does to the standard input it shares is its own business.
CommandReads(c) ==
  /\ step[c] = "command"
  /\ StealItems
  /\ UNCHANGED <<childOptions, step, fate>>

CommandEnds(c) ==
  Continue(c, "command", "ended") \/ Continue(c, "command at tty", "ended")

\* A child's own steps, and how it ends with each status.
ChildMoves(c) ==
  \/ SkipPrompt(c) \/ OpenTty(c)
  \/ ReadYes(c) \/ ReadOther(c) \/ ReadBlank(c) \/ SkipRestOfLine(c)
  \/ ReopenStdin(c) \/ Exec(c) \/ CommandReads(c)

ChildEnds(c, raw) ==
  \/ (CannotOpenTty(c) \/ CannotReopenStdin(c)) /\ raw = 1
  \/ Refuse(c) /\ raw = 0
  \/ ExecFails(c) /\ \E errno \in {"E2BIG", "ENOENT", "EACCES"} : raw = exec_status(errno)
  \/ CommandEnds(c) /\ raw \in RawStatus

=============================================================================
