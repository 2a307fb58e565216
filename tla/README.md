# phxargs in TLA+

phxargs is an implementation of `xargs` in C: it reads arguments from its
input, divides them into command lines, and runs these in parallel child
processes.  This directory holds a specification of it, written from
`src/src/*.c`, the configurations that model-check the specification on small
instances, and theorems about it with machine-checked proofs.

## 1. The system

```
options -> tokenizer -> execution mode (command + process pool) -> children
```

| Part (`src/src/`) | State | Operations | Must hold |
|---|---|---|---|
| `options.c` | `struct options_s` | one setter per option, then `configure_options` | of conflicting options the last one wins, completely; what is handed on fits together |
| `space_tokenizer.c`, `tokenizer.c` | state of a six-state machine, quote character, buffer, error, marker of `-E` | `next_space_token`: one handler per state, and one for the end of the input | the arguments, the line ends and the error are those of the input read as a grammar; any list of arguments can be written |
| `delim_tokenizer.c` | delimiter, buffer, error | `next_delim_token` | joined again by the delimiter the arguments are the input, but for one trailing newline |
| `buffer.c` | bytes, size, position | `buffer_put`, dropping the last byte, reset | whatever its size, nothing is written beyond it |
| `command.c`, `command_args.c` | limits; arguments collected, their length, the line count, the arguments after replacement | deciding on the length, checks before and after an argument is added, adding, replacing, recycling, forking; in the child: trace, prompt, reopening the terminal, exec | a command keeps within its limits and is as long as they permit; nothing of it is left in the next one; a failure before exec is never taken for success |
| `xargs_mode.c` | owns tokenizer, command and pool | reading a token, executing the command, draining the pool | |
| `appender_mode.c` | (none of its own) | the loop of the default mode | each argument goes to one child, in order; exit status 0 means that all of them did |
| `replacer_mode.c` | (none of its own) | the loop of `-I` | one command per line, holding that line only |
| `process_pool.c` | pids of the children, limit, capacity, exit status, halt flag; counters of SIGUSR1 and SIGUSR2 | installing handlers, `wait_if_full`, `submit`, `drain`, `reap_one`, `apply_signal_adjustments`, the two handlers | no child is lost; the limit is kept, whatever the signals; the worst status wins; a child that exits with 255 stops further launches; nobody waits forever |
| `str.c` | none | `str_replace` | the result is the replacement of all occurrences |
| `arg_source.c` | the open input file | opening, closing | items are consumed once |
| `util.c`, `xargs.c`, `main.c`, `exit_codes.h` | none | allocation and sizes, start-up | |

The parts interact by calls within one thread, with these exceptions, which are
what is hard to test:

- the handlers of SIGUSR1 and SIGUSR2 interrupt the thread between any two
  accesses to the counters they change;
- children run and exit at their own pace, and `waitpid(-1)` hands over any of
  them, also one that phxargs had before it was exec'd;
- between `fork` and `exec` children run code of phxargs: they ask at a
  terminal that all of them share, and each holds a copy of the buffer of the
  input, while the file offset stays one for all;
- a tokenizer calls back into the command when a token ends a line, before the
  token has been looked at by anybody, and the token it returns is a pointer
  into a buffer that the next call overwrites.

Apart from these there are the ways out in the middle of a run: a halt after
exit status 255, an error in the input, a command that is too long, a failing
`fork`.  `PROJECT.json` lists every hazard at its line with the properties that
cover it.

## 2. The modules

| Module | Models | Extends |
|---|---|---|
| `Children` | processes, and what `waitpid` tells of them | |
| `PoolContract` | what the pool promises its caller | |
| `ProcessPool` | the pool, the kernel's view of the children, signals; its caller is arbitrary | `Children` |
| `CommandOptions` | what options hand over to a command | |
| `Command` | the command under construction; no specification of its own | `CommandOptions` |
| `XargsContract` | phxargs from outside: arguments in, arguments out, a status | `PoolContract` |
| `XargsMode` | what the modes share: the composition of pool, command and a tokenizer | `ProcessPool`, `Command` |
| `AppenderMode` | the default mode | `XargsMode` |
| `ReplacerMode` | the mode of `-I` | `XargsMode` |
| `Xargs` | the choice of the mode, and its run to the end | `AppenderMode`, `ReplacerMode` |
| `InputStream` | the input file: its offset, the parent's buffer and the children's copies | `Children` |
| `ExecChild` | a child between `fork` and `exec` | `InputStream` |
| `Program` | phxargs -I with its children and the input they share | `ReplacerMode`, `ExecChild` |
| `SpaceTokenizer` | the default tokenizer | |
| `DelimTokenizer` | the tokenizer of `-d` and `-0` | |
| `Util` | sizes, doubling, the limit of allocation | |
| `Buffer`, `CommandArgs` | the growing buffer, the growing argument list | `Util` |
| `StrReplace` | `str_replace` | `Util` |
| `Storage` | an argument's way through memory | `DelimTokenizer`, `Buffer`, `CommandArgs`, `StrReplace` |
| `Options` | parsing and configuring the options | `CommandOptions` |
| `MC...` | constants and symmetry for the runs | the module named |
| `ProcessPoolProofs` | theorems about the pool and its contract | `ProcessPool` |
| `XargsModeProofs` | what the proofs about the modes share | `XargsMode`, `ProcessPoolProofs` |
| `AppenderModeProofs` | theorems about the default mode | `AppenderMode`, `XargsModeProofs` |
| `ProgramProofs` | theorems about the mode of `-I` and about the program | `Program`, `XargsModeProofs` |
| `OptionsProofs` | theorems about the options | `Options` |
| `SequenceLemmas` | lemmas about naturals, sequences, and sequences joined | community modules only |
| `StorageProofs` | theorems about `str_replace`, the delimiter tokenizer and memory | `Storage`, `SequenceLemmas` |
| `SpaceTokenizerProofs` | theorems about the space tokenizer | `SpaceTokenizer`, `SequenceLemmas` |

### ProcessPool

The fields of `struct process_pool_s` are variables of the same names; `pids` is
a function on `1..count`.  The main thread is at `pc`: in the hands of the
caller, inside `apply_signal_adjustments` (`usr2`, `mark1`, `mark2`, one value
per access to a signal counter that is still to come), waiting for room
(`full`), waiting in the drain (`drain`), or at an end (`done`, `exited`,
`aborted`).  `life` is the state of each process in the kernel and `raw_status`
what it exited with.  `ReadUsr1` is the entry of
`xargs_mode_execute_command`, because reading the first counter is the first
thing that `process_pool_wait_if_full` does; `Launch` is `fork` with
`process_pool_submit`, which no handler can tell apart.  A zombie that is not
in the table leads to `ReapUnknownDebug` or `ReapUnknownRelease`, according to
`NDEBUG`.  `waitpid` returning -1 with `ECHILD` has no action: it needs a wait
without a child, and `WaitHasChild` excludes that.

### The two contracts

`PoolContract` has no table, no counters and no control points: children start,
end and are collected, the limit moves but never appears or disappears, a worst
status accumulates, and the pool ends drained or given up.  Which status is the
worst is settled only where the code and its documents agree: any failure is
worse than success, and 125 is worse than 124, and that worse than 123.  Where
126 and 127 come, they disagree (section 5); there `WorstOf` offers both, and
the contract leaves the choice open.  `ProcessPool`
implements it under the mapping at its end (`KeepsPromise`): `limit` is
`max_procs`; a launched child has the stage that `life` gives it, while
inherited children, which are none of the caller's, do not show; `phase` comes
from `pc`.  Accesses to the signal counters are stutters, unless they change
the limit.

`XargsContract` adds the input and the commands to that: arguments are taken one
by one and none after a halt, each is handed over in order and once, the empty
command is executed only on empty input, and the regular exit needs all of them
handed over unless a child halted phxargs.  Both modes implement it
(`KeepsXargsPromise` in `XargsMode`, with the histories `read` and `given` for
`taken` and `handed`).  An exit with a failure is `ExitWithFailure` there,
wherever it comes from.

### Command, XargsMode, AppenderMode, ReplacerMode, Xargs

A token is a record: its place in the input, its length, and whether it ends a
line.  The tokenizer is, from the mode's side, whatever returns any sequence of
tokens and then ends, with an error or without one (`TokenRead`, `InputEnds`);
the callback for line ends is part of the step that returns the token.  While
`pc = "caller"` the mode moves `at` from one call to the next.  A call into the
pool is a step of the pool (`ReadUsr1`, `StartDrain`, `CallerExits`) that also
says where the mode goes on.  The histories `read`, `given` and `executed`
record tokens and commands for the properties.

`Exit` in `ArgTooLong` and `LineTooLong` is the `exit()` inside
`command_ensure_length_not_exceeded`; the check after an argument was added
drains first (`FailTooLong`), as in the code.

`xargs_create` chooses the mode by whether there is a placeholder; `XargsSpec`
lets either run, and each property of one mode says so in its hypothesis.

### InputStream, ExecChild, Program

In the modes a child simply runs and exits, and the input is any sequence of
tokens.  `Program` replaces both by what really happens.  `InputStream` counts
in items (an argument with its delimiter): `buffered` are those that the
parent's `FILE` holds, `fork` copies them to `copied`, and `exit()` in a child
moves the offset back by as many as its copy holds, if the file is seekable;
`exec` discards them.  A command that shares standard input may take items of
its own accord.  `ExecChild` has one action per way on or out of `exec_child`,
`confirm_execution` and `phxargs_exec`; what POSIX leaves open about `freopen`
is left open.  `ProgramNext` couples them with the steps of `ReplacerMode`: a
child exits with the status to which its own control flow took it, and this
status goes through `child_exit_status` in the pool.  Signals reach phxargs at any
moment (`SignalArrives`); those that reach a child before its `exec` change
counters that nobody there reads.

### Tokenizers

One step per character, one action per state, and the end of the input as an
action of its own.  A call that returns leads straight to the next one, as in
the loops of the modes.  `boundaries` holds the numbers of the tokens at which
the callback was made.  `SpaceTokenizer` has, apart from the machine, a reading
of the input as a grammar of pieces and words (`PieceEnd`, `WordsRead`,
`ErrorIn`), which shares nothing with the machine; the properties compare the
two.  `WordsRead` chooses *the* sequence of the words that orders them by where
they start; that there is exactly one is a lemma.  In `DelimTokenizer` characters are bytes, since the delimiter passes
through a `char`.

### Storage

`Storage` runs `DelimTokenizer` in lockstep with memory.  The variables of the
tokenizer tell what the arguments should be; `buf`, `input_args` and
`replaced_fixed_args` are what the code keeps of them, with their capacities and
with every index that is allocated.  `buffer_put` may move the bytes to a new
block, after which a pointer into the old one gives `Dangling`; a byte that
`realloc` added is `Unwritten`.  The mode copies the string its pointer shows,
or replaces placeholders by it, or executes first and copies later.  Sizes wrap
at `SizeMax`, and nothing above half of it can be allocated.  `StrReplace` has the
two scans of `str_replace` as recursive functions, and `ReplacedIn`, which does
not scan, to compare with.  Lengths above `SizeMax` end `str_replace`; the one that is
exactly `SizeMax` does not, but with its NUL the size to allocate is 0
(`result_bytes`).  Then `calloc` may return NULL, and phxargs exits, or a pointer to
nothing, and what `str_replace` writes goes beyond it (`str_replace_overruns`): from
there on (`Overrun`) the model says nothing.

### Options

An option is a letter with an argument as `strtol` or `getopt` leave it.  Each
setter of `options.c` is an operator on the record of options, so that what a
setter resets is visible where it does so; `set_option` is the `switch` and
`parse_option` one turn of the loop.

## 3. Runs

| Run | Shows |
|---|---|
| `pool_core` | the pool under all interleavings: table, capacity, limit, status, halt, drain; it implements `PoolContract` |
| `xargs_core` | both modes with the real pool: division into commands, nothing lost, one command per line under `-I`, `XargsContract`; they end |
| `program_core` | with the children before `exec`, the shared input file and signals: items are consumed once, prompts do not mix until the first SIGUSR1, and status 0 means that every line's command ran |
| `space_core` | the space tokenizer against the grammar |
| `storage_core` | the delimiter tokenizer against the joining of its arguments; buffer, argument lists, replacement and trace in memory, up to the largest size |
| `options_core` | all options in all orders |
| `pool_lost_signal`, `pool_assert`, `pool_ranking`, `appender_length`, `replacer_length`, `input_reread` | where the program does something else than its documents or assertions say (section 5) |

Each property of the passing runs is paired in `PROJECT.json` with a faulty
variant of a definition, which the comments in the modules mark as such, under
which the property fails.

### Bounds

- *Children.* Three launches (with one inherited child in `pool_core`) are
  enough for a middle slot of the table to be refilled from the last one, for
  the capacity 1 to be doubled twice, and for a halt or a lowered limit to come
  between launches.  The launched children of `pool_core` and the children of
  `program_core` are symmetric; the runs with liveness use no symmetry.
- *Limits.* `-P` 0, 1 and 2, with a CHILD_MAX of 2 or none, in `pool_core`; 1 and
  2 in `xargs_core`; 0 and 1 in `program_core`, where a SIGUSR1 makes 1 a 2.
  `DefaultCapacity` is 1 instead of 16 so that the table has to grow.
- *Signals.* Two of each in `pool_core`: one can fall between the two reads of a
  counter while another has been applied before.  One of each in `program_core`:
  it raises the limit under `-p`.  `xargs_core` has none; the theorems about the
  pool and the modes hold for any number.
- *Exit codes.* Success, one for each severity that matters to the run, 255,
  and death by a signal, which is always included.  In `program_core` 126 stands
  for each of the failures with which a child ends before `exec`.
- *Arguments.* Three tokens of two lengths, one of them 0, chosen so that `-s`
  is reached exactly, missed by one and exceeded; nine combinations of the
  options without `-I`, two with it.  A command may thus be flushed by each of `-n`, `-s` and `-L`, with
  the next argument in hand and with the input at its end.  Where the children
  run out, `fork` can only fail.
- *The input file.* Three items through a buffer of two: a bufferful is left over
  when a child is forked, and there is one more `read` after it; a pipe may give
  less than a bufferful.  `MaxTokens` is 4, one more than the file holds, so that
  an item can be read again; without that bound `input_reread` would go on
  forever.  Lines too long for `-s` are in `xargs_core`.
- *Characters.* Five characters of six kinds, or four of nine, reach every transition of
  the machine with something before it and after it; lists of arguments are
  written with up to three characters each.  Five bytes of five kinds do so for
  delimiters.
- *Memory.* A buffer that starts at 0 or 3 and `SizeMax` 17, so nothing above 8
  bytes: an argument of three bytes fills the buffer exactly and its NUL makes
  it grow.  Starting at 0 it grows to 1, 2 and 4.  Argument lists
  grow from 1 to 4 pointers of 2 bytes, and a fifth ends phxargs, as does a
  replacement longer than 7, unless its length is 17: four placeholders and a
  line of four bytes reach that.  The placeholders are one byte, two bytes that may
  overlap themselves, and the empty string.
- *Options.* Three of any kind or five of those that depend on each other; the
  effects of an option depend only on which of a few came last.

`CHECK_DEADLOCK` is never switched off: the ends of a run (`Terminated`,
`Done`) are explicit.

### Fairness

`FairXargsSpec` assumes that the main thread is scheduled, that the input ends (`MaxTokens`), and that every child ends sooner or
later.  The last is the user's business and not phxargs'; without it `xargs`
may of course wait forever.  Nothing is assumed about signals, about interrupted
calls of `waitpid`, or about which zombie is handed over, and `fork` may fail
always or never.

## 4. Theorems

TLC's instances are small; the theorems hold for any set of children, any
limits, any number of signals, any options and any input.  Every invariant and
every action property and refinement that a passing run checks is also the
statement of a theorem; only liveness is left to TLC (see the end of this
section).

**The pool** (`ProcessPoolProofs`).  The proofs go in layers.
`TypeCorrect` needs no more than itself: the conjuncts on `applied_sigusr1` and
`u1` are inductive because a handler only ever adds.  `CapacitySuffices` follows
step by step.  `LimitInv` relates the limit to the signals *marked as
applied*, not to those delivered, and knows at `mark1` and `mark2` what the
locals `u1` and `u2` may still add; from it follow `LimitStaysInRange` and
`SignalsCountAtMostOnce`.  `TableInv` says that the table is injective and holds
exactly the launched children that have not been collected, that no launched
child vanishes, and that SIGCHLD has its default action once the handlers are
installed; from it follow `TableTracksChildren`, `WaitsOnlyForChildren`,
`DrainLeavesNobody` and `LaunchesRespectLimit`.  `StatusIsTheWorst` and
`HaltStopsLaunches` are about the set of collected children.

The theorems about the table and the status assume `NoStrangers`: in a release
build phxargs has no child when it is exec'd.  Without that they are false,
because `reap_one` then drops the wrong entry.  In a debug build the assertion
stops the program first, and the theorems hold with inherited children too.

**The contract of the pool** (`ProcessPoolProofs` too).  `PoolKeepsPromise`, under
the same assumption, shows that every step of the pool is a step of
`PoolContract` or a stutter under the refinement mapping.  It rests on the three
invariants above: `LimitInv` makes the move of the limit one that the contract
allows, at whichever of the steps of `apply_signal_adjustments` it shows;
`TableInv` makes the number of pids the number of children in flight, so a
launch keeps the contract's limit and a drain that returns leaves nobody.

**The default mode** (`AppenderModeProofs`).  `AppenderUsesPool` shows that the
mode, with its command and its tokenizer, implements the pool's specification:
each of its steps is a step of the pool with its arbitrary caller, or leaves the
pool alone.  So every theorem about the pool is one about the mode.
`ArgumentsNeverLost` proves `NothingLost`.  That formula is not inductive, for
it does not say *where* the token in hand may be: `ArgumentsInv` divides the
control points into those at which the token still has to be placed and those
at which it has been.  `LimitsAreKept` proves `CommandsWithinLimits` from
`SizesInv`: under `-x` what is collected fits at every point but the two between
adding an argument and reacting to it, and no launch is asked for there.

Conversely no command is executed too early.  `NoCommandTooEarly` proves
`CommandsAreMaximal`, for which two commands have to be compared: `RoomInv` says
that the argument that did not fit into the last command is now in hand, or the
first of the one under construction, and still would not fit; `PlacesInv` that
the command under construction has arguments unless it is the first, so that
there is an argument to compare with.  `LinesStayWhole` proves
`CommandsHoldWholeLines`.  The line count is advanced in the tokenizer's callback,
the argument is added later, and in between the command may be recycled:
`LinesInv` says at which control points the count is that of the lines collected,
and at which the line in hand is counted already.  That the count never exceeds
`-L` follows because the code looks at it after every argument.

**The mode of -I** (`ProgramProofs`).  `ReplacerUsesPool` is the same for
this mode.  `NoLineSkipped` and `EachLineItsCommand` prove `LinesInOrder` and
`OneCommandPerLine` from `LinesInv`.  What that adds is the connection with the
pool: a call that may yet launch something is made from one control point only
and with a replaced line pending, and when it has returned, the line has been
given away and nothing of it is left, or the pool has halted.  Otherwise a
second launch of the same line would be possible.

**The contract of phxargs** (`XargsModeProofs` for what the modes share).
`AppenderKeepsPromise` and `ReplacerKeepsPromise` prove `KeepsXargsPromise`,
under `NoStrangers` again: every step of a mode is a step of `XargsContract` or
a stutter.  Steps of the pool are carried over from the lemmas of
`ProcessPoolProofs`, since while phxargs runs both contracts see the same pool.
For a launch `ArgumentsInv` and `LinesInv` say that what is given away is what
comes next in the input.  The default mode needs more, because of the command
for empty input: `LoopInv` says that no empty command is asked for but that one
(`AskedInv`), that without input nothing has been launched before it
(`PresentInv`), and that the mode finishes only when the last command has been
launched or withheld by a halt, which takes a child (`EndInv`).

**The options** (`OptionsProofs`).  `CommandsGetConfigured`: whatever is given
on the command line in whatever order, the record handed over satisfies
`Configured`, which is what `Command` assumes of its options.
`ProcsAreAllowed` proves `ProcsWithinLimits`: `ProcsInv` says of every prefix of
the command line that the number of processes is at most CHILD_MAX, since only
`-P` sets it, and of the end that it does not conflict with `-p`.

`LastLimitDecides` and `LastDelimiterDecides` prove that the last of conflicting
options wins, for command lines of any length.  Both are about the options
parsed so far (`FollowInv`): there is a last one of the kind among them, and the
record is as that one would leave it had it been the only one; with the setters
that reset each other's fields this is inductive, and `configure_options` keeps
it.

**The program** (`ProgramProofs`).  `ProgramRunsMode` shows that `Program`, where
children ask, reopen their input and fail before `exec`, implements
`ReplacerMode`, where they simply run and exit.  So the theorems about that mode
and about the pool are about the program.  `ReadsInputOnce` proves
`InputReadOnce`.  Unless a command reads the file or a child rewinds it, the
items consumed, those in the parent's buffer and the offset are always adjacent
(`InputInv`), whatever part of a bufferful `read` brings.  `AsksOneAtATime` proves
`OnePromptAtATime`: a limit of 1 stays so while no SIGUSR1 has arrived, whatever
SIGUSR2 do (`LimitInv`), and with `TableInv` it
keeps a second child from living before the first has been collected
(`OneChildInv`); a child's process lives while it has something left to do
(`LivesInv`).  `SuccessIsComplete` proves `SuccessMeansRun`: a child that did not
run its command ends with a status that is not 0 (`FatesInv`, `LivesInv`), the
worst of these is the exit status (`StatusIsMostSevere`), every child has been
collected by then (`TableInv`), and the loop ended because of the end of the
input, at which every item had been read (`InputInv`, `LinesInv`).  The last two
theorems assume `NoStrangers`.

**str_replace** (`SequenceLemmas`, `StorageProofs`).  The scans of `str_replace`
are recursive functions over positions, so a claim about them needs induction
over data.  The induction theorems of the library take an operator as a
parameter, which the provers cannot instantiate; but the set of the naturals for
which a claim fails can be formed, and it has a least element.  `LeastNatural`,
`AllNaturals` and `FromTheEnd` in `SequenceLemmas` state induction in this form,
for sets instead of predicates, and all that is proved about recursive
definitions rests on them.  `ScanReplaces`: what the second scan writes is
`ReplacedIn`, in which an occurrence is replaced unless it overlaps one that was
replaced before it; the induction runs from the end of the string, the matches
are unique (`IsReplaced` has one solution).  `ScansAgree`: the length that the
first scan computes is that of what the second one writes.  Both hold for
strings over any set, so nothing depends on bytes.

**The delimiter tokenizer** (`StorageProofs`).  `ItemsAreSplit` proves
`DelimiterSplits` under `DelimitersFit`: the delimiters are values of `char`.
Where `char` is signed, one above 127 never matches and the property is false, so
the hypothesis says exactly where the code works.  `ItemsAreRejoined` proves
`ItemsRejoin` without it: `RejoinInv` says that until the last argument, every
argument returned was closed by a delimiter, and that joined with what is
collected these are the input read so far.

**Memory** (`StorageProofs`).  `StorageTokenizes` shows that `Storage` is
`DelimTokenizer` with memory left out, so both theorems hold of it.
`ArgumentsAreKept`, `LinesAreReplaced` and `MemorySuffices` prove
`ArgumentsSurvive`, `LinesReplaced` and `StaysWithinMemory`.  `IsBuffer` and
`IsArgs` say that everything in use is allocated, and that capacities are small
enough not to wrap when they double; that is inductive because an allocation
above `AllocMax` ends phxargs.  Of `str_replace` the theorem says that it writes as
many bytes as it has allocated, by `ScansAgree`, unless it ends phxargs or the
length is `SizeMax`, for which it proves the overrun.  `Holds` says that the buffer has the characters of
the argument, through each move to another block, and `TextInv` follows an
argument on its way: in the buffer while the tokenizer reads, and in the hands of
the mode once the pointer has been returned, where the bytes must still be
there, although the buffer has been reset.  `InputInv` and `LineInv` say where
the arguments then are, without and with `-I`; `LengthInv` that the length that
an argument list keeps is that of its strings.  The three assume `FirstArraysFit`:
the arrays allocated before anything is read are within `AllocMax`, since
`Storage` begins after their allocation.

**The space tokenizer** (`SpaceTokenizerProofs`).  First the grammar: the starts
of pieces are the least set closed under taking the end of a piece
(`PieceStartsAre`), no piece starts within another one (`PiecesFollow`), so the text
from one start to another is that of the pieces in between, and grows by one
piece at a time; words do not overlap, so they can be put in order in one way
(`WordsAre`).  Then the machine, in two invariants.  `PlaceInv`: the
characters read so far are divided as the grammar divides them.  In every
state there is a start of a word and a start of a piece such that the buffer is
the word's text up to that piece, and what has been read of the piece is nothing
or a backslash or the beginning of a quoted string.  `ReadInv`: the words that
end by what has been read are those that have been returned, and the line ends
among them those that have been reported; one more has been read when its
separator has (`Counted`).  `ArgumentsReturned`, `LineEndsReported` and
`ErrorReported` follow; for the last the grammar has at most one malformed
piece, since nothing starts behind it, and the machine is in it when the input
ends or a newline comes.  `ArgumentsConveyed` proves `ConveysArguments`: an
input that writes a list of arguments is a sequence of segments
(`LineSegments`), and by induction on these (`SegmentsConveyed`) the first *n*
segments are the first *n* words, with the arguments as their text, because a
quoted string is one piece and an escaped argument one piece per character.
Arguments are C strings there, without NULs.

**Only model-checked** is liveness (`Exits`, for both modes), which is out of
the prover's reach: it needs fairness and ENABLED.

Assumptions on constants are named and state only their types (`Storage`: bytes,
capacities, strings; `SpaceTokenizer`: characters, argument lists, a marker that
is no string where there is none), with one exception: `CommandAssumption` says that the options of a command are
`Configured`, which the theorem above discharges.

## 5. Where the program and its documents differ

Kept as runs, each with a counterexample:

- **A lost signal** (`pool_lost_signal`).  `apply_signal_adjustments` reads each
  counter twice.  A SIGUSR1 in between is marked as applied and raises
  nothing.
- **The assertion of `reap_one`** (`pool_assert`) fails when phxargs inherits a
  child, as from a shell that starts a background job and then execs it.
- **Over the length without -x** (`appender_length`).  An argument too long for
  any command is an error when it comes first, and executed when it comes
  later: it flushes the command before it and is added to the empty one.
- **Over the length with -I** (`replacer_length`).  The check adds the line once
  to a command that still has its placeholders.
- **The worst status** (`pool_ranking`).  `severity()` ranks 127 and 126 highest;
  the man page ranks them lowest, below 123.  `StatusIsMostSevere` is about the
  code's order and `StatusAsDocumented`, which fails, about the documents';
  `PoolContract` holds to what they share.
- **Items read again** (`input_reread`).  A child that cannot execute its command
  calls `exit()`, which on a regular file moves the shared offset back by what
  its copy of the buffer holds.  `phxargs -n1 nosuchcommand < file` executes four
  commands for a file of three lines, and goes on forever for four or more.

Recorded as findings about cases that the passing runs reach:

- **-L, then -n** (`options_core`, `LastLimitWins`).  The last one wins, as the tests
  say; the man page (in "-n and -L together") has `-L` take precedence.  The
  property follows the code and the tests.
- **A replacement of SIZE_MAX bytes** (`storage_core`, `StaysWithinMemory`).  The size to
  allocate wraps to 0 and is overrun.  The property names this length as the
  only one, and requires that all others fit.

Seen while modelling, where the models follow the code and no run is kept:

- A child's exit with 255 counts when the child is *collected*.  With room in
  the pool nothing is collected, and commands are launched after such an exit.
- `-s` counts the environment too; the man page counts the command only.
- `-p` goes with `-P 0`, though not with `-P 2`.
- A command that has reached `-n` waits for the next argument before it is
  flushed; `ARCHITECTURE.md` has it flushed after adding.
- `-E` compares single arguments; `README.md` speaks of lines.
- A delimiter above 127 never matches where `char` is signed.  `storage_core`
  uses delimiters below 128.
- "Command too long" exits at once, leaving children behind, if it is found
  before the argument is added, and drains first if it is found after.
- A blank line as the answer to a prompt swallows the line after it.
- A child that meets `E2BIG` exits with 125, "internal error", which the pool
  maps to 123 like any failure of a command.
- SIGUSR1 raises the limit of 1 under `-p` too, although the options refuse `-p`
  with `-P` 2, and prompts then mix: `OnePromptAtATime` ends with the first one.

## 6. Not modelled

- The space tokenizer in memory, and the appender mode in `Program`: buffer,
  argument lists and children are the same code there.
- What a trace, a prompt or an error message says.
- Opening and closing the file of `-a`; tearing down the structures on the way
  out.
- Failing allocations below the limit of `Util`, which end the program at once
  wherever they happen.
- A signal that kills a child before its `exec`: to the pool it is a child
  killed by a signal, which is modelled.
- Overflow of the signal counters, after 2^31 signals.
- Tests, fuzzing harnesses, build files.

## 7. Plan

Done: the pool and its contract, the modes with the command and theirs, the
children, the input file, the tokenizers, memory, the options, and a theorem for
every safety property.  Next, in this order:

1. The default mode in `Program`.
2. The space tokenizer in `Storage`; of the proofs, `IsBuffer` and `Holds` are not
   about delimiters and can be used again.
