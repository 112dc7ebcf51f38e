# Models and proofs for AUP_Assignments

The repository holds about 35 small C programs written for a course on advanced
Unix programming. Most of them ask a question about the system interface and answer
it by a run: who gets a signal, in which order a tree of processes prints, what a
forked child inherits, how two threads share a buffer, where a write lands. One run
shows one interleaving and one input. This project models the programs in which several
processes, threads or handlers interact, or in which a sequence of calls acts on a state
the kernel keeps (offsets, descriptors, user ids, links), checks every interleaving and
every failing call of small instances with TLC, and proves with TLAPS what holds for
every size.

All programs are built by a plain unoptimised `cc` (the only build file,
`assignment_7/compile.sh`, serves one of them). Line numbers below and in the
modules' comments are those of the C file a module names in its header.

## 1. The system: components, state, operations

The programs do not call one another. Programs of one directory share techniques, and
`assignment_8/signal_process_group.c` is an extension of
`assignment_7/change_process_group.c`. The components, and what makes each correct:

| Component (source) | State | Operations | Interaction | Hard because | Correct when |
|---|---|---|---|---|---|
| Spinning producer and consumer (`test_pthreads/mutex_lock_unlock.c`) | `count`, `buf[5]` in main's frame, a mutex | `producer`, `consumer` (run by main) | shared memory | `count` is tested without the mutex (13, 28): a data race; main leaves by `pthread_exit` while the producer may still use main's frame; the result of `pthread_create` is ignored | each access is to a slot of a live buffer, each item is printed once, the loops end |
| The same with condition variables (`test_pthreads/condition_variable_mutex_lock_unlock.c`) | and two condition variables | the same | shared memory, signals of conditions | lost and spurious wakeups | as above, and no thread waits for ever |
| Halting counter (`test_pthreads/condition_variable.c`) | `count`, two mutexes, a condition | `functionCount1`, `functionCount2`, `main` | shared memory | the condition waited for changes under another mutex than the one of the wait; the end of the loop is tested without any mutex | no wakeup is lost, no value is printed twice, the overshoot is bounded |
| Process group of a cousin (`assignment_7/change_process_group.c`) | six processes, their groups, a FIFO | fork, setpgid, mkfifo, open, read, write | FIFO, process table | opens that block for each other, spinning on `open`, members that exit early, failing calls | process 5 joins a group that is complete, and the hand-over does not hang |
| Signalling the group (`assignment_8/signal_process_group.c`) | and shared memory, an alarm, handlers | and kill, alarm, mmap, munmap, `sig_usr1`, `sig_alrm` | shared memory, signals | the alarm races the store of process 5; handlers are installed late | only the group, and all of it, is signalled; process 0 ends |
| Fork and printf (`test_fork_printf_buffering/fork_printf_buffering.c`) | three processes, the buffers of stdout | fork, printf, wait, return | `wait`, the terminal | buffers are copied by fork; nothing but `wait` orders the output | each number once; the order `wait` guarantees |
| SIGCHLD and wait (`assignment_9/sigchld_wait_sync.c`, `sigchld_block_wait.c`) | child, pending signal, mask, handler | sigprocmask, fork, wait, `sig_chld` | signals | two calls of `wait` for one child; a handler that blocks | one `wait` gets the child; main ends |
| Exit statuses (`assignment_5/print_child_statuses.c`) | children, `pids` | fork, waitpid(WNOHANG), exit | process table | children end while they are asked; statuses wrap at 256 | each child reported once and truly; the parent never blocks |
| FIFO client and server (`assignment_3/client.c`, `server.c`) | the FIFO `america`, the pipe | mkfifo, open, gets, write, read | FIFO | opens that block, one side dying, reads that merge writes, empty lines | the server prints a prefix of the input, all of it if both return 0 |
| Pending signals and mask (`assignment_8/child_pending_signals_and_mask.c`) | two processes, their masks, pending signals and the variable `sigset` | sigprocmask, kill, sigpending, sigdelset, fork | signals, fork | mask and handlers are inherited, pending signals are not; a failed `sigprocmask` is only reported | no signal is lost, doubled or inherited; the reports are true |
| Orphaned group (`assignment_8/sighup_sigcont.c`) | who anchors the group, the child's handlers and signals | fork, signal, kill(SIGTSTP), `sig_hup`, `sig_cont` | signals from the kernel | the parent's exit races the child's stop; the group may be orphaned then, later or before | SIGHUP finds its handler, the child is not left stopped |
| Execution time and inherited buffers (`assignment_6/execution_time.c`, `inherit_ids.c`, `assignment_5/inherit_exit_handler.c`) | buffers of stdout, a clock | printf, fork, exit, gettimeofday, `exit_handler` | fork, a file or terminal | unflushed lines are copied by each fork; the microseconds wrap | each line as often as the forks copy it; times off by whole seconds only |
| Game (`assignment_7/game.c`) | real, effective and saved user ids, two files | `undo_setuid`, `do_setuid`, open, write, close | files of several players | the user is switched before each access; others truncate, create or own the files meanwhile | each file gets only turns taken as its user, in order |
| Files, offsets and holes (`assignment_1/append.c`, `truncate.c`, `rdwr.c`, `hole_in_file.c`, `assignment_6/child_file_handle.c`) | a file, an offset, O_APPEND | open, lseek, read, write, `mytruncate` | one process, or one writing through its parent's descriptor | reused descriptor numbers, gaps, off-by-one loops, a char or an uninitialised int compared to EOF, short writes | nothing else is overwritten; what is added is where it should be |
| Redirection (`assignment_3/redirect.c`) | the descriptor table | open, close, dup, scanf, printf | none | `dup` is relied on to give out one number; the output is written when main returns | reads the one file and writes the other if both are there and 0 and 1 were open, or fails |
| Path resolution (`assignment_2/realpath.c`) | links, two buffers, the list of names | readdir, readlink, `myrealpath` | the directory | targets are relative to where a link is; cycles; an uninitialised buffer | links within a directory are resolved, each listed once; it ends without a cycle |

The components that are not modelled, and why, are in section 7.

## 2. Modules

```
PthreadMutex ── PthreadCond                      BoundedBuffer (abstract)
     │               │                                 ▲ implemented by
     ├── BufferSection ──┬── SpinBuffer ───────────────┤
     │                   └── CondBuffer (PthreadCond) ─┘
     └──────────────── HaltCounter (PthreadCond)

GroupSection ──┬── ProcessGroup  ◄── implemented by ──┐
               └── SignalGroup ───────────────────────┘

MCChildren:  ChildStatuses, ForkPrintf, ForkBuffers, ElapsedTime
MCSignals:   SigchldWait, OrphanedGroup, ChildMask
MCFiles:     FifoCopy, FileOffsets, Redirect, Game, RealPath

theorems:    BoundedBuffer_proofs  SpinBuffer_proofs  CondBuffer_proofs  HaltCounter_proofs
             SignalGroup_proofs (and of ProcessGroup)
             MCSignals_proofs  MCChildren_proofs  MCFiles_proofs
```

* **PthreadMutex, PthreadCond** - the library calls, modelled from their use: an owner
  per mutex, a wait set per condition. `pthread_cond_wait` is two steps: it joins the
  wait set and releases the mutex at once, and returns with the mutex when it is
  no longer in the set. `pthread_cond_signal` wakes one waiter if there is any.
  `SpuriousWakeup` is an unsignalled return.
* **BoundedBuffer** - what both producer/consumer programs promise: a bounded stack of
  numbered items (the buffer is a stack, `buf[count - 1]` being read first).
* **BufferSection** - what both have inside the mutex (lines 15-19 and 30-34): write or read the
  slot, load `count`, store it, unlock, next iteration. All items are the character 'p';
  the model stores the number of the iteration so that properties can tell one from
  another, and no guard reads it. The mapping to `BoundedBuffer` is here.
* **SpinBuffer** - waits by spinning outside the mutex. The unlocked read is a data race,
  so what the build makes of it is chosen in `Init`: a thread in `hoisted` may have loaded
  `count` once, and then spins for ever if it finds its condition true. The run has all four builds.
* **CondBuffer** - waits on `notFull` and `notEmpty`.
* **HaltCounter** - `condition_variable.c`, with main's create and join. The two operands
  of `&&` and `||` (lines 30 and 47) are two loads, `count++` a load and a store.
* **GroupSection** - what assignments 7 and 8 share: processes 0..5 named by the numbers
  in the comments, `pc[p]` the call process p is about to make, `pgid[p]` its group
  (0 is the group all start in, otherwise the leader's number). A FIFO left behind by an
  earlier run exists or not. `open`/`creat` of a FIFO are an arrival and a return, since
  they block for each other; `read` may find the end of file, `write` may find no reader;
  an exited process stays a member of its group until its parent is gone. The
  constant `MayFail` names the calls whose error branch a run may take.
* **ProcessGroup** - assignment 7: everybody sleeps when through. `JoinsCompleteGroup` is in
  GroupSection, since it is about the variables both programs have.
* **SignalGroup** - assignment 8: processes 0, 3, 4 and 5 go on to the shared memory, the
  alarm, the handlers and the signal. A signal is delivered to a process wherever it is.
* **ForkPrintf** - both settings of the macro `NO_NEWLINE`, on a terminal; buffers per
  process, copied by fork, written out on return.
* **SigchldWait** - both programs (`program`), since they differ in the mask, the sleep
  and the handler's `wait`. The child may be stopped and continued by anybody, which
  generates SIGCHLD too. A process that is inside `wait` collects a child as it dies.
* **ChildStatuses** - `main` and its children; `StatusRange` stands for 256.
* **FifoCopy** - client and server. A line is its number; an empty line sends nothing.
* **ForkBuffers** - three programs that print, fork and print again without a flush. The
  parent of each is a list of what it does, `todo`, forks and the exit included; what
  `execution_time.c` does at each position of its list follows from the position. A line is a pair of what
  it says and the round or process it is of. Redirected to a file a
  line stays in a buffer until its process exits, and `written` counts how often it came out.
  Nobody waits: all interleavings of the exits are there.
* **ElapsedTime** - the clock and the differences of `tv_usec` that `execution_time.c`
  prints and sums. Any call may take any time up to `Longest`.
* **OrphanedGroup** - `anchor` is who keeps the group from being orphaned: the parent (run
  by a job-control shell), the shell (run in a script) or nobody. The kernel's rule, SIGHUP
  and SIGCONT for a group that becomes orphaned with a stopped member, is `OrphanGroup`.
  Handlers are a stack (`frames`): one may interrupt the other.
* **ChildMask** - `mask` is the kernel's, `sigset` the program's variable that it reports;
  `told` is what was printed, `taken` the handlers that have run.
* **Game** - several players, each with a process. `ids` are the three user ids,
  changed by `seteuid` or, without saved ids, `setreuid`. A file has an owner (or does not
  exist) and pieces, one per `write`: a line is three of them. A *turn* is a round and a part of
  its line, `SoFar` the turns a player has had, `info` which of the two names of line 57 is written.
  The owner of the program is taken not to play.
* **FileOffsets** - five programs with one file and one offset each (`main` says which).
  `Written` fills gaps with zeros. `odd` is what the build or the stack decides: whether the
  upper bytes of `rdwr.c`'s uninitialised `ch` are 1s, whether a char is signed. `Ends` are the places where
  `rdwr.c` may take the file to have ended.
* **Redirect** - the table of five descriptors, of which 0 to 2 may be closed at the start;
  `inherited` keeps what it was then.
* **RealPath** - a path is a sequence of names; locations are in the working directory
  or in one directory below, each a file or a link. `Relative` is what the code makes of a
  link's target; `Target` (the reference) what the kernel would, and `Reached(l)` where the links lead from
  `l` on within its directory: the smallest set closed under `Target`, in which the one place that is no link is what
  `l` resolves to.

**MCChildren, MCSignals and MCFiles** put programs that have nothing to do with each other
beside each other for TLC: the variables are disjoint, one program starts in its `Init` while the
others are in a state they may end in, and every step is one of the program that was started.
So a run checks each of them by itself, in the union of their state spaces.
The files and offsets of `FileOffsets` are constants of MCFiles (`Contents`, `Offsets`), and so are what links of
`RealPath` point to and what it is called with (`Targets`, `Arguments`); the cfg
gives them the values `MCContents`, `MCOffsets`, `MCTargets` and `MCArguments`, the theorems hold for all that satisfy
`FilesAssumption`.

In every module a definition carries the name of the function, call or variable it
stands for, and `PROJECT.json` gives the lines. A step is one library or system call, or one access
to shared memory; local computation, messages and layout are left out. Operators that
a comment calls a *mutant* are wrong versions of the definition that follows them;
nothing uses them. They name the mistakes the properties are meant to catch.

## 3. Runs

`tlc -config <cfg> <module>`; the constants are in the cfg files. `CHECK_DEADLOCK` is
off everywhere since all programs end (and CondBuffer hangs when its
producer could not be created); that none hangs otherwise is checked as liveness.

| Run (cfg) | States | Asks |
|---|---|---|
| `bounded_buffer` (MCBoundedBuffer) | 763 | does the abstract stack keep each item exactly once |
| `spin_buffer` (MCSpinBuffer) | 200968 | is each access safe (`AccessesAreSafe`), does the program implement the stack, do the loops end, or which does not when a build loads `count` once (`LoopsEnd`) |
| `cond_buffer` (MCCondBuffer) | 50700 | the same, `EverythingConsumed` for the loops, and `WaitersAreBlocked`: whoever waits while the mutex is free has its condition still true |
| `halt_counter` (MCHaltCounter) | 27296 | `OvershootByOne`, `HaltsButOnce`, `NoLostWakeup`, `AllPrintedOnce`, `Terminates` |
| `process_group` (MCProcessGroup) | 2312 | `JoinsCompleteGroup`: process 5 is in group 3 only after 3 and 4 are; `HandOverEnds`: once process 5 runs and process 3 has come to open the FIFO every process ends |
| `signal_group` (MCSignalGroup) | 25250 | `SignalsOnlyTheGroup`, `ReachesTheWholeGroup`, and that the group part is assignment 7 (`ImplementsProcessGroup`) |
| `signal_group_ends` (MCSignalGroupEnds) | 233530 | `Process0Ends`: the alarm frees process 0 whichever call of the other processes fails |
| `children` (MCChildren) | 12545 | `OutputIsRight`: the order 42301 without newlines, each number once, how often each line of the unflushed programs comes out, the times; `ReportsAreTrue`; `ProgramsEnd`; `TypesOK` |
| `signals` (MCSignals) | 229 | `OneWaitSucceeds`, `BlockedIsNotHandled`; `HangupIsHandled`; `SignalsStayHome`; `ProgramsEnd`; `TypesOK` |
| `files` (MCFiles) | 367087 | `CopyIsFaithful`; `FilesAreRight`: what the offset programs overwrite and add; `RedirectsOrFails`: the end is reached only if both files are there and 0 and 1 were open, and otherwise main fails; `PlayersTakeTurns`; `ResolvesLinks`; `ProgramsEnd`; `TypesOK` |
| `signal_group_handled` (MCSignalHandled) | violated | is SIGUSR1 always handled, as the comment at line 116 intends? No |
| `truncate_to_length` (MCTruncate, of MCFiles) | violated | does `truncate.c` truncate to the length it is given? No |

**Bounds.** The buffers and counters use the numbers of the code (5 slots, 9 items; 3, 6,
10), so those runs are the programs themselves. The process programs are
bounded by the code. `ChildStatuses`: 4 children and statuses modulo 3, so that a
status wraps while others do not. `FifoCopy`: 4 lines, any of them empty, the last with or
without newline: enough for two reads that each merge two writes, with an empty line
between. Its input is taken to have fewer than 100 bytes, see section 7.
`ForkBuffers`: 3 rounds of `execution_time` for 10: the count of a line is the number of forks
after it, and there are lines with none, one and more. `ElapsedTime`: 4 measurements, a second of
5 units, calls of up to 7: a second may begin not at all, once or twice within one.
`FileOffsets`: an empty file, one of 12 bytes, which ends between the regions of
`hole_in_file.c` and between the offsets 0, 5, 12 (its own size) and 15 of `truncate.c`, and one of 45 bytes,
longer than what `hole_in_file.c` writes; the last two have two bytes of 1s (one of them among the ten that `rdwr.c` skips), the last also a
zero. `Game`: the four rounds of the code, two players, all owners of `own` (up to the
names of the players) and `scores`, with or without permission to create them. `RealPath`: two names in each of two
directories, each a file or a link to either name, into the lower directory or out of it:
chains and cycles of up to four links.

**Failures.** `CreateMayFail`, `ForkMayFail`, `MaskMayFail`, `WriteMayFail` and `MayFail` let calls take
their error branch, in all runs but `signal_group_handled`; a write that fails may be short. When `read` fails
(line 42 of assignment 7) process 5 goes on with an uninitialised number; `signal_group`
excludes it, because what process 0 then signals is arbitrary. When `setpgid` of the child
fails process 3 goes on with an incomplete group; `process_group` and `signal_group`
exclude it, because their properties are about a complete one. `signal_group_ends` has both.

**What is conditional.** `EverythingConsumed` supposes that the producer was created, and `LoopsEnd`
states it of the builds that load `count` every time; of the others it says that each thread whose own loop does
goes on as far as the other lets it: a stale count stops nobody else. `Terminates` that functionCount2 was created;
`HandOverEnds` and `BothEnd` that the two ends of the FIFO get to it; `ResolvesLinks` and
`EndsWithoutCycle` that the links stay in their directory. None of these
conditions is one the code ensures: without a producer the consumer waits for ever, and
in assignment 7 process 5 spins for ever when process 3 failed before `mkfifo`.
`Process0Ends` has `Hoisted = FALSE`: `*shared_pgid_3` is not volatile, and a build that
loads it once spins on, alarm or not.

## 4. Fairness

* Threads (`SpinBuffer`, `CondBuffer`, `HaltCounter`): weak fairness for each thread, main
  included: the scheduler runs what can run. Acquiring a mutex needs no more, because every thread
  releases it and then has to wait for the other one sooner or later. Spurious
  returns happen, but not for ever (`<>[][no SpuriousReturn]_vars`): a thread woken again
  and again could otherwise win the mutex each time.
* Process trees (`ProcessGroup`, `SignalGroup`, `ForkPrintf`): weak fairness of `Next`. Every
  step moves a process towards its end and none is ever undone, so this amounts to
  fairness for each process. Spinning is not a step: the loop ends when its
  condition allows. Sleeps are untimed, and so is the alarm: it goes off at any time after it is set,
  or not before the number is there.
* `FifoCopy`: weak fairness for each process; the user's input does not pause for ever.
* `SigchldWait`: weak fairness for main with its handler and for the SIGCONT of a stopped child, strong
  fairness for the child's exit: a child stopped and continued again and again
  still gets to its exit.
* `ChildStatuses`: weak fairness for main only; the children may sleep for ever.
* `OrphanedGroup`: weak fairness for the parent, the child and the shell of the script: the
  program is waited for by nobody else. `ForkBuffers`, `RealPath`: weak fairness of `Next`, as
  every step brings a process or the loop nearer to its end.
* `Game`, `FileOffsets`, `Redirect`, `ElapsedTime` and `ChildMask` need none: only safety is stated.

`Punctual` is a timing assumption (no sleeper wakes before the FIFO was used), TRUE only in
the violated run, so that its counterexample does not need a ten-second delay.

## 5. Proofs

Checked by `tlapm` for every value of the constants; the only assumptions are the named ASSUMEs
of the modules, which TLC evaluates in the runs, and the hypotheses given below. A theorem's module
begins with the inductive invariant, one definition per question, and says in comments what each is for.

**BoundedBuffer_proofs** (assumes `MaxSize`, `Items` positive). `BBTypeCorrect` and
`ItemsExactlyOnce`: the conjunction of the type invariant with `NoDuplicates`, `NothingLost` and
`NothingInvented` is inductive; the step `Get` needs that the item removed is in no other slot.

**SpinBuffer_proofs** (any `MaxSize`, `Items` > 0, `CreateMayFail`, and whichever loops are hoisted). The invariant is not
inductive as it stands: the test of `count` is made before the mutex is taken. What
makes it hold is `Checks`: between the producer's test and its store
`count < MaxSize`, because only the producer raises `count`; likewise `count > 0`
for the consumer. `Exclusion` and `Registers` give that a loaded `count` is still
the current one when it is stored, `Balance` that `count` is the number of stored
increments minus the stored decrements, from which follows that the producer is through with
the buffer when the consumer has counted its last item (`SafeAccesses`).
`Refinement`: the initial state maps to the empty stack, `WriteSlot` to `Put`,
`ReadSlot` to `Get`, and everything else to a stutter; `StackPush` and
`StackPop` say how the mapped sequence changes. `PrintedExactlyOnce` puts the two together: what
`ItemsExactlyOnce` says of the stack holds of what the program prints.

**CondBuffer_proofs** (the same constants, spurious wakeups or not). The parts are SpinBuffer's, with
`Checks` from the test under the mutex, and `Waiters`: a thread in a wait set has its condition true, or the
other thread is just about to signal. That is inductive because the other thread changes
`count` only between its test and its signal, all under the mutex; `NoLostWakeup`
follows, as nobody is there when the mutex is free. `SafeAccesses`, `Refinement` and
`PrintedExactlyOnce` as above.

**HaltCounter_proofs** (assumes `COUNT_HALT2 + 1 < COUNT_DONE`, which 3, 6, 10 satisfy:
without it functionCount2 may finish without a signal). `IInv` has one part per
question: `Posts` (who is past its store when the counter is at or over COUNT_DONE) gives
`Overshoot`; `Wakes` (while functionCount1 waits, functionCount2 still has to cross
COUNT_HALT2) gives `WakeupsArrive`; `Halts` gives `OnceInRange`; `Prints` gives
`EachValueOnce`; `Registers` gives `IncrementsCount`.

**SignalGroup_proofs** (any set `MayFail` of failing calls). `GroupInv` is about the section both programs
share: who is born (`Births`), who is still in the old group (`OldGroup`), and that the new
one is complete as soon as process 3 goes for the FIFO or process 5 has met it there
(`NewGroupMade`). `JoinsGroup` follows for assignment 7. For assignment 8 it takes what
process 5 was told (`Told`), what process 0 has seen (`Checks`: a number it is about to signal is 3,
and process 5 has joined by then) and who was signalled (`Signalled`). A failing call
appears in the theorems where it matters, and only there: after a failed `setpgid` of the child the group
is incomplete (`JoinsGroup`, `ReachesGroup`), after a failed `read` the number is not
initialised and anything may be signalled (`SignalsGroup`, `ReachesGroup`, `Refinement`). `Refinement` shows
step by step that assignment 8 is assignment 7 with a tail: a process killed by SIGUSR1
or through with its own calls is one that sleeps or has left there.

**MCSignals_proofs** (all of `MCSpec`, so of all three components, any of their calls failing). `WaitInv`: the
call that has reaped the child is the only one to have succeeded, and with SIGCHLD
masked no handler has run and the signal stays pending. `OrphanInv`: the handlers are installed before the child can
be stopped, and between stop and end the signals, the stack of
handlers and the output go through a few `Stages`. `MaskInv`: which signals were `Sent`, which of
them the mask holds back (`Masked`), and, unless a `sigprocmask` failed, what was told
(`Reliable`, `Child`). None of the four properties is inductive alone: each says something of the end that
depends on what was pending or masked before.

**MCChildren_proofs**. `ChildrenAreReported`, for any number of children and any range of statuses: `StatusInv`
says which children each turn of the two loops has dealt with, and that a report is
as old as the last news of its child. `TimesAreOffByWholeSeconds`, for any length of a second and of
calls: `ElapsedInv` says that what the program has summed is short by one second for each wrap of the
microseconds, and that there were no more wraps than seconds.

`AllOutputIsRight` and `AllTypesCorrect` are about `MCSpec`, all four components. The times are those of `ElapsedInv`. For
`ForkPrintf`, `PrintfInv`: a parent that has waited has a child that has exited (`Chain`), so without newlines the output
is what 2, then 1, then 0 flushed (`AtTheEnd`), and with them each number is out once its process is past it (`AtOnce`).
For `ForkBuffers`, any number of rounds, `BuffersInv`: nothing is done twice, no line is seen before it is printed and no fork
comes after the last steps (`ToDoAndDone`, `WhatIsSeen`, `LastStepsLast`). While the parent of a redirected program
runs on, its buffer holds every line it has printed, so each further fork makes one more copy of each (`LinesOfParent`); what
a child prints only it holds (`LinesOfChildren`). The count alone is not inductive: that a fork raises it by exactly
one needs that no exited process and no earlier child gets the line again.

**MCFiles_proofs**. `CopiesFaithfully`, for input of any length: at each moment what was printed and what is in the pipe are
together the lines the client has dealt with (`SentInv`, up to `Handled`), and the server leaves its loop
only when the client has ended and the pipe is empty. `FilesStayRight`, for any file and any offset: `MovesInv` has a part for each program, saying what
is in the file at each call (`AppendInv`, `RdwrInv`, `ChildInv`), where the zeros of `truncate.c` are
so far (`TruncateInv`) and that the first `pos` bytes were copied without their zeros
(`CopiedSoFar`). Of `rdwr.c` that none of the `Ends` was passed. `RedirectsBoth`: which of the five descriptors are which file
at each call, all others being what they were, and what `main` knows to have been open once it is past a call (`ReachedInv`). `Redirect`
has no constants, so TLC's check is exhaustive there; the proof shows why it holds.

`TurnsAreTaken`, for any number of players at the same time (assumes `GameAssumption`: the owner of the program and the name for
a file without owner are not among the players). `PlayInv`: a player's effective user is one of two and can
always be switched back (`IdsAreRight`); a file that a player could not make is never made later, so that the owner of
an existing file does not change while somebody has it open (`OwnersAreRight`, `ProgressIsRight`,
`WritesAreRight`); what is in a file is at home there (`PiecesAreHome`) and in turn (`AllInTurn`). `Kept`
is the second half, that a player without opponents loses nothing. The property speaks of the owners of what is written, not of
open files, without which a write may go to a file of another.

`LinksAreResolved`, for any names, links and targets (assumes `PathsAssumption`: a target or an argument ends in the name of a file or
link). `PathsInv`: each entry is to come, being followed, listed once, or no link (`ListingIsRight`), and
as long as the links stay in one directory `buf2` is among what they have reached
(`FollowingIsRight`). The lemma `OneStep` is the heart of it: what the code puts together from the target is a path that the kernel
takes to the very place `Target` names.

`AllTypesCorrect`: type correctness of all five components under `MCSpec`, from the conjunction of the invariants (`FilesInv`).

**What stays with TLC.** Every invariant and every action property of the passing runs is stated by a theorem. Of their
properties only the liveness ones are not (`LoopsEnd`, `EverythingConsumed`, `Terminates`, `HandOverEnds`, `Process0Ends`,
`ProgramsEnd`): they are about fairness or a descending number, and the provers have neither `ENABLED` nor induction over
data. For the same reason nothing is proved of a recursive function beyond a fixed number of its values: `Walk` is computed for the paths of one and two components the code puts together while links stay in their directory,
which is all `LinksAreResolved` needs.

## 6. Findings

* `SignalIsHandled` (assignment 8) is violated: process 5 publishes the group's number
  (line 119) before it installs its handler (122), and 3 and 4 install theirs at their
  leisure, so SIGUSR1 may kill a member that was meant to handle it.
* `TruncatesToLength` (assignment 1) is violated: `truncate.c` never shortens a file, and makes a
  shorter one a byte longer than the offset (lines 20 and 37). `FilesAreRight` states what it does.

Seen in the states of passing runs, with no run of their own yet:

* `sig_alrm` stores -2 (line 30 of assignment 8) even if process 5 has just stored the number,
  although its comment says the value has not changed then; process 0 then signals nobody.
* Process 5 may find -2 at line 111; the comment expects -1 and asks.
* The last `printf` of process 0 reads unmapped memory (274): it dies before `sleep(10)`.
* With newlines `fork_printf_buffering.c` need not print 0 2 4 3 1; `wait` orders only the
  second numbers.
* The comment in `client.c` (46) that a write waits for the read does not hold.
* The comment of `redirect.c` (35) asks why the output goes to the file: it is in the buffer until
  main returns, and descriptor 1 is the file by then.
* `rdwr.c` may overwrite data (line 33 compares an int of which `read` has set one byte), and
  `hole_in_file.c` may stop early where a char is signed.
* `game.c` names its users by constants (line 57): the lines of `own` say niramay whoever plays, and without the
  set-user-id bit all lines say temp.
* `realpath.c` misreads links that leave their directory, and prints what it finds in an uninitialised
  buffer for an argument that is no link.
* `execution_time.c` prints negative times when a second begins during a call, and its title
  eleven times when redirected.

What turned out right although the code looks otherwise: the unlocked tests of the
spinning buffer; `append.c`'s `lseek` on a closed descriptor's number; the wait of `condition_variable.c` with the "wrong" mutex (only because
of the distance between its constants); the buffer in main's frame.

## 7. Not modelled

Programs that print what one call returns (`times.c`, `print_file_info.c`, `files/temp.c`, `umask.c`,
`check_posix_version.c`, `is_symlink.c`, `test_file_create/temp.c`, `unlink.c`, `writebuf.c`,
`print_env_var.c`, `remove_env_var.c`): they keep no state a model could tell apart. Which
variables of `all_variable_types.c` and `variables_jmp.c` keep their values over `longjmp` is
decided by the compiler's registers, not by the code.

Inside the modelled programs: formatting, `perror`, the ids printed, real time, `open` and `close` of plain
files where a failure only ends the program before or after everything.

* `server.c` reads up to 300 bytes into an array of 100: what it does with more than 99 unread
  bytes is undefined, so the model's input is shorter; nor can it fill the pipe then.
* `ForkPrintf` is on a terminal, not redirected to a file (ForkBuffers has both).
* `SigchldWait` and `ChildMask` leave out the error exits of calls on signal sets, which cannot fail
  with the arguments they are given, or end the program before anything happens.
* `Game`: no player is root, no disk is full, no line is read by a player.
* `RealPath`: the paths put together fit their buffers (`strcat` onto `dirname(strdup(...))` does
  not see to it), the entries `.` and `..`, which are no links, are left out, as is `argc > 2`, where `str` is not initialised.
* `FileOffsets`: the two files of `hole_in_file.c` are different ones; the output of `od` is left out.
* `ElapsedTime`: the sums are exact (they are floats), and the clock is not set back.

## 8. Plan

The threads came first (the most used and the hardest to test), then the process tree of assignments 7
and 8, then the single programs; then the proofs, in the same order. All of that is in place: each safety property
has its theorem. What could be added:

1. The hand-over of the FIFO in assignment 7 as an abstract specification of its own: two processes that meet, of which
   either may fail. `HandOverEnds` says it of the program only.
2. Inputs of `server.c` that fill the array to its last byte, once it is settled what the program should do with longer ones.
3. The liveness properties for every value of the constants, with a prover that has `ENABLED` and induction.
