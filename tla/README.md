# TLA+ models of the XDS Modula-2 system

The repository is the XDS Modula-2 / Oberon-2 compiler with its run-time
library, linker, debugger and tools. The modules in this directory specify the
parts of it in which the order of things is hard: the run-time library's
processes, semaphores and threads, the linker's collection and layout of
segments, and the debugger's event loop on Linux. TLC checks each module on
small instances; TLAPS proves their safety properties for every value of the
constants (section 5 says under which hypotheses).

Paths are relative to `src/Sources/Lib/src/` unless they begin with `xLink/` or
`Debug/`, which stand for `src/Sources/xLink/src/` and `src/Sources/Debug/src/`.

## 1. The system

| part | state it keeps | operations | interacts with |
|---|---|---|---|
| scheduler, single-thread (`isoimp/Processes.mod` 233-561, `lib/XPrs.def`) | ready ring from `prs.current`, descriptors, `events`, `hcnt`, `corpse` | Create, Start, StopMe, SuspendMe, Activate, SuspendMeAndActivate, Switch, Wait, Attach, Detach, Me | coroutines (`TRANSFER`), exceptions, HALT |
| coroutines (`xr/x86/xrnCoroutines.mod`, `syslib/COROUTINES.mod`) | current coroutine, saved contexts, ring of all coroutines | NEWPROCESS, TRANSFER, IOTRANSFER, PROTECT | scheduler, collector |
| semaphores (`isoimp/Semaphores.mod`) | count, ring of claimers' items | Create, Destroy, Claim, Release, CondClaim | scheduler (SuspendMe, Activate, Me) |
| threads, multithread (`Processes.mod` 7-231, `xr/xrThreads.mod`, `os/*/xosThreads.mod`) | ring of threads under `plock`, ring of coroutines under its own lock | creation, registration, PrepareToGC, FreeAfterGC | system threads, collector |
| synchronization, multithread (`os/POSIX/xosThreads.c` under `Processes.mod` and `Semaphores.mod`) | recursive mutex, event per process, count and waiters of a semaphore | EnterMutex, ExitMutex, SuspendMe, Activate, Claim, Release, CondClaim | pthread mutexes and conditions |
| exceptions (`xr/xrExceptions.mod`, `syslib/EXCEPTIONS.mod`) | handler stack per coroutine, a message and a lock per source | RAISE, TRAP, XON, XOFF, XREMOVE | every part of the library |
| termination (`syslib/TERMINATION.mod`, `os/*/xosExit.mod`) | FINALLY list, buffer of exit procedures, "already exiting" | FINALEXE, atexit, HALT, doexit | every part that registers an exit procedure |
| channels and devices (`isoimp/IOLink.mod`, `lib/xDevData.mod`, device modules) | device table of a channel, ring of open files, buffer and position of a file | MakeChan, Look/Read/Write, SetPos, Flush, FlushAll, Close | termination (FlushAll), locks |
| memory (`xr/xrMM.mod`, `xr/xrO2MM.mod`, `xr/x86/xrBlockManager.mod`) | block map, free lists, mark bits, anchors | allocate, dispose, COLLECT | threads (stop and resume), coroutines (stacks) |
| linker (`xLink/struct.cpp`, `link.cpp`, readers and writers) | files, segments, fixups, names, exports, collections, section images, `Fix` | NewFile ... NewExport, PrepareSections, CreateImages, the writer of an image format | object files, `.exe` and `.dll` files |
| debugger, Linux (`Debug/xd_386/Linux/Krn_Prog.mod`, `linux_layer/*.c`) | list of threads, queue of events, `last_signaled_thread`, flags; Krn_Prog's table of threads | wait_for_debug_event, continue_debug_event, stop_all_threads, Execute, RestartProgram | ptrace, signals, waitpid, thread_db, the loader |
| debugger, remote (`Debug/xd_rmt`) | queues between client, kernel and target agent | requests and events over a connection | VxWorks tasks |
| debugger, the rest; profiler; compiler (`src/Sources/Comp`); `xLib`, `xDasm`, `xRC`, `h2d` | documents, programs, object files | batch runs, commands of a user | none at run time of a program |
| utility libraries (`vterm`, `TSlibs`, `ulib`, `pimlib`, `clib`) | their own | | sequential users of the parts above |

Which behaviours are hard:

* **order of calls.** The single-thread scheduler is a coroutine scheduler:
  nothing runs concurrently, but every call may put another process in control,
  which may call anything before the first goes on. Its ring, the saved
  coroutine of each descriptor, the deferred disposal of a stopped process and
  the urgencies must agree after every sequence of calls by every process.
* **ownership handed over.** Release gives a unit to a claimer that will run
  only later; the link that makes it known is in the claimer's stack.
* **true concurrency.** In the multithread library an activation is a system
  event, threads register themselves while others collect garbage, two locks
  order registration, unregistration and the stop of the world, and the
  recursive mutex of POSIX asks who owns it without holding a lock.
* **a program under observation.** The debugger stops the threads one after the
  other while the rest of them run, hit breakpoints, create threads and end; a
  signal of its own and the event it is looking for are told apart by guesswork.
* **recursion over shared data.** The linker marks segments by a recursion that
  resolves names, creates segments and counts relocations on its way, from
  several roots and in an order given by the files.
* **failure.** Failing assertions, exceptions that leave Claim half done,
  threads that cannot be created or stopped, blocks that the system refuses.
* **termination.** Exit procedures that end the program again.

What makes each part correct: the ready ring is exactly the ready processes;
the process in control is a most urgent one and the one `Me` names; a stopped
process never runs; units of a semaphore are conserved and handed out in order;
nobody starves in a program that goes on; every other thread is stopped while
the collector runs; at most one thread is inside a mutex and no activation and
no unit is lost; the image of a link is closed under references, nothing in it
overlaps, and every relocation is listed once; every breakpoint hit is shown to
the user, and while he looks no thread runs but one that sleeps uninterruptibly
(state D) when the debugger comes to stop it. For the parts not modelled: every
registered exit procedure runs once; a buffered file is an unbuffered one.

## 2. The modules

```
Dispatcher          what a scheduler promises: a most urgent ready process runs
   ^ implemented by (D == INSTANCE Dispatcher, property Dispatches)
Processes           the single-thread scheduler over coroutines
   ^ EXTENDS              ^ EXTENDS             ^ EXTENDS
Semaphores          MCProcesses           ProcessesProofs (TLAPS)
   ^ EXTENDS      ^ EXTENDS                  ^ EXTENDS
MCSemaphores      MCExchange              SemaphoresProofs (TLAPS; EXTENDS Semaphores)
                  (a closed program)

Threads             threads of the multithread library and the collector
   ^ EXTENDS
ThreadsProofs (TLAPS)     the locks, the rings and the collector's walks

PosixThreads        mutex, events and semaphores of the library on POSIX
   ^ EXTENDS
PosixProofs (TLAPS)

Collect             the linker: reading, resolving and marking
   ^ EXTENDS            ^ EXTENDS
Linker              CollectProofs (TLAPS)        the image is closed
   ^ EXTENDS           ^ EXTENDS
MCLinker            ReachProofs (TLAPS)          and no larger than asked for
                       ^ EXTENDS
                    LinkerProofs (TLAPS; EXTENDS Linker)   its layout, fixups and relocations

LinuxDebug          the debugger's event loop on Linux, the program and the kernel
   ^ EXTENDS
DebugProofs (TLAPS)
```

`Linker` is the second half of a link (order, addresses, images, relocations)
with what should be true of its output; `MCLinker` has families of small links.

### Processes

| variable | in the code |
|---|---|
| `ring` | the ready ring, as the sequence from `prs.current` along `fwd`; `<<>>` is `prs.current=NIL` |
| `state` | `p^.state`; `"free"` when there is no descriptor, or its magic has been cleared |
| `body` | `p^.body`, the coroutine to which GoNext transfers to run `p` |
| `events`, `hcnt` | `events`, `hcnt` |
| `corpse` | `corpse`, the stopped process whose stack the next arrival in GoNext frees |
| `cor` | `cor.CURRENT()` |
| `started` | which coroutines have been entered: one that has not is entered by `execBody` and does not come back into GoNext |
| `status` | running, halted by HALT, or ended by a failed ASSERT or TRAP |
| `stopped` | history: who has called StopMe and is not disposed of yet |

A descriptor and its coroutine share a name but not a variable: `body` and
`cor` hold coroutines, `ring` and `corpse` descriptors, so that the model can
say that the wrong coroutine runs as a process.

One action is one call of the interface, from the caller's user code to the
next user code that runs. That is the code's atomicity: control leaves a
coroutine only in GoNext, and the interrupts that the LISTENs would let in
cannot be installed on any target (`os/*/xosIpts.mod`). `Tied` is Tie: the
search for the slot as two predicates on positions (`IsMin` for the first loop,
`IsNotBelow` for the second) and the insertion with pre-emption (`Insert`);
`Tied` is empty when an ASSERT of Tie fails. `GoNext` is the code's GoNext with
TRANSFER, the arrival of the other coroutine, and the disposal of the corpse by
one that had been in control before. `TieAndGo` is the pair as Activate, Switch
and SuspendMeAndActivate use it. The order of UnTie, Tie and their assignments
is kept: `UnTieBody` and `TieBody` write `body` at the descriptor that is
`current` at that moment.

Abstracted: workspaces and their sizes, the process parameter and `info`, the
texts of exceptions, the out-of-memory branch of Create. A failed ASSERT or
TRAP ends the model's run (`status = "trap"`); a handler in the program could
go on from there, in a state the library did not intend. Calls with an invalid
or disposed identity, which the code partly detects, are not made. `Activate`
of a ready process and `SuspendMeAndActivate` of another ready one return at
once and are steps that change nothing.

`Spec` has the whole interface; `CoreSpec` leaves out SuspendMeAndActivate and
Switch, because of the finding `hand_off` below.

### Dispatcher

Two variables, the ready set and the process in control, and two actions:
`Admit` (somebody becomes ready, and takes control if it is more urgent) and
`Yield` (the one in control leaves, and any of the most urgent remaining ones
follows). `Dispatches` maps `ready` to the processes in state ready and
`running` to the coroutine in control, so it says that the ring, the saved
coroutines and the corpse never show.

### Semaphores

`cnt` and `lst` are the descriptor's fields; an item of the list is a record in
the stack frame of a Claim and is represented by its process. `live` is the
magic number. `claiming[p]` says in which Claim the stack of `p` is suspended,
`destroying[p]` in which Destroy; they are the program counters of the two
operations that can lose control in the middle. `owed` is history: units put in
by Create and Release minus those with which Claim and CondClaim have returned.

Claim calls SuspendMe and Release and Destroy call Activate of `Processes`;
`Resume` lets the process that gains control return from its Claim in the same
step. Destroy takes one step per turn of its loop, since each Activate may hand
control to a more urgent claimer. If the first item's frame is dead
(`FrameAlive`) the code reads whatever the stack holds now; the model does not
go on from there.

`SemSpec` is the discipline under which the properties hold: the program does
not itself activate a process that is blocked in Claim, and does not block in
Claim when that raises passiveProgram. Without the first half, a claimer that
somebody activates returns from Claim without a unit (`Semaphores.mod:186`):
that is `OpenSpec`, which no run checks.
`MaxUnits` bounds the units outstanding, in Create's count and in Release.

### Threads

The multithread library runs on real threads, so here an action is one step of
one thread and all interleavings are explored. A critical section is entered
in one step and left, with its effect, in another; the code between two locks
is one step where only the thread itself can see it.

| variable | in the code |
|---|---|
| `pc` | where each thread is in `startThread`, the program, `X2C_DeleteISOProcess` or `COLLECT` |
| `prs`, `ring` | the ring of threads from `prs`, the ring of coroutines from `ring`, along `fwd` |
| `owner` | who is inside `lock_a` (the heap), `list_lock`, `plock` |
| `stopped` | threads suspended by `X2C_SuspendThread` |
| `noGC` | threads with `X2C_no_GC` in `tags` |
| `child`, `signalled`, `activated` | the handshake of creation: `controll1` waited for and set, `controll` set |
| `at` | `t`, `ct` or `c` of the collector's loops; one variable, since only the owner of the heap collects |
| `back` | `p` of the loop that resumes the stopped ones when X2C_SuspendThread has failed |
| `stuck` | history: the threads for which ResumeThread failed where its result is not looked at |
| `scanned` | history: the coroutines MarkStack has visited |

`Life` is a thread from `startThread` to its disposal, `AnyUser` what running
programs ask for, `Collector` one step of PrepareToGC, MarkStack or FreeAfterGC.
`Fwd` of an element that has left its ring is NIL, as Unregister leaves it.

The collector works on threads that run, so nothing it does to one is atomic
with what it read of it before:

* the test of a thread's tags (`xr/xrThreads.mod:289`) is `NextThread`, its
  suspension (290) `SuspendThread`; at `"hits"`, between the two, the thread may
  mark itself, and is then suspended though it is marked;
* the loop that resumes the others after X2C_SuspendThread has failed (292-297)
  is one `Undo` a turn, over `back`. On each turn it tests the tags of the thread
  that could *not* be suspended, which runs; at its end (`UndoEnds`) the ring of
  coroutines is unlocked, and the collector traps inside `plock` and the heap;
* the loop after GetThreadContext has failed (316-322) runs without `plock`. A
  turn is `FreeNext`, which resumes a thread, and then `Steps`, which reads its
  `fwd`; in between that thread may end and unregister, and `fwd` is NIL.
  FreeAfterGC is the same pair, Resume and `Steps`.

The collector's final places are `"lost"` (a walk over a ring that came to NIL),
`"astray"` (a loop that resumes came to NIL), `"refused"` (X2C_SuspendThread
failed), `"trapped"` (GetThreadContext failed) and `"strands"` (ResumeThread
failed in FreeAfterGC): what a handler of the program might do with the heap
still locked is not modelled.

Abstracted: one coroutine per thread; the registers and stack bounds that are
copied (`reg_dsize`, `stk_end`); NEW inside X2C_CreateISOProcess, which is an
Allocate that comes first; the failing system calls of creation; the end of the
main thread, whose descriptor has no `default` to unregister. SuspendThread
takes effect at once. Critical sections are those of `os/w95/xosThreads.mod`.

`Spec` has careful programs: a thread marks only itself X2C_no_GC, for good,
and then no longer creates or activates others. `OpenSpec` has all programs, in
which SetGCAware's unlocked write of `tags` (`lib/XProcesses.mod:23`) lets a
thread run on in a collection that has passed it over; the definition says that
the collector "must suspend all threads" but the inaware ones
(`lib/XProcesses.def:7-9`).

### PosixThreads

`os/POSIX/xosThreads.c` below the multithread halves of `Processes.mod` and
`Semaphores.mod`. What stands between pthread_mutex_lock and _unlock of an event
or a semaphore is one step. The recursive `X2C_Mutex` is not so simple: it reads
`m->count` and `m->thread` without the lock to find out whether its caller is
already the owner, so every access to the two fields is a step of its own.

| variable | in the code |
|---|---|
| `at` | where each thread is: `"user"`, or in Enter/ExitMutex, SuspendMe or Claim |
| `mutex`, `thread`, `count` | the pthread mutex's owner, `m->thread`, `m->count` |
| `depth` | history: how often each thread has entered |
| `state` | `X2C_BSemaphore_struct.state` of each process's event `controll` |
| `units`, `waiters` | `count`, `waiters` of the semaphore |

SuspendMe is two steps, reset and acquire; SuspendMeAndActivate is Activate and
then SuspendMe, although `isodef/Processes.def:51` calls it "an atomic
sequence"; Release signals one of the queued claimers, and a claimer that is
signalled finds out when it has the lock again whether the unit is still there.
pthread_cond_wait may return for no reason (`SpuriousWakeup`). Left out: Wait
and SyncThreadState (ENOSYS here), suspension by SIGSTOP (it stops the whole
process), creation and deletion. CondClaim's `NOT awa` is right on POSIX, where
`awa` is `count == 0`, and wrong with the Windows layer's meaning of it.

### Collect and Linker

`Collect` is the front half of a link. Its readers' actions take the records of
the object files one by one (`input`), one action per kind: NewFile, NewSegment,
addFixup, setEntryPoint, NewPublicName, NewCommonName, NewImportName,
NewWeakName, NewExport. `ReadingEnds` is the check of `Link()` after reading.
Then CollectSegments and CollectFixup recurse over the fixups with an explicit
`stack`: a frame is a segment and a place in it, segment 0 stands for the caller
and holds the entry point. ResolveForward ... ResolveAbsolute are the branches
of resolveFixupTarget, one name of its loop per step (`lookup`);
CollectDescriptor, CollectExternal and CollectAddresses the hack for COFF
imports; EntryFirst, ExportNext, ExportsEnd and the All... actions are
PrepareSections and CollectAll.

| variable | in the code |
|---|---|
| `files`, `segs`, `fixups` | `FileList` and what hangs on it; `fixups[0]` is `EntryPoint` |
| `names`, `used` | the name table and `K_USED` |
| `exports`, `todo` | `Exports`, and what PrepareSections has not come to |
| `pc` | where `Link()` is; `"aborted"`: an ASSERT, a NULL or a fatal error, `"ended"`: errors were reported |
| `marked`, `stack` | `sf_processed`, the C stack |
| `walk` | CollectAll's file, in it or not, `changed` |
| `errors`, `NFixups` | names reported, relocations counted |

`Linker` is the back half: AddCollection and OrderSegments (groups of segments,
sorted or not), CalcAddresses (a section per step, with import jumps and the DLL
table), CreateCollectionImage, ProcessFixups (values stored, relocations listed
in `fix`) and SortFixups with its ASSERT. The image is a PE one. Each link is
deterministic, so the state space is the sum of the inputs of `MCLinker`.

Where the code ends the link on a check, the model goes on at three points: at
the second visit of an import's fixup, which ends in xFATAL (`xLink/struct.cpp:453-456`),
at a second entry point (470), and for a program, not a library, that exports but
has no entry point (`xLink/link.cpp:113`). All exports count, as they do unless an
export definition file asks for its own only (`xLink/struct.cpp:1054`).

Abstracted: texts of segments (a fixup's value is kept under its segment and
number, and the number stands for its offset), characters of names (`dollar` are
those after `.idata$`), the balanced tree of exports and ordinals. Absolute
segments, to which readomf0.cpp gives the alignment 0, are not modelled.

### LinuxDebug

ProcessEvents of `Krn_Prog.mod` over `linux_layer/inferior.c`, `thread.c`,
`events.c` and `linux-low.c`, with the kernel and a program. Every thread of the
program is a process to the kernel (LinuxThreads) and runs between the
debugger's system calls, so each of these is a step while threads run.

| variable | in the code |
|---|---|
| `os`, `pend`, `report` | kernel: state, pending signals and uncollected wait status of each thread; state D is `"disk"` |
| `pc`, `msg`, `lib` | which planted int 3 a thread stands at, thread_db's message, the loader's change |
| `threads`, `expired`, `last_status`, `last_signal` | `proc_info->threads` and the fields of `thread_info` |
| `events` | the static queue of inferior.c |
| `last`, `dead`, `check`, `singlestep` | `last_signaled_thread`, `current_thread_is_dead`, `check_events_again`, `singlestep` |
| `phase`, `at` | where the debugger is, and its position in stop_all_threads |
| `passed` | history: the threads stop_all_threads found in state D and has not come to since |
| `known`, `handle` | Krn_Prog's table and `H_Thread` |
| `owed`, `usr` | history: hits not yet shown; what became of a signal sent by another program |

WaitForEvents, CollectEvent and NoMoreEvents are wait_for_events_internal; Look,
Kill, Collect and AllStopped are stop_all_threads with ensure_stopped;
WaitForDebugEvent is wait_for_debug_event with proceed_event, one action per
result (Exited, ThreadCreated, BreakpointHit, Signaled ...), followed by what
ProcessEvents does with it; Go, Step and GoOn are continue_debug_event. The
local `events` that `events.c:88` does not initialize is `WaitWithGarbage`, which
may end the debugger.

The kernel is that of 2.6 and later, where the SIGTRAP the debugger sends and
that of an int 3 are both delivered. (On 2.4 they merge, and a hit between
get_proc_state and kill would be lost; on 2.6 it survives only because the
pending SIGTRAP stops the thread again at the same place.) The model assumes
that the thread library is connected from the start, that only the main thread
creates threads and loads libraries, and that a new thread waits until its
creator goes on. Left out: re-execution and system call events, the
cache of segments, SIGCHLD of the main thread taken for its exit
(`inferior.c:646-648`), a SIGTRAP of a thread in state D taken for its end
(`inferior.c:711-723`), search_for_unregistered_threads (`inferior.c:928-935`).

A thread of `Sleepers` may fall into an uninterruptible sleep whenever it runs,
and wakes up of itself (`Sleep`, `Wake`); no signal reaches it meanwhile.
ensure_stopped has no case for state D (`thread.c:710-810`): Look and Kill
neither signal such a thread nor wait for it, and go on to the next. It stays in
the list, sleeps or runs on while the user looks (`passed`), and is left alone
by resume_all, "ignore state 'D' for a while" (`thread.c:873`).

`Careful` is the discipline under which the properties hold. The user neither
steps nor restarts while events are queued, nor steps while a thread runs that
was passed over in state D; no thread ends in, or just before, a step; and a
thread that was passed over neither stops nor ends before the others go on.
Without it: the finding `step_queued`; a restart with a queue that points to
freed thread_infos breaks NeverFails (`inferior.c:904`); the end of a thread
that is being stepped leaves ProcessEvents waiting for ever; and a thread that
was passed over, wakes up and meets a breakpoint is found stopped by resume_all,
which continues it (`thread.c:865`) without having read its status, so that the
hit is lost and HitsKept fails.

## 3. What TLC checks

| run | instance | states | properties |
|---|---|---|---|
| `processes` | Spec, 3 processes of urgencies 0, 1, 2, 2 sources | 31 428 | TypeOK, RingIsReady, HandlersCounted |
| `preemption` | CoreSpec, 4 processes, one of them more urgent, 2 sources | 69 753 | MeIsCaller, StoppedNeverRuns, AssertionsHold, Dispatches, NoOvertaking |
| `semaphores` | SemSpec, 3 processes, one more urgent, 1 source, 2 semaphores, 2 units | 52 096 | WaitersBlocked, UnitsConserved, NoIdleUnit, FirstComeFirstServed |
| `exchange` | 3 makers, 1 taker, 2 semaphores, 1 place | 253 | EveryoneIsServed, no deadlock |
| `threads` | Spec, main and 2 threads, one may be tagged, failing system calls | 87 344 | TypeInvariant, LocksHeld, MutatorsStopped, NoLockStopped, StacksScanned, Resumed |
| `posix` | Spec, 3 threads, nesting 2, 2 units | 152 395 | TypeOK, Exclusion, NoIdleUnit, OnlyActivated, ActivatedRuns, ClaimersServed |
| `linker` | LSpec, seven families of small links | 31 839 | TypeOK, Closed, TakenAsAsked, FixNeverOverrun, Apart, ImagesMatch, RelocationsComplete, NamesAgree, Ends |
| `debugger` | Spec, 3 threads, one may fall into state D, Careful | 477 994 | TypeOK, NeverFails, NobodyRuns, HitsKept, SignalKept, HitShown, no deadlock |
| `unlocked_walk` | Threads' Spec, 3 threads, no tags, no failures | violation | NoLockNeeded |
| `hand_off` | Processes' Spec, 3 equally urgent | violation | MeIsCaller |
| `weak_external` | LSpec, a weak external nobody defines | violation | LookupEnds |
| `step_queued` | LinuxDebug's Spec, Careful FALSE | violation | HitsKept |

*RingIsReady*: the ring has the ready processes, each once. *HandlersCounted*:
`hcnt`, on which the test for a passive program relies, is the number of
associated sources. *MeIsCaller*: the running coroutine is that of the process
`Me` returns. *StoppedNeverRuns*: no process that can run leads to a stack that
is or will be freed. *NoOvertaking*: among equals nobody moves away from the
head of the ring. *AssertionsHold*, *Dispatches*: urgency, the second as an
implementation of Dispatcher. *WaitersBlocked*: as long as no
assertion has failed, the list of a semaphore is exactly the processes suspended
passive in Claim on it. *UnitsConserved*: every
unit is in the count, on its way to a claimer that is ready, or returned with.
*NoIdleUnit*: nobody waits for a unit that is there. *FirstComeFirstServed*:
claimers leave in order. *EveryoneIsServed*: in the closed program everybody
gets in again and again.

*MutatorsStopped*: while the collector walks the rings, every other thread of
the program that is to be stopped is stopped, also one that registers during
the walk. *NoLockStopped*: nobody is suspended inside a critical section.
*LocksHeld*: the locks are held by exactly the threads inside, on every path.
*StacksScanned*: MarkStack has visited every stopped thread of the program
although others joined and left the ring meanwhile. *Resumed*: a stopped
thread runs again, on the error exits too, except in the ways `LeftBehind` lists,
and these are ways in which the code does leave it suspended: it marked itself
between the test of its tags and its suspension (289-290), so that every loop
that resumes skips it; ResumeThread failed for it, or, in FreeAfterGC, for one
before it; the collector came to NIL in a walk without a lock (321, 348, or in a
ring before); or the thread that could not be suspended marked itself while the
others were being resumed by *its* tags (293).

*Exclusion*: at most one thread is inside the mutex, and `m->thread`, `m->count`
are right about it whenever it matters. PosixThreads' *NoIdleUnit*: units left
while claimers sleep have an awakened claimer on its way. *OnlyActivated*:
SuspendMe returns only if an Activate came since its reset. *ActivatedRuns*: and
then it does return. *ClaimersServed*: a claimer gets in, or the units go to
others.

*Closed*: no segment of the image refers to one outside of it. *TakenAsAsked*: a
smart link takes nothing but what the entry point and the exports require, in
the sense of every self-contained set of segments; other files are taken whole.
*FixNeverOverrun*: `NFixups` counts at least the relocations passed. *Apart*:
segments and jumps are aligned, inside their sections, and disjoint.
*ImagesMatch*: the second layout, of the images, agrees with the first, of the
addresses. *RelocationsComplete*: `Fix` lists every stored address and jump once
and in order. *NamesAgree*: what a fixup to a name stores is the address that
the name is exported with. *Ends*: the link comes to an end, unless a weak
external falls back on itself.

*NeverFails*: no ASSERT of Krn_Prog or of the layer fails and no stale
thread_info is used. *NobodyRuns*: while the user looks, every thread stands,
those created since the last event included, but one that stop_all_threads found
in state D; `thread.c:814`, "ensures they are in T (traced) state", would have
none excepted, `thread.c:873` says that D is ignored. *HitsKept*, *HitShown*:
a hit waits where it is until it is shown, and is shown in the end. *SignalKept*:
a signal from another program is in exactly one place on its way.

**Bounds.** Three ring elements are the least for which the position before and
after the current process, and in which UnTie's successor and Tie's target,
are different processes; four give a ring with an inner element that neither
end touches, and a stop with a corpse, a new arrival and two bystanders. Names
are re-used after disposal, so the number of processes over time is unbounded.
Two sources distinguish "this one" from "another one". Two semaphores let a
process hold one and wait for the other; two units are count zero, one, and a
count that is not one. `semaphores` has also been run with four processes
(876 750 states).
Three threads are a collector, one that comes or goes meanwhile, and one that
is stopped; threads are created and disposed of without end. On POSIX three
threads are an owner, one in the middle of entering and one that overtakes, or
two sleeping claimers and one that takes the unit first; `MaxDepth` 2 is a
nested section, `MaxUnits` 2 a second unit while the first is on its way.
The families of links are: references of every shape between three segments of
two files, smart or not, library or not, exported or not; one name declared
twice in every pair of ways; import libraries with well-named and misnamed
sections; exports of one name from several sources; segments exported as well as
referred to; all sections with groups, 16-bit code, imports and forwards; and
empty programs. Two files distinguish the pass of CollectAll that changes
something from the one that does not.
For the debugger three threads are the one whose event is shown, one whose event
is queued, and one that appears, dies or gets the signal; one foreign signal per
process (`Send`) is enough to tell it from the debugger's SIGTRAP. `Sleepers` is
thread 1 in `debugger`: the one that is created, ends, and is neither first nor
last in the list when three are there, so that the debugger has others to stop
before and behind it. It is empty in `step_queued`, whose counterexample needs
none.

**Deadlock.** A program may stop (HALT, a failed assertion) or idle, a collector
that got lost or trapped keeps the heap locked, claimers on POSIX may wait for
each other by their own fault, and a link is over when it is over, so these runs
switch the deadlock check off. `exchange` keeps it: a closed program of makers
and takers never stops. So does `debugger`: a session goes on until `Quit`.

**Fairness.** In `ExSpec` it is weak fairness of the whole program's next step,
that is, a running program does not stop between two calls. There is no
fairness between processes: who runs is decided by the scheduler, and that
everybody is served follows from the order of the ring and of the claimers. In
`Threads` it is weak fairness of each collector's next step: the system gives
time to every thread that is not suspended (`Doc/Comp/src/threads.tex`). No
fairness of a lock is assumed, and none is needed for *Resumed*: once it has
suspended somebody, the collector waits for no lock, on the error exits
neither. In `PosixThreads` each
thread that is inside a procedure and can go on does; the locks of single steps
are short, and the order in which claimers are signalled is left open. The linker
is one thread, `LSpec` and Collect's `Spec` are weak fairness of its next step.
The debugger goes on (WF), the kernel delivers a pending signal and ends a step
(WF), and a user who is asked again and again says Go in the end (SF). An
uninterruptible sleep ends (WF of Wake); to a thread that falls asleep again and
again a pending signal is delivered when it has woken up often enough (SF of
Deliver, for `Sleepers` only: the kernel does so on the way back to the program).

## 4. Where code and documents disagree

1. `hand_off`. SuspendMeAndActivate and Switch UnTie the caller, which makes
   the next process current, and then Tie the target, which stores the caller's
   coroutine in the *current* descriptor (`Processes.mod:273`). With a third
   process ready, that process's own coroutine is lost and the caller's stack
   runs under its identity. `Me` "returns the identity of the calling process"
   (`isodef/Processes.def:93`).
2. `unlocked_walk`. PrepareToGC walks the ring of coroutines without its lock,
   "'cause all threads are stopped" (`xr/xrThreads.mod:304`). A thread between
   X2C_UnregisterThread and X2C_UnregisterCoroutine (159-160) is not in the ring
   of threads, is not stopped, and takes itself out of the ring of coroutines
   under the walk, which then dereferences NIL.
3. `weak_external`. For a COFF weak external the reader fetches the symbol to
   fall back on, checks it, and then takes the name of the weak external itself
   (`xLink/readcoff.cpp:286`). resolveFixupTarget follows the forward name, which
   is the same name, for ever; its contract is that the target ends up resolved
   (`xLink/struct.cpp:392`).
4. `step_queued`. Two threads hit breakpoints; one hit is shown, the other
   queued. continue_debug_event sets `singlestep` though it returns at once
   because of the queue, and the queued SIGTRAP is reported as the end of the
   step: its thread runs on behind its breakpoint, where `thread.c:815` promises
   to store undetected events. Go makes such a step whenever it leaves a
   breakpoint (`Debug/xd_cmn/ExeMain.mod:141`).

Seen in the source or in other instances of the models, and kept in no run:

* With two processes above the rest, when the first leaves, UnTie makes its
  `fwd` current, a least urgent process, and the next Tie fails its assertion
  (`Processes.mod:283`); so AssertionsHold and Dispatches are checked with one.
* Switch to a less urgent process leaves the caller ready and running
  (`Processes.mod:461`), where the definition says that it becomes passive
  (`isodef/Processes.def:54`).
* The comment of IsGCAware (`lib/XProcesses.def`) says the opposite of what it
  returns; a thread marked X2C_no_GC after its tags were tested, by itself before
  it is suspended or by another after, stays stopped, since FreeAfterGC tests the
  tag again (`xr/xrThreads.mod:342`); FreeAfterGC, and the loop behind
  GetThreadContext, read `fwd` of a thread they have already resumed (348, 321),
  the `"astray"` of the model; after a failed X2C_SuspendThread the loop that
  resumes the others tests the tags of the one that failed (293), not theirs.
* A thread in state D is not stopped for the user, and what it meets meanwhile is
  lost (section 2).
* A segment that is exported after it has been collected is collected again and
  its relocations are counted twice: the link then fails the ASSERT that compares
  NFixups with the relocations stored (`xLink/struct.cpp:1875`), as the model's
  `"aborted"`. FixNeverOverrun says that the count never errs the other way.
* A file without external names in an import library's place dereferences
  `*extrnls`; a reference to an absolute public name is an ASSERT_FALSE; the
  later source of an export overrides the values but not the flag; /NOSMART
  counts for what it says only if the file read last has it.

Two things the model shows that no document excludes: a pre-empted process goes
to the end of its round, and a less urgent process activated by a more urgent
one goes before its equals.

## 5. What is proved

`ProcessesProofs` proves, for every `Proc`, `Urgency` in integers and finite
`Source` (the three named assumptions of `Processes`):

| theorem | statement |
|---|---|
| Invariance | `Spec => []Inv` |
| TypeCorrectness | `Spec => []TypeOK` |
| ListOfReady | `Spec => []RingIsReady` |
| CountOfSources | `Spec => []HandlersCounted` |
| PassiveOnlyWaiting | `Spec => []NeverPassive` |
| CallerIsMe | `CoreSpec => []MeIsCaller` |
| NoRunAfterStop | `CoreSpec => []StoppedNeverRuns` |
| NoAssertionFails | `AtMostOneUrgent => (CoreSpec => []AssertionsHold)` |
| ImplementsDispatcher | `AtMostOneUrgent => (CoreSpec => Dispatches)` |
| EqualsInOrder | `AtMostOneUrgent => (CoreSpec => NoOvertaking)` |

RingIsReady is not inductive: that a tied process was not in the ring follows
from its state, that it is not disposed of later needs the corpse to be a
stopped process, and that a stopped one is not in the ring needs its state to
be passive. `Agree` (of the ring, the bodies, the states, the corpse and the
stopped processes given as arguments) states all of this of a *would-be* state;
each lemma then says what one procedure does to it: TailProperties and
UnTieAgrees for UnTie, InsertProperties and TiedProperties for Tie (whatever
slot the search finds), GoNextKeeps for GoNext, TieAndGoKeeps for the pair.
NextInv has one step per operation and uses the lemma of the procedure that the
operation calls. `Inv` is `Agree` of the variables, the control variables'
types and the count of the sources.

CallerIsMe needs more: `OwnBodies` (every process that exists and is not in
control has its own coroutine saved) and `CorAlive`. They are exactly what
SuspendMeAndActivate and Switch break, so `CoreInv` is an invariant of CoreSpec
only. NoRunAfterStop follows from it.

The last three are about urgency. They hold if at most one process is above the
least urgency (`AtMostOneUrgent`): with two, when the first leaves, UnTie makes
its `fwd` current although the second, at the other end, is more urgent, and the
next Tie fails its assertion (section 4). With one, the order along the ring is
simple: everybody behind the head is of the least urgency (`Ordered`), so the
first loop of Tie stops where a newcomer belongs. `OrderInv` is CoreInv,
Ordered, and that no assertion has failed; CoreStep says that, to the ready set
and the one in control, every call of the interface is that the running process
leaves, that some process enters, or nothing. ImplementsDispatcher is then the
refinement step by step: leaving is `Yield`, entering is `Admit`, the rest
stutters.

`SemaphoresProofs` proves, for every set of processes and semaphores and any
urgencies (the assumptions of `Processes` and `SemAssumption`):

| theorem | statement |
|---|---|
| SemaphoresUseTheInterface | `SemSpec => CoreSpec` |
| SemaphoresAreScheduled | `AtMostOneUrgent => (SemSpec => []AssertionsHold /\ Dispatches)` |
| ListsHoldTheBlocked | `SemSpec => []WaitersBlocked` |
| UnitsAreConserved | `SemSpec => []UnitsConserved` |
| NoUnitIsIdle | `SemSpec => []NoIdleUnit` |
| ServedInOrder | `SemSpec => FirstComeFirstServed` |

The first is a refinement: to the scheduler a step of a semaphore is a call of
its interface, or nothing; so CoreInv holds here too, and with it that the
process in control is the head of the ring, and the second is a corollary.
`SemInv` adds to it the types of the
descriptors, NothingIdle (a semaphore with a unit has an empty list) and, as
long as no assertion has failed, `Settled`: the claimers and the lists agree
(`Claimers`), units are conserved (`Balanced`), and the process in control is not
inside a Claim. The last is what makes the others inductive. A claimer that was
handed a unit is ready and still has the semaphore in `claiming`; it counts as
one to whom a unit is due (`Handed`) until it gains control, and Resume takes it
out in the same step. An assertion that fails in Tie ends the run halfway
through a call, with the claimer out of the list and its state not yet set,
hence the condition on `status`.

`ThreadsProofs` proves, for every set of threads, any tagging and failing
system calls (`ThreadAssumption`):

| theorem | statement |
|---|---|
| LocksInOrder | `OpenSpec => []LocksHeld`, `Spec => []LocksHeld` |
| NoOwnerStopped | `OpenSpec => []NoLockStopped`, `Spec => []NoLockStopped` |

The invariant is the two together with the types of `pc` and `owner`. Every step
of a thread is a way into a section (`WaysIn`), a way out (`WaysOut`) or a step
between places of the same sections; GoesIn, GoesOut and GoesOn prove each kind
once, and the lemmas on Life, AnyUser and Collector say which kind each action
is. The one step that is none is the suspension of a thread: its collector is
inside all three sections (LocksHeld), so it owns all locks and whom it stops
owns none. That is why NoLockStopped needs LocksHeld, and `AtAnother`: whom the
collector tested the tags of is not itself. The test, the failure and the loop
that undoes it are steps inside all three sections (`AllOwned`).

Of the rings and the walks over them it proves, under the same assumption:

| theorem | statement |
|---|---|
| ThreadTypes | `OpenSpec => []TypeInvariant`, `Spec => []TypeInvariant` |
| EveryStackScanned | `OpenSpec => []StacksScanned`, `Spec => []StacksScanned` |
| NobodyRunsOn | `Spec => []MutatorsStopped` |

Both walks are described by `Passed`: the elements that come before the walk's
position along `fwd` from where it began. A lemma each says what tying an
element into a ring, untying one, and one step along `fwd` do to positions and
to `Passed`. `MarksInRing` says that the stopped coroutines MarkStack has passed
are scanned, though others come in behind its back and go; if the one it is at
goes, it is lost, and StacksScanned promises nothing. It needs the rings to
have each thread once and to have exactly those whose place in the code says so
(`Members`). These make `RingInv`, which holds for all programs.

MutatorsStopped holds only for programs in which a thread marks itself, and
needs three more invariants (`CarefulInv`). PassedAreStopped is the walk of
PrepareToGC, in which the thread that was tested and is not yet suspended counts
as not passed. NobodyElseRuns says why a thread that registers too late for it does
no harm: it is at most parked, and has not been activated, since whoever could
do that is stopped. HandsShaken is why: until the creator has seen
`controll1` it does not know the new thread and nobody sets its `controll`.

`PosixProofs` proves, for every finite set of threads, any depth of nesting and
any maximum of units (`PosixAssumption`):

| theorem | statement |
|---|---|
| Invariance | `Spec => []IInv` |
| MutualExclusion | `Spec => []Exclusion` |
| UnitsAreUsed | `Spec => []NoIdleUnit` |
| TypeCorrect | `Spec => []TypeOK` |
| ReturnsActivated | `Spec => OnlyActivated` |

Exclusion is not inductive: it does not say what a thread may conclude from the
unlocked reads while another is on its way in or out. `Recorded` says at each
place between lock and unlock what the two fields hold, and that a thread which
has read `m->count > 0` without being the owner finds another one in
`m->thread`, now and whenever it looks; that is where the order of the two
stores in X2C_EnterMutex is needed. `Counted` adds who is queued and who is signalled.

`CollectProofs` proves, for every set of names and whatever well-formed records
the readers deliver (`CollectAssumption`, `InputsAssumption`), about `Collect`'s
`Spec`:

| theorem | statement |
|---|---|
| TypesRight | `Spec => []TypeOK` |
| NothingForgotten | `Spec => []MarkedIsDone` |
| ImageClosed | `Spec => []Closed` |
| FixHasRoom | `Spec => []FixNeverOverrun` |

Closed speaks of the end of the recursion; what holds in the middle of it is
MarkedIsDone: each fixup of a marked segment either waits for an activation on
the stack, or has been resolved and what it leads to is marked. `IInv` adds the
types, `Pointers` (a fixup to a segment leads to one that exists), `Phases`
(nothing is marked before the roots are, no activation runs outside of marking)
and `Counted` (the relocations passed are finitely many and at most NFixups).
The lemmas VisitProperties and OnProperties say what one call and one step of an
activation do to the pending places; ResolveKeeps covers the branches that
change a fixup's target, CreateKeeps those that create a segment for a common,
VisitKeeps and QuietKeeps the rest; then one lemma per action.

`ReachProofs` proves, under the same assumptions, `Spec => []TakenAsAsked`
(NeitherMoreNorLess). That a smart link takes nothing that is not required is
stated over every set of segments that holds the roots and is closed under
`Requires`, which avoids a recursive definition of reachability. The difficulty
is that what a segment requires changes while it is being marked: a fixup is
resolved on the way, a segment is created for a common. `Grows` says that
requirements only grow: a set closed under the later ones is closed under the
earlier ones, as far as it reached; the segments still to be visited, on the
stack and among the exports to come, are in it too. That a link which is not
smart takes whole files is the bookkeeping of CollectAll's passes: a processed
file has all its segments marked, and in a pass that has changed nothing the
files passed are not wanted (`Whole`).

`DebugProofs` proves, for any number of threads, if the user and the program are
`Careful` (`DebugAssumption`):

| theorem | statement |
|---|---|
| DebuggerTypes | `Careful => (Spec => []TypeOK)` |
| DebuggerNeverFails | `Careful => (Spec => []NeverFails)` |
| NobodyRunsWhileShown | `Careful => (Spec => []NobodyRuns)` |
| EveryHitKept | `Careful => (Spec => []HitsKept)` |
| EverySignalKept | `Careful => (Spec => []SignalKept)` |

None of them is inductive. `DebugInv` has, of each thread, `Account`:

* `Placed`: what the kernel and the thread_info say of a thread agree, and one
  that was passed over in state D runs or sleeps still;
* `Waits`: an event in the queue is the only one of its thread, which stays where
  it is until the event is taken;
* `Kept`: of an int 3 that somebody must be told about (`Needs`: the user of a
  hit, Krn_Prog of a thread that is created or dies) the SIGTRAP is reported, or
  queued, or at hand because of check_events_again, or another SIGTRAP is pending
  that will stop the thread again at the same place. The last is the case in
  which stop_all_threads takes the SIGTRAP of the int 3 for its own;
* `Carried`: a signal of another program is in one place;

and of the whole `Lists` (Krn_Prog's table is the list of threads; what
check_events_again refers to has not been freed), `Walked` (how far
stop_all_threads has come, and that whenever the debugger looks at events
nothing runs but who was passed over), `Told` (whoever continue_debug_event continues has nothing left to
tell) and `Stepping` (in a single step nobody else moves). There is a lemma for
each action of the kernel, of continue_debug_event, of stop_all_threads and for
each result of proceed_event. Where Careful is used says what it is for: in Step
(nothing queued may be taken for the end of the step, and nobody runs beside it),
in Exit (the thread that is stepped does not end), in Restart (no freed
thread_info is in the queue), and in every step with which a running thread stops
or ends (HitBreakpoint, Creates, Exit, Deliver: not one that was passed over).
That no other thread runs while the user looks follows from the walk of
stop_all_threads and from nothing Careful says of sleepers; it is used to keep
what they do from being lost. Without it NeverFails and HitsKept are violated, as
said in section 2.

`LinkerProofs` proves, of `LSpec`, whatever records the readers deliver (the
assumptions of `Collect` and `LinkerAssumption`):

| theorem | statement |
|---|---|
| MarkingStands | `LSpec => [](TypeOK /\ Closed /\ FixNeverOverrun /\ TakenAsAsked)` |
| NothingOverlaps | `No16Bit => (LSpec => []Apart)` |
| TextsStandAsAddressed | `No16Bit /\ Aligned => (LSpec => []ImagesMatch)` |
| NamesMeanOnePlace | `No16Bit /\ Recorded => (LSpec => []NamesAgree)` |
| EveryRelocationListed | `No16Bit /\ Addressing => (LSpec /\ []Inside => []RelocationsComplete)` |

The first carries what is proved of `Collect` over to the whole link: nothing
behind marking touches the segments, and the counts it adds are its own. The
hypotheses of the others are about the input. `No16Bit`: no segment is 16-bit
code. The length the code computes for that section,
`(... + 2 - 1) & ~ (2 - 1) - Code16Start`, is not the length of its segments,
since `-` binds more tightly than `&` (`xLink/struct.cpp:1445`); for an empty
section it is 0 at every address, which is the lemma about `And`, and a link that
has 16-bit code is left to TLC. `Aligned`: the alignment of each segment divides
xObjectOffset, and that of a segment of the import section the size of a DLL's
descriptor too; a section starts at a multiple of xObjectOffset, while its image
is laid out from 0, and the two agree modulo the alignment only then. (The
command line sets xObjectOffset, and nothing checks the segments against it.)
`Recorded`: `ref` and `addend`, which are history, are what the record of the
fixup says. `Addressing`: an address32 record is to a segment, a name, a forward
segment or an import; the readers make the other targets, the strings', for
other kinds only (`xLink/readxomf.cpp:545`). `Inside`, of the state: a segment is
no shorter than the number of its fixups. The model numbers the fixups of a
segment and lets the number stand for the offset, so this says that a fixup lies
in its segment, which the code does not check; it is true of every state of the
`linker` run.

`LInv` has three parts. FrontInv is IInv of CollectProofs and the invariant of
ReachProofs. CollectionsInv says that the collections of a section partition its
segments that OrderSegments has come to, however InsertSegment and the sorted
and unsorted groups place them. AddressesInv has, of every section that
CalcAddresses has dealt with, where it begins and ends (`Spans`), that its
segments are at the places a walk over them gives, the jumps behind those of
the code, and that the next section starts no lower. Segments of one section are
apart because ends grow along the section (a lemma by least counterexample on
the recursive function of SegmentEnds, since induction is out of reach);
segments of two are because the sections are. `FromFiles`, that the class and
the alignment of a segment stem from a record or from CreateSegment, connects
the hypotheses to the state.

ImagesMatch compares two walks: at each place of a section the second differs
from the first by the section's start, which is a multiple of every alignment.
NamesAgree is the longest way, from the record of a fixup to the stored word.
`ReferInv` follows the fixup through marking: as long as it names a symbol its
target is reached from `ref` along forward names, and when it is resolved it
leads to the segment and, with its addend, the offset that `ref` has itself
been resolved to (`Resolves`), whether through a definition, a common for which
a segment was just created, or the name a weak external falls back on. A link
goes on only without errors, so in the end every fixup of a marked segment has
been (`MarkedClosed`). `NamedInv` adds that SetOffset has moved each name by the
address of its segment once and no other step moves either, and that what is
stored is that sum.

RelocationsComplete needs three things of the list. That nothing is missing:
`TargetsInv` and MarkedClosed say that a link without errors has resolved every
address32 fixup of the image to a segment or an import, so that ProcessFixup
passes it to relocatableFixup (`AllCounted`). That nothing is there twice:
`FixTo(k)` says that `Fix` is injective and has as elements exactly the
relocations of the sections imaged so far, and the jumps' once the code's have
been; a section adds none that are there because Apart keeps its segments and
the jumps out of each other's way and a relocation lies inside its own
(`MovedInside`, `MovedApart`). That the order is right: `InOrder` says of qsort
only that the i-th element has fewer than i below it and at least i up to it;
when no two are equal the ranks are an injection of 1..n into itself, hence onto,
and the result is ascending with the same elements (`Ranked`, `InOrderSorts`).
That the two counts agree at the ASSERT is not proved, since an export can be
counted twice (section 4); such a link ends in `aborted` and has no list.

Only model-checked: links with 16-bit code; the scheduler with more than one process above the least
urgency as far as AssertionsHold, Dispatches and NoOvertaking are concerned.
Liveness (EveryoneIsServed, Resumed, ActivatedRuns, ClaimersServed, Ends and
HitShown) is out of the prover's reach.

## 6. Not modelled, and the plan

The components of `PROJECT.json` name every part left out and why. By lines most
of the repository's C is not a candidate: the user interfaces of the Windows
tools (`Comp/src/*/hgl.cpp`, `Debug/src/xpview`), the vendored zlib and minizip
of the linker, the debug information and image formats it reads and writes byte
by byte, and the layers of the debugger for Windows and OS/2 are presentation,
third-party code, or conversions whose content is the layout of data. The
library and the compiler are written in Modula-2 and Oberon-2. The remote
debugger's VxWorks server is unfinished (`xdrKernel_Tasks` is never filled, so
that no event reaches a client), and nothing says what it should promise.

What is left, in this order:

1. `Coroutines`: the coroutine ring, re-use of a stopped process's workspace
   and the collector's walk.
2. `DeviceData` over an abstract unbuffered file (refinement), with the lock of
   the ring of files; `Termination`; `BlockManager`; `Exceptions`.
3. The export table and its ordinals, and the LX image, in `Linker`.
4. Proofs: the layout of 16-bit code.
