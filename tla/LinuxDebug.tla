------------------------------ MODULE LinuxDebug ------------------------------
(***************************************************************************)
(* The event loop of the debugger on Linux: ProcessEvents of Krn_Prog.mod  *)
(* over inferior.c, thread.c and events.c of linux_layer, a program of     *)
(* several threads, and the kernel between them.                           *)
(*                                                                         *)
(* Every thread of the program is a process of its own to the kernel       *)
(* (LinuxThreads) and runs between the debugger's system calls, so each of *)
(* those is a step while threads run.  What the debugger does while all    *)
(* threads it knows are stopped is one step.  The thread library is        *)
(* connected, and only the main thread creates threads and loads libraries.*)
(***************************************************************************)
EXTENDS Integers, Sequences, FiniteSets

CONSTANTS
  LastThread,  \* bound: threads 0..LastThread are created in this order
  Sleepers,    \* the threads that may sleep uninterruptibly (state D)
  Careful      \* TRUE: the user does not restart the program, nor step, while
               \* events are queued, nor step while a thread runs; no thread
               \* ends in, or just before, a step; one that was passed over in
               \* state D neither stops nor ends before the others go on

ASSUME DebugAssumption ==
  LastThread \in Nat /\ Sleepers \subseteq 0..LastThread /\ Careful \in BOOLEAN

Thread == 0..LastThread
Main == 0     \* the thread that the debugger starts
NULL == -1    \* no thread
Stale == -2   \* a thread_info of a process that has been deallocated

VARIABLES
  \* the kernel and the program
  os,       \* state of each thread: see TypeOK
  pend,     \* signals that wait to be delivered to it
  report,   \* its wait status that no waitpid has collected
  pc,       \* what it stopped behind: a breakpoint of the user ("hit"), of the
            \* loader ("solib") or of the thread library ("thread"), or none
  msg,      \* the thread library's message about it
  lib,      \* the loader has a library to tell about
  \* linux_layer
  threads,      \* proc_info->threads
  expired,      \* thread_info.expired
  last_status, last_signal,   \* of each thread_info
  events,       \* the static queue of inferior.c; its entries are threads
  last,         \* proc_info->last_signaled_thread
  dead,         \* proc_info->current_thread_is_dead
  check,        \* proc_info->check_events_again
  singlestep,   \* proc_info->singlestep
  \* the debugger
  phase,    \* where it is: see TypeOK
  at,       \* position of stop_all_threads in the list of threads
  known,    \* Krn_Prog's table of threads
  handle,   \* Krn_Prog.H_Thread
  \* history
  owed,     \* threads whose breakpoint hit the user has not been shown
  usr,      \* what became of the signal another program sends to each thread
  passed    \* threads that stop_all_threads has passed over in state D

kernel == <<os, pend, report, pc, msg, lib>>
infos == <<threads, expired, last_status, last_signal>>
flags == <<last, dead, check, singlestep>>
ui == <<known, handle>>
layer == <<infos, events, flags, phase, at, ui>>
vars == <<kernel, layer, owed, usr, passed>>

Registered == {threads[i] : i \in 1..Len(threads)}
Of(v) == [t \in Thread |-> v]
Set(f, t, v) == [f EXCEPT ![t] = v]

\* create_process: the main thread is stopped before its first instruction.
Alone == Set(Of("none"), Main, "stop")

Init ==
  /\ os = Alone /\ pend = Of({}) /\ report = Of("none")
  /\ pc = Of("plain") /\ msg = Of("none") /\ lib = FALSE
  /\ threads = <<Main>> /\ expired = Of(FALSE)
  /\ last_status = Of("none") /\ last_signal = Of("none") /\ events = <<>>
  /\ last = Main /\ dead = FALSE /\ check = FALSE /\ singlestep = FALSE
  /\ phase = "user" /\ at = 0 /\ known = {Main} /\ handle = Main
  /\ owed = {} /\ usr = Of("unsent") /\ passed = {}
-----------------------------------------------------------------------------
(* The program and the kernel *)

\* A traced thread stops, and its status waits for the debugger.
Stops(t, status) == os' = Set(os, t, "stop") /\ report' = Set(report, t, status)

\* A running thread waits for a disk, and runs on; it takes no signal meanwhile.
Sleep(t) ==
  /\ t \in Sleepers /\ os[t] = "run"
  /\ os' = Set(os, t, "disk")
  /\ UNCHANGED <<pend, report, pc, msg, lib, layer, owed, usr, passed>>

Wake(t) ==
  /\ os[t] = "disk"
  /\ os' = Set(os, t, "run")
  /\ UNCHANGED <<pend, report, pc, msg, lib, layer, owed, usr, passed>>

MayStop(t) == Careful => t \notin passed

\* A running thread meets a planted int 3.
Hit(t, where) ==
  /\ os[t] = "run" /\ MayStop(t)
  /\ Stops(t, "trap")
  /\ pc' = Set(pc, t, where)

HitBreakpoint(t) ==
  /\ Hit(t, "hit")
  /\ owed' = owed \cup {t}
  /\ UNCHANGED <<pend, msg, lib, layer, usr, passed>>

\* The loader has changed its list of libraries.
HitSolib ==
  /\ Hit(Main, "solib")
  /\ lib' = TRUE
  /\ UNCHANGED <<pend, msg, layer, owed, usr, passed>>

\* The creator reports; the new thread waits until it goes on.
Creates(n) ==
  /\ os[Main] = "run" /\ MayStop(Main) /\ n # Main /\ os[n] = "none" /\ os[n-1] # "none"
  /\ os' = [os EXCEPT ![Main] = "stop", ![n] = "held"]
  /\ report' = Set(report, Main, "trap") /\ pc' = Set(pc, Main, "thread")
  /\ msg' = Set(msg, n, "create")
  /\ UNCHANGED <<pend, lib, layer, owed, usr, passed>>

\* pthread_exit reports the death of the calling thread.
Dies(t) ==
  /\ t # Main /\ Hit(t, "thread")
  /\ msg' = Set(msg, t, "death")
  /\ UNCHANGED <<pend, lib, layer, owed, usr, passed>>

\* A thread ends without telling the thread library, or has been detached.
Exit(t) ==
  /\ \/ /\ os[t] \in (IF Careful THEN {"run"} ELSE {"run", "step"}) /\ MayStop(t)
        /\ os' = Set(os, t, "zombie") /\ report' = Set(report, t, "exit")
     \/ os[t] = "dying" /\ os' = Set(os, t, "gone") /\ UNCHANGED report
  /\ pend' = Set(pend, t, {})
  /\ UNCHANGED <<pc, msg, lib, layer, owed, usr, passed>>

\* The kernel takes the signal of the lowest number first.
First(s) == IF "trap" \in s THEN "trap" ELSE "usr"

Deliver(t) ==
  /\ os[t] \in {"run", "step"} /\ MayStop(t) /\ pend[t] # {}
  /\ Stops(t, First(pend[t])) /\ pend' = Set(pend, t, pend[t] \ {First(pend[t])})
  /\ UNCHANGED <<pc, msg, lib, layer, owed, usr, passed>>

Stepped(t) ==
  /\ os[t] = "step"
  /\ Stops(t, "trap")
  /\ UNCHANGED <<pend, pc, msg, lib, layer, owed, usr, passed>>

\* Another program sends t a signal (bound: one to each process).
Send(t) ==
  /\ usr = Of("unsent") /\ os[t] \in {"run", "disk", "stop"} /\ t \in Registered
  /\ pend' = Set(pend, t, pend[t] \cup {"usr"})
  /\ usr' = Set(usr, t, "sent")
  /\ UNCHANGED <<os, report, pc, msg, lib, layer, owed, passed>>

\* PTRACE_CONT or PTRACE_SINGLESTEP of the threads S: one with a signal pending
\* stops again where it is.  The new threads go on with their creator.
Resume(S, mode) ==
  LET again == {t \in S : pend[t] # {}}
      on == S \ again
  IN /\ os' = [t \in Thread |->
                 IF t \in on THEN mode
                 ELSE IF os[t] = "held" /\ Main \in on THEN "run" ELSE os[t]]
     /\ pc' = [t \in Thread |-> IF t \in on THEN "plain" ELSE pc[t]]
     /\ report' = [t \in Thread |-> IF t \in again THEN First(pend[t])
                                    ELSE IF t \in on THEN "none" ELSE report[t]]
     /\ pend' = [t \in Thread |-> IF t \in again THEN pend[t] \ {First(pend[t])}
                                  ELSE pend[t]]
     /\ usr' = [t \in Thread |-> IF t \in S /\ last_signal[t] = "usr" THEN "got" ELSE usr[t]]
     /\ last_signal' = [t \in Thread |-> IF t \in S THEN "none" ELSE last_signal[t]]
     /\ UNCHANGED <<msg, lib>>
-----------------------------------------------------------------------------
(* continue_debug_event *)

\* resume_all_threads.  In a single step nobody but the last signaled thread.
ResumeAll(step, signaled) ==
  LET S == {t \in (IF step THEN {} ELSE Registered) \cup {signaled} :
              t # NULL /\ os[t] = "stop"}
  IN /\ Resume(S, IF step THEN "step" ELSE "run")
     /\ last_status' = [t \in Thread |-> IF t \in S \ {signaled} THEN "none"
                                         ELSE last_status[t]]
     /\ passed' = IF step THEN passed ELSE {}

Continue(step) ==
  LET signaled == IF dead THEN last ELSE handle IN
  /\ singlestep' = step
  /\ last' = signaled /\ dead' = FALSE
  /\ IF events # <<>> \/ check
     THEN UNCHANGED <<kernel, last_status, last_signal, usr, passed>>
     ELSE ResumeAll(step, signaled)
  /\ phase' = "wait"
  /\ UNCHANGED <<threads, expired, events, check, at, ui, owed>>

\* ProcessEvents asks again.
GoOn == phase = "go" /\ Continue(singlestep)
\* Execute, in its two modes.
Go == phase = "user" /\ Continue(FALSE)
Step ==
  /\ phase = "user"
  /\ Careful => events = <<>> /\ \A t \in Thread : os[t] \notin {"run", "disk", "zombie"}
  /\ Continue(TRUE)
-----------------------------------------------------------------------------
(* wait_for_events_internal *)

ToPoll(to) ==
  /\ phase = "wait" /\ ~check /\ events = <<>>
  /\ phase' = to
  /\ UNCHANGED <<kernel, infos, events, flags, at, ui, owed, usr, passed>>

WaitForEvents == ToPoll("poll")
\* The local variable events is not initialized.
WaitWithGarbage == ToPoll("crashed")

\* Slip: the status can be collected again (TypeOK notices).
CollectsAgain(t) == report[t] # "none" /\ UNCHANGED <<kernel, owed, usr>>

\* waitpid returns t's status.  A thread that has ended is gone with it.
Collects(t) ==
  /\ report[t] # "none"
  /\ report' = Set(report, t, "none")
  /\ os' = IF os[t] = "zombie" THEN Set(os, t, "gone") ELSE os
  /\ UNCHANGED <<pend, pc, msg, lib, owed, usr>>

Queue(t) == events' = Append(events, t) /\ last_status' = Set(last_status, t, report[t])

\* Slip: the first thread is taken for the signaled one (NobodyRuns notices).
StopAllButFirst == phase' = "stop" /\ at' = 2 /\ last' = Head(events')

StopAll == phase' = "stop" /\ at' = 1 /\ last' = Head(events')

\* The loop takes every status there is; when there was none at first, it
\* sleeps and takes one.
CollectEvent(t) ==
  /\ phase \in {"poll", "sleep"}
  /\ Collects(t)
  /\ IF t \in Registered
     THEN /\ Queue(t)
          /\ IF phase = "poll" THEN UNCHANGED <<phase, at, last>> ELSE StopAll
     ELSE phase' = "failed" /\ UNCHANGED <<events, last_status, at, last>>
  /\ UNCHANGED <<threads, expired, last_signal, dead, check, singlestep, ui, passed>>

NoMoreEvents ==
  /\ phase = "poll" /\ \A t \in Thread : report[t] = "none"
  /\ UNCHANGED events
  /\ IF events = <<>> THEN phase' = "sleep" /\ UNCHANGED <<at, last>> ELSE StopAll
  /\ UNCHANGED <<kernel, infos, dead, check, singlestep, ui, owed, usr, passed>>
-----------------------------------------------------------------------------
(* stop_all_threads and ensure_stopped *)

Walk(to, k) == phase' = to /\ at' = k

\* ensure_stopped has no case for state D.
PassesOver(t) ==
  passed' = IF os[t] = "disk" THEN passed \cup {t} ELSE passed \ {t}

\* Slip: the status of a thread that has stopped by itself is dropped
\* (HitsKept notices).
LookDrops ==
  /\ phase = "stop" /\ at <= Len(threads)
  /\ PassesOver(threads[at])
  /\ LET t == threads[at] IN
     IF os[t] \in {"run", "step"}
     THEN Walk("kill", at) /\ UNCHANGED kernel
     ELSE /\ Walk("stop", at + 1)
          /\ IF os[t] = "stop" /\ t # last /\ report[t] # "none"
             THEN Collects(t) ELSE UNCHANGED kernel
  /\ UNCHANGED <<infos, events, flags, ui, owed, usr>>

\* get_proc_state, and waitpid with WNOHANG for a thread that is stopped.  One in
\* state D is neither signalled nor waited for.
Look ==
  /\ phase = "stop" /\ at <= Len(threads)
  /\ PassesOver(threads[at])
  /\ LET t == threads[at] IN
     IF os[t] \in {"run", "step"}
     THEN Walk("kill", at) /\ UNCHANGED <<kernel, events, last_status, owed, usr>>
     ELSE /\ Walk("stop", at + 1)
          /\ IF os[t] = "stop" /\ ~singlestep /\ t # last /\ report[t] # "none"
             THEN Collects(t) /\ Queue(t)
             ELSE UNCHANGED <<kernel, events, last_status, owed, usr>>
  /\ UNCHANGED <<threads, expired, last_signal, flags, ui>>

\* kill: by now the thread may have stopped, or ended, by itself.
Kill ==
  /\ phase = "kill"
  /\ LET t == threads[at] IN
     pend' = IF os[t] = "zombie" THEN pend ELSE Set(pend, t, pend[t] \cup {"trap"})
  /\ Walk("collect", at)
  /\ UNCHANGED <<os, report, pc, msg, lib, infos, events, flags, ui, owed, usr, passed>>

\* Slip: whatever signal comes is taken for the one that was sent
\* (SignalKept notices).
CollectAny ==
  /\ phase = "collect"
  /\ LET t == threads[at] IN
     Collects(t) /\ IF report[t] # "exit" THEN UNCHANGED <<events, last_status>> ELSE Queue(t)
  /\ Walk("stop", at + 1)
  /\ UNCHANGED <<threads, expired, last_signal, flags, ui, passed>>

\* Whichever SIGTRAP comes is taken for the one that was sent.
Collect ==
  /\ phase = "collect"
  /\ LET t == threads[at] IN
     /\ Collects(t)
     /\ IF report[t] = "trap" THEN UNCHANGED <<events, last_status>> ELSE Queue(t)
  /\ Walk("stop", at + 1)
  /\ UNCHANGED <<threads, expired, last_signal, flags, ui, passed>>

AllStopped ==
  /\ phase = "stop" /\ at > Len(threads)
  /\ Walk("wait", 0)
  /\ UNCHANGED <<kernel, infos, events, flags, ui, owed, usr, passed>>
-----------------------------------------------------------------------------
(* proceed_event, and what ProcessEvents does with its result.  Each action  *)
(* is a result for the event of thread t.                                    *)

\* The event is for the user; Krn_Prog must know its thread.
Shows(t) == handle' = t /\ phase' = IF t \in known THEN "user" ELSE "failed"
\* DE_ASK_AGAIN, and the events after which ProcessEvents goes on.
AsksAgain(t) == handle' = t /\ phase' = "go"

\* remove_thread_info_entry.
Without(q, n) ==
  IF \E i \in 1..Len(q) : q[i] = n
  THEN LET i == CHOOSE i \in 1..Len(q) : q[i] = n
       IN SubSeq(q, 1, i - 1) \o SubSeq(q, i + 1, Len(q))
  ELSE q

\* Slip: check_events_again is set although the last signaled thread is the one
\* that has gone (NeverFails notices).
ThreadExitedAgain(t, n, again) ==
  /\ threads' = Without(threads, n)
  /\ check' = again
  /\ IF n = last THEN last' = NULL /\ dead' = TRUE ELSE UNCHANGED <<last, dead>>
  /\ known' = known \ {n}
  /\ handle' = t /\ phase' = IF n \in known THEN "go" ELSE "failed"

\* thread_info n is removed from the list; Krn_Prog must know it.
ThreadExited(t, n, again) ==
  /\ threads' = Without(threads, n)
  /\ IF n = last THEN last' = NULL /\ dead' = TRUE /\ check' = FALSE
     ELSE check' = again /\ UNCHANGED <<last, dead>>
  /\ known' = known \ {n}
  /\ handle' = t /\ phase' = IF n \in known THEN "go" ELSE "failed"

Exited(t) ==
  /\ last_status[t] = "exit" /\ t # Main
  /\ ThreadExited(t, t, FALSE)
  /\ UNCHANGED <<kernel, expired, last_status, last_signal, owed, usr, passed>>

\* terminate_all_threads.
ExitProcess(t) ==
  /\ last_status[t] = "exit" /\ t = Main
  /\ os' = Of("gone") /\ report' = Of("none") /\ pend' = Of({})
  /\ owed' = {} /\ passed' = {}
  /\ handle' = t /\ known' = known \ {t} /\ phase' = "finished"
  /\ check' = FALSE
  /\ UNCHANGED <<pc, msg, lib, infos, last, dead, usr>>

Expired(t) ==
  /\ last_status[t] # "exit" /\ expired[t]
  /\ AsksAgain(t)
  /\ check' = FALSE
  /\ UNCHANGED <<kernel, infos, last, dead, known, owed, usr, passed>>

Trapped(t) == last_status[t] = "trap" /\ ~expired[t]

SingleStep(t) ==
  /\ Trapped(t) /\ singlestep
  /\ Shows(t)
  /\ check' = FALSE
  /\ UNCHANGED <<kernel, infos, last, dead, known, owed, usr, passed>>

\* Slip: check_events_again is set whether or not there was a change
\* (HitShown notices).
SolibEventAgain(t) ==
  /\ Trapped(t) /\ ~singlestep /\ pc[t] = "solib"
  /\ lib' = FALSE /\ check' = TRUE
  /\ IF lib THEN Shows(t) ELSE AsksAgain(t)
  /\ UNCHANGED <<os, pend, report, pc, msg, infos, last, dead, known, owed, usr, passed>>

SolibEvent(t) ==
  /\ Trapped(t) /\ ~singlestep /\ pc[t] = "solib"
  /\ lib' = FALSE
  /\ IF lib THEN Shows(t) /\ check' = TRUE ELSE AsksAgain(t) /\ check' = FALSE
  /\ UNCHANGED <<os, pend, report, pc, msg, infos, last, dead, known, owed, usr, passed>>

ThreadEvent(t) == Trapped(t) /\ ~singlestep /\ pc[t] = "thread"

\* update_thread_list, attach_thread and AddThread.
ThreadCreated(t, n) ==
  /\ ThreadEvent(t) /\ msg[n] = "create"
  /\ msg' = Set(msg, n, "none")
  /\ IF n \in Registered
     THEN phase' = "failed" /\ UNCHANGED <<os, threads, check, known, handle>>
     ELSE /\ threads' = Append(threads, n)
          /\ os' = Set(os, n, "stop")
          /\ check' = TRUE
          /\ known' = known \cup {n}
          /\ handle' = t /\ phase' = IF t \in known THEN "go" ELSE "failed"
  /\ UNCHANGED <<pend, report, pc, lib, expired, last_status, last_signal, last, dead, owed, usr, passed>>

\* A thread that has ended by itself in the meantime is not in the list.
ThreadDied(t, n) ==
  /\ ThreadEvent(t) /\ msg[n] = "death"
  /\ msg' = Set(msg, n, "none")
  /\ IF n \in Registered
     THEN /\ ThreadExited(t, n, TRUE)
          /\ expired' = Set(expired, n, TRUE)
          /\ os' = Set(os, n, IF os[n] = "stop" THEN "dying" ELSE os[n])
          /\ report' = Set(report, n, "none")
     ELSE AsksAgain(t) /\ check' = FALSE
          /\ UNCHANGED <<os, report, threads, expired, last, dead, known>>
  /\ UNCHANGED <<pend, pc, lib, last_status, last_signal, owed, usr, passed>>

NoMessage(t) ==
  /\ ThreadEvent(t) /\ \A n \in Thread : msg[n] = "none"
  /\ AsksAgain(t)
  /\ check' = FALSE
  /\ UNCHANGED <<kernel, infos, last, dead, known, owed, usr, passed>>

BreakpointHit(t) ==
  /\ Trapped(t) /\ ~singlestep /\ pc[t] = "hit"
  /\ Shows(t)
  /\ owed' = owed \ {t}
  /\ check' = FALSE
  /\ UNCHANGED <<kernel, infos, last, dead, known, usr, passed>>

NoReason(t) ==
  /\ Trapped(t) /\ ~singlestep /\ pc[t] = "plain"
  /\ AsksAgain(t)
  /\ last_signal' = Set(last_signal, t, "none")
  /\ check' = FALSE
  /\ UNCHANGED <<kernel, threads, expired, last_status, last, dead, known, owed, usr, passed>>

\* A signal is kept for the thread, reported to the user or not.
Signaled(t) ==
  /\ last_status[t] = "usr" /\ ~expired[t]
  /\ last_signal' = Set(last_signal, t, "usr")
  /\ Shows(t) \/ AsksAgain(t)
  /\ check' = FALSE
  /\ UNCHANGED <<kernel, threads, expired, last_status, last, dead, known, owed, usr, passed>>

Proceed(t) ==
  \/ Exited(t) \/ ExitProcess(t) \/ Expired(t) \/ SingleStep(t) \/ SolibEvent(t)
  \/ \E n \in Thread : ThreadCreated(t, n) \/ ThreadDied(t, n)
  \/ NoMessage(t) \/ BreakpointHit(t) \/ NoReason(t) \/ Signaled(t)

\* wait_for_debug_event: the last signaled thread once more, or the first event
\* of the queue.  NULL and a stale thread_info are dereferenced.
WaitForDebugEvent ==
  /\ phase = "wait" /\ (check \/ events # <<>>)
  /\ LET t == IF check THEN last ELSE Head(events) IN
     IF t \in Thread THEN Proceed(t)
     ELSE phase' = "failed" /\ UNCHANGED <<kernel, infos, last, dead, check, ui, owed, usr, passed>>
  /\ events' = IF check THEN events ELSE Tail(events)
  /\ UNCHANGED <<at, singlestep>>
-----------------------------------------------------------------------------
\* UnloadProgram and RestartProgram.  The queue of inferior.c stays, its
\* thread_infos are freed.
Restart ==
  /\ phase \in {"user", "finished"}
  /\ Careful => events = <<>>
  /\ events' = [i \in 1..Len(events) |-> Stale]
  /\ os' = Alone /\ pend' = Of({}) /\ report' = Of("none")
  /\ pc' = Of("plain") /\ msg' = Of("none") /\ lib' = FALSE
  /\ threads' = <<Main>> /\ expired' = Of(FALSE)
  /\ last_status' = Of("none") /\ last_signal' = Of("none")
  /\ last' = Main /\ dead' = FALSE /\ check' = FALSE /\ singlestep' = FALSE
  /\ phase' = "user" /\ at' = 0 /\ known' = {Main} /\ handle' = Main
  /\ owed' = {} /\ usr' = Of("unsent") /\ passed' = {}

Quit ==
  /\ phase \in {"user", "finished"}
  /\ phase' = "over"
  /\ UNCHANGED <<kernel, infos, events, flags, at, ui, owed, usr, passed>>

\* The debugger has ended, and the program with it.
Ended == {"over", "failed", "crashed"}
Over == phase \in Ended /\ UNCHANGED vars

Debugger ==
  \/ GoOn \/ WaitForEvents \/ NoMoreEvents \/ \E t \in Thread : CollectEvent(t)
  \/ Look \/ Kill \/ Collect \/ AllStopped \/ WaitForDebugEvent

Runs(t) ==
  \/ HitBreakpoint(t) \/ Creates(t) \/ Dies(t) \/ Exit(t) \/ Send(t) \/ Sleep(t)

Next ==
  \/ Debugger \/ WaitWithGarbage \/ Go \/ Step \/ Restart \/ Quit \/ Over
  \/ /\ phase \notin Ended
     /\ HitSolib \/ \E t \in Thread : Runs(t) \/ Wake(t) \/ Deliver(t) \/ Stepped(t)

\* The debugger goes on, an uninterruptible sleep ends, the kernel delivers what
\* is pending, to a thread that sleeps now and then when it wakes up, and the
\* user, asked again and again, says Go in the end.
Spec ==
  /\ Init /\ [][Next]_vars
  /\ WF_vars(Debugger) /\ SF_vars(Go)
  /\ \A t \in Thread : WF_vars(Deliver(t)) /\ WF_vars(Stepped(t))
  /\ \A t \in Sleepers : SF_vars(Deliver(t)) /\ WF_vars(Wake(t))
-----------------------------------------------------------------------------
Status == {"none", "trap", "usr", "exit"}

\* The statuses wait in the thread_infos, so that no thread may be in the queue
\* twice.
TypeOK ==
  /\ os \in [Thread -> {"none", "held", "run", "disk", "step", "stop", "zombie", "dying", "gone"}]
  /\ pend \in [Thread -> SUBSET {"trap", "usr"}] /\ report \in [Thread -> Status]
  /\ pc \in [Thread -> {"plain", "hit", "solib", "thread"}]
  /\ msg \in [Thread -> {"none", "create", "death"}] /\ lib \in BOOLEAN
  /\ threads \in Seq(Thread) /\ expired \in [Thread -> BOOLEAN]
  /\ last_status \in [Thread -> Status] /\ last_signal \in [Thread -> {"none", "usr"}]
  /\ events \in Seq(Thread \cup {Stale})
  /\ last \in Thread \cup {NULL} /\ <<dead, check, singlestep>> \in BOOLEAN \X BOOLEAN \X BOOLEAN
  /\ phase \in {"user", "go", "wait", "poll", "sleep", "stop", "kill", "collect",
                "finished", "over", "failed", "crashed"}
  /\ at \in 0..Cardinality(Thread) + 1 /\ known \subseteq Thread /\ handle \in Thread
  /\ owed \subseteq Thread /\ usr \in [Thread -> {"unsent", "sent", "got"}]
  /\ passed \subseteq Thread
  /\ \A i, j \in 1..Len(events) : events[i] = events[j] => i = j \/ events[i] = Stale

\* The ASSERTs of Krn_Prog and of the layer hold and no thread_info is used
\* that is NULL or freed: "ensure we know about this thread" (Krn_Prog.mod:441).
NeverFails == phase # "failed"

\* While the user looks at the program no thread runs, also none that was created
\* since, but those that stop_all_threads found in state D: it "ensures they are
\* in T (traced) state" (thread.c:814), for which ensure_stopped has no case in
\* state D ("ignore state 'D' for a while", thread.c:873).
NobodyRuns ==
  phase = "user" => \A t \in Thread : os[t] \in {"run", "disk", "step"} => t \in passed

\* A thread that has met a breakpoint waits there until the hit has been shown,
\* in whatever order the events of other threads come: "If there are undetected
\* events, it stores them into queue" (thread.c:815).
HitsKept == \A t \in owed : os[t] = "stop" /\ pc[t] = "hit"

\* A signal that was sent to a thread of the list is in one place at any
\* moment: pending, reported, kept for the next PTRACE_CONT, or delivered.
Queued(t) == \E i \in 1..Len(events) : events[i] = t /\ last_status[t] = "usr"
SignalKept ==
  \A t \in Registered : phase \notin {"finished", "over", "failed"} /\ os[t] \notin {"zombie", "gone"} =>
    (usr[t] = "sent") =
      (1 = Cardinality({x \in 1..4 : \/ x = 1 /\ "usr" \in pend[t]
                                     \/ x = 2 /\ report[t] = "usr"
                                     \/ x = 3 /\ Queued(t)
                                     \/ x = 4 /\ last_signal[t] = "usr"}))

\* Every hit is shown in the end, though the SIGTRAP that stops the other
\* threads may hide it for a while.
HitShown == \A t \in Thread : t \in owed ~> (t \notin owed \/ phase \in {"over", "crashed"})
=============================================================================
