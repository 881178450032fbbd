------------------------------- MODULE Threads -------------------------------
(***************************************************************************)
(* Threads and the collector of the multithread run-time library:          *)
(* Lib/src/xr/xrThreads.mod (the <* IF multithread *> half), the coroutine *)
(* ring of xrnCoroutines.mod, the heap lock of xrMM.mod and the steps of   *)
(* xrO2MM.mod that walk the ring.  A thread registers itself when it       *)
(* starts and unregisters itself when it ends; the thread that runs out of *)
(* memory stops the registered ones, walks both rings and resumes them.    *)
(*                                                                         *)
(* Each thread runs its own program, pc, and threads interleave at every   *)
(* step; a critical section is entered in one step and left in another.    *)
(* Taking an element out of a ring clears its fwd, so that following fwd   *)
(* from an element that has left leads to NIL.                             *)
(***************************************************************************)
EXTENDS Integers, SequencesExt

CONSTANTS
  Thread,   \* thread descriptors, X2C_Process, and their default coroutines
  Main,     \* mainPrs
  Tagged,   \* threads the program may mark X2C_no_GC
  Failing,  \* may SuspendThread, ResumeThread and GetThreadContext fail?
  NULL      \* NIL; as an owner: the lock is free

ASSUME ThreadAssumption ==
  /\ Main \in Thread /\ NULL \notin Thread
  /\ Tagged \subseteq Thread /\ Failing \in BOOLEAN

VARIABLES
  pc,         \* where each thread is
  prs,        \* the ring of threads, from prs along fwd
  ring,       \* the ring of coroutines, from ring along fwd
  owner,      \* owner[l]: the thread inside the critical section of l
  stopped,    \* the threads the collector has suspended
  noGC,       \* the threads with X2C_no_GC in tags
  child,      \* child[t]: the thread whose controll1 t waits for
  signalled,  \* the threads whose controll1 is set
  activated,  \* the threads whose controll is set
  at,         \* t, ct or c of the collector's loops
  back,       \* p of the loop that resumes them when SuspendThread has failed
  stuck,      \* the threads that ResumeThread has failed to resume
  scanned     \* the coroutines MarkStack has scanned

vars == <<pc, prs, ring, owner, stopped, noGC, child, signalled, activated,
          at, back, stuck, scanned>>
tables == <<prs, ring, owner, stopped, noGC>>
handshake == <<child, signalled, activated>>
loops == <<at, back, stuck, scanned>>

Lock == {"heap", "list_lock", "plock"}

Init ==
  /\ pc = [t \in Thread |-> IF t = Main THEN "user" ELSE "none"]
  /\ prs = <<Main>> /\ ring = <<Main>>
  /\ owner = [l \in Lock |-> NULL]
  /\ stopped = {} /\ noGC = {}
  /\ child = [t \in Thread |-> NULL]
  /\ signalled = {} /\ activated = {}
  /\ at = Main /\ back = Main /\ stuck = {} /\ scanned = {}

Elems(r) == {r[i] : i \in 1..Len(r)}
Pos(r, x) == CHOOSE i \in 1..Len(r) : r[i] = x

\* x^.fwd, for an x of the ring r or one that has left it.
Fwd(r, x) == IF x \in Elems(r) THEN r[(Pos(r, x) % Len(r)) + 1] ELSE NULL

\* The places of startThread before the body.
Beginning ==
  {"starts", "registers", "registered", "ties", "tied", "parked"}

\* Taking an element into a ring and out of it; prs and ring move on when they
\* named the element.
Tie(r, x) == Append(r, x)
Untie(r, x) == RemoveAt(r, Pos(r, x))

\* Thread t, unless it is suspended, goes from one place of its program on.
Goes(t, from, to) ==
  t \notin stopped /\ pc[t] = from /\ pc' = [pc EXCEPT ![t] = to]

Enters(t, l) == owner[l] = NULL /\ owner' = [owner EXCEPT ![l] = t]
Leaves(l) == owner' = [owner EXCEPT ![l] = NULL]

-----------------------------------------------------------------------------
(* The life of a thread: startThread and X2C_DeleteISOProcess. *)

RegisterThread(t) ==
  \/ /\ Goes(t, "starts", "registers") /\ Enters(t, "plock")
     /\ UNCHANGED <<prs, ring, stopped, noGC, handshake, loops>>
  \/ /\ Goes(t, "registers", "registered") /\ Leaves("plock")
     /\ prs' = Tie(prs, t)
     /\ UNCHANGED <<ring, stopped, noGC, handshake, loops>>

RegisterCoroutine(t) ==
  \/ /\ Goes(t, "registered", "ties") /\ Enters(t, "list_lock")
     /\ UNCHANGED <<prs, ring, stopped, noGC, handshake, loops>>
  \/ /\ Goes(t, "ties", "tied") /\ Leaves("list_lock")
     /\ ring' = Tie(ring, t)
     /\ UNCHANGED <<prs, stopped, noGC, handshake, loops>>

Signal(t) ==
  /\ Goes(t, "tied", "parked")
  /\ signalled' = signalled \cup {t}
  /\ UNCHANGED <<tables, child, activated, loops>>

Begin(t) ==
  /\ t \in activated /\ Goes(t, "parked", "user")
  /\ UNCHANGED <<tables, handshake, loops>>

\* The body returns, or the thread calls StopMe or ExitThread.
End(t) ==
  /\ t # Main /\ Goes(t, "user", "ends")
  /\ UNCHANGED <<tables, handshake, loops>>

\* A variant of UnregisterThread: the ring of threads is not locked.
UnregisterUnlocked(t) ==
  \/ /\ Goes(t, "ends", "unregisters")
     /\ UNCHANGED <<tables, handshake, loops>>
  \/ /\ Goes(t, "unregisters", "unregistered")
     /\ prs' = Untie(prs, t)
     /\ UNCHANGED <<ring, owner, stopped, noGC, handshake, loops>>

UnregisterThread(t) ==
  \/ /\ Goes(t, "ends", "unregisters") /\ Enters(t, "plock")
     /\ UNCHANGED <<prs, ring, stopped, noGC, handshake, loops>>
  \/ /\ Goes(t, "unregisters", "unregistered") /\ Leaves("plock")
     /\ prs' = Untie(prs, t)
     /\ UNCHANGED <<ring, stopped, noGC, handshake, loops>>

UnregisterCoroutine(t) ==
  \/ /\ Goes(t, "unregistered", "unties") /\ Enters(t, "list_lock")
     /\ UNCHANGED <<prs, ring, stopped, noGC, handshake, loops>>
  \/ /\ Goes(t, "unties", "untied") /\ Leaves("list_lock")
     /\ ring' = Untie(ring, t)
     /\ UNCHANGED <<prs, stopped, noGC, handshake, loops>>

Dispose(t) ==
  \/ /\ Goes(t, "untied", "disposes") /\ Enters(t, "heap")
     /\ activated' = activated \ {t}
     /\ UNCHANGED <<prs, ring, stopped, noGC, child, signalled, loops>>
  \/ /\ Goes(t, "disposes", "none") /\ Leaves("heap")
     /\ UNCHANGED <<prs, ring, stopped, noGC, handshake, loops>>

Life(t) ==
  \/ RegisterThread(t) \/ RegisterCoroutine(t) \/ Signal(t) \/ Begin(t)
  \/ End(t) \/ UnregisterThread(t) \/ UnregisterCoroutine(t) \/ Dispose(t)

-----------------------------------------------------------------------------
(* What a running program asks for.  NEW goes through Allocate first.  *)

Create(t, u) ==
  /\ pc[u] = "none" /\ t \notin stopped /\ pc[t] = "user"
  /\ pc' = [pc EXCEPT ![t] = "creates", ![u] = "starts"]
  /\ child' = [child EXCEPT ![t] = u]
  /\ noGC' = noGC \ {u}
  /\ UNCHANGED <<prs, ring, owner, stopped, signalled, activated, loops>>

\* A variant of Created: Create returns without waiting for controll1.
CreatedAtOnce(t) ==
  /\ Goes(t, "creates", "user")
  /\ child' = [child EXCEPT ![t] = NULL]
  /\ UNCHANGED <<tables, signalled, activated, loops>>

\* Create returns when the new thread has registered.
Created(t) ==
  /\ Goes(t, "creates", "user")
  /\ child[t] \in signalled
  /\ signalled' = signalled \ {child[t]}
  /\ child' = [child EXCEPT ![t] = NULL]
  /\ UNCHANGED <<tables, activated, loops>>

\* The caller knows u once Create has returned; u has not begun.
Activate(t, u) ==
  /\ t \notin stopped /\ pc[t] = "user"
  /\ pc[u] \in Beginning /\ \A c \in Thread : child[c] # u
  /\ activated' = activated \cup {u}
  /\ UNCHANGED <<pc, tables, child, signalled, loops>>

SetGCAware(t, u, yes) ==
  /\ u \in Tagged /\ t \notin stopped /\ pc[t] = "user"
  /\ u \in Elems(prs)
  /\ noGC' = IF yes THEN noGC \ {u} ELSE noGC \cup {u}
  /\ UNCHANGED <<pc, prs, ring, owner, stopped, handshake, loops>>

\* Handler, which walks the ring of threads inside its critical section.
Handler(t) ==
  \/ /\ Goes(t, "user", "iterates") /\ Enters(t, "plock")
     /\ UNCHANGED <<prs, ring, stopped, noGC, handshake, loops>>
  \/ /\ Goes(t, "iterates", "user") /\ Leaves("plock")
     /\ UNCHANGED <<prs, ring, stopped, noGC, handshake, loops>>

\* allocate, dealloc and X2C_COLLECT around their calls of the collector.
Allocate(t) ==
  \/ /\ Goes(t, "user", "heap") /\ Enters(t, "heap")
     /\ UNCHANGED <<prs, ring, stopped, noGC, handshake, loops>>
  \/ /\ Goes(t, "heap", "user") /\ Leaves("heap")
     /\ UNCHANGED <<prs, ring, stopped, noGC, handshake, loops>>

Calls(t) == Created(t) \/ Handler(t) \/ Allocate(t)

\* A program that marks threads as it likes, and one in which a thread marks
\* only itself, for good, and then no longer creates or activates others.
AnyUser(t) ==
  \/ \E u \in Thread : Create(t, u) \/ Activate(t, u)
  \/ \E u \in Thread, yes \in BOOLEAN : SetGCAware(t, u, yes)
  \/ Calls(t)

CarefulUser(t) ==
  \/ t \notin noGC /\ \E u \in Thread : Create(t, u) \/ Activate(t, u)
  \/ SetGCAware(t, t, FALSE)
  \/ Calls(t)

-----------------------------------------------------------------------------
(* COLLECT: X2C_PrepareToGC, MarkStack and X2C_FreeAfterGC. *)

LockCoroutines(t) ==
  /\ Goes(t, "heap", "prepares") /\ Enters(t, "list_lock")
  /\ UNCHANGED <<prs, ring, stopped, noGC, handshake, loops>>

\* A variant of StartIterate: the ring of threads is not locked.
StartUnlocked(t) ==
  /\ Goes(t, "prepares", "suspends")
  /\ at' = t
  /\ UNCHANGED <<tables, handshake, back, stuck, scanned>>

StartIterate(t) ==
  /\ Goes(t, "prepares", "suspends") /\ Enters(t, "plock")
  /\ at' = t
  /\ UNCHANGED <<prs, ring, stopped, noGC, handshake, back, stuck, scanned>>

\* One turn of the loop that suspends the others: the tags of the next thread,
\* which runs on, are tested, and then it is suspended.
NextThread(t) ==
  LET u == Fwd(prs, at) IN
  /\ u # t /\ Goes(t, "suspends", IF u \in noGC THEN "suspends" ELSE "hits")
  /\ at' = u
  /\ UNCHANGED <<tables, handshake, back, stuck, scanned>>

SuspendThread(t) ==
  /\ Goes(t, "hits", "suspends")
  /\ stopped' = stopped \cup {at}
  /\ UNCHANGED <<prs, ring, owner, noGC, handshake, loops>>

SuspendFails(t) ==
  /\ Failing /\ Goes(t, "hits", "undoes")
  /\ back' = t
  /\ UNCHANGED <<tables, handshake, at, stuck, scanned>>

\* ResumeThread where its result is not looked at.
TryResume(u) ==
  \/ stopped' = stopped \ {u} /\ UNCHANGED stuck
  \/ Failing /\ stuck' = stuck \cup {u} /\ UNCHANGED stopped

\* One turn of the loop that resumes the stopped ones.  The tags it tests are
\* those of the thread that could not be suspended, and may change.
Undo(t) ==
  /\ back # at /\ Goes(t, "undoes", "undoes")
  /\ IF at \in noGC THEN UNCHANGED <<stopped, stuck>> ELSE TryResume(back)
  /\ back' = Fwd(prs, back)
  /\ UNCHANGED <<prs, ring, owner, noGC, handshake, at, scanned>>

\* A variant of UndoEnds: the coroutines stay locked.
UndoEndsLocked(t) ==
  /\ back = at /\ Goes(t, "undoes", "refused")
  /\ UNCHANGED <<tables, handshake, loops>>

\* The coroutines are unlocked and the thread traps, with plock and the heap
\* locked.
UndoEnds(t) ==
  /\ back = at /\ Goes(t, "undoes", "refused") /\ Leaves("list_lock")
  /\ UNCHANGED <<prs, ring, stopped, noGC, handshake, loops>>

StopIterate(t) ==
  /\ Fwd(prs, at) = t
  /\ Goes(t, "suspends", "unlocks") /\ Leaves("plock")
  /\ UNCHANGED <<prs, ring, stopped, noGC, handshake, loops>>

UnlockCoroutines(t) ==
  /\ Goes(t, "unlocks", "syncs") /\ Leaves("list_lock")
  /\ at' = t
  /\ UNCHANGED <<prs, ring, stopped, noGC, handshake, back, stuck, scanned>>

\* One turn of a loop over r, REPEAT ... x := x^.fwd UNTIL x = t: the walk goes
\* on, is over, or has come to NIL, which its next turn dereferences.
Walk(t, r, from, to) ==
  LET x == Fwd(r, at) IN
  \/ x \notin {t, NULL} /\ at' = x /\ Goes(t, from, from)
  \/ x = t    /\ at' = t  /\ Goes(t, from, to)
  \/ x = NULL /\ at' = at /\ Goes(t, from, "lost")

SyncThread(t) ==
  /\ Walk(t, prs, "syncs", "copies")
  /\ UNCHANGED <<tables, handshake, back, stuck, scanned>>

\* A variant of SyncFails: only the threads from the one that failed on are resumed.
SyncFailsHalfway(t) ==
  /\ Failing /\ at \notin noGC
  /\ Goes(t, "syncs", "frees")
  /\ UNCHANGED <<tables, handshake, loops>>

\* GetThreadContext fails: everybody is to be resumed before the thread traps.
SyncFails(t) ==
  /\ Failing /\ at \notin noGC
  /\ Goes(t, "syncs", "frees")
  /\ at' = t
  /\ UNCHANGED <<tables, handshake, back, stuck, scanned>>

FreeNext(t) ==
  /\ Goes(t, "frees", "skips")
  /\ IF at \in noGC THEN UNCHANGED <<stopped, stuck>> ELSE TryResume(at)
  /\ UNCHANGED <<prs, ring, owner, noGC, handshake, at, back, scanned>>

CopyJmpBuf(t) ==
  /\ Walk(t, ring, "copies", "marks")
  /\ scanned' = {}
  /\ UNCHANGED <<tables, handshake, back, stuck>>

\* A variant of MarkStack: the walk ends before the last coroutine is scanned.
MarkStackShort(t) ==
  /\ Walk(t, ring, "marks", "resumes")
  /\ scanned' = scanned \cup IF Fwd(ring, at) = t THEN {} ELSE {at}
  /\ UNCHANGED <<tables, handshake, back, stuck>>

MarkStack(t) ==
  /\ Walk(t, ring, "marks", "resumes")
  /\ scanned' = scanned \cup {at}
  /\ UNCHANGED <<tables, handshake, back, stuck>>

Resume(t) ==
  /\ Goes(t, "resumes", "steps")
  /\ stopped' = stopped \ ({at} \ noGC)
  /\ UNCHANGED <<prs, ring, owner, noGC, handshake, loops>>

\* ResumeThread fails: the thread traps, the rest stays stopped.
ResumeFails(t) ==
  /\ Failing /\ at \notin noGC
  /\ Goes(t, "resumes", "strands")
  /\ UNCHANGED <<tables, handshake, loops>>

\* t := t^.fwd, of a thread that may be running again, at the end of a turn of a
\* loop that resumes them.
Steps(t, from, again, end) ==
  LET x == Fwd(prs, at) IN
  /\ \/ x \notin {t, NULL} /\ at' = x  /\ Goes(t, from, again)
     \/ x = t    /\ at' = t  /\ Goes(t, from, end)
     \/ x = NULL /\ at' = at /\ Goes(t, from, "astray")
  /\ UNCHANGED <<tables, handshake, back, stuck, scanned>>

Step(t) ==
  \/ Steps(t, "steps", "resumes", "heap")
  \/ Steps(t, "skips", "frees", "trapped")

Collector(t) ==
  \/ LockCoroutines(t) \/ StartIterate(t) \/ NextThread(t) \/ SuspendThread(t)
  \/ SuspendFails(t) \/ Undo(t) \/ UndoEnds(t) \/ StopIterate(t)
  \/ UnlockCoroutines(t) \/ SyncThread(t) \/ SyncFails(t) \/ FreeNext(t)
  \/ CopyJmpBuf(t) \/ MarkStack(t) \/ Resume(t) \/ ResumeFails(t)
  \/ Step(t)

Next == \E t \in Thread : Life(t) \/ CarefulUser(t) \/ Collector(t)
OpenNext == \E t \in Thread : Life(t) \/ AnyUser(t) \/ Collector(t)

\* The system runs a collector that is not waiting for a lock.
Fairness == \A t \in Thread : WF_vars(Collector(t))

Spec == Init /\ [][Next]_vars /\ Fairness
OpenSpec == Init /\ [][OpenNext]_vars /\ Fairness

-----------------------------------------------------------------------------
Place == {"none", "starts", "registers", "registered", "ties", "tied",
          "parked", "user", "creates", "iterates", "ends", "unregisters",
          "unregistered", "unties", "untied", "disposes", "heap", "prepares",
          "suspends", "hits", "undoes", "refused", "unlocks", "syncs", "frees",
          "skips", "copies", "marks", "resumes", "steps", "trapped", "lost",
          "astray", "strands"}

\* Places between the suspension of the others and their resumption.
Walking == {"syncs", "copies", "marks"}

\* Places of a thread that runs, or will go on running, the program.
Program == {"user", "creates", "iterates"}

\* Where a thread owns each lock.
Inside(l) ==
  CASE l = "heap" ->
         {"disposes", "heap", "prepares", "suspends", "hits", "undoes",
          "refused", "unlocks", "syncs", "frees", "skips", "copies", "marks",
          "resumes", "steps", "trapped", "lost", "astray", "strands"}
    [] l = "list_lock" ->
         {"ties", "unties", "prepares", "suspends", "hits", "undoes", "unlocks"}
    [] l = "plock" ->
         {"registers", "unregisters", "iterates", "suspends", "hits", "undoes",
          "refused"}

\* Nobody enters a section whose lock is taken, or leaves with it, on any path
\* of COLLECT: each lock is owned exactly by the thread in its section, where
\* a thread that trapped stays in the sections it has not left.
LocksHeld ==
  \A t \in Thread, l \in Lock : (owner[l] = t) <=> (pc[t] \in Inside(l))

TypeInvariant ==
  /\ pc \in [Thread -> Place]
  /\ prs \in Seq(Thread) /\ ring \in Seq(Thread)
  /\ owner \in [Lock -> Thread \cup {NULL}]
  /\ stopped \subseteq Thread /\ noGC \subseteq Tagged
  /\ child \in [Thread -> Thread \cup {NULL}]
  /\ signalled \subseteq Thread /\ activated \subseteq Thread
  /\ at \in Thread /\ back \in Thread
  /\ stuck \subseteq Thread /\ scanned \subseteq Thread

\* While the collector walks the rings, no thread that is to be suspended runs
\* the program: not one that registered since, nor one it could start
\* (xrThreads.mod:304, "all threads are stopped"; X2C_CreateISOProcess waits
\* for controll1, startThread for controll).
MutatorsStopped ==
  \A t, u \in Thread :
    pc[t] \in Walking /\ u # t /\ u \notin noGC /\ pc[u] \in Program =>
      u \in stopped

\* The collector never stops a thread inside a critical section: whoever needs
\* that lock would wait for a thread that cannot run
\* (X2C_PrepareToGC takes list_lock and plock before it suspends).
NoLockStopped == \A l \in Lock : owner[l] # NULL => owner[l] \notin stopped

\* When the stacks have been marked, every stopped thread of the program has
\* had its stack scanned, although threads went on joining and leaving the
\* ring of coroutines (MarkStack, TieCoroutine, UntieCoroutine).
StacksScanned ==
  \A t, u \in Thread :
    pc[t] = "resumes" /\ at = t /\ pc[u] \in Program /\ u \in stopped =>
      u \in scanned

\* A thread that was stopped runs again, also after an error exit of
\* X2C_PrepareToGC, whatever threads join, leave and mark themselves meanwhile,
\* except in these ways.  It marked itself between the test of its tags and its
\* suspension (xrThreads.mod:289-290); ResumeThread failed for it, or, in
\* X2C_FreeAfterGC, for one before it (345); the collector came to NIL in a walk
\* without a lock (321, 348, or before); or the thread that could not be
\* suspended marked itself during the loop that tests its tags (293).
LeftBehind(u) ==
  \/ u \in noGC \cup stuck
  \/ \E t \in Thread : \/ pc[t] \in {"lost", "astray", "strands"}
                       \/ pc[t] = "refused" /\ at \in noGC
Resumed ==
  \A u \in Thread : u \in stopped ~> u \notin stopped \/ LeftBehind(u)

\* xrThreads.mod:304 says of the walks of X2C_PrepareToGC that no lock is
\* needed because all threads are stopped: no walk comes to NIL.
NoLockNeeded == \A t \in Thread : pc[t] # "lost"
=============================================================================
