---------------------------- MODULE ThreadsProofs ----------------------------
(***************************************************************************)
(* Proofs about Threads, for any set of threads, any choice of the ones    *)
(* that may be marked X2C_no_GC, and system calls that may fail.  They are *)
(* about OpenSpec, the programs that mark threads as they like, and so     *)
(* about Spec.                                                             *)
(***************************************************************************)
EXTENDS Threads, SequenceTheorems, TLAPS

(***************************************************************************)
(* The locks.                                                              *)
(***************************************************************************)

LockTypes ==
  /\ pc \in [Thread -> Place]
  /\ owner \in [Lock -> Thread \cup {NULL}]

LockInv == LockTypes /\ LocksHeld /\ NoLockStopped

\* The thread that is to be suspended is not the one that suspends it.
AtAnother == \A t \in Thread : pc[t] \in {"hits", "undoes"} => at # t

\* A thread that goes from one place to another keeps the locks in order if it
\* enters, leaves or keeps what the two places say.
Lawful(t, from, to) ==
  /\ t \in Thread /\ to \in Place /\ pc[t] = from /\ t \notin stopped
  /\ pc' = [pc EXCEPT ![t] = to]

Same(from, to, l) == from \in Inside(l) <=> to \in Inside(l)

LEMMA Entering ==
  ASSUME LockInv, NEW t, NEW from, NEW to, Lawful(t, from, to),
         NEW l \in Lock, Enters(t, l), to \in Inside(l),
         \A k \in Lock \ {l} : Same(from, to, k), stopped' = stopped
  PROVE  LockInv'
<1> USE ThreadAssumption DEF LockInv, LockTypes, Lawful, Enters, Lock
<1>1. LockTypes'
  OBVIOUS
<1>2. NULL \notin Thread /\ \A u \in Thread : owner[l] # u
  OBVIOUS
<1>3. \A u \in Thread \ {t} : pc'[u] = pc[u]
  OBVIOUS
<1>4. pc'[t] = to
  OBVIOUS
<1>5. owner'[l] = t /\ \A k \in Lock \ {l} : owner'[k] = owner[k]
  OBVIOUS
<1>6. LocksHeld'
  BY <1>2, <1>3, <1>4, <1>5 DEF LocksHeld, Same
<1>7. NoLockStopped'
  BY <1>5 DEF NoLockStopped
<1> QED BY <1>1, <1>6, <1>7

LEMMA Leaving ==
  ASSUME LockInv, NEW t, NEW from, NEW to, Lawful(t, from, to),
         NEW l \in Lock, Leaves(l), from \in Inside(l), to \notin Inside(l),
         \A k \in Lock \ {l} : Same(from, to, k), stopped' \subseteq stopped
  PROVE  LockInv'
<1> USE ThreadAssumption DEF LockInv, LockTypes, Lawful, Leaves, Lock
<1>1. LockTypes'
  OBVIOUS
<1>2. owner[l] = t
  BY DEF LocksHeld
<1>3. \A u \in Thread \ {t} : pc'[u] = pc[u] /\ u # NULL
  OBVIOUS
<1>4. pc'[t] = to /\ t # NULL
  OBVIOUS
<1>5. owner'[l] = NULL /\ \A k \in Lock \ {l} : owner'[k] = owner[k]
  OBVIOUS
<1>6. LocksHeld'
  BY <1>2, <1>3, <1>4, <1>5 DEF LocksHeld, Same
<1>7. NoLockStopped'
  BY <1>5 DEF NoLockStopped
<1> QED BY <1>1, <1>6, <1>7

LEMMA Staying ==
  ASSUME LockInv, NEW t, NEW from, NEW to, Lawful(t, from, to),
         owner' = owner, stopped' \subseteq stopped,
         \A k \in Lock : Same(from, to, k)
  PROVE  LockInv'
<1> USE DEF LockInv, LockTypes, Lawful, Lock
<1>1. LockTypes'
  OBVIOUS
<1>2. \A u \in Thread \ {t} : pc'[u] = pc[u]
  OBVIOUS
<1>3. pc'[t] = to
  OBVIOUS
<1>4. LocksHeld'
  BY <1>2, <1>3 DEF LocksHeld, Same
<1>5. NoLockStopped'
  BY DEF NoLockStopped
<1> QED BY <1>1, <1>4, <1>5

\* Where a thread is inside which sections.
LEMMA Sections ==
  /\ Inside("heap") = {"disposes", "heap", "prepares", "suspends", "hits", "undoes",
       "refused", "unlocks", "syncs", "frees", "skips", "copies", "marks", "resumes",
       "steps", "trapped", "lost", "astray", "strands"}
  /\ Inside("list_lock") = {"ties", "unties", "prepares", "suspends", "hits",
       "undoes", "unlocks"}
  /\ Inside("plock") = {"registers", "unregisters", "iterates", "suspends", "hits",
       "undoes", "refused"}
BY DEF Inside

\* The ways into a section, the ways out of one, and the places between which a
\* thread goes without a lock, with that of the heap, or with all of them.
WaysIn ==
  {<<"starts", "registers", "plock">>, <<"registered", "ties", "list_lock">>,
   <<"ends", "unregisters", "plock">>, <<"unregistered", "unties", "list_lock">>,
   <<"untied", "disposes", "heap">>, <<"user", "iterates", "plock">>,
   <<"user", "heap", "heap">>, <<"heap", "prepares", "list_lock">>,
   <<"prepares", "suspends", "plock">>}

WaysOut ==
  {<<"registers", "registered", "plock">>, <<"ties", "tied", "list_lock">>,
   <<"unregisters", "unregistered", "plock">>, <<"unties", "untied", "list_lock">>,
   <<"disposes", "none", "heap">>, <<"iterates", "user", "plock">>,
   <<"heap", "user", "heap">>, <<"suspends", "unlocks", "plock">>,
   <<"unlocks", "syncs", "list_lock">>, <<"undoes", "refused", "list_lock">>}

Outside == {"starts", "registered", "tied", "parked", "user", "creates", "ends",
            "unregistered", "untied", "none"}
HeapOnly == {"heap", "syncs", "frees", "skips", "copies", "marks", "resumes",
             "steps", "trapped", "lost", "astray", "strands"}
AllOwned == {"suspends", "hits", "undoes"}

LEMMA GoesIn ==
  ASSUME LockInv, NEW t \in Thread, NEW from, NEW to, NEW l,
         <<from, to, l>> \in WaysIn,
         Goes(t, from, to), Enters(t, l), stopped' = stopped
  PROVE  LockInv'
<1>1. Lawful(t, from, to)
  BY DEF Lawful, Goes, WaysIn, Place
<1>2. l \in Lock /\ to \in Inside(l) /\ \A k \in Lock \ {l} : Same(from, to, k)
  BY Sections DEF WaysIn, Lock, Same
<1> QED BY <1>1, <1>2, Entering

LEMMA GoesOut ==
  ASSUME LockInv, NEW t \in Thread, NEW from, NEW to, NEW l,
         <<from, to, l>> \in WaysOut,
         Goes(t, from, to), Leaves(l), stopped' \subseteq stopped
  PROVE  LockInv'
<1>1. Lawful(t, from, to)
  BY DEF Lawful, Goes, WaysOut, Place
<1>2. /\ l \in Lock /\ from \in Inside(l) /\ to \notin Inside(l)
      /\ \A k \in Lock \ {l} : Same(from, to, k)
  BY Sections DEF WaysOut, Lock, Same
<1> QED BY <1>1, <1>2, Leaving

LEMMA GoesOn ==
  ASSUME LockInv, NEW t \in Thread, NEW from, NEW to,
         \E places \in {Outside, HeapOnly, AllOwned} : {from, to} \subseteq places,
         Goes(t, from, to), owner' = owner, stopped' \subseteq stopped
  PROVE  LockInv'
<1>1. Lawful(t, from, to)
  BY DEF Lawful, Goes, Outside, HeapOnly, AllOwned, Place
<1>2. \A k \in Lock : Same(from, to, k)
  BY Sections DEF Outside, HeapOnly, AllOwned, Lock, Same
<1> QED BY <1>1, <1>2, Staying

LEMMA LifeKeepsLocks ==
  ASSUME LockInv, NEW t \in Thread, Life(t)
  PROVE  LockInv'
<1> USE DEF tables, handshake, loops
<1>1. CASE RegisterThread(t)
  BY <1>1, GoesIn, GoesOut DEF RegisterThread, WaysIn, WaysOut
<1>2. CASE RegisterCoroutine(t)
  BY <1>2, GoesIn, GoesOut DEF RegisterCoroutine, WaysIn, WaysOut
<1>3. CASE Signal(t)
  <2>1. Goes(t, "tied", "parked") /\ owner' = owner /\ stopped' = stopped
    BY <1>3 DEF Signal
  <2> QED BY <2>1, GoesOn DEF Outside
<1>7. CASE Begin(t)
  <2>1. Goes(t, "parked", "user") /\ owner' = owner /\ stopped' = stopped
    BY <1>7 DEF Begin
  <2> QED BY <2>1, GoesOn DEF Outside
<1>8. CASE End(t)
  <2>1. Goes(t, "user", "ends") /\ owner' = owner /\ stopped' = stopped
    BY <1>8 DEF End
  <2> QED BY <2>1, GoesOn DEF Outside
<1>4. CASE UnregisterThread(t)
  BY <1>4, GoesIn, GoesOut DEF UnregisterThread, WaysIn, WaysOut
<1>5. CASE UnregisterCoroutine(t)
  BY <1>5, GoesIn, GoesOut DEF UnregisterCoroutine, WaysIn, WaysOut
<1>6. CASE Dispose(t)
  BY <1>6, GoesIn, GoesOut DEF Dispose, WaysIn, WaysOut
<1> QED BY <1>1, <1>2, <1>3, <1>4, <1>5, <1>6, <1>7, <1>8 DEF Life

LEMMA CreateKeepsLocks ==
  ASSUME LockInv, NEW t \in Thread, NEW u \in Thread, Create(t, u)
  PROVE  LockInv'
<1> USE DEF LockInv, LockTypes, Create, loops
<1>1. LockTypes'
  BY DEF Place
<1>2. \A x \in Thread, l \in Lock : pc[x] \in Inside(l) <=> pc'[x] \in Inside(l)
  <2> TAKE x \in Thread, l \in Lock
  <2>1. CASE x = u
    BY <2>1, Sections DEF Lock
  <2>2. CASE x = t
    BY <2>2, Sections DEF Lock
  <2>3. CASE x # t /\ x # u
    BY <2>3
  <2> QED BY <2>1, <2>2, <2>3
<1>3. owner' = owner /\ stopped' = stopped
  OBVIOUS
<1>4. LocksHeld'
  BY <1>2, <1>3 DEF LocksHeld, Lock
<1>5. NoLockStopped'
  BY <1>3 DEF NoLockStopped
<1> QED BY <1>1, <1>4, <1>5

LEMMA UserKeepsLocks ==
  ASSUME LockInv, NEW t \in Thread, AnyUser(t)
  PROVE  LockInv'
<1> USE DEF tables, handshake, loops
<1>1. ASSUME NEW u \in Thread, Create(t, u) PROVE LockInv'
  BY <1>1, CreateKeepsLocks
<1>2. ASSUME NEW u \in Thread, Activate(t, u) PROVE LockInv'
  BY <1>2 DEF Activate, LockInv, LockTypes, LocksHeld, NoLockStopped
<1>3. ASSUME NEW u \in Thread, NEW yes \in BOOLEAN, SetGCAware(t, u, yes)
      PROVE  LockInv'
  BY <1>3 DEF SetGCAware, LockInv, LockTypes, LocksHeld, NoLockStopped
<1>4. CASE Created(t)
  <2>1. Goes(t, "creates", "user") /\ owner' = owner /\ stopped' = stopped
    BY <1>4 DEF Created
  <2> QED BY <2>1, GoesOn DEF Outside
<1>5. CASE Handler(t)
  BY <1>5, GoesIn, GoesOut DEF Handler, WaysIn, WaysOut
<1>6. CASE Allocate(t)
  BY <1>6, GoesIn, GoesOut DEF Allocate, WaysIn, WaysOut
<1> QED BY <1>1, <1>2, <1>3, <1>4, <1>5, <1>6 DEF AnyUser, Calls

\* The thread that suspends the others owns every lock, so it stops no owner.
LEMMA SuspendKeepsLocks ==
  ASSUME LockInv, AtAnother, NEW t \in Thread, SuspendThread(t)
  PROVE  LockInv'
<1> USE DEF LockInv, LockTypes, SuspendThread, Goes
<1>1. /\ pc' = [pc EXCEPT ![t] = "suspends"] /\ owner' = owner /\ pc[t] = "hits"
      /\ at # t /\ pc' \in [Thread -> Place]
  BY DEF AtAnother, Place
<1>2. \A l \in Lock : owner[l] = t
  BY <1>1, Sections DEF LocksHeld, Lock
<1>3. t \notin stopped'
  BY <1>1
<1>4. NoLockStopped'
  BY <1>1, <1>2, <1>3 DEF NoLockStopped
<1>5. \A x \in Thread, l \in Lock : pc'[x] \in Inside(l) <=> pc[x] \in Inside(l)
  BY <1>1, Sections DEF Lock
<1>6. LocksHeld'
  BY <1>1, <1>5 DEF LocksHeld
<1> QED BY <1>1, <1>4, <1>6

LEMMA WalkKeepsLocks ==
  ASSUME LockInv, NEW t \in Thread, NEW r, NEW from \in HeapOnly,
         NEW to \in HeapOnly, Walk(t, r, from, to),
         owner' = owner, stopped' = stopped
  PROVE  LockInv'
<1>1. Goes(t, from, from) \/ Goes(t, from, to) \/ Goes(t, from, "lost")
  BY DEF Walk
<1>2. "lost" \in HeapOnly
  BY DEF HeapOnly
<1> QED BY <1>1, <1>2, GoesOn

LEMMA StepsKeepsLocks ==
  ASSUME LockInv, NEW t \in Thread, NEW from \in HeapOnly, NEW again \in HeapOnly,
         NEW end \in HeapOnly, Steps(t, from, again, end)
  PROVE  LockInv'
<1>1. /\ Goes(t, from, again) \/ Goes(t, from, end) \/ Goes(t, from, "astray")
      /\ owner' = owner /\ stopped' = stopped
  BY DEF Steps, tables
<1>2. "astray" \in HeapOnly
  BY DEF HeapOnly
<1> QED BY <1>1, <1>2, GoesOn

LEMMA CollectorKeepsLocks ==
  ASSUME LockInv, AtAnother, NEW t \in Thread, Collector(t)
  PROVE  LockInv'
<1> USE DEF tables, handshake, loops
<1>1. CASE LockCoroutines(t)
  BY <1>1, GoesIn DEF LockCoroutines, WaysIn
<1>2. CASE StartIterate(t)
  BY <1>2, GoesIn DEF StartIterate, WaysIn
<1>3. CASE NextThread(t)
  BY <1>3, GoesOn DEF NextThread, AllOwned
<1>4. CASE SuspendThread(t)
  BY <1>4, SuspendKeepsLocks
<1>14. CASE SuspendFails(t)
  BY <1>14, GoesOn DEF SuspendFails, AllOwned
<1>15. CASE Undo(t)
  <2>1. stopped' \subseteq stopped /\ owner' = owner /\ Goes(t, "undoes", "undoes")
    BY <1>15 DEF Undo, TryResume
  <2> QED BY <2>1, GoesOn DEF AllOwned
<1>16. CASE UndoEnds(t)
  BY <1>16, GoesOut DEF UndoEnds, WaysOut
<1>17. CASE FreeNext(t)
  <2>1. stopped' \subseteq stopped /\ owner' = owner /\ Goes(t, "frees", "skips")
    BY <1>17 DEF FreeNext, TryResume
  <2> QED BY <2>1, GoesOn DEF HeapOnly
<1>5. CASE StopIterate(t)
  BY <1>5, GoesOut DEF StopIterate, WaysOut
<1>6. CASE UnlockCoroutines(t)
  BY <1>6, GoesOut DEF UnlockCoroutines, WaysOut
<1>7. CASE SyncThread(t)
  BY <1>7, WalkKeepsLocks DEF SyncThread, HeapOnly
<1>8. CASE SyncFails(t)
  BY <1>8, GoesOn DEF SyncFails, HeapOnly
<1>9. CASE CopyJmpBuf(t)
  BY <1>9, WalkKeepsLocks DEF CopyJmpBuf, HeapOnly
<1>10. CASE MarkStack(t)
  BY <1>10, WalkKeepsLocks DEF MarkStack, HeapOnly
<1>11. CASE Resume(t)
  BY <1>11, GoesOn DEF Resume, HeapOnly
<1>12. CASE ResumeFails(t)
  BY <1>12, GoesOn DEF ResumeFails, HeapOnly
<1>13. CASE Step(t)
  BY <1>13, StepsKeepsLocks DEF Step, HeapOnly
<1> QED BY <1>1, <1>2, <1>3, <1>4, <1>5, <1>6, <1>7, <1>8, <1>9, <1>10,
           <1>11, <1>12, <1>13, <1>14, <1>15, <1>16, <1>17 DEF Collector

\* Only the collector moves at, and nobody else is in COLLECT.
LEMMA OthersKeepAnother ==
  ASSUME LockInv, AtAnother, NEW t \in Thread, Life(t) \/ AnyUser(t)
  PROVE  AtAnother'
<1>1. at' = at
  BY DEF Life, RegisterThread, RegisterCoroutine, Signal, Begin, End, UnregisterThread,
     UnregisterCoroutine, Dispose, AnyUser, Create, Activate, SetGCAware, Calls, Created,
     Handler, Allocate, loops
<1>2. CASE \E u \in Thread : Create(t, u)
  BY <1>1, <1>2 DEF AtAnother, Create, LockInv, LockTypes
<1>3. CASE \/ \E u \in Thread : Activate(t, u)
           \/ \E u \in Thread, yes \in BOOLEAN : SetGCAware(t, u, yes)
  BY <1>1, <1>3 DEF AtAnother, Activate, SetGCAware
<1>4. CASE Life(t) \/ Calls(t)
  <2>1. \E from, to : Goes(t, from, to) /\ to \notin {"hits", "undoes"}
    BY <1>4 DEF Life, RegisterThread, RegisterCoroutine, Signal, Begin, End,
       UnregisterThread, UnregisterCoroutine, Dispose, Calls, Created, Handler, Allocate
  <2> QED BY <1>1, <2>1 DEF AtAnother, Goes, LockInv, LockTypes
<1> QED BY <1>2, <1>3, <1>4 DEF AnyUser

LEMMA CollectorKeepsAnother ==
  ASSUME LockInv, AtAnother, NEW t \in Thread, Collector(t)
  PROVE  AtAnother'
<1>1. /\ pc[t] \in Inside("heap")
      /\ \E to : /\ Goes(t, pc[t], to)
                 /\ to = "hits" => at' # t
                 /\ to = "undoes" => at' = at /\ pc[t] \in {"hits", "undoes"}
  BY Sections DEF Collector, LockCoroutines, StartIterate, NextThread, SuspendThread,
     SuspendFails, Undo, UndoEnds, StopIterate, UnlockCoroutines, SyncThread, SyncFails,
     FreeNext, CopyJmpBuf, MarkStack, Resume, ResumeFails, Step, Steps, Walk, Goes, loops
<1>2. PICK to : /\ Goes(t, pc[t], to)
                /\ to = "hits" => at' # t
                /\ to = "undoes" => at' = at /\ pc[t] \in {"hits", "undoes"}
  BY <1>1
<1>3. \A x \in Thread : pc'[x] = IF x = t THEN to ELSE pc[x]
  BY <1>2 DEF Goes, LockInv, LockTypes
<1>4. \A x \in Thread \ {t} : pc[x] \notin {"hits", "undoes"}
  BY <1>1, Sections DEF LockInv, LocksHeld, Lock
<1> QED BY <1>2, <1>3, <1>4 DEF AtAnother

LEMMA InitLocks == Init => LockInv /\ AtAnother
<1> SUFFICES ASSUME Init PROVE LockInv /\ AtAnother
  OBVIOUS
<1> USE ThreadAssumption DEF Init, LockInv, LockTypes
<1>1. LockTypes
  BY DEF Place
<1>2. LocksHeld
  BY Sections DEF LocksHeld, Lock
<1> QED BY <1>1, <1>2 DEF NoLockStopped, AtAnother

LEMMA StepLocks == LockInv /\ AtAnother /\ [OpenNext]_vars => (LockInv /\ AtAnother)'
<1> SUFFICES ASSUME LockInv, AtAnother, [OpenNext]_vars PROVE LockInv' /\ AtAnother'
  OBVIOUS
<1>1. CASE OpenNext
  <2>1. LockInv'
    BY <1>1, LifeKeepsLocks, UserKeepsLocks, CollectorKeepsLocks DEF OpenNext
  <2>2. AtAnother'
    BY <1>1, OthersKeepAnother, CollectorKeepsAnother DEF OpenNext
  <2> QED BY <2>1, <2>2
<1>2. CASE UNCHANGED vars
  BY <1>2 DEF vars, LockInv, LockTypes, LocksHeld, NoLockStopped, AtAnother
<1> QED BY <1>1, <1>2

LEMMA OpenLocks == OpenSpec => [](LockInv /\ AtAnother)
BY InitLocks, StepLocks, PTL DEF OpenSpec

\* Careful programs are programs.
LEMMA CarefulIsOpen == Next => OpenNext
<1> SUFFICES ASSUME Next PROVE OpenNext
  OBVIOUS
<1>1. PICK t \in Thread : Life(t) \/ CarefulUser(t) \/ Collector(t)
  BY DEF Next
<1>2. CarefulUser(t) => AnyUser(t)
  BY DEF CarefulUser, AnyUser
<1> QED BY <1>1, <1>2 DEF OpenNext

LEMMA SpecIsOpen == Spec => OpenSpec
<1>1. [Next]_vars => [OpenNext]_vars
  BY CarefulIsOpen
<1> QED BY <1>1, PTL DEF Spec, OpenSpec

\* On every path of every thread, the error exits of the collector included,
\* the locks are held by exactly the threads inside their sections
\* (xrThreads.mod, xrnCoroutines.mod, xrMM.mod).
THEOREM LocksInOrder ==
  /\ OpenSpec => []LocksHeld
  /\ Spec => []LocksHeld
BY OpenLocks, SpecIsOpen, PTL DEF LockInv

\* PrepareToGC suspends nobody who is inside a critical section, however many
\* threads come and go and whichever of them are marked X2C_no_GC.
THEOREM NoOwnerStopped ==
  /\ OpenSpec => []NoLockStopped
  /\ Spec => []NoLockStopped
BY OpenLocks, SpecIsOpen, PTL DEF LockInv

(***************************************************************************)
(* The rings and the collector's walks over them.                          *)
(***************************************************************************)


Once(r) == \A i, j \in 1..Len(r) : r[i] = r[j] => i = j

\* A ring without repetitions.
IsRing(r) == r \in Seq(Thread) /\ Once(r)

\* Along fwd from t, u comes before x.
Passed(r, t, x, u) ==
  LET i == Pos(r, t)  j == Pos(r, x)  k == Pos(r, u)
  IN  IF i <= j THEN i <= k /\ k < j ELSE i <= k \/ k < j

\* Where a thread is in the ring of threads, and its coroutine in its ring.
OutOfPrs == {"none", "starts", "registers", "unregistered", "unties", "untied",
             "disposes"}
OutOfRing == {"none", "starts", "registers", "registered", "ties", "untied",
              "disposes"}

\* The rings hold the threads that their places say, once each.
Members ==
  /\ IsRing(prs) /\ \A t \in Thread : t \in Elems(prs) <=> pc[t] \notin OutOfPrs
  /\ IsRing(ring) /\ \A t \in Thread : t \in Elems(ring) <=> pc[t] \notin OutOfRing

\* The loop that suspends the others and the one that resumes them stay in the
\* ring of threads, which plock keeps as it is.
SuspendsInRing ==
  \A t \in Thread :
    /\ pc[t] \in AllOwned => at \in Elems(prs)
    /\ pc[t] = "undoes" => back \in Elems(prs)

\* MarkStack walks over a ring that others tie into and untie from: the stopped
\* ones that it has passed are scanned, unless the ring has lost it.
MarksInRing ==
  \A t \in Thread : pc[t] = "marks" =>
    /\ at \notin Elems(ring) => pc[at] = "untied"
    /\ at \in Elems(ring) =>
         \A u \in stopped \cap Elems(ring) : Passed(ring, t, at, u) => u \in scanned

RingInv ==
  /\ LockInv /\ AtAnother /\ TypeInvariant /\ Members
  /\ SuspendsInRing /\ MarksInRing /\ StacksScanned

(***************************************************************************)
(* Programs in which a thread marks only itself.                           *)
(***************************************************************************)

\* From the place where it starts to controll1 a thread has its creator waiting,
\* and until it is known to its creator nobody sets its controll.
HandsShaken ==
  /\ \A u \in signalled : pc[u] = "parked" /\ \E c \in Thread : child[c] = u
  /\ \A c \in Thread : child[c] # NULL =>
       pc[c] = "creates" /\ pc[child[c]] \in Beginning /\ child[c] \notin activated
  /\ \A u \in Thread : pc[u] \in Beginning \ {"parked"} =>
       u \notin signalled /\ \E c \in Thread : child[c] = u
  /\ \A u \in activated :
       pc[u] \notin {"none", "disposes"} \cup (Beginning \ {"parked"})

\* The threads that the loop has passed, and between two turns the one it is
\* at, are suspended or not to be.
PassedAreStopped ==
  \A t \in Thread : pc[t] \in {"suspends", "hits"} =>
    \A u \in Elems(prs) :
      Passed(prs, t, at, u) \/ (pc[t] = "suspends" /\ u = at) =>
        u = t \/ u \in noGC \/ u \in stopped

\* While the collector walks, whoever may run on is not in the program, and
\* cannot get there: it has registered too late to have been activated.
NobodyElseRuns ==
  \A t, u \in Thread :
    pc[t] \in Walking \cup {"unlocks"} /\ u # t /\ u \notin noGC /\ u \notin stopped =>
      pc[u] \notin Program /\ (pc[u] = "parked" => u \notin activated)

CarefulInv == RingInv /\ HandsShaken /\ PassedAreStopped /\ NobodyElseRuns

(***************************************************************************)
(* Rings as sequences.                                                     *)
(***************************************************************************)

LEMMA PosProperties ==
  ASSUME NEW r, IsRing(r), NEW x \in Elems(r)
  PROVE  /\ Len(r) \in Nat /\ Pos(r, x) \in 1..Len(r) /\ r[Pos(r, x)] = x /\ x \in Thread
         /\ \A i \in 1..Len(r) : r[i] = x => i = Pos(r, x)
<1>1. \E i \in 1..Len(r) : r[i] = x
  BY DEF Elems
<1>2. Pos(r, x) \in 1..Len(r) /\ r[Pos(r, x)] = x
  BY <1>1 DEF Pos
<1>3. \A i \in 1..Len(r) : r[i] \in Thread
  BY ElementOfSeq DEF IsRing
<1>4. Len(r) \in Nat
  BY LenProperties DEF IsRing
<1> QED BY <1>2, <1>3, <1>4 DEF IsRing, Once

\* fwd of an element of the ring is the next one, and of the last the first.
LEMMA FwdProperties ==
  ASSUME NEW r, IsRing(r), NEW x \in Elems(r)
  PROVE  /\ Fwd(r, x) \in Elems(r)
         /\ Pos(r, Fwd(r, x)) = IF Pos(r, x) = Len(r) THEN 1 ELSE Pos(r, x) + 1
<1>1. PICK n \in Nat, i \in Nat : n = Len(r) /\ i = Pos(r, x) /\ i \in 1..n
  BY PosProperties
<1>2. (i % n) + 1 = IF i = n THEN 1 ELSE i + 1
  <2>0. i \in 1..n
    BY <1>1
  <2>1. CASE i = n
    BY <2>0, <2>1
  <2>2. CASE i < n
    BY <2>0, <2>2
  <2> QED BY <2>0, <2>1, <2>2
<1>3. PICK k \in 1..n : k = (i % n) + 1
  <2>1. i \in 1..n
    BY <1>1
  <2> QED BY <1>2, <2>1
<1>4. Fwd(r, x) = r[k]
  BY <1>1, <1>3 DEF Fwd
<1>5. Fwd(r, x) \in Elems(r)
  BY <1>1, <1>4 DEF Elems
<1>6. Pos(r, Fwd(r, x)) = k
  BY <1>1, <1>4, <1>5, PosProperties
<1> QED BY <1>1, <1>2, <1>3, <1>5, <1>6

\* At the start of a walk nobody has been passed.
LEMMA NonePassed ==
  ASSUME NEW r, IsRing(r), NEW t \in Elems(r), NEW u \in Elems(r)
  PROVE  ~Passed(r, t, t, u)
<1>1. Pos(r, t) \in Int /\ Pos(r, u) \in Int
  BY PosProperties
<1> QED BY <1>1 DEF Passed

\* One turn of a walk passes the element that it leaves, and the last turn has
\* passed them all.
LEMMA WalkPasses ==
  ASSUME NEW r, IsRing(r), NEW t \in Elems(r), NEW x \in Elems(r), NEW u \in Elems(r)
  PROVE  /\ Fwd(r, x) # t /\ Passed(r, t, Fwd(r, x), u) => Passed(r, t, x, u) \/ u = x
         /\ Fwd(r, x) = t => Passed(r, t, x, u) \/ u = x
<1> DEFINE y == Fwd(r, x)
<1>1. y \in Elems(r)
  BY FwdProperties
<1>2. PICK n \in Nat, i \in Nat, j \in Nat, k \in Nat, l \in Nat :
        /\ {i, j, k, l} \subseteq 1..n
        /\ n = Len(r) /\ i = Pos(r, t) /\ j = Pos(r, x) /\ k = Pos(r, u) /\ l = Pos(r, y)
        /\ r[i] = t /\ r[j] = x /\ r[k] = u /\ r[l] = y
  <2>1. /\ Pos(r, t) \in 1..Len(r) /\ r[Pos(r, t)] = t
        /\ Pos(r, x) \in 1..Len(r) /\ r[Pos(r, x)] = x
        /\ Pos(r, u) \in 1..Len(r) /\ r[Pos(r, u)] = u
        /\ Pos(r, y) \in 1..Len(r) /\ r[Pos(r, y)] = y
        /\ Len(r) \in Nat
    BY <1>1, PosProperties
  <2> HIDE DEF y
  <2> QED BY <2>1
<1>3. l = IF j = n THEN 1 ELSE j + 1
  BY <1>2, FwdProperties
<1>4. /\ Passed(r, t, x, u) <=> IF i <= j THEN i <= k /\ k < j ELSE i <= k \/ k < j
      /\ Passed(r, t, y, u) <=> IF i <= l THEN i <= k /\ k < l ELSE i <= k \/ k < l
  BY <1>2 DEF Passed
<1>5. (y = t => l = i) /\ (l = i => y = t) /\ (k = j => u = x)
  <2>1. y = t => l = i
    BY <1>2
  <2>2. l = i => y = t
    BY <1>2
  <2> QED BY <1>2, <2>1, <2>2
<1>5a. i \in 1..n /\ j \in 1..n /\ k \in 1..n
  BY <1>2
<1> HIDE DEF y
<1>6. y # t /\ Passed(r, t, y, u) => Passed(r, t, x, u) \/ u = x
  BY <1>3, <1>4, <1>5, <1>5a
<1>7. y = t => Passed(r, t, x, u) \/ u = x
  BY <1>3, <1>4, <1>5, <1>5a
<1> QED BY <1>6, <1>7 DEF y

\* Tying an element in keeps the others in their order.
LEMMA TieKeepsOrder ==
  ASSUME NEW r, IsRing(r), NEW y \in Thread, y \notin Elems(r)
  PROVE  /\ IsRing(Tie(r, y))
         /\ Elems(Tie(r, y)) = Elems(r) \cup {y}
         /\ \A t, x, u \in Elems(r) : Passed(Tie(r, y), t, x, u) <=> Passed(r, t, x, u)
<1>1. PICK n \in Nat : n = Len(r)
  BY LenProperties DEF IsRing
<1>2. PICK q : /\ q = Tie(r, y) /\ q \in Seq(Thread) /\ Len(q) = n+1 /\ q[n+1] = y
               /\ \A i \in 1..n : q[i] = r[i]
  <2>1. /\ Append(r, y) \in Seq(Thread) /\ Len(Append(r, y)) = Len(r)+1
        /\ \A i \in 1..Len(r) : Append(r, y)[i] = r[i]
        /\ Append(r, y)[Len(r)+1] = y
    BY AppendProperties DEF IsRing
  <2> QED BY <1>1, <2>1 DEF Tie
<1>3. \A i \in 1..n+1 : i = n+1 \/ i \in 1..n
  OBVIOUS
<1>4. Once(q)
  BY <1>1, <1>2, <1>3 DEF Once, IsRing, Elems
<1>5. Elems(q) = Elems(r) \cup {y}
  <2>1. ASSUME NEW x \in Elems(q) PROVE x \in Elems(r) \cup {y}
    BY <1>1, <1>2, <1>3 DEF Elems
  <2>2. ASSUME NEW x \in Elems(r) PROVE x \in Elems(q)
    <3>1. PICK i \in 1..n : x = r[i]
      BY <1>1 DEF Elems
    <3>2. i \in 1..n+1 /\ q[i] = x
      BY <3>1, <1>2
    <3> QED BY <3>2, <1>2 DEF Elems
  <2>3. y \in Elems(q)
    BY <1>1, <1>2 DEF Elems
  <2> QED BY <2>1, <2>2, <2>3
<1>6. IsRing(q)
  BY <1>2, <1>4 DEF IsRing
<1>7. ASSUME NEW x \in Elems(r) PROVE Pos(q, x) = Pos(r, x)
  <2>1. Pos(r, x) \in 1..n /\ r[Pos(r, x)] = x
    BY <1>1, PosProperties
  <2>2. Pos(r, x) \in 1..n+1 /\ q[Pos(r, x)] = x
    BY <1>2, <2>1
  <2> QED BY <1>2, <1>5, <1>6, <2>2, PosProperties
<1>8. \A t, x, u \in Elems(r) : Passed(q, t, x, u) <=> Passed(r, t, x, u)
  BY <1>7 DEF Passed
<1> QED BY <1>2, <1>5, <1>6, <1>8

\* Untying an element keeps the others in their order.
LEMMA UntieKeepsOrder ==
  ASSUME NEW r, IsRing(r), NEW y \in Elems(r)
  PROVE  /\ IsRing(Untie(r, y))
         /\ Elems(Untie(r, y)) = Elems(r) \ {y}
         /\ \A t, x, u \in Elems(r) \ {y} :
              Passed(Untie(r, y), t, x, u) <=> Passed(r, t, x, u)
<1>1. PICK n \in Nat, m \in Nat : m \in 1..n /\ n = Len(r) /\ m = Pos(r, y) /\ r[m] = y
  BY PosProperties
<1>2. m \in 1..n /\ r \in Seq(Thread) /\ \A i \in 1..n : r[i] \in Thread
  BY <1>1, ElementOfSeq DEF IsRing
<1>3. PICK q : /\ q = Untie(r, y) /\ q \in Seq(Thread) /\ Len(q) = n-1
               /\ \A i \in 1..n-1 : q[i] = IF i < m THEN r[i] ELSE r[i+1]
  <2>1. PICK front \in Seq(Thread) :
          /\ front = SubSeq(r, 1, m-1) /\ Len(front) = m-1
          /\ \A i \in 1..m-1 : front[i] = r[i]
    <3>1. \A i \in 1..m-1 : r[i] \in Thread
      BY <1>2
    <3>2. 1 \in Int /\ m-1 \in Int /\ 1 <= (m-1)+1
      BY <1>2
    <3>3. /\ SubSeq(r, 1, m-1) \in Seq(Thread)
          /\ Len(SubSeq(r, 1, m-1)) = IF 1 <= m-1 THEN (m-1)-1+1 ELSE 0
          /\ \A i \in 1..(m-1)-1+1 : SubSeq(r, 1, m-1)[i] = r[1+i-1]
      BY <1>1, <1>2, <3>1, <3>2, SubSeqProperties
    <3>4. (m-1)-1+1 = m-1 /\ \A i \in 1..m-1 : 1+i-1 = i
      BY <1>2
    <3>5. Len(SubSeq(r, 1, m-1)) = m-1
      BY <1>2, <3>3
    <3>6. \A i \in 1..m-1 : SubSeq(r, 1, m-1)[i] = r[i]
      BY <3>3, <3>4
    <3> QED BY <3>3, <3>5, <3>6
  <2>2. PICK rest \in Seq(Thread) :
          /\ rest = SubSeq(r, m+1, n) /\ Len(rest) = n-m
          /\ \A i \in 1..n-m : rest[i] = r[m+i]
    <3>1. \A i \in m+1..n : r[i] \in Thread
      BY <1>2
    <3>3. /\ SubSeq(r, m+1, n) \in Seq(Thread)
          /\ Len(SubSeq(r, m+1, n)) = IF m+1 <= n THEN n-(m+1)+1 ELSE 0
          /\ \A i \in 1..n-(m+1)+1 : SubSeq(r, m+1, n)[i] = r[(m+1)+i-1]
      BY <1>1, <1>2, <3>1, SubSeqProperties
    <3>4. n-(m+1)+1 = n-m /\ \A i \in 1..n-m : (m+1)+i-1 = m+i
      BY <1>2
    <3>5. Len(SubSeq(r, m+1, n)) = n-m
      BY <1>2, <3>3
    <3>6. \A i \in 1..n-m : SubSeq(r, m+1, n)[i] = r[m+i]
      BY <3>3, <3>4
    <3> QED BY <3>3, <3>5, <3>6
  <2>3. /\ front \o rest \in Seq(Thread)
        /\ Len(front \o rest) = Len(front) + Len(rest)
        /\ \A i \in 1..Len(front) + Len(rest) :
             (front \o rest)[i] = IF i <= Len(front) THEN front[i] ELSE rest[i - Len(front)]
    BY ConcatProperties
  <2>4. Untie(r, y) = front \o rest
    BY <1>1, <2>1, <2>2 DEF Untie, RemoveAt
  <2>5. (m-1) + (n-m) = n-1
    BY <1>2
  <2>6. Len(Untie(r, y)) = n-1 /\ Untie(r, y) \in Seq(Thread)
    BY <2>1, <2>2, <2>3, <2>4, <2>5
  <2>7. ASSUME NEW i \in 1..n-1
        PROVE  Untie(r, y)[i] = IF i < m THEN r[i] ELSE r[i+1]
    <3>1. Untie(r, y)[i] = IF i <= m-1 THEN front[i] ELSE rest[i-(m-1)]
      BY <2>1, <2>2, <2>3, <2>4, <2>5
    <3>2. CASE i < m
      <4>1. i \in 1..m-1
        BY <1>2, <3>2
      <4> QED BY <2>1, <3>1, <3>2, <4>1
    <3>3. CASE ~(i < m)
      <4>1. i-(m-1) \in 1..n-m /\ m+(i-(m-1)) = i+1 /\ ~(i <= m-1)
        BY <1>2, <3>3
      <4> QED BY <2>2, <3>1, <3>3, <4>1
    <3> QED BY <3>2, <3>3
  <2> QED BY <2>6, <2>7
<1>4. Once(q)
  <2> SUFFICES ASSUME NEW i \in 1..n-1, NEW j \in 1..n-1, q[i] = q[j] PROVE i = j
    BY <1>3 DEF Once
  <2>1. PICK a \in 1..n : a = IF i < m THEN i ELSE i+1
    BY <1>2
  <2>2. PICK b \in 1..n : b = IF j < m THEN j ELSE j+1
    BY <1>2
  <2>3. r[a] = r[b]
    BY <1>3, <2>1, <2>2
  <2>4. a = b
    BY <1>1, <2>3 DEF IsRing, Once
  <2> QED BY <2>1, <2>2, <2>4
<1>5. IsRing(q)
  BY <1>3, <1>4 DEF IsRing
<1>6. ASSUME NEW x \in Elems(r), x # y
      PROVE  /\ x \in Elems(q)
             /\ Pos(r, x) \in 1..n /\ Pos(r, x) # m
             /\ Pos(q, x) = IF Pos(r, x) < m THEN Pos(r, x) ELSE Pos(r, x) - 1
  <2>1. PICK k \in 1..n : k = Pos(r, x) /\ r[k] = x /\ k # m
    BY <1>1, <1>6, PosProperties
  <2>2. PICK l \in 1..n-1 : l = IF k < m THEN k ELSE k-1
    BY <1>2, <2>1
  <2>3. q[l] = x
    BY <1>3, <2>1, <2>2
  <2>4. x \in Elems(q)
    BY <1>3, <2>3 DEF Elems
  <2>5. Pos(q, x) = l
    BY <1>3, <1>5, <2>3, <2>4, PosProperties
  <2> QED BY <2>1, <2>2, <2>4, <2>5
<1>7. ASSUME NEW x \in Elems(q) PROVE x \in Elems(r) \ {y}
  <2>1. PICK i \in 1..n-1 : x = q[i]
    BY <1>3 DEF Elems
  <2>2. PICK k \in 1..n : k = (IF i < m THEN i ELSE i+1) /\ k # m
    BY <1>2
  <2>3. x = r[k]
    BY <1>3, <2>1, <2>2
  <2>4. x # y
    BY <1>1, <2>2, <2>3 DEF IsRing, Once
  <2> QED BY <1>1, <2>3, <2>4 DEF Elems
<1>8. Elems(q) = Elems(r) \ {y}
  BY <1>6, <1>7
<1>9. ASSUME NEW t \in Elems(r) \ {y}, NEW x \in Elems(r) \ {y}, NEW u \in Elems(r) \ {y}
      PROVE  Passed(q, t, x, u) <=> Passed(r, t, x, u)
  <2>1. PICK i \in 1..n : i = Pos(r, t) /\ i # m /\ Pos(q, t) = IF i < m THEN i ELSE i-1
    BY <1>6
  <2>2. PICK j \in 1..n : j = Pos(r, x) /\ j # m /\ Pos(q, x) = IF j < m THEN j ELSE j-1
    BY <1>6
  <2>3. PICK k \in 1..n : k = Pos(r, u) /\ k # m /\ Pos(q, u) = IF k < m THEN k ELSE k-1
    BY <1>6
  <2> QED BY <2>1, <2>2, <2>3 DEF Passed
<1> QED BY <1>3, <1>5, <1>8, <1>9

(***************************************************************************)
(* The steps of the threads outside COLLECT.                               *)
(***************************************************************************)

\* The places of COLLECT.
Collecting == Inside("heap") \ {"heap", "disposes"}

LEMMA CollectingPlaces ==
  Collecting = {"prepares", "suspends", "hits", "undoes", "refused", "unlocks",
                "syncs", "frees", "skips", "copies", "marks", "resumes", "steps",
                "trapped", "lost", "astray", "strands"}
BY Sections DEF Collecting

\* What such a step may do: thread t ties itself into a ring or out of one, and
\* it is not in COLLECT before or after.
Elsewhere(t) ==
  /\ UNCHANGED <<at, back, stuck, stopped, scanned>>
  /\ \A u \in Thread : pc'[u] \in Collecting \/ pc[u] \in Collecting => pc'[u] = pc[u]
  /\ \A u \in Thread : pc[u] = "untied" /\ pc'[u] # "untied" => owner["heap"] = NULL
  /\ \A u \in stopped : pc'[u] \in Program => pc[u] \in Program
  /\ prs' = prs \/ pc[t] \in {"registers", "unregisters"}
  /\ \/ ring' = ring
     \/ pc[t] = "ties" /\ t \notin stopped /\ ring' = Tie(ring, t)
     \/ pc[t] = "unties" /\ pc'[t] = "untied" /\ ring' = Untie(ring, t)

LEMMA ElsewhereKeeps ==
  ASSUME RingInv, Members', NEW t \in Thread, Elsewhere(t)
  PROVE  SuspendsInRing' /\ MarksInRing' /\ StacksScanned'
<1>0. /\ LockInv /\ TypeInvariant /\ Members
      /\ UNCHANGED <<at, back, stopped, scanned>>
      /\ \A u \in Thread : pc'[u] \in AllOwned \cup {"marks", "resumes"} => pc'[u] = pc[u]
      /\ at \in Thread /\ stopped \subseteq Thread
  BY CollectingPlaces DEF RingInv, Elsewhere, TypeInvariant, AllOwned
<1>1. SuspendsInRing'
  <2> SUFFICES ASSUME NEW x \in Thread, pc'[x] \in AllOwned
               PROVE  at' \in Elems(prs') /\ (pc'[x] = "undoes" => back' \in Elems(prs'))
    BY DEF SuspendsInRing, AllOwned
  <2>1. /\ pc[x] \in AllOwned /\ pc'[x] = pc[x]
        /\ at \in Elems(prs) /\ (pc[x] = "undoes" => back \in Elems(prs))
    BY <1>0 DEF RingInv, SuspendsInRing
  <2>2. owner["plock"] = x
    BY <1>0, <2>1, Sections DEF LockInv, LocksHeld, Lock, AllOwned
  <2>3. pc[t] \notin {"registers", "unregisters"}
    BY <1>0, <2>1, <2>2, Sections DEF LockInv, LocksHeld, Lock, AllOwned
  <2> QED BY <1>0, <2>1, <2>3 DEF Elsewhere
<1>2. MarksInRing'
  <2> SUFFICES ASSUME NEW x \in Thread, pc'[x] = "marks"
               PROVE  /\ at' \notin Elems(ring') => pc'[at'] = "untied"
                      /\ at' \in Elems(ring') =>
                           \A u \in stopped' \cap Elems(ring') :
                             Passed(ring', x, at', u) => u \in scanned'
    BY DEF MarksInRing
  <2>1. /\ pc[x] = "marks" /\ x \in Elems(ring)
        /\ at \notin Elems(ring) => pc[at] = "untied"
        /\ at \in Elems(ring) =>
             \A u \in stopped \cap Elems(ring) : Passed(ring, x, at, u) => u \in scanned
    BY <1>0 DEF RingInv, MarksInRing, Members, OutOfRing
  <2>2. pc[at] = "untied" => pc'[at] = "untied"
    <3>1. owner["heap"] = x /\ x # NULL
      BY <1>0, <2>1, Sections, ThreadAssumption DEF LockInv, LocksHeld, Lock
    <3> QED BY <1>0, <3>1 DEF Elsewhere
  <2>3. IsRing(ring) /\ \A u \in Thread : u \in Elems(ring) <=> pc[u] \notin OutOfRing
    BY <1>0 DEF Members
  <2>4. CASE ring' = ring
    BY <1>0, <2>1, <2>2, <2>4
  <2>5. CASE pc[t] = "ties" /\ t \notin stopped /\ ring' = Tie(ring, t)
    <3>1. t \notin Elems(ring)
      BY <2>3, <2>5 DEF OutOfRing
    <3>2. /\ Elems(ring') = Elems(ring) \cup {t}
          /\ \A a, y, u \in Elems(ring) : Passed(ring', a, y, u) <=> Passed(ring, a, y, u)
      BY <2>3, <2>5, <3>1, TieKeepsOrder
    <3>3. at # t
      BY <2>1, <2>5, <3>1
    <3>4. ASSUME at \in Elems(ring), NEW u \in stopped \cap Elems(ring'),
                 Passed(ring', x, at, u)
          PROVE  u \in scanned
      <4>1. u \in Elems(ring)
        BY <2>5, <3>2
      <4> QED BY <2>1, <3>2, <3>4, <4>1
    <3> QED BY <1>0, <2>1, <2>2, <3>2, <3>3, <3>4
  <2>6. CASE pc[t] = "unties" /\ pc'[t] = "untied" /\ ring' = Untie(ring, t)
    <3>1. t \in Elems(ring) /\ t # x
      BY <2>1, <2>3, <2>6 DEF OutOfRing
    <3>2. /\ Elems(ring') = Elems(ring) \ {t}
          /\ \A a, y, u \in Elems(ring) \ {t} :
               Passed(ring', a, y, u) <=> Passed(ring, a, y, u)
      BY <2>3, <2>6, <3>1, UntieKeepsOrder
    <3>3. at \notin Elems(ring') => pc'[at] = "untied"
      BY <2>1, <2>2, <2>6, <3>2
    <3>4. ASSUME at \in Elems(ring'), NEW u \in stopped \cap Elems(ring'),
                 Passed(ring', x, at, u)
          PROVE  u \in scanned
      BY <2>1, <3>1, <3>2, <3>4
    <3> QED BY <1>0, <3>3, <3>4
  <2> QED BY <2>4, <2>5, <2>6 DEF Elsewhere
<1>3. StacksScanned'
  <2>1. \A x \in Thread : pc'[x] = "resumes" => pc[x] = "resumes"
    BY <1>0
  <2>2. \A u \in stopped : pc'[u] \in Program => pc[u] \in Program
    BY DEF Elsewhere
  <2> QED BY <1>0, <2>1, <2>2 DEF RingInv, StacksScanned
<1> QED BY <1>1, <1>2, <1>3

\* A step that leaves the rings alone and takes nobody across their bounds.
LEMMA SameMembers ==
  ASSUME Members, prs' = prs, ring' = ring,
         \A u \in Thread : /\ pc'[u] \in OutOfPrs <=> pc[u] \in OutOfPrs
                           /\ pc'[u] \in OutOfRing <=> pc[u] \in OutOfRing
  PROVE  Members'
<1>1. /\ IsRing(prs) /\ IsRing(ring)
      /\ \A u \in Thread : u \in Elems(prs) <=> pc[u] \notin OutOfPrs
      /\ \A u \in Thread : u \in Elems(ring) <=> pc[u] \notin OutOfRing
  BY DEF Members
<1>2. /\ IsRing(prs') /\ IsRing(ring')
      /\ \A u \in Thread : u \in Elems(prs') <=> pc'[u] \notin OutOfPrs
      /\ \A u \in Thread : u \in Elems(ring') <=> pc'[u] \notin OutOfRing
  BY <1>1
<1> QED BY <1>2 DEF Members, IsRing, Once

\* A thread that goes from one place to another outside COLLECT, and does
\* not come back into the program while it is stopped.
OutsideWays ==
  {<<"starts", "registers">>, <<"registered", "ties">>, <<"tied", "parked">>,
   <<"parked", "user">>, <<"user", "ends">>, <<"ends", "unregisters">>,
   <<"unregistered", "unties">>, <<"untied", "disposes">>, <<"disposes", "none">>,
   <<"creates", "user">>, <<"user", "iterates">>, <<"iterates", "user">>,
   <<"user", "heap">>, <<"heap", "user">>}

LEMMA WayKeeps ==
  ASSUME RingInv, NEW t \in Thread, NEW from, NEW to, <<from, to>> \in OutsideWays,
         Goes(t, from, to), UNCHANGED <<prs, ring, stopped, at, back, stuck, scanned>>,
         from = "untied" => owner["heap"] = NULL
  PROVE  /\ pc' \in [Thread -> Place]
         /\ Members' /\ SuspendsInRing' /\ MarksInRing' /\ StacksScanned'
<1>0. /\ pc \in [Thread -> Place] /\ t \notin stopped /\ pc[t] = from
      /\ pc' = [pc EXCEPT ![t] = to] /\ Members /\ stopped \subseteq Thread
  BY DEF RingInv, TypeInvariant, Goes
<1>1. \A u \in Thread : pc'[u] = IF u = t THEN to ELSE pc[u]
  BY <1>0
<1>2. /\ to \in Place /\ from \notin Collecting /\ to \notin Collecting
      /\ from \in OutOfPrs <=> to \in OutOfPrs
      /\ from \in OutOfRing <=> to \in OutOfRing
  BY CollectingPlaces DEF OutsideWays, OutOfPrs, OutOfRing, Place
<1>3. pc' \in [Thread -> Place]
  BY <1>0, <1>2
<1>4. Members'
  BY <1>0, <1>1, <1>2, SameMembers
<1>5. Elsewhere(t)
  BY <1>0, <1>1, <1>2 DEF Elsewhere
<1> QED BY <1>3, <1>4, <1>5, ElsewhereKeeps

Kept == TypeInvariant /\ Members /\ SuspendsInRing /\ MarksInRing /\ StacksScanned

\* RegisterThread and UnregisterThread inside plock.
LEMMA PrsKept ==
  ASSUME RingInv, NEW t \in Thread, UNCHANGED <<ring, stopped, noGC, handshake, loops>>,
         Leaves("plock"),
         \/ Goes(t, "registers", "registered") /\ prs' = Tie(prs, t)
         \/ Goes(t, "unregisters", "unregistered") /\ prs' = Untie(prs, t)
  PROVE  Kept'
<1> DEFINE to == IF pc[t] = "registers" THEN "registered" ELSE "unregistered"
<1>0. /\ TypeInvariant /\ Members /\ pc \in [Thread -> Place] /\ t \notin stopped
      /\ pc[t] \in {"registers", "unregisters"} /\ pc' = [pc EXCEPT ![t] = to]
      /\ stopped \subseteq Thread
  BY DEF RingInv, TypeInvariant, Goes
<1>1. \A u \in Thread : pc'[u] = IF u = t THEN to ELSE pc[u]
  BY <1>0
<1>2. /\ IsRing(prs) /\ \A u \in Thread : u \in Elems(prs) <=> pc[u] \notin OutOfPrs
      /\ IsRing(ring) /\ \A u \in Thread : u \in Elems(ring) <=> pc[u] \notin OutOfRing
  BY <1>0 DEF Members
<1>3. /\ IsRing(prs')
      /\ \A u \in Thread : u \in Elems(prs') <=> pc'[u] \notin OutOfPrs
  <2>1. CASE pc[t] = "registers"
    <3>1. prs' = Tie(prs, t) /\ t \notin Elems(prs)
      BY <1>2, <2>1 DEF Goes, OutOfPrs
    <3>2. IsRing(prs') /\ Elems(prs') = Elems(prs) \cup {t}
      BY <1>2, <3>1, TieKeepsOrder
    <3> QED BY <1>1, <1>2, <2>1, <3>2 DEF OutOfPrs
  <2>2. CASE pc[t] = "unregisters"
    <3>1. prs' = Untie(prs, t) /\ t \in Elems(prs)
      BY <1>2, <2>2 DEF Goes, OutOfPrs
    <3>2. IsRing(prs') /\ Elems(prs') = Elems(prs) \ {t}
      BY <1>2, <3>1, UntieKeepsOrder
    <3> QED BY <1>1, <1>2, <2>2, <3>2 DEF OutOfPrs
  <2> QED BY <1>0, <2>1, <2>2
<1>4. Members'
  <2>1. \A u \in Thread : pc'[u] \in OutOfRing <=> pc[u] \in OutOfRing
    BY <1>0, <1>1 DEF OutOfRing
  <2>2. /\ IsRing(ring') /\ \A u \in Thread : u \in Elems(ring') <=> pc'[u] \notin OutOfRing
    BY <1>2, <2>1
  <2> QED BY <1>3, <2>2 DEF Members, IsRing, Once
<1>5. TypeInvariant'
  <2>1. pc' \in [Thread -> Place]
    BY <1>0 DEF Place
  <2>2. prs' \in Seq(Thread)
    BY <1>3 DEF IsRing
  <2> QED BY <1>0, <2>1, <2>2 DEF TypeInvariant, Leaves, handshake, loops
<1>6. Elsewhere(t)
  BY <1>0, <1>1, CollectingPlaces DEF Elsewhere, loops, Program
<1> QED BY <1>4, <1>5, <1>6, ElsewhereKeeps DEF Kept

\* RegisterCoroutine and UnregisterCoroutine inside list_lock.
LEMMA RingKept ==
  ASSUME RingInv, NEW t \in Thread, UNCHANGED <<prs, stopped, noGC, handshake, loops>>,
         Leaves("list_lock"),
         \/ Goes(t, "ties", "tied") /\ ring' = Tie(ring, t)
         \/ Goes(t, "unties", "untied") /\ ring' = Untie(ring, t)
  PROVE  Kept'
<1> DEFINE to == IF pc[t] = "ties" THEN "tied" ELSE "untied"
<1>0. /\ TypeInvariant /\ Members /\ pc \in [Thread -> Place] /\ t \notin stopped
      /\ pc[t] \in {"ties", "unties"} /\ pc' = [pc EXCEPT ![t] = to]
      /\ stopped \subseteq Thread
  BY DEF RingInv, TypeInvariant, Goes
<1>1. \A u \in Thread : pc'[u] = IF u = t THEN to ELSE pc[u]
  BY <1>0
<1>2. /\ IsRing(prs) /\ \A u \in Thread : u \in Elems(prs) <=> pc[u] \notin OutOfPrs
      /\ IsRing(ring) /\ \A u \in Thread : u \in Elems(ring) <=> pc[u] \notin OutOfRing
  BY <1>0 DEF Members
<1>3. /\ IsRing(ring')
      /\ \A u \in Thread : u \in Elems(ring') <=> pc'[u] \notin OutOfRing
  <2>1. CASE pc[t] = "ties"
    <3>1. ring' = Tie(ring, t) /\ t \notin Elems(ring)
      BY <1>2, <2>1 DEF Goes, OutOfRing
    <3>2. IsRing(ring') /\ Elems(ring') = Elems(ring) \cup {t}
      BY <1>2, <3>1, TieKeepsOrder
    <3> QED BY <1>1, <1>2, <2>1, <3>2 DEF OutOfRing
  <2>2. CASE pc[t] = "unties"
    <3>1. ring' = Untie(ring, t) /\ t \in Elems(ring)
      BY <1>2, <2>2 DEF Goes, OutOfRing
    <3>2. IsRing(ring') /\ Elems(ring') = Elems(ring) \ {t}
      BY <1>2, <3>1, UntieKeepsOrder
    <3> QED BY <1>1, <1>2, <2>2, <3>2 DEF OutOfRing
  <2> QED BY <1>0, <2>1, <2>2
<1>4. Members'
  <2>1. \A u \in Thread : pc'[u] \in OutOfPrs <=> pc[u] \in OutOfPrs
    BY <1>0, <1>1 DEF OutOfPrs
  <2>2. /\ IsRing(prs') /\ \A u \in Thread : u \in Elems(prs') <=> pc'[u] \notin OutOfPrs
    BY <1>2, <2>1
  <2> QED BY <1>3, <2>2 DEF Members, IsRing, Once
<1>5. TypeInvariant'
  <2>1. pc' \in [Thread -> Place]
    BY <1>0 DEF Place
  <2>2. ring' \in Seq(Thread)
    BY <1>3 DEF IsRing
  <2> QED BY <1>0, <2>1, <2>2 DEF TypeInvariant, Leaves, handshake, loops
<1>6. Elsewhere(t)
  <2>1. /\ prs' = prs /\ UNCHANGED <<at, back, stuck, stopped, scanned>>
        /\ \/ pc[t] = "ties" /\ t \notin stopped /\ ring' = Tie(ring, t)
           \/ pc[t] = "unties" /\ pc'[t] = "untied" /\ ring' = Untie(ring, t)
    BY <1>0, <1>1 DEF Goes, loops
  <2> QED BY <1>0, <1>1, <2>1, CollectingPlaces DEF Elsewhere, Program
<1> QED BY <1>4, <1>5, <1>6, ElsewhereKeeps DEF Kept

LEMMA LifeKeepsRings ==
  ASSUME RingInv, NEW t \in Thread, Life(t)
  PROVE  Kept'
<1> DEFINE Ways == /\ Members' /\ SuspendsInRing' /\ MarksInRing' /\ StacksScanned'
                   /\ pc' \in [Thread -> Place]
<1>0. TypeInvariant
  BY DEF RingInv
<1>1. ASSUME NEW l \in Lock, Enters(t, l) \/ Leaves(l), Ways,
             UNCHANGED <<prs, ring, stopped, noGC, child, signalled, loops>>,
             activated' \in {activated, activated \ {t}}
      PROVE  Kept'
  <2>1. owner' \in [Lock -> Thread \cup {NULL}] /\ activated' \subseteq Thread
    BY <1>0, <1>1 DEF TypeInvariant, Enters, Leaves
  <2> QED BY <1>0, <1>1, <2>1 DEF Kept, TypeInvariant, loops
<1>2. ASSUME RegisterThread(t) PROVE Kept'
  <2>1. CASE Goes(t, "starts", "registers") /\ Enters(t, "plock")
             /\ UNCHANGED <<prs, ring, stopped, noGC, handshake, loops>>
    <3>1. Ways
      BY <2>1, WayKeeps DEF OutsideWays, loops
    <3> QED BY <1>1, <2>1, <3>1 DEF handshake, Lock
  <2> QED BY <1>2, <2>1, PrsKept DEF RegisterThread
<1>3. ASSUME RegisterCoroutine(t) PROVE Kept'
  <2>1. CASE Goes(t, "registered", "ties") /\ Enters(t, "list_lock")
             /\ UNCHANGED <<prs, ring, stopped, noGC, handshake, loops>>
    <3>1. Ways
      BY <2>1, WayKeeps DEF OutsideWays, loops
    <3> QED BY <1>1, <2>1, <3>1 DEF handshake, Lock
  <2> QED BY <1>3, <2>1, RingKept DEF RegisterCoroutine
<1>4. ASSUME UnregisterThread(t) PROVE Kept'
  <2>1. CASE Goes(t, "ends", "unregisters") /\ Enters(t, "plock")
             /\ UNCHANGED <<prs, ring, stopped, noGC, handshake, loops>>
    <3>1. Ways
      BY <2>1, WayKeeps DEF OutsideWays, loops
    <3> QED BY <1>1, <2>1, <3>1 DEF handshake, Lock
  <2> QED BY <1>4, <2>1, PrsKept DEF UnregisterThread
<1>5. ASSUME UnregisterCoroutine(t) PROVE Kept'
  <2>1. CASE Goes(t, "unregistered", "unties") /\ Enters(t, "list_lock")
             /\ UNCHANGED <<prs, ring, stopped, noGC, handshake, loops>>
    <3>1. Ways
      BY <2>1, WayKeeps DEF OutsideWays, loops
    <3> QED BY <1>1, <2>1, <3>1 DEF handshake, Lock
  <2> QED BY <1>5, <2>1, RingKept DEF UnregisterCoroutine
<1>6. ASSUME Dispose(t) PROVE Kept'
  <2>1. CASE /\ Goes(t, "untied", "disposes") /\ Enters(t, "heap")
             /\ activated' = activated \ {t}
             /\ UNCHANGED <<prs, ring, stopped, noGC, child, signalled, loops>>
    <3>1. Ways
      BY <2>1, WayKeeps DEF OutsideWays, loops, Enters
    <3> QED BY <1>1, <2>1, <3>1 DEF Lock
  <2>2. CASE /\ Goes(t, "disposes", "none") /\ Leaves("heap")
             /\ UNCHANGED <<prs, ring, stopped, noGC, handshake, loops>>
    <3>1. Ways
      BY <2>2, WayKeeps DEF OutsideWays, loops
    <3> QED BY <1>1, <2>2, <3>1 DEF handshake, Lock
  <2> QED BY <1>6, <2>1, <2>2 DEF Dispose
<1>7. ASSUME Signal(t) \/ Begin(t) \/ End(t) PROVE Kept'
  <2>1. /\ UNCHANGED <<prs, ring, owner, stopped, noGC, child, activated, at, back, stuck, scanned>>
        /\ signalled' \in {signalled, signalled \cup {t}}
        /\ \/ Goes(t, "tied", "parked") \/ Goes(t, "parked", "user")
           \/ Goes(t, "user", "ends")
    BY <1>7 DEF Signal, Begin, End, tables, handshake, loops
  <2>2. Ways
    BY <2>1, WayKeeps DEF OutsideWays
  <2> QED BY <1>0, <2>1, <2>2 DEF Kept, TypeInvariant
<1> QED BY <1>2, <1>3, <1>4, <1>5, <1>6, <1>7 DEF Life

LEMMA CreateKeepsRings ==
  ASSUME RingInv, NEW t \in Thread, NEW u \in Thread, Create(t, u)
  PROVE  Kept'
<1>0. /\ TypeInvariant /\ Members /\ pc \in [Thread -> Place] /\ stopped \subseteq Thread
      /\ pc[u] = "none" /\ pc[t] = "user" /\ t \notin stopped
      /\ pc' = [pc EXCEPT ![t] = "creates", ![u] = "starts"]
      /\ UNCHANGED <<prs, ring, owner, stopped, signalled, activated, at, back, stuck, scanned>>
  BY DEF RingInv, TypeInvariant, Create, loops
<1>1. \A x \in Thread : pc'[x] = IF x = t THEN "creates" ELSE IF x = u THEN "starts" ELSE pc[x]
  BY <1>0
<1>2. Members'
  <2>1. \A x \in Thread : /\ pc'[x] \in OutOfPrs <=> pc[x] \in OutOfPrs
                          /\ pc'[x] \in OutOfRing <=> pc[x] \in OutOfRing
    BY <1>0, <1>1 DEF OutOfPrs, OutOfRing
  <2> QED BY <1>0, <2>1, SameMembers
<1>3. TypeInvariant'
  <2>1. pc' \in [Thread -> Place]
    BY <1>0 DEF Place
  <2>2. child' \in [Thread -> Thread \cup {NULL}] /\ noGC' \subseteq Tagged
    BY <1>0 DEF TypeInvariant, Create
  <2> QED BY <1>0, <2>1, <2>2 DEF TypeInvariant
<1>4. Elsewhere(t)
  BY <1>0, <1>1, CollectingPlaces DEF Elsewhere, Program
<1> QED BY <1>2, <1>3, <1>4, ElsewhereKeeps DEF Kept

LEMMA UserKeepsRings ==
  ASSUME RingInv, NEW t \in Thread, AnyUser(t)
  PROVE  Kept'
<1>0. TypeInvariant /\ Members /\ SuspendsInRing /\ MarksInRing /\ StacksScanned
  BY DEF RingInv
<1>1. ASSUME NEW u \in Thread, Activate(t, u) PROVE Kept'
  <2>1. /\ UNCHANGED <<pc, prs, ring, owner, stopped, noGC, child, signalled, at, back, stuck, scanned>>
        /\ activated' \subseteq activated \cup Thread
    BY <1>1 DEF Activate, tables, loops
  <2> QED BY <1>0, <2>1 DEF Kept, TypeInvariant, Members, IsRing, Once, SuspendsInRing,
                            MarksInRing, StacksScanned
<1>2. ASSUME NEW u \in Thread, NEW yes \in BOOLEAN, SetGCAware(t, u, yes) PROVE Kept'
  <2>1. /\ UNCHANGED <<pc, prs, ring, owner, stopped, child, signalled, activated, at, back, stuck, scanned>>
        /\ noGC' \subseteq noGC \cup Tagged
    BY <1>2 DEF SetGCAware, handshake, loops
  <2> QED BY <1>0, <2>1 DEF Kept, TypeInvariant, Members, IsRing, Once, SuspendsInRing,
                            MarksInRing, StacksScanned
<1>3. ASSUME Created(t) PROVE Kept'
  <2>1. /\ Goes(t, "creates", "user")
        /\ UNCHANGED <<prs, ring, owner, stopped, noGC, activated, at, back, stuck, scanned>>
        /\ signalled' \subseteq signalled /\ child' = [child EXCEPT ![t] = NULL]
    BY <1>3 DEF Created, tables, loops
  <2>2. /\ Members' /\ SuspendsInRing' /\ MarksInRing' /\ StacksScanned'
        /\ pc' \in [Thread -> Place]
    BY <2>1, WayKeeps DEF OutsideWays
  <2> QED BY <1>0, <2>1, <2>2 DEF Kept, TypeInvariant
<1>4. ASSUME Handler(t) \/ Allocate(t) PROVE Kept'
  <2>1. /\ \/ Goes(t, "user", "iterates") \/ Goes(t, "iterates", "user")
           \/ Goes(t, "user", "heap") \/ Goes(t, "heap", "user")
        /\ UNCHANGED <<prs, ring, stopped, noGC, child, signalled, activated, at, back, stuck, scanned>>
        /\ \E l \in Lock : Enters(t, l) \/ Leaves(l)
    BY <1>4 DEF Handler, Allocate, handshake, loops, Lock
  <2>2. /\ Members' /\ SuspendsInRing' /\ MarksInRing' /\ StacksScanned'
        /\ pc' \in [Thread -> Place]
    BY <2>1, WayKeeps DEF OutsideWays
  <2>3. owner' \in [Lock -> Thread \cup {NULL}]
    BY <1>0, <2>1 DEF TypeInvariant, Enters, Leaves
  <2> QED BY <1>0, <2>1, <2>2, <2>3 DEF Kept, TypeInvariant
<1>5. ASSUME NEW u \in Thread, Create(t, u) PROVE Kept'
  BY <1>5, CreateKeepsRings
<1> QED BY <1>1, <1>2, <1>3, <1>4, <1>5 DEF AnyUser, Calls

(***************************************************************************)
(* The steps of COLLECT.                                                   *)
(***************************************************************************)

\* fwd of any element, of the ring or not.
LEMMA FwdInRing ==
  ASSUME NEW r, IsRing(r), NEW x
  PROVE  /\ Fwd(r, x) \in Elems(r) \cup {NULL} /\ Elems(r) \subseteq Thread
         /\ x \in Elems(r) \/ Fwd(r, x) = NULL
<1>1. x \in Elems(r) => Fwd(r, x) \in Elems(r)
  BY FwdProperties
<1>2. x \notin Elems(r) => Fwd(r, x) = NULL
  BY DEF Fwd
<1>3. Elems(r) \subseteq Thread
  BY PosProperties
<1> QED BY <1>1, <1>2, <1>3

\* Nobody else is in COLLECT.
LEMMA OneCollector ==
  ASSUME LockInv, NEW t \in Thread, NEW u \in Thread,
         pc[t] \in Inside("heap"), pc[u] \in Inside("heap")
  PROVE  t = u
BY DEF LockInv, LocksHeld, Lock

\* A step of COLLECT establishes what holds at the place that it comes to.
LEMMA CollectorGoes ==
  ASSUME RingInv, NEW t \in Thread, NEW from, NEW to,
         {from, to} \subseteq Collecting \cup {"heap"}, Goes(t, from, to),
         UNCHANGED <<prs, ring, noGC, handshake>>,
         owner' \in [Lock -> Thread \cup {NULL}],
         stopped' \subseteq Thread, at' \in Thread, scanned' \subseteq Thread,
         back' \in Thread, stuck' \subseteq Thread,
         to \in AllOwned => at' \in Elems(prs),
         to = "undoes" => back' \in Elems(prs),
         to = "marks" =>
           /\ at' \notin Elems(ring) => pc[at'] = "untied"
           /\ at' \in Elems(ring) =>
                \A u \in stopped' \cap Elems(ring) :
                  Passed(ring, t, at', u) => u \in scanned',
         to = "resumes" =>
           at' # t \/ \A u \in Thread : pc[u] \in Program /\ u \in stopped' => u \in scanned'
  PROVE  Kept'
<1>0. /\ LockInv /\ TypeInvariant /\ Members /\ pc \in [Thread -> Place]
      /\ pc[t] = from /\ pc' = [pc EXCEPT ![t] = to] /\ prs' = prs /\ ring' = ring
  BY DEF RingInv, TypeInvariant, Goes
<1>1. \A u \in Thread : pc'[u] = IF u = t THEN to ELSE pc[u]
  BY <1>0
<1>2. /\ from \in Inside("heap") /\ to \in Place
      /\ {from, to} \cap (OutOfPrs \cup OutOfRing \cup Program) = {}
  BY CollectingPlaces, Sections DEF OutOfPrs, OutOfRing, Place, Program
<1>3. \A u \in Thread \ {t} : pc'[u] \notin AllOwned \cup {"marks", "resumes"}
  <2>1. \A u \in Thread \ {t} : pc[u] \notin Inside("heap")
    BY <1>0, <1>2, OneCollector
  <2> QED BY <1>1, <2>1, Sections DEF AllOwned
<1>4. Members'
  <2>1. \A u \in Thread : /\ pc'[u] \in OutOfPrs <=> pc[u] \in OutOfPrs
                          /\ pc'[u] \in OutOfRing <=> pc[u] \in OutOfRing
    BY <1>0, <1>1, <1>2
  <2> QED BY <1>0, <2>1, SameMembers
<1>5. TypeInvariant'
  <2>1. pc' \in [Thread -> Place]
    BY <1>0, <1>2
  <2> QED BY <1>0, <2>1 DEF TypeInvariant, handshake
<1>6. SuspendsInRing'
  BY <1>0, <1>1, <1>3 DEF SuspendsInRing, AllOwned
<1>7. MarksInRing'
  <2> SUFFICES ASSUME pc'[t] = "marks"
               PROVE  /\ at' \notin Elems(ring) => pc'[at'] = "untied"
                      /\ at' \in Elems(ring) =>
                           \A u \in stopped' \cap Elems(ring) :
                             Passed(ring, t, at', u) => u \in scanned'
    BY <1>0, <1>3 DEF MarksInRing
  <2>1. to = "marks"
    BY <1>1
  <2>2. t \in Elems(ring)
    BY <1>0, <1>2 DEF Members
  <2>3. at' \notin Elems(ring) => at' # t /\ pc[at'] = "untied"
    BY <2>1, <2>2
  <2>4. at' \notin Elems(ring) => pc'[at'] = "untied"
    BY <1>1, <2>3
  <2> QED BY <2>1, <2>4
<1>8. StacksScanned'
  <2> SUFFICES ASSUME pc'[t] = "resumes", at' = t, NEW u \in Thread, pc'[u] \in Program,
                      u \in stopped'
               PROVE  u \in scanned'
    BY <1>3 DEF StacksScanned
  <2>1. to = "resumes" /\ pc[u] \in Program
    BY <1>1, <1>2
  <2> QED BY <2>1
<1> QED BY <1>4, <1>5, <1>6, <1>7, <1>8 DEF Kept

\* MarkStack passes the coroutine that it scans.
LEMMA MarkStackKeepsRings ==
  ASSUME RingInv, NEW t \in Thread, MarkStack(t)
  PROVE  Kept'
<1> DEFINE x == Fwd(ring, at)
<1>0. /\ TypeInvariant /\ Members /\ IsRing(ring) /\ t \in Thread /\ t # NULL
      /\ UNCHANGED <<prs, ring, owner, stopped, noGC, handshake, back, stuck>>
      /\ scanned' = scanned \cup {at} /\ pc[t] = "marks"
  BY ThreadAssumption DEF RingInv, MarkStack, tables, Members, Walk, Goes
<1>1. /\ at \in Elems(ring) =>
           \A u \in stopped \cap Elems(ring) : Passed(ring, t, at, u) => u \in scanned
      /\ t \in Elems(ring)
      /\ \A u \in Thread : pc[u] \in Program => u \in Elems(ring)
  BY <1>0 DEF RingInv, MarksInRing, Members, OutOfRing, Program
<1>2. x \in Elems(ring) \cup {NULL} /\ Elems(ring) \subseteq Thread
      /\ (at \in Elems(ring) \/ x = NULL)
  BY <1>0, FwdInRing
<1>3. owner' \in [Lock -> Thread \cup {NULL}] /\ stopped' \subseteq Thread
      /\ scanned' \subseteq Thread /\ at \in Thread
      /\ back' \in Thread /\ stuck' \subseteq Thread
  BY <1>0 DEF TypeInvariant
<1>4. CASE x \notin {t, NULL} /\ at' = x /\ Goes(t, "marks", "marks")
  <2>1. at \in Elems(ring) /\ at' \in Elems(ring) /\ at' \in Thread
    BY <1>2, <1>4
  <2>2. ASSUME NEW u \in stopped' \cap Elems(ring), Passed(ring, t, at', u)
        PROVE  u \in scanned'
    <3>1. Passed(ring, t, at, u) \/ u = at
      BY <1>0, <1>1, <1>4, <2>1, <2>2, WalkPasses
    <3> QED BY <1>0, <1>1, <2>1, <3>1
  <2>3. {"marks", "marks"} \subseteq Collecting \cup {"heap"} /\ "marks" \notin AllOwned
    BY CollectingPlaces DEF AllOwned
  <2> HIDE DEF x
  <2> QED BY <1>0, <1>3, <1>4, <2>1, <2>2, <2>3, CollectorGoes
<1>5. CASE x = t /\ at' = t /\ Goes(t, "marks", "resumes")
  <2>1. at \in Elems(ring)
    BY <1>0, <1>2, <1>5
  <2>2. ASSUME NEW u \in Thread, pc[u] \in Program, u \in stopped'
        PROVE  u \in scanned'
    <3>1. u \in Elems(ring) /\ u \in stopped
      BY <1>0, <1>1, <2>2
    <3>2. Passed(ring, t, at, u) \/ u = at
      BY <1>0, <1>1, <1>5, <2>1, <3>1, WalkPasses
    <3> QED BY <1>0, <1>1, <2>1, <3>1, <3>2
  <2>3. {"marks", "resumes"} \subseteq Collecting \cup {"heap"} /\ at' \in Thread
        /\ "resumes" \notin AllOwned
    BY <1>5, CollectingPlaces DEF AllOwned
  <2> HIDE DEF x
  <2> QED BY <1>0, <1>3, <1>5, <2>2, <2>3, CollectorGoes
<1>6. CASE x = NULL /\ at' = at /\ Goes(t, "marks", "lost")
  <2>1. {"marks", "lost"} \subseteq Collecting \cup {"heap"} /\ at' \in Thread
        /\ "lost" \notin AllOwned
    BY <1>3, <1>6, CollectingPlaces DEF AllOwned
  <2> HIDE DEF x
  <2> QED BY <1>0, <1>3, <1>6, <2>1, CollectorGoes
<1> QED BY <1>4, <1>5, <1>6 DEF MarkStack, Walk

\* The walks that do not scan, and start the one that does.
LEMMA WalkKeepsRings ==
  ASSUME RingInv, NEW t \in Thread, SyncThread(t) \/ CopyJmpBuf(t)
  PROVE  Kept'
<1>0. /\ TypeInvariant /\ Members /\ IsRing(prs) /\ IsRing(ring)
      /\ UNCHANGED <<prs, ring, owner, stopped, noGC, handshake, back, stuck>>
      /\ scanned' \in {scanned, {}} /\ pc[t] \in {"syncs", "copies"}
      /\ owner' \in [Lock -> Thread \cup {NULL}] /\ stopped' \subseteq Thread
      /\ at \in Thread /\ scanned' \subseteq Thread
      /\ back' \in Thread /\ stuck' \subseteq Thread
  BY DEF RingInv, SyncThread, CopyJmpBuf, tables, Members, Walk, Goes, TypeInvariant
<1>1. PICK r \in {prs, ring}, from \in {"syncs", "copies"}, to \in {"copies", "marks"} :
        /\ Walk(t, r, from, to)
        /\ from = "syncs" => to = "copies"
  BY DEF SyncThread, CopyJmpBuf
<1>2. /\ Fwd(r, at) \in Elems(r) \cup {NULL} /\ Elems(r) \subseteq Thread
  BY <1>0, FwdInRing
<1>3. t \in Elems(ring)
  BY <1>0 DEF Members, OutOfRing
<1>4. PICK place \in {from, to, "lost"} :
        /\ Goes(t, from, place) /\ at' \in Thread
        /\ place = "marks" => at' = t
  BY <1>0, <1>1, <1>2 DEF Walk
<1>5. {from, place} \subseteq Collecting \cup {"heap"} /\ place \notin AllOwned
  BY CollectingPlaces DEF AllOwned
<1>6. place = "marks" =>
        /\ at' \in Elems(ring)
        /\ \A u \in stopped' \cap Elems(ring) : ~Passed(ring, t, at', u)
  BY <1>0, <1>3, <1>4, NonePassed
<1>7. place \notin AllOwned \cup {"resumes"}
  BY DEF AllOwned
<1> QED BY <1>0, <1>4, <1>5, <1>6, <1>7, CollectorGoes

\* The steps that come to a place where nothing but the types is claimed.
LEMMA CollectorPasses ==
  ASSUME RingInv, NEW t \in Thread, NEW from, NEW to,
         {from, to} \subseteq Collecting \cup {"heap"}, Goes(t, from, to),
         to \notin AllOwned \cup {"marks"}, to = "resumes" => at' # t,
         UNCHANGED <<prs, ring, noGC, handshake, scanned, back>>,
         owner' \in [Lock -> Thread \cup {NULL}],
         stopped' \subseteq Thread, stuck' \subseteq Thread, at' \in Thread
  PROVE  Kept'
<1>1. scanned' \subseteq Thread /\ back' \in Thread
  BY DEF RingInv, TypeInvariant
<1>2. to # "undoes"
  BY DEF AllOwned
<1> QED BY <1>1, <1>2, CollectorGoes

\* The steps of the loops that hold every lock.
LEMMA CollectorOwns ==
  ASSUME RingInv, NEW t \in Thread, NEW from \in AllOwned, NEW to \in AllOwned,
         Goes(t, from, to), UNCHANGED <<prs, ring, noGC, handshake, owner, scanned>>,
         stopped' \subseteq Thread, stuck' \subseteq Thread,
         at' \in Elems(prs), to = "undoes" => back' \in Elems(prs),
         to # "undoes" => back' = back
  PROVE  Kept'
<1>1. /\ scanned' \subseteq Thread /\ owner' \in [Lock -> Thread \cup {NULL}]
      /\ back \in Thread
  BY DEF RingInv, TypeInvariant
<1>2. {from, to} \subseteq Collecting \cup {"heap"} /\ to \notin {"marks", "resumes"}
  BY CollectingPlaces DEF AllOwned
<1>3. at' \in Thread /\ back' \in Thread
  <2>1. Elems(prs) \subseteq Thread
    BY FwdInRing DEF RingInv, Members
  <2> QED BY <1>1, <2>1
<1> QED BY <1>1, <1>2, <1>3, CollectorGoes

\* ResumeThread keeps the types.
LEMMA ResumingTypes ==
  ASSUME TypeInvariant, NEW u \in Thread, TryResume(u) \/ UNCHANGED <<stopped, stuck>>
  PROVE  stopped' \subseteq Thread /\ stuck' \subseteq Thread
BY DEF TypeInvariant, TryResume

LEMMA CollectorKeepsRings ==
  ASSUME RingInv, NEW t \in Thread, Collector(t)
  PROVE  Kept'
<1> USE DEF handshake, loops, tables
<1>0. /\ TypeInvariant /\ Members /\ IsRing(prs)
      /\ stopped \subseteq Thread /\ stuck \subseteq Thread
      /\ at \in Thread /\ back \in Thread
      /\ owner \in [Lock -> Thread \cup {NULL}]
      /\ \A u \in Thread : u \in Elems(prs) <=> pc[u] \notin OutOfPrs
  BY DEF RingInv, Members, TypeInvariant
<1>1. ASSUME LockCoroutines(t) PROVE Kept'
  <2>1. /\ Goes(t, "heap", "prepares") /\ UNCHANGED <<prs, ring, noGC, handshake, stopped, loops>>
        /\ owner' \in [Lock -> Thread \cup {NULL}]
    BY <1>0, <1>1 DEF LockCoroutines, Enters
  <2>2. {"heap", "prepares"} \subseteq Collecting \cup {"heap"} /\ "prepares" \notin AllOwned
    BY CollectingPlaces DEF AllOwned
  <2> QED BY <1>0, <2>1, <2>2, CollectorPasses
<1>2. ASSUME StartIterate(t) PROVE Kept'
  <2>1. /\ Goes(t, "prepares", "suspends")
        /\ UNCHANGED <<prs, ring, noGC, handshake, stopped, back, stuck, scanned>>
        /\ owner' \in [Lock -> Thread \cup {NULL}] /\ at' = t
    BY <1>0, <1>2 DEF StartIterate, Enters
  <2>2. {"prepares", "suspends"} \subseteq Collecting \cup {"heap"}
    BY CollectingPlaces
  <2>3. t \in Elems(prs)
    BY <1>0, <2>1 DEF OutOfPrs, Goes
  <2>4. scanned' \subseteq Thread
    BY <1>0, <2>1 DEF TypeInvariant
  <2> QED BY <1>0, <2>1, <2>2, <2>3, <2>4, CollectorGoes
<1>3. ASSUME NextThread(t) PROVE Kept'
  <2>1. PICK to \in {"suspends", "hits"} :
          /\ Goes(t, "suspends", to)
          /\ UNCHANGED <<prs, ring, owner, noGC, handshake, stopped, back, stuck, scanned>>
          /\ at' = Fwd(prs, at)
    BY <1>3 DEF NextThread
  <2>2. at \in Elems(prs)
    BY <2>1 DEF RingInv, SuspendsInRing, Goes, AllOwned
  <2>3. at' \in Elems(prs)
    BY <1>0, <2>1, <2>2, FwdProperties
  <2>4. "suspends" \in AllOwned /\ to \in AllOwned /\ to # "undoes"
    BY DEF AllOwned
  <2> QED BY <1>0, <2>1, <2>3, <2>4, CollectorOwns
<1>4. ASSUME SuspendThread(t) PROVE Kept'
  <2>1. /\ Goes(t, "hits", "suspends")
        /\ UNCHANGED <<prs, ring, owner, noGC, handshake, at, back, stuck, scanned>>
        /\ stopped' \subseteq Thread
    BY <1>0, <1>4 DEF SuspendThread
  <2>2. at' \in Elems(prs)
    BY <2>1 DEF RingInv, SuspendsInRing, Goes, AllOwned
  <2>3. {"hits", "suspends"} \subseteq AllOwned
    BY DEF AllOwned
  <2> QED BY <1>0, <2>1, <2>2, <2>3, CollectorOwns
<1>5. ASSUME SuspendFails(t) PROVE Kept'
  <2>1. /\ Goes(t, "hits", "undoes") /\ back' = t
        /\ UNCHANGED <<prs, ring, owner, noGC, handshake, at, stopped, stuck, scanned>>
    BY <1>5 DEF SuspendFails
  <2>2. at' \in Elems(prs) /\ t \in Elems(prs)
    BY <1>0, <2>1 DEF RingInv, SuspendsInRing, Goes, AllOwned, OutOfPrs
  <2>3. {"hits", "undoes"} \subseteq AllOwned
    BY DEF AllOwned
  <2> QED BY <1>0, <2>1, <2>2, <2>3, CollectorOwns
<1>6. ASSUME Undo(t) PROVE Kept'
  <2>1. /\ Goes(t, "undoes", "undoes") /\ back' = Fwd(prs, back)
        /\ UNCHANGED <<prs, ring, owner, noGC, handshake, at, scanned>>
        /\ TryResume(back) \/ UNCHANGED <<stopped, stuck>>
    BY <1>6 DEF Undo
  <2>2. at \in Elems(prs) /\ back \in Elems(prs)
    BY <2>1 DEF RingInv, SuspendsInRing, Goes, AllOwned
  <2>3. back' \in Elems(prs) /\ at' \in Elems(prs)
    BY <1>0, <2>1, <2>2, FwdProperties
  <2>4. stopped' \subseteq Thread /\ stuck' \subseteq Thread
    BY <1>0, <2>1, ResumingTypes
  <2>5. "undoes" \in AllOwned
    BY DEF AllOwned
  <2> QED BY <2>1, <2>3, <2>4, <2>5, CollectorOwns
<1>7. ASSUME UndoEnds(t) PROVE Kept'
  <2>1. /\ Goes(t, "undoes", "refused")
        /\ UNCHANGED <<prs, ring, noGC, handshake, stopped, loops>>
        /\ owner' \in [Lock -> Thread \cup {NULL}]
    BY <1>0, <1>7 DEF UndoEnds, Leaves
  <2>2. {"undoes", "refused"} \subseteq Collecting \cup {"heap"} /\ "refused" \notin AllOwned
    BY CollectingPlaces DEF AllOwned
  <2> QED BY <1>0, <2>1, <2>2, CollectorPasses
<1>8. ASSUME StopIterate(t) PROVE Kept'
  <2>1. /\ Goes(t, "suspends", "unlocks")
        /\ UNCHANGED <<prs, ring, noGC, handshake, stopped, loops>>
        /\ owner' \in [Lock -> Thread \cup {NULL}]
    BY <1>0, <1>8 DEF StopIterate, Leaves
  <2>2. {"suspends", "unlocks"} \subseteq Collecting \cup {"heap"} /\ "unlocks" \notin AllOwned
    BY CollectingPlaces DEF AllOwned
  <2> QED BY <1>0, <2>1, <2>2, CollectorPasses
<1>9. ASSUME UnlockCoroutines(t) PROVE Kept'
  <2>1. /\ Goes(t, "unlocks", "syncs")
        /\ UNCHANGED <<prs, ring, noGC, handshake, stopped, back, stuck, scanned>>
        /\ owner' \in [Lock -> Thread \cup {NULL}] /\ at' = t
    BY <1>0, <1>9 DEF UnlockCoroutines, Leaves
  <2>2. {"unlocks", "syncs"} \subseteq Collecting \cup {"heap"} /\ "syncs" \notin AllOwned
    BY CollectingPlaces DEF AllOwned
  <2> QED BY <1>0, <2>1, <2>2, CollectorPasses
<1>10. ASSUME SyncFails(t) PROVE Kept'
  <2>1. /\ Goes(t, "syncs", "frees") /\ at' = t
        /\ UNCHANGED <<prs, ring, owner, noGC, handshake, stopped, back, stuck, scanned>>
    BY <1>10 DEF SyncFails
  <2>2. {"syncs", "frees"} \subseteq Collecting \cup {"heap"} /\ "frees" \notin AllOwned
    BY CollectingPlaces DEF AllOwned
  <2> QED BY <1>0, <2>1, <2>2, CollectorPasses
<1>11. ASSUME FreeNext(t) PROVE Kept'
  <2>1. /\ Goes(t, "frees", "skips")
        /\ UNCHANGED <<prs, ring, owner, noGC, handshake, at, back, scanned>>
        /\ TryResume(at) \/ UNCHANGED <<stopped, stuck>>
    BY <1>11 DEF FreeNext
  <2>2. {"frees", "skips"} \subseteq Collecting \cup {"heap"} /\ "skips" \notin AllOwned
    BY CollectingPlaces DEF AllOwned
  <2>3. stopped' \subseteq Thread /\ stuck' \subseteq Thread
    BY <1>0, <2>1, ResumingTypes
  <2> QED BY <1>0, <2>1, <2>2, <2>3, CollectorPasses
<1>12. ASSUME Resume(t) \/ ResumeFails(t) PROVE Kept'
  <2>1. PICK to \in {"steps", "strands"} :
          /\ Goes(t, "resumes", to)
          /\ UNCHANGED <<prs, ring, owner, noGC, handshake, loops>>
          /\ stopped' \subseteq stopped
    BY <1>12 DEF Resume, ResumeFails
  <2>2. {"resumes", to} \subseteq Collecting \cup {"heap"} /\ to \notin AllOwned
    BY CollectingPlaces DEF AllOwned
  <2> QED BY <1>0, <2>1, <2>2, CollectorPasses
<1>13. ASSUME Step(t) PROVE Kept'
  <2>1. UNCHANGED <<prs, ring, owner, stopped, noGC, handshake, back, stuck, scanned>>
    BY <1>13 DEF Step, Steps
  <2>2. Fwd(prs, at) \in Thread \cup {NULL}
    BY <1>0, FwdInRing
  <2>3. PICK from \in {"steps", "skips"},
             to \in {"resumes", "heap", "frees", "trapped", "astray"} :
          Goes(t, from, to) /\ at' \in Thread /\ (to = "resumes" => at' # t)
    BY <1>0, <1>13, <2>2 DEF Step, Steps
  <2>4. {from, to} \subseteq Collecting \cup {"heap"} /\ to \notin AllOwned
    BY CollectingPlaces DEF AllOwned
  <2> QED BY <1>0, <2>1, <2>3, <2>4, CollectorPasses
<1> QED BY <1>1, <1>2, <1>3, <1>4, <1>5, <1>6, <1>7, <1>8, <1>9, <1>10, <1>11, <1>12,
           <1>13, MarkStackKeepsRings, WalkKeepsRings DEF Collector

(***************************************************************************)
(* The rings and the stacks, whatever the program marks.                   *)
(***************************************************************************)

LEMMA InitRings == Init => RingInv
<1> SUFFICES ASSUME Init PROVE RingInv
  OBVIOUS
<1>0. /\ Main \in Thread /\ pc = [t \in Thread |-> IF t = Main THEN "user" ELSE "none"]
      /\ prs = <<Main>> /\ ring = <<Main>>
  BY ThreadAssumption DEF Init
<1>1. TypeInvariant
  BY ThreadAssumption DEF Init, TypeInvariant, Place, Lock
<1>2. Members
  <2>1. IsRing(<<Main>>) /\ Elems(<<Main>>) = {Main}
    BY <1>0 DEF IsRing, Once, Elems
  <2> QED BY <1>0, <2>1 DEF Members, OutOfPrs, OutOfRing, IsRing, Once
<1>3. SuspendsInRing /\ MarksInRing /\ StacksScanned
  BY <1>0 DEF SuspendsInRing, MarksInRing, StacksScanned, AllOwned
<1> QED BY <1>1, <1>2, <1>3, InitLocks DEF RingInv

LEMMA StepRings == RingInv /\ [OpenNext]_vars => RingInv'
<1> SUFFICES ASSUME RingInv, [OpenNext]_vars PROVE RingInv'
  OBVIOUS
<1>1. LockInv' /\ AtAnother'
  BY StepLocks DEF RingInv
<1>2. Kept'
  <2>1. CASE OpenNext
    BY <2>1, LifeKeepsRings, UserKeepsRings, CollectorKeepsRings DEF OpenNext
  <2>2. CASE UNCHANGED vars
    BY <2>2 DEF vars, RingInv, Kept, TypeInvariant, Members, IsRing, Once, SuspendsInRing,
                MarksInRing, StacksScanned
  <2> QED BY <2>1, <2>2
<1> QED BY <1>1, <1>2 DEF Kept, RingInv

LEMMA OpenRings == OpenSpec => []RingInv
BY InitRings, StepRings, PTL DEF OpenSpec

\* The places, rings and sets stay what they are: no walk puts NIL in at, and
\* nobody but a thread is in a ring (xrThreads.mod, xrnCoroutines.mod).
THEOREM ThreadTypes ==
  /\ OpenSpec => []TypeInvariant
  /\ Spec => []TypeInvariant
BY OpenRings, SpecIsOpen, PTL DEF RingInv

\* MarkStack scans the stack of every stopped thread of the program before
\* COLLECT resumes them, although threads tie themselves into the ring of coroutines and out of
\* it while it walks, whichever of them are marked X2C_no_GC.
THEOREM EveryStackScanned ==
  /\ OpenSpec => []StacksScanned
  /\ Spec => []StacksScanned
BY OpenRings, SpecIsOpen, PTL DEF RingInv

(***************************************************************************)
(* Programs in which a thread marks only itself: the handshakes of         *)
(* X2C_CreateISOProcess and startThread.                                   *)
(***************************************************************************)

\* A thread goes on without a handshake.
LEMMA ShakeKeeps ==
  ASSUME TypeInvariant, HandsShaken, NEW t \in Thread, NEW from, NEW to,
         Goes(t, from, to), UNCHANGED handshake,
         \/ /\ from \notin Beginning \cup {"creates"}
            /\ to \notin Beginning \cup {"none", "disposes"}
         \/ {from, to} \subseteq Beginning \ {"parked"}
  PROVE  HandsShaken'
<1>0. /\ pc[t] = from /\ UNCHANGED <<child, signalled, activated>>
      /\ \A u \in Thread : pc'[u] = IF u = t THEN to ELSE pc[u]
      /\ signalled \subseteq Thread /\ activated \subseteq Thread
      /\ \A c \in Thread : child[c] \in Thread \cup {NULL}
  BY DEF TypeInvariant, Goes, handshake
<1>1. \A u \in Thread : pc[u] = "parked" => pc'[u] = "parked"
  BY <1>0 DEF Beginning
<1>2. \A u \in Thread : pc[u] = "creates" => pc'[u] = "creates"
  BY <1>0 DEF Beginning
<1>3. \A u \in Thread : /\ pc[u] \in Beginning <=> pc'[u] \in Beginning
                        /\ pc[u] \in Beginning \ {"parked"} <=> pc'[u] \in Beginning \ {"parked"}
  BY <1>0 DEF Beginning
<1>4. \A u \in signalled' : pc'[u] = "parked" /\ \E c \in Thread : child'[c] = u
  BY <1>0, <1>1 DEF HandsShaken
<1>5. \A c \in Thread : child'[c] # NULL =>
        pc'[c] = "creates" /\ pc'[child'[c]] \in Beginning /\ child'[c] \notin activated'
  BY <1>0, <1>2, <1>3 DEF HandsShaken
<1>6. \A u \in Thread : pc'[u] \in Beginning \ {"parked"} =>
        u \notin signalled' /\ \E c \in Thread : child'[c] = u
  BY <1>0, <1>3 DEF HandsShaken
<1>7. ASSUME NEW u \in activated'
      PROVE  pc'[u] \notin {"none", "disposes"} \cup (Beginning \ {"parked"})
  <2>1. u \in Thread /\ pc[u] \notin {"none", "disposes"} \cup (Beginning \ {"parked"})
    BY <1>0, <1>7 DEF HandsShaken
  <2> QED BY <1>0, <1>3, <2>1 DEF Beginning
<1> QED BY <1>4, <1>5, <1>6, <1>7 DEF HandsShaken

LEMMA LifeShakes ==
  ASSUME TypeInvariant, HandsShaken, NEW t \in Thread, Life(t)
  PROVE  HandsShaken'
<1>0. /\ signalled \subseteq Thread /\ activated \subseteq Thread
      /\ \A c \in Thread : child[c] \in Thread \cup {NULL}
      /\ pc \in [Thread -> Place]
  BY DEF TypeInvariant
<1>1. ASSUME Signal(t) PROVE HandsShaken'
  <2>1. /\ \A u \in Thread : pc'[u] = IF u = t THEN "parked" ELSE pc[u]
        /\ pc[t] = "tied" /\ signalled' = signalled \cup {t}
        /\ UNCHANGED <<child, activated>>
    BY <1>0, <1>1 DEF Signal, Goes
  <2>2. \E c \in Thread : child[c] = t
    BY <2>1 DEF HandsShaken, Beginning
  <2>3. \A u \in signalled' : pc'[u] = "parked" /\ \E c \in Thread : child'[c] = u
    BY <1>0, <2>1, <2>2 DEF HandsShaken
  <2>4. \A c \in Thread : child'[c] # NULL =>
          pc'[c] = "creates" /\ pc'[child'[c]] \in Beginning /\ child'[c] \notin activated'
    BY <1>0, <2>1 DEF HandsShaken, Beginning
  <2>5. \A u \in Thread : pc'[u] \in Beginning \ {"parked"} =>
          u \notin signalled' /\ \E c \in Thread : child'[c] = u
    BY <2>1 DEF HandsShaken
  <2>6. \A u \in activated' : pc'[u] \notin {"none", "disposes"} \cup (Beginning \ {"parked"})
    BY <1>0, <2>1 DEF HandsShaken
  <2> QED BY <2>3, <2>4, <2>5, <2>6 DEF HandsShaken
<1>2. ASSUME Begin(t) PROVE HandsShaken'
  <2>1. /\ \A u \in Thread : pc'[u] = IF u = t THEN "user" ELSE pc[u]
        /\ pc[t] = "parked" /\ t \in activated
        /\ UNCHANGED <<child, signalled, activated>>
    BY <1>0, <1>2 DEF Begin, Goes, handshake
  <2>2. \A c \in Thread : child[c] # t
    BY <2>1, ThreadAssumption DEF HandsShaken
  <2>3. \A u \in signalled' : pc'[u] = "parked" /\ \E c \in Thread : child'[c] = u
    BY <1>0, <2>1, <2>2 DEF HandsShaken
  <2>4. \A c \in Thread : child'[c] # NULL =>
          pc'[c] = "creates" /\ pc'[child'[c]] \in Beginning /\ child'[c] \notin activated'
    BY <1>0, <2>1, <2>2 DEF HandsShaken
  <2>5. \A u \in Thread : pc'[u] \in Beginning \ {"parked"} =>
          u \notin signalled' /\ \E c \in Thread : child'[c] = u
    BY <2>1 DEF HandsShaken, Beginning
  <2>6. \A u \in activated' : pc'[u] \notin {"none", "disposes"} \cup (Beginning \ {"parked"})
    BY <1>0, <2>1 DEF HandsShaken, Beginning
  <2> QED BY <2>3, <2>4, <2>5, <2>6 DEF HandsShaken
<1>3. ASSUME Dispose(t) PROVE HandsShaken'
  <2>1. PICK to \in {"disposes", "none"} :
          /\ \A u \in Thread : pc'[u] = IF u = t THEN to ELSE pc[u]
          /\ pc[t] \in {"untied", "disposes"}
          /\ pc[t] = "disposes" => activated' = activated
          /\ pc[t] = "untied" => activated' = activated \ {t}
          /\ UNCHANGED <<child, signalled>>
    BY <1>0, <1>3 DEF Dispose, Goes, handshake
  <2>2. t \notin activated' /\ activated' \subseteq activated
    BY <2>1 DEF HandsShaken
  <2>3. \A u \in signalled' : pc'[u] = "parked" /\ \E c \in Thread : child'[c] = u
    BY <1>0, <2>1 DEF HandsShaken
  <2>4. \A c \in Thread : child'[c] # NULL =>
          pc'[c] = "creates" /\ pc'[child'[c]] \in Beginning /\ child'[c] \notin activated'
    BY <1>0, <2>1, <2>2 DEF HandsShaken, Beginning
  <2>5. \A u \in Thread : pc'[u] \in Beginning \ {"parked"} =>
          u \notin signalled' /\ \E c \in Thread : child'[c] = u
    BY <2>1 DEF HandsShaken, Beginning
  <2>6. \A u \in activated' : pc'[u] \notin {"none", "disposes"} \cup (Beginning \ {"parked"})
    BY <1>0, <2>1, <2>2 DEF HandsShaken
  <2> QED BY <2>3, <2>4, <2>5, <2>6 DEF HandsShaken
<1>4. ASSUME \/ RegisterThread(t) \/ RegisterCoroutine(t) \/ End(t)
             \/ UnregisterThread(t) \/ UnregisterCoroutine(t)
      PROVE  HandsShaken'
  <2>1. /\ \/ Goes(t, "starts", "registers") \/ Goes(t, "registers", "registered")
           \/ Goes(t, "registered", "ties") \/ Goes(t, "ties", "tied")
           \/ Goes(t, "user", "ends") \/ Goes(t, "ends", "unregisters")
           \/ Goes(t, "unregisters", "unregistered") \/ Goes(t, "unregistered", "unties")
           \/ Goes(t, "unties", "untied")
        /\ UNCHANGED handshake
    BY <1>4 DEF RegisterThread, RegisterCoroutine, End, UnregisterThread, UnregisterCoroutine
  <2> QED BY <2>1, ShakeKeeps DEF Beginning
<1> QED BY <1>1, <1>2, <1>3, <1>4 DEF Life

LEMMA CreateShakes ==
  ASSUME TypeInvariant, HandsShaken, NEW t \in Thread, NEW u \in Thread, Create(t, u)
  PROVE  HandsShaken'
<1>0. /\ signalled \subseteq Thread /\ activated \subseteq Thread
      /\ \A c \in Thread : child[c] \in Thread \cup {NULL}
      /\ pc[t] = "user" /\ pc[u] = "none" /\ UNCHANGED <<signalled, activated>>
      /\ \A x \in Thread : pc'[x] = IF x = t THEN "creates"
                                   ELSE IF x = u THEN "starts" ELSE pc[x]
      /\ \A c \in Thread : child'[c] = IF c = t THEN u ELSE child[c]
  BY DEF TypeInvariant, Create
<1>1. /\ child[t] = NULL /\ u \notin signalled /\ u \notin activated /\ t \notin signalled
      /\ \A c \in Thread : child[c] # t /\ child[c] # u
  BY <1>0, ThreadAssumption DEF HandsShaken, Beginning
<1>2. \A x \in signalled' : pc'[x] = "parked" /\ \E c \in Thread : child'[c] = x
  BY <1>0, <1>1 DEF HandsShaken
<1>3. \A c \in Thread : child'[c] # NULL =>
        pc'[c] = "creates" /\ pc'[child'[c]] \in Beginning /\ child'[c] \notin activated'
  <2> SUFFICES ASSUME NEW c \in Thread, child'[c] # NULL
               PROVE  pc'[c] = "creates" /\ pc'[child'[c]] \in Beginning
                      /\ child'[c] \notin activated'
    OBVIOUS
  <2>1. CASE c = t
    BY <1>0, <1>1, <2>1 DEF Beginning
  <2>2. CASE c # t
    <3>1. child'[c] = child[c] /\ child[c] # NULL /\ child[c] # t /\ child[c] # u
      BY <1>0, <1>1, <2>2
    <3>2. pc[c] = "creates" /\ pc[child[c]] \in Beginning /\ child[c] \notin activated
      BY <3>1 DEF HandsShaken
    <3> QED BY <1>0, <3>1, <3>2
  <2> QED BY <2>1, <2>2
<1>4. \A x \in Thread : pc'[x] \in Beginning \ {"parked"} =>
        x \notin signalled' /\ \E c \in Thread : child'[c] = x
  <2> SUFFICES ASSUME NEW x \in Thread, pc'[x] \in Beginning \ {"parked"}
               PROVE  x \notin signalled' /\ \E c \in Thread : child'[c] = x
    OBVIOUS
  <2>1. CASE x = u
    BY <1>0, <1>1, <2>1
  <2>2. CASE x # u
    <3>1. pc[x] \in Beginning \ {"parked"}
      BY <1>0, <2>2 DEF Beginning
    <3>2. x \notin signalled /\ \E c \in Thread : child[c] = x
      BY <3>1 DEF HandsShaken
    <3>3. PICK c \in Thread : child[c] = x
      BY <3>2
    <3>4. c # t
      BY <1>1, <3>3, ThreadAssumption
    <3> QED BY <1>0, <3>2, <3>3, <3>4
  <2> QED BY <2>1, <2>2
<1>5. \A x \in activated' : pc'[x] \notin {"none", "disposes"} \cup (Beginning \ {"parked"})
  BY <1>0, <1>1 DEF HandsShaken, Beginning
<1> QED BY <1>2, <1>3, <1>4, <1>5 DEF HandsShaken

LEMMA UserShakes ==
  ASSUME TypeInvariant, HandsShaken, NEW t \in Thread, AnyUser(t)
  PROVE  HandsShaken'
<1>0. /\ signalled \subseteq Thread /\ activated \subseteq Thread
      /\ \A c \in Thread : child[c] \in Thread \cup {NULL}
      /\ pc \in [Thread -> Place]
  BY DEF TypeInvariant
<1>1. ASSUME NEW u \in Thread, Create(t, u) PROVE HandsShaken'
  BY <1>1, CreateShakes
<1>2. ASSUME NEW u \in Thread, Activate(t, u) PROVE HandsShaken'
  <2>1. /\ UNCHANGED <<pc, child, signalled>> /\ activated' = activated \cup {u}
        /\ pc[u] \in Beginning /\ \A c \in Thread : child[c] # u
    BY <1>2 DEF Activate
  <2>2. pc[u] = "parked"
    BY <2>1 DEF HandsShaken
  <2> QED BY <2>1, <2>2 DEF HandsShaken, Beginning
<1>3. ASSUME NEW u \in Thread, NEW yes \in BOOLEAN, SetGCAware(t, u, yes)
      PROVE  HandsShaken'
  BY <1>3 DEF SetGCAware, handshake, HandsShaken
<1>4. ASSUME Created(t) PROVE HandsShaken'
  <2>1. /\ \A x \in Thread : pc'[x] = IF x = t THEN "user" ELSE pc[x]
        /\ \A c \in Thread : child'[c] = IF c = t THEN NULL ELSE child[c]
        /\ pc[t] = "creates" /\ child[t] \in signalled
        /\ signalled' = signalled \ {child[t]} /\ activated' = activated
    BY <1>4 DEF Created, Goes, TypeInvariant
  <2>2. child[t] \in Thread /\ pc[child[t]] = "parked" /\ t \notin signalled
    BY <1>0, <2>1 DEF HandsShaken
  <2>3. \A x \in signalled' : pc'[x] = "parked" /\ \E c \in Thread : child'[c] = x
    BY <1>0, <2>1, <2>2 DEF HandsShaken
  <2>4. \A c \in Thread : child'[c] # NULL =>
          pc'[c] = "creates" /\ pc'[child'[c]] \in Beginning /\ child'[c] \notin activated'
    <3> SUFFICES ASSUME NEW c \in Thread, child'[c] # NULL
                 PROVE  pc'[c] = "creates" /\ pc'[child'[c]] \in Beginning
                        /\ child'[c] \notin activated'
      OBVIOUS
    <3>1. c # t /\ child'[c] = child[c] /\ child[c] # NULL
      BY <2>1
    <3>2. pc[c] = "creates" /\ pc[child[c]] \in Beginning /\ child[c] \notin activated
      BY <3>1 DEF HandsShaken
    <3>3. child[c] # t /\ child[c] \in Thread
      BY <1>0, <2>1, <3>1, <3>2 DEF Beginning
    <3> QED BY <2>1, <3>1, <3>2, <3>3
  <2>5. \A x \in Thread : pc'[x] \in Beginning \ {"parked"} =>
          x \notin signalled' /\ \E c \in Thread : child'[c] = x
    <3> SUFFICES ASSUME NEW x \in Thread, pc'[x] \in Beginning \ {"parked"}
                 PROVE  x \notin signalled' /\ \E c \in Thread : child'[c] = x
      OBVIOUS
    <3>1. pc[x] \in Beginning \ {"parked"}
      BY <2>1 DEF Beginning
    <3>2. x \notin signalled /\ \E c \in Thread : child[c] = x
      BY <3>1 DEF HandsShaken
    <3>3. PICK c \in Thread : child[c] = x
      BY <3>2
    <3>4. c # t
      BY <2>2, <3>1, <3>3 DEF Beginning
    <3> QED BY <2>1, <3>2, <3>3, <3>4
  <2>6. \A x \in activated' : pc'[x] \notin {"none", "disposes"} \cup (Beginning \ {"parked"})
    BY <1>0, <2>1 DEF HandsShaken, Beginning
  <2> QED BY <2>3, <2>4, <2>5, <2>6 DEF HandsShaken
<1>5. ASSUME Handler(t) \/ Allocate(t) PROVE HandsShaken'
  <2>1. /\ \/ Goes(t, "user", "iterates") \/ Goes(t, "iterates", "user")
           \/ Goes(t, "user", "heap") \/ Goes(t, "heap", "user")
        /\ UNCHANGED handshake
    BY <1>5 DEF Handler, Allocate
  <2> QED BY <2>1, ShakeKeeps DEF Beginning
<1> QED BY <1>1, <1>2, <1>3, <1>4, <1>5 DEF AnyUser, Calls

\* The places that a step of COLLECT leaves and comes to.
LEMMA CollectorPlaces ==
  ASSUME TypeInvariant, NEW t \in Thread, Collector(t)
  PROVE  /\ UNCHANGED <<prs, ring, noGC, handshake>>
         /\ pc[t] \in Inside("heap") \ {"disposes"}
         /\ \E to \in Inside("heap") \ {"disposes"} : Goes(t, pc[t], to)
BY Sections DEF Collector, LockCoroutines, StartIterate, NextThread, SuspendThread,
   SuspendFails, Undo, UndoEnds, StopIterate, UnlockCoroutines, SyncThread, SyncFails,
   FreeNext, CopyJmpBuf, MarkStack, Resume, ResumeFails, Step, Steps, Walk, Goes, tables,
   handshake, loops

LEMMA CollectorShakes ==
  ASSUME TypeInvariant, HandsShaken, NEW t \in Thread, Collector(t)
  PROVE  HandsShaken'
<1>1. UNCHANGED handshake /\ pc[t] \in Inside("heap") \ {"disposes"}
  BY CollectorPlaces
<1>2. PICK to \in Inside("heap") \ {"disposes"} : Goes(t, pc[t], to)
  BY CollectorPlaces
<1>3. pc[t] \notin Beginning \cup {"creates"} /\ to \notin Beginning \cup {"none", "disposes"}
  BY <1>1, Sections DEF Beginning
<1> QED BY <1>1, <1>2, <1>3, ShakeKeeps

(***************************************************************************)
(* Programs in which a thread marks only itself: who runs while the        *)
(* collector walks.                                                        *)
(***************************************************************************)

\* What a step of thread v outside COLLECT may do, and that only a thread that
\* is in the program and not marked creates and activates others.
Outsider(v) ==
  /\ UNCHANGED <<at, stopped>> /\ v \notin stopped
  /\ prs' = prs \/ pc[v] \in {"registers", "unregisters"}
  /\ pc'[v] \notin Collecting
  /\ pc'[v] \in Program =>
       pc[v] \in Program \cup {"heap"} \/ (pc[v] = "parked" /\ v \in activated)
  /\ pc'[v] = "parked" => pc[v] = "tied"
  /\ \/ /\ v \notin noGC /\ pc[v] = "user"
        /\ \A u \in noGC : u \in noGC' \/ pc[u] = "none"
        /\ \A u \in Thread \ {v} : pc'[u] = pc[u] \/ pc'[u] = "starts"
     \/ /\ noGC \subseteq noGC' /\ activated' \subseteq activated
        /\ \A u \in Thread \ {v} : pc'[u] = pc[u]

LEMMA LifeIsOutsider ==
  ASSUME TypeInvariant, NEW v \in Thread, Life(v)
  PROVE  Outsider(v)
<1>0. pc \in [Thread -> Place]
  BY DEF TypeInvariant
<1>1. \E from, to : /\ Goes(v, from, to)
                    /\ <<from, to>> \in OutsideWays \cup
                         {<<"registers", "registered">>, <<"ties", "tied">>,
                          <<"unregisters", "unregistered">>, <<"unties", "untied">>}
                    /\ from \notin {"creates", "iterates", "heap"}
                    /\ from = "parked" => v \in activated
                    /\ prs' = prs \/ from \in {"registers", "unregisters"}
  <2>1. ASSUME RegisterThread(v) \/ UnregisterThread(v)
        PROVE  \/ Goes(v, "starts", "registers") /\ prs' = prs
               \/ Goes(v, "registers", "registered")
               \/ Goes(v, "ends", "unregisters") /\ prs' = prs
               \/ Goes(v, "unregisters", "unregistered")
    BY <2>1 DEF RegisterThread, UnregisterThread
  <2>2. ASSUME RegisterCoroutine(v) \/ UnregisterCoroutine(v)
        PROVE  /\ prs' = prs
               /\ \/ Goes(v, "registered", "ties") \/ Goes(v, "ties", "tied")
                  \/ Goes(v, "unregistered", "unties") \/ Goes(v, "unties", "untied")
    BY <2>2 DEF RegisterCoroutine, UnregisterCoroutine
  <2>3. ASSUME Signal(v) \/ Begin(v) \/ End(v) \/ Dispose(v)
        PROVE  /\ prs' = prs
               /\ \/ Goes(v, "tied", "parked") \/ Goes(v, "user", "ends")
                  \/ Goes(v, "parked", "user") /\ v \in activated
                  \/ Goes(v, "untied", "disposes") \/ Goes(v, "disposes", "none")
    BY <2>3 DEF Signal, Begin, End, Dispose, tables
  <2> QED BY <2>1, <2>2, <2>3 DEF Life, OutsideWays
<1>2. UNCHANGED <<at, stopped, noGC>> /\ activated' \subseteq activated
  BY DEF Life, RegisterThread, RegisterCoroutine, Signal, Begin, End, UnregisterThread,
     UnregisterCoroutine, Dispose, tables, handshake, loops
<1>3. PICK from, to : /\ Goes(v, from, to)
                      /\ <<from, to>> \in OutsideWays \cup
                           {<<"registers", "registered">>, <<"ties", "tied">>,
                            <<"unregisters", "unregistered">>, <<"unties", "untied">>}
                      /\ from \notin {"creates", "iterates", "heap"}
                      /\ from = "parked" => v \in activated
                      /\ prs' = prs \/ from \in {"registers", "unregisters"}
  BY <1>1
<1>4. /\ v \notin stopped /\ pc[v] = from /\ pc'[v] = to
      /\ \A u \in Thread \ {v} : pc'[u] = pc[u]
  BY <1>0, <1>3 DEF Goes
<1>5. /\ to \notin Collecting
      /\ to \in Program => from \in Program \cup {"heap"} \/ from = "parked"
      /\ to = "parked" => from = "tied"
  BY <1>3, CollectingPlaces DEF OutsideWays, Program
<1> QED BY <1>2, <1>3, <1>4, <1>5 DEF Outsider

LEMMA CarefulIsOutsider ==
  ASSUME TypeInvariant, NEW v \in Thread, CarefulUser(v)
  PROVE  Outsider(v)
<1>0. pc \in [Thread -> Place]
  BY DEF TypeInvariant
<1>1. ASSUME NEW u \in Thread, v \notin noGC, Create(v, u) PROVE Outsider(v)
  <2>1. /\ UNCHANGED <<at, stopped, prs>> /\ v \notin stopped
        /\ pc[v] = "user" /\ pc[u] = "none" /\ noGC' = noGC \ {u}
        /\ \A x \in Thread : pc'[x] = IF x = v THEN "creates"
                                     ELSE IF x = u THEN "starts" ELSE pc[x]
    BY <1>0, <1>1 DEF Create, loops
  <2> QED BY <1>1, <2>1, CollectingPlaces DEF Outsider, Program
<1>2. ASSUME NEW u \in Thread, v \notin noGC, Activate(v, u) PROVE Outsider(v)
  <2>1. /\ UNCHANGED <<pc, at, stopped, prs, noGC>> /\ v \notin stopped /\ pc[v] = "user"
    BY <1>2 DEF Activate, tables, loops
  <2> QED BY <1>2, <2>1, CollectingPlaces DEF Outsider, Program
<1>3. ASSUME SetGCAware(v, v, FALSE) PROVE Outsider(v)
  <2>1. /\ UNCHANGED <<pc, at, stopped, prs, activated>> /\ v \notin stopped /\ pc[v] = "user"
        /\ noGC' = noGC \cup {v}
    BY <1>3 DEF SetGCAware, loops, handshake
  <2> QED BY <2>1, CollectingPlaces DEF Outsider, Program
<1>4. ASSUME Calls(v) PROVE Outsider(v)
  <2>1. /\ \/ Goes(v, "user", "iterates") \/ Goes(v, "iterates", "user")
           \/ Goes(v, "user", "heap") \/ Goes(v, "heap", "user")
           \/ Goes(v, "creates", "user")
        /\ UNCHANGED <<at, stopped, prs, noGC, activated>>
    BY <1>4 DEF Calls, Created, Handler, Allocate, tables, handshake, loops
  <2>2. PICK to \in {"user", "iterates", "heap"} :
          /\ \A x \in Thread : pc'[x] = IF x = v THEN to ELSE pc[x]
          /\ v \notin stopped /\ pc[v] \in Program \cup {"heap"}
    BY <1>0, <2>1 DEF Goes, Program
  <2> QED BY <2>1, <2>2, CollectingPlaces DEF Outsider
<1> QED BY <1>1, <1>2, <1>3, <1>4 DEF CarefulUser

\* An outsider disturbs neither the loop that suspends the others nor the walks.
LEMMA OutsiderKeeps ==
  ASSUME CarefulInv, NEW v \in Thread, Outsider(v)
  PROVE  PassedAreStopped' /\ NobodyElseRuns'
<1>0. /\ LockInv /\ TypeInvariant /\ Members /\ UNCHANGED <<at, stopped>> /\ v \notin stopped
      /\ HandsShaken
      /\ \A u \in noGC : u \in noGC' \/ pc[u] = "none"
      /\ \A u \in Thread \ {v} : pc'[u] = pc[u] \/ pc'[u] = "starts"
      /\ \A t \in Thread : pc'[t] \in Collecting => t # v /\ pc[t] = pc'[t]
  BY CollectingPlaces DEF CarefulInv, RingInv, Outsider
<1>1. PassedAreStopped'
  <2> SUFFICES ASSUME NEW t \in Thread, pc'[t] \in {"suspends", "hits"},
                      NEW u \in Elems(prs'),
                      Passed(prs', t, at', u) \/ (pc'[t] = "suspends" /\ u = at')
               PROVE  u = t \/ u \in noGC' \/ u \in stopped'
    BY DEF PassedAreStopped
  <2>1. pc'[t] = pc[t] /\ pc[t] \in {"suspends", "hits"} /\ t # v
    BY <1>0, CollectingPlaces
  <2>2. pc[v] \notin {"registers", "unregisters"}
    BY <1>0, <2>1, Sections DEF LockInv, LocksHeld, Lock
  <2>3. prs' = prs
    BY <2>2 DEF Outsider
  <2>4. u = t \/ u \in noGC \/ u \in stopped
    BY <1>0, <2>1, <2>3 DEF CarefulInv, PassedAreStopped
  <2>5. IsRing(prs) /\ \A x \in Thread : x \in Elems(prs) <=> pc[x] \notin OutOfPrs
    BY <1>0 DEF Members
  <2>6. u \in Thread
    BY <2>3, <2>5, PosProperties
  <2>7. pc[u] # "none"
    BY <2>3, <2>5, <2>6 DEF OutOfPrs
  <2> QED BY <1>0, <2>4, <2>7
<1>2. NobodyElseRuns'
  <2> SUFFICES ASSUME NEW t \in Thread, NEW u \in Thread,
                      pc'[t] \in Walking \cup {"unlocks"}, u # t, u \notin noGC', u \notin stopped'
               PROVE  pc'[u] \notin Program /\ (pc'[u] = "parked" => u \notin activated')
    BY DEF NobodyElseRuns
  <2>1. pc[t] \in Walking \cup {"unlocks"} /\ t # v /\ u \notin stopped
    BY <1>0, CollectingPlaces DEF Walking
  <2>2. \A x \in Thread : x # t /\ x \notin noGC /\ x \notin stopped =>
          pc[x] \notin Program /\ (pc[x] = "parked" => x \notin activated)
    BY <2>1 DEF CarefulInv, NobodyElseRuns
  <2>3. /\ noGC \subseteq noGC' /\ activated' \subseteq activated
        /\ \A x \in Thread \ {v} : pc'[x] = pc[x]
    <3>1. ~(v \notin noGC /\ pc[v] = "user")
      BY <1>0, <2>1, <2>2 DEF Program
    <3> QED BY <3>1 DEF Outsider
  <2>4. pc[u] \notin Program /\ (pc[u] = "parked" => u \notin activated)
    BY <2>1, <2>2, <2>3
  <2>5. CASE u # v
    BY <2>3, <2>4, <2>5
  <2>6. CASE u = v
    <3>1. pc[v] # "heap"
      <4>1. pc[t] \in Inside("heap")
        BY <2>1, Sections DEF Walking
      <4> QED BY <1>0, <2>1, <4>1, OneCollector, Sections
    <3>2. pc'[v] \notin Program
      BY <2>4, <2>6, <3>1 DEF Outsider
    <3>3. pc'[v] = "parked" => v \notin activated'
      <4>1. pc[v] = "tied" => v \notin activated
        BY <1>0 DEF HandsShaken, Beginning
      <4> QED BY <2>3, <4>1 DEF Outsider
    <3> QED BY <2>6, <3>2, <3>3
  <2> QED BY <2>5, <2>6
<1> QED BY <1>1, <1>2

\* The loop passes those that it has suspended, and leaves out only the ones
\* that are not in the ring of threads.
LEMMA CollectorCareful ==
  ASSUME CarefulInv, NEW t \in Thread, Collector(t)
  PROVE  PassedAreStopped' /\ NobodyElseRuns'
<1>0. /\ LockInv /\ TypeInvariant /\ Members /\ IsRing(prs)
      /\ UNCHANGED <<prs, noGC, activated>>
      /\ pc[t] \in Inside("heap") \ {"disposes"}
      /\ \A x \in Thread : x \in Elems(prs) <=> pc[x] \notin OutOfPrs
  BY CollectorPlaces DEF CarefulInv, RingInv, Members, handshake
<1>1. PICK to \in Inside("heap") \ {"disposes"} : Goes(t, pc[t], to)
  BY CollectorPlaces, <1>0
<1>2. \A x \in Thread : pc'[x] = IF x = t THEN to ELSE pc[x]
  BY <1>0, <1>1 DEF Goes, TypeInvariant
<1>3. \A x \in Thread \ {t} : pc'[x] \notin Inside("heap")
  BY <1>0, <1>2, OneCollector
<1>4. t \in Elems(prs)
  BY <1>0, Sections DEF OutOfPrs
<1>5. PassedAreStopped'
  <2> SUFFICES ASSUME pc'[t] \in {"suspends", "hits"}, NEW u \in Elems(prs),
                      Passed(prs, t, at', u) \/ (pc'[t] = "suspends" /\ u = at')
               PROVE  u = t \/ u \in noGC \/ u \in stopped'
    BY <1>0, <1>3, Sections DEF PassedAreStopped
  <2>1. StartIterate(t) \/ NextThread(t) \/ SuspendThread(t)
    BY <1>0 DEF Collector, LockCoroutines, StartIterate, NextThread, SuspendThread,
       SuspendFails, Undo, UndoEnds, StopIterate, UnlockCoroutines, SyncThread, SyncFails,
       FreeNext, CopyJmpBuf, MarkStack, Resume, ResumeFails, Step, Steps, Walk, Goes,
       TypeInvariant
  <2>2. CASE StartIterate(t)
    <3>1. at' = t
      BY <2>2 DEF StartIterate
    <3> QED BY <1>0, <1>4, <3>1, NonePassed
  <2>3. CASE NextThread(t)
    <3>1. /\ at' = Fwd(prs, at) /\ at' # t /\ pc[t] = "suspends" /\ stopped' = stopped
          /\ pc'[t] = IF at' \in noGC THEN "suspends" ELSE "hits"
      BY <1>0, <2>3 DEF NextThread, Goes, tables, TypeInvariant
    <3>2. at \in Elems(prs)
      BY <3>1 DEF CarefulInv, RingInv, SuspendsInRing, AllOwned
    <3>3. CASE pc'[t] = "suspends" /\ u = at'
      BY <3>1, <3>3
    <3>4. CASE Passed(prs, t, at', u)
      <4>1. Passed(prs, t, at, u) \/ u = at
        BY <1>0, <1>4, <3>1, <3>2, <3>4, WalkPasses
      <4> QED BY <3>1, <4>1 DEF CarefulInv, PassedAreStopped
    <3> QED BY <3>3, <3>4
  <2>4. CASE SuspendThread(t)
    <3>1. at' = at /\ stopped' = stopped \cup {at} /\ pc[t] = "hits"
      BY <2>4 DEF SuspendThread, Goes, loops
    <3> QED BY <3>1 DEF CarefulInv, PassedAreStopped
  <2> QED BY <2>1, <2>2, <2>3, <2>4
<1>6. NobodyElseRuns'
  <2> SUFFICES ASSUME pc'[t] \in Walking \cup {"unlocks"}, NEW u \in Thread, u # t,
                      u \notin noGC, u \notin stopped'
               PROVE  pc[u] \notin Program /\ (pc[u] = "parked" => u \notin activated)
    BY <1>0, <1>2, <1>3, Sections DEF NobodyElseRuns, Walking
  <2>1. /\ stopped' = stopped
        /\ pc[t] \in Walking \cup {"unlocks"} \/ StopIterate(t)
    BY <1>0 DEF Collector, LockCoroutines, StartIterate, NextThread, SuspendThread,
       SuspendFails, Undo, UndoEnds, StopIterate, UnlockCoroutines, SyncThread, SyncFails,
       FreeNext, CopyJmpBuf, MarkStack, Resume, ResumeFails, Step, Steps, Walk, Goes,
       TypeInvariant, Walking, tables
  <2>2. CASE pc[t] \in Walking \cup {"unlocks"}
    BY <2>1, <2>2 DEF CarefulInv, NobodyElseRuns
  <2>3. CASE StopIterate(t)
    <3>1. Fwd(prs, at) = t /\ pc[t] = "suspends"
      BY <2>3 DEF StopIterate, Goes
    <3>2. at \in Elems(prs)
      BY <3>1 DEF CarefulInv, RingInv, SuspendsInRing, AllOwned
    <3>3. u \notin Elems(prs)
      <4>1. u \in Elems(prs) => Passed(prs, t, at, u) \/ u = at
        BY <1>0, <1>4, <3>1, <3>2, WalkPasses
      <4> QED BY <2>1, <3>1, <4>1 DEF CarefulInv, PassedAreStopped
    <3> QED BY <1>0, <3>3 DEF OutOfPrs, Program
  <2> QED BY <2>1, <2>2, <2>3
<1> QED BY <1>5, <1>6

LEMMA InitCareful == Init => CarefulInv
<1> SUFFICES ASSUME Init PROVE CarefulInv
  OBVIOUS
<1>0. /\ Main \in Thread /\ pc = [t \in Thread |-> IF t = Main THEN "user" ELSE "none"]
      /\ signalled = {} /\ activated = {} /\ child = [t \in Thread |-> NULL]
  BY ThreadAssumption DEF Init
<1>1. HandsShaken
  BY <1>0 DEF HandsShaken, Beginning
<1>2. PassedAreStopped /\ NobodyElseRuns
  BY <1>0 DEF PassedAreStopped, NobodyElseRuns, Walking
<1> QED BY <1>1, <1>2, InitRings DEF CarefulInv

LEMMA StepCareful == CarefulInv /\ [Next]_vars => CarefulInv'
<1> SUFFICES ASSUME CarefulInv, [Next]_vars PROVE CarefulInv'
  OBVIOUS
<1>0. RingInv /\ TypeInvariant /\ HandsShaken
  BY DEF CarefulInv, RingInv
<1>1. RingInv'
  BY <1>0, CarefulIsOpen, StepRings
<1>2. CASE Next
  <2>1. PICK t \in Thread : Life(t) \/ CarefulUser(t) \/ Collector(t)
    BY <1>2 DEF Next
  <2>2. HandsShaken'
    <3>1. CarefulUser(t) => AnyUser(t)
      BY DEF CarefulUser, AnyUser
    <3> QED BY <1>0, <2>1, <3>1, LifeShakes, UserShakes, CollectorShakes
  <2>3. PassedAreStopped' /\ NobodyElseRuns'
    BY <1>0, <2>1, LifeIsOutsider, CarefulIsOutsider, OutsiderKeeps, CollectorCareful
  <2> QED BY <1>1, <2>2, <2>3 DEF CarefulInv
<1>3. CASE UNCHANGED vars
  <2>1. HandsShaken' /\ PassedAreStopped' /\ NobodyElseRuns'
    BY <1>3 DEF vars, CarefulInv, HandsShaken, PassedAreStopped, NobodyElseRuns
  <2> QED BY <1>1, <2>1 DEF CarefulInv
<1> QED BY <1>2, <1>3

\* In a program in which a thread marks only itself, nobody runs the program
\* while the collector walks but the ones that are marked: a thread that had not
\* registered when the loop passed waits for controll, which nobody is left to set.
THEOREM NobodyRunsOn == Spec => []MutatorsStopped
<1>1. CarefulInv => MutatorsStopped
  BY DEF CarefulInv, NobodyElseRuns, MutatorsStopped
<1> QED BY <1>1, InitCareful, StepCareful, PTL DEF Spec
=============================================================================
