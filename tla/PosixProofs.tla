----------------------------- MODULE PosixProofs -----------------------------
(***************************************************************************)
(* Proofs about PosixThreads, for any finite set of threads, any bound on  *)
(* the nesting of sections and any largest count of the semaphore.         *)
(***************************************************************************)
EXTENDS PosixThreads, FiniteSetTheorems, TLAPS

Point == {"user"} \cup InMutex \cup InEvent \cup InClaim
Types ==
  /\ at \in [Thread -> Point]
  /\ mutex \in Thread \cup {NULL} /\ thread \in Thread \cup {NULL}
  /\ count \in Nat
  /\ depth \in [Thread -> Nat]
  /\ state \in [Thread -> {0, 1}]
  /\ units \in 0..MaxUnits

\* What the fields of X2C_Mutex and the places of the threads say of each other.
\* The last conjunct is what makes the unlocked reads safe: a thread that has
\* read count > 0 without being the owner finds another one in m->thread, now
\* and whenever it looks.
Recorded ==
  /\ \A t \in Thread : mutex = t <=> Holds(t)
  /\ \A t \in Thread : depth[t] > 0 => thread = t /\ count = depth[t]
  /\ \A t \in Thread : at[t] \in {"lock", "own", "count", "unlock"} => depth[t] = 0
  /\ \A t \in Thread : at[t] = "count" => thread = t
  /\ (\A t \in Thread : depth[t] = 0) => count = 0
  /\ \A t \in Thread : at[t] \in {"compare", "compareExit"} /\ thread = t => depth[t] > 0

Counted == waiters = Cardinality(Queued \cup Signalled)

IInv == Types /\ Recorded /\ Counted /\ NoIdleUnit

\* A step that leaves the mutex alone and moves nobody into or out of it.
LEMMA OutsideMutex ==
  ASSUME Recorded, UNCHANGED mutexvars,
         \A t \in Thread : at'[t] = at[t] \/ {at[t], at'[t]} \cap InMutex = {}
  PROVE  Recorded'
BY DEF Recorded, Holds, mutexvars, InMutex

\* A step that leaves the semaphore alone and moves nobody into or out of it.
LEMMA OutsideClaim ==
  ASSUME Counted, NoIdleUnit, UNCHANGED semvars,
         \A t \in Thread : at'[t] = at[t] \/ {at[t], at'[t]} \cap InClaim = {}
  PROVE  Counted' /\ NoIdleUnit'
<1>1. Queued' = Queued /\ Signalled' = Signalled
  BY DEF Queued, Signalled, InClaim
<1> QED
  BY <1>1 DEF Counted, NoIdleUnit, semvars

-----------------------------------------------------------------------------
(* The mutex *)

\* The steps of X2C_EnterMutex and X2C_ExitMutex.
MutexStep(t) ==
  \/ EnterMutex(t) \/ EnterCompare(t) \/ Lock(t) \/ StoreThread(t)
  \/ StoreCount(t) \/ ExitMutex(t) \/ ExitCompare(t) \/ Unlock(t)

LEMMA MutexStays ==
  ASSUME Types, Recorded, NEW t \in Thread, MutexStep(t)
  PROVE  Types' /\ Recorded'
<1> USE PosixAssumption DEF Types, Point, InMutex, Goes, mutexvars, semvars
<1>1. CASE EnterMutex(t)
  BY <1>1 DEF EnterMutex, Recorded, Holds
<1>2. CASE EnterCompare(t)
  <2>1. CASE thread = t
    BY <1>2, <2>1 DEF EnterCompare, Recorded, Holds
  <2>2. CASE thread # t
    BY <1>2, <2>2 DEF EnterCompare, Recorded, Holds
  <2> QED BY <2>1, <2>2
<1>3. CASE Lock(t)
  BY <1>3 DEF Lock, Recorded, Holds
<1>4. CASE StoreThread(t)
  <2>1. \A u \in Thread \ {t} : depth[u] = 0 /\ at[u] \notin {"own", "count", "unlock"}
    BY <1>4 DEF StoreThread, Recorded, Holds
  <2> QED
    BY <1>4, <2>1 DEF StoreThread, Recorded, Holds
<1>5. CASE StoreCount(t)
  <2>1. \A u \in Thread : depth[u] = 0
    BY <1>5 DEF StoreCount, Recorded, Holds
  <2>2. count = 0
    BY <2>1 DEF Recorded
  <2> QED
    BY <1>5, <2>1, <2>2 DEF StoreCount, Recorded, Holds
<1>6. CASE ExitMutex(t)
  BY <1>6 DEF ExitMutex, Recorded, Holds
<1>7. CASE ExitCompare(t)
  <2>1. CASE thread = t
    <3>1. depth[t] > 0 /\ count = depth[t]
      BY <1>7, <2>1 DEF ExitCompare, Recorded
    <3>2. \A u \in Thread \ {t} : depth[u] = 0
      BY <2>1 DEF Recorded
    <3> QED
      BY <1>7, <2>1, <3>1, <3>2 DEF ExitCompare, Recorded, Holds
  <2>2. CASE thread # t
    BY <1>7, <2>2 DEF ExitCompare, Recorded, Holds
  <2> QED BY <2>1, <2>2
<1>8. CASE Unlock(t)
  BY <1>8 DEF Unlock, Recorded, Holds
<1> QED
  BY <1>1, <1>2, <1>3, <1>4, <1>5, <1>6, <1>7, <1>8 DEF MutexStep

LEMMA MutexKeepsClaims ==
  ASSUME Types, Counted, NoIdleUnit, NEW t \in Thread, MutexStep(t)
  PROVE  Counted' /\ NoIdleUnit'
<1>1. UNCHANGED semvars
  BY DEF MutexStep, EnterMutex, EnterCompare, Lock, StoreThread, StoreCount,
         ExitMutex, ExitCompare, Unlock
<1>2. at[t] \notin InClaim /\ at' \in {[at EXCEPT ![t] = x] : x \in Point \ InClaim}
  BY DEF Types, Point, InMutex, InEvent, InClaim, Goes,
         MutexStep, EnterMutex, EnterCompare, Lock, StoreThread, StoreCount,
         ExitMutex, ExitCompare, Unlock
<1>3. \A u \in Thread : at'[u] = at[u] \/ {at[u], at'[u]} \cap InClaim = {}
  BY <1>2 DEF Types
<1> QED BY <1>1, <1>3, OutsideClaim

-----------------------------------------------------------------------------
(* The events *)

EventStep(t) ==
  \/ \E p \in Thread : Activate(t, p) \/ SuspendMeAndActivate(t, p)
  \/ ResetBoolSemaphore(t) \/ AcquireBoolSemaphore(t)
  \/ Goes(t, "asleep", "awake") /\ UNCHANGED <<mutexvars, state, semvars>>

LEMMA EventStays ==
  ASSUME IInv, NEW t \in Thread, EventStep(t)
  PROVE  IInv'
<1> USE DEF IInv
<1>1. UNCHANGED semvars /\ UNCHANGED mutexvars
  BY DEF EventStep, Activate, SuspendMeAndActivate, ResetBoolSemaphore, AcquireBoolSemaphore
<1>2. state' \in [Thread -> {0, 1}]
  BY DEF Types, EventStep, Activate, SuspendMeAndActivate, ResetBoolSemaphore,
         AcquireBoolSemaphore, SetBoolSemaphore
<1>3. /\ at' \in [Thread -> Point]
      /\ \A u \in Thread : at'[u] = at[u] \/ {at[u], at'[u]} \cap (InMutex \cup InClaim) = {}
  <2> USE DEF Types, Point, InMutex, InEvent, InClaim, Goes
  <2>1. CASE \E p \in Thread : Activate(t, p)
    BY <2>1 DEF Activate, SetBoolSemaphore
  <2>2. CASE \E p \in Thread : SuspendMeAndActivate(t, p)
    BY <2>2 DEF SuspendMeAndActivate, SetBoolSemaphore
  <2>3. CASE ResetBoolSemaphore(t)
    BY <2>3 DEF ResetBoolSemaphore
  <2>4. CASE AcquireBoolSemaphore(t)
    BY <2>4 DEF AcquireBoolSemaphore
  <2>5. CASE Goes(t, "asleep", "awake")
    BY <2>5
  <2> QED BY <2>1, <2>2, <2>3, <2>4, <2>5 DEF EventStep
<1>4. Types'
  BY <1>1, <1>2, <1>3 DEF Types, mutexvars, semvars
<1>5. Recorded'
  BY <1>1, <1>3, OutsideMutex
<1>6. Counted' /\ NoIdleUnit'
  BY <1>1, <1>3, OutsideClaim
<1> QED BY <1>4, <1>5, <1>6

-----------------------------------------------------------------------------
(* The semaphore *)

LEMMA ClaimantsFinite ==
  /\ IsFiniteSet(Queued) /\ IsFiniteSet(Signalled) /\ IsFiniteSet(Queued \cup Signalled)
  /\ Cardinality(Queued) \in Nat /\ Cardinality(Signalled) \in Nat
  /\ Cardinality(Queued \cup Signalled) \in Nat
<1>1. IsFiniteSet(Queued) /\ IsFiniteSet(Signalled) /\ IsFiniteSet(Queued \cup Signalled)
  BY PosixAssumption, FS_Subset DEF Queued, Signalled
<1> QED BY <1>1, FS_CardinalityType

\* A thread that is signalled, by pthread_cond_signal or by nobody, leaves the
\* sleepers for those on their way.
LEMMA Signalling ==
  ASSUME Types, NEW q \in Queued, at' = [at EXCEPT ![q] = "signalled"]
  PROVE  /\ Queued' = Queued \ {q} /\ Signalled' = Signalled \cup {q}
         /\ Queued' \cup Signalled' = Queued \cup Signalled
         /\ Cardinality(Signalled') = Cardinality(Signalled) + 1
         /\ at' \in [Thread -> Point]
         /\ \A t \in Thread : at'[t] = at[t] \/ {at[t], at'[t]} \cap InMutex = {}
<1>1. /\ q \in Thread /\ at[q] = "queued" /\ q \notin Signalled
      /\ at' \in [Thread -> Point]
      /\ \A t \in Thread : at'[t] = IF t = q THEN "signalled" ELSE at[t]
  BY DEF Types, Queued, Signalled, Point, InClaim
<1>2. Queued' = Queued \ {q} /\ Signalled' = Signalled \cup {q}
  BY <1>1 DEF Queued, Signalled
<1>3. Cardinality(Signalled') = Cardinality(Signalled) + 1
  BY <1>1, <1>2, ClaimantsFinite, FS_AddElement
<1> QED BY <1>1, <1>2, <1>3 DEF InMutex

SemaphoreStep(t) ==
  \/ Claim(t) \/ ClaimAgain(t) \/ CondClaim(t) \/ Release(t)
  \/ Goes(t, "queued", "signalled") /\ UNCHANGED <<mutexvars, state, semvars>>

LEMMA SemaphoreStays ==
  ASSUME IInv, NEW t \in Thread, SemaphoreStep(t)
  PROVE  IInv'
<1> USE PosixAssumption, ClaimantsFinite DEF IInv
<1>0. UNCHANGED mutexvars /\ UNCHANGED state
  BY DEF SemaphoreStep, Claim, ClaimAgain, CondClaim, Release
<1> SUFFICES /\ at' \in [Thread -> Point] /\ units' \in 0..MaxUnits
             /\ \A u \in Thread : at'[u] = at[u] \/ {at[u], at'[u]} \cap InMutex = {}
             /\ Counted' /\ NoIdleUnit'
  BY <1>0, OutsideMutex DEF Types, mutexvars
<1>1. CASE Claim(t) /\ units = 0
  <2>1. /\ t \notin Queued \cup Signalled
        /\ Queued' = Queued \cup {t} /\ Signalled' = Signalled
    BY <1>1 DEF Claim, Goes, Types, Queued, Signalled
  <2>2. Cardinality(Queued' \cup Signalled') = Cardinality(Queued \cup Signalled) + 1
    <3>1. Queued' \cup Signalled' = (Queued \cup Signalled) \cup {t}
      BY <2>1
    <3> QED BY <2>1, <3>1, FS_AddElement
  <2>3. Counted'
    BY <1>1, <2>2 DEF Claim, Counted
  <2>4. NoIdleUnit'
    BY <1>1, <2>1 DEF Claim, NoIdleUnit
  <2> QED
    BY <1>1, <2>3, <2>4 DEF Claim, Goes, Types, Point, InMutex, InClaim
<1>2. CASE (Claim(t) \/ CondClaim(t)) /\ units # 0
  <2>1. Queued' = Queued /\ Signalled' = Signalled
    BY <1>2 DEF Claim, CondClaim, Goes, Types, Queued, Signalled
  <2>2. Counted' /\ NoIdleUnit'
    BY <1>2, <2>1 DEF Claim, CondClaim, Counted, NoIdleUnit, Types
  <2> QED
    BY <1>2, <2>2 DEF Claim, CondClaim, Goes, Types, Point, InMutex
<1>3. CASE ClaimAgain(t) /\ units = 0
  <2>1. /\ t \in Signalled /\ t \notin Queued
        /\ Queued' = Queued \cup {t} /\ Signalled' = Signalled \ {t}
    BY <1>3 DEF ClaimAgain, Goes, Types, Queued, Signalled
  <2>2. Queued' \cup Signalled' = Queued \cup Signalled
    BY <2>1
  <2>3. Cardinality(Signalled') \in Nat
    BY <2>1, FS_RemoveElement, FS_CardinalityType
  <2>4. Counted' /\ NoIdleUnit'
    BY <1>3, <2>2, <2>3 DEF ClaimAgain, Counted, NoIdleUnit, semvars
  <2> QED
    BY <1>3, <2>4 DEF ClaimAgain, Goes, Types, Point, InMutex, InClaim, semvars
<1>4. CASE ClaimAgain(t) /\ units # 0
  <2>1. /\ t \in Signalled /\ t \notin Queued
        /\ Queued' = Queued /\ Signalled' = Signalled \ {t}
    BY <1>4 DEF ClaimAgain, Goes, Types, Queued, Signalled
  <2>2. Cardinality(Signalled') = Cardinality(Signalled) - 1
    BY <2>1, FS_RemoveElement
  <2>3. Queued' \cup Signalled' = (Queued \cup Signalled) \ {t}
    BY <2>1
  <2>4. Cardinality(Queued' \cup Signalled') = Cardinality(Queued \cup Signalled) - 1
    BY <2>1, <2>3, FS_RemoveElement
  <2>5. Counted' /\ NoIdleUnit'
    BY <1>4, <2>1, <2>2, <2>4 DEF ClaimAgain, Counted, NoIdleUnit, Types
  <2> QED
    BY <1>4, <2>5 DEF ClaimAgain, Goes, Types, Point, InMutex, InClaim
<1>5. CASE Release(t) /\ waiters > 0 /\ Queued # {}
  <2>1. PICK q \in Queued : at' = [at EXCEPT ![q] = "signalled"]
    BY <1>5 DEF Release
  <2>2. /\ Queued' = Queued \ {q}
        /\ Queued' \cup Signalled' = Queued \cup Signalled
        /\ Cardinality(Signalled') = Cardinality(Signalled) + 1
        /\ at' \in [Thread -> Point]
        /\ \A u \in Thread : at'[u] = at[u] \/ {at[u], at'[u]} \cap InMutex = {}
    BY <2>1, Signalling
  <2>3. units' \in 0..MaxUnits /\ units' <= units + 1 /\ waiters' = waiters
    BY <1>5 DEF Release, Types
  <2>4. Counted'
    BY <2>2, <2>3 DEF Counted
  <2>5. NoIdleUnit'
    BY <2>2, <2>3, <1>5 DEF NoIdleUnit, Types
  <2> QED BY <2>2, <2>3, <2>4, <2>5
<1>6. CASE Release(t) /\ ~(waiters > 0 /\ Queued # {})
  <2>1. Queued = {}
    <3>1. CASE Queued # {}
      <4>1. PICK q \in Queued : TRUE
        BY <3>1
      <4>2. Cardinality(Queued \cup Signalled) # 0
        BY <4>1, FS_EmptySet
      <4> QED BY <4>2, <1>6, <3>1 DEF Counted
    <3> QED BY <3>1
  <2>2. at' = at /\ waiters' = waiters /\ units' \in 0..MaxUnits
    BY <1>6 DEF Release, Types
  <2>3. Counted' /\ NoIdleUnit'
    BY <2>1, <2>2 DEF Counted, NoIdleUnit, Queued, Signalled
  <2> QED BY <2>2, <2>3 DEF Types
<1>7. CASE Goes(t, "queued", "signalled") /\ UNCHANGED semvars
  <2>1. t \in Queued /\ at' = [at EXCEPT ![t] = "signalled"]
    BY <1>7 DEF Goes, Queued
  <2>2. /\ Queued' \cup Signalled' = Queued \cup Signalled
        /\ Cardinality(Signalled') = Cardinality(Signalled) + 1
        /\ at' \in [Thread -> Point]
        /\ \A u \in Thread : at'[u] = at[u] \/ {at[u], at'[u]} \cap InMutex = {}
    BY <2>1, Signalling
  <2>3. Counted' /\ NoIdleUnit'
    BY <1>7, <2>1, <2>2 DEF Counted, NoIdleUnit, semvars, Types
  <2> QED BY <1>7, <2>2, <2>3 DEF semvars, Types
<1> QED
  BY <1>1, <1>2, <1>3, <1>4, <1>5, <1>6, <1>7 DEF SemaphoreStep, CondClaim, Types

-----------------------------------------------------------------------------
(* All together *)

LEMMA Initially == Init => IInv
<1> SUFFICES ASSUME Init PROVE IInv
  OBVIOUS
<1>1. Queued = {} /\ Signalled = {}
  BY DEF Init, Queued, Signalled
<1>2. Counted /\ NoIdleUnit
  BY <1>1, FS_EmptySet DEF Init, Counted, NoIdleUnit
<1>3. Recorded
  BY PosixAssumption DEF Init, Recorded, Holds
<1>4. Types
  BY PosixAssumption DEF Init, Types, Point
<1> QED BY <1>2, <1>3, <1>4 DEF IInv

LEMMA Stepwise == IInv /\ [Next]_vars => IInv'
<1> SUFFICES ASSUME IInv, [Next]_vars PROVE IInv'
  OBVIOUS
<1>1. CASE UNCHANGED vars
  BY <1>1 DEF vars, mutexvars, semvars, IInv, Types, Recorded, Holds, Counted,
              NoIdleUnit, Queued, Signalled
<1>2. ASSUME NEW t \in Thread, MutexStep(t) PROVE IInv'
  BY <1>2, MutexStays, MutexKeepsClaims DEF IInv
<1>3. ASSUME NEW t \in Thread, EventStep(t) PROVE IInv'
  BY <1>3, EventStays
<1>4. ASSUME NEW t \in Thread, SemaphoreStep(t) PROVE IInv'
  BY <1>4, SemaphoreStays
<1>5. ASSUME NEW t \in Thread, GoesOn(t) \/ Calls(t) \/ SpuriousWakeup(t)
      PROVE  MutexStep(t) \/ EventStep(t) \/ SemaphoreStep(t)
  BY <1>5 DEF GoesOn, Calls, SpuriousWakeup, MutexStep, EventStep, SemaphoreStep
<1> QED BY <1>1, <1>2, <1>3, <1>4, <1>5 DEF Next

\* The inductive invariant of X2C_Mutex, X2C_Semaphore and the threads' places
\* holds in every reachable state.
THEOREM Invariance == Spec => []IInv
<1> QED BY Initially, Stepwise, PTL DEF Spec

\* X2C_EnterMutex and X2C_ExitMutex: the unlocked reads of m->count and m->thread
\* never let two threads in, for any number of threads.
THEOREM MutualExclusion == Spec => []Exclusion
<1>1. IInv => Exclusion
  BY DEF IInv, Recorded, Exclusion
<1> QED BY <1>1, Invariance, PTL

\* X2C_ReleaseSemaphore: no unit is idle while claimers sleep, for any number of
\* threads and any largest count.
THEOREM UnitsAreUsed == Spec => []NoIdleUnit
<1>1. IInv => NoIdleUnit
  BY DEF IInv
<1> QED BY <1>1, Invariance, PTL

\* The fields keep their types, and waiters is the number of those in Claim.
THEOREM TypeCorrect == Spec => []TypeOK
<1>1. IInv => TypeOK
  BY DEF IInv, Types, Counted, TypeOK, Point
<1> QED BY <1>1, Invariance, PTL

\* SuspendMe comes back only after an Activate, whatever wakes the thread.
THEOREM ReturnsActivated == Spec => OnlyActivated
<1>1. IInv /\ [Next]_vars => [\A t \in Thread :
        at[t] \in InEvent /\ at'[t] = "user" => state[t] = 1]_vars
  <2> SUFFICES ASSUME IInv, Next, NEW t \in Thread, at[t] \in InEvent, at'[t] = "user"
               PROVE  state[t] = 1
    BY DEF Next
  <2> USE DEF IInv, Types, Goes, InEvent
  <2>1. PICK u \in Thread : GoesOn(u) \/ Calls(u) \/ SpuriousWakeup(u)
    BY DEF Next
  <2>2. CASE MutexStep(u)
    <3>1. at[u] \notin InEvent /\ \A v \in Thread \ {u} : at'[v] = at[v]
      BY <2>2 DEF MutexStep, EnterMutex, EnterCompare, Lock, StoreThread, StoreCount,
                  ExitMutex, ExitCompare, Unlock
    <3> QED BY <3>1
  <2>3. CASE SemaphoreStep(u)
    <3>1. \A v \in Thread : at[v] \in InEvent => at'[v] = at[v]
      BY <2>3 DEF SemaphoreStep, Claim, ClaimAgain, CondClaim, Release, Queued
    <3> QED BY <3>1
  <2>4. CASE AcquireBoolSemaphore(u)
    BY <2>4 DEF AcquireBoolSemaphore
  <2>5. CASE EventStep(u) /\ ~AcquireBoolSemaphore(u)
    <3>1. \A v \in Thread : at[v] \in InEvent => at'[v] # "user"
      BY <2>5 DEF EventStep, Activate, SuspendMeAndActivate, SetBoolSemaphore,
                  ResetBoolSemaphore
    <3> QED BY <3>1
  <2> QED
    BY <2>1, <2>2, <2>3, <2>4, <2>5 DEF GoesOn, Calls, SpuriousWakeup, MutexStep,
      EventStep, SemaphoreStep
<1> QED BY <1>1, Invariance, PTL DEF Spec, OnlyActivated
=============================================================================
