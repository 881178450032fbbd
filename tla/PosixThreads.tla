----------------------------- MODULE PosixThreads -----------------------------
(***************************************************************************)
(* The synchronization of the multithread library on POSIX:                *)
(* os/POSIX/xosThreads.c under the multithread halves of                   *)
(* isoimp/Processes.mod and isoimp/Semaphores.mod.  One recursive mutex,   *)
(* one counting semaphore, and the control event of every process.         *)
(*                                                                         *)
(* Whatever the code does between pthread_mutex_lock and _unlock of an     *)
(* event or a semaphore is one step.  X2C_Mutex keeps its owner and count  *)
(* in two fields that are read without the lock: each access is a step.    *)
(* The stores are seen in the order of the source, as on the x86 targets   *)
(* of the build when the compiler keeps that order.                        *)
(***************************************************************************)
EXTENDS Integers, FiniteSets

CONSTANTS
  Thread,    \* the threads, each with its process
  NULL,      \* no thread
  MaxDepth,  \* bound: nested sections of one thread
  MaxUnits   \* SemRec's max, the largest count of the semaphore

ASSUME PosixAssumption ==
  /\ NULL \notin Thread /\ IsFiniteSet(Thread)
  /\ MaxDepth \in Nat \ {0} /\ MaxUnits \in Nat \ {0}

VARIABLES
  at,      \* where each thread is; "user": in none of the procedures
  mutex,   \* the owner of the pthread mutex in X2C_Mutex
  thread,  \* X2C_Mutex_struct.thread
  count,   \* X2C_Mutex_struct.count
  depth,   \* history: sections each thread is in
  state,   \* X2C_BSemaphore_struct.state of each process's control event
  units,   \* X2C_Semaphore_struct.count
  waiters  \* X2C_Semaphore_struct.waiters

mutexvars == <<mutex, thread, count, depth>>
semvars == <<units, waiters>>
vars == <<at, mutexvars, state, semvars>>

InMutex == {"compare", "lock", "own", "count", "compareExit", "unlock"}
InEvent == {"reset", "acquire", "asleep", "awake"}
InClaim == {"queued", "signalled"}

\* m->thread is left uninitialized.
Init ==
  /\ at = [t \in Thread |-> "user"]
  /\ mutex = NULL /\ thread \in Thread \cup {NULL} /\ count = 0
  /\ depth = [t \in Thread |-> 0]
  /\ state = [t \in Thread |-> 0]
  /\ units \in 0..MaxUnits /\ waiters = 0

Goes(t, from, to) == at[t] = from /\ at' = [at EXCEPT ![t] = to]
-----------------------------------------------------------------------------
(* X2C_EnterMutex and X2C_ExitMutex *)

EnterMutex(t) ==
  /\ depth[t] < MaxDepth
  /\ Goes(t, "user", IF count > 0 THEN "compare" ELSE "lock")
  /\ UNCHANGED <<mutexvars, state, semvars>>

EnterCompare(t) ==
  /\ at[t] = "compare"
  /\ IF thread = t
     THEN /\ Goes(t, "compare", "user")
          /\ count' = count + 1
          /\ depth' = [depth EXCEPT ![t] = @ + 1]
     ELSE /\ Goes(t, "compare", "lock")
          /\ UNCHANGED <<count, depth>>
  /\ UNCHANGED <<mutex, thread, state, semvars>>

Lock(t) ==
  /\ mutex = NULL
  /\ Goes(t, "lock", "own")
  /\ mutex' = t
  /\ UNCHANGED <<thread, count, depth, state, semvars>>

\* Slip: m->count is stored before m->thread (Exclusion notices).
StoreThreadLate(t) ==
  /\ \/ Goes(t, "own", "count") /\ UNCHANGED thread
     \/ at[t] = "user" /\ depth[t] > 0 /\ mutex = t /\ thread' = t /\ UNCHANGED at
  /\ UNCHANGED <<mutex, count, depth, state, semvars>>

StoreThread(t) ==
  /\ Goes(t, "own", "count")
  /\ thread' = t
  /\ UNCHANGED <<mutex, count, depth, state, semvars>>

StoreCount(t) ==
  /\ Goes(t, "count", "user")
  /\ count' = count + 1
  /\ depth' = [depth EXCEPT ![t] = @ + 1]
  /\ UNCHANGED <<mutex, thread, state, semvars>>

ExitMutex(t) ==
  /\ count > 0
  /\ Goes(t, "user", "compareExit")
  /\ UNCHANGED <<mutexvars, state, semvars>>

\* EPERM unless the caller is the owner.
ExitCompare(t) ==
  /\ at[t] = "compareExit"
  /\ IF thread = t
     THEN /\ Goes(t, "compareExit", IF count = 1 THEN "unlock" ELSE "user")
          /\ count' = count - 1
          /\ depth' = [depth EXCEPT ![t] = @ - 1]
     ELSE /\ Goes(t, "compareExit", "user")
          /\ UNCHANGED <<count, depth>>
  /\ UNCHANGED <<mutex, thread, state, semvars>>

Unlock(t) ==
  /\ Goes(t, "unlock", "user")
  /\ mutex' = NULL
  /\ UNCHANGED <<thread, count, depth, state, semvars>>
-----------------------------------------------------------------------------
(* Control events: SuspendMe, Activate and SuspendMeAndActivate *)

\* Slip: the event is set and nobody is woken (ActivatedRuns notices).
SetBoolSemaphoreSilently(p, others) ==
  /\ state' = [state EXCEPT ![p] = 1]
  /\ at' = others

\* X2C_SetBoolSemaphore(p^.controll), the caller having gone to others[t].
SetBoolSemaphore(p, others) ==
  /\ state' = [state EXCEPT ![p] = 1]
  /\ at' = [others EXCEPT ![p] = IF @ = "asleep" THEN "awake" ELSE @]

Activate(t, p) ==
  /\ at[t] = "user"
  /\ SetBoolSemaphore(p, at)
  /\ UNCHANGED <<mutexvars, semvars>>

\* Not atomic: Activate(p) and then SuspendMe.  With p = Me it only yields.
SuspendMeAndActivate(t, p) ==
  /\ p # t /\ at[t] = "user"
  /\ SetBoolSemaphore(p, [at EXCEPT ![t] = "reset"])
  /\ UNCHANGED <<mutexvars, semvars>>

\* The first half of SuspendMe.
ResetBoolSemaphore(t) ==
  /\ Goes(t, "user", "acquire") \/ Goes(t, "reset", "acquire")
  /\ state' = [state EXCEPT ![t] = 0]
  /\ UNCHANGED <<mutexvars, semvars>>

\* Slip: a woken thread does not look at the state again
\* (OnlyActivated notices).
AcquireBoolSemaphoreOnce(t) ==
  /\ Goes(t, "acquire", IF state[t] = 0 THEN "asleep" ELSE "user") \/ Goes(t, "awake", "user")
  /\ UNCHANGED <<mutexvars, state, semvars>>

\* The second half; the event is left as it is.
AcquireBoolSemaphore(t) ==
  /\ LET to == IF state[t] = 0 THEN "asleep" ELSE "user" IN
     Goes(t, "acquire", to) \/ Goes(t, "awake", to)
  /\ UNCHANGED <<mutexvars, state, semvars>>
-----------------------------------------------------------------------------
(* Semaphores: Claim, CondClaim and Release *)

\* Slip: a claimer that finds a unit at once is still counted (TypeOK notices).
ClaimStaysWaiter(t) ==
  /\ Goes(t, "user", IF units = 0 THEN "queued" ELSE "user")
  /\ waiters' = waiters + 1
  /\ units' = IF units = 0 THEN units ELSE units - 1
  /\ UNCHANGED <<mutexvars, state>>

Claim(t) ==
  /\ Goes(t, "user", IF units = 0 THEN "queued" ELSE "user")
  /\ IF units = 0 THEN waiters' = waiters + 1 /\ UNCHANGED units
     ELSE units' = units - 1 /\ UNCHANGED waiters
  /\ UNCHANGED <<mutexvars, state>>

\* pthread_cond_wait has returned.
ClaimAgain(t) ==
  /\ IF units = 0 THEN Goes(t, "signalled", "queued") /\ UNCHANGED semvars
     ELSE /\ Goes(t, "signalled", "user")
          /\ waiters' = waiters - 1 /\ units' = units - 1
  /\ UNCHANGED <<mutexvars, state>>

CondClaim(t) ==
  /\ at[t] = "user" /\ units > 0
  /\ units' = units - 1
  /\ UNCHANGED <<at, mutexvars, state, waiters>>

Queued == {t \in Thread : at[t] = "queued"}
Signalled == {t \in Thread : at[t] = "signalled"}

\* Slip: nobody is signalled while there are units left (NoIdleUnit notices).
ReleaseSignalsFirst(t) ==
  /\ at[t] = "user"
  /\ IF waiters > 0 /\ units = 0 /\ Queued # {}
     THEN \E q \in Queued : at' = [at EXCEPT ![q] = "signalled"]
     ELSE UNCHANGED at
  /\ units' = IF units < MaxUnits THEN units + 1 ELSE units
  /\ UNCHANGED <<mutexvars, state, waiters>>

Release(t) ==
  /\ at[t] = "user"
  /\ IF waiters > 0 /\ Queued # {}
     THEN \E q \in Queued : at' = [at EXCEPT ![q] = "signalled"]
     ELSE UNCHANGED at
  /\ units' = IF units < MaxUnits THEN units + 1 ELSE units
  /\ UNCHANGED <<mutexvars, state, waiters>>

\* pthread_cond_wait may return although nobody has signalled.
SpuriousWakeup(t) ==
  /\ Goes(t, "asleep", "awake") \/ Goes(t, "queued", "signalled")
  /\ UNCHANGED <<mutexvars, state, semvars>>
-----------------------------------------------------------------------------
\* What a thread does once it has entered one of the procedures.
GoesOn(t) ==
  \/ EnterCompare(t) \/ Lock(t) \/ StoreThread(t) \/ StoreCount(t)
  \/ ExitCompare(t) \/ Unlock(t)
  \/ at[t] = "reset" /\ ResetBoolSemaphore(t)
  \/ AcquireBoolSemaphore(t) \/ ClaimAgain(t)

Calls(t) ==
  \/ EnterMutex(t) \/ ExitMutex(t)
  \/ \E p \in Thread : Activate(t, p) \/ SuspendMeAndActivate(t, p)
  \/ at[t] = "user" /\ ResetBoolSemaphore(t)
  \/ Claim(t) \/ CondClaim(t) \/ Release(t)

Next == \E t \in Thread : GoesOn(t) \/ Calls(t) \/ SpuriousWakeup(t)

\* The system runs every thread that can run, and the sections of the library
\* under its own locks are short.
Spec == Init /\ [][Next]_vars /\ \A t \in Thread : WF_vars(GoesOn(t))
-----------------------------------------------------------------------------
TypeOK ==
  /\ at \in [Thread -> {"user"} \cup InMutex \cup InEvent \cup InClaim]
  /\ mutex \in Thread \cup {NULL} /\ thread \in Thread \cup {NULL}
  /\ count \in Nat
  /\ depth \in [Thread -> Nat]
  /\ state \in [Thread -> {0, 1}]
  /\ units \in 0..MaxUnits
  /\ waiters = Cardinality(Queued \cup Signalled)

\* A thread that holds the pthread mutex, whether or not it has told so yet.
Holds(t) == depth[t] > 0 \/ at[t] \in {"own", "count", "unlock"}

\* X2C_EnterMutex decides by two unlocked reads whether the caller is already
\* the owner.  For all interleavings with the stores of the owner it is right:
\* at most one thread is inside, and m->thread and m->count tell who it is and
\* how often it has entered, so that X2C_ExitMutex never refuses the owner and
\* never lets another one in.
Exclusion ==
  /\ \A t, u \in Thread : Holds(t) /\ Holds(u) => t = u
  /\ \A t \in Thread : depth[t] > 0 => thread = t /\ count = depth[t]

\* No lost wakeup in X2C_ReleaseSemaphore: whenever claimers sleep, each unit
\* that is left has an awakened claimer on its way to it, though CondClaim and
\* other claimers may take it first.
NoIdleUnit == Queued # {} => units <= Cardinality(Signalled)

\* "The procedure only returns when the calling process is again activated by
\* another process" (isodef/Processes.def:43): SuspendMe comes back only when an
\* Activate has come since its reset, in spite of spurious wakeups.
OnlyActivated ==
  [][\A t \in Thread : at[t] \in InEvent /\ at'[t] = "user" => state[t] = 1]_vars

\* A process that has been activated since the reset of its SuspendMe runs again,
\* wherever in SuspendMe the Activate met it.
ActivatedRuns ==
  \A t \in Thread :
    (at[t] \in {"acquire", "asleep", "awake"} /\ state[t] = 1) ~> (at[t] = "user")

\* A claimer does not sleep for ever while there are units: it is served, or the
\* units go to others.
ClaimersServed ==
  \A t \in Thread : (at[t] \in InClaim /\ units > 0) ~> (at[t] = "user" \/ units = 0)
=============================================================================
