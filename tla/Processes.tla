------------------------------ MODULE Processes ------------------------------
(***************************************************************************)
(* The ISO Modula-2 process scheduler of the single-thread run-time        *)
(* library: Lib/src/isoimp/Processes.mod (the <* ELSE *> half), the        *)
(* descriptors of lib/XPrs.def and the coroutines of xrnCoroutines.mod on  *)
(* which it is built.  Processes are coroutines: control leaves a process  *)
(* only inside GoNext, so one action is one call of the module's interface *)
(* made by the running program, up to the moment the coroutine to which    *)
(* GoNext transfers is back in user code.                                  *)
(*                                                                         *)
(* A descriptor and the coroutine made for it by Create have the same name *)
(* in Proc; "body" and "cor" hold coroutines, everything else holds        *)
(* descriptors.  A name may be created again once it has been disposed.    *)
(***************************************************************************)
EXTENDS Integers, Sequences, FiniteSets

CONSTANTS
  Proc,     \* process descriptors, and the coroutines that belong to them
  Main,     \* the descriptor made by init for the main program
  Urgency,  \* the urgency each descriptor is created with
  Source,   \* event sources, the index of the array events
  NULL      \* NIL

ASSUME ProcAssumption == Main \in Proc /\ NULL \notin Proc
ASSUME UrgencyAssumption == Urgency \in [Proc -> Int]
ASSUME SourceAssumption == IsFiniteSet(Source)

VARIABLES
  ring,     \* the ready list from prs.current along fwd; empty if current=NIL
  state,    \* p^.state; "free" if there is no descriptor (or magic is gone)
  body,     \* p^.body: the coroutine to which GoNext transfers to run p
  events,   \* events[e]: the process associated with a source
  hcnt,     \* number of associated sources, as the code counts it
  corpse,   \* the stopped process whose stack the next arrival releases
  cor,      \* cor.CURRENT(): the coroutine in control
  started,  \* coroutines that have been in control since they were created
  status,   \* "running", "halted" (HALT), "trap" (an ASSERT or a TRAP)
  stopped   \* history: processes that called StopMe and are not yet disposed

vars == <<ring, state, body, events, hcnt, corpse, cor, started, status, stopped>>

(***************************************************************************)
(* The ready list.  prs.current is the first element; fwd leads from an    *)
(* element to the next one and from the last back to the first.            *)
(***************************************************************************)
Current == IF ring = <<>> THEN NULL ELSE Head(ring)

\* Where Tie's first loop leaves min: it walks from current along bck for as
\* long as the urgency does not grow and the list is not exhausted.
IsMin(r, m) ==
  IF Len(r) = 1 \/ Urgency[r[Len(r)]] > Urgency[r[1]]
  THEN m = 1
  ELSE /\ m \in 2..Len(r)
       /\ m = 2 \/ Urgency[r[m-1]] > Urgency[r[m]]
       /\ \A i \in m+1..Len(r) : Urgency[r[i-1]] <= Urgency[r[i]]

\* max, the element before min.
MaxOf(r, m) == IF m = 1 THEN r[Len(r)] ELSE r[m-1]

\* Where Tie's second loop stops: the first element from min on that is at
\* least as urgent as p (the first of the list comes again after the last).
IsNotBelow(r, m, p, k) ==
  LET urg(i) == IF i > Len(r) THEN Urgency[r[1]] ELSE Urgency[r[i]]
  IN  urg(k) >= Urgency[p] /\ \A i \in m..k-1 : urg(i) < Urgency[p]

\* Slip: an equally urgent process is tied in behind the current one instead
\* of before it (NoOvertaking notices).
IsSlotNextInLine(r, p, k) ==
  Urgency[p] = Urgency[r[1]] /\ k = 2

\* p goes before the k-th element, or after the last if k = Len(r)+1.  No k
\* satisfies this when ASSERT(max^.urgency=prs.current^.urgency) fails.
IsSlot(r, p, k) ==
  \/ Urgency[p] = Urgency[r[1]] /\ k = Len(r) + 1
  \/ /\ Urgency[p] # Urgency[r[1]]
     /\ \E m \in 1..Len(r) :
          /\ IsMin(r, m)
          /\ Urgency[MaxOf(r, m)] = Urgency[r[1]]
          /\ \/ /\ \/ Urgency[p] >= Urgency[MaxOf(r, m)]
                   \/ Urgency[p] <= Urgency[r[m]]
                /\ k = IF m = 1 THEN Len(r) + 1 ELSE m
             \/ /\ Urgency[r[m]] < Urgency[p]
                /\ Urgency[p] < Urgency[MaxOf(r, m)]
                /\ m <= k /\ IsNotBelow(r, m, p, k)

\* Slip: a more urgent process does not become current (Dispatches
\* notices).
InsertNoPreemption(r, p, k) == SubSeq(r, 1, k-1) \o <<p>> \o SubSeq(r, k, Len(r))

\* The ready list with p tied in at slot k; p becomes current if it is more
\* urgent than the current process.
Insert(r, p, k) ==
  IF Urgency[r[1]] < Urgency[p]
  THEN <<p>> \o SubSeq(r, k, Len(r)) \o SubSeq(r, 1, k-1)
  ELSE SubSeq(r, 1, k-1) \o <<p>> \o SubSeq(r, k, Len(r))

\* The results of Tie(p) on the ready list r: one list, or none if an ASSERT
\* of Tie fails.
Tied(r, p) ==
  IF r = <<>> THEN { <<p>> }
  ELSE { Insert(r, p, k) : k \in { i \in 2..Len(r)+1 : IsSlot(r, p, i) } }

\* What Tie does to the bodies and the states.
TieBody(r, b) == IF r = <<>> THEN b ELSE [b EXCEPT ![Head(r)] = cor]
TieState(r, s, p) ==
  [q \in Proc |-> IF q = p \/ (r # <<>> /\ q = Head(r)) THEN "ready" ELSE s[q]]

\* Slip: the coroutine is saved after current has moved on to the next
\* process (MeIsCaller and AssertionsHold notice).
UnTieBodyLate ==
  IF Tail(ring) = <<>> THEN body ELSE [body EXCEPT ![Head(Tail(ring))] = cor]

\* What UnTie does to the current process, which is left in state st.
UnTieBody == [body EXCEPT ![Head(ring)] = cor]
UnTieState(st) == [state EXCEPT ![Head(ring)] = st]

(***************************************************************************)
(* Transfer of control.                                                    *)
(***************************************************************************)

\* A failed ASSERT, or a TRANSFER to a coroutine that no longer exists: the
\* exception is taken to end the program.
Trap ==
  /\ status' = "trap"
  /\ UNCHANGED <<ring, state, body, corpse, cor, started, stopped>>

\* With current=NIL, GoNext never leaves its loop: the interrupts for which
\* it LISTENs cannot be installed on any target (os/*/xosIpts.mod).
Idle(b, s, c, k) ==
  /\ ring' = <<>> /\ body' = b /\ state' = s /\ corpse' = c /\ stopped' = k
  /\ UNCHANGED <<cor, started, status>>

\* GoNext on the ready list r, the bodies b, the states s, the corpse c and
\* the stopped processes k.  A coroutine that comes back into GoNext disposes
\* of the corpse; one that is entered for the first time (execBody) does not.
GoNext(r, b, s, c, k) ==
  LET t == b[Head(r)]
      buries == t \in started /\ c # NULL
      s2 == IF buries THEN [s EXCEPT ![c] = "free"] ELSE s
  IN
  IF r = <<>> THEN Idle(b, s, c, k)
  ELSE IF s[Head(r)] # "ready" \/ s2[t] = "free" THEN Trap
  ELSE /\ ring' = r /\ body' = b /\ state' = s2 /\ cor' = t
       /\ corpse' = IF buries THEN NULL ELSE c
       /\ stopped' = IF buries THEN k \ {c} ELSE k
       /\ started' = (started \cup {t}) \ (IF buries THEN {c} ELSE {})
       /\ UNCHANGED status

\* Tie(p); GoNext
TieAndGo(r, b, s, p) ==
  IF Tied(r, p) = {} THEN Trap
  ELSE \E r2 \in Tied(r, p) :
         GoNext(r2, TieBody(r, b), TieState(r, s, p), corpse, stopped)

-----------------------------------------------------------------------------
(***************************************************************************)
(* The interface.  Any operation may be called whenever a process is in    *)
(* control.  The identities passed are those of processes that exist and   *)
(* have not stopped, and descriptors are only created for unused names.    *)
(***************************************************************************)
Init ==
  /\ ring = <<Main>>
  /\ state = [p \in Proc |-> IF p = Main THEN "ready" ELSE "free"]
  /\ body = [p \in Proc |-> p]
  /\ events = [e \in Source |-> NULL]
  /\ hcnt = 0
  /\ corpse = NULL
  /\ cor = Main
  /\ started = {Main}
  /\ status = "running"
  /\ stopped = {}

Running == status = "running" /\ ring # <<>>

Create(p) ==
  /\ Running
  /\ state[p] = "free"
  /\ state' = [state EXCEPT ![p] = "passive"]
  /\ body' = [body EXCEPT ![p] = p]
  /\ UNCHANGED <<ring, events, hcnt, corpse, cor, started, status, stopped>>

\* Create followed by Activate.
Start(p) ==
  /\ Running
  /\ state[p] = "free"
  /\ TieAndGo(ring, [body EXCEPT ![p] = p], state, p)
  /\ UNCHANGED <<events, hcnt>>

\* Slip: corpse is set to prs.current after UnTie, which is the next process
\* and not the caller (StoppedNeverRuns notices).
StopMeWrongCorpse ==
  /\ Running
  /\ Tail(ring) # <<>>
  /\ GoNext(Tail(ring), UnTieBody, UnTieState("passive"), Head(Tail(ring)),
            stopped \cup {Head(ring)})
  /\ UNCHANGED <<events, hcnt>>

\* The last ready process ends the program; otherwise the caller becomes the
\* corpse (and an earlier corpse that nobody has disposed of is forgotten).
StopMe ==
  /\ Running
  /\ IF Tail(ring) = <<>>
     THEN /\ status' = "halted"
          /\ body' = UnTieBody
          /\ UNCHANGED <<ring, state, corpse, cor, started, stopped>>
     ELSE GoNext(Tail(ring), UnTieBody, UnTieState("passive"),
                 Head(ring), stopped \cup {Head(ring)})
  /\ UNCHANGED <<events, hcnt>>

\* The last ready process of a program without event sources gets the
\* exception passiveProgram and goes on.
SuspendMe ==
  /\ Running
  /\ IF Tail(ring) = <<>> /\ hcnt = 0
     THEN /\ body' = UnTieBody
          /\ UNCHANGED <<ring, state, corpse, cor, started, status, stopped>>
     ELSE GoNext(Tail(ring), UnTieBody, UnTieState("passive"), corpse, stopped)
  /\ UNCHANGED <<events, hcnt>>

\* Slip: Activate does not ask for the state of p (RingIsReady notices).
ActivateAnyone(p) ==
  /\ Running
  /\ state[p] # "free" /\ p \notin stopped
  /\ TieAndGo(ring, body, state, p)
  /\ UNCHANGED <<events, hcnt>>

\* Of a ready process Activate changes nothing (it returns at once).
Activate(p) ==
  /\ Running
  /\ state[p] \in {"passive", "waiting"} /\ p \notin stopped
  /\ TieAndGo(ring, body, state, p)
  /\ UNCHANGED <<events, hcnt>>

\* The caller leaves the list before p enters it: UnTie; Tie(p); GoNext.  If
\* p is ready, and is not the caller, nothing happens.
SuspendMeAndActivate(p) ==
  /\ Running
  /\ \/ p = Head(ring)
     \/ state[p] \in {"passive", "waiting"} /\ p \notin stopped
  /\ TieAndGo(Tail(ring), UnTieBody, UnTieState("passive"), p)
  /\ UNCHANGED <<events, hcnt>>

\* Only a caller that is not more urgent than p leaves the list.
Switch(p) ==
  /\ Running
  /\ state[p] \in {"passive", "waiting"} /\ p \notin stopped
  /\ IF Urgency[Head(ring)] <= Urgency[p]
     THEN TieAndGo(Tail(ring), UnTieBody, UnTieState("passive"), p)
     ELSE TieAndGo(ring, body, state, p)
  /\ UNCHANGED <<events, hcnt>>

\* Unlike SuspendMe, Wait does not ask whether another process is ready.
Wait ==
  /\ Running
  /\ GoNext(Tail(ring), UnTieBody, UnTieState("waiting"), corpse, stopped)
  /\ UNCHANGED <<events, hcnt>>

\* Slip: replacing the process of a source counts as another association
\* (HandlersCounted notices).
AttachCountsAgain(e) ==
  /\ Running
  /\ hcnt' = hcnt + 1
  /\ events' = [events EXCEPT ![e] = Head(ring)]
  /\ UNCHANGED <<ring, state, body, corpse, cor, started, status, stopped>>

\* Another process associated with the source is silently replaced.
Attach(e) ==
  /\ Running
  /\ hcnt' = IF events[e] = NULL THEN hcnt + 1 ELSE hcnt
  /\ events' = [events EXCEPT ![e] = Head(ring)]
  /\ UNCHANGED <<ring, state, body, corpse, cor, started, status, stopped>>

\* Slip: dissociating a free source counts down (TypeOK notices).
DetachCountsAnyway(e) ==
  /\ Running
  /\ hcnt' = hcnt - 1
  /\ events' = [events EXCEPT ![e] = NULL]
  /\ UNCHANGED <<ring, state, body, corpse, cor, started, status, stopped>>

Detach(e) ==
  /\ Running
  /\ hcnt' = IF events[e] # NULL THEN hcnt - 1 ELSE hcnt
  /\ events' = [events EXCEPT ![e] = NULL]
  /\ UNCHANGED <<ring, state, body, corpse, cor, started, status, stopped>>

\* The operations that tie processes in and out one at a time.
CoreNext ==
  \/ \E p \in Proc : Create(p) \/ Start(p) \/ Activate(p)
  \/ StopMe
  \/ SuspendMe
  \/ Wait
  \/ \E e \in Source : Attach(e) \/ Detach(e)

\* The whole interface.
Next ==
  \/ CoreNext
  \/ \E p \in Proc : SuspendMeAndActivate(p) \/ Switch(p)

CoreSpec == Init /\ [][CoreNext]_vars
Spec == Init /\ [][Next]_vars
-----------------------------------------------------------------------------
(***************************************************************************)
(* Correctness.                                                            *)
(***************************************************************************)
Ready == {p \in Proc : state[p] = "ready"}
Elems(r) == {r[i] : i \in 1..Len(r)}
InRing == Elems(ring)
NoRepetition(r) == \A i, j \in 1..Len(r) : r[i] = r[j] => i = j

\* The types of the variables.
TypeOK ==
  /\ ring \in Seq(Proc)
  /\ state \in [Proc -> {"free", "passive", "ready", "waiting"}]
  /\ body \in [Proc -> Proc]
  /\ events \in [Source -> Proc \cup {NULL}]
  /\ hcnt \in Nat
  /\ corpse \in Proc \cup {NULL}
  /\ cor \in Proc
  /\ started \in SUBSET Proc
  /\ status \in {"running", "halted", "trap"}
  /\ stopped \in SUBSET Proc

\* The ready list holds the ready processes, each of them once, and nothing
\* else: whatever is tied in and out through Tie and UnTie, no process is in
\* the list twice and none is ready without being there to be scheduled.
RingIsReady == NoRepetition(ring) /\ InRing = Ready

\* A process that called StopMe, and a descriptor that has been disposed of,
\* is never scheduled again: it is not in the ready list and no process that
\* can run would transfer to its coroutine, whose stack is or will be freed.
StoppedNeverRuns ==
  \A p \in Proc : p \in stopped \/ state[p] = "free" =>
    /\ p \notin InRing
    /\ cor # p
    /\ \A q \in InRing : body[q] # p

\* hcnt, which decides whether the last ready process may suspend itself, is
\* the number of associated sources after any order of Attach and Detach.
HandlersCounted == hcnt = Cardinality({e \in Source : events[e] # NULL})

\* "Me: returns the identity of the calling process (as assigned when the
\* process was first created)", Processes.def:93: the coroutine in control is
\* that of the process at the head of the ready list.
MeIsCaller == Running => cor = Current

\* The program is left without a ready process only if an event source is
\* associated or the process that gave up control called Wait.
NeverPassive ==
  status = "running" /\ ring = <<>> =>
    hcnt > 0 \/ \E p \in Proc : state[p] = "waiting"

\* The ASSERTs of Tie and GoNext and the checks of TRANSFER hold.
AssertionsHold == status # "trap"

\* The scheduler implements the Dispatcher: the coroutine in control is at
\* every moment the one the Dispatcher would have put in control.
D == INSTANCE Dispatcher WITH ready <- Ready, running <- cor
Dispatches == D!Spec

\* Ready processes of the same urgency are served in the order in which they
\* became ready: while a process p waits for its turn and control is with one as
\* urgent as p, nobody of that urgency gets before p, whatever is called and
\* whoever pre-empts.  (A process that a more urgent one activates does.)
EqualsBefore(r, p) ==
  {r[i] : i \in {j \in 1..Len(r) : Urgency[r[j]] = Urgency[p]
                                   /\ \A k \in 1..j : r[k] # p}}
NoOvertaking ==
  [][\A p \in InRing : /\ p # Current /\ Urgency[p] = Urgency[Current]
                       /\ p \in InRing'
                       => EqualsBefore(ring', p) \subseteq EqualsBefore(ring, p)]_vars

=============================================================================
