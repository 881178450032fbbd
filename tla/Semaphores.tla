------------------------------ MODULE Semaphores ------------------------------
(***************************************************************************)
(* The counting semaphores of the single-thread run-time library,          *)
(* Lib/src/isoimp/Semaphores.mod (the <* ELSE *> half), on top of the      *)
(* scheduler of Processes.  A process blocked in Claim is linked into the  *)
(* semaphore's list by an item in its own stack frame, so the list holds   *)
(* the processes themselves here.  An action is one call, up to the moment *)
(* another process, or the caller again, is back in user code.             *)
(***************************************************************************)
EXTENDS Processes

CONSTANTS
  Sem,       \* semaphore descriptors
  MaxUnits   \* bound: units outstanding on one semaphore

ASSUME SemAssumption == NULL \notin Sem /\ MaxUnits \in Nat

VARIABLES
  cnt,        \* s^.cnt
  lst,        \* s^.lst: the claimers, first come first
  live,       \* the semaphores that exist (s^.magic=magic_s)
  claiming,   \* the semaphore in whose Claim a process is suspended, or NULL
  destroying, \* the semaphore whose Destroy a process is executing, or NULL
  owed        \* history: units put in by Create and Release, less those with
              \* which Claim and CondClaim have returned to their callers

semVars == <<cnt, lst, live, destroying>>
allVars == <<vars, semVars, claiming, owed>>

SemInit ==
  /\ Init
  /\ cnt = [s \in Sem |-> 0]
  /\ lst = [s \in Sem |-> <<>>]
  /\ live = {}
  /\ claiming = [p \in Proc |-> NULL]
  /\ destroying = [p \in Proc |-> NULL]
  /\ owed = [s \in Sem |-> 0]

Me == Head(ring)

\* A process may call on s.  It must not be inside Destroy, and nobody uses a
\* semaphore that is being destroyed: Semaphores.def:13-16 leaves that to the
\* program, Destroy does not see to it.
InUse(s) == s \in live /\ \A p \in Proc : destroying[p] # s
MayCall == Running /\ destroying[Me] = NULL
MayUse(s) == MayCall /\ InUse(s)

\* Slip: a new claimer is tied in before the others (FirstComeFirstServed and
\* EveryoneIsServed notice).
EnqueueInFront(q, p) == <<p>> \o q

\* Tie: the item is linked before the first one, that is, after the last.
Enqueue(q, p) == Append(q, p)

\* SuspendMe returns in the coroutine that has gained control: if it is inside
\* Claim, Claim returns to its caller.  cl and ow are claiming and owed before.
Resume(cl, ow) ==
  LET s == cl[cor'] IN
  IF status' = "running" /\ ring' # <<>> /\ s # NULL
  THEN claiming' = [cl EXCEPT ![cor'] = NULL] /\ owed' = [ow EXCEPT ![s] = @ - 1]
  ELSE claiming' = cl /\ owed' = ow

\* Activate(p) as called by Release and Destroy: nothing happens if p is ready.
ActivateItem(p) == IF state[p] = "ready" THEN UNCHANGED vars ELSE Activate(p)

-----------------------------------------------------------------------------
CreateSem(s, n) ==
  /\ MayCall
  /\ s \notin live /\ \A p \in Proc : claiming[p] # s
  /\ cnt' = [cnt EXCEPT ![s] = n]
  /\ lst' = [lst EXCEPT ![s] = <<>>]
  /\ owed' = [owed EXCEPT ![s] = n]
  /\ live' = live \cup {s}
  /\ UNCHANGED <<vars, claiming, destroying>>

\* The caller takes a unit, or ties its item in and suspends itself.  If
\* SuspendMe raises passiveProgram the exception leaves Claim, and the item
\* stays in the list.
Claim(s) ==
  /\ MayUse(s)
  /\ \/ /\ cnt[s] > 0
        /\ cnt' = [cnt EXCEPT ![s] = @ - 1]
        /\ owed' = [owed EXCEPT ![s] = @ - 1]
        /\ UNCHANGED <<vars, lst, live, claiming, destroying>>
     \/ /\ cnt[s] = 0
        /\ lst' = [lst EXCEPT ![s] = Enqueue(@, Me)]
        /\ SuspendMe
        /\ Resume(IF Tail(ring) = <<>> /\ hcnt = 0 THEN claiming
                  ELSE [claiming EXCEPT ![Me] = s], owed)
        /\ UNCHANGED <<cnt, live, destroying>>

\* Slip: Release counts the unit that it hands to a claimer (UnitsConserved
\* and NoIdleUnit notice).
ReleaseTwice(s) ==
  /\ MayUse(s)
  /\ owed[s] < MaxUnits
  /\ cnt' = [cnt EXCEPT ![s] = @ + 1]
  /\ IF lst[s] = <<>>
     THEN /\ owed' = [owed EXCEPT ![s] = @ + 1]
          /\ UNCHANGED <<vars, lst, live, claiming, destroying>>
     ELSE /\ lst' = [lst EXCEPT ![s] = Tail(@)]
          /\ ActivateItem(Head(lst[s]))
          /\ Resume(claiming, [owed EXCEPT ![s] = @ + 1])
          /\ UNCHANGED <<live, destroying>>

\* Slip: Release does not take the claimer off the list (WaitersBlocked
\* notices).
ReleaseKeepsItem(s) ==
  /\ MayUse(s)
  /\ owed[s] < MaxUnits
  /\ IF lst[s] = <<>>
     THEN /\ cnt' = [cnt EXCEPT ![s] = @ + 1]
          /\ owed' = [owed EXCEPT ![s] = @ + 1]
          /\ UNCHANGED <<vars, lst, live, claiming, destroying>>
     ELSE /\ ActivateItem(Head(lst[s]))
          /\ Resume(claiming, [owed EXCEPT ![s] = @ + 1])
          /\ UNCHANGED semVars

\* The frame that holds the first item must still be that of a Claim; if it is
\* not, UnTie and the ASSERT on its magic read whatever is there, and the model
\* goes no further.
FrameAlive(s) == lst[s] # <<>> => claiming[Head(lst[s])] = s

\* The unit goes to the first claimer directly, or else to the count.
Release(s) ==
  /\ MayUse(s) /\ FrameAlive(s)
  /\ owed[s] < MaxUnits
  /\ IF lst[s] = <<>>
     THEN /\ cnt' = [cnt EXCEPT ![s] = @ + 1]
          /\ owed' = [owed EXCEPT ![s] = @ + 1]
          /\ UNCHANGED <<vars, lst, live, claiming, destroying>>
     ELSE /\ lst' = [lst EXCEPT ![s] = Tail(@)]
          /\ ActivateItem(Head(lst[s]))
          /\ Resume(claiming, [owed EXCEPT ![s] = @ + 1])
          /\ UNCHANGED <<cnt, live, destroying>>

\* Without a unit CondClaim returns FALSE and changes nothing.
CondClaim(s) ==
  /\ MayUse(s)
  /\ cnt[s] > 0
  /\ cnt' = [cnt EXCEPT ![s] = @ - 1]
  /\ owed' = [owed EXCEPT ![s] = @ - 1]
  /\ UNCHANGED <<vars, lst, live, claiming, destroying>>

\* One turn of the loop of Destroy, after which the caller may have lost
\* control to the claimer it has activated; or the end of Destroy.  A claimer
\* activated here returns from Claim without a unit.
DestroyLoop(s) ==
  /\ FrameAlive(s)
  /\ IF lst[s] = <<>>
     THEN /\ live' = live \ {s}
          /\ destroying' = [destroying EXCEPT ![Me] = NULL]
          /\ UNCHANGED <<vars, cnt, lst, claiming, owed>>
     ELSE /\ lst' = [lst EXCEPT ![s] = Tail(@)]
          /\ destroying' = [destroying EXCEPT ![Me] = s]
          /\ IF cnt[s] = 0 THEN ActivateItem(Head(lst[s]))
             ELSE Trap /\ UNCHANGED <<events, hcnt>>
          /\ Resume([claiming EXCEPT ![Head(lst[s])] = NULL], owed)
          /\ UNCHANGED <<cnt, live>>

Destroy(s) == MayUse(s) /\ DestroyLoop(s)
DestroyGoesOn(s) == Running /\ destroying[Me] = s /\ DestroyLoop(s)

\* A call of the scheduler by the program.
ProcessCall(A) ==
  /\ MayCall /\ A
  /\ Resume(claiming, owed)
  /\ UNCHANGED semVars

\* The program activates a process that is suspended inside Claim.
ActivateClaimer(p) == claiming[p] # NULL /\ ProcessCall(Activate(p))

-----------------------------------------------------------------------------
\* A program that keeps to the two rules that the library does not enforce: it
\* does not itself activate a process that is blocked in Claim, and does not
\* block in Claim when this raises passiveProgram.
ClaimIsSafe(s) == cnt[s] = 0 => Tail(ring) # <<>> \/ hcnt > 0

SemNext ==
  \/ \E s \in Sem :
       \/ \E n \in 0..MaxUnits : CreateSem(s, n)
       \/ Claim(s) /\ ClaimIsSafe(s)
       \/ Release(s)
       \/ CondClaim(s)
       \/ Destroy(s)
       \/ DestroyGoesOn(s)
  \/ \E p \in Proc :
       \/ ProcessCall(Create(p))
       \/ ProcessCall(Start(p))
       \/ claiming[p] = NULL /\ ProcessCall(Activate(p))
  \/ ProcessCall(StopMe)
  \/ ProcessCall(SuspendMe)
  \/ ProcessCall(Wait)
  \/ \E e \in Source : ProcessCall(Attach(e)) \/ ProcessCall(Detach(e))

\* A program that may activate anybody.
OpenNext == SemNext \/ \E p \in Proc : ActivateClaimer(p)

SemSpec == SemInit /\ [][SemNext]_allVars
OpenSpec == SemInit /\ [][OpenNext]_allVars
-----------------------------------------------------------------------------
\* The list of a semaphore holds exactly the processes that are suspended in
\* Claim on it, once each: no claimer is lost to Release, none is woken twice,
\* and each is still passive, so the stack frame that holds its item is intact.
\* (An ASSERT of Tie that fails may cut a Release short.)
WaitersBlocked ==
  status # "trap" =>
    \A s \in live :
      /\ NoRepetition(lst[s])
      /\ Elems(lst[s]) = {p \in Proc : claiming[p] = s /\ state[p] = "passive"}

\* "Claim: if the count is non-zero, decrements this count and allows the
\* calling process to continue; otherwise suspends the calling process until s
\* is released", Semaphores.def:20.  Every unit put in is in the count, or has
\* been handed to a process that is about to return from Claim, or has been
\* returned with: Claim never returns without a unit, whoever runs between the
\* Release that hands it over and the moment the claimer gains control.
UnitsConserved ==
  status # "trap" =>
    \A s \in Sem : InUse(s) =>
      owed[s] = cnt[s] + Cardinality({p \in Proc : claiming[p] = s /\ state[p] = "ready"})

\* No process waits for a unit that is there.
NoIdleUnit == \A s \in live : cnt[s] > 0 => lst[s] = <<>>

\* Claimers get their units in the order in which they came: as long as x is
\* in the list, those ahead of it only get fewer, and nobody else leaves.
AheadOf(q, x) == {q[i] : i \in {j \in 1..Len(q) : \E k \in j+1..Len(q) : q[k] = x}}
FirstComeFirstServed ==
  [][\A s \in live : \A x \in Elems(lst[s]) \cap Elems(lst'[s]) :
        /\ AheadOf(lst'[s], x) \subseteq AheadOf(lst[s], x)
        /\ Elems(lst[s]) \ Elems(lst'[s]) \subseteq AheadOf(lst[s], x)]_allVars

=============================================================================
