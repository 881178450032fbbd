------------------------------ MODULE Dispatcher ------------------------------
(***************************************************************************)
(* What the scheduler of Processes promises, without its list, bodies and  *)
(* coroutines: one of the most urgent ready processes is in control; it    *)
(* keeps control until it gives it up or a more urgent process becomes     *)
(* ready.  Which of several equally urgent processes follows is left open. *)
(***************************************************************************)
EXTENDS Integers

CONSTANTS Proc, Main, Urgency

VARIABLES
  ready,    \* the processes that are ready to run
  running   \* the process in control (the last one, when none is ready)

vars == <<ready, running>>

MostUrgent(S) == {p \in S : \A q \in S : Urgency[q] <= Urgency[p]}

Init == ready = {Main} /\ running = Main

\* A process becomes ready, and takes control if it is the more urgent one.
Admit(p) ==
  /\ running \in ready
  /\ p \notin ready
  /\ ready' = ready \cup {p}
  /\ running' = IF Urgency[p] > Urgency[running] THEN p ELSE running

\* The process in control stops, suspends itself or waits.
Yield ==
  /\ running \in ready
  /\ ready' = ready \ {running}
  /\ IF ready' = {} THEN running' = running
     ELSE running' \in MostUrgent(ready')

Next == Yield \/ \E p \in Proc : Admit(p)

Spec == Init /\ [][Next]_vars
=============================================================================
