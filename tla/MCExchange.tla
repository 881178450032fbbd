------------------------------ MODULE MCExchange ------------------------------
(***************************************************************************)
(* A closed program on top of Semaphores and Processes, in the manner of   *)
(* the example of iso.tex:465: the main program creates two semaphores,    *)
(* starts makers and takers and stops; a maker claims room and releases an *)
(* item, a taker claims an item and releases room, for ever.  All of them  *)
(* are equally urgent, and control moves only when a Claim blocks.         *)
(***************************************************************************)
EXTENDS Semaphores, TLC

CONSTANTS
  Makers, Takers,
  room, item,       \* the two semaphores
  Places            \* how many items there is room for

VARIABLE between    \* processes that have claimed and not yet released

Uniform == [p \in Proc |-> 0]

exVars == <<allVars, between>>

ExInit == SemInit /\ between = {}

Booted == live = {room, item} /\ \A p \in Makers \cup Takers : state[p] # "free"

MainProgram ==
  /\ Running /\ cor = Main
  /\ \/ live = {} /\ CreateSem(room, Places)
     \/ live = {room} /\ CreateSem(item, 0)
     \/ /\ live = {room, item}
        /\ \E p \in Makers \cup Takers : ProcessCall(Start(p))
     \/ Booted /\ ProcessCall(StopMe)
  /\ UNCHANGED between

Worker(p, in, out) ==
  /\ Running /\ cor = p
  /\ \/ p \notin between /\ Claim(in) /\ between' = between \cup {p}
     \/ p \in between /\ Release(out) /\ between' = between \ {p}

ExNext ==
  \/ MainProgram
  \/ \E p \in Makers : Worker(p, room, item)
  \/ \E p \in Takers : Worker(p, item, room)

\* The program is one sequence of calls and no call of it can be refused, so
\* nothing but a step of it can happen next.
ExSpec == ExInit /\ [][ExNext]_exVars /\ WF_exVars(ExNext)
-----------------------------------------------------------------------------
\* Every maker and every taker that is started gets what it claims, again and
\* again: handing the unit to the first claimer, and not to the count, keeps
\* the process that releases from claiming it back before the others.
EveryoneIsServed ==
  \A p \in Makers \cup Takers : []<>(cor = p /\ p \in between)

=============================================================================
