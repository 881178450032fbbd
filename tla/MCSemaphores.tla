---------------------------- MODULE MCSemaphores ----------------------------
(* Small programs for Semaphores: the main program and two processes, one of *)
(* them more urgent.                                                         *)
EXTENDS Semaphores, TLC

CONSTANTS a, b

OneUrgent == [p \in Proc |-> IF p = a THEN 1 ELSE 0]
=============================================================================
