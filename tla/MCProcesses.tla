----------------------------- MODULE MCProcesses -----------------------------
(* Small programs for Processes: the main program, three processes that can *)
(* be created, and one or two event sources.                                *)
EXTENDS Processes, TLC

CONSTANTS a, b, c

\* Everybody as urgent as the main program.
Uniform == [p \in Proc |-> 0]

\* One process above the main program, as in the example of iso.tex:465.
OneUrgent == [p \in Proc |-> IF p = a THEN 1 ELSE 0]

\* Three different urgencies.
Graded == [p \in Proc |-> CASE p = a -> 1 [] p = b -> 2 [] OTHER -> 0]
=============================================================================
