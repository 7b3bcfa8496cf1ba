-------------------------- MODULE MCTaskScheduler --------------------------
(* Small instances of TaskScheduler for TLC.                               *)
EXTENDS TaskScheduler

CONSTANTS t1, t2, n1, n2, d1, d2

\* Two tasks of one priority; every node fits.
MCPrioSame == [t \in Tasks |-> 1]
MCFitsAll == [t \in Tasks |-> Nodes]

\* All in the last queue; no node fits t1.
MCPrioLast == [t \in Tasks |-> NumPriorities]
MCFitsNoneFirst == [t \in Tasks |-> IF t = t1 THEN {} ELSE Nodes]

\* Dispatchers run the same code, tasks of one priority with the same needs
\* are interchangeable.
MCSymmetry == Permutations(Dispatchers) \cup Permutations(Tasks)

=============================================================================
