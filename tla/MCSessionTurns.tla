--------------------------- MODULE MCSessionTurns ---------------------------
(* Small instances of SessionTurns for TLC.                                *)
EXTENDS SessionTurns

CONSTANTS m1, m2, s1, t1, t2

\* All messages belong to one session; the sender of m2 is in a team.
MCSessionOf == [m \in Messages |-> s1]
MCInTeam == Messages \cap {m2}

=============================================================================
