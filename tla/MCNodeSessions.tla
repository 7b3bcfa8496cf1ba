--------------------------- MODULE MCNodeSessions ---------------------------
(* Small instances of NodeSessions for TLC.                                *)
EXTENDS NodeSessions

CONSTANTS n1, n2, n3, c1, c2, c3, c4, home, work, team

\* c1 and c2 are connections of n1, which renames its workspace in between; n2
\* and n3 have one each.
MCNodeOf == [c \in Conns |-> CASE c \in {c1, c2} -> n1
                               [] c = c3 -> n2
                               [] c = c4 -> n3]
MCNameOf == [c \in Conns |-> IF c = c2 THEN work ELSE home]

\* No node supplies a workspace id, as the nodes of the repository do; or c2
\* and c3 do, and give the same.
MCNoIds == [c \in Conns |-> NoId]
MCSharedIds == [c \in Conns |-> IF c \in {c2, c3} THEN team ELSE NoId]

=============================================================================
