--------------------------- MODULE MCNodeRuntime ----------------------------
(* Small instances of NodeRuntime for TLC.                                 *)
EXTENDS NodeRuntime

CONSTANTS t1, t2

\* t1 is gated by an approval rule; the rules that apply to the others change
\* while the node runs (PermissionUpdate).
MCVerdicts == [t \in Tasks |-> IF t = t1 THEN {"RequiresApproval"}
                               ELSE {"Allowed", "Denied"}]

=============================================================================
