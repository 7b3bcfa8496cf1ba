---------------------------- MODULE MCApprovals -----------------------------
(* Small instances of Approvals for TLC.                                   *)
EXTENDS Approvals

CONSTANTS a1, r1, o1, o2, h1, h2
=============================================================================
