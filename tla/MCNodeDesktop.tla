--------------------------- MODULE MCNodeDesktop ----------------------------
(* Small instances of NodeDesktop for TLC.                                 *)
EXTENDS NodeDesktop
=============================================================================
