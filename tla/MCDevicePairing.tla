-------------------------- MODULE MCDevicePairing ---------------------------
(* Small instances of DevicePairing for TLC.                               *)
EXTENDS DevicePairing

CONSTANTS d1, q1, q2, k1, k2, u1, u2
=============================================================================
