--------------------------- MODULE TaskLifecycle ---------------------------
(***************************************************************************)
(* What the Hub promises about one task, seen from outside the scheduler:  *)
(* it is queued once, handed to a node at most once, reaches exactly one   *)
(* verdict, and that verdict is announced on the result channel at most    *)
(* once.  TaskScheduler implements this specification.                     *)
(***************************************************************************)
EXTENDS Naturals

CONSTANTS Tasks,     \* task identifiers
          Verdicts   \* terminal statuses; a queued task can only be Cancelled

VARIABLES phase,     \* phase[t]: unknown, queued, running or closed
          verdicts,  \* verdicts[t]: the terminal statuses decided for t
          announced  \* announced[t]: results sent for t on the result channel

vars == <<phase, verdicts, announced>>

Init ==
    /\ phase = [t \in Tasks |-> "unknown"]
    /\ verdicts = [t \in Tasks |-> {}]
    /\ announced = [t \in Tasks |-> 0]

Submit(t) ==
    /\ phase[t] = "unknown"
    /\ phase' = [phase EXCEPT ![t] = "queued"]
    /\ UNCHANGED <<verdicts, announced>>

Start(t) ==
    /\ phase[t] = "queued"
    /\ phase' = [phase EXCEPT ![t] = "running"]
    /\ UNCHANGED <<verdicts, announced>>

Decide(t, v) ==
    /\ \/ phase[t] = "running"
       \/ phase[t] = "queued" /\ v = "Cancelled"
    /\ phase' = [phase EXCEPT ![t] = "closed"]
    /\ verdicts' = [verdicts EXCEPT ![t] = {v}]
    /\ UNCHANGED announced

Announce(t) ==
    /\ phase[t] = "closed"
    /\ announced[t] = 0
    /\ announced' = [announced EXCEPT ![t] = 1]
    /\ UNCHANGED <<phase, verdicts>>

Next ==
    \E t \in Tasks :
        \/ Submit(t)
        \/ Start(t)
        \/ \E v \in Verdicts : Decide(t, v)
        \/ Announce(t)

Spec == Init /\ [][Next]_vars

=============================================================================
