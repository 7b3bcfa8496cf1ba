---------------------------- MODULE NodeDesktop ----------------------------
(***************************************************************************)
(* The desktop application around the Node: DesktopAppState.start_node,    *)
(* stop_node and recover_connection, over the Nodes and links of NodeLink. *)
(*                                                                         *)
(* start_node and stop_node hold the lock of the application from their    *)
(* first to their last step; recover_connection takes it three times, to   *)
(* look, to stop and to start, and other calls may come in between.        *)
(***************************************************************************)
EXTENDS NodeLink

VARIABLES
    lifecycle,  \* lifecycle_state
    node,       \* app.node, 0 for None
    holder,     \* the call that holds the application's lock
    rpc, seen   \* recover_connection: what it does next, the node it saw

deskVars == <<lifecycle, node, holder, rpc, seen>>
vars == <<linkVars, deskVars>>

NoNode == 0
Callers == {"user", "recover"}

TypeOK ==
    /\ LinkTypeOK
    /\ lifecycle \in {"Stopped", "Starting", "Running", "Stopping", "Failed"}
    /\ lifecycle \in {"Starting", "Stopping"} <=> holder # "none"
    /\ node \in Starts \cup {NoNode} /\ seen \in Starts \cup {NoNode}
    /\ holder \in Callers \cup {"none"}
    /\ rpc \in {"idle", "stop", "start"}

Init ==
    /\ LinkInit
    /\ lifecycle = "Stopped" /\ node = NoNode
    /\ holder = "none"
    /\ rpc = "idle" /\ seen = NoNode

-----------------------------------------------------------------------------
(* start_node                                                              *)

\* The lock is free and the caller about to do this.
Calls(w, what) ==
    /\ holder = "none"
    /\ w = "recover" => rpc = what

\* The call returns; recover_connection goes on to `next`.
Returns(w, next) ==
    /\ holder' = "none"
    /\ rpc' = IF w = "recover" THEN next ELSE rpc
    /\ seen' = IF rpc' = "idle" THEN NoNode ELSE seen

\* Slip: a node that runs is replaced.
StartNodeAgain(w) ==
    /\ Calls(w, "start")
    /\ NodeStart(begun + 1)
    /\ lifecycle' = "Starting"
    /\ holder' = w
    /\ UNCHANGED <<node, rpc, seen>>

StartNode(w) ==
    /\ Calls(w, "start")
    /\ lifecycle # "Running"
    /\ NodeStart(begun + 1)
    /\ lifecycle' = "Starting"
    /\ holder' = w
    /\ UNCHANGED <<node, rpc, seen>>

\* Node::new fails.
NewFails(w) ==
    /\ Calls(w, "start")
    /\ lifecycle # "Running"
    /\ lifecycle' = "Failed"
    /\ Returns(w, "idle")
    /\ UNCHANGED <<linkVars, node>>

\* "Start requested while node already running"
StartNodeRunning ==
    /\ Calls("recover", "start")
    /\ lifecycle = "Running"
    /\ Returns("recover", "idle")
    /\ UNCHANGED <<linkVars, lifecycle, node>>

StartNodeDone ==
    /\ lifecycle = "Starting"
    /\ NodeStarted(begun)
    /\ node' = begun
    /\ lifecycle' = "Running"
    /\ Returns(holder, "idle")

\* node.start() fails, first inside the Node, ...
StartNodeFails ==
    /\ lifecycle = "Starting"
    /\ NodeStartFails(begun)
    /\ UNCHANGED deskVars

\* Slip: the node that failed to start is kept, and reported as running.
StartNodeFailedKept ==
    /\ lifecycle = "Starting"
    /\ NodeStopped(begun)
    /\ node' = begun
    /\ lifecycle' = "Running"
    /\ Returns(holder, "idle")

\* ... then for the application, which drops the Node.
StartNodeFailed ==
    /\ lifecycle = "Starting"
    /\ NodeStopped(begun)
    /\ lifecycle' = "Failed"
    /\ Returns(holder, "idle")
    /\ UNCHANGED node

-----------------------------------------------------------------------------
(* stop_node                                                               *)

StopNode(w) ==
    /\ Calls(w, "stop")
    /\ node # NoNode
    /\ NodeStop(node)
    /\ lifecycle' = "Stopping"
    /\ holder' = w
    /\ UNCHANGED <<node, rpc, seen>>

\* Node.stop never fails.
StopNodeDone ==
    /\ lifecycle = "Stopping"
    /\ NodeStopped(node)
    /\ node' = NoNode
    /\ lifecycle' = "Stopped"
    /\ Returns(holder, "start")

StopNodeNone(w) ==
    /\ Calls(w, "stop")
    /\ node = NoNode
    /\ lifecycle' = "Stopped"
    /\ Returns(w, "start")
    /\ UNCHANGED <<linkVars, node>>

-----------------------------------------------------------------------------
(* recover_connection, once its prerequisites are met                      *)

\* Slip: only a link that works is taken down.
RecoverLinked ==
    /\ rpc = "idle" /\ holder = "none"
    /\ rpc' = IF node # NoNode /\ (\E i \in {node} \cap Starts :
                                     state[i] = "Authenticated")
              THEN "stop" ELSE "start"
    /\ seen' = node
    /\ UNCHANGED <<linkVars, lifecycle, node, holder>>

\* needs_stop
Recover ==
    /\ rpc = "idle" /\ holder = "none"
    /\ rpc' = IF lifecycle = "Running" THEN "stop" ELSE "start"
    /\ seen' = node
    /\ UNCHANGED <<linkVars, lifecycle, node, holder>>

-----------------------------------------------------------------------------
CallStep == StartNodeDone \/ StartNodeFails \/ StartNodeFailed \/ StopNodeDone

Next ==
    \/ \E w \in Callers : \/ StartNode(w) \/ NewFails(w)
                          \/ StopNode(w) \/ StopNodeNone(w)
    \/ StartNodeRunning
    \/ CallStep
    \/ Recover
    \/ LinkNext /\ UNCHANGED deskVars

Spec == Init /\ [][Next]_vars

-----------------------------------------------------------------------------
(* Properties                                                              *)

\* No Node runs behind the application's back: one that is up, or whose loop
\* is told to go on, is the one it holds or the one it is starting.  Nobody
\* could stop any other, and two would serve the Hub under one id.
OnlyHeldNodeRuns ==
    \A i \in Starts : up[i] \/ running[i] =>
       i = node \/ (lifecycle = "Starting" /\ i = begun)

\* Between two calls the application says Running exactly when it holds a Node
\* that is up, however starts, failed starts, stops and recoveries interleave.
RunningMeansUp ==
    holder = "none" =>
       (lifecycle = "Running" <=> node # NoNode /\ node \in {i \in Starts : up[i]})

\* A recovery that found a Node has replaced or taken it down when it ends,
\* whatever was called between its steps: a link that gave up is not kept.
RecoveryReplaces ==
    [][rpc = "start" /\ rpc' = "idle" => seen = NoNode \/ node' # seen]_vars

\* When a loop has ended the state says so, whichever of stop and the loop
\* writes last: the desktop shows it to its user.
RestIsDisconnected ==
    \A i \in Starts : lpc[i] = "gone" => state[i] = "Disconnected"

\* `running` is left set without a loop in one way only, after more than
\* max_reconnect_attempts errors in a row.
RunningUnlessGivenUp ==
    \A i \in Starts : running[i] => Alive(i) \/ attempts[i] > MaxAttempts

=============================================================================
