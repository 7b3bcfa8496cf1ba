---------------------------- MODULE NodeSessions ----------------------------
(***************************************************************************)
(* The Hub's node sessions: handle_socket (web/ws.rs) with the routing     *)
(* table of MessageRouter and the registry of NodeManager.                 *)
(*                                                                         *)
(* A connection registers its channel under its NODE id, registers the     *)
(* node, dispatches the pending tasks, acknowledges, and only then starts  *)
(* the task that drains its channel.  Its cleanup removes the entries of   *)
(* its node id, whichever connection they belong to by then.  Each action  *)
(* is one critical section or one await.  Pending tasks are counted, not   *)
(* named: TaskScheduler models what happens to each of them.               *)
(***************************************************************************)
EXTENDS Naturals, FiniteSets

CONSTANTS
    Nodes,            \* node identifiers
    Conns,            \* WebSocket connections, each used once
    NodeOf,           \* NodeOf[c]: the node that opens c
    NameOf,           \* NameOf[c]: the workspace name it registers
    IdOf,             \* IdOf[c]: the workspace id it supplies, or NoId
    MaxNodes,         \* HubConfig.max_nodes
    ChannelCap,       \* capacity of a connection's channel (100 in the code)
    MaxSubmissions,   \* bound: tasks submitted in a behaviour
    Api,              \* the caller of submit_task
    NoConn, NoId, NoNode

\* register_node: the id the node supplies, else derive_workspace_id.
WorkspaceId(c) == IF IdOf[c] = NoId THEN <<NodeOf[c], NameOf[c]>> ELSE IdOf[c]

Ids == {WorkspaceId(c) : c \in Conns}

ASSUME SessionAssumption ==
    /\ NodeOf \in [Conns -> Nodes]
    /\ MaxNodes \in Nat /\ MaxSubmissions \in Nat
    /\ ChannelCap \in Nat \ {0}
    /\ NoConn \notin Conns /\ Api \notin Conns
    /\ NoId \notin Ids /\ NoNode \notin Nodes

\* Whoever may be inside dispatch_pending_tasks.
Dispatchers == Conns \cup {Api}

VARIABLES
    up,         \* up[c]: the node still holds its end of c
    overlapping, \* history: connections opened before the Hub was done with
                \* the node's previous ones
    pc,         \* where handle_socket is for c
    recv,       \* recv[c]: recv_task runs
    rx,         \* who owns the receiving end of c's channel
    chan,       \* chan[c]: messages waiting in c's channel
    senders,    \* node_senders: the connection whose channel is registered
    state,      \* nodes: NodeInfo.state, "Absent" when there is no entry; Busy
                \* and Offline are alike to the scheduler: "Unavailable"
    workspace,  \* nodes: the workspace id in the entry
    index,      \* workspace_index: workspace id -> node
    backlog,    \* pending tasks
    submitted,  \* tasks submitted so far
    phase,      \* where each dispatcher is
    cands,      \* connections it has left to try
    dest        \* the connection whose channel it is sending into

nodeVars == <<up, overlapping>>
tables == <<senders, state, workspace, index>>
loopVars == <<backlog, phase, cands, dest>>
vars == <<nodeVars, pc, recv, rx, chan, tables, submitted, loopVars>>

TypeOK ==
    /\ up \in [Conns -> BOOLEAN]
    /\ overlapping \in SUBSET Conns
    /\ pc \in [Conns -> {"new", "hello", "routed", "refused", "setup", "ack",
                         "open", "closing", "unrouted", "gone"}]
    /\ recv \in [Conns -> BOOLEAN]
    /\ rx \in [Conns -> {"none", "handler", "send_task", "dropped"}]
    /\ chan \in [Conns -> 0..ChannelCap]
    /\ senders \in [Nodes -> Conns \cup {NoConn}]
    /\ state \in [Nodes -> {"Absent", "Online", "Unavailable"}]
    /\ workspace \in [Nodes -> Ids \cup {NoId}]
    /\ index \in [Ids -> Nodes \cup {NoNode}]
    /\ submitted \in 0..MaxSubmissions
    /\ backlog \in 0..submitted
    /\ phase \in [Dispatchers -> {"idle", "loop", "try", "send"}]
    /\ cands \in [Dispatchers -> SUBSET Conns]
    /\ dest \in [Dispatchers -> Conns \cup {NoConn}]

Init ==
    /\ up = [c \in Conns |-> FALSE]
    /\ overlapping = {}
    /\ pc = [c \in Conns |-> "new"]
    /\ recv = [c \in Conns |-> FALSE]
    /\ rx = [c \in Conns |-> "none"]
    /\ chan = [c \in Conns |-> 0]
    /\ senders = [n \in Nodes |-> NoConn]
    /\ state = [n \in Nodes |-> "Absent"]
    /\ workspace = [n \in Nodes |-> NoId]
    /\ index = [id \in Ids |-> NoNode]
    /\ submitted = 0
    /\ backlog = 0
    /\ phase = [x \in Dispatchers |-> "idle"]
    /\ cands = [x \in Dispatchers |-> {}]
    /\ dest = [x \in Dispatchers |-> NoConn]

Goto(c, label) == pc' = [pc EXCEPT ![c] = label]

Siblings(c) == {o \in Conns \ {c} : NodeOf[o] = NodeOf[c]}

-----------------------------------------------------------------------------
(* The node's side of a connection.                                        *)

\* The connection loop of the node has one connection at a time.  It learns
\* of a broken connection on its own: the Hub may still hold the old one.
NodeConnects(c) ==
    /\ pc[c] = "new"
    /\ \A o \in Siblings(c) : ~up[o]
    /\ up' = [up EXCEPT ![c] = TRUE]
    /\ overlapping' = IF \E o \in Siblings(c) : pc[o] \notin {"new", "gone"}
                      THEN overlapping \cup {c} ELSE overlapping
    /\ Goto(c, "hello")
    /\ UNCHANGED <<recv, rx, chan, tables, submitted, loopVars>>

NodeDrops(c) ==
    /\ up[c]
    /\ up' = [up EXCEPT ![c] = FALSE]
    /\ UNCHANGED <<overlapping, pc, recv, rx, chan, tables, submitted, loopVars>>

-----------------------------------------------------------------------------
(* handle_socket.                                                          *)

\* unregister_node_sender: by node id.
UnregisterSender(c) == senders' = [senders EXCEPT ![NodeOf[c]] = NoConn]

\* unregister_node: the entry and the index entry of its workspace id,
\* whichever node that names by now.
UnregisterNode(n) ==
    /\ state' = [state EXCEPT ![n] = "Absent"]
    /\ workspace' = [workspace EXCEPT ![n] = NoId]
    /\ index' = [id \in Ids |->
                    IF id = workspace[n] THEN NoNode ELSE index[id]]

\* No registration, or one that is not authenticated: nothing was set up.
RejectRegistration(c) ==
    /\ pc[c] = "hello"
    /\ Goto(c, "gone")
    /\ UNCHANGED <<nodeVars, recv, rx, chan, tables, submitted, loopVars>>

\* The channel is made and replaces the node's previous one.
RegisterSender(c) ==
    /\ pc[c] = "hello"
    /\ senders' = [senders EXCEPT ![NodeOf[c]] = c]
    /\ rx' = [rx EXCEPT ![c] = "handler"]
    /\ Goto(c, "routed")
    /\ UNCHANGED <<nodeVars, recv, chan, state, workspace, index, submitted, loopVars>>

Registered == {n \in Nodes : state[n] # "Absent"}

\* Slip: the workspace id of the previous registration stays in the index.
RegisterNodeKeepsIndex(c) ==
    LET n == NodeOf[c] IN
    /\ pc[c] = "routed"
    /\ n \in Registered \/ Cardinality(Registered) < MaxNodes
    /\ state' = [state EXCEPT ![n] = "Online"]
    /\ workspace' = [workspace EXCEPT ![n] = WorkspaceId(c)]
    /\ index' = [index EXCEPT ![WorkspaceId(c)] = n]
    /\ phase' = [phase EXCEPT ![c] = "loop"]
    /\ Goto(c, "setup")
    /\ UNCHANGED <<nodeVars, recv, rx, chan, senders, submitted, backlog, cands, dest>>

\* register_node under both locks: the node's previous workspace id leaves
\* the index, the new one enters and takes the place of another node that
\* gave the same; then handle_node_connection dispatches.
RegisterNode(c) ==
    LET n == NodeOf[c] IN
    /\ pc[c] = "routed"
    /\ n \in Registered \/ Cardinality(Registered) < MaxNodes
    /\ state' = [state EXCEPT ![n] = "Online"]
    /\ workspace' = [workspace EXCEPT ![n] = WorkspaceId(c)]
    /\ index' = [id \in Ids |-> IF id = WorkspaceId(c) THEN n
                                ELSE IF id = workspace[n] THEN NoNode
                                ELSE index[id]]
    /\ phase' = [phase EXCEPT ![c] = "loop"]
    /\ Goto(c, "setup")
    /\ UNCHANGED <<nodeVars, recv, rx, chan, senders, submitted, backlog, cands, dest>>

\* NodeLimitReached.
RefuseNode(c) ==
    /\ pc[c] = "routed"
    /\ NodeOf[c] \notin Registered
    /\ Cardinality(Registered) >= MaxNodes
    /\ Goto(c, "refused")
    /\ UNCHANGED <<nodeVars, recv, rx, chan, tables, submitted, loopVars>>

\* handle_socket returns; the channel's receiving end is dropped with it,
\* messages included, unless send_task owns it.
HandlerReturns(c) ==
    /\ Goto(c, "gone")
    /\ rx' = [rx EXCEPT ![c] = IF @ = "handler" THEN "dropped" ELSE @]
    /\ chan' = [chan EXCEPT ![c] = IF rx[c] = "handler" THEN 0 ELSE @]

\* Slip: a refused node keeps its sender.
LeaveRefusedRouted(c) ==
    /\ pc[c] = "refused"
    /\ HandlerReturns(c)
    /\ UNCHANGED <<nodeVars, recv, tables, submitted, loopVars>>

LeaveRefused(c) ==
    /\ pc[c] = "refused"
    /\ UnregisterSender(c)
    /\ HandlerReturns(c)
    /\ UNCHANGED <<nodeVars, recv, state, workspace, index, submitted, loopVars>>

FinishSetup(c) ==
    /\ pc[c] = "setup"
    /\ phase[c] = "idle"
    /\ Goto(c, "ack")
    /\ UNCHANGED <<nodeVars, recv, rx, chan, tables, submitted, loopVars>>

\* The acknowledgement is written (into a socket the node may have left) and
\* the two tasks are spawned.
SendAck(c) ==
    /\ pc[c] = "ack"
    /\ recv' = [recv EXCEPT ![c] = TRUE]
    /\ rx' = [rx EXCEPT ![c] = "send_task"]
    /\ Goto(c, "open")
    /\ UNCHANGED <<nodeVars, chan, tables, submitted, loopVars>>

AckFails(c) ==
    /\ pc[c] = "ack"
    /\ ~up[c]
    /\ Goto(c, "closing")
    /\ UNCHANGED <<nodeVars, recv, rx, chan, tables, submitted, loopVars>>

\* send_task forwards one message of the channel to the socket.
Forward(c) ==
    /\ rx[c] = "send_task"
    /\ chan[c] > 0
    /\ chan' = [chan EXCEPT ![c] = @ - 1]
    /\ UNCHANGED <<nodeVars, pc, recv, rx, tables, submitted, loopVars>>

\* Slip: join! instead of select!.
TaskEndsJoined(c) ==
    pc' = [pc EXCEPT ![c] =
              IF @ = "open" /\ (~recv[c] \/ rx[c] = "dropped") THEN "closing"
              ELSE @]

\* select!: whichever task ends first lets handle_socket go on to the cleanup;
\* the other one is detached and runs on.
TaskEnds(c) == pc' = [pc EXCEPT ![c] = IF @ = "open" THEN "closing" ELSE @]

\* send_task fails to write: its receiving end is dropped.
SendTaskEnds(c) ==
    /\ rx[c] = "send_task"
    /\ ~up[c]
    /\ chan[c] > 0
    /\ rx' = [rx EXCEPT ![c] = "dropped"]
    /\ chan' = [chan EXCEPT ![c] = 0]
    /\ TaskEnds(c)
    /\ UNCHANGED <<nodeVars, recv, tables, submitted, loopVars>>

\* recv_task reads the end of the stream, unless it is inside a dispatch.
RecvTaskEnds(c) ==
    /\ recv[c]
    /\ ~up[c]
    /\ phase[c] = "idle"
    /\ recv' = [recv EXCEPT ![c] = FALSE]
    /\ TaskEnds(c)
    /\ UNCHANGED <<nodeVars, rx, chan, tables, submitted, loopVars>>

\* A heartbeat read by recv_task: update_heartbeat finds the node with a free
\* slot or Busy; then a dispatch.  For a node without an entry it fails with
\* NodeNotFound and changes nothing.
Heartbeat(c, s) ==
    /\ recv[c]
    /\ phase[c] = "idle"
    /\ NodeOf[c] \in Registered
    /\ s \in {"Online", "Unavailable"}
    /\ state' = [state EXCEPT ![NodeOf[c]] = s]
    /\ phase' = [phase EXCEPT ![c] = "loop"]
    /\ UNCHANGED <<nodeVars, pc, recv, rx, chan, senders, workspace, index, submitted,
                   backlog, cands, dest>>

\* A TaskResult, or an Error that names a task, read by recv_task:
\* complete_task, then a dispatch.
ResultRead(c) ==
    /\ recv[c]
    /\ phase[c] = "idle"
    /\ phase' = [phase EXCEPT ![c] = "loop"]
    /\ UNCHANGED <<nodeVars, pc, recv, rx, chan, tables, submitted, backlog,
                   cands, dest>>

\* The cleanup, in its two critical sections.
CleanSender(c) ==
    /\ pc[c] = "closing"
    /\ UnregisterSender(c)
    /\ Goto(c, "unrouted")
    /\ UNCHANGED <<nodeVars, recv, rx, chan, state, workspace, index, submitted,
                   loopVars>>

\* handle_node_disconnect, then handle_socket returns.
CleanNode(c) ==
    /\ pc[c] = "unrouted"
    /\ UnregisterNode(NodeOf[c])
    /\ HandlerReturns(c)
    /\ UNCHANGED <<nodeVars, recv, senders, submitted, loopVars>>

-----------------------------------------------------------------------------
(* Heartbeat timeouts, submissions and the dispatch loop.                  *)

\* Slip: a silent node is removed although its connection stays.
NodeTimesOutRemoved(n) ==
    /\ state[n] = "Online"
    /\ UnregisterNode(n)
    /\ UNCHANGED <<nodeVars, pc, recv, rx, chan, senders, submitted, loopVars>>

\* NodeManager.check_timeouts marks a silent node Offline; its entry stays.
NodeTimesOut(n) ==
    /\ state[n] = "Online"
    /\ state' = [state EXCEPT ![n] = "Unavailable"]
    /\ UNCHANGED <<nodeVars, pc, recv, rx, chan, senders, workspace, index, submitted,
                   loopVars>>

\* Hub.submit_task: enqueue, then dispatch.
SubmitTask ==
    /\ submitted < MaxSubmissions
    /\ phase[Api] = "idle"
    /\ submitted' = submitted + 1
    /\ backlog' = backlog + 1
    /\ phase' = [phase EXCEPT ![Api] = "loop"]
    /\ UNCHANGED <<nodeVars, pc, recv, rx, chan, tables, cands, dest>>

\* The channels schedule_next may send a task into.
Routable == {senders[n] : n \in {m \in Nodes : /\ state[m] = "Online"
                                               /\ senders[m] # NoConn}}

\* schedule_next with a pending task and a node for it.
PickTask(x) ==
    /\ phase[x] = "loop"
    /\ backlog > 0
    /\ Routable # {}
    /\ backlog' = backlog - 1
    /\ cands' = [cands EXCEPT ![x] = Routable]
    /\ phase' = [phase EXCEPT ![x] = "try"]
    /\ UNCHANGED <<nodeVars, pc, recv, rx, chan, tables, submitted, dest>>

\* Nothing to send or no node to send it to: dispatch_pending_tasks returns.
EndDispatch(x) ==
    /\ phase[x] = "loop"
    /\ backlog = 0 \/ Routable = {}
    /\ phase' = [phase EXCEPT ![x] = "idle"]
    /\ UNCHANGED <<nodeVars, pc, recv, rx, chan, tables, submitted, backlog, cands, dest>>

\* The next candidate: sender.send(..).await begins.
TryNext(x, c) ==
    /\ phase[x] = "try"
    /\ c \in cands[x]
    /\ dest' = [dest EXCEPT ![x] = c]
    /\ cands' = [cands EXCEPT ![x] = @ \ {c}]
    /\ phase' = [phase EXCEPT ![x] = "send"]
    /\ UNCHANGED <<nodeVars, pc, recv, rx, chan, tables, submitted, backlog>>

\* Slip: a channel one slot short.
SendEndsOneShort(x) ==
    /\ phase[x] = "send"
    /\ rx[dest[x]] # "dropped"
    /\ chan[dest[x]] + 1 < ChannelCap
    /\ chan' = [chan EXCEPT ![dest[x]] = @ + 1]
    /\ dest' = [dest EXCEPT ![x] = NoConn]
    /\ cands' = [cands EXCEPT ![x] = {}]
    /\ phase' = [phase EXCEPT ![x] = "loop"]
    /\ UNCHANGED <<nodeVars, pc, recv, rx, tables, submitted, backlog>>

\* The send ends once the channel has room, and the loop goes on.
SendEnds(x) ==
    /\ phase[x] = "send"
    /\ rx[dest[x]] # "dropped"
    /\ chan[dest[x]] < ChannelCap
    /\ chan' = [chan EXCEPT ![dest[x]] = @ + 1]
    /\ dest' = [dest EXCEPT ![x] = NoConn]
    /\ cands' = [cands EXCEPT ![x] = {}]
    /\ phase' = [phase EXCEPT ![x] = "loop"]
    /\ UNCHANGED <<nodeVars, pc, recv, rx, tables, submitted, backlog>>

\* Slip: the task is requeued at each failed candidate, and again at the end.
SendFailsRequeues(x) ==
    /\ phase[x] = "send"
    /\ rx[dest[x]] = "dropped"
    /\ backlog' = backlog + 1
    /\ dest' = [dest EXCEPT ![x] = NoConn]
    /\ phase' = [phase EXCEPT ![x] = "try"]
    /\ UNCHANGED <<nodeVars, pc, recv, rx, chan, tables, submitted, cands>>

SendFails(x) ==
    /\ phase[x] = "send"
    /\ rx[dest[x]] = "dropped"
    /\ dest' = [dest EXCEPT ![x] = NoConn]
    /\ phase' = [phase EXCEPT ![x] = "try"]
    /\ UNCHANGED <<nodeVars, pc, recv, rx, chan, tables, submitted, backlog, cands>>

\* Every candidate failed: the task is requeued and schedule_next finds none.
Requeue(x) ==
    /\ phase[x] = "try"
    /\ cands[x] = {}
    /\ backlog' = backlog + 1
    /\ phase' = [phase EXCEPT ![x] = "idle"]
    /\ UNCHANGED <<nodeVars, pc, recv, rx, chan, tables, submitted, cands, dest>>

-----------------------------------------------------------------------------
HandlerStep(c) ==
    \/ RejectRegistration(c)
    \/ RegisterSender(c)
    \/ RegisterNode(c)
    \/ RefuseNode(c)
    \/ LeaveRefused(c)
    \/ FinishSetup(c)
    \/ SendAck(c)
    \/ AckFails(c)
    \/ CleanSender(c)
    \/ CleanNode(c)

SendTaskStep(c) == Forward(c) \/ SendTaskEnds(c)

DispatchStep(x) ==
    \/ PickTask(x)
    \/ EndDispatch(x)
    \/ \E c \in Conns : TryNext(x, c)
    \/ SendEnds(x)
    \/ SendFails(x)
    \/ Requeue(x)

Next ==
    \/ \E c \in Conns :
           \/ NodeConnects(c)
           \/ NodeDrops(c)
           \/ HandlerStep(c)
           \/ SendTaskStep(c)
           \/ RecvTaskEnds(c)
           \/ \E s \in {"Online", "Unavailable"} : Heartbeat(c, s)
           \/ ResultRead(c)
    \/ \E n \in Nodes : NodeTimesOut(n)
    \/ SubmitTask
    \/ \E x \in Dispatchers : DispatchStep(x)

Spec == Init /\ [][Next]_vars

\* The runtime drives every spawned task and every call to its end.  Reading
\* a dead socket ends in the end: only finitely many messages are buffered
\* ahead of its end, so a recv_task that keeps coming back to it gets there.
Fairness ==
    /\ \A c \in Conns : /\ WF_vars(HandlerStep(c))
                         /\ WF_vars(SendTaskStep(c))
                         /\ SF_vars(RecvTaskEnds(c))
    /\ \A x \in Dispatchers : WF_vars(DispatchStep(x))

FairSpec == Spec /\ Fairness

-----------------------------------------------------------------------------
(* Properties.                                                             *)

\* Whatever path handle_socket leaves by, and whichever connection's entries
\* its cleanup hits, neither table keeps an entry of a connection that has left:
\* no sender outlives its connection, and the registry holds no node without a
\* connection still to clean it up.
NoGhosts ==
    /\ \A n \in Nodes : senders[n] # NoConn =>
          pc[senders[n]] \in {"routed", "refused", "setup", "ack", "open",
                              "closing"}
    /\ \A n \in Registered : \E c \in Conns :
          NodeOf[c] = n
          /\ pc[c] \in {"setup", "ack", "open", "closing", "unrouted"}

\* workspace_index and the registry agree, also when a node registers again
\* under another workspace: get_node_by_workspace_id finds a node by its current
\* id and by no former one.  A registered node is missing from the index only
\* when another node gives the same id: the second one takes the entry over, and
\* the end of either removes it.
IndexExact ==
    \A id \in Ids : \A n \in Nodes :
        /\ index[id] = n => n \in Registered /\ workspace[n] = id
        /\ /\ n \in Registered /\ workspace[n] = id
           /\ \A c \in Conns : WorkspaceId(c) = id => NodeOf[c] = n
           => index[id] = n

\* A node whose only session is an open one can be reached: its sender is in
\* the routing table and its entry in the registry, so a task submitted after
\* a reconnection can be given to it.
ReconnectedIsRoutable ==
    \A c \in Conns :
        /\ pc[c] = "open" /\ up[c]
        /\ \A o \in Siblings(c) : pc[o] \in {"new", "gone"}
        => senders[NodeOf[c]] = c /\ NodeOf[c] \in Registered

\* The entries of an open session stand through every timeout, heartbeat,
\* refusal and cleanup, unless it was opened before the Hub was done with the
\* node's previous connections: overlapping is the one way to lose them.
RoutableUnlessOverlapped ==
    \A c \in Conns :
        pc[c] = "open" /\ up[c] /\ c \notin overlapping
        => senders[NodeOf[c]] = c /\ NodeOf[c] \in Registered

\* x waits for room in the channel of o, which o's handler has yet to hand
\* over to the task that drains it.
WaitsFor(x, o) ==
    /\ phase[x] = "send" /\ dest[x] = o
    /\ pc[o] = "setup" /\ rx[o] = "handler" /\ chan[o] = ChannelCap

\* Sessions in a circle: the dispatch in the setup of each waits for room in
\* its own channel or in that of another of them.  Nothing ever makes room.
Stuck == UNION {S \in SUBSET Conns :
                   \A c \in S : pc[c] = "setup" /\ \E o \in S : WaitsFor(c, o)}

\* A dispatch that waits for a stuck session never returns either.
Jammed(x) == \E o \in Stuck : WaitsFor(x, o)

\* handle_socket gets past the dispatch in handle_node_connection and on to
\* the acknowledgement, unless it fills channels that nobody drains yet and
\* waits for room in one of them, its own or that of another session in setup.
SetupCompletes ==
    \A c \in Conns :
       pc[c] = "setup" ~> pc[c] \in {"open", "closing", "gone"} \/ c \in Stuck

\* A connection the node has left is cleaned up in the end, unless it is stuck
\* in its setup, or its recv_task is inside a dispatch to a session that is.
DroppedIsCleaned ==
    \A c \in Conns : pc[c] # "new" /\ ~up[c] ~> pc[c] = "gone" \/ Jammed(c)

=============================================================================
