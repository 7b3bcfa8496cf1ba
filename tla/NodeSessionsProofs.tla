------------------------ MODULE NodeSessionsProofs -------------------------
(***************************************************************************)
(* Proofs about NodeSessions, for any number of nodes, connections and     *)
(* workspace ids, any limits and any channel capacity.                   *)
(***************************************************************************)
EXTENDS NodeSessions, FiniteSetTheorems, TLAPS

USE DEF nodeVars, tables, loopVars

-----------------------------------------------------------------------------
(* Type correctness.  That the backlog never exceeds the submissions is a  *)
(* fact about counting: a dispatcher that failed to place a task gives     *)
(* back the one it took.                                                   *)

\* A dispatcher sends into a connection's channel.
SendsSomewhere == \A x \in Dispatchers : phase[x] = "send" => dest[x] \in Conns

\* The dispatchers with a task in their hands.
Carrying == {x \in Dispatchers : phase[x] \in {"try", "send"}}

\* No task is invented: those pending and those carried were submitted.
TasksCounted ==
    IsFiniteSet(Carrying) /\ backlog + Cardinality(Carrying) <= submitted

\* Before it has registered its node a connection reads nothing and is in no
\* dispatch.
QuietAtFirst ==
    \A c \in Conns :
        pc[c] \in {"new", "hello", "routed", "refused"} =>
            phase[c] = "idle" /\ ~recv[c]

Typed == TypeOK /\ SendsSomewhere /\ QuietAtFirst /\ TasksCounted

\* The Hub starts without connections, nodes and tasks.
LEMMA InitTyped == Init => Typed
<1> SUFFICES ASSUME Init PROVE Typed
  OBVIOUS
<1>1. TypeOK /\ SendsSomewhere /\ QuietAtFirst
  BY SessionAssumption DEF Init, TypeOK, SendsSomewhere, QuietAtFirst, Dispatchers
<1>2. Carrying = {}
  BY DEF Init, Carrying
<1>3. TasksCounted
  BY <1>2, FS_EmptySet DEF Init, TasksCounted
<1> QED
  BY <1>1, <1>3 DEF Typed

\* A step after which the same dispatchers carry a task, and the counters are
\* what they were.
LEMMA CountKept ==
    ASSUME TasksCounted, Carrying' = Carrying, UNCHANGED <<backlog, submitted>>
    PROVE  TasksCounted'
  BY DEF TasksCounted

\* schedule_next takes a pending task.
LEMMA CountTaken ==
    ASSUME TypeOK, TasksCounted, NEW x, x \notin Carrying,
           Carrying' = Carrying \cup {x},
           backlog' = backlog - 1, submitted' = submitted
    PROVE  TasksCounted'
<1>1. backlog \in Int /\ submitted \in Int
  BY SessionAssumption DEF TypeOK
<1>2. Cardinality(Carrying) \in Nat /\ IsFiniteSet(Carrying)
      /\ backlog + Cardinality(Carrying) <= submitted
  BY FS_CardinalityType DEF TasksCounted
<1>3. IsFiniteSet(Carrying') /\ Cardinality(Carrying') = Cardinality(Carrying) + 1
  BY <1>2, FS_AddElement
<1> QED
  BY <1>1, <1>2, <1>3 DEF TasksCounted

\* It sends the task it took, or gives it back.
LEMMA CountReleased ==
    ASSUME TypeOK, TasksCounted, NEW x, x \in Carrying,
           Carrying' = Carrying \ {x},
           backlog' = backlog \/ backlog' = backlog + 1, submitted' = submitted
    PROVE  TasksCounted' /\ backlog' \in 0..submitted'
<1>1. backlog \in Nat /\ submitted \in Nat
  BY SessionAssumption DEF TypeOK
<1>2. Cardinality(Carrying) \in Nat /\ IsFiniteSet(Carrying)
      /\ backlog + Cardinality(Carrying) <= submitted
  BY FS_CardinalityType DEF TasksCounted
<1>3. IsFiniteSet(Carrying') /\ Cardinality(Carrying') = Cardinality(Carrying) - 1
  BY <1>2, FS_RemoveElement
<1>4. Cardinality(Carrying) # 0
  BY <1>2, FS_EmptySet
<1> QED
  BY <1>1, <1>2, <1>3, <1>4 DEF TasksCounted

\* Each step of handle_socket and of the tasks it spawns keeps the types.
LEMMA ConnectionTyped ==
    ASSUME Typed, NEW c \in Conns,
           \/ NodeConnects(c) \/ NodeDrops(c) \/ HandlerStep(c)
           \/ SendTaskStep(c) \/ RecvTaskEnds(c)
           \/ \E s \in {"Online", "Unavailable"} : Heartbeat(c, s)
           \/ ResultRead(c)
    PROVE  Typed'
<1> USE SessionAssumption
<1> USE DEF Goto
<1>n. NodeOf[c] \in Nodes /\ WorkspaceId(c) \in Ids /\ c \in Dispatchers
  BY DEF Ids, Dispatchers
<1>a. ASSUME UNCHANGED <<submitted, backlog, phase>>
      PROVE  TasksCounted'
  <2>1. Carrying' = Carrying
    BY <1>a DEF Carrying
  <2> QED
    BY <1>a, <2>1, CountKept DEF Typed
<1>b. ASSUME phase[c] = "idle", phase' = [phase EXCEPT ![c] = "loop"],
             UNCHANGED <<submitted, backlog>>
      PROVE  TasksCounted'
  <2>1. Carrying' = Carrying
    BY <1>b, <1>n DEF Carrying, Typed, TypeOK
  <2> QED
    BY <1>b, <2>1, CountKept DEF Typed
<1> USE DEF Typed, TypeOK, SendsSomewhere, QuietAtFirst
<1>1. CASE NodeConnects(c)
  BY <1>1, <1>a DEF NodeConnects
<1>2. CASE NodeDrops(c)
  BY <1>2, <1>a DEF NodeDrops
<1>3. CASE RejectRegistration(c)
  BY <1>3, <1>a DEF RejectRegistration
<1>4. CASE RegisterSender(c)
  BY <1>4, <1>a, <1>n DEF RegisterSender
<1>5. CASE RegisterNode(c)
  <2>1. phase[c] = "idle"
    BY <1>5 DEF RegisterNode
  <2>2. TasksCounted'
    BY <1>5, <1>b, <2>1 DEF RegisterNode
  <2>3. index' \in [Ids -> Nodes \cup {NoNode}]
    BY <1>5, <1>n DEF RegisterNode
  <2> QED
    BY <1>5, <1>n, <2>1, <2>2, <2>3 DEF RegisterNode
<1>6. CASE RefuseNode(c)
  BY <1>6, <1>a DEF RefuseNode
<1>7. CASE LeaveRefused(c)
  BY <1>7, <1>a, <1>n DEF LeaveRefused, HandlerReturns, UnregisterSender
<1>8. CASE FinishSetup(c)
  BY <1>8, <1>a DEF FinishSetup
<1>9. CASE SendAck(c)
  BY <1>9, <1>a DEF SendAck
<1>10. CASE AckFails(c)
  BY <1>10, <1>a DEF AckFails
<1>11. CASE CleanSender(c)
  BY <1>11, <1>a, <1>n DEF CleanSender, UnregisterSender
<1>12. CASE CleanNode(c)
  <2>1. index' \in [Ids -> Nodes \cup {NoNode}]
    BY <1>12, <1>n DEF CleanNode, UnregisterNode
  <2> QED
    BY <1>12, <1>a, <1>n, <2>1 DEF CleanNode, UnregisterNode, HandlerReturns
<1>13. CASE Forward(c)
  BY <1>13, <1>a DEF Forward
<1>14. CASE SendTaskEnds(c)
  BY <1>14, <1>a DEF SendTaskEnds, TaskEnds
<1>15. CASE RecvTaskEnds(c)
  BY <1>15, <1>a DEF RecvTaskEnds, TaskEnds
<1>16. ASSUME NEW s \in {"Online", "Unavailable"}, Heartbeat(c, s) PROVE Typed'
  <2>1. TasksCounted'
    BY <1>16, <1>b DEF Heartbeat
  <2> QED
    BY <1>16, <1>n, <2>1 DEF Heartbeat
<1>17. CASE ResultRead(c)
  <2>1. TasksCounted'
    BY <1>17, <1>b DEF ResultRead
  <2> QED
    BY <1>17, <1>n, <2>1 DEF ResultRead
<1> QED
  BY <1>1, <1>2, <1>3, <1>4, <1>5, <1>6, <1>7, <1>8, <1>9, <1>10, <1>11, <1>12,
     <1>13, <1>14, <1>15, <1>16, <1>17 DEF HandlerStep, SendTaskStep

\* Each step of dispatch_pending_tasks keeps the types and the count.
LEMMA DispatchTyped ==
    ASSUME Typed, NEW x \in Dispatchers, DispatchStep(x)
    PROVE  Typed'
<1> USE SessionAssumption
<1>q. \A c \in Conns : c = x /\ phase[x] # "idle" =>
          pc[c] \notin {"new", "hello", "routed", "refused"}
  BY DEF Typed, QuietAtFirst
<1> USE DEF Typed, TypeOK, SendsSomewhere, QuietAtFirst
<1>1. CASE PickTask(x)
  <2>1. Carrying' = Carrying \cup {x} /\ x \notin Carrying
    BY <1>1 DEF PickTask, Carrying
  <2>2. TasksCounted'
    BY <1>1, <2>1, CountTaken DEF PickTask
  <2>3. Routable \subseteq Conns
    BY DEF Routable
  <2> QED
    BY <1>1, <1>q, <2>2, <2>3 DEF PickTask
<1>2. CASE EndDispatch(x)
  <2>1. Carrying' = Carrying
    BY <1>2 DEF EndDispatch, Carrying
  <2>2. TasksCounted'
    BY <1>2, <2>1, CountKept DEF EndDispatch
  <2> QED
    BY <1>2, <2>2 DEF EndDispatch
<1>3. ASSUME NEW c \in Conns, TryNext(x, c) PROVE Typed'
  <2>1. Carrying' = Carrying
    BY <1>3 DEF TryNext, Carrying
  <2>2. TasksCounted'
    BY <1>3, <2>1, CountKept DEF TryNext
  <2> QED
    BY <1>3, <1>q, <2>2 DEF TryNext
<1>4. CASE SendEnds(x)
  <2>1. Carrying' = Carrying \ {x} /\ x \in Carrying
    BY <1>4 DEF SendEnds, Carrying
  <2>2. TasksCounted'
    BY <1>4, <2>1, CountReleased DEF SendEnds
  <2>3. chan' \in [Conns -> 0..ChannelCap]
    BY <1>4 DEF SendEnds
  <2> QED
    BY <1>4, <1>q, <2>2, <2>3 DEF SendEnds
<1>5. CASE SendFails(x)
  <2>1. Carrying' = Carrying
    BY <1>5 DEF SendFails, Carrying
  <2>2. TasksCounted'
    BY <1>5, <2>1, CountKept DEF SendFails
  <2> QED
    BY <1>5, <1>q, <2>2 DEF SendFails
<1>6. CASE Requeue(x)
  <2>1. Carrying' = Carrying \ {x} /\ x \in Carrying
    BY <1>6 DEF Requeue, Carrying
  <2>2. TasksCounted' /\ backlog' \in 0..submitted'
    BY <1>6, <2>1, CountReleased DEF Requeue
  <2> QED
    BY <1>6, <2>2 DEF Requeue
<1> QED
  BY <1>1, <1>2, <1>3, <1>4, <1>5, <1>6 DEF DispatchStep

\* Every step keeps the types and the count of the tasks.
LEMMA NextTyped == Typed /\ [Next]_vars => Typed'
<1> USE SessionAssumption
<1> SUFFICES ASSUME Typed, [Next]_vars PROVE Typed'
  OBVIOUS
<1>1. ASSUME NEW c \in Conns,
             \/ NodeConnects(c) \/ NodeDrops(c) \/ HandlerStep(c)
             \/ SendTaskStep(c) \/ RecvTaskEnds(c)
             \/ \E s \in {"Online", "Unavailable"} : Heartbeat(c, s)
             \/ ResultRead(c)
      PROVE  Typed'
  BY <1>1, ConnectionTyped
<1>2. ASSUME NEW n \in Nodes, NodeTimesOut(n) PROVE Typed'
  <2>1. Carrying' = Carrying
    BY <1>2 DEF NodeTimesOut, Carrying
  <2>2. TasksCounted'
    BY <1>2, <2>1, CountKept DEF NodeTimesOut, Typed
  <2> QED
    BY <1>2, <2>2
       DEF NodeTimesOut, Typed, TypeOK, SendsSomewhere, QuietAtFirst
<1>3. CASE SubmitTask
  <2>1. Carrying' = Carrying
    BY <1>3 DEF SubmitTask, Carrying, Dispatchers, Typed, TypeOK
  <2>2. TasksCounted'
    BY <1>3, <2>1, FS_CardinalityType DEF SubmitTask, TasksCounted, Typed, TypeOK
  <2>3. submitted' \in 0..MaxSubmissions /\ backlog' \in 0..submitted'
    BY <1>3 DEF SubmitTask, Typed, TypeOK
  <2> QED
    BY <1>3, <2>2, <2>3
       DEF SubmitTask, Typed, TypeOK, SendsSomewhere, QuietAtFirst, Dispatchers
<1>4. ASSUME NEW x \in Dispatchers, DispatchStep(x) PROVE Typed'
  BY <1>4, DispatchTyped
<1>5. CASE UNCHANGED vars
  <2>1. Carrying' = Carrying
    BY <1>5 DEF vars, Carrying
  <2> QED
    BY <1>5, <2>1, CountKept
       DEF vars, Typed, TypeOK, SendsSomewhere, QuietAtFirst
<1> QED
  BY <1>1, <1>2, <1>3, <1>4, <1>5 DEF Next

\* The tables, channels and counters of the Hub keep their types; no task is
\* invented by a dispatcher that gives one back.
THEOREM TypeCorrect == Spec => []TypeOK
<1>1. Typed => TypeOK
  BY DEF Typed
<1> QED
  BY <1>1, InitTyped, NextTyped, PTL DEF Spec

-----------------------------------------------------------------------------
(* The routing table and the registry.                                     *)

\* A node's sender is the channel of a connection of that node.
SendersKeyed ==
    \A n \in Nodes : senders[n] # NoConn => NodeOf[senders[n]] = n

\* The workspace id in a node's entry is one that a connection of the node gave.
OwnIds ==
    \A n \in Nodes : workspace[n] # NoId =>
        \E c \in Conns : NodeOf[c] = n /\ WorkspaceId(c) = workspace[n]

Tables == SendersKeyed /\ NoGhosts /\ OwnIds /\ IndexExact

\* The tables are empty at first.
LEMMA InitTables == Init => Tables
  BY SessionAssumption
     DEF Init, Tables, SendersKeyed, NoGhosts, OwnIds, IndexExact, Registered

\* A step that leaves the tables alone and moves handle_socket on within the
\* stretch where the connection's entries may stand.
LEMMA TablesKept ==
    ASSUME Typed, Tables, UNCHANGED tables,
           \A c \in Conns : pc'[c] = pc[c] \/ pc'[c] = "closing"
               \/ <<pc[c], pc'[c]>> \in {<<"new", "hello">>, <<"hello", "gone">>,
                                        <<"routed", "refused">>, <<"setup", "ack">>,
                                        <<"ack", "open">>}
    PROVE  Tables'
<1>1. SendersKeyed' /\ OwnIds' /\ IndexExact'
  BY DEF Tables, SendersKeyed, OwnIds, IndexExact, Registered
<1>2. \A n \in Nodes : senders[n] # NoConn =>
          pc'[senders[n]] \in {"routed", "refused", "setup", "ack", "open",
                              "closing"}
  BY DEF Typed, TypeOK, Tables, NoGhosts
<1>3. \A n \in Registered : \E c \in Conns :
          NodeOf[c] = n
          /\ pc'[c] \in {"setup", "ack", "open", "closing", "unrouted"}
  <2> SUFFICES ASSUME NEW n \in Registered
               PROVE  \E c \in Conns : NodeOf[c] = n /\
                          pc'[c] \in {"setup", "ack", "open", "closing", "unrouted"}
    OBVIOUS
  <2>1. PICK c \in Conns : NodeOf[c] = n
            /\ pc[c] \in {"setup", "ack", "open", "closing", "unrouted"}
    BY DEF Tables, NoGhosts
  <2> QED
    BY <2>1
<1> QED
  BY <1>1, <1>2, <1>3 DEF Tables, NoGhosts, Registered

\* A heartbeat or its absence changes the state of a registered node.
LEMMA StateTables ==
    ASSUME Typed, Tables, NEW n \in Registered,
           NEW s \in {"Online", "Unavailable"},
           state' = [state EXCEPT ![n] = s],
           UNCHANGED <<pc, senders, workspace, index>>
    PROVE  Tables'
<1>1. Registered' = Registered
  BY DEF Registered, Typed, TypeOK
<1> QED
  BY <1>1 DEF Tables, SendersKeyed, NoGhosts, OwnIds, IndexExact

\* register_node_sender: the new channel takes the place of the node's
\* previous one.
LEMMA RegisterSenderTables ==
    ASSUME Typed, Tables, NEW c \in Conns, RegisterSender(c)
    PROVE  Tables'
<1> USE SessionAssumption
<1>1. /\ senders'[NodeOf[c]] = c /\ pc'[c] = "routed" /\ pc[c] = "hello"
      /\ \A n \in Nodes \ {NodeOf[c]} : senders'[n] = senders[n]
      /\ \A o \in Conns \ {c} : pc'[o] = pc[o]
  BY DEF RegisterSender, Goto, Typed, TypeOK
<1>2. Registered' = Registered /\ UNCHANGED <<workspace, index>>
  BY DEF RegisterSender, Registered
<1>3. SendersKeyed' /\ OwnIds' /\ IndexExact'
  BY <1>1, <1>2 DEF Tables, SendersKeyed, OwnIds, IndexExact
<1>4. NoGhosts'
  <2>1. ASSUME NEW n \in Nodes, senders'[n] # NoConn
        PROVE  pc'[senders'[n]] \in {"routed", "refused", "setup", "ack", "open",
                                    "closing"}
    BY <1>1, <2>1 DEF Typed, TypeOK, Tables, NoGhosts
  <2>2. ASSUME NEW n \in Registered
        PROVE  \E o \in Conns : NodeOf[o] = n /\
                   pc'[o] \in {"setup", "ack", "open", "closing", "unrouted"}
    <3>1. PICK o \in Conns : NodeOf[o] = n
              /\ pc[o] \in {"setup", "ack", "open", "closing", "unrouted"}
      BY DEF Tables, NoGhosts
    <3> QED
      BY <1>1, <3>1
  <2> QED
    BY <1>2, <2>1, <2>2 DEF NoGhosts
<1> QED
  BY <1>3, <1>4 DEF Tables

\* register_node: the entry of the node and the two entries of the index.
LEMMA RegisterNodeTables ==
    ASSUME Typed, Tables, NEW c \in Conns, RegisterNode(c)
    PROVE  Tables'
<1> USE SessionAssumption
<1>n. PICK n \in Nodes : n = NodeOf[c]
  OBVIOUS
<1>1. /\ pc'[c] = "setup" /\ pc[c] = "routed"
      /\ \A o \in Conns \ {c} : pc'[o] = pc[o]
      /\ senders' = senders
  BY DEF RegisterNode, Goto, Typed, TypeOK
<1>2. /\ Registered' = Registered \cup {n}
      /\ workspace'[n] = WorkspaceId(c)
      /\ \A m \in Nodes \ {n} : workspace'[m] = workspace[m]
  BY <1>n DEF RegisterNode, Registered, Typed, TypeOK
<1>3. \A id \in Ids : index'[id] = IF id = WorkspaceId(c) THEN n
                                   ELSE IF id = workspace[n] THEN NoNode
                                   ELSE index[id]
  BY <1>n DEF RegisterNode
<1>4. NoGhosts'
  <2>1. ASSUME NEW m \in Nodes, senders'[m] # NoConn
        PROVE  pc'[senders'[m]] \in {"routed", "refused", "setup", "ack", "open",
                                    "closing"}
    BY <1>1, <2>1 DEF Typed, TypeOK, Tables, NoGhosts
  <2>2. ASSUME NEW m \in Registered \cup {n}
        PROVE  \E o \in Conns : NodeOf[o] = m /\
                   pc'[o] \in {"setup", "ack", "open", "closing", "unrouted"}
    <3>1. CASE m = n
      BY <1>1, <1>n, <3>1
    <3>2. CASE m # n
      <4>1. PICK o \in Conns : NodeOf[o] = m
                /\ pc[o] \in {"setup", "ack", "open", "closing", "unrouted"}
        BY <3>2 DEF Tables, NoGhosts
      <4> QED
        BY <1>1, <4>1
    <3> QED
      BY <3>1, <3>2
  <2> QED
    BY <1>2, <2>1, <2>2 DEF NoGhosts
<1>5. IndexExact'
  <2> SUFFICES ASSUME NEW id \in Ids, NEW m \in Nodes
               PROVE  /\ index'[id] = m => m \in Registered' /\ workspace'[m] = id
                      /\ /\ m \in Registered' /\ workspace'[m] = id
                         /\ \A o \in Conns : WorkspaceId(o) = id => NodeOf[o] = m
                         => index'[id] = m
    BY DEF IndexExact
  <2>1. /\ index[id] = m => m \in Registered /\ workspace[m] = id
        /\ /\ m \in Registered /\ workspace[m] = id
           /\ \A o \in Conns : WorkspaceId(o) = id => NodeOf[o] = m
           => index[id] = m
    BY DEF Tables, IndexExact
  <2>2. CASE m = n
    BY <1>2, <1>3, <2>1, <2>2
  <2>3. CASE m # n
    <3>1. workspace[n] \in Ids \cup {NoId} /\ NoNode # m
      BY DEF Typed, TypeOK
    <3>2. CASE id = WorkspaceId(c)
      BY <1>n, <1>2, <1>3, <2>3, <3>2
    <3>3. CASE id # WorkspaceId(c) /\ id = workspace[n]
      <4>1. index'[id] = NoNode
        BY <1>3, <3>3
      <4>2. PICK o \in Conns : WorkspaceId(o) = id /\ NodeOf[o] = n
        BY <3>3, <1>n DEF Tables, OwnIds
      <4> QED
        BY <2>3, <3>1, <4>1, <4>2
    <3>4. CASE id # WorkspaceId(c) /\ id # workspace[n]
      BY <1>2, <1>3, <2>1, <2>3, <3>4
    <3> QED
      BY <3>2, <3>3, <3>4
  <2> QED
    BY <2>2, <2>3
<1>6. OwnIds'
  BY <1>n, <1>2 DEF Tables, OwnIds
<1> QED
  BY <1>1, <1>4, <1>5, <1>6 DEF Tables, SendersKeyed

\* unregister_node_sender, on the way out of a refused connection and of one
\* that is closing: whichever connection's sender it removes, the connection
\* that removes it is not left in the table.
LEMMA UnregisterSenderTables ==
    ASSUME Typed, Tables, NEW c \in Conns, UnregisterSender(c),
           pc' = [pc EXCEPT ![c] = IF pc[c] = "refused" THEN "gone" ELSE "unrouted"],
           pc[c] \in {"refused", "closing"},
           UNCHANGED <<state, workspace, index>>
    PROVE  Tables'
<1> USE SessionAssumption
<1>1. /\ senders'[NodeOf[c]] = NoConn
      /\ \A n \in Nodes \ {NodeOf[c]} : senders'[n] = senders[n]
      /\ \A o \in Conns \ {c} : pc'[o] = pc[o]
      /\ pc[c] = "closing" => pc'[c] = "unrouted"
  BY DEF UnregisterSender, Typed, TypeOK
<1>2. Registered' = Registered
  BY DEF Registered
<1>3. SendersKeyed' /\ OwnIds' /\ IndexExact'
  BY <1>1, <1>2 DEF Tables, SendersKeyed, OwnIds, IndexExact
<1>4. NoGhosts'
  <2>1. ASSUME NEW n \in Nodes, senders'[n] # NoConn
        PROVE  pc'[senders'[n]] \in {"routed", "refused", "setup", "ack", "open",
                                    "closing"}
    <3>1. n # NodeOf[c] /\ senders'[n] = senders[n]
      BY <1>1, <2>1
    <3>2. senders[n] \in Conns \ {c}
      BY <2>1, <3>1 DEF Tables, SendersKeyed, Typed, TypeOK
    <3> QED
      BY <1>1, <2>1, <3>1, <3>2 DEF Tables, NoGhosts
  <2>2. ASSUME NEW n \in Registered
        PROVE  \E o \in Conns : NodeOf[o] = n /\
                   pc'[o] \in {"setup", "ack", "open", "closing", "unrouted"}
    <3>1. PICK o \in Conns : NodeOf[o] = n
              /\ pc[o] \in {"setup", "ack", "open", "closing", "unrouted"}
      BY DEF Tables, NoGhosts
    <3> QED
      BY <1>1, <3>1
  <2> QED
    BY <1>2, <2>1, <2>2 DEF NoGhosts
<1> QED
  BY <1>3, <1>4 DEF Tables

\* handle_node_disconnect removes the node's entry and its index entry, and
\* the connection is gone.
LEMMA CleanNodeTables ==
    ASSUME Typed, Tables, NEW c \in Conns, CleanNode(c)
    PROVE  Tables'
<1> USE SessionAssumption
<1>n. PICK n \in Nodes : n = NodeOf[c]
  OBVIOUS
<1>1. /\ pc[c] = "unrouted"
      /\ \A o \in Conns \ {c} : pc'[o] = pc[o]
      /\ senders' = senders
  BY DEF CleanNode, HandlerReturns, Goto, Typed, TypeOK
<1>2. /\ Registered' = Registered \ {n}
      /\ \A m \in Nodes \ {n} : workspace'[m] = workspace[m]
  BY <1>n DEF CleanNode, UnregisterNode, Registered, Typed, TypeOK
<1>3. /\ \A id \in Ids :
            index'[id] = IF id = workspace[n] THEN NoNode ELSE index[id]
      /\ workspace'[n] = NoId
  BY <1>n DEF CleanNode, UnregisterNode, Typed, TypeOK
<1>4. NoGhosts'
  <2>1. ASSUME NEW m \in Nodes, senders'[m] # NoConn
        PROVE  pc'[senders'[m]] \in {"routed", "refused", "setup", "ack", "open",
                                    "closing"}
    BY <1>1, <2>1 DEF Typed, TypeOK, Tables, NoGhosts
  <2>2. ASSUME NEW m \in Registered \ {n}
        PROVE  \E o \in Conns : NodeOf[o] = m /\
                   pc'[o] \in {"setup", "ack", "open", "closing", "unrouted"}
    <3>1. PICK o \in Conns : NodeOf[o] = m
              /\ pc[o] \in {"setup", "ack", "open", "closing", "unrouted"}
      BY DEF Tables, NoGhosts
    <3>2. o # c
      BY <1>n, <3>1
    <3> QED
      BY <1>1, <3>1, <3>2
  <2> QED
    BY <1>2, <2>1, <2>2 DEF NoGhosts
<1>5. IndexExact'
  <2> SUFFICES ASSUME NEW id \in Ids, NEW m \in Nodes
               PROVE  /\ index'[id] = m => m \in Registered' /\ workspace'[m] = id
                      /\ /\ m \in Registered' /\ workspace'[m] = id
                         /\ \A o \in Conns : WorkspaceId(o) = id => NodeOf[o] = m
                         => index'[id] = m
    BY DEF IndexExact
  <2>1. /\ index[id] = m => m \in Registered /\ workspace[m] = id
        /\ /\ m \in Registered /\ workspace[m] = id
           /\ \A o \in Conns : WorkspaceId(o) = id => NodeOf[o] = m
           => index[id] = m
    BY DEF Tables, IndexExact
  <2>2. CASE m = n
    BY <1>2, <1>3, <2>1, <2>2
  <2>3. CASE m # n
    <3>1. CASE id = workspace[n]
      <4>1. index'[id] = NoNode /\ NoNode # m
        BY <1>3, <3>1
      <4>2. PICK o \in Conns : WorkspaceId(o) = id /\ NodeOf[o] = n
        BY <3>1 DEF Tables, OwnIds
      <4> QED
        BY <2>3, <4>1, <4>2
    <3>2. CASE id # workspace[n]
      BY <1>2, <1>3, <2>1, <2>3, <3>2
    <3> QED
      BY <3>1, <3>2
  <2> QED
    BY <2>2, <2>3
<1>6. OwnIds'
  BY <1>2, <1>3 DEF Tables, OwnIds
<1> QED
  BY <1>1, <1>4, <1>5, <1>6 DEF Tables, SendersKeyed

\* Every step keeps the tables free of ghosts and the index exact.
LEMMA NextTables == Typed /\ Tables /\ [Next]_vars => Tables'
<1> USE SessionAssumption
<1> SUFFICES ASSUME Typed, Tables, [Next]_vars PROVE Tables'
  OBVIOUS
<1>1. ASSUME NEW c \in Conns,
             \/ NodeConnects(c) \/ NodeDrops(c) \/ RejectRegistration(c)
             \/ RefuseNode(c) \/ FinishSetup(c) \/ SendAck(c) \/ AckFails(c)
             \/ Forward(c) \/ SendTaskEnds(c) \/ RecvTaskEnds(c)
      PROVE  Tables'
  <2>1. UNCHANGED tables
    BY <1>1 DEF NodeConnects, NodeDrops, RejectRegistration, RefuseNode,
        FinishSetup, SendAck, AckFails, Forward, SendTaskEnds, RecvTaskEnds
  <2>2. \A o \in Conns : pc'[o] = pc[o] \/ pc'[o] = "closing"
           \/ <<pc[o], pc'[o]>> \in {<<"new", "hello">>, <<"hello", "gone">>,
                                    <<"routed", "refused">>, <<"setup", "ack">>,
                                    <<"ack", "open">>}
    BY <1>1 DEF NodeConnects, NodeDrops, RejectRegistration, RefuseNode,
        FinishSetup, SendAck, AckFails, Forward, SendTaskEnds, RecvTaskEnds,
        TaskEnds, Goto, Typed, TypeOK
  <2> QED
    BY <2>1, <2>2, TablesKept
<1>2. ASSUME NEW c \in Conns, RegisterSender(c) PROVE Tables'
  BY <1>2, RegisterSenderTables
<1>3. ASSUME NEW c \in Conns, RegisterNode(c) PROVE Tables'
  BY <1>3, RegisterNodeTables
<1>4. ASSUME NEW c \in Conns, LeaveRefused(c) PROVE Tables'
  BY <1>4, UnregisterSenderTables DEF LeaveRefused, HandlerReturns, Goto
<1>5. ASSUME NEW c \in Conns, CleanSender(c) PROVE Tables'
  BY <1>5, UnregisterSenderTables DEF CleanSender, Goto
<1>6. ASSUME NEW c \in Conns, CleanNode(c) PROVE Tables'
  BY <1>6, CleanNodeTables
<1>7. ASSUME NEW c \in Conns, NEW s \in {"Online", "Unavailable"}, Heartbeat(c, s)
      PROVE  Tables'
  BY <1>7, StateTables DEF Heartbeat
<1>8. ASSUME NEW n \in Nodes, NodeTimesOut(n) PROVE Tables'
  <2>1. n \in Registered
    BY <1>8 DEF NodeTimesOut, Registered
  <2> QED
    BY <1>8, <2>1, StateTables DEF NodeTimesOut
<1>9. ASSUME SubmitTask \/ \E c \in Conns : ResultRead(c) PROVE Tables'
  BY <1>9, TablesKept DEF SubmitTask, ResultRead
<1>10. ASSUME NEW x \in Dispatchers, DispatchStep(x) PROVE Tables'
  BY <1>10, TablesKept DEF DispatchStep, PickTask, EndDispatch, TryNext,
                           SendEnds, SendFails, Requeue
<1>11. CASE UNCHANGED vars
  BY <1>11, TablesKept DEF vars
<1> QED
  BY <1>1, <1>2, <1>3, <1>4, <1>5, <1>6, <1>7, <1>8, <1>9, <1>10, <1>11
     DEF Next, HandlerStep, SendTaskStep

\* Both invariants of the tables, with what they rest on.
LEMMA Invariance == Spec => [](Typed /\ Tables)
  BY InitTyped, NextTyped, InitTables, NextTables, PTL DEF Spec

\* Neither table keeps an entry of a connection that has left, however the
\* registrations and cleanups of overlapping connections interleave.
THEOREM GhostFree == Spec => []NoGhosts
<1>1. Typed /\ Tables => NoGhosts
  BY DEF Tables
<1> QED
  BY <1>1, Invariance, PTL

\* workspace_index and the registry agree: a node is found by its current
\* workspace id and by no former one, unless it shares the id with another.
THEOREM IndexInverse == Spec => []IndexExact
<1>1. Typed /\ Tables => IndexExact
  BY DEF Tables
<1> QED
  BY <1>1, Invariance, PTL

-----------------------------------------------------------------------------
(* Reconnection.  A session that was opened when the Hub was done with the *)
(* node's previous connections stays alone while its node holds on to it.  *)

\* c's node holds on to it and has no other connection at the Hub.
Alone(c) ==
    up[c] /\ c \notin overlapping =>
        \A o \in Siblings(c) : pc[o] \in {"new", "gone"}

\* Its entries stand from their registration to its cleanup.
EntriesStand(c) ==
    up[c] /\ c \notin overlapping =>
        /\ pc[c] \in {"routed", "refused", "setup", "ack", "open", "closing"} =>
               senders[NodeOf[c]] = c
        /\ pc[c] \in {"setup", "ack", "open", "closing", "unrouted"} =>
               NodeOf[c] \in Registered

Exclusive == \A c \in Conns : Alone(c) /\ EntriesStand(c)

\* A step of another node, or of a connection that is at its end: it takes
\* nothing from c, which goes on within the stretch where its entries stand.
LEMMA ExclusiveKept ==
    ASSUME NEW c \in Conns, Alone(c), EntriesStand(c),
           up'[c] => up[c], overlapping \subseteq overlapping',
           \A o \in Siblings(c) : pc[o] \in {"new", "gone"} => pc'[o] = pc[o],
           Alone(c) /\ up[c] /\ c \notin overlapping =>
               /\ senders'[NodeOf[c]] = senders[NodeOf[c]]
               /\ NodeOf[c] \in Registered => NodeOf[c] \in Registered',
           \/ pc'[c] = pc[c]
           \/ pc[c] = "open" /\ pc'[c] = "closing"
           \/ <<pc[c], pc'[c]>> \in {<<"hello", "gone">>, <<"routed", "refused">>,
                                    <<"setup", "ack">>, <<"ack", "open">>,
                                    <<"ack", "closing">>}
    PROVE  Alone(c)' /\ EntriesStand(c)'
<1>1. Alone(c)'
  BY DEF Alone, Siblings
<1>2. EntriesStand(c)'
  BY DEF EntriesStand
<1> QED
  BY <1>1, <1>2

\* No step takes the entries of a session that has no sibling at the Hub.
LEMMA NextExclusive ==
    ASSUME Typed, Exclusive, [Next]_vars
    PROVE  Exclusive'
<1> USE SessionAssumption
<1>0. /\ pc \in [Conns -> {"new", "hello", "routed", "refused", "setup", "ack",
                          "open", "closing", "unrouted", "gone"}]
      /\ senders \in [Nodes -> Conns \cup {NoConn}]
      /\ up \in [Conns -> BOOLEAN]
      /\ DOMAIN state = Nodes
  BY DEF Typed, TypeOK
<1> SUFFICES ASSUME NEW c \in Conns
             PROVE  Alone(c)' /\ EntriesStand(c)'
  BY DEF Exclusive
<1>a. Alone(c) /\ EntriesStand(c) /\ NodeOf[c] \in Nodes
  BY DEF Exclusive
<1>b. ASSUME NEW o \in Siblings(c), pc[o] \notin {"new", "gone"}
      PROVE  ~(up[c] /\ c \notin overlapping)
  BY <1>a, <1>b DEF Alone
<1>c. \A o \in Conns : o # c /\ o \notin Siblings(c) => NodeOf[o] # NodeOf[c]
  BY DEF Siblings
<1>1. ASSUME NEW d \in Conns, NodeConnects(d) PROVE Alone(c)' /\ EntriesStand(c)'
  <2>1. /\ pc' = [pc EXCEPT ![d] = "hello"] /\ UNCHANGED <<senders, state>>
        /\ up' = [up EXCEPT ![d] = TRUE] /\ Registered' = Registered
        /\ \A o \in Siblings(d) : ~up[o]
        /\ overlapping' = IF \E o \in Siblings(d) : pc[o] \notin {"new", "gone"}
                          THEN overlapping \cup {d} ELSE overlapping
    BY <1>1 DEF NodeConnects, Goto, Registered
  <2>2. CASE d = c
    <3>1. pc'[c] = "hello" /\ \A o \in Siblings(c) : pc'[o] = pc[o]
      BY <1>0, <2>1, <2>2 DEF Siblings
    <3>2. Alone(c)'
      BY <2>1, <2>2, <3>1 DEF Alone, Siblings
    <3>3. EntriesStand(c)'
      BY <3>1 DEF EntriesStand
    <3> QED
      BY <3>2, <3>3
  <2>3. CASE d # c /\ d \in Siblings(c)
    <3>1. ~up'[c]
      BY <1>0, <2>1, <2>3 DEF Siblings
    <3> QED
      BY <3>1 DEF Alone, EntriesStand
  <2>4. CASE d # c /\ d \notin Siblings(c)
    <3>1. /\ pc'[c] = pc[c] /\ up'[c] = up[c] /\ overlapping \subseteq overlapping'
          /\ \A o \in Siblings(c) : pc'[o] = pc[o]
      BY <1>0, <2>1, <2>4 DEF Siblings
    <3> QED
      BY <1>a, <2>1, <3>1, ExclusiveKept
  <2> QED
    BY <2>2, <2>3, <2>4
<1>2. ASSUME NEW d \in Conns,
             \/ NodeDrops(d) \/ RejectRegistration(d)
             \/ RefuseNode(d) \/ FinishSetup(d) \/ SendAck(d) \/ AckFails(d)
             \/ Forward(d) \/ SendTaskEnds(d) \/ RecvTaskEnds(d)
      PROVE  Alone(c)' /\ EntriesStand(c)'
  <2>1. UNCHANGED <<senders, overlapping>> /\ Registered' = Registered
    BY <1>2 DEF NodeDrops, RejectRegistration, RefuseNode, Registered,
        FinishSetup, SendAck, AckFails, Forward, SendTaskEnds, RecvTaskEnds
  <2>2. \A o \in Conns :
           \/ pc'[o] = pc[o]
           \/ pc[o] = "open" /\ pc'[o] = "closing"
           \/ <<pc[o], pc'[o]>> \in {<<"hello", "gone">>, <<"routed", "refused">>,
                                    <<"setup", "ack">>, <<"ack", "open">>,
                                    <<"ack", "closing">>}
    BY <1>0, <1>2 DEF NodeDrops, RejectRegistration, RefuseNode,
        FinishSetup, SendAck, AckFails, Forward, SendTaskEnds, RecvTaskEnds,
        TaskEnds, Goto
  <2>3. \A o \in Siblings(c) : pc[o] \in {"new", "gone"} => pc'[o] = pc[o]
    BY <2>2 DEF Siblings
  <2>4. up'[c] => up[c]
    BY <1>0, <1>2 DEF NodeDrops, RejectRegistration, RefuseNode,
        FinishSetup, SendAck, AckFails, Forward, SendTaskEnds, RecvTaskEnds
  <2> QED
    BY <1>a, <2>1, <2>2, <2>3, <2>4, ExclusiveKept
<1>3. ASSUME NEW d \in Conns, RegisterSender(d) PROVE Alone(c)' /\ EntriesStand(c)'
  <2>1. /\ pc[d] = "hello" /\ pc' = [pc EXCEPT ![d] = "routed"]
        /\ senders' = [senders EXCEPT ![NodeOf[d]] = d]
        /\ Registered' = Registered /\ UNCHANGED <<up, overlapping>>
    BY <1>3 DEF RegisterSender, Goto, Registered
  <2>2. CASE d = c
    BY <1>0, <1>a, <2>1, <2>2 DEF Alone, EntriesStand, Siblings
  <2>3. CASE d # c /\ d \in Siblings(c)
    BY <1>b, <2>1, <2>3 DEF Alone, EntriesStand
  <2>4. CASE d # c /\ d \notin Siblings(c)
    BY <1>0, <1>a, <1>c, <2>1, <2>4 DEF Alone, EntriesStand, Siblings
  <2> QED
    BY <2>2, <2>3, <2>4
<1>4. ASSUME NEW d \in Conns, RegisterNode(d) PROVE Alone(c)' /\ EntriesStand(c)'
  <2>1. /\ pc[d] = "routed" /\ pc' = [pc EXCEPT ![d] = "setup"]
        /\ senders' = senders /\ Registered' = Registered \cup {NodeOf[d]}
        /\ UNCHANGED <<up, overlapping>>
    BY <1>0, <1>4 DEF RegisterNode, Goto, Registered
  <2>2. CASE d = c
    BY <1>0, <1>a, <2>1, <2>2 DEF Alone, EntriesStand, Siblings
  <2>3. CASE d # c
    BY <1>0, <1>a, <2>1, <2>3 DEF Alone, EntriesStand, Siblings
  <2> QED
    BY <2>2, <2>3
<1>5. ASSUME NEW d \in Conns, LeaveRefused(d) \/ CleanSender(d)
      PROVE  Alone(c)' /\ EntriesStand(c)'
  <2>1. /\ pc[d] \in {"refused", "closing"}
        /\ pc' = [pc EXCEPT ![d] = IF pc[d] = "refused" THEN "gone" ELSE "unrouted"]
        /\ senders' = [senders EXCEPT ![NodeOf[d]] = NoConn]
        /\ Registered' = Registered /\ UNCHANGED <<up, overlapping>>
    BY <1>5 DEF LeaveRefused, CleanSender, HandlerReturns, UnregisterSender,
                Goto, Registered
  <2>2. CASE d = c
    BY <1>0, <1>a, <2>1, <2>2 DEF Alone, EntriesStand, Siblings
  <2>3. CASE d # c /\ d \in Siblings(c)
    BY <1>b, <2>1, <2>3 DEF Alone, EntriesStand
  <2>4. CASE d # c /\ d \notin Siblings(c)
    BY <1>0, <1>a, <1>c, <2>1, <2>4 DEF Alone, EntriesStand, Siblings
  <2> QED
    BY <2>2, <2>3, <2>4
<1>6. ASSUME NEW d \in Conns, CleanNode(d) PROVE Alone(c)' /\ EntriesStand(c)'
  <2>1. /\ pc[d] = "unrouted" /\ pc' = [pc EXCEPT ![d] = "gone"]
        /\ senders' = senders /\ Registered' = Registered \ {NodeOf[d]}
        /\ UNCHANGED <<up, overlapping>>
    BY <1>0, <1>6 DEF CleanNode, HandlerReturns, UnregisterNode, Goto, Registered
  <2>2. CASE d = c
    BY <1>0, <1>a, <2>1, <2>2 DEF Alone, EntriesStand, Siblings
  <2>3. CASE d # c /\ d \in Siblings(c)
    BY <1>b, <2>1, <2>3 DEF Alone, EntriesStand
  <2>4. CASE d # c /\ d \notin Siblings(c)
    BY <1>0, <1>a, <1>c, <2>1, <2>4 DEF Alone, EntriesStand, Siblings
  <2> QED
    BY <2>2, <2>3, <2>4
<1>7. ASSUME \/ \E d \in Conns, s \in {"Online", "Unavailable"} : Heartbeat(d, s)
             \/ \E n \in Nodes : NodeTimesOut(n)
             \/ \E d \in Conns : ResultRead(d)
             \/ SubmitTask \/ (\E x \in Dispatchers : DispatchStep(x)) \/ UNCHANGED vars
      PROVE  Alone(c)' /\ EntriesStand(c)'
  <2>1. Registered \subseteq Registered'
    BY <1>0, <1>7 DEF Heartbeat, NodeTimesOut, ResultRead, SubmitTask, DispatchStep,
        PickTask, EndDispatch, TryNext, SendEnds, SendFails, Requeue, vars, Registered
  <2>2. UNCHANGED <<pc, senders, up, overlapping>>
    BY <1>7 DEF Heartbeat, NodeTimesOut, ResultRead, SubmitTask, DispatchStep,
        PickTask, EndDispatch, TryNext, SendEnds, SendFails, Requeue, vars
  <2> QED
    BY <1>a, <2>1, <2>2, ExclusiveKept
<1> QED
  BY <1>1, <1>2, <1>3, <1>4, <1>5, <1>6, <1>7
     DEF Next, HandlerStep, SendTaskStep

\* A session that was opened when the Hub was done with the node's previous
\* connections is in the routing table and in the registry for as long as it is
\* open: cleanups by node id only hurt overlapping connections.
THEOREM ReconnectedRoutable == Spec => []RoutableUnlessOverlapped
<1>1. Init => Exclusive
  BY DEF Init, Exclusive, Alone, EntriesStand, Siblings
<1>2. Typed /\ Exclusive /\ [Next]_vars => Exclusive'
  BY NextExclusive
<1>3. Exclusive => RoutableUnlessOverlapped
  BY DEF Exclusive, EntriesStand, RoutableUnlessOverlapped
<1> QED
  BY <1>1, <1>2, <1>3, InitTyped, NextTyped, PTL DEF Spec

=============================================================================
