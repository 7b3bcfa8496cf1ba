------------------------- MODULE NodeRuntimeProofs --------------------------
(***************************************************************************)
(* Proofs about NodeRuntime, for any number of tasks, any permission       *)
(* rules, any channel capacities and any number of reconnections.          *)
(***************************************************************************)
EXTENDS NodeRuntime, QueueTheorems

USE DEF linkVars, handlerVars

-----------------------------------------------------------------------------
(* The inductive invariant.                                                *)

\* The connection loop carries a message exactly while it forwards it, and
\* gives up at the first error past the limit; the handler has a task while it
\* checks or executes it, and a message while it sends one.
LoopShape ==
    /\ link = "forward" <=> fwd # NoMsg
    /\ link # "stopped" => attempts <= MaxAttempts
    /\ hpc \in {"check", "execute"} => task \in Tasks
    /\ hpc = "report" => report \in NodeToHub

\* Where a Hub message may be between the Hub and the handler.
InTransit(m) == m \in Range(wire) \/ m = fwd \/ m \in Range(inbound)

\* The Hub sent what is in transit, and nothing is there twice.
CarriedOnce ==
    /\ IsInjective(wire) /\ IsInjective(inbound)
    /\ Range(wire) \cap Range(inbound) = {}
    /\ fwd \notin Range(wire) \cup Range(inbound)
    /\ \A m \in HubToNode : InTransit(m) => m \in asked

\* The assignment of t has yet to reach the handler, or never will.
Unassigned(t) ==
    Msg("Assign", t) \notin asked \/ InTransit(Msg("Assign", t))

Treated(t) == hpc \in {"check", "execute"} /\ task = t

\* What the handler knows of a task on its way from assignment to answer.
TaskLife ==
    \A t \in Tasks :
        /\ Unassigned(t) \/ Treated(t) \/ t \in approvals =>
               answers[t] = 0 /\ executed[t] = 0
        /\ Unassigned(t) => ~Treated(t) /\ t \notin approvals /\ t \notin running
        /\ Treated(t) => t \notin approvals
        /\ t \in approvals => ruling[t] = "RequiresApproval"
        /\ Treated(t) /\ hpc = "execute" =>
               \/ ruling[t] = "Allowed"
               \/ ruling[t] = "RequiresApproval" /\ Msg("Approve", t) \in asked
        /\ t \in running => answers[t] = 0
        /\ ruling[t] # "none" /\ answers[t] = 0 =>
               Treated(t) \/ t \in approvals \/ (t \in expired /\ Decided(t))

Typed == TypeOK /\ LoopShape

Inv ==
    /\ Typed
    /\ CarriedOnce
    /\ TaskLife
    /\ ExecutedIsPermitted
    /\ AnsweredAtMostOnce

-----------------------------------------------------------------------------
(* Type correctness.                                                       *)

\* A channel that has room takes one message more.
LEMMA RoomForOne ==
    ASSUME NEW S, NEW q \in Seq(S), NEW x \in S, NEW cap \in Nat, Len(q) < cap
    PROVE  Append(q, x) \in Seq(S) /\ Len(Append(q, x)) <= cap
  OBVIOUS

\* A channel gives one message.
LEMMA OneLess ==
    ASSUME NEW S, NEW q \in Seq(S), NEW cap \in Nat, Len(q) <= cap, q # <<>>
    PROVE  Head(q) \in S /\ Tail(q) \in Seq(S) /\ Len(Tail(q)) <= cap
  OBVIOUS

\* An empty channel is a channel.
LEMMA EmptyQueue ==
    ASSUME NEW S
    PROVE  <<>> \in Seq(S) /\ Len(<<>>) = 0
  OBVIOUS

\* Node::new: empty channels, no task, no approval.
LEMMA InitTyped == Init => Typed
<1> USE NodeAssumption, NoMsgAssumption
<1> SUFFICES ASSUME Init PROVE Typed
  OBVIOUS
<1>1. /\ wire \in Seq(HubToNode) /\ inbound \in Seq(HubToNode)
      /\ outbound \in Seq(NodeToHub)
      /\ Len(inbound) <= InCap /\ Len(outbound) <= OutCap
  BY EmptyQueue DEF Init
<1>b. alive \in BOOLEAN /\ sock \in BOOLEAN /\ confirmed \in BOOLEAN
  BY DEF Init
<1>n. attempts = 0 /\ notices = 0
  BY DEF Init
<1>2. /\ answers \in [Tasks -> Nat] /\ executed \in [Tasks -> Nat]
      /\ ruling \in [Tasks -> Permissions \cup {"none"}]
  BY DEF Init
<1>3. /\ link \in {"connect", "sleep", "select", "forward", "stopped"}
      /\ fwd \in HubToNode \cup {NoMsg}
      /\ hpc \in {"recv", "check", "execute", "report", "stopped"}
      /\ task \in Tasks \cup {NoTask}
      /\ report \in NodeToHub \cup {NoMsg}
      /\ running \subseteq Tasks /\ approvals \subseteq Tasks
      /\ expired \subseteq Tasks
      /\ asked \subseteq HubToNode /\ heard \subseteq NodeToHub
  BY DEF Init
<1>4. TypeOK
  BY <1>1, <1>b, <1>n, <1>2, <1>3 DEF TypeOK
<1>5. LoopShape
  BY DEF Init, LoopShape
<1> QED
  BY <1>4, <1>5 DEF Typed

\* The messages of the handler are messages of the protocol.
LEMMA ReportTyped ==
    ASSUME NEW t \in Tasks, NEW type \in {"Result", "ApprovalRequest"}
    PROVE  Msg(type, t) \in NodeToHub
  BY DEF Msg, NodeToHub

\* The Hub, the network and the connection loop keep the types.
LEMMA LinkTyped ==
    ASSUME Typed,
           \/ \E m \in HubToNode : HubSends(m)
           \/ SocketDies \/ LinkStep \/ SendOutbound \/ Stop \/ Notify
           \/ \E t \in Tasks : ApprovalExpires(t)
    PROVE  Typed'
<1> USE NodeAssumption, NoMsgAssumption
<1> USE DEF Typed, TypeOK, LoopShape
<1>1. ASSUME NEW m \in HubToNode, HubSends(m) PROVE Typed'
  BY <1>1 DEF HubSends
<1>2. CASE SocketDies
  <2>1. wire' \in Seq(HubToNode)
    BY <1>2, EmptyQueue DEF SocketDies
  <2> QED
    BY <1>2, <2>1 DEF SocketDies
<1>3. CASE Connect
  BY <1>3 DEF Connect
<1>4. CASE ConnectFails
  <2>1. attempts' \in 0..(MaxAttempts + 1)
        /\ (link' # "stopped" => attempts' <= MaxAttempts)
    BY <1>4 DEF ConnectFails, EndWithError
  <2> QED
    BY <1>4, <2>1 DEF ConnectFails, EndWithError
<1>5. CASE Retry
  BY <1>5 DEF Retry
<1>6. CASE ReadSocket
  <2>1. Head(wire) \in HubToNode /\ Tail(wire) \in Seq(HubToNode)
    BY <1>6 DEF ReadSocket
  <2> QED
    BY <1>6, <2>1 DEF ReadSocket
<1>7. CASE ForwardMessage
  <2>1. inbound' \in Seq(HubToNode) /\ Len(inbound') <= InCap
    BY <1>7, RoomForOne DEF ForwardMessage
  <2> QED
    BY <1>7, <2>1 DEF ForwardMessage
<1>8. CASE ForwardFails
  <2>1. wire' \in Seq(HubToNode)
    BY <1>8, EmptyQueue DEF ForwardFails
  <2>2. /\ sock' \in BOOLEAN /\ link' = "connect" /\ fwd' = NoMsg /\ attempts' = 0
        /\ UNCHANGED <<alive, confirmed, inbound, outbound, handlerVars, expired,
                       notices, asked, heard>>
    BY <1>8 DEF ForwardFails, EndNormally
  <2> QED
    BY <2>1, <2>2
<1>9. CASE StreamEnds
  <2>1. attempts' \in 0..(MaxAttempts + 1)
        /\ (link' # "stopped" => attempts' <= MaxAttempts)
    BY <1>9 DEF StreamEnds, EndNormally, EndWithError
  <2> QED
    BY <1>9, <2>1 DEF StreamEnds, EndNormally, EndWithError
<1>10. CASE SocketError
  BY <1>10 DEF SocketError, EndNormally
<1>11. CASE SendOutboundFails
  <2>1. outbound' \in Seq(NodeToHub) /\ Len(outbound') <= OutCap
    BY <1>11, OneLess DEF SendOutboundFails
  <2> QED
    BY <1>11, <2>1 DEF SendOutboundFails, EndNormally
<1>12. CASE LinkStops
  <2>1. wire' \in Seq(HubToNode)
    BY <1>12, EmptyQueue DEF LinkStops
  <2> QED
    BY <1>12, <2>1 DEF LinkStops
<1>13. CASE SendOutbound
  <2>1. /\ outbound' \in Seq(NodeToHub) /\ Len(outbound') <= OutCap
        /\ Head(outbound) \in NodeToHub
    BY <1>13, OneLess DEF SendOutbound
  <2> QED
    BY <1>13, <2>1 DEF SendOutbound
<1>14. CASE Stop
  BY <1>14 DEF Stop
<1>15. CASE Notify
  <2>1. Msg("Notice", NoTask) \in NodeToHub
    BY DEF Msg, NodeToHub
  <2>2. outbound' \in Seq(NodeToHub) /\ Len(outbound') <= OutCap
    BY <1>15, <2>1, RoomForOne DEF Notify
  <2> QED
    BY <1>15, <2>2 DEF Notify
<1>16. ASSUME NEW t \in Tasks, ApprovalExpires(t) PROVE Typed'
  BY <1>16 DEF ApprovalExpires
<1> QED
  BY <1>1, <1>2, <1>3, <1>4, <1>5, <1>6, <1>7, <1>8, <1>9, <1>10, <1>11, <1>12,
     <1>13, <1>14, <1>15, <1>16 DEF LinkStep

\* The message handler keeps the types.
LEMMA HandlerTyped ==
    ASSUME Typed, HandlerStep
    PROVE  Typed'
<1> USE NodeAssumption, NoMsgAssumption
<1>r. ASSUME NEW m, Receive(m)
      PROVE  inbound' \in Seq(HubToNode) /\ Len(inbound') <= InCap
  BY <1>r, OneLess DEF Receive, Typed, TypeOK
<1> USE DEF Typed, TypeOK, LoopShape
<1>1. ASSUME NEW t \in Tasks, TaskAssignment(t) PROVE Typed'
  <2>1. inbound' \in Seq(HubToNode) /\ Len(inbound') <= InCap
    BY <1>1, <1>r DEF TaskAssignment
  <2> QED
    BY <1>1, <2>1 DEF TaskAssignment, Receive
<1>2. ASSUME NEW t \in Tasks, TaskCancellation(t) PROVE Typed'
  <2>1. inbound' \in Seq(HubToNode) /\ Len(inbound') <= InCap
    BY <1>2, <1>r DEF TaskCancellation
  <2> QED
    BY <1>2, <2>1 DEF TaskCancellation, Receive
<1>3. ASSUME NEW t \in Tasks, ApprovalGranted(t) PROVE Typed'
  <2>1. inbound' \in Seq(HubToNode) /\ Len(inbound') <= InCap
    BY <1>3, <1>r DEF ApprovalGranted
  <2> QED
    BY <1>3, <2>1 DEF ApprovalGranted, Receive
<1>4. ASSUME NEW t \in Tasks, ApprovalRejected(t) PROVE Typed'
  <2>1. inbound' \in Seq(HubToNode) /\ Len(inbound') <= InCap
    BY <1>4, <1>r DEF ApprovalRejected
  <2>2. report' \in NodeToHub /\ answers' \in [Tasks -> Nat]
    BY <1>4, ReportTyped DEF ApprovalRejected, Reporting
  <2> QED
    BY <1>4, <2>1, <2>2 DEF ApprovalRejected, Receive, Reporting
<1>5. ASSUME NEW m \in HubToNode, ApprovalResponseFails(m) PROVE Typed'
  <2>1. inbound' \in Seq(HubToNode) /\ Len(inbound') <= InCap
    BY <1>5, <1>r DEF ApprovalResponseFails
  <2> QED
    BY <1>5, <2>1 DEF ApprovalResponseFails, Receive
<1>6. CASE CheckAllowed
  BY <1>6 DEF CheckAllowed, Ruled, Permissions
<1>7. CASE CheckDenied
  BY <1>7, ReportTyped DEF CheckDenied, Ruled, Reporting, Permissions
<1>8. CASE CheckRequiresApproval
  BY <1>8, ReportTyped DEF CheckRequiresApproval, Ruled, Reporting, Permissions
<1>9. CASE Execute
  BY <1>9, ReportTyped DEF Execute, Reporting
<1>10. CASE SendReport
  <2>1. outbound' \in Seq(NodeToHub) /\ Len(outbound') <= OutCap
    BY <1>10, RoomForOne DEF SendReport, Reported
  <2> QED
    BY <1>10, <2>1 DEF SendReport, Reported
<1>11. CASE SendReportFails
  BY <1>11 DEF SendReportFails, Reported
<1>12. CASE HandlerStops
  <2>1. inbound' \in Seq(HubToNode) /\ Len(inbound') <= InCap
    BY <1>12, EmptyQueue DEF HandlerStops
  <2> QED
    BY <1>12, <2>1 DEF HandlerStops
<1> QED
  BY <1>1, <1>2, <1>3, <1>4, <1>5, <1>6, <1>7, <1>8, <1>9, <1>10, <1>11, <1>12
     DEF HandlerStep

\* Every step keeps the types.
LEMMA NextTyped == Typed /\ [Next]_vars => Typed'
<1>1. ASSUME Typed, UNCHANGED vars PROVE Typed'
  BY <1>1 DEF vars, Typed, TypeOK, LoopShape
<1> QED
  BY <1>1, LinkTyped, HandlerTyped DEF Next

\* The type invariant: the channels stay within their capacities and the
\* reconnections within their limit, on every path.
THEOREM TypeCorrect == Spec => []TypeOK
<1>1. Typed => TypeOK
  BY DEF Typed
<1> QED
  BY <1>1, InitTyped, NextTyped, PTL DEF Spec

-----------------------------------------------------------------------------
(* The way of a Hub message to the handler: the socket, the hands of the   *)
(* connection loop, the inbound channel.                                   *)

\* An assignment that reached the handler does not come back.
AssignedForGood == \A t \in Tasks : Unassigned(t)' => Unassigned(t)

\* The Hub's messages, and what the channels hold of them.
LEMMA TransitTyped ==
    ASSUME TypeOK
    PROVE  /\ NoMsg \notin HubToNode
           /\ Range(wire) \subseteq HubToNode /\ Range(inbound) \subseteq HubToNode
           /\ \A t \in Tasks : Msg("Assign", t) \in HubToNode
           /\ \A t \in Tasks : Msg("Approve", t) \in HubToNode
<1>1. wire \in Seq(HubToNode) /\ inbound \in Seq(HubToNode)
  BY DEF TypeOK
<1>2. Range(wire) \subseteq HubToNode /\ Range(inbound) \subseteq HubToNode
  BY <1>1 DEF Range
<1> QED
  BY <1>2, NoMsgAssumption DEF Msg, HubToNode

\* An empty channel holds no message.
LEMMA EmptyRange == Range(<<>>) = {} /\ IsInjective(<<>>)
  BY DEF Range, IsInjective

\* Losing messages, or treating them, duplicates none.
LEMMA CarriedLess ==
    ASSUME Typed, CarriedOnce, asked' = asked,
           IsInjective(wire'), IsInjective(inbound'),
           Range(wire') \subseteq Range(wire), Range(inbound') \subseteq Range(inbound),
           fwd' \in {fwd, NoMsg}
    PROVE  CarriedOnce' /\ AssignedForGood
<1>1. /\ NoMsg \notin HubToNode
      /\ Range(wire) \subseteq HubToNode /\ Range(inbound) \subseteq HubToNode
      /\ \A t \in Tasks : Msg("Assign", t) \in HubToNode
  BY TransitTyped DEF Typed
<1>2. \A m \in HubToNode : InTransit(m)' => InTransit(m)
  BY <1>1 DEF InTransit
<1>3. fwd' \notin Range(wire') \cup Range(inbound')
  BY <1>1 DEF CarriedOnce
<1>4. CarriedOnce'
  BY <1>2, <1>3 DEF CarriedOnce
<1>5. AssignedForGood
  BY <1>1, <1>2 DEF AssignedForGood, Unassigned
<1> QED
  BY <1>4, <1>5

\* A new message of the Hub.
LEMMA HubSendsCarried ==
    ASSUME Typed, CarriedOnce, NEW m \in HubToNode, HubSends(m)
    PROVE  CarriedOnce' /\ AssignedForGood
<1>1. /\ NoMsg \notin HubToNode
      /\ \A t \in Tasks : Msg("Assign", t) \in HubToNode
  BY TransitTyped DEF Typed
<1>2. /\ m \notin asked /\ asked' = asked \cup {m} /\ wire' = Append(wire, m)
      /\ UNCHANGED <<fwd, inbound>>
  BY DEF HubSends
<1>3. ~InTransit(m)
  BY <1>2 DEF CarriedOnce
<1>4. Range(wire') = Range(wire) \cup {m} /\ IsInjective(wire')
  BY <1>2, <1>3, PushBack DEF CarriedOnce, InTransit, Typed, TypeOK
<1>5. \A k : InTransit(k)' <=> InTransit(k) \/ k = m
  BY <1>2, <1>4 DEF InTransit
<1>6. CarriedOnce'
  BY <1>2, <1>3, <1>4, <1>5 DEF CarriedOnce, InTransit
<1>7. AssignedForGood
  BY <1>1, <1>2, <1>5 DEF AssignedForGood, Unassigned
<1> QED
  BY <1>6, <1>7

\* The connection loop takes the next message off the socket.
LEMMA ReadSocketCarried ==
    ASSUME Typed, CarriedOnce, ReadSocket
    PROVE  CarriedOnce' /\ AssignedForGood
<1>1. /\ NoMsg \notin HubToNode
      /\ Range(wire) \subseteq HubToNode /\ Range(inbound) \subseteq HubToNode
      /\ \A t \in Tasks : Msg("Assign", t) \in HubToNode
  BY TransitTyped DEF Typed
<1>2. /\ wire # <<>> /\ fwd' = Head(wire) /\ wire' = Tail(wire) /\ fwd = NoMsg
      /\ UNCHANGED <<inbound, asked>>
  BY DEF ReadSocket, Typed, LoopShape
<1>3. /\ fwd' \in Range(wire) /\ Range(wire') = Range(wire) \ {fwd'}
      /\ IsInjective(wire')
  BY <1>2, PopFront DEF CarriedOnce, Typed, TypeOK
<1>4. \A k \in HubToNode : InTransit(k)' <=> InTransit(k)
  BY <1>1, <1>2, <1>3 DEF InTransit
<1>5. CarriedOnce'
  BY <1>2, <1>3, <1>4 DEF CarriedOnce
<1>6. AssignedForGood
  BY <1>1, <1>2, <1>4 DEF AssignedForGood, Unassigned
<1> QED
  BY <1>5, <1>6

\* inbound_tx.send hands it over.
LEMMA ForwardCarried ==
    ASSUME Typed, CarriedOnce, ForwardMessage
    PROVE  CarriedOnce' /\ AssignedForGood
<1>1. /\ NoMsg \notin HubToNode
      /\ Range(wire) \subseteq HubToNode /\ Range(inbound) \subseteq HubToNode
      /\ \A t \in Tasks : Msg("Assign", t) \in HubToNode
  BY TransitTyped DEF Typed
<1>2. /\ fwd \in HubToNode /\ fwd' = NoMsg /\ inbound' = Append(inbound, fwd)
      /\ UNCHANGED <<wire, asked>>
  BY DEF ForwardMessage, Typed, TypeOK, LoopShape
<1>3. Range(inbound') = Range(inbound) \cup {fwd} /\ IsInjective(inbound')
  BY <1>2, PushBack DEF CarriedOnce, Typed, TypeOK
<1>4. \A k \in HubToNode : InTransit(k)' <=> InTransit(k)
  BY <1>1, <1>2, <1>3 DEF InTransit
<1>5. CarriedOnce'
  BY <1>1, <1>2, <1>3, <1>4 DEF CarriedOnce
<1>6. AssignedForGood
  BY <1>1, <1>2, <1>4 DEF AssignedForGood, Unassigned
<1> QED
  BY <1>5, <1>6

\* The handler receives the next message: it is in transit before, and not
\* after.
LEMMA ReceiveCarried ==
    ASSUME Typed, CarriedOnce, NEW m \in HubToNode, Receive(m)
    PROVE  /\ CarriedOnce' /\ AssignedForGood
           /\ InTransit(m) /\ m \in asked /\ ~InTransit(m)'
<1>1. /\ inbound # <<>> /\ m = Head(inbound) /\ inbound' = Tail(inbound)
      /\ UNCHANGED <<wire, fwd, asked>>
  BY DEF Receive
<1>2. /\ m \in Range(inbound) /\ Range(inbound') = Range(inbound) \ {m}
      /\ IsInjective(inbound')
  BY <1>1, PopFront DEF CarriedOnce, Typed, TypeOK
<1>3. CarriedOnce' /\ AssignedForGood
  BY <1>1, <1>2, CarriedLess DEF CarriedOnce
<1>4. InTransit(m) /\ m \in asked
  BY <1>2 DEF InTransit, CarriedOnce
<1>5. ~InTransit(m)'
  BY <1>1, <1>2 DEF InTransit, CarriedOnce
<1> QED
  BY <1>3, <1>4, <1>5

\* A step that neither sends, moves nor receives a message of the Hub.
LEMMA CarriedSame ==
    ASSUME Typed, CarriedOnce, UNCHANGED <<wire, fwd, inbound, asked>>
    PROVE  CarriedOnce' /\ AssignedForGood
  BY CarriedLess DEF CarriedOnce

\* The socket dies, the loop or the handler ends: what was there is lost.
LEMMA LostCarried ==
    ASSUME Typed, CarriedOnce,
           SocketDies \/ LinkStops \/ ForwardFails \/ HandlerStops
    PROVE  CarriedOnce' /\ AssignedForGood
<1>1. CASE SocketDies \/ LinkStops \/ ForwardFails
  <2>1. /\ wire' = <<>> /\ UNCHANGED <<inbound, asked>> /\ fwd' \in {fwd, NoMsg}
    BY <1>1 DEF SocketDies, LinkStops, ForwardFails
  <2> QED
    BY <2>1, EmptyRange, CarriedLess DEF CarriedOnce
<1>2. CASE HandlerStops
  <2>1. inbound' = <<>> /\ UNCHANGED <<wire, fwd, asked>>
    BY <1>2 DEF HandlerStops
  <2> QED
    BY <2>1, EmptyRange, CarriedLess DEF CarriedOnce
<1> QED
  BY <1>1, <1>2

-----------------------------------------------------------------------------
(* The life of a task on the node.                                         *)

Life == TaskLife /\ ExecutedIsPermitted /\ AnsweredAtMostOnce

\* Nothing has happened to any task yet.
LEMMA InitLife == Init => CarriedOnce /\ Life
<1> SUFFICES ASSUME Init PROVE CarriedOnce /\ Life
  OBVIOUS
<1>1. CarriedOnce
  BY EmptyRange, NoMsgAssumption DEF Init, CarriedOnce, InTransit
<1>2. TaskLife
  BY DEF Init, TaskLife, Treated
<1>3. ExecutedIsPermitted /\ AnsweredAtMostOnce
  BY DEF Init, ExecutedIsPermitted, AnsweredAtMostOnce
<1> QED
  BY <1>1, <1>2, <1>3 DEF Life

\* A step that does not concern the handler's tasks: more requests may have
\* expired, and the Hub may have sent more.
LEMMA LifeKept ==
    ASSUME Life, AssignedForGood,
           UNCHANGED <<running, approvals, answers, executed, ruling>>,
           \A t \in Tasks : Treated(t)' <=> Treated(t),
           hpc' = "execute" => hpc = "execute",
           expired \subseteq expired', asked \subseteq asked'
    PROVE  Life'
<1>1. TaskLife'
  BY DEF Life, TaskLife, AssignedForGood, Decided
<1>2. ExecutedIsPermitted' /\ AnsweredAtMostOnce'
  BY DEF Life, ExecutedIsPermitted, AnsweredAtMostOnce
<1> QED
  BY <1>1, <1>2 DEF Life

\* TaskAssignment: the task is new to the handler.
LEMMA AssignmentLife ==
    ASSUME Typed, CarriedOnce, Life, NEW t \in Tasks, TaskAssignment(t)
    PROVE  CarriedOnce' /\ Life'
<1>1. /\ Receive(Msg("Assign", t)) /\ hpc = "recv" /\ hpc' = "check" /\ task' = t
      /\ running' = running \cup {t}
      /\ UNCHANGED <<approvals, answers, executed, ruling, expired, asked>>
  BY DEF TaskAssignment, Receive
<1>2. Msg("Assign", t) \in HubToNode
  BY TransitTyped DEF Typed
<1>3. /\ CarriedOnce' /\ AssignedForGood
      /\ InTransit(Msg("Assign", t)) /\ Msg("Assign", t) \in asked
      /\ ~InTransit(Msg("Assign", t))'
  BY <1>1, <1>2, ReceiveCarried
<1>4. Unassigned(t) /\ ~Unassigned(t)'
  BY <1>1, <1>3 DEF Unassigned
<1>5. /\ Treated(t)' /\ \A u \in Tasks \ {t} : ~Treated(u)'
      /\ \A u \in Tasks : ~Treated(u)
  BY <1>1 DEF Treated
<1>6. TaskLife'
  BY <1>1, <1>3, <1>4, <1>5 DEF Life, TaskLife, AssignedForGood, Decided
<1>7. ExecutedIsPermitted' /\ AnsweredAtMostOnce'
  BY <1>1 DEF Life, ExecutedIsPermitted, AnsweredAtMostOnce
<1> QED
  BY <1>3, <1>6, <1>7 DEF Life

\* TaskCancellation only forgets the running entry.
LEMMA CancellationLife ==
    ASSUME Typed, CarriedOnce, Life, NEW t \in Tasks, TaskCancellation(t)
    PROVE  CarriedOnce' /\ Life'
<1>1. /\ Receive(Msg("Cancel", t)) /\ running' = running \ {t}
      /\ UNCHANGED <<hpc, task, approvals, answers, executed, ruling, expired, asked>>
  BY DEF TaskCancellation, Receive
<1>2. Msg("Cancel", t) \in HubToNode
  BY DEF Msg, HubToNode
<1>3. CarriedOnce' /\ AssignedForGood
  BY <1>1, <1>2, ReceiveCarried
<1>4. \A u \in Tasks : Treated(u)' <=> Treated(u)
  BY <1>1 DEF Treated
<1>5. TaskLife'
  BY <1>1, <1>3, <1>4 DEF Life, TaskLife, AssignedForGood, Decided
<1>6. ExecutedIsPermitted' /\ AnsweredAtMostOnce'
  BY <1>1 DEF Life, ExecutedIsPermitted, AnsweredAtMostOnce
<1> QED
  BY <1>3, <1>5, <1>6 DEF Life

\* handle_approval_response fails: the request was unknown, or had expired.
LEMMA ResponseFailsLife ==
    ASSUME Typed, CarriedOnce, Life, NEW m \in HubToNode, ApprovalResponseFails(m)
    PROVE  CarriedOnce' /\ Life'
<1>1. /\ Receive(m) /\ approvals' = approvals \ {m.task}
      /\ m.task \notin approvals \/ m.task \in expired
      /\ UNCHANGED <<hpc, task, running, answers, executed, ruling, expired, asked>>
  BY DEF ApprovalResponseFails, Receive
<1>2. CarriedOnce' /\ AssignedForGood /\ m \in asked
  BY <1>1, ReceiveCarried
<1>d. Decided(m.task)
  BY <1>2 DEF ApprovalResponseFails, Decided, Msg, HubToNode
<1>3. \A u \in Tasks : Treated(u)' <=> Treated(u)
  BY <1>1 DEF Treated
<1>4. TaskLife'
  BY <1>1, <1>2, <1>3, <1>d DEF Life, TaskLife, AssignedForGood, Decided
<1>5. ExecutedIsPermitted' /\ AnsweredAtMostOnce'
  BY <1>1 DEF Life, ExecutedIsPermitted, AnsweredAtMostOnce
<1> QED
  BY <1>2, <1>4, <1>5 DEF Life

\* A granted approval sends the task to its execution.
LEMMA GrantedLife ==
    ASSUME Typed, CarriedOnce, Life, NEW t \in Tasks, ApprovalGranted(t)
    PROVE  CarriedOnce' /\ Life'
<1>1. /\ Receive(Msg("Approve", t)) /\ hpc = "recv" /\ hpc' = "execute" /\ task' = t
      /\ t \in approvals /\ approvals' = approvals \ {t}
      /\ running' = running \cup {t}
      /\ UNCHANGED <<answers, executed, ruling, expired, asked>>
  BY DEF ApprovalGranted, Receive
<1>2. Msg("Approve", t) \in HubToNode
  BY TransitTyped DEF Typed
<1>3. CarriedOnce' /\ AssignedForGood /\ Msg("Approve", t) \in asked
  BY <1>1, <1>2, ReceiveCarried
<1>4. /\ Treated(t)' /\ \A u \in Tasks \ {t} : ~Treated(u)'
      /\ \A u \in Tasks : ~Treated(u)
  BY <1>1 DEF Treated
<1>5. ~Unassigned(t)'
  BY <1>1, <1>3 DEF Life, TaskLife, AssignedForGood, Decided
<1>6. TaskLife'
  BY <1>1, <1>3, <1>4, <1>5 DEF Life, TaskLife, AssignedForGood, Decided
<1>7. ExecutedIsPermitted' /\ AnsweredAtMostOnce'
  BY <1>1 DEF Life, ExecutedIsPermitted, AnsweredAtMostOnce
<1> QED
  BY <1>3, <1>6, <1>7 DEF Life

\* A task that is answered: it had not been answered before, and it is nowhere
\* afterwards.
LEMMA AnswerLife ==
    ASSUME Typed, Life, AssignedForGood, NEW t \in Tasks,
           Treated(t) \/ t \in approvals,
           \A u \in Tasks \ {t} : ~Treated(u),
           hpc' = "report",
           running' = running \ {t}, approvals' = approvals \ {t},
           answers' = [answers EXCEPT ![t] = @ + 1],
           \/ executed' = executed
           \/ hpc = "execute" /\ Treated(t) /\ executed' = [executed EXCEPT ![t] = @ + 1],
           ruling' \in {ruling, [ruling EXCEPT ![t] = "Denied"]},
           ruling' # ruling => executed' = executed,
           UNCHANGED <<expired, asked>>
    PROVE  Life'
<1>1. /\ answers \in [Tasks -> Nat] /\ executed \in [Tasks -> Nat]
      /\ DOMAIN ruling = Tasks
  BY DEF Typed, TypeOK
<1>2. answers[t] = 0 /\ executed[t] = 0 /\ ~Unassigned(t)
  BY DEF Life, TaskLife
<1>p. hpc = "execute" /\ Treated(t) =>
          \/ ruling[t] = "Allowed"
          \/ ruling[t] = "RequiresApproval" /\ Msg("Approve", t) \in asked
  BY DEF Life, TaskLife
<1>3. /\ answers'[t] = 1 /\ executed'[t] <= 1
      /\ executed'[t] > 0 => ruling' = ruling /\ hpc = "execute" /\ Treated(t)
      /\ \A u \in Tasks \ {t} : /\ answers'[u] = answers[u]
                                /\ executed'[u] = executed[u]
                                /\ ruling'[u] = ruling[u]
  BY <1>1, <1>2
<1>4. ~Unassigned(t)' /\ \A u \in Tasks : ~Treated(u)'
  BY <1>2 DEF AssignedForGood, Treated
<1>5. TaskLife'
  <2> SUFFICES ASSUME NEW u \in Tasks \ {t}
               PROVE  /\ Unassigned(u)' \/ u \in approvals' =>
                             answers'[u] = 0 /\ executed'[u] = 0
                      /\ Unassigned(u)' => u \notin approvals' /\ u \notin running'
                      /\ u \in approvals' => ruling'[u] = "RequiresApproval"
                      /\ u \in running' => answers'[u] = 0
                      /\ ruling'[u] # "none" /\ answers'[u] = 0 =>
                             u \in approvals' \/ (u \in expired' /\ Decided(u)')
    BY <1>3, <1>4 DEF TaskLife
  <2> QED
    BY <1>3 DEF Life, TaskLife, AssignedForGood, Decided
<1>6. ExecutedIsPermitted'
  <2>1. executed'[t] > 0 =>
            \/ ruling'[t] = "Allowed"
            \/ ruling'[t] = "RequiresApproval" /\ Msg("Approve", t) \in asked'
    BY <1>p, <1>3
  <2>2. \A u \in Tasks \ {t} : executed'[u] > 0 =>
            \/ ruling'[u] = "Allowed"
            \/ ruling'[u] = "RequiresApproval" /\ Msg("Approve", u) \in asked'
    BY <1>3 DEF Life, ExecutedIsPermitted
  <2> QED
    BY <2>1, <2>2 DEF ExecutedIsPermitted
<1>7. AnsweredAtMostOnce'
  <2>1. executed'[t] <= answers'[t] /\ answers'[t] <= 1
    BY <1>3
  <2>2. \A u \in Tasks \ {t} : executed'[u] <= answers'[u] /\ answers'[u] <= 1
    BY <1>3 DEF Life, AnsweredAtMostOnce
  <2> QED
    BY <2>1, <2>2 DEF AnsweredAtMostOnce
<1> QED
  BY <1>5, <1>6, <1>7 DEF Life

\* permission_manager.check, the execution and a rejected approval.
LEMMA TreatmentLife ==
    ASSUME Typed, CarriedOnce, Life,
           \/ CheckAllowed \/ CheckDenied \/ CheckRequiresApproval \/ Execute
           \/ \E t \in Tasks : ApprovalRejected(t)
    PROVE  CarriedOnce' /\ Life'
<1>1. ASSUME NEW t \in Tasks, ApprovalRejected(t) PROVE CarriedOnce' /\ Life'
  <2>1. /\ Receive(Msg("Reject", t)) /\ hpc = "recv" /\ hpc' = "report"
        /\ t \in approvals /\ approvals' = approvals \ {t}
        /\ running' = running \ {t}
        /\ answers' = [answers EXCEPT ![t] = @ + 1]
        /\ UNCHANGED <<executed, ruling, expired, asked>>
    BY <1>1 DEF ApprovalRejected, Receive, Reporting
  <2>2. Msg("Reject", t) \in HubToNode
    BY DEF Msg, HubToNode
  <2>3. CarriedOnce' /\ AssignedForGood
    BY <2>1, <2>2, ReceiveCarried
  <2>4. \A u \in Tasks : ~Treated(u)
    BY <2>1 DEF Treated
  <2> QED
    BY <2>1, <2>3, <2>4, AnswerLife
<1>2. CASE CheckAllowed
  <2>1. PICK t \in Tasks : t = task
    BY <1>2 DEF CheckAllowed, Typed, LoopShape
  <2>2. /\ hpc = "check" /\ hpc' = "execute" /\ task' = task
        /\ ruling' = [ruling EXCEPT ![t] = "Allowed"]
        /\ UNCHANGED <<wire, fwd, inbound, asked, running, approvals, answers,
                       executed, expired>>
    BY <1>2, <2>1 DEF CheckAllowed, Ruled
  <2>3. CarriedOnce' /\ AssignedForGood
    BY <2>2, CarriedSame
  <2>4. \A u \in Tasks : (Treated(u)' <=> Treated(u)) /\ (Treated(u) <=> u = t)
    BY <2>1, <2>2 DEF Treated
  <2>5. ruling'[t] = "Allowed" /\ \A u \in Tasks \ {t} : ruling'[u] = ruling[u]
    BY <2>2 DEF Typed, TypeOK
  <2>6. TaskLife'
    BY <2>2, <2>3, <2>4, <2>5 DEF Life, TaskLife, AssignedForGood, Decided
  <2>7. ExecutedIsPermitted' /\ AnsweredAtMostOnce'
    BY <2>2, <2>5 DEF Life, ExecutedIsPermitted, AnsweredAtMostOnce
  <2> QED
    BY <2>3, <2>6, <2>7 DEF Life
<1>3. CASE CheckDenied
  <2>1. PICK t \in Tasks : t = task
    BY <1>3 DEF CheckDenied, Typed, LoopShape
  <2>2. /\ hpc = "check" /\ hpc' = "report" /\ running' = running \ {t}
        /\ ruling' = [ruling EXCEPT ![t] = "Denied"]
        /\ answers' = [answers EXCEPT ![t] = @ + 1]
        /\ UNCHANGED <<wire, fwd, inbound, asked, approvals, executed, expired>>
    BY <1>3, <2>1 DEF CheckDenied, Ruled, Reporting
  <2>3. CarriedOnce' /\ AssignedForGood
    BY <2>2, CarriedSame
  <2>4. Treated(t) /\ \A u \in Tasks \ {t} : ~Treated(u)
    BY <2>1, <2>2 DEF Treated
  <2>5. approvals' = approvals \ {t}
    BY <2>2, <2>4 DEF Life, TaskLife
  <2> QED
    BY <2>2, <2>3, <2>4, <2>5, AnswerLife
<1>4. CASE CheckRequiresApproval
  <2>1. PICK t \in Tasks : t = task
    BY <1>4 DEF CheckRequiresApproval, Typed, LoopShape
  <2>2. /\ hpc = "check" /\ hpc' = "report" /\ approvals' = approvals \cup {t}
        /\ ruling' = [ruling EXCEPT ![t] = "RequiresApproval"]
        /\ answers' = [answers EXCEPT ![t] = @]
        /\ UNCHANGED <<wire, fwd, inbound, asked, running, executed, expired>>
    BY <1>4, <2>1 DEF CheckRequiresApproval, Ruled, Reporting
  <2>3. CarriedOnce' /\ AssignedForGood
    BY <2>2, CarriedSame
  <2>4. /\ Treated(t) /\ \A u \in Tasks \ {t} : ~Treated(u)
        /\ \A u \in Tasks : ~Treated(u)'
    BY <2>1, <2>2 DEF Treated
  <2>5. /\ answers' = answers /\ ruling'[t] = "RequiresApproval"
        /\ \A u \in Tasks \ {t} : ruling'[u] = ruling[u]
    BY <2>2 DEF Typed, TypeOK
  <2>6. ~Unassigned(t)'
    BY <2>3, <2>4 DEF Life, TaskLife, AssignedForGood
  <2>7. TaskLife'
    BY <2>2, <2>3, <2>4, <2>5, <2>6 DEF Life, TaskLife, AssignedForGood, Decided
  <2>8. executed[t] = 0
    BY <2>4 DEF Life, TaskLife
  <2>9. ExecutedIsPermitted' /\ AnsweredAtMostOnce'
    BY <2>2, <2>5, <2>8 DEF Life, ExecutedIsPermitted, AnsweredAtMostOnce
  <2> QED
    BY <2>3, <2>7, <2>9 DEF Life
<1>5. CASE Execute
  <2>1. PICK t \in Tasks : t = task
    BY <1>5 DEF Execute, Typed, LoopShape
  <2>2. /\ hpc = "execute" /\ hpc' = "report" /\ running' = running \ {t}
        /\ executed' = [executed EXCEPT ![t] = @ + 1]
        /\ answers' = [answers EXCEPT ![t] = @ + 1]
        /\ UNCHANGED <<wire, fwd, inbound, asked, approvals, ruling, expired>>
    BY <1>5, <2>1 DEF Execute, Reporting
  <2>3. CarriedOnce' /\ AssignedForGood
    BY <2>2, CarriedSame
  <2>4. Treated(t) /\ \A u \in Tasks \ {t} : ~Treated(u)
    BY <2>1, <2>2 DEF Treated
  <2>5. approvals' = approvals \ {t}
    BY <2>2, <2>4 DEF Life, TaskLife
  <2> QED
    BY <2>2, <2>3, <2>4, <2>5, AnswerLife
<1> QED
  BY <1>1, <1>2, <1>3, <1>4, <1>5

\* Every step of the node, the Hub and the network.
LEMMA NextLife ==
    Typed /\ CarriedOnce /\ Life /\ [Next]_vars => CarriedOnce' /\ Life'
<1> SUFFICES ASSUME Typed, CarriedOnce, Life, [Next]_vars
             PROVE  CarriedOnce' /\ Life'
  OBVIOUS
<1>a. ASSUME CarriedOnce', AssignedForGood,
             UNCHANGED <<running, approvals, answers, executed, ruling, hpc, task>>,
             expired \subseteq expired', asked \subseteq asked'
      PROVE  CarriedOnce' /\ Life'
  BY <1>a, LifeKept DEF Treated
<1>1. ASSUME NEW m \in HubToNode, HubSends(m) PROVE CarriedOnce' /\ Life'
  BY <1>1, <1>a, HubSendsCarried DEF HubSends
<1>2. CASE SocketDies \/ LinkStops \/ ForwardFails
  BY <1>2, <1>a, LostCarried DEF SocketDies, LinkStops, ForwardFails
<1>3. CASE ReadSocket
  BY <1>3, <1>a, ReadSocketCarried DEF ReadSocket
<1>4. CASE ForwardMessage
  BY <1>4, <1>a, ForwardCarried DEF ForwardMessage
<1>5. ASSUME \/ Connect \/ ConnectFails \/ Retry \/ StreamEnds \/ SocketError
             \/ SendOutboundFails \/ SendOutbound \/ Stop \/ Notify
             \/ (\E t \in Tasks : ApprovalExpires(t)) \/ UNCHANGED vars
      PROVE  CarriedOnce' /\ Life'
  <2>1. /\ UNCHANGED <<wire, fwd, inbound, asked>>
        /\ UNCHANGED <<running, approvals, answers, executed, ruling, hpc, task>>
        /\ expired \subseteq expired'
    BY <1>5 DEF Connect, ConnectFails, Retry, StreamEnds, SocketError,
        SendOutboundFails, SendOutbound, Stop, Notify, ApprovalExpires, vars
  <2> QED
    BY <2>1, <1>a, CarriedSame
<1>6. ASSUME NEW t \in Tasks,
             TaskAssignment(t) \/ TaskCancellation(t) \/ ApprovalGranted(t)
      PROVE  CarriedOnce' /\ Life'
  BY <1>6, AssignmentLife, CancellationLife, GrantedLife
<1>7. ASSUME NEW m \in HubToNode, ApprovalResponseFails(m)
      PROVE  CarriedOnce' /\ Life'
  BY <1>7, ResponseFailsLife
<1>8. CASE \/ CheckAllowed \/ CheckDenied \/ CheckRequiresApproval \/ Execute
           \/ \E t \in Tasks : ApprovalRejected(t)
  BY <1>8, TreatmentLife
<1>9. CASE SendReport \/ SendReportFails \/ HandlerStops
  <2>1. /\ UNCHANGED <<running, approvals, answers, executed, ruling, expired, asked>>
        /\ hpc \in {"report", "recv"} /\ hpc' \in {"recv", "stopped"}
    BY <1>9 DEF SendReport, SendReportFails, Reported, HandlerStops
  <2>2. CarriedOnce' /\ AssignedForGood
    <3>1. CASE HandlerStops
      BY <3>1, LostCarried
    <3>2. CASE SendReport \/ SendReportFails
      BY <3>2, CarriedSame DEF SendReport, SendReportFails, Reported
    <3> QED
      BY <1>9, <3>1, <3>2
  <2>3. \A t \in Tasks : Treated(t)' <=> Treated(t)
    BY <2>1 DEF Treated
  <2> QED
    BY <2>1, <2>2, <2>3, LifeKept
<1> QED
  BY <1>1, <1>2, <1>3, <1>4, <1>5, <1>6, <1>7, <1>8, <1>9
     DEF Next, LinkStep, HandlerStep

-----------------------------------------------------------------------------
(* The properties.                                                         *)

\* The inductive invariant of the node.
THEOREM Invariance == Spec => []Inv
<1>1. Init => Inv
  BY InitTyped, InitLife DEF Inv, Life
<1>2. Inv /\ [Next]_vars => Inv'
  BY NextTyped, NextLife DEF Inv, Life
<1> QED
  BY <1>1, <1>2, PTL DEF Spec

\* A command is executed only if the rules allowed it, or required an approval
\* the Hub gave.
THEOREM OnlyPermitted == Spec => []ExecutedIsPermitted
<1>1. Inv => ExecutedIsPermitted
  BY DEF Inv
<1> QED
  BY <1>1, Invariance, PTL

\* A task is executed at most once and answered at most once.
THEOREM OneAnswer == Spec => []AnsweredAtMostOnce
<1>1. Inv => AnsweredAtMostOnce
  BY DEF Inv
<1> QED
  BY <1>1, Invariance, PTL

\* Every task the handler has started is answered, in its hands, waiting for an
\* approval, or was decided after its request had expired.
THEOREM OnlyApprovalsWait == Spec => []UnansweredWaits
<1>1. Inv => UnansweredWaits
  BY DEF Inv, Typed, TypeOK, TaskLife, UnansweredWaits, Treated
<1> QED
  BY <1>1, Invariance, PTL

=============================================================================
