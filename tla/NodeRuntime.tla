---------------------------- MODULE NodeRuntime ----------------------------
(***************************************************************************)
(* The node (crates/uhorse-node-runtime): the connection loop of           *)
(* connection.rs, the message handler of node.rs and the pending approvals *)
(* of permission.rs.                                                       *)
(*                                                                         *)
(* The connection loop and the message handler are two tasks joined by two *)
(* bounded channels.  The handler treats one Hub message at a time and     *)
(* executes a command inside that treatment.  The Hub is the environment:  *)
(* it assigns a task once, may cancel it, and decides an approval request  *)
(* it received once.                                                       *)
(***************************************************************************)
EXTENDS Naturals, Sequences

CONSTANTS
    Tasks,         \* task identifiers
    Verdicts,      \* Verdicts[t]: what PermissionManager.check may say of t
    InCap,         \* capacity of the inbound channel (100 in the code)
    OutCap,        \* capacity of the outbound channel (100 in the code)
    MaxAttempts,   \* max_reconnect_attempts
    MaxNotices,    \* bound: notification events in a behaviour
    NoTask, NoMsg

Permissions == {"Allowed", "Denied", "RequiresApproval"}

ASSUME NodeAssumption ==
    /\ Verdicts \in [Tasks -> (SUBSET Permissions) \ {{}}]
    /\ InCap \in Nat \ {0} /\ OutCap \in Nat \ {0}
    /\ MaxAttempts \in Nat /\ MaxNotices \in Nat
    /\ NoTask \notin Tasks

HubToNode == [type : {"Assign", "Cancel", "Approve", "Reject"}, task : Tasks]
NodeToHub == [type : {"Result", "ApprovalRequest"}, task : Tasks]
             \cup [type : {"Notice"}, task : {NoTask}]
Msg(type, t) == [type |-> type, task |-> t]

ASSUME NoMsgAssumption == NoMsg \notin HubToNode \cup NodeToHub

VARIABLES
    alive,      \* Node.running
    link,       \* where the connection loop is
    sock,       \* the WebSocket is alive
    confirmed,  \* hub_registration_confirmed
    attempts,   \* reconnect_attempts
    wire,       \* Hub messages on the socket
    fwd,        \* the message the loop is forwarding
    inbound, outbound,
    hpc,        \* where the handler is
    task,       \* the task it treats
    report,     \* the message it is sending
    running,    \* running_tasks
    approvals,  \* pending_approvals, by task
    expired,    \* those past expires_at
    notices,    \* notification events so far
    asked,      \* history: Hub messages sent
    heard,      \* history: node messages the Hub received
    answers,    \* history: answers[t], results the handler made for t
    executed,   \* history: executed[t], executions of t's command
    ruling      \* history: ruling[t], what check said of t

linkVars == <<link, sock, confirmed, attempts, wire, fwd>>
handlerVars == <<hpc, task, report, running, approvals, answers, executed,
                 ruling>>
vars == <<alive, linkVars, inbound, outbound, handlerVars, expired, notices,
          asked, heard>>

TypeOK ==
    /\ alive \in BOOLEAN /\ sock \in BOOLEAN /\ confirmed \in BOOLEAN
    /\ link \in {"connect", "sleep", "select", "forward", "stopped"}
    /\ attempts \in 0..(MaxAttempts + 1)
    /\ wire \in Seq(HubToNode)
    /\ fwd \in HubToNode \cup {NoMsg}
    /\ inbound \in Seq(HubToNode) /\ Len(inbound) <= InCap
    /\ outbound \in Seq(NodeToHub) /\ Len(outbound) <= OutCap
    /\ hpc \in {"recv", "check", "execute", "report", "stopped"}
    /\ task \in Tasks \cup {NoTask}
    /\ report \in NodeToHub \cup {NoMsg}
    /\ running \subseteq Tasks /\ approvals \subseteq Tasks
    /\ expired \subseteq Tasks
    /\ notices \in 0..MaxNotices
    /\ asked \subseteq HubToNode
    /\ heard \subseteq NodeToHub
    /\ answers \in [Tasks -> Nat] /\ executed \in [Tasks -> Nat]
    /\ ruling \in [Tasks -> Permissions \cup {"none"}]

Init ==
    /\ alive = TRUE
    /\ link = "connect" /\ sock = FALSE /\ confirmed = FALSE
    /\ attempts = 0
    /\ wire = <<>> /\ fwd = NoMsg
    /\ inbound = <<>> /\ outbound = <<>>
    /\ hpc = "recv" /\ task = NoTask /\ report = NoMsg
    /\ running = {} /\ approvals = {} /\ expired = {}
    /\ notices = 0
    /\ asked = {} /\ heard = {}
    /\ answers = [t \in Tasks |-> 0]
    /\ executed = [t \in Tasks |-> 0]
    /\ ruling = [t \in Tasks |-> "none"]

-----------------------------------------------------------------------------
(* The Hub and the network.                                                *)

\* The Hub has sent its decision about t.
Decided(t) == asked \cap {Msg("Approve", t), Msg("Reject", t)} # {}

\* What the Hub may send: TaskScheduler assigns a task once; a cancellation
\* follows an assignment, an approval decision follows its request.
HubSends(m) ==
    /\ sock
    /\ m \notin asked
    /\ m.type = "Cancel" => Msg("Assign", m.task) \in asked
    /\ m.type \in {"Approve", "Reject"} =>
           /\ Msg("ApprovalRequest", m.task) \in heard
           /\ ~Decided(m.task)
    /\ asked' = asked \cup {m}
    /\ wire' = Append(wire, m)
    /\ UNCHANGED <<alive, link, sock, confirmed, attempts, fwd, inbound,
                   outbound, handlerVars, expired, notices, heard>>

\* The socket dies; what was on it is lost.
SocketDies ==
    /\ sock
    /\ sock' = FALSE
    /\ wire' = <<>>
    /\ UNCHANGED <<alive, link, confirmed, attempts, fwd, inbound, outbound,
                   handlerVars, expired, notices, asked, heard>>

-----------------------------------------------------------------------------
(* connection_loop and connect_and_run.                                    *)

\* connect_and_run ends with Ok: the loop connects again at once.
EndNormally ==
    /\ link' = "connect"
    /\ attempts' = 0

\* connect_and_run ends with Err: sleep and retry, or give up.
EndWithError ==
    /\ attempts' = attempts + 1
    /\ link' = IF attempts + 1 > MaxAttempts THEN "stopped" ELSE "sleep"

\* Connected, and the registration was written.
Connect ==
    /\ link = "connect" /\ alive
    /\ link' = "select"
    /\ sock' = TRUE
    /\ confirmed' = FALSE
    /\ UNCHANGED <<alive, attempts, wire, fwd, inbound, outbound, handlerVars,
                   expired, notices, asked, heard>>

ConnectFails ==
    /\ link = "connect" /\ alive
    /\ EndWithError
    /\ UNCHANGED <<alive, sock, confirmed, wire, fwd, inbound, outbound,
                   handlerVars, expired, notices, asked, heard>>

\* Slip: the errors are counted from the last sleep only.
RetryForgets ==
    /\ link = "sleep"
    /\ link' = "connect"
    /\ attempts' = 0
    /\ UNCHANGED <<alive, sock, confirmed, wire, fwd, inbound, outbound,
                   handlerVars, expired, notices, asked, heard>>

Retry ==
    /\ link = "sleep"
    /\ link' = "connect"
    /\ UNCHANGED <<alive, sock, confirmed, attempts, wire, fwd, inbound,
                   outbound, handlerVars, expired, notices, asked, heard>>

\* select!, branch ws_receiver.next(): a message.  The first one confirms the
\* registration.  The loop then waits in inbound_tx.send, and in nothing else.
ReadSocket ==
    /\ link = "select" /\ wire # <<>>
    /\ fwd' = Head(wire)
    /\ wire' = Tail(wire)
    /\ confirmed' = TRUE
    /\ link' = "forward"
    /\ UNCHANGED <<alive, sock, attempts, inbound, outbound, handlerVars,
                   expired, notices, asked, heard>>

ForwardMessage ==
    /\ link = "forward"
    /\ hpc # "stopped"
    /\ Len(inbound) < InCap
    /\ inbound' = Append(inbound, fwd)
    /\ fwd' = NoMsg
    /\ link' = "select"
    /\ UNCHANGED <<alive, sock, confirmed, attempts, wire, outbound,
                   handlerVars, expired, notices, asked, heard>>

\* The handler has dropped its end of the channel.
ForwardFails ==
    /\ link = "forward"
    /\ hpc = "stopped"
    /\ fwd' = NoMsg
    /\ sock' = FALSE /\ wire' = <<>>
    /\ EndNormally
    /\ UNCHANGED <<alive, confirmed, inbound, outbound, handlerVars, expired,
                   notices, asked, heard>>

\* The end of the stream: an error before the confirmation only.
StreamEnds ==
    /\ link = "select" /\ ~sock
    /\ IF confirmed THEN EndNormally ELSE EndWithError
    /\ UNCHANGED <<alive, sock, confirmed, wire, fwd, inbound, outbound,
                   handlerVars, expired, notices, asked, heard>>

\* A read error, or a heartbeat or pong that cannot be written: the loop ends
\* normally, confirmed or not.
SocketError ==
    /\ link = "select" /\ ~sock
    /\ EndNormally
    /\ UNCHANGED <<alive, sock, confirmed, wire, fwd, inbound, outbound,
                   handlerVars, expired, notices, asked, heard>>

\* select!, branch recv_outbound_message: the message leaves the channel.
SendOutbound ==
    /\ link = "select" /\ sock
    /\ outbound # <<>>
    /\ outbound' = Tail(outbound)
    /\ heard' = heard \cup {Head(outbound)}
    /\ UNCHANGED <<alive, linkVars, inbound, handlerVars, expired, notices,
                   asked>>

\* The write fails: the message has left the channel and is lost.
SendOutboundFails ==
    /\ link = "select" /\ ~sock
    /\ outbound # <<>>
    /\ outbound' = Tail(outbound)
    /\ EndNormally
    /\ UNCHANGED <<alive, sock, confirmed, wire, fwd, inbound, handlerVars,
                   expired, notices, asked, heard>>

\* Node.stop: both tasks see the flag at the top of their loops.
Stop ==
    /\ alive
    /\ alive' = FALSE
    /\ UNCHANGED <<linkVars, inbound, outbound, handlerVars, expired, notices,
                   asked, heard>>

\* Slip: the flag is looked at before connecting only, not in select!.
LinkStopsLate ==
    /\ ~alive
    /\ link = "connect"
    /\ link' = "stopped"
    /\ sock' = FALSE /\ wire' = <<>>
    /\ UNCHANGED <<alive, confirmed, attempts, fwd, inbound, outbound,
                   handlerVars, expired, notices, asked, heard>>

LinkStops ==
    /\ ~alive
    /\ link \in {"connect", "select"}
    /\ link' = "stopped"
    /\ sock' = FALSE /\ wire' = <<>>
    /\ UNCHANGED <<alive, confirmed, attempts, fwd, inbound, outbound,
                   handlerVars, expired, notices, asked, heard>>

-----------------------------------------------------------------------------
(* handle_hub_message.                                                     *)

Receive(m) ==
    /\ hpc = "recv"
    /\ inbound # <<>> /\ m = Head(inbound)
    /\ inbound' = Tail(inbound)
    /\ UNCHANGED <<alive, linkVars, outbound, expired, notices, asked, heard>>

\* outbound_tx.send(..).await begins.
Reporting(type, t) ==
    /\ hpc' = "report"
    /\ report' = Msg(type, t)
    /\ task' = NoTask
    /\ answers' = [answers EXCEPT ![t] = IF type = "Result" THEN @ + 1 ELSE @]

TaskAssignment(t) ==
    /\ Receive(Msg("Assign", t))
    /\ running' = running \cup {t}
    /\ task' = t
    /\ hpc' = "check"
    /\ UNCHANGED <<report, approvals, answers, executed, ruling>>

Ruled(outcome) == ruling' = [ruling EXCEPT ![task] = outcome]

\* permission_manager.check and its three outcomes.
CheckAllowed ==
    /\ hpc = "check"
    /\ "Allowed" \in Verdicts[task]
    /\ hpc' = "execute"
    /\ Ruled("Allowed")
    /\ UNCHANGED <<alive, linkVars, inbound, outbound, task, report, running,
                   approvals, answers, executed, expired,
                   notices, asked, heard>>

CheckDenied ==
    /\ hpc = "check"
    /\ "Denied" \in Verdicts[task]
    /\ running' = running \ {task}
    /\ Reporting("Result", task)
    /\ Ruled("Denied")
    /\ UNCHANGED <<alive, linkVars, inbound, outbound, approvals, executed,
                   expired, notices, asked, heard>>

CheckRequiresApproval ==
    /\ hpc = "check"
    /\ "RequiresApproval" \in Verdicts[task]
    /\ approvals' = approvals \cup {task}
    /\ Ruled("RequiresApproval")
    /\ Reporting("ApprovalRequest", task)
    /\ UNCHANGED <<alive, linkVars, inbound, outbound, running, executed,
                   expired, notices, asked, heard>>

\* execute_unchecked, then the entry is removed and the result sent.
Execute ==
    /\ hpc = "execute"
    /\ executed' = [executed EXCEPT ![task] = @ + 1]
    /\ running' = running \ {task}
    /\ Reporting("Result", task)
    /\ UNCHANGED <<alive, linkVars, inbound, outbound, approvals, ruling,
                   expired, notices, asked, heard>>

\* Slip: a cancellation is answered with a result.
TaskCancellationAnswers(t) ==
    /\ Receive(Msg("Cancel", t))
    /\ running' = running \ {t}
    /\ Reporting("Result", t)
    /\ UNCHANGED <<approvals, executed, ruling>>

\* The running entry goes; nobody listens to its cancel_tx, and an approval
\* request of the task stays pending.
TaskCancellation(t) ==
    /\ Receive(Msg("Cancel", t))
    /\ running' = running \ {t}
    /\ UNCHANGED <<hpc, task, report, approvals, answers, executed, ruling>>

\* handle_approval_response: not pending, or expired (and then forgotten), is
\* an error that ends the treatment of the message.
ApprovalResponseFails(m) ==
    /\ m.type \in {"Approve", "Reject"}
    /\ Receive(m)
    /\ m.task \notin approvals \/ m.task \in expired
    /\ approvals' = approvals \ {m.task}
    /\ UNCHANGED <<hpc, task, report, running, answers, executed, ruling>>

ApprovalGranted(t) ==
    /\ Receive(Msg("Approve", t))
    /\ t \in approvals \ expired
    /\ approvals' = approvals \ {t}
    /\ running' = running \cup {t}
    /\ task' = t
    /\ hpc' = "execute"
    /\ UNCHANGED <<report, answers, executed, ruling>>

\* Slip: `approved` is not looked at.
RejectedIsExecuted(t) ==
    /\ Receive(Msg("Reject", t))
    /\ t \in approvals \ expired
    /\ approvals' = approvals \ {t}
    /\ running' = running \cup {t}
    /\ task' = t
    /\ hpc' = "execute"
    /\ UNCHANGED <<report, answers, executed, ruling>>

\* Slip: the task is forgotten, and its result not sent.
ApprovalRejectedSilently(t) ==
    /\ Receive(Msg("Reject", t))
    /\ t \in approvals \ expired
    /\ approvals' = approvals \ {t}
    /\ running' = running \ {t}
    /\ UNCHANGED <<hpc, task, report, answers, executed, ruling>>

ApprovalRejected(t) ==
    /\ Receive(Msg("Reject", t))
    /\ t \in approvals \ expired
    /\ approvals' = approvals \ {t}
    /\ running' = running \ {t}
    /\ Reporting("Result", t)
    /\ UNCHANGED <<executed, ruling>>

ApprovalExpires(t) ==
    /\ t \in approvals \ expired
    /\ expired' = expired \cup {t}
    /\ UNCHANGED <<alive, linkVars, inbound, outbound, handlerVars, notices,
                   asked, heard>>

Reported(out) ==
    /\ hpc = "report"
    /\ outbound' = out
    /\ report' = NoMsg
    /\ hpc' = "recv"
    /\ UNCHANGED <<alive, linkVars, inbound, task, running, approvals, answers,
                   executed, ruling, expired, notices, asked, heard>>

\* The send ends once the channel has room; it fails when the connection loop
\* has ended.
SendReport ==
    /\ link # "stopped"
    /\ Len(outbound) < OutCap
    /\ Reported(Append(outbound, report))

\* Slip: the connection loop ends without closing the channel.
SendReportWaits ==
    /\ link = "stopped"
    /\ Len(outbound) < OutCap
    /\ Reported(Append(outbound, report))

SendReportFails ==
    /\ link = "stopped"
    /\ Reported(outbound)

\* Slip: an unbounded channel.
NotifyUnbounded ==
    /\ alive
    /\ notices < MaxNotices
    /\ outbound' = Append(outbound, Msg("Notice", NoTask))
    /\ notices' = notices + 1
    /\ UNCHANGED <<alive, linkVars, inbound, handlerVars, expired, asked, heard>>

\* report_notification_nowait: try_send, which fails on a full channel.
Notify ==
    /\ alive
    /\ notices < MaxNotices
    /\ Len(outbound) < OutCap
    /\ outbound' = Append(outbound, Msg("Notice", NoTask))
    /\ notices' = notices + 1
    /\ UNCHANGED <<alive, linkVars, inbound, handlerVars, expired, asked, heard>>

\* The flag at the top of the loop, or the inbound channel closed and empty.
HandlerStops ==
    /\ hpc = "recv"
    /\ IF inbound = <<>> THEN link = "stopped" ELSE ~alive
    /\ hpc' = "stopped"
    /\ inbound' = <<>>
    /\ UNCHANGED <<alive, linkVars, outbound, task, report, running, approvals,
                   answers, executed, ruling, expired, notices, asked,
                   heard>>

-----------------------------------------------------------------------------
LinkStep ==
    \/ Connect \/ ConnectFails \/ Retry
    \/ ReadSocket \/ ForwardMessage \/ ForwardFails
    \/ StreamEnds \/ SocketError \/ SendOutboundFails
    \/ LinkStops

HandlerStep ==
    \/ \E t \in Tasks : \/ TaskAssignment(t)
                        \/ TaskCancellation(t)
                        \/ ApprovalGranted(t)
                        \/ ApprovalRejected(t)
    \/ \E m \in HubToNode : ApprovalResponseFails(m)
    \/ CheckAllowed \/ CheckDenied \/ CheckRequiresApproval
    \/ Execute
    \/ SendReport \/ SendReportFails
    \/ HandlerStops

Next ==
    \/ \E m \in HubToNode : HubSends(m)
    \/ SocketDies
    \/ LinkStep
    \/ SendOutbound
    \/ HandlerStep
    \/ \E t \in Tasks : ApprovalExpires(t)
    \/ Notify
    \/ Stop

Spec == Init /\ [][Next]_vars

\* The runtime drives both tasks.  select! polls its branches in random
\* order, so a branch that is ready again and again is taken in the end.
Fairness ==
    /\ WF_vars(LinkStep)
    /\ SF_vars(SendOutbound)
    /\ WF_vars(HandlerStep)

FairSpec == Spec /\ Fairness

-----------------------------------------------------------------------------
(* Properties.                                                             *)

\* A command is executed only when the rules allowed it, or required an
\* approval and the Hub gave it: also when decisions, cancellations, expiries
\* and reconnections interleave.
ExecutedIsPermitted ==
    \A t \in Tasks : executed[t] > 0 =>
        \/ ruling[t] = "Allowed"
        \/ ruling[t] = "RequiresApproval" /\ Msg("Approve", t) \in asked

\* A task is executed at most once and answered at most once, on whichever of
\* the paths (direct, denied, approved, rejected) it is answered.
AnsweredAtMostOnce ==
    \A t \in Tasks : executed[t] <= answers[t] /\ answers[t] <= 1

\* Every task the handler has started is answered, is in its hands, waits for
\* an approval (a cancelled one too: the cancellation leaves the request
\* pending), or was decided by the Hub only after its request had expired, which
\* the node treats as an error and answers with nothing.  No other path leaves
\* a task without a result, and no answered task stays in running_tasks.
UnansweredWaits ==
    /\ \A t \in Tasks : ruling[t] # "none" /\ answers[t] = 0 =>
           \/ hpc \in {"check", "execute"} /\ task = t
           \/ t \in approvals
           \/ t \in expired /\ Decided(t)
    /\ \A t \in running : answers[t] = 0

\* Loop and handler wait for each other: the handler for room in the outbound
\* channel, which the loop does not drain while it waits for room in the
\* inbound one.  Neither looks at its flag again.
Jammed ==
    /\ link = "forward" /\ Len(inbound) = InCap
    /\ hpc = "report" /\ Len(outbound) = OutCap

\* A result or approval request the handler made gets into the outbound
\* channel, or the two tasks are jammed.  There is no other way to be stuck.
ReportsGetOut == hpc = "report" ~> hpc # "report" \/ Jammed

\* Node.stop only sets a flag: both tasks see it in the end, whatever they were
\* waiting for and whatever is left in the channels, unless they are jammed.
StoppedComesToRest ==
    ~alive ~> (link = "stopped" /\ hpc = "stopped") \/ Jammed

\* When the Hub stays away the loop gives up in the end, whatever state its last
\* connection ended in, unless it is jammed: reconnections in a row are bounded.
GivesUp == <>[]~sock => <>(link = "stopped" \/ Jammed)

=============================================================================
