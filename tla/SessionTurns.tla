--------------------------- MODULE SessionTurns ----------------------------
(***************************************************************************)
(* Conversations at the Hub: session_runtime.rs and the part of web/mod.rs *)
(* that turns a chat message into tasks and the results of the tasks into  *)
(* a reply.                                                                *)
(*                                                                         *)
(* A message opens a turn of its session.  The planner answers at once or  *)
(* submits a task; the task is bound to the turn, and its result resumes   *)
(* the turn, which is answered or submits the next task.  Work on one      *)
(* session is serialised by the session's lane, but a turn is stored under *)
(* its session, a binding is made after its task was submitted, and        *)
(* results, approvals and cancellations look bindings up outside the lane. *)
(***************************************************************************)
EXTENDS Naturals, Sequences, FiniteSets, Functions

CONSTANTS
    Messages,     \* chat messages, each worked on by its own handler
    Sessions,
    SessionOf,    \* the session of each message
    InTeam,       \* messages whose sender has a corporation id
    Tasks,        \* ids the scheduler may give to tasks
    MaxSteps,     \* max_steps of a turn (4 in the code)
    Consumer,     \* the loop in main.rs that takes the results
    NoMsg, NoTask, NoWorker

ASSUME ConversationAssumption ==
    /\ SessionOf \in [Messages -> Sessions]
    /\ InTeam \subseteq Messages
    /\ MaxSteps \in Nat \ {0}
    /\ Consumer \notin Messages
    /\ NoMsg \notin Messages
    /\ NoTask \notin Tasks
    /\ NoWorker \notin Messages \cup {Consumer}

VARIABLES
    pc,          \* where each handler and the consumer are
    job,         \* the task each of them has in hand
    lane,        \* who holds the lane of each session
    turn,        \* turns: the current turn of each session
    bound,       \* task_bindings
    routes,      \* dingtalk_reply_runtime.routes
    owner,       \* the message for which a task was submitted
    paid,        \* history: the message whose turn counted the task's step
    live,        \* submitted tasks that have no result yet
    results,     \* the scheduler's result channel
    asking,      \* the task whose approval request is being routed
    cancelling,  \* the task a cancellation request has looked up, and
    turned,      \* whether the request has cancelled the turn already
    stopped,     \* history: messages cancelled before their result was taken,
                 \* and whose cancel flag no newer turn has replaced since
    answers,     \* what was sent to the user for each message
    left         \* why a message is left without an answer

Workers == Messages \cup {Consumer}
workVars == <<pc, job, lane>>
taskVars == <<bound, routes, owner, paid, live, results>>
cancelVars == <<cancelling, turned, stopped>>
userVars == <<answers, left>>
vars == <<pc, job, lane, turn, bound, routes, owner, paid, live, results,
          asking, cancelling, turned, stopped, answers, left>>

Statuses == {"None", "Planning", "Dispatching", "WaitingForTool",
             "WaitingForApproval", "Resuming", "Completed", "Cancelled"}
Replies == {"final", "local", "fallback", "error"}

\* A turn as start_turn creates it; `call` is the task of its tool call and
\* `done` the tool call's status.
NewTurn(m) == [msg |-> m, status |-> "Planning", steps |-> 0,
               cancel |-> FALSE, call |-> NoTask, done |-> FALSE]

MsgOf(w) == IF w = Consumer THEN owner[job[w]] ELSE w
SessionFor(w) == SessionOf[MsgOf(w)]
Unused == {t \in Tasks : owner[t] = NoMsg}
Settled(m) == answers[m] # <<>> \/ left[m] # "no"

TasksOf(m) == {t \in Tasks : owner[t] = m}

\* A result of m is still to be taken, or in the hands of the consumer.
Awaited(m) ==
    TasksOf(m) \cap (live \cup Range(results) \cup {job[Consumer]}) # {}

TypeOK ==
    /\ pc \in [Workers -> {"new", "idle", "planning", "replying", "submitting",
                           "submitted", "bound", "routing", "failed", "done",
                           "took", "fallback", "resuming", "finalizing",
                           "completing"}]
    /\ job \in [Workers -> Tasks \cup {NoTask}]
    /\ lane \in [Sessions -> Workers \cup {NoWorker}]
    /\ turn \in [Sessions -> [msg : Messages \cup {NoMsg}, status : Statuses,
                              steps : Nat, cancel : BOOLEAN,
                              call : Tasks \cup {NoTask}, done : BOOLEAN]]
    /\ bound \subseteq Tasks
    /\ routes \subseteq Tasks
    /\ owner \in [Tasks -> Messages \cup {NoMsg}]
    /\ paid \in [Tasks -> Messages \cup {NoMsg}]
    /\ live \subseteq Tasks
    /\ results \in Seq(Tasks)
    /\ asking \in Tasks \cup {NoTask}
    /\ cancelling \in Tasks \cup {NoTask}
    /\ turned \in BOOLEAN
    /\ stopped \subseteq Messages
    /\ answers \in [Messages -> Seq(Replies)]
    /\ left \in [Messages -> {"no", "early", "failed", "cancelled"}]

Init ==
    /\ pc = [w \in Workers |-> IF w = Consumer THEN "idle" ELSE "new"]
    /\ job = [w \in Workers |-> NoTask]
    /\ lane = [s \in Sessions |-> NoWorker]
    /\ turn = [s \in Sessions |-> [NewTurn(NoMsg) EXCEPT !.status = "None"]]
    /\ bound = {}
    /\ routes = {}
    /\ owner = [t \in Tasks |-> NoMsg]
    /\ paid = [t \in Tasks |-> NoMsg]
    /\ live = {}
    /\ results = <<>>
    /\ asking = NoTask
    /\ cancelling = NoTask
    /\ turned = FALSE
    /\ stopped = {}
    /\ answers = [m \in Messages |-> <<>>]
    /\ left = [m \in Messages |-> "no"]

-----------------------------------------------------------------------------
(* Helpers                                                                 *)

Goto(w, where) == pc' = [pc EXCEPT ![w] = where]

\* The end of run_serialized: the guard of the lane is dropped.
LeaveLane(w) == lane' = [lane EXCEPT ![SessionFor(w)] = NoWorker]

Answer(m, reply) == answers' = [answers EXCEPT ![m] = Append(@, reply)]

\* complete_turn: whatever turn the session has now is the one completed.
CompleteTurn(s, t) ==
    turn' = [turn EXCEPT ![s].status = "Completed",
                         ![s].done = @ \/ t \in {NoTask, turn[s].call}]

-----------------------------------------------------------------------------
(* A message: submit_dingtalk_task, process_dingtalk_task_serialized       *)

\* run_serialized and start_turn, which replaces the turn of the session, its
\* step count and its cancel flag included, also when a result of an earlier
\* message is still to come.
StartTurn(m) ==
    /\ pc[m] = "new"
    /\ lane[SessionOf[m]] = NoWorker
    /\ lane' = [lane EXCEPT ![SessionOf[m]] = m]
    /\ turn' = [turn EXCEPT ![SessionOf[m]] = NewTurn(m)]
    /\ stopped' = {n \in stopped : SessionOf[n] = SessionOf[m] => ~Awaited(n)}
    /\ Goto(m, "planning")
    /\ UNCHANGED <<job, taskVars, asking, cancelling, turned, userVars>>

\* The planner decides on a direct reply, a local skill, or a reply that asks
\* for more: the turn is completed before the reply is sent.
PlanReply(m) ==
    /\ pc[m] = "planning"
    /\ turn' = [turn EXCEPT ![SessionOf[m]].steps = @ + 1,
                            ![SessionOf[m]].status = "Completed",
                            ![SessionOf[m]].done = TRUE]
    /\ Goto(m, "replying")
    /\ UNCHANGED <<job, lane, taskVars, asking, cancelVars, userVars>>

\* The planner decides on a command (begin_tool_call).
PlanTask(m) ==
    /\ pc[m] = "planning"
    /\ turn' = [turn EXCEPT ![SessionOf[m]].steps = @ + 1,
                            ![SessionOf[m]].status = "Dispatching",
                            ![SessionOf[m]].call = NoTask,
                            ![SessionOf[m]].done = FALSE]
    /\ Goto(m, "submitting")
    /\ UNCHANGED <<job, lane, taskVars, asking, cancelVars, userVars>>

\* Planning fails, or the command is not valid or has no workspace: `?`
\* leaves the serialised future, and the turn keeps its status.
PlanFails(m) ==
    /\ pc[m] = "planning"
    /\ \E n \in {0, 1} : turn' = [turn EXCEPT ![SessionOf[m]].steps = @ + n]
    /\ Goto(m, "failed")
    /\ LeaveLane(m)
    /\ UNCHANGED <<job, taskVars, asking, cancelVars, userVars>>

\* The direct reply is sent, still in the lane; sending it may fail.
SendReply(m) ==
    /\ pc[m] = "replying"
    /\ \/ Answer(m, "final") /\ Goto(m, "done")
       \/ Goto(m, "failed") /\ UNCHANGED answers
    /\ LeaveLane(m)
    /\ UNCHANGED <<job, turn, taskVars, asking, cancelVars, left>>

\* Slip: the error is logged and not replied.
LogError(m) ==
    /\ pc[m] = "failed"
    /\ Goto(m, "done")
    /\ UNCHANGED <<job, lane, turn, taskVars, asking, cancelVars, userVars>>

\* reply_dingtalk_error, called by the loop in main.rs outside the lane.  There
\* may be no channel to reply on, and the reply itself may fail, which is only
\* logged; a message that has a task then still gets the task's answer.
ReplyError(m) ==
    /\ pc[m] = "failed"
    /\ \/ Answer(m, "error") /\ UNCHANGED left
       \/ /\ left' = [left EXCEPT ![m] = IF TasksOf(m) = {} THEN "failed" ELSE @]
          /\ UNCHANGED answers
    /\ Goto(m, "done")
    /\ UNCHANGED <<job, lane, turn, taskVars, asking, cancelVars>>

\* hub.submit_task: from here on the task may be executed and answered.
SubmitTask(w) ==
    /\ pc[w] = "submitting"
    /\ Unused # {}
    /\ LET t == CHOOSE t \in Unused : TRUE IN
          /\ owner' = [owner EXCEPT ![t] = MsgOf(w)]
          /\ paid' = [paid EXCEPT ![t] = turn[SessionFor(w)].msg]
          /\ live' = live \cup {t}
          /\ job' = [job EXCEPT ![w] = t]
    /\ Goto(w, "submitted")
    /\ UNCHANGED <<lane, turn, bound, routes, results, asking, cancelVars,
                   userVars>>

\* bind_task_to_turn, first lock: the binding.
BindTask(w) ==
    /\ pc[w] = "submitted"
    /\ bound' = bound \cup {job[w]}
    /\ Goto(w, "bound")
    /\ UNCHANGED <<job, lane, turn, routes, owner, paid, live, results,
                   asking, cancelVars, userVars>>

\* bind_task_to_turn, second lock: the turn.  The consumer is then done; the
\* handler of a message still records the reply route.
MarkWaiting(w) ==
    /\ pc[w] = "bound"
    /\ turn' = [turn EXCEPT ![SessionFor(w)].status = "WaitingForTool",
                            ![SessionFor(w)].call = job[w]]
    /\ IF w = Consumer
       THEN /\ Goto(w, "idle")
            /\ job' = [job EXCEPT ![w] = NoTask]
            /\ LeaveLane(w)
       ELSE /\ Goto(w, "routing")
            /\ UNCHANGED <<job, lane>>
    /\ UNCHANGED <<taskVars, asking, cancelVars, userVars>>

\* insert_dingtalk_reply_route and the acknowledgement, which can fail after
\* the task was submitted.
InsertRoute(m) ==
    /\ pc[m] = "routing"
    /\ routes' = routes \cup {job[m]}
    /\ \E where \in {"done", "failed"} : Goto(m, where)
    /\ job' = [job EXCEPT ![m] = NoTask]
    /\ LeaveLane(m)
    /\ UNCHANGED <<turn, bound, owner, paid, live, results, asking,
                   cancelVars, userVars>>

-----------------------------------------------------------------------------
(* A result: the loop in main.rs and reply_task_result                     *)

\* Slip: the binding is looked up (task_binding) and not taken.
TakeResultKeepingBinding ==
    /\ pc[Consumer] = "idle"
    /\ results # <<>>
    /\ results' = Tail(results)
    /\ IF Head(results) \in bound
       THEN /\ job' = [job EXCEPT ![Consumer] = Head(results)]
            /\ Goto(Consumer, "took")
            /\ UNCHANGED left
       ELSE /\ left' = [left EXCEPT ![owner[Head(results)]] = "early"]
            /\ UNCHANGED <<pc, job>>
    /\ UNCHANGED <<lane, turn, bound, routes, owner, paid, live, asking,
                   cancelVars, answers>>

\* take_task_binding, before the lane is entered.  Without a binding the
\* reply route is tried, which is recorded later still; without a route the
\* result is dropped.
TakeResult ==
    /\ pc[Consumer] = "idle"
    /\ results # <<>>
    /\ results' = Tail(results)
    /\ LET t == Head(results) IN
       /\ bound' = bound \ {t}
       /\ IF t \in bound
          THEN /\ job' = [job EXCEPT ![Consumer] = t]
               /\ Goto(Consumer, "took")
               /\ UNCHANGED <<routes, userVars>>
          ELSE /\ routes' = routes \ {t}
               /\ IF t \in routes
                  THEN Answer(owner[t], "final") /\ UNCHANGED left
                  ELSE /\ left' = [left EXCEPT ![owner[t]] = "early"]
                       /\ UNCHANGED answers
               /\ UNCHANGED <<pc, job>>
    /\ UNCHANGED <<lane, turn, owner, paid, live, asking, cancelVars>>

\* In the lane: the completed task is looked up, and the cancel flag of the
\* session's turn is read.
ObserveResult ==
    /\ pc[Consumer] = "took"
    /\ lane[SessionFor(Consumer)] = NoWorker
    /\ ~turn[SessionFor(Consumer)].cancel
    /\ lane' = [lane EXCEPT ![SessionFor(Consumer)] = Consumer]
    /\ Goto(Consumer, "resuming")
    /\ UNCHANGED <<job, turn, taskVars, asking, cancelVars, userVars>>

\* handle_continuation_cancelled_turn
SkipCancelled ==
    /\ pc[Consumer] = "took"
    /\ lane[SessionFor(Consumer)] = NoWorker
    /\ turn[SessionFor(Consumer)].cancel
    /\ left' = [left EXCEPT ![MsgOf(Consumer)] = "cancelled"]
    /\ job' = [job EXCEPT ![Consumer] = NoTask]
    /\ Goto(Consumer, "idle")
    /\ UNCHANGED <<lane, turn, taskVars, asking, cancelVars, answers>>

\* The record of the completed task was evicted.
MissRecord ==
    /\ pc[Consumer] = "took"
    /\ lane[SessionFor(Consumer)] = NoWorker
    /\ lane' = [lane EXCEPT ![SessionFor(Consumer)] = Consumer]
    /\ Goto(Consumer, "fallback")
    /\ UNCHANGED <<job, turn, taskVars, asking, cancelVars, userVars>>

\* mark_turn_resuming
ResumeTurn ==
    /\ pc[Consumer] = "resuming"
    /\ turn' = [turn EXCEPT
                  ![SessionFor(Consumer)].status = "Resuming",
                  ![SessionFor(Consumer)].done = @ \/ job[Consumer]
                                       = turn[SessionFor(Consumer)].call]
    /\ Goto(Consumer, "planning")
    /\ UNCHANGED <<job, lane, taskVars, asking, cancelVars, userVars>>

\* Slip: the number of steps is compared before it is incremented.
PlanContinuationLate ==
    /\ pc[Consumer] = "planning"
    /\ turn' = [turn EXCEPT ![SessionFor(Consumer)].steps = @ + 1]
    /\ \/ Goto(Consumer, "finalizing")
       \/ /\ turn[SessionFor(Consumer)].steps <= MaxSteps
          /\ Goto(Consumer, "submitting")
    /\ UNCHANGED <<job, lane, taskVars, asking, cancelVars, userVars>>

\* Slip: the reply for a turn with too many steps does not return.
PlanContinuationNoReturn ==
    /\ pc[Consumer] = "planning"
    /\ LET s == SessionFor(Consumer) IN
       /\ turn' = [turn EXCEPT ![s].steps = @ + 1]
       /\ IF turn[s].steps + 1 > MaxSteps THEN Answer(MsgOf(Consumer), "final")
          ELSE UNCHANGED answers
       /\ \E where \in {"finalizing", "submitting"} : Goto(Consumer, where)
    /\ UNCHANGED <<job, lane, taskVars, asking, cancelVars, left>>

\* plan_continuation_step_with_retry and increment_step_count.  A planner
\* that fails, its retry included, yields a final reply.
PlanContinuation ==
    /\ pc[Consumer] = "planning"
    /\ LET s == SessionFor(Consumer) IN
       \/ /\ turn' = [turn EXCEPT ![s].steps = @ + 1]
          /\ Goto(Consumer, "finalizing")
       \/ /\ turn[s].steps + 1 <= MaxSteps
          /\ turn' = [turn EXCEPT ![s].steps = @ + 1,
                                  ![s].status = "Dispatching",
                                  ![s].call = NoTask, ![s].done = FALSE]
          /\ Goto(Consumer, "submitting")
    /\ UNCHANGED <<job, lane, taskVars, asking, cancelVars, userVars>>

\* The planned command is not valid or has no workspace, or the reply cannot
\* be sent: the loop in main.rs logs the error, and nobody is told.
ContinuationFails ==
    /\ pc[Consumer] \in {"planning", "finalizing", "fallback"}
    /\ IF pc[Consumer] = "planning"
       THEN /\ turn[SessionFor(Consumer)].steps + 1 <= MaxSteps
            /\ turn' = [turn EXCEPT ![SessionFor(Consumer)].steps = @ + 1]
       ELSE UNCHANGED turn
    /\ left' = [left EXCEPT ![MsgOf(Consumer)] = "failed"]
    /\ job' = [job EXCEPT ![Consumer] = NoTask]
    /\ Goto(Consumer, "idle")
    /\ LeaveLane(Consumer)
    /\ UNCHANGED <<taskVars, asking, cancelVars, answers>>

\* A local skill as a continuation step.  parse_dingtalk_binding_session_key
\* rebuilds the session key without the corporation id, so for a sender in a
\* team complete_turn misses the session's turn.  Sending the reply may fail.
ContinueLocally ==
    /\ pc[Consumer] = "planning"
    /\ LET s == SessionFor(Consumer) IN
       /\ turn[s].steps + 1 <= MaxSteps
       /\ turn' = [turn EXCEPT
                     ![s].steps = @ + 1,
                     ![s].status = IF MsgOf(Consumer) \in InTeam THEN @
                                   ELSE "Completed",
                     ![s].done = @ \/ MsgOf(Consumer) \notin InTeam]
    /\ \/ Answer(MsgOf(Consumer), "local") /\ UNCHANGED left
       \/ /\ left' = [left EXCEPT ![MsgOf(Consumer)] = "failed"]
          /\ UNCHANGED answers
    /\ job' = [job EXCEPT ![Consumer] = NoTask]
    /\ Goto(Consumer, "idle")
    /\ LeaveLane(Consumer)
    /\ UNCHANGED <<taskVars, asking, cancelVars>>

\* complete_continuation_with_reply, handle_continuation_missing_completed_task:
\* the reply first, ...
FinalizeReply ==
    /\ pc[Consumer] \in {"finalizing", "fallback"}
    /\ Answer(MsgOf(Consumer), IF pc[Consumer] = "fallback" THEN "fallback"
                               ELSE "final")
    /\ Goto(Consumer, "completing")
    /\ UNCHANGED <<job, lane, turn, taskVars, asking, cancelVars, left>>

\* ... then the turn.
CompleteReplied ==
    /\ pc[Consumer] = "completing"
    /\ CompleteTurn(SessionFor(Consumer), job[Consumer])
    /\ bound' = bound \ {job[Consumer]}
    /\ job' = [job EXCEPT ![Consumer] = NoTask]
    /\ Goto(Consumer, "idle")
    /\ LeaveLane(Consumer)
    /\ UNCHANGED <<routes, owner, paid, live, results, asking, cancelVars,
                   userVars>>

-----------------------------------------------------------------------------
(* The scheduler, approval requests and cancellations                      *)

\* The scheduler announces the result of a task, once (SingleReport).
TaskEnds(t) ==
    /\ t \in live
    /\ live' = live \ {t}
    /\ results' = Append(results, t)
    /\ UNCHANGED <<workVars, turn, bound, routes, owner, paid, asking,
                   cancelVars, userVars>>

\* route(ApprovalRequest): the binding is read, ...
ApprovalLooksUp(t) ==
    /\ asking = NoTask
    /\ t \in live /\ t \in bound
    /\ asking' = t
    /\ UNCHANGED <<workVars, turn, taskVars, cancelVars, userVars>>

\* ... then mark_waiting_for_approval on the session's current turn.
ApprovalMarks ==
    /\ asking # NoTask
    /\ turn' = [turn EXCEPT ![SessionOf[owner[asking]]].status
                              = "WaitingForApproval"]
    /\ asking' = NoTask
    /\ UNCHANGED <<workVars, taskVars, cancelVars, userVars>>

\* cancel_task of the web API: the binding is read, ...
CancelLooksUp(t) ==
    /\ cancelling = NoTask
    /\ t \in bound
    /\ cancelling' = t
    /\ UNCHANGED <<workVars, turn, taskVars, asking, turned, stopped, userVars>>

\* Slip: the turn is marked, but its cancel flag is not set.
CancelTurnStatusOnly ==
    /\ cancelling # NoTask /\ ~turned
    /\ LET m == owner[cancelling] IN
       /\ turn' = [turn EXCEPT ![SessionOf[m]].status = "Cancelled"]
       /\ stopped' = IF cancelling \in bound THEN stopped \cup {m} ELSE stopped
    /\ turned' = TRUE
    /\ UNCHANGED <<workVars, taskVars, asking, cancelling, userVars>>

\* ... cancel_turn acts on the session's current turn, ...
CancelTurn ==
    /\ cancelling # NoTask /\ ~turned
    /\ LET m == owner[cancelling] IN
       /\ turn' = [turn EXCEPT ![SessionOf[m]].status = "Cancelled",
                               ![SessionOf[m]].cancel = TRUE]
       /\ stopped' = IF cancelling \in bound THEN stopped \cup {m} ELSE stopped
    /\ turned' = TRUE
    /\ UNCHANGED <<workVars, taskVars, asking, cancelling, userVars>>

\* ... and hub.cancel_task ends the task if it has not ended by itself.
CancelTask ==
    /\ cancelling # NoTask /\ turned
    /\ live' = live \ {cancelling}
    /\ results' = IF cancelling \in live THEN Append(results, cancelling)
                  ELSE results
    /\ cancelling' = NoTask
    /\ turned' = FALSE
    /\ UNCHANGED <<workVars, turn, bound, routes, owner, paid, asking,
                   stopped, userVars>>

-----------------------------------------------------------------------------
MessageStep(m) ==
    \/ StartTurn(m) \/ PlanReply(m) \/ PlanTask(m) \/ PlanFails(m)
    \/ SendReply(m) \/ ReplyError(m) \/ InsertRoute(m)

ToolCallStep(w) == SubmitTask(w) \/ BindTask(w) \/ MarkWaiting(w)

ResultStep ==
    \/ TakeResult \/ ObserveResult \/ SkipCancelled \/ MissRecord
    \/ ResumeTurn \/ PlanContinuation \/ ContinuationFails
    \/ ContinueLocally \/ FinalizeReply \/ CompleteReplied

Next ==
    \/ \E m \in Messages : MessageStep(m)
    \/ \E w \in Workers : ToolCallStep(w)
    \/ ResultStep
    \/ \E t \in Tasks : TaskEnds(t) \/ ApprovalLooksUp(t) \/ CancelLooksUp(t)
    \/ ApprovalMarks
    \/ CancelTurn
    \/ CancelTask

Spec == Init /\ [][Next]_vars

\* tokio drives every handler that has something to do and the consumer.
\* Messages arrive, tasks end, approvals are asked for and tasks are cancelled
\* at will.
FairSpec ==
    /\ Spec
    /\ \A m \in Messages : WF_vars(pc[m] # "new" /\ MessageStep(m))
    /\ \A w \in Workers : WF_vars(ToolCallStep(w))
    /\ WF_vars(ResultStep)

-----------------------------------------------------------------------------
(* Properties                                                              *)

\* A message is answered once: a chain of tasks has one end, whatever results,
\* cancellations and evictions do to it.  An error reply may come on top, when
\* the acknowledgement failed after the task was submitted.
AnsweredOnce ==
    \A m \in Messages :
       Len(answers[m]) <= (IF "error" \in Range(answers[m]) THEN 2 ELSE 1)

\* A binding is kept only for a result that is still to come: take_task_binding
\* consumes it.  Only a result that came before its binding leaves one behind.
NoStaleBinding ==
    \A t \in bound :
       t \in live \cup Range(results) \/ left[owner[t]] = "early"

\* No turn pays for more than max_steps tasks, whichever steps the planner asks
\* for.  The budget is the turn's: the chain of an earlier message that goes on
\* after start_turn spends the newer turn's steps.  So a session submits at most
\* max_steps tasks for each message it gets, and a message that no newer one
\* overtakes at most max_steps in all.
StepsBounded ==
    \A m \in Messages : Cardinality({t \in Tasks : paid[t] = m}) <= MaxSteps

\* When a message is cancelled before the result of its task is taken, the
\* result does not resume its turn and the user gets no answer made from it,
\* unless a newer message of the session replaced the turn, and the flag with
\* it, in between; only the fallback for an evicted record does not look at the
\* flag.
CancelledIsNotAnswered ==
    \A m \in stopped : Range(answers[m]) \cap {"final", "local"} = {}

\* Every message that was taken up and whose tasks the scheduler ends is settled:
\* answered, or skipped because its session's turn was cancelled, or left
\* without an answer in one of the known ways (its result came before its
\* binding; the reply, the error reply or the continuation failed).  When the
\* scheduler ends a task is SubmittedIsReported: not while no node fits it.
MessageSettles ==
    \A m \in Messages :
       []<>(live \cap TasksOf(m) = {}) => (pc[m] # "new" ~> Settled(m))
=============================================================================
