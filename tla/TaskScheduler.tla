--------------------------- MODULE TaskScheduler ---------------------------
(***************************************************************************)
(* The Hub's task scheduler (crates/uhorse-hub/src/task_scheduler.rs) and  *)
(* the dispatch loop of hub.rs that drives it.                             *)
(*                                                                         *)
(* The scheduler keeps three maps, each behind its own lock: the pending   *)
(* queues, the running tasks and the completed tasks.  Every operation     *)
(* takes one lock at a time and awaits between them, so each action below  *)
(* is one critical section.  Between two sections a task is carried by the *)
(* operation itself: by a dispatcher (held) or by the caller that removed  *)
(* it from the running map and has yet to store and announce it            *)
(* (finishing).                                                            *)
(***************************************************************************)
EXTENDS Integers, FiniteSets, SequencesExt

CONSTANTS
    Tasks,          \* task identifiers the Hub may generate
    Nodes,          \* node identifiers
    Dispatchers,    \* concurrent callers of dispatch_pending_tasks
    NumPriorities,  \* number of priority queues; 1 is Critical
    Prio,           \* Prio[t]: the priority t is submitted with
    Fits,           \* Fits[t]: nodes meeting t's capabilities, tags, workspace
    MaxRetries,     \* HubConfig.max_retries
    MaxCompleted,   \* entries the completed map may hold (500 in the code)
    EvictCount,     \* entries dropped when it holds more (250 in the code)
    ResultCap,      \* capacity of the result channel (1000 in the code)
    NoTask, NoNode  \* model values: "none"

Priorities == 1..NumPriorities

ASSUME PrioritiesAssumption ==
    /\ NumPriorities \in Nat \ {0}
    /\ Prio \in [Tasks -> Priorities]
ASSUME FitsAssumption == Fits \in [Tasks -> SUBSET Nodes]
ASSUME BoundsAssumption ==
    /\ MaxRetries \in Nat
    /\ MaxCompleted \in Nat /\ EvictCount \in Nat /\ EvictCount <= MaxCompleted
    /\ ResultCap \in Nat \ {0}
ASSUME NoneAssumption == NoTask \notin Tasks /\ NoNode \notin Nodes

\* terminal_status_from_result, cancel_task and check_timeouts
ResultStatuses == {"Completed", "Failed"}
Verdicts == ResultStatuses \cup {"Cancelled", "Timeout"}

VARIABLES
    pending,       \* pending_tasks: a queue per priority
    retry_count,   \* QueuedTask.retry_count
    running,       \* running_tasks: the node t was sent to, or NoNode
    overdue,       \* running tasks whose timeout_at has passed
    completed,     \* completed_tasks: tasks with a terminal record
    completed_at,  \* CompletedTask.completed_at, as a logical time
    clock,         \* the logical time Utc::now() reads
    results,       \* result_tx: the tasks whose result waits to be consumed
    task_counter,  \* task_counter
    arrival,       \* arrival[t]: the rank of t among submissions, 0 before
    dpc,           \* where each dispatcher is in schedule_next
    level,         \* the priority its for loop is at
    held,          \* the task it popped, or NoTask
    snapshot,      \* the nodes whose sender it cloned
    stale,         \* those whose connection has ended since
    cands,         \* candidates left to try
    target,        \* the node the held task was sent to, or NoNode
    finishing,     \* records removed from a map, not yet announced
    cancelling,    \* cancel_task calls that missed the pending queues
    timed_out,     \* check_timeouts: tasks still to be visited
    sweep_now,     \* check_timeouts: its `now`
    senders,       \* MessageRouter.node_senders
    online,        \* nodes whose NodeManager state is Online
    sentTo,        \* history: nodes each task was sent to, in order
    reported       \* history: verdicts put on result_tx for each task

queueVars == <<pending, retry_count>>
doneVars == <<completed, completed_at, clock>>
submitVars == <<task_counter, arrival>>
dispVars == <<dpc, level, held, snapshot, stale, cands, target>>
sweepVars == <<timed_out, sweep_now>>
nodeVars == <<senders, online>>
histVars == <<sentTo, reported>>
vars == <<queueVars, running, overdue, doneVars, results, submitVars,
          dispVars, finishing, cancelling, sweepVars, nodeVars, histVars>>

Finish == [task : Tasks, verdict : Verdicts, stage : {"store", "announce"}]

TypeOK ==
    /\ pending \in [Priorities -> Seq(Tasks)]
    /\ retry_count \in [Tasks -> 0..MaxRetries]
    /\ running \in [Tasks -> Nodes \cup {NoNode}]
    /\ overdue \in SUBSET Tasks
    /\ completed \in [Tasks -> Verdicts \cup {"none"}]
    /\ completed_at \in [Tasks -> Nat]
    /\ clock \in Nat
    /\ results \in Seq(Tasks)
    /\ task_counter \in Nat
    /\ arrival \in [Tasks -> Nat]
    /\ dpc \in [Dispatchers -> {"idle", "scan", "popped", "send", "sent"}]
    /\ level \in [Dispatchers -> 1..(NumPriorities + 1)]
    /\ held \in [Dispatchers -> Tasks \cup {NoTask}]
    /\ snapshot \in [Dispatchers -> SUBSET Nodes]
    /\ stale \in [Dispatchers -> SUBSET Nodes]
    /\ cands \in [Dispatchers -> SUBSET Nodes]
    /\ target \in [Dispatchers -> Nodes \cup {NoNode}]
    /\ finishing \in SUBSET Finish
    /\ cancelling \in SUBSET Tasks
    /\ timed_out \in SUBSET Tasks
    /\ sweep_now \in Nat
    /\ senders \in SUBSET Nodes
    /\ online \in SUBSET Nodes
    /\ sentTo \in [Tasks -> Seq(Nodes)]
    /\ reported \in [Tasks -> Seq(Verdicts)]

Init ==
    /\ pending = [p \in Priorities |-> <<>>]
    /\ retry_count = [t \in Tasks |-> 0]
    /\ running = [t \in Tasks |-> NoNode]
    /\ overdue = {}
    /\ completed = [t \in Tasks |-> "none"]
    /\ completed_at = [t \in Tasks |-> 0]
    /\ clock = 0
    /\ results = <<>>
    /\ task_counter = 0
    /\ arrival = [t \in Tasks |-> 0]
    /\ dpc = [d \in Dispatchers |-> "idle"]
    /\ level = [d \in Dispatchers |-> 1]
    /\ held = [d \in Dispatchers |-> NoTask]
    /\ snapshot = [d \in Dispatchers |-> {}]
    /\ stale = [d \in Dispatchers |-> {}]
    /\ cands = [d \in Dispatchers |-> {}]
    /\ target = [d \in Dispatchers |-> NoNode]
    /\ finishing = {}
    /\ cancelling = {}
    /\ timed_out = {}
    /\ sweep_now = 0
    /\ senders = {}
    /\ online = {}
    /\ sentTo = [t \in Tasks |-> <<>>]
    /\ reported = [t \in Tasks |-> <<>>]

-----------------------------------------------------------------------------
(* Submission and dispatch.                                                *)

\* submit_task: a fresh id, pushed at the back of its priority's queue.
SubmitTask(t) ==
    /\ arrival[t] = 0
    /\ task_counter' = task_counter + 1
    /\ arrival' = [arrival EXCEPT ![t] = task_counter + 1]
    /\ pending' = [pending EXCEPT ![Prio[t]] = Append(@, t)]
    /\ UNCHANGED <<retry_count, running, overdue, doneVars, results, dispVars,
                   finishing, cancelling, sweepVars, nodeVars, histVars>>

\* One turn of dispatch_pending_tasks: clone the senders and call
\* schedule_next, unless there is none.  A new caller (a submission, a
\* heartbeat, a result, a connection) and the next turn of the loop of a
\* running one both begin here.
BeginDispatch(d) ==
    /\ dpc[d] = "idle"
    /\ senders # {}
    /\ dpc' = [dpc EXCEPT ![d] = "scan"]
    /\ snapshot' = [snapshot EXCEPT ![d] = senders]
    /\ UNCHANGED <<level, held, stale, cands, target, queueVars, running,
                   overdue, doneVars, results, submitVars, finishing,
                   cancelling, sweepVars, nodeVars, histVars>>

\* schedule_next returns to the dispatch loop and drops its locals.
Return(d) ==
    /\ dpc' = [dpc EXCEPT ![d] = "idle"]
    /\ level' = [level EXCEPT ![d] = 1]
    /\ snapshot' = [snapshot EXCEPT ![d] = {}]
    /\ stale' = [stale EXCEPT ![d] = {}]

\* The loop over the priorities, at an empty queue and past the last one.
SkipEmpty(d) ==
    /\ dpc[d] = "scan"
    /\ level[d] \in Priorities
    /\ pending[level[d]] = <<>>
    /\ level' = [level EXCEPT ![d] = @ + 1]
    /\ UNCHANGED <<dpc, held, snapshot, stale, cands, target, queueVars,
                   running, overdue, doneVars, results, submitVars, finishing,
                   cancelling, sweepVars, nodeVars, histVars>>

EndDispatch(d) ==
    /\ dpc[d] = "scan"
    /\ level[d] > NumPriorities
    /\ Return(d)
    /\ UNCHANGED <<held, cands, target, queueVars, running, overdue, doneVars,
                   results, submitVars, finishing, cancelling, sweepVars,
                   nodeVars, histVars>>

\* queue.remove(0) under the pending lock: the task is now in no map.
PopTask(d) ==
    /\ dpc[d] = "scan"
    /\ level[d] \in Priorities
    /\ pending[level[d]] # <<>>
    /\ held' = [held EXCEPT ![d] = Head(pending[level[d]])]
    /\ pending' = [pending EXCEPT ![level[d]] = Tail(@)]
    /\ dpc' = [dpc EXCEPT ![d] = "popped"]
    /\ UNCHANGED <<retry_count, level, snapshot, stale, cands, target, running,
                   overdue, doneVars, results, submitVars, finishing,
                   cancelling, sweepVars, nodeVars, histVars>>

\* The nodes read from the NodeManager, filtered by the cloned senders, the
\* Online state and the task's requirements.  Their order by load is left
\* open: SendTask may try any of them first.
SelectCandidates(d) ==
    /\ dpc[d] = "popped"
    /\ cands' = [cands EXCEPT ![d] = snapshot[d] \cap online \cap Fits[held[d]]]
    /\ dpc' = [dpc EXCEPT ![d] = "send"]
    /\ UNCHANGED <<level, held, snapshot, stale, target, queueVars, running,
                   overdue, doneVars, results, submitVars, finishing,
                   cancelling, sweepVars, nodeVars, histVars>>

\* Slip: no break after a successful send.
SendTaskWithoutBreak(d, n) ==
    /\ dpc[d] = "send"
    /\ n \in cands[d]
    /\ sentTo' = [sentTo EXCEPT ![held[d]] = Append(@, n)]
    /\ cands' = [cands EXCEPT ![d] = @ \ {n}]
    /\ UNCHANGED <<dpc, level, held, snapshot, stale, target, queueVars,
                   running, overdue, doneVars, results, submitVars, finishing,
                   cancelling, sweepVars, nodeVars, reported>>

\* send_to_node succeeds: the assignment is in the node's channel.  The task
\* is not in running_tasks yet.
SendTask(d, n) ==
    /\ dpc[d] = "send"
    /\ n \in cands[d]
    /\ sentTo' = [sentTo EXCEPT ![held[d]] = Append(@, n)]
    /\ target' = [target EXCEPT ![d] = n]
    /\ dpc' = [dpc EXCEPT ![d] = "sent"]
    /\ UNCHANGED <<level, held, snapshot, stale, cands, queueVars, running,
                   overdue, doneVars, results, submitVars, finishing,
                   cancelling, sweepVars, nodeVars, reported>>

\* send_to_node fails: the connection behind the cloned sender has ended.
SendFails(d, n) ==
    /\ dpc[d] = "send"
    /\ n \in cands[d] \cap stale[d]
    /\ cands' = [cands EXCEPT ![d] = @ \ {n}]
    /\ UNCHANGED <<dpc, level, held, snapshot, stale, target, queueVars,
                   running, overdue, doneVars, results, submitVars, finishing,
                   cancelling, sweepVars, nodeVars, histVars>>

\* running_tasks.insert, and schedule_next returns to the dispatch loop.
InsertRunning(d) ==
    /\ dpc[d] = "sent"
    /\ running' = [running EXCEPT ![held[d]] = target[d]]
    /\ held' = [held EXCEPT ![d] = NoTask]
    /\ target' = [target EXCEPT ![d] = NoNode]
    /\ cands' = [cands EXCEPT ![d] = {}]
    /\ Return(d)
    /\ UNCHANGED <<queueVars, overdue, doneVars,
                   results, submitVars, finishing, cancelling, sweepVars,
                   nodeVars, histVars>>

\* No candidate took the task: back into its queue, and on to the next
\* priority, with the retries it has used.
PutBack(d, retries, queue) ==
    /\ dpc[d] = "send"
    /\ cands[d] = {}
    /\ retry_count' = [retry_count EXCEPT ![held[d]] = retries]
    /\ pending' = [pending EXCEPT ![level[d]] = queue]
    /\ held' = [held EXCEPT ![d] = NoTask]
    /\ level' = [level EXCEPT ![d] = @ + 1]
    /\ dpc' = [dpc EXCEPT ![d] = "scan"]
    /\ UNCHANGED <<snapshot, stale, cands, target, running, overdue, doneVars,
                   results, submitVars, finishing, cancelling, sweepVars,
                   nodeVars, histVars>>

Retries(d) == IF retry_count[held[d]] < MaxRetries
              THEN retry_count[held[d]] + 1 ELSE retry_count[held[d]]

\* Slip: the task goes to the back of its queue.
RequeueAtBack(d) ==
    PutBack(d, Retries(d), Append(pending[level[d]], held[d]))

\* Slip: a task whose retries are used up is dropped.
RequeueDropsExhausted(d) ==
    PutBack(d, Retries(d),
            IF retry_count[held[d]] < MaxRetries
            THEN <<held[d]>> \o pending[level[d]] ELSE pending[level[d]])

\* The task goes to the FRONT of its queue.  max_retries stops the count,
\* never the retrying.
Requeue(d) == PutBack(d, Retries(d), <<held[d]>> \o pending[level[d]])

-----------------------------------------------------------------------------
(* Ending a task: a result, a cancellation or the timeout sweep removes it *)
(* from a map, stores its terminal record and announces it.                *)

Record(t, v) == [task |-> t, verdict |-> v, stage |-> "store"]

\* CompletedTask { completed_at: Utc::now(), .. }
Stamp(t) ==
    /\ clock' = clock + 1
    /\ completed_at' = [completed_at EXCEPT ![t] = clock + 1]

\* Slip: the deadline outlives the entry.
UnrunKeepsDeadline(t) ==
    /\ running' = [running EXCEPT ![t] = NoNode]
    /\ UNCHANGED overdue

Unrun(t) ==
    /\ running' = [running EXCEPT ![t] = NoNode]
    /\ overdue' = overdue \ {t}

\* Slip: an answer is taken whether or not the task still runs.
CompleteUntracked(t, v) ==
    /\ sentTo[t] # <<>>
    /\ v \in ResultStatuses
    /\ Unrun(t)
    /\ finishing' = finishing \cup {Record(t, v)}
    /\ Stamp(t)
    /\ UNCHANGED <<queueVars, completed, results, submitVars, dispVars,
                   cancelling, sweepVars, nodeVars, histVars>>

\* complete_task, the task running.  A node may answer as soon as the task
\* was sent, and any number of times: complete_task ignores an answer for a
\* task that is not running (both branches only log), so such an answer is
\* a step that changes nothing.
CompleteTask(t, v) ==
    /\ sentTo[t] # <<>>
    /\ v \in ResultStatuses
    /\ running[t] # NoNode
    /\ Unrun(t)
    /\ finishing' = finishing \cup {Record(t, v)}
    /\ Stamp(t)
    /\ UNCHANGED <<queueVars, completed, results, submitVars, dispVars,
                   cancelling, sweepVars, nodeVars, histVars>>

\* Slip: the cancelled task stays in its queue.
CancelQueuedKeepsEntry(t) ==
    \E p \in Priorities :
        /\ t \in Range(pending[p])
        /\ finishing' = finishing \cup {Record(t, "Cancelled")}
        /\ Stamp(t)
        /\ UNCHANGED <<queueVars, running, overdue, completed, results,
                       submitVars, dispVars, cancelling, sweepVars, nodeVars,
                       histVars>>

\* cancel_task, first critical section: the task is in a pending queue.
CancelQueued(t) ==
    \E p \in Priorities : \E i \in DOMAIN pending[p] :
        /\ pending[p][i] = t
        /\ pending' = [pending EXCEPT ![p] = RemoveAt(@, i)]
        /\ finishing' = finishing \cup {Record(t, "Cancelled")}
        /\ Stamp(t)
        /\ UNCHANGED <<retry_count, running, overdue, completed, results,
                       submitVars, dispVars, cancelling, sweepVars, nodeVars,
                       histVars>>

\* cancel_task, first critical section: not pending, look among the running.
CancelMissesQueue(t) ==
    /\ arrival[t] # 0
    /\ t \notin cancelling
    /\ \A p \in Priorities : t \notin Range(pending[p])
    /\ cancelling' = cancelling \cup {t}
    /\ UNCHANGED <<queueVars, running, overdue, doneVars, results, submitVars,
                   dispVars, finishing, sweepVars, nodeVars, histVars>>

\* Slip: the entry is read, not removed.
CancelRunningPeeks(t) ==
    /\ t \in cancelling
    /\ running[t] # NoNode
    /\ finishing' = finishing \cup {Record(t, "Cancelled")}
    /\ Stamp(t)
    /\ cancelling' = cancelling \ {t}
    /\ UNCHANGED <<queueVars, running, overdue, completed, results, submitVars,
                   dispVars, sweepVars, nodeVars, histVars>>

CancelRunning(t) ==
    /\ t \in cancelling
    /\ running[t] # NoNode
    /\ Unrun(t)
    /\ finishing' = finishing \cup {Record(t, "Cancelled")}
    /\ Stamp(t)
    /\ cancelling' = cancelling \ {t}
    /\ UNCHANGED <<queueVars, completed, results, submitVars, dispVars,
                   sweepVars, nodeVars, histVars>>

\* Err(HubError::Task("Task not found"))
CancelNotFound(t) ==
    /\ t \in cancelling
    /\ running[t] = NoNode
    /\ cancelling' = cancelling \ {t}
    /\ UNCHANGED <<queueVars, running, overdue, doneVars, results, submitVars,
                   dispVars, finishing, sweepVars, nodeVars, histVars>>

\* Time passes timeout_at of a running task.
DeadlinePasses(t) ==
    /\ running[t] # NoNode
    /\ t \notin overdue
    /\ overdue' = overdue \cup {t}
    /\ UNCHANGED <<queueVars, running, doneVars, results, submitVars, dispVars,
                   finishing, cancelling, sweepVars, nodeVars, histVars>>

\* check_timeouts removes one task while it holds the running lock; `todo`
\* is what it has left to visit, `now` the time it read when it started.
TimeOut(t, todo, now) ==
    /\ t \in todo
    /\ Unrun(t)
    /\ finishing' = finishing \cup {Record(t, "Timeout")}
    /\ completed_at' = [completed_at EXCEPT ![t] = now]
    /\ timed_out' = todo \ {t}
    /\ sweep_now' = IF todo = {t} THEN 0 ELSE now

Sweeping == \E f \in finishing : f.verdict = "Timeout"

\* check_timeouts begins: collect the overdue tasks, remove the first.
BeginSweep(t) ==
    /\ timed_out = {} /\ ~Sweeping
    /\ TimeOut(t, overdue, clock)
    /\ UNCHANGED <<queueVars, completed, clock, results, submitVars, dispVars,
                   cancelling, nodeVars, histVars>>

\* check_timeouts has announced one task and locks the map again; the next
\* task it removes is one that still runs, and it is done when none does.
ContinueSweep(t) ==
    /\ ~Sweeping
    /\ running[t] # NoNode
    /\ TimeOut(t, timed_out, sweep_now)
    /\ UNCHANGED <<queueVars, completed, clock, results, submitVars, dispVars,
                   cancelling, nodeVars, histVars>>

EndSweep ==
    /\ ~Sweeping
    /\ timed_out # {}
    /\ \A t \in timed_out : running[t] = NoNode
    /\ timed_out' = {}
    /\ sweep_now' = 0
    /\ UNCHANGED <<queueVars, running, overdue, doneVars, results, submitVars,
                   dispVars, finishing, cancelling, nodeVars, histVars>>

Stored == {t \in Tasks : completed[t] # "none"}

\* Slip: sorted the other way round.
Newest(S) ==
    {E \in SUBSET S : /\ Cardinality(E) = EvictCount
                      /\ \A e \in E, k \in S \ E :
                             completed_at[e] >= completed_at[k]}

\* The EvictCount oldest records of S; ties are broken by the map's order.
Oldest(S) ==
    {E \in SUBSET S : /\ Cardinality(E) = EvictCount
                      /\ \A e \in E, k \in S \ E :
                             completed_at[e] <= completed_at[k]}

\* store_completed_task: insert, then evict when the map has grown too large.
StoreCompleted(f) ==
    /\ f \in finishing
    /\ f.stage = "store"
    /\ finishing' = (finishing \ {f}) \cup {[f EXCEPT !.stage = "announce"]}
    /\ LET S == Stored \cup {f.task}
           new == [completed EXCEPT ![f.task] = f.verdict]
       IN  \E E \in IF Cardinality(S) > MaxCompleted THEN Oldest(S) ELSE {{}} :
               completed' = [t \in Tasks |-> IF t \in E THEN "none" ELSE new[t]]
    /\ UNCHANGED <<queueVars, running, overdue, completed_at, clock, results,
                   submitVars, dispVars, cancelling, sweepVars, nodeVars,
                   histVars>>

\* Slip: try_send, which gives up on a full channel.
AnnounceOrDrop(f) ==
    /\ f \in finishing
    /\ f.stage = "announce"
    /\ finishing' = finishing \ {f}
    /\ IF Len(results) < ResultCap
       THEN /\ results' = Append(results, f.task)
            /\ reported' = [reported EXCEPT ![f.task] = Append(@, f.verdict)]
       ELSE UNCHANGED <<results, reported>>
    /\ UNCHANGED <<queueVars, running, overdue, doneVars, submitVars, dispVars,
                   cancelling, sweepVars, nodeVars, sentTo>>

\* result_tx.send: waits while the channel is full.
AnnounceResult(f) ==
    /\ f \in finishing
    /\ f.stage = "announce"
    /\ Len(results) < ResultCap
    /\ finishing' = finishing \ {f}
    /\ results' = Append(results, f.task)
    /\ reported' = [reported EXCEPT ![f.task] = Append(@, f.verdict)]
    /\ UNCHANGED <<queueVars, running, overdue, doneVars, submitVars, dispVars,
                   cancelling, sweepVars, nodeVars, sentTo>>

\* main.rs: the only consumer takes the next result and replies to it.
ConsumeResult ==
    /\ results # <<>>
    /\ results' = Tail(results)
    /\ UNCHANGED <<queueVars, running, overdue, doneVars, submitVars, dispVars,
                   finishing, cancelling, sweepVars, nodeVars, histVars>>

-----------------------------------------------------------------------------
(* The nodes, as the scheduler sees them.                                  *)

\* A connection registers its sender and its node.
NodeConnects(n) ==
    /\ n \notin senders
    /\ senders' = senders \cup {n}
    /\ online' = online \cup {n}
    /\ UNCHANGED <<queueVars, running, overdue, doneVars, results, submitVars,
                   dispVars, finishing, cancelling, sweepVars, histVars>>

\* A connection ends and is cleaned up: senders cloned earlier are stale.
\* Running tasks stay where they are.
NodeDisconnects(n) ==
    /\ n \in senders
    /\ senders' = senders \ {n}
    /\ online' = online \ {n}
    /\ stale' = [d \in Dispatchers |->
                    IF n \in snapshot[d] THEN stale[d] \cup {n} ELSE stale[d]]
    /\ UNCHANGED <<queueVars, running, overdue, doneVars, results, submitVars,
                   dpc, level, held, snapshot, cands, target, finishing,
                   cancelling, sweepVars, histVars>>

\* A heartbeat reports the node full, or none came in time.
NodeUnavailable(n) ==
    /\ n \in online
    /\ online' = online \ {n}
    /\ UNCHANGED <<queueVars, running, overdue, doneVars, results, submitVars,
                   dispVars, finishing, cancelling, sweepVars, senders,
                   histVars>>

\* A heartbeat of a connected node reports a free slot.
NodeAvailable(n) ==
    /\ n \in senders \ online
    /\ online' = online \cup {n}
    /\ UNCHANGED <<queueVars, running, overdue, doneVars, results, submitVars,
                   dispVars, finishing, cancelling, sweepVars, senders,
                   histVars>>

-----------------------------------------------------------------------------
DispatchStep(d) ==
    \/ BeginDispatch(d)
    \/ SkipEmpty(d)
    \/ EndDispatch(d)
    \/ PopTask(d)
    \/ SelectCandidates(d)
    \/ \E n \in Nodes : SendTask(d, n) \/ SendFails(d, n)
    \/ InsertRunning(d)
    \/ Requeue(d)

CancelStep(t) ==
    \/ CancelQueued(t)
    \/ CancelMissesQueue(t)
    \/ CancelRunning(t)
    \/ CancelNotFound(t)

SweepStep ==
    \/ \E t \in Tasks : BeginSweep(t) \/ ContinueSweep(t)
    \/ EndSweep

FinishStep ==
    \E f \in finishing : StoreCompleted(f) \/ AnnounceResult(f)

NodeStep(n) ==
    \/ NodeConnects(n)
    \/ NodeDisconnects(n)
    \/ NodeUnavailable(n)
    \/ NodeAvailable(n)

Next ==
    \/ \E t \in Tasks : SubmitTask(t)
    \/ \E d \in Dispatchers : DispatchStep(d)
    \/ \E t \in Tasks, v \in ResultStatuses : CompleteTask(t, v)
    \/ \E t \in Tasks : CancelStep(t)
    \/ \E t \in Tasks : DeadlinePasses(t)
    \/ SweepStep
    \/ FinishStep
    \/ ConsumeResult
    \/ \E n \in Nodes : NodeStep(n)

Spec == Init /\ [][Next]_vars

-----------------------------------------------------------------------------
(* Fairness.  Heartbeats keep calling dispatch_pending_tasks while a node  *)
(* is connected, the background loop sweeps every ten seconds, time        *)
(* passes, and an operation that was started is driven to its end by the   *)
(* runtime.  Submissions, results, cancellations and connections are not   *)
(* fair: nothing obliges users and nodes to act.                           *)
Fairness ==
    /\ \A d \in Dispatchers : WF_vars(DispatchStep(d))
    /\ \A t \in Tasks : WF_vars(\E f \in finishing :
                            f.task = t /\ (StoreCompleted(f) \/ AnnounceResult(f)))
    /\ \A t \in Tasks : WF_vars(DeadlinePasses(t))
    /\ WF_vars(SweepStep)
    /\ WF_vars(ConsumeResult)

FairSpec == Spec /\ Fairness

-----------------------------------------------------------------------------
(* Properties.                                                             *)

Queued(t) == \E p \in Priorities : t \in Range(pending[p])
Held(t) == \E d \in Dispatchers : held[d] = t
Running(t) == running[t] # NoNode
Closing(t) == \E f \in finishing : f.task = t
Reported(t) == reported[t] # <<>>

\* A submitted task is never lost: whatever the interleaving of dispatchers,
\* cancellations, results and sweeps, it is queued, in the hands of
\* schedule_next, running, being closed, or its result was announced.
NeverLost ==
    \A t \in Tasks :
        arrival[t] # 0 <=>
            Queued(t) \/ Held(t) \/ Running(t) \/ Closing(t) \/ Reported(t)

\* A task is in one place only: no two of the pending queues, the
\* dispatchers, the running map and the closing operations own it at once,
\* and none of them owns it after its result was announced.
OnePlace ==
    \A t \in Tasks :
        /\ Queued(t) => ~Held(t) /\ ~Running(t) /\ ~Closing(t) /\ ~Reported(t)
        /\ Held(t) => ~Running(t) /\ ~Closing(t) /\ ~Reported(t)
        /\ Running(t) => ~Closing(t) /\ ~Reported(t)
        /\ Closing(t) => ~Reported(t)

\* From its submission on a task is in exactly one place, at every point
\* between two locks of schedule_next, cancel_task, complete_task and
\* check_timeouts.
ExactlyOnePlace == NeverLost /\ OnePlace

\* Requeueing after failed sends never makes schedule_next assign a task a
\* second time: at most one TaskAssignment leaves the Hub for it.
AssignedAtMostOnce == \A t \in Tasks : Len(sentTo[t]) <= 1

\* complete_task, cancel_task and check_timeouts race for a task, and exactly
\* one of them announces a result for it on result_tx.
ReportedAtMostOnce == \A t \in Tasks : Len(reported[t]) <= 1

\* The status get_task_status answers for a finished task is the one that was
\* announced: a late result does not override a terminal status.
RecordMatchesReport ==
    \A t \in Tasks :
        completed[t] # "none" =>
            \/ reported[t] = <<completed[t]>>
            \/ \E f \in finishing : /\ f.task = t
                                    /\ f.verdict = completed[t]
                                    /\ f.stage = "announce"

\* store_completed_task only forgets a record when enough records that are no
\* older stay: a client polling a recent task still finds its status.
EvictionKeepsRecent ==
    [][\A t \in Tasks :
           completed[t] # "none" /\ completed'[t] = "none" =>
               Cardinality({u \in Tasks : /\ completed'[u] # "none"
                                          /\ completed_at[u] >= completed_at[t]})
                   >= MaxCompleted + 1 - EvictCount]_vars

\* t may be ahead of u in a queue: it was submitted first or, with several
\* dispatchers, both were popped and put back.
InOrder(t, u) ==
    \/ arrival[t] < arrival[u]
    \/ /\ \E d, e \in Dispatchers : d # e
       /\ retry_count[t] > 0
       /\ retry_count[u] > 0

\* The queues keep the order of submission but for tasks that schedule_next
\* put back at the front: two of these may have changed places when different
\* dispatchers held them, and with one dispatcher never.  A task that was
\* never put back is overtaken by none that was submitted after it.
QueuesInArrivalOrder ==
    \A p \in Priorities : \A i, j \in DOMAIN pending[p] :
        i < j => InOrder(pending[p][i], pending[p][j])

\* A task a node may answer for is one complete_task knows: it ignores the
\* result of a task that is neither running nor closed as one that "is no
\* longer tracked".
AnswerableIsTracked ==
    \A t \in Tasks : sentTo[t] # <<>> => Running(t) \/ Closing(t) \/ Reported(t)

\* A task that reached a node is closed and announced in the end, whether or
\* not the node ever answers: the sweep closes it.
RunningIsReported == \A t \in Tasks : Running(t) ~> Reported(t)

\* A task no node fits is in front of t, or is t itself: schedule_next tries
\* the head of a queue only, and puts it back at the front for ever.
Blocked(t) ==
    \E u \in Tasks : /\ Prio[u] = Prio[t]
                     /\ Fits[u] = {}
                     /\ Queued(u) \/ Held(u)

\* When the nodes stay connected, available and drained, a submitted task is
\* dispatched and announced in the end, unless its own queue is blocked by a
\* task no node fits: concurrent dispatchers, stale snapshots of the senders
\* and a blocked queue of a higher priority do not starve it.
SubmittedIsReported ==
    \A t \in Tasks :
        <>[](senders = Nodes /\ online = Nodes /\ ~Blocked(t)) =>
            (arrival[t] # 0 ~> Reported(t))

-----------------------------------------------------------------------------
(* The inductive invariant behind the properties above.                    *)

\* A dispatcher carries a task exactly between popping it and either
\* recording it as running or requeueing it; the loop is then at a priority.
DispatcherShape ==
    \A d \in Dispatchers :
        /\ held[d] \in Tasks <=> dpc[d] \in {"popped", "send", "sent"}
        /\ held[d] \in Tasks => level[d] \in Priorities
        /\ dpc[d] = "sent" => target[d] \in Nodes

\* Each place holds a task once.
QueuedOnce ==
    \A p \in Priorities :
        /\ IsInjective(pending[p])
        /\ \A q \in Priorities \ {p} :
               Range(pending[p]) \cap Range(pending[q]) = {}

HeldOnce ==
    \A d, e \in Dispatchers : held[d] \in Tasks /\ held[d] = held[e] => d = e

ClosingOnce == \A f, g \in finishing : f.task = g.task => f = g

OverdueRuns == \A t \in overdue : Running(t)

\* A task that was sent has left the queues for good: it is closed or
\* running, or its dispatcher is about to record it as running.
SentIsPlaced ==
    \A t \in Tasks :
        sentTo[t] # <<>> =>
            \/ Running(t) \/ Closing(t) \/ Reported(t)
            \/ \E d \in Dispatchers : held[d] = t /\ dpc[d] = "sent"

\* What ties the maps, the dispatchers and the closing operations together:
\* each place holds a task once, a deadline belongs to a running task, and a
\* task that was sent is never queued again, at every point between two locks.
Bookkeeping ==
    /\ DispatcherShape
    /\ QueuedOnce
    /\ HeldOnce
    /\ ClosingOnce
    /\ OverdueRuns
    /\ SentIsPlaced

Inv ==
    /\ TypeOK
    /\ Bookkeeping
    /\ NeverLost
    /\ OnePlace
    /\ AssignedAtMostOnce
    /\ ReportedAtMostOnce
    /\ RecordMatchesReport

-----------------------------------------------------------------------------
(* The scheduler implements TaskLifecycle.  A task in a dispatcher's hands *)
(* is still queued; its verdict is decided when it leaves its map.         *)
Lifecycle == INSTANCE TaskLifecycle WITH
    phase <- [t \in Tasks |->
                 IF Closing(t) \/ Reported(t) THEN "closed"
                 ELSE IF Running(t) THEN "running"
                 ELSE IF Queued(t) \/ Held(t) THEN "queued"
                 ELSE "unknown"],
    verdicts <- [t \in Tasks |->
                    {f.verdict : f \in {g \in finishing : g.task = t}}
                        \cup Range(reported[t])],
    announced <- [t \in Tasks |-> Len(reported[t])]

\* Every behaviour of the scheduler is one TaskLifecycle allows: queued once,
\* started at most once, one verdict, announced once.
ImplementsLifecycle == Lifecycle!Spec

=============================================================================
