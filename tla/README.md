# uHorse: TLA+ specifications

uHorse runs commands on users' machines. A **Hub** accepts tasks (from an HTTP
API or a chat channel), queues them by priority, and hands each to a connected
**node**. The node asks its permission rules, possibly waits for an approval
that is decided at the Hub, executes the command and sends the result back; the
Hub records it, continues the conversation it belongs to, and replies to whoever
asked. Both programs are asynchronous Rust on tokio: their state sits in maps
behind separate locks, and the code awaits between one critical section and the
next. That is where this code is hard to test, and what these specifications are
about.

The specifications follow the source under `src/crates/`. `PROJECT.json` maps
every definition to the lines it models, and lists runs, findings, hazards,
mutants and theorems.

## 1. Inventory

### The Hub (`uhorse-hub`, `uhorse-security`)

| Part | State | Operations | What makes it hard, and what makes it correct |
|---|---|---|---|
| Task scheduler (`task_scheduler.rs`) | `pending_tasks` (one queue per priority), `running_tasks`, `completed_tasks`, `task_counter`, the `result_tx` channel | `submit_task`, `schedule_next`, `complete_task`, `cancel_task`, `check_timeouts`, `store_completed_task`, status queries | Three locks, never held together: a task is in no map while an operation carries it. No task lost, none in two places, one assignment, one result, the recorded status is the announced one |
| Dispatch loop (`hub.rs`) | none; clones the senders | `dispatch_pending_tasks`, called on submission, heartbeat, result, connection; a ten-second tick runs both sweeps | Any number of callers at once, each with a snapshot of the senders that ages. Every task is dispatched in the end |
| Node sessions (`web/ws.rs`) | one channel and two spawned tasks per connection | register, dispatch the backlog, acknowledge, forward, receive, clean up | Keyed by node id, not by connection: a reconnection overlaps the cleanup of the previous one. No stale entries; a reconnected node is reachable; setup and cleanup end |
| Node manager (`node_manager.rs`) | `nodes`, `workspace_index` | `register_node`, `unregister_node`, `update_heartbeat`, `check_timeouts`, queries | Two maps to keep consistent, a limit, timeouts racing heartbeats |
| Message router (`message_router.rs`) | `node_senders` | `register_node_sender`, `unregister_node_sender`, `route` by message type, approval requests, notification mirroring | Several awaits per message; a message of a node that has just gone |
| Session runtime (`session_runtime.rs`) | lanes, turns, transcripts, task-to-session bindings | `run_serialized`, `start_turn`, `begin_tool_call`, `bind_task_to_turn`, `take_task_binding`, `complete_turn`, `cancel_turn` | One turn per session, stored under the session: a newer message replaces it. A result may arrive before its binding is made |
| Web API, channel replies (`web/mod.rs`) | reply routes | `submit_dingtalk_task`, `reply_task_result` and the continuation of a turn, `cancel_task`, `decide_approval`, account pairing | A message answered once, within its step budget, and in the end; a decision recorded before its node is told |
| Approval manager (`approval.rs`, `idempotency.rs`, `security_integration.rs`) | `pending`, `history`, `user_requests`, idempotency records | `create_request`, `approve_request`, `reject_request`, `cancel_request`, `cleanup_expired`, the expiry task, queries | Three locks taken in two orders. Decided once, recorded before it is told, one approval per request |
| Device pairing (`pairing.rs`) | `devices`, `pairing_requests`, `code_to_request`, notification bindings | `initiate_pairing`, `confirm_pairing`, `cancel_pairing`, the expiry task, `get_pairing_status`, `unpair_device` | Three locks in different orders, codes drawn at random. A code pairs one user, once |

### The node (`uhorse-node-runtime`, `uhorse-node-desktop`)

| Part | State | Operations | What makes it hard, and what makes it correct |
|---|---|---|---|
| Connection loop (`connection.rs`) | connection state, `running`, attempts, both channel ends | connect, register, one `select!` over socket, outbound channel and heartbeat, retry, give up, `start`, `stop` | Waits for the handler inside a `select!` branch; `stop` waits for nobody and both write the state. Reports get out, loops end, the displayed state is true |
| Message handler (`node.rs`) | `running_tasks`, notification state | assignment, cancellation, approval response, permission update, `start`, `stop` | Four paths to one result, mixed with cancellations and expiry. One execution, one answer, only with permission |
| Permission manager (`permission.rs`) | rules, `pending_approvals` | `check`, `request_approval`, `handle_approval_response`, `cleanup_expired` | Decisions after expiry |
| Desktop application state (`app_state.rs`) | `lifecycle_state`, the node it holds, settings | `start_node`, `stop_node`, `recover_connection`, settings, launch agent, status | A recovery takes the lock three times and the user acts in between. No node runs that the application does not hold |

### Interaction

The Hub and a node exchange messages over one WebSocket per connection; inside
each program the socket is decoupled by bounded channels (100 messages). The
Hub sends `TaskAssignment`, `TaskCancellation`, `ApprovalResponse`,
`PermissionUpdate` and heartbeat requests; the node sends the registration,
heartbeats, `TaskResult`, `ApprovalRequest` and notifications. Results flow
from `complete_task` through `result_tx` (1000 results) to a single consumer in
`main.rs`, which resumes the turn the task is bound to. Operators decide
approvals and users pair devices through the HTTP API and the chat channel.

### The rest of the repository

`uhorse-queue` and `uhorse-scheduler` (cron) have no caller; `uhorse-discovery`,
`uhorse-gateway`, `uhorse-webhook`, the cache, backup, SSO, SIEM, GDPR and
governance crates are not wired into the path a task takes, or are clients of
services. Configuration is parsing and wizards over files, storage is SQL; the
channel, LLM, agent, multimodal and integration crates call external services;
observability is output. The CLIs, the desktop front end and the dashboards are
front ends. `PROJECT.json` lists each with its reason, and section 5 says what
that means for the share of the source that is modelled.

## 2. Modules

| Module | Models |
|---|---|
| `TaskLifecycle` | Abstract: what the Hub promises about one task |
| `TaskScheduler` | The scheduler, the dispatch loop and the sweep; implements `TaskLifecycle` |
| `NodeSessions` | `handle_socket`, the routing table, the registry and the workspace index |
| `SessionTurns` | Conversations: turns, bindings, continuation and replies |
| `Approvals` | The approval manager, the idempotency cache, `decide_approval` |
| `DevicePairing` | The pairing manager and the notification binding |
| `NodeRuntime` | What a node does with messages: connection loop, handler, pending approvals |
| `NodeLink` | The life cycle of nodes and of their connection loops |
| `NodeDesktop` | The desktop application over the nodes of `NodeLink` |
| `TaskSchedulerProofs`, `NodeSessionsProofs`, `SessionTurnsProofs`, `ApprovalsProofs`, `DevicePairingProofs`, `NodeRuntimeProofs`, `NodeDesktopProofs` | Theorems (section 4) |
| `QueueTheorems` | Lemmas about sequences used as queues, shared by the proofs |
| `MC...` | Small instances for TLC |

Definitions preceded by the comment *Slip* are deliberately wrong variants of
the definition that follows them, none of which `Next` uses. Each stands for a
plausible mistake in the code and is put in place of the real definition to
show that a property notices it (`PROJECT.json`, `mutants`).

### TaskScheduler

The three maps are `pending`, `running` and `completed`; `results` is the
channel, and every action is one critical section or one await. In between, a
task is carried by its operation: `held[d]` from `queue.remove(0)` to
`running_tasks.insert` or the requeueing, `finishing` from the removal of a task
from a map to its announcement. So `schedule_next` is

    BeginDispatch -> SkipEmpty* -> PopTask -> SelectCandidates
                  -> (SendFails* -> SendTask -> InsertRunning | Requeue -> ...)
                  -> EndDispatch

for each of several `Dispatchers`, `cancel_task` is `CancelQueued`, or
`CancelMissesQueue` and then `CancelRunning` or `CancelNotFound`,
`complete_task` is `CompleteTask`, and `check_timeouts` is `BeginSweep`,
`ContinueSweep` and `EndSweep`; the last two and `cancel_task` share
`StoreCompleted` and `AnnounceResult`.

Abstractions. The requirements of a task are the set of nodes that fit it
(`Fits`); the order of candidates by load is left open, so every order is
covered. Times are reduced to what is compared: `completed_at` is a logical
clock, a deadline either has passed or not, and time may pass at any moment. A
result for a task that is not running changes nothing in the code and is a
stuttering step. The nodes are seen as the scheduler sees them
(`NodeConnects`, `NodeDisconnects`, `NodeUnavailable`, `NodeAvailable`): that
a connection is set up and cleaned up in several steps, and that a send can
wait for room, is the subject of `NodeSessions`. A task's id is drawn and the
task pushed in one step; only the order of the pushes matters here.

### NodeSessions

One handler per connection: `pc[c]` walks through `handle_socket`, `recv[c]`
is the receiving task, `rx[c]` says who owns the receiving end of the
connection's channel, and `chan[c]` counts the messages in it. The tables
`senders`, `state`, `workspace` and `index` are keyed by node, as in the code;
`UnregisterSender` and `UnregisterNode` therefore act on the node's entry
whichever connection it belongs to. Dispatching appears as far as it touches
channels: pending tasks are counted, and a dispatcher that sends into a full
channel waits, whichever connection it belongs to: the setup of a connection, a
heartbeat (`Heartbeat`), a result (`ResultRead`) and a submission all dispatch. A
node may supply its workspace id (`IdOf`) or leave it to `derive_workspace_id`;
derived ids differ from node to node, supplied ones need not. A node may
reconnect before the Hub has noticed the end of its previous connection;
`overlapping` is a history variable that records the connections opened so.
`NodeToHub::Unregister` has a branch in the router, but no node sends it, and it
is left out.

### SessionTurns

Each message has a handler of its own (`process_dingtalk_task_serialized`), and
one `Consumer` takes the results (`reply_task_result`); `pc` and `job` say where
each is and which task it has in hand. `lane[s]` is the lock of a session,
`turn[s]` the session's current turn, `bound` the task bindings and `routes` the
reply routes. A message is

    StartTurn -> PlanReply -> SendReply
              or PlanTask -> SubmitTask -> BindTask -> MarkWaiting -> InsertRoute

and a result is `TakeResult` (outside the lane), `ObserveResult`, `SkipCancelled`
or `MissRecord` (the record was evicted), `ResumeTurn`, `PlanContinuation`, and
then the next tool call, a local skill (`ContinueLocally`) or the reply followed
by the completion of the turn. Any of them can fail where the code has a `?`: a
message's failure is replied to (`ReplyError`), a continuation's is only logged.
Approval requests and cancellations look the binding up in one step and change
the session's turn, whichever that is by then, in the next.

Abstractions. What the planner decides is nondeterministic; a planner's retry is
part of its step. Transcripts, wording and the compaction of turns are left out.
The scheduler is `TaskEnds`: it reports each task once, which is proved
(`SingleReport`). The session key of a sender with a corporation id is rebuilt
without it on a local continuation, so `complete_turn` then misses the turn
(`InTeam`). A new message of a session may come at any time and replaces the
session's turn, with its step count and its cancel flag, as `start_turn` does.
Two history variables make this visible: `paid[t]` is the message whose turn
task `t` took its step from, and `stopped` the messages that were cancelled with
a result outstanding and whose turn was not replaced since. An error reply may
fail, and is then only logged.

### Approvals

`Handlers` route a node's `ApprovalRequest`: the idempotency cache is checked,
the request created, listed under its user, and the response stored, four steps
with an await between each. `Operators` run `decide_approval`: look the request
up, decide, move it to the history, unlist it, look it up again and tell the
node. `plock` and `ulock` are the locks of `pending` and `user_requests`, kept
across steps where the code keeps the guard; the lock of `history` is only ever
taken by who holds the one of `pending` and is left out. `carried` is a request
on its way between the maps. `TimerFires` is the expiry task, which locks
`pending` a second time while its first guard is alive; `Sweep` is
`cancel_request` and `cleanup_expired`; `ListUser` is
`get_user_pending_requests`, which takes the locks in the other order. Times are
two facts: the sleep of the expiry task is over (`due`), and `is_expired()`
holds (`expired`), which is later because it compares with `>`.

Telling the node is three steps: the sender is looked up (`FindSender`), the
message waits for room in the node's bounded channel (`Notify`), or the channel
is closed meanwhile (`SendFails`). `outbox` is that channel as a decision sees
it: absent, with room, full, or full for ever because its session is stuck in its
setup (`NodeSessions`). `raced` is a history variable: the requests that two
handlers, of overlapping connections of the node, were serving at the same time.
`create_request` can also approve or reject at once by rule; `main.rs` configures
no rules (line 250), so these branches are not reached in the Hub.

### DevicePairing

`rlock` and `dlock` are the writers of `pairing_requests` and `devices`, `cread`
and `dread` the readers of `code_to_request` and `devices` that go on to wait for
another lock; shorter holds are the actions themselves. `initiate_pairing` is
three steps, `confirm_pairing` is `ConfirmLook`, `ConfirmExpired` or
`ConfirmLock`, `ConfirmDevice`, `ConfirmClean`, and then the binding is made.
Codes may collide, since they are drawn and not checked. `Close` and `CloseCode`
are `cancel_pairing` and the expiry task. One client initiates pairings, one after
the other; initiations hold one lock at a time and so wait for nobody while they
hold it.

### NodeRuntime

Two processes, `link` (the connection loop) and `hpc` (the handler), with the
channels `inbound` and `outbound` between them and `wire` for what is on the
socket. The Hub is the environment (`HubSends`): it assigns a task once (proved
for the scheduler, `SingleAssignment`), cancels only what it assigned, and
decides a request once and only after it has received it. What the permission
rules say of a task is a constant, and may be more than one outcome because
`PermissionUpdate` changes the rules. After `Stop` each loop may finish the
step it is in; a loop that sees the flag ends. The status task and the workspace
watcher only send notifications (`Notify`). `Jammed` is when the handler waits
for room in `outbound` and the loop for room in `inbound`: neither then looks at its
flag. A write to a live socket completes:
`connection.rs:424` has no timeout, and back-pressure of TCP that outlasts
everything else is not modelled.

### NodeLink and NodeDesktop

`NodeLink` keeps, per start `i`, the two flags (`up[i]` of the node,
`running[i]` of its connection), the displayed `state[i]`, the place of the
connection loop with its attempts, socket and confirmation, the handler, and the
numbers of messages in the two channels between them (`inq`, `outq`). The handler
may have to wait for room in the outbound channel (`HandlerSends`) and the loop
for room in the inbound one (`Forward`). Loops and handlers of a stopped node live
on until they next look at their flag. `NodeDesktop` adds the application:
`start_node` and `stop_node` hold its lock from begin to end (`holder`),
`recover_connection` looks, stops and starts under three separate locks, and the
user's calls come in between.

Abstractions. Each start has a node of its own, as in both programs that use it.
`Connected` is overwritten by `Authenticating` before anything is sent or
received, and is passed over. The handler's first look at
the flag is part of the start. `Node.stop` has no failing path. The heartbeat's
interval is not timed: a turn of `select!` ends in the end.

## 3. Runs

`V` marks a run in which TLC finds the property violated by what the code does;
each is a finding.

| Run | Properties | Instance |
|---|---|---|
| `scheduler_safety` | `ExactlyOnePlace` `AssignedAtMostOnce` `ReportedAtMostOnce` `RecordMatchesReport` `QueuesInArrivalOrder` `EvictionKeepsRecent` `ImplementsLifecycle` | 2 tasks, 2 dispatchers, 1 node, a completed map of 1, a result channel of 1 |
| `scheduler_progress` | `RunningIsReported` `SubmittedIsReported` | 2 tasks in the last of 2 queues, one of which no node fits, 2 dispatchers, 1 node, a result channel of 1, fair |
| `scheduler_early_answer` V | `AnswerableIsTracked` | as `scheduler_safety` |
| `session_tables` | `NoGhosts` `IndexExact` `RoutableUnlessOverlapped` | 3 nodes, 4 connections, two of which supply the same workspace id, 2 registry slots |
| `session_progress` | `TypeOK` `SetupCompletes` `DroppedIsCleaned` | 2 nodes with a connection each, channels of 1, 3 submissions, fair |
| `session_overlap` V | `ReconnectedIsRoutable` | 1 node, 2 connections |
| `turns` | `AnsweredOnce` `NoStaleBinding` `StepsBounded` `CancelledIsNotAnswered` `MessageSettles` | 2 messages of one session, overlapping or not, 2 task ids, a budget of 1 step, fair |
| `approvals` | `TypeOK` `InOneMap` `ToldMatchesRecord` `OneApprovalPerAsk` `HistoryIsFinal` `DecisionReturns` | 1 request delivered up to 2 times over 2 connections, 2 operators, fair |
| `approval_expiry` V | `ExpiredIsArchived` | 1 request, 1 operator, fair |
| `pairing` | `ConfirmedOnce` `PendingHasCode` `ConfirmReturns` | 1 device, 2 requests, 2 codes, 2 users, fair |
| `node_safety` | `TypeOK` `ExecutedIsPermitted` `AnsweredAtMostOnce` `UnansweredWaits` `ReportsGetOut` `StoppedComesToRest` `GivesUp` | a gated and an ungated task, channels of one slot, 1 reconnection in a row, fair |
| `desktop` | `OnlyHeldNodeRuns` `RunningMeansUp` `RestIsDisconnected` `RecoveryReplaces` | 2 starts, 1 reconnection in a row each, channels of 1 |

What they show:

- **Scheduler.** No interleaving of concurrent dispatchers, results,
  cancellations, sweeps, evictions and flapping connections loses a task, owns
  it twice, sends it twice or announces it twice; the status kept is the one
  announced; an eviction only drops records when enough no older ones remain.
  A task is behind one submitted after it only if both were popped and put back
  by different dispatchers (nothing in the repository says this may not happen).
  Everything that reached a node is announced in the end, by the sweep if nothing
  else, and so is everything submitted, once its nodes stay and no task that fits
  no node is in its queue: such a task is put back at the front for ever, but it
  holds up its own queue only, and cancelling it releases what is behind it.
- **Sessions.** Whichever way `handle_socket` ends, and whichever connection's
  entry a cleanup hits, neither table keeps an entry that no connection will
  clean up. `workspace_index` never names a node by an id it no longer has, and
  misses a registered node only when another node supplied the same id: the later
  registration overwrites the entry, and the end of either removes it. An open
  session keeps its entries through timeouts, heartbeats, refusals and other
  nodes' cleanups; overlapping connections of one node (finding 2) are the only
  way to lose them.
- **Conversations.** A message is answered once; an error reply may come on top
  when the acknowledgement failed after the task was submitted. No turn pays for
  more than `max_steps` tasks; the budget is the turn's, so a chain that goes on
  after a newer message spends the newer turn's steps. A binding outlives its
  result only when the result came first. A message cancelled before its result
  was taken is not answered from the result, unless a newer message replaced the
  turn and the flag with it. Every message whose tasks end is answered, or skipped
  because its session's turn was cancelled, or left unanswered in a known way: its
  result came before its binding, or the reply, the error reply or the
  continuation failed and was only logged.
- **Approvals.** Whoever can read the maps finds every request in one of them; a
  decision is final and the node is told what is on record, except that a
  decision after the expiry is recorded as `TimedOut` and told as made. A
  request delivered again creates a second approval only when its idempotency
  record has expired, or when two connections delivered it at the same time: the
  cache is checked before the approval is created and written after.
- **Pairing.** Of two users who send the same code one is confirmed, and not for
  a request that was cancelled or has expired by then; a pending request is
  found by its code unless another drew the same.
- **Node.** A gated command is executed only after an approval, a denied one
  never; a task is executed and answered at most once. Every task the handler has
  started is answered, in its hands, waiting for its approval, or was decided
  after its request had expired. A report gets out, a stopped node's loop and
  handler end, and reconnections in a row are bounded, all unless loop and handler
  are jammed.
- **Desktop.** However starts, failing starts, stops and recoveries interleave,
  no node runs that the application does not hold, `Running` is displayed
  exactly when its node is up, a loop that has ended shows `Disconnected`, and a
  recovery never ends with the node it found.

Findings:

1. `scheduler_early_answer`: the assignment is sent (`task_scheduler.rs:390`)
   before `running_tasks.insert` (line 414). An answer in between is dropped as
   one for a task "no longer tracked"; the task is then inserted and is
   reported as `Timeout` although its node has answered.
2. `session_overlap`: the cleanup of an old connection (`ws.rs:186`) removes the
   sender and registration of the connection that replaced it. The node's
   heartbeats then fail with `NodeNotFound`, and it gets no task until it
   reconnects again.
3. `approval_expiry`: the expiry task takes `pending.write()` in the condition of
   an `if let` (`approval.rs:392`), whose guard lives to the end of the body, and
   takes it again inside (line 396). It waits for itself, the request is never
   moved to the history, and every later operation on approvals waits behind it.

Some liveness properties hold only up to states the code cannot leave, and name
them:

- `SetupCompletes`: a new connection dispatches the backlog into its own channel
  before the only reader of that channel is spawned. With more pending tasks
  than the channel holds, the handler waits for ever; so do setups that wait for
  room in each other's channels (`Stuck`). `DroppedIsCleaned`: a `recv_task` whose
  dispatch waits for such a session never gets to the end of its own socket
  (`Jammed`).
- `ReportsGetOut`: the connection loop waits for room in the inbound channel and
  only it drains the outbound one, while the handler waits for room in the
  outbound channel before it takes the next inbound message. `StoppedComesToRest`
  and `GivesUp` name the same state (`Jammed` of `NodeRuntime`).
- `DecisionReturns`: the expiry task of finding 3; and a decision that holds
  `pending` and waits for `user_requests`, against `get_user_pending_requests`,
  which holds `user_requests` and waits for `pending`; and a decision that waits
  for room in the channel of a session that is stuck.
- `ConfirmReturns`: a confirmation that holds the codes and waits for the
  requests, against a cancellation, an expiry or another confirmation that holds
  the requests and waits for the codes; and a confirmation that holds the
  requests and waits for the devices, against a status poll that holds the
  devices and waits for the requests (`Circle`).

Other things the models made visible:

- A cancellation leaves the task's approval request pending at the node, and a
  later approval executes the cancelled task (`ExecutedIsPermitted` allows it:
  the Hub did approve).
- An approval decided after it expired leaves its task in the node's
  `running_tasks` with no result, since `?` leaves `handle_hub_message` before
  the removal and nothing calls `cleanup_expired` (`UnansweredWaits`).
- A message sent while the previous one of its session is being cancelled replaces
  the cancelled turn, and the result of the cancelled task is then used to answer;
  or the cancellation, which acts on the session's turn, hits the newer message
  (`CancelledIsNotAnswered` says when).

### Bounds

Two tasks and two dispatchers are enough for every race of two operations for
one task while another task is queued, held, running or being closed; the locks
make longer chains sequences of such pairs. `MaxCompleted = 1` makes the second
stored record evict, `ResultCap = 1` makes announcements wait, `MaxRetries`
of 1 reaches both branches of the retry count. In `scheduler_progress` the task no
node fits comes before or after the other in the same queue.

In `session_tables` two connections of one node overlap, a third node is refused
when both registry slots are taken, and the node that comes back does so under an
id that another supplied. No task is submitted there, since the tables do not depend
on tasks; `session_progress` is about channels, with a connection per node. A
channel of 1 stands for the code's 100, since what matters is whether the backlog is
larger; three submissions fill the channel of a session in its setup, let its own
dispatch wait for room in it, and that of the other connection as well.

In `turns` both messages share a session because only then do they meet. With
`MaxSteps = 1` a message's first task uses up its turn's budget, and its chain goes
on only when the other message has replaced the turn: the continuation then spends
the newer turn's step, the case in which the budget could be overdrawn.

In `approvals` one request comes on two connections at once, or a second time within
the life of its record or after it; `OneApprovalPerAsk` speaks of a handler that is
about to create a second approval, so one id is enough. The Hub asks for single
approvals only (`message_router.rs:214`), so `Levels = {1}`; that requests needing
more are in one map, are decided finally and create no second approval is proved for
all levels (section 4).

In `pairing` two requests of one device and two codes cover collisions and
replacements, two users the race for one code. In `NodeRuntime` channels of one
slot make every send wait at some point; `MaxAttempts` reaches both retrying and
giving up. Two starts in `desktop` let the loop and handler of an old node run
beside those of its successor. `MaxSubmissions`, `MaxNotices`, `MaxStarts` and
`Deliveries` bound counters that would otherwise grow.

The behaviours of all modules but the scheduler's may end: connections, starts,
messages, requests and pairings are used once, a stopped node does nothing, and
some deadlocks of the code are themselves reachable and named above. Those runs do not
check deadlock; the scheduler's do.

Symmetry is used in `scheduler_safety` only (no liveness there): dispatchers run
the same code, and the tasks have the same priority and needs.

### Fairness

- `TaskScheduler`: weak fairness of each dispatcher (every heartbeat of every
  connected node calls `dispatch_pending_tasks`), of each closing operation
  (tokio drives a future that is ready), of the sweep (ten-second tick), of
  the consumer and of the passing of time. Submissions, answers, cancellations
  and connections are not fair: users and nodes may stay silent.
  `SubmittedIsReported` is conditional on the nodes staying available and on no
  task without a node staying in the queue.
- `NodeSessions`: weak fairness of each handler, each `send_task` and each
  dispatcher; strong fairness of `RecvTaskEnds`, because only finitely many
  messages are buffered ahead of the end of a dead socket, so a `recv_task`
  that keeps coming back to it gets there.
- `SessionTurns`: weak fairness of every handler that has begun and of the
  consumer. New messages, approvals, cancellations and the ends of tasks are not
  fair: a task no node fits never ends, and `MessageSettles` is about messages whose
  tasks do.
- `Approvals`: strong fairness of the operators' and the expiry task's steps, which
  wait for locks, because tokio's locks are fair: who waits is served in turn; weak
  fairness of `OutboxDrains`, the `send_task` of a session that is open. Deliveries,
  handlers, decisions, the sweep's beginning, what becomes of the node's session and
  the passing of time are not fair.
- `DevicePairing`: weak fairness of the steps of a confirmation.
- `NodeRuntime`: weak fairness of both loops; strong fairness of `SendOutbound`,
  because `select!` polls its branches in random order, and a branch that is
  ready again and again is taken. The Hub, the network, expiry and `Stop` are
  not fair.

## 4. Proofs

Every theorem holds for all values of the constants that satisfy the named
assumptions, which TLC evaluates in every run. Two theorems need more, which is
under *Given*.

| Module | Theorem | Statement | Given |
|---|---|---|---|
| `TaskSchedulerProofs` | `TypeCorrect` | `Spec => []TypeOK` | |
| | `Invariance` | `Spec => []Inv` | |
| | `TaskConservation` | `Spec => []ExactlyOnePlace` | |
| | `SingleAssignment` | `Spec => []AssignedAtMostOnce` | |
| | `SingleReport` | `Spec => []ReportedAtMostOnce` | |
| | `StableStatus` | `Spec => []RecordMatchesReport` | |
| | `Refinement` | `Spec => ImplementsLifecycle` | |
| | `ArrivalOrder` | `Spec => []QueuesInArrivalOrder` | `MaxRetries > 0` |
| | `RecentRecordsStay` | `Spec => EvictionKeepsRecent` | |
| | `CompletedBounded` | `Spec => []StoreBounded` | `EvictCount > 0` |
| `NodeSessionsProofs` | `TypeCorrect` | `Spec => []TypeOK` | |
| | `GhostFree` | `Spec => []NoGhosts` | |
| | `IndexInverse` | `Spec => []IndexExact` | |
| | `ReconnectedRoutable` | `Spec => []RoutableUnlessOverlapped` | |
| `SessionTurnsProofs` | `ChainInvariant` | `Spec => [](Typed /\ Chain)` | |
| | `OneAnswer` | `Spec => []AnsweredOnce` | |
| | `BindingsConsumed` | `Spec => []NoStaleBinding` | |
| | `TurnInvariant` | `Spec => [](Typed /\ Chain /\ Budget /\ Stopped)` | |
| | `TypeCorrect` | `Spec => []TypeOK` | |
| | `BoundedSteps` | `Spec => []StepsBounded` | |
| | `CancelledStaysUnanswered` | `Spec => []CancelledIsNotAnswered` | |
| `ApprovalsProofs` | `TypeCorrect` | `Spec => []TypeOK` | |
| | `ApprovalsInvariant` | `Spec => []ApprovalsInv` | |
| | `NoApprovalDisappears` | `Spec => []InOneMap` | |
| | `DecisionsAreFinal` | `Spec => HistoryIsFinal` | |
| | `OneApproval` | `Spec => []OneApprovalPerAsk` | |
| | `ToldTheRecord` | `Spec => []ToldMatchesRecord` | |
| `DevicePairingProofs` | `PairingInvariant`, `PairingTyped` | `Spec => []PairingInv`, `Spec => []TypeOK` | |
| | `CodePairsOnce` | `Spec => []ConfirmedOnce` | |
| | `PendingIsFound` | `Spec => []PendingHasCode` | |
| `NodeRuntimeProofs` | `TypeCorrect` | `Spec => []TypeOK` | |
| | `Invariance` | `Spec => []Inv` | |
| | `OnlyPermitted` | `Spec => []ExecutedIsPermitted` | |
| | `OneAnswer` | `Spec => []AnsweredAtMostOnce` | |
| | `OnlyApprovalsWait` | `Spec => []UnansweredWaits` | |
| `NodeDesktopProofs` | `DesktopInvariant`, `DesktopTyped` | `Spec => []DesktopInv`, `Spec => []TypeOK` | |
| | `NoNodeAtLarge` | `Spec => []OnlyHeldNodeRuns` | |
| | `LifecycleIsTrue` | `Spec => []RunningMeansUp` | |
| | `EndShowsDisconnected` | `Spec => []RestIsDisconnected` | |
| | `OnlyGivenUpStaysRunning` | `Spec => []RunningUnlessGivenUp` | |
| | `RecoveryHolds` | `Spec => RecoveryReplaces` | |

Every safety property a passing run checks is thereby a theorem: all the
invariants, the action properties and the refinement. What is given
holds in the code: `max_retries` is 3 by default, and the eviction count is a positive
constant.

**Queues** (`QueueTheorems`). What pushing at the back, pushing at the front,
popping and removing from the middle do to the elements of a sequence without
repetitions, and that they keep a sequence rising in a given rank. The scheduler,
the node's channels and the result channel of the conversations all use them.

**Scheduler.** Assumptions: `PrioritiesAssumption` (at least one priority, each
task has one), `FitsAssumption`, `BoundsAssumption` (natural capacities, no more
records evicted than kept, a result channel of at least one slot) and
`NoneAssumption` (the "none" values are no task and no node). The properties are
not inductive by themselves. That no task is in two places is preserved by
`InsertRunning` only if the dispatcher holds a task that no other dispatcher
holds (`HeldOnce`, `DispatcherShape`); by `PopTask` and `CancelQueued` only if
taking one occurrence out of the queues takes the task out of them
(`QueuedOnce`); by `AnnounceResult` only if no second closing record exists
(`ClosingOnce`); by the sweep only if an overdue task runs (`OverdueRuns`). That
a task is assigned once needs that a task which was sent is never in the hands of
a dispatcher that could still send it (`SentIsPlaced`). Their conjunction is
`Bookkeeping`, and `Inv` adds the properties themselves. The proof has a lemma on
types per action and a lemma on the rest of `Inv` per action.

Three more results rest on `Inv`. *Refinement*: the abstract phase of a task is
defined from queues, hands and maps; because no task is lost or in two places it
can be read from the submission counter, the running map and the closing records
alone (`PhaseByArrival`), and then each critical section maps to one abstract
step of one task or to a stutter. *Order*: a requeued task goes back to the front
of the queue it came from, which keeps the order only if whatever is queued by then
came later or was itself put back by another dispatcher (`HeldFirst`), and if ranks
never exceed the counter (`RanksCounted`). *Eviction*: the completed map is finite (`StoreFinite`), so what
an eviction leaves can be counted; evicting nothing (`EvictCount = 0`) would keep
the first property and break the bound.

**Sessions.** Assumption: `SessionAssumption`. That the backlog stays within the
submissions is a count: pending tasks and tasks in the hands of dispatchers
together are never more than were submitted (`TasksCounted`). `NoGhosts` needs
that a node's sender is the channel of a connection of that node
(`SendersKeyed`), since cleanups go by node id. `IndexExact` needs that the id in a
node's entry is one a connection of that node gave (`OwnIds`), so that nobody else's
registration can touch the entry of an id that is not shared.
`RoutableUnlessOverlapped` needs that no other connection of the node is under way
while one that was not overlapped lives (`Alone`), and that then its entries stand
from its registration to its cleanup (`EntriesStand`); `session_overlap` shows what
an overlap does.

**Conversations.** Assumption: `ConversationAssumption`. The tasks of a message
form a chain (`Chain`): at most one is open, that is, has its result still to
come, in the channel or in the consumer's hands (`OneOpen`), results are taken
once (`ResultsOnce`), a message with an open task has no answer
(`OpenIsUnanswered`), one whose handler has not submitted has neither task nor
answer (`NothingBefore`), a result that came before its binding ends the chain
(`EarlyEnds`), and the binding comes before the route (`BindingOrder`), so that
no result is answered through the route alone. All this holds however the
messages of a session overlap.

The step budget and the cancel flag are kept in the turn of the *session*, which a
newer message replaces. The invariant therefore follows turns and not messages
(`Budget`): one worker at a time is in the lane of a session (`LaneHeld`), the turn
of a session is that of one of its messages (`TurnsPlaced`), and no more tasks are
paid for by a turn than it has counted steps, fewer when somebody in the lane is
about to submit one (`Spent`). A cancel flag set while a result was outstanding is
still there when the result is taken, unless the turn was replaced, which takes the
message out of `stopped` (`Stopped`).

**Approvals.** Assumptions: `ApprovalsAssumption` (levels are positive, the other
holders of locks are no operators) and `NoRequestAssumption`. `InOneMap` speaks
only of moments when nobody holds the lock of `pending`; the invariant says where
a request is at every moment (`Places`: in no map before it is created, then in
`pending`, on its way, or in `history`) and who carries it (`Carriers`: the
holder of the lock). That a record in `history` never changes follows, because
who archives carries a request that is not there. That the node is told what is
on record needs, for each request, that it is undecided and nobody is to tell the
node, or that exactly one operator is to, or that the node was told once, and
that the word agrees with the record wherever the record is (`OneWordEach`). One
approval per request needs that from its creation on a request is in the cache, or
in the hands of a handler that will put it there, unless its record has expired, and
that of two handlers serving it at the same time the later one has made it a raced
one (`Remembered`).

**Pairing.** Assumption: `PairingAssumption` (the "none" values and the other
holders are distinct from users, requests, codes and devices). That a code pairs
once rests on who holds which lock (`Locks`), on codes leading only to requests
that drew them (`CodesLead`), on a looked-up code not changing under its reader
(`Looked`), and on a confirmed request having lost its code by the time its
confirmation lets go of the requests (`Spent`).

**Node.** Assumptions: `NodeAssumption` and `NoMsgAssumption`. A message of the
Hub is in one place between the Hub and the handler, once (`CarriedOnce`), so an
assignment reaches the handler at most once; `TaskLife` says what the handler
knows of a task that has not reached it, that it treats, or that waits for an
approval: in each case it was neither executed nor answered, and it is executed
only if its ruling or an approval the Hub sent allows it.

**Desktop.** Assumption: `LinkAssumption` (at least one start, natural bounds).
What a start or stop finds depends on what the call before left behind, so the
invariant says what the application holds in each of its states (`Held`), that
the two flags of a node change together (`FlagsAgree`), who has the handler's end
of a channel (`Handed`), what a recovery has left behind (`Replaced`) and why a
loop has ended (`EndedWithReason`).

Only model-checked: liveness under fairness and anything about `ENABLED`
(`RunningIsReported`, `SubmittedIsReported`, `SetupCompletes`, `DroppedIsCleaned`,
`MessageSettles`, `DecisionReturns`, `ConfirmReturns`, `ReportsGetOut`,
`StoppedComesToRest`, `GivesUp`), which the proof system cannot treat. The three
findings are counterexamples and have nothing to prove.

## 5. Plan and what is not modelled

What could still be done, most useful first:

1. **Proofs**: what the liveness properties rest on that is safety, above all
   that the states they name as stuck (`Stuck`, `Circle` and the like) are the
   only ones in which somebody waits for ever; and what the scheduler proves
   about assignments as the environment of the node.
2. **Hub and node composed**: the scheduler with nodes that answer, cancel and
   lose results, and `Hub.cancel_task` (read the status, send the cancellation,
   cancel). Each side is modelled against an environment that is no stricter
   than the other side.
3. **Time**: the heartbeat timer is recreated by every turn of `select!`, so
   traffic postpones it. The models let a node be marked `Offline` at any
   moment, whatever the cause; that it is the traffic needs real time.

Not modelled, and why:

- **Most of the repository's lines are not on the path this project is about.**
  The map covers the concurrent core of the Hub, the node and the desktop
  application. What remains is HTTP handlers that read state and format it (most
  of `web/mod.rs`), adapters of chat services, clients of LLM, storage, cloud and
  identity services, configuration wizards and command lines, protocol data types,
  output and dashboards. They keep no state that several actors change, and their
  correctness is about texts and external services.
- **Crates nothing calls** (`uhorse-queue`, `uhorse-scheduler`) or that are not
  wired into the Hub or the node (`uhorse-discovery`, `uhorse-gateway`,
  `uhorse-webhook`, compliance): there is no program that fixes who calls them
  concurrently, so a model would check an environment of its own making.
- **In modelled components**: transcripts and compaction (output), the matching
  of permission rules (a constant of the model), the execution of commands (one
  step), settings, launch agent and logs of the desktop (files), node
  authentication (keeps no state), and the manager operations no part of the Hub
  calls (`reject_pairing`, `cleanup_expired_requests`, the rule engine).
