------------------------- MODULE SessionTurnsProofs -------------------------
(***************************************************************************)
(* Proofs about conversations at the Hub, for any sets of messages,        *)
(* sessions and tasks and any bound on the steps of a turn.                *)
(*                                                                         *)
(* The tasks submitted for a message form a chain: at most one of them is  *)
(* open at a time, that is, still to have its result, waiting in the       *)
(* result channel, or in the hands of the consumer, and while one is open  *)
(* the message has no answer made from it (Chain).  Messages of a session  *)
(* may overlap, so the turn a chain continues need not be its message's:   *)
(* Budget counts the tasks each turn pays for, and Stopped follows the     *)
(* cancel flag of a message until its result is taken or a newer turn      *)
(* replaces it.                                                            *)
(***************************************************************************)
EXTENDS SessionTurns, QueueTheorems, FiniteSetTheorems

-----------------------------------------------------------------------------
(* Types.                                                                  *)

HandlerPlaces == {"new", "planning", "replying", "submitting", "submitted",
                  "bound", "routing", "failed", "done"}
ConsumerPlaces == {"idle", "took", "fallback", "resuming", "planning",
                   "finalizing", "completing", "submitting", "submitted",
                   "bound"}

Turns == [msg : Messages \cup {NoMsg}, status : Statuses, steps : Nat,
          cancel : BOOLEAN, call : Tasks \cup {NoTask}, done : BOOLEAN]

\* The tasks that were submitted.
Used == {t \in Tasks : owner[t] \in Messages}

\* A handler has a task of its own message in hand from its submission to the
\* recording of its route, the consumer whenever it is busy.
Hands ==
    /\ pc \in [Workers -> HandlerPlaces \cup ConsumerPlaces]
    /\ job \in [Workers -> Tasks \cup {NoTask}]
    /\ owner \in [Tasks -> Messages \cup {NoMsg}]
    /\ pc[Consumer] \in ConsumerPlaces
    /\ pc[Consumer] # "idle" <=> job[Consumer] \in Tasks
    /\ job[Consumer] \in Tasks => job[Consumer] \in Used
    /\ \A m \in Messages :
          /\ pc[m] \in HandlerPlaces
          /\ pc[m] \in {"submitted", "bound", "routing"} <=> job[m] \in Tasks
          /\ job[m] \in Tasks => owner[job[m]] = m

TablesTyped ==
    /\ bound \subseteq Used /\ routes \subseteq Used /\ live \subseteq Used
    /\ results \in Seq(Tasks) /\ Range(results) \subseteq Used
    /\ asking \in Used \cup {NoTask}
    /\ cancelling \in Used \cup {NoTask}
    /\ turned \in BOOLEAN
    /\ stopped \subseteq Messages

RepliesTyped ==
    /\ answers \in [Messages -> Seq(Replies)]
    /\ left \in [Messages -> {"no", "early", "failed", "cancelled"}]

TurnsTyped ==
    /\ lane \in [Sessions -> Workers \cup {NoWorker}]
    /\ turn \in [Sessions -> Turns]

-----------------------------------------------------------------------------
(* The chain of the tasks of a message.                                    *)

\* The result of t is still to be taken.
Pending(t) == t \in live \/ t \in Range(results)

\* It will still have to be taken after the step.
StillPending(t) == t \in live' \/ t \in Range(results')

\* The consumer has taken the result of t, and nothing came of it yet.
InHand(t) ==
    /\ job[Consumer] = t
    /\ pc[Consumer] \in {"took", "fallback", "resuming", "planning",
                         "finalizing", "submitting"}

Open(t) == Pending(t) \/ InHand(t)

\* The handler of m has not submitted a task and has not replied.
Before(m) == pc[m] \in {"new", "planning", "replying", "submitting"}

Ends == Replies \ {"error"}

\* The message has no answer but an error reply.
Unanswered(m) == answers[m] \in {<<>>, <<"error">>}

\* Every task has one result: it is ahead, in the channel or taken.
ResultsOnce ==
    /\ \A t \in live : t \notin Range(results)
    /\ IsInjective(results)
    /\ pc[Consumer] \notin {"idle", "submitted", "bound"} =>
          ~Pending(job[Consumer])

\* The task the consumer has just submitted is its own.
NewlySubmitted ==
    pc[Consumer] \in {"submitted", "bound"} =>
       /\ Pending(job[Consumer])
       /\ \A m \in Messages : job[m] # job[Consumer]

OneOpen ==
    \A t, u \in Tasks : Open(t) /\ Open(u) /\ owner[t] = owner[u] => t = u

NothingBefore ==
    \A m \in Messages :
       Before(m) => /\ answers[m] = <<>> /\ left[m] # "early"
                    /\ \A t \in Tasks : owner[t] # m

\* One end of the chain and one error reply, in either order.
AnswerShape ==
    \A m \in Messages :
       /\ Unanswered(m)
          \/ \E x \in Ends : answers[m] \in {<<x>>, <<x, "error">>, <<"error", x>>}
       /\ pc[m] # "done" =>
             answers[m] = <<>> \/ \E x \in Ends : answers[m] = <<x>>

OpenIsUnanswered == \A t \in Used : Open(t) => Unanswered(owner[t])

\* A result that came before its binding ends the chain without an answer.
EarlyEnds ==
    \A m \in Messages : left[m] = "early" =>
       Unanswered(m) /\ \A t \in Tasks : owner[t] = m => ~Open(t)

\* bind_task_to_turn follows the submission and precedes the route.
BindingOrder ==
    /\ \A w \in Workers : pc[w] = "submitted" =>
          /\ Pending(job[w]) \/ left[owner[job[w]]] = "early"
          /\ job[w] \notin routes /\ job[w] \notin bound
    /\ \A w \in Workers :
          pc[w] \in {"bound", "routing"} /\ Pending(job[w]) => job[w] \in bound
    /\ \A t \in routes : Pending(t) => t \in bound

Chain ==
    /\ ResultsOnce /\ NewlySubmitted /\ OneOpen /\ NothingBefore
    /\ AnswerShape /\ OpenIsUnanswered /\ EarlyEnds /\ BindingOrder
    /\ NoStaleBinding

Typed == Hands /\ TablesTyped /\ RepliesTyped /\ TurnsTyped

-----------------------------------------------------------------------------
(* The lane and the budget of a turn.                                      *)

\* w is inside run_serialized.
InLane(w) ==
    IF w = Consumer
    THEN pc[w] \in ConsumerPlaces \ {"idle", "took"}
    ELSE pc[w] \in HandlerPlaces \ {"new", "failed", "done"}

PaidBy(m) == {t \in Tasks : paid[t] = m}
TurnMsg(w) == turn[SessionFor(w)].msg
TurnSteps(w) == turn[SessionFor(w)].steps

\* One worker at a time in the lane of a session; the turn of a session is the
\* turn of one of its messages once one was taken up.
LaneHeld == \A w \in Workers : InLane(w) => lane[SessionFor(w)] = w

TurnsPlaced ==
    /\ \A s \in Sessions :
          turn[s].msg \in Messages =>
             SessionOf[turn[s].msg] = s /\ pc[turn[s].msg] # "new"
    /\ \A m \in Messages : pc[m] # "new" => turn[SessionOf[m]].msg \in Messages

\* Every task took a step of the turn that pays for it, and a worker that is
\* about to submit a task has taken the step for it.
Spent ==
    /\ \A m \in Messages :
          /\ IsFiniteSet(PaidBy(m)) /\ Cardinality(PaidBy(m)) <= MaxSteps
          /\ pc[m] = "new" => PaidBy(m) = {}
          /\ pc[m] = "planning" => TurnSteps(m) = 0
    /\ \A s \in Sessions : turn[s].msg \in Messages =>
          Cardinality(PaidBy(turn[s].msg)) <= turn[s].steps
    /\ \A w \in Workers : pc[w] = "submitting" =>
          /\ Cardinality(PaidBy(TurnMsg(w))) < TurnSteps(w)
          /\ TurnSteps(w) <= MaxSteps

PaidTyped ==
    /\ paid \in [Tasks -> Messages \cup {NoMsg}]
    /\ \A t \in Tasks : owner[t] = NoMsg => paid[t] = NoMsg

Budget == PaidTyped /\ LaneHeld /\ TurnsPlaced /\ Spent

\* The result of a stopped message is still to be taken, and will find the
\* cancel flag.
Stopped ==
    \A m \in stopped :
       /\ Range(answers[m]) \cap {"final", "local"} = {}
       /\ ~Before(m)
       /\ \A t \in Tasks : owner[t] = m /\ Open(t) =>
             /\ turn[SessionOf[m]].cancel
             /\ InHand(t) => pc[Consumer] \in {"took", "fallback"}

-----------------------------------------------------------------------------
(* Types.                                                                  *)

\* The message a worker works for, and its session.
LEMMA WorkerMsg ==
    ASSUME Hands
    PROVE  /\ \A m \in Messages : /\ MsgOf(m) = m
                                  /\ SessionFor(m) = SessionOf[m]
                                  /\ SessionOf[m] \in Sessions
           /\ pc[Consumer] # "idle" =>
                 /\ MsgOf(Consumer) = owner[job[Consumer]]
                 /\ MsgOf(Consumer) \in Messages
                 /\ SessionFor(Consumer) = SessionOf[owner[job[Consumer]]]
                 /\ SessionFor(Consumer) \in Sessions
BY ConversationAssumption DEF Hands, Used, MsgOf, SessionFor

\* The initial state has the types.
LEMMA InitTyped == Init => Typed
<1> SUFFICES ASSUME Init PROVE Typed
  OBVIOUS
<1>1. Hands
  BY ConversationAssumption
  DEF Init, Hands, Workers, HandlerPlaces, ConsumerPlaces
<1>2. TablesTyped
  <2>1. results \in Seq(Tasks) /\ Range(results) = {}
    BY DEF Init, Range
  <2> QED
    BY <2>1 DEF Init, TablesTyped
<1>3. RepliesTyped
  <2>1. <<>> \in Seq(Replies)
    OBVIOUS
  <2> QED
    BY <2>1 DEF Init, RepliesTyped
<1>4. TurnsTyped
  <2>1. [NewTurn(NoMsg) EXCEPT !.status = "None"] \in Turns
    BY DEF NewTurn, Turns, Statuses
  <2> QED
    BY <2>1 DEF Init, TurnsTyped
<1> QED
  BY <1>1, <1>2, <1>3, <1>4 DEF Typed

\* Another step makes a turn of a turn.
LEMMA StepOfTurn ==
    ASSUME NEW r \in Turns, NEW st \in Statuses, NEW c \in Tasks \cup {NoTask},
           NEW d \in BOOLEAN
    PROVE  /\ [r EXCEPT !.steps = @ + 1] \in Turns
           /\ [r EXCEPT !.steps = @ + 1, !.status = st, !.done = d] \in Turns
           /\ [r EXCEPT !.steps = @ + 1, !.status = st, !.call = c, !.done = d]
                 \in Turns
<1>1. r.steps + 1 \in Nat
  BY DEF Turns
<1>2. [r EXCEPT !.steps = @ + 1] \in Turns
  BY <1>1 DEF Turns
<1>3. [r EXCEPT !.steps = @ + 1, !.status = st, !.done = d] \in Turns
  BY <1>1 DEF Turns
<1>4. [r EXCEPT !.steps = @ + 1, !.status = st, !.call = c, !.done = d] \in Turns
  BY <1>1 DEF Turns
<1> QED
  BY <1>2, <1>3, <1>4

\* Answering a message keeps the types.
LEMMA AnswerTyped ==
    ASSUME RepliesTyped, NEW m \in Messages, NEW x \in Replies, Answer(m, x),
           left' = left
    PROVE  RepliesTyped'
<1>1. Append(answers[m], x) \in Seq(Replies)
  BY DEF RepliesTyped
<1> QED
  BY <1>1 DEF RepliesTyped, Answer

\* Steps that leave the tasks, the cancellation and the approval alone.
LEMMA TablesKept ==
    ASSUME TablesTyped, UNCHANGED <<taskVars, asking, cancelVars>>
    PROVE  TablesTyped'
BY DEF TablesTyped, taskVars, cancelVars, Used

\* The handler of a message keeps the types.
LEMMA MessageTyped ==
    ASSUME Typed, NEW m \in Messages, MessageStep(m)
    PROVE  Typed'
<1> USE ConversationAssumption
    DEF Typed, Workers, HandlerPlaces, ConsumerPlaces, Goto, LeaveLane
<1>1. /\ MsgOf(m) = m /\ SessionFor(m) = SessionOf[m] /\ SessionOf[m] \in Sessions
      /\ m \in Workers /\ m # Consumer
  BY WorkerMsg
<1>2. CASE StartTurn(m)
  <2>1. Hands'
    BY <1>2 DEF StartTurn, Hands, Used, taskVars
  <2>2. TablesTyped'
    BY <1>2 DEF StartTurn, TablesTyped, taskVars, Used
  <2>3. NewTurn(m) \in Turns
    BY DEF NewTurn, Turns, Statuses
  <2>4. TurnsTyped' /\ RepliesTyped'
    BY <1>1, <1>2, <2>3 DEF StartTurn, TurnsTyped, RepliesTyped, userVars
  <2> QED
    BY <2>1, <2>2, <2>4
<1>3. CASE PlanReply(m) \/ PlanTask(m) \/ PlanFails(m)
  <2>1. Hands'
    BY <1>3 DEF PlanReply, PlanTask, PlanFails, Hands, Used, taskVars
  <2>2. TablesTyped'
    BY <1>3, TablesKept DEF PlanReply, PlanTask, PlanFails
  <2>3. turn' \in [Sessions -> Turns]
    BY <1>1, <1>3 DEF PlanReply, PlanTask, PlanFails, TurnsTyped, Turns, Statuses
  <2>4. TurnsTyped' /\ RepliesTyped'
    BY <1>1, <1>3, <2>3
    DEF PlanReply, PlanTask, PlanFails, TurnsTyped, RepliesTyped, userVars
  <2> QED
    BY <2>1, <2>2, <2>4
<1>4. CASE SendReply(m)
  <2>1. Hands'
    BY <1>4 DEF SendReply, Hands, Used, taskVars
  <2>2. TablesTyped'
    BY <1>4, TablesKept DEF SendReply
  <2>3. TurnsTyped'
    BY <1>1, <1>4 DEF SendReply, TurnsTyped
  <2>4. RepliesTyped'
    BY <1>4, AnswerTyped DEF SendReply, RepliesTyped, Replies
  <2> QED
    BY <2>1, <2>2, <2>3, <2>4
<1>5. CASE ReplyError(m)
  <2>1. Hands'
    BY <1>5 DEF ReplyError, Hands, Used, taskVars
  <2>2. TablesTyped'
    BY <1>5, TablesKept DEF ReplyError
  <2>3. TurnsTyped'
    BY <1>5 DEF ReplyError, TurnsTyped
  <2>4. RepliesTyped'
    <3>1. CASE Answer(m, "error") /\ UNCHANGED left
      BY <3>1, AnswerTyped DEF Replies
    <3>2. CASE UNCHANGED answers
      BY <1>5, <3>2 DEF ReplyError, RepliesTyped
    <3> QED
      BY <1>5, <3>1, <3>2 DEF ReplyError
  <2> QED
    BY <2>1, <2>2, <2>3, <2>4
<1>6. CASE InsertRoute(m)
  <2>1. Hands'
    BY <1>6 DEF InsertRoute, Hands, Used
  <2>2. TablesTyped'
    BY <1>6 DEF InsertRoute, TablesTyped, Hands, Used, cancelVars
  <2>3. TurnsTyped' /\ RepliesTyped'
    BY <1>1, <1>6 DEF InsertRoute, TurnsTyped, RepliesTyped, userVars
  <2> QED
    BY <2>1, <2>2, <2>3
<1> QED
  BY <1>2, <1>3, <1>4, <1>5, <1>6 DEF MessageStep

\* The submission and the binding of a task keep the types.
LEMMA ToolCallTyped ==
    ASSUME Typed, NEW w \in Workers, ToolCallStep(w)
    PROVE  Typed'
<1> USE ConversationAssumption
    DEF Typed, Workers, HandlerPlaces, ConsumerPlaces, Goto, LeaveLane
<1>1. /\ SessionFor(w) \in Sessions /\ MsgOf(w) \in Messages
      /\ w \in Messages => MsgOf(w) = w
      /\ pc[w] \in {"submitting", "submitted", "bound"}
  BY WorkerMsg DEF ToolCallStep, SubmitTask, BindTask, MarkWaiting
<1>2. CASE SubmitTask(w)
  <2> DEFINE t == CHOOSE t \in Unused : TRUE
  <2>1. t \in Tasks /\ owner[t] = NoMsg
    BY <1>2 DEF SubmitTask, Unused
  <2> HIDE DEF t
  <2>2. /\ owner' = [owner EXCEPT ![t] = MsgOf(w)]
        /\ live' = live \cup {t}
        /\ job' = [job EXCEPT ![w] = t]
    BY <1>2 DEF SubmitTask, t
  <2>3. Used' = Used \cup {t}
    BY <1>1, <2>1, <2>2 DEF Used, Hands
  <2>4. Hands'
    <3>5. pc' = [pc EXCEPT ![w] = "submitted"]
      BY <1>2 DEF SubmitTask
    <3>1. /\ pc'[w] = "submitted" /\ \A v \in Workers \ {w} : pc'[v] = pc[v]
          /\ owner'[t] = MsgOf(w) /\ \A u \in Tasks \ {t} : owner'[u] = owner[u]
          /\ job'[w] = t /\ \A v \in Workers \ {w} : job'[v] = job[v]
      BY <2>1, <2>2, <3>5 DEF Hands
    <3>2. /\ pc' \in [Workers -> HandlerPlaces \cup ConsumerPlaces]
          /\ job' \in [Workers -> Tasks \cup {NoTask}]
          /\ owner' \in [Tasks -> Messages \cup {NoMsg}]
      BY <1>1, <2>1, <2>2, <3>5 DEF Hands
    <3>3. /\ pc'[Consumer] \in ConsumerPlaces
          /\ pc'[Consumer] # "idle" <=> job'[Consumer] \in Tasks
          /\ job'[Consumer] \in Tasks => job'[Consumer] \in Used'
      BY <1>1, <2>1, <2>3, <3>1 DEF Hands
    <3>4. ASSUME NEW m \in Messages
          PROVE  /\ pc'[m] \in HandlerPlaces
                 /\ pc'[m] \in {"submitted", "bound", "routing"}
                       <=> job'[m] \in Tasks
                 /\ job'[m] \in Tasks => owner'[job'[m]] = m
      <4>1. CASE m = w
        BY <1>1, <2>1, <3>1, <4>1 DEF Hands
      <4>2. CASE m # w
        BY <2>1, <3>1, <4>2 DEF Hands
      <4> QED
        BY <4>1, <4>2
    <3> QED
      BY <3>2, <3>3, <3>4 DEF Hands
  <2>5. TablesTyped'
    BY <1>2, <2>2, <2>3 DEF SubmitTask, TablesTyped, cancelVars
  <2>6. TurnsTyped' /\ RepliesTyped'
    BY <1>2 DEF SubmitTask, TurnsTyped, RepliesTyped, userVars
  <2> QED
    BY <2>4, <2>5, <2>6
<1>3. CASE BindTask(w)
  <2>1. Hands'
    BY <1>3 DEF BindTask, Hands, Used
  <2>2. TablesTyped'
    BY <1>3 DEF BindTask, TablesTyped, Hands, Used, cancelVars
  <2>3. TurnsTyped' /\ RepliesTyped'
    BY <1>3 DEF BindTask, TurnsTyped, RepliesTyped, userVars
  <2> QED
    BY <2>1, <2>2, <2>3
<1>4. CASE MarkWaiting(w)
  <2>1. Hands'
    BY <1>4 DEF MarkWaiting, Hands, Used, taskVars
  <2>2. TablesTyped'
    BY <1>4, TablesKept DEF MarkWaiting
  <2>3. turn' \in [Sessions -> Turns]
    <3> DEFINE s == SessionFor(w)
               j == job[w]
    <3>1. j \in Tasks \cup {NoTask} /\ s \in Sessions
      BY <1>1 DEF Hands
    <3>2. turn' = [turn EXCEPT ![s].status = "WaitingForTool", ![s].call = j]
      BY <1>4 DEF MarkWaiting
    <3> HIDE DEF s, j
    <3>3. turn \in [Sessions -> Turns] /\ turn[s] \in Turns
      BY <3>1 DEF TurnsTyped
    <3>4. [turn[s] EXCEPT !.status = "WaitingForTool", !.call = j] \in Turns
      BY <3>1, <3>3 DEF Turns, Statuses
    <3>5. turn' = [turn EXCEPT ![s] = [turn[s] EXCEPT !.status = "WaitingForTool",
                                                      !.call = j]]
      BY <3>2, <3>3
    <3> QED
      BY <3>1, <3>3, <3>4, <3>5
  <2>4. lane' \in [Sessions -> Workers \cup {NoWorker}]
    BY <1>1, <1>4 DEF MarkWaiting, TurnsTyped
  <2>5. RepliesTyped'
    BY <1>4 DEF MarkWaiting, RepliesTyped, userVars
  <2> QED
    BY <2>1, <2>2, <2>3, <2>4, <2>5 DEF TurnsTyped
<1> QED
  BY <1>2, <1>3, <1>4 DEF ToolCallStep

\* The consumer keeps the types.
LEMMA ResultTyped ==
    ASSUME Typed, ResultStep
    PROVE  Typed'
<1> USE ConversationAssumption
    DEF Typed, Workers, HandlerPlaces, ConsumerPlaces, Goto, LeaveLane
<1>1. /\ pc[Consumer] # "idle" =>
            /\ SessionFor(Consumer) \in Sessions /\ MsgOf(Consumer) \in Messages
            /\ job[Consumer] \in Tasks
      /\ turn \in [Sessions -> Turns]
      /\ lane \in [Sessions -> Workers \cup {NoWorker}]
  BY WorkerMsg DEF Hands, TurnsTyped
<1>2. CASE TakeResult
  <2> DEFINE t == Head(results)
  <2>1. /\ t \in Used /\ results' \in Seq(Tasks) /\ Range(results') \subseteq Range(results)
    <3>1. results # <<>> /\ results' = Tail(results) /\ results \in Seq(Tasks)
      BY <1>2 DEF TakeResult, TablesTyped
    <3>2. Range(Tail(results)) \subseteq Range(results)
      BY <3>1 DEF Range
    <3> QED
      BY <3>1, <3>2, PopFront DEF TablesTyped
  <2> HIDE DEF t
  <2>2. \/ /\ t \in bound /\ job' = [job EXCEPT ![Consumer] = t]
           /\ pc' = [pc EXCEPT ![Consumer] = "took"]
           /\ UNCHANGED <<routes, answers, left>>
        \/ /\ UNCHANGED <<pc, job, answers>> /\ routes' = routes \ {t}
           /\ left' = [left EXCEPT ![owner[t]] = "early"]
        \/ /\ UNCHANGED <<pc, job, left>> /\ routes' = routes \ {t}
           /\ Answer(owner[t], "final")
    BY <1>2 DEF TakeResult, t, userVars
  <2>3. UNCHANGED <<lane, turn, owner, live, asking, cancelVars>>
        /\ bound' = bound \ {t}
    BY <1>2 DEF TakeResult, t
  <2>4. Hands'
    BY <1>2, <2>1, <2>2, <2>3 DEF TakeResult, Hands, Used
  <2>5. TablesTyped'
    BY <2>1, <2>2, <2>3 DEF TablesTyped, Used, cancelVars
  <2>6. RepliesTyped'
    <3>1. owner[t] \in Messages
      BY <2>1 DEF Used
    <3> QED
      BY <2>2, <3>1, AnswerTyped DEF RepliesTyped, Replies
  <2> QED
    BY <2>3, <2>4, <2>5, <2>6 DEF TurnsTyped
<1>3. CASE ObserveResult \/ MissRecord
  <2>1. Hands' /\ TurnsTyped'
    BY <1>1, <1>3 DEF ObserveResult, MissRecord, Hands, Used, taskVars, TurnsTyped
  <2>2. TablesTyped' /\ RepliesTyped'
    BY <1>3, TablesKept DEF ObserveResult, MissRecord, RepliesTyped, userVars
  <2> QED
    BY <2>1, <2>2
<1>4. CASE SkipCancelled
  <2>1. Hands' /\ TurnsTyped'
    BY <1>1, <1>4 DEF SkipCancelled, Hands, Used, taskVars, TurnsTyped
  <2>2. TablesTyped' /\ RepliesTyped'
    BY <1>1, <1>4, TablesKept DEF SkipCancelled, RepliesTyped
  <2> QED
    BY <2>1, <2>2
<1>5. CASE ResumeTurn \/ PlanContinuation
  <2> DEFINE s == SessionFor(Consumer)
  <2>1. Hands'
    BY <1>5 DEF ResumeTurn, PlanContinuation, Hands, Used, taskVars
  <2>2. TablesTyped' /\ RepliesTyped'
    BY <1>5, TablesKept DEF ResumeTurn, PlanContinuation, RepliesTyped, userVars
  <2>3. s \in Sessions /\ turn[s] \in Turns
    BY <1>1, <1>5 DEF ResumeTurn, PlanContinuation
  <2>4. \E new \in Turns : turn' = [turn EXCEPT ![s] = new]
    <3>1. CASE ResumeTurn
      <4> DEFINE d == turn[s].done \/ job[Consumer] = turn[s].call
                 new == [turn[s] EXCEPT !.status = "Resuming", !.done = d]
      <4>1. new \in Turns
        BY <2>3 DEF Turns, Statuses
      <4>2. turn' = [turn EXCEPT ![s] = new]
        BY <1>1, <2>3, <3>1 DEF ResumeTurn
      <4> QED
        BY <4>1, <4>2
    <3>2. CASE PlanContinuation
      <4> DEFINE new1 == [turn[s] EXCEPT !.steps = @ + 1]
                 new2 == [turn[s] EXCEPT !.steps = @ + 1, !.status = "Dispatching",
                                         !.call = NoTask, !.done = FALSE]
      <4>1. new1 \in Turns /\ new2 \in Turns
        BY <2>3, StepOfTurn DEF Statuses
      <4>2. turn' = [turn EXCEPT ![s] = new1] \/ turn' = [turn EXCEPT ![s] = new2]
        BY <1>1, <2>3, <3>2 DEF PlanContinuation
      <4> QED
        BY <4>1, <4>2
    <3> QED
      BY <1>5, <3>1, <3>2
  <2>5. TurnsTyped'
    BY <1>1, <1>5, <2>4 DEF TurnsTyped, ResumeTurn, PlanContinuation
  <2> QED
    BY <2>1, <2>2, <2>5
<1>6. CASE ContinuationFails \/ ContinueLocally
  <2> DEFINE s == SessionFor(Consumer)
  <2>1. Hands'
    BY <1>6 DEF ContinuationFails, ContinueLocally, Hands, Used, taskVars
  <2>2. TablesTyped'
    BY <1>6, TablesKept DEF ContinuationFails, ContinueLocally
  <2>3. RepliesTyped'
    <3>1. CASE ContinuationFails
      BY <1>1, <3>1 DEF ContinuationFails, RepliesTyped
    <3>2. CASE ContinueLocally
      BY <1>1, <3>2, AnswerTyped DEF ContinueLocally, RepliesTyped, Replies
    <3> QED
      BY <1>6, <3>1, <3>2
  <2>4. s \in Sessions /\ turn[s] \in Turns
    BY <1>1, <1>6 DEF ContinuationFails, ContinueLocally
  <2>5. \E new \in Turns : turn' = [turn EXCEPT ![s] = new]
    <3>1. CASE ContinuationFails
      <4> DEFINE new == [turn[s] EXCEPT !.steps = @ + 1]
      <4>1. new \in Turns
        BY <2>4 DEF Turns
      <4>2. turn' = [turn EXCEPT ![s] = new] \/ turn' = [turn EXCEPT ![s] = turn[s]]
        BY <1>1, <2>4, <3>1 DEF ContinuationFails
      <4> QED
        BY <2>4, <4>1, <4>2
    <3>2. CASE ContinueLocally
      <4> DEFINE st == IF MsgOf(Consumer) \in InTeam THEN turn[s].status
                       ELSE "Completed"
                 d == turn[s].done \/ MsgOf(Consumer) \notin InTeam
                 new == [turn[s] EXCEPT !.steps = @ + 1, !.status = st, !.done = d]
      <4>1. st \in Statuses /\ d \in BOOLEAN
        BY <2>4 DEF Turns, Statuses
      <4>2. new \in Turns
        <5> HIDE DEF st, d
        <5> QED
          BY <2>4, <4>1, StepOfTurn
      <4>3. turn' = [turn EXCEPT ![s] = new]
        BY <1>1, <2>4, <3>2 DEF ContinueLocally
      <4> QED
        BY <4>2, <4>3
    <3> QED
      BY <1>6, <3>1, <3>2
  <2>6. TurnsTyped'
    BY <1>1, <1>6, <2>4, <2>5 DEF TurnsTyped, ContinuationFails, ContinueLocally
  <2> QED
    BY <2>1, <2>2, <2>3, <2>6
<1>7. CASE FinalizeReply
  <2>1. Hands' /\ TurnsTyped'
    BY <1>7 DEF FinalizeReply, Hands, Used, taskVars, TurnsTyped
  <2>2. TablesTyped'
    BY <1>7, TablesKept DEF FinalizeReply
  <2>3. RepliesTyped'
    BY <1>1, <1>7, AnswerTyped DEF FinalizeReply, Replies
  <2> QED
    BY <2>1, <2>2, <2>3
<1>8. CASE CompleteReplied
  <2> DEFINE s == SessionFor(Consumer)
             d == turn[s].done \/ job[Consumer] \in {NoTask, turn[s].call}
             new == [turn[s] EXCEPT !.status = "Completed", !.done = d]
  <2>1. Hands' /\ RepliesTyped'
    BY <1>8 DEF CompleteReplied, Hands, Used, RepliesTyped, userVars
  <2>2. TablesTyped'
    BY <1>8 DEF CompleteReplied, TablesTyped, Used, cancelVars
  <2>3. s \in Sessions /\ turn[s] \in Turns
    BY <1>1, <1>8 DEF CompleteReplied
  <2>4. new \in Turns
    BY <2>3 DEF Turns, Statuses
  <2>5. turn' = [turn EXCEPT ![s] = new]
    BY <1>1, <1>8, <2>3 DEF CompleteReplied, CompleteTurn
  <2> HIDE DEF new
  <2>6. TurnsTyped'
    BY <1>1, <1>8, <2>3, <2>4, <2>5 DEF CompleteReplied, TurnsTyped
  <2> QED
    BY <2>1, <2>2, <2>6
<1> QED
  BY <1>2, <1>3, <1>4, <1>5, <1>6, <1>7, <1>8 DEF ResultStep

\* So do the scheduler, the approval requests and the cancellations.
LEMMA OtherTyped ==
    ASSUME Typed,
           \/ \E t \in Tasks : TaskEnds(t) \/ ApprovalLooksUp(t) \/ CancelLooksUp(t)
           \/ ApprovalMarks \/ CancelTurn \/ CancelTask
    PROVE  Typed'
<1> USE ConversationAssumption DEF Typed
<1>1. UNCHANGED <<pc, job, lane, bound, routes, owner, answers, left>>
  BY DEF TaskEnds, ApprovalLooksUp, CancelLooksUp, ApprovalMarks, CancelTurn,
         CancelTask, workVars, taskVars, userVars
<1>2. Hands' /\ RepliesTyped' /\ Used' = Used
  BY <1>1 DEF Hands, RepliesTyped, Used
<1>3. turn' \in [Sessions -> Turns]
  <2>1. CASE UNCHANGED turn
    BY <2>1 DEF TurnsTyped
  <2>2. CASE ApprovalMarks
    <3>1. SessionOf[owner[asking]] \in Sessions
      BY <2>2 DEF ApprovalMarks, TablesTyped, Used
    <3> QED
      BY <2>2, <3>1 DEF ApprovalMarks, TurnsTyped, Turns, Statuses
  <2>3. CASE CancelTurn
    <3>1. SessionOf[owner[cancelling]] \in Sessions
      BY <2>3 DEF CancelTurn, TablesTyped, Used
    <3> QED
      BY <2>3, <3>1 DEF CancelTurn, TurnsTyped, Turns, Statuses
  <2> QED
    BY <2>1, <2>2, <2>3
    DEF TaskEnds, ApprovalLooksUp, CancelLooksUp, CancelTask, workVars
<1>4. TablesTyped'
  <2>1. ASSUME NEW t \in Tasks, t \in live,
               live' = live \ {t}, results' = Append(results, t),
               cancelling' \in {cancelling, NoTask}, turned' \in {turned, FALSE},
               UNCHANGED <<asking, stopped>>
        PROVE  TablesTyped'
    <3>1. results' \in Seq(Tasks) /\ Range(results') = Range(results) \cup {t}
      BY <2>1, PushBack DEF TablesTyped
    <3> QED
      BY <1>1, <1>2, <2>1, <3>1 DEF TablesTyped
  <2>2. ASSUME NEW t \in Tasks, TaskEnds(t) PROVE TablesTyped'
    BY <2>1, <2>2 DEF TaskEnds, cancelVars
  <2>3. ASSUME NEW t \in Tasks, ApprovalLooksUp(t) \/ CancelLooksUp(t)
        PROVE  TablesTyped'
    BY <1>2, <2>3 DEF ApprovalLooksUp, CancelLooksUp, TablesTyped, taskVars, cancelVars
  <2>4. CASE ApprovalMarks
    BY <1>2, <2>4 DEF ApprovalMarks, TablesTyped, taskVars, cancelVars
  <2>5. CASE CancelTurn
    <3>1. owner[cancelling] \in Messages
      BY <2>5 DEF CancelTurn, TablesTyped, Used
    <3> QED
      BY <1>2, <2>5, <3>1 DEF CancelTurn, TablesTyped, taskVars
  <2>6. CASE CancelTask
    <3>1. CASE cancelling \in live
      <4>1. cancelling \in Tasks
        BY <3>1 DEF TablesTyped, Used
      <4> QED
        BY <2>1, <2>6, <3>1, <4>1 DEF CancelTask
    <3>2. CASE cancelling \notin live
      BY <1>1, <1>2, <2>6, <3>2 DEF CancelTask, TablesTyped
    <3> QED
      BY <3>1, <3>2
  <2> QED
    BY <2>2, <2>3, <2>4, <2>5, <2>6
<1> QED
  BY <1>1, <1>2, <1>3, <1>4 DEF TurnsTyped

\* Every step keeps the types.
LEMMA NextTyped == Typed /\ [Next]_vars => Typed'
<1> SUFFICES ASSUME Typed, [Next]_vars PROVE Typed'
  OBVIOUS
<1>1. CASE UNCHANGED vars
  BY <1>1
  DEF vars, Typed, Hands, TablesTyped, RepliesTyped, TurnsTyped, Used
<1> QED
  BY <1>1, MessageTyped, ToolCallTyped, ResultTyped, OtherTyped DEF Next

-----------------------------------------------------------------------------
(* The chain, action by action.                                            *)

\* A first answer is alone.
LEMMA FirstAnswer ==
    ASSUME NEW y
    PROVE  Append(<<>>, y) = <<y>>
OBVIOUS

\* A second answer follows the first.
LEMMA SecondAnswer ==
    ASSUME NEW x, NEW y
    PROVE  Append(<<x>>, y) = <<x, y>>
<1> DEFINE S == {x, y}
           q == <<x>>
           a == Append(q, y)
           b == <<x, y>>
<1>1. q \in Seq(S) /\ Len(q) = 1 /\ q[1] = x /\ y \in S
  OBVIOUS
<1>2. b \in Seq(S) /\ Len(b) = 2 /\ b[1] = x /\ b[2] = y
  OBVIOUS
<1> HIDE DEF q, b
<1>3. a \in Seq(S) /\ Len(a) = 2 /\ a[1] = x /\ a[2] = y
  <2>1. /\ a \in Seq(S) /\ Len(a) = Len(q) + 1
        /\ \A i \in 1..Len(q) : a[i] = q[i]
        /\ a[Len(q) + 1] = y
    BY <1>1, AppendProperties
  <2> QED
    BY <1>1, <2>1
<1> HIDE DEF a
<1>4. a = b
  BY <1>2, <1>3, SeqEqual
<1> QED
  BY <1>4 DEF a, b, q

\* Nothing was submitted at first.
LEMMA InitChain == Init => Chain
<1> SUFFICES ASSUME Init PROVE Chain
  OBVIOUS
<1>1. /\ Range(results) = {} /\ IsInjective(results)
      /\ live = {} /\ bound = {} /\ routes = {}
      /\ pc[Consumer] = "idle" /\ \A m \in Messages : pc[m] = "new"
      /\ \A t \in Tasks : owner[t] = NoMsg
      /\ \A m \in Messages : answers[m] = <<>> /\ left[m] = "no"
  BY ConversationAssumption DEF Init, Range, IsInjective, Workers
<1>2. \A t : ~Open(t)
  BY <1>1 DEF Open, Pending, InHand
<1>3. ResultsOnce /\ NewlySubmitted /\ OneOpen /\ OpenIsUnanswered
      /\ NoStaleBinding
  BY <1>1, <1>2
  DEF ResultsOnce, NewlySubmitted, OneOpen, OpenIsUnanswered, NoStaleBinding
<1>4. NothingBefore /\ AnswerShape /\ EarlyEnds
  BY <1>1, ConversationAssumption
  DEF NothingBefore, AnswerShape, Unanswered, EarlyEnds
<1>5. BindingOrder
  BY <1>1 DEF BindingOrder, Workers
<1> QED
  BY <1>3, <1>4, <1>5 DEF Chain

\* A step that leaves the workers, the tasks and the answers alone.
LEMMA ChainUntouched ==
    ASSUME Chain, UNCHANGED <<pc, job, taskVars, userVars>>
    PROVE  Chain'
BY DEF Chain, ResultsOnce, NewlySubmitted, OneOpen, NothingBefore, AnswerShape,
       OpenIsUnanswered, EarlyEnds, BindingOrder, NoStaleBinding, Open, Pending,
       InHand, Before, Unanswered, Used, taskVars, userVars

\* A handler goes on: towards its submission, to an error, or from the second
\* half of bind_task_to_turn to the route.
LEMMA HandlerMoves ==
    ASSUME Typed, Chain, NEW m \in Messages, NEW where,
           pc' = [pc EXCEPT ![m] = where],
           \/ Before(m) /\ where \in {"planning", "replying", "submitting", "failed"}
           \/ pc[m] = "bound" /\ where = "routing",
           UNCHANGED <<job, taskVars, userVars>>
    PROVE  Chain'
<1> USE DEF Chain, taskVars, userVars
<1>1. /\ m # Consumer /\ m \in Workers /\ Consumer \in Workers
      /\ pc'[m] = where /\ \A w \in Workers \ {m} : pc'[w] = pc[w]
      /\ UNCHANGED <<job, bound, routes, owner, live, results, answers, left>>
  BY ConversationAssumption DEF Typed, Hands, Workers
<1>2. \A t : (Open(t)' <=> Open(t)) /\ (Pending(t)' <=> Pending(t))
  BY <1>1 DEF Open, Pending, InHand
<1>3. ResultsOnce' /\ NewlySubmitted'
  BY <1>1, <1>2 DEF ResultsOnce, NewlySubmitted
<1>4. OneOpen' /\ OpenIsUnanswered' /\ EarlyEnds'
  BY <1>1, <1>2 DEF OneOpen, OpenIsUnanswered, EarlyEnds, Unanswered, Used
<1>5. NothingBefore'
  BY <1>1 DEF NothingBefore, Before, Workers
<1>6. AnswerShape'
  BY <1>1 DEF AnswerShape, Unanswered, Before, Workers
<1>7. BindingOrder' /\ NoStaleBinding'
  BY <1>1, <1>2 DEF BindingOrder, NoStaleBinding, Pending, Before
<1> QED
  BY <1>3, <1>4, <1>5, <1>6, <1>7

\* The direct reply is the only answer, and nothing was submitted.
LEMMA DirectReply ==
    ASSUME Typed, Chain, NEW m \in Messages, pc[m] = "replying",
           pc' = [pc EXCEPT ![m] = "done"], Answer(m, "final"),
           UNCHANGED <<job, taskVars, left>>
    PROVE  Chain'
<1> USE DEF Chain, taskVars
<1>1. /\ m # Consumer /\ m \in Workers /\ Consumer \in Workers
      /\ pc'[m] = "done" /\ \A w \in Workers \ {m} : pc'[w] = pc[w]
      /\ UNCHANGED <<job, bound, routes, owner, live, results, left>>
  BY ConversationAssumption DEF Typed, Hands, Workers
<1>2. \A t : (Open(t)' <=> Open(t)) /\ (Pending(t)' <=> Pending(t))
  BY <1>1 DEF Open, Pending, InHand
<1>3. ResultsOnce' /\ NewlySubmitted' /\ OneOpen'
  BY <1>1, <1>2 DEF ResultsOnce, NewlySubmitted, OneOpen
<1>4. /\ answers[m] = <<>> /\ left[m] # "early" /\ \A t \in Tasks : owner[t] # m
  BY DEF NothingBefore, Before
<1>5. answers'[m] = <<"final">> /\ \A n \in Messages \ {m} : answers'[n] = answers[n]
  BY <1>4 DEF Answer, Typed, RepliesTyped
<1>6. OpenIsUnanswered' /\ EarlyEnds'
  BY <1>1, <1>2, <1>4, <1>5 DEF OpenIsUnanswered, EarlyEnds, Unanswered, Used
<1>7. NothingBefore'
  BY <1>1, <1>5 DEF NothingBefore, Before, Workers
<1>8. AnswerShape'
  <2>1. "final" \in Ends
    BY DEF Ends, Replies
  <2> QED
    BY <1>1, <1>5, <2>1 DEF AnswerShape, Unanswered, Workers
<1>9. BindingOrder' /\ NoStaleBinding'
  BY <1>1, <1>2 DEF BindingOrder, NoStaleBinding, Pending
<1> QED
  BY <1>3, <1>6, <1>7, <1>8, <1>9

\* The error reply comes once, before or after the end of the chain; without
\* one, only a message that has no task is left.
LEMMA ErrorReply ==
    ASSUME Typed, Chain, NEW m \in Messages, ReplyError(m)
    PROVE  Chain'
<1> USE DEF Chain, taskVars
<1>1. /\ m # Consumer /\ m \in Workers /\ Consumer \in Workers
      /\ pc[m] = "failed"
      /\ pc'[m] = "done" /\ \A w \in Workers \ {m} : pc'[w] = pc[w]
      /\ UNCHANGED <<job, bound, routes, owner, live, results>>
  BY ConversationAssumption DEF Typed, Hands, Workers, ReplyError, Goto
<1>2. \A t : (Open(t)' <=> Open(t)) /\ (Pending(t)' <=> Pending(t))
  BY <1>1 DEF Open, Pending, InHand
<1>3. ResultsOnce' /\ NewlySubmitted' /\ OneOpen'
  BY <1>1, <1>2 DEF ResultsOnce, NewlySubmitted, OneOpen
<1>4. /\ answers'[m] = answers[m] \/ answers'[m] = Append(answers[m], "error")
      /\ \A n \in Messages \ {m} : answers'[n] = answers[n]
  BY DEF Answer, ReplyError, Typed, RepliesTyped
<1>l. /\ \A n \in Messages : left'[n] = "early" => left[n] = "early"
      /\ \A t \in Used : left'[owner[t]] = left[owner[t]]
  <2>1. CASE left' = left
    BY <2>1
  <2>2. CASE left' = [left EXCEPT ![m] = IF TasksOf(m) = {} THEN "failed" ELSE @]
    <3>1. DOMAIN left = Messages
      BY DEF Typed, RepliesTyped
    <3>2. \A t \in Used : owner[t] \in Messages /\ TasksOf(owner[t]) # {}
      BY DEF Used, TasksOf
    <3> QED
      BY <2>2, <3>1, <3>2
  <2> QED
    BY <2>1, <2>2 DEF ReplyError
<1>5. answers[m] = <<>> \/ \E x \in Ends : answers[m] = <<x>>
  BY <1>1 DEF AnswerShape
<1>6. /\ answers[m] = <<>> => answers'[m] \in {<<>>, <<"error">>}
      /\ \A x : answers[m] = <<x>> => answers'[m] \in {<<x>>, <<x, "error">>}
  BY <1>4, FirstAnswer, SecondAnswer
<1>7. Unanswered(m) => answers[m] = <<>>
  BY <1>5 DEF Unanswered, Ends
<1>8. \A n \in Messages : Unanswered(n) => Unanswered(n)'
  BY <1>4, <1>6, <1>7 DEF Unanswered
<1>9. OpenIsUnanswered' /\ EarlyEnds'
  BY <1>1, <1>2, <1>8, <1>l DEF OpenIsUnanswered, EarlyEnds, Used
<1>10. NothingBefore'
  BY <1>1, <1>4, <1>l DEF NothingBefore, Before, Workers
<1>11. AnswerShape'
  BY <1>1, <1>4, <1>5, <1>6 DEF AnswerShape, Unanswered, Workers
<1>12. BindingOrder' /\ NoStaleBinding'
  <2>1. \A w \in Workers : job[w] \in Tasks => job[w] \in Used
    BY DEF Typed, Hands, Used, Workers
  <2>2. \A w \in Workers : pc'[w] = "submitted" => pc[w] = "submitted" /\ job[w] \in Used
    BY <1>1, <2>1 DEF Typed, Hands, Workers
  <2>3. \A w \in Workers : pc'[w] \in {"bound", "routing"} => pc'[w] = pc[w]
    BY <1>1
  <2>4. BindingOrder'
    BY <1>1, <1>2, <1>l, <2>2, <2>3 DEF BindingOrder
  <2>5. bound \subseteq Used
    BY DEF Typed, TablesTyped
  <2> QED
    BY <1>1, <1>l, <2>4, <2>5 DEF NoStaleBinding
<1> QED
  BY <1>3, <1>9, <1>10, <1>11, <1>12

\* hub.submit_task hands out a fresh task; the one that led to it, if any, is
\* closed by the same step.
LEMMA SubmitChain ==
    ASSUME Typed, Chain, NEW w \in Workers, SubmitTask(w)
    PROVE  Chain'
<1> USE DEF Chain
<1> DEFINE t == CHOOSE t \in Unused : TRUE
<1>1. t \in Tasks /\ owner[t] = NoMsg
  BY DEF SubmitTask, Unused
<1> HIDE DEF t
<1>2. /\ pc' = [pc EXCEPT ![w] = "submitted"] /\ job' = [job EXCEPT ![w] = t]
      /\ owner' = [owner EXCEPT ![t] = MsgOf(w)] /\ live' = live \cup {t}
      /\ pc[w] = "submitting"
      /\ UNCHANGED <<bound, routes, results, answers, left>>
  BY DEF SubmitTask, t, Goto, userVars
<1>3. /\ pc'[w] = "submitted" /\ \A v \in Workers \ {w} : pc'[v] = pc[v]
      /\ job'[w] = t /\ \A v \in Workers \ {w} : job'[v] = job[v]
      /\ owner'[t] = MsgOf(w) /\ \A u \in Tasks \ {t} : owner'[u] = owner[u]
      /\ Consumer \in Workers
  BY <1>1, <1>2 DEF Typed, Hands, Workers
<1>4. /\ MsgOf(w) \in Messages /\ NoMsg \notin Messages
      /\ w # Consumer => w \in Messages /\ MsgOf(w) = w
      /\ w = Consumer => /\ job[Consumer] \in Tasks
                         /\ MsgOf(w) = owner[job[Consumer]]
  BY <1>2, WorkerMsg, ConversationAssumption DEF Typed, Hands, Workers
<1>5. /\ t \notin Used /\ t \notin live /\ t \notin Range(results)
      /\ t \notin routes /\ t \notin bound
      /\ \A v \in Workers : job[v] # t
  <2>1. \A v \in Workers : job[v] \in Tasks => owner[job[v]] \in Messages
    BY DEF Typed, Hands, Used, Workers
  <2> QED
    BY <1>1, <1>4, <2>1 DEF Typed, TablesTyped, Used
<1>6. \A u : StillPending(u) <=> Pending(u) \/ u = t
  BY <1>2 DEF Pending, StillPending
<1>7. ~Open(t) /\ \A u : InHand(u)' => InHand(u) /\ w # Consumer
  BY <1>3, <1>5 DEF Open, Pending, InHand
<1>8. \A u \in Tasks \ {t} : Open(u)' => Open(u) /\ owner[u] # MsgOf(w)
  <2> SUFFICES ASSUME NEW u \in Tasks \ {t}, Open(u)'
               PROVE  Open(u) /\ owner[u] # MsgOf(w)
    OBVIOUS
  <2>1. Open(u)
    BY <1>6, <1>7 DEF Open, Pending, StillPending
  <2>2. CASE w # Consumer
    BY <1>2, <1>4, <2>1, <2>2 DEF NothingBefore, Before
  <2>3. CASE w = Consumer
    <3>1. Open(job[Consumer]) /\ ~Pending(job[Consumer])
      BY <1>2, <2>3 DEF Open, InHand, ResultsOnce
    <3>2. Pending(u)
      BY <1>6, <1>7, <2>3 DEF Open, Pending, StillPending
    <3> QED
      BY <1>4, <2>1, <2>3, <3>1, <3>2 DEF OneOpen
  <2> QED
    BY <2>1, <2>2, <2>3
<1>9. ResultsOnce'
  <2>1. pc'[Consumer] \notin {"idle", "submitted", "bound"} =>
           ~StillPending(job'[Consumer])
    BY <1>3, <1>5, <1>6 DEF ResultsOnce
  <2> QED
    BY <1>2, <1>3, <1>5, <2>1 DEF ResultsOnce, Pending, StillPending
<1>10. NewlySubmitted'
  <2>1. ASSUME pc'[Consumer] \in {"submitted", "bound"}
        PROVE  /\ StillPending(job'[Consumer])
               /\ \A m \in Messages : job'[m] # job'[Consumer]
    <3>1. \A m \in Messages : m \in Workers /\ m # Consumer
      BY ConversationAssumption DEF Workers
    <3>2. CASE w = Consumer
      BY <1>3, <1>5, <1>6, <3>1, <3>2
    <3>3. CASE w # Consumer
      BY <1>3, <1>5, <1>6, <2>1, <3>1, <3>3 DEF NewlySubmitted
    <3> QED
      BY <3>2, <3>3
  <2> QED
    BY <2>1 DEF NewlySubmitted, Pending, StillPending
<1>11. OneOpen'
  BY <1>3, <1>8 DEF OneOpen
<1>12. Unanswered(MsgOf(w)) /\ left[MsgOf(w)] # "early"
  <2>1. CASE w # Consumer
    BY <1>2, <1>4, <2>1 DEF NothingBefore, Before, Unanswered
  <2>2. CASE w = Consumer
    <3>1. Open(job[Consumer]) /\ job[Consumer] \in Used
      BY <1>2, <1>4, <2>2 DEF Open, InHand, Used
    <3> QED
      BY <1>4, <2>2, <3>1 DEF OpenIsUnanswered, EarlyEnds, Used
  <2> QED
    BY <2>1, <2>2
<1>13. OpenIsUnanswered' /\ EarlyEnds'
  <2>1. \A m \in Messages : Unanswered(m)' <=> Unanswered(m)
    BY <1>2 DEF Unanswered
  <2>2. \A u \in Used' : Open(u)' => Unanswered(owner'[u])
    BY <1>3, <1>8, <1>12 DEF OpenIsUnanswered, Used
  <2>3. OpenIsUnanswered'
    BY <1>2, <2>2 DEF OpenIsUnanswered, Unanswered
  <2>4. EarlyEnds'
    BY <1>2, <1>3, <1>8, <1>12, <2>1 DEF EarlyEnds
  <2> QED
    BY <2>3, <2>4
<1>14. NothingBefore'
  BY <1>2, <1>3, <1>4, <1>5 DEF NothingBefore, Before, Workers
<1>15. AnswerShape'
  BY <1>2, <1>3 DEF AnswerShape, Unanswered, Workers
<1>16. BindingOrder'
  <2>1. ASSUME NEW v \in Workers, pc'[v] = "submitted"
        PROVE  /\ StillPending(job'[v]) \/ left'[owner'[job'[v]]] = "early"
               /\ job'[v] \notin routes' /\ job'[v] \notin bound'
    <3>1. CASE v = w
      BY <1>2, <1>3, <1>5, <1>6, <3>1
    <3>2. CASE v # w
      <4>1. pc[v] = "submitted" /\ job'[v] = job[v] /\ job[v] \in Tasks \ {t}
        BY <1>3, <1>5, <2>1, <3>2 DEF Typed, Hands, Workers
      <4> QED
        BY <1>2, <1>3, <1>6, <4>1 DEF BindingOrder
    <3> QED
      BY <3>1, <3>2
  <2>2. ASSUME NEW v \in Workers, pc'[v] \in {"bound", "routing"}, StillPending(job'[v])
        PROVE  job'[v] \in bound'
    BY <1>2, <1>3, <1>5, <1>6, <2>2 DEF BindingOrder
  <2>3. \A u \in routes' : StillPending(u) => u \in bound'
    BY <1>2, <1>5, <1>6 DEF BindingOrder
  <2> QED
    BY <2>1, <2>2, <2>3 DEF BindingOrder, Pending, StillPending
<1>17. NoStaleBinding'
  <2>1. \A u \in bound : u \in Tasks \ {t}
    BY <1>5 DEF Typed, TablesTyped, Used
  <2> QED
    BY <1>2, <1>3, <2>1 DEF NoStaleBinding
<1> QED
  BY <1>9, <1>10, <1>11, <1>13, <1>14, <1>15, <1>16, <1>17

\* The first half of bind_task_to_turn: a result that has come before finds
\* its message left.
LEMMA BindChain ==
    ASSUME Typed, Chain, NEW w \in Workers, BindTask(w)
    PROVE  Chain'
<1> USE DEF Chain
<1>1. /\ pc'[w] = "bound" /\ \A v \in Workers \ {w} : pc'[v] = pc[v]
      /\ pc[w] = "submitted" /\ bound' = bound \cup {job[w]}
      /\ UNCHANGED <<job, routes, owner, live, results, answers, left>>
      /\ Consumer \in Workers
  BY DEF BindTask, Goto, userVars, Typed, Hands, Workers
<1>2. \A t : (Open(t)' <=> Open(t)) /\ (Pending(t)' <=> Pending(t))
  BY <1>1 DEF Open, Pending, InHand
<1>3. ResultsOnce' /\ NewlySubmitted'
  BY <1>1, <1>2 DEF ResultsOnce, NewlySubmitted, Pending
<1>4. OneOpen' /\ OpenIsUnanswered' /\ EarlyEnds'
  BY <1>1, <1>2 DEF OneOpen, OpenIsUnanswered, EarlyEnds, Unanswered, Used
<1>5. NothingBefore' /\ AnswerShape'
  BY <1>1 DEF NothingBefore, Before, AnswerShape, Unanswered, Workers
<1>6. NoStaleBinding'
  BY <1>1 DEF NoStaleBinding, BindingOrder, Pending
<1>7. BindingOrder'
  <2>1. ASSUME NEW v \in Workers \ {w}, pc[v] = "submitted"
        PROVE  job[v] # job[w]
    <3>1. CASE v \in Messages /\ w \in Messages
      BY <1>1, <2>1, <3>1 DEF Typed, Hands
    <3>2. CASE v = Consumer \/ w = Consumer
      BY <1>1, <2>1, <3>2 DEF NewlySubmitted, Workers
    <3> QED
      BY <3>1, <3>2 DEF Workers
  <2> QED
    BY <1>1, <2>1 DEF BindingOrder, Pending
<1> QED
  BY <1>3, <1>4, <1>5, <1>6, <1>7

\* The consumer has bound the task it submitted and is idle again.
LEMMA ConsumerWaits ==
    ASSUME Typed, Chain, MarkWaiting(Consumer)
    PROVE  Chain'
<1> USE DEF Chain
<1>1. /\ pc'[Consumer] = "idle" /\ job'[Consumer] = NoTask /\ pc[Consumer] = "bound"
      /\ \A v \in Workers \ {Consumer} : pc'[v] = pc[v] /\ job'[v] = job[v]
      /\ UNCHANGED <<bound, routes, owner, live, results, answers, left>>
      /\ \A m \in Messages : m \in Workers \ {Consumer}
  BY ConversationAssumption
  DEF MarkWaiting, Goto, taskVars, userVars, Typed, Hands, Workers
<1>2. \A t : (Open(t)' <=> Open(t)) /\ (Pending(t)' <=> Pending(t))
  BY <1>1 DEF Open, Pending, InHand
<1>3. ResultsOnce' /\ NewlySubmitted'
  BY <1>1 DEF ResultsOnce, NewlySubmitted
<1>4. OneOpen' /\ OpenIsUnanswered' /\ EarlyEnds'
  BY <1>1, <1>2 DEF OneOpen, OpenIsUnanswered, EarlyEnds, Unanswered, Used
<1>5. NothingBefore' /\ AnswerShape'
  BY <1>1 DEF NothingBefore, Before, AnswerShape, Unanswered
<1>6. NoStaleBinding'
  BY <1>1 DEF NoStaleBinding
<1>7. BindingOrder'
  BY <1>1 DEF BindingOrder, Pending
<1> QED
  BY <1>3, <1>4, <1>5, <1>6, <1>7

\* The route is recorded after the binding.
LEMMA RouteChain ==
    ASSUME Typed, Chain, NEW m \in Messages, InsertRoute(m)
    PROVE  Chain'
<1> USE DEF Chain
<1>1. /\ m \in Workers \ {Consumer} /\ Consumer \in Workers /\ pc[m] = "routing"
      /\ pc'[m] \in {"done", "failed"} /\ job'[m] = NoTask
      /\ \A v \in Workers \ {m} : pc'[v] = pc[v] /\ job'[v] = job[v]
      /\ routes' = routes \cup {job[m]}
      /\ UNCHANGED <<bound, owner, live, results, answers, left>>
      /\ \A n \in Messages : n \in Workers
  BY ConversationAssumption
  DEF InsertRoute, Goto, userVars, Typed, Hands, Workers
<1>2. \A t : (Open(t)' <=> Open(t)) /\ (Pending(t)' <=> Pending(t))
  BY <1>1 DEF Open, Pending, InHand
<1>3. ResultsOnce'
  BY <1>1 DEF ResultsOnce, Pending
<1>4. NewlySubmitted'
  <2>1. pc[Consumer] # "idle" <=> job[Consumer] # NoTask
    BY ConversationAssumption DEF Typed, Hands, Workers
  <2> QED
    BY <1>1, <2>1 DEF NewlySubmitted, Pending
<1>5. OneOpen' /\ OpenIsUnanswered' /\ EarlyEnds'
  BY <1>1, <1>2 DEF OneOpen, OpenIsUnanswered, EarlyEnds, Unanswered, Used
<1>6. NothingBefore' /\ AnswerShape'
  BY <1>1 DEF NothingBefore, Before, AnswerShape, Unanswered
<1>7. NoStaleBinding'
  BY <1>1 DEF NoStaleBinding
<1>8. BindingOrder'
  <2>1. ASSUME NEW v \in Workers, pc[v] = "submitted"
        PROVE  job[v] # job[m]
    <3>1. CASE v = Consumer
      BY <2>1, <3>1 DEF NewlySubmitted
    <3>2. CASE v \in Messages
      BY <1>1, <2>1, <3>2 DEF Typed, Hands
    <3> QED
      BY <3>1, <3>2 DEF Workers
  <2> QED
    BY <1>1, <2>1 DEF BindingOrder, Pending
<1> QED
  BY <1>3, <1>4, <1>5, <1>6, <1>7, <1>8

\* A task ends: its result is in the channel.
LEMMA EndChain ==
    ASSUME Typed, Chain, NEW t \in live, live' = live \ {t},
           results' = Append(results, t),
           UNCHANGED <<pc, job, bound, routes, owner, answers, left>>
    PROVE  Chain'
<1> USE DEF Chain
<1>1. /\ Range(results') = Range(results) \cup {t} /\ IsInjective(results')
  <2>1. t \in Tasks /\ results \in Seq(Tasks) /\ IsInjective(results)
        /\ t \notin Range(results)
    BY DEF Typed, TablesTyped, Used, ResultsOnce
  <2> QED
    BY <2>1, PushBack
<1>2. \A u : (Open(u)' <=> Open(u)) /\ (Pending(u)' <=> Pending(u))
             /\ (StillPending(u) <=> Pending(u))
  BY <1>1 DEF Open, Pending, InHand, StillPending
<1>3. ResultsOnce' /\ NewlySubmitted'
  BY <1>1, <1>2 DEF ResultsOnce, NewlySubmitted, Pending
<1>4. OneOpen' /\ OpenIsUnanswered' /\ EarlyEnds'
  BY <1>2 DEF OneOpen, OpenIsUnanswered, EarlyEnds, Unanswered, Used
<1>5. NothingBefore' /\ AnswerShape'
  BY DEF NothingBefore, Before, AnswerShape, Unanswered
<1>6. NoStaleBinding'
  BY <1>1 DEF NoStaleBinding
<1>7. BindingOrder'
  BY <1>1 DEF BindingOrder, Pending
<1> QED
  BY <1>3, <1>4, <1>5, <1>6, <1>7

\* The consumer takes a result: with its binding the chain goes on, without it
\* the chain ends and its message is left.  A result whose route is known has
\* its binding.
LEMMA TakeChain ==
    ASSUME Typed, Chain, TakeResult
    PROVE  Chain'
<1> USE DEF Chain
<1> DEFINE t == Head(results)
<1>1. /\ results # <<>> /\ results' = Tail(results)
      /\ results \in Seq(Tasks) /\ IsInjective(results)
  BY DEF TakeResult, Typed, TablesTyped, ResultsOnce
<1>2. /\ t \in Tasks /\ t \in Range(results) /\ Range(results') = Range(results) \ {t}
      /\ IsInjective(results')
  BY <1>1, PopFront
<1>3. /\ pc[Consumer] = "idle" /\ bound' = bound \ {t}
      /\ IF t \in bound
         THEN /\ job' = [job EXCEPT ![Consumer] = t]
              /\ pc' = [pc EXCEPT ![Consumer] = "took"]
              /\ UNCHANGED <<routes, answers, left>>
         ELSE /\ routes' = routes \ {t}
              /\ IF t \in routes
                 THEN Answer(owner[t], "final") /\ UNCHANGED left
                 ELSE /\ left' = [left EXCEPT ![owner[t]] = "early"]
                      /\ UNCHANGED answers
              /\ UNCHANGED <<pc, job>>
      /\ UNCHANGED <<owner, live>>
  BY DEF TakeResult, Goto, userVars
<1> HIDE DEF t
<1>4. /\ t \in Used /\ owner[t] \in Messages /\ t \notin live
      /\ Consumer \in Workers /\ \A m \in Messages : m \in Workers \ {Consumer}
      /\ Open(t) /\ Pending(t)
  BY <1>2, ConversationAssumption
  DEF Typed, TablesTyped, Used, ResultsOnce, Workers, Open, Pending
<1>5. \A u : Pending(u)' <=> Pending(u) /\ u # t
  BY <1>2, <1>3, <1>4 DEF Pending
<1>6. CASE t \in bound
  <2>1. /\ job'[Consumer] = t /\ pc'[Consumer] = "took"
        /\ \A w \in Workers \ {Consumer} : job'[w] = job[w] /\ pc'[w] = pc[w]
        /\ UNCHANGED <<routes, answers, left, owner, live>>
    BY <1>3, <1>4, <1>6 DEF Typed, Hands
  <2>2. \A u : Open(u)' <=> Open(u)
    BY <1>2, <1>3, <1>4, <1>5, <2>1 DEF Open, InHand
  <2>3. ResultsOnce' /\ NewlySubmitted'
    BY <1>2, <1>4, <2>1 DEF ResultsOnce, NewlySubmitted, Pending
  <2>4. OneOpen' /\ OpenIsUnanswered' /\ EarlyEnds'
    BY <2>1, <2>2 DEF OneOpen, OpenIsUnanswered, EarlyEnds, Unanswered, Used
  <2>5. NothingBefore' /\ AnswerShape'
    BY <1>4, <2>1 DEF NothingBefore, Before, AnswerShape, Unanswered
  <2>6. NoStaleBinding'
    BY <1>2, <1>3, <2>1 DEF NoStaleBinding
  <2>7. BindingOrder'
    <3>1. ASSUME NEW w \in Workers, pc'[w] = "submitted"
          PROVE  /\ w # Consumer /\ job'[w] # t
                 /\ Pending(job[w]) \/ left[owner[job[w]]] = "early"
                 /\ job[w] \notin routes /\ job[w] \notin bound
      BY <1>6, <2>1, <3>1 DEF BindingOrder
    <3>2. ASSUME NEW w \in Workers, pc'[w] \in {"bound", "routing"}
          PROVE  w # Consumer /\ (Pending(job[w]) => job[w] \in bound)
      BY <2>1, <3>2 DEF BindingOrder
    <3>3. \A u : StillPending(u) <=> Pending(u) /\ u # t
      BY <1>2, <1>3, <1>4 DEF Pending, StillPending
    <3>4. \A u \in routes' : StillPending(u) => u \in bound'
      BY <1>3, <2>1, <3>3 DEF BindingOrder
    <3>5. \A w \in Workers : pc'[w] = "submitted" =>
             /\ StillPending(job'[w]) \/ left'[owner'[job'[w]]] = "early"
             /\ job'[w] \notin routes' /\ job'[w] \notin bound'
      BY <1>3, <2>1, <3>1, <3>3
    <3>6. \A w \in Workers : pc'[w] \in {"bound", "routing"}
             /\ StillPending(job'[w]) => job'[w] \in bound'
      BY <1>3, <2>1, <3>2, <3>3
    <3> QED
      BY <3>4, <3>5, <3>6 DEF BindingOrder, Pending, StillPending
  <2> QED
    BY <2>3, <2>4, <2>5, <2>6, <2>7
<1>7. CASE t \notin bound
  <2>1. t \notin routes
    BY <1>4, <1>7 DEF BindingOrder
  <2>2. /\ left'[owner[t]] = "early"
        /\ \A m \in Messages \ {owner[t]} : left'[m] = left[m]
        /\ UNCHANGED <<pc, job, answers, owner, live>>
        /\ bound' = bound /\ routes' = routes
    BY <1>3, <1>4, <1>7, <2>1 DEF Typed, RepliesTyped
  <2>3. \A u : Open(u)' <=> Open(u) /\ u # t
    BY <1>3, <1>5, <2>2 DEF Open, InHand
  <2>4. ResultsOnce' /\ NewlySubmitted'
    BY <1>2, <1>3, <1>5, <2>2 DEF ResultsOnce, NewlySubmitted
  <2>5. OneOpen' /\ OpenIsUnanswered'
    BY <2>2, <2>3 DEF OneOpen, OpenIsUnanswered, Unanswered, Used
  <2>6. EarlyEnds'
    <3>1. Unanswered(owner[t])
      BY <1>4 DEF OpenIsUnanswered
    <3>2. \A u \in Tasks : owner[u] = owner[t] => ~Open(u)'
      BY <1>2, <1>4, <2>3 DEF OneOpen
    <3> QED
      BY <2>2, <2>3, <3>1, <3>2 DEF EarlyEnds, Unanswered
  <2>7. NothingBefore'
    BY <1>2, <1>4, <2>2 DEF NothingBefore, Before
  <2>8. AnswerShape'
    BY <2>2 DEF AnswerShape, Unanswered
  <2>9. NoStaleBinding'
    <3>1. \A u \in bound : u # t /\ owner[u] \in Messages
      BY <1>7 DEF Typed, TablesTyped, Used
    <3> QED
      BY <1>2, <2>2, <3>1 DEF NoStaleBinding
  <2>10. BindingOrder'
    <3>1. \A w \in Workers : pc[w] = "submitted" => owner[job[w]] \in Messages
      BY DEF Typed, Hands, Used, Workers
    <3> QED
      BY <1>2, <2>2, <3>1 DEF BindingOrder, Pending
  <2> QED
    BY <2>4, <2>5, <2>6, <2>7, <2>8, <2>9, <2>10
<1> QED
  BY <1>6, <1>7

\* The consumer goes on with the result in its hands.
LEMMA ConsumerMoves ==
    ASSUME Typed, Chain, ObserveResult \/ MissRecord \/ ResumeTurn \/ PlanContinuation
    PROVE  Chain'
<1> USE DEF Chain
<1> DEFINE Hand == {"took", "fallback", "resuming", "planning", "finalizing",
                    "submitting"}
<1>1. /\ pc[Consumer] \in Hand /\ pc'[Consumer] \in Hand
      /\ \A w \in Workers \ {Consumer} : pc'[w] = pc[w]
      /\ UNCHANGED <<job, bound, routes, owner, live, results, answers, left>>
      /\ Consumer \in Workers /\ \A m \in Messages : m \in Workers \ {Consumer}
  BY ConversationAssumption
  DEF ObserveResult, MissRecord, ResumeTurn, PlanContinuation, Goto, taskVars,
      userVars, Typed, Hands, Workers
<1>2. \A t : (Open(t)' <=> Open(t)) /\ (Pending(t)' <=> Pending(t))
  BY <1>1 DEF Open, Pending, InHand
<1>3. ResultsOnce' /\ NewlySubmitted'
  BY <1>1 DEF ResultsOnce, NewlySubmitted, Pending
<1>4. OneOpen' /\ OpenIsUnanswered' /\ EarlyEnds'
  BY <1>1, <1>2 DEF OneOpen, OpenIsUnanswered, EarlyEnds, Unanswered, Used
<1>5. NothingBefore' /\ AnswerShape'
  BY <1>1 DEF NothingBefore, Before, AnswerShape, Unanswered
<1>6. NoStaleBinding' /\ BindingOrder'
  BY <1>1 DEF NoStaleBinding, BindingOrder, Pending
<1> QED
  BY <1>3, <1>4, <1>5, <1>6

\* The consumer ends a chain: the result is closed, with an answer or without.
LEMMA ConsumerEnds ==
    ASSUME Typed, Chain,
           pc[Consumer] \in {"took", "fallback", "resuming", "planning", "finalizing"},
           NEW m, m = owner[job[Consumer]],
           \/ /\ pc' = [pc EXCEPT ![Consumer] = "idle"]
              /\ job' = [job EXCEPT ![Consumer] = NoTask]
           \/ pc' = [pc EXCEPT ![Consumer] = "completing"] /\ job' = job,
           \/ left' = left /\ \E x \in Ends : Answer(m, x)
           \/ /\ answers' = answers
              /\ \E why \in {"failed", "cancelled"} : left' = [left EXCEPT ![m] = why],
           UNCHANGED taskVars
    PROVE  Chain'
<1> USE DEF Chain
<1> DEFINE j == job[Consumer]
<1>1. /\ j \in Used /\ j \in Tasks /\ m \in Messages
      /\ Consumer \in Workers /\ \A n \in Messages : n \in Workers \ {Consumer}
      /\ UNCHANGED <<bound, routes, owner, live, results>>
      /\ Open(j) /\ ~Pending(j) /\ InHand(j)
  BY ConversationAssumption
  DEF Typed, Hands, Used, Workers, taskVars, Open, InHand, ResultsOnce
<1>2. /\ \A w \in Workers \ {Consumer} : pc'[w] = pc[w] /\ job'[w] = job[w]
      /\ \/ pc'[Consumer] = "idle" /\ job'[Consumer] = NoTask
         \/ pc'[Consumer] = "completing" /\ job'[Consumer] = j
  BY <1>1 DEF Typed, Hands
<1>3. Unanswered(m) /\ left[m] # "early"
  BY <1>1 DEF OpenIsUnanswered, EarlyEnds
<1> HIDE DEF j
<1>4. \A u : Open(u)' <=> Open(u) /\ u # j
  BY <1>1, <1>2 DEF Open, Pending, InHand, j
<1>5. \A u \in Tasks : owner[u] = m => ~Open(u)'
  BY <1>1, <1>4 DEF OneOpen, j
<1>6. /\ \A n \in Messages \ {m} : answers'[n] = answers[n] /\ left'[n] = left[n]
      /\ left'[m] # "early"
  BY <1>1, <1>3 DEF Answer, Typed, RepliesTyped
<1>7. \/ answers'[m] = answers[m]
      \/ \E x \in Ends : answers'[m] = Append(answers[m], x)
  BY <1>1 DEF Answer, Typed, RepliesTyped
<1>8. ResultsOnce' /\ NewlySubmitted'
  BY <1>1, <1>2 DEF ResultsOnce, NewlySubmitted, Pending
<1>9. OneOpen'
  BY <1>1, <1>4 DEF OneOpen
<1>10. OpenIsUnanswered'
  BY <1>1, <1>4, <1>5, <1>6 DEF OpenIsUnanswered, Unanswered, Used
<1>11. EarlyEnds'
  BY <1>1, <1>4, <1>6 DEF EarlyEnds, Unanswered
<1>12. NothingBefore'
  <2>1. ~Before(m)
    BY <1>1 DEF NothingBefore, j
  <2> QED
    BY <1>1, <1>2, <1>6, <2>1 DEF NothingBefore, Before
<1>13. AnswerShape'
  <2>1. /\ pc[m] # "done" => answers[m] = <<>>
        /\ answers[m] \in {<<>>, <<"error">>}
    BY <1>1, <1>3 DEF AnswerShape, Unanswered, Ends
  <2>2. CASE answers'[m] = answers[m]
    BY <1>1, <1>2, <1>6, <2>2 DEF AnswerShape, Unanswered
  <2>3. ASSUME NEW x \in Ends, answers'[m] = Append(answers[m], x)
        PROVE  AnswerShape'
    <3>1. Append(<<>>, x) = <<x>> /\ Append(<<"error">>, x) = <<"error", x>>
      BY FirstAnswer, SecondAnswer
    <3>2. /\ answers'[m] = <<x>> \/ answers'[m] = <<"error", x>>
          /\ pc[m] # "done" => answers'[m] = <<x>>
      BY <2>1, <2>3, <3>1
    <3>3. ASSUME NEW n \in Messages \ {m}
          PROVE  answers'[n] = answers[n] /\ pc'[n] = pc[n]
      BY <1>1, <1>2, <1>6
    <3>4. pc'[m] = pc[m]
      BY <1>1, <1>2
    <3> QED
      BY <1>1, <3>2, <3>3, <3>4 DEF AnswerShape, Unanswered
  <2> QED
    BY <1>7, <2>2, <2>3
<1>14. NoStaleBinding'
  <2>1. \A u \in bound : owner[u] \in Messages
    BY DEF Typed, TablesTyped, Used
  <2> QED
    BY <1>1, <1>3, <1>6, <2>1 DEF NoStaleBinding
<1>15. BindingOrder'
  <2>1. \A w \in Workers : pc[w] = "submitted" => owner[job[w]] \in Messages
    BY DEF Typed, Hands, Used, Workers
  <2> QED
    BY <1>1, <1>2, <1>3, <1>6, <2>1 DEF BindingOrder, Pending
<1> QED
  BY <1>8, <1>9, <1>10, <1>11, <1>12, <1>13, <1>14, <1>15

\* After the reply the turn is completed, and the consumer is idle.
LEMMA CompleteChain ==
    ASSUME Typed, Chain, CompleteReplied
    PROVE  Chain'
<1> USE DEF Chain
<1> DEFINE j == job[Consumer]
<1>1. /\ pc[Consumer] = "completing" /\ pc'[Consumer] = "idle"
      /\ job'[Consumer] = NoTask
      /\ \A w \in Workers \ {Consumer} : pc'[w] = pc[w] /\ job'[w] = job[w]
      /\ bound' = bound \ {j} /\ ~Pending(j)
      /\ UNCHANGED <<routes, owner, live, results, answers, left>>
      /\ Consumer \in Workers /\ \A m \in Messages : m \in Workers \ {Consumer}
  BY ConversationAssumption
  DEF CompleteReplied, Goto, userVars, Typed, Hands, Workers, ResultsOnce
<1>2. \A t : (Open(t)' <=> Open(t)) /\ (Pending(t)' <=> Pending(t))
             /\ (StillPending(t) <=> Pending(t))
  BY <1>1 DEF Open, Pending, InHand, StillPending
<1> HIDE DEF j
<1>3. ResultsOnce' /\ NewlySubmitted'
  BY <1>1 DEF ResultsOnce, NewlySubmitted
<1>4. OneOpen' /\ OpenIsUnanswered' /\ EarlyEnds'
  BY <1>1, <1>2 DEF OneOpen, OpenIsUnanswered, EarlyEnds, Unanswered, Used
<1>5. NothingBefore' /\ AnswerShape'
  BY <1>1 DEF NothingBefore, Before, AnswerShape, Unanswered
<1>6. NoStaleBinding'
  BY <1>1 DEF NoStaleBinding
<1>7. BindingOrder'
  <2>1. \A w \in Workers : pc'[w] = "submitted" =>
           /\ StillPending(job'[w]) \/ left'[owner'[job'[w]]] = "early"
           /\ job'[w] \notin routes' /\ job'[w] \notin bound'
    BY <1>1, <1>2 DEF BindingOrder
  <2>2. \A w \in Workers : pc'[w] \in {"bound", "routing"}
           /\ StillPending(job'[w]) => job'[w] \in bound'
    BY <1>1, <1>2 DEF BindingOrder
  <2>3. \A u \in routes' : StillPending(u) => u \in bound'
    BY <1>1, <1>2 DEF BindingOrder
  <2> QED
    BY <2>1, <2>2, <2>3 DEF BindingOrder, Pending, StillPending
<1> QED
  BY <1>3, <1>4, <1>5, <1>6, <1>7

\* Every step keeps the chains.
LEMMA NextChain == Typed /\ Chain /\ [Next]_vars => Chain'
<1> SUFFICES ASSUME Typed, Chain, [Next]_vars PROVE Chain'
  OBVIOUS
<1>1. ASSUME NEW m \in Messages, MessageStep(m) PROVE Chain'
  <2>1. CASE StartTurn(m) \/ PlanReply(m) \/ PlanTask(m) \/ PlanFails(m)
    <3>1. /\ \E where \in {"planning", "replying", "submitting", "failed"} :
                pc' = [pc EXCEPT ![m] = where]
          /\ Before(m) /\ UNCHANGED <<job, taskVars, userVars>>
      BY <2>1 DEF StartTurn, PlanReply, PlanTask, PlanFails, Goto, Before
    <3> QED
      BY <3>1, HandlerMoves
  <2>2. CASE SendReply(m)
    <3>1. CASE answers' = answers
      <4>1. /\ Before(m) /\ UNCHANGED <<job, taskVars, userVars>>
        BY <2>2, <3>1 DEF SendReply, Before, userVars
      <4>2. CASE pc' = [pc EXCEPT ![m] = "failed"]
        BY <4>1, <4>2, HandlerMoves
      <4>3. CASE pc' = [pc EXCEPT ![m] = "done"] /\ Answer(m, "final")
        BY <2>2, <4>3, DirectReply DEF SendReply
      <4> QED
        BY <2>2, <4>2, <4>3 DEF SendReply, Goto
    <3>2. CASE answers' # answers
      BY <2>2, <3>2, DirectReply DEF SendReply, Goto
    <3> QED
      BY <3>1, <3>2
  <2>3. CASE ReplyError(m)
    BY <2>3, ErrorReply
  <2>4. CASE InsertRoute(m)
    BY <2>4, RouteChain
  <2> QED
    BY <1>1, <2>1, <2>2, <2>3, <2>4 DEF MessageStep
<1>2. ASSUME NEW w \in Workers, ToolCallStep(w) PROVE Chain'
  <2>1. CASE SubmitTask(w)
    BY <2>1, SubmitChain
  <2>2. CASE BindTask(w)
    BY <2>2, BindChain
  <2>3. CASE MarkWaiting(w) /\ w = Consumer
    BY <2>3, ConsumerWaits
  <2>4. CASE MarkWaiting(w) /\ w # Consumer
    <3>1. w \in Messages
      BY <2>4 DEF Workers
    <3> QED
      BY <2>4, <3>1, HandlerMoves DEF MarkWaiting, Goto
  <2> QED
    BY <1>2, <2>1, <2>2, <2>3, <2>4 DEF ToolCallStep
<1>3. CASE ResultStep
  <2>1. /\ pc[Consumer] # "idle" => MsgOf(Consumer) = owner[job[Consumer]]
        /\ {"final", "local", "fallback"} \subseteq Ends
    BY WorkerMsg DEF Typed, Ends, Replies
  <2>2. CASE TakeResult
    BY <2>2, TakeChain
  <2>3. CASE ObserveResult \/ MissRecord \/ ResumeTurn \/ PlanContinuation
    BY <2>3, ConsumerMoves
  <2>4. CASE SkipCancelled
    BY <2>1, <2>4, ConsumerEnds DEF SkipCancelled, Goto
  <2>5. CASE ContinuationFails
    BY <2>1, <2>5, ConsumerEnds DEF ContinuationFails, Goto
  <2>6. CASE ContinueLocally
    BY <2>1, <2>6, ConsumerEnds DEF ContinueLocally, Goto
  <2>7. CASE FinalizeReply
    BY <2>1, <2>7, ConsumerEnds DEF FinalizeReply, Goto
  <2>8. CASE CompleteReplied
    BY <2>8, CompleteChain
  <2> QED
    BY <1>3, <2>2, <2>3, <2>4, <2>5, <2>6, <2>7, <2>8 DEF ResultStep
<1>4. ASSUME NEW t \in Tasks, TaskEnds(t) PROVE Chain'
  BY <1>4, EndChain DEF TaskEnds, workVars, userVars
<1>5. CASE CancelTask
  <2>1. CASE cancelling \in live
    BY <1>5, <2>1, EndChain DEF CancelTask, workVars, userVars
  <2>2. CASE cancelling \notin live
    <3>1. live' = live
      BY <1>5, <2>2 DEF CancelTask
    <3> QED
      BY <1>5, <2>2, <3>1, ChainUntouched DEF CancelTask, workVars, taskVars
  <2> QED
    BY <2>1, <2>2
<1>6. CASE \/ \E t \in Tasks : ApprovalLooksUp(t) \/ CancelLooksUp(t)
           \/ ApprovalMarks \/ CancelTurn
  BY <1>6, ChainUntouched
  DEF ApprovalLooksUp, CancelLooksUp, ApprovalMarks, CancelTurn, workVars
<1>7. CASE UNCHANGED vars
  BY <1>7, ChainUntouched DEF vars, taskVars, userVars
<1> QED
  BY <1>1, <1>2, <1>3, <1>4, <1>5, <1>6, <1>7 DEF Next

\* The invariant of the chains of tasks, however messages overlap.
THEOREM ChainInvariant == Spec => [](Typed /\ Chain)
<1>1. Init => Typed /\ Chain
  BY InitTyped, InitChain
<1>2. Typed /\ Chain /\ [Next]_vars => (Typed /\ Chain)'
  BY NextTyped, NextChain
<1> QED
  BY <1>1, <1>2, PTL DEF Spec

\* A chain of tasks ends in one answer, whatever results, evictions,
\* cancellations and further messages of the session do to it; an error reply
\* may come on top.
THEOREM OneAnswer == Spec => []AnsweredOnce
<1>1. Chain => AnsweredOnce
  <2> SUFFICES ASSUME AnswerShape, NEW m \in Messages
               PROVE  Len(answers[m]) <= (IF "error" \in Range(answers[m])
                                          THEN 2 ELSE 1)
    BY DEF Chain, AnsweredOnce
  <2> DEFINE a == answers[m]
  <2>1. \/ a = <<>>
        \/ \E x \in Ends \cup {"error"} : a = <<x>>
        \/ \E x \in Ends : a = <<x, "error">> \/ a = <<"error", x>>
    BY DEF AnswerShape, Unanswered
  <2> HIDE DEF a
  <2>2. CASE a = <<>>
    <3>1. Len(a) = 0
      BY <2>2
    <3> QED
      BY <3>1 DEF a
  <2>3. CASE \E x \in Ends \cup {"error"} : a = <<x>>
    <3>1. Len(a) = 1
      BY <2>3
    <3> QED
      BY <3>1 DEF a
  <2>4. CASE \E x \in Ends : a = <<x, "error">> \/ a = <<"error", x>>
    <3> PICK x \in Ends : a = <<x, "error">> \/ a = <<"error", x>>
      BY <2>4
    <3>1. Len(a) = 2 /\ "error" \in Range(a)
      <4>1. Len(a) = 2 /\ DOMAIN a = 1 .. 2
        OBVIOUS
      <4>2. a[1] = "error" \/ a[2] = "error"
        OBVIOUS
      <4> QED
        BY <4>1, <4>2 DEF Range
    <3> QED
      BY <3>1 DEF a
  <2> QED
    BY <2>1, <2>2, <2>3, <2>4
<1> QED
  BY <1>1, ChainInvariant, PTL

\* take_task_binding leaves no binding behind whose result was taken, except
\* where the result came before the binding.
THEOREM BindingsConsumed == Spec => []NoStaleBinding
<1>1. Chain => NoStaleBinding
  BY DEF Chain
<1> QED
  BY <1>1, ChainInvariant, PTL

-----------------------------------------------------------------------------
(* A cancelled message.                                                    *)

\* The turn of a session changes hands, and loses its cancel flag, only when
\* start_turn replaces it.
LEMMA TurnPast ==
    ASSUME Typed, [Next]_vars,
           ~\E m \in Messages : StartTurn(m)
    PROVE  \A s \in Sessions : /\ turn'[s].msg = turn[s].msg
                               /\ turn[s].cancel => turn'[s].cancel
<1> SUFFICES ASSUME NEW s \in Sessions
             PROVE  turn'[s].msg = turn[s].msg /\ (turn[s].cancel => turn'[s].cancel)
  OBVIOUS
<1>1. turn \in [Sessions -> Turns] /\ turn[s] \in Turns
  BY DEF Typed, TurnsTyped
<1>2. ASSUME NEW m \in Messages, MessageStep(m)
      PROVE  turn'[s].msg = turn[s].msg /\ turn'[s].cancel = turn[s].cancel
  <2>1. CASE PlanReply(m)
    BY <1>1, <2>1 DEF PlanReply, Turns
  <2>2. CASE PlanTask(m)
    BY <1>1, <2>2 DEF PlanTask, Turns
  <2>3. CASE PlanFails(m)
    BY <1>1, <2>3 DEF PlanFails, Turns
  <2>4. CASE SendReply(m) \/ ReplyError(m) \/ InsertRoute(m)
    BY <2>4 DEF SendReply, ReplyError, InsertRoute
  <2> QED
    BY <1>2, <2>1, <2>2, <2>3, <2>4 DEF MessageStep
<1>3. ASSUME NEW w \in Workers, ToolCallStep(w)
      PROVE  turn'[s].msg = turn[s].msg /\ turn'[s].cancel = turn[s].cancel
  <2>1. CASE SubmitTask(w) \/ BindTask(w)
    BY <2>1 DEF SubmitTask, BindTask
  <2>2. CASE MarkWaiting(w)
    BY <1>1, <2>2 DEF MarkWaiting, Turns
  <2> QED
    BY <1>3, <2>1, <2>2 DEF ToolCallStep
<1>4. CASE ResultStep
  <2>1. CASE TakeResult \/ ObserveResult \/ SkipCancelled \/ MissRecord
             \/ FinalizeReply
    BY <2>1 DEF TakeResult, ObserveResult, SkipCancelled, MissRecord,
                FinalizeReply
  <2>2. CASE ResumeTurn
    BY <1>1, <2>2 DEF ResumeTurn, Turns
  <2>3. CASE PlanContinuation
    BY <1>1, <2>3 DEF PlanContinuation, Turns
  <2>4. CASE ContinuationFails
    BY <1>1, <2>4 DEF ContinuationFails, Turns
  <2>5. CASE ContinueLocally
    BY <1>1, <2>5 DEF ContinueLocally, Turns
  <2>6. CASE CompleteReplied
    BY <1>1, <2>6 DEF CompleteReplied, CompleteTurn, Turns
  <2> QED
    BY <1>4, <2>1, <2>2, <2>3, <2>4, <2>5, <2>6 DEF ResultStep
<1>5. CASE ApprovalMarks
  BY <1>1, <1>5 DEF ApprovalMarks, Turns
<1>6. CASE CancelTurn
  BY <1>1, <1>6 DEF CancelTurn, Turns
<1>7. CASE \/ \E t \in Tasks : TaskEnds(t) \/ ApprovalLooksUp(t) \/ CancelLooksUp(t)
           \/ CancelTask \/ UNCHANGED vars
  BY <1>7 DEF TaskEnds, ApprovalLooksUp, CancelLooksUp, CancelTask, vars
<1> QED
  BY <1>2, <1>3, <1>4, <1>5, <1>6, <1>7 DEF Next

\* A stopped message stays without an answer as long as its chain opens
\* nowhere and goes no further.
LEMMA StoppedKept ==
    ASSUME Typed, Chain, Stopped, stopped' \subseteq stopped,
           \A m \in stopped' : Before(m)' => Before(m),
           \A m \in stopped' : \A t \in Tasks :
              owner'[t] = m /\ Open(t)' =>
                 /\ owner[t] = m /\ Open(t)
                 /\ turn[SessionOf[m]].cancel => turn'[SessionOf[m]].cancel
                 /\ InHand(t)' => pc'[Consumer] \in {"took", "fallback"},
           \A m \in stopped' :
              Range(answers'[m]) \cap {"final", "local"} = {}
    PROVE  Stopped'
BY DEF Stopped

\* cancel_turn acts on the session's turn; a bound task is the open one of its
\* message, or its message is left.
LEMMA CancelStops ==
    ASSUME Typed, Chain, Stopped, CancelTurn
    PROVE  Stopped'
<1> DEFINE c == cancelling
           o == owner[cancelling]
<1>1. /\ c \in Used /\ c \in Tasks /\ o \in Messages /\ SessionOf[o] \in Sessions
      /\ turn' = [turn EXCEPT ![SessionOf[o]].status = "Cancelled",
                              ![SessionOf[o]].cancel = TRUE]
      /\ stopped' = IF c \in bound THEN stopped \cup {o} ELSE stopped
      /\ UNCHANGED <<pc, job, bound, owner, live, results, answers, left>>
  BY ConversationAssumption
  DEF CancelTurn, Typed, TablesTyped, Used, workVars, taskVars, userVars
<1>2. turn'[SessionOf[o]].cancel /\ \A m \in Messages :
         turn[SessionOf[m]].cancel => turn'[SessionOf[m]].cancel
  <2>1. turn \in [Sessions -> Turns] /\ \A m \in Messages : SessionOf[m] \in Sessions
    BY ConversationAssumption DEF Typed, TurnsTyped
  <2> QED
    BY <1>1, <2>1 DEF Turns
<1> HIDE DEF c, o
<1>3. \A t : /\ Open(t)' <=> Open(t)
             /\ InHand(t)' <=> InHand(t)
      /\ \A m : Before(m)' <=> Before(m)
  BY <1>1 DEF Open, Pending, InHand, Before
<1>4. ASSUME c \in bound
      PROVE  /\ Unanswered(o) /\ ~Before(o)
             /\ \A t \in Tasks : owner[t] = o /\ Open(t) => ~InHand(t)
  <2>1. ~Before(o)
    BY <1>1 DEF Chain, NothingBefore, o, c
  <2>2. CASE Pending(c)
    <3>1. Open(c) /\ ~InHand(c)
      BY <2>2 DEF Open, InHand, Chain, ResultsOnce
    <3> QED
      BY <1>1, <2>1, <3>1 DEF Chain, OpenIsUnanswered, OneOpen, o, c
  <2>3. CASE ~Pending(c)
    <3>1. left[o] = "early"
      BY <1>4, <2>3 DEF Chain, NoStaleBinding, Pending, o, c
    <3> QED
      BY <1>1, <2>1, <3>1 DEF Chain, EarlyEnds
  <2> QED
    BY <2>2, <2>3
<1>5. ASSUME Unanswered(o) PROVE Range(answers[o]) \cap {"final", "local"} = {}
  <2>1. CASE answers[o] = <<>>
    BY <2>1 DEF Range
  <2>2. CASE answers[o] = <<"error">>
    <3>1. DOMAIN answers[o] = {1} /\ answers[o][1] = "error"
      BY <2>2
    <3> QED
      BY <3>1 DEF Range
  <2> QED
    BY <1>5, <2>1, <2>2 DEF Unanswered
<1>6. ASSUME NEW m \in stopped'
      PROVE  /\ Range(answers'[m]) \cap {"final", "local"} = {}
             /\ ~Before(m)'
             /\ \A t \in Tasks : owner'[t] = m /\ Open(t)' =>
                   /\ turn'[SessionOf[m]].cancel
                   /\ InHand(t)' => pc'[Consumer] \in {"took", "fallback"}
  <2>1. CASE m \in stopped
    <3>1. m \in Messages
      BY <2>1 DEF Typed, TablesTyped
    <3> QED
      BY <1>1, <1>2, <1>3, <2>1, <3>1 DEF Stopped
  <2>2. CASE m \notin stopped
    BY <1>1, <1>2, <1>3, <1>4, <1>5, <1>6, <2>2
  <2> QED
    BY <2>1, <2>2
<1> QED
  BY <1>6 DEF Stopped

\* A result, with its binding or without, is not in front of an answer.
LEMMA TakeStopped ==
    ASSUME Typed, Chain, Stopped, TakeResult
    PROVE  Stopped'
<1> DEFINE t == Head(results)
<1>1. /\ t \in Tasks /\ t \in Range(results) /\ Range(results') = Range(results) \ {t}
  <2>1. /\ results # <<>> /\ results' = Tail(results)
        /\ results \in Seq(Tasks) /\ IsInjective(results)
    BY DEF TakeResult, Typed, TablesTyped, Chain, ResultsOnce
  <2> QED
    BY <2>1, PopFront
<1>2. t \in routes => t \in bound
  BY <1>1 DEF Chain, BindingOrder, Pending
<1>3. /\ answers' = answers /\ UNCHANGED <<turn, owner, live, stopped>>
      /\ \/ job' = [job EXCEPT ![Consumer] = t] /\ pc' = [pc EXCEPT ![Consumer] = "took"]
         \/ UNCHANGED <<pc, job>>
      /\ pc[Consumer] = "idle"
  BY <1>2 DEF TakeResult, Goto, userVars, cancelVars
<1> HIDE DEF t
<1>4. /\ Consumer \in Workers /\ \A m \in Messages : m \in Workers \ {Consumer}
      /\ pc \in [Workers -> HandlerPlaces \cup ConsumerPlaces]
      /\ job \in [Workers -> Tasks \cup {NoTask}]
  BY ConversationAssumption DEF Workers, Typed, Hands
<1>5. \A u : /\ Open(u)' => Open(u)
             /\ InHand(u)' => pc'[Consumer] = "took"
  BY <1>1, <1>3, <1>4 DEF Open, Pending, InHand
<1>6. \A m \in Messages : Before(m)' <=> Before(m)
  BY <1>3, <1>4 DEF Before
<1> QED
  BY <1>3, <1>5, <1>6, StoppedKept DEF Stopped, Typed, TablesTyped

\* A stopped message has no handler that could answer or submit, and the
\* consumer does not get past the cancel flag with its result.
LEMMA HandlerStopped ==
    ASSUME Typed, Chain, Stopped, NEW m \in Messages, MessageStep(m)
    PROVE  Stopped'
<1>1. /\ m \in Workers /\ m # Consumer /\ Consumer \in Workers
      /\ \A n \in Messages : n \in Workers \ {Consumer}
      /\ stopped \subseteq Messages
      /\ \A n \in Messages : SessionOf[n] \in Sessions
  BY ConversationAssumption DEF Workers, Typed, TablesTyped
<1>2. /\ \A v \in Workers \ {m} : pc'[v] = pc[v] /\ job'[v] = job[v]
      /\ UNCHANGED <<owner, live, results>> /\ stopped' \subseteq stopped
  BY <1>1
  DEF MessageStep, StartTurn, PlanReply, PlanTask, PlanFails, SendReply,
      ReplyError, InsertRoute, Goto, taskVars, cancelVars, Typed, Hands
<1>3. \A u : (Open(u)' <=> Open(u)) /\ (InHand(u)' <=> InHand(u))
  BY <1>1, <1>2 DEF Open, Pending, InHand
<1>4. \A n \in Messages : Before(n)' => Before(n)
  <2>1. Before(m)' => Before(m)
    BY <1>1
    DEF MessageStep, StartTurn, PlanReply, PlanTask, PlanFails, SendReply,
        ReplyError, InsertRoute, Goto, Before, Typed, Hands
  <2> QED
    BY <1>1, <1>2, <2>1 DEF Before
<1>5. ASSUME NEW n \in stopped', NEW t \in Tasks, owner[t] = n, Open(t),
             turn[SessionOf[n]].cancel
      PROVE  turn'[SessionOf[n]].cancel
  <2>1. CASE \E k \in Messages : StartTurn(k)
    <3> PICK k \in Messages : StartTurn(k)
      BY <2>1
    <3>1. t \in TasksOf(n) /\ t \in live \cup Range(results) \cup {job[Consumer]}
      BY <1>5 DEF TasksOf, Open, Pending, InHand
    <3>2. SessionOf[n] # SessionOf[k]
      BY <3>1 DEF StartTurn, Awaited
    <3> QED
      BY <1>1, <1>2, <1>5, <3>2 DEF StartTurn, Typed, TurnsTyped
  <2>2. CASE ~\E k \in Messages : StartTurn(k)
    <3>1. [Next]_vars
      BY DEF Next
    <3> QED
      BY <1>1, <1>2, <1>5, <2>2, <3>1, TurnPast
  <2> QED
    BY <2>1, <2>2
<1>6. ASSUME NEW n \in stopped'
      PROVE  Range(answers'[n]) \cap {"final", "local"} = {}
  <2>1. n \in Messages /\ ~Before(n) /\ Range(answers[n]) \cap {"final", "local"} = {}
    BY <1>1, <1>2 DEF Stopped
  <2>2. \/ answers'[n] = answers[n]
        \/ answers'[n] = Append(answers[n], "error")
    BY <2>1
    DEF MessageStep, StartTurn, PlanReply, PlanTask, PlanFails, SendReply,
        ReplyError, InsertRoute, Answer, userVars, Before, Typed, RepliesTyped
  <2>3. CASE answers'[n] = Append(answers[n], "error")
    <3>1. answers[n] \in Seq(Replies) /\ "error" \in Replies
      BY <2>1 DEF Typed, RepliesTyped, Replies
    <3>2. Range(answers'[n]) = Range(answers[n]) \cup {"error"}
      BY <2>3, <3>1, PushBack
    <3> QED
      BY <2>1, <3>2
  <2> QED
    BY <2>1, <2>2, <2>3
<1> QED
  BY <1>1, <1>2, <1>3, <1>4, <1>5, <1>6, StoppedKept DEF Stopped

\* Submitting and binding are not done for a stopped message's open result.
LEMMA ToolCallStopped ==
    ASSUME Typed, Chain, Stopped, NEW w \in Workers, ToolCallStep(w)
    PROVE  Stopped'
<1>1. /\ Consumer \in Workers /\ \A n \in Messages : n \in Workers \ {Consumer}
      /\ stopped \subseteq Messages /\ stopped' = stopped /\ answers' = answers
      /\ \A n \in Messages : SessionOf[n] \in Sessions
  BY ConversationAssumption
  DEF Workers, Typed, TablesTyped, ToolCallStep, SubmitTask, BindTask,
      MarkWaiting, cancelVars, userVars
<1>2. \A n \in Messages : turn[SessionOf[n]].cancel => turn'[SessionOf[n]].cancel
  <2>1. CASE turn' = turn
    BY <2>1
  <2>2. CASE MarkWaiting(w)
    BY <1>1, <2>2 DEF MarkWaiting, Typed, TurnsTyped, Turns
  <2> QED
    BY <2>1, <2>2 DEF ToolCallStep, SubmitTask, BindTask
<1>3. /\ \A v \in Workers \ {w} : pc'[v] = pc[v] /\ job'[v] = job[v]
      /\ pc[w] \in {"submitting", "submitted", "bound"}
      /\ pc'[w] \in {"submitted", "bound", "routing", "idle"}
      /\ results' = results
  BY DEF ToolCallStep, SubmitTask, BindTask, MarkWaiting, Goto, Typed, Hands,
         Workers, taskVars
<1>4. \A n \in Messages : Before(n)' => Before(n)
  BY <1>1, <1>3 DEF Before
<1>5. \A u : InHand(u)' => InHand(u) /\ pc'[Consumer] = pc[Consumer]
  BY <1>1, <1>3 DEF InHand
<1>6. CASE SubmitTask(w)
  <2> DEFINE t == CHOOSE t \in Unused : TRUE
  <2>1. t \in Tasks /\ owner[t] = NoMsg
    BY <1>6 DEF SubmitTask, Unused
  <2>2. /\ owner' = [owner EXCEPT ![t] = MsgOf(w)] /\ live' = live \cup {t}
        /\ pc[w] = "submitting"
    BY <1>6 DEF SubmitTask
  <2> HIDE DEF t
  <2>3. /\ owner'[t] = MsgOf(w) /\ \A u \in Tasks \ {t} : owner'[u] = owner[u]
    BY <2>1, <2>2 DEF Typed, Hands
  <2>4. \A u \in Tasks \ {t} : Open(u)' => Open(u)
    BY <1>3, <1>5, <2>2 DEF Open, Pending
  <2>5. MsgOf(w) \notin stopped
    <3>1. CASE w = Consumer
      <4>1. InHand(job[w]) /\ Open(job[w]) /\ job[w] \in Tasks
            /\ owner[job[w]] = MsgOf(w)
        BY <2>2, <3>1 DEF InHand, Open, MsgOf, Typed, Hands
      <4> QED
        BY <2>2, <3>1, <4>1 DEF Stopped
    <3>2. CASE w # Consumer
      BY <2>2, <3>2 DEF Stopped, Before, MsgOf
    <3> QED
      BY <3>1, <3>2
  <2>6. ASSUME NEW n \in stopped, NEW u \in Tasks, owner'[u] = n, Open(u)'
        PROVE  /\ owner[u] = n /\ Open(u)
               /\ InHand(u)' => pc'[Consumer] \in {"took", "fallback"}
    <3>1. u # t /\ owner[u] = n
      BY <2>3, <2>5, <2>6
    <3>2. Open(u)
      BY <2>4, <2>6, <3>1
    <3>3. InHand(u) => pc[Consumer] \in {"took", "fallback"}
      BY <3>1, <3>2 DEF Stopped
    <3> QED
      BY <1>5, <3>1, <3>2, <3>3
  <2> QED
    BY <1>1, <1>2, <1>4, <2>6, StoppedKept DEF Stopped
<1>7. CASE BindTask(w) \/ MarkWaiting(w)
  <2>1. UNCHANGED <<owner, live>>
    BY <1>7 DEF BindTask, MarkWaiting, taskVars
  <2>2. \A u : Open(u)' => Open(u)
    BY <1>3, <1>5, <2>1 DEF Open, Pending
  <2>3. ASSUME NEW n \in stopped, NEW u \in Tasks, owner'[u] = n, Open(u)'
        PROVE  /\ owner[u] = n /\ Open(u)
               /\ InHand(u)' => pc'[Consumer] \in {"took", "fallback"}
    BY <1>5, <2>1, <2>2, <2>3 DEF Stopped
  <2> QED
    BY <1>1, <1>2, <1>4, <2>3, StoppedKept DEF Stopped
<1> QED
  BY <1>6, <1>7 DEF ToolCallStep

\* The consumer with a stopped message's result skips it or falls back.
LEMMA ConsumerStopped ==
    ASSUME Typed, Chain, Stopped, ResultStep
    PROVE  Stopped'
<1>1. CASE TakeResult
  BY <1>1, TakeStopped
<1>2. CASE ~TakeResult
  <2> DEFINE j == job[Consumer]
             o == owner[j]
  <2>1. /\ Consumer \in Workers /\ \A n \in Messages : n \in Workers \ {Consumer}
        /\ stopped \subseteq Messages /\ stopped' = stopped
        /\ \A n \in Messages : SessionOf[n] \in Sessions
        /\ UNCHANGED <<owner, live, results>>
        /\ \A v \in Workers \ {Consumer} : pc'[v] = pc[v]
        /\ pc[Consumer] # "idle"
        /\ \/ job'[Consumer] = j \/ pc'[Consumer] = "idle"
    BY <1>2, ConversationAssumption
    DEF ResultStep, ObserveResult, SkipCancelled, MissRecord, ResumeTurn,
        PlanContinuation, ContinuationFails, ContinueLocally, FinalizeReply,
        CompleteReplied, Goto, Workers, Typed, TablesTyped, Hands, cancelVars,
        taskVars
  <2>2. /\ j \in Tasks /\ o \in Messages /\ MsgOf(Consumer) = o
        /\ SessionFor(Consumer) = SessionOf[o]
    BY <2>1 DEF Typed, Hands, Used, MsgOf, SessionFor
  <2>3. \A n \in Messages : /\ Before(n)' => Before(n)
                            /\ turn[SessionOf[n]].cancel => turn'[SessionOf[n]].cancel
    <3>1. [Next]_vars /\ ~\E k \in Messages : StartTurn(k)
      <4>1. \A k \in Messages : StartTurn(k) => pc'[k] # pc[k]
        BY <2>1 DEF StartTurn, Goto, Typed, Hands
      <4> QED
        BY <2>1, <4>1 DEF Next
    <3>2. \A n \in Messages : turn[SessionOf[n]].cancel => turn'[SessionOf[n]].cancel
      BY <2>1, <3>1, TurnPast
    <3> QED
      BY <2>1, <3>2 DEF Before
  <2>4. ASSUME o \in stopped, InHand(j) PROVE pc[Consumer] \in {"took", "fallback"}
                                              /\ turn[SessionOf[o]].cancel
    BY <2>2, <2>4 DEF Stopped, Open
  <2> HIDE DEF j, o
  <2>5. \A u : InHand(u)' => InHand(u) /\ u = j
    <3>1. pc'[Consumer] \in {"took", "fallback", "resuming", "planning",
                             "finalizing", "submitting"}
          => /\ job'[Consumer] = j
             /\ pc[Consumer] \in {"took", "fallback", "resuming", "planning",
                                  "finalizing", "submitting"}
      BY <1>2, <2>1
      DEF ResultStep, ObserveResult, SkipCancelled, MissRecord, ResumeTurn,
          PlanContinuation, ContinuationFails, ContinueLocally, FinalizeReply,
          CompleteReplied, Goto, Typed, Hands
    <3> QED
      BY <3>1 DEF InHand, j
  <2>6. ASSUME NEW n \in stopped, NEW u \in Tasks, owner'[u] = n, Open(u)'
        PROVE  /\ owner[u] = n /\ Open(u)
               /\ InHand(u)' => pc'[Consumer] \in {"took", "fallback"}
    <3>1. owner[u] = n /\ Open(u)
      BY <2>1, <2>5, <2>6 DEF Open, Pending
    <3>2. ASSUME InHand(u)' PROVE pc'[Consumer] \in {"took", "fallback"}
      <4>1. InHand(j) /\ o \in stopped
        BY <2>5, <2>6, <3>1, <3>2 DEF o
      <4>2. pc[Consumer] \in {"took", "fallback"} /\ turn[SessionFor(Consumer)].cancel
        BY <2>2, <2>4, <4>1
      <4>3. pc'[Consumer] # "completing" /\ pc'[Consumer] # "idle"
        BY <3>2 DEF InHand
      <4> QED
        BY <1>2, <2>1, <4>2, <4>3
        DEF ResultStep, ObserveResult, SkipCancelled, MissRecord, ResumeTurn,
            PlanContinuation, ContinuationFails, ContinueLocally, FinalizeReply,
            CompleteReplied, Goto, Typed, Hands
    <3> QED
      BY <3>1, <3>2
  <2>7. ASSUME NEW n \in stopped
        PROVE  Range(answers'[n]) \cap {"final", "local"} = {}
    <3>1. n \in Messages /\ Range(answers[n]) \cap {"final", "local"} = {}
      BY <2>1 DEF Stopped
    <3>2. CASE answers'[n] = answers[n]
      BY <3>1, <3>2
    <3>3. CASE answers'[n] # answers[n]
      <4>1. /\ n = o /\ pc[Consumer] \in {"planning", "finalizing", "fallback"}
            /\ pc[Consumer] = "fallback" =>
                  answers'[n] = Append(answers[n], "fallback")
        <5>1. CASE FinalizeReply
          BY <2>2, <3>1, <3>3, <5>1 DEF FinalizeReply, Answer, Typed, RepliesTyped
        <5>2. CASE ContinueLocally
          BY <2>2, <3>1, <3>3, <5>2 DEF ContinueLocally, Answer, Typed, RepliesTyped
        <5>3. CASE ~FinalizeReply /\ ~ContinueLocally
          <6>1. answers' = answers
            BY <1>2, <5>3
            DEF ResultStep, ObserveResult, SkipCancelled, MissRecord, ResumeTurn,
                PlanContinuation, ContinuationFails, CompleteReplied, userVars
          <6> QED
            BY <3>3, <6>1
        <5> QED
          BY <5>1, <5>2, <5>3
      <4>2. InHand(j)
        BY <4>1 DEF InHand, j
      <4>3. answers'[n] = Append(answers[n], "fallback")
        BY <2>4, <4>1, <4>2
      <4>4. answers[n] \in Seq(Replies) /\ "fallback" \in Replies
        BY <3>1 DEF Typed, RepliesTyped, Replies
      <4>5. Range(answers'[n]) = Range(answers[n]) \cup {"fallback"}
        BY <4>3, <4>4, PushBack
      <4> QED
        BY <3>1, <4>5
    <3> QED
      BY <3>2, <3>3
  <2> QED
    BY <2>1, <2>3, <2>6, <2>7, StoppedKept DEF Stopped
<1> QED
  BY <1>1, <1>2

\* Every step keeps stopped messages unanswered.
LEMMA NextStopped ==
    ASSUME Typed, Chain, Stopped, [Next]_vars
    PROVE  Stopped'
<1>1. ASSUME UNCHANGED <<pc, job, turn, owner, stopped, answers>>,
             \A u : Pending(u)' <=> Pending(u)
      PROVE  Stopped'
  <2>1. \A u : (Open(u)' <=> Open(u)) /\ (InHand(u)' <=> InHand(u))
        /\ \A m : Before(m)' <=> Before(m)
    BY <1>1 DEF Open, InHand, Before
  <2> QED
    BY <1>1, <2>1 DEF Stopped
<1>2. ASSUME NEW t \in live, live' = live \ {t}, results' = Append(results, t),
             UNCHANGED <<pc, job, turn, owner, stopped, answers>>
      PROVE  Stopped'
  <2>1. Range(results') = Range(results) \cup {t}
    <3>1. t \in Tasks /\ results \in Seq(Tasks) /\ t \notin Range(results)
      BY DEF Typed, TablesTyped, Used, Chain, ResultsOnce
    <3> QED
      BY <1>2, <3>1, PushBack
  <2>2. \A u : Pending(u)' <=> Pending(u)
    BY <1>2, <2>1 DEF Pending
  <2> QED
    BY <1>1, <1>2, <2>2
<1>3. CASE \E t \in Tasks : TaskEnds(t)
  BY <1>2, <1>3 DEF TaskEnds, workVars, cancelVars, userVars
<1>4. CASE CancelTask
  <2>1. CASE cancelling \in live
    BY <1>2, <1>4, <2>1 DEF CancelTask, workVars, userVars
  <2>2. CASE cancelling \notin live
    <3>1. live' = live /\ \A u : Pending(u)' <=> Pending(u)
      BY <1>4, <2>2 DEF CancelTask, Pending
    <3> QED
      BY <1>1, <1>4, <3>1 DEF CancelTask, workVars, userVars
  <2> QED
    BY <2>1, <2>2
<1>5. CASE (\E t \in Tasks : ApprovalLooksUp(t) \/ CancelLooksUp(t)) \/ UNCHANGED vars
  <2>1. \A u : Pending(u)' <=> Pending(u)
    BY <1>5 DEF ApprovalLooksUp, CancelLooksUp, taskVars, vars, Pending
  <2> QED
    BY <1>1, <1>5, <2>1
    DEF ApprovalLooksUp, CancelLooksUp, workVars, taskVars, cancelVars,
        userVars, vars
<1>6. CASE ApprovalMarks
  <2>1. UNCHANGED <<pc, job, owner, live, results, stopped, answers>>
    BY <1>6 DEF ApprovalMarks, workVars, taskVars, cancelVars, userVars
  <2>2. \A u : (Open(u)' <=> Open(u)) /\ (InHand(u)' <=> InHand(u))
        /\ \A m : Before(m)' <=> Before(m)
    BY <2>1 DEF Open, InHand, Before, Pending
  <2>3. \A m \in Messages : turn'[SessionOf[m]].cancel = turn[SessionOf[m]].cancel
    <3>1. turn \in [Sessions -> Turns] /\ \A m \in Messages : SessionOf[m] \in Sessions
      BY ConversationAssumption DEF Typed, TurnsTyped
    <3> QED
      BY <1>6, <3>1 DEF ApprovalMarks, Turns
  <2>4. stopped \subseteq Messages
    BY DEF Typed, TablesTyped
  <2> QED
    BY <2>1, <2>2, <2>3, <2>4 DEF Stopped
<1> QED
  BY <1>3, <1>4, <1>5, <1>6, CancelStops, HandlerStopped, ToolCallStopped,
     ConsumerStopped
  DEF Next
-----------------------------------------------------------------------------
(* The lane of a session.                                                  *)

\* One worker moves; it stays outside or inside the lane, enters a free lane or
\* leaves the lane it holds.
LEMMA LaneMoves ==
    ASSUME Typed, Typed', LaneHeld, NEW w \in Workers,
           \A v \in Workers \ {w} : pc'[v] = pc[v] /\ job'[v] = job[v],
           \A t \in Used : owner'[t] = owner[t],
           \/ /\ lane' = lane
              /\ InLane(w)' => InLane(w) /\ SessionFor(w)' = SessionFor(w)
           \/ /\ lane[SessionFor(w)] = NoWorker /\ SessionFor(w)' = SessionFor(w)
              /\ lane' = [lane EXCEPT ![SessionFor(w)] = w]
           \/ /\ InLane(w) /\ ~InLane(w)'
              /\ lane' = [lane EXCEPT ![SessionFor(w)] = NoWorker]
    PROVE  LaneHeld'
<1> SUFFICES ASSUME NEW v \in Workers, InLane(v)'
             PROVE  lane'[SessionFor(v)'] = v
  BY DEF LaneHeld
<1>1. /\ lane \in [Sessions -> Workers \cup {NoWorker}]
      /\ NoWorker \notin Workers /\ Hands /\ Hands'
  BY ConversationAssumption DEF Typed, TurnsTyped, Workers
<1>s. \A u \in Workers : InLane(u) => SessionFor(u) \in Sessions
  BY <1>1, WorkerMsg DEF InLane, Workers
<1>t. InLane(v)' => SessionFor(v)' \in Sessions
  BY <1>1, ConversationAssumption
  DEF InLane, Workers, Hands, Used, SessionFor, MsgOf, ConsumerPlaces
<1>2. CASE v # w
  <2>1. pc'[v] = pc[v] /\ job'[v] = job[v]
    BY <1>2
  <2>2. InLane(v)
    BY <2>1 DEF InLane
  <2>3. SessionFor(v)' = SessionFor(v)
    <3>1. CASE v = Consumer
      <4>1. job[v] \in Used
        BY <1>1, <2>2, <3>1 DEF InLane, Hands
      <4> QED
        BY <2>1, <3>1, <4>1 DEF SessionFor, MsgOf
    <3>2. CASE v # Consumer
      BY <3>2 DEF SessionFor, MsgOf
    <3> QED
      BY <3>1, <3>2
  <2>4. lane[SessionFor(v)] = v /\ SessionFor(v) \in Sessions
    BY <1>s, <2>2 DEF LaneHeld
  <2>5. InLane(w) => lane[SessionFor(w)] = w
    BY DEF LaneHeld
  <2> QED
    BY <1>1, <1>2, <2>3, <2>4, <2>5
<1>3. CASE v = w
  <2>1. InLane(w) => lane[SessionFor(w)] = w
    BY DEF LaneHeld
  <2> QED
    BY <1>1, <1>3, <1>t, <2>1
<1> QED
  BY <1>2, <1>3

\* run_serialized: one worker at a time works on a session.
LEMMA NextLane ==
    ASSUME Typed, Typed', LaneHeld, [Next]_vars
    PROVE  LaneHeld'
<1> USE DEF HandlerPlaces, ConsumerPlaces
<1>0. /\ Consumer \in Workers /\ \A m \in Messages : m \in Workers /\ m # Consumer
      /\ pc \in [Workers -> HandlerPlaces \cup ConsumerPlaces]
      /\ job \in [Workers -> Tasks \cup {NoTask}]
      /\ owner \in [Tasks -> Messages \cup {NoMsg}]
  BY ConversationAssumption DEF Workers, Typed, Hands
<1>1. ASSUME NEW m \in Messages, MessageStep(m) PROVE LaneHeld'
  <2>1. /\ \A v \in Workers \ {m} : pc'[v] = pc[v] /\ job'[v] = job[v]
        /\ owner' = owner
    BY <1>0, <1>1
    DEF MessageStep, StartTurn, PlanReply, PlanTask, PlanFails, SendReply,
        ReplyError, InsertRoute, Goto, taskVars
  <2>2. SessionFor(m)' = SessionFor(m) /\ SessionFor(m) = SessionOf[m]
    BY <1>0 DEF SessionFor, MsgOf
  <2>3. CASE StartTurn(m)
    BY <1>0, <2>1, <2>2, <2>3, LaneMoves DEF StartTurn
  <2>4. CASE PlanReply(m) \/ PlanTask(m) \/ ReplyError(m)
    <3>1. lane' = lane /\ (InLane(m)' => InLane(m))
      BY <1>0, <2>4 DEF PlanReply, PlanTask, ReplyError, Goto, InLane
    <3> QED
      BY <1>0, <2>1, <2>2, <3>1, LaneMoves
  <2>5. CASE PlanFails(m) \/ SendReply(m) \/ InsertRoute(m)
    <3>1. /\ InLane(m) /\ ~InLane(m)'
          /\ lane' = [lane EXCEPT ![SessionFor(m)] = NoWorker]
      BY <1>0, <2>5
      DEF PlanFails, SendReply, InsertRoute, Goto, InLane, LeaveLane
    <3> QED
      BY <1>0, <2>1, <3>1, LaneMoves
  <2> QED
    BY <1>1, <2>3, <2>4, <2>5 DEF MessageStep
<1>2. ASSUME NEW w \in Workers, SubmitTask(w) PROVE LaneHeld'
  <2> DEFINE t == CHOOSE t \in Unused : TRUE
  <2>1. t \in Tasks /\ owner[t] = NoMsg
    BY <1>2 DEF SubmitTask, Unused
  <2>2. /\ pc' = [pc EXCEPT ![w] = "submitted"] /\ job' = [job EXCEPT ![w] = t]
        /\ owner' = [owner EXCEPT ![t] = MsgOf(w)] /\ lane' = lane
        /\ pc[w] = "submitting"
    BY <1>2 DEF SubmitTask, Goto
  <2> HIDE DEF t
  <2>3. /\ \A v \in Workers \ {w} : pc'[v] = pc[v] /\ job'[v] = job[v]
        /\ \A u \in Used : owner'[u] = owner[u]
    BY <1>0, <2>1, <2>2, ConversationAssumption DEF Used
  <2>4. SessionFor(w)' = SessionFor(w)
    <3>1. CASE w = Consumer
      BY <1>0, <2>1, <2>2, <3>1 DEF SessionFor, MsgOf
    <3>2. CASE w # Consumer
      BY <3>2 DEF SessionFor, MsgOf
    <3> QED
      BY <3>1, <3>2
  <2>5. InLane(w)
    BY <2>2 DEF InLane
  <2> QED
    BY <2>2, <2>3, <2>4, <2>5, LaneMoves
<1>3. ASSUME NEW w \in Workers, BindTask(w) PROVE LaneHeld'
  <2>1. /\ \A v \in Workers \ {w} : pc'[v] = pc[v] /\ job'[v] = job[v]
        /\ UNCHANGED <<owner, job, lane>> /\ InLane(w)
    BY <1>0, <1>3 DEF BindTask, Goto, InLane
  <2>2. SessionFor(w)' = SessionFor(w)
    BY <2>1 DEF SessionFor, MsgOf
  <2> QED
    BY <2>1, <2>2, LaneMoves
<1>4. ASSUME NEW w \in Workers, MarkWaiting(w) PROVE LaneHeld'
  <2>1. /\ \A v \in Workers \ {w} : pc'[v] = pc[v] /\ job'[v] = job[v]
        /\ owner' = owner /\ InLane(w)
    BY <1>0, <1>4 DEF MarkWaiting, Goto, taskVars, InLane
  <2>2. CASE w = Consumer
    <3>1. ~InLane(w)' /\ lane' = [lane EXCEPT ![SessionFor(w)] = NoWorker]
      BY <1>0, <1>4, <2>2 DEF MarkWaiting, Goto, InLane, LeaveLane
    <3> QED
      BY <2>1, <3>1, LaneMoves
  <2>3. CASE w # Consumer
    <3>1. lane' = lane /\ SessionFor(w)' = SessionFor(w)
      BY <1>4, <2>3 DEF MarkWaiting, SessionFor, MsgOf
    <3> QED
      BY <2>1, <3>1, LaneMoves
  <2> QED
    BY <2>2, <2>3
<1>5. CASE ResultStep
  <2>1. /\ \A v \in Workers \ {Consumer} : pc'[v] = pc[v] /\ job'[v] = job[v]
        /\ owner' = owner
    BY <1>0, <1>5
    DEF ResultStep, TakeResult, ObserveResult, SkipCancelled, MissRecord,
        ResumeTurn, PlanContinuation, ContinuationFails, ContinueLocally,
        FinalizeReply, CompleteReplied, Goto, taskVars
  <2>s. job' = job => SessionFor(Consumer)' = SessionFor(Consumer)
    BY <2>1 DEF SessionFor, MsgOf
  <2>2. CASE TakeResult \/ SkipCancelled
    <3>1. lane' = lane /\ ~InLane(Consumer)'
      BY <1>0, <2>2 DEF TakeResult, SkipCancelled, Goto, InLane
    <3> QED
      BY <1>0, <2>1, <3>1, LaneMoves
  <2>3. CASE ObserveResult \/ MissRecord
    <3>1. job' = job /\ lane[SessionFor(Consumer)] = NoWorker
          /\ lane' = [lane EXCEPT ![SessionFor(Consumer)] = Consumer]
      BY <2>3 DEF ObserveResult, MissRecord
    <3> QED
      BY <1>0, <2>1, <2>s, <3>1, LaneMoves
  <2>4. CASE ResumeTurn \/ PlanContinuation \/ FinalizeReply
    <3>1. job' = job /\ lane' = lane /\ InLane(Consumer)
      BY <2>4 DEF ResumeTurn, PlanContinuation, FinalizeReply, InLane
    <3> QED
      BY <1>0, <2>1, <2>s, <3>1, LaneMoves
  <2>5. CASE ContinuationFails \/ ContinueLocally \/ CompleteReplied
    <3>1. /\ InLane(Consumer) /\ ~InLane(Consumer)'
          /\ lane' = [lane EXCEPT ![SessionFor(Consumer)] = NoWorker]
      BY <1>0, <2>5
      DEF ContinuationFails, ContinueLocally, CompleteReplied, Goto, InLane,
          LeaveLane
    <3> QED
      BY <1>0, <2>1, <3>1, LaneMoves
  <2> QED
    BY <1>5, <2>2, <2>3, <2>4, <2>5 DEF ResultStep
<1>6. ASSUME UNCHANGED <<pc, job, lane, owner>> PROVE LaneHeld'
  BY <1>6 DEF LaneHeld, InLane, SessionFor, MsgOf
<1>7. CASE \/ \E t \in Tasks : TaskEnds(t) \/ ApprovalLooksUp(t) \/ CancelLooksUp(t)
           \/ ApprovalMarks \/ CancelTurn \/ CancelTask \/ UNCHANGED vars
  <2>1. UNCHANGED <<pc, job, lane, owner>>
    BY <1>7
    DEF TaskEnds, ApprovalLooksUp, CancelLooksUp, ApprovalMarks, CancelTurn,
        CancelTask, workVars, taskVars, vars
  <2> QED
    BY <1>6, <2>1
<1> QED
  BY <1>1, <1>2, <1>3, <1>4, <1>5, <1>7 DEF Next, ToolCallStep

-----------------------------------------------------------------------------
(* The budget of a turn.                                                   *)

\* A handler leaves "new" by start_turn only, and never returns to it.
LEMMA NewFalls ==
    ASSUME Typed, [Next]_vars, NEW m \in Messages, ~StartTurn(m)
    PROVE  pc'[m] = "new" <=> pc[m] = "new"
<1>0. /\ m \in Workers /\ m # Consumer
      /\ pc \in [Workers -> HandlerPlaces \cup ConsumerPlaces]
  BY ConversationAssumption DEF Workers, Typed, Hands
<1>1. ASSUME NEW n \in Messages, MessageStep(n)
      PROVE  pc'[m] = "new" <=> pc[m] = "new"
  BY <1>0, <1>1
  DEF MessageStep, StartTurn, PlanReply, PlanTask, PlanFails, SendReply,
      ReplyError, InsertRoute, Goto
<1>2. ASSUME NEW w \in Workers, ToolCallStep(w)
      PROVE  pc'[m] = "new" <=> pc[m] = "new"
  BY <1>0, <1>2 DEF ToolCallStep, SubmitTask, BindTask, MarkWaiting, Goto
<1>3. CASE ResultStep
  BY <1>0, <1>3
  DEF ResultStep, TakeResult, ObserveResult, SkipCancelled, MissRecord,
      ResumeTurn, PlanContinuation, ContinuationFails, ContinueLocally,
      FinalizeReply, CompleteReplied, Goto
<1>4. CASE \/ \E t \in Tasks : TaskEnds(t) \/ ApprovalLooksUp(t) \/ CancelLooksUp(t)
           \/ ApprovalMarks \/ CancelTurn \/ CancelTask \/ UNCHANGED vars
  BY <1>4
  DEF TaskEnds, ApprovalLooksUp, CancelLooksUp, ApprovalMarks, CancelTurn,
      CancelTask, workVars, vars
<1> QED
  BY <1>1, <1>2, <1>3, <1>4 DEF Next

\* Only start_turn gives a session another turn.
LEMMA NextPlaced ==
    ASSUME Typed, TurnsPlaced, [Next]_vars
    PROVE  TurnsPlaced'
<1>0. \A m \in Messages : SessionOf[m] \in Sessions
  BY ConversationAssumption
<1>1. ASSUME NEW m \in Messages, StartTurn(m) PROVE TurnsPlaced'
  <2>1. /\ pc'[m] = "planning" /\ \A n \in Messages \ {m} : pc'[n] = pc[n]
        /\ turn'[SessionOf[m]].msg = m
        /\ \A s \in Sessions \ {SessionOf[m]} : turn'[s] = turn[s]
    BY <1>0, <1>1, ConversationAssumption
    DEF StartTurn, NewTurn, Goto, Typed, Hands, Workers, TurnsTyped
  <2>2. pc[m] = "new"
    BY <1>1 DEF StartTurn
  <2> QED
    BY <1>0, <2>1, <2>2 DEF TurnsPlaced
<1>2. ASSUME ~\E m \in Messages : StartTurn(m) PROVE TurnsPlaced'
  <2>1. \A s \in Sessions : turn'[s].msg = turn[s].msg
    BY <1>2, TurnPast
  <2>2. \A m \in Messages : pc'[m] = "new" <=> pc[m] = "new"
    BY <1>2, NewFalls
  <2> QED
    BY <1>0, <2>1, <2>2 DEF TurnsPlaced
<1> QED
  BY <1>1, <1>2

\* A step that counts no step and submits nothing.
LEMMA QuietBudget ==
    ASSUME Spent, paid' = paid,
           \A s \in Sessions : /\ turn'[s].msg = turn[s].msg
                               /\ turn'[s].steps = turn[s].steps,
           \A m \in Messages : /\ pc'[m] = "new" => pc[m] = "new"
                               /\ pc'[m] = "planning" => pc[m] = "planning",
           \A w \in Workers : pc'[w] = "submitting" =>
              /\ pc[w] = "submitting" /\ SessionFor(w)' = SessionFor(w)
              /\ SessionFor(w) \in Sessions
    PROVE  Spent'
<1>1. \A m : PaidBy(m)' = PaidBy(m)
  BY DEF PaidBy
<1>2. \A m \in Messages : TurnSteps(m)' = TurnSteps(m)
  BY ConversationAssumption DEF TurnSteps, SessionFor, MsgOf
<1>3. \A m \in Messages :
         /\ IsFiniteSet(PaidBy(m)') /\ Cardinality(PaidBy(m)') <= MaxSteps
         /\ pc'[m] = "new" => PaidBy(m)' = {}
         /\ pc'[m] = "planning" => TurnSteps(m)' = 0
  BY <1>1, <1>2 DEF Spent
<1>4. \A s \in Sessions : turn'[s].msg \in Messages =>
         Cardinality({t \in Tasks : paid'[t] = turn'[s].msg}) <= turn'[s].steps
  BY DEF Spent, PaidBy
<1>5. ASSUME NEW w \in Workers, pc'[w] = "submitting"
      PROVE  /\ Cardinality(PaidBy(TurnMsg(w))') < TurnSteps(w)'
             /\ TurnSteps(w)' <= MaxSteps
  <2>1. /\ TurnMsg(w)' = TurnMsg(w) /\ TurnSteps(w)' = TurnSteps(w)
        /\ pc[w] = "submitting"
    BY <1>5 DEF TurnMsg, TurnSteps
  <2>2. PaidBy(TurnMsg(w))' = PaidBy(TurnMsg(w))
    BY <2>1 DEF PaidBy
  <2> QED
    BY <2>1, <2>2 DEF Spent
<1> QED
  BY <1>3, <1>4, <1>5 DEF Spent, PaidBy

\* The holder of a lane counts steps of the session's turn; nobody else who
\* plans or submits is in that session.
LEMMA StepBudget ==
    ASSUME Typed, Chain, LaneHeld, TurnsPlaced, Spent, NEW w \in Workers, InLane(w),
           \A v \in Workers \ {w} : pc'[v] = pc[v] /\ job'[v] = job[v],
           UNCHANGED <<owner, paid>>,
           \A s \in Sessions : turn'[s].msg = turn[s].msg,
           \A s \in Sessions \ {SessionFor(w)} : turn'[s].steps = turn[s].steps,
           TurnSteps(w) \in Nat,
           turn'[SessionFor(w)].steps \in {TurnSteps(w), TurnSteps(w) + 1},
           pc'[w] \notin {"new", "planning"},
           pc'[w] = "submitting" =>
              /\ job'[w] = job[w]
              /\ turn'[SessionFor(w)].steps = TurnSteps(w) + 1
              /\ TurnSteps(w) + 1 <= MaxSteps
    PROVE  Spent'
<1>0. /\ Consumer \in Workers /\ \A m \in Messages : m \in Workers /\ m # Consumer
      /\ Hands /\ MaxSteps \in Nat
  BY ConversationAssumption DEF Workers, Typed
<1>1. \A v \in Workers : InLane(v) => SessionFor(v) \in Sessions
  BY <1>0, WorkerMsg DEF InLane, Workers
<1>2. \A v \in Workers \ {w} : InLane(v) => SessionFor(v) # SessionFor(w)
  BY DEF LaneHeld
<1>3. \A v \in Workers : pc[v] \in {"planning", "submitting"} => InLane(v)
  BY DEF InLane, HandlerPlaces, ConsumerPlaces
<1>4. \A v \in Workers \ {w} : SessionFor(v)' = SessionFor(v)
  BY DEF SessionFor, MsgOf
<1>5. \A m : PaidBy(m)' = PaidBy(m)
  BY DEF PaidBy
<1>6. ASSUME NEW m \in Messages
      PROVE  /\ IsFiniteSet(PaidBy(m)') /\ Cardinality(PaidBy(m)') <= MaxSteps
             /\ pc'[m] = "new" => PaidBy(m)' = {}
             /\ pc'[m] = "planning" => TurnSteps(m)' = 0
  <2>1. pc'[m] \in {"new", "planning"} => m # w /\ pc'[m] = pc[m]
    BY <1>0
  <2>2. ASSUME pc'[m] = "planning" PROVE TurnSteps(m)' = TurnSteps(m)
    BY <1>0, <1>1, <1>2, <1>3, <1>4, <2>1, <2>2 DEF TurnSteps
  <2> QED
    BY <1>5, <2>1, <2>2 DEF Spent
<1>7. ASSUME NEW s \in Sessions, turn'[s].msg \in Messages
      PROVE  Cardinality(PaidBy(turn[s].msg)) <= turn'[s].steps
  <2>1. /\ turn[s].msg \in Messages
        /\ Cardinality(PaidBy(turn[s].msg)) <= turn[s].steps
        /\ Cardinality(PaidBy(turn[s].msg)) \in Nat
    BY <1>7, FS_CardinalityType DEF Spent
  <2> QED
    BY <2>1 DEF TurnSteps
<1>8. \A s \in Sessions : turn'[s].msg \in Messages =>
         Cardinality({t \in Tasks : paid'[t] = turn'[s].msg}) <= turn'[s].steps
  BY <1>7 DEF PaidBy
<1>9. ASSUME NEW v \in Workers, pc'[v] = "submitting"
      PROVE  /\ Cardinality(PaidBy(TurnMsg(v))') < TurnSteps(v)'
             /\ TurnSteps(v)' <= MaxSteps
  <2>1. CASE v # w
    <3>1. pc[v] = "submitting" /\ SessionFor(v) \in Sessions \ {SessionFor(w)}
      BY <1>1, <1>2, <1>3, <1>9, <2>1
    <3>2. TurnMsg(v)' = TurnMsg(v) /\ TurnSteps(v)' = TurnSteps(v)
      BY <1>4, <2>1, <3>1 DEF TurnMsg, TurnSteps
    <3>3. PaidBy(TurnMsg(v))' = PaidBy(TurnMsg(v))
      BY <3>2 DEF PaidBy
    <3> QED
      BY <3>1, <3>2, <3>3 DEF Spent
  <2>2. CASE v = w
    <3>1. SessionFor(w)' = SessionFor(w) /\ SessionFor(w) \in Sessions
      BY <1>1, <1>9, <2>2 DEF SessionFor, MsgOf
    <3>2. TurnMsg(w)' = TurnMsg(w) /\ TurnSteps(w)' = TurnSteps(w) + 1
      BY <1>9, <2>2, <3>1 DEF TurnMsg, TurnSteps
    <3>3. PaidBy(TurnMsg(w))' = PaidBy(TurnMsg(w))
      BY <3>2 DEF PaidBy
    <3>4. MsgOf(w) \in Messages /\ pc[MsgOf(w)] # "new"
          /\ SessionFor(w) = SessionOf[MsgOf(w)]
      <4>1. CASE w = Consumer
        <5>1. job[w] \in Used /\ owner[job[w]] \in Messages /\ job[w] \in Tasks
          BY <1>0, <4>1 DEF InLane, Hands, Used
        <5>2. ~Before(owner[job[w]])
          BY <5>1 DEF Chain, NothingBefore
        <5> QED
          BY <4>1, <5>1, <5>2 DEF MsgOf, SessionFor, Before
      <4>2. CASE w # Consumer
        BY <4>2 DEF MsgOf, SessionFor, InLane, Workers
      <4> QED
        BY <4>1, <4>2
    <3>5. TurnMsg(w) \in Messages
      BY <3>4 DEF TurnsPlaced, TurnMsg
    <3>6. /\ Cardinality(PaidBy(TurnMsg(w))) <= TurnSteps(w)
          /\ Cardinality(PaidBy(TurnMsg(w))) \in Nat
      BY <3>1, <3>5, FS_CardinalityType DEF Spent, TurnMsg, TurnSteps
    <3> QED
      BY <1>9, <2>2, <3>2, <3>3, <3>6
  <2> QED
    BY <2>1, <2>2
<1> QED
  BY <1>6, <1>8, <1>9 DEF Spent, PaidBy

\* start_turn begins at zero steps, for a message nothing was submitted under.
LEMMA StartBudget ==
    ASSUME Typed, LaneHeld, Spent, NEW m \in Messages, StartTurn(m)
    PROVE  Spent'
<1>0. /\ Consumer \in Workers /\ \A n \in Messages : n \in Workers /\ n # Consumer
      /\ Hands /\ MaxSteps \in Nat /\ NoWorker \notin Workers
      /\ \A n \in Messages : SessionOf[n] \in Sessions /\ SessionFor(n) = SessionOf[n]
  BY ConversationAssumption DEF Workers, Typed, SessionFor, MsgOf
<1>1. /\ pc[m] = "new" /\ pc'[m] = "planning"
      /\ \A v \in Workers \ {m} : pc'[v] = pc[v]
      /\ UNCHANGED <<job, owner, paid>> /\ lane[SessionOf[m]] = NoWorker
  BY <1>0 DEF StartTurn, Goto, taskVars, Hands
<1>2. /\ turn'[SessionOf[m]].steps = 0 /\ turn'[SessionOf[m]].msg = m
      /\ \A s \in Sessions \ {SessionOf[m]} : turn'[s] = turn[s]
  BY <1>0 DEF StartTurn, NewTurn, Typed, TurnsTyped
<1>3. \A v \in Workers : SessionFor(v)' = SessionFor(v)
  BY <1>1 DEF SessionFor, MsgOf
<1>4. \A v \in Workers : pc[v] \in {"planning", "submitting"} =>
         SessionFor(v) \in Sessions \ {SessionOf[m]}
  <2> SUFFICES ASSUME NEW v \in Workers, pc[v] \in {"planning", "submitting"}
               PROVE  SessionFor(v) \in Sessions \ {SessionOf[m]}
    OBVIOUS
  <2>1. InLane(v)
    BY DEF InLane, HandlerPlaces, ConsumerPlaces
  <2>2. SessionFor(v) \in Sessions
    BY <1>0, <2>1, WorkerMsg DEF InLane, Workers
  <2> QED
    BY <1>0, <1>1, <2>1, <2>2 DEF LaneHeld
<1>5. \A n : PaidBy(n)' = PaidBy(n)
  BY <1>1 DEF PaidBy
<1>6. ASSUME NEW n \in Messages
      PROVE  /\ IsFiniteSet(PaidBy(n)') /\ Cardinality(PaidBy(n)') <= MaxSteps
             /\ pc'[n] = "new" => PaidBy(n)' = {}
             /\ pc'[n] = "planning" => TurnSteps(n)' = 0
  <2>1. CASE n = m
    BY <1>0, <1>1, <1>2, <1>3, <1>5, <2>1 DEF Spent, TurnSteps
  <2>2. CASE n # m
    <3>1. pc'[n] = pc[n]
      BY <1>0, <1>1, <2>2
    <3>2. pc[n] = "planning" => TurnSteps(n)' = TurnSteps(n)
      BY <1>0, <1>2, <1>3, <1>4 DEF TurnSteps
    <3> QED
      BY <1>5, <3>1, <3>2 DEF Spent
  <2> QED
    BY <2>1, <2>2
<1>7. ASSUME NEW s \in Sessions, turn'[s].msg \in Messages
      PROVE  Cardinality({t \in Tasks : paid'[t] = turn'[s].msg}) <= turn'[s].steps
  <2>1. CASE s = SessionOf[m]
    <3>1. PaidBy(m) = {} /\ Cardinality({}) = 0
      BY <1>1, FS_EmptySet DEF Spent
    <3>2. {t \in Tasks : paid'[t] = turn'[s].msg} = PaidBy(m)
      BY <1>1, <1>2, <2>1 DEF PaidBy
    <3> QED
      BY <1>2, <2>1, <3>1, <3>2
  <2>2. CASE s # SessionOf[m]
    BY <1>1, <1>2, <1>7, <2>2 DEF Spent, PaidBy
  <2> QED
    BY <2>1, <2>2
<1>8. ASSUME NEW v \in Workers, pc'[v] = "submitting"
      PROVE  /\ Cardinality(PaidBy(TurnMsg(v))') < TurnSteps(v)'
             /\ TurnSteps(v)' <= MaxSteps
  <2>1. pc[v] = "submitting"
    BY <1>1, <1>8
  <2>2. TurnMsg(v)' = TurnMsg(v) /\ TurnSteps(v)' = TurnSteps(v)
    BY <1>2, <1>3, <1>4, <2>1 DEF TurnMsg, TurnSteps
  <2>3. PaidBy(TurnMsg(v))' = PaidBy(TurnMsg(v))
    BY <1>1, <2>2 DEF PaidBy
  <2> QED
    BY <2>1, <2>2, <2>3 DEF Spent
<1> QED
  BY <1>6, <1>7, <1>8 DEF Spent, PaidBy

\* hub.submit_task: the session's turn pays for another task, for which a step
\* was counted.
LEMMA SubmitBudget ==
    ASSUME Typed, Chain, Budget, NEW w \in Workers, SubmitTask(w)
    PROVE  Spent' /\ PaidTyped'
<1> SUFFICES ASSUME NEW t, t = CHOOSE u \in Unused : TRUE,
                    NEW p, p = TurnMsg(w)
             PROVE  Spent' /\ PaidTyped'
  OBVIOUS
<1>0. /\ Consumer \in Workers /\ \A n \in Messages : n \in Workers /\ n # Consumer
      /\ Hands /\ MaxSteps \in Nat /\ NoMsg \notin Messages
      /\ LaneHeld /\ TurnsPlaced /\ Spent /\ PaidTyped
      /\ \A n \in Messages : SessionOf[n] \in Sessions /\ SessionFor(n) = SessionOf[n]
  BY ConversationAssumption DEF Workers, Typed, Budget, SessionFor, MsgOf
<1>1. t \in Tasks /\ owner[t] = NoMsg
  BY DEF SubmitTask, Unused
<1>2. /\ pc' = [pc EXCEPT ![w] = "submitted"] /\ job' = [job EXCEPT ![w] = t]
      /\ owner' = [owner EXCEPT ![t] = MsgOf(w)]
      /\ paid' = [paid EXCEPT ![t] = p]
      /\ pc[w] = "submitting" /\ turn' = turn
  BY DEF SubmitTask, Goto, TurnMsg
<1>3. /\ \A v \in Workers \ {w} : pc'[v] = pc[v] /\ job'[v] = job[v]
      /\ pc'[w] = "submitted"
      /\ owner'[t] = MsgOf(w) /\ \A u \in Tasks \ {t} : owner'[u] = owner[u]
      /\ paid'[t] = p /\ \A u \in Tasks \ {t} : paid'[u] = paid[u]
      /\ paid[t] = NoMsg
  BY <1>0, <1>1, <1>2 DEF Hands, PaidTyped
<1>4. /\ InLane(w) /\ SessionFor(w) \in Sessions
      /\ MsgOf(w) \in Messages /\ pc[MsgOf(w)] # "new"
      /\ SessionFor(w) = SessionOf[MsgOf(w)]
  <2>1. InLane(w)
    BY <1>2 DEF InLane, HandlerPlaces, ConsumerPlaces
  <2>2. CASE w = Consumer
    <3>1. job[w] \in Used /\ owner[job[w]] \in Messages /\ job[w] \in Tasks
      BY <1>0, <1>2, <2>2 DEF Hands, Used
    <3>2. ~Before(owner[job[w]])
      BY <3>1 DEF Chain, NothingBefore
    <3> QED
      BY <1>0, <2>1, <2>2, <3>1, <3>2 DEF MsgOf, SessionFor, Before
  <2>3. CASE w # Consumer
    BY <1>0, <1>2, <2>1, <2>3 DEF MsgOf, SessionFor, Workers
  <2> QED
    BY <2>2, <2>3
<1>5. p \in Messages /\ SessionOf[p] = SessionFor(w) /\ pc[p] # "new"
  BY <1>0, <1>4 DEF TurnsPlaced, TurnMsg
<1>6. /\ PaidBy(p)' = PaidBy(p) \cup {t} /\ t \notin PaidBy(p)
      /\ \A n \in Messages \ {p} : PaidBy(n)' = PaidBy(n)
  <2>1. PaidBy(p)' = PaidBy(p) \cup {t} /\ t \notin PaidBy(p)
    <3>1. paid[t] # p
      BY <1>0, <1>3, <1>5
    <3>2. \A u \in Tasks : paid'[u] = p <=> (paid[u] = p \/ u = t)
      BY <1>1, <1>3
    <3>3. PaidBy(p)' = {u \in Tasks : paid'[u] = p}
      BY DEF PaidBy
    <3>4. PaidBy(p) = {u \in Tasks : paid[u] = p}
      BY DEF PaidBy
    <3>5. {u \in Tasks : paid'[u] = p} = {u \in Tasks : paid[u] = p} \cup {t}
      BY <1>1, <3>2
    <3> QED
      BY <3>1, <3>3, <3>4, <3>5
  <2>2. ASSUME NEW n \in Messages \ {p} PROVE PaidBy(n)' = PaidBy(n)
    <3>1. \A u \in Tasks : paid'[u] = n <=> paid[u] = n
      BY <1>0, <1>1, <1>3
    <3> QED
      BY <3>1 DEF PaidBy
  <2> QED
    BY <2>1, <2>2
<1>7. /\ IsFiniteSet(PaidBy(p)') /\ Cardinality(PaidBy(p)) \in Nat
      /\ Cardinality(PaidBy(p)') = Cardinality(PaidBy(p)) + 1
  <2> DEFINE S == PaidBy(p)
  <2>1. IsFiniteSet(S) /\ t \notin S
    BY <1>0, <1>5, <1>6 DEF Spent
  <2> HIDE DEF S
  <2>2. /\ IsFiniteSet(S \cup {t}) /\ Cardinality(S \cup {t}) = Cardinality(S) + 1
        /\ Cardinality(S) \in Nat
    BY <2>1, FS_AddElement, FS_CardinalityType
  <2> QED
    BY <1>6, <2>2 DEF S
<1>8. /\ Cardinality(PaidBy(p)) < TurnSteps(w) /\ TurnSteps(w) <= MaxSteps
      /\ TurnSteps(w) \in Nat
  <2>1. TurnSteps(w) \in Nat
    BY <1>4 DEF TurnSteps, Typed, TurnsTyped, Turns
  <2> QED
    BY <1>0, <1>2, <2>1 DEF Spent
<1>9. Cardinality(PaidBy(p)') <= TurnSteps(w) /\ Cardinality(PaidBy(p)') <= MaxSteps
  BY <1>0, <1>7, <1>8
<1>10. ASSUME NEW n \in Messages
       PROVE  /\ IsFiniteSet(PaidBy(n)') /\ Cardinality(PaidBy(n)') <= MaxSteps
              /\ pc'[n] = "new" => PaidBy(n)' = {}
              /\ pc'[n] = "planning" => TurnSteps(n)' = 0
  <2>1. pc'[n] \in {"new", "planning"} => pc'[n] = pc[n]
    BY <1>0, <1>3
  <2>2. TurnSteps(n)' = TurnSteps(n)
    BY <1>0, <1>2 DEF TurnSteps, SessionFor, MsgOf
  <2>3. CASE n = p
    BY <1>0, <1>5, <1>7, <1>9, <2>1, <2>2, <2>3 DEF Spent
  <2>4. CASE n # p
    BY <1>0, <1>6, <2>1, <2>2, <2>4 DEF Spent
  <2> QED
    BY <2>3, <2>4
<1>11. ASSUME NEW s \in Sessions, turn[s].msg \in Messages
       PROVE  Cardinality({u \in Tasks : paid'[u] = turn[s].msg}) <= turn[s].steps
  <2>1. CASE s = SessionFor(w)
    <3>1. {u \in Tasks : paid'[u] = turn[s].msg} = PaidBy(p)'
      BY <2>1 DEF PaidBy, TurnMsg
    <3> QED
      BY <1>9, <2>1, <3>1 DEF TurnSteps
  <2>2. CASE s # SessionFor(w)
    <3>1. turn[s].msg # p
      BY <1>0, <1>5, <1>11, <2>2 DEF TurnsPlaced
    <3>2. {u \in Tasks : paid'[u] = turn[s].msg} = PaidBy(turn[s].msg)
      BY <1>0, <1>3, <1>11, <3>1 DEF PaidBy
    <3> QED
      BY <1>0, <1>11, <3>2 DEF Spent
  <2> QED
    BY <2>1, <2>2
<1>12. ASSUME NEW v \in Workers, pc'[v] = "submitting"
       PROVE  /\ Cardinality(PaidBy(TurnMsg(v))') < TurnSteps(v)'
              /\ TurnSteps(v)' <= MaxSteps
  <2>1. v # w /\ pc[v] = "submitting" /\ job'[v] = job[v]
    BY <1>3, <1>12
  <2>2. InLane(v)
    BY <2>1 DEF InLane, HandlerPlaces, ConsumerPlaces
  <2>3. SessionFor(v) \in Sessions /\ SessionFor(v) # SessionFor(w)
    BY <1>0, <1>4, <2>1, <2>2, WorkerMsg DEF LaneHeld, InLane, Workers
  <2>4. SessionFor(v)' = SessionFor(v)
    <3>1. CASE v = Consumer
      <4>1. job[v] \in Tasks /\ owner[job[v]] \in Messages
        BY <1>0, <2>1, <3>1 DEF Hands, Used
      <4>2. owner'[job'[v]] = owner[job[v]]
        BY <1>0, <1>1, <1>3, <2>1, <4>1
      <4> QED
        BY <3>1, <4>2 DEF SessionFor, MsgOf
    <3>2. CASE v # Consumer
      BY <3>2 DEF SessionFor, MsgOf
    <3> QED
      BY <3>1, <3>2
  <2>5. TurnMsg(v)' = TurnMsg(v) /\ TurnSteps(v)' = TurnSteps(v)
    BY <1>2, <2>4 DEF TurnMsg, TurnSteps
  <2>6. TurnMsg(v) # p
    BY <1>0, <1>5, <2>3 DEF TurnsPlaced, TurnMsg
  <2>8. TurnMsg(v) \in Messages
    <3>1. CASE v = Consumer
      <4>1. job[v] \in Tasks /\ owner[job[v]] \in Messages
        BY <1>0, <2>1, <3>1 DEF Hands, Used
      <4>2. ~Before(owner[job[v]])
        BY <4>1 DEF Chain, NothingBefore
      <4> QED
        BY <1>0, <3>1, <4>1, <4>2 DEF TurnsPlaced, TurnMsg, SessionFor, MsgOf, Before
    <3>2. CASE v # Consumer
      BY <1>0, <2>1, <3>2 DEF TurnsPlaced, TurnMsg, SessionFor, MsgOf, Workers
    <3> QED
      BY <3>1, <3>2
  <2>9. PaidBy(TurnMsg(v))' = PaidBy(TurnMsg(v))
    BY <1>0, <1>3, <2>5, <2>6, <2>8 DEF PaidBy
  <2> QED
    BY <1>0, <2>1, <2>5, <2>9 DEF Spent
<1>13. PaidTyped'
  BY <1>0, <1>1, <1>2, <1>3, <1>4, <1>5 DEF PaidTyped, Hands
<1>14. Spent'
  BY <1>2, <1>10, <1>11, <1>12 DEF Spent, PaidBy
<1> QED
  BY <1>13, <1>14

\* Every step keeps the budget.
LEMMA NextBudget ==
    ASSUME Typed, Typed', Chain, Budget, [Next]_vars
    PROVE  Budget'
<1> USE DEF HandlerPlaces, ConsumerPlaces
<1>0. /\ Consumer \in Workers /\ \A m \in Messages : m \in Workers /\ m # Consumer
      /\ pc \in [Workers -> HandlerPlaces \cup ConsumerPlaces]
      /\ job \in [Workers -> Tasks \cup {NoTask}]
      /\ turn \in [Sessions -> Turns] /\ Hands
      /\ LaneHeld /\ TurnsPlaced /\ Spent /\ PaidTyped
  BY ConversationAssumption DEF Workers, Typed, Hands, TurnsTyped, Budget
<1>1. LaneHeld' /\ TurnsPlaced'
  BY <1>0, NextLane, NextPlaced
<1> SUFFICES Spent' /\ PaidTyped'
  BY <1>1 DEF Budget
<1>p. ASSUME UNCHANGED <<owner, paid>> PROVE PaidTyped'
  BY <1>0, <1>p DEF PaidTyped
<1>m. ASSUME ~\E m \in Messages : StartTurn(m)
      PROVE  \A s \in Sessions : turn'[s].msg = turn[s].msg
  BY <1>m, TurnPast
<1>n. ASSUME NEW w \in Workers, InLane(w)
      PROVE  SessionFor(w) \in Sessions /\ TurnSteps(w) \in Nat
  <2>1. SessionFor(w) \in Sessions
    BY <1>0, <1>n, WorkerMsg DEF InLane, Workers
  <2> QED
    BY <1>0, <2>1 DEF TurnSteps, Turns
<1>q. ASSUME NEW w \in Workers, owner' = owner, paid' = paid,
             \A v \in Workers \ {w} : pc'[v] = pc[v] /\ job'[v] = job[v],
             pc'[w] \notin {"new", "submitting"},
             w \in Messages => pc'[w] # "planning",
             \A s \in Sessions : /\ turn'[s].msg = turn[s].msg
                                 /\ turn'[s].steps = turn[s].steps
      PROVE  Spent' /\ PaidTyped'
  <2>1. \A v \in Workers : pc'[v] = "submitting" =>
           /\ pc[v] = "submitting" /\ SessionFor(v)' = SessionFor(v)
           /\ SessionFor(v) \in Sessions
    <3> SUFFICES ASSUME NEW v \in Workers, pc'[v] = "submitting"
                 PROVE  /\ pc[v] = "submitting" /\ SessionFor(v)' = SessionFor(v)
                        /\ SessionFor(v) \in Sessions
      OBVIOUS
    <3>1. v # w /\ pc[v] = "submitting" /\ job'[v] = job[v]
      BY <1>q
    <3>2. InLane(v)
      BY <3>1 DEF InLane
    <3> QED
      BY <1>n, <1>q, <3>1, <3>2 DEF SessionFor, MsgOf
  <2>2. \A m \in Messages : /\ pc'[m] = "new" => pc[m] = "new"
                            /\ pc'[m] = "planning" => pc[m] = "planning"
    BY <1>0, <1>q
  <2> QED
    BY <1>0, <1>p, <1>q, <2>1, <2>2, QuietBudget
<1>2. ASSUME NEW m \in Messages, MessageStep(m) PROVE Spent' /\ PaidTyped'
  <2>1. /\ \A v \in Workers \ {m} : pc'[v] = pc[v] /\ job'[v] = job[v]
        /\ UNCHANGED <<owner, paid>>
    BY <1>0, <1>2
    DEF MessageStep, StartTurn, PlanReply, PlanTask, PlanFails, SendReply,
        ReplyError, InsertRoute, Goto, taskVars
  <2>2. CASE StartTurn(m)
    BY <1>0, <1>p, <2>1, <2>2, StartBudget
  <2>3. CASE PlanReply(m) \/ PlanTask(m) \/ PlanFails(m)
    <3>1. /\ pc[m] = "planning" /\ pc'[m] \in {"replying", "submitting", "failed"}
          /\ job' = job /\ SessionFor(m) = SessionOf[m] /\ InLane(m)
      BY <1>0, <2>3 DEF PlanReply, PlanTask, PlanFails, Goto, SessionFor, MsgOf, InLane
    <3>2. SessionFor(m) \in Sessions /\ TurnSteps(m) \in Nat
      BY <1>0, <1>n, <3>1
    <3>3. ~\E n \in Messages : StartTurn(n)
      BY <1>0, <2>1, <3>1 DEF StartTurn, Goto
    <3>4. /\ turn'[SessionFor(m)].steps \in {TurnSteps(m), TurnSteps(m) + 1}
          /\ pc'[m] = "submitting" => turn'[SessionFor(m)].steps = TurnSteps(m) + 1
          /\ \A s \in Sessions \ {SessionFor(m)} : turn'[s].steps = turn[s].steps
      <4>1. CASE PlanReply(m)
        BY <1>0, <3>1, <3>2, <4>1 DEF PlanReply, Turns, TurnSteps, Goto
      <4>2. CASE PlanTask(m)
        BY <1>0, <3>1, <3>2, <4>2 DEF PlanTask, Turns, TurnSteps
      <4>3. CASE PlanFails(m)
        BY <1>0, <3>1, <3>2, <4>3 DEF PlanFails, Turns, TurnSteps, Goto
      <4> QED
        BY <2>3, <4>1, <4>2, <4>3
    <3>5. TurnSteps(m) + 1 <= MaxSteps
      BY <1>0, <3>1, ConversationAssumption DEF Spent
    <3> QED
      BY <1>0, <1>m, <1>p, <2>1, <3>1, <3>2, <3>3, <3>4, <3>5, StepBudget
  <2>4. CASE SendReply(m) \/ ReplyError(m) \/ InsertRoute(m)
    <3>1. pc'[m] \in {"done", "failed"} /\ turn' = turn
      BY <1>0, <2>4 DEF SendReply, ReplyError, InsertRoute, Goto
    <3> QED
      BY <1>0, <1>q, <2>1, <3>1
  <2> QED
    BY <1>2, <2>2, <2>3, <2>4 DEF MessageStep
<1>3. ASSUME NEW w \in Workers, ToolCallStep(w) PROVE Spent' /\ PaidTyped'
  <2>1. CASE SubmitTask(w)
    BY <2>1, SubmitBudget
  <2>2. CASE BindTask(w) \/ MarkWaiting(w)
    <3>1. /\ \A v \in Workers \ {w} : pc'[v] = pc[v] /\ job'[v] = job[v]
          /\ UNCHANGED <<owner, paid>> /\ pc'[w] \in {"bound", "routing", "idle"}
      BY <1>0, <2>2 DEF BindTask, MarkWaiting, Goto, taskVars
    <3>2. \A s \in Sessions : /\ turn'[s].msg = turn[s].msg
                              /\ turn'[s].steps = turn[s].steps
      <4>1. CASE BindTask(w)
        BY <4>1 DEF BindTask
      <4>2. CASE MarkWaiting(w)
        BY <1>0, <4>2 DEF MarkWaiting, Turns
      <4> QED
        BY <2>2, <4>1, <4>2
    <3> QED
      BY <1>q, <3>1, <3>2
  <2> QED
    BY <1>3, <2>1, <2>2 DEF ToolCallStep
<1>4. CASE ResultStep
  <2>1. /\ \A v \in Workers \ {Consumer} : pc'[v] = pc[v] /\ job'[v] = job[v]
        /\ UNCHANGED <<owner, paid>>
    BY <1>0, <1>4
    DEF ResultStep, TakeResult, ObserveResult, SkipCancelled, MissRecord,
        ResumeTurn, PlanContinuation, ContinuationFails, ContinueLocally,
        FinalizeReply, CompleteReplied, Goto, taskVars
  <2>2. CASE /\ pc[Consumer] = "planning"
             /\ PlanContinuation \/ ContinuationFails \/ ContinueLocally
    <3>1. InLane(Consumer) /\ SessionFor(Consumer) \in Sessions
          /\ TurnSteps(Consumer) \in Nat
      BY <1>0, <1>n, <2>2 DEF InLane
    <3>2. ~\E n \in Messages : StartTurn(n)
      BY <1>0, <2>1 DEF StartTurn, Goto
    <3>3. /\ turn'[SessionFor(Consumer)].steps = TurnSteps(Consumer) + 1
          /\ \A s \in Sessions \ {SessionFor(Consumer)} : turn'[s].steps = turn[s].steps
          /\ pc'[Consumer] \in {"finalizing", "submitting", "idle"}
          /\ pc'[Consumer] = "submitting" =>
                job' = job /\ TurnSteps(Consumer) + 1 <= MaxSteps
      <4> DEFINE s == SessionFor(Consumer)
      <4>1. s \in Sessions /\ turn[s] \in Turns /\ TurnSteps(Consumer) = turn[s].steps
        BY <1>0, <3>1 DEF TurnSteps
      <4>2. CASE PlanContinuation
        <5>1. \/ /\ turn' = [turn EXCEPT ![s].steps = @ + 1]
                 /\ pc' = [pc EXCEPT ![Consumer] = "finalizing"]
              \/ /\ turn[s].steps + 1 <= MaxSteps /\ job' = job
                 /\ pc' = [pc EXCEPT ![Consumer] = "submitting"]
                 /\ turn' = [turn EXCEPT ![s].steps = @ + 1,
                                         ![s].status = "Dispatching",
                                         ![s].call = NoTask, ![s].done = FALSE]
          BY <4>2 DEF PlanContinuation, Goto
        <5> HIDE DEF s
        <5>2. /\ turn'[s].steps = turn[s].steps + 1
              /\ \A r \in Sessions \ {s} : turn'[r].steps = turn[r].steps
          BY <1>0, <4>1, <5>1 DEF Turns
        <5>3. /\ pc'[Consumer] \in {"finalizing", "submitting"}
              /\ pc'[Consumer] = "submitting" =>
                    job' = job /\ turn[s].steps + 1 <= MaxSteps
          BY <1>0, <5>1
        <5> QED
          BY <4>1, <5>2, <5>3 DEF s
      <4>3. CASE ContinuationFails
        BY <1>0, <2>2, <4>1, <4>3 DEF ContinuationFails, Turns, Goto
      <4>4. CASE ContinueLocally
        <5>1. \E st, d :
                 turn' = [turn EXCEPT ![s].steps = @ + 1, ![s].status = st,
                                      ![s].done = d]
          BY <4>4 DEF ContinueLocally
        <5>2. pc'[Consumer] = "idle"
          BY <1>0, <4>4 DEF ContinueLocally, Goto
        <5> HIDE DEF s
        <5>3. /\ turn'[s].steps = turn[s].steps + 1
              /\ \A r \in Sessions \ {s} : turn'[r].steps = turn[r].steps
          BY <1>0, <4>1, <5>1 DEF Turns
        <5> QED
          BY <4>1, <5>2, <5>3 DEF s
      <4> QED
        BY <2>2, <4>2, <4>3, <4>4
    <3>4. \A s \in Sessions : turn'[s].msg = turn[s].msg
      BY <1>m, <3>2
    <3>5. /\ pc'[Consumer] \notin {"new", "planning"}
          /\ turn'[SessionFor(Consumer)].steps
                \in {TurnSteps(Consumer), TurnSteps(Consumer) + 1}
          /\ pc'[Consumer] = "submitting" =>
                /\ job'[Consumer] = job[Consumer]
                /\ turn'[SessionFor(Consumer)].steps = TurnSteps(Consumer) + 1
                /\ TurnSteps(Consumer) + 1 <= MaxSteps
      BY <3>3
    <3>6. Spent'
      BY <1>0, <2>1, <3>1, <3>3, <3>4, <3>5, StepBudget
    <3>7. PaidTyped'
      BY <1>0, <2>1 DEF PaidTyped
    <3> QED
      BY <3>6, <3>7
  <2>3. CASE pc[Consumer] # "planning"
    <3>1. pc'[Consumer] \notin {"new", "submitting"}
      BY <1>0, <1>4, <2>3
      DEF ResultStep, TakeResult, ObserveResult, SkipCancelled, MissRecord,
          ResumeTurn, PlanContinuation, ContinuationFails, ContinueLocally,
          FinalizeReply, CompleteReplied, Goto
    <3>2. \A s \in Sessions : /\ turn'[s].msg = turn[s].msg
                              /\ turn'[s].steps = turn[s].steps
      <4>1. CASE turn' = turn
        BY <4>1
      <4>2. CASE ResumeTurn
        BY <1>0, <4>2 DEF ResumeTurn, Turns
      <4>3. CASE CompleteReplied
        BY <1>0, <4>3 DEF CompleteReplied, CompleteTurn, Turns
      <4> QED
        BY <1>4, <2>3, <4>1, <4>2, <4>3
        DEF ResultStep, TakeResult, ObserveResult, SkipCancelled, MissRecord,
            PlanContinuation, ContinuationFails, ContinueLocally, FinalizeReply
    <3>3. Consumer \notin Messages
      BY ConversationAssumption
    <3> QED
      BY <1>0, <1>q, <2>1, <3>1, <3>2, <3>3
  <2>4. pc[Consumer] = "planning" =>
           PlanContinuation \/ ContinuationFails \/ ContinueLocally
    BY <1>4
    DEF ResultStep, TakeResult, ObserveResult, SkipCancelled, MissRecord,
        ResumeTurn, FinalizeReply, CompleteReplied
  <2> QED
    BY <2>2, <2>3, <2>4
<1>5. CASE \/ \E t \in Tasks : TaskEnds(t) \/ ApprovalLooksUp(t) \/ CancelLooksUp(t)
           \/ ApprovalMarks \/ CancelTurn \/ CancelTask \/ UNCHANGED vars
  <2>1. UNCHANGED <<pc, job, owner, paid>>
    BY <1>5
    DEF TaskEnds, ApprovalLooksUp, CancelLooksUp, ApprovalMarks, CancelTurn,
        CancelTask, workVars, taskVars, vars
  <2>2. \A s \in Sessions : /\ turn'[s].msg = turn[s].msg
                            /\ turn'[s].steps = turn[s].steps
    <3>1. CASE turn' = turn
      BY <3>1
    <3>2. CASE ApprovalMarks
      BY <1>0, <3>2 DEF ApprovalMarks, Turns
    <3>3. CASE CancelTurn
      BY <1>0, <3>3 DEF CancelTurn, Turns
    <3> QED
      BY <1>5, <3>1, <3>2, <3>3
      DEF TaskEnds, ApprovalLooksUp, CancelLooksUp, CancelTask, vars
  <2>3. \A v \in Workers : pc[v] = "submitting" =>
           SessionFor(v)' = SessionFor(v) /\ SessionFor(v) \in Sessions
    <3> SUFFICES ASSUME NEW v \in Workers, pc[v] = "submitting"
                 PROVE  SessionFor(v)' = SessionFor(v) /\ SessionFor(v) \in Sessions
      OBVIOUS
    <3>1. InLane(v)
      BY DEF InLane
    <3>2. SessionFor(v) \in Sessions
      BY <1>n, <3>1
    <3>3. SessionFor(v)' = SessionFor(v)
      BY <2>1 DEF SessionFor, MsgOf
    <3> QED
      BY <3>2, <3>3
  <2>4. Spent'
    <3>1. \A v \in Workers : pc'[v] = "submitting" =>
             /\ pc[v] = "submitting" /\ SessionFor(v)' = SessionFor(v)
             /\ SessionFor(v) \in Sessions
      BY <2>1, <2>3
    <3>2. paid' = paid /\ pc' = pc
      BY <2>1
    <3> QED
      BY <1>0, <2>2, <3>1, <3>2, QuietBudget
  <2>5. PaidTyped'
    BY <1>0, <2>1 DEF PaidTyped
  <2> QED
    BY <2>4, <2>5
<1>6. \/ \E m \in Messages : MessageStep(m)
      \/ \E w \in Workers : ToolCallStep(w)
      \/ ResultStep
      \/ \E t \in Tasks : TaskEnds(t) \/ ApprovalLooksUp(t) \/ CancelLooksUp(t)
      \/ ApprovalMarks \/ CancelTurn \/ CancelTask \/ UNCHANGED vars
  BY DEF Next
<1> QED
  BY <1>2, <1>3, <1>4, <1>5, <1>6

-----------------------------------------------------------------------------
(* Theorems.                                                               *)

\* Nothing is submitted or stopped, and no lane is held, at first.
LEMMA InitBudget == Init => Budget /\ Stopped
<1> SUFFICES ASSUME Init PROVE Budget /\ Stopped
  OBVIOUS
<1>1. /\ stopped = {} /\ pc[Consumer] = "idle" /\ \A m \in Messages : pc[m] = "new"
      /\ paid = [t \in Tasks |-> NoMsg] /\ Consumer \notin Messages
      /\ \A s \in Sessions : turn[s].msg = NoMsg
      /\ NoMsg \notin Messages /\ MaxSteps \in Nat
  BY ConversationAssumption DEF Init, Workers, NewTurn
<1>2. Stopped
  BY <1>1 DEF Stopped
<1>3. PaidTyped
  BY <1>1 DEF PaidTyped
<1>4. LaneHeld
  BY <1>1 DEF LaneHeld, InLane, Workers
<1>5. TurnsPlaced
  BY <1>1 DEF TurnsPlaced
<1>6. Spent
  <2>1. IsFiniteSet({}) /\ Cardinality({}) = 0
    BY FS_EmptySet
  <2>2. \A m \in Messages : PaidBy(m) = {}
    BY <1>1 DEF PaidBy
  <2>3. \A w \in Workers : pc[w] # "submitting"
    BY <1>1 DEF Workers
  <2> QED
    BY <1>1, <2>1, <2>2, <2>3 DEF Spent
<1> QED
  BY <1>2, <1>3, <1>4, <1>5, <1>6 DEF Budget

\* The invariant of the turns: one worker per lane, the step budget of every
\* turn, and the cancel flags of the messages that wait for a result.
THEOREM TurnInvariant == Spec => [](Typed /\ Chain /\ Budget /\ Stopped)
<1> DEFINE I == Typed /\ Chain /\ Budget /\ Stopped
<1>1. Init => I
  BY InitTyped, InitChain, InitBudget
<1>2. I /\ [Next]_vars => I'
  <2> SUFFICES ASSUME I, [Next]_vars PROVE I'
    OBVIOUS
  <2>1. Typed' /\ Chain'
    BY NextTyped, NextChain
  <2>2. Budget'
    BY <2>1, NextBudget
  <2>3. Stopped'
    BY NextStopped
  <2> QED
    BY <2>1, <2>2, <2>3
<1> HIDE DEF I
<1>3. Spec => []I
  BY <1>1, <1>2, PTL DEF Spec
<1> QED
  BY <1>3 DEF I

\* Every reachable state of the conversations is well typed.
THEOREM TypeCorrect == Spec => []TypeOK
<1>1. Typed /\ Budget => TypeOK
  <2> SUFFICES ASSUME Typed, Budget PROVE TypeOK
    OBVIOUS
  <2>1. /\ pc \in [Workers -> {"new", "idle", "planning", "replying", "submitting",
                               "submitted", "bound", "routing", "failed", "done",
                               "took", "fallback", "resuming", "finalizing",
                               "completing"}]
    BY DEF Typed, Hands, HandlerPlaces, ConsumerPlaces
  <2>2. paid \in [Tasks -> Messages \cup {NoMsg}]
    BY DEF Budget, PaidTyped
  <2> QED
    BY <2>1, <2>2
    DEF TypeOK, Typed, Hands, TablesTyped, RepliesTyped, TurnsTyped, Turns, Used
<1> QED
  BY <1>1, TurnInvariant, PTL

\* No turn pays for more than max_steps tasks, however messages overlap.
THEOREM BoundedSteps == Spec => []StepsBounded
<1>1. Budget => StepsBounded
  BY DEF Budget, Spent, PaidBy, StepsBounded
<1> QED
  BY <1>1, TurnInvariant, PTL

\* A message cancelled before its result was taken gets no answer made from the
\* result, unless a newer message of the session replaced the turn.
THEOREM CancelledStaysUnanswered == Spec => []CancelledIsNotAnswered
<1>1. Stopped => CancelledIsNotAnswered
  BY DEF Stopped, CancelledIsNotAnswered
<1> QED
  BY <1>1, TurnInvariant, PTL

=============================================================================
