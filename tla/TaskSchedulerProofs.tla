------------------------ MODULE TaskSchedulerProofs ------------------------
(***************************************************************************)
(* Proofs about TaskScheduler, for any number of tasks, nodes, dispatchers *)
(* and priorities.                                                         *)
(***************************************************************************)
EXTENDS TaskScheduler, QueueTheorems, FiniteSetTheorems

USE DEF queueVars, doneVars, submitVars, dispVars, sweepVars, nodeVars, histVars

-----------------------------------------------------------------------------
(* Type correctness.                                                       *)

Typed == TypeOK /\ DispatcherShape

\* TaskScheduler::new starts with empty, well-typed maps.
LEMMA InitTyped == Init => Typed
  BY PrioritiesAssumption, BoundsAssumption, NoneAssumption
     DEF Init, Typed, TypeOK, DispatcherShape, Priorities

\* submit_task and the critical sections of schedule_next.
LEMMA DispatchTyped ==
    ASSUME Typed, NEW d \in Dispatchers, DispatchStep(d)
    PROVE  Typed'
<1> USE PrioritiesAssumption, FitsAssumption, BoundsAssumption, NoneAssumption
<1> USE DEF Typed, TypeOK, DispatcherShape
<1>1. CASE BeginDispatch(d)
  BY <1>1 DEF BeginDispatch
<1>2. CASE SkipEmpty(d)
  <2>1. level' \in [Dispatchers -> 1..(NumPriorities + 1)]
    BY <1>2 DEF SkipEmpty, Priorities
  <2>2. held[d] \notin Tasks
    BY <1>2 DEF SkipEmpty
  <2> QED
    BY <1>2, <2>1, <2>2 DEF SkipEmpty
<1>3. CASE EndDispatch(d)
  BY <1>3 DEF EndDispatch, Return
<1>4. CASE PopTask(d)
  BY <1>4, PopFront DEF PopTask
<1>5. CASE SelectCandidates(d)
  BY <1>5 DEF SelectCandidates
<1>6. ASSUME NEW n \in Nodes, SendTask(d, n) PROVE Typed'
  <2>1. held[d] \in Tasks
    BY <1>6 DEF SendTask
  <2>2. sentTo' \in [Tasks -> Seq(Nodes)]
    BY <1>6, <2>1 DEF SendTask
  <2> QED
    BY <1>6, <2>1, <2>2 DEF SendTask
<1>7. ASSUME NEW n \in Nodes, SendFails(d, n) PROVE Typed'
  BY <1>7 DEF SendFails
<1>8. CASE InsertRunning(d)
  <2>1. held[d] \in Tasks /\ target[d] \in Nodes
    BY <1>8 DEF InsertRunning
  <2>2. TypeOK'
    BY <1>8, <2>1 DEF InsertRunning, Return
  <2>3. DispatcherShape'
    BY <1>8, <2>1 DEF InsertRunning, Return
  <2> QED
    BY <2>2, <2>3
<1>9. CASE Requeue(d)
  <2>1. held[d] \in Tasks /\ level[d] \in Priorities
    BY <1>9 DEF Requeue, PutBack, Retries
  <2>2. pending' \in [Priorities -> Seq(Tasks)]
    BY <1>9, <2>1, PushFront DEF Requeue, PutBack, Retries
  <2>3. retry_count' \in [Tasks -> 0..MaxRetries]
    BY <1>9, <2>1 DEF Requeue, PutBack, Retries
  <2>4. level' \in [Dispatchers -> 1..(NumPriorities + 1)]
    <3>1. level[d] + 1 \in 1..(NumPriorities + 1)
      BY <2>1 DEF Priorities
    <3>2. level' = [level EXCEPT ![d] = level[d] + 1]
      BY <1>9 DEF Requeue, PutBack
    <3> QED
      BY <3>1, <3>2
  <2> QED
    BY <1>9, <2>1, <2>2, <2>3, <2>4 DEF Requeue, PutBack, Retries
<1> QED
  BY <1>1, <1>2, <1>3, <1>4, <1>5, <1>6, <1>7, <1>8, <1>9 DEF DispatchStep

\* The records that close a task.
LEMMA RecordTyped ==
    ASSUME NEW t \in Tasks, NEW v \in Verdicts
    PROVE  Record(t, v) \in Finish
  BY DEF Record, Finish

\* One removal of the sweep keeps the types of what it assigns.
LEMMA TimeOutTyped ==
    ASSUME TypeOK, NEW t \in Tasks, NEW todo \in SUBSET Tasks, NEW now \in Nat,
           TimeOut(t, todo, now)
    PROVE  /\ running' \in [Tasks -> Nodes \cup {NoNode}]
           /\ overdue' \in SUBSET Tasks
           /\ finishing' \in SUBSET Finish
           /\ completed_at' \in [Tasks -> Nat]
           /\ timed_out' \in SUBSET Tasks
           /\ sweep_now' \in Nat
<1>1. finishing' \in SUBSET Finish
  BY RecordTyped DEF TypeOK, TimeOut, Verdicts
<1>2. /\ running' \in [Tasks -> Nodes \cup {NoNode}]
      /\ overdue' \in SUBSET Tasks
  BY DEF TypeOK, TimeOut, Unrun
<1>3. /\ completed_at' \in [Tasks -> Nat]
      /\ timed_out' \in SUBSET Tasks
      /\ sweep_now' \in Nat
  BY DEF TypeOK, TimeOut
<1> QED
  BY <1>1, <1>2, <1>3

\* Every critical section of every operation keeps the types of the maps.
LEMMA NextTyped == Typed /\ [Next]_vars => Typed'
<1> USE PrioritiesAssumption, FitsAssumption, BoundsAssumption, NoneAssumption
<1> SUFFICES ASSUME Typed, [Next]_vars PROVE Typed'
  OBVIOUS
<1> USE DEF Typed, TypeOK, DispatcherShape
<1>1. ASSUME NEW t \in Tasks, SubmitTask(t) PROVE Typed'
  BY <1>1, PushBack DEF SubmitTask
<1>2. ASSUME NEW d \in Dispatchers, DispatchStep(d) PROVE Typed'
  BY <1>2, DispatchTyped
<1>3. ASSUME NEW t \in Tasks, NEW v \in ResultStatuses, CompleteTask(t, v)
      PROVE  Typed'
  BY <1>3, RecordTyped DEF CompleteTask, Unrun, Stamp, Verdicts
<1>4. ASSUME NEW t \in Tasks, CancelStep(t) PROVE Typed'
  <2>1. CASE CancelQueued(t)
    <3>1. PICK p \in Priorities : \E i \in DOMAIN pending[p] :
              pending' = [pending EXCEPT ![p] = RemoveAt(@, i)]
      BY <2>1 DEF CancelQueued
    <3>2. pending' \in [Priorities -> Seq(Tasks)]
      BY <3>1, RemoveMiddle
    <3>3. finishing' \in SUBSET Finish
      BY <2>1, RecordTyped DEF CancelQueued, Verdicts
    <3>4. /\ clock' \in Nat /\ completed_at' \in [Tasks -> Nat]
          /\ UNCHANGED <<retry_count, running, overdue, completed, results,
                         submitVars, dispVars, cancelling, sweepVars, nodeVars,
                         histVars>>
      BY <2>1 DEF CancelQueued, Stamp
    <3> QED
      BY <3>2, <3>3, <3>4
  <2>2. CASE CancelMissesQueue(t)
    BY <2>2 DEF CancelMissesQueue
  <2>3. CASE CancelRunning(t)
    <3>1. finishing' \in SUBSET Finish
      BY <2>3, RecordTyped DEF CancelRunning, Verdicts
    <3> QED
      BY <2>3, <3>1 DEF CancelRunning, Unrun, Stamp
  <2>4. CASE CancelNotFound(t)
    BY <2>4 DEF CancelNotFound
  <2> QED
    BY <1>4, <2>1, <2>2, <2>3, <2>4 DEF CancelStep
<1>5. ASSUME NEW t \in Tasks, DeadlinePasses(t) PROVE Typed'
  BY <1>5 DEF DeadlinePasses
<1>6. CASE SweepStep
  <2>1. ASSUME NEW t \in Tasks, BeginSweep(t) PROVE Typed'
    BY <2>1, TimeOutTyped DEF BeginSweep
  <2>2. ASSUME NEW t \in Tasks, ContinueSweep(t) PROVE Typed'
    BY <2>2, TimeOutTyped DEF ContinueSweep
  <2>3. CASE EndSweep
    BY <2>3 DEF EndSweep
  <2> QED
    BY <1>6, <2>1, <2>2, <2>3 DEF SweepStep
<1>7. CASE FinishStep
  <2>1. ASSUME NEW f \in finishing, StoreCompleted(f) PROVE Typed'
    <3>1. finishing' \in SUBSET Finish
      BY <2>1 DEF StoreCompleted, Finish
    <3>2. completed' \in [Tasks -> Verdicts \cup {"none"}]
      <4>1. f.task \in Tasks /\ f.verdict \in Verdicts
        BY DEF Finish
      <4> QED
        BY <2>1, <4>1 DEF StoreCompleted
    <3>3. UNCHANGED <<queueVars, running, overdue, completed_at, clock, results,
                      submitVars, dispVars, cancelling, sweepVars, nodeVars,
                      histVars>>
      BY <2>1 DEF StoreCompleted
    <3> QED
      BY <3>1, <3>2, <3>3
  <2>2. ASSUME NEW f \in finishing, AnnounceResult(f) PROVE Typed'
    <3>1. f.task \in Tasks /\ f.verdict \in Verdicts
      BY DEF Finish
    <3>2. results' \in Seq(Tasks)
      BY <2>2, <3>1 DEF AnnounceResult
    <3>3. reported' \in [Tasks -> Seq(Verdicts)]
      BY <2>2, <3>1 DEF AnnounceResult
    <3>4. /\ finishing' \in SUBSET Finish
          /\ UNCHANGED <<queueVars, running, overdue, doneVars, submitVars,
                         dispVars, cancelling, sweepVars, nodeVars, sentTo>>
      BY <2>2 DEF AnnounceResult
    <3> QED
      BY <3>2, <3>3, <3>4
  <2> QED
    BY <1>7, <2>1, <2>2 DEF FinishStep
<1>8. CASE ConsumeResult
  BY <1>8, PopFront DEF ConsumeResult
<1>9. ASSUME NEW n \in Nodes, NodeStep(n) PROVE Typed'
  <2>1. CASE NodeConnects(n)
    BY <2>1 DEF NodeConnects
  <2>2. CASE NodeDisconnects(n)
    BY <2>2 DEF NodeDisconnects
  <2>3. CASE NodeUnavailable(n)
    BY <2>3 DEF NodeUnavailable
  <2>4. CASE NodeAvailable(n)
    BY <2>4 DEF NodeAvailable
  <2> QED
    BY <1>9, <2>1, <2>2, <2>3, <2>4 DEF NodeStep
<1>10. CASE UNCHANGED vars
  BY <1>10 DEF vars
<1> QED
  BY <1>1, <1>2, <1>3, <1>4, <1>5, <1>6, <1>7, <1>8, <1>9, <1>10 DEF Next

\* The type invariant of the scheduler holds in every reachable state.
THEOREM TypeCorrect == Spec => []TypeOK
<1>1. Typed => TypeOK
  BY DEF Typed
<1> QED
  BY <1>1, InitTyped, NextTyped, PTL DEF Spec

-----------------------------------------------------------------------------
(* Where a task is.  Each lemma says how one operation moves tasks between *)
(* the places; Placed collects what has to be shown for the new state.     *)

Placed ==
    /\ QueuedOnce
    /\ HeldOnce
    /\ ClosingOnce
    /\ OverdueRuns
    /\ NeverLost
    /\ OnePlace
    /\ SentIsPlaced
    /\ AssignedAtMostOnce
    /\ ReportedAtMostOnce
    /\ RecordMatchesReport

\* TaskScheduler::new starts with no task anywhere.
LEMMA InitPlaced == Init => Placed
<1> SUFFICES ASSUME Init PROVE Placed
  OBVIOUS
<1>1. \A t \in Tasks : /\ ~Queued(t) /\ ~Held(t) /\ ~Running(t)
                       /\ ~Closing(t) /\ ~Reported(t)
  BY NoneAssumption
     DEF Init, Queued, Held, Running, Closing, Reported, Range
<1>2. QueuedOnce /\ HeldOnce /\ ClosingOnce /\ OverdueRuns
  BY NoneAssumption
     DEF Init, QueuedOnce, HeldOnce, ClosingOnce, OverdueRuns, IsInjective, Range
<1>3. NeverLost /\ OnePlace
  BY <1>1 DEF Init, NeverLost, OnePlace
<1>4. SentIsPlaced /\ AssignedAtMostOnce /\ ReportedAtMostOnce
      /\ RecordMatchesReport
  BY DEF Init, SentIsPlaced, AssignedAtMostOnce, ReportedAtMostOnce,
         RecordMatchesReport
<1> QED
  BY <1>2, <1>3, <1>4 DEF Placed

\* A step that touches none of the maps moves no task.
LEMMA IdlePlaced ==
    ASSUME Inv,
           UNCHANGED <<pending, held, running, overdue, finishing, reported,
                       arrival, completed, sentTo>>,
           \A d \in Dispatchers : dpc[d] = "sent" => dpc'[d] = "sent"
    PROVE  Placed'
<1>1. \A t : /\ Queued(t)' <=> Queued(t)
             /\ Held(t)' <=> Held(t)
             /\ Running(t)' <=> Running(t)
             /\ Closing(t)' <=> Closing(t)
             /\ Reported(t)' <=> Reported(t)
  BY DEF Queued, Held, Running, Closing, Reported
<1>2. QueuedOnce' /\ HeldOnce' /\ ClosingOnce'
  BY DEF Inv, Bookkeeping, QueuedOnce, HeldOnce, ClosingOnce
<1>3. OverdueRuns'
  BY <1>1 DEF Inv, Bookkeeping, OverdueRuns
<1>4. NeverLost' /\ OnePlace'
  BY <1>1 DEF Inv, NeverLost, OnePlace
<1>5. SentIsPlaced'
  BY <1>1 DEF Inv, Bookkeeping, SentIsPlaced
<1>6. AssignedAtMostOnce' /\ ReportedAtMostOnce' /\ RecordMatchesReport'
  BY DEF Inv, AssignedAtMostOnce, ReportedAtMostOnce, RecordMatchesReport
<1> QED
  BY <1>2, <1>3, <1>4, <1>5, <1>6 DEF Placed

\* complete_task, cancel_task and check_timeouts take a running task out of
\* the running map to close it.
LEMMA CloseRunningPlaced ==
    ASSUME Inv, NEW t \in Tasks, NEW v \in Verdicts,
           Running(t), Unrun(t),
           finishing' = finishing \cup {Record(t, v)},
           UNCHANGED <<pending, held, dpc, reported, arrival, completed, sentTo>>
    PROVE  Placed'
<1>1. Closing(t)' /\ ~Running(t)' /\ ~Closing(t) /\ ~Reported(t) /\ ~Held(t)
      /\ ~Queued(t)
  <2>1. Closing(t)'
    <3>1. Record(t, v) \in finishing' /\ Record(t, v).task = t
      BY DEF Record
    <3> QED
      BY <3>1 DEF Closing
  <2>2. ~Running(t)'
    BY DEF Inv, TypeOK, Running, Unrun
  <2> QED
    BY <2>1, <2>2 DEF Inv, OnePlace
<1>2. \A u : /\ Queued(u)' <=> Queued(u)
             /\ Held(u)' <=> Held(u)
             /\ Reported(u)' <=> Reported(u)
  BY DEF Queued, Held, Reported
<1>3. \A u \in Tasks \ {t} : /\ Running(u)' <=> Running(u)
                             /\ Closing(u)' <=> Closing(u)
  BY DEF Inv, TypeOK, Running, Closing, Unrun, Record
<1>4. QueuedOnce' /\ HeldOnce'
  BY DEF Inv, Bookkeeping, QueuedOnce, HeldOnce
<1>5. ClosingOnce'
  BY <1>1 DEF Inv, Bookkeeping, ClosingOnce, Closing, Record
<1>6. OverdueRuns'
  BY <1>3 DEF Inv, Bookkeeping, TypeOK, OverdueRuns, Unrun
<1>7. NeverLost' /\ OnePlace'
  BY <1>1, <1>2, <1>3 DEF Inv, NeverLost, OnePlace
<1>8. SentIsPlaced'
  BY <1>1, <1>2, <1>3 DEF Inv, Bookkeeping, SentIsPlaced
<1>9. AssignedAtMostOnce' /\ ReportedAtMostOnce'
  BY DEF Inv, AssignedAtMostOnce, ReportedAtMostOnce
<1>10. RecordMatchesReport'
  BY DEF Inv, RecordMatchesReport
<1> QED
  BY <1>4, <1>5, <1>6, <1>7, <1>8, <1>9, <1>10 DEF Placed

\* submit_task: a fresh task enters its queue and no other place.
LEMMA SubmitPlaced ==
    ASSUME Inv, NEW t \in Tasks, SubmitTask(t)
    PROVE  Placed'
<1> USE PrioritiesAssumption
<1> USE DEF SubmitTask
<1>1. ~Queued(t) /\ ~Held(t) /\ ~Running(t) /\ ~Closing(t) /\ ~Reported(t)
  BY DEF Inv, NeverLost
<1>2. Prio[t] \in Priorities /\ pending[Prio[t]] \in Seq(Tasks)
  BY DEF Inv, TypeOK
<1>3. /\ pending'[Prio[t]] = Append(pending[Prio[t]], t)
      /\ \A p \in Priorities \ {Prio[t]} : pending'[p] = pending[p]
  BY <1>2 DEF Inv, TypeOK
<1>4. Range(pending'[Prio[t]]) = Range(pending[Prio[t]]) \cup {t}
  BY <1>2, <1>3, PushBack
<1>5. \A u : Queued(u)' <=> Queued(u) \/ u = t
  BY <1>2, <1>3, <1>4 DEF Queued
<1>6. \A u : /\ Held(u)' <=> Held(u)
             /\ Running(u)' <=> Running(u)
             /\ Closing(u)' <=> Closing(u)
             /\ Reported(u)' <=> Reported(u)
  BY DEF Held, Running, Closing, Reported
<1>7. QueuedOnce'
  <2>1. IsInjective(pending'[Prio[t]])
    BY <1>1, <1>2, <1>3, PushBack DEF Inv, Bookkeeping, QueuedOnce, Queued
  <2>2. \A p \in Priorities : t \notin Range(pending[p])
    BY <1>1 DEF Queued
  <2>3. ASSUME NEW p \in Priorities, NEW q \in Priorities \ {p}
        PROVE  Range(pending'[p]) \cap Range(pending'[q]) = {}
    <3>1. Range(pending[p]) \cap Range(pending[q]) = {}
      BY DEF Inv, Bookkeeping, QueuedOnce
    <3> QED
      BY <1>3, <1>4, <2>2, <3>1
  <2> QED
    BY <1>3, <2>1, <2>3 DEF Inv, Bookkeeping, QueuedOnce
<1>8. HeldOnce' /\ ClosingOnce' /\ OverdueRuns'
  BY <1>6 DEF Inv, Bookkeeping, HeldOnce, ClosingOnce, OverdueRuns
<1>9. NeverLost' /\ OnePlace'
  <2>1. arrival'[t] # 0 /\ \A u \in Tasks \ {t} : arrival'[u] = arrival[u]
    BY DEF Inv, TypeOK
  <2> QED
    BY <1>1, <1>5, <1>6, <2>1 DEF Inv, NeverLost, OnePlace
<1>10. SentIsPlaced'
  BY <1>6 DEF Inv, Bookkeeping, SentIsPlaced
<1>11. AssignedAtMostOnce' /\ ReportedAtMostOnce' /\ RecordMatchesReport'
  BY DEF Inv, AssignedAtMostOnce, ReportedAtMostOnce, RecordMatchesReport
<1> QED
  BY <1>7, <1>8, <1>9, <1>10, <1>11 DEF Placed

\* schedule_next pops the head of a queue: the task is in its hands only.
LEMMA PopPlaced ==
    ASSUME Inv, NEW d \in Dispatchers, PopTask(d)
    PROVE  Placed'
<1> USE NoneAssumption
<1> USE DEF PopTask
<1>p. PICK p \in Priorities : p = level[d]
  OBVIOUS
<1>1. p \in Priorities /\ pending[p] \in Seq(Tasks) /\ pending[p] # <<>>
  BY <1>p DEF Inv, TypeOK
<1>x. PICK x \in Tasks : x = Head(pending[p])
  BY <1>1, PopFront
<1>2. /\ pending'[p] = Tail(pending[p])
      /\ \A q \in Priorities \ {p} : pending'[q] = pending[q]
  BY <1>1, <1>p DEF Inv, TypeOK
<1>3. /\ held'[d] = x /\ held[d] \notin Tasks
      /\ \A e \in Dispatchers \ {d} : held'[e] = held[e]
      /\ dpc[d] # "sent" /\ \A e \in Dispatchers \ {d} : dpc'[e] = dpc[e]
  BY <1>p, <1>x DEF Inv, Bookkeeping, TypeOK, DispatcherShape
<1>4. IsInjective(pending[p])
  BY <1>1 DEF Inv, Bookkeeping, QueuedOnce
<1>5. /\ x \in Tasks /\ x \in Range(pending[p])
      /\ Range(pending'[p]) = Range(pending[p]) \ {x}
      /\ IsInjective(pending'[p])
  BY <1>1, <1>2, <1>4, <1>x, PopFront
<1>6. Queued(x) /\ ~Held(x) /\ ~Running(x) /\ ~Closing(x) /\ ~Reported(x)
  BY <1>1, <1>5 DEF Inv, OnePlace, Queued
<1>7. \A q \in Priorities \ {p} : x \notin Range(pending[q])
  BY <1>1, <1>5 DEF Inv, Bookkeeping, QueuedOnce
<1>8. ~Queued(x)' /\ \A u : u # x => (Queued(u)' <=> Queued(u))
  BY <1>1, <1>2, <1>5, <1>7 DEF Queued
<1>9. Held(x)' /\ \A u \in Tasks \ {x} : Held(u)' <=> Held(u)
  BY <1>3 DEF Held
<1>10. \A u : /\ Running(u)' <=> Running(u)
              /\ Closing(u)' <=> Closing(u)
              /\ Reported(u)' <=> Reported(u)
  BY DEF Running, Closing, Reported
<1>11. QueuedOnce'
  BY <1>1, <1>2, <1>5 DEF Inv, Bookkeeping, QueuedOnce
<1>12. HeldOnce'
  BY <1>3, <1>5, <1>6 DEF Inv, Bookkeeping, HeldOnce, Held
<1>13. ClosingOnce' /\ OverdueRuns'
  BY <1>10 DEF Inv, Bookkeeping, ClosingOnce, OverdueRuns
<1>14. NeverLost' /\ OnePlace'
  BY <1>5, <1>6, <1>8, <1>9, <1>10 DEF Inv, NeverLost, OnePlace
<1>15. SentIsPlaced'
  <2> SUFFICES ASSUME NEW u \in Tasks, sentTo[u] # <<>>, ~Running(u),
                      ~Closing(u), ~Reported(u)
               PROVE  \E e \in Dispatchers : held'[e] = u /\ dpc'[e] = "sent"
    BY <1>10 DEF SentIsPlaced
  <2>1. PICK e \in Dispatchers : held[e] = u /\ dpc[e] = "sent"
    BY DEF Inv, Bookkeeping, SentIsPlaced
  <2> QED
    BY <1>3, <2>1
<1>16. AssignedAtMostOnce' /\ ReportedAtMostOnce' /\ RecordMatchesReport'
  BY DEF Inv, AssignedAtMostOnce, ReportedAtMostOnce, RecordMatchesReport
<1> QED
  BY <1>11, <1>12, <1>13, <1>14, <1>15, <1>16 DEF Placed

\* schedule_next puts a task it could not place back at the front.
LEMMA RequeuePlaced ==
    ASSUME Inv, NEW d \in Dispatchers, Requeue(d)
    PROVE  Placed'
<1> USE NoneAssumption
<1> USE DEF Requeue, PutBack, Retries
<1>p. PICK p \in Priorities : p = level[d]
  BY DEF Inv, Bookkeeping, TypeOK, DispatcherShape
<1>x. PICK x \in Tasks : x = held[d]
  BY DEF Inv, Bookkeeping, TypeOK, DispatcherShape
<1>1. /\ x \in Tasks /\ p \in Priorities /\ pending[p] \in Seq(Tasks)
      /\ dpc[d] = "send"
  BY DEF Inv, TypeOK
<1>2. /\ pending'[p] = <<x>> \o pending[p]
      /\ \A q \in Priorities \ {p} : pending'[q] = pending[q]
  BY <1>p, <1>x, <1>1 DEF Inv, TypeOK
<1>3. /\ held'[d] = NoTask
      /\ \A e \in Dispatchers \ {d} : held'[e] = held[e] /\ dpc'[e] = dpc[e]
  BY DEF Inv, TypeOK
<1>4. Held(x) /\ ~Queued(x) /\ ~Running(x) /\ ~Closing(x) /\ ~Reported(x)
  BY <1>1, <1>x DEF Inv, OnePlace, Held
<1>5. \A q \in Priorities : x \notin Range(pending[q])
  BY <1>4 DEF Queued
<1>6. /\ Range(pending'[p]) = Range(pending[p]) \cup {x}
      /\ IsInjective(pending'[p])
  BY <1>1, <1>2, <1>5, PushFront DEF Inv, Bookkeeping, QueuedOnce
<1>7. Queued(x)' /\ \A u : u # x => (Queued(u)' <=> Queued(u))
  BY <1>1, <1>2, <1>6 DEF Queued
<1>8. ~Held(x)' /\ \A u \in Tasks \ {x} : Held(u)' <=> Held(u)
  BY <1>x, <1>3 DEF Inv, Bookkeeping, HeldOnce, Held
<1>9. \A u : /\ Running(u)' <=> Running(u)
             /\ Closing(u)' <=> Closing(u)
             /\ Reported(u)' <=> Reported(u)
  BY DEF Running, Closing, Reported
<1>10. QueuedOnce'
  BY <1>1, <1>2, <1>5, <1>6 DEF Inv, Bookkeeping, QueuedOnce
<1>11. HeldOnce'
  BY <1>3 DEF Inv, Bookkeeping, HeldOnce
<1>12. ClosingOnce' /\ OverdueRuns'
  BY <1>9 DEF Inv, Bookkeeping, ClosingOnce, OverdueRuns
<1>13. NeverLost' /\ OnePlace'
  BY <1>1, <1>4, <1>7, <1>8, <1>9 DEF Inv, NeverLost, OnePlace
<1>14. SentIsPlaced'
  <2> SUFFICES ASSUME NEW u \in Tasks, sentTo[u] # <<>>, ~Running(u),
                      ~Closing(u), ~Reported(u)
               PROVE  \E e \in Dispatchers : held'[e] = u /\ dpc'[e] = "sent"
    BY <1>9 DEF SentIsPlaced
  <2>1. PICK e \in Dispatchers : held[e] = u /\ dpc[e] = "sent"
    BY DEF Inv, Bookkeeping, SentIsPlaced
  <2> QED
    BY <1>1, <1>x, <1>3, <2>1
<1>15. AssignedAtMostOnce' /\ ReportedAtMostOnce' /\ RecordMatchesReport'
  BY DEF Inv, AssignedAtMostOnce, ReportedAtMostOnce, RecordMatchesReport
<1> QED
  BY <1>10, <1>11, <1>12, <1>13, <1>14, <1>15 DEF Placed

\* schedule_next records the task it has sent as running.
LEMMA InsertPlaced ==
    ASSUME Inv, NEW d \in Dispatchers, InsertRunning(d)
    PROVE  Placed'
<1> USE NoneAssumption
<1> USE DEF InsertRunning, Return
<1>x. PICK x \in Tasks : x = held[d]
  BY DEF Inv, Bookkeeping, TypeOK, DispatcherShape
<1>1. x \in Tasks /\ target[d] \in Nodes
  BY DEF Inv, Bookkeeping, TypeOK, DispatcherShape
<1>2. /\ held'[d] = NoTask
      /\ \A e \in Dispatchers \ {d} : held'[e] = held[e] /\ dpc'[e] = dpc[e]
  BY DEF Inv, TypeOK
<1>3. running'[x] # NoNode /\ \A u \in Tasks \ {x} : running'[u] = running[u]
  BY <1>x, <1>1 DEF Inv, TypeOK
<1>4. Held(x) /\ ~Queued(x) /\ ~Running(x) /\ ~Closing(x) /\ ~Reported(x)
  BY <1>1, <1>x DEF Inv, OnePlace, Held
<1>5. ~Held(x)' /\ \A u \in Tasks \ {x} : Held(u)' <=> Held(u)
  BY <1>x, <1>2 DEF Inv, Bookkeeping, HeldOnce, Held
<1>6. Running(x)' /\ \A u \in Tasks \ {x} : Running(u)' <=> Running(u)
  BY <1>3 DEF Running
<1>7. \A u : /\ Queued(u)' <=> Queued(u)
             /\ Closing(u)' <=> Closing(u)
             /\ Reported(u)' <=> Reported(u)
  BY DEF Queued, Closing, Reported
<1>8. QueuedOnce' /\ ClosingOnce'
  BY DEF Inv, Bookkeeping, QueuedOnce, ClosingOnce
<1>9. HeldOnce'
  BY <1>2 DEF Inv, Bookkeeping, HeldOnce
<1>10. OverdueRuns'
  BY <1>6 DEF Inv, Bookkeeping, TypeOK, OverdueRuns
<1>11. NeverLost' /\ OnePlace'
  BY <1>1, <1>4, <1>5, <1>6, <1>7 DEF Inv, NeverLost, OnePlace
<1>12. SentIsPlaced'
  <2> SUFFICES ASSUME NEW u \in Tasks, sentTo[u] # <<>>, u # x, ~Running(u),
                      ~Closing(u), ~Reported(u)
               PROVE  \E e \in Dispatchers : held'[e] = u /\ dpc'[e] = "sent"
    BY <1>6, <1>7 DEF SentIsPlaced
  <2>1. PICK e \in Dispatchers : held[e] = u /\ dpc[e] = "sent"
    BY DEF Inv, Bookkeeping, SentIsPlaced
  <2> QED
    BY <1>x, <1>2, <2>1
<1>13. AssignedAtMostOnce' /\ ReportedAtMostOnce' /\ RecordMatchesReport'
  BY DEF Inv, AssignedAtMostOnce, ReportedAtMostOnce, RecordMatchesReport
<1> QED
  BY <1>8, <1>9, <1>10, <1>11, <1>12, <1>13 DEF Placed

\* send_to_node succeeds: the first and only assignment of the task.
LEMMA SendPlaced ==
    ASSUME Inv, NEW d \in Dispatchers, NEW n \in Nodes, SendTask(d, n)
    PROVE  Placed'
<1> USE NoneAssumption
<1> USE DEF SendTask
<1>x. PICK x \in Tasks : x = held[d]
  BY DEF Inv, Bookkeeping, TypeOK, DispatcherShape
<1>1. Held(x) /\ ~Queued(x) /\ ~Running(x) /\ ~Closing(x) /\ ~Reported(x)
  BY <1>x DEF Inv, OnePlace, Held
<1>2. sentTo[x] = <<>>
  BY <1>x, <1>1 DEF Inv, Bookkeeping, SentIsPlaced, HeldOnce
<1>3. sentTo'[x] = Append(<<>>, n) /\ \A u \in Tasks \ {x} : sentTo'[u] = sentTo[u]
  BY <1>x, <1>2 DEF Inv, TypeOK
<1>4. dpc'[d] = "sent" /\ \A e \in Dispatchers \ {d} : dpc'[e] = dpc[e]
  BY DEF Inv, TypeOK
<1>5. \A u : /\ Queued(u)' <=> Queued(u)
             /\ Held(u)' <=> Held(u)
             /\ Running(u)' <=> Running(u)
             /\ Closing(u)' <=> Closing(u)
             /\ Reported(u)' <=> Reported(u)
  BY DEF Queued, Held, Running, Closing, Reported
<1>6. QueuedOnce' /\ HeldOnce' /\ ClosingOnce' /\ OverdueRuns'
  BY <1>5 DEF Inv, Bookkeeping, QueuedOnce, HeldOnce, ClosingOnce, OverdueRuns
<1>7. NeverLost' /\ OnePlace'
  BY <1>5 DEF Inv, NeverLost, OnePlace
<1>8. SentIsPlaced'
  <2> SUFFICES ASSUME NEW u \in Tasks, sentTo'[u] # <<>>, ~Running(u),
                      ~Closing(u), ~Reported(u)
               PROVE  \E e \in Dispatchers : held'[e] = u /\ dpc'[e] = "sent"
    BY <1>5 DEF SentIsPlaced
  <2>1. CASE u = x
    BY <1>x, <1>4, <2>1
  <2>2. CASE u # x
    <3>1. PICK e \in Dispatchers : held[e] = u /\ dpc[e] = "sent"
      BY <1>3, <2>2 DEF Inv, Bookkeeping, SentIsPlaced
    <3> QED
      BY <1>4, <3>1
  <2> QED
    BY <2>1, <2>2
<1>9. AssignedAtMostOnce'
  <2>1. sentTo'[x] = <<n>>
    BY <1>3
  <2>2. Len(<<n>>) <= 1
    OBVIOUS
  <2> QED
    BY <1>3, <2>1, <2>2 DEF Inv, AssignedAtMostOnce
<1>10. ReportedAtMostOnce' /\ RecordMatchesReport'
  BY DEF Inv, ReportedAtMostOnce, RecordMatchesReport
<1> QED
  BY <1>6, <1>7, <1>8, <1>9, <1>10 DEF Placed

\* cancel_task takes a task out of its queue to close it.
LEMMA CancelQueuedPlaced ==
    ASSUME Inv, NEW t \in Tasks, CancelQueued(t)
    PROVE  Placed'
<1>1. PICK p \in Priorities : \E i \in DOMAIN pending[p] :
          /\ pending[p][i] = t
          /\ pending' = [pending EXCEPT ![p] = RemoveAt(@, i)]
  BY DEF CancelQueued
<1>2. PICK i \in DOMAIN pending[p] :
          /\ pending[p][i] = t
          /\ pending' = [pending EXCEPT ![p] = RemoveAt(@, i)]
  BY <1>1
<1>3. /\ finishing' = finishing \cup {Record(t, "Cancelled")}
      /\ UNCHANGED <<held, dpc, running, overdue, reported, arrival, completed,
                     sentTo>>
  BY DEF CancelQueued
<1>4. /\ pending[p] \in Seq(Tasks) /\ IsInjective(pending[p])
      /\ pending'[p] = RemoveAt(pending[p], i)
      /\ \A q \in Priorities \ {p} : pending'[q] = pending[q]
  BY <1>2 DEF Inv, Bookkeeping, TypeOK, QueuedOnce
<1>5. /\ t \in Range(pending[p])
      /\ Range(pending'[p]) = Range(pending[p]) \ {t}
      /\ IsInjective(pending'[p])
  <2>1. t \in Range(pending[p])
    BY <1>2 DEF Range
  <2> QED
    BY <1>2, <1>4, <2>1, RemoveMiddle
<1>6. Queued(t) /\ ~Held(t) /\ ~Running(t) /\ ~Closing(t) /\ ~Reported(t)
  BY <1>5 DEF Inv, OnePlace, Queued
<1>7. \A q \in Priorities \ {p} : t \notin Range(pending[q])
  BY <1>5 DEF Inv, Bookkeeping, QueuedOnce
<1>8. ~Queued(t)' /\ \A u : u # t => (Queued(u)' <=> Queued(u))
  BY <1>4, <1>5, <1>7 DEF Queued
<1>9. Closing(t)' /\ \A u : u # t => (Closing(u)' <=> Closing(u))
  <2>1. Record(t, "Cancelled") \in finishing' /\ Record(t, "Cancelled").task = t
    BY <1>3 DEF Record
  <2> QED
    BY <1>3, <2>1 DEF Closing
<1>10. \A u : /\ Held(u)' <=> Held(u)
              /\ Running(u)' <=> Running(u)
              /\ Reported(u)' <=> Reported(u)
  BY <1>3 DEF Held, Running, Reported
<1>11. QueuedOnce'
  BY <1>4, <1>5 DEF Inv, Bookkeeping, QueuedOnce
<1>12. HeldOnce' /\ OverdueRuns'
  BY <1>3, <1>10 DEF Inv, Bookkeeping, HeldOnce, OverdueRuns
<1>13. ClosingOnce'
  BY <1>3, <1>6 DEF Inv, Bookkeeping, ClosingOnce, Closing, Record
<1>14. NeverLost' /\ OnePlace'
  BY <1>3, <1>6, <1>8, <1>9, <1>10 DEF Inv, NeverLost, OnePlace
<1>15. SentIsPlaced'
  BY <1>3, <1>9, <1>10 DEF Inv, Bookkeeping, SentIsPlaced
<1>16. AssignedAtMostOnce' /\ ReportedAtMostOnce' /\ RecordMatchesReport'
  BY <1>3 DEF Inv, AssignedAtMostOnce, ReportedAtMostOnce, RecordMatchesReport
<1> QED
  BY <1>11, <1>12, <1>13, <1>14, <1>15, <1>16 DEF Placed

\* store_completed_task: the record of the task, whatever it evicts.
LEMMA StorePlaced ==
    ASSUME Inv, NEW f \in finishing, StoreCompleted(f)
    PROVE  Placed'
<1> DEFINE g == [f EXCEPT !.stage = "announce"]
<1>1. /\ f \in Finish /\ g \in Finish /\ f.stage = "store"
      /\ g.task = f.task /\ g.verdict = f.verdict /\ g.stage = "announce"
  <2>1. f \in Finish /\ f.stage = "store"
    BY DEF Inv, TypeOK, StoreCompleted
  <2> QED
    BY <2>1 DEF Finish
<1>2. /\ finishing' = (finishing \ {f}) \cup {g}
      /\ UNCHANGED <<pending, held, dpc, running, overdue, reported, arrival,
                     sentTo>>
  BY DEF StoreCompleted
<1> HIDE DEF g
<1>3. \A t \in Tasks : completed'[t] # "none" =>
          completed'[t] = IF t = f.task THEN f.verdict ELSE completed[t]
  <2>1. PICK E : completed' = [t \in Tasks |->
                     IF t \in E THEN "none"
                     ELSE [completed EXCEPT ![f.task] = f.verdict][t]]
    BY DEF StoreCompleted
  <2> QED
    BY <1>1, <2>1 DEF Inv, TypeOK, Finish
<1>4. \A u : Closing(u)' <=> Closing(u)
  BY <1>1, <1>2 DEF Closing
<1>5. \A u : /\ Queued(u)' <=> Queued(u)
             /\ Held(u)' <=> Held(u)
             /\ Running(u)' <=> Running(u)
             /\ Reported(u)' <=> Reported(u)
  BY <1>2 DEF Queued, Held, Running, Reported
<1>6. QueuedOnce' /\ HeldOnce' /\ OverdueRuns'
  BY <1>2, <1>5 DEF Inv, Bookkeeping, QueuedOnce, HeldOnce, OverdueRuns
<1>7. ClosingOnce'
  BY <1>1, <1>2 DEF Inv, Bookkeeping, ClosingOnce
<1>8. NeverLost' /\ OnePlace'
  BY <1>2, <1>4, <1>5 DEF Inv, NeverLost, OnePlace
<1>9. SentIsPlaced'
  BY <1>2, <1>4, <1>5 DEF Inv, Bookkeeping, SentIsPlaced
<1>10. AssignedAtMostOnce' /\ ReportedAtMostOnce'
  BY <1>2 DEF Inv, AssignedAtMostOnce, ReportedAtMostOnce
<1>11. RecordMatchesReport'
  <2> SUFFICES ASSUME NEW t \in Tasks, completed'[t] # "none"
               PROVE  \/ reported'[t] = <<completed'[t]>>
                      \/ \E h \in finishing' : /\ h.task = t
                                               /\ h.verdict = completed'[t]
                                               /\ h.stage = "announce"
    BY DEF RecordMatchesReport
  <2>1. CASE t = f.task
    BY <1>1, <1>2, <1>3, <2>1
  <2>2. CASE t # f.task
    <3>1. completed'[t] = completed[t]
      BY <1>3, <2>2
    <3>2. \/ reported[t] = <<completed[t]>>
          \/ \E h \in finishing : /\ h.task = t
                                  /\ h.verdict = completed[t]
                                  /\ h.stage = "announce"
      BY <3>1 DEF Inv, RecordMatchesReport
    <3> QED
      BY <1>2, <2>2, <3>1, <3>2
  <2> QED
    BY <2>1, <2>2
<1> QED
  BY <1>6, <1>7, <1>8, <1>9, <1>10, <1>11 DEF Placed

\* result_tx.send: the first and only result of the task.
LEMMA AnnouncePlaced ==
    ASSUME Inv, NEW f \in finishing, AnnounceResult(f)
    PROVE  Placed'
<1>1. /\ f.task \in Tasks /\ f.verdict \in Verdicts
      /\ finishing' = finishing \ {f}
      /\ UNCHANGED <<pending, held, dpc, running, overdue, arrival, completed,
                     sentTo>>
  BY DEF Inv, TypeOK, Finish, AnnounceResult
<1>t. PICK t \in Tasks : t = f.task
  BY <1>1
<1>2. Closing(t) /\ ~Queued(t) /\ ~Held(t) /\ ~Running(t) /\ ~Reported(t)
  BY <1>t DEF Inv, OnePlace, Closing
<1>3. /\ reported'[t] = Append(<<>>, f.verdict)
      /\ \A u \in Tasks \ {t} : reported'[u] = reported[u]
  BY <1>t, <1>1, <1>2 DEF Inv, TypeOK, AnnounceResult, Reported
<1>4. reported'[t] = <<f.verdict>> /\ Len(reported'[t]) = 1
  BY <1>3
<1>5. ~Closing(t)' /\ \A u \in Tasks \ {t} : Closing(u)' <=> Closing(u)
  BY <1>1, <1>t DEF Inv, Bookkeeping, ClosingOnce, Closing
<1>6. Reported(t)' /\ \A u \in Tasks \ {t} : Reported(u)' <=> Reported(u)
  BY <1>3, <1>4 DEF Reported
<1>7. \A u : /\ Queued(u)' <=> Queued(u)
             /\ Held(u)' <=> Held(u)
             /\ Running(u)' <=> Running(u)
  BY <1>1 DEF Queued, Held, Running
<1>8. QueuedOnce' /\ HeldOnce' /\ ClosingOnce' /\ OverdueRuns'
  BY <1>1, <1>7 DEF Inv, Bookkeeping, QueuedOnce, HeldOnce, ClosingOnce, OverdueRuns
<1>9. NeverLost' /\ OnePlace'
  BY <1>1, <1>2, <1>5, <1>6, <1>7 DEF Inv, NeverLost, OnePlace
<1>10. SentIsPlaced'
  BY <1>1, <1>5, <1>6, <1>7 DEF Inv, Bookkeeping, SentIsPlaced
<1>11. AssignedAtMostOnce' /\ ReportedAtMostOnce'
  <2>1. AssignedAtMostOnce'
    BY <1>1 DEF Inv, AssignedAtMostOnce
  <2>2. Len(reported'[t]) <= 1
    BY <1>4
  <2>3. \A u \in Tasks \ {t} : Len(reported'[u]) <= 1
    BY <1>3 DEF Inv, ReportedAtMostOnce
  <2> QED
    BY <2>1, <2>2, <2>3 DEF ReportedAtMostOnce
<1>12. RecordMatchesReport'
  <2> SUFFICES ASSUME NEW u \in Tasks, completed[u] # "none"
               PROVE  \/ reported'[u] = <<completed[u]>>
                      \/ \E h \in finishing' : /\ h.task = u
                                               /\ h.verdict = completed[u]
                                               /\ h.stage = "announce"
    BY <1>1 DEF RecordMatchesReport
  <2>1. \/ reported[u] = <<completed[u]>>
        \/ \E h \in finishing : /\ h.task = u
                                /\ h.verdict = completed[u]
                                /\ h.stage = "announce"
    BY DEF Inv, RecordMatchesReport
  <2>2. CASE u = t
    <3>1. reported[u] = <<>>
      BY <1>2, <2>2 DEF Reported
    <3>2. PICK h \in finishing : h.task = u /\ h.verdict = completed[u]
      BY <2>1, <3>1
    <3>3. h = f
      BY <1>t, <2>2, <3>2 DEF Inv, Bookkeeping, ClosingOnce
    <3> QED
      BY <1>4, <2>2, <3>2, <3>3
  <2>3. CASE u # t
    BY <1>1, <1>3, <1>t, <2>1, <2>3
  <2> QED
    BY <2>2, <2>3
<1> QED
  BY <1>8, <1>9, <1>10, <1>11, <1>12 DEF Placed

-----------------------------------------------------------------------------
(* The inductive invariant.                                                *)

\* Every step of the scheduler keeps every task in its one place.
LEMMA NextPlaced == Inv /\ [Next]_vars => Placed'
<1> SUFFICES ASSUME Inv, [Next]_vars PROVE Placed'
  OBVIOUS
<1>1. ASSUME NEW t \in Tasks, SubmitTask(t) PROVE Placed'
  BY <1>1, SubmitPlaced
<1>2. ASSUME NEW d \in Dispatchers, DispatchStep(d) PROVE Placed'
  <2>1. CASE BeginDispatch(d)
    BY <2>1, IdlePlaced DEF BeginDispatch, Inv, TypeOK
  <2>2. CASE SkipEmpty(d)
    BY <2>2, IdlePlaced DEF SkipEmpty
  <2>3. CASE EndDispatch(d)
    BY <2>3, IdlePlaced DEF EndDispatch, Return, Inv, TypeOK
  <2>4. CASE PopTask(d)
    BY <2>4, PopPlaced
  <2>5. CASE SelectCandidates(d)
    BY <2>5, IdlePlaced DEF SelectCandidates, Inv, TypeOK
  <2>6. ASSUME NEW n \in Nodes, SendTask(d, n) PROVE Placed'
    BY <2>6, SendPlaced
  <2>7. ASSUME NEW n \in Nodes, SendFails(d, n) PROVE Placed'
    BY <2>7, IdlePlaced DEF SendFails
  <2>8. CASE InsertRunning(d)
    BY <2>8, InsertPlaced
  <2>9. CASE Requeue(d)
    BY <2>9, RequeuePlaced
  <2> QED
    BY <1>2, <2>1, <2>2, <2>3, <2>4, <2>5, <2>6, <2>7, <2>8, <2>9
       DEF DispatchStep
<1>3. ASSUME NEW t \in Tasks, NEW v \in ResultStatuses, CompleteTask(t, v)
      PROVE  Placed'
  BY <1>3, CloseRunningPlaced DEF CompleteTask, Running, Verdicts
<1>4. ASSUME NEW t \in Tasks, CancelStep(t) PROVE Placed'
  <2>1. CASE CancelQueued(t)
    BY <2>1, CancelQueuedPlaced
  <2>2. CASE CancelMissesQueue(t)
    BY <2>2, IdlePlaced DEF CancelMissesQueue
  <2>3. CASE CancelRunning(t)
    BY <2>3, CloseRunningPlaced DEF CancelRunning, Running, Verdicts
  <2>4. CASE CancelNotFound(t)
    BY <2>4, IdlePlaced DEF CancelNotFound
  <2> QED
    BY <1>4, <2>1, <2>2, <2>3, <2>4 DEF CancelStep
<1>5. ASSUME NEW t \in Tasks, DeadlinePasses(t) PROVE Placed'
  <2>1. \A u : /\ Queued(u)' <=> Queued(u)
               /\ Held(u)' <=> Held(u)
               /\ Running(u)' <=> Running(u)
               /\ Closing(u)' <=> Closing(u)
               /\ Reported(u)' <=> Reported(u)
    BY <1>5 DEF DeadlinePasses, Queued, Held, Running, Closing, Reported
  <2>2. QueuedOnce' /\ HeldOnce' /\ ClosingOnce'
    BY <1>5 DEF DeadlinePasses, Inv, Bookkeeping, QueuedOnce, HeldOnce, ClosingOnce
  <2>3. OverdueRuns'
    BY <1>5, <2>1 DEF DeadlinePasses, Inv, Bookkeeping, OverdueRuns, Running
  <2>4. NeverLost' /\ OnePlace'
    BY <1>5, <2>1 DEF DeadlinePasses, Inv, NeverLost, OnePlace
  <2>5. SentIsPlaced'
    BY <1>5, <2>1 DEF DeadlinePasses, Inv, Bookkeeping, SentIsPlaced
  <2>6. AssignedAtMostOnce' /\ ReportedAtMostOnce' /\ RecordMatchesReport'
    BY <1>5 DEF DeadlinePasses, Inv, AssignedAtMostOnce, ReportedAtMostOnce,
                RecordMatchesReport
  <2> QED
    BY <2>2, <2>3, <2>4, <2>5, <2>6 DEF Placed
<1>6. CASE SweepStep
  <2>1. ASSUME NEW t \in Tasks, BeginSweep(t) PROVE Placed'
    <3>1. Running(t)
      BY <2>1 DEF BeginSweep, TimeOut, Inv, Bookkeeping, OverdueRuns
    <3> QED
      BY <2>1, <3>1, CloseRunningPlaced DEF BeginSweep, TimeOut, Verdicts
  <2>2. ASSUME NEW t \in Tasks, ContinueSweep(t) PROVE Placed'
    BY <2>2, CloseRunningPlaced DEF ContinueSweep, TimeOut, Running, Verdicts
  <2>3. CASE EndSweep
    BY <2>3, IdlePlaced DEF EndSweep
  <2> QED
    BY <1>6, <2>1, <2>2, <2>3 DEF SweepStep
<1>7. CASE FinishStep
  BY <1>7, StorePlaced, AnnouncePlaced DEF FinishStep
<1>8. CASE ConsumeResult
  BY <1>8, IdlePlaced DEF ConsumeResult
<1>9. ASSUME NEW n \in Nodes, NodeStep(n) PROVE Placed'
  BY <1>9, IdlePlaced DEF NodeStep, NodeConnects, NodeDisconnects,
                          NodeUnavailable, NodeAvailable
<1>10. CASE UNCHANGED vars
  BY <1>10, IdlePlaced DEF vars
<1> QED
  BY <1>1, <1>2, <1>3, <1>4, <1>5, <1>6, <1>7, <1>8, <1>9, <1>10 DEF Next

\* The inductive invariant of the scheduler holds in every reachable state.
THEOREM Invariance == Spec => []Inv
<1>1. Init => Inv
  BY InitTyped, InitPlaced DEF Inv, Bookkeeping, Typed, Placed
<1>2. Inv /\ [Next]_vars => Inv'
  BY NextTyped, NextPlaced DEF Inv, Bookkeeping, Typed, Placed
<1> QED
  BY <1>1, <1>2, PTL DEF Spec

\* schedule_next, cancel_task, complete_task and check_timeouts never lose a
\* submitted task and never own it twice.
THEOREM TaskConservation == Spec => []ExactlyOnePlace
<1>1. Inv => ExactlyOnePlace
  BY DEF Inv, ExactlyOnePlace
<1> QED
  BY <1>1, Invariance, PTL

\* A task leaves the Hub for a node at most once.
THEOREM SingleAssignment == Spec => []AssignedAtMostOnce
<1>1. Inv => AssignedAtMostOnce
  BY DEF Inv
<1> QED
  BY <1>1, Invariance, PTL

\* Of a result, a cancellation and a timeout that race for a task, one is
\* announced.
THEOREM SingleReport == Spec => []ReportedAtMostOnce
<1>1. Inv => ReportedAtMostOnce
  BY DEF Inv
<1> QED
  BY <1>1, Invariance, PTL

\* The terminal status a client reads is the one that was announced.
THEOREM StableStatus == Spec => []RecordMatchesReport
<1>1. Inv => RecordMatchesReport
  BY DEF Inv
<1> QED
  BY <1>1, Invariance, PTL

-----------------------------------------------------------------------------
(* The order of the queues, with any number of dispatchers.                *)

\* Ranks are given out by the submission counter.
RanksCounted == \A t \in Tasks : arrival[t] <= task_counter

\* The task in a dispatcher's hands came before all that wait in the queue it
\* was taken from, but for those another dispatcher has put back.
MayReturn(t, u) ==
    \/ arrival[t] < arrival[u]
    \/ (\E d, e \in Dispatchers : d # e) /\ retry_count[u] > 0

HeldFirst ==
    \A d \in Dispatchers : held[d] \in Tasks =>
        \A i \in DOMAIN pending[level[d]] :
            MayReturn(held[d], pending[level[d]][i])

Ordered == QueuesInArrivalOrder /\ RanksCounted /\ HeldFirst

\* InOrder as a set of pairs.
Before == {x \in Tasks \X Tasks : InOrder(x[1], x[2])}

\* What Before holds.
LEMMA BeforePairs ==
    \A t, u \in Tasks : <<t, u>> \in Before <=> InOrder(t, u)
  BY DEF Before

\* The same after a step.
LEMMA BeforePairsNext ==
    \A t, u \in Tasks : <<t, u>> \in Before' <=> InOrder(t, u)'
  BY DEF Before

\* The queues, each with its elements two by two in Before.
LEMMA OrderIsRising ==
    ASSUME pending \in [Priorities -> Seq(Tasks)]
    PROVE  QueuesInArrivalOrder <=> \A p \in Priorities : Rising(pending[p], Before)
<1>1. \A p \in Priorities : \A i \in DOMAIN pending[p] : pending[p][i] \in Tasks
  OBVIOUS
<1> QED
  BY <1>1, BeforePairs DEF QueuesInArrivalOrder, Rising

\* The same after a step.
LEMMA OrderIsRisingNext ==
    ASSUME pending' \in [Priorities -> Seq(Tasks)]
    PROVE  QueuesInArrivalOrder' <=> \A p \in Priorities : Rising(pending'[p], Before')
<1>1. \A p \in Priorities : \A i \in DOMAIN pending'[p] : pending'[p][i] \in Tasks
  OBVIOUS
<1> QED
  BY <1>1, BeforePairsNext DEF QueuesInArrivalOrder, Rising

\* A step that moves no task between queue and dispatcher.
LEMMA OrderKept ==
    ASSUME Inv, Ordered, UNCHANGED <<pending, retry_count, arrival, task_counter>>,
           \A d \in Dispatchers : held'[d] \in Tasks =>
               held'[d] = held[d] /\ level'[d] = level[d]
    PROVE  Ordered'
<1>1. QueuesInArrivalOrder'
  BY DEF Ordered, QueuesInArrivalOrder, InOrder
<1>2. RanksCounted'
  BY DEF Ordered, RanksCounted
<1>3. HeldFirst'
  BY DEF Ordered, HeldFirst, MayReturn
<1> QED
  BY <1>1, <1>2, <1>3 DEF Ordered

\* submit_task gives the highest rank so far to the task it appends.
LEMMA SubmitOrdered ==
    ASSUME Inv, Ordered, NEW t \in Tasks, SubmitTask(t)
    PROVE  Ordered'
<1> USE PrioritiesAssumption
<1>1. /\ pending \in [Priorities -> Seq(Tasks)] /\ held \in [Dispatchers -> Tasks \cup {NoTask}]
      /\ arrival \in [Tasks -> Nat] /\ task_counter \in Nat
  BY DEF Inv, TypeOK
<1>2. /\ arrival'[t] = task_counter + 1 /\ task_counter' = task_counter + 1
      /\ \A u \in Tasks \ {t} : arrival'[u] = arrival[u]
      /\ pending'[Prio[t]] = Append(pending[Prio[t]], t)
      /\ \A p \in Priorities \ {Prio[t]} : pending'[p] = pending[p]
      /\ UNCHANGED <<held, level, retry_count>>
  BY <1>1 DEF SubmitTask
<1>3. ~Queued(t) /\ ~Held(t)
  BY DEF Inv, NeverLost, SubmitTask
<1>4. \A p \in Priorities : \A i \in DOMAIN pending[p] :
          pending[p][i] \in Tasks \ {t}
  BY <1>1, <1>3 DEF Queued, Range
<1>5. \A u \in Tasks \ {t} : arrival'[u] <= task_counter
  BY <1>1, <1>2 DEF Ordered, RanksCounted
<1>6. RanksCounted'
  BY <1>1, <1>2, <1>5 DEF RanksCounted
<1>10. pending' \in [Priorities -> Seq(Tasks)]
  BY <1>1 DEF SubmitTask
<1>7. \A p \in Priorities : Rising(pending[p], Before')
  <2> SUFFICES ASSUME NEW p \in Priorities, NEW i \in DOMAIN pending[p],
                      NEW j \in DOMAIN pending[p], i < j
               PROVE  <<pending[p][i], pending[p][j]>> \in Before'
    BY DEF Rising
  <2>1. PICK u, v \in Tasks \ {t} : u = pending[p][i] /\ v = pending[p][j]
    BY <1>4
  <2>2. InOrder(u, v)
    BY <2>1 DEF Ordered, QueuesInArrivalOrder
  <2>3. InOrder(u, v)'
    BY <1>2, <2>1, <2>2 DEF InOrder
  <2>4. <<u, v>> \in Before'
    BY <2>3, BeforePairsNext
  <2> QED
    BY <2>1, <2>4
<1>8. \A p \in Priorities : Rising(pending'[p], Before')
  <2>1. Prio[t] \in Priorities /\ pending[Prio[t]] \in Seq(Tasks)
    BY <1>1
  <2>2. \A i \in DOMAIN pending[Prio[t]] :
            <<pending[Prio[t]][i], t>> \in Before'
    <3> SUFFICES ASSUME NEW i \in DOMAIN pending[Prio[t]]
                 PROVE  <<pending[Prio[t]][i], t>> \in Before'
      OBVIOUS
    <3>1. PICK u \in Tasks \ {t} : u = pending[Prio[t]][i]
      BY <1>4, <2>1
    <3>2. arrival'[u] < arrival'[t]
      BY <1>1, <1>2, <1>5
    <3>3. InOrder(u, t)'
      BY <3>2 DEF InOrder
    <3> QED
      BY <3>1, <3>3, BeforePairsNext
  <2>3. Rising(Append(pending[Prio[t]], t), Before')
    BY <1>7, <2>1, <2>2, RisingPush
  <2> QED
    BY <1>2, <1>7, <2>3 DEF Rising
<1>9. HeldFirst'
  <2> SUFFICES ASSUME NEW d \in Dispatchers, held[d] \in Tasks,
                      NEW i \in DOMAIN pending'[level[d]]
               PROVE  \/ arrival'[held[d]] < arrival'[pending'[level[d]][i]]
                      \/ /\ \E e, f \in Dispatchers : e # f
                         /\ retry_count[pending'[level[d]][i]] > 0
    BY <1>2 DEF HeldFirst, MayReturn
  <2>1. held[d] \in Tasks \ {t} /\ level[d] \in Priorities
    BY <1>3 DEF Held, Inv, Bookkeeping, DispatcherShape
  <2>2. ASSUME i \in DOMAIN pending[level[d]], pending'[level[d]][i] = pending[level[d]][i]
        PROVE  \/ arrival'[held[d]] < arrival'[pending'[level[d]][i]]
               \/ /\ \E e, f \in Dispatchers : e # f
                  /\ retry_count[pending'[level[d]][i]] > 0
    BY <1>2, <1>4, <2>1, <2>2 DEF Ordered, HeldFirst, MayReturn
  <2>3. CASE level[d] = Prio[t]
    <3>1. /\ DOMAIN pending[level[d]] = 1..Len(pending[level[d]])
          /\ DOMAIN pending'[level[d]] = 1..(Len(pending[level[d]]) + 1)
          /\ Len(pending[level[d]]) \in Nat
          /\ pending'[level[d]][Len(pending[level[d]]) + 1] = t
          /\ \A j \in 1..Len(pending[level[d]]) :
                pending'[level[d]][j] = pending[level[d]][j]
      BY <1>1, <1>2, <2>1, <2>3
    <3>2. CASE i = Len(pending[level[d]]) + 1
      <4>1. pending'[level[d]][i] = t
        BY <3>1, <3>2
      <4> QED
        BY <1>1, <1>2, <1>5, <2>1, <4>1
    <3>3. CASE i # Len(pending[level[d]]) + 1
      <4>1. i \in 1..Len(pending[level[d]])
        BY <3>1, <3>3
      <4> QED
        BY <2>2, <3>1, <4>1
    <3> QED
      BY <3>2, <3>3
  <2>4. CASE level[d] # Prio[t]
    BY <1>2, <2>1, <2>2, <2>4
  <2> QED
    BY <2>3, <2>4
<1> QED
  BY <1>6, <1>8, <1>9, <1>10, OrderIsRisingNext DEF Ordered

\* schedule_next takes the head: all that stay came later.
LEMMA PopOrdered ==
    ASSUME Inv, Ordered, NEW d \in Dispatchers, PopTask(d)
    PROVE  Ordered'
<1>1. /\ pending \in [Priorities -> Seq(Tasks)] /\ held \in [Dispatchers -> Tasks \cup {NoTask}]
      /\ level[d] \in Priorities /\ pending[level[d]] # <<>>
      /\ level' = level
  BY DEF Inv, TypeOK, PopTask
<1>2. /\ pending'[level[d]] = Tail(pending[level[d]])
      /\ \A p \in Priorities \ {level[d]} : pending'[p] = pending[p]
      /\ held'[d] = Head(pending[level[d]])
      /\ \A e \in Dispatchers \ {d} : held'[e] = held[e]
      /\ UNCHANGED <<arrival, task_counter, retry_count>>
  BY <1>1 DEF PopTask
<1>3. \A p \in Priorities : Rising(pending[p], Before)
  BY <1>1, OrderIsRising DEF Ordered
<1>4. /\ Rising(Tail(pending[level[d]]), Before)
      /\ \A i \in DOMAIN Tail(pending[level[d]]) :
            <<Head(pending[level[d]]), Tail(pending[level[d]])[i]>> \in Before
  BY <1>1, <1>3, RisingPop
<1>5. \A p \in Priorities : Rising(pending'[p], Before')
  <2>1. Before' = Before
    BY <1>2 DEF Before, InOrder
  <2> QED
    BY <1>2, <1>3, <1>4, <2>1
<1>7. pending' \in [Priorities -> Seq(Tasks)]
  BY <1>1 DEF PopTask
<1>6. HeldFirst'
  <2> SUFFICES ASSUME NEW e \in Dispatchers, held'[e] \in Tasks,
                      NEW i \in DOMAIN pending'[level[e]]
               PROVE  MayReturn(held'[e], pending'[level[e]][i])
    BY <1>1, <1>2 DEF HeldFirst, MayReturn
  <2>1. CASE e = d
    <3>1. <<held'[d], pending'[level[d]][i]>> \in Before
      BY <1>2, <1>4, <2>1
    <3>2. InOrder(held'[d], pending'[level[d]][i])
      BY <3>1 DEF Before
    <3> QED
      BY <2>1, <3>2 DEF InOrder, MayReturn
  <2>2. CASE e # d
    <3>1. held'[e] = held[e] /\ level[e] \in Priorities
      BY <1>2, <2>2 DEF Inv, Bookkeeping, DispatcherShape
    <3>2. CASE level[e] # level[d]
      BY <1>2, <3>1, <3>2 DEF Ordered, HeldFirst
    <3>3. CASE level[e] = level[d]
      <4>1. /\ i + 1 \in DOMAIN pending[level[d]]
            /\ pending'[level[e]][i] = pending[level[d]][i + 1]
        <5> DEFINE q == pending[level[d]]
        <5>1. q \in Seq(Tasks) /\ q # <<>>
          BY <1>1
        <5>2. i \in DOMAIN Tail(q)
          BY <1>2, <3>3
        <5> HIDE DEF q
        <5>3. i + 1 \in DOMAIN q /\ Tail(q)[i] = q[i + 1]
          BY <5>1, <5>2
        <5> QED
          BY <1>2, <3>3, <5>3 DEF q
      <4> QED
        BY <3>1, <3>3, <4>1 DEF Ordered, HeldFirst
    <3> QED
      BY <3>2, <3>3
  <2> QED
    BY <2>1, <2>2
<1> QED
  BY <1>2, <1>5, <1>6, <1>7, OrderIsRisingNext DEF Ordered, RanksCounted

\* schedule_next puts a task back at the front and counts the retry: what is
\* ahead of its place was put back too, by another dispatcher.
LEMMA RequeueOrdered ==
    ASSUME MaxRetries # 0, Inv, Ordered, NEW d \in Dispatchers, Requeue(d)
    PROVE  Ordered'
<1> USE NoneAssumption
<1>1. /\ pending \in [Priorities -> Seq(Tasks)] /\ held \in [Dispatchers -> Tasks \cup {NoTask}]
      /\ retry_count \in [Tasks -> 0..MaxRetries] /\ MaxRetries \in Nat
      /\ level[d] \in Priorities /\ held[d] \in Tasks
  BY BoundsAssumption DEF Inv, TypeOK, Bookkeeping, DispatcherShape, Requeue, PutBack
<1>2. /\ pending'[level[d]] = <<held[d]>> \o pending[level[d]]
      /\ pending' \in [Priorities -> Seq(Tasks)]
      /\ \A p \in Priorities \ {level[d]} : pending'[p] = pending[p]
      /\ held'[d] = NoTask
      /\ \A e \in Dispatchers \ {d} : held'[e] = held[e] /\ level'[e] = level[e]
      /\ UNCHANGED <<arrival, task_counter>>
  <2>1. <<held[d]>> \o pending[level[d]] \in Seq(Tasks)
    BY <1>1
  <2>2. level \in [Dispatchers -> 1..(NumPriorities + 1)]
    BY DEF Inv, TypeOK
  <2> QED
    BY <1>1, <2>1, <2>2 DEF Requeue, PutBack
<1>3. /\ retry_count'[held[d]] > 0
      /\ \A u \in Tasks \ {held[d]} : retry_count'[u] = retry_count[u]
      /\ \A u \in Tasks : retry_count[u] > 0 => retry_count'[u] > 0
  <2>1. retry_count' = [retry_count EXCEPT ![held[d]] = Retries(d)]
    BY DEF Requeue, PutBack
  <2>2. Retries(d) > 0
    BY <1>1 DEF Retries
  <2> QED
    BY <1>1, <2>1, <2>2
<1>4. \A p \in Priorities : Rising(pending[p], Before')
  <2>1. \A p \in Priorities : Rising(pending[p], Before)
    BY <1>1, OrderIsRising DEF Ordered
  <2>2. \A x \in Before : x \in Before'
    BY <1>2, <1>3 DEF Before, InOrder
  <2> QED
    BY <2>1, <2>2 DEF Rising
<1>5. Rising(<<held[d]>> \o pending[level[d]], Before')
  <2>1. \A i \in DOMAIN pending[level[d]] :
            <<held[d], pending[level[d]][i]>> \in Before'
    <3> SUFFICES ASSUME NEW i \in DOMAIN pending[level[d]]
                 PROVE  <<held[d], pending[level[d]][i]>> \in Before'
      OBVIOUS
    <3>1. pending[level[d]][i] \in Tasks /\ MayReturn(held[d], pending[level[d]][i])
      BY <1>1 DEF Ordered, HeldFirst
    <3> QED
      BY <1>1, <1>2, <1>3, <3>1 DEF Before, InOrder, MayReturn
  <2> QED
    BY <1>1, <1>4, <2>1, RisingPutBack
<1>6. \A p \in Priorities : Rising(pending'[p], Before')
  BY <1>2, <1>4, <1>5
<1>7. HeldFirst'
  <2> SUFFICES ASSUME NEW e \in Dispatchers, held'[e] \in Tasks,
                      NEW i \in DOMAIN pending'[level[e]], e # d
               PROVE  \/ arrival[held[e]] < arrival[pending'[level[e]][i]]
                      \/ /\ \E f, g \in Dispatchers : f # g
                         /\ retry_count'[pending'[level[e]][i]] > 0
    <3>1. ASSUME NEW e \in Dispatchers, held'[e] \in Tasks
          PROVE  e # d
      BY <1>2, <3>1
    <3> QED
      BY <1>2, <3>1 DEF HeldFirst, MayReturn
  <2>1. held'[e] = held[e] /\ level[e] \in Priorities
    BY <1>2 DEF Inv, Bookkeeping, DispatcherShape
  <2>2. CASE pending'[level[e]][i] = held[d]
    BY <1>3, <2>2 DEF MayReturn
  <2>3. CASE \E j \in DOMAIN pending[level[e]] : pending'[level[e]][i] = pending[level[e]][j]
    <3>1. PICK j \in DOMAIN pending[level[e]] : pending'[level[e]][i] = pending[level[e]][j]
      BY <2>3
    <3>2. pending[level[e]][j] \in Tasks /\ MayReturn(held[e], pending[level[e]][j])
      BY <1>1, <2>1 DEF Ordered, HeldFirst
    <3> QED
      BY <1>2, <1>3, <2>1, <3>1, <3>2 DEF MayReturn
  <2>4. \/ pending'[level[e]][i] = held[d]
        \/ \E j \in DOMAIN pending[level[e]] : pending'[level[e]][i] = pending[level[e]][j]
    <3>1. CASE level[e] # level[d]
      BY <1>2, <2>1, <3>1
    <3>2. CASE level[e] = level[d]
      <4> DEFINE q == pending[level[d]]
                 r == <<held[d]>> \o q
      <4>1. q \in Seq(Tasks) /\ i \in DOMAIN r /\ pending'[level[e]][i] = r[i]
        BY <1>1, <1>2, <3>2
      <4>2. /\ DOMAIN q = 1..Len(q) /\ Len(q) \in Nat
            /\ DOMAIN r = 1..(Len(q) + 1) /\ r[1] = held[d]
            /\ \A k \in 1..Len(q) : r[k + 1] = q[k]
        BY <4>1, <1>1
      <4> HIDE DEF q, r
      <4>3. CASE i = 1
        BY <4>1, <4>2, <4>3
      <4>4. CASE i # 1
        <5>1. i - 1 \in 1..Len(q) /\ (i - 1) + 1 = i
          BY <4>1, <4>2, <4>4
        <5>2. r[i] = q[i - 1] /\ i - 1 \in DOMAIN q
          BY <4>2, <5>1
        <5> QED
          BY <3>2, <4>1, <5>2 DEF q
      <4> QED
        BY <4>3, <4>4
    <3> QED
      BY <3>1, <3>2
  <2> QED
    BY <2>2, <2>3, <2>4
<1> QED
  BY <1>2, <1>6, <1>7, OrderIsRisingNext DEF Ordered, RanksCounted

\* cancel_task removes a task from the middle of a queue.
LEMMA CancelOrdered ==
    ASSUME Inv, Ordered, NEW t \in Tasks, CancelQueued(t)
    PROVE  Ordered'
<1>1. PICK p \in Priorities : \E i \in DOMAIN pending[p] :
          pending' = [pending EXCEPT ![p] = RemoveAt(@, i)]
  BY DEF CancelQueued
<1>2. PICK k \in DOMAIN pending[p] :
          pending' = [pending EXCEPT ![p] = RemoveAt(@, k)]
  BY <1>1
<1>3. /\ pending \in [Priorities -> Seq(Tasks)] /\ pending[p] \in Seq(Tasks)
      /\ UNCHANGED <<arrival, task_counter, held, level, retry_count>>
  BY DEF Inv, TypeOK, CancelQueued
<1>4. /\ pending'[p] = RemoveAt(pending[p], k)
      /\ \A q \in Priorities \ {p} : pending'[q] = pending[q]
  BY <1>2, <1>3
<1>5. \A q \in Priorities : Rising(pending[q], Before)
  BY <1>3, OrderIsRising DEF Ordered
<1>6. Rising(RemoveAt(pending[p], k), Before)
  BY <1>3, <1>5, RisingRemove
<1>7. \A q \in Priorities : Rising(pending'[q], Before')
  <2>1. Before' = Before
    BY <1>3 DEF Before, InOrder
  <2> QED
    BY <1>3, <1>4, <1>5, <1>6, <2>1
<1>9. pending' \in [Priorities -> Seq(Tasks)]
  <2>1. RemoveAt(pending[p], k) \in Seq(Tasks)
    BY <1>3, RemoveAtElements
  <2> QED
    BY <1>2, <1>3, <2>1
<1>8. HeldFirst'
  <2> SUFFICES ASSUME NEW d \in Dispatchers, held[d] \in Tasks,
                      NEW i \in DOMAIN pending'[level[d]]
               PROVE  MayReturn(held[d], pending'[level[d]][i])
    BY <1>3 DEF HeldFirst, MayReturn
  <2>1. level[d] \in Priorities
    BY DEF Inv, Bookkeeping, DispatcherShape
  <2>2. CASE level[d] # p
    BY <1>4, <2>1, <2>2 DEF Ordered, HeldFirst
  <2>3. CASE level[d] = p
    <3>1. PICK j \in DOMAIN pending[p] : pending'[p][i] = pending[p][j]
      <4> DEFINE q == pending[p]
                 r == RemoveAt(q, k)
      <4>1. /\ DOMAIN q = 1..Len(q) /\ Len(q) \in Nat /\ k \in 1..Len(q)
            /\ DOMAIN r = 1..(Len(q) - 1)
            /\ \A j \in 1..(k - 1) : r[j] = q[j]
            /\ \A j \in k..(Len(q) - 1) : r[j] = q[j + 1]
        BY <1>3, RemoveAtElements
      <4>2. i \in DOMAIN r /\ pending'[p][i] = r[i]
        BY <1>4, <2>3
      <4> HIDE DEF q, r
      <4>0. i \in Int /\ k \in Int
        BY <4>1, <4>2
      <4>3. CASE i < k
        <5>1. i \in DOMAIN q /\ r[i] = q[i]
          BY <4>1, <4>2, <4>3
        <5> QED
          BY <4>2, <5>1 DEF q
      <4>4. CASE i >= k
        <5>1. i + 1 \in DOMAIN q /\ r[i] = q[i + 1]
          BY <4>1, <4>2, <4>4
        <5> QED
          BY <4>2, <5>1 DEF q
      <4> QED
        BY <4>0, <4>3, <4>4
    <3> QED
      BY <2>3, <3>1 DEF Ordered, HeldFirst
  <2> QED
    BY <2>2, <2>3
<1> QED
  BY <1>3, <1>7, <1>8, <1>9, OrderIsRisingNext DEF Ordered, RanksCounted

\* Every step keeps the order.
LEMMA NextOrdered ==
    ASSUME MaxRetries # 0, Inv, Ordered, [Next]_vars
    PROVE  Ordered'
<1> USE NoneAssumption
<1>1. ASSUME NEW t \in Tasks, SubmitTask(t) PROVE Ordered'
  BY <1>1, SubmitOrdered
<1>2. ASSUME NEW d \in Dispatchers, DispatchStep(d) PROVE Ordered'
  <2>1. CASE PopTask(d)
    BY <2>1, PopOrdered
  <2>2. CASE Requeue(d)
    BY <2>2, RequeueOrdered
  <2>3. CASE InsertRunning(d) \/ EndDispatch(d) \/ SkipEmpty(d)
    <3>1. UNCHANGED <<queueVars, arrival, task_counter>> /\ held'[d] \notin Tasks
      BY <2>3 DEF InsertRunning, EndDispatch, SkipEmpty, Return,
                  Inv, TypeOK, Bookkeeping, DispatcherShape
    <3> QED
      BY <3>1, <2>3, OrderKept DEF InsertRunning, EndDispatch, SkipEmpty, Return,
                                   queueVars, Inv, TypeOK
  <2>4. CASE \/ BeginDispatch(d) \/ SelectCandidates(d)
             \/ \E n \in Nodes : SendTask(d, n) \/ SendFails(d, n)
    BY <2>4, OrderKept DEF BeginDispatch, SelectCandidates, SendTask, SendFails
  <2> QED
    BY <1>2, <2>1, <2>2, <2>3, <2>4 DEF DispatchStep
<1>3. ASSUME NEW t \in Tasks, CancelQueued(t) PROVE Ordered'
  BY <1>3, CancelOrdered
<1>4. ASSUME \/ \E t \in Tasks, v \in ResultStatuses : CompleteTask(t, v)
             \/ \E t \in Tasks : \/ CancelMissesQueue(t) \/ CancelRunning(t)
                                 \/ CancelNotFound(t) \/ DeadlinePasses(t)
             \/ SweepStep \/ FinishStep \/ ConsumeResult \/ UNCHANGED vars
      PROVE  Ordered'
  <2>1. UNCHANGED <<pending, retry_count, arrival, task_counter, held, level>>
    BY <1>4 DEF CompleteTask, CancelMissesQueue, CancelRunning, CancelNotFound,
        DeadlinePasses, SweepStep, BeginSweep, ContinueSweep, EndSweep,
        FinishStep, StoreCompleted, AnnounceResult, ConsumeResult, vars
  <2> QED
    BY <2>1, OrderKept
<1>5. ASSUME NEW n \in Nodes, NodeStep(n) PROVE Ordered'
  BY <1>5, OrderKept DEF NodeStep, NodeConnects, NodeDisconnects,
                         NodeUnavailable, NodeAvailable
<1> QED
  BY <1>1, <1>2, <1>3, <1>4, <1>5 DEF Next, CancelStep

\* For any number of dispatchers the queues keep the order of submission up to
\* tasks that were put back, and with one dispatcher exactly; max_retries is
\* not 0 (hub.rs sets 3), so that the retry count tells which these are.
THEOREM ArrivalOrder ==
    ASSUME MaxRetries # 0
    PROVE  Spec => []QueuesInArrivalOrder
<1>1. Init => Ordered
  <2> SUFFICES ASSUME Init PROVE Ordered
    OBVIOUS
  <2>1. \A p \in Priorities : DOMAIN pending[p] = {}
    BY DEF Init
  <2>2. QueuesInArrivalOrder
    BY <2>1 DEF QueuesInArrivalOrder
  <2>3. RanksCounted /\ HeldFirst
    BY NoneAssumption DEF Init, RanksCounted, HeldFirst
  <2> QED
    BY <2>2, <2>3 DEF Ordered
<1>2. Inv /\ Ordered /\ [Next]_vars => Ordered'
  BY NextOrdered
<1>3. Ordered => QueuesInArrivalOrder
  BY DEF Ordered
<1> QED
  BY <1>1, <1>2, <1>3, Invariance, PTL DEF Spec

-----------------------------------------------------------------------------
(* The completed map.  It is finite from the start, since a step adds one  *)
(* record at most; counting then says what an eviction leaves behind.      *)

\* completed_tasks holds finitely many records.
StoreFinite == IsFiniteSet(Stored)

\* The records that outlive the insertion of f and the eviction of E.
Kept(f, E) == (Stored \cup {f.task}) \ E

\* What store_completed_task does to completed_tasks: the records that stay
\* are the old ones and the new one without the evicted.
LEMMA StoreKeeps ==
    ASSUME TypeOK, NEW f \in finishing, StoreCompleted(f)
    PROVE  \E E \in SUBSET (Stored \cup {f.task}) :
               /\ Stored' = Kept(f, E)
               /\ \/ /\ Cardinality(Stored \cup {f.task}) > MaxCompleted
                     /\ E \in Oldest(Stored \cup {f.task})
                  \/ /\ ~(Cardinality(Stored \cup {f.task}) > MaxCompleted)
                     /\ E = {}
<1> DEFINE S == Stored \cup {f.task}
           new == [completed EXCEPT ![f.task] = f.verdict]
<1>1. f.task \in Tasks /\ f.verdict \in Verdicts
  BY DEF TypeOK, Finish
<1>2. f.verdict # "none"
  BY <1>1 DEF Verdicts, ResultStatuses
<1>3. PICK E \in IF Cardinality(S) > MaxCompleted THEN Oldest(S) ELSE {{}} :
          completed' = [t \in Tasks |-> IF t \in E THEN "none" ELSE new[t]]
  BY DEF StoreCompleted
<1>4. E \in SUBSET S
  BY <1>3 DEF Oldest
<1>5. \A t \in Tasks : new[t] # "none" <=> t \in S
  BY <1>1, <1>2 DEF TypeOK, Stored
<1>6. Stored' = Kept(f, E)
  <2>1. \A t \in Tasks : completed'[t] # "none" <=> t \notin E /\ t \in S
    BY <1>3, <1>5
  <2>2. S \subseteq Tasks
    BY <1>1 DEF Stored
  <2> QED
    BY <2>1, <2>2 DEF Stored, Kept
<1> QED
  BY <1>3, <1>4, <1>6

\* No other step writes completed_tasks.
LEMMA OnlyStoreWrites ==
    ASSUME [Next]_vars, \A f \in finishing : ~StoreCompleted(f)
    PROVE  completed' = completed
  BY DEF Next, vars, DispatchStep, CancelStep, SweepStep, FinishStep, NodeStep,
         SubmitTask, BeginDispatch, SkipEmpty, EndDispatch, PopTask,
         SelectCandidates, SendTask, SendFails, InsertRunning, Requeue,
         PutBack, CompleteTask, CancelQueued, CancelMissesQueue, CancelRunning,
         CancelNotFound, DeadlinePasses, BeginSweep, ContinueSweep, EndSweep,
         AnnounceResult, ConsumeResult, NodeConnects, NodeDisconnects,
         NodeUnavailable, NodeAvailable

\* A step adds at most one record, so the map stays finite.
LEMMA NextStoreFinite == TypeOK /\ StoreFinite /\ [Next]_vars => StoreFinite'
<1> SUFFICES ASSUME TypeOK, StoreFinite, [Next]_vars
             PROVE  StoreFinite'
  OBVIOUS
<1>1. ASSUME NEW f \in finishing, StoreCompleted(f)
      PROVE  StoreFinite'
  <2>1. PICK E : Stored' = Kept(f, E)
    BY <1>1, StoreKeeps
  <2>2. IsFiniteSet(Stored \cup {f.task})
    BY FS_AddElement DEF StoreFinite
  <2>3. IsFiniteSet(Kept(f, E))
    BY <2>2, FS_Difference DEF Kept
  <2> QED
    BY <2>1, <2>3 DEF StoreFinite
<1>2. CASE \A f \in finishing : ~StoreCompleted(f)
  <2>1. Stored' = Stored
    BY <1>2, OnlyStoreWrites DEF Stored
  <2> QED
    BY <2>1 DEF StoreFinite
<1> QED
  BY <1>1, <1>2

\* The map starts empty.
LEMMA InitStoreEmpty == Init => Stored = {}
  BY DEF Init, Stored

\* completed_tasks holds finitely many records at all times.
LEMMA StoreStaysFinite == Spec => []StoreFinite
<1>1. Init => StoreFinite
  BY InitStoreEmpty, FS_EmptySet DEF StoreFinite
<1> QED
  BY <1>1, NextStoreFinite, TypeCorrect, PTL DEF Spec

\* How many records an eviction leaves.
LEMMA EvictionLeaves ==
    ASSUME StoreFinite, NEW f, NEW E \in Oldest(Stored \cup {f.task})
    PROVE  Cardinality(Kept(f, E)) = Cardinality(Stored \cup {f.task}) - EvictCount
<1> DEFINE S == Stored \cup {f.task}
<1>1. IsFiniteSet(S)
  BY FS_AddElement DEF StoreFinite
<1>2. E \subseteq S /\ Cardinality(E) = EvictCount
  BY DEF Oldest
<1>3. S \cap E = E
  BY <1>2
<1>4. Cardinality(S \ E) = Cardinality(S) - Cardinality(S \cap E)
  BY <1>1, FS_Difference
<1> QED
  BY <1>2, <1>3, <1>4 DEF Kept

\* A step that forgets a record leaves enough younger ones.
LEMMA StepKeepsRecent ==
    ASSUME TypeOK, StoreFinite, [Next]_vars,
           NEW t \in Tasks, completed[t] # "none", completed'[t] = "none"
    PROVE  Cardinality({u \in Tasks : /\ completed'[u] # "none"
                                      /\ completed_at[u] >= completed_at[t]})
               >= MaxCompleted + 1 - EvictCount
<1>1. PICK f \in finishing : StoreCompleted(f)
  BY OnlyStoreWrites
<1> DEFINE S == Stored \cup {f.task}
<1>2. PICK E \in SUBSET S :
          /\ Stored' = Kept(f, E)
          /\ \/ Cardinality(S) > MaxCompleted /\ E \in Oldest(S)
             \/ E = {}
  BY <1>1, StoreKeeps
<1>3. t \in Stored /\ t \notin Stored'
  BY DEF Stored
<1>4. t \in E
  BY <1>2, <1>3 DEF Kept
<1>5. Cardinality(S) > MaxCompleted /\ E \in Oldest(S)
  BY <1>2, <1>4
<1>6. \A u \in S \ E : completed_at[t] <= completed_at[u]
  BY <1>4, <1>5 DEF Oldest
<1>7. {u \in Tasks : completed'[u] # "none" /\ completed_at[u] >= completed_at[t]}
          = Kept(f, E)
  <2>1. Stored' = {u \in Tasks : completed'[u] # "none"}
    BY DEF Stored
  <2>2. \A u \in Kept(f, E) : u \in Tasks /\ completed'[u] # "none"
    BY <1>2, <2>1
  <2>3. \A u \in Kept(f, E) : completed_at[u] >= completed_at[t]
    BY <1>6, <2>2 DEF Kept, TypeOK
  <2> QED
    BY <1>2, <2>1, <2>2, <2>3
<1>8. Cardinality(Kept(f, E)) = Cardinality(S) - EvictCount
  BY <1>5, EvictionLeaves
<1>9. Cardinality(S) \in Nat
  BY FS_AddElement, FS_CardinalityType DEF StoreFinite
<1>10. Cardinality(Kept(f, E)) >= MaxCompleted + 1 - EvictCount
  BY <1>5, <1>8, <1>9, BoundsAssumption
<1> QED
  BY <1>7, <1>10, Zenon

\* store_completed_task never forgets a record while fewer than
\* MaxCompleted + 1 - EvictCount records that are no older stay.
THEOREM RecentRecordsStay == Spec => EvictionKeepsRecent
<1>1. TypeOK /\ StoreFinite /\ [Next]_vars =>
          [\A t \in Tasks :
               completed[t] # "none" /\ completed'[t] = "none" =>
                   Cardinality({u \in Tasks : /\ completed'[u] # "none"
                                              /\ completed_at[u] >= completed_at[t]})
                       >= MaxCompleted + 1 - EvictCount]_vars
  BY StepKeepsRecent
<1> QED
  BY <1>1, TypeCorrect, StoreStaysFinite, PTL DEF Spec, EvictionKeepsRecent

\* completed_tasks never holds more records than store_completed_task allows.
StoreBounded == Cardinality(Stored) <= MaxCompleted

\* Inserting one record and evicting EvictCount of them keeps the bound.
LEMMA NextStoreBounded ==
    ASSUME EvictCount > 0, TypeOK, StoreFinite, StoreBounded, [Next]_vars
    PROVE  StoreBounded'
<1>1. ASSUME NEW f \in finishing, StoreCompleted(f)
      PROVE  StoreBounded'
  <2> DEFINE S == Stored \cup {f.task}
  <2>1. PICK E \in SUBSET S :
            /\ Stored' = Kept(f, E)
            /\ \/ Cardinality(S) > MaxCompleted /\ E \in Oldest(S)
               \/ ~(Cardinality(S) > MaxCompleted) /\ E = {}
    BY <1>1, StoreKeeps
  <2>2. /\ Cardinality(S) = IF f.task \in Stored THEN Cardinality(Stored)
                            ELSE Cardinality(Stored) + 1
        /\ Cardinality(Stored) \in Nat
    BY FS_AddElement, FS_CardinalityType DEF StoreFinite
  <2>3. CASE Cardinality(S) > MaxCompleted /\ E \in Oldest(S)
    <3>1. Cardinality(Kept(f, E)) = Cardinality(S) - EvictCount
      BY <2>3, EvictionLeaves
    <3>2. Cardinality(Kept(f, E)) <= MaxCompleted
      BY <2>2, <3>1, BoundsAssumption DEF StoreBounded
    <3> QED
      BY <2>1, <3>2 DEF StoreBounded
  <2>4. CASE ~(Cardinality(S) > MaxCompleted) /\ E = {}
    <3>1. Stored' = S
      BY <2>1, <2>4 DEF Kept
    <3>2. Cardinality(S) <= MaxCompleted
      BY <2>2, <2>4, BoundsAssumption
    <3> QED
      BY <3>1, <3>2 DEF StoreBounded
  <2> QED
    BY <2>1, <2>3, <2>4
<1>2. CASE \A f \in finishing : ~StoreCompleted(f)
  <2>1. Stored' = Stored
    BY <1>2, OnlyStoreWrites DEF Stored
  <2> QED
    BY <2>1 DEF StoreBounded
<1> QED
  BY <1>1, <1>2

\* store_completed_task keeps completed_tasks within MaxCompleted records,
\* however many operations are between removing a task and storing it.
THEOREM CompletedBounded ==
    ASSUME EvictCount > 0
    PROVE  Spec => []StoreBounded
<1>1. Init => StoreBounded
  BY InitStoreEmpty, FS_EmptySet, BoundsAssumption DEF StoreBounded
<1>2. TypeOK /\ StoreFinite /\ StoreBounded /\ [Next]_vars => StoreBounded'
  BY NextStoreBounded
<1> QED
  BY <1>1, <1>2, TypeCorrect, StoreStaysFinite, PTL DEF Spec

-----------------------------------------------------------------------------
(* The scheduler implements TaskLifecycle: every critical section is one   *)
(* step of the life of one task, or a step nobody sees.                    *)

\* The refinement mapping of Lifecycle, one operator per abstract variable.
Phase ==
    [t \in Tasks |->
        IF Closing(t) \/ Reported(t) THEN "closed"
        ELSE IF Running(t) THEN "running"
        ELSE IF Queued(t) \/ Held(t) THEN "queued"
        ELSE "unknown"]

Decided ==
    [t \in Tasks |->
        {f.verdict : f \in {g \in finishing : g.task = t}} \cup Range(reported[t])]

Announced == [t \in Tasks |-> Len(reported[t])]

\* The phase of a task without its queue: because no task is lost or in two
\* places, one that was submitted and neither runs nor closes is queued or in
\* a dispatcher's hands.
PhaseByArrival(t) ==
    IF Closing(t) \/ Reported(t) THEN "closed"
    ELSE IF Running(t) THEN "running"
    ELSE IF arrival[t] # 0 THEN "queued"
    ELSE "unknown"

PhaseRead == \A t \in Tasks : Phase[t] = PhaseByArrival(t)

\* The inductive invariant lets the phase be read from the submission counter
\* and the maps.
LEMMA PhaseIsRead == Inv => PhaseRead
  BY DEF Inv, NeverLost, OnePlace, Phase, PhaseByArrival, PhaseRead

\* The same after a step.
LEMMA PhaseIsReadNext == Inv' => PhaseRead'
  BY PhaseIsRead, PTL

\* A task that is not being closed and has no result has no verdict.
LEMMA NoVerdictYet ==
    ASSUME NEW t \in Tasks, ~Closing(t), ~Reported(t)
    PROVE  Decided[t] = {} /\ Announced[t] = 0
<1>1. {g \in finishing : g.task = t} = {}
  BY DEF Closing
<1>2. Range(<<>>) = {}
  BY DEF Range
<1> QED
  BY <1>1, <1>2 DEF Decided, Announced, Reported

-----------------------------------------------------------------------------
(* The steps.                                                              *)

Stutters == Phase' = Phase /\ Decided' = Decided /\ Announced' = Announced

\* Dispatching, requeueing, looking for a task to cancel, a passing deadline,
\* consuming a result and the nodes' comings and goings change no task's life.
LEMMA Unseen ==
    ASSUME Inv, Inv', UNCHANGED <<finishing, reported, running, arrival>>
    PROVE  Stutters
<1>1. \A t \in Tasks : PhaseByArrival(t)' = PhaseByArrival(t)
  BY DEF PhaseByArrival, Closing, Reported, Running
<1>2. Phase' = Phase
  <2>1. \A t \in Tasks : Phase'[t] = Phase[t]
    BY <1>1, PhaseIsRead, PhaseIsReadNext DEF PhaseRead
  <2> QED
    BY <2>1 DEF Phase
<1> QED
  BY <1>2 DEF Stutters, Decided, Announced

\* submit_task is the birth of a task.
LEMMA SubmitIsSubmit ==
    ASSUME Inv, Inv', NEW t \in Tasks, SubmitTask(t)
    PROVE  Lifecycle!Submit(t)
<1>1. ~Closing(t) /\ ~Reported(t) /\ ~Running(t)
  BY DEF Inv, NeverLost, SubmitTask
<1>2. arrival'[t] # 0 /\ \A u \in Tasks \ {t} : arrival'[u] = arrival[u]
  BY DEF Inv, TypeOK, SubmitTask
<1>3. \A u : /\ Closing(u)' <=> Closing(u)
             /\ Reported(u)' <=> Reported(u)
             /\ Running(u)' <=> Running(u)
  BY DEF SubmitTask, Closing, Reported, Running
<1>4. PhaseByArrival(t) = "unknown" /\ PhaseByArrival(t)' = "queued"
  BY <1>1, <1>2, <1>3 DEF SubmitTask, PhaseByArrival
<1>5. \A u \in Tasks \ {t} : PhaseByArrival(u)' = PhaseByArrival(u)
  BY <1>2, <1>3 DEF PhaseByArrival
<1>6. /\ Phase[t] = "unknown" /\ Phase'[t] = "queued"
      /\ \A u \in Tasks \ {t} : Phase'[u] = Phase[u]
  BY <1>4, <1>5, PhaseIsRead, PhaseIsReadNext DEF PhaseRead
<1>7. Phase' = [Phase EXCEPT ![t] = "queued"]
  BY <1>6 DEF Phase
<1>8. Decided' = Decided /\ Announced' = Announced
  BY DEF SubmitTask, Decided, Announced
<1> QED
  BY <1>6, <1>7, <1>8 DEF Lifecycle!Submit, Phase, Decided, Announced

\* running_tasks.insert starts the task a dispatcher has sent.
LEMMA InsertIsStart ==
    ASSUME Inv, Inv', NEW d \in Dispatchers, InsertRunning(d)
    PROVE  \E t \in Tasks : Lifecycle!Start(t)
<1>t. PICK t \in Tasks : t = held[d]
  BY DEF Inv, Bookkeeping, DispatcherShape, InsertRunning
<1>1. ~Closing(t) /\ ~Reported(t) /\ ~Running(t) /\ arrival[t] # 0
  BY <1>t DEF Inv, NeverLost, OnePlace, Held
<1>2. running'[t] # NoNode /\ \A u \in Tasks \ {t} : running'[u] = running[u]
  BY <1>t, NoneAssumption
     DEF Inv, Bookkeeping, DispatcherShape, TypeOK, InsertRunning
<1>3. \A u : /\ Closing(u)' <=> Closing(u)
             /\ Reported(u)' <=> Reported(u)
  BY DEF InsertRunning, Closing, Reported
<1>4. arrival' = arrival
  BY DEF InsertRunning
<1>5. PhaseByArrival(t) = "queued" /\ PhaseByArrival(t)' = "running"
  BY <1>1, <1>2, <1>3 DEF PhaseByArrival, Running
<1>6. \A u \in Tasks \ {t} : PhaseByArrival(u)' = PhaseByArrival(u)
  BY <1>2, <1>3, <1>4 DEF PhaseByArrival, Running
<1>7. /\ Phase[t] = "queued" /\ Phase'[t] = "running"
      /\ \A u \in Tasks \ {t} : Phase'[u] = Phase[u]
  BY <1>5, <1>6, PhaseIsRead, PhaseIsReadNext DEF PhaseRead
<1>8. Phase' = [Phase EXCEPT ![t] = "running"]
  BY <1>7 DEF Phase
<1>9. Decided' = Decided /\ Announced' = Announced
  BY DEF InsertRunning, Decided, Announced
<1>10. Lifecycle!Start(t)
  BY <1>7, <1>8, <1>9 DEF Lifecycle!Start, Phase, Decided, Announced
<1> QED
  BY <1>10

\* complete_task, cancel_task and check_timeouts: whoever takes the task out
\* of its map decides its only verdict.
LEMMA CloseIsDecide ==
    ASSUME Inv, Inv', NEW t \in Tasks, NEW v \in Verdicts,
           Running(t) \/ (Queued(t) /\ v = "Cancelled"),
           finishing' = finishing \cup {Record(t, v)},
           \A u \in Tasks \ {t} : running'[u] = running[u],
           UNCHANGED <<reported, arrival>>
    PROVE  Lifecycle!Decide(t, v)
<1>1. ~Closing(t) /\ ~Reported(t)
  BY DEF Inv, OnePlace
<1>2. Record(t, v).task = t /\ Record(t, v).verdict = v
  BY DEF Record
<1>3. Closing(t)' /\ \A u : u # t => (Closing(u)' <=> Closing(u))
  BY <1>2 DEF Closing
<1>4. \A u : Reported(u)' <=> Reported(u)
  BY DEF Reported
<1>5. PhaseByArrival(t)' = "closed"
  BY <1>3 DEF PhaseByArrival
<1>6. \A u \in Tasks \ {t} : PhaseByArrival(u)' = PhaseByArrival(u)
  BY <1>3, <1>4 DEF PhaseByArrival, Running
<1>7. Phase'[t] = "closed" /\ \A u \in Tasks \ {t} : Phase'[u] = Phase[u]
  BY <1>5, <1>6, PhaseIsRead, PhaseIsReadNext DEF PhaseRead
<1>8. Phase' = [Phase EXCEPT ![t] = "closed"]
  BY <1>7 DEF Phase
<1>9. Phase[t] = "running" \/ (Phase[t] = "queued" /\ v = "Cancelled")
  BY <1>1 DEF Phase, Inv, OnePlace
<1>10. Decided' = [Decided EXCEPT ![t] = {v}]
  <2>1. {g \in finishing' : g.task = t} = {Record(t, v)}
    BY <1>1, <1>2 DEF Closing
  <2>2. Range(reported'[t]) = {}
    BY <1>1 DEF Reported, Range
  <2>3. Decided'[t] = {v}
    BY <1>2, <2>1, <2>2 DEF Decided
  <2>4. ASSUME NEW u \in Tasks \ {t} PROVE Decided'[u] = Decided[u]
    <3>1. {g \in finishing' : g.task = u} = {g \in finishing : g.task = u}
      BY <1>2
    <3> QED
      BY <3>1 DEF Decided
  <2> QED
    BY <2>3, <2>4 DEF Decided
<1>11. Announced' = Announced
  BY DEF Announced
<1> QED
  BY <1>8, <1>9, <1>10, <1>11 DEF Lifecycle!Decide, Phase, Decided, Announced

\* store_completed_task is not seen: the verdict stays what it was.
LEMMA StoreIsUnseen ==
    ASSUME Inv, Inv', NEW f \in finishing, StoreCompleted(f)
    PROVE  Stutters
<1> DEFINE g == [f EXCEPT !.stage = "announce"]
<1>1. g.task = f.task /\ g.verdict = f.verdict
  BY DEF Inv, TypeOK, Finish
<1>2. /\ finishing' = (finishing \ {f}) \cup {g}
      /\ UNCHANGED <<reported, running, arrival>>
  BY DEF StoreCompleted
<1> HIDE DEF g
<1>3. \A u : Closing(u)' <=> Closing(u)
  BY <1>1, <1>2 DEF Closing
<1>4. \A t \in Tasks : PhaseByArrival(t)' = PhaseByArrival(t)
  BY <1>2, <1>3 DEF PhaseByArrival, Reported, Running
<1>5. Phase' = Phase
  <2>1. \A t \in Tasks : Phase'[t] = Phase[t]
    BY <1>4, PhaseIsRead, PhaseIsReadNext DEF PhaseRead
  <2> QED
    BY <2>1 DEF Phase
<1>6. Decided' = Decided
  <2>1. ASSUME NEW t \in Tasks
        PROVE  {h.verdict : h \in {k \in finishing' : k.task = t}}
                   = {h.verdict : h \in {k \in finishing : k.task = t}}
    BY <1>1, <1>2
  <2> QED
    BY <1>2, <2>1 DEF Decided
<1>7. Announced' = Announced
  BY <1>2 DEF Announced
<1> QED
  BY <1>5, <1>6, <1>7 DEF Stutters

\* result_tx.send announces the verdict, once.
LEMMA AnnounceIsAnnounce ==
    ASSUME Inv, Inv', NEW f \in finishing, AnnounceResult(f)
    PROVE  \E t \in Tasks : Lifecycle!Announce(t)
<1>t. PICK t \in Tasks : t = f.task
  BY DEF Inv, TypeOK, Finish
<1>1. /\ finishing' = finishing \ {f}
      /\ UNCHANGED <<running, arrival>>
  BY DEF AnnounceResult
<1>2. Closing(t) /\ ~Reported(t)
  BY <1>t DEF Inv, OnePlace, Closing
<1>3. /\ reported'[t] = <<f.verdict>>
      /\ \A u \in Tasks \ {t} : reported'[u] = reported[u]
  <2>1. /\ reported'[t] = Append(<<>>, f.verdict)
        /\ \A u \in Tasks \ {t} : reported'[u] = reported[u]
    BY <1>t, <1>2 DEF Inv, TypeOK, AnnounceResult, Reported
  <2> QED
    BY <2>1
<1>4. Reported(t)' /\ \A u \in Tasks \ {t} : Reported(u)' <=> Reported(u)
  BY <1>3 DEF Reported
<1>5. \A u : u # t => (Closing(u)' <=> Closing(u))
  BY <1>1, <1>t DEF Closing
<1>6. PhaseByArrival(t) = "closed" /\ PhaseByArrival(t)' = "closed"
  BY <1>2, <1>4 DEF PhaseByArrival
<1>7. \A u \in Tasks \ {t} : PhaseByArrival(u)' = PhaseByArrival(u)
  BY <1>1, <1>4, <1>5 DEF PhaseByArrival, Running
<1>8. Phase[t] = "closed" /\ Phase' = Phase
  <2>1. \A u \in Tasks : Phase'[u] = Phase[u]
    BY <1>6, <1>7, PhaseIsRead, PhaseIsReadNext DEF PhaseRead
  <2>2. Phase[t] = "closed"
    BY <1>6, PhaseIsRead DEF PhaseRead
  <2> QED
    BY <2>1, <2>2 DEF Phase
<1>9. Decided' = Decided
  <2>1. {g \in finishing : g.task = t} = {f} /\ {g \in finishing' : g.task = t} = {}
    BY <1>1, <1>t DEF Inv, Bookkeeping, ClosingOnce
  <2>2. Range(<<f.verdict>>) = {f.verdict} /\ Range(<<>>) = {}
    BY DEF Range
  <2>3. Decided'[t] = Decided[t]
    BY <1>2, <1>3, <2>1, <2>2 DEF Decided, Reported
  <2>4. ASSUME NEW u \in Tasks \ {t} PROVE Decided'[u] = Decided[u]
    <3>1. {g \in finishing' : g.task = u} = {g \in finishing : g.task = u}
      BY <1>1, <1>t
    <3> QED
      BY <1>3, <3>1 DEF Decided
  <2> QED
    BY <2>3, <2>4 DEF Decided
<1>10. Announced[t] = 0 /\ Announced' = [Announced EXCEPT ![t] = 1]
  <2>1. Announced[t] = 0
    BY <1>2 DEF Announced, Reported
  <2>2. Announced'[t] = 1 /\ \A u \in Tasks \ {t} : Announced'[u] = Announced[u]
    BY <1>3 DEF Announced
  <2> QED
    BY <2>1, <2>2 DEF Announced
<1>11. Lifecycle!Announce(t)
  BY <1>8, <1>9, <1>10 DEF Lifecycle!Announce, Phase, Decided, Announced
<1> QED
  BY <1>11

-----------------------------------------------------------------------------
(* The refinement.                                                         *)

\* TaskScheduler::new: no task is known.
LEMMA InitIsInit == Init => Lifecycle!Init
<1> SUFFICES ASSUME Init PROVE Lifecycle!Init
  OBVIOUS
<1>1. \A t \in Tasks : /\ ~Queued(t) /\ ~Held(t) /\ ~Running(t)
                       /\ ~Closing(t) /\ ~Reported(t)
  BY NoneAssumption
     DEF Init, Queued, Held, Running, Closing, Reported, Range
<1>2. Phase = [t \in Tasks |-> "unknown"]
  BY <1>1 DEF Phase
<1>3. Decided = [t \in Tasks |-> {}] /\ Announced = [t \in Tasks |-> 0]
  BY <1>1, NoVerdictYet DEF Decided, Announced
<1> QED
  BY <1>2, <1>3 DEF Lifecycle!Init, Phase, Decided, Announced

\* Every critical section is a step of TaskLifecycle or changes nothing it
\* speaks of.
LEMMA StepIsStep ==
    Inv /\ Inv' /\ [Next]_vars => Lifecycle!Next \/ Stutters
<1> SUFFICES ASSUME Inv, Inv', [Next]_vars PROVE Lifecycle!Next \/ Stutters
  OBVIOUS
<1>1. ASSUME NEW t \in Tasks, SubmitTask(t) PROVE Lifecycle!Next
  BY <1>1, SubmitIsSubmit DEF Lifecycle!Next
<1>2. ASSUME NEW d \in Dispatchers, DispatchStep(d)
      PROVE  Lifecycle!Next \/ Stutters
  <2>1. CASE InsertRunning(d)
    BY <2>1, InsertIsStart DEF Lifecycle!Next
  <2>2. CASE ~InsertRunning(d)
    <3>1. UNCHANGED <<finishing, reported, running, arrival>>
      BY <1>2, <2>2 DEF DispatchStep, BeginDispatch, SkipEmpty, EndDispatch,
          PopTask, SelectCandidates, SendTask, SendFails, Requeue, PutBack
    <3> QED
      BY <3>1, Unseen
  <2> QED
    BY <2>1, <2>2
<1>3. ASSUME NEW t \in Tasks, NEW v \in ResultStatuses, CompleteTask(t, v)
      PROVE  Lifecycle!Next
  <2>1. v \in Verdicts /\ Lifecycle!Decide(t, v)
    BY <1>3, CloseIsDecide
       DEF CompleteTask, Unrun, Running, Verdicts, Inv, TypeOK
  <2> QED
    BY <2>1 DEF Lifecycle!Next
<1>4. ASSUME NEW t \in Tasks, CancelStep(t) PROVE Lifecycle!Next \/ Stutters
  <2>0. "Cancelled" \in Verdicts
    BY DEF Verdicts
  <2>1. CASE CancelQueued(t)
    <3>1. Queued(t)
      BY <2>1 DEF CancelQueued, Queued, Range
    <3>2. Lifecycle!Decide(t, "Cancelled")
      BY <2>0, <2>1, <3>1, CloseIsDecide DEF CancelQueued
    <3> QED
      BY <2>0, <3>2 DEF Lifecycle!Next
  <2>2. CASE CancelMissesQueue(t)
    BY <2>2, Unseen DEF CancelMissesQueue
  <2>3. CASE CancelRunning(t)
    <3>1. Lifecycle!Decide(t, "Cancelled")
      BY <2>0, <2>3, CloseIsDecide DEF CancelRunning, Unrun, Running, Inv, TypeOK
    <3> QED
      BY <2>0, <3>1 DEF Lifecycle!Next
  <2>4. CASE CancelNotFound(t)
    BY <2>4, Unseen DEF CancelNotFound
  <2> QED
    BY <1>4, <2>1, <2>2, <2>3, <2>4 DEF CancelStep
<1>5. ASSUME NEW t \in Tasks, DeadlinePasses(t) PROVE Stutters
  BY <1>5, Unseen DEF DeadlinePasses
<1>6. CASE SweepStep
  <2>0. "Timeout" \in Verdicts
    BY DEF Verdicts
  <2>1. ASSUME NEW t \in Tasks, BeginSweep(t) \/ ContinueSweep(t)
        PROVE  Lifecycle!Next
    <3>1. Running(t)
      BY <2>1 DEF BeginSweep, ContinueSweep, TimeOut, Running,
                  Inv, Bookkeeping, OverdueRuns
    <3>2. /\ Unrun(t)
          /\ finishing' = finishing \cup {Record(t, "Timeout")}
          /\ UNCHANGED <<reported, arrival>>
      BY <2>1 DEF BeginSweep, ContinueSweep, TimeOut
    <3>3. Lifecycle!Decide(t, "Timeout")
      BY <2>0, <3>1, <3>2, CloseIsDecide DEF Unrun, Inv, TypeOK
    <3> QED
      BY <2>0, <3>3 DEF Lifecycle!Next
  <2>2. CASE EndSweep
    BY <2>2, Unseen DEF EndSweep
  <2> QED
    BY <1>6, <2>1, <2>2 DEF SweepStep
<1>7. CASE FinishStep
  <2>1. ASSUME NEW f \in finishing, StoreCompleted(f) PROVE Stutters
    BY <2>1, StoreIsUnseen
  <2>2. ASSUME NEW f \in finishing, AnnounceResult(f) PROVE Lifecycle!Next
    BY <2>2, AnnounceIsAnnounce DEF Lifecycle!Next
  <2> QED
    BY <1>7, <2>1, <2>2 DEF FinishStep
<1>8. CASE ConsumeResult
  BY <1>8, Unseen DEF ConsumeResult
<1>9. ASSUME NEW n \in Nodes, NodeStep(n) PROVE Stutters
  BY <1>9, Unseen DEF NodeStep, NodeConnects, NodeDisconnects,
                      NodeUnavailable, NodeAvailable
<1>10. CASE UNCHANGED vars
  BY <1>10, Unseen DEF vars
<1> QED
  BY <1>1, <1>2, <1>3, <1>4, <1>5, <1>6, <1>7, <1>8, <1>9, <1>10 DEF Next

\* Whatever the interleaving of dispatchers, answers, cancellations and
\* sweeps, the scheduler shows the outside nothing but the life of each task:
\* queued once, started at most once, decided once, announced once.
THEOREM Refinement == Spec => ImplementsLifecycle
<1>1. Init => Lifecycle!Init
  BY InitIsInit
<1>2. Inv /\ Inv' /\ [Next]_vars => [Lifecycle!Next]_(Lifecycle!vars)
  BY StepIsStep DEF Stutters, Phase, Decided, Announced, Lifecycle!vars
<1> QED
  BY <1>1, <1>2, Invariance, PTL DEF Spec, ImplementsLifecycle, Lifecycle!Spec

=============================================================================
