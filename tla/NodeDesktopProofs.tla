------------------------- MODULE NodeDesktopProofs -------------------------
(***************************************************************************)
(* Proofs about the desktop and its Nodes, for any number of starts, any   *)
(* number of reconnections and any capacities of the channels.             *)
(*                                                                         *)
(* OnlyHeldNodeRuns and RunningMeansUp are not inductive: what a start or  *)
(* a stop finds depends on what the call before left behind.  Held says    *)
(* what the application holds in each of its states, Handed who has the    *)
(* handler's end of a channel, and Replaced what a recovery has done.      *)
(***************************************************************************)
EXTENDS NodeDesktop, TLAPS

\* The two flags of a Node change together.
FlagsAgree == running = up

\* What the application holds in each of its states.
Held ==
    /\ lifecycle = "Starting" => node = NoNode /\ begun \in Starts
    /\ lifecycle = "Stopping" => node \in Starts /\ ~up[node]
    /\ lifecycle = "Running" => node \in Starts /\ up[node]
    /\ lifecycle \in {"Stopped", "Failed"} => node = NoNode
    /\ node <= begun
    /\ \A i \in Starts :
          up[i] => i = node \/ (lifecycle = "Starting" /\ i = begun)

\* Only a start in progress has a channel's end that no handler has yet.
Handed ==
    \A i \in Starts :
       hp[i] = "held" => up[i] /\ lifecycle = "Starting" /\ i = begun

\* A recovery about to start has left the Node it saw behind.
Replaced ==
    /\ seen <= begun
    /\ rpc = "start" /\ seen # NoNode =>
          node # seen /\ (lifecycle = "Starting" => begun # seen)

\* A loop that ends, or has ended, was stopped or has given up.
EndedWithReason ==
    \A i \in Starts :
       /\ lpc[i] \in {"ending", "gone"} => ~running[i] \/ attempts[i] > MaxAttempts
       /\ Alive(i) /\ lpc[i] # "ending" => attempts[i] <= MaxAttempts
       /\ lpc[i] = "none" <=> i > begun
       /\ lpc[i] = "none" => ~running[i] /\ attempts[i] = 0

DesktopInv ==
    /\ TypeOK
    /\ FlagsAgree
    /\ Held
    /\ Handed
    /\ Replaced
    /\ EndedWithReason
    /\ RestIsDisconnected

-----------------------------------------------------------------------------
\* Starts are numbered, and none is the "none" value.
LEMMA StartsAreNumbers == Starts \subseteq Nat \ {0} /\ NoNode \notin Starts
BY LinkAssumption DEF Starts, NoNode

\* The initial state satisfies the invariant.
LEMMA InitDesktop == Init => DesktopInv
BY LinkAssumption
   DEF Init, LinkInit, DesktopInv, TypeOK, LinkTypeOK, FlagsAgree, Held, Handed,
       Replaced, EndedWithReason, RestIsDisconnected, Alive, Starts, NoNode,
       States, Callers

-----------------------------------------------------------------------------
(* Steps of a loop, a handler or the network: the flags stay, so the       *)
(* application's part of the invariant does.                               *)

\* A step of the i-th Node that leaves the flags alone, and takes no channel's
\* end back, keeps what the invariant says of the application.
LEMMA ApplicationKept ==
    ASSUME DesktopInv, UNCHANGED deskVars, UNCHANGED <<begun, up, running>>,
           \A j \in Starts : hp'[j] = "held" => hp[j] = "held"
    PROVE  FlagsAgree' /\ Held' /\ Handed' /\ Replaced'
BY DEF DesktopInv, deskVars, FlagsAgree, Held, Handed, Replaced

\* A step of one connection loop or handler keeps the types.
LEMMA LinkStepTyped ==
    ASSUME DesktopInv, UNCHANGED deskVars, NEW i \in Starts,
           \/ LoopStep(i) \/ HandlerStep(i)
           \/ Receive(i) \/ Report(i) \/ SocketDies(i)
    PROVE  /\ TypeOK' /\ EndedWithReason' /\ RestIsDisconnected'
           /\ UNCHANGED <<begun, up, running>>
           /\ \A j \in Starts : hp'[j] = "held" => hp[j] = "held"
<1> USE LinkAssumption, StartsAreNumbers
    DEF DesktopInv, TypeOK, LinkTypeOK, EndedWithReason, RestIsDisconnected,
        Alive, States, deskVars, flagVars, loopVars, chanVars
<1>1. CASE LoopTop(i)
  BY <1>1 DEF LoopTop
<1>2. CASE Retry(i)
  BY <1>2 DEF Retry
<1>3. CASE LoopEnds(i)
  BY <1>3 DEF LoopEnds
<1>4. CASE Connect(i)
  BY <1>4 DEF Connect
<1>5. CASE ConnectFails(i)
  BY <1>5 DEF ConnectFails, EndWithError, Hangs
<1>6. CASE SelectStops(i)
  BY <1>6 DEF SelectStops, EndNormally, Hangs
<1>7. CASE Forward(i)
  BY <1>7 DEF Forward
<1>8. CASE ForwardFails(i)
  BY <1>8 DEF ForwardFails, EndNormally, Hangs
<1>9. CASE StreamEnds(i)
  <2>1. /\ lpc[i] = "select"
        /\ UNCHANGED <<flagVars, chanVars>>
        /\ EndNormally(i) \/ EndWithError(i)
    BY <1>9 DEF StreamEnds
  <2>2. CASE EndNormally(i)
    BY <2>1, <2>2 DEF EndNormally, Hangs
  <2>3. CASE EndWithError(i)
    BY <2>1, <2>3 DEF EndWithError, Hangs
  <2> QED
    BY <2>1, <2>2, <2>3
<1>10. CASE SocketError(i)
  BY <1>10 DEF SocketError, EndNormally, Hangs
<1>11. CASE OutboundClosed(i)
  BY <1>11 DEF OutboundClosed, EndNormally, Hangs
<1>12. CASE Handle(i) \/ HandlerSends(i)
  BY <1>12 DEF Handle, HandlerSends, Look
<1>13. CASE HandlerEnds(i)
  BY <1>13 DEF HandlerEnds
<1>14. CASE Receive(i)
  BY <1>14 DEF Receive
<1>15. CASE SocketDies(i)
  BY <1>15 DEF SocketDies
<1>16. CASE SendOutbound(i) \/ Report(i)
  BY <1>16 DEF SendOutbound, Report
<1> QED
  BY <1>1, <1>2, <1>3, <1>4, <1>5, <1>6, <1>7, <1>8, <1>9, <1>10, <1>11,
     <1>12, <1>13, <1>14, <1>15, <1>16
  DEF LoopStep, HandlerStep

\* Every step of the links keeps the invariant.
LEMMA LinkNextDesktop ==
    ASSUME DesktopInv, LinkNext, UNCHANGED deskVars
    PROVE  DesktopInv'
<1>1. CASE HubChanges
  <2>1. TypeOK' /\ EndedWithReason' /\ RestIsDisconnected'
    BY <1>1 DEF HubChanges, DesktopInv, TypeOK, LinkTypeOK, EndedWithReason,
                RestIsDisconnected, Alive, deskVars, chanVars
  <2>2. FlagsAgree' /\ Held' /\ Handed' /\ Replaced'
    BY <1>1, ApplicationKept DEF HubChanges, chanVars
  <2> QED
    BY <2>1, <2>2 DEF DesktopInv
<1>2. ASSUME NEW i \in Starts,
             \/ LoopStep(i) \/ HandlerStep(i)
             \/ Receive(i) \/ Report(i) \/ SocketDies(i)
      PROVE  DesktopInv'
  BY <1>2, LinkStepTyped, ApplicationKept DEF DesktopInv
<1> QED
  BY <1>1, <1>2 DEF LinkNext

-----------------------------------------------------------------------------
(* Steps of the application                                                *)

\* Every step of start_node, stop_node and recover_connection keeps the
\* invariant.
LEMMA DeskNextDesktop ==
    ASSUME DesktopInv,
           \/ \E w \in Callers : \/ StartNode(w) \/ NewFails(w)
                                 \/ StopNode(w) \/ StopNodeNone(w)
           \/ StartNodeRunning \/ CallStep \/ Recover
    PROVE  DesktopInv'
<1> USE LinkAssumption, StartsAreNumbers
    DEF DesktopInv, TypeOK, LinkTypeOK, FlagsAgree, Held, Handed, Replaced,
        EndedWithReason, RestIsDisconnected, Alive, States, Callers, NoNode,
        deskVars, flagVars, loopVars, chanVars
<1>1. ASSUME NEW w \in Callers, StartNode(w)
      PROVE  DesktopInv'
  <2>1. /\ node = NoNode /\ lifecycle \in {"Stopped", "Failed"}
        /\ begun + 1 \in Starts /\ begun' = begun + 1
    BY <1>1 DEF StartNode, NodeStart, Calls
  <2>2. TypeOK'
    BY <1>1, <2>1 DEF StartNode, NodeStart, Calls, Starts
  <2>3. FlagsAgree' /\ Held'
    BY <1>1, <2>1 DEF StartNode, NodeStart, Calls
  <2>4. Handed' /\ Replaced'
    BY <1>1, <2>1 DEF StartNode, NodeStart, Calls
  <2>5. EndedWithReason' /\ RestIsDisconnected'
    BY <1>1, <2>1 DEF StartNode, NodeStart, Starts
  <2> QED
    BY <2>2, <2>3, <2>4, <2>5
<1>2. ASSUME NEW w \in Callers, NewFails(w)
      PROVE  DesktopInv'
  BY <1>2 DEF NewFails, Calls, Returns, linkVars
<1>3. ASSUME NEW w \in Callers, StopNode(w)
      PROVE  DesktopInv'
  BY <1>3 DEF StopNode, NodeStop, Calls
<1>4. ASSUME NEW w \in Callers, StopNodeNone(w)
      PROVE  DesktopInv'
  BY <1>4 DEF StopNodeNone, Calls, Returns, linkVars
<1>5. CASE StartNodeRunning
  BY <1>5 DEF StartNodeRunning, Calls, Returns, linkVars
<1>6. CASE StartNodeDone
  BY <1>6 DEF StartNodeDone, NodeStarted, Returns
<1>7. CASE StartNodeFails
  BY <1>7 DEF StartNodeFails, NodeStartFails
<1>8. CASE StartNodeFailed
  BY <1>8 DEF StartNodeFailed, NodeStopped, Returns
<1>9. CASE StopNodeDone
  BY <1>9 DEF StopNodeDone, NodeStopped, Returns
<1>10. CASE Recover
  BY <1>10 DEF Recover, linkVars
<1> QED
  BY <1>1, <1>2, <1>3, <1>4, <1>5, <1>6, <1>7, <1>8, <1>9, <1>10 DEF CallStep

\* Every step of the application and its links keeps the invariant.
LEMMA NextDesktop == DesktopInv /\ [Next]_vars => DesktopInv'
<1> SUFFICES ASSUME DesktopInv, [Next]_vars
             PROVE  DesktopInv'
  OBVIOUS
<1>1. CASE LinkNext /\ UNCHANGED deskVars
  BY <1>1, LinkNextDesktop
<1>2. CASE UNCHANGED vars
  BY <1>2 DEF vars, linkVars, flagVars, loopVars, chanVars, deskVars,
              DesktopInv, TypeOK, LinkTypeOK, FlagsAgree, Held, Handed, Replaced, EndedWithReason,
              RestIsDisconnected, Alive
<1>3. CASE \/ \E w \in Callers : \/ StartNode(w) \/ NewFails(w)
                                 \/ StopNode(w) \/ StopNodeNone(w)
           \/ StartNodeRunning \/ CallStep \/ Recover
  BY <1>3, DeskNextDesktop
<1> QED
  BY <1>1, <1>2, <1>3 DEF Next

-----------------------------------------------------------------------------
(* The theorems                                                            *)

\* The invariant holds in every reachable state, with any number of starts.
THEOREM DesktopInvariant == Spec => []DesktopInv
BY InitDesktop, NextDesktop, PTL DEF Spec

\* The types of the desktop's and the links' state; reconnect_attempts never
\* counts past max_reconnect_attempts + 1.
THEOREM DesktopTyped == Spec => []TypeOK
BY DesktopInvariant, PTL DEF DesktopInv

\* No Node runs behind the application's back.
THEOREM NoNodeAtLarge == Spec => []OnlyHeldNodeRuns
<1>1. DesktopInv => OnlyHeldNodeRuns
  BY DEF DesktopInv, FlagsAgree, Held, OnlyHeldNodeRuns
<1> QED
  BY <1>1, DesktopInvariant, PTL

\* The application says Running exactly when it holds a Node that is up.
THEOREM LifecycleIsTrue == Spec => []RunningMeansUp
<1>1. DesktopInv => RunningMeansUp
  <2> SUFFICES ASSUME DesktopInv, holder = "none"
               PROVE  lifecycle = "Running" <=>
                         node # NoNode /\ node \in {i \in Starts : up[i]}
    BY DEF RunningMeansUp
  <2>1. CASE lifecycle = "Running"
    BY <2>1, StartsAreNumbers DEF DesktopInv, Held
  <2>2. CASE lifecycle # "Running"
    BY <2>2 DEF DesktopInv, TypeOK, Held
  <2> QED
    BY <2>1, <2>2
<1> QED
  BY <1>1, DesktopInvariant, PTL

\* A loop that has ended shows as Disconnected.
THEOREM EndShowsDisconnected == Spec => []RestIsDisconnected
BY DesktopInvariant, PTL DEF DesktopInv

\* Only a loop that gave up leaves `running` set.
THEOREM OnlyGivenUpStaysRunning == Spec => []RunningUnlessGivenUp
<1>1. DesktopInv => RunningUnlessGivenUp
  BY DEF DesktopInv, TypeOK, LinkTypeOK, EndedWithReason, RunningUnlessGivenUp,
         Alive
<1> QED
  BY <1>1, DesktopInvariant, PTL

\* A recovery replaces, or takes down, the Node it found.
THEOREM RecoveryHolds == Spec => RecoveryReplaces
<1>1. DesktopInv /\ [Next]_vars =>
         [rpc = "start" /\ rpc' = "idle" => seen = NoNode \/ node' # seen]_vars
  <2> SUFFICES ASSUME DesktopInv, Next, rpc = "start", rpc' = "idle",
                      seen # NoNode
               PROVE  node' # seen
    OBVIOUS
  <2>1. node # seen /\ (lifecycle = "Starting" => begun # seen)
    BY DEF DesktopInv, Replaced
  <2>2. node' = node \/ (lifecycle = "Starting" /\ node' = begun)
        \/ lifecycle = "Stopping"
    BY DEF Next, StartNode, NewFails, StopNode, StopNodeNone, StartNodeRunning,
           CallStep, StartNodeDone, StartNodeFails, StartNodeFailed,
           StopNodeDone, Recover, deskVars
  <2>3. CASE lifecycle = "Stopping"
    BY <2>1, <2>3 DEF Next, StartNode, NewFails, StopNode, StopNodeNone,
           StartNodeRunning, CallStep, StartNodeDone, StartNodeFails,
           StartNodeFailed, StopNodeDone, Recover, deskVars, DesktopInv,
           TypeOK, Calls, Returns
  <2> QED
    BY <2>1, <2>2, <2>3
<1> QED
  BY <1>1, DesktopInvariant, PTL DEF Spec, RecoveryReplaces

=============================================================================
