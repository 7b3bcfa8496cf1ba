-------------------------- MODULE ApprovalsProofs --------------------------
(***************************************************************************)
(* Proofs about the approval manager, for any sets of requests, operators  *)
(* and connections and any numbers of approvals needed.                    *)
(*                                                                         *)
(* InOneMap only speaks of moments when nobody holds the lock of pending.  *)
(* Places says where a request is at every moment, in pending, on its way  *)
(* or in history, and Carriers who carries the one on its way: the holder  *)
(* of the lock.                                                            *)
(***************************************************************************)
EXTENDS Approvals, FiniteSetTheorems, TLAPS

\* The types the argument needs.
MapsTyped ==
    /\ pending \in [Ids -> Requests \cup {NoRequest}]
    /\ history \in [Ids -> Requests \cup {NoRequest}]
    /\ carried \in [Ids -> Requests \cup {NoRequest}]
    /\ askOf \in [Ids -> Asks \cup {NoAsk}]
    /\ hpc \in [Handlers -> {"idle", "creating", "listing", "storing"}]
    /\ hask \in [Handlers -> Asks \cup {NoAsk}]
    /\ \A h \in Handlers : hpc[h] = "creating" => hask[h] \in Asks
    /\ opc \in [Operators -> {"idle", "looked", "archiving", "unlisting",
                              "recorded", "sending", "refused"}]
    /\ oid \in [Operators -> Ids \cup {NoId}]
    /\ say \in [Operators -> {"approved", "rejected"}]
    /\ \A o \in Operators : opc[o] # "idle" => oid[o] \in Ids
    /\ jpc \in {"idle", "archiving"}
    /\ expired \subseteq Ids

\* A created request is in exactly one place, one not created in none.
Places ==
    \A r \in Ids :
       \/ /\ askOf[r] = NoAsk
          /\ pending[r] = NoRequest /\ carried[r] = NoRequest
          /\ history[r] = NoRequest
       \/ /\ askOf[r] # NoAsk
          /\ \/ /\ pending[r] # NoRequest /\ carried[r] = NoRequest
                /\ history[r] = NoRequest
             \/ /\ pending[r] = NoRequest /\ carried[r] # NoRequest
                /\ history[r] = NoRequest
             \/ /\ pending[r] = NoRequest /\ carried[r] = NoRequest
                /\ history[r] # NoRequest

\* Who carries a request holds the lock of pending.
Carriers ==
    /\ \A o \in Operators :
          /\ opc[o] \in {"archiving", "unlisting"} <=> plock = o
          /\ opc[o] = "archiving" => carried[oid[o]] # NoRequest
    /\ jpc = "archiving" <=> plock = Janitor
    /\ \A r \in Ids : carried[r] # NoRequest =>
          \/ plock = Janitor
          \/ \E o \in Operators : opc[o] = "archiving" /\ oid[o] = r

ApprovalsInv == MapsTyped /\ Places /\ Carriers

-----------------------------------------------------------------------------
\* The initial state satisfies the invariant.
LEMMA InitApprovals == Init => ApprovalsInv
BY ApprovalsAssumption DEF Init, ApprovalsInv, MapsTyped, Places, Carriers

\* What a decision leaves is a request.
LEMMA DecidedIsRequest ==
    ASSUME MapsTyped, NEW r \in Ids, NEW o \in Operators,
           pending[r] # NoRequest
    PROVE  Decided(r, o) \in Requests
BY DEF MapsTyped, Decided, Requests, Statuses

\* So is a new one.
LEMMA NewIsRequest ==
    ASSUME NEW n \in Levels
    PROVE  NewRequest(n) \in Requests
BY DEF NewRequest, Requests, Statuses

\* So is one whose status alone was changed.
LEMMA MarkedIsRequest ==
    ASSUME NEW req \in Requests, NEW st \in Statuses
    PROVE  [req EXCEPT !.status = st] \in Requests
BY DEF Requests

\* cancel_request and cleanup_expired keep the invariant.
LEMMA SweepApprovals ==
    ASSUME ApprovalsInv, NEW R \in SUBSET Ids, NEW st \in Statuses,
           \A r \in R : pending[r] # NoRequest, Sweep(R, st)
    PROVE  ApprovalsInv'
<1> USE ApprovalsAssumption, NoRequestAssumption
    DEF ApprovalsInv, MapsTyped, Places, Carriers, timeVars, handlerVars,
        operatorVars
<1>1. \A r \in R : [pending[r] EXCEPT !.status = st] \in Requests
  BY MarkedIsRequest
<1>2. \A r \in Ids :
         /\ carried'[r] = IF r \in R THEN [pending[r] EXCEPT !.status = st]
                          ELSE carried[r]
         /\ pending'[r] = IF r \in R THEN NoRequest ELSE pending[r]
  BY DEF Sweep
<1>3. MapsTyped'
  BY <1>1 DEF Sweep
<1>4. Places'
  BY <1>1, <1>2 DEF Sweep
<1>5. Carriers'
  BY <1>1, <1>2 DEF Sweep
<1> QED
  BY <1>3, <1>4, <1>5

\* cancel_request sweeps one request.
LEMMA CancelApprovals ==
    ASSUME ApprovalsInv, NEW r \in Ids, CancelRequest(r)
    PROVE  ApprovalsInv'
<1>1. /\ {r} \in SUBSET Ids /\ "Cancelled" \in Statuses
      /\ \A x \in {r} : pending[x] # NoRequest
      /\ Sweep({r}, "Cancelled")
  BY DEF CancelRequest, Statuses
<1> QED
  BY <1>1, SweepApprovals

\* cleanup_expired sweeps the expired ones.
LEMMA CleanupApprovals ==
    ASSUME ApprovalsInv, CleanupExpired
    PROVE  ApprovalsInv'
<1> DEFINE R == {r \in expired : pending[r] # NoRequest}
<1>1. /\ R \in SUBSET Ids /\ "TimedOut" \in Statuses
      /\ \A r \in R : pending[r] # NoRequest
  BY DEF ApprovalsInv, MapsTyped, Statuses
<1>2. Sweep(R, "TimedOut")
  BY DEF CleanupExpired
<1> HIDE DEF R
<1> QED
  BY <1>1, <1>2, SweepApprovals

\* Every step keeps the invariant.
LEMMA NextApprovals == ApprovalsInv /\ [Next]_vars => ApprovalsInv'
<1> SUFFICES ASSUME ApprovalsInv, [Next]_vars
             PROVE  ApprovalsInv'
  OBVIOUS
<1> USE ApprovalsAssumption, NoRequestAssumption
    DEF ApprovalsInv, MapsTyped, Places, Carriers, mapVars, timeVars,
        handlerVars, operatorVars
<1>1. ASSUME NEW h \in Handlers, NEW a \in Asks, CheckIdempotency(h, a)
      PROVE  ApprovalsInv'
  BY <1>1 DEF CheckIdempotency, TakeUp
<1>2. ASSUME NEW h \in Handlers, NEW n \in Levels, CreateRequest(h, n)
      PROVE  ApprovalsInv'
  <2> DEFINE r == CHOOSE r \in Ids : r \notin Created
  <2>1. r \in Ids /\ askOf[r] = NoAsk
    BY <1>2 DEF CreateRequest, Created
  <2>2. NewRequest(n) \in Requests
    BY NewIsRequest
  <2>3. /\ pending' = [pending EXCEPT ![r] = NewRequest(n)]
        /\ askOf' = [askOf EXCEPT ![r] = hask[h]]
        /\ hpc[h] = "creating" /\ hpc' = [hpc EXCEPT ![h] = "listing"]
        /\ UNCHANGED <<history, carried, plock, hask, operatorVars, jpc,
                        expired>>
    BY <1>2 DEF CreateRequest
  <2> HIDE DEF r
  <2>4. MapsTyped'
    BY <2>1, <2>2, <2>3
  <2>5. Places'
    BY <2>1, <2>2, <2>3
  <2>6. Carriers'
    BY <2>1, <2>2, <2>3
  <2> QED
    BY <2>4, <2>5, <2>6
<1>3. ASSUME NEW h \in Handlers, ListRequest(h)
      PROVE  ApprovalsInv'
  BY <1>3 DEF ListRequest
<1>4. ASSUME NEW h \in Handlers, StoreResponse(h)
      PROVE  ApprovalsInv'
  BY <1>4 DEF StoreResponse
<1>5. ASSUME NEW o \in Operators, NEW r \in Ids,
             NEW v \in {"approved", "rejected"}, LookUp(o, r, v)
      PROVE  ApprovalsInv'
  BY <1>5 DEF LookUp
<1>6. ASSUME NEW o \in Operators, DecisionRefused(o)
      PROVE  ApprovalsInv'
  BY <1>6 DEF DecisionRefused, Returns
<1>7. ASSUME NEW o \in Operators, Decide(o)
      PROVE  ApprovalsInv'
  <2> DEFINE r == oid[o]
             req == Decided(r, o)
  <2>1. r \in Ids /\ pending[r] # NoRequest /\ carried[r] = NoRequest
    BY <1>7 DEF Decide, Undecided
  <2>2. req \in Requests
    BY <2>1, DecidedIsRequest
  <2>3. /\ plock = Free /\ opc[o] = "looked"
        /\ UNCHANGED <<history, askOf, handlerVars, oid, say, jpc, expired>>
        /\ \/ /\ pending' = [pending EXCEPT ![r] = NoRequest]
              /\ carried' = [carried EXCEPT ![r] = req]
              /\ plock' = o
              /\ opc' = [opc EXCEPT ![o] = "archiving"]
           \/ /\ pending' = [pending EXCEPT ![r] = req]
              /\ opc' = [opc EXCEPT ![o] = "recorded"]
              /\ UNCHANGED <<carried, plock>>
    BY <1>7 DEF Decide
  <2> HIDE DEF req
  <2>4. MapsTyped'
    BY <2>1, <2>2, <2>3
  <2>5. Places'
    BY <2>1, <2>2, <2>3
  <2>6. Carriers'
    BY <2>1, <2>2, <2>3
  <2> QED
    BY <2>4, <2>5, <2>6
<1>8. ASSUME NEW o \in Operators, Archive(o)
      PROVE  ApprovalsInv'
  BY <1>8 DEF Archive
<1>9. ASSUME NEW o \in Operators, Unlist(o)
      PROVE  ApprovalsInv'
  BY <1>9 DEF Unlist
<1>10. ASSUME NEW o \in Operators, FindSender(o) \/ Notify(o) \/ SendFails(o)
      PROVE  ApprovalsInv'
  BY <1>10 DEF FindSender, Notify, SendFails, Returns
<1>11. ASSUME NEW r \in Ids, Passes(r)
      PROVE  ApprovalsInv'
  BY <1>11 DEF Passes
<1>12. ASSUME NEW r \in Ids, TimerFires(r)
      PROVE  ApprovalsInv'
  <2>1. /\ plock = Free
        /\ \/ pending[r] # NoRequest /\ plock' = Timer
              /\ pending' = [pending EXCEPT ![r].status = "TimedOut"]
           \/ UNCHANGED <<pending, plock>>
        /\ UNCHANGED <<history, carried, askOf, handlerVars, operatorVars, jpc,
                        expired>>
    BY <1>12 DEF TimerFires
  <2>2. pending[r] # NoRequest =>
           [pending[r] EXCEPT !.status = "TimedOut"] \in Requests
    <3> HIDE NoRequestAssumption, ApprovalsAssumption DEF Places, Carriers
    <3>1. pending[r] # NoRequest => pending[r] \in Requests
      OBVIOUS
    <3>2. "TimedOut" \in Statuses
      BY DEF Statuses
    <3> QED
      BY <3>1, <3>2, MarkedIsRequest
  <2>3. MapsTyped'
    BY <2>1, <2>2
  <2>4. Places'
    BY <2>1, <2>2
  <2>5. Carriers'
    BY <2>1
  <2> QED
    BY <2>3, <2>4, <2>5
<1>13. ASSUME NEW a \in Asks, Lapses(a)
      PROVE  ApprovalsInv'
  BY <1>13 DEF Lapses
<1>14. CASE SweepArchives
  BY <1>14 DEF SweepArchives
<1>15. CASE ListUser
  BY <1>15 DEF ListUser
<1>16. CASE ListUserReads \/ OutboxDrains
  BY <1>16 DEF ListUserReads, OutboxDrains
<1>o. CASE OutboxChanges
  <2>1. /\ UNCHANGED <<pending, history, carried, plock, askOf, hpc, hask, oid,
                        say, jpc, expired>>
        /\ opc' = opc \/ opc' = [o \in Operators |-> IF opc[o] = "sending"
                                                     THEN "refused" ELSE opc[o]]
    BY <1>o DEF OutboxChanges
  <2> QED
    BY <2>1
<1>17. CASE UNCHANGED vars
  BY <1>17 DEF vars
<1> HIDE DEF ApprovalsInv, MapsTyped, Places, Carriers, mapVars, timeVars,
             handlerVars, operatorVars
<1>18. ASSUME NEW r \in Ids, CancelRequest(r)
       PROVE  ApprovalsInv'
  BY <1>18, CancelApprovals
<1>19. CASE CleanupExpired
  BY <1>19, CleanupApprovals
<1>20. ASSUME NEW h \in Handlers, HandlerStep(h)
       PROVE  ApprovalsInv'
  BY <1>2, <1>3, <1>4, <1>20 DEF HandlerStep
<1>21. ASSUME NEW o \in Operators, OperatorStep(o)
       PROVE  ApprovalsInv'
  BY <1>6, <1>7, <1>8, <1>9, <1>10, <1>21 DEF OperatorStep
<1> QED
  BY <1>1, <1>5, <1>11, <1>12, <1>13, <1>14, <1>15, <1>16, <1>17, <1>18,
     <1>19, <1>20, <1>21, <1>o
  DEF Next

-----------------------------------------------------------------------------
\* The invariant of the manager: every created request is in pending, in the
\* hands of the holder of its lock, or in history.
THEOREM ApprovalsInvariant == Spec => []ApprovalsInv
BY InitApprovals, NextApprovals, PTL DEF Spec

\* Whoever can read the maps finds every created request in exactly one of
\* them: no approval disappears between its decision and its look-up.
THEOREM NoApprovalDisappears == Spec => []InOneMap
<1>1. ApprovalsInv => InOneMap
  <2> SUFFICES ASSUME ApprovalsInv, plock = Free, NEW r \in Created
               PROVE  (pending[r] = NoRequest) # (history[r] = NoRequest)
    BY DEF InOneMap
  <2>1. r \in Ids /\ askOf[r] # NoAsk
    BY DEF Created
  <2>2. carried[r] = NoRequest
    BY <2>1, ApprovalsAssumption DEF ApprovalsInv, Carriers
  <2> QED
    BY <2>1, <2>2 DEF ApprovalsInv, Places
<1> QED
  BY <1>1, ApprovalsInvariant, PTL

\* What is in history never changes, whoever decides, cancels or cleans up:
\* only a request that is carried is put there, and it is not there yet.
THEOREM DecisionsAreFinal == Spec => HistoryIsFinal
<1>1. ASSUME ApprovalsInv, [Next]_vars, NEW r \in Ids, history[r] # NoRequest
      PROVE  history'[r] = history[r]
  <2>1. carried[r] = NoRequest
    BY <1>1 DEF ApprovalsInv, Places
  <2>2. ASSUME NEW o \in Operators, Archive(o)
        PROVE  history'[r] = history[r]
    BY <1>1, <2>1, <2>2 DEF Archive, ApprovalsInv, MapsTyped, Carriers
  <2>3. CASE SweepArchives
    BY <1>1, <2>1, <2>3 DEF SweepArchives
  <2>4. CASE UNCHANGED history
    BY <2>4
  <2> QED
    BY <1>1, <2>2, <2>3, <2>4
    DEF Next, HandlerStep, OperatorStep, vars, mapVars, CheckIdempotency,
        CreateRequest, ListRequest, StoreResponse, LookUp, DecisionRefused,
        Decide, Unlist, FindSender, Notify, SendFails, Passes, TimerFires,
        CancelRequest, Lapses, CleanupExpired, Sweep, ListUser, ListUserReads,
        OutboxChanges, OutboxDrains
<1>2. ApprovalsInv /\ [Next]_vars =>
        [\A r \in Ids : history[r] # NoRequest => history'[r] = history[r]]_vars
  BY <1>1
<1> QED
  BY <1>2, ApprovalsInvariant, PTL DEF Spec, HistoryIsFinal

-----------------------------------------------------------------------------
(* Types.  A handler past the idempotency check remembers the node request *)
(* it serves, and past create_request the id it was given.                 *)

HandlersTyped ==
    \A h \in Handlers :
       /\ hpc[h] # "idle" => hask[h] \in Asks
       /\ hpc[h] \in {"listing", "storing"} => hid[h] \in Ids

PlockTyped == plock \in Operators \cup {Janitor, Timer, Free}

Rest ==
    /\ listed \subseteq Ids
    /\ ulock \in {Lister, Free}
    /\ timer \subseteq Ids /\ due \subseteq Ids /\ expired \subseteq due
    /\ records \subseteq Asks /\ lapsed \subseteq Asks
    /\ delivered \in [Asks -> 0 .. Deliveries]
    /\ raced \subseteq Asks
    /\ hid \in [Handlers -> Ids \cup {NoId}]
    /\ lpc \in {"idle", "reading"}
    /\ outbox \in {"none", "room", "full", "stuck"}
    /\ told \in [Ids -> Seq({"approved", "rejected"})]

RestTyped == HandlersTyped /\ PlockTyped /\ Rest

\* The initial state has these types.
LEMMA InitTypes == Init => RestTyped
<1> SUFFICES ASSUME Init PROVE RestTyped
  OBVIOUS
<1>1. told \in [Ids -> Seq({"approved", "rejected"})]
  <2>1. <<>> \in Seq({"approved", "rejected"})
    OBVIOUS
  <2> QED
    BY <2>1 DEF Init
<1>2. delivered \in [Asks -> 0 .. Deliveries]
  BY ApprovalsAssumption DEF Init
<1>3. HandlersTyped /\ PlockTyped
  BY DEF Init, HandlersTyped, PlockTyped
<1>4. hid \in [Handlers -> Ids \cup {NoId}]
  BY DEF Init
<1> QED
  BY <1>1, <1>2, <1>3, <1>4 DEF Init, RestTyped, Rest

\* create_request gives its handler the id of a request, ListRequest lists
\* that id, StoreResponse stores the node request it was made for, and
\* notify_node_approval_decision adds a decision to what the node was told.
LEMMA HandlerTypes ==
    ASSUME ApprovalsInv, RestTyped, NEW h \in Handlers, HandlerStep(h)
    PROVE  RestTyped'
<1> USE DEF RestTyped, HandlersTyped, PlockTyped, Rest, mapVars, timeVars,
            operatorVars, nodeVars
<1>1. hpc \in [Handlers -> {"idle", "creating", "listing", "storing"}]
      /\ hask \in [Handlers -> Asks \cup {NoAsk}]
  BY DEF ApprovalsInv, MapsTyped
<1>2. ASSUME NEW n \in Levels, CreateRequest(h, n) PROVE RestTyped'
  <2> DEFINE r == CHOOSE r \in Ids : r \notin Created
  <2>1. r \in Ids
    BY <1>2 DEF CreateRequest, Created
  <2> HIDE DEF r
  <2>2. hid' = [hid EXCEPT ![h] = r] /\ hpc[h] = "creating"
    BY <1>2 DEF CreateRequest, r
  <2> QED
    BY <1>1, <1>2, <2>1, <2>2 DEF CreateRequest
<1>3. CASE ListRequest(h)
  BY <1>1, <1>3 DEF ListRequest
<1>4. CASE StoreResponse(h)
  BY <1>1, <1>4 DEF StoreResponse
<1> QED
  BY <1>2, <1>3, <1>4 DEF HandlerStep

\* The steps of decide_approval keep the types.
LEMMA OperatorTypes ==
    ASSUME ApprovalsInv, RestTyped, NEW o \in Operators, OperatorStep(o)
    PROVE  RestTyped'
<1> USE DEF RestTyped, HandlersTyped, PlockTyped, Rest, mapVars, timeVars,
            handlerVars, nodeVars
<1>1. CASE DecisionRefused(o)
  BY <1>1 DEF DecisionRefused
<1>2. CASE Decide(o)
  <2>1. plock' = o \/ plock' = plock
    BY <1>2 DEF Decide
  <2> QED
    BY <1>2, <2>1 DEF Decide
<1>3. CASE Archive(o)
  BY <1>3 DEF Archive
<1>4. CASE Unlist(o)
  BY <1>4 DEF Unlist
<1>5. CASE Notify(o)
  <2>1. say[o] \in {"approved", "rejected"} /\ oid[o] \in Ids
    BY <1>5 DEF Notify, ApprovalsInv, MapsTyped
  <2>2. Append(told[oid[o]], say[o]) \in Seq({"approved", "rejected"})
    BY <2>1
  <2>3. told' \in [Ids -> Seq({"approved", "rejected"})]
    BY <1>5, <2>1, <2>2 DEF Notify
  <2> QED
    BY <1>5, <2>3 DEF Notify
<1>6. CASE FindSender(o) \/ SendFails(o)
  BY <1>6 DEF FindSender, SendFails
<1> QED
  BY <1>1, <1>2, <1>3, <1>4, <1>5, <1>6 DEF OperatorStep

\* Every step keeps the types.
LEMMA NextTypes == ApprovalsInv /\ RestTyped /\ [Next]_vars => RestTyped'
<1> SUFFICES ASSUME ApprovalsInv, RestTyped, [Next]_vars
             PROVE  RestTyped'
  OBVIOUS
<1>1. ASSUME NEW h \in Handlers, HandlerStep(h) PROVE RestTyped'
  BY <1>1, HandlerTypes
<1>2. ASSUME NEW o \in Operators, OperatorStep(o) PROVE RestTyped'
  BY <1>2, OperatorTypes
<1> USE DEF RestTyped, HandlersTyped, PlockTyped, Rest, mapVars, timeVars,
            handlerVars, operatorVars, nodeVars
<1>3. ASSUME NEW h \in Handlers, NEW a \in Asks, CheckIdempotency(h, a)
      PROVE  RestTyped'
  <2>1. delivered' \in [Asks -> 0 .. Deliveries]
    BY <1>3, ApprovalsAssumption DEF CheckIdempotency
  <2>2. hpc \in [Handlers -> {"idle", "creating", "listing", "storing"}]
        /\ hask \in [Handlers -> Asks \cup {NoAsk}]
    BY DEF ApprovalsInv, MapsTyped
  <2> QED
    BY <1>3, <2>1, <2>2 DEF CheckIdempotency, TakeUp
<1>4. ASSUME NEW o \in Operators, NEW r \in Ids,
             NEW v \in {"approved", "rejected"}, LookUp(o, r, v)
      PROVE  RestTyped'
  BY <1>4 DEF LookUp
<1>5. ASSUME NEW r \in Ids, Passes(r) PROVE RestTyped'
  BY <1>5 DEF Passes
<1>6. ASSUME NEW r \in Ids, TimerFires(r) PROVE RestTyped'
  BY <1>6 DEF TimerFires
<1>7. ASSUME NEW R, NEW st, Sweep(R, st) PROVE RestTyped'
  BY <1>7 DEF Sweep
<1>8. ASSUME NEW a \in Asks, Lapses(a) PROVE RestTyped'
  BY <1>8 DEF Lapses
<1>9. CASE SweepArchives
  BY <1>9 DEF SweepArchives
<1>10. CASE ListUser \/ ListUserReads \/ OutboxChanges \/ OutboxDrains
  BY <1>10 DEF ListUser, ListUserReads, OutboxChanges, OutboxDrains
<1>11. CASE UNCHANGED vars
  BY <1>11 DEF vars
<1> HIDE DEF RestTyped
<1> QED
  BY <1>1, <1>2, <1>3, <1>4, <1>5, <1>6, <1>7, <1>8, <1>9, <1>10, <1>11
  DEF Next, CancelRequest, CleanupExpired

\* The approval manager, the idempotency cache and the operations on them keep
\* their types; whoever holds the lock of pending is past its removal from it.
THEOREM TypeCorrect == Spec => []TypeOK
<1>1. ApprovalsInv /\ RestTyped => TypeOK
  BY DEF ApprovalsInv, MapsTyped, Carriers, RestTyped, PlockTyped, Rest, TypeOK
<1> QED
  BY <1>1, InitTypes, NextTypes, ApprovalsInvariant, PTL DEF Spec

-----------------------------------------------------------------------------
(* One approval per node request.  From create_request on a node request   *)
(* is served by its handler until its record is in the cache, and from     *)
(* then on the cache knows it, until the record expires.  Two handlers     *)
(* that serve the same request at the same time make it a raced one.       *)

Serving(a) ==
    \E h \in Handlers : hpc[h] \in {"listing", "storing"} /\ hask[h] = a

Excused == lapsed \cup raced

Covered(r) ==
    askOf[r] \in Excused \/ askOf[r] \in records \/ Serving(askOf[r])

Remembered ==
    /\ \A r \in Created : Covered(r)
    /\ \A h \in Handlers :
          hpc[h] = "creating" /\ hask[h] \notin Excused =>
             hask[h] \notin records /\ \A r \in Created : askOf[r] # hask[h]
    /\ \A g, h \in Handlers :
          g # h /\ hpc[g] # "idle" /\ hpc[h] # "idle" /\ hask[g] = hask[h] =>
             hask[h] \in raced
    /\ OneApprovalPerAsk

HandlersOf ==
    /\ hpc \in [Handlers -> {"idle", "creating", "listing", "storing"}]
    /\ hask \in [Handlers -> Asks \cup {NoAsk}]
    /\ askOf \in [Ids -> Asks \cup {NoAsk}]

\* A step that leaves the handlers, the cache and the ids alone.
LEMMA CacheUntouched ==
    ASSUME Remembered, UNCHANGED <<askOf, records, lapsed, raced, hpc, hask>>
    PROVE  Remembered'
BY DEF Remembered, Covered, Created, Serving, Excused, OneApprovalPerAsk

\* An approval that is created is the first for its node request, or the
\* request is excused; its handler serves the request from now on.
LEMMA CreateRemembers ==
    ASSUME HandlersOf, HandlersTyped, Remembered, NEW h \in Handlers,
           NEW n \in Levels, CreateRequest(h, n)
    PROVE  Remembered'
<1> DEFINE r == CHOOSE r \in Ids : r \notin Created
           a == hask[h]
<1>1. r \in Ids /\ r \notin Created
  BY DEF CreateRequest, Created
<1>2. /\ hpc[h] = "creating" /\ askOf' = [askOf EXCEPT ![r] = a]
      /\ hpc' = [hpc EXCEPT ![h] = "listing"]
      /\ UNCHANGED <<records, lapsed, raced, hask>>
  BY DEF CreateRequest, timeVars
<1>3. a \in Asks /\ a # NoAsk
  BY <1>2, ApprovalsAssumption DEF HandlersTyped
<1> HIDE DEF r, a
<1>4. /\ askOf'[r] = a /\ \A x \in Ids \ {r} : askOf'[x] = askOf[x]
      /\ hpc'[h] = "listing" /\ \A g \in Handlers \ {h} : hpc'[g] = hpc[g]
      /\ hask'[h] = a /\ hask' = hask /\ Excused' = Excused
  BY <1>1, <1>2 DEF HandlersOf, Excused, a
<1>5. \A x \in Created' : x = r \/ (x \in Created /\ askOf'[x] = askOf[x])
  BY <1>4 DEF Created
<1>6. \A g \in Handlers : hpc[g] \in {"listing", "storing"} =>
         hpc'[g] \in {"listing", "storing"} /\ hask'[g] = hask[g]
  BY <1>2, <1>4
<1>7. a \notin Excused => \A x \in Created : askOf[x] # a
  BY <1>2 DEF Remembered, a
<1>8. ASSUME NEW x \in Created' PROVE Covered(x)'
  <2>1. CASE x = r
    BY <1>4, <2>1 DEF Covered, Serving
  <2>2. CASE x # r
    <3>1. Covered(x) /\ askOf'[x] = askOf[x]
      BY <1>5, <2>2 DEF Remembered
    <3> QED
      BY <1>2, <1>4, <1>6, <3>1 DEF Covered, Serving
  <2> QED
    BY <2>1, <2>2
<1>9. \A g \in Handlers :
         hpc'[g] = "creating" /\ hask'[g] \notin Excused' =>
            hask'[g] \notin records' /\ \A x \in Created' : askOf'[x] # hask'[g]
  <2> SUFFICES ASSUME NEW g \in Handlers, hpc'[g] = "creating",
                      hask[g] \notin Excused
               PROVE  hask[g] \notin records /\ \A x \in Created' : askOf'[x] # hask[g]
    BY <1>2, <1>4
  <2>1. g # h /\ hpc[g] = "creating"
    BY <1>4
  <2>2. hask[g] # a
    BY <1>2, <2>1 DEF Remembered, Excused, a
  <2> QED
    BY <1>4, <1>5, <2>1, <2>2 DEF Remembered
<1>10. \A f, g \in Handlers :
          f # g /\ hpc'[f] # "idle" /\ hpc'[g] # "idle" /\ hask'[f] = hask'[g] =>
             hask'[g] \in raced'
  BY <1>2, <1>4 DEF Remembered
<1>11. OneApprovalPerAsk'
  <2>1. ASSUME NEW x \in Created', NEW y \in Created', askOf'[x] \notin Excused,
               askOf'[y] = askOf'[x]
        PROVE  y = x
    BY <1>4, <1>5, <1>7, <2>1 DEF Remembered, OneApprovalPerAsk, Excused
  <2>2. ASSUME NEW x \in Created', NEW g \in Handlers, askOf'[x] \notin Excused,
               hpc'[g] = "creating"
        PROVE  hask'[g] # askOf'[x]
    BY <1>4, <1>9, <2>2
  <2> QED
    BY <1>4, <2>1, <2>2 DEF OneApprovalPerAsk, Excused
<1> QED
  BY <1>8, <1>9, <1>10, <1>11 DEF Remembered

\* A record that is stored covers the handler's node request; another handler
\* about to create an approval for it is in a race with this one.
LEMMA HandlerRemembers ==
    ASSUME HandlersOf, HandlersTyped, Remembered, NEW h \in Handlers,
           HandlerStep(h)
    PROVE  Remembered'
<1>1. ASSUME NEW n \in Levels, CreateRequest(h, n) PROVE Remembered'
  BY <1>1, CreateRemembers
<1>2. CASE ListRequest(h)
  <2>1. /\ hpc[h] = "listing" /\ hpc' = [hpc EXCEPT ![h] = "storing"]
        /\ UNCHANGED <<askOf, records, lapsed, raced, hask>>
    BY <1>2 DEF ListRequest
  <2>2. /\ \A g \in Handlers : /\ hpc'[g] = "creating" => hpc[g] = "creating"
                               /\ hpc'[g] # "idle" => hpc[g] # "idle"
        /\ \A g \in Handlers : hpc[g] \in {"listing", "storing"} =>
              hpc'[g] \in {"listing", "storing"}
        /\ Created' = Created /\ Excused' = Excused
    BY <2>1 DEF HandlersOf, Created, Excused
  <2>3. ASSUME NEW x \in Created' PROVE Covered(x)'
    <3>1. Covered(x)
      BY <2>2 DEF Remembered
    <3> QED
      BY <2>1, <2>2, <3>1 DEF Covered, Serving
  <2> QED
    BY <2>1, <2>2, <2>3 DEF Remembered, OneApprovalPerAsk, Excused
<1>3. CASE StoreResponse(h)
  <2> DEFINE a == hask[h]
  <2>1. /\ hpc[h] = "storing" /\ records' = records \cup {a}
        /\ hpc' = [hpc EXCEPT ![h] = "idle"]
        /\ hask' = [hask EXCEPT ![h] = NoAsk]
        /\ UNCHANGED <<askOf, lapsed, raced>>
    BY <1>3 DEF StoreResponse, timeVars
  <2> HIDE DEF a
  <2>2. /\ hpc'[h] = "idle" /\ Created' = Created /\ Excused' = Excused
        /\ \A g \in Handlers \ {h} : hpc'[g] = hpc[g] /\ hask'[g] = hask[g]
    BY <2>1 DEF HandlersOf, Created, Excused, a
  <2>3. ASSUME NEW x \in Created' PROVE Covered(x)'
    <3>1. Covered(x)
      BY <2>2 DEF Remembered
    <3> QED
      BY <2>1, <2>2, <3>1 DEF Covered, Serving, a
  <2>4. \A g \in Handlers :
           hpc'[g] = "creating" /\ hask'[g] \notin Excused' =>
              hask'[g] \notin records' /\ \A x \in Created' : askOf'[x] # hask'[g]
    <3> SUFFICES ASSUME NEW g \in Handlers, hpc'[g] = "creating",
                        hask'[g] \notin Excused
                 PROVE  /\ hask'[g] \notin records'
                        /\ \A x \in Created : askOf[x] # hask'[g]
      BY <2>1, <2>2
    <3>1. g # h /\ hpc[g] = "creating" /\ hask'[g] = hask[g]
      BY <2>2
    <3>2. hask[g] # a
      BY <2>1, <3>1 DEF Remembered, Excused, a
    <3> QED
      BY <2>1, <3>1, <3>2 DEF Remembered
  <2> QED
    BY <2>1, <2>2, <2>3, <2>4 DEF Remembered, OneApprovalPerAsk, Excused
<1> QED
  BY <1>1, <1>2, <1>3 DEF HandlerStep

\* A node request that is taken up is not in the cache: if nobody else serves
\* it, no approval was created for it since its last record expired.
LEMMA TakeUpRemembers ==
    ASSUME HandlersOf, Remembered, NEW h \in Handlers, NEW a \in Asks,
           hpc[h] = "idle", a \notin records, TakeUp(h, a),
           UNCHANGED <<askOf, records, lapsed>>
    PROVE  Remembered'
<1>1. /\ hpc'[h] = "creating" /\ hask'[h] = a /\ Created' = Created
      /\ \A g \in Handlers \ {h} : hpc'[g] = hpc[g] /\ hask'[g] = hask[g]
      /\ raced \subseteq raced' /\ Excused \subseteq Excused'
  BY DEF TakeUp, HandlersOf, Created, Excused
<1>2. a \notin raced' => \A g \in Handlers : hpc[g] # "idle" => hask[g] # a
  BY DEF TakeUp
<1>3. ASSUME NEW x \in Created' PROVE Covered(x)'
  <2>1. Covered(x)
    BY <1>1 DEF Remembered
  <2> QED
    BY <1>1, <2>1 DEF Covered, Serving
<1>4. a \notin Excused' => \A x \in Created : askOf[x] # a
  BY <1>1, <1>2 DEF Remembered, Covered, Serving, Excused
<1>5. \A g \in Handlers :
         hpc'[g] = "creating" /\ hask'[g] \notin Excused' =>
            hask'[g] \notin records' /\ \A x \in Created' : askOf'[x] # hask'[g]
  BY <1>1, <1>4 DEF Remembered
<1>6. \A f, g \in Handlers :
         f # g /\ hpc'[f] # "idle" /\ hpc'[g] # "idle" /\ hask'[f] = hask'[g] =>
            hask'[g] \in raced'
  BY <1>1, <1>2 DEF Remembered
<1>7. OneApprovalPerAsk'
  <2>1. \A x, y \in Created : askOf[x] \notin Excused' /\ askOf[y] = askOf[x] => y = x
    BY <1>1 DEF Remembered, OneApprovalPerAsk, Excused
  <2> QED
    BY <1>1, <1>5, <2>1 DEF OneApprovalPerAsk, Excused
<1> QED
  BY <1>3, <1>5, <1>6, <1>7 DEF Remembered

\* Every step keeps node requests remembered, for any number of connections.
LEMMA NextRemembers ==
    ApprovalsInv /\ RestTyped /\ Remembered /\ [Next]_vars => Remembered'
<1> SUFFICES ASSUME ApprovalsInv, RestTyped, Remembered, [Next]_vars
             PROVE  Remembered'
  OBVIOUS
<1>0. HandlersOf /\ HandlersTyped
  BY DEF ApprovalsInv, MapsTyped, HandlersOf, RestTyped
<1>1. ASSUME NEW h \in Handlers, HandlerStep(h) PROVE Remembered'
  BY <1>0, <1>1, HandlerRemembers
<1>2. ASSUME NEW h \in Handlers, NEW a \in Asks, CheckIdempotency(h, a)
      PROVE  Remembered'
  <2>1. hpc[h] = "idle" /\ UNCHANGED <<askOf, records, lapsed>>
    BY <1>2 DEF CheckIdempotency, timeVars
  <2>2. CASE a \in records
    <3>1. UNCHANGED <<raced, hpc, hask>>
      BY <1>2, <2>2 DEF CheckIdempotency
    <3> QED
      BY <2>1, <3>1, CacheUntouched
  <2>3. CASE a \notin records
    <3>1. TakeUp(h, a)
      BY <1>2, <2>3 DEF CheckIdempotency
    <3> QED
      BY <1>0, <2>1, <2>3, <3>1, TakeUpRemembers
  <2> QED
    BY <2>2, <2>3
<1>3. ASSUME NEW a \in Asks, Lapses(a) PROVE Remembered'
  BY <1>3
  DEF Lapses, Remembered, Covered, Created, Serving, Excused, OneApprovalPerAsk
<1>4. CASE UNCHANGED <<askOf, records, lapsed, raced, hpc, hask>>
  BY <1>4, CacheUntouched
<1> QED
  BY <1>1, <1>2, <1>3, <1>4
  DEF Next, OperatorStep, vars, timeVars, handlerVars, LookUp, DecisionRefused,
      Decide, Archive, Unlist, FindSender, Notify, SendFails, Passes,
      TimerFires, CancelRequest, CleanupExpired, Sweep, SweepArchives,
      ListUser, ListUserReads, OutboxChanges, OutboxDrains

\* On any number of connections, a node request becomes a second approval only
\* when its idempotency record has expired or two handlers served it at the
\* same time: the check of the cache and the record in it are two steps.
THEOREM OneApproval == Spec => []OneApprovalPerAsk
<1>1. Init => Remembered
  BY DEF Init, Remembered, Created, OneApprovalPerAsk
<1>2. Remembered => OneApprovalPerAsk
  BY DEF Remembered
<1> QED
  BY <1>1, <1>2, NextRemembers, InitTypes, NextTypes, ApprovalsInvariant, PTL
  DEF Spec

-----------------------------------------------------------------------------
(* What the node is told.  A request that needs one approval is completed  *)
(* by the first decision, whichever it is: from then on it has one         *)
(* operator who is to tell the node, or the node was told, and what is     *)
(* told is on record.                                                      *)

\* The record of a request, wherever it is.
RecordOf(r) == IF pending[r] # NoRequest THEN pending[r]
               ELSE IF carried[r] # NoRequest THEN carried[r] ELSE history[r]

\* The operator has recorded a decision on r and is to tell the node.
After(o, r) ==
    /\ opc[o] \in {"archiving", "unlisting", "recorded", "sending"}
    /\ oid[o] = r

\* The word agrees with the record, or came after the expiry.
Agrees(r, word, record) ==
    \/ word = "approved" /\ record.status = "Approved"
    \/ word = "rejected" /\ record.status = "Rejected"
    \/ r \in expired /\ record.status = "TimedOut"

Untold(r) == told[r] = <<>> /\ \A o \in Operators : ~After(o, r)

\* The decided request r has one operator who is to tell the node, or the node
\* was told once.
OneWord(r) ==
    /\ \A o, p \in Operators : After(o, r) /\ After(p, r) => o = p
    /\ \A o \in Operators :
          After(o, r) => told[r] = <<>> /\ Agrees(r, say[o], RecordOf(r))
    /\ told[r] # <<>> => Len(told[r]) = 1 /\ Agrees(r, told[r][1], RecordOf(r))

Undisturbed(r) == pending[r].yes = {} /\ pending[r].no = {} /\ Untold(r)

WordFor(r) ==
    /\ RecordOf(r) = NoRequest => Untold(r)
    /\ pending[r] # NoRequest /\ pending[r].need = 1 => Undisturbed(r)
    /\ RecordOf(r) # NoRequest /\ RecordOf(r).need = 1 => OneWord(r)

OneWordEach == \A r \in Ids : WordFor(r)

\* A step that leaves the record of r and what was told about it alone, and
\* gives it no further operator.
LEMMA WordUntouched ==
    ASSUME NEW r \in Ids, WordFor(r),
           pending'[r] = pending[r], RecordOf(r)' = RecordOf(r),
           told'[r] = told[r], expired \subseteq expired',
           \A o \in Operators : After(o, r)' => After(o, r) /\ say'[o] = say[o]
    PROVE  WordFor(r)'
<1>1. Untold(r) => Untold(r)'
  BY DEF Untold
<1>2. OneWord(r) => OneWord(r)'
  BY DEF OneWord, Agrees
<1> QED
  BY <1>1, <1>2 DEF WordFor, Undisturbed

\* A request nobody decided on agrees with whatever its record says.
LEMMA UntoldAgrees ==
    ASSUME NEW r \in Ids,
           told'[r] = <<>>, \A o \in Operators : ~After(o, r)'
    PROVE  Untold(r)' /\ OneWord(r)'
BY DEF Untold, OneWord

\* create_request starts with a request nobody decided on.
LEMMA CreateWord ==
    ASSUME ApprovalsInv, OneWordEach, NEW h \in Handlers, NEW n \in Levels,
           CreateRequest(h, n)
    PROVE  OneWordEach'
<1> DEFINE x == CHOOSE r \in Ids : r \notin Created
<1>1. x \in Ids /\ askOf[x] = NoAsk
  BY DEF CreateRequest, Created
<1> HIDE DEF x
<1>2. /\ pending' = [pending EXCEPT ![x] = NewRequest(n)]
      /\ UNCHANGED <<history, carried, told, expired, opc, oid, say>>
  BY DEF CreateRequest, x, timeVars, operatorVars, nodeVars
<1>3. /\ pending \in [Ids -> Requests \cup {NoRequest}]
      /\ NewRequest(n) \in Requests
  BY NewIsRequest DEF ApprovalsInv, MapsTyped
<1>4. ASSUME NEW r \in Ids PROVE WordFor(r)'
  <2>1. WordFor(r)
    BY DEF OneWordEach
  <2>2. \A o \in Operators : After(o, r)' = After(o, r)
    BY <1>2 DEF After
  <2>3. CASE r = x
    <3>1. RecordOf(r) = NoRequest
      BY <1>1, <2>3 DEF ApprovalsInv, Places, RecordOf
    <3>2. Untold(r)
      BY <2>1, <3>1 DEF WordFor
    <3>3. Untold(r)' /\ OneWord(r)'
      BY <1>2, <2>2, <3>2, UntoldAgrees DEF Untold
    <3>4. pending'[r] = NewRequest(n) /\ pending'[r].yes = {} /\ pending'[r].no = {}
      BY <1>1, <1>2, <1>3, <2>3 DEF NewRequest
    <3> QED
      BY <3>3, <3>4 DEF WordFor, Undisturbed
  <2>4. CASE r # x
    <3>1. pending'[r] = pending[r] /\ RecordOf(r)' = RecordOf(r)
      BY <1>1, <1>2, <1>3, <2>4 DEF RecordOf
    <3> QED
      BY <1>2, <2>1, <2>2, <3>1, WordUntouched
  <2> QED
    BY <2>3, <2>4
<1> QED
  BY <1>4 DEF OneWordEach

\* The expiry task, cancel_request and cleanup_expired change the status of
\* pending requests and may take them out of pending: one that needs one
\* approval was not decided on.
LEMMA MarkWord ==
    ASSUME NEW r \in Ids, WordFor(r), pending[r] # NoRequest,
           RecordOf(r)'.need = pending[r].need,
           RecordOf(r)' # NoRequest,
           pending'[r] # NoRequest =>
              /\ pending'[r].yes = pending[r].yes
              /\ pending'[r].no = pending[r].no
              /\ pending'[r].need = pending[r].need,
           UNCHANGED <<told, opc, oid>>
    PROVE  WordFor(r)'
<1>1. \A o \in Operators : After(o, r)' = After(o, r)
  BY DEF After
<1>2. CASE pending[r].need = 1
  <2>1. Undisturbed(r)
    BY <1>2 DEF WordFor
  <2>2. Untold(r)' /\ OneWord(r)'
    BY <1>1, <2>1, UntoldAgrees DEF Undisturbed, Untold
  <2> QED
    BY <2>1, <2>2 DEF WordFor, Undisturbed
<1>3. CASE pending[r].need # 1
  BY <1>3 DEF WordFor
<1> QED
  BY <1>2, <1>3

\* Changing the status of a request changes nothing else of it.
LEMMA MarkKeeps ==
    ASSUME NEW req \in Requests, NEW st \in Statuses
    PROVE  LET new == [req EXCEPT !.status = st]
           IN  /\ new \in Requests
               /\ new.need = req.need /\ new.yes = req.yes /\ new.no = req.no
BY DEF Requests

\* The expiry task of one request.
LEMMA TimerWord ==
    ASSUME ApprovalsInv, OneWordEach, NEW x \in Ids, TimerFires(x)
    PROVE  OneWordEach'
<1>1. pending \in [Ids -> Requests \cup {NoRequest}]
  BY DEF ApprovalsInv, MapsTyped
<1>2. UNCHANGED <<history, carried, told, expired, opc, oid, say>>
  BY DEF TimerFires, operatorVars, nodeVars
<1>3. ASSUME NEW r \in Ids PROVE WordFor(r)'
  <2>1. WordFor(r)
    BY DEF OneWordEach
  <2>2. CASE pending'[r] = pending[r]
    <3>1. RecordOf(r)' = RecordOf(r)
      BY <1>2, <2>2 DEF RecordOf
    <3>2. \A o \in Operators : After(o, r)' = After(o, r)
      BY <1>2 DEF After
    <3> QED
      BY <1>2, <2>1, <2>2, <3>1, <3>2, WordUntouched
  <2>3. CASE pending'[r] # pending[r]
    <3>1. /\ r = x /\ pending[r] # NoRequest
          /\ pending'[r] = [pending[r] EXCEPT !.status = "TimedOut"]
      BY <1>1, <2>3 DEF TimerFires
    <3>2. pending[r] \in Requests /\ "TimedOut" \in Statuses
      BY <1>1, <3>1 DEF Statuses
    <3>3. /\ pending'[r] \in Requests
          /\ pending'[r].need = pending[r].need
          /\ pending'[r].yes = pending[r].yes /\ pending'[r].no = pending[r].no
      BY <3>1, <3>2, MarkKeeps
    <3>4. pending'[r] # NoRequest /\ RecordOf(r)' = pending'[r]
      BY <3>3, NoRequestAssumption DEF RecordOf
    <3> QED
      BY <1>2, <2>1, <3>1, <3>3, <3>4, MarkWord
  <2> QED
    BY <2>2, <2>3
<1> QED
  BY <1>3 DEF OneWordEach

\* cancel_request and cleanup_expired.
LEMMA SweepWord ==
    ASSUME ApprovalsInv, OneWordEach, NEW R \in SUBSET Ids, NEW st \in Statuses,
           \A r \in R : pending[r] # NoRequest, Sweep(R, st)
    PROVE  OneWordEach'
<1>1. pending \in [Ids -> Requests \cup {NoRequest}]
  BY DEF ApprovalsInv, MapsTyped
<1>2. /\ UNCHANGED <<history, told, expired, opc, oid, say>>
      /\ \A r \in Ids :
            /\ carried'[r] = IF r \in R THEN [pending[r] EXCEPT !.status = st]
                             ELSE carried[r]
            /\ pending'[r] = IF r \in R THEN NoRequest ELSE pending[r]
  BY DEF Sweep, operatorVars, timeVars, nodeVars
<1>3. ASSUME NEW r \in Ids PROVE WordFor(r)'
  <2>1. WordFor(r)
    BY DEF OneWordEach
  <2>2. CASE r \notin R
    <3>1. pending'[r] = pending[r] /\ RecordOf(r)' = RecordOf(r)
      BY <1>2, <2>2 DEF RecordOf
    <3>2. \A o \in Operators : After(o, r)' = After(o, r)
      BY <1>2 DEF After
    <3> QED
      BY <1>2, <2>1, <3>1, <3>2, WordUntouched
  <2>3. CASE r \in R
    <3>1. pending[r] \in Requests /\ pending[r] # NoRequest
      BY <1>1, <2>3
    <3>2. pending'[r] = NoRequest /\ carried'[r] = [pending[r] EXCEPT !.status = st]
      BY <1>2, <2>3
    <3>3. carried'[r] \in Requests /\ carried'[r].need = pending[r].need
      BY <3>1, <3>2, MarkKeeps
    <3>4. RecordOf(r)' = carried'[r] /\ carried'[r] # NoRequest
      BY <3>2, <3>3, NoRequestAssumption DEF RecordOf
    <3> QED
      BY <1>2, <2>1, <3>1, <3>2, <3>3, <3>4, MarkWord
  <2> QED
    BY <2>2, <2>3
<1> QED
  BY <1>3 DEF OneWordEach

\* The first decision on a request that needs one approval completes it, and
\* its status says what the operator said.
LEMMA FirstDecision ==
    ASSUME NEW r \in Ids, NEW o \in Operators, say[o] \in {"approved", "rejected"},
           pending[r].need = 1, pending[r].yes = {}, pending[r].no = {}
    PROVE  Completed(Decided(r, o)) /\ Agrees(r, say[o], Decided(r, o))
<1>1. Cardinality({o}) = 1
  BY FS_Singleton
<1>2. CASE say[o] = "approved"
  <2>1. Decided(r, o).yes = {o} /\ Decided(r, o).no = {}
    BY <1>2 DEF Decided
  <2>2. Decided(r, o).need = 1
    BY DEF Decided
  <2>3. Decided(r, o).status = IF r \in expired THEN "TimedOut" ELSE "Approved"
    BY <1>1, <1>2 DEF Decided
  <2> QED
    BY <1>1, <1>2, <2>1, <2>2, <2>3 DEF Completed, Agrees
<1>3. CASE say[o] = "rejected"
  <2>1. Decided(r, o).no = {o}
    BY <1>3 DEF Decided
  <2>2. Decided(r, o).status = IF r \in expired THEN "TimedOut" ELSE "Rejected"
    BY <1>3 DEF Decided
  <2> QED
    BY <1>3, <2>1, <2>2 DEF Completed, Agrees
<1> QED
  BY <1>2, <1>3

\* approve_request and reject_request: the deciding operator becomes the one
\* who is to tell the node.
LEMMA DecideWord ==
    ASSUME ApprovalsInv, OneWordEach, NEW o \in Operators, Decide(o)
    PROVE  OneWordEach'
<1> DEFINE x == oid[o]
           req == Decided(x, o)
<1>1. /\ pending \in [Ids -> Requests \cup {NoRequest}]
      /\ carried \in [Ids -> Requests \cup {NoRequest}]
      /\ opc \in [Operators -> {"idle", "looked", "archiving", "unlisting",
                                "recorded", "sending", "refused"}]
      /\ say[o] \in {"approved", "rejected"}
      /\ x \in Ids /\ pending[x] # NoRequest
  BY DEF Decide, Undecided, ApprovalsInv, MapsTyped
<1>2. /\ opc[o] = "looked"
      /\ UNCHANGED <<history, told, expired, oid, say>>
      /\ IF Completed(req)
         THEN /\ pending' = [pending EXCEPT ![x] = NoRequest]
              /\ carried' = [carried EXCEPT ![x] = req]
              /\ opc' = [opc EXCEPT ![o] = "archiving"]
         ELSE /\ pending' = [pending EXCEPT ![x] = req]
              /\ carried' = carried
              /\ opc' = [opc EXCEPT ![o] = "recorded"]
  BY DEF Decide, timeVars, nodeVars
<1>3. req \in Requests /\ req # NoRequest /\ req.need = pending[x].need
  <2>1. req \in Requests
    BY <1>1, DecidedIsRequest DEF ApprovalsInv
  <2>2. req.need = pending[x].need
    BY DEF Decided
  <2> QED
    BY <2>1, <2>2, NoRequestAssumption
<1>4. \A p \in Operators \ {o} : opc'[p] = opc[p]
  BY <1>1, <1>2
<1>5. ASSUME NEW r \in Ids PROVE WordFor(r)'
  <2>1. WordFor(r)
    BY DEF OneWordEach
  <2>2. CASE r # x
    <3>1. pending'[r] = pending[r] /\ RecordOf(r)' = RecordOf(r)
      BY <1>1, <1>2, <2>2 DEF RecordOf
    <3>2. \A p \in Operators : After(p, r)' => After(p, r)
      BY <1>2, <1>4, <2>2 DEF After
    <3> QED
      BY <1>2, <2>1, <3>1, <3>2, WordUntouched
  <2>3. CASE r = x /\ pending[x].need # 1
    <3>1. RecordOf(r)' = req
      <4> HIDE DEF req
      <4> QED
        BY <1>1, <1>2, <1>3, <2>3 DEF RecordOf
    <3>2. pending'[r] \in {NoRequest, req}
      <4> HIDE DEF req
      <4> QED
        BY <1>1, <1>2, <2>3
    <3> HIDE DEF req
    <3> QED
      BY <1>3, <2>3, <3>1, <3>2 DEF WordFor
  <2>4. CASE r = x /\ pending[x].need = 1
    <3>1. pending[x].yes = {} /\ pending[x].no = {} /\ Untold(x)
      BY <1>1, <2>1, <2>4 DEF WordFor, Undisturbed
    <3>2. Completed(req) /\ Agrees(x, say[o], req)
      BY <1>1, <2>4, <3>1, FirstDecision
    <3> HIDE DEF req
    <3>3. pending'[r] = NoRequest /\ RecordOf(r)' = req
      BY <1>1, <1>2, <1>3, <2>4, <3>2 DEF RecordOf
    <3>4. \A p \in Operators : After(p, r)' => p = o
      BY <1>2, <1>4, <2>4, <3>1 DEF After, Untold
    <3>5. told'[r] = <<>> /\ say' = say /\ expired' = expired
      BY <1>2, <2>4, <3>1 DEF Untold
    <3>6. OneWord(r)'
      BY <2>4, <3>2, <3>3, <3>4, <3>5 DEF OneWord, Agrees
    <3> QED
      BY <1>3, <3>3, <3>6 DEF WordFor
  <2> QED
    BY <2>2, <2>3, <2>4
<1> QED
  BY <1>5 DEF OneWordEach

\* decide_approval tells the node what the operator said, once.
LEMMA NotifyWord ==
    ASSUME ApprovalsInv, OneWordEach, NEW o \in Operators, Notify(o),
           told \in [Ids -> Seq({"approved", "rejected"})]
    PROVE  OneWordEach'
<1> DEFINE x == oid[o]
<1>1. /\ opc \in [Operators -> {"idle", "looked", "archiving", "unlisting",
                                "recorded", "sending", "refused"}]
      /\ oid \in [Operators -> Ids \cup {NoId}]
      /\ say \in [Operators -> {"approved", "rejected"}]
      /\ x \in Ids /\ opc[o] = "sending"
  BY DEF Notify, ApprovalsInv, MapsTyped
<1>2. /\ UNCHANGED <<pending, carried, history, expired>>
      /\ opc'[o] = "idle"
      /\ \A p \in Operators \ {o} :
            opc'[p] = opc[p] /\ oid'[p] = oid[p] /\ say'[p] = say[p]
  BY <1>1 DEF Notify, Returns, mapVars, timeVars
<1>3. told' = [told EXCEPT ![x] = Append(@, say[o])]
  BY DEF Notify
<1>4. ASSUME NEW r \in Ids PROVE WordFor(r)'
  <2>1. WordFor(r)
    BY DEF OneWordEach
  <2>2. pending'[r] = pending[r] /\ RecordOf(r)' = RecordOf(r)
    BY <1>2 DEF RecordOf
  <2>3. \A p \in Operators :
           After(p, r)' => p # o /\ After(p, r) /\ say'[p] = say[p]
    BY <1>2 DEF After
  <2>4. CASE told'[r] = told[r]
    BY <1>2, <2>1, <2>2, <2>3, <2>4, WordUntouched
  <2>5. CASE told'[r] # told[r]
    <3>1. r = x /\ told'[r] = Append(told[r], say[o])
      BY <1>3, <2>5
    <3>2. After(o, r)
      BY <1>1, <3>1 DEF After
    <3>3. RecordOf(r) # NoRequest /\ (pending[r] # NoRequest => pending[r].need # 1)
      BY <2>1, <3>2 DEF WordFor, Undisturbed, Untold
    <3>4. CASE RecordOf(r).need = 1
      <4>1. OneWord(r)
        BY <2>1, <3>3, <3>4 DEF WordFor
      <4>2. told[r] = <<>> /\ Agrees(r, say[o], RecordOf(r))
        BY <3>2, <4>1 DEF OneWord
      <4>3. \A p \in Operators : ~After(p, r)'
        BY <2>3, <3>2, <4>1 DEF OneWord
      <4>4. Len(told'[r]) = 1 /\ told'[r][1] = say[o]
        BY <3>1, <4>2
      <4>5. OneWord(r)'
        BY <1>2, <2>2, <4>2, <4>3, <4>4 DEF OneWord, Agrees
      <4> QED
        BY <2>2, <3>3, <4>5 DEF WordFor
    <3>5. CASE RecordOf(r).need # 1
      BY <2>2, <3>3, <3>5 DEF WordFor
    <3> QED
      BY <3>4, <3>5
  <2> QED
    BY <2>4, <2>5
<1> QED
  BY <1>4 DEF OneWordEach

\* Archiving moves a record without changing it.
LEMMA ArchiveWord ==
    ASSUME ApprovalsInv, OneWordEach, SweepArchives \/ \E o \in Operators : Archive(o)
    PROVE  OneWordEach'
<1>1. ASSUME NEW r \in Ids PROVE WordFor(r)'
  <2>1. WordFor(r)
    BY DEF OneWordEach
  <2>2. /\ pending[r] = NoRequest \/ carried[r] = NoRequest
        /\ pending' = pending /\ told' = told /\ expired' = expired
        /\ oid' = oid /\ say' = say
    BY DEF Archive, SweepArchives, ApprovalsInv, Places, timeVars,
           operatorVars, nodeVars
  <2>3. RecordOf(r)' = RecordOf(r)
    <3>1. CASE SweepArchives
      BY <2>2, <3>1 DEF SweepArchives, RecordOf, ApprovalsInv, MapsTyped
    <3>2. ASSUME NEW o \in Operators, Archive(o) PROVE RecordOf(r)' = RecordOf(r)
      BY <2>2, <3>2 DEF Archive, RecordOf, ApprovalsInv, MapsTyped, Places, Carriers
    <3> QED
      BY <3>1, <3>2
  <2>4. \A p \in Operators : After(p, r)' => After(p, r)
    BY <2>2 DEF Archive, SweepArchives, After, operatorVars, ApprovalsInv, MapsTyped
  <2> QED
    BY <2>1, <2>2, <2>3, <2>4, WordUntouched
<1> QED
  BY <1>1 DEF OneWordEach

\* The steps that touch neither a record nor what was told about it.
LEMMA OtherWord ==
    ASSUME OneWordEach, UNCHANGED <<mapVars, told>>, expired \subseteq expired',
           \A o \in Operators, r \in Ids :
              After(o, r)' => After(o, r) /\ say'[o] = say[o]
    PROVE  OneWordEach'
<1>1. \A r \in Ids : pending'[r] = pending[r] /\ RecordOf(r)' = RecordOf(r)
                     /\ told'[r] = told[r]
  BY DEF RecordOf, mapVars
<1> QED
  BY <1>1, WordUntouched DEF OneWordEach

\* Every step keeps what is told in agreement with the record.
LEMMA NextWord ==
    ApprovalsInv /\ RestTyped /\ OneWordEach /\ [Next]_vars => OneWordEach'
<1> SUFFICES ASSUME ApprovalsInv, RestTyped, OneWordEach, [Next]_vars
             PROVE  OneWordEach'
  OBVIOUS
<1>1. ASSUME NEW h \in Handlers, NEW n \in Levels, CreateRequest(h, n)
      PROVE  OneWordEach'
  BY <1>1, CreateWord
<1>2. ASSUME NEW r \in Ids, TimerFires(r) PROVE OneWordEach'
  BY <1>2, TimerWord
<1>3. ASSUME NEW r \in Ids, CancelRequest(r) PROVE OneWordEach'
  <2>1. /\ {r} \in SUBSET Ids /\ "Cancelled" \in Statuses
        /\ \A x \in {r} : pending[x] # NoRequest
        /\ Sweep({r}, "Cancelled")
    BY <1>3 DEF CancelRequest, Statuses
  <2> QED
    BY <2>1, SweepWord
<1>4. CASE CleanupExpired
  <2> DEFINE R == {r \in expired : pending[r] # NoRequest}
  <2>1. /\ R \in SUBSET Ids /\ "TimedOut" \in Statuses
        /\ \A r \in R : pending[r] # NoRequest
    BY DEF ApprovalsInv, MapsTyped, Statuses
  <2>2. Sweep(R, "TimedOut")
    BY <1>4 DEF CleanupExpired
  <2> HIDE DEF R
  <2> QED
    BY <2>1, <2>2, SweepWord
<1>5. ASSUME NEW o \in Operators, Decide(o) PROVE OneWordEach'
  BY <1>5, DecideWord
<1>6. ASSUME NEW o \in Operators, Notify(o) PROVE OneWordEach'
  BY <1>6, NotifyWord DEF RestTyped, Rest
<1>7. CASE SweepArchives \/ \E o \in Operators : Archive(o)
  BY <1>7, ArchiveWord
<1>8. ASSUME NEW o \in Operators,
             \/ \E r \in Ids, v \in {"approved", "rejected"} : LookUp(o, r, v)
             \/ DecisionRefused(o) \/ Unlist(o) \/ FindSender(o) \/ SendFails(o)
      PROVE  OneWordEach'
  <2>1. /\ opc \in [Operators -> {"idle", "looked", "archiving", "unlisting",
                                  "recorded", "sending", "refused"}]
        /\ oid \in [Operators -> Ids \cup {NoId}]
        /\ say \in [Operators -> {"approved", "rejected"}]
    BY DEF ApprovalsInv, MapsTyped
  <2>2. \A p \in Operators, r \in Ids :
           After(p, r)' => After(p, r) /\ say'[p] = say[p]
    BY <1>8, <2>1
    DEF LookUp, DecisionRefused, Unlist, FindSender, SendFails, Returns, After
  <2>3. UNCHANGED <<mapVars, told, expired>>
    BY <1>8
    DEF LookUp, DecisionRefused, Unlist, FindSender, SendFails, timeVars, nodeVars
  <2> QED
    BY <2>2, <2>3, OtherWord
<1>9. ASSUME UNCHANGED <<mapVars, told, operatorVars>>, expired \subseteq expired'
      PROVE  OneWordEach'
  BY <1>9, OtherWord DEF operatorVars, After
<1>10. ASSUME NEW h \in Handlers, NEW a \in Asks, CheckIdempotency(h, a)
       PROVE  OneWordEach'
  BY <1>9, <1>10 DEF CheckIdempotency, timeVars, nodeVars
<1>11. ASSUME NEW h \in Handlers, ListRequest(h) \/ StoreResponse(h)
       PROVE  OneWordEach'
  BY <1>9, <1>11 DEF ListRequest, StoreResponse, timeVars, nodeVars
<1>12. ASSUME NEW r \in Ids, Passes(r) PROVE OneWordEach'
  BY <1>9, <1>12 DEF Passes, nodeVars
<1>13. ASSUME NEW a \in Asks, Lapses(a) PROVE OneWordEach'
  BY <1>9, <1>13 DEF Lapses, nodeVars
<1>14. CASE ListUser \/ ListUserReads \/ OutboxDrains \/ UNCHANGED vars
  BY <1>9, <1>14
  DEF ListUser, ListUserReads, OutboxDrains, vars, mapVars, operatorVars,
      timeVars, nodeVars
<1>15. CASE OutboxChanges
  <2>1. /\ UNCHANGED <<mapVars, told, expired, oid, say>>
        /\ opc' = opc \/ opc' = [o \in Operators |-> IF opc[o] = "sending"
                                                     THEN "refused" ELSE opc[o]]
    BY <1>15 DEF OutboxChanges, timeVars
  <2>2. \A p \in Operators, r \in Ids :
           After(p, r)' => After(p, r) /\ say'[p] = say[p]
    BY <2>1 DEF After
  <2> QED
    BY <2>1, <2>2, OtherWord
<1> QED
  BY <1>1, <1>2, <1>3, <1>4, <1>5, <1>6, <1>7, <1>8, <1>10, <1>11, <1>12,
     <1>13, <1>14, <1>15
  DEF Next, HandlerStep, OperatorStep

\* A node is told one decision about a request that needs one approval, and it
\* is the one on record unless it came after the expiry: operators who decide
\* at the same time, the expiry task, cancel_request and cleanup_expired
\* notwithstanding.
THEOREM ToldTheRecord == Spec => []ToldMatchesRecord
<1>1. Init => OneWordEach
  BY DEF Init, OneWordEach, WordFor, RecordOf, Untold, After
<1>2. ApprovalsInv /\ OneWordEach => ToldMatchesRecord
  <2> SUFFICES ASSUME ApprovalsInv, OneWordEach, NEW r \in Ids, Known(r),
                      told[r] # <<>>, RecordOf(r).need = 1
               PROVE  Len(told[r]) = 1 /\ Agrees(r, told[r][1], RecordOf(r))
    BY DEF ToldMatchesRecord, RecordOf, Agrees, Known, ApprovalsInv, Places
  <2>1. RecordOf(r) # NoRequest
    BY DEF Known, RecordOf
  <2> QED
    BY <2>1 DEF OneWordEach, WordFor, OneWord
<1> QED
  BY <1>1, <1>2, InitTypes, NextTypes, NextWord, ApprovalsInvariant, PTL DEF Spec
=============================================================================
