----------------------------- MODULE Approvals -----------------------------
(***************************************************************************)
(* Approvals at the Hub: the ApprovalManager of uhorse-security, the       *)
(* idempotency cache in front of it, the routing of a node's approval      *)
(* request, and decide_approval, which records an operator's decision and  *)
(* tells the node.                                                         *)
(*                                                                         *)
(* `pending`, `history` and `user_requests` have a lock each.  `history`   *)
(* is only locked by who holds `pending`, so its lock is left out;         *)
(* `plock` and `ulock` are the other two.                                  *)
(***************************************************************************)
EXTENDS Naturals, FiniteSets, Sequences

CONSTANTS
    Asks,       \* approval requests of the nodes, by the node's request id
    Ids,        \* ids the manager may give to requests
    Levels,     \* numbers of approvals that a request may need (ApprovalLevel)
    Operators,  \* callers of decide_approval, each with its own name
    Handlers,   \* connections on which approval requests arrive
    Deliveries, \* bound: how often one request may be delivered
    Lister,     \* a caller of get_user_pending_requests
    Janitor,    \* a caller of cancel_request and cleanup_expired
    Timer,      \* the expiry task of a request
    Free, NoId, NoAsk, NoRequest

ASSUME ApprovalsAssumption ==
    /\ Levels \subseteq Nat \ {0}
    /\ Deliveries \in Nat
    /\ {Lister, Janitor, Timer, Free} \cap Operators = {}
    /\ Janitor # Timer /\ Janitor # Free /\ Timer # Free
    /\ NoId \notin Ids
    /\ NoAsk \notin Asks

VARIABLES
    pending, history,   \* the request each map holds under an id
    carried,            \* requests removed from pending, not yet in history
    listed,             \* ids in user_requests
    plock, ulock,       \* who holds the locks of pending and user_requests
    askOf,              \* the node request an id was created for
    timer, due, expired,\* expiry task spawned; its sleep over; is_expired()
    records,            \* the idempotency cache's records that are still valid
    lapsed,             \* asks whose record has expired
    delivered,          \* how often each ask was delivered
    raced,              \* history: asks two handlers served at the same time
    hpc, hask, hid,     \* the handlers
    opc, oid, say,      \* the operators
    jpc, lpc,           \* the janitor and the lister
    outbox,             \* the bounded channel to the node's session
    told                \* decisions sent to the node, per id

mapVars == <<pending, history, carried>>
timeVars == <<timer, due, expired, lapsed>>
handlerVars == <<records, delivered, raced, hpc, hask, hid>>
operatorVars == <<opc, oid, say>>
nodeVars == <<outbox, told>>
vars == <<pending, history, carried, listed, plock, ulock, askOf, timer, due,
          expired, records, lapsed, delivered, raced, hpc, hask, hid, opc, oid,
          say, jpc, lpc, outbox, told>>

Statuses == {"Pending", "Approved", "Rejected", "Cancelled", "TimedOut"}
Requests == [status : Statuses, need : Levels, yes : SUBSET Operators,
             no : SUBSET Operators]

ASSUME NoRequestAssumption == NoRequest \notin Requests

NewRequest(n) == [status |-> "Pending", need |-> n, yes |-> {}, no |-> {}]
Created == {r \in Ids : askOf[r] # NoAsk}
Known(r) == pending[r] # NoRequest \/ history[r] # NoRequest

TypeOK ==
    /\ pending \in [Ids -> Requests \cup {NoRequest}]
    /\ history \in [Ids -> Requests \cup {NoRequest}]
    /\ carried \in [Ids -> Requests \cup {NoRequest}]
    /\ listed \subseteq Ids
    /\ plock \in {o \in Operators : opc[o] \in {"archiving", "unlisting"}}
                \cup {Janitor, Timer, Free}
    /\ ulock \in {Lister, Free}
    /\ askOf \in [Ids -> Asks \cup {NoAsk}]
    /\ timer \subseteq Ids /\ due \subseteq Ids /\ expired \subseteq due
    /\ records \subseteq Asks /\ lapsed \subseteq Asks
    /\ delivered \in [Asks -> 0 .. Deliveries]
    /\ raced \subseteq Asks
    /\ hpc \in [Handlers -> {"idle", "creating", "listing", "storing"}]
    /\ hask \in [Handlers -> Asks \cup {NoAsk}]
    /\ hid \in [Handlers -> Ids \cup {NoId}]
    /\ opc \in [Operators -> {"idle", "looked", "archiving", "unlisting",
                              "recorded", "sending", "refused"}]
    /\ oid \in [Operators -> Ids \cup {NoId}]
    /\ say \in [Operators -> {"approved", "rejected"}]
    /\ jpc \in {"idle", "archiving"} /\ lpc \in {"idle", "reading"}
    /\ outbox \in {"none", "room", "full", "stuck"}
    /\ told \in [Ids -> Seq({"approved", "rejected"})]

Init ==
    /\ pending = [r \in Ids |-> NoRequest]
    /\ history = [r \in Ids |-> NoRequest]
    /\ carried = [r \in Ids |-> NoRequest]
    /\ listed = {}
    /\ plock = Free /\ ulock = Free
    /\ askOf = [r \in Ids |-> NoAsk]
    /\ timer = {} /\ due = {} /\ expired = {} /\ lapsed = {}
    /\ records = {}
    /\ delivered = [a \in Asks |-> 0]
    /\ raced = {}
    /\ hpc = [h \in Handlers |-> "idle"]
    /\ hask = [h \in Handlers |-> NoAsk]
    /\ hid = [h \in Handlers |-> NoId]
    /\ opc = [o \in Operators |-> "idle"]
    /\ oid = [o \in Operators |-> NoId]
    /\ say = [o \in Operators |-> "approved"]
    /\ jpc = "idle" /\ lpc = "idle"
    /\ outbox = "room"
    /\ told = [r \in Ids |-> <<>>]

-----------------------------------------------------------------------------
(* The routing of NodeToHub::ApprovalRequest                               *)

\* The handler goes on to create an approval for the ask, while others may be
\* about to do the same.
TakeUp(h, a) ==
    /\ hpc' = [hpc EXCEPT ![h] = "creating"]
    /\ hask' = [hask EXCEPT ![h] = a]
    /\ raced' = IF \E g \in Handlers : hpc[g] # "idle" /\ hask[g] = a
                THEN raced \cup {a} ELSE raced

\* Slip: the cache is not consulted.
CheckNothing(h, a) ==
    /\ hpc[h] = "idle"
    /\ delivered[a] < Deliveries
    /\ delivered' = [delivered EXCEPT ![a] = @ + 1]
    /\ TakeUp(h, a)
    /\ UNCHANGED <<mapVars, listed, plock, ulock, askOf, timeVars, records, hid,
                   operatorVars, jpc, lpc, nodeVars>>

\* check_idempotency; check_or_record only checks.
CheckIdempotency(h, a) ==
    /\ hpc[h] = "idle"
    /\ delivered[a] < Deliveries
    /\ delivered' = [delivered EXCEPT ![a] = @ + 1]
    /\ IF a \in records
       THEN UNCHANGED <<raced, hpc, hask>>
       ELSE TakeUp(h, a)
    /\ UNCHANGED <<mapVars, listed, plock, ulock, askOf, timeVars, records, hid,
                   operatorVars, jpc, lpc, nodeVars>>

\* create_request: insert into pending, ...  (The branches that approve or
\* reject at once are not reached: main.rs configures no rules for them.)
CreateRequest(h, n) ==
    /\ hpc[h] = "creating"
    /\ plock = Free
    /\ Created # Ids
    /\ LET r == CHOOSE r \in Ids : r \notin Created IN
       /\ pending' = [pending EXCEPT ![r] = NewRequest(n)]
       /\ askOf' = [askOf EXCEPT ![r] = hask[h]]
       /\ hid' = [hid EXCEPT ![h] = r]
    /\ hpc' = [hpc EXCEPT ![h] = "listing"]
    /\ UNCHANGED <<history, carried, listed, plock, ulock, timeVars, records,
                   delivered, raced, hask, operatorVars, jpc, lpc, nodeVars>>

\* ... then into user_requests, and spawn the expiry task.
ListRequest(h) ==
    /\ hpc[h] = "listing"
    /\ ulock = Free
    /\ listed' = listed \cup {hid[h]}
    /\ timer' = timer \cup {hid[h]}
    /\ hpc' = [hpc EXCEPT ![h] = "storing"]
    /\ UNCHANGED <<mapVars, plock, ulock, askOf, due, expired, lapsed, records,
                   delivered, raced, hask, hid, operatorVars, jpc, lpc,
                   nodeVars>>

\* store_idempotency_response
StoreResponse(h) ==
    /\ hpc[h] = "storing"
    /\ records' = records \cup {hask[h]}
    /\ hpc' = [hpc EXCEPT ![h] = "idle"]
    /\ hask' = [hask EXCEPT ![h] = NoAsk]
    /\ hid' = [hid EXCEPT ![h] = NoId]
    /\ UNCHANGED <<mapVars, listed, plock, ulock, askOf, timeVars, delivered,
                   raced, operatorVars, jpc, lpc, nodeVars>>

-----------------------------------------------------------------------------
(* decide_approval                                                         *)

\* The request is looked up.
LookUp(o, r, verdict) ==
    /\ opc[o] = "idle"
    /\ plock = Free
    /\ Known(r)
    /\ opc' = [opc EXCEPT ![o] = "looked"]
    /\ oid' = [oid EXCEPT ![o] = r]
    /\ say' = [say EXCEPT ![o] = verdict]
    /\ UNCHANGED <<mapVars, listed, plock, ulock, askOf, timeVars, handlerVars,
                   jpc, lpc, nodeVars>>

Returns(o) ==
    /\ opc' = [opc EXCEPT ![o] = "idle"]
    /\ oid' = [oid EXCEPT ![o] = NoId]
    /\ say' = [say EXCEPT ![o] = "approved"]

\* add_decision and update_status: expiry first, then rejection, then
\* completion.
Decided(r, o) ==
    LET yes == IF say[o] = "approved" THEN pending[r].yes \cup {o}
               ELSE pending[r].yes
        no == IF say[o] = "rejected" THEN pending[r].no \cup {o}
              ELSE pending[r].no
    IN [status |-> IF r \in expired THEN "TimedOut"
                   ELSE IF no # {} THEN "Rejected"
                   ELSE IF Cardinality(yes) >= pending[r].need THEN "Approved"
                   ELSE pending[r].status,
        need |-> pending[r].need, yes |-> yes, no |-> no]

\* is_completed
Completed(req) == req.no # {} \/ Cardinality(req.yes) >= req.need

\* The request is pending and this approver has not decided on it.
Undecided(o, r) ==
    /\ pending[r] # NoRequest
    /\ o \notin pending[r].yes \cup pending[r].no

\* approve_request or reject_request, which fail when the request is no longer
\* pending or the approver has decided already.
DecisionRefused(o) ==
    /\ opc[o] = "looked"
    /\ plock = Free
    /\ ~Undecided(o, oid[o])
    /\ Returns(o)
    /\ UNCHANGED <<mapVars, listed, plock, ulock, askOf, timeVars, handlerVars,
                   jpc, lpc, nodeVars>>

\* Slip: the decided request stays in pending until it is archived.
DecideKeepingPending(o) ==
    /\ opc[o] = "looked"
    /\ plock = Free
    /\ Undecided(o, oid[o])
    /\ carried' = [carried EXCEPT ![oid[o]] = Decided(oid[o], o)]
    /\ opc' = [opc EXCEPT ![o] = "archiving"]
    /\ UNCHANGED <<pending, history, listed, plock, ulock, askOf, timeVars,
                   handlerVars, oid, say, jpc, lpc, nodeVars>>

\* Slip: the lock of pending is released with the request in neither map.
DecideReleasing(o) ==
    /\ opc[o] = "looked"
    /\ plock = Free
    /\ Undecided(o, oid[o])
    /\ carried' = [carried EXCEPT ![oid[o]] = Decided(oid[o], o)]
    /\ pending' = [pending EXCEPT ![oid[o]] = NoRequest]
    /\ opc' = [opc EXCEPT ![o] = "archiving"]
    /\ UNCHANGED <<history, listed, plock, ulock, askOf, timeVars,
                   handlerVars, oid, say, jpc, lpc, nodeVars>>

\* Otherwise the decision is added.  A completed request is taken out of
\* pending, whose lock is then kept until user_requests is cleaned up.
Decide(o) ==
    /\ opc[o] = "looked"
    /\ plock = Free
    /\ Undecided(o, oid[o])
    /\ LET r == oid[o]
           req == Decided(r, o)
       IN IF Completed(req)
          THEN /\ pending' = [pending EXCEPT ![r] = NoRequest]
               /\ carried' = [carried EXCEPT ![r] = req]
               /\ plock' = o
               /\ opc' = [opc EXCEPT ![o] = "archiving"]
          ELSE /\ pending' = [pending EXCEPT ![r] = req]
               /\ opc' = [opc EXCEPT ![o] = "recorded"]
               /\ UNCHANGED <<carried, plock>>
    /\ UNCHANGED <<history, listed, ulock, askOf, timeVars, handlerVars, oid,
                   say, jpc, lpc, nodeVars>>

\* The removed request goes into history.
Archive(o) ==
    /\ opc[o] = "archiving"
    /\ history' = [history EXCEPT ![oid[o]] = carried[oid[o]]]
    /\ carried' = [carried EXCEPT ![oid[o]] = NoRequest]
    /\ opc' = [opc EXCEPT ![o] = "unlisting"]
    /\ UNCHANGED <<pending, listed, plock, ulock, askOf, timeVars, handlerVars,
                   oid, say, jpc, lpc, nodeVars>>

\* Slip: the lock of pending is not released.
UnlistHolding(o) ==
    /\ opc[o] = "unlisting"
    /\ ulock = Free
    /\ listed' = listed \ {oid[o]}
    /\ opc' = [opc EXCEPT ![o] = "recorded"]
    /\ UNCHANGED <<mapVars, plock, ulock, askOf, timeVars, handlerVars, oid, say,
                   jpc, lpc, nodeVars>>

\* user_requests is locked while the lock of pending is held.
Unlist(o) ==
    /\ opc[o] = "unlisting"
    /\ ulock = Free
    /\ listed' = listed \ {oid[o]}
    /\ plock' = Free
    /\ opc' = [opc EXCEPT ![o] = "recorded"]
    /\ UNCHANGED <<mapVars, ulock, askOf, timeVars, handlerVars, oid, say, jpc,
                   lpc, nodeVars>>

\* The request is looked up again ("Approval disappeared after decision" if it
\* is in neither map), then notify_node_approval_decision takes the node's
\* sender.  A node that is not connected is not told, and the decision cannot
\* be repeated.
FindSender(o) ==
    /\ opc[o] = "recorded"
    /\ plock = Free
    /\ IF Known(oid[o]) /\ outbox # "none"
       THEN opc' = [opc EXCEPT ![o] = "sending"] /\ UNCHANGED <<oid, say>>
       ELSE Returns(o)
    /\ UNCHANGED <<mapVars, listed, plock, ulock, askOf, timeVars, handlerVars,
                   jpc, lpc, nodeVars>>

\* Slip: the node is told what the operator asked for before it is recorded.
NotifyEarly(o) ==
    /\ opc[o] \in {"looked", "sending"}
    /\ outbox = "room"
    /\ told' = [told EXCEPT ![oid[o]] = Append(@, say[o])]
    /\ Returns(o)
    /\ UNCHANGED <<mapVars, listed, plock, ulock, askOf, timeVars, handlerVars,
                   jpc, lpc, outbox>>

\* send_to_node waits until the channel has room.
Notify(o) ==
    /\ opc[o] = "sending"
    /\ outbox = "room"
    /\ told' = [told EXCEPT ![oid[o]] = Append(@, say[o])]
    /\ Returns(o)
    /\ UNCHANGED <<mapVars, listed, plock, ulock, askOf, timeVars, handlerVars,
                   jpc, lpc, outbox>>

\* The session that took from the channel has ended: the send fails.
SendFails(o) ==
    /\ opc[o] = "refused"
    /\ Returns(o)
    /\ UNCHANGED <<mapVars, listed, plock, ulock, askOf, timeVars, handlerVars,
                   jpc, lpc, nodeVars>>

-----------------------------------------------------------------------------
(* The node's session, which NodeSessions models.  Here: is there room in  *)
(* its channel?                                                            *)

\* Other messages fill the channel; the session may cease to take from it, as
\* NodeSessions!Stuck and NodeSessions!Jammed describe; the node may be away
\* and come back to a new channel.
OutboxChanges ==
    /\ \/ outbox = "room" /\ outbox' \in {"full", "stuck"} /\ UNCHANGED opc
       \/ outbox = "full" /\ outbox' = "stuck" /\ UNCHANGED opc
       \/ outbox = "none" /\ outbox' = "room" /\ UNCHANGED opc
       \/ /\ outbox \in {"room", "full"} /\ outbox' = "none"
          /\ opc' = [o \in Operators |-> IF opc[o] = "sending" THEN "refused"
                                         ELSE opc[o]]
    /\ UNCHANGED <<mapVars, listed, plock, ulock, askOf, timeVars, handlerVars,
                   oid, say, jpc, lpc, told>>

\* send_task takes a message from the channel.
OutboxDrains ==
    /\ outbox = "full"
    /\ outbox' = "room"
    /\ UNCHANGED <<mapVars, listed, plock, ulock, askOf, timeVars, handlerVars,
                   operatorVars, jpc, lpc, told>>

-----------------------------------------------------------------------------
(* Expiry and the manager's other operations                               *)

\* The sleep of the expiry task ends at expires_at; is_expired() is true only
\* after that second.
Passes(r) ==
    /\ r \in timer
    /\ \/ r \notin due /\ due' = due \cup {r} /\ UNCHANGED expired
       \/ r \in due \ expired /\ expired' = expired \cup {r} /\ UNCHANGED due
    /\ UNCHANGED <<mapVars, listed, plock, ulock, askOf, timer, lapsed,
                   handlerVars, operatorVars, jpc, lpc, nodeVars>>

\* An idempotency record expires; the next check drops it before it looks.
Lapses(a) ==
    /\ a \in records
    /\ records' = records \ {a}
    /\ lapsed' = lapsed \cup {a}
    /\ UNCHANGED <<mapVars, listed, plock, ulock, askOf, timer, due, expired,
                   delivered, raced, hpc, hask, hid, operatorVars, jpc, lpc,
                   nodeVars>>

\* The expiry task.  A request that is still pending is marked, and the task
\* locks `pending` a second time while it holds the first guard: it waits for
\* itself, and the lock is never released.
TimerFires(r) ==
    /\ r \in timer \cap due
    /\ plock = Free
    /\ timer' = timer \ {r}
    /\ IF pending[r] # NoRequest /\ pending[r].status = "Pending"
       THEN /\ pending' = [pending EXCEPT ![r].status = "TimedOut"]
            /\ plock' = Timer
       ELSE UNCHANGED <<pending, plock>>
    /\ UNCHANGED <<history, carried, listed, ulock, askOf, due, expired, lapsed,
                   handlerVars, operatorVars, jpc, lpc, nodeVars>>

\* cancel_request (one id) and cleanup_expired (the expired ones): neither
\* cleans up user_requests.
Sweep(R, status) ==
    /\ jpc = "idle"
    /\ plock = Free
    /\ R # {}
    /\ carried' = [r \in Ids |-> IF r \in R
                                 THEN [pending[r] EXCEPT !.status = status]
                                 ELSE carried[r]]
    /\ pending' = [r \in Ids |-> IF r \in R THEN NoRequest ELSE pending[r]]
    /\ plock' = Janitor
    /\ jpc' = "archiving"
    /\ UNCHANGED <<history, listed, ulock, askOf, timeVars, handlerVars,
                   operatorVars, lpc, nodeVars>>

CancelRequest(r) == pending[r] # NoRequest /\ Sweep({r}, "Cancelled")

CleanupExpired ==
    Sweep({r \in expired : pending[r] # NoRequest}, "TimedOut")

SweepArchives ==
    /\ jpc = "archiving"
    /\ history' = [r \in Ids |-> IF carried[r] # NoRequest THEN carried[r]
                                 ELSE history[r]]
    /\ carried' = [r \in Ids |-> NoRequest]
    /\ plock' = Free
    /\ jpc' = "idle"
    /\ UNCHANGED <<pending, listed, ulock, askOf, timeVars, handlerVars,
                   operatorVars, lpc, nodeVars>>

\* get_user_pending_requests: user_requests first, then pending.
ListUser ==
    /\ lpc = "idle" /\ ulock = Free
    /\ lpc' = "reading" /\ ulock' = Lister
    /\ UNCHANGED <<mapVars, listed, plock, askOf, timeVars, handlerVars,
                   operatorVars, jpc, nodeVars>>

ListUserReads ==
    /\ lpc = "reading" /\ plock = Free
    /\ lpc' = "idle" /\ ulock' = Free
    /\ UNCHANGED <<mapVars, listed, plock, askOf, timeVars, handlerVars,
                   operatorVars, jpc, nodeVars>>

-----------------------------------------------------------------------------
HandlerStep(h) ==
    \/ \E n \in Levels : CreateRequest(h, n)
    \/ ListRequest(h) \/ StoreResponse(h)

OperatorStep(o) ==
    \/ DecisionRefused(o) \/ Decide(o) \/ Archive(o) \/ Unlist(o)
    \/ FindSender(o) \/ Notify(o) \/ SendFails(o)

Next ==
    \/ \E h \in Handlers : HandlerStep(h)
    \/ \E h \in Handlers, a \in Asks : CheckIdempotency(h, a)
    \/ \E o \in Operators : OperatorStep(o)
    \/ \E o \in Operators, r \in Ids, v \in {"approved", "rejected"} :
          LookUp(o, r, v)
    \/ \E r \in Ids : Passes(r) \/ TimerFires(r) \/ CancelRequest(r)
    \/ \E a \in Asks : Lapses(a)
    \/ CleanupExpired \/ SweepArchives \/ ListUser \/ ListUserReads
    \/ OutboxChanges \/ OutboxDrains

Spec == Init /\ [][Next]_vars

\* tokio drives every operation that can go on, and tokio's locks and channels
\* are fair: who waits for a lock that is released, or for room in a channel
\* that is drained, again and again gets it.  The handlers hold no lock across
\* a step, so nothing below depends on theirs.
Fairness ==
    /\ \A o \in Operators : SF_vars(OperatorStep(o))
    /\ \A r \in Ids : SF_vars(TimerFires(r))
    /\ WF_vars(SweepArchives) /\ SF_vars(ListUserReads)
    /\ WF_vars(OutboxDrains)

FairSpec == Spec /\ Fairness

-----------------------------------------------------------------------------
(* Properties                                                              *)

\* Whoever can read the maps finds every request in exactly one of them: the
\* lock of pending covers the moment between the removal from pending and the
\* insertion into history, so no approval disappears after its decision.
InOneMap ==
    plock = Free =>
       \A r \in Created : (pending[r] = NoRequest) # (history[r] = NoRequest)

\* A decision is final: once in history a request never changes, whoever
\* decides, cancels or cleans up at the same time.
HistoryIsFinal ==
    [][\A r \in Ids : history[r] # NoRequest => history'[r] = history[r]]_vars

\* A node is told one decision about a request with a single approval, and it
\* is the one on record.  Only a decision that came after the expiry is told
\* as if it counted: its record says TimedOut.
ToldMatchesRecord ==
    \A r \in {x \in Ids : Known(x) /\ told[x] # <<>>} :
       LET record == IF pending[r] # NoRequest THEN pending[r] ELSE history[r]
       IN record.need = 1 =>
            /\ Len(told[r]) = 1
            /\ \/ told[r][1] = "approved" /\ record.status = "Approved"
               \/ told[r][1] = "rejected" /\ record.status = "Rejected"
               \/ r \in expired /\ record.status = "TimedOut"

\* A node request is turned, or about to be turned, into a second approval in
\* two cases only: its idempotency record expired, or it arrived on two
\* connections of the node and the second was checked before the first had
\* stored its record.
OneApprovalPerAsk ==
    \A r \in Created : askOf[r] \notin lapsed \cup raced =>
       /\ \A q \in Created : askOf[q] = askOf[r] => q = r
       /\ \A h \in Handlers : hpc[h] = "creating" => hask[h] # askOf[r]

\* A decision returns unless the manager is in one of its two deadlocks (the
\* expiry task waiting for the lock it holds, or the reader of user_requests
\* and a decision each waiting for the other's lock), or the decision waits for
\* room in the channel of a session that no longer takes from it.
DecisionReturns ==
    \A o \in Operators :
       opc[o] # "idle" ~> \/ opc[o] = "idle"
                          \/ plock = Timer
                          \/ ulock = Lister /\ plock \in Operators
                          \/ outbox = "stuck" /\ opc[o] = "sending"

\* A request whose 24 hours are over leaves `pending` for the history.
ExpiredIsArchived ==
    \A r \in Ids :
       r \in due /\ pending[r] # NoRequest ~> history[r] # NoRequest
=============================================================================
