--------------------------- MODULE DevicePairing ---------------------------
(***************************************************************************)
(* Pairing a device with an account: DevicePairingManager of uhorse-       *)
(* security as the Hub uses it (start_account_pairing, the pairing command *)
(* of a chat message, cancel_account_pairing, get_account_status and       *)
(* delete_account_binding), and the notification binding beside it.        *)
(*                                                                         *)
(* The manager's maps have a lock each, taken in different orders by its   *)
(* operations.  `rlock` and `dlock` are the writers of pairing_requests    *)
(* and devices, `cread` and `dread` the readers of code_to_request and     *)
(* devices that go on to wait for another lock.  Shorter holds are the     *)
(* actions themselves.                                                     *)
(***************************************************************************)
EXTENDS Naturals, FiniteSets

CONSTANTS
    Devices,
    Pairings,    \* ids of pairing requests
    Codes,       \* pairing codes; drawn at random, so they may collide
    Users,       \* chat users who send a pairing command
    Canceller, Poller, Timer,  \* the other holders of locks
    Free, NoCode, NoDevice, NoUser, NoPairing

ASSUME PairingAssumption ==
    /\ {Canceller, Timer, Free} \cap Users = {}
    /\ Canceller # Timer /\ Canceller # Free /\ Timer # Free
    /\ NoPairing \notin Pairings /\ NoCode \notin Codes
    /\ NoDevice \notin Devices

VARIABLES
    status, deviceOf, codeOf,  \* pairing_requests; "absent" when not there
    codes,      \* code_to_request
    devices,    \* devices: "unpaired", "paired", "absent"
    bound,      \* the notification binding of a device
    rlock, dlock, cread, dread,
    fuse,       \* requests whose expiry task sleeps or waits
    overdue,    \* requests for which is_expired() holds
    ipc, iid,   \* initiate_pairing: where it is, its request
    cpc, cid, ccode,  \* confirm_pairing of each user
    xid,        \* the request whose code a canceller or timer removes
    upc,        \* delete_account_binding: the device it still has to unpair
    confirms    \* history: how often a request was confirmed

requestVars == <<status, deviceOf, codeOf>>
lockVars == <<rlock, dlock, cread, dread>>
confirmVars == <<cpc, cid, ccode, confirms>>
vars == <<status, deviceOf, codeOf, codes, devices, bound, rlock, dlock,
          cread, dread, fuse, overdue, ipc, iid, cpc, cid, ccode, xid, upc,
          confirms>>

TypeOK ==
    /\ status \in [Pairings -> {"absent", "Pending", "Paired", "Expired",
                                "Cancelled"}]
    /\ deviceOf \in [Pairings -> Devices \cup {NoDevice}]
    /\ codeOf \in [Pairings -> Codes \cup {NoCode}]
    /\ codes \in [Codes -> Pairings \cup {NoPairing}]
    /\ devices \in [Devices -> {"absent", "unpaired", "paired"}]
    /\ bound \in [Devices -> Users \cup {NoUser}]
    /\ rlock \in {u \in Users : cpc[u] \in {"device", "clean"}}
                \cup {Canceller, Timer, Free}
    /\ dlock \in {u \in Users : cpc[u] = "clean"} \cup {Free}
    /\ cread \subseteq {u \in Users : cpc[u] \in {"lock", "device"}}
    /\ dread \subseteq {Poller}
    /\ fuse \subseteq Pairings /\ overdue \subseteq Pairings
    /\ ipc \in {"idle", "request", "code"} /\ iid \in Pairings \cup {NoPairing}
    /\ cpc \in [Users -> {"idle", "lock", "device", "clean", "bind"}]
    /\ cid \in [Users -> Pairings \cup {NoPairing}]
    /\ ccode \in [Users -> Codes \cup {NoCode}]
    /\ xid \in Pairings \cup {NoPairing}
    /\ upc \in Devices \cup {NoDevice}
    /\ confirms \in [Pairings -> Nat]

Init ==
    /\ status = [r \in Pairings |-> "absent"]
    /\ deviceOf = [r \in Pairings |-> NoDevice]
    /\ codeOf = [r \in Pairings |-> NoCode]
    /\ codes = [k \in Codes |-> NoPairing]
    /\ devices = [d \in Devices |-> "absent"]
    /\ bound = [d \in Devices |-> NoUser]
    /\ rlock = Free /\ dlock = Free /\ cread = {} /\ dread = {}
    /\ fuse = {} /\ overdue = {}
    /\ ipc = "idle" /\ iid = NoPairing
    /\ cpc = [u \in Users |-> "idle"]
    /\ cid = [u \in Users |-> NoPairing]
    /\ ccode = [u \in Users |-> NoCode]
    /\ xid = NoPairing /\ upc = NoDevice
    /\ confirms = [r \in Pairings |-> 0]

-----------------------------------------------------------------------------
(* initiate_pairing: three maps, one lock after the other                  *)

InitiateDevice(r, d, k) ==
    /\ ipc = "idle" /\ codeOf[r] = NoCode
    /\ dlock = Free /\ dread = {}
    /\ devices' = [devices EXCEPT ![d] = "unpaired"]
    /\ deviceOf' = [deviceOf EXCEPT ![r] = d]
    /\ codeOf' = [codeOf EXCEPT ![r] = k]
    /\ ipc' = "request" /\ iid' = r
    /\ UNCHANGED <<status, codes, bound, lockVars, fuse, overdue, confirmVars,
                   xid, upc>>

InitiateRequest ==
    /\ ipc = "request" /\ rlock = Free
    /\ status' = [status EXCEPT ![iid] = "Pending"]
    /\ ipc' = "code"
    /\ UNCHANGED <<deviceOf, codeOf, codes, devices, bound, lockVars, fuse,
                   overdue, iid, confirmVars, xid, upc>>

\* Slip: the expiry task is spawned, the code never stored.
InitiateCodeLost ==
    /\ ipc = "code" /\ cread = {}
    /\ fuse' = fuse \cup {iid}
    /\ ipc' = "idle" /\ iid' = NoPairing
    /\ UNCHANGED <<requestVars, codes, devices, bound, lockVars, overdue,
                   confirmVars, xid, upc>>

\* The expiry task is spawned after the last insertion.
InitiateCode ==
    /\ ipc = "code" /\ cread = {}
    /\ codes' = [codes EXCEPT ![codeOf[iid]] = iid]
    /\ fuse' = fuse \cup {iid}
    /\ ipc' = "idle" /\ iid' = NoPairing
    /\ UNCHANGED <<requestVars, devices, bound, lockVars, overdue, confirmVars,
                   xid, upc>>

-----------------------------------------------------------------------------
(* confirm_pairing and the binding made after it                           *)

Returns(u) ==
    /\ cpc' = [cpc EXCEPT ![u] = "idle"]
    /\ cid' = [cid EXCEPT ![u] = NoPairing]
    /\ ccode' = [ccode EXCEPT ![u] = NoCode]

\* The code is looked up; its lock stays read-locked.
ConfirmLook(u, k) ==
    /\ cpc[u] = "idle" /\ codes[k] # NoPairing
    /\ cread' = cread \cup {u}
    /\ cid' = [cid EXCEPT ![u] = codes[k]]
    /\ ccode' = [ccode EXCEPT ![u] = k]
    /\ cpc' = [cpc EXCEPT ![u] = "lock"]
    /\ UNCHANGED <<requestVars, codes, devices, bound, rlock, dlock, dread, fuse,
                   overdue, ipc, iid, xid, upc, confirms>>

\* is_expired()
ConfirmExpired(u) ==
    /\ cpc[u] = "lock" /\ rlock = Free
    /\ cid[u] \in overdue
    /\ status' = [status EXCEPT ![cid[u]] = "Expired"]
    /\ cread' = cread \ {u}
    /\ Returns(u)
    /\ UNCHANGED <<deviceOf, codeOf, codes, devices, bound, rlock, dlock, dread,
                   fuse, overdue, ipc, iid, xid, upc, confirms>>

\* confirm() asks for no status.
ConfirmLock(u) ==
    /\ cpc[u] = "lock" /\ rlock = Free
    /\ cid[u] \notin overdue
    /\ status' = [status EXCEPT ![cid[u]] = "Paired"]
    /\ confirms' = [confirms EXCEPT ![cid[u]] = @ + 1]
    /\ rlock' = u
    /\ cpc' = [cpc EXCEPT ![u] = "device"]
    /\ UNCHANGED <<deviceOf, codeOf, codes, devices, bound, dlock, cread, dread,
                   fuse, overdue, ipc, iid, cid, ccode, xid, upc>>

\* Slip: pairing_requests is unlocked before the code is removed.
ConfirmDeviceUnlocks(u) ==
    /\ cpc[u] = "device"
    /\ dlock = Free /\ dread = {}
    /\ devices' = [devices EXCEPT ![deviceOf[cid[u]]] = "paired"]
    /\ dlock' = u
    /\ rlock' = Free
    /\ cread' = cread \ {u}
    /\ cpc' = [cpc EXCEPT ![u] = "clean"]
    /\ UNCHANGED <<requestVars, codes, bound, dread, fuse, overdue, ipc, iid,
                   cid, ccode, xid, upc, confirms>>

\* The device is marked, and the read lock of the codes dropped.
ConfirmDevice(u) ==
    /\ cpc[u] = "device"
    /\ dlock = Free /\ dread = {}
    /\ devices' = [devices EXCEPT ![deviceOf[cid[u]]] = "paired"]
    /\ dlock' = u
    /\ cread' = cread \ {u}
    /\ cpc' = [cpc EXCEPT ![u] = "clean"]
    /\ UNCHANGED <<requestVars, codes, bound, rlock, dread, fuse, overdue, ipc,
                   iid, cid, ccode, xid, upc, confirms>>

\* Slip: devices stays locked.
ConfirmCleanHolding(u) ==
    /\ cpc[u] = "clean" /\ cread = {}
    /\ codes' = [codes EXCEPT ![ccode[u]] = NoPairing]
    /\ rlock' = Free
    /\ cpc' = [cpc EXCEPT ![u] = "bind"]
    /\ UNCHANGED <<requestVars, devices, bound, dlock, cread, dread, fuse,
                   overdue, ipc, iid, cid, ccode, xid, upc, confirms>>

\* The code is removed; then everything is unlocked.
ConfirmClean(u) ==
    /\ cpc[u] = "clean" /\ cread = {}
    /\ codes' = [codes EXCEPT ![ccode[u]] = NoPairing]
    /\ rlock' = Free
    /\ dlock' = Free
    /\ cpc' = [cpc EXCEPT ![u] = "bind"]
    /\ UNCHANGED <<requestVars, devices, bound, cread, dread, fuse, overdue, ipc,
                   iid, cid, ccode, xid, upc, confirms>>

\* set_binding
Bind(u) ==
    /\ cpc[u] = "bind"
    /\ bound' = [bound EXCEPT ![deviceOf[cid[u]]] = u]
    /\ Returns(u)
    /\ UNCHANGED <<requestVars, codes, devices, lockVars, fuse, overdue, ipc,
                   iid, xid, upc, confirms>>

-----------------------------------------------------------------------------
(* cancel_pairing and the expiry task: the request, then its code          *)

Close(who, r, s) ==
    /\ rlock = Free
    /\ status' = [status EXCEPT ![r] = s]
    /\ rlock' = who /\ xid' = r
    /\ UNCHANGED <<deviceOf, codeOf, codes, devices, bound, dlock, cread, dread,
                   overdue, ipc, iid, confirmVars, upc>>

Cancel(r) ==
    /\ status[r] # "absent"
    /\ Close(Canceller, r, "Cancelled")
    /\ UNCHANGED fuse

\* is_expired() compares with >, the expiry task sleeps until =: it may find
\* its request a second before is_expired(), or any time later.
Overdue(r) ==
    /\ status[r] # "absent" /\ r \notin overdue
    /\ overdue' = overdue \cup {r}
    /\ UNCHANGED <<requestVars, codes, devices, bound, lockVars, fuse, ipc, iid,
                   confirmVars, xid, upc>>

Expire(r) ==
    /\ r \in fuse /\ rlock = Free
    /\ fuse' = fuse \ {r}
    /\ IF status[r] = "Pending"
       THEN Close(Timer, r, "Expired")
       ELSE UNCHANGED <<requestVars, codes, devices, bound, lockVars, overdue,
                        ipc, iid, confirmVars, xid, upc>>

\* Whatever request the code leads to by now.
CloseCode ==
    /\ rlock \in {Canceller, Timer} /\ cread = {}
    /\ codes' = [codes EXCEPT ![codeOf[xid]] = NoPairing]
    /\ rlock' = Free /\ xid' = NoPairing
    /\ UNCHANGED <<requestVars, devices, bound, dlock, cread, dread, fuse,
                   overdue, ipc, iid, confirmVars, upc>>

-----------------------------------------------------------------------------
(* get_pairing_status and delete_account_binding                           *)

\* An unpaired device has its requests looked up while devices is locked.
StatusLook(d) ==
    /\ dread = {} /\ dlock = Free /\ devices[d] = "unpaired"
    /\ dread' = {Poller}
    /\ UNCHANGED <<requestVars, codes, devices, bound, rlock, dlock, cread, fuse,
                   overdue, ipc, iid, confirmVars, xid, upc>>

StatusRead ==
    /\ dread # {} /\ rlock = Free
    /\ dread' = {}
    /\ UNCHANGED <<requestVars, codes, devices, bound, rlock, dlock, cread, fuse,
                   overdue, ipc, iid, confirmVars, xid, upc>>

Unbind(d) ==
    /\ upc = NoDevice
    /\ bound' = [bound EXCEPT ![d] = NoUser]
    /\ upc' = d
    /\ UNCHANGED <<requestVars, codes, devices, lockVars, fuse, overdue, ipc,
                   iid, confirmVars, xid>>

Unpair ==
    /\ upc # NoDevice /\ dlock = Free /\ dread = {}
    /\ devices' = [devices EXCEPT ![upc] = IF @ = "absent" THEN @
                                           ELSE "unpaired"]
    /\ upc' = NoDevice
    /\ UNCHANGED <<requestVars, codes, bound, lockVars, fuse, overdue, ipc, iid,
                   confirmVars, xid>>

-----------------------------------------------------------------------------
InitiateStep == InitiateRequest \/ InitiateCode
ConfirmStep(u) ==
    \/ ConfirmExpired(u) \/ ConfirmLock(u) \/ ConfirmDevice(u)
    \/ ConfirmClean(u) \/ Bind(u)

Next ==
    \/ \E r \in Pairings, d \in Devices, k \in Codes : InitiateDevice(r, d, k)
    \/ InitiateStep
    \/ \E u \in Users, k \in Codes : ConfirmLook(u, k)
    \/ \E u \in Users : ConfirmStep(u)
    \/ \E r \in Pairings : Cancel(r) \/ Overdue(r) \/ Expire(r)
    \/ CloseCode
    \/ \E d \in Devices : StatusLook(d) \/ Unbind(d)
    \/ StatusRead \/ Unpair

Spec == Init /\ [][Next]_vars

\* The runtime goes on polling a confirmation that can take its next step.
FairSpec == Spec /\ \A u \in Users : WF_vars(ConfirmStep(u))

-----------------------------------------------------------------------------
(* Properties                                                              *)

\* A code pairs once: of two users who send the same code at the same time at
\* most one is confirmed, and the request it confirms is neither cancelled nor
\* expired before its device is marked.
ConfirmedOnce ==
    \A r \in Pairings :
       /\ confirms[r] <= 1
       /\ (\E u \in Users : cid[u] = r /\ cpc[u] \in {"device", "clean"})
             => status[r] = "Paired"

\* A pending request can be found by its code, as soon as it was given one,
\* unless another request has drawn the same code.
PendingHasCode ==
    \A r \in fuse :
       status[r] = "Pending" =>
          \/ codes[codeOf[r]] = r
          \/ \E s \in Pairings \ {r} : codeOf[s] = codeOf[r]

\* The two circles of waiting the manager can get into.  A confirmation holds
\* the codes and waits for the requests, whose holder (a cancellation, an
\* expiry or another confirmation) waits for the codes.  Or one holds the
\* requests and waits for the devices, whose reader waits for the requests.
Circle ==
    \/ /\ \E u \in cread : cpc[u] = "lock"
       /\ rlock \in {Canceller, Timer} \cup {u \in Users : cpc[u] = "clean"}
    \/ dread # {} /\ \E u \in Users : rlock = u /\ cpc[u] = "device"

\* A confirmation returns, unless the manager is in one of these circles.
ConfirmReturns ==
    \A u \in Users : cpc[u] # "idle" ~> cpc[u] = "idle" \/ Circle
=============================================================================
