------------------------ MODULE DevicePairingProofs ------------------------
(***************************************************************************)
(* Proofs about device pairing, for any sets of devices, requests, codes   *)
(* and users.                                                              *)
(*                                                                         *)
(* That a code pairs once rests on who holds which lock (Locks), on the    *)
(* codes leading only to requests that drew them (CodesLead), on a looked  *)
(* up code not changing under its reader (Looked), and on a confirmed      *)
(* request having lost its code by the time its confirmation lets go of    *)
(* the requests (Spent).                                                   *)
(***************************************************************************)
EXTENDS DevicePairing, TLAPS

Confirming == {u \in Users : cpc[u] \in {"device", "clean"}}

\* The locks are held by the confirmations that are where they are held.
Locks ==
    /\ \A u \in Users : /\ rlock = u <=> cpc[u] \in {"device", "clean"}
                        /\ dlock = u <=> cpc[u] = "clean"
                        /\ u \in cread <=> cpc[u] \in {"lock", "device"}
    /\ rlock \in {Canceller, Timer} <=> xid # NoPairing

\* A request has a code and a device as soon as anything knows it.
Drawn ==
    /\ \A r \in Pairings : codeOf[r] # NoCode => deviceOf[r] \in Devices
    /\ \A r \in Pairings :
          status[r] # "absent" \/ r \in fuse \/ r = iid \/ r = xid
          \/ confirms[r] > 0 => codeOf[r] # NoCode
    /\ ipc = "idle" <=> iid = NoPairing

\* A code leads to a request that drew it and is complete.
CodesLead ==
    \A k \in Codes : codes[k] # NoPairing =>
       codeOf[codes[k]] = k /\ codes[k] # iid

\* What a confirmation has looked up.
Looked ==
    \A u \in Users :
       /\ cpc[u] # "idle" => /\ cid[u] \in Pairings /\ ccode[u] \in Codes
                             /\ codeOf[cid[u]] = ccode[u]
       /\ cpc[u] \in {"lock", "device"} => codes[ccode[u]] = cid[u]
       /\ cpc[u] \in {"device", "clean"} => status[cid[u]] = "Paired"

\* A confirmed request has no code, or is being confirmed.
Spent ==
    \A r \in Pairings :
       /\ confirms[r] <= 1
       /\ confirms[r] > 0 =>
             /\ r # iid
             /\ \/ \A k \in Codes : codes[k] # r
                \/ \E u \in Confirming : cid[u] = r

\* A request that is being closed, or still written, is not pending.
Closing ==
    /\ \A r \in Pairings : r = xid => status[r] # "Pending"
    /\ \A r \in Pairings : r = iid => r \notin fuse

PairingInv ==
    /\ TypeOK
    /\ Locks
    /\ Drawn
    /\ CodesLead
    /\ Looked
    /\ Spent
    /\ Closing
    /\ PendingHasCode

-----------------------------------------------------------------------------
\* The initial state satisfies the invariant.
LEMMA InitPairing == Init => PairingInv
BY PairingAssumption
   DEF Init, PairingInv, TypeOK, Locks, Drawn, CodesLead, Looked, Spent, Closing,
       PendingHasCode, Confirming

\* Every step keeps the invariant.
LEMMA NextPairing == PairingInv /\ [Next]_vars => PairingInv'
<1> SUFFICES ASSUME PairingInv, [Next]_vars
             PROVE  PairingInv'
  OBVIOUS
<1> USE PairingAssumption
    DEF PairingInv, TypeOK, Locks, Drawn, CodesLead, Looked, Spent, Closing,
        PendingHasCode, Confirming, requestVars, lockVars, confirmVars
<1>1. ASSUME NEW r \in Pairings, NEW d \in Devices, NEW k \in Codes,
             InitiateDevice(r, d, k)
      PROVE  PairingInv'
  BY <1>1 DEF InitiateDevice
<1>2. CASE InitiateRequest
  BY <1>2 DEF InitiateRequest
<1>3. CASE InitiateCode
  BY <1>3 DEF InitiateCode
<1>4. ASSUME NEW u \in Users, NEW k \in Codes, ConfirmLook(u, k)
      PROVE  PairingInv'
  BY <1>4 DEF ConfirmLook
<1>5. ASSUME NEW u \in Users, ConfirmExpired(u)
      PROVE  PairingInv'
  BY <1>5 DEF ConfirmExpired, Returns
<1>6. ASSUME NEW u \in Users, ConfirmLock(u)
      PROVE  PairingInv'
  <2>1. Confirming = {} /\ codes[ccode[u]] = cid[u]
    BY <1>6 DEF ConfirmLock
  <2>2. confirms[cid[u]] = 0
    BY <2>1, <1>6 DEF ConfirmLock
  <2>3. Spent'
    BY <1>6, <2>1, <2>2 DEF ConfirmLock
  <2>4. PendingHasCode'
    BY <1>6 DEF ConfirmLock
  <2>5. TypeOK' /\ Locks' /\ Drawn' /\ CodesLead' /\ Looked' /\ Closing'
    BY <1>6, <2>1 DEF ConfirmLock
  <2> QED
    BY <2>3, <2>4, <2>5
<1>7. ASSUME NEW u \in Users, ConfirmDevice(u)
      PROVE  PairingInv'
  BY <1>7 DEF ConfirmDevice
<1>8. ASSUME NEW u \in Users, ConfirmClean(u)
      PROVE  PairingInv'
  <2>1. Confirming = {u} /\ codeOf[cid[u]] = ccode[u]
    BY <1>8 DEF ConfirmClean
  <2>2. \A k \in Codes : codes'[k] # cid[u]
    BY <1>8, <2>1 DEF ConfirmClean
  <2>3. Spent'
    BY <1>8, <2>1, <2>2 DEF ConfirmClean
  <2>4. PendingHasCode'
    BY <1>8, <2>1 DEF ConfirmClean
  <2>5. TypeOK' /\ Locks' /\ Drawn' /\ CodesLead' /\ Looked' /\ Closing'
    BY <1>8 DEF ConfirmClean
  <2> QED
    BY <2>3, <2>4, <2>5
<1>9. ASSUME NEW u \in Users, Bind(u)
      PROVE  PairingInv'
  BY <1>9 DEF Bind, Returns
<1>10. ASSUME NEW r \in Pairings, Cancel(r)
      PROVE  PairingInv'
  BY <1>10 DEF Cancel, Close
<1>11. ASSUME NEW r \in Pairings, Overdue(r)
      PROVE  PairingInv'
  BY <1>11 DEF Overdue
<1>12. ASSUME NEW r \in Pairings, Expire(r)
      PROVE  PairingInv'
  BY <1>12 DEF Expire, Close
<1>13. CASE CloseCode
  BY <1>13 DEF CloseCode
<1>14. ASSUME NEW d \in Devices, StatusLook(d)
      PROVE  PairingInv'
  BY <1>14 DEF StatusLook
<1>15. ASSUME NEW d \in Devices, Unbind(d)
      PROVE  PairingInv'
  BY <1>15 DEF Unbind
<1>16. CASE StatusRead
  BY <1>16 DEF StatusRead
<1>17. CASE Unpair
  BY <1>17 DEF Unpair
<1>18. CASE UNCHANGED vars
  BY <1>18 DEF vars
<1> QED
  BY <1>1, <1>2, <1>3, <1>4, <1>5, <1>6, <1>7, <1>8, <1>9, <1>10, <1>11,
     <1>12, <1>13, <1>14, <1>15, <1>16, <1>17, <1>18
  DEF Next, InitiateStep, ConfirmStep

-----------------------------------------------------------------------------
(* The theorems                                                            *)

\* The invariant holds in every reachable state.
THEOREM PairingInvariant == Spec => []PairingInv
BY InitPairing, NextPairing, PTL DEF Spec

\* The types of the manager's state, and that only operations which are where
\* they may hold a lock do hold it.
THEOREM PairingTyped == Spec => []TypeOK
BY PairingInvariant, PTL DEF PairingInv

\* A code pairs once, however many users send it at the same time.
THEOREM CodePairsOnce == Spec => []ConfirmedOnce
<1>1. PairingInv => ConfirmedOnce
  BY DEF PairingInv, Looked, Spent, ConfirmedOnce
<1> QED
  BY <1>1, PairingInvariant, PTL

\* A pending request is found by its code unless another drew the same one.
THEOREM PendingIsFound == Spec => []PendingHasCode
BY PairingInvariant, PTL DEF PairingInv

=============================================================================
