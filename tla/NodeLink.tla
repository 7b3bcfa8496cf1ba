------------------------------ MODULE NodeLink ------------------------------
(***************************************************************************)
(* The life cycle of nodes and of their links to the Hub: Node.start and    *)
(* Node.stop, HubConnection (start, stop, connection_loop and              *)
(* connect_and_run) and the message handler's task.                        *)
(*                                                                         *)
(* Each start has a Node of its own, numbered in the order of the starts:  *)
(* uhorse-node starts one Node once, and the desktop (NodeDesktop) builds  *)
(* a new one whenever it starts.  A stop waits for nobody: loop and        *)
(* handler go on until they next look at their flag, so those of an old    *)
(* Node may live beside those of its successor.  What the messages say is  *)
(* left to NodeRuntime.                                                    *)
(***************************************************************************)
EXTENDS Naturals, FiniteSets

CONSTANTS
    MaxStarts,    \* bound: how many Nodes are started
    MaxAttempts,  \* config.max_reconnect_attempts
    InCap,        \* capacity of the inbound channel (100 in the code)
    OutCap        \* capacity of the outbound channel (100 in the code)

ASSUME LinkAssumption ==
    /\ MaxStarts \in Nat \ {0} /\ MaxAttempts \in Nat
    /\ InCap \in Nat \ {0} /\ OutCap \in Nat \ {0}

Starts == 1 .. MaxStarts

VARIABLES
    begun,      \* Nodes started so far
    reach,      \* the Hub can be reached
    up,         \* up[i]: Node.running of the i-th Node
    running,    \* running[i]: HubConnection.running
    state,      \* state[i]: HubConnection.state
    lpc,        \* lpc[i]: where the connection loop is
    attempts,   \* attempts[i]: its reconnect_attempts
    sock,       \* sock[i]: its WebSocket is alive
    confirmed,  \* confirmed[i]: hub_registration_confirmed
    inq,        \* inq[i]: messages in the inbound channel
    outq,       \* outq[i]: messages in the outbound channel
    hp          \* hp[i]: the holder of the channels' other ends, the handler

flagVars == <<begun, reach, up, running>>
loopVars == <<lpc, attempts, sock, confirmed>>
chanVars == <<inq, outq, hp>>
linkVars == <<flagVars, state, loopVars, chanVars>>

States == {"Disconnected", "Connecting", "Authenticating", "Authenticated",
           "Reconnecting", "Failed"}

LinkTypeOK ==
    /\ begun \in 0 .. MaxStarts /\ reach \in BOOLEAN
    /\ up \in [Starts -> BOOLEAN] /\ running \in [Starts -> BOOLEAN]
    /\ state \in [Starts -> States]
    /\ lpc \in [Starts -> {"none", "top", "connect", "select", "forward",
                           "sleep", "ending", "gone"}]
    /\ attempts \in [Starts -> 0 .. MaxAttempts + 1]
    /\ sock \in [Starts -> BOOLEAN] /\ confirmed \in [Starts -> BOOLEAN]
    /\ inq \in [Starts -> 0 .. InCap]
    /\ outq \in [Starts -> 0 .. OutCap]
    /\ hp \in [Starts -> {"none", "held", "recv", "sending", "gone"}]

LinkInit ==
    /\ begun = 0 /\ reach = TRUE
    /\ up = [i \in Starts |-> FALSE]
    /\ running = [i \in Starts |-> FALSE]
    /\ state = [i \in Starts |-> "Disconnected"]
    /\ lpc = [i \in Starts |-> "none"]
    /\ attempts = [i \in Starts |-> 0]
    /\ sock = [i \in Starts |-> FALSE]
    /\ confirmed = [i \in Starts |-> FALSE]
    /\ inq = [i \in Starts |-> 0]
    /\ outq = [i \in Starts |-> 0]
    /\ hp = [i \in Starts |-> "none"]

Alive(i) == lpc[i] \notin {"none", "gone"}

-----------------------------------------------------------------------------
(* Node.start and Node.stop                                                *)

\* connection.start; a new Node and its connection do not run yet.
NodeStart(i) ==
    /\ i = begun + 1 /\ i \in Starts
    /\ begun' = i
    /\ up' = [up EXCEPT ![i] = TRUE]
    /\ running' = [running EXCEPT ![i] = TRUE]
    /\ state' = [state EXCEPT ![i] = "Connecting"]
    /\ lpc' = [lpc EXCEPT ![i] = "top"]
    /\ hp' = [hp EXCEPT ![i] = "held"]
    /\ UNCHANGED <<reach, attempts, sock, confirmed, inq, outq>>

\* start_message_handler; the handler's first look at Node.running is taken to
\* be part of the start.
NodeStarted(i) ==
    /\ hp[i] = "held"
    /\ hp' = [hp EXCEPT ![i] = "recv"]
    /\ UNCHANGED <<flagVars, state, loopVars, inq, outq>>

\* start_workspace_watcher fails: the channels are dropped, and the connection
\* is stopped.
NodeStartFails(i) ==
    /\ hp[i] = "held"
    /\ hp' = [hp EXCEPT ![i] = "gone"]
    /\ inq' = [inq EXCEPT ![i] = 0]
    /\ up' = [up EXCEPT ![i] = FALSE]
    /\ running' = [running EXCEPT ![i] = FALSE]
    /\ UNCHANGED <<begun, reach, state, loopVars, outq>>

\* Node.stop, then connection.stop: the flag, ...
NodeStop(i) ==
    /\ up' = [up EXCEPT ![i] = FALSE]
    /\ running' = [running EXCEPT ![i] = FALSE]
    /\ UNCHANGED <<begun, reach, state, loopVars, chanVars>>

\* ... and, when its lock is free, the state.
NodeStopped(i) ==
    /\ ~up[i]
    /\ state' = [state EXCEPT ![i] = "Disconnected"]
    /\ UNCHANGED <<flagVars, loopVars, chanVars>>

-----------------------------------------------------------------------------
(* connection_loop and connect_and_run                                     *)

LoopTop(i) ==
    /\ lpc[i] = "top"
    /\ lpc' = [lpc EXCEPT ![i] = IF running[i] THEN "connect" ELSE "ending"]
    /\ UNCHANGED <<flagVars, state, attempts, sock, confirmed, chanVars>>

\* connect_and_run drops the socket and its own variables.
Hangs(i) ==
    /\ sock' = [sock EXCEPT ![i] = FALSE]
    /\ confirmed' = [confirmed EXCEPT ![i] = FALSE]

\* connect_and_run returned Ok: the next attempt follows at once, and the
\* state stays what it was.
EndNormally(i) ==
    /\ lpc' = [lpc EXCEPT ![i] = "top"]
    /\ attempts' = [attempts EXCEPT ![i] = 0]
    /\ Hangs(i)
    /\ UNCHANGED state

\* It returned an error.  Giving up ends the loop and leaves `running` set.
EndWithError(i) ==
    /\ attempts' = [attempts EXCEPT ![i] = @ + 1]
    /\ Hangs(i)
    /\ IF attempts'[i] > MaxAttempts
       THEN /\ state' = [state EXCEPT ![i] = "Failed"]
            /\ lpc' = [lpc EXCEPT ![i] = "ending"]
       ELSE /\ state' = [state EXCEPT ![i] = "Reconnecting"]
            /\ lpc' = [lpc EXCEPT ![i] = "sleep"]

\* The reconnection interval is over.
Retry(i) ==
    /\ lpc[i] = "sleep"
    /\ lpc' = [lpc EXCEPT ![i] = "top"]
    /\ UNCHANGED <<flagVars, state, attempts, sock, confirmed, chanVars>>

\* Slip: only stop writes the state.
LoopEndsSilently(i) ==
    /\ lpc[i] = "ending"
    /\ lpc' = [lpc EXCEPT ![i] = "gone"]
    /\ outq' = [outq EXCEPT ![i] = 0]
    /\ UNCHANGED <<flagVars, state, attempts, sock, confirmed, inq, hp>>

\* The loop drops its ends of the channels.
LoopEnds(i) ==
    /\ lpc[i] = "ending"
    /\ lpc' = [lpc EXCEPT ![i] = "gone"]
    /\ state' = [state EXCEPT ![i] = "Disconnected"]
    /\ outq' = [outq EXCEPT ![i] = 0]
    /\ UNCHANGED <<flagVars, attempts, sock, confirmed, inq, hp>>

\* Connected, the Register message sent.
Connect(i) ==
    /\ lpc[i] = "connect" /\ reach
    /\ sock' = [sock EXCEPT ![i] = TRUE]
    /\ state' = [state EXCEPT ![i] = "Authenticating"]
    /\ lpc' = [lpc EXCEPT ![i] = "select"]
    /\ UNCHANGED <<flagVars, attempts, confirmed, chanVars>>

\* No connection, none in time, or the Register message cannot be sent.
ConnectFails(i) ==
    /\ lpc[i] = "connect"
    /\ EndWithError(i)
    /\ UNCHANGED <<flagVars, chanVars>>

\* The flag is seen when a branch of select! has completed; the heartbeat
\* timer completes one in the end.
SelectStops(i) ==
    /\ lpc[i] = "select" /\ ~running[i]
    /\ EndNormally(i)
    /\ UNCHANGED <<flagVars, chanVars>>

\* A message of the Hub; the first confirms the registration.
Receive(i) ==
    /\ lpc[i] = "select" /\ sock[i]
    /\ confirmed' = [confirmed EXCEPT ![i] = TRUE]
    /\ state' = [state EXCEPT ![i] = IF confirmed[i] THEN @ ELSE "Authenticated"]
    /\ lpc' = [lpc EXCEPT ![i] = "forward"]
    /\ UNCHANGED <<flagVars, attempts, sock, chanVars>>

\* inbound_tx.send waits for room; meanwhile the loop takes nothing from the
\* outbound channel and does not look at its flag.
Forward(i) ==
    /\ lpc[i] = "forward" /\ hp[i] # "gone" /\ inq[i] < InCap
    /\ inq' = [inq EXCEPT ![i] = @ + 1]
    /\ lpc' = [lpc EXCEPT ![i] = "select"]
    /\ UNCHANGED <<flagVars, state, attempts, sock, confirmed, outq, hp>>

ForwardFails(i) ==
    /\ lpc[i] = "forward" /\ hp[i] = "gone"
    /\ EndNormally(i)
    /\ UNCHANGED <<flagVars, chanVars>>

\* The stream ends or the Hub closes it; before the confirmation this is an
\* error.
StreamEnds(i) ==
    /\ lpc[i] = "select" /\ ~sock[i]
    /\ IF confirmed[i] THEN EndNormally(i) ELSE EndWithError(i)
    /\ UNCHANGED <<flagVars, chanVars>>

\* A message of the outbound channel is written; a live socket takes it.
SendOutbound(i) ==
    /\ lpc[i] = "select" /\ sock[i] /\ outq[i] > 0
    /\ outq' = [outq EXCEPT ![i] = @ - 1]
    /\ UNCHANGED <<flagVars, state, loopVars, inq, hp>>

\* A read or a write fails, and the message that was to be written is lost;
\* this is never an error.
SocketError(i) ==
    /\ lpc[i] = "select" /\ ~sock[i]
    /\ EndNormally(i)
    /\ outq' = [outq EXCEPT ![i] = IF @ > 0 THEN @ - 1 ELSE 0]
    /\ UNCHANGED <<flagVars, inq, hp>>

\* Handler and Node have dropped their senders of the outbound channel.
OutboundClosed(i) ==
    /\ lpc[i] = "select" /\ hp[i] = "gone" /\ outq[i] = 0
    /\ ~up[i]
    /\ EndNormally(i)
    /\ UNCHANGED <<flagVars, chanVars>>

-----------------------------------------------------------------------------
(* The handler and the surroundings                                        *)

\* The message is dealt with: the handler looks at Node.running, and goes on to
\* what is left in the inbound channel or drops it.
Look(i, rest) ==
    /\ hp' = [hp EXCEPT ![i] = IF up[i] THEN "recv" ELSE "gone"]
    /\ inq' = [inq EXCEPT ![i] = IF up[i] THEN rest ELSE 0]

\* handle_hub_message: there may be a message to send to the Hub.
Handle(i) ==
    /\ hp[i] = "recv" /\ inq[i] > 0
    /\ \/ Look(i, inq[i] - 1)
       \/ /\ hp' = [hp EXCEPT ![i] = "sending"]
          /\ inq' = [inq EXCEPT ![i] = @ - 1]
    /\ UNCHANGED <<flagVars, state, loopVars, outq>>

\* outbound_tx.send waits for room; it fails when the loop has ended.
HandlerSends(i) ==
    /\ hp[i] = "sending"
    /\ \/ /\ lpc[i] # "gone" /\ outq[i] < OutCap
          /\ outq' = [outq EXCEPT ![i] = @ + 1]
       \/ lpc[i] = "gone" /\ UNCHANGED outq
    /\ Look(i, inq[i])
    /\ UNCHANGED <<flagVars, state, loopVars>>

\* The loop has dropped its end of the inbound channel.
HandlerEnds(i) ==
    /\ hp[i] = "recv" /\ inq[i] = 0 /\ lpc[i] = "gone"
    /\ hp' = [hp EXCEPT ![i] = "gone"]
    /\ UNCHANGED <<flagVars, state, loopVars, inq, outq>>

\* report_notification_nowait: try_send, which does not wait.
Report(i) ==
    /\ up[i] /\ hp[i] # "held"
    /\ Alive(i) /\ outq[i] < OutCap
    /\ outq' = [outq EXCEPT ![i] = @ + 1]
    /\ UNCHANGED <<flagVars, state, loopVars, inq, hp>>

SocketDies(i) ==
    /\ sock[i]
    /\ sock' = [sock EXCEPT ![i] = FALSE]
    /\ UNCHANGED <<flagVars, state, lpc, attempts, confirmed, chanVars>>

\* The Hub goes away, with every connection to it, or comes back.
HubChanges ==
    /\ reach' = ~reach
    /\ sock' = [i \in Starts |-> sock[i] /\ reach']
    /\ UNCHANGED <<begun, up, running, state, lpc, attempts, confirmed, chanVars>>

-----------------------------------------------------------------------------
LoopStep(i) ==
    \/ LoopTop(i) \/ Retry(i) \/ LoopEnds(i) \/ Connect(i) \/ ConnectFails(i)
    \/ SelectStops(i) \/ Forward(i) \/ ForwardFails(i) \/ StreamEnds(i)
    \/ SendOutbound(i) \/ SocketError(i) \/ OutboundClosed(i)

HandlerStep(i) == Handle(i) \/ HandlerSends(i) \/ HandlerEnds(i)

LinkNext ==
    \/ HubChanges
    \/ \E i \in Starts : \/ LoopStep(i) \/ HandlerStep(i)
                         \/ Receive(i) \/ Report(i) \/ SocketDies(i)
=============================================================================
