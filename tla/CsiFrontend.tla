---------------------------- MODULE CsiFrontend ----------------------------
(***************************************************************************)
(* Who keeps the CSI data plane alive for browsers. WsClientManager counts *)
(* the clients of /ws/csi and reports the first one that comes and the     *)
(* last one that goes; WifiSensingApiService answers by making the CSI     *)
(* service a consumer and the transport of frames available, at once, or   *)
(* by stopping both after a grace period, from a stop worker.              *)
(*                                                                         *)
(* Callers of the state-change callback: "httpd", the one server task, and *)
(* "csi", the task that sends directly while the queue is not enabled. The *)
(* stop worker runs as a task of its own or, when that cannot be created,  *)
(* inside the caller.                                                      *)
(***************************************************************************)
EXTENDS Naturals, FiniteSets

CONSTANTS
    Sockets,    \* socket numbers, reused when a connection closes
    MaxOpens,   \* bound on the connections opened
    MaxFaults   \* bound on lock timeouts, failed creations, failed disables

ASSUME CsiFrontendAssumption ==
    MaxOpens \in Nat /\ MaxFaults \in Nat

None    == "none"
Callers == {"httpd", "csi"}
Senders == {"broadcast", "csi"}
Tasks   == Callers \cup {"worker"}

VARIABLES
    open,       \* sockets with a connection
    clients,    \* _clients: the sockets registered
    pending,    \* _disconnectCallbackPending
    victims,    \* per sender: sockets it decided to remove
    closing,    \* sockets httpd was asked to close
    desired, due, running,   \* _csiFrontendDesiredActive, StopDueMs # 0,
                             \* StopTaskRunning
    pc,         \* place of every task in the lifecycle code
    clientLock, \* WsClientManager::_lock while a callback runs under it
    mutex,      \* _csiFrontendLifecycleMutex
    queue,      \* the CSI queue: "off", "on", "closing", "stuck"
    consumer,   \* CsiConsumer::Frontend is active
    failed,     \* the last start was deferred, or failed (history)
    overtook,   \* a stop came while another call was committed (history)
    opens, faults

connVars == <<open, clients, pending, victims, closing, opens>>
csiVars  == <<desired, due, running>>
outVars  == <<queue, consumer, failed, overtook>>
vars == <<connVars, csiVars, outVars, pc, clientLock, mutex, faults>>

Init ==
    /\ open = {} /\ clients = {}
    /\ victims = [s \in Senders |-> {}]
    /\ pending = FALSE /\ closing = {}
    /\ desired = FALSE /\ due = FALSE /\ running = FALSE
    /\ pc = [t \in Tasks |-> "idle"]
    /\ clientLock = None /\ mutex = None
    /\ queue = "off" /\ consumer = FALSE
    /\ failed = FALSE /\ overtook = FALSE
    /\ opens = 0 /\ faults = 0

Goto(t, from, to) == pc[t] = from /\ pc' = [pc EXCEPT ![t] = to]
Fault   == faults < MaxFaults /\ faults' = faults + 1
NoFault == UNCHANGED faults
HasClients == clients # {}
WasLast(f) == clients = {f}

-----------------------------------------------------------------------------
(* Connections come and go; all of this runs on the httpd task.            *)

(* A handshake: register the client, and report it if it is the first. *)
Handshake(f) ==
    /\ pc["httpd"] = "idle" /\ clientLock = None
    /\ opens < MaxOpens /\ f \notin open
    /\ opens' = opens + 1
    /\ open' = open \cup {f}
    /\ clients' = clients \cup {f}
    /\ IF HasClients THEN UNCHANGED <<pending, pc>>
       ELSE pending' = FALSE /\ pc' = [pc EXCEPT !["httpd"] = "start"]
    /\ UNCHANGED <<victims, closing, csiVars, outVars, clientLock, mutex, faults>>

(* The client map stays locked for 200 ms: connected but not registered. *)
HandshakeBusy(f) ==
    /\ pc["httpd"] = "idle" /\ Fault
    /\ opens < MaxOpens /\ f \notin open
    /\ opens' = opens + 1
    /\ open' = open \cup {f}
    /\ UNCHANGED <<clients, pending, victims, closing, csiVars, outVars, pc,
                   clientLock, mutex>>

(* removeClient by a caller that reports: the last client that leaves is   *)
(* reported with the map still locked, and so is a departure the broadcast *)
(* task left pending.                                                      *)
Remove(t, f) ==
    /\ clientLock = None
    /\ clients' = clients \ {f}
    /\ IF WasLast(f) \/ (~HasClients /\ pending)
       THEN /\ pending' = FALSE
            /\ clientLock' = t
            /\ pc' = [pc EXCEPT ![t] = "stop"]
       ELSE UNCHANGED <<pending, clientLock, pc>>

(* The peer goes away or httpd was told to close: cleanupClient. *)
Close(f) ==
    /\ pc["httpd"] = "idle" /\ f \in open
    /\ open' = open \ {f}
    /\ closing' = closing \ {f}
    /\ \/ Remove("httpd", f) /\ NoFault
       \/ Fault /\ UNCHANGED <<clients, pending, clientLock, pc>>
    /\ UNCHANGED <<victims, opens, csiVars, outVars, mutex>>

(* Any frame from a client is its signal to stop; the socket stays open. *)
StopFrame(f) ==
    /\ pc["httpd"] = "idle" /\ f \in open
    /\ \/ Remove("httpd", f) /\ NoFault
       \/ Fault /\ UNCHANGED <<clients, pending, clientLock, pc>>
    /\ UNCHANGED <<open, victims, closing, opens, csiVars, outVars, mutex>>

(* Sends to a client fail often enough: its socket will be removed. The    *)
(* broadcast task sends what is queued; while the queue is not enabled the *)
(* CSI task sends by itself. A client is sent to once its first 250 ms are *)
(* over, wherever its start has got to by then.                            *)
SendFails(s, f) ==
    /\ clientLock = None
    /\ f \in clients \ victims[s]
    /\ \/ s = "broadcast" /\ queue # "off"
       \/ s = "csi" /\ queue # "on" /\ pc["csi"] = "idle"
    /\ victims' = [victims EXCEPT ![s] = @ \cup {f}]
    /\ UNCHANGED <<open, clients, pending, closing, opens, csiVars, outVars,
                   pc, clientLock, mutex, faults>>

(* Mutant of RemoveUnreported: any departure is left pending. *)
AnyDeparturePending(f) ==
    /\ clientLock = None
    /\ clients' = clients \ {f}
    /\ pending' = TRUE
    /\ UNCHANGED <<clientLock, pc>>

(* The broadcast task does not report, it leaves that to a later call. *)
RemoveUnreported(f) ==
    /\ clientLock = None
    /\ clients' = clients \ {f}
    /\ pending' = (pending \/ WasLast(f))
    /\ UNCHANGED <<clientLock, pc>>

(* After the sends: the map is asked for the socket number alone. *)
RemoveVictim(s, f) ==
    /\ f \in victims[s]
    /\ victims' = [victims EXCEPT ![s] = @ \ {f}]
    /\ \/ /\ NoFault
          /\ \/ s = "broadcast" /\ RemoveUnreported(f)
             \/ s = "csi" /\ pc["csi"] = "idle" /\ Remove("csi", f)
          /\ closing' = IF f \in clients \cap open
                        THEN closing \cup {f} ELSE closing
       \/ /\ Fault
          /\ UNCHANGED <<clients, pending, closing, clientLock, pc>>
    /\ UNCHANGED <<open, opens, csiVars, outVars, mutex>>

-----------------------------------------------------------------------------
(* handleCsiFrontendStateChange(true), on httpd. *)

StartDesired ==
    /\ Goto("httpd", "start", "cancel")
    /\ desired' = TRUE
    /\ UNCHANGED <<connVars, due, running, outVars, clientLock, mutex, faults>>

StartCancel ==
    /\ Goto("httpd", "cancel", "startLock")
    /\ due' = FALSE
    /\ UNCHANGED <<connVars, desired, running, outVars, clientLock, mutex, faults>>

StartLock ==
    /\ mutex = None
    /\ Goto("httpd", "startLock", "ensure")
    /\ mutex' = "httpd"
    /\ UNCHANGED <<connVars, csiVars, outVars, clientLock, faults>>

(* "CSI frontend start deferred: lifecycle lock busy" *)
StartDeferred ==
    /\ mutex # None /\ Fault
    /\ Goto("httpd", "startLock", "idle")
    /\ failed' = TRUE
    /\ UNCHANGED <<connVars, csiVars, queue, consumer, overtook, clientLock, mutex>>

(* ensureCsiTransportReady, then the consumer is switched on. *)
Ensure ==
    /\ Goto("httpd", "ensure", "idle")
    /\ mutex' = None
    /\ \/ queue' = "on" /\ consumer' = TRUE /\ failed' = FALSE /\ NoFault
       \/ queue # "on" /\ Fault /\ failed' = TRUE /\ UNCHANGED <<queue, consumer>>
    /\ UNCHANGED <<connVars, csiVars, overtook, clientLock>>

-----------------------------------------------------------------------------
(* handleCsiFrontendStateChange(false) and scheduleCsiFrontendStop. *)

(* Whether another call is past the point where it looks what is desired. *)
Committed ==
    \E t \in Tasks : pc[t] \in {"cancel", "startLock", "ensure", "off", "teardown",
                                "clear", "exit"}

StopDesired(t) ==
    /\ Goto(t, "stop", "schedule")
    /\ desired' = FALSE
    /\ overtook' = (overtook \/ Committed)
    /\ UNCHANGED <<connVars, due, running, queue, consumer, failed, clientLock,
                   mutex, faults>>

Schedule(t) ==
    /\ Goto(t, "schedule", "claim")
    /\ due' = TRUE
    /\ overtook' = (overtook \/ Committed)
    /\ UNCHANGED <<connVars, desired, running, queue, consumer, failed, clientLock,
                   mutex, faults>>

Return(t) == clientLock' = IF clientLock = t THEN None ELSE clientLock

(* A worker that has not cleared its flag yet is trusted to see the stop. *)
Claimed(t) ==
    /\ running
    /\ Goto(t, "claim", "idle")
    /\ Return(t)
    /\ overtook' = (overtook \/ Committed)
    /\ UNCHANGED <<connVars, csiVars, queue, consumer, failed, mutex, faults>>

Claim(t) ==
    /\ ~running
    /\ running' = TRUE
    /\ Goto(t, "claim", "create")
    /\ UNCHANGED <<connVars, desired, due, outVars, clientLock, mutex, faults>>

CreateWorker(t) ==
    /\ pc[t] = "create" /\ pc["worker"] = "idle"
    /\ pc' = [pc EXCEPT ![t] = "idle", !["worker"] = "readDue"]
    /\ Return(t)
    /\ UNCHANGED <<connVars, csiVars, outVars, mutex, faults>>

(* "stop worker creation failed; stopping synchronously" *)
CreateFails(t) ==
    /\ Fault
    /\ Goto(t, "create", "readDue")
    /\ running' = FALSE
    /\ UNCHANGED <<connVars, desired, due, outVars, clientLock, mutex>>

-----------------------------------------------------------------------------
(* runCsiFrontendStopWorker, in whichever task runs it. *)

ReadDue(t) ==
    /\ pc[t] = "readDue"
    /\ pc' = [pc EXCEPT ![t] = IF due THEN "readDesired" ELSE "exit"]
    /\ UNCHANGED <<connVars, csiVars, outVars, clientLock, mutex, faults>>

ReadDesired(t) ==
    /\ pc[t] = "readDesired"
    /\ pc' = [pc EXCEPT ![t] = IF desired THEN "exit" ELSE "grace"]
    /\ UNCHANGED <<connVars, csiVars, outVars, clientLock, mutex, faults>>

(* Not due yet: sleep and look again. *)
NotDue(t) ==
    /\ Goto(t, "grace", "readDue")
    /\ UNCHANGED <<connVars, csiVars, outVars, clientLock, mutex, faults>>

GraceOver(t) ==
    /\ Goto(t, "grace", "stopLock")
    /\ UNCHANGED <<connVars, csiVars, outVars, clientLock, mutex, faults>>

(* Mutant of StopLock: the lifecycle mutex is not waited for. *)
StopLockUnguarded(t) ==
    /\ Goto(t, "stopLock", "check")
    /\ mutex' = t
    /\ UNCHANGED <<connVars, csiVars, outVars, clientLock, faults>>

StopLock(t) ==
    /\ mutex = None
    /\ Goto(t, "stopLock", "check")
    /\ mutex' = t
    /\ UNCHANGED <<connVars, csiVars, outVars, clientLock, faults>>

(* "CSI frontend stop skipped: lifecycle lock busy" *)
StopSkipped(t) ==
    /\ mutex # None /\ Fault
    /\ Goto(t, "stopLock", "exit")
    /\ UNCHANGED <<connVars, csiVars, outVars, clientLock, mutex>>

(* Mutant of Check: the stop is not reconsidered. *)
CheckSkipped(t) ==
    /\ Goto(t, "check", "off")
    /\ UNCHANGED <<connVars, csiVars, outVars, clientLock, mutex, faults>>

Check(t) ==
    /\ pc[t] = "check"
    /\ pc' = [pc EXCEPT ![t] = IF desired \/ HasClients THEN "exit" ELSE "off"]
    /\ UNCHANGED <<connVars, csiVars, outVars, clientLock, mutex, faults>>

ConsumerOff(t) ==
    /\ Goto(t, "off", "teardown")
    /\ consumer' = FALSE
    /\ queue' = IF queue = "on" THEN "closing" ELSE queue
    /\ UNCHANGED <<connVars, csiVars, failed, overtook, clientLock, mutex, faults>>

(* disableQueue succeeds, or gives up, on a message or on its own lock, and *)
(* nobody looks at its result.                                             *)
Teardown(t) ==
    /\ Goto(t, "teardown", "clear")
    /\ \/ queue' = "off" /\ NoFault
       \/ queue # "off" /\ queue' = "stuck" /\ Fault
       \/ queue = "closing" /\ queue' = "on" /\ Fault
    /\ UNCHANGED <<connVars, csiVars, consumer, failed, overtook, clientLock, mutex>>

ClearDue(t) ==
    /\ Goto(t, "clear", "exit")
    /\ due' = FALSE
    /\ UNCHANGED <<connVars, desired, running, outVars, clientLock, mutex, faults>>

(* Mutant of Exit: a way out on which the flag stays set. *)
ExitStaysRunning(t) ==
    /\ Goto(t, "exit", "idle")
    /\ running' = (running /\ mutex # t)
    /\ mutex' = IF mutex = t THEN None ELSE mutex
    /\ Return(t)
    /\ UNCHANGED <<connVars, desired, due, outVars, faults>>

(* Clear the flag; the mutex and a lock of the caller go on return. *)
Exit(t) ==
    /\ Goto(t, "exit", "idle")
    /\ running' = FALSE
    /\ mutex' = IF mutex = t THEN None ELSE mutex
    /\ Return(t)
    /\ UNCHANGED <<connVars, desired, due, outVars, faults>>

-----------------------------------------------------------------------------
StopWorker(t) ==
    \/ ReadDue(t) \/ ReadDesired(t) \/ NotDue(t) \/ GraceOver(t)
    \/ StopLock(t) \/ StopSkipped(t) \/ Check(t) \/ ConsumerOff(t) \/ Teardown(t)
    \/ ClearDue(t) \/ Exit(t)

Start == StartDesired \/ StartCancel \/ StartLock \/ StartDeferred \/ Ensure

Stop(t) ==
    \/ StopDesired(t) \/ Schedule(t) \/ Claimed(t) \/ Claim(t)
    \/ CreateWorker(t) \/ CreateFails(t)

Connections(f) ==
    \/ Handshake(f) \/ HandshakeBusy(f) \/ Close(f) \/ StopFrame(f)
    \/ \E s \in Senders : SendFails(s, f)

Next ==
    \/ \E f \in Sockets :
          Connections(f) \/ \E s \in Senders : RemoveVictim(s, f)
    \/ Start
    \/ \E t \in Callers : Stop(t)
    \/ \E t \in Tasks : StopWorker(t)

Spec == Init /\ [][Next]_vars

(* Every task finishes what it is in; the grace period ends. Connections   *)
(* owe nothing, except that httpd does close what it was told to close.    *)
FairSpec ==
    /\ Spec
    /\ WF_vars(Start)
    /\ \A t \in Callers : WF_vars(Stop(t))
    /\ \A t \in Tasks : WF_vars(StopWorker(t)) /\ SF_vars(GraceOver(t))
    /\ \A f \in Sockets :
          /\ \A s \in Senders : WF_vars(RemoveVictim(s, f))
          /\ WF_vars(f \in closing /\ Close(f))

-----------------------------------------------------------------------------
Stages == {"idle", "start", "cancel", "startLock", "ensure", "stop", "schedule",
           "claim", "create", "readDue", "readDesired", "grace", "stopLock",
           "check", "off", "teardown", "clear", "exit"}

(* Every variable keeps its type; only callers ever hold the client map.   *)
TypeOK ==
    /\ open \subseteq Sockets /\ clients \subseteq Sockets /\ closing \subseteq Sockets
    /\ victims \in [Senders -> SUBSET Sockets]
    /\ {pending, desired, due, running, consumer, failed, overtook} \subseteq BOOLEAN
    /\ pc \in [Tasks -> Stages]
    /\ clientLock \in Callers \cup {None} /\ mutex \in Tasks \cup {None}
    /\ queue \in {"off", "on", "closing", "stuck"}
    /\ opens \in 0 .. MaxOpens /\ faults \in 0 .. MaxFaults

Quiet == \A t \in Tasks : pc[t] = "idle"

(* Whenever the lifecycle code is at rest and the last start did not fail, *)
(* a registered browser has its consumer and its transport, whichever      *)
(* earlier stop was on its way when it connected or failed since.          *)
ServedWhenQuiet ==
    Quiet /\ HasClients /\ ~failed => consumer /\ queue = "on"

(* Whenever the lifecycle code is at rest and its last word was to stop,   *)
(* CSI is off: a delayed stop is never forgotten, unless it came while a   *)
(* start or an earlier stop was past the point where it looks what is      *)
(* desired (handleCsiFrontendStateChange, runCsiFrontendStopWorker).       *)
StoppedWhenQuiet ==
    Quiet /\ ~desired /\ ~overtook /\ faults = 0 => ~consumer /\ queue = "off"

(* A departure left pending is one that emptied the map. *)
PendingMeansEmpty == pending => ~HasClients

(* The flag is what keeps a second worker from being created. *)
OneWorker ==
    \A t \in Callers : pc[t] = "create" => pc["worker"] = "idle"

(* The worker never takes the transport away from under a start: they      *)
(* exclude each other.                                                     *)
StartExcludesTeardown ==
    pc["httpd"] = "ensure" =>
        \A t \in Tasks : pc[t] \notin {"check", "off", "teardown", "clear"}

(* A connected browser that stays is served in the end, unless something   *)
(* failed.                                                                 *)
ClientServed ==
    HasClients ~> (~HasClients \/ faults > 0 \/ (consumer /\ queue = "on"))

=============================================================================
