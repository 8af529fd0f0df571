----------------------------- MODULE WsTaskQueue -----------------------------
(***************************************************************************)
(* The WebSocket message queue and its broadcast task: producers enqueue,  *)
(* any task may enable or disable the queue, and the broadcast task drains *)
(* it, parks, and is deleted by whoever disables it.                       *)
(*                                                                         *)
(* A queue object is the number of the enable call that created it, so a   *)
(* handle kept across a destroy can be told from the queue that replaced   *)
(* it. A message is a number; its payload is the pool's business.          *)
(***************************************************************************)
EXTENDS Naturals, Sequences, FiniteSets, Functions

CONSTANTS
    Producers,     \* tasks that broadcast
    Controllers,   \* tasks that enable and disable the queue
    NoOne,         \* the lifecycle lock is free
    QueueSize,     \* capacity of a queue
    MaxMsgs,       \* bound on the messages offered
    MaxQueues      \* bound on the queues created

ASSUME WsTaskQueueAssumption ==
    /\ IsFiniteSet(Producers)
    /\ NoOne \notin Controllers
    /\ QueueSize \in Nat \ {0}
    /\ MaxMsgs \in Nat /\ MaxQueues \in Nat

VARIABLES
    lock,       \* holder of _lifecycleLock among the controllers
    queue,      \* _msgQueue: number of the live queue, 0 for nullptr
    created,    \* queues created so far
    content,    \* messages waiting in the live queue
    accepting, shutdown, inFlight,   \* the atomics of the same names
    task,       \* state of the broadcast task
    current,    \* message the broadcast task is sending, 0 for none
    pc, held, handle,   \* producers: place, message, captured queue handle
    cpc,        \* controllers: place
    offered,    \* messages offered so far
    released    \* how often each message was released (history)

queueVars == <<queue, created, content>>
prodVars  == <<pc, held, handle, offered>>
ctlVars   == <<cpc, lock>>
vars == <<lock, queue, created, content, accepting, shutdown, inFlight, task,
          current, pc, held, handle, cpc, offered, released>>

Msgs == 1 .. MaxMsgs

Init ==
    /\ lock = NoOne
    /\ queue = 0 /\ created = 0 /\ content = <<>>
    /\ accepting = FALSE /\ shutdown = FALSE /\ inFlight = 0
    /\ task = "none" /\ current = 0
    /\ pc = [p \in Producers |-> "idle"]
    /\ held = [p \in Producers |-> 0]
    /\ handle = [p \in Producers |-> 0]
    /\ cpc = [c \in Controllers |-> "idle"]
    /\ offered = 0
    /\ released = [m \in Msgs |-> 0]

Release(ms) == released' = [m \in Msgs |-> released[m] + IF m \in ms THEN 1 ELSE 0]

Move(p, from, to)  == pc[p] = from /\ pc' = [pc EXCEPT ![p] = to]
Goto(c, from, to)  == cpc[c] = from /\ cpc' = [cpc EXCEPT ![c] = to]
Unlock             == lock' = NoOne

-----------------------------------------------------------------------------
(* Producers: WsTaskQueue::enqueue. *)

Offer(p) ==
    /\ offered < MaxMsgs
    /\ Move(p, "idle", "offer")
    /\ offered' = offered + 1
    /\ held' = [held EXCEPT ![p] = offered + 1]
    /\ UNCHANGED <<queueVars, ctlVars, accepting, shutdown, inFlight, task,
                   current, handle, released>>

(* The lifecycle lock stays taken for 250 ms: release and drop. *)
EnqueueBusy(p) ==
    /\ lock # NoOne
    /\ Move(p, "offer", "idle")
    /\ Release({held[p]})
    /\ held' = [held EXCEPT ![p] = 0]
    /\ UNCHANGED <<queueVars, ctlVars, accepting, shutdown, inFlight, task,
                   current, handle, offered>>

Admits == accepting /\ ~shutdown /\ queue # 0

EnqueueRefused(p) ==
    /\ lock = NoOne
    /\ ~Admits
    /\ Move(p, "offer", "idle")
    /\ Release({held[p]})
    /\ held' = [held EXCEPT ![p] = 0]
    /\ UNCHANGED <<queueVars, ctlVars, accepting, shutdown, inFlight, task,
                   current, handle, offered>>

(* Counted in under the lock; the lock is gone when the message is sent. *)
EnqueueAdmitted(p) ==
    /\ lock = NoOne
    /\ Admits
    /\ Move(p, "offer", "send")
    /\ handle' = [handle EXCEPT ![p] = queue]
    /\ inFlight' = inFlight + 1
    /\ UNCHANGED <<queueVars, ctlVars, accepting, shutdown, task, current,
                   held, offered, released>>

(* Mutant of SendOk: an urgent message jumps the queue. *)
SendOkToFront(p) ==
    /\ Len(content) < QueueSize
    /\ Move(p, "send", "sent")
    /\ content' = <<held[p]>> \o content
    /\ held' = [held EXCEPT ![p] = 0]
    /\ UNCHANGED <<queue, created, ctlVars, accepting, shutdown, inFlight,
                   task, current, handle, offered, released>>

SendOk(p) ==
    /\ Len(content) < QueueSize
    /\ Move(p, "send", "sent")
    /\ content' = Append(content, held[p])
    /\ held' = [held EXCEPT ![p] = 0]
    /\ UNCHANGED <<queue, created, ctlVars, accepting, shutdown, inFlight,
                   task, current, handle, offered, released>>

SendFull(p) ==
    /\ Len(content) = QueueSize
    /\ Move(p, "send", "unsent")
    /\ UNCHANGED <<queueVars, ctlVars, accepting, shutdown, inFlight, task,
                   current, held, handle, offered, released>>

CountOut(p) ==
    /\ \/ Move(p, "sent", "idle") /\ handle' = [handle EXCEPT ![p] = 0]
       \/ Move(p, "unsent", "report") /\ UNCHANGED handle
    /\ inFlight' = inFlight - 1
    /\ UNCHANGED <<queueVars, ctlVars, accepting, shutdown, task, current,
                   held, offered, released>>

(* Mutant of ReportFull: the message is forgotten, not released. *)
ReportKeepsPayload(p) ==
    /\ Move(p, "report", "idle")
    /\ held' = [held EXCEPT ![p] = 0]
    /\ handle' = [handle EXCEPT ![p] = 0]
    /\ UNCHANGED <<queueVars, ctlVars, accepting, shutdown, inFlight, task,
                   current, offered, released>>

(* Release the message, then read the queue's fill level for the log line. *)
ReportFull(p) ==
    /\ Move(p, "report", "idle")
    /\ Release({held[p]})
    /\ held' = [held EXCEPT ![p] = 0]
    /\ handle' = [handle EXCEPT ![p] = 0]
    /\ UNCHANGED <<queueVars, ctlVars, accepting, shutdown, inFlight, task,
                   current, offered>>

-----------------------------------------------------------------------------
(* The broadcast task. *)

Receive ==
    /\ task = "waiting" /\ content # <<>>
    /\ task' = "busy"
    /\ current' = Head(content)
    /\ content' = Tail(content)
    /\ UNCHANGED <<queue, created, prodVars, ctlVars, accepting, shutdown,
                   inFlight, released>>

(* Mutants of Leaves: without a look at the queue, and never. *)
LeavesUndrained == shutdown

(* The task does not look at the stop request. *)
LeavesNever == FALSE

(* After a message, and after 100 ms without one, the task leaves when it  *)
(* was told to stop and the queue is empty.                                *)
Leaves == shutdown /\ content = <<>>

Processed ==
    /\ task = "busy"
    /\ Release({current})
    /\ current' = 0
    /\ task' = IF Leaves THEN "leaving" ELSE "waiting"
    /\ UNCHANGED <<queueVars, prodVars, ctlVars, accepting, shutdown, inFlight>>

ReceiveTimeout ==
    /\ task = "waiting" /\ Leaves
    /\ task' = "leaving"
    /\ UNCHANGED <<queueVars, prodVars, ctlVars, accepting, shutdown, inFlight,
                   current, released>>

(* Give the cleanup semaphore and suspend. *)
Park ==
    /\ task = "leaving"
    /\ task' = "suspended"
    /\ UNCHANGED <<queueVars, prodVars, ctlVars, accepting, shutdown, inFlight,
                   current, released>>

-----------------------------------------------------------------------------
(* Controllers: enable and disable, both under the lifecycle lock. *)

Call(c, op) ==
    /\ Goto(c, "idle", op)
    /\ UNCHANGED <<queueVars, prodVars, lock, accepting, shutdown,
                   inFlight, task, current, released>>

(* 1000 ms pass without the lock: both calls return without effect. *)
LockTimeout(c) ==
    /\ lock # NoOne
    /\ cpc[c] \in {"wantEnable", "wantDisable"}
    /\ cpc' = [cpc EXCEPT ![c] = "idle"]
    /\ UNCHANGED <<queueVars, prodVars, lock, accepting, shutdown,
                   inFlight, task, current, released>>

Lock(c) ==
    /\ lock = NoOne
    /\ \/ Goto(c, "wantEnable", "enable")
       \/ Goto(c, "wantDisable", "disable")
    /\ lock' = c
    /\ UNCHANGED <<queueVars, prodVars, accepting, shutdown, inFlight,
                   task, current, released>>

(* destroyQueueResources: nothing happens while an enqueue is in flight. *)
DestroyQueue ==
    IF inFlight # 0
    THEN UNCHANGED <<queueVars, task, accepting, shutdown, released>>
    ELSE /\ Release(Range(content))
         /\ queue' = 0 /\ content' = <<>>
         /\ task' = "none"
         /\ accepting' = FALSE /\ shutdown' = FALSE
         /\ UNCHANGED created

(* reapStoppedTask when it does not have to wait: the task has parked. *)
Parked == inFlight = 0 /\ task \in {"none", "suspended"}

(* The first part of both calls: a stop that was left pending is finished. *)
FinishPendingStop(c) ==
    /\ shutdown /\ Parked
    /\ \/ Goto(c, "enable", "create") /\ UNCHANGED lock
       \/ Goto(c, "disable", "idle") /\ Unlock
    /\ DestroyQueue
    /\ UNCHANGED <<prodVars, inFlight, current>>

(* "Broadcast task is still stopping; enable deferred" *)
EnableDeferred(c) ==
    /\ shutdown /\ ~Parked
    /\ Goto(c, "enable", "idle")
    /\ Unlock
    /\ UNCHANGED <<queueVars, prodVars, accepting, shutdown, inFlight,
                   task, current, released>>

(* The queue outlived a disable that gave up early: accept again. *)
EnableAgain(c) ==
    /\ ~shutdown /\ queue # 0
    /\ Goto(c, "enable", "idle")
    /\ accepting' = TRUE
    /\ Unlock
    /\ UNCHANGED <<queueVars, prodVars, shutdown, inFlight, task,
                   current, released>>

(* Mutant of ReadyToCreate: a live queue is replaced. *)
ReadyWithLiveQueue(c) == cpc[c] = "create" \/ (cpc[c] = "enable" /\ ~shutdown)

ReadyToCreate(c) ==
    cpc[c] = "create" \/ (cpc[c] = "enable" /\ ~shutdown /\ queue = 0)

Create(c) ==
    /\ created < MaxQueues
    /\ ReadyToCreate(c)
    /\ cpc' = [cpc EXCEPT ![c] = "idle"]
    /\ created' = created + 1
    /\ queue' = created + 1 /\ content' = <<>>
    /\ task' = "waiting"
    /\ accepting' = TRUE /\ shutdown' = FALSE
    /\ Unlock
    /\ UNCHANGED <<prodVars, inFlight, current, released>>

(* Out of memory for the semaphore, the queue or the task. *)
CreateFails(c) ==
    /\ ReadyToCreate(c)
    /\ cpc' = [cpc EXCEPT ![c] = "idle"]
    /\ accepting' = FALSE /\ shutdown' = FALSE
    /\ Unlock
    /\ UNCHANGED <<queueVars, prodVars, inFlight, task, current, released>>

StopAccepting(c) ==
    /\ ~(shutdown /\ Parked)
    /\ Goto(c, "disable", "drain")
    /\ accepting' = FALSE
    /\ UNCHANGED <<queueVars, prodVars, lock, shutdown, inFlight, task,
                   current, released>>

(* "Timed out waiting for in-flight enqueues": disable returns false. *)
DrainTimeout(c) ==
    /\ inFlight # 0
    /\ Goto(c, "drain", "idle")
    /\ Unlock
    /\ UNCHANGED <<queueVars, prodVars, accepting, shutdown, inFlight,
                   task, current, released>>

(* No task to stop: destroy what there is and return true. *)
DestroyTaskless(c) ==
    /\ inFlight = 0 /\ task = "none"
    /\ Goto(c, "drain", "idle")
    /\ DestroyQueue
    /\ Unlock
    /\ UNCHANGED <<prodVars, inFlight, current>>

RequestStop(c) ==
    /\ inFlight = 0 /\ task # "none"
    /\ Goto(c, "drain", "reap")
    /\ shutdown' = TRUE
    /\ UNCHANGED <<queueVars, prodVars, lock, accepting, inFlight, task,
                   current, released>>

(* The task parked in time: delete it, destroy the queue, return true. *)
Reap(c) ==
    /\ Parked
    /\ Goto(c, "reap", "idle")
    /\ DestroyQueue
    /\ Unlock
    /\ UNCHANGED <<prodVars, inFlight, current>>

(* It did not, within 500 ms or at once: cleanup is left to a later call. *)
ReapTimeout(c) ==
    /\ ~Parked
    /\ Goto(c, "reap", "idle")
    /\ Unlock
    /\ UNCHANGED <<queueVars, prodVars, accepting, shutdown, inFlight,
                   task, current, released>>

-----------------------------------------------------------------------------
Enqueue(p) ==
    \/ EnqueueBusy(p) \/ EnqueueRefused(p) \/ EnqueueAdmitted(p)
    \/ SendOk(p) \/ SendFull(p) \/ CountOut(p) \/ ReportFull(p)

BroadcastTask == Receive \/ Processed \/ ReceiveTimeout \/ Park

Control(c) ==
    \/ LockTimeout(c) \/ Lock(c) \/ FinishPendingStop(c)
    \/ EnableDeferred(c) \/ EnableAgain(c) \/ Create(c) \/ CreateFails(c)
    \/ StopAccepting(c) \/ DrainTimeout(c) \/ DestroyTaskless(c)
    \/ RequestStop(c) \/ Reap(c) \/ ReapTimeout(c)

Next ==
    \/ \E p \in Producers : Offer(p) \/ Enqueue(p)
    \/ BroadcastTask
    \/ \E c \in Controllers :
          Call(c, "wantEnable") \/ Call(c, "wantDisable") \/ Control(c)

Spec == Init /\ [][Next]_vars

(* Tasks run to the end of the calls they are in; the broadcast task's     *)
(* socket sends are bounded by the send timeout of the client manager.     *)
FairSpec ==
    /\ Spec
    /\ \A p \in Producers : WF_vars(Enqueue(p))
    /\ \A c \in Controllers : WF_vars(Control(c))
    /\ WF_vars(BroadcastTask)

-----------------------------------------------------------------------------
(* Every variable keeps its type; the queue never exceeds its capacity. *)
TypeOK ==
    /\ lock \in Controllers \cup {NoOne}
    /\ queue \in 0 .. MaxQueues /\ created \in 0 .. MaxQueues
    /\ content \in Seq(Msgs) /\ Len(content) <= QueueSize
    /\ accepting \in BOOLEAN /\ shutdown \in BOOLEAN /\ inFlight \in Nat
    /\ task \in {"none", "waiting", "busy", "leaving", "suspended"}
    /\ current \in 0 .. MaxMsgs
    /\ pc \in [Producers -> {"idle", "offer", "send", "sent", "unsent", "report"}]
    /\ held \in [Producers -> 0 .. MaxMsgs]
    /\ handle \in [Producers -> 0 .. MaxQueues]
    /\ cpc \in [Controllers -> {"idle", "wantEnable", "wantDisable", "enable",
                                "create", "disable", "drain", "reap"}]
    /\ offered \in 0 .. MaxMsgs
    /\ released \in [Msgs -> Nat]

(* xQueueSend never gets the handle of a queue that was deleted or         *)
(* replaced, although the lifecycle lock is not held around it.            *)
SendOnLiveQueue ==
    \A p \in Producers : pc[p] \in {"send", "sent", "unsent"} =>
        queue # 0 /\ handle[p] = queue

(* Where a message is: with a producer, queued, being sent, or released. *)
Custodians(m) ==
    {<<"producer", p>> : p \in {p \in Producers : held[p] = m}}
    \cup {<<"queue", i>> : i \in {i \in DOMAIN content : content[i] = m}}
    \cup {<<"task", 0>> : i \in {i \in {0} : current = m}}

(* Every payload is released exactly once: until then exactly one party    *)
(* holds it, whichever way enqueue, the broadcast task or a destroy of the *)
(* queue under it end (WsPayloadPool::releaseMessageResources).            *)
OneCustodian ==
    \A m \in 1 .. offered :
        \/ released[m] = 0 /\ \E x \in Custodians(m) : Custodians(m) = {x}
        \/ released[m] = 1 /\ Custodians(m) = {}

(* Once the task has decided to leave nothing can be queued behind it, so  *)
(* no accepted message is destroyed unsent by a disable that returned true *)
(* after the task parked.                                                  *)
DrainedBeforePark ==
    task \in {"leaving", "suspended"} => content = <<>> /\ inFlight = 0

(* A broadcast task is only deleted after it parked, never in the middle   *)
(* of a send, and its queue lives as long as it does.                      *)
DeletedOnlyParked ==
    [][/\ task' = "none" => task \in {"none", "suspended"}
       /\ queue' # queue => task \in {"none", "suspended"}]_vars

(* A stop that was requested is never forgotten: the task parks. *)
StopParks == shutdown ~> (task \in {"none", "suspended"})

(* No payload is kept for ever: what was offered is released. *)
EveryMessageReleased ==
    \A m \in Msgs : (offered >= m) ~> (released[m] = 1)

-----------------------------------------------------------------------------
(* What a caller may rely on, see WsHandoff: where each message is, without *)
(* the tasks, the lock and the queue objects.                               *)
Stage(m) ==
    IF m > offered THEN "new"
    ELSE IF released[m] > 0 THEN "done"
    ELSE IF m = current THEN "sending"
    ELSE IF m \in Range(content) THEN "waiting" ELSE "offered"

Handoff == INSTANCE WsHandoff WITH
    Capacity <- QueueSize, line <- content, sending <- current, open <- (queue # 0),
    st <- [m \in Msgs |-> Stage(m)]

(* Enabling, disabling, deferred cleanup and lock timeouts never lose,     *)
(* duplicate, reorder or resend a message the queue has accepted, and a    *)
(* queue goes only when all it accepted has been sent: the queue           *)
(* implements the hand-off its callers see.                                *)
ImplementsHandoff == Handoff!Spec

=============================================================================
