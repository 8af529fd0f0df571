------------------------------- MODULE WsPool -------------------------------
(***************************************************************************)
(* The payload pool of a WebSocket broadcaster, shared by the producers    *)
(* that fill slots, the broadcast task that sends and frees them, and the  *)
(* callers of enableQueue and disableQueue that replace the pool under     *)
(* them. The message queue is kept at the level WsTaskQueue establishes:   *)
(* enqueue either accepts a message or refuses and releases it, and a      *)
(* queue is only destroyed drained.                                        *)
(*                                                                         *)
(* Storage is the number of the init call that allocated it, so a pointer  *)
(* into freed storage can be told from one into its successor.             *)
(***************************************************************************)
EXTENDS Naturals, Sequences, FiniteSets, SequencesExt

CONSTANTS
    Producers,    \* tasks that broadcast
    Controllers,  \* tasks that enable and disable the queue on demand
    SlotCount,    \* slots of a pool, also the capacity of the queue
    MaxMsgs,      \* bound on the messages broadcast
    MaxPools,     \* bound on the pools allocated
    MaxTimeouts   \* bound on lock, drain and stop timeouts and failed mallocs

ASSUME WsPoolAssumption ==
    /\ SlotCount \in Nat \ {0}
    /\ MaxMsgs \in Nat /\ MaxPools \in Nat \ {0} /\ MaxTimeouts \in Nat

VARIABLES
    live, accepting, stopping,  \* the queue, its atomics _queueAccepting and
                                \* _shutdownRequested
    line,      \* messages queued
    sending,   \* message the broadcast task works on, 0 for none
    phase,     \* how far the pool is initialised
    storage,   \* number of the live storage, 0 for nullptr
    allocated, \* storages allocated so far
    taken,     \* _slotState
    written,   \* message whose bytes are in a slot of the live storage
    pc, msg,   \* producers: place, message
    cpc,       \* controllers: place; absent where the queue is enabled once,
               \* before the first broadcast, and never disabled
    ptr,       \* per message: the slot it was given
    started,   \* messages broadcast so far
    leaked,    \* slots whose release timed out (history)
    garbled,   \* messages sent with other bytes than their own (history)
    gaveUp,    \* whether a disable or a deinit gave up since the last disable
               \* that freed the pool (history)
    timeouts

queueVars == <<live, accepting, stopping, line, sending>>
poolVars  == <<phase, storage, allocated, taken, written>>
prodVars  == <<pc, msg, ptr, started>>
histVars  == <<leaked, garbled, gaveUp, timeouts>>
vars == <<queueVars, poolVars, prodVars, cpc, histVars>>

Msgs   == 1 .. MaxMsgs
Slots  == 0 .. SlotCount - 1
NoSlot == [storage |-> 0, slot |-> 0]
Fresh  == [s \in Slots |-> FALSE]
Blank  == [s \in Slots |-> 0]

(* The pool is enabled at boot for good, or on demand by controllers. *)
Start(boot) ==
    /\ live = boot /\ accepting = boot
    /\ phase = IF boot THEN "ready" ELSE "none"
    /\ storage = IF boot THEN 1 ELSE 0
    /\ cpc = [c \in Controllers |-> IF boot THEN "absent" ELSE "idle"]

Init ==
    /\ Start(TRUE) \/ Start(FALSE)
    /\ stopping = FALSE /\ line = <<>> /\ sending = 0
    /\ allocated = storage
    /\ taken = Fresh /\ written = Blank
    /\ pc = [p \in Producers |-> "idle"] /\ msg = [p \in Producers |-> 0]
    /\ ptr = [m \in Msgs |-> NoSlot]
    /\ started = 0 /\ leaked = {} /\ garbled = {}
    /\ gaveUp = FALSE /\ timeouts = 0

AtBoot == \A c \in Controllers : cpc[c] = "absent"

Move(p, from, to) == pc[p] = from /\ pc' = [pc EXCEPT ![p] = to]
Goto(c, from, to) == cpc[c] = from /\ cpc' = [cpc EXCEPT ![c] = to]
Timeout == timeouts < MaxTimeouts /\ timeouts' = timeouts + 1
NoTimeout == UNCHANGED timeouts

Enabled == live /\ accepting

-----------------------------------------------------------------------------
(* Producers: WebSocketBroadcaster::broadcast and broadcastSerialized with *)
(* a payload that fits a slot.                                             *)

(* isEnabled and the unlocked pointer checks of acquireSlot pass. *)
Broadcast(p) ==
    /\ started < MaxMsgs
    /\ Enabled /\ phase \in {"raw", "ready"}
    /\ Move(p, "idle", "acquire")
    /\ started' = started + 1
    /\ msg' = [msg EXCEPT ![p] = started + 1]
    /\ UNCHANGED <<queueVars, poolVars, cpc, ptr, histVars>>

FreeSlots == {s \in Slots : ~taken[s]}

(* Mutant of AcquireSlot: the slot is not marked. *)
AcquireUnmarked(p) ==
    /\ phase \in {"raw", "ready"}
    /\ Move(p, "acquire", "write")
    /\ \E s \in FreeSlots :
          /\ \A t \in FreeSlots : s <= t
          /\ ptr' = [ptr EXCEPT ![msg[p]] = [storage |-> storage, slot |-> s]]
    /\ UNCHANGED <<queueVars, poolVars, msg, started, cpc, histVars>>

(* Under the pool lock: the first free slot of the storage there is now. *)
AcquireSlot(p) ==
    /\ phase \in {"raw", "ready"}
    /\ Move(p, "acquire", "write")
    /\ \E s \in FreeSlots :
           /\ \A t \in FreeSlots : s <= t
           /\ taken' = [taken EXCEPT ![s] = TRUE]
           /\ ptr' = [ptr EXCEPT ![msg[p]] = [storage |-> storage, slot |-> s]]
    /\ UNCHANGED <<queueVars, phase, storage, allocated, written, msg, started,
                   cpc, histVars>>

(* "payload pool exhausted", or gone since the check. *)
AcquireFails(p) ==
    /\ \/ phase = "none"
       \/ phase \in {"raw", "ready"} /\ FreeSlots = {}
    /\ Move(p, "acquire", "idle")
    /\ msg' = [msg EXCEPT ![p] = 0]
    /\ UNCHANGED <<queueVars, poolVars, ptr, started, cpc, histVars>>

(* The states were there at the check and are not any more: the task dies. *)
AcquireFaults(p) ==
    /\ phase = "sized"
    /\ Move(p, "acquire", "dead")
    /\ UNCHANGED <<queueVars, poolVars, msg, ptr, started, cpc, histVars>>

AcquireBusy(p) ==
    /\ Timeout
    /\ Move(p, "acquire", "idle")
    /\ msg' = [msg EXCEPT ![p] = 0]
    /\ UNCHANGED <<queueVars, poolVars, ptr, started, cpc, leaked, garbled, gaveUp>>

(* Mutant of WritePayload: the offset of the slot is left out. *)
WriteAtStart(p) ==
    /\ Move(p, "write", "enqueue")
    /\ written' = [written EXCEPT ![0] = msg[p]]
    /\ UNCHANGED <<queueVars, phase, storage, allocated, taken, msg, ptr,
                   started, cpc, histVars>>

(* Fill the slot; into freed storage the bytes go somewhere else. *)
WritePayload(p) ==
    /\ Move(p, "write", "enqueue")
    /\ written' = IF ptr[msg[p]].storage = storage
                  THEN [written EXCEPT ![ptr[msg[p]].slot] = msg[p]]
                  ELSE written
    /\ UNCHANGED <<queueVars, phase, storage, allocated, taken, msg, ptr,
                   started, cpc, histVars>>

(* The writer of broadcastSerialized produces nothing, or too much. *)
WriterFails(p) ==
    /\ Move(p, "write", "release")
    /\ UNCHANGED <<queueVars, poolVars, msg, ptr, started, cpc, histVars>>

EnqueueAccepted(p) ==
    /\ Enabled /\ ~stopping /\ Len(line) < SlotCount
    /\ Move(p, "enqueue", "idle")
    /\ line' = Append(line, msg[p])
    /\ msg' = [msg EXCEPT ![p] = 0]
    /\ UNCHANGED <<live, accepting, stopping, sending, poolVars, ptr, started,
                   cpc, histVars>>

EnqueueRefused(p) ==
    /\ ~Enabled \/ stopping \/ Len(line) = SlotCount
    /\ Move(p, "enqueue", "release")
    /\ UNCHANGED <<queueVars, poolVars, msg, ptr, started, cpc, histVars>>

(* Mutant of FreeSlot: the state is left as it is. *)
FreeSlotForgotten(m) == UNCHANGED taken

(* releaseSlot knows an index, not whose storage it indexes. *)
FreeSlot(m) ==
    taken' = IF phase \in {"raw", "ready"}
             THEN [taken EXCEPT ![ptr[m].slot] = FALSE] ELSE taken

Release(p) ==
    /\ Move(p, "release", "idle")
    /\ FreeSlot(msg[p])
    /\ msg' = [msg EXCEPT ![p] = 0]
    /\ UNCHANGED <<queueVars, phase, storage, allocated, written, ptr, started,
                   cpc, histVars>>

(* "Failed to lock payload pool while releasing slot" *)
ReleaseBusy(p) ==
    /\ Timeout
    /\ Move(p, "release", "idle")
    /\ leaked' = leaked \cup {ptr[msg[p]]}
    /\ msg' = [msg EXCEPT ![p] = 0]
    /\ UNCHANGED <<queueVars, poolVars, ptr, started, cpc, garbled, gaveUp>>

-----------------------------------------------------------------------------
(* The broadcast task. *)

(* Mutant of Receive: the slot is freed before the message is sent. *)
ReceiveFrees ==
    /\ line # <<>> /\ sending = 0
    /\ sending' = Head(line) /\ line' = Tail(line)
    /\ FreeSlot(Head(line))
    /\ UNCHANGED <<live, accepting, stopping, phase, storage, allocated, written,
                   prodVars, cpc, histVars>>

Receive ==
    /\ line # <<>> /\ sending = 0
    /\ sending' = Head(line) /\ line' = Tail(line)
    /\ UNCHANGED <<live, accepting, stopping, poolVars, prodVars, cpc, histVars>>

Intact(m) == ptr[m].storage = storage /\ written[ptr[m].slot] = m

(* performBroadcast, then releaseMessageResources. *)
Send ==
    /\ sending # 0
    /\ sending' = 0
    /\ garbled' = IF Intact(sending) THEN garbled ELSE garbled \cup {sending}
    /\ \/ FreeSlot(sending) /\ NoTimeout /\ UNCHANGED leaked
       \/ Timeout /\ leaked' = leaked \cup {ptr[sending]} /\ UNCHANGED taken
    /\ UNCHANGED <<live, accepting, stopping, line, phase, storage, allocated,
                   written, prodVars, cpc, gaveUp>>

-----------------------------------------------------------------------------
(* Controllers: enableQueue and disableQueue. *)

Drained == line = <<>> /\ sending = 0

CallEnable(c) ==
    /\ ~Enabled
    /\ Goto(c, "idle", "enable")
    /\ UNCHANGED <<queueVars, poolVars, prodVars, histVars>>

(* A new queue, or the one a disable left behind when it gave up. *)
Enable(c) ==
    /\ stopping => Drained
    /\ Goto(c, "enable", "deinit")
    /\ live' = TRUE /\ accepting' = TRUE /\ stopping' = FALSE
    /\ UNCHANGED <<line, sending, poolVars, prodVars, histVars>>

(* The lock is busy, or the task of an unfinished stop has not parked. *)
EnableDeferred(c) ==
    /\ \/ stopping /\ ~Drained /\ NoTimeout
       \/ Timeout
    /\ Goto(c, "enable", "idle")
    /\ UNCHANGED <<queueVars, poolVars, prodVars, leaked, garbled, gaveUp>>

(* No memory for the queue or its task; an old queue is gone by then. *)
EnableFails(c) ==
    /\ ~live \/ (stopping /\ Drained)
    /\ Timeout
    /\ Goto(c, "enable", "idle")
    /\ live' = FALSE /\ accepting' = FALSE /\ stopping' = FALSE
    /\ UNCHANGED <<line, sending, poolVars, prodVars, leaked, garbled, gaveUp>>

NoStorage ==
    /\ storage' = 0
    /\ taken' = Fresh /\ written' = Blank
    /\ UNCHANGED allocated

FreePool == phase' = "none" /\ NoStorage

(* init: what an earlier call left is freed under the pool lock ...        *)
InitDeinit(c) ==
    /\ Goto(c, "deinit", "size")
    /\ FreePool
    /\ UNCHANGED <<queueVars, prodVars, histVars>>

(* "Failed to lock payload pool for deinit": init goes on all the same. *)
InitDeinitBusy(c) ==
    /\ Timeout /\ gaveUp' = TRUE
    /\ Goto(c, "deinit", "size")
    /\ UNCHANGED <<queueVars, poolVars, prodVars, leaked, garbled>>

(* ... then, without it, the sizes are set, ... *)
InitSize(c) ==
    /\ Goto(c, "size", "alloc")
    /\ phase' = IF phase = "none" THEN "sized" ELSE phase
    /\ UNCHANGED <<queueVars, storage, allocated, taken, written, prodVars,
                   histVars>>

(* ... the storage and its states allocated, holding whatever was there, *)
InitAlloc(c) ==
    /\ allocated < MaxPools
    /\ Goto(c, "alloc", "clear")
    /\ phase' = "raw"
    /\ allocated' = allocated + 1 /\ storage' = allocated + 1
    /\ taken' \in [Slots -> BOOLEAN] /\ written' = Blank
    /\ UNCHANGED <<queueVars, prodVars, histVars>>

(* ... and the states cleared. *)
InitClear(c) ==
    /\ Goto(c, "clear", "idle")
    /\ phase' = "ready"
    /\ taken' = Fresh
    /\ UNCHANGED <<queueVars, storage, allocated, written, prodVars, histVars>>

(* "Failed to allocate payload pool": free what there is, but for the sizes *)
(* when the lock is busy, and disable the queue again.                      *)
InitFails(c) ==
    /\ Timeout
    /\ Goto(c, "alloc", "disable")
    /\ phase' \in {"none", "sized"} /\ NoStorage
    /\ UNCHANGED <<queueVars, prodVars, leaked, garbled, gaveUp>>

CallDisable(c) ==
    /\ Goto(c, "idle", "disable")
    /\ UNCHANGED <<queueVars, poolVars, prodVars, histVars>>

DisableBusy(c) ==
    /\ Timeout
    /\ Goto(c, "disable", "idle")
    /\ UNCHANGED <<queueVars, poolVars, prodVars, leaked, garbled, gaveUp>>

StopAccepting(c) ==
    /\ Goto(c, "disable", "drain")
    /\ accepting' = FALSE
    /\ UNCHANGED <<live, stopping, line, sending, poolVars, prodVars, histVars>>

(* Mutant of Disable: the task is not waited for. *)
DisableUndrained(c) ==
    /\ Goto(c, "drain", "free")
    /\ live' = FALSE /\ stopping' = FALSE
    /\ UNCHANGED <<accepting, line, sending, poolVars, prodVars, histVars>>

(* WsTaskQueue::disable returns true once the queue is drained and gone. *)
Disable(c) ==
    /\ Drained
    /\ Goto(c, "drain", "free")
    /\ live' = FALSE /\ stopping' = FALSE
    /\ UNCHANGED <<accepting, line, sending, poolVars, prodVars, histVars>>

(* It gave up, on the enqueues in flight or, later, on the task. *)
DisableFails(c) ==
    /\ live /\ Timeout /\ gaveUp' = TRUE
    /\ Goto(c, "drain", "idle")
    /\ stopping' \in {stopping, TRUE}
    /\ UNCHANGED <<live, accepting, line, sending, poolVars, prodVars, leaked,
                   garbled>>

DisableDeinit(c) ==
    /\ Goto(c, "free", "idle")
    /\ FreePool
    /\ gaveUp' = FALSE
    /\ UNCHANGED <<queueVars, prodVars, leaked, garbled, timeouts>>

(* The queue is gone and the pool stays. *)
DisableDeinitBusy(c) ==
    /\ Timeout /\ gaveUp' = TRUE
    /\ Goto(c, "free", "idle")
    /\ UNCHANGED <<queueVars, poolVars, prodVars, leaked, garbled>>

-----------------------------------------------------------------------------
Produce(p) ==
    \/ AcquireSlot(p) \/ AcquireFails(p) \/ AcquireFaults(p) \/ AcquireBusy(p)
    \/ WritePayload(p) \/ WriterFails(p) \/ EnqueueAccepted(p) \/ EnqueueRefused(p)
    \/ Release(p) \/ ReleaseBusy(p)

Control(c) ==
    \/ Enable(c) \/ EnableDeferred(c) \/ EnableFails(c) \/ InitDeinit(c)
    \/ InitDeinitBusy(c) \/ InitSize(c) \/ InitAlloc(c) \/ InitClear(c) \/ InitFails(c)
    \/ DisableBusy(c) \/ StopAccepting(c) \/ Disable(c) \/ DisableFails(c)
    \/ DisableDeinit(c) \/ DisableDeinitBusy(c)

Next ==
    \/ \E p \in Producers : Broadcast(p) \/ Produce(p)
    \/ Receive \/ Send
    \/ \E c \in Controllers : CallEnable(c) \/ CallDisable(c) \/ Control(c)

Spec == Init /\ [][Next]_vars

(* Producers finish their calls and the broadcast task keeps serving. *)
FairSpec ==
    /\ Spec
    /\ \A p \in Producers : WF_vars(Produce(p))
    /\ WF_vars(Receive) /\ WF_vars(Send)

-----------------------------------------------------------------------------
(* Every variable keeps its type; the queue never exceeds its capacity and *)
(* no message points outside the slots.                                    *)
TypeOK ==
    /\ {live, accepting, stopping} \subseteq BOOLEAN
    /\ line \in Seq(Msgs) /\ Len(line) <= SlotCount /\ sending \in 0 .. MaxMsgs
    /\ phase \in {"none", "sized", "raw", "ready"}
    /\ storage \in 0 .. allocated /\ allocated \in 0 .. MaxPools
    /\ taken \in [Slots -> BOOLEAN] /\ written \in [Slots -> 0 .. MaxMsgs]
    /\ pc \in [Producers -> {"idle", "acquire", "write", "enqueue", "release",
                          "dead"}]
    /\ msg \in [Producers -> 0 .. MaxMsgs]
    /\ cpc \in [Controllers -> {"absent", "idle", "enable", "deinit", "size", "alloc",
                                "clear", "disable", "drain", "free"}]
    /\ ptr \in [Msgs -> [storage : 0 .. MaxPools, slot : Slots]]
    /\ started \in 0 .. MaxMsgs /\ timeouts \in 0 .. MaxTimeouts
    /\ garbled \subseteq Msgs /\ gaveUp \in BOOLEAN
    /\ leaked \subseteq [storage : 0 .. MaxPools, slot : Slots]

(* Messages that have a slot and have not given it back. *)
Holding ==
    {msg[p] : p \in {p \in Producers : pc[p] \in {"write", "enqueue", "release"}}}
    \cup ToSet(line) \cup ({sending} \ {0})

(* No slot of a pool enabled at boot is given out twice. *)
SlotExclusive ==
    AtBoot => \A m, n \in Holding : m # n => ptr[m] # ptr[n]

(* Every client gets the bytes the producer of the message wrote, although *)
(* slots are reused and several producers fill them at once.               *)
SentIntact == AtBoot => garbled = {}

(* A slot is marked taken exactly while somebody has it to give back, or   *)
(* after its release timed out: the pool neither loses slots nor frees one *)
(* that is in use.                                                         *)
TakenIsHeld ==
    AtBoot /\ phase = "ready" =>
        \A s \in Slots :
            LET here == [storage |-> storage, slot |-> s]
            IN  taken[s] <=> here \in leaked \cup {ptr[m] : m \in Holding}

(* A pool is freed, by disableQueue or by the init of the next enableQueue, *)
(* only with nothing queued and nothing being sent.  Not so after a disable *)
(* or a deinit that gave up: the next enable opens the queue again before it *)
(* frees what they left (WebSocketBroadcaster::enableQueue).                *)
FreedDrained ==
    [][storage # 0 /\ storage' = 0 => Drained \/ gaveUp]_vars

(* A slot does not stay taken for ever, unless its release timed out. *)
SlotComesBack ==
    \A s \in Slots :
        (AtBoot /\ taken[s]) ~> (~taken[s] \/ [storage |-> storage, slot |-> s] \in leaked)

(* "Thread-safe PSRAM payload pool" (WsPayloadPool.h): whoever has a slot  *)
(* has it in storage that is still allocated.                              *)
HolderStorageAlive == \A m \in Holding : ptr[m].storage = storage

=============================================================================
