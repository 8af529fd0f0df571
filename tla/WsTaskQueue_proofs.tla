------------------------- MODULE WsTaskQueue_proofs -------------------------
(***************************************************************************)
(* Proofs about WsTaskQueue for any finite set of producers, any number of *)
(* controllers and any capacity: the life cycle of the queue and its task, *)
(* then the messages, each of which has one custodian until it is          *)
(* released, and the hand-off the queue implements.                        *)
(***************************************************************************)
EXTENDS WsTaskQueue, FiniteSetTheorems, TLAPS

(* Producers between their check under the lock and their count-out. *)
Flying == {p \in Producers : pc[p] \in {"send", "sent", "unsent"}}

(* A call that still owns its message knows it. *)
HeldInv ==
    \A p \in Producers :
        pc[p] \in {"offer", "send", "unsent", "report"} => held[p] # 0

CountInv == inFlight = Cardinality(Flying)

LockInv ==
    \A c \in Controllers :
        cpc[c] \in {"enable", "create", "disable", "drain", "reap"} <=> lock = c

(* What the holder of the lifecycle lock has established so far. *)
StageInv ==
    \A c \in Controllers :
        /\ cpc[c] = "create" => queue = 0 /\ task = "none" /\ ~shutdown
        /\ cpc[c] = "drain" => ~accepting
        /\ cpc[c] = "reap" => shutdown

(* A queue and its task come and go together; a stop request finds the     *)
(* queue closed and idle, and it stays so until the queue is gone.         *)
QueueInv ==
    /\ queue = 0 <=> task = "none"
    /\ queue = 0 => content = <<>>
    /\ queue <= created
    /\ shutdown => queue # 0 /\ ~accepting /\ inFlight = 0
    /\ accepting => queue # 0
    /\ queue = 0 => inFlight = 0
    /\ task \in {"leaving", "suspended"} => shutdown /\ content = <<>>

IInv ==
    /\ TypeOK /\ CountInv /\ HeldInv /\ LockInv /\ StageInv /\ QueueInv
    /\ SendOnLiveQueue

-----------------------------------------------------------------------------
(* Producers leaving and joining the counted section one at a time. *)
LEMMA FlyingFinite == IsFiniteSet(Flying)
<1>1. Flying \in SUBSET Producers
  BY DEF Flying
<1> QED
  BY <1>1, FS_Subset, WsTaskQueueAssumption

LEMMA CountJoin ==
    ASSUME CountInv, NEW p \in Producers, p \notin Flying
    PROVE  Cardinality(Flying \cup {p}) = inFlight + 1
BY FlyingFinite, FS_AddElement DEF CountInv

LEMMA CountLeave ==
    ASSUME TypeOK, CountInv, NEW p \in Flying
    PROVE  inFlight >= 1 /\ Cardinality(Flying \ {p}) = inFlight - 1
<1>1. Cardinality(Flying) # 0
  BY FlyingFinite, FS_EmptySet
<1>2. inFlight \in Nat /\ inFlight # 0
  BY <1>1 DEF CountInv, TypeOK
<1>3. Cardinality(Flying \ {p}) = Cardinality(Flying) - 1
  BY FlyingFinite, FS_RemoveElement
<1> QED
  BY <1>2, <1>3 DEF CountInv

LEMMA EmptyQueue == <<>> \in Seq(Msgs) /\ Len(<<>>) = 0
OBVIOUS

(* Releasing a set of messages counts each of them once more. *)
LEMMA ReleaseType ==
    ASSUME TypeOK, NEW ms, Release(ms)
    PROVE  released' \in [Msgs -> Nat]
<1>1. released \in [Msgs -> Nat]
  BY DEF TypeOK
<1>2. \A m \in Msgs : released[m] + (IF m \in ms THEN 1 ELSE 0) \in Nat
  BY <1>1
<1> QED
  BY <1>2 DEF Release

(* A step keeps the types; the counter cannot wrap because whoever counts  *)
(* out was counted in.                                                     *)
LEMMA TypeStep ==
    ASSUME TypeOK, CountInv, HeldInv, [Next]_vars
    PROVE  TypeOK'
<1> USE WsTaskQueueAssumption DEF TypeOK, Msgs, queueVars, prodVars, ctlVars,
        Move, Goto, Unlock
<1>1. ASSUME NEW p \in Producers, Offer(p) PROVE TypeOK'
  <2>1. offered + 1 \in 0 .. MaxMsgs /\ offered' = offered + 1
    BY <1>1 DEF Offer
  <2>2. /\ held' \in [Producers -> 0 .. MaxMsgs]
        /\ pc' \in [Producers -> {"idle", "offer", "send", "sent", "unsent", "report"}]
    BY <1>1, <2>1 DEF Offer
  <2> QED
    BY <1>1, <2>1, <2>2 DEF Offer
<1>2. ASSUME NEW p \in Producers, EnqueueBusy(p) PROVE TypeOK'
  BY <1>2, ReleaseType DEF EnqueueBusy
<1>3. ASSUME NEW p \in Producers, EnqueueRefused(p) PROVE TypeOK'
  <2>1. released' \in [Msgs -> Nat]
    BY <1>3, ReleaseType DEF EnqueueRefused
  <2> QED
    BY <1>3, <2>1 DEF EnqueueRefused
<1>4. ASSUME NEW p \in Producers, EnqueueAdmitted(p) PROVE TypeOK'
  BY <1>4 DEF EnqueueAdmitted, Admits
<1>5. ASSUME NEW p \in Producers, SendOk(p) PROVE TypeOK'
  <2>1. held[p] \in Msgs
    BY <1>5 DEF SendOk, HeldInv
  <2>2. content' \in Seq(Msgs) /\ Len(content') = Len(content) + 1
    BY <1>5, <2>1 DEF SendOk
  <2>3. /\ Len(content') <= QueueSize
        /\ held' \in [Producers -> 0 .. MaxMsgs]
        /\ pc' \in [Producers -> {"idle", "offer", "send", "sent", "unsent", "report"}]
    BY <1>5, <2>2 DEF SendOk
  <2> QED
    BY <1>5, <2>2, <2>3 DEF SendOk
<1>6. ASSUME NEW p \in Producers, SendFull(p) PROVE TypeOK'
  BY <1>6 DEF SendFull
<1>7. ASSUME NEW p \in Producers, CountOut(p) PROVE TypeOK'
  <2>1. p \in Flying
    BY <1>7 DEF CountOut, Flying
  <2>2. inFlight' \in Nat
    <3>1. inFlight >= 1
      BY <2>1, CountLeave
    <3> QED
      BY <1>7, <3>1 DEF CountOut
  <2>3. handle' \in [Producers -> 0 .. MaxQueues]
    <3>1. handle' = [handle EXCEPT ![p] = 0] \/ handle' = handle
      BY <1>7 DEF CountOut
    <3>2. handle \in [Producers -> 0 .. MaxQueues] /\ 0 \in 0 .. MaxQueues
      OBVIOUS
    <3> QED
      BY <3>1, <3>2
  <2>4. pc' = [pc EXCEPT ![p] = "idle"] \/ pc' = [pc EXCEPT ![p] = "report"]
    BY <1>7 DEF CountOut
  <2>5. pc' \in [Producers -> {"idle", "offer", "send", "sent", "unsent", "report"}]
    BY <2>4
  <2> QED
    BY <1>7, <2>2, <2>3, <2>5 DEF CountOut
<1>8. ASSUME NEW p \in Producers, ReportFull(p) PROVE TypeOK'
  <2>1. released' \in [Msgs -> Nat]
    BY <1>8, ReleaseType DEF ReportFull
  <2> QED
    BY <1>8, <2>1 DEF ReportFull
<1>9. ASSUME Receive PROVE TypeOK'
  <2>1. content # <<>> /\ content \in Seq(Msgs)
    BY <1>9 DEF Receive
  <2>2. /\ Head(content) \in Msgs
        /\ Tail(content) \in Seq(Msgs)
        /\ Len(Tail(content)) <= Len(content) /\ Len(content) \in Nat
    BY <2>1
  <2>3. /\ current' \in Msgs /\ content' \in Seq(Msgs) /\ Len(content') <= QueueSize
        /\ task' = "busy"
    <3>1. Len(content) <= QueueSize
      OBVIOUS
    <3>2. current' = Head(content) /\ content' = Tail(content) /\ task' = "busy"
      BY <1>9 DEF Receive
    <3>3. Len(Tail(content)) <= QueueSize
      BY <2>2, <3>1
    <3> QED
      BY <2>2, <3>2, <3>3
  <2>4. UNCHANGED <<queue, created, prodVars, ctlVars, accepting, shutdown, inFlight, released>>
    BY <1>9 DEF Receive
  <2> QED
    BY <2>3, <2>4
<1>10. ASSUME Processed PROVE TypeOK'
  <2>1. released' \in [Msgs -> Nat]
    BY <1>10, ReleaseType DEF Processed
  <2>2. task' \in {"leaving", "waiting"}
    BY <1>10 DEF Processed
  <2> QED
    BY <1>10, <2>1, <2>2 DEF Processed
<1>11. ASSUME ReceiveTimeout PROVE TypeOK'
  BY <1>11 DEF ReceiveTimeout, Leaves
<1>12. ASSUME Park PROVE TypeOK'
  BY <1>12 DEF Park
<1>13. ASSUME NEW c \in Controllers, NEW op \in {"wantEnable", "wantDisable"},
             Call(c, op)
      PROVE TypeOK'
  BY <1>13 DEF Call
<1>14. ASSUME NEW c \in Controllers, LockTimeout(c) PROVE TypeOK'
  BY <1>14 DEF LockTimeout
<1>15. ASSUME NEW c \in Controllers, Lock(c) PROVE TypeOK'
  BY <1>15 DEF Lock
<1>16. ASSUME NEW c \in Controllers, FinishPendingStop(c) PROVE TypeOK'
  <2>1. content' \in Seq(Msgs) /\ Len(content') <= QueueSize
    BY <1>16, EmptyQueue DEF FinishPendingStop, Parked, DestroyQueue
  <2>2. accepting' \in BOOLEAN /\ shutdown' \in BOOLEAN
    BY <1>16, Zenon DEF FinishPendingStop, Parked, DestroyQueue
  <2>3. released' \in [Msgs -> Nat]
    BY <1>16, ReleaseType DEF FinishPendingStop, Parked, DestroyQueue
  <2>4. cpc' \in [Controllers -> {"idle", "wantEnable", "wantDisable",
               "enable", "create", "disable", "drain", "reap"}]
    BY <1>16 DEF FinishPendingStop, Parked, DestroyQueue
  <2>5. /\ lock' \in Controllers \cup {NoOne}
        /\ queue' \in 0 .. MaxQueues /\ created' \in 0 .. MaxQueues
    BY <1>16 DEF FinishPendingStop, Parked, DestroyQueue
  <2>6. task' \in {"none", "waiting", "busy", "leaving", "suspended"}
    BY <1>16 DEF FinishPendingStop, Parked, DestroyQueue
  <2>7. UNCHANGED <<prodVars, inFlight, current>>
    BY <1>16 DEF FinishPendingStop, Parked, DestroyQueue
  <2> QED
    BY <2>1, <2>2, <2>3, <2>4, <2>5, <2>6, <2>7
<1>17. ASSUME NEW c \in Controllers, EnableDeferred(c) PROVE TypeOK'
  BY <1>17 DEF EnableDeferred, Parked
<1>18. ASSUME NEW c \in Controllers, EnableAgain(c) PROVE TypeOK'
  BY <1>18 DEF EnableAgain
<1>19. ASSUME NEW c \in Controllers, Create(c) PROVE TypeOK'
  <2>1. content' \in Seq(Msgs) /\ Len(content') <= QueueSize
    BY <1>19, EmptyQueue DEF Create, ReadyToCreate
  <2>2. accepting' \in BOOLEAN /\ shutdown' \in BOOLEAN
    BY <1>19, Zenon DEF Create, ReadyToCreate
  <2>3. released' \in [Msgs -> Nat]
    BY <1>19, ReleaseType DEF Create, ReadyToCreate
  <2>4. cpc' \in [Controllers -> {"idle", "wantEnable", "wantDisable",
               "enable", "create", "disable", "drain", "reap"}]
    BY <1>19 DEF Create, ReadyToCreate
  <2>5. /\ lock' \in Controllers \cup {NoOne}
        /\ queue' \in 0 .. MaxQueues /\ created' \in 0 .. MaxQueues
    BY <1>19 DEF Create, ReadyToCreate
  <2>6. task' \in {"none", "waiting", "busy", "leaving", "suspended"}
    BY <1>19 DEF Create, ReadyToCreate
  <2>7. UNCHANGED <<prodVars, inFlight, current>>
    BY <1>19 DEF Create, ReadyToCreate
  <2> QED
    BY <2>1, <2>2, <2>3, <2>4, <2>5, <2>6, <2>7
<1>20. ASSUME NEW c \in Controllers, CreateFails(c) PROVE TypeOK'
  BY <1>20 DEF CreateFails, ReadyToCreate
<1>21. ASSUME NEW c \in Controllers, StopAccepting(c) PROVE TypeOK'
  BY <1>21 DEF StopAccepting, Parked
<1>22. ASSUME NEW c \in Controllers, DrainTimeout(c) PROVE TypeOK'
  BY <1>22 DEF DrainTimeout
<1>23. ASSUME NEW c \in Controllers, DestroyTaskless(c) PROVE TypeOK'
  <2>1. content' \in Seq(Msgs) /\ Len(content') <= QueueSize
    BY <1>23, EmptyQueue DEF DestroyTaskless, DestroyQueue
  <2>2. accepting' \in BOOLEAN /\ shutdown' \in BOOLEAN
    BY <1>23, Zenon DEF DestroyTaskless, DestroyQueue
  <2>3. released' \in [Msgs -> Nat]
    BY <1>23, ReleaseType DEF DestroyTaskless, DestroyQueue
  <2>4. cpc' \in [Controllers -> {"idle", "wantEnable", "wantDisable",
               "enable", "create", "disable", "drain", "reap"}]
    BY <1>23 DEF DestroyTaskless, DestroyQueue
  <2>5. /\ lock' \in Controllers \cup {NoOne}
        /\ queue' \in 0 .. MaxQueues /\ created' \in 0 .. MaxQueues
    BY <1>23 DEF DestroyTaskless, DestroyQueue
  <2>6. task' \in {"none", "waiting", "busy", "leaving", "suspended"}
    BY <1>23 DEF DestroyTaskless, DestroyQueue
  <2>7. UNCHANGED <<prodVars, inFlight, current>>
    BY <1>23 DEF DestroyTaskless, DestroyQueue
  <2> QED
    BY <2>1, <2>2, <2>3, <2>4, <2>5, <2>6, <2>7
<1>24. ASSUME NEW c \in Controllers, RequestStop(c) PROVE TypeOK'
  BY <1>24 DEF RequestStop
<1>25. ASSUME NEW c \in Controllers, Reap(c) PROVE TypeOK'
  <2>1. content' \in Seq(Msgs) /\ Len(content') <= QueueSize
    BY <1>25, EmptyQueue DEF Reap, Parked, DestroyQueue
  <2>2. accepting' \in BOOLEAN /\ shutdown' \in BOOLEAN
    BY <1>25, Zenon DEF Reap, Parked, DestroyQueue
  <2>3. released' \in [Msgs -> Nat]
    BY <1>25, ReleaseType DEF Reap, Parked, DestroyQueue
  <2>4. cpc' \in [Controllers -> {"idle", "wantEnable", "wantDisable",
               "enable", "create", "disable", "drain", "reap"}]
    BY <1>25 DEF Reap, Parked, DestroyQueue
  <2>5. /\ lock' \in Controllers \cup {NoOne}
        /\ queue' \in 0 .. MaxQueues /\ created' \in 0 .. MaxQueues
    BY <1>25 DEF Reap, Parked, DestroyQueue
  <2>6. task' \in {"none", "waiting", "busy", "leaving", "suspended"}
    BY <1>25 DEF Reap, Parked, DestroyQueue
  <2>7. UNCHANGED <<prodVars, inFlight, current>>
    BY <1>25 DEF Reap, Parked, DestroyQueue
  <2> QED
    BY <2>1, <2>2, <2>3, <2>4, <2>5, <2>6, <2>7
<1>26. ASSUME NEW c \in Controllers, ReapTimeout(c) PROVE TypeOK'
  BY <1>26 DEF ReapTimeout, Parked
<1>27. ASSUME UNCHANGED vars PROVE TypeOK'
  BY <1>27 DEF vars
<1> QED
  BY <1>1, <1>2, <1>3, <1>4, <1>5, <1>6, <1>7, <1>8, <1>9, <1>10, <1>11,
     <1>12, <1>13, <1>14, <1>15, <1>16, <1>17, <1>18, <1>19, <1>20, <1>21,
     <1>22, <1>23, <1>24, <1>25, <1>26, <1>27 DEF Next, Enqueue,
     BroadcastTask, Control

(* The counter is the number of calls between check and count-out. *)
LEMMA CountStep ==
    ASSUME TypeOK, CountInv, [Next]_vars
    PROVE  CountInv'
<1> USE DEF TypeOK, queueVars, prodVars, ctlVars, Move, Goto
<1>1. ASSUME NEW p \in Producers, EnqueueAdmitted(p) PROVE CountInv'
  <2>1. p \notin Flying
    BY <1>1 DEF EnqueueAdmitted, Flying
  <2>2. Flying' = Flying \cup {p}
    BY <1>1 DEF EnqueueAdmitted, Flying
  <2>3. Cardinality(Flying \cup {p}) = inFlight + 1
    BY <2>1, CountJoin
  <2> QED
    BY <1>1, <2>2, <2>3 DEF EnqueueAdmitted, CountInv
<1>2. ASSUME NEW p \in Producers, CountOut(p) PROVE CountInv'
  <2>1. p \in Flying
    BY <1>2 DEF CountOut, Flying
  <2>2. Flying' = Flying \ {p}
    BY <1>2 DEF CountOut, Flying
  <2>3. Cardinality(Flying \ {p}) = inFlight - 1
    BY <2>1, CountLeave
  <2> QED
    BY <1>2, <2>2, <2>3 DEF CountOut, CountInv
<1>3. ASSUME NEW p \in Producers,
             \/ Offer(p) \/ EnqueueBusy(p) \/ EnqueueRefused(p)
             \/ SendOk(p) \/ SendFull(p) \/ ReportFull(p)
      PROVE  Flying' = Flying /\ inFlight' = inFlight
  BY <1>3 DEF Flying, Offer, EnqueueBusy, EnqueueRefused, SendOk, SendFull,
              ReportFull
<1>4. ASSUME UNCHANGED <<pc, inFlight>>
      PROVE  Flying' = Flying /\ inFlight' = inFlight
  BY <1>4 DEF Flying
<1>5. ASSUME Flying' = Flying, inFlight' = inFlight PROVE CountInv'
  BY <1>5 DEF CountInv
<1>6. BroadcastTask => UNCHANGED <<pc, inFlight>>
  BY DEF BroadcastTask, Receive, Processed, ReceiveTimeout, Park
<1>7. ASSUME NEW c \in Controllers, NEW op \in {"wantEnable", "wantDisable"}
      PROVE  Call(c, op) => UNCHANGED <<pc, inFlight>>
  BY DEF Call
<1>8. ASSUME NEW c \in Controllers, Control(c)
      PROVE  UNCHANGED <<pc, inFlight>>
  BY <1>8 DEF Control, LockTimeout, Lock, FinishPendingStop, EnableDeferred,
       EnableAgain, Create, CreateFails, StopAccepting, DrainTimeout,
       DestroyTaskless, RequestStop, Reap, ReapTimeout
<1>9. UNCHANGED vars => UNCHANGED <<pc, inFlight>>
  BY DEF vars
<1> QED
  BY <1>1, <1>2, <1>3, <1>4, <1>5, <1>6, <1>7, <1>8, <1>9 DEF Next, Enqueue


LEMMA FlyerCounted ==
    ASSUME TypeOK, CountInv, NEW p \in Producers,
           pc[p] \in {"send", "sent", "unsent"}
    PROVE  inFlight >= 1
<1>1. p \in Flying
  BY DEF Flying
<1> QED
  BY <1>1, CountLeave

(* An unfinished call that owns a message keeps knowing which. *)
LEMMA HeldStep ==
    ASSUME TypeOK, HeldInv, [Next]_vars
    PROVE  HeldInv'
<1> USE DEF TypeOK, HeldInv, queueVars, prodVars, ctlVars, Move, Goto
<1>1. ASSUME NEW p \in Producers, Offer(p) \/ Enqueue(p) PROVE HeldInv'
  BY <1>1 DEF Enqueue, Offer, EnqueueBusy, EnqueueRefused, EnqueueAdmitted,
       SendOk, SendFull, CountOut, ReportFull
<1>2. BroadcastTask => UNCHANGED <<pc, held>>
  BY DEF BroadcastTask, Receive, Processed, ReceiveTimeout, Park
<1>3. ASSUME NEW c \in Controllers, NEW op \in {"wantEnable", "wantDisable"}
      PROVE  Call(c, op) => UNCHANGED <<pc, held>>
  BY DEF Call
<1>4. ASSUME NEW c \in Controllers, Control(c)
      PROVE  UNCHANGED <<pc, held>>
  BY <1>4 DEF Control, LockTimeout, Lock, FinishPendingStop, EnableDeferred,
       EnableAgain, Create, CreateFails, StopAccepting, DrainTimeout,
       DestroyTaskless, RequestStop, Reap, ReapTimeout
<1>5. UNCHANGED vars => UNCHANGED <<pc, held>>
  BY DEF vars
<1>6. UNCHANGED <<pc, held>> => HeldInv'
  OBVIOUS
<1> QED
  BY <1>1, <1>2, <1>3, <1>4, <1>5, <1>6 DEF Next

(* The lifecycle lock is held by exactly the controller in the locked part. *)
LEMMA LockStep ==
    ASSUME TypeOK, LockInv, [Next]_vars
    PROVE  LockInv'
<1> USE WsTaskQueueAssumption DEF TypeOK, LockInv, queueVars, prodVars,
        ctlVars, Move, Goto, Unlock
<1>1. ASSUME NEW p \in Producers, Offer(p) \/ Enqueue(p)
      PROVE  UNCHANGED <<cpc, lock>>
  BY <1>1 DEF Enqueue, Offer, EnqueueBusy, EnqueueRefused, EnqueueAdmitted,
       SendOk, SendFull, CountOut, ReportFull
<1>2. BroadcastTask => UNCHANGED <<cpc, lock>>
  BY DEF BroadcastTask, Receive, Processed, ReceiveTimeout, Park
<1>3. ASSUME NEW c \in Controllers, NEW op \in {"wantEnable", "wantDisable"},
             Call(c, op)
      PROVE  LockInv'
  BY <1>3 DEF Call
<1>4. ASSUME NEW c \in Controllers, LockTimeout(c) \/ Lock(c) PROVE LockInv'
  BY <1>4 DEF LockTimeout, Lock
<1>5. ASSUME NEW c \in Controllers,
             \/ FinishPendingStop(c) \/ EnableDeferred(c) \/ EnableAgain(c)
             \/ Create(c) \/ CreateFails(c) \/ StopAccepting(c)
             \/ DrainTimeout(c) \/ DestroyTaskless(c) \/ RequestStop(c)
             \/ Reap(c) \/ ReapTimeout(c)
      PROVE  /\ cpc[c] \in {"enable", "create", "disable", "drain", "reap"}
             /\ \/ /\ lock' = NoOne
                   /\ cpc' = [cpc EXCEPT ![c] = "idle"]
                \/ /\ lock' = lock
                   /\ \E to \in {"create", "drain", "reap"} :
                         cpc' = [cpc EXCEPT ![c] = to]
  BY <1>5 DEF FinishPendingStop, EnableDeferred, EnableAgain, Create,
       ReadyToCreate, CreateFails, StopAccepting, DrainTimeout,
       DestroyTaskless, RequestStop, Reap, ReapTimeout
<1>6. ASSUME NEW c \in Controllers, Control(c) PROVE LockInv'
  <2>1. CASE LockTimeout(c) \/ Lock(c)
    BY <1>4, <2>1
  <2>2. CASE \/ FinishPendingStop(c) \/ EnableDeferred(c) \/ EnableAgain(c)
             \/ Create(c) \/ CreateFails(c) \/ StopAccepting(c)
             \/ DrainTimeout(c) \/ DestroyTaskless(c) \/ RequestStop(c)
             \/ Reap(c) \/ ReapTimeout(c)
    <3>1. lock = c /\ c # NoOne
      BY <1>5, <2>2
    <3>2. CASE lock' = NoOne /\ cpc' = [cpc EXCEPT ![c] = "idle"]
      BY <3>1, <3>2
    <3>3. CASE lock' = lock /\ \E to \in {"create", "drain", "reap"} : cpc' = [cpc EXCEPT ![c] = to]
      BY <3>1, <3>3
    <3> QED
      BY <1>5, <2>2, <3>2, <3>3
  <2> QED
    BY <1>6, <2>1, <2>2 DEF Control
<1>7. UNCHANGED vars => UNCHANGED <<cpc, lock>>
  BY DEF vars
<1>8. UNCHANGED <<cpc, lock>> => LockInv'
  OBVIOUS
<1> QED
  BY <1>1, <1>2, <1>3, <1>6, <1>7, <1>8 DEF Next

(* What the lock holder has established stays true while it holds it. *)
LEMMA StageStep ==
    ASSUME TypeOK, LockInv, StageInv, QueueInv, [Next]_vars
    PROVE  StageInv'
<1> USE WsTaskQueueAssumption DEF TypeOK, LockInv, StageInv, queueVars,
        prodVars, ctlVars, Move, Goto, Unlock
<1>1. ASSUME NEW p \in Producers, Offer(p) \/ Enqueue(p)
      PROVE  UNCHANGED <<cpc, queue, task, shutdown, accepting>>
  BY <1>1 DEF Enqueue, Offer, EnqueueBusy, EnqueueRefused, EnqueueAdmitted,
       SendOk, SendFull, CountOut, ReportFull
<1>2. BroadcastTask => /\ UNCHANGED <<cpc, queue, shutdown, accepting>>
                       /\ task # "none"
  BY DEF BroadcastTask, Receive, Processed, ReceiveTimeout, Park
<1>3. ASSUME NEW c \in Controllers, NEW op \in {"wantEnable", "wantDisable"},
             Call(c, op)
      PROVE StageInv'
  BY <1>3 DEF Call
<1>4. ASSUME NEW c \in Controllers, LockTimeout(c) PROVE StageInv'
  BY <1>4 DEF LockTimeout
<1>5. ASSUME NEW c \in Controllers, Lock(c) PROVE StageInv'
  BY <1>5 DEF Lock
<1>6. ASSUME NEW c \in Controllers, FinishPendingStop(c) PROVE StageInv'
  BY <1>6 DEF FinishPendingStop, Parked, DestroyQueue
<1>7. ASSUME NEW c \in Controllers, EnableDeferred(c) PROVE StageInv'
  BY <1>7 DEF EnableDeferred, Parked
<1>8. ASSUME NEW c \in Controllers, EnableAgain(c) PROVE StageInv'
  BY <1>8 DEF EnableAgain
<1>9. ASSUME NEW c \in Controllers, Create(c) PROVE StageInv'
  BY <1>9 DEF Create, ReadyToCreate
<1>10. ASSUME NEW c \in Controllers, CreateFails(c) PROVE StageInv'
  BY <1>10 DEF CreateFails, ReadyToCreate
<1>11. ASSUME NEW c \in Controllers, StopAccepting(c) PROVE StageInv'
  BY <1>11 DEF StopAccepting, Parked
<1>12. ASSUME NEW c \in Controllers, DrainTimeout(c) PROVE StageInv'
  BY <1>12 DEF DrainTimeout
<1>13. ASSUME NEW c \in Controllers, DestroyTaskless(c) PROVE StageInv'
  BY <1>13 DEF DestroyTaskless, DestroyQueue
<1>14. ASSUME NEW c \in Controllers, RequestStop(c) PROVE StageInv'
  BY <1>14 DEF RequestStop
<1>15. ASSUME NEW c \in Controllers, Reap(c) PROVE StageInv'
  BY <1>15 DEF Reap, Parked, DestroyQueue
<1>16. ASSUME NEW c \in Controllers, ReapTimeout(c) PROVE StageInv'
  BY <1>16 DEF ReapTimeout, Parked
<1>17. ASSUME UNCHANGED vars PROVE StageInv'
  BY <1>17 DEF vars
<1>18. ASSUME UNCHANGED <<cpc, queue, task, shutdown, accepting>> PROVE StageInv'
  BY <1>18
<1>19. ASSUME BroadcastTask PROVE StageInv'
  BY <1>2, <1>19
<1> QED
  BY <1>1, <1>2, <1>3, <1>4, <1>5, <1>6, <1>7, <1>8, <1>9, <1>10, <1>11,
     <1>12, <1>13, <1>14, <1>15, <1>16, <1>17, <1>18, <1>19 DEF Next,
     Control

(* Queue and task come and go together, and a requested stop finds the     *)
(* queue closed and idle.                                                  *)
LEMMA QueueStep ==
    ASSUME IInv, [Next]_vars
    PROVE  QueueInv'
<1> USE WsTaskQueueAssumption DEF IInv, TypeOK, LockInv, StageInv, QueueInv,
        queueVars, prodVars, ctlVars, Move, Goto, Unlock
<1>1. ASSUME NEW p \in Producers, Offer(p) \/ Enqueue(p)
      PROVE  QueueInv'
  <2>1. CASE EnqueueAdmitted(p)
    BY <2>1 DEF EnqueueAdmitted, Admits
  <2>2. CASE SendOk(p)
    <3>1. inFlight >= 1 /\ queue # 0
      BY <2>2, FlyerCounted DEF SendOk, SendOnLiveQueue
    <3> QED
      BY <2>2, <3>1 DEF SendOk
  <2>3. CASE CountOut(p)
    <3>1. inFlight >= 1
      BY <2>3, FlyerCounted DEF CountOut
    <3> QED
      BY <2>3, <3>1 DEF CountOut
  <2>4. CASE \/ Offer(p) \/ EnqueueBusy(p) \/ EnqueueRefused(p)
             \/ SendFull(p) \/ ReportFull(p)
    BY <2>4 DEF Offer, EnqueueBusy, EnqueueRefused, SendFull, ReportFull
  <2> QED
    BY <1>1, <2>1, <2>2, <2>3, <2>4 DEF Enqueue
<1>2. ASSUME BroadcastTask PROVE QueueInv'
  BY <1>2 DEF BroadcastTask, Receive, Processed, ReceiveTimeout, Park, Leaves
<1>3. ASSUME NEW c \in Controllers, NEW op \in {"wantEnable", "wantDisable"},
             Call(c, op)
      PROVE QueueInv'
  BY <1>3 DEF Call
<1>4. ASSUME NEW c \in Controllers, LockTimeout(c) PROVE QueueInv'
  BY <1>4 DEF LockTimeout
<1>5. ASSUME NEW c \in Controllers, Lock(c) PROVE QueueInv'
  BY <1>5 DEF Lock
<1>6. ASSUME NEW c \in Controllers, FinishPendingStop(c) PROVE QueueInv'
  BY <1>6 DEF FinishPendingStop, Parked, DestroyQueue
<1>7. ASSUME NEW c \in Controllers, EnableDeferred(c) PROVE QueueInv'
  BY <1>7 DEF EnableDeferred, Parked
<1>8. ASSUME NEW c \in Controllers, EnableAgain(c) PROVE QueueInv'
  BY <1>8 DEF EnableAgain
<1>9. ASSUME NEW c \in Controllers, Create(c) PROVE QueueInv'
  BY <1>9 DEF Create, ReadyToCreate
<1>10. ASSUME NEW c \in Controllers, CreateFails(c) PROVE QueueInv'
  BY <1>10 DEF CreateFails, ReadyToCreate
<1>11. ASSUME NEW c \in Controllers, StopAccepting(c) PROVE QueueInv'
  BY <1>11 DEF StopAccepting, Parked
<1>12. ASSUME NEW c \in Controllers, DrainTimeout(c) PROVE QueueInv'
  BY <1>12 DEF DrainTimeout
<1>13. ASSUME NEW c \in Controllers, DestroyTaskless(c) PROVE QueueInv'
  BY <1>13 DEF DestroyTaskless, DestroyQueue
<1>14. ASSUME NEW c \in Controllers, RequestStop(c) PROVE QueueInv'
  BY <1>14 DEF RequestStop
<1>15. ASSUME NEW c \in Controllers, Reap(c) PROVE QueueInv'
  BY <1>15 DEF Reap, Parked, DestroyQueue
<1>16. ASSUME NEW c \in Controllers, ReapTimeout(c) PROVE QueueInv'
  BY <1>16 DEF ReapTimeout, Parked
<1>17. ASSUME UNCHANGED vars PROVE QueueInv'
  BY <1>17 DEF vars
<1> QED
  BY <1>1, <1>2, <1>3, <1>4, <1>5, <1>6, <1>7, <1>8, <1>9, <1>10, <1>11,
     <1>12, <1>13, <1>14, <1>15, <1>16, <1>17 DEF Next, Control

(* The queue is only replaced when nobody is between check and send. *)
LEMMA SendStep ==
    ASSUME IInv, [Next]_vars
    PROVE  SendOnLiveQueue'
<1> USE WsTaskQueueAssumption DEF IInv, TypeOK, LockInv, StageInv, QueueInv,
        SendOnLiveQueue, queueVars, prodVars, ctlVars, Move, Goto, Unlock
<1>0. inFlight = 0 =>
        \A p \in Producers : pc[p] \notin {"send", "sent", "unsent"}
  BY FlyerCounted
<1>1. ASSUME NEW p \in Producers, Offer(p) \/ Enqueue(p)
      PROVE  SendOnLiveQueue'
  <2>1. CASE Offer(p)
    BY <2>1 DEF Offer
  <2>2. CASE EnqueueBusy(p)
    BY <2>2 DEF EnqueueBusy
  <2>3. CASE EnqueueRefused(p)
    BY <2>3 DEF EnqueueRefused
  <2>4. CASE EnqueueAdmitted(p)
    BY <2>4 DEF EnqueueAdmitted, Admits
  <2>5. CASE SendOk(p)
    BY <2>5 DEF SendOk
  <2>6. CASE SendFull(p)
    BY <2>6 DEF SendFull
  <2>7. CASE CountOut(p)
    BY <2>7 DEF CountOut
  <2>8. CASE ReportFull(p)
    BY <2>8 DEF ReportFull
  <2> QED
    BY <1>1, <2>1, <2>2, <2>3, <2>4, <2>5, <2>6, <2>7, <2>8 DEF Enqueue
<1>2. ASSUME BroadcastTask PROVE SendOnLiveQueue'
  BY <1>2 DEF BroadcastTask, Receive, Processed, ReceiveTimeout, Park
<1>3. ASSUME NEW c \in Controllers, NEW op \in {"wantEnable", "wantDisable"},
             Call(c, op)
      PROVE SendOnLiveQueue'
  BY <1>3 DEF Call
<1>4. ASSUME NEW c \in Controllers, LockTimeout(c) PROVE SendOnLiveQueue'
  BY <1>4 DEF LockTimeout
<1>5. ASSUME NEW c \in Controllers, Lock(c) PROVE SendOnLiveQueue'
  BY <1>5 DEF Lock
<1>6. ASSUME NEW c \in Controllers, FinishPendingStop(c) PROVE SendOnLiveQueue'
  BY <1>6, <1>0 DEF FinishPendingStop, Parked, DestroyQueue
<1>7. ASSUME NEW c \in Controllers, EnableDeferred(c) PROVE SendOnLiveQueue'
  BY <1>7 DEF EnableDeferred, Parked
<1>8. ASSUME NEW c \in Controllers, EnableAgain(c) PROVE SendOnLiveQueue'
  BY <1>8 DEF EnableAgain
<1>9. ASSUME NEW c \in Controllers, Create(c) PROVE SendOnLiveQueue'
  BY <1>9, <1>0 DEF Create, ReadyToCreate
<1>10. ASSUME NEW c \in Controllers, CreateFails(c) PROVE SendOnLiveQueue'
  BY <1>10 DEF CreateFails, ReadyToCreate
<1>11. ASSUME NEW c \in Controllers, StopAccepting(c) PROVE SendOnLiveQueue'
  BY <1>11 DEF StopAccepting, Parked
<1>12. ASSUME NEW c \in Controllers, DrainTimeout(c) PROVE SendOnLiveQueue'
  BY <1>12 DEF DrainTimeout
<1>13. ASSUME NEW c \in Controllers, DestroyTaskless(c) PROVE SendOnLiveQueue'
  BY <1>13, <1>0 DEF DestroyTaskless, DestroyQueue
<1>14. ASSUME NEW c \in Controllers, RequestStop(c) PROVE SendOnLiveQueue'
  BY <1>14 DEF RequestStop
<1>15. ASSUME NEW c \in Controllers, Reap(c) PROVE SendOnLiveQueue'
  BY <1>15, <1>0 DEF Reap, Parked, DestroyQueue
<1>16. ASSUME NEW c \in Controllers, ReapTimeout(c) PROVE SendOnLiveQueue'
  BY <1>16 DEF ReapTimeout, Parked
<1>17. ASSUME UNCHANGED vars PROVE SendOnLiveQueue'
  BY <1>17 DEF vars
<1> QED
  BY <1>1, <1>2, <1>3, <1>4, <1>5, <1>6, <1>7, <1>8, <1>9, <1>10, <1>11,
     <1>12, <1>13, <1>14, <1>15, <1>16, <1>17 DEF Next, Control

-----------------------------------------------------------------------------
LEMMA InvInit == Init => IInv
<1> SUFFICES ASSUME Init PROVE IInv
  OBVIOUS
<1>1. TypeOK
  <2>1. content \in Seq(Msgs) /\ Len(content) <= QueueSize
    BY EmptyQueue, WsTaskQueueAssumption DEF Init
  <2>2. accepting \in BOOLEAN /\ shutdown \in BOOLEAN
    BY Zenon DEF Init
  <2> QED
    BY <2>1, <2>2, WsTaskQueueAssumption DEF Init, TypeOK, Msgs
<1>2. CountInv
  <2>1. Flying = {}
    BY DEF Init, Flying
  <2> QED
    BY <2>1, FS_EmptySet DEF Init, CountInv
<1>3. HeldInv /\ StageInv /\ QueueInv /\ SendOnLiveQueue
  BY DEF Init, HeldInv, StageInv, QueueInv, SendOnLiveQueue
<1>4. LockInv
  BY WsTaskQueueAssumption DEF Init, LockInv
<1> QED
  BY <1>1, <1>2, <1>3, <1>4 DEF IInv

LEMMA InvStep == IInv /\ [Next]_vars => IInv'
BY TypeStep, CountStep, HeldStep, LockStep, StageStep, QueueStep, SendStep
   DEF IInv

(* The strengthened invariant holds in every reachable state. *)
THEOREM Inductive == Spec => []IInv
BY InvInit, InvStep, PTL DEF Spec

(* Types are kept and the queue stays within its capacity; in particular   *)
(* the unsigned in-flight counter never wraps (WsTaskQueue.cpp, enqueue).  *)
THEOREM TypeCorrect == Spec => []TypeOK
<1>1. IInv => TypeOK
  BY DEF IInv
<1> QED
  BY <1>1, Inductive, PTL

(* Every xQueueSend and every fill level read before count-out works on    *)
(* the queue that is live, for any number of producers and controllers.    *)
THEOREM SendsOnLiveQueue == Spec => []SendOnLiveQueue
<1>1. IInv => SendOnLiveQueue
  BY DEF IInv
<1> QED
  BY <1>1, Inductive, PTL

(* A broadcast task that decided to leave has drained its queue, and no    *)
(* call can queue anything behind it.                                      *)
THEOREM ParkedIsDrained == Spec => []DrainedBeforePark
<1>1. IInv => DrainedBeforePark
  BY DEF IInv, QueueInv, DrainedBeforePark
<1> QED
  BY <1>1, Inductive, PTL

(* A task is deleted, and its queue with it, only after it has parked.     *)
THEOREM TaskDeletedParked == Spec => DeletedOnlyParked
<1> DEFINE Only == /\ task' = "none" => task \in {"none", "suspended"}
                   /\ queue' # queue => task \in {"none", "suspended"}
<1>1. ASSUME IInv, [Next]_vars PROVE Only
  <2> USE DEF IInv, QueueInv, StageInv, queueVars, prodVars, ctlVars, Move, Goto
  <2>1. ASSUME NEW p \in Producers, Offer(p) \/ Enqueue(p)
        PROVE  UNCHANGED <<queue, task>>
    BY <2>1 DEF Enqueue, Offer, EnqueueBusy, EnqueueRefused, EnqueueAdmitted,
         SendOk, SendFull, CountOut, ReportFull
  <2>2. BroadcastTask => queue' = queue /\ task' # "none"
    BY DEF BroadcastTask, Receive, Processed, ReceiveTimeout, Park
  <2>3. ASSUME NEW c \in Controllers,
               NEW op \in {"wantEnable", "wantDisable"}, Call(c, op)
        PROVE  UNCHANGED <<queue, task>>
    BY <2>3 DEF Call
  <2>4. ASSUME NEW c \in Controllers, Control(c) PROVE Only
    <3>1. CASE FinishPendingStop(c)
      BY <1>1, <3>1 DEF FinishPendingStop, Parked, DestroyQueue
    <3>2. CASE Create(c)
      BY <1>1, <3>2 DEF Create, ReadyToCreate
    <3>3. CASE DestroyTaskless(c)
      BY <1>1, <3>3 DEF DestroyTaskless, DestroyQueue
    <3>4. CASE Reap(c)
      BY <1>1, <3>4 DEF Reap, Parked, DestroyQueue
    <3>5. CASE \/ LockTimeout(c) \/ Lock(c) \/ EnableDeferred(c)
               \/ EnableAgain(c) \/ CreateFails(c) \/ StopAccepting(c)
               \/ DrainTimeout(c) \/ RequestStop(c) \/ ReapTimeout(c)
      <4>1. UNCHANGED <<queue, task>>
        BY <3>5 DEF LockTimeout, Lock, EnableDeferred, EnableAgain,
             CreateFails, StopAccepting, DrainTimeout, RequestStop, ReapTimeout
      <4> QED
        BY <4>1
    <3> QED
      BY <2>4, <3>1, <3>2, <3>3, <3>4, <3>5 DEF Control
  <2>5. UNCHANGED vars => UNCHANGED <<queue, task>>
    BY DEF vars
  <2>6. UNCHANGED <<queue, task>> => Only
    OBVIOUS
  <2> QED
    BY <1>1, <2>1, <2>2, <2>3, <2>4, <2>5, <2>6 DEF Next
<1>2. IInv /\ [Next]_vars => [Only]_vars
  BY <1>1
<1> QED
  BY <1>2, Inductive, PTL DEF Spec, DeletedOnlyParked

-----------------------------------------------------------------------------
(* The messages.                                                           *)

(* What is in a sequence after its end or its head has changed. *)
LEMMA AppendRange ==
    ASSUME NEW S, NEW s \in Seq(S), NEW x \in S
    PROVE  /\ Range(Append(s, x)) = Range(s) \cup {x}
           /\ x \notin Range(s) /\ IsInjective(s) => IsInjective(Append(s, x))
<1>1. /\ DOMAIN s = 1 .. Len(s) /\ Len(s) \in Nat
      /\ DOMAIN Append(s, x) = 1 .. (Len(s) + 1)
      /\ Append(s, x)[Len(s) + 1] = x
      /\ \A i \in 1 .. Len(s) : Append(s, x)[i] = s[i]
  OBVIOUS
<1>2. 1 .. (Len(s) + 1) = (1 .. Len(s)) \cup {Len(s) + 1}
  BY <1>1
<1> QED
  BY <1>1, <1>2 DEF Range, IsInjective

LEMMA TailRange ==
    ASSUME NEW S, NEW s \in Seq(S), s # <<>>, IsInjective(s)
    PROVE  /\ Head(s) \in Range(s)
           /\ Range(Tail(s)) = Range(s) \ {Head(s)}
           /\ IsInjective(Tail(s))
<1>1. /\ DOMAIN s = 1 .. Len(s) /\ Len(s) \in Nat \ {0} /\ Head(s) = s[1]
      /\ DOMAIN Tail(s) = 1 .. (Len(s) - 1)
      /\ \A i \in 1 .. (Len(s) - 1) : Tail(s)[i] = s[i + 1]
  OBVIOUS
<1>2. \A i \in 1 .. Len(s) : s[i] = s[1] => i = 1
  BY <1>1 DEF IsInjective
<1>3. ASSUME NEW x \in Range(s) \ {Head(s)} PROVE x \in Range(Tail(s))
  <2>1. PICK i \in 1 .. Len(s) : s[i] = x
    BY <1>1 DEF Range
  <2>2. i - 1 \in 1 .. (Len(s) - 1) /\ Tail(s)[i - 1] = x
    BY <1>1, <1>3, <2>1
  <2> QED
    BY <1>1, <2>2 DEF Range
<1>4. ASSUME NEW x \in Range(Tail(s)) PROVE x \in Range(s) \ {Head(s)}
  <2>1. PICK i \in 1 .. (Len(s) - 1) : Tail(s)[i] = x
    BY <1>1 DEF Range
  <2>2. i + 1 \in 1 .. Len(s) /\ s[i + 1] = x /\ i + 1 # 1
    BY <1>1, <2>1
  <2> QED
    BY <1>1, <1>2, <2>2 DEF Range
<1>5. IsInjective(Tail(s))
  <2>1. SUFFICES ASSUME NEW i \in 1 .. (Len(s) - 1), NEW j \in 1 .. (Len(s) - 1),
                        Tail(s)[i] = Tail(s)[j]
                 PROVE  i = j
    BY <1>1 DEF IsInjective
  <2>2. i + 1 \in 1 .. Len(s) /\ j + 1 \in 1 .. Len(s) /\ s[i + 1] = s[j + 1]
    BY <1>1, <2>1
  <2> QED
    BY <1>1, <2>2 DEF IsInjective
<1>6. Range(Tail(s)) = Range(s) \ {Head(s)}
  BY <1>3, <1>4
<1>7. Head(s) \in Range(s)
  BY <1>1 DEF Range
<1> QED
  BY <1>5, <1>6, <1>7

-----------------------------------------------------------------------------
(* Where the messages are. A call owns the message it offered until it is  *)
(* queued; nobody else has it.                                             *)
HeldOnce ==
    /\ \A p \in Producers : pc[p] \in {"idle", "sent"} => held[p] = 0
    /\ \A p, q \in Producers : held[p] # 0 /\ held[p] = held[q] => p = q
    /\ \A p \in Producers : held[p] # 0 =>
          held[p] <= offered /\ held[p] # current /\ held[p] \notin Range(content)

(* Every message is queued at most once, and not while it is sent. *)
QueuedOnce ==
    /\ IsInjective(content)
    /\ \A m \in Range(content) : m <= offered /\ m # current
    /\ current <= offered
    /\ task = "busy" <=> current # 0

Placed(m) ==
    \/ \E p \in Producers : held[p] = m
    \/ m \in Range(content)
    \/ m = current

(* Released once or not at all, and not released exactly while somebody    *)
(* has it.                                                                 *)
ReleasedOnce ==
    \A m \in Msgs :
        /\ released[m] \in {0, 1}
        /\ m > offered => released[m] = 0
        /\ m <= offered => (released[m] = 0 <=> Placed(m))

Custody == HeldOnce /\ QueuedOnce /\ ReleasedOnce

-----------------------------------------------------------------------------
(* What the steps do to the messages. *)
Drops(p) ==
    /\ pc[p] \in {"offer", "report"} /\ pc' = [pc EXCEPT ![p] = "idle"]
    /\ held' = [held EXCEPT ![p] = 0]
    /\ Release({held[p]})
    /\ UNCHANGED <<content, current, offered, task>>

Moves(p) ==
    /\ \/ Move(p, "offer", "send") \/ Move(p, "send", "unsent")
       \/ Move(p, "unsent", "report") \/ Move(p, "sent", "idle")
    /\ UNCHANGED <<held, content, current, offered, released, task>>

Keeps ==
    /\ UNCHANGED <<pc, held, content, current, offered, released>>
    /\ task' = "busy" <=> task = "busy"

LEMMA ReleaseNone ==
    ASSUME TypeOK, Release({})
    PROVE  released' = released
BY DEF TypeOK, Release

(* Nothing is queued when a queue is destroyed. *)
LEMMA DestroyKeeps ==
    ASSUME IInv, Parked \/ task = "none", DestroyQueue, inFlight = 0,
           UNCHANGED <<prodVars, current>>
    PROVE  Keeps
<1>1. content = <<>> /\ task # "busy"
  BY DEF IInv, QueueInv, Parked
<1>2. Range(content) = {}
  BY <1>1 DEF Range
<1>3. Release({}) /\ content' = <<>> /\ task' = "none"
  BY <1>2 DEF DestroyQueue
<1>4. released' = released
  BY <1>3, ReleaseNone DEF IInv
<1> QED
  BY <1>1, <1>3, <1>4 DEF Keeps, prodVars

(* Every step is one of these, or hands a message on. *)
LEMMA StepShape ==
    ASSUME IInv, [Next]_vars
    PROVE  \/ \E p \in Producers : Offer(p) \/ SendOk(p) \/ Drops(p) \/ Moves(p)
           \/ Receive \/ Processed \/ Keeps
<1> USE DEF queueVars, prodVars, ctlVars, Move, Goto
<1>1. ASSUME NEW p \in Producers, Offer(p) \/ Enqueue(p)
      PROVE  Offer(p) \/ SendOk(p) \/ Drops(p) \/ Moves(p)
  BY <1>1 DEF Enqueue, EnqueueBusy, EnqueueRefused, EnqueueAdmitted,
       SendFull, CountOut, ReportFull, Drops, Moves
<1>2. ASSUME BroadcastTask PROVE Receive \/ Processed \/ Keeps
  BY <1>2 DEF BroadcastTask, ReceiveTimeout, Park, Keeps
<1>3. ASSUME NEW c \in Controllers, NEW op \in {"wantEnable", "wantDisable"},
             Call(c, op)
      PROVE  Keeps
  BY <1>3 DEF Call, Keeps
<1>4. ASSUME NEW c \in Controllers, FinishPendingStop(c) \/ Reap(c)
      PROVE  Keeps
  <2>1. Parked /\ DestroyQueue /\ inFlight = 0 /\ UNCHANGED <<prodVars, current>>
    BY <1>4 DEF FinishPendingStop, Reap, Parked
  <2> QED
    BY <2>1, DestroyKeeps
<1>5. ASSUME NEW c \in Controllers, DestroyTaskless(c) PROVE Keeps
  <2>1. task = "none" /\ DestroyQueue /\ inFlight = 0 /\ UNCHANGED <<prodVars, current>>
    BY <1>5 DEF DestroyTaskless
  <2> QED
    BY <2>1, DestroyKeeps
<1>6. ASSUME NEW c \in Controllers, Create(c) PROVE Keeps
  <2>1. content = <<>> /\ task = "none"
    BY <1>6 DEF Create, ReadyToCreate, IInv, QueueInv, StageInv
  <2> QED
    BY <1>6, <2>1 DEF Create, Keeps
<1>7. ASSUME NEW c \in Controllers,
             \/ LockTimeout(c) \/ Lock(c) \/ EnableDeferred(c)
             \/ EnableAgain(c) \/ CreateFails(c) \/ StopAccepting(c)
             \/ DrainTimeout(c) \/ RequestStop(c) \/ ReapTimeout(c)
      PROVE  Keeps
  BY <1>7 DEF LockTimeout, Lock, EnableDeferred, EnableAgain, CreateFails,
       StopAccepting, DrainTimeout, RequestStop, ReapTimeout, Keeps
<1>8. UNCHANGED vars => Keeps
  BY DEF vars, Keeps
<1> QED
  BY <1>1, <1>2, <1>3, <1>4, <1>5, <1>6, <1>7, <1>8 DEF Next, Control

-----------------------------------------------------------------------------
LEMMA ContentType ==
    ASSUME TypeOK
    PROVE  /\ content \in Seq(Msgs)
           /\ \A m \in Range(content) : m \in Msgs /\ m # 0
<1>1. content \in Seq(Msgs)
  BY DEF TypeOK
<1>2. \A i \in DOMAIN content : content[i] \in Msgs
  BY <1>1
<1> QED
  BY <1>1, <1>2 DEF Range, Msgs

LEMMA CustodyInit ==
    ASSUME Init PROVE Custody
<1>1. Range(content) = {} /\ IsInjective(content)
  BY DEF Init, Range, IsInjective
<1> QED
  BY <1>1 DEF Init, Custody, HeldOnce, QueuedOnce, ReleasedOnce, Placed, Msgs

(* What a release does to the counts. *)
LEMMA ReleaseOne ==
    ASSUME TypeOK, NEW k \in Msgs, Release({k}), released[k] = 0
    PROVE  /\ released'[k] = 1
           /\ \A m \in Msgs \ {k} : released'[m] = released[m]
BY DEF TypeOK, Release

LEMMA CustodyOffer ==
    ASSUME IInv, Custody, NEW p \in Producers, Offer(p)
    PROVE  Custody'
<1> USE WsTaskQueueAssumption DEF IInv, Custody
<1>a. /\ offered \in Nat /\ offered' = offered + 1 /\ offered + 1 \in Msgs
  BY DEF TypeOK, Offer, Msgs
<1>b. /\ pc[p] = "idle" /\ pc' = [pc EXCEPT ![p] = "offer"]
      /\ held' = [held EXCEPT ![p] = offered + 1]
      /\ pc \in [Producers -> {"idle", "offer", "send", "sent", "unsent", "report"}]
      /\ held \in [Producers -> 0 .. MaxMsgs]
  BY DEF TypeOK, Offer, Move
<1>c. UNCHANGED <<content, current, released, task>>
  BY DEF Offer, queueVars
<1>1. /\ offered \in Nat /\ offered' = offered + 1 /\ offered + 1 \in Msgs
      /\ held[p] = 0 /\ held'[p] = offered + 1 /\ pc'[p] = "offer"
      /\ \A q \in Producers \ {p} : held'[q] = held[q] /\ pc'[q] = pc[q]
      /\ \A q \in Producers : held[q] \in Nat
      /\ UNCHANGED <<content, current, released, task>>
  BY <1>a, <1>b, <1>c DEF HeldOnce
<1>2. HeldOnce'
  <2>1. \A q \in Producers : held[q] # offered + 1
    BY <1>1 DEF HeldOnce
  <2>2. offered + 1 # current /\ offered + 1 \notin Range(content)
    BY <1>1 DEF QueuedOnce, TypeOK
  <2>3. \A q \in Producers : pc'[q] \in {"idle", "sent"} => held'[q] = 0
    BY <1>1 DEF HeldOnce
  <2>4. \A q, r \in Producers : held'[q] # 0 /\ held'[q] = held'[r] => q = r
    BY <1>1, <2>1 DEF HeldOnce
  <2>5. \A q \in Producers : held'[q] # 0 =>
          held'[q] <= offered + 1 /\ held'[q] # current /\ held'[q] \notin Range(content)
    BY <1>1, <2>2 DEF HeldOnce
  <2> QED
    BY <1>1, <2>3, <2>4, <2>5 DEF HeldOnce
<1>3. QueuedOnce'
  BY <1>1, ContentType DEF QueuedOnce, Msgs, TypeOK
<1>4. ASSUME NEW m \in Msgs PROVE Placed(m)' <=> Placed(m) \/ m = offered + 1
  BY <1>1 DEF Placed, Msgs
<1>5. ReleasedOnce'
  <2>1. SUFFICES ASSUME NEW m \in Msgs
                 PROVE  /\ released[m] \in {0, 1}
                        /\ m > offered + 1 => released[m] = 0
                        /\ m <= offered + 1 => (released[m] = 0 <=> Placed(m)')
    BY <1>1 DEF ReleasedOnce
  <2>2. CASE m = offered + 1
    BY <1>1, <1>4, <2>2 DEF ReleasedOnce, Msgs
  <2>3. CASE m # offered + 1
    BY <1>1, <1>4, <2>3 DEF ReleasedOnce, Msgs
  <2> QED
    BY <2>2, <2>3
<1> QED
  BY <1>2, <1>3, <1>5

LEMMA CustodyDrop ==
    ASSUME IInv, Custody, NEW p \in Producers, Drops(p)
    PROVE  Custody'
<1> USE DEF IInv, Custody, Drops
<1>1. /\ held[p] \in Msgs /\ held[p] <= offered
      /\ held'[p] = 0 /\ pc'[p] = "idle"
      /\ \A q \in Producers \ {p} : held'[q] = held[q] /\ pc'[q] = pc[q]
      /\ UNCHANGED <<content, current, offered, task>>
  BY DEF HeldInv, HeldOnce, TypeOK, Msgs
<1>2. released[held[p]] = 0
  BY <1>1 DEF ReleasedOnce, Placed
<1>3. /\ released'[held[p]] = 1
      /\ \A m \in Msgs \ {held[p]} : released'[m] = released[m]
  BY <1>1, <1>2, ReleaseOne
<1>4. HeldOnce'
  BY <1>1 DEF HeldOnce
<1>5. QueuedOnce'
  BY <1>1 DEF QueuedOnce
<1>6. ASSUME NEW m \in Msgs PROVE Placed(m)' <=> Placed(m) /\ m # held[p]
  <2>1. CASE m = held[p]
    <3>1. /\ \A q \in Producers : held'[q] # m
          /\ m \notin Range(content) /\ m # current
      BY <1>1, <2>1 DEF HeldOnce, Msgs
    <3> QED
      BY <1>1, <2>1, <3>1 DEF Placed
  <2>2. CASE m # held[p]
    <3>1. (\E q \in Producers : held'[q] = m) <=> (\E q \in Producers : held[q] = m)
      BY <1>1, <2>2 DEF Msgs
    <3> QED
      BY <1>1, <2>2, <3>1 DEF Placed
  <2> QED
    BY <2>1, <2>2
<1>7. ReleasedOnce'
  BY <1>1, <1>3, <1>6 DEF ReleasedOnce, Msgs, TypeOK
<1> QED
  BY <1>4, <1>5, <1>7

LEMMA CustodyMove ==
    ASSUME IInv, Custody, NEW p \in Producers, Moves(p)
    PROVE  Custody'
<1>1. UNCHANGED <<held, content, current, offered, released, task>>
  BY DEF Moves
<1>2. HeldOnce'
  BY <1>1 DEF IInv, TypeOK, Moves, Move, Custody, HeldOnce
<1>3. QueuedOnce' /\ ReleasedOnce'
  BY <1>1 DEF Custody, QueuedOnce, ReleasedOnce, Placed
<1> QED
  BY <1>2, <1>3 DEF Custody

LEMMA CustodyKeep ==
    ASSUME Custody, Keeps
    PROVE  Custody'
BY DEF Custody, Keeps, HeldOnce, QueuedOnce, ReleasedOnce, Placed

LEMMA CustodySend ==
    ASSUME IInv, Custody, NEW p \in Producers, SendOk(p)
    PROVE  Custody'
<1> USE DEF IInv, Custody, SendOk, Move, ctlVars
<1>1. /\ held[p] \in Msgs /\ held[p] <= offered
      /\ held'[p] = 0 /\ pc'[p] = "sent" /\ content' = Append(content, held[p])
      /\ \A q \in Producers \ {p} : held'[q] = held[q] /\ pc'[q] = pc[q]
      /\ held[p] \notin Range(content) /\ held[p] # current
      /\ UNCHANGED <<current, offered, released, task>>
  BY DEF HeldInv, HeldOnce, TypeOK, Msgs
<1>2. /\ Range(content') = Range(content) \cup {held[p]}
      /\ IsInjective(content')
  BY <1>1, ContentType, AppendRange DEF QueuedOnce
<1>3. HeldOnce'
  BY <1>1, <1>2 DEF HeldOnce, Msgs
<1>4. QueuedOnce'
  BY <1>1, <1>2 DEF QueuedOnce
<1>5. ASSUME NEW m \in Msgs PROVE Placed(m)' <=> Placed(m)
  <2>1. CASE m = held[p]
    BY <1>1, <1>2, <2>1 DEF Placed
  <2>2. CASE m # held[p]
    <3>1. (\E q \in Producers : held'[q] = m) <=> (\E q \in Producers : held[q] = m)
      BY <1>1, <2>2 DEF Msgs
    <3> QED
      BY <1>1, <1>2, <2>2, <3>1 DEF Placed
  <2> QED
    BY <2>1, <2>2
<1>6. ReleasedOnce'
  BY <1>1, <1>5 DEF ReleasedOnce
<1> QED
  BY <1>3, <1>4, <1>6

LEMMA CustodyReceive ==
    ASSUME IInv, Custody, Receive
    PROVE  Custody'
<1> USE DEF IInv, Custody, Receive, prodVars, ctlVars
<1>1. /\ content \in Seq(Msgs) /\ content # <<>> /\ IsInjective(content)
      /\ current' = Head(content) /\ content' = Tail(content)
      /\ current = 0 /\ task' = "busy"
      /\ UNCHANGED <<pc, held, offered, released>>
  BY ContentType DEF QueuedOnce
<1>2. /\ current' \in Range(content)
      /\ Range(content') = Range(content) \ {current'}
      /\ IsInjective(content')
  BY <1>1, TailRange
<1>3. current' \in Msgs /\ current' # 0 /\ current' <= offered
  BY <1>2, ContentType DEF QueuedOnce
<1>4. HeldOnce'
  BY <1>1, <1>2 DEF HeldOnce
<1>5. QueuedOnce'
  BY <1>1, <1>2, <1>3 DEF QueuedOnce
<1>6. ASSUME NEW m \in Msgs PROVE Placed(m)' <=> Placed(m)
  BY <1>1, <1>2, <1>3 DEF Placed, Msgs
<1>7. ReleasedOnce'
  BY <1>1, <1>6 DEF ReleasedOnce
<1> QED
  BY <1>4, <1>5, <1>7

LEMMA CustodyProcessed ==
    ASSUME IInv, Custody, Processed
    PROVE  Custody'
<1> USE DEF IInv, Custody, Processed, queueVars, prodVars, ctlVars
<1>1. /\ current \in Msgs /\ current <= offered /\ current' = 0
      /\ task' # "busy" /\ UNCHANGED <<pc, held, content, offered>>
  BY DEF QueuedOnce, TypeOK, Msgs
<1>2. released[current] = 0
  BY <1>1 DEF ReleasedOnce, Placed
<1>3. /\ released'[current] = 1
      /\ \A m \in Msgs \ {current} : released'[m] = released[m]
  BY <1>1, <1>2, ReleaseOne
<1>4. HeldOnce'
  BY <1>1 DEF HeldOnce
<1>5. QueuedOnce'
  BY <1>1, ContentType DEF QueuedOnce, TypeOK
<1>6. ASSUME NEW m \in Msgs PROVE Placed(m)' <=> Placed(m) /\ m # current
  <2>1. \A q \in Producers : held[q] # current
    BY <1>1 DEF HeldOnce, Msgs
  <2>2. current \notin Range(content)
    BY DEF QueuedOnce
  <2> QED
    BY <1>1, <2>1, <2>2 DEF Placed, Msgs
<1>7. ReleasedOnce'
  BY <1>1, <1>3, <1>6 DEF ReleasedOnce, Msgs, TypeOK
<1> QED
  BY <1>4, <1>5, <1>7

LEMMA CustodyStep ==
    ASSUME IInv, Custody, [Next]_vars
    PROVE  Custody'
BY StepShape, CustodyOffer, CustodyDrop, CustodyMove, CustodyKeep,
   CustodySend, CustodyReceive, CustodyProcessed

THEOREM CustodyHolds == Spec => []Custody
<1>1. Init => Custody
  BY CustodyInit
<1>2. IInv /\ Custody /\ [Next]_vars => Custody'
  BY CustodyStep
<1> QED
  BY <1>1, <1>2, Inductive, PTL DEF Spec

(* Until its single release every offered message has exactly one          *)
(* custodian, whatever enable, disable and deferred cleanup do meanwhile.  *)
THEOREM EveryMessageInOnePlace == Spec => []OneCustodian
<1>1. ASSUME IInv, Custody PROVE OneCustodian
  <2> SUFFICES ASSUME NEW m \in 1 .. offered
               PROVE  \/ /\ released[m] = 0
                         /\ \E x \in Custodians(m) : Custodians(m) = {x}
                      \/ released[m] = 1 /\ Custodians(m) = {}
    BY DEF OneCustodian
  <2>0. offered \in 0 .. MaxMsgs /\ MaxMsgs \in Nat
    BY <1>1, WsTaskQueueAssumption DEF IInv, TypeOK
  <2>1. m \in Msgs /\ m # 0 /\ m <= offered
    BY <2>0 DEF Msgs
  <2>2. CASE \E p \in Producers : held[p] = m
    <3>1. PICK p \in Producers : held[p] = m
      BY <2>2
    <3>2. \A q \in Producers : held[q] = m => q = p
      BY <1>1, <2>1, <3>1 DEF Custody, HeldOnce
    <3>3. m # current /\ \A i \in DOMAIN content : content[i] # m
      BY <1>1, <2>1, <3>1 DEF Custody, HeldOnce, Range
    <3>4. Custodians(m) = {<<"producer", p>>}
      BY <3>1, <3>2, <3>3 DEF Custodians
    <3>5. released[m] = 0
      BY <1>1, <2>1, <2>2 DEF Custody, ReleasedOnce, Placed
    <3> QED
      BY <3>4, <3>5
  <2>3. CASE m \in Range(content)
    <3>1. PICK i \in DOMAIN content : content[i] = m
      BY <2>3 DEF Range
    <3>2. \A j \in DOMAIN content : content[j] = m => j = i
      BY <1>1, <3>1 DEF Custody, QueuedOnce, IsInjective
    <3>3. m # current /\ \A q \in Producers : held[q] # m
      BY <1>1, <2>1, <2>3 DEF Custody, HeldOnce, QueuedOnce
    <3>4. Custodians(m) = {<<"queue", i>>}
      BY <3>1, <3>2, <3>3 DEF Custodians
    <3>5. released[m] = 0
      BY <1>1, <2>1, <2>3 DEF Custody, ReleasedOnce, Placed
    <3> QED
      BY <3>4, <3>5
  <2>4. CASE m = current
    <3>1. /\ \A q \in Producers : held[q] # m
          /\ \A i \in DOMAIN content : content[i] # m
      BY <1>1, <2>1, <2>4 DEF Custody, HeldOnce, QueuedOnce, Range
    <3>2. Custodians(m) = {<<"task", 0>>}
      BY <2>4, <3>1 DEF Custodians
    <3>3. released[m] = 0
      BY <1>1, <2>1, <2>4 DEF Custody, ReleasedOnce, Placed
    <3> QED
      BY <3>2, <3>3
  <2>5. CASE ~Placed(m)
    <3>1. Custodians(m) = {}
      BY <2>5 DEF Custodians, Placed, Range
    <3>2. released[m] = 1
      BY <1>1, <2>1, <2>5 DEF Custody, ReleasedOnce
    <3> QED
      BY <3>1, <3>2
  <2> QED
    BY <2>2, <2>3, <2>4, <2>5 DEF Placed
<1>2. IInv /\ Custody => OneCustodian
  BY <1>1
<1> QED
  BY <1>2, Inductive, CustodyHolds, PTL

-----------------------------------------------------------------------------
(* A step that takes one message from one stage to the next, and leaves    *)
(* the others where they are, is a turn of the hand-off.                   *)
LEMMA OneTurn ==
    ASSUME NEW k \in Msgs, NEW from, NEW to, Stage(k) = from, Stage(k)' = to,
           \A m \in Msgs \ {k} : Stage(m)' = Stage(m)
    PROVE  Handoff!Turn(k, from, to)
BY DEF Handoff!Turn

(* The queue comes and goes in the controllers' hands only, and goes only   *)
(* when nothing waits in it and nothing is being sent.                      *)
LEMMA OpenStep ==
    ASSUME IInv, Custody, [Next]_vars, ~UNCHANGED (queue # 0)
    PROVE  Keeps /\ (queue # 0 => content = <<>> /\ current = 0)
<1> USE DEF queueVars, prodVars, ctlVars
<1>1. ASSUME NEW p \in Producers, Offer(p) \/ Enqueue(p) PROVE UNCHANGED queue
  BY <1>1 DEF Offer, Enqueue, EnqueueBusy, EnqueueRefused, EnqueueAdmitted,
       SendOk, SendFull, CountOut, ReportFull
<1>2. BroadcastTask => UNCHANGED queue
  BY DEF BroadcastTask, Receive, Processed, ReceiveTimeout, Park
<1>3. ASSUME NEW c \in Controllers, NEW op \in {"wantEnable", "wantDisable"},
             Call(c, op)
      PROVE  UNCHANGED queue
  BY <1>3 DEF Call
<1>4. ASSUME NEW c \in Controllers, FinishPendingStop(c) \/ Reap(c)
      PROVE  Keeps /\ content = <<>> /\ current = 0
  <2>1. Parked /\ DestroyQueue /\ inFlight = 0 /\ UNCHANGED <<prodVars, current>>
    BY <1>4 DEF FinishPendingStop, Reap, Parked
  <2>2. content = <<>> /\ task # "busy"
    BY <2>1 DEF IInv, QueueInv, Parked
  <2> QED
    BY <2>1, <2>2, DestroyKeeps DEF Custody, QueuedOnce
<1>5. ASSUME NEW c \in Controllers, DestroyTaskless(c) PROVE UNCHANGED queue
  BY <1>5 DEF DestroyTaskless, DestroyQueue, IInv, QueueInv
<1>6. ASSUME NEW c \in Controllers, Create(c) PROVE Keeps /\ queue = 0
  <2>1. queue = 0 /\ content = <<>> /\ task = "none"
    BY <1>6 DEF Create, ReadyToCreate, IInv, QueueInv, StageInv
  <2> QED
    BY <1>6, <2>1 DEF Create, Keeps
<1>7. ASSUME NEW c \in Controllers,
             \/ LockTimeout(c) \/ Lock(c) \/ EnableDeferred(c)
             \/ EnableAgain(c) \/ CreateFails(c) \/ StopAccepting(c)
             \/ DrainTimeout(c) \/ RequestStop(c) \/ ReapTimeout(c)
      PROVE  UNCHANGED queue
  BY <1>7 DEF LockTimeout, Lock, EnableDeferred, EnableAgain, CreateFails,
       StopAccepting, DrainTimeout, RequestStop, ReapTimeout
<1>8. UNCHANGED vars => UNCHANGED queue
  BY DEF vars
<1> QED
  BY <1>1, <1>2, <1>3, <1>4, <1>5, <1>6, <1>7, <1>8 DEF Next, Control

LEMMA RefineInit == Init => Handoff!Init
BY DEF Init, Handoff!Init, Stage, Msgs

LEMMA RefineStep ==
    ASSUME IInv, Custody, Custody', [Next]_vars
    PROVE  [Handoff!Next]_Handoff!handoffVars
<1> USE WsTaskQueueAssumption
<1>0. /\ offered \in Nat /\ Len(content) \in Nat
      /\ released \in [Msgs -> Nat]
      /\ \A m \in Msgs : m \in Nat /\ m # 0
  BY DEF IInv, TypeOK, Msgs
<1>a. CASE ~UNCHANGED (queue # 0)
  <2>1. Keeps /\ (queue # 0 => content = <<>> /\ current = 0)
    BY <1>a, OpenStep
  <2>2. UNCHANGED <<content, current, offered, released>>
    BY <2>1 DEF Keeps
  <2>3. UNCHANGED [m \in Msgs |-> Stage(m)]
    BY <2>2 DEF Stage
  <2>4. CASE queue = 0
    BY <1>a, <2>2, <2>3, <2>4 DEF Handoff!Next, Handoff!Open
  <2>5. CASE queue # 0
    BY <1>a, <2>1, <2>2, <2>3, <2>5 DEF Handoff!Next, Handoff!Close
  <2> QED
    BY <2>4, <2>5
<1>b. SUFFICES ASSUME UNCHANGED (queue # 0)
               PROVE  [Handoff!Next]_Handoff!handoffVars
  BY <1>a
<1>1. ASSUME NEW p \in Producers, Offer(p) PROVE Handoff!Next
  <2>1. /\ offered + 1 \in Msgs /\ offered' = offered + 1
        /\ UNCHANGED <<content, current, released>>
    BY <1>0, <1>1 DEF IInv, TypeOK, Offer, Msgs, queueVars
  <2>2. released[offered + 1] = 0 /\ offered + 1 # current
        /\ offered + 1 \notin Range(content)
    BY <1>0, <2>1 DEF Custody, ReleasedOnce, QueuedOnce, IInv, TypeOK
  <2>k. PICK k \in Msgs : k = offered + 1
    BY <2>1
  <2>3. \A m \in Msgs \ {k} : Stage(m)' = Stage(m)
    BY <2>k, <1>0, <2>1 DEF Stage
  <2>4. Stage(k) = "new" /\ Stage(k)' = "offered"
    BY <2>k, <1>0, <2>1, <2>2 DEF Stage
  <2>5. Handoff!Offer(k)
    BY <1>b, <2>k, <2>1, <2>3, <2>4, OneTurn DEF Handoff!Offer
  <2> QED
    BY <2>1, <2>5 DEF Handoff!Next
<1>2. ASSUME NEW p \in Producers, Drops(p) PROVE Handoff!Next
  <2>1. /\ held[p] \in Msgs /\ held[p] <= offered
        /\ held[p] # current /\ held[p] \notin Range(content)
        /\ UNCHANGED <<content, current, offered>>
    BY <1>2 DEF IInv, TypeOK, HeldInv, Custody, HeldOnce, Drops, Msgs
  <2>2. released[held[p]] = 0
    BY <2>1 DEF Custody, ReleasedOnce, Placed
  <2>3. /\ released'[held[p]] = 1
        /\ \A m \in Msgs \ {held[p]} : released'[m] = released[m]
    BY <1>2, <2>1, <2>2, ReleaseOne DEF IInv, Drops
  <2>k. PICK k \in Msgs : k = held[p]
    BY <2>1
  <2>4. \A m \in Msgs \ {k} : Stage(m)' = Stage(m)
    BY <2>k, <2>1, <2>3 DEF Stage
  <2>5. Stage(k) = "offered" /\ Stage(k)' = "done"
    BY <2>k, <1>0, <2>1, <2>2, <2>3 DEF Stage
  <2>6. Handoff!Refuse(k)
    BY <1>b, <2>k, <2>1, <2>4, <2>5, OneTurn DEF Handoff!Refuse
  <2> QED
    BY <2>1, <2>6 DEF Handoff!Next
<1>3. ASSUME NEW p \in Producers, SendOk(p) PROVE Handoff!Next
  <2>1. /\ held[p] \in Msgs /\ held[p] <= offered
        /\ held[p] # current /\ held[p] \notin Range(content)
        /\ Len(content) < QueueSize /\ content' = Append(content, held[p])
        /\ UNCHANGED <<current, offered, released>>
    BY <1>3 DEF IInv, TypeOK, HeldInv, Custody, HeldOnce, SendOk, Move, Msgs
  <2>2. released[held[p]] = 0
    BY <2>1 DEF Custody, ReleasedOnce, Placed
  <2>3. Range(content') = Range(content) \cup {held[p]}
    BY <2>1, ContentType, AppendRange DEF IInv
  <2>k. PICK k \in Msgs : k = held[p]
    BY <2>1
  <2>4. \A m \in Msgs \ {k} : Stage(m)' = Stage(m)
    BY <2>k, <2>1, <2>3 DEF Stage
  <2>5. Stage(k) = "offered" /\ Stage(k)' = "waiting"
    BY <2>k, <1>0, <2>1, <2>2, <2>3 DEF Stage
  <2>6. Handoff!Accept(k)
    <3>1. queue # 0
      BY <1>3 DEF IInv, SendOnLiveQueue, SendOk, Move
    <3> QED
      BY <1>b, <2>k, <2>1, <2>4, <2>5, <3>1, OneTurn DEF Handoff!Accept
  <2> QED
    BY <2>1, <2>6 DEF Handoff!Next
<1>4. ASSUME Receive PROVE Handoff!Next
  <2>1. /\ content \in Seq(Msgs) /\ content # <<>> /\ IsInjective(content)
        /\ current = 0 /\ current' = Head(content) /\ content' = Tail(content)
        /\ UNCHANGED <<offered, released>>
    BY <1>4, ContentType DEF IInv, Custody, QueuedOnce, Receive, prodVars
  <2>2. /\ current' \in Range(content)
        /\ Range(content') = Range(content) \ {current'}
    BY <2>1, TailRange
  <2>3. current' \in Msgs /\ current' <= offered
    BY <2>2, ContentType DEF IInv, Custody, QueuedOnce
  <2>4. released[current'] = 0
    BY <2>2, <2>3 DEF Custody, ReleasedOnce, Placed
  <2>5. \A m \in Msgs \ {current'} : Stage(m)' = Stage(m)
    BY <1>0, <2>1, <2>2 DEF Stage
  <2>6. ASSUME NEW k \in Msgs, k = current'
        PROVE  Stage(k) = "waiting" /\ Stage(k)' = "sending"
    BY <1>0, <2>1, <2>2, <2>3, <2>4, <2>6 DEF Stage
  <2>7. ASSUME NEW k \in Msgs, k = current' PROVE Handoff!Take(k)
    <3>1. Handoff!Turn(k, "waiting", "sending")
      BY <2>5, <2>6, <2>7, OneTurn
    <3>2. queue # 0
      BY <2>1 DEF IInv, QueueInv
    <3> QED
      BY <1>b, <2>1, <2>7, <3>1, <3>2 DEF Handoff!Take
  <2> QED
    BY <2>3, <2>7 DEF Handoff!Next
<1>5. ASSUME Processed PROVE Handoff!Next
  <2>1. /\ current \in Msgs /\ current <= offered /\ current' = 0
        /\ current \notin Range(content)
        /\ UNCHANGED <<content, offered>>
    BY <1>0, <1>5 DEF Processed, Custody, QueuedOnce, IInv, TypeOK, Msgs,
       queueVars, prodVars
  <2>2. released[current] = 0
    BY <2>1 DEF Custody, ReleasedOnce, Placed
  <2>3. /\ released'[current] = 1
        /\ \A m \in Msgs \ {current} : released'[m] = released[m]
    BY <1>5, <2>1, <2>2, ReleaseOne DEF IInv, Processed
  <2>k. PICK k \in Msgs : k = current
    BY <2>1
  <2>4. \A m \in Msgs \ {k} : Stage(m)' = Stage(m)
    BY <2>k, <1>0, <2>1, <2>3 DEF Stage
  <2>5. Stage(k) = "sending" /\ Stage(k)' = "done"
    BY <2>k, <1>0, <2>1, <2>2, <2>3 DEF Stage
  <2>6. Handoff!Finish(k)
    BY <1>b, <2>k, <2>1, <2>4, <2>5, OneTurn DEF Handoff!Finish
  <2> QED
    BY <2>1, <2>6 DEF Handoff!Next
<1>6. ASSUME UNCHANGED <<content, current, offered, released>>
      PROVE  UNCHANGED Handoff!handoffVars
  BY <1>b, <1>6 DEF Handoff!handoffVars, Stage
<1>7. ASSUME NEW p \in Producers
      PROVE  /\ Moves(p) => UNCHANGED <<content, current, offered, released>>
             /\ Keeps => UNCHANGED <<content, current, offered, released>>
  BY DEF Moves, Keeps
<1>8. Keeps => UNCHANGED <<content, current, offered, released>>
  BY DEF Keeps
<1> QED
  BY StepShape, <1>1, <1>2, <1>3, <1>4, <1>5, <1>6, <1>7, <1>8

(* For any number of tasks and any capacity: an accepted message is sent,  *)
(* once and in its turn; the lifecycle of the queue never shows through.   *)
THEOREM QueueImplementsHandoff == Spec => ImplementsHandoff
<1>1. IInv /\ Custody /\ Custody' /\ [Next]_vars
        => [Handoff!Next]_Handoff!handoffVars
  BY RefineStep
<1> QED
  BY <1>1, RefineInit, Inductive, CustodyHolds, PTL
     DEF Spec, ImplementsHandoff, Handoff!Spec

=============================================================================
