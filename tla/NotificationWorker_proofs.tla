---------------------- MODULE NotificationWorker_proofs ----------------------
(***************************************************************************)
(* Proofs about NotificationWorker for any set of callers and any number   *)
(* of restarts, time-outs and failures.                                    *)
(***************************************************************************)
EXTENDS NotificationWorker, TLAPS

(* Tasks that reconcile, all under the settings lock. *)
Lockers == Callers \cup {Boot}

LockInv ==
    /\ \A t \in Lockers : lock = t <=> pc[t] \notin {"idle", "over"}
    /\ \A g \in Gens : wpc[g] = "bind" => lock = Worker
    /\ pc[Power] \in {"idle", "stop", "waitLoop", "waitGone", "over"}
    /\ pc[Boot] # "save"

NoneAlive  == \A g \in Gens : ~Alive(g)
Publishing == \E t \in Lockers : pc[t] = "publish"

(* Only the latest worker can be alive, and handles point at no other. *)
Numbered ==
    /\ \A g \in Gens : wpc[g] = "none" <=> g > created
    /\ \A g \in Gens : Alive(g) => g = created
    /\ taskHandle \in {0, created} /\ stoppingHandle \in {0, created}

(* Which handle leads to the live worker: it always can be found. *)
Handles ==
    \A g \in Gens :
        /\ wpc[g] \in {"loop", "channel", "bind", "leaving"} =>
              stoppingHandle = 0 /\ (taskHandle = g \/ Publishing)
        /\ wpc[g] \in {"handed", "deleting"} => stoppingHandle = g

(* What begin() has made sure of before it creates a task. *)
Starting ==
    \A t \in Lockers :
        /\ pc[t] \in {"arm", "create"} =>
              taskHandle = 0 /\ stoppingHandle = 0 /\ NoneAlive
        /\ pc[t] \in {"begin", "arm", "create", "publish"} => wanted = "on"

Stored == \A g \in Gens : Alive(g) => storage = g

Armed ==
    Up => /\ NoneAlive \/ flags = "armed"
          /\ \A t \in Lockers : pc[t] = "create" => flags = "armed"

(* A worker on its way out stays told to stop. *)
Leaving ==
    \A g \in Gens : wpc[g] \in {"leaving", "handed", "deleting"} => token = "stop"

(* What a change to "off" has achieved wherever the lock is now. *)
Quiet == NoneAlive \/ token = "stop"
Disabled ==
    wanted = "off" =>
        /\ lock \in {NoOne, Worker} => Quiet
        /\ \A t \in Lockers : pc[t] \in {"waitLoop", "waitGone", "again"} => Quiet

Rollback == \A t \in Callers : pc[t] = "save" /\ before[t] = "off" => Quiet

IInv ==
    /\ TypeOK /\ LockInv /\ Numbered /\ Handles /\ Starting /\ Stored
    /\ Armed /\ Leaving /\ Disabled /\ Rollback

-----------------------------------------------------------------------------
LEMMA InvInit == Init => IInv
<1> SUFFICES ASSUME Init PROVE IInv
  OBVIOUS
<1> USE NotificationWorkerAssumption DEF Init, Gens, Tasks, Lockers
<1>1. TypeOK
  BY DEF TypeOK
<1>2. LockInv
  BY DEF LockInv
<1>3. NoneAlive
  BY DEF NoneAlive, Alive
<1>4. Numbered /\ Handles /\ Starting /\ Stored
  BY <1>3 DEF Numbered, Handles, Starting, Stored, NoneAlive, Alive
<1>5. Armed /\ Leaving /\ Disabled /\ Rollback
  BY <1>3 DEF Armed, Leaving, Disabled, Rollback, Quiet
<1> QED
  BY <1>1, <1>2, <1>4, <1>5 DEF IInv

(* The steps of the tasks, one by one. *)
LEMMA Steps ==
    ASSUME [Next]_vars
    PROVE  \/ \E t \in Callers : Change(t)
           \/ \E t \in Lockers :
                 \/ SaveOk(t) \/ NothingChanged(t) \/ SaveFails(t) \/ Agree(t) \/ Start(t) \/ Stop(t)
                 \/ Begin(t) \/ Arm(t) \/ Create(t) \/ CreateFails(t) \/ Publish(t)
           \/ \E t \in Tasks :
                 \/ StopNothing(t) \/ StopRequest(t) \/ LoopGone(t)
                 \/ LoopTimeout(t) \/ CleanedUp(t)
           \/ Shutdown
           \/ \E g \in Gens :
                 \/ Cycle(g) \/ ChannelDone(g) \/ BindChat(g) \/ ChatBound(g)
                 \/ Leave(g) \/ HandOff(g) \/ Delete(g)
           \/ UNCHANGED vars
BY DEF Next, Reconcile, Stopping, Live, Lockers

LEMMA TypeStep ==
    ASSUME TypeOK, LockInv, [Next]_vars
    PROVE  TypeOK'
<1> USE NotificationWorkerAssumption DEF TypeOK, Gens, Tasks, Lockers, Goto,
        Work, Done, Fails, GivesUp, settingVars, handleVars, cancelVars,
        workVars, histVars
<1>1. ASSUME NEW t \in Callers, Change(t) PROVE TypeOK'
  BY <1>1 DEF Change
<1>2. ASSUME NEW t \in Lockers,
             SaveOk(t) \/ NothingChanged(t) \/ Agree(t) \/ Start(t) \/ Stop(t)
      PROVE  TypeOK'
  BY <1>2 DEF SaveOk, NothingChanged, Agree, Start, Stop
<1>3. ASSUME NEW t \in Lockers, SaveFails(t) PROVE TypeOK'
  BY <1>3 DEF SaveFails, LockInv
<1>4. ASSUME NEW t \in Lockers, Begin(t) PROVE TypeOK'
  BY <1>4 DEF Begin
<1>5. ASSUME NEW t \in Lockers, Arm(t) PROVE TypeOK'
  BY <1>5 DEF Arm
<1>6. ASSUME NEW t \in Lockers, Create(t) PROVE TypeOK'
  BY <1>6 DEF Create
<1>7. ASSUME NEW t \in Lockers, CreateFails(t) \/ Publish(t) PROVE TypeOK'
  BY <1>7 DEF CreateFails, Publish
<1>8. ASSUME NEW t \in Tasks, StopNothing(t) \/ CleanedUp(t) PROVE TypeOK'
  <2>1. CASE StopNothing(t)
    BY <2>1 DEF StopNothing, Reclaim, StopReturns
  <2>2. CASE CleanedUp(t)
    BY <2>2 DEF CleanedUp, Reclaim, StopReturns
  <2> QED
    BY <1>8, <2>1, <2>2
<1>9. ASSUME NEW t \in Tasks, StopRequest(t) \/ LoopGone(t) \/ LoopTimeout(t)
      PROVE  TypeOK'
  <2>1. CASE StopRequest(t)
    BY <2>1 DEF StopRequest
  <2>2. CASE LoopGone(t)
    BY <2>2 DEF LoopGone
  <2>3. CASE LoopTimeout(t)
    BY <2>3 DEF LoopTimeout, StopReturns
  <2> QED
    BY <1>9, <2>1, <2>2, <2>3
<1>10. ASSUME Shutdown PROVE TypeOK'
  BY <1>10 DEF Shutdown
<1>11. ASSUME NEW g \in Gens,
              Cycle(g) \/ ChannelDone(g) \/ BindChat(g) \/ Leave(g) \/ Delete(g)
       PROVE  TypeOK'
  BY <1>11 DEF Cycle, ChannelDone, BindChat, Leave, Delete
<1>12. ASSUME NEW g \in Gens, ChatBound(g) PROVE TypeOK'
  BY <1>12 DEF ChatBound
<1>13. ASSUME NEW g \in Gens, HandOff(g) PROVE TypeOK'
  BY <1>13 DEF HandOff
<1>14. ASSUME UNCHANGED vars PROVE TypeOK'
  BY <1>14 DEF vars
<1> QED
  BY Steps, <1>1, <1>2, <1>3, <1>4, <1>5, <1>6, <1>7, <1>8, <1>9, <1>10,
     <1>11, <1>12, <1>13, <1>14

(* Whoever is in the locked part is alone there, and no worker is in its   *)
(* own locked part.                                                        *)
LEMMA Solo ==
    ASSUME LockInv, NEW t \in Lockers, pc[t] \notin {"idle", "over"}
    PROVE  /\ lock = t
           /\ \A u \in Lockers : u # t => pc[u] \in {"idle", "over"}
           /\ \A g \in Gens : wpc[g] # "bind"
BY NotificationWorkerAssumption DEF LockInv, Lockers

LEMMA ExitedNone ==
    ASSUME TypeOK, Numbered, Exited
    PROVE  NoneAlive
BY DEF Numbered, Exited, NoneAlive

(* No handle and nobody about to store one: no worker. *)
LEMMA UntrackedNone ==
    ASSUME TypeOK, Handles, ~Publishing, taskHandle = 0, stoppingHandle = 0
    PROVE  NoneAlive
<1>1. ASSUME NEW g \in Gens, Alive(g) PROVE FALSE
  <2>1. g # 0
    BY DEF Gens
  <2>2. wpc[g] \in {"loop", "channel", "bind", "leaving", "handed", "deleting"}
    BY <1>1 DEF TypeOK, Alive
  <2> QED
    BY <2>1, <2>2 DEF Handles
<1> QED
  BY <1>1 DEF NoneAlive

LEMMA NoneMeans ==
    ASSUME TypeOK
    PROVE  NoneAlive <=> \A g \in Gens : wpc[g] \in {"none", "gone"}
BY DEF TypeOK, NoneAlive, Alive

LEMMA StoppedNone ==
    ASSUME TypeOK, LockInv, Numbered, Handles,
           NEW t \in Lockers, pc[t] \notin {"idle", "over", "publish"}, ~Running
    PROVE  NoneAlive
<1>1. ~Publishing
  BY Solo DEF Publishing
<1> QED
  BY <1>1, ExitedNone, UntrackedNone DEF Running

(* The settings lock is held by exactly whoever is in its locked part. *)
LEMMA LockInvStep ==
    ASSUME TypeOK, LockInv, Numbered, [Next]_vars
    PROVE  LockInv'
<1> USE NotificationWorkerAssumption DEF TypeOK, LockInv, Lockers, Tasks, Gens,
        Goto, Work, Done, settingVars, handleVars, cancelVars, workVars, histVars
<1>1. ASSUME NEW t \in Callers, Change(t)
      PROVE  LockInv'
  BY <1>1 DEF Change
<1>2. ASSUME NEW t \in Lockers, SaveOk(t) \/ Arm(t) \/ Start(t) \/ Stop(t)
      PROVE  LockInv'
  BY <1>2 DEF SaveOk, Arm, Start, Stop
<1>3. ASSUME NEW t \in Lockers, NothingChanged(t) \/ SaveFails(t) \/ Agree(t)
      PROVE  LockInv'
  BY <1>3 DEF NothingChanged, SaveFails, Agree
<1>4. ASSUME NEW t \in Lockers, Begin(t)
      PROVE  LockInv'
  BY <1>4 DEF Begin
<1>5. ASSUME NEW t \in Lockers, Create(t)
      PROVE  LockInv'
  BY <1>5 DEF Create
<1>6. ASSUME NEW t \in Lockers, CreateFails(t) \/ Publish(t)
      PROVE  LockInv'
  BY <1>6 DEF CreateFails, Publish
<1>7. ASSUME NEW t \in Tasks,
             StopNothing(t) \/ StopRequest(t) \/ LoopGone(t)
      PROVE  LockInv'
  BY <1>7 DEF StopNothing, StopReturns, Reclaim, StopRequest, LoopGone
<1>8. ASSUME NEW t \in Tasks, LoopTimeout(t) \/ CleanedUp(t)
      PROVE  LockInv'
  BY <1>8 DEF LoopTimeout, StopReturns, CleanedUp, Reclaim
<1>9. ASSUME Shutdown
      PROVE  LockInv'
  BY <1>9 DEF Shutdown
<1>10. ASSUME NEW g \in Gens,
             Cycle(g) \/ ChannelDone(g) \/ Leave(g) \/
             HandOff(g) \/ Delete(g)
      PROVE  LockInv'
  BY <1>10 DEF Cycle, ChannelDone, Leave, HandOff, Delete
<1>11. ASSUME NEW g \in Gens, BindChat(g)
      PROVE  LockInv'
  BY <1>11 DEF BindChat
<1>12. ASSUME NEW g \in Gens, ChatBound(g)
      PROVE  LockInv'
  <2>1. \A h \in Gens : wpc[h] = "bind" => h = g
    BY <1>12 DEF ChatBound, Numbered, Alive
  <2> QED
    BY <1>12, <2>1 DEF ChatBound
<1>13. ASSUME UNCHANGED vars PROVE LockInv'
  BY <1>13 DEF vars
<1> QED
  BY Steps, <1>1, <1>2, <1>3, <1>4, <1>5, <1>6, <1>7, <1>8, <1>9, <1>10,
     <1>11, <1>12, <1>13

(* Workers are created one after the other. *)
LEMMA NumberedStep ==
    ASSUME TypeOK, LockInv, Numbered, Handles, Starting, [Next]_vars
    PROVE  Numbered'
<1> USE NotificationWorkerAssumption DEF TypeOK, Numbered, Gens, Alive, Goto, Work, Done, settingVars, handleVars, cancelVars, workVars, histVars
<1>1. ASSUME NEW t \in Callers, Change(t)
      PROVE  Numbered'
  BY <1>1 DEF Change
<1>2. ASSUME NEW t \in Lockers,
             SaveOk(t) \/ NothingChanged(t) \/ SaveFails(t) \/ Agree(t) \/ Start(t)
             \/ Stop(t) \/ Arm(t) \/ CreateFails(t)
      PROVE  Numbered'
  BY <1>2 DEF SaveOk, NothingChanged, SaveFails, Agree, Start, Stop, Arm, CreateFails
<1>3. ASSUME NEW t \in Lockers, Begin(t)
      PROVE  Numbered'
  BY <1>3 DEF Begin
<1>4. ASSUME NEW t \in Lockers, Create(t)
      PROVE  Numbered'
  <2>1. /\ taskHandle' = 0 /\ stoppingHandle' = 0 /\ created' = created + 1
        /\ created + 1 \in Gens /\ wpc' = [wpc EXCEPT ![created + 1] = "loop"]
    BY <1>4 DEF Create, Starting
  <2>2. \A g \in Gens : wpc[g] \in {"none", "gone"}
    BY <1>4, NoneMeans DEF Create, Starting
  <2> QED
    BY <2>1, <2>2
<1>5. ASSUME NEW t \in Lockers, Publish(t)
      PROVE  Numbered'
  BY <1>5 DEF Publish
<1>6. ASSUME NEW t \in Tasks, StopNothing(t) \/ CleanedUp(t)
      PROVE  Numbered'
  BY <1>6 DEF StopNothing, StopReturns, Reclaim, CleanedUp
<1>7. ASSUME NEW t \in Tasks,
             StopRequest(t) \/ LoopGone(t) \/ LoopTimeout(t)
      PROVE  Numbered'
  BY <1>7 DEF StopRequest, LoopGone, LoopTimeout, StopReturns
<1>8. ASSUME Shutdown
      PROVE  Numbered'
  BY <1>8 DEF Shutdown
<1>9. ASSUME NEW g \in Gens,
             Cycle(g) \/ ChannelDone(g) \/ BindChat(g) \/
             ChatBound(g) \/ Leave(g)
      PROVE  Numbered'
  <2>1. /\ UNCHANGED <<created, taskHandle, stoppingHandle>>
        /\ wpc[g] \in {"loop", "channel", "bind"}
        /\ \E to \in {"loop", "channel", "bind", "leaving"} : wpc' = [wpc EXCEPT ![g] = to]
    BY <1>9 DEF Cycle, ChannelDone, BindChat, ChatBound, Leave
  <2>2. \A h \in Gens : wpc'[h] \in {"none", "gone"} <=> wpc[h] \in {"none", "gone"}
    BY <2>1
  <2>3. \A h \in Gens : wpc'[h] = "none" <=> wpc[h] = "none"
    BY <2>1
  <2> QED
    BY <2>1, <2>2, <2>3
<1>10. ASSUME NEW g \in Gens, HandOff(g)
      PROVE  Numbered'
  BY <1>10 DEF HandOff
<1>11. ASSUME NEW g \in Gens, Delete(g)
      PROVE  Numbered'
  BY <1>11 DEF Delete
<1>12. ASSUME UNCHANGED vars PROVE Numbered'
  BY <1>12 DEF vars
<1> QED
  BY Steps, <1>1, <1>2, <1>3, <1>4, <1>5, <1>6, <1>7, <1>8, <1>9, <1>10,
     <1>11, <1>12

(* A live worker is never out of reach. *)
LEMMA HandlesStep ==
    ASSUME TypeOK, LockInv, Numbered, Handles, Starting, [Next]_vars
    PROVE  Handles'
<1> USE NotificationWorkerAssumption DEF TypeOK, Handles, Gens, Publishing, Lockers, Tasks,
        Goto, Work, Done, settingVars, handleVars, cancelVars, workVars, histVars
<1>1. ASSUME NEW t \in Callers, Change(t)
      PROVE  Handles'
  BY <1>1 DEF Change
<1>2. ASSUME NEW t \in Lockers,
             SaveOk(t) \/ NothingChanged(t) \/ SaveFails(t) \/ Agree(t) \/ Start(t)
             \/ Stop(t)
      PROVE  Handles'
  BY <1>2 DEF SaveOk, NothingChanged, SaveFails, Agree, Start, Stop
<1>3. ASSUME NEW t \in Lockers, Arm(t) \/ CreateFails(t)
      PROVE  Handles'
  BY <1>3 DEF Arm, CreateFails
<1>4. ASSUME NEW t \in Lockers, Begin(t)
      PROVE  Handles'
  <2>1. CASE Running
    BY <1>4, <2>1 DEF Begin, Running
  <2>2. CASE ~Running
    <3>1. NoneAlive
      BY <1>4, <2>2, StoppedNone DEF Begin
    <3> QED
      BY <1>4, <3>1, NoneMeans DEF Begin
  <2> QED
    BY <2>1, <2>2
<1>5. ASSUME NEW t \in Lockers, Create(t)
      PROVE  Handles'
  <2>1. \A g \in Gens : wpc[g] \in {"none", "gone"}
    BY <1>5, NoneMeans DEF Create, Starting
  <2>2. Publishing' /\ stoppingHandle' = 0
    BY <1>5 DEF Create, Starting
  <2> QED
    BY <1>5, <2>1, <2>2 DEF Create
<1>6. ASSUME NEW t \in Lockers, Publish(t)
      PROVE  Handles'
  BY <1>6 DEF Publish, Numbered, Alive
<1>7. ASSUME NEW t \in Tasks, StopNothing(t) \/ CleanedUp(t)
      PROVE  Handles'
  <2>1. Publishing' <=> Publishing
    BY <1>7 DEF StopNothing, CleanedUp, StopReturns
  <2>2. UNCHANGED <<wpc, taskHandle>> /\ (UNCHANGED stoppingHandle \/ Exited)
    BY <1>7 DEF StopNothing, CleanedUp
  <2> QED
    BY <2>1, <2>2, ExitedNone, NoneMeans
<1>8. ASSUME NEW t \in Tasks,
             StopRequest(t) \/ LoopGone(t) \/ LoopTimeout(t)
      PROVE  Handles'
  BY <1>8 DEF StopRequest, LoopGone, LoopTimeout, StopReturns
<1>9. ASSUME Shutdown
      PROVE  Handles'
  BY <1>9 DEF Shutdown
<1>10. ASSUME NEW g \in Gens,
             Cycle(g) \/ ChannelDone(g) \/ BindChat(g) \/
             ChatBound(g) \/ Leave(g)
      PROVE  Handles'
  <2>1. /\ UNCHANGED <<taskHandle, stoppingHandle, pc>>
        /\ wpc[g] \in {"loop", "channel", "bind"}
        /\ \E to \in {"loop", "channel", "bind", "leaving"} : wpc' = [wpc EXCEPT ![g] = to]
    BY <1>10 DEF Cycle, ChannelDone, BindChat, ChatBound, Leave
  <2>2. \A h \in Gens : h # g => wpc'[h] = wpc[h]
    BY <2>1
  <2>3. wpc'[g] \in {"loop", "channel", "bind", "leaving"}
    BY <2>1
  <2> QED
    BY <2>1, <2>2, <2>3
<1>11. ASSUME NEW g \in Gens, HandOff(g)
      PROVE  Handles'
  <2>1. \A h \in Gens \ {g} : wpc[h] \in {"none", "gone"}
    BY <1>11 DEF HandOff, Numbered, Alive
  <2> QED
    BY <1>11, <2>1 DEF HandOff
<1>12. ASSUME NEW g \in Gens, Delete(g)
      PROVE  Handles'
  BY <1>12 DEF Delete
<1>13. ASSUME UNCHANGED vars PROVE Handles'
  BY <1>13 DEF vars
<1> QED
  BY Steps, <1>1, <1>2, <1>3, <1>4, <1>5, <1>6, <1>7, <1>8, <1>9, <1>10,
     <1>11, <1>12, <1>13

(* begin() creates a worker only where there is none. *)
LEMMA StartingStep ==
    ASSUME TypeOK, LockInv, Numbered, Handles, Starting, [Next]_vars
    PROVE  Starting'
<1> USE NotificationWorkerAssumption DEF TypeOK, Starting, Gens, Lockers, Tasks,
        Goto, Work, Done, settingVars, handleVars, cancelVars, workVars, histVars
<1>1. ASSUME NEW t \in Callers, Change(t)
      PROVE  Starting'
  BY <1>1 DEF Change, LockInv, NoneAlive, Alive
<1>2. ASSUME NEW t \in Lockers,
             SaveOk(t) \/ NothingChanged(t) \/ SaveFails(t) \/ Agree(t) \/ Start(t) \/ Stop(t)
      PROVE  Starting'
  BY <1>2, Solo DEF SaveOk, NothingChanged, SaveFails, Agree, Start, Stop, NoneAlive, Alive
<1>3. ASSUME NEW t \in Lockers, Begin(t)
      PROVE  Starting'
  <2>1. CASE Running
    BY <1>3, <2>1, Solo DEF Begin, Running, NoneAlive, Alive
  <2>2. CASE ~Running
    <3>1. NoneAlive'
      BY <1>3, <2>2, StoppedNone DEF Begin, NoneAlive, Alive
    <3>2. taskHandle' = 0 /\ stoppingHandle' = 0
      BY <1>3, <2>2 DEF Begin, Running
    <3> QED
      BY <1>3, <3>1, <3>2, Solo DEF Begin
  <2> QED
    BY <2>1, <2>2
<1>4. ASSUME NEW t \in Lockers,
             Arm(t) \/ Create(t) \/ CreateFails(t) \/ Publish(t)
      PROVE  Starting'
  BY <1>4, Solo DEF Arm, Create, CreateFails, Publish, NoneAlive, Alive
<1>5. ASSUME NEW t \in Tasks, StopNothing(t) \/ CleanedUp(t)
      PROVE  Starting'
  BY <1>5 DEF StopNothing, CleanedUp, StopReturns, Reclaim, NoneAlive, Alive
<1>6. ASSUME NEW t \in Tasks, StopRequest(t) \/ LoopGone(t) \/ LoopTimeout(t)
      PROVE  Starting'
  BY <1>6 DEF StopRequest, LoopGone, LoopTimeout, StopReturns, NoneAlive, Alive
<1>7. ASSUME Shutdown PROVE Starting'
  BY <1>7 DEF Shutdown, NoneAlive, Alive
<1>8. ASSUME NEW g \in Gens,
             \/ Cycle(g) \/ ChannelDone(g) \/ BindChat(g) \/ ChatBound(g)
             \/ Leave(g) \/ HandOff(g) \/ Delete(g)
      PROVE  Starting'
  <2>1. Alive(g)
    BY <1>8 DEF Alive, Cycle, ChannelDone, BindChat, ChatBound, Leave,
       HandOff, Delete
  <2>2. \A t \in Lockers : pc[t] \notin {"arm", "create"}
    BY <2>1 DEF NoneAlive
  <2>3. UNCHANGED <<pc, wanted>>
    BY <1>8 DEF Cycle, ChannelDone, BindChat, ChatBound, Leave, HandOff, Delete
  <2> QED
    BY <2>2, <2>3
<1>9. ASSUME UNCHANGED vars PROVE Starting'
  BY <1>9 DEF vars, NoneAlive, Alive
<1> QED
  BY Steps, <1>1, <1>2, <1>3, <1>4, <1>5, <1>6, <1>7, <1>8, <1>9

(* The stack stays with the worker that uses it. *)
LEMMA StoredStep ==
    ASSUME TypeOK, LockInv, Numbered, Handles, Starting, Stored, [Next]_vars
    PROVE  Stored'
<1> USE NotificationWorkerAssumption DEF TypeOK, Stored, Gens, Alive, Goto, Work, Done, settingVars, handleVars, cancelVars, workVars, histVars
<1>1. ASSUME NEW t \in Callers, Change(t)
      PROVE  Stored'
  BY <1>1 DEF Change
<1>2. ASSUME NEW t \in Lockers,
             SaveOk(t) \/ NothingChanged(t) \/ SaveFails(t) \/ Agree(t) \/ Start(t)
             \/ Stop(t) \/ Arm(t) \/ Publish(t)
      PROVE  Stored'
  BY <1>2 DEF SaveOk, NothingChanged, SaveFails, Agree, Start, Stop, Arm, Publish
<1>3. ASSUME NEW t \in Lockers, Begin(t) PROVE Stored'
  <2>1. UNCHANGED wpc /\ (UNCHANGED storage \/ Exited)
    BY <1>3 DEF Begin
  <2> QED
    BY <2>1, ExitedNone DEF NoneAlive
<1>4. ASSUME NEW t \in Lockers, Create(t) \/ CreateFails(t)
      PROVE  Stored'
  <2>1. NoneAlive
    BY <1>4 DEF Create, CreateFails, Starting
  <2> QED
    BY <1>4, <2>1 DEF Create, CreateFails, NoneAlive
<1>5. ASSUME NEW t \in Tasks, StopNothing(t) \/ CleanedUp(t)
      PROVE  Stored'
  <2>1. UNCHANGED wpc /\ (UNCHANGED storage \/ Exited)
    BY <1>5 DEF StopNothing, CleanedUp, Reclaim
  <2> QED
    BY <2>1, ExitedNone DEF NoneAlive
<1>6. ASSUME NEW t \in Tasks,
             StopRequest(t) \/ LoopGone(t) \/ LoopTimeout(t)
      PROVE  Stored'
  BY <1>6 DEF StopRequest, LoopGone, LoopTimeout, StopReturns
<1>7. ASSUME Shutdown
      PROVE  Stored'
  BY <1>7 DEF Shutdown
<1>8. ASSUME NEW g \in Gens,
             Cycle(g) \/ ChannelDone(g) \/ BindChat(g) \/
             ChatBound(g) \/ Leave(g) \/ HandOff(g) \/ Delete(g)
      PROVE  Stored'
  BY <1>8 DEF Cycle, ChannelDone, BindChat, ChatBound, Leave, HandOff,
     Delete
<1>9. ASSUME UNCHANGED vars PROVE Stored'
  BY <1>9 DEF vars
<1> QED
  BY Steps, <1>1, <1>2, <1>3, <1>4, <1>5, <1>6, <1>7, <1>8, <1>9

(* The cancel flags are only cleared when no worker is left. *)
LEMMA ArmedStep ==
    ASSUME TypeOK, LockInv, Numbered, Handles, Starting, Armed, [Next]_vars
    PROVE  Armed'
<1> USE NotificationWorkerAssumption DEF TypeOK, Armed, Up, Gens, Tasks, Lockers,
        Goto, Work, Done, settingVars, handleVars, cancelVars, workVars, histVars
<1>1. ASSUME NEW t \in Callers, Change(t) PROVE Armed'
  BY <1>1 DEF Change, NoneAlive, Alive
<1>2. ASSUME NEW t \in Lockers,
             \/ SaveOk(t) \/ NothingChanged(t) \/ SaveFails(t) \/ Agree(t) \/ Start(t) \/ Stop(t)
             \/ Begin(t) \/ Publish(t)
      PROVE  Armed'
  BY <1>2 DEF SaveOk, NothingChanged, SaveFails, Agree, Start, Stop, Begin, Publish, NoneAlive,
     Alive
<1>3. ASSUME NEW t \in Lockers, Arm(t) PROVE Armed'
  BY <1>3 DEF Arm, NoneAlive, Alive
<1>4. ASSUME NEW t \in Lockers, Create(t) PROVE Armed'
  BY <1>4 DEF Create, NoneAlive, Alive
<1>5. ASSUME NEW t \in Lockers, CreateFails(t) PROVE Armed'
  <2>1. NoneAlive'
    BY <1>5 DEF CreateFails, Starting, NoneAlive, Alive
  <2>2. \A u \in Lockers : pc'[u] # "create"
    BY <1>5, Solo DEF CreateFails
  <2> QED
    BY <2>1, <2>2
<1>6. ASSUME NEW t \in Tasks, StopNothing(t) \/ CleanedUp(t)
      PROVE  Armed'
  <2>1. CASE t = Power
    BY <1>6, <2>1 DEF StopNothing, CleanedUp, StopReturns
  <2>2. CASE t # Power
    <3>1. t \in Lockers /\ pc[t] \in {"stop", "waitGone"}
      BY <1>6, <2>2 DEF StopNothing, CleanedUp, StopReturns
    <3>2. \A u \in Lockers : pc'[u] # "create"
      BY <1>6, <3>1, Solo DEF StopNothing, CleanedUp, StopReturns
    <3>3. UNCHANGED wpc /\ (NoneAlive \/ UNCHANGED flags)
      BY <1>6, <3>1, ExitedNone, StoppedNone DEF StopNothing, CleanedUp,
         Tracked, Running
    <3>4. UNCHANGED Up
      BY <1>6, <2>2 DEF StopNothing, CleanedUp, StopReturns
    <3> QED
      BY <3>2, <3>3, <3>4 DEF NoneAlive, Alive
  <2> QED
    BY <2>1, <2>2
<1>7. ASSUME NEW t \in Tasks, StopRequest(t) \/ LoopGone(t) \/ LoopTimeout(t)
      PROVE  Armed'
  BY <1>7 DEF StopRequest, LoopGone, LoopTimeout, StopReturns, NoneAlive, Alive
<1>8. ASSUME Shutdown PROVE Armed'
  BY <1>8 DEF Shutdown
<1>9. ASSUME NEW g \in Gens,
             \/ Cycle(g) \/ ChannelDone(g) \/ BindChat(g) \/ ChatBound(g)
             \/ Leave(g) \/ HandOff(g) \/ Delete(g)
      PROVE  Armed'
  <2>1. ~NoneAlive
    BY <1>9 DEF NoneAlive, Alive, Cycle, ChannelDone, BindChat, ChatBound,
       Leave, HandOff, Delete
  <2>2. UNCHANGED <<pc, flags>>
    BY <1>9 DEF Cycle, ChannelDone, BindChat, ChatBound, Leave, HandOff, Delete
  <2> QED
    BY <2>1, <2>2
<1>10. ASSUME UNCHANGED vars PROVE Armed'
  BY <1>10 DEF vars, NoneAlive, Alive
<1> QED
  BY Steps, <1>1, <1>2, <1>3, <1>4, <1>5, <1>6, <1>7, <1>8, <1>9, <1>10

(* Only a new worker is told to run. *)
LEMMA LeavingStep ==
    ASSUME TypeOK, LockInv, Numbered, Handles, Starting, Leaving, [Next]_vars
    PROVE  Leaving'
<1> USE NotificationWorkerAssumption DEF TypeOK, Leaving, Gens, Goto, Work, Done, settingVars, handleVars, cancelVars, workVars, histVars
<1>1. ASSUME NEW t \in Callers, Change(t)
      PROVE  Leaving'
  BY <1>1 DEF Change
<1>2. ASSUME NEW t \in Lockers,
             SaveOk(t) \/ NothingChanged(t) \/ SaveFails(t) \/ Agree(t) \/ Start(t)
             \/ Stop(t) \/ Arm(t) \/ Publish(t)
      PROVE  Leaving'
  BY <1>2 DEF SaveOk, NothingChanged, SaveFails, Agree, Start, Stop, Arm, Publish
<1>3. ASSUME NEW t \in Lockers, Begin(t) PROVE Leaving'
  <2>1. CASE Running
    BY <1>3, <2>1 DEF Begin, Running
  <2>2. CASE ~Running
    <3>1. NoneAlive
      BY <1>3, <2>2, StoppedNone DEF Begin
    <3> QED
      BY <1>3, <3>1, NoneMeans DEF Begin
  <2> QED
    BY <2>1, <2>2
<1>4. ASSUME NEW t \in Lockers, Create(t)
      PROVE  Leaving'
  BY <1>4 DEF Create
<1>5. ASSUME NEW t \in Lockers, CreateFails(t)
      PROVE  Leaving'
  BY <1>5 DEF CreateFails
<1>6. ASSUME NEW t \in Tasks, StopNothing(t) \/ CleanedUp(t)
      PROVE  Leaving'
  BY <1>6 DEF StopNothing, StopReturns, Reclaim, CleanedUp
<1>7. ASSUME NEW t \in Tasks,
             StopRequest(t) \/ LoopGone(t) \/ LoopTimeout(t)
      PROVE  Leaving'
  BY <1>7 DEF StopRequest, LoopGone, LoopTimeout, StopReturns
<1>8. ASSUME Shutdown
      PROVE  Leaving'
  BY <1>8 DEF Shutdown
<1>9. ASSUME NEW g \in Gens, Cycle(g) \/ ChannelDone(g) \/ BindChat(g)
      PROVE  Leaving'
  BY <1>9 DEF Cycle, ChannelDone, BindChat
<1>10. ASSUME NEW g \in Gens, ChatBound(g)
      PROVE  Leaving'
  BY <1>10 DEF ChatBound
<1>11. ASSUME NEW g \in Gens, Leave(g)
      PROVE  Leaving'
  BY <1>11 DEF Leave
<1>12. ASSUME NEW g \in Gens, HandOff(g)
      PROVE  Leaving'
  BY <1>12 DEF HandOff
<1>13. ASSUME NEW g \in Gens, Delete(g)
      PROVE  Leaving'
  BY <1>13 DEF Delete
<1>14. ASSUME UNCHANGED vars PROVE Leaving'
  BY <1>14 DEF vars
<1> QED
  BY Steps, <1>1, <1>2, <1>3, <1>4, <1>5, <1>6, <1>7, <1>8, <1>9, <1>10,
     <1>11, <1>12, <1>13, <1>14

(* Only begin() tells a worker to run, and only begin() makes one. *)
LEMMA QuietStep ==
    ASSUME TypeOK, Quiet, [Next]_vars,
           \A t \in Lockers : pc[t] \notin {"begin", "create"}
    PROVE  Quiet'
<1> USE DEF Quiet, NoneAlive, Alive, Gens, TypeOK, Goto, Work, settingVars,
        handleVars, cancelVars, workVars, histVars
<1>1. ASSUME NEW t \in Callers, Change(t) PROVE Quiet'
  BY <1>1 DEF Change
<1>2. ASSUME NEW t \in Lockers,
             \/ SaveOk(t) \/ NothingChanged(t) \/ SaveFails(t) \/ Agree(t) \/ Start(t) \/ Stop(t)
             \/ Arm(t) \/ Publish(t)
      PROVE  Quiet'
  BY <1>2 DEF SaveOk, NothingChanged, SaveFails, Agree, Start, Stop, Arm, Publish
<1>3. ASSUME NEW t \in Lockers PROVE ~Begin(t) /\ ~Create(t) /\ ~CreateFails(t)
  BY <1>3 DEF Begin, Create, CreateFails
<1>4. ASSUME NEW t \in Tasks,
             \/ StopNothing(t) \/ StopRequest(t) \/ LoopGone(t)
             \/ LoopTimeout(t) \/ CleanedUp(t)
      PROVE  Quiet'
  BY <1>4 DEF StopNothing, StopRequest, LoopGone, LoopTimeout, CleanedUp
<1>5. ASSUME Shutdown PROVE Quiet'
  BY <1>5 DEF Shutdown
<1>6. ASSUME NEW g \in Gens,
             \/ Cycle(g) \/ ChannelDone(g) \/ BindChat(g) \/ ChatBound(g)
             \/ Leave(g) \/ HandOff(g) \/ Delete(g)
      PROVE  Quiet'
  BY <1>6 DEF Cycle, ChannelDone, BindChat, ChatBound, Leave, HandOff, Delete
<1>7. ASSUME UNCHANGED vars PROVE Quiet'
  BY <1>7 DEF vars
<1> QED
  BY Steps, <1>1, <1>2, <1>3, <1>4, <1>5, <1>6, <1>7

(* Once the settings lock is given back, disabled means told to stop. *)
LEMMA DisabledStep ==
    ASSUME TypeOK, LockInv, Numbered, Handles, Starting, Disabled, Rollback, [Next]_vars
    PROVE  Disabled'
<1> USE NotificationWorkerAssumption DEF TypeOK, Disabled, Lockers, Tasks, Gens,
        Goto, Work, Done, settingVars, handleVars, cancelVars, workVars, histVars
<1>1. ASSUME NEW t \in Callers, Change(t) PROVE Disabled'
  BY <1>1 DEF Change, LockInv
<1>2. ASSUME NEW t \in Lockers, SaveOk(t) PROVE Disabled'
  BY <1>2 DEF SaveOk, Quiet, NoneAlive, Alive
<1>3. ASSUME NEW t \in Lockers, NothingChanged(t) \/ SaveFails(t) PROVE Disabled'
  <2>1. t \in Callers
    BY <1>3 DEF NothingChanged, SaveFails, LockInv
  <2>2. wanted' = "off" => Quiet'
    BY <1>3, <2>1 DEF NothingChanged, SaveFails, Rollback, Quiet, NoneAlive, Alive
  <2> QED
    BY <1>3, <2>2
<1>4. ASSUME NEW t \in Lockers, Agree(t) PROVE Disabled'
  <2>1. wanted = "off" => Quiet
    BY <1>4, StoppedNone DEF Agree, Quiet
  <2>2. Quiet' <=> Quiet
    BY <1>4 DEF Agree, Quiet, NoneAlive, Alive
  <2> QED
    BY <1>4, <2>1, <2>2 DEF Agree
<1>5. ASSUME NEW t \in Lockers,
             \/ Start(t) \/ Begin(t) \/ Arm(t) \/ Create(t) \/ CreateFails(t)
             \/ Publish(t)
      PROVE  Disabled'
  BY <1>5 DEF Start, Begin, Arm, Create, CreateFails, Publish, Starting
<1>6. ASSUME NEW t \in Lockers, Stop(t) PROVE Disabled'
  BY <1>6, Solo DEF Stop
<1>7. ASSUME NEW t \in Tasks, StopNothing(t) PROVE Disabled'
  <2>1. Quiet' <=> Quiet
    BY <1>7 DEF StopNothing, Quiet, NoneAlive, Alive
  <2>2. CASE t = Power
    BY <1>7, <2>1, <2>2 DEF StopNothing, StopReturns
  <2>3. CASE t # Power
    <3>1. t \in Lockers /\ pc[t] = "stop"
      BY <1>7, <2>3 DEF StopNothing, StopReturns
    <3>2. NoneAlive
      BY <1>7, <3>1, ExitedNone, StoppedNone DEF StopNothing, Tracked, Running
    <3> QED
      BY <1>7, <2>1, <3>2 DEF StopNothing, StopReturns, Quiet
  <2> QED
    BY <2>2, <2>3
<1>8. ASSUME NEW t \in Tasks, StopRequest(t) PROVE Disabled'
  BY <1>8 DEF StopRequest, Quiet
<1>9. ASSUME NEW t \in Tasks, LoopGone(t) \/ LoopTimeout(t) \/ CleanedUp(t)
      PROVE  Disabled'
  <2>1. Quiet' <=> Quiet
    BY <1>9 DEF LoopGone, LoopTimeout, CleanedUp, Quiet, NoneAlive, Alive
  <2> QED
    BY <1>9, <2>1 DEF LoopGone, LoopTimeout, CleanedUp, StopReturns
<1>10. ASSUME Shutdown PROVE Disabled'
  BY <1>10 DEF Shutdown, Quiet, NoneAlive, Alive
<1>11. ASSUME NEW g \in Gens,
             \/ Cycle(g) \/ ChannelDone(g) \/ BindChat(g) \/ ChatBound(g)
             \/ Leave(g) \/ HandOff(g) \/ Delete(g)
      PROVE  Disabled'
  <2>1. Quiet => Quiet'
    BY <1>11 DEF Quiet, NoneAlive, Alive, Cycle, ChannelDone, BindChat,
       ChatBound, Leave, HandOff, Delete
  <2>2. UNCHANGED <<pc, wanted>>
    BY <1>11 DEF Cycle, ChannelDone, BindChat, ChatBound, Leave, HandOff, Delete
  <2>3. lock' \in {NoOne, Worker} => lock \in {NoOne, Worker}
    BY <1>11 DEF Cycle, ChannelDone, BindChat, ChatBound, Leave, HandOff,
       Delete, LockInv
  <2> QED
    BY <2>1, <2>2, <2>3
<1>12. ASSUME UNCHANGED vars PROVE Disabled'
  BY <1>12 DEF vars, Quiet, NoneAlive, Alive
<1> QED
  BY Steps, <1>1, <1>2, <1>3, <1>4, <1>5, <1>6, <1>7, <1>8, <1>9, <1>10,
     <1>11, <1>12

(* While a change is saved the settings it replaced still hold for the     *)
(* worker, so rolling them back needs no reconciliation.                   *)
LEMMA RollbackStep ==
    ASSUME TypeOK, LockInv, Disabled, Rollback, [Next]_vars
    PROVE  Rollback'
<1> USE NotificationWorkerAssumption DEF TypeOK, Lockers, Tasks, Goto, Done,
        settingVars, handleVars, cancelVars, workVars, histVars
<1>1. SUFFICES ASSUME NEW t \in Callers, pc'[t] = "save", before'[t] = "off"
               PROVE  Quiet'
  BY DEF Rollback
<1>2. CASE pc[t] = "save" /\ before[t] = "off"
  <2>1. \A u \in Lockers : pc[u] \notin {"begin", "create"}
    BY <1>2, Solo
  <2> QED
    BY <1>2, <2>1, QuietStep DEF Rollback
<1>3. CASE ~(pc[t] = "save" /\ before[t] = "off")
  <2>1. Change(t)
    <3>1. ASSUME NEW u \in Callers, Change(u), u # t PROVE FALSE
      BY <1>1, <1>3, <3>1 DEF Change
    <3>2. ASSUME NEW u \in Lockers,
                 \/ SaveOk(u) \/ NothingChanged(u) \/ SaveFails(u) \/ Agree(u) \/ Start(u) \/ Stop(u)
                 \/ Begin(u) \/ Arm(u) \/ Create(u) \/ CreateFails(u) \/ Publish(u)
          PROVE FALSE
      BY <1>1, <1>3, <3>2 DEF SaveOk, NothingChanged, SaveFails, Agree, Start, Stop, Begin,
         Arm, Create, CreateFails, Publish
    <3>3. ASSUME NEW u \in Tasks,
                 \/ StopNothing(u) \/ StopRequest(u) \/ LoopGone(u)
                 \/ LoopTimeout(u) \/ CleanedUp(u)
          PROVE FALSE
      BY <1>1, <1>3, <3>3 DEF StopNothing, StopRequest, LoopGone, LoopTimeout,
         CleanedUp, StopReturns
    <3>4. ASSUME Shutdown PROVE FALSE
      BY <1>1, <1>3, <3>4 DEF Shutdown
    <3>5. ASSUME NEW g \in Gens,
                 \/ Cycle(g) \/ ChannelDone(g) \/ BindChat(g) \/ ChatBound(g)
                 \/ Leave(g) \/ HandOff(g) \/ Delete(g)
          PROVE FALSE
      BY <1>1, <1>3, <3>5 DEF Cycle, ChannelDone, BindChat, ChatBound, Leave,
         HandOff, Delete
    <3>6. ~UNCHANGED vars
      BY <1>1, <1>3 DEF vars
    <3> QED
      BY Steps, <3>1, <3>2, <3>3, <3>4, <3>5, <3>6
  <2>2. lock = NoOne /\ wanted = "off" /\ UNCHANGED <<token, wpc>>
    BY <1>1, <2>1 DEF Change
  <2> QED
    BY <2>2 DEF Disabled, Quiet, NoneAlive, Alive
<1> QED
  BY <1>2, <1>3

LEMMA InvStep == IInv /\ [Next]_vars => IInv'
BY TypeStep, LockInvStep, NumberedStep, HandlesStep, StartingStep, StoredStep,
   ArmedStep, LeavingStep, DisabledStep, RollbackStep DEF IInv

THEOREM Inductive == Spec => []IInv
BY InvInit, InvStep, PTL DEF Spec

(* Types are kept. *)
THEOREM TypeCorrect == Spec => []TypeOK
<1>1. IInv => TypeOK
  BY DEF IInv
<1> QED
  BY <1>1, Inductive, PTL

(* However many changes, stops that gave up and restarts follow one        *)
(* another: no second worker (NotificationWorker::begin).                  *)
THEOREM NoSecondWorker == Spec => []OneWorker
<1>1. IInv => OneWorker
  BY DEF IInv, Numbered, OneWorker
<1> QED
  BY <1>1, Inductive, PTL

(* The storage of a task is only freed or reused after the task has gone   *)
(* (freeTaskStorage, reclaimExitedTaskIfNeeded).                           *)
THEOREM StorageOutlivesTask == Spec => []StackOutlivesTask
<1>1. IInv => StackOutlivesTask
  BY DEF IInv, Stored, StackOutlivesTask
<1> QED
  BY <1>1, Inductive, PTL

(* A worker that was told to stop can still be cancelled out of a network  *)
(* call (clearCancelFlags).                                                *)
THEOREM LiveWorkerCancellable == Spec => []FlagsWhileAlive
<1>1. IInv => FlagsWhileAlive
  BY DEF IInv, Armed, NoneAlive, FlagsWhileAlive
<1> QED
  BY <1>1, Inductive, PTL

(* No change of the settings to "all off", failed save, roll back or       *)
(* timed out stop leaves a worker that was not told to stop, not even      *)
(* while the device shuts down.                                            *)
THEOREM DisabledMeansStopped == Spec => []DisabledStops
<1>1. IInv => DisabledStops
  BY DEF IInv, Disabled, Quiet, NoneAlive, DisabledStops
<1> QED
  BY <1>1, Inductive, PTL

(* begin() clears the stop request of no live worker.                      *)
THEOREM StopIsFinal == Spec => NoRevival
<1> DEFINE Final == Up /\ token = "stop" /\ token' = "run"
                      => \A g \in Gens : ~Alive(g)
<1>1. ASSUME IInv, [Next]_vars, token = "stop", token' = "run"
      PROVE  NoneAlive
  <2> USE <1>1 DEF IInv, TypeOK, settingVars, handleVars, cancelVars, workVars,
          histVars
  <2>1. PICK t \in Lockers : Begin(t)
    <3>1. ASSUME NEW t \in Callers PROVE ~Change(t)
      BY <1>1 DEF Change
    <3>2. ASSUME NEW t \in Lockers
          PROVE  ~(\/ SaveOk(t) \/ NothingChanged(t) \/ SaveFails(t) \/ Agree(t) \/ Start(t) \/ Stop(t)
                   \/ Arm(t) \/ Create(t) \/ CreateFails(t) \/ Publish(t))
      BY <1>1 DEF SaveOk, NothingChanged, SaveFails, Agree, Start, Stop, Arm, Create,
         CreateFails, Publish
    <3>3. ASSUME NEW t \in Tasks
          PROVE  ~(\/ StopNothing(t) \/ StopRequest(t) \/ LoopGone(t)
                   \/ LoopTimeout(t) \/ CleanedUp(t))
      BY <1>1 DEF StopNothing, StopRequest, LoopGone, LoopTimeout, CleanedUp
    <3>4. ~Shutdown /\ ~UNCHANGED vars
      BY <1>1 DEF Shutdown, vars
    <3>5. ASSUME NEW g \in Gens
          PROVE  ~(\/ Cycle(g) \/ ChannelDone(g) \/ BindChat(g) \/ ChatBound(g)
                   \/ Leave(g) \/ HandOff(g) \/ Delete(g))
      BY <1>1 DEF Cycle, ChannelDone, BindChat, ChatBound, Leave, HandOff, Delete
    <3> QED
      BY Steps, <3>1, <3>2, <3>3, <3>4, <3>5
  <2>2. ~Running /\ pc[t] = "begin"
    BY <1>1, <2>1 DEF Begin, Running
  <2> QED
    BY <2>2, StoppedNone
<1>2. IInv /\ [Next]_vars => [Final]_vars
  BY <1>1 DEF NoneAlive
<1> QED
  BY <1>2, Inductive, PTL DEF Spec, NoRevival

-----------------------------------------------------------------------------
(* Nothing has gone wrong so far. *)
Healthy == Up /\ gaveUp = 0 /\ failed = 0

(* Then every stage of a reconciliation knows whether a worker runs. *)
Known ==
    /\ lock \in {NoOne, Worker} => IF wanted = "on" THEN Served ELSE NoneAlive
    /\ \A t \in Callers : pc[t] = "save" => IF before[t] = "on" THEN Served ELSE NoneAlive
    /\ \A t \in Lockers :
          /\ pc[t] \in {"save", "reconcile", "stop"} => Served \/ NoneAlive
          /\ pc[t] \in {"again", "begin", "arm", "create"} => NoneAlive
          /\ pc[t] \in {"arm", "create"} => token = "run"
          /\ pc[t] = "waitGone" => taskHandle = 0
          /\ pc[t] = "publish" => Served
          /\ pc[t] \in {"stop", "waitLoop", "waitGone"} => wanted = "off"

(* The handle leads to a live worker only. *)
Pointed ==
    /\ \A g \in Gens : wpc[g] = "deleting" => taskHandle = 0
    /\ taskHandle # 0 => Alive(taskHandle)

Agreed == Healthy => Known /\ Pointed

LEMMA AgreedInit == Init => Agreed
<1> SUFFICES ASSUME Init PROVE Known /\ Pointed
  BY DEF Agreed
<1>1. NoneAlive
  BY DEF Init, NoneAlive, Alive
<1>2. Known
  BY <1>1, NotificationWorkerAssumption DEF Init, Known, Lockers, Tasks
<1>3. Pointed
  BY DEF Init, Pointed, Gens
<1> QED
  BY <1>2, <1>3

(* A running worker goes on running as long as nobody tells it to stop. *)
LEMMA ServedStep ==
    ASSUME TypeOK, Leaving, LockInv, Served, NEW g \in Gens,
           \/ Cycle(g) \/ ChannelDone(g) \/ BindChat(g) \/ ChatBound(g)
           \/ Leave(g) \/ HandOff(g) \/ Delete(g),
           wanted = "on" \/ wpc[g] # "bind"
    PROVE  Served'
<1> USE DEF TypeOK, Gens, Alive, Work, Leaving
<1>1. PICK h \in Gens : Alive(h)
  BY DEF Served
<1> QED
  BY <1>1 DEF Served, Cycle, ChannelDone, BindChat, ChatBound, Leave, HandOff,
     Delete, cancelVars

LEMMA ServedOrNone ==
    ASSUME Served \/ NoneAlive, UNCHANGED <<token, wpc>>
    PROVE  /\ Served' <=> Served
           /\ NoneAlive' <=> NoneAlive
BY DEF Served, NoneAlive, Alive

(* The steps that leave everything all right. *)
LEMMA HealthySteps ==
    ASSUME TypeOK, LockInv, [Next]_vars, Healthy'
    PROVE  /\ Healthy
           /\ \/ \E t \in Callers : Change(t)
              \/ \E t \in Lockers :
                    \/ SaveOk(t) \/ NothingChanged(t) \/ Agree(t) \/ Start(t) \/ Stop(t)
                    \/ Begin(t) \/ Arm(t) \/ Create(t) \/ Publish(t)
                    \/ StopNothing(t) \/ StopRequest(t) \/ LoopGone(t)
                    \/ CleanedUp(t)
              \/ \E g \in Gens :
                    \/ Cycle(g) \/ ChannelDone(g) \/ BindChat(g) \/ ChatBound(g)
                    \/ Leave(g) \/ HandOff(g) \/ Delete(g)
              \/ UNCHANGED vars
<1> USE NotificationWorkerAssumption DEF TypeOK, Healthy, Up, Lockers, Tasks,
        Goto, Done, Fails, GivesUp, settingVars, handleVars, cancelVars,
        workVars, histVars
<1>1. ASSUME NEW t \in Callers, Change(t) PROVE Healthy
  BY <1>1 DEF Change
<1>2. ASSUME NEW t \in Lockers,
             \/ SaveOk(t) \/ NothingChanged(t) \/ Agree(t) \/ Start(t) \/ Stop(t)
             \/ Begin(t) \/ Arm(t) \/ Create(t) \/ Publish(t)
      PROVE  Healthy
  BY <1>2 DEF SaveOk, NothingChanged, Agree, Start, Stop, Begin, Arm, Create, Publish
<1>3. ASSUME NEW t \in Lockers PROVE ~SaveFails(t) /\ ~CreateFails(t)
  BY DEF SaveFails, CreateFails
<1>4. ASSUME NEW t \in Tasks,
             StopNothing(t) \/ StopRequest(t) \/ LoopGone(t) \/ CleanedUp(t)
      PROVE  Healthy /\ t \in Lockers
  BY <1>4 DEF StopNothing, StopRequest, LoopGone, CleanedUp, StopReturns
<1>5. ASSUME NEW t \in Tasks PROVE ~LoopTimeout(t)
  BY DEF LoopTimeout
<1>6. ~Shutdown
  BY DEF Shutdown
<1>7. ASSUME NEW g \in Gens,
             \/ Cycle(g) \/ ChannelDone(g) \/ BindChat(g) \/ ChatBound(g)
             \/ Leave(g) \/ HandOff(g) \/ Delete(g)
      PROVE  Healthy
  BY <1>7 DEF Cycle, ChannelDone, BindChat, ChatBound, Leave, HandOff, Delete
<1>8. UNCHANGED vars => Healthy
  BY DEF vars
<1> QED
  BY Steps, <1>1, <1>2, <1>3, <1>4, <1>5, <1>6, <1>7, <1>8

LEMMA AgreedStep ==
    ASSUME IInv, Agreed, [Next]_vars
    PROVE  Agreed'
<1> SUFFICES ASSUME Healthy' PROVE Known' /\ Pointed'
  BY DEF Agreed
<1>0. Known /\ Pointed
  BY HealthySteps DEF IInv, Agreed
<1> USE NotificationWorkerAssumption DEF IInv, TypeOK, Lockers, Tasks, Gens,
        Goto, Work, Done, settingVars, handleVars, cancelVars, workVars,
        histVars
<1>1. ASSUME UNCHANGED <<token, wpc, taskHandle>>
      PROVE  /\ Pointed'
             /\ Served' <=> Served
             /\ NoneAlive' <=> NoneAlive
  BY <1>0, <1>1 DEF Pointed, Served, NoneAlive, Alive
<1>2. ASSUME NEW t \in Callers, Change(t) PROVE Known' /\ Pointed'
  <2>1. UNCHANGED <<token, wpc, taskHandle>> /\ lock = NoOne
    BY <1>2 DEF Change
  <2> QED
    BY <1>0, <1>1, <1>2, <2>1 DEF Change, Known, LockInv
<1>3. ASSUME NEW t \in Lockers, SaveOk(t) \/ Stop(t) PROVE Known' /\ Pointed'
  <2>1. UNCHANGED <<token, wpc, taskHandle>>
    BY <1>3 DEF SaveOk, Stop
  <2> QED
    BY <1>0, <1>1, <1>3, <2>1, Solo DEF SaveOk, Stop, Known
<1>14. ASSUME NEW t \in Lockers, NothingChanged(t) PROVE Known' /\ Pointed'
  <2>1. UNCHANGED <<token, wpc, taskHandle>> /\ t \in Callers
    BY <1>14 DEF NothingChanged, LockInv
  <2>2. IF wanted = "on" THEN Served ELSE NoneAlive
    BY <1>0, <1>14, <2>1 DEF NothingChanged, Known
  <2> QED
    BY <1>0, <1>1, <1>14, <2>1, <2>2, Solo DEF NothingChanged, Known
<1>4. ASSUME NEW t \in Lockers, Agree(t) PROVE Known' /\ Pointed'
  <2>1. UNCHANGED <<token, wpc, taskHandle>>
    BY <1>4 DEF Agree
  <2>2. Running => ~NoneAlive
    BY <1>0 DEF Running, Exited, Pointed, NoneAlive
  <2>3. ~Running => NoneAlive
    BY <1>4, StoppedNone DEF Agree
  <2>4. IF wanted = "on" THEN Served ELSE NoneAlive
    BY <1>0, <1>4, <2>2, <2>3 DEF Agree, Known
  <2> QED
    BY <1>0, <1>1, <1>4, <2>1, <2>4, Solo DEF Agree, Known
<1>5. ASSUME NEW t \in Lockers, Start(t) PROVE Known' /\ Pointed'
  <2>1. UNCHANGED <<token, wpc, taskHandle>>
    BY <1>5 DEF Start
  <2>2. NoneAlive
    BY <1>5, StoppedNone DEF Start
  <2> QED
    BY <1>0, <1>1, <1>5, <2>1, <2>2, Solo DEF Start, Known
<1>6. ASSUME NEW t \in Lockers, Begin(t) PROVE Known' /\ Pointed'
  <2>1. NoneAlive
    BY <1>0, <1>6 DEF Begin, Known
  <2>2. ~Running
    BY <1>0, <2>1 DEF Running, Exited, Pointed, NoneAlive
  <2>3. /\ UNCHANGED <<wpc, taskHandle, lock>> /\ token' = "run"
        /\ pc' = [pc EXCEPT ![t] = "arm"] /\ pc[t] = "begin"
    BY <1>6, <2>2 DEF Begin, Running
  <2>4. NoneAlive' /\ Pointed'
    BY <1>0, <2>1, <2>3 DEF NoneAlive, Alive, Pointed
  <2> QED
    BY <1>0, <2>3, <2>4, Solo DEF Known
<1>7. ASSUME NEW t \in Lockers, Arm(t) PROVE Known' /\ Pointed'
  <2>1. UNCHANGED <<token, wpc, taskHandle>>
    BY <1>7 DEF Arm
  <2> QED
    BY <1>0, <1>1, <1>7, <2>1, Solo DEF Arm, Known
<1>8. ASSUME NEW t \in Lockers, Create(t) PROVE Known' /\ Pointed'
  <2>1. /\ created + 1 \in Gens /\ wpc' = [wpc EXCEPT ![created + 1] = "loop"]
        /\ token' = "run" /\ taskHandle' = 0 /\ UNCHANGED lock
    BY <1>0, <1>8 DEF Create, Known, Starting
  <2>2. Served'
    BY <2>1 DEF Served, Alive
  <2> QED
    BY <1>0, <1>8, <2>1, <2>2, Solo DEF Create, Known, Pointed
<1>9. ASSUME NEW t \in Lockers, Publish(t) PROVE Known' /\ Pointed'
  <2>1. /\ UNCHANGED <<token, wpc>> /\ taskHandle' = created
        /\ pc[t] = "publish" /\ wanted' = "on"
    BY <1>9 DEF Publish, Starting
  <2>2. Served
    BY <1>0, <2>1 DEF Known
  <2>3. Served' /\ token = "run" /\ Alive(created)
    BY <2>1, <2>2 DEF Served, Alive, Numbered
  <2>4. Pointed'
    BY <2>1, <2>3 DEF Pointed, Leaving, Alive
  <2> QED
    BY <1>9, <2>1, <2>3, <2>4, Solo DEF Publish, Known
<1>10. ASSUME NEW t \in Lockers, StopNothing(t) \/ CleanedUp(t)
       PROVE  Known' /\ Pointed'
  <2>1. UNCHANGED <<token, wpc, taskHandle, lock, wanted>>
    BY <1>10 DEF StopNothing, CleanedUp
  <2>2. /\ pc[t] \in {"stop", "waitGone"}
        /\ pc' = [pc EXCEPT ![t] = "again"]
    BY <1>10 DEF StopNothing, CleanedUp, StopReturns
  <2>3. ~Publishing
    BY <2>2, Solo DEF Publishing
  <2>4. (taskHandle = 0 /\ stoppingHandle = 0) \/ Exited
    BY <1>0, <1>10 DEF StopNothing, CleanedUp, StopReturns, Tracked, Known
  <2>5. NoneAlive
    BY <2>3, <2>4, UntrackedNone, ExitedNone
  <2> QED
    BY <1>0, <1>1, <2>1, <2>2, <2>5, Solo DEF Known
<1>11. ASSUME NEW t \in Lockers, StopRequest(t) \/ LoopGone(t)
       PROVE  Known' /\ Pointed'
  <2>1. /\ UNCHANGED <<wpc, taskHandle, lock, wanted>>
        /\ \/ pc[t] = "stop" /\ pc' = [pc EXCEPT ![t] = "waitLoop"]
           \/ /\ pc[t] = "waitLoop" /\ pc' = [pc EXCEPT ![t] = "waitGone"]
              /\ taskHandle = 0
    BY <1>11 DEF StopRequest, LoopGone
  <2>2. Pointed'
    BY <1>0, <2>1 DEF Pointed, Alive
  <2> QED
    BY <1>0, <2>1, <2>2, Solo DEF Known
<1>12. ASSUME NEW g \in Gens,
              \/ Cycle(g) \/ ChannelDone(g) \/ BindChat(g) \/ ChatBound(g)
              \/ Leave(g) \/ HandOff(g) \/ Delete(g)
       PROVE  Known' /\ Pointed'
  <2>1. ~NoneAlive /\ UNCHANGED <<pc, wanted, before>>
    BY <1>12 DEF NoneAlive, Alive, Cycle, ChannelDone, BindChat, ChatBound,
       Leave, HandOff, Delete
  <2>2. wanted = "on" \/ wpc[g] # "bind" \/ ~Served
    BY <1>0, <2>1 DEF LockInv, Known
  <2>3. Served => Served'
    BY <1>12, <2>2, ServedStep
  <2>4. Pointed'
    <3>1. CASE Cycle(g) \/ ChannelDone(g) \/ BindChat(g) \/ ChatBound(g) \/ Leave(g)
      <4>1. taskHandle' = taskHandle /\ wpc[g] \in {"loop", "channel", "bind"}
        BY <3>1 DEF Cycle, ChannelDone, BindChat, ChatBound, Leave
      <4>2. wpc'[g] \in {"loop", "channel", "bind", "leaving"}
        BY <3>1 DEF Cycle, ChannelDone, BindChat, ChatBound, Leave
      <4>3. \A h \in Gens : h # g => wpc'[h] = wpc[h]
        BY <3>1 DEF Cycle, ChannelDone, BindChat, ChatBound, Leave
      <4> QED
        BY <1>0, <4>1, <4>2, <4>3 DEF Pointed, Alive
    <3>2. CASE HandOff(g)
      BY <1>0, <3>2 DEF Pointed, Alive, HandOff
    <3>3. CASE Delete(g)
      BY <1>0, <3>3 DEF Pointed, Alive, Delete
    <3> QED
      BY <1>12, <3>1, <3>2, <3>3
  <2>5. taskHandle' \in {taskHandle, 0}
    BY <1>12 DEF Cycle, ChannelDone, BindChat, ChatBound, Leave, HandOff, Delete
  <2>6. lock' \in {NoOne, Worker} => lock \in {NoOne, Worker}
    BY <1>12 DEF LockInv, Cycle, ChannelDone, BindChat, ChatBound, Leave,
       HandOff, Delete
  <2> QED
    BY <1>0, <2>1, <2>3, <2>4, <2>5, <2>6 DEF Known
<1>13. ASSUME UNCHANGED vars PROVE Known' /\ Pointed'
  BY <1>0, <1>1, <1>13 DEF vars, Known
<1> QED
  BY HealthySteps, <1>2, <1>3, <1>4, <1>5, <1>6, <1>7, <1>8, <1>9, <1>10,
     <1>11, <1>12, <1>13, <1>14

(* While no stop has timed out and memory has sufficed, a worker runs      *)
(* whenever a channel is on and no change is under way.                    *)
THEOREM EnabledMeansRunning == Spec => []EnabledRuns
<1>1. IInv /\ Agreed /\ [Next]_vars => Agreed'
  BY AgreedStep
<1>2. Agreed => EnabledRuns
  BY DEF Agreed, Healthy, Known, EnabledRuns
<1> QED
  BY <1>1, <1>2, AgreedInit, Inductive, PTL DEF Spec

-----------------------------------------------------------------------------
(* The refinement of WorkerLife. Whoever is about to create a worker has   *)
(* told it to run, and nobody else can have said otherwise.                *)
Ready == Up => \A t \in Lockers : pc[t] \in {"arm", "create"} => token = "run"

LEMMA ReadyStep ==
    ASSUME IInv, Ready, [Next]_vars
    PROVE  Ready'
<1> SUFFICES ASSUME Up', NEW u \in Lockers, pc'[u] \in {"arm", "create"}
             PROVE  token' = "run"
  BY DEF Ready
<1> USE NotificationWorkerAssumption DEF IInv, TypeOK, Lockers, Tasks, Gens, Up,
        settingVars, handleVars, cancelVars, workVars, histVars
<1>1. ASSUME pc'[u] = pc[u], pc'[Power] = pc[Power], token' = token
      PROVE  token' = "run"
  BY <1>1 DEF Ready
<1>2. ASSUME NEW t \in Callers, Change(t) PROVE token' = "run"
  <2>1. pc'[u] = pc[u] /\ pc'[Power] = pc[Power] /\ token' = token
    BY <1>2 DEF Change, Goto
  <2> QED
    BY <2>1, <1>1
<1>3. ASSUME NEW t \in Lockers,
             \/ SaveOk(t) \/ NothingChanged(t) \/ SaveFails(t) \/ Agree(t) \/ Start(t) \/ Stop(t)
             \/ Publish(t)
      PROVE  token' = "run"
  <2>1. pc'[u] = pc[u] /\ pc'[Power] = pc[Power] /\ token' = token
    BY <1>3 DEF SaveOk, NothingChanged, SaveFails, Agree, Start, Stop, Publish, Goto, Done
  <2> QED
    BY <2>1, <1>1
<1>4. ASSUME NEW t \in Lockers, Begin(t) PROVE token' = "run"
  <2>1. pc[t] = "begin" /\ pc'[Power] = pc[Power]
    BY <1>4 DEF Begin, Done
  <2>2. t # u => pc[u] \in {"idle", "over"}
    BY <2>1, Solo
  <2> QED
    BY <1>4, <2>1, <2>2 DEF Begin, Done
<1>5. ASSUME NEW t \in Lockers, Arm(t) \/ Create(t) PROVE token' = "run"
  <2>1. pc[t] \in {"arm", "create"} /\ pc'[Power] = pc[Power] /\ token' = token
    BY <1>5 DEF Arm, Create, Goto
  <2> QED
    BY <2>1 DEF Ready
<1>6. ASSUME NEW t \in Lockers, CreateFails(t) PROVE token' = "run"
  <2>1. pc[t] = "create" /\ pc'[u] = IF t = u THEN pc'[t] ELSE pc[u]
    BY <1>6 DEF CreateFails, Done
  <2>2. t # u => pc[u] \in {"idle", "over"}
    BY <2>1, Solo
  <2>3. pc'[t] \in {"idle", "over"}
    BY <1>6 DEF CreateFails, Done
  <2> QED
    BY <2>1, <2>2, <2>3
<1>7. ASSUME NEW t \in Tasks, StopNothing(t) \/ LoopGone(t) \/ LoopTimeout(t) \/ CleanedUp(t)
      PROVE  token' = "run"
  <2>1. token' = token /\ pc[t] \in {"stop", "waitLoop", "waitGone"}
    BY <1>7 DEF StopNothing, LoopGone, LoopTimeout, CleanedUp, StopReturns, Goto
  <2>2. pc'[t] \in {"waitGone", "over", "again"}
    BY <1>7 DEF StopNothing, LoopGone, LoopTimeout, CleanedUp, StopReturns, Goto
  <2>3. \A v \in Tasks : v # t => pc'[v] = pc[v]
    BY <1>7 DEF StopNothing, LoopGone, LoopTimeout, CleanedUp, StopReturns, Goto
  <2>4. t # Power /\ t # u
    BY <2>2
  <2> QED
    BY <2>1, <2>3, <2>4, <1>1
<1>8. ASSUME NEW t \in Tasks, StopRequest(t) PROVE token' = "run"
  <2>1. pc[t] = "stop" /\ pc' = [pc EXCEPT ![t] = "waitLoop"]
    BY <1>8 DEF StopRequest, Goto
  <2>2. t \in Lockers /\ t # u
    BY <2>1
  <2>3. pc[u] \in {"idle", "over"}
    BY <2>1, <2>2, Solo
  <2> QED
    BY <2>1, <2>2, <2>3
<1>9. ASSUME Shutdown PROVE FALSE
  BY <1>9 DEF Shutdown, Goto
<1>10. ASSUME NEW g \in Gens, Cycle(g) \/ ChannelDone(g) \/ BindChat(g) \/ Leave(g)
                              \/ HandOff(g) \/ Delete(g)
       PROVE  token' = "run"
  <2>1. pc' = pc /\ token' = token
    BY <1>10 DEF Cycle, ChannelDone, BindChat, Leave, HandOff, Delete
  <2> QED
    BY <2>1, <1>1
<1>11. ASSUME NEW g \in Gens, ChatBound(g) PROVE token' = "run"
  <2>1. pc' = pc /\ wpc[g] = "bind"
    BY <1>11 DEF ChatBound, Work
  <2> QED
    BY <2>1, Solo
<1>12. ASSUME UNCHANGED vars PROVE token' = "run"
  BY <1>12, <1>1 DEF vars
<1> QED
  BY Steps, <1>2, <1>3, <1>4, <1>5, <1>6, <1>7, <1>8, <1>9, <1>10, <1>11, <1>12

(* A shutdown that has begun does not end. *)
LEMMA UpBefore ==
    ASSUME TypeOK, LockInv, [Next]_vars, Up'
    PROVE  Up' = Up
<1> USE NotificationWorkerAssumption DEF TypeOK, Lockers, Tasks, Up, Goto,
        settingVars, handleVars, cancelVars, workVars, histVars
<1>1. ASSUME NEW t \in Callers, Change(t) PROVE pc'[Power] = pc[Power]
  BY <1>1 DEF Change
<1>2. ASSUME NEW t \in Lockers,
             \/ SaveOk(t) \/ NothingChanged(t) \/ Agree(t) \/ Start(t) \/ Stop(t)
             \/ Begin(t) \/ Arm(t)
      PROVE  pc'[Power] = pc[Power]
  BY <1>2 DEF SaveOk, NothingChanged, Agree, Start, Stop, Begin, Arm, Done
<1>3. ASSUME NEW t \in Lockers, SaveFails(t) \/ Create(t) \/ CreateFails(t) \/ Publish(t)
      PROVE  pc'[Power] = pc[Power]
  BY <1>3 DEF SaveFails, Create, CreateFails, Publish, Done
<1>4. ASSUME NEW t \in Tasks, StopNothing(t) \/ CleanedUp(t) \/ LoopTimeout(t)
      PROVE  pc'[Power] = pc[Power]
  BY <1>4 DEF StopNothing, CleanedUp, LoopTimeout, StopReturns
<1>5. ASSUME NEW t \in Tasks, StopRequest(t) \/ LoopGone(t)
      PROVE  pc'[Power] = pc[Power]
  BY <1>5 DEF StopRequest, LoopGone
<1>6. ~Shutdown
  BY DEF Shutdown
<1>7. ASSUME NEW g \in Gens,
             \/ Cycle(g) \/ ChannelDone(g) \/ BindChat(g) \/ ChatBound(g)
             \/ Leave(g) \/ HandOff(g) \/ Delete(g)
      PROVE  pc'[Power] = pc[Power]
  BY <1>7 DEF Cycle, ChannelDone, BindChat, ChatBound, Leave, HandOff, Delete
<1>8. ASSUME UNCHANGED vars PROVE pc'[Power] = pc[Power]
  BY <1>8 DEF vars
<1>9. pc'[Power] = pc[Power]
  BY Steps, <1>1, <1>2, <1>3, <1>4, <1>5, <1>6, <1>7, <1>8
<1> QED
  BY <1>9

(* Moves of a live worker between its places, with the token as it was,    *)
(* are none in WorkerLife.                                                 *)
LEMMA LifeSame ==
    ASSUME TypeOK, token' = token,
           \A g \in Gens : wpc'[g] = wpc[g] \/ (Alive(g) /\ wpc'[g] \notin {"none", "gone"})
    PROVE  UNCHANGED [g \in Gens |-> Life(g)]
<1>1. ASSUME NEW g \in Gens PROVE Life(g)' = Life(g)
  BY DEF Life, Alive, Gens
<1> QED
  BY <1>1

(* Without a live worker the token says nothing. *)
LEMMA LifeIdle ==
    ASSUME NoneAlive, wpc' = wpc
    PROVE  UNCHANGED [g \in Gens |-> Life(g)] /\ Lifecycle!Idle
<1>1. ASSUME NEW g \in Gens PROVE Life(g)' = Life(g) /\ Life(g) \in {"none", "gone"}
  BY DEF NoneAlive, Life, Alive, Gens
<1> QED
  BY <1>1 DEF Lifecycle!Idle

(* A step of the code around the worker that leaves its stack alone. *)
LEMMA LifeStill ==
    ASSUME UNCHANGED [g \in Gens |-> Life(g)], storage' = storage, Up' = Up
    PROVE  UNCHANGED Lifecycle!lifeVars
BY DEF Lifecycle!lifeVars

LEMMA LifeFreed ==
    ASSUME NoneAlive, wpc' = wpc, storage' \in {0, storage}, Up' = Up
    PROVE  Lifecycle!Next \/ UNCHANGED Lifecycle!lifeVars
<1>1. UNCHANGED [g \in Gens |-> Life(g)] /\ Lifecycle!Idle
  BY LifeIdle
<1>2. CASE storage' = 0
  BY <1>1, <1>2 DEF Lifecycle!Next, Lifecycle!Free
<1>3. CASE storage' = storage
  BY <1>1, <1>3, LifeStill
<1> QED
  BY <1>2, <1>3

(* A request to stop is one to the worker that lives, if any. *)
LEMMA LifeTold ==
    ASSUME TypeOK, Numbered, token' \in {token, "stop"}, storage' = storage, Up' = Up,
           \A g \in Gens : wpc'[g] = wpc[g] \/ (Alive(g) /\ wpc'[g] \notin {"none", "gone"})
    PROVE  Lifecycle!Next \/ UNCHANGED Lifecycle!lifeVars
<1>1. CASE token' = token
  BY <1>1, LifeSame, LifeStill
<1>2. CASE NoneAlive
  <2>1. ASSUME NEW g \in Gens PROVE Life(g)' = Life(g)
    BY <1>2 DEF NoneAlive, Life, Alive
  <2> QED
    BY <2>1, LifeStill
<1>3. CASE token' # token /\ ~NoneAlive
  <2>1. PICK h \in Gens : Alive(h)
    BY <1>3 DEF NoneAlive
  <2>2. \A g \in Gens : Alive(g) => g = h
    BY <2>1 DEF Numbered
  <2>3. token = "run" /\ token' = "stop"
    BY <1>3 DEF TypeOK
  <2>4. Life(h) = "running" /\ Life(h)' = "told"
    BY <2>1, <2>3 DEF Life, Alive
  <2>5. \A g \in Gens : g # h => Life(g)' = Life(g)
    BY <2>2 DEF Life, Alive
  <2>6. Lifecycle!Tell(h)
    BY <2>4, <2>5 DEF Lifecycle!Tell, Lifecycle!Becomes
  <2> QED
    BY <2>6 DEF Lifecycle!Next
<1> QED
  BY <1>1, <1>2, <1>3

LEMMA RefineInit == Init => Lifecycle!Init
<1> SUFFICES ASSUME Init PROVE Lifecycle!Init
  OBVIOUS
<1>1. Up
  BY NotificationWorkerAssumption DEF Init, Up, Tasks
<1>2. \A g \in Gens : Life(g) = "none"
  BY DEF Init, Life, Alive
<1> QED
  BY <1>1, <1>2 DEF Init, Lifecycle!Init

LEMMA LifeStep ==
    ASSUME IInv, Ready, [Next]_vars, Up'
    PROVE  Lifecycle!Next \/ UNCHANGED Lifecycle!lifeVars
<1> DEFINE Kept == Lifecycle!Next \/ UNCHANGED Lifecycle!lifeVars
<1>0. TypeOK /\ Numbered /\ LockInv /\ Handles /\ Starting /\ Leaving
  BY DEF IInv
<1> USE DEF settingVars, handleVars, cancelVars, workVars, histVars
<1>1. Up' = Up
  BY <1>0, UpBefore
<1>2. ASSUME NEW t \in Callers, Change(t) PROVE Kept
  BY <1>0, <1>1, <1>2, LifeSame, LifeStill DEF Change
<1>3. ASSUME NEW t \in Lockers,
             \/ SaveOk(t) \/ NothingChanged(t) \/ SaveFails(t) \/ Agree(t) \/ Start(t) \/ Stop(t)
             \/ Arm(t) \/ Publish(t)
      PROVE  Kept
  <2>1. UNCHANGED <<token, wpc, storage>>
    BY <1>3 DEF SaveOk, NothingChanged, SaveFails, Agree, Start, Stop, Arm, Publish
  <2> QED
    BY <1>0, <1>1, <2>1, LifeSame, LifeStill
<1>4. ASSUME NEW t \in Lockers, Begin(t) PROVE Kept
  <2>1. wpc' = wpc /\ storage' \in {0, storage} /\ pc[t] = "begin"
    BY <1>4 DEF Begin
  <2>2. CASE NoneAlive
    BY <1>1, <2>1, <2>2, LifeFreed
  <2>3. CASE ~NoneAlive
    <3>1. Running /\ ~Exited
      BY <1>0, <2>1, <2>3, StoppedNone, ExitedNone
    <3>2. token' = token /\ storage' = storage
      BY <1>4, <3>1 DEF Begin, Running
    <3> QED
      BY <1>0, <1>1, <2>1, <3>2, LifeSame, LifeStill
  <2> QED
    BY <2>2, <2>3
<1>5. ASSUME NEW t \in Lockers, Create(t) PROVE Kept
  <2>1. pc[t] = "create" /\ NoneAlive
    BY <1>0, <1>5 DEF Create, Goto, Starting
  <2>2. token = "run" /\ token' = token
    BY <1>1, <1>5, <2>1 DEF Create, Ready
  <2>3. PICK g \in Gens : g = created + 1
    BY <1>0, <1>5, NotificationWorkerAssumption DEF Create, TypeOK, Gens
  <2>9. wpc[g] = "none"
    BY <1>0, <2>3 DEF TypeOK, Numbered
  <2>4. wpc' = [wpc EXCEPT ![g] = "loop"] /\ storage' = g
    BY <1>5, <2>3 DEF Create
  <2>5. Lifecycle!Idle
    BY <2>1 DEF Lifecycle!Idle, Life, NoneAlive, Alive
  <2>6. Life(g) = "none" /\ Life(g)' = "running"
    BY <1>0, <2>2, <2>4, <2>9 DEF Life, Alive, TypeOK
  <2>7. ASSUME NEW h \in Gens, h # g PROVE Life(h)' = Life(h)
    BY <1>0, <2>2, <2>4, <2>7 DEF Life, Alive, TypeOK
  <2>8. Lifecycle!Start(g)
    BY <2>4, <2>5, <2>6, <2>7 DEF Lifecycle!Start, Lifecycle!Becomes
  <2> QED
    BY <1>1, <2>8 DEF Lifecycle!Next
<1>6. ASSUME NEW t \in Lockers, CreateFails(t) PROVE Kept
  <2>1. NoneAlive /\ wpc' = wpc /\ storage' = 0
    BY <1>0, <1>6 DEF CreateFails, Starting
  <2> QED
    BY <1>1, <2>1, LifeFreed
<1>7. ASSUME NEW t \in Tasks, StopNothing(t) \/ CleanedUp(t) PROVE Kept
  <2>1. wpc' = wpc /\ token' = token
    BY <1>7 DEF StopNothing, CleanedUp
  <2>2. CASE Exited
    <3>1. NoneAlive /\ storage' \in {0, storage}
      BY <1>0, <1>7, <2>2, ExitedNone DEF StopNothing, CleanedUp, Reclaim
    <3> QED
      BY <1>1, <2>1, <3>1, LifeFreed
  <2>3. CASE ~Exited
    <3>1. storage' = storage
      BY <1>7, <2>3 DEF StopNothing, CleanedUp
    <3> QED
      BY <1>0, <1>1, <2>1, <3>1, LifeSame, LifeStill
  <2> QED
    BY <2>2, <2>3
<1>8. ASSUME NEW t \in Tasks, LoopGone(t) \/ LoopTimeout(t) PROVE Kept
  BY <1>0, <1>1, <1>8, LifeSame, LifeStill DEF LoopGone, LoopTimeout
<1>9. ASSUME NEW t \in Tasks, StopRequest(t) PROVE Kept
  BY <1>0, <1>1, <1>9, LifeTold DEF StopRequest
<1>10. ASSUME Shutdown PROVE Kept
  BY <1>0, <1>1, <1>10, LifeSame, LifeStill DEF Shutdown
<1>11. ASSUME NEW g \in Gens, Cycle(g) \/ ChannelDone(g) \/ BindChat(g) \/ Leave(g)
                              \/ HandOff(g)
       PROVE  Kept
  <2>1. token' = token /\ storage' = storage
    BY <1>11 DEF Cycle, ChannelDone, BindChat, Leave, HandOff
  <2>2. ASSUME NEW h \in Gens
        PROVE  wpc'[h] = wpc[h] \/ (Alive(h) /\ wpc'[h] \notin {"none", "gone"})
    BY <1>0, <1>11 DEF Cycle, ChannelDone, BindChat, Leave, HandOff, Work, Alive, TypeOK
  <2> QED
    BY <1>0, <1>1, <2>1, <2>2, LifeSame, LifeStill
<1>12. ASSUME NEW g \in Gens, ChatBound(g) PROVE Kept
  <2>1. token' \in {token, "stop"} /\ storage' = storage
    BY <1>12 DEF ChatBound
  <2>2. ASSUME NEW h \in Gens
        PROVE  wpc'[h] = wpc[h] \/ (Alive(h) /\ wpc'[h] \notin {"none", "gone"})
    BY <1>0, <1>12 DEF ChatBound, Work, Alive, TypeOK
  <2> QED
    BY <1>0, <1>1, <2>1, <2>2, LifeTold
<1>13. ASSUME NEW g \in Gens, Delete(g) PROVE Kept
  <2>1. wpc[g] = "deleting" /\ wpc' = [wpc EXCEPT ![g] = "gone"]
        /\ UNCHANGED <<token, storage>>
    BY <1>13 DEF Delete, Work
  <2>2. token = "stop"
    BY <1>0, <2>1 DEF Leaving
  <2>3. Life(g) = "told" /\ Life(g)' = "gone"
    BY <1>0, <2>1, <2>2 DEF Life, Alive, TypeOK
  <2>4. ASSUME NEW h \in Gens, h # g PROVE Life(h)' = Life(h)
    BY <1>0, <2>1, <2>4 DEF Life, Alive, TypeOK
  <2>5. Lifecycle!End(g)
    BY <2>1, <2>3, <2>4 DEF Lifecycle!End, Lifecycle!Becomes
  <2> QED
    BY <1>1, <2>5 DEF Lifecycle!Next
<1>14. ASSUME UNCHANGED vars PROVE Kept
  BY <1>0, <1>1, <1>14, LifeSame, LifeStill DEF vars
<1> QED
  BY Steps, <1>2, <1>3, <1>4, <1>5, <1>6, <1>7, <1>8, <1>9, <1>10, <1>11, <1>12,
     <1>13, <1>14

(* begin(), stop(), the reconciler and the task itself keep the life cycle *)
(* of WorkerLife, for any number of callers, starts, stops that gave up    *)
(* and failures, until the shutdown begins.                                *)
THEOREM WorkerKeepsLife == Spec => ImplementsLife
<1>1. Init => Ready
  BY NotificationWorkerAssumption DEF Init, Ready, Lockers, Tasks
<1>2. IInv /\ Ready /\ [Next]_vars => Ready'
  BY ReadyStep
<1>3. IInv /\ Ready /\ [Next]_vars => [Lifecycle!Next]_Lifecycle!lifeVars
  <2> SUFFICES ASSUME IInv, Ready, [Next]_vars
               PROVE  Lifecycle!Next \/ UNCHANGED Lifecycle!lifeVars
    OBVIOUS
  <2>1. CASE Up'
    BY <2>1, LifeStep
  <2>2. CASE ~Up'
    <3>1. Up' = FALSE
      BY <2>2 DEF Up
    <3> QED
      BY <3>1 DEF Lifecycle!Next
  <2> QED
    BY <2>1, <2>2
<1> QED
  BY <1>1, <1>2, <1>3, RefineInit, Inductive, PTL DEF Spec, ImplementsLife, Lifecycle!Spec

=============================================================================
