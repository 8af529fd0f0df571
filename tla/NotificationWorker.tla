------------------------- MODULE NotificationWorker --------------------------
(***************************************************************************)
(* The life of the notification worker task: started and stopped by the    *)
(* reconciler whenever the notification settings change, by the boot, and  *)
(* stopped by the shutdown sequence, which does not take the settings lock. *)
(*                                                                         *)
(* A worker is the number of the begin() that created it; handles and      *)
(* storage carry that number, so a handle or a stack of an earlier task    *)
(* can be told from its successor's. Zero is nullptr.                      *)
(***************************************************************************)
EXTENDS Naturals, FiniteSets

CONSTANTS
    Callers,       \* tasks that change the notification settings
    Boot, Power,   \* the task that boots the device, the one that shuts it down
    Worker,        \* the worker as a holder of the settings lock
    NoOne,         \* the settings lock is free
    MaxStarts,     \* bound on the workers created: no change once it is reached
    MaxTimeouts,   \* bound on the stops that give up
    MaxFailures    \* bound on failed saves and failed allocations

ASSUME NotificationWorkerAssumption ==
    /\ Boot \notin Callers /\ Power \notin Callers /\ Boot # Power
    /\ Worker \notin Callers \cup {Boot, Power}
    /\ NoOne \notin Callers \cup {Boot, Power, Worker}
    /\ MaxStarts \in Nat \ {0} /\ MaxTimeouts \in Nat /\ MaxFailures \in Nat

VARIABLES
    lock,       \* holder of _accessMutex
    wanted,     \* whether some channel is enabled in the settings
    before,     \* per caller: the setting its change replaced
    token,      \* _cancelToken
    flags,      \* the transports' cancel flags
    taskHandle, stoppingHandle,   \* _taskHandle and _stoppingTaskHandle
    storage,    \* worker that _taskStack and _taskBuffer were allocated for
    created,    \* workers created so far
    wpc,        \* place of each worker
    pc,         \* place of each caller
    gaveUp,     \* stops that timed out (history)
    failed      \* saves and allocations that failed (history)

settingVars == <<lock, wanted, before>>
handleVars  == <<taskHandle, stoppingHandle, storage>>
cancelVars  == <<token, flags>>
workVars    == <<created, wpc>>
histVars    == <<gaveUp, failed>>
vars == <<settingVars, handleVars, cancelVars, workVars, pc, histVars>>

Tasks == Callers \cup {Boot, Power}
Gens  == 1 .. MaxStarts

(* The boot reconciles once, right after it has registered the handler; it   *)
(* is taken to hold the settings lock meanwhile, which it does not.          *)
Init ==
    /\ lock = Boot /\ wanted \in {"on", "off"}
    /\ before = [t \in Callers |-> "off"]
    /\ token = "stop" /\ flags = "clear"
    /\ taskHandle = 0 /\ stoppingHandle = 0 /\ storage = 0
    /\ created = 0 /\ wpc = [g \in Gens |-> "none"]
    /\ pc = [t \in Tasks |-> IF t = Boot THEN "reconcile" ELSE "idle"]
    /\ gaveUp = 0 /\ failed = 0

Goto(t, from, to) == pc[t] = from /\ pc' = [pc EXCEPT ![t] = to]
Work(g, from, to) == wpc[g] = from /\ wpc' = [wpc EXCEPT ![g] = to]
Fails == failed < MaxFailures /\ failed' = failed + 1 /\ UNCHANGED gaveUp
GivesUp == gaveUp < MaxTimeouts /\ gaveUp' = gaveUp + 1 /\ UNCHANGED failed

(* Leave the reconciler and give the settings lock back. *)
Done(t) ==
    /\ pc' = [pc EXCEPT ![t] = IF t \in Callers THEN "idle" ELSE "over"]
    /\ lock' = NoOne

Alive(g) == g \in Gens /\ wpc[g] \notin {"none", "gone"}

(* Mutant of Exited: the state of the task is not asked for. *)
ExitedUnchecked == stoppingHandle # 0

(* Whether reclaimExitedTaskIfNeeded would reclaim. *)
Exited == stoppingHandle # 0 /\ ~Alive(stoppingHandle)

(* hasTrackedTask and hasLiveTask *)
Tracked == taskHandle # 0 \/ stoppingHandle # 0
Running == taskHandle # 0 \/ (stoppingHandle # 0 /\ ~Exited)

-----------------------------------------------------------------------------
(* A change of the settings, under the lock until the last handler is done. *)

Change(t) ==
    /\ created < MaxStarts
    /\ lock = NoOne
    /\ Goto(t, "idle", "save")
    /\ lock' = t
    /\ before' = [before EXCEPT ![t] = wanted]
    /\ wanted' \in {"on", "off"}
    /\ UNCHANGED <<handleVars, cancelVars, workVars, histVars>>

SaveOk(t) ==
    /\ Goto(t, "save", "reconcile")
    /\ UNCHANGED <<settingVars, handleVars, cancelVars, workVars, histVars>>

(* The update left the settings as they were: no handler is called. *)
NothingChanged(t) ==
    /\ pc[t] = "save" /\ wanted = before[t]
    /\ Done(t)
    /\ UNCHANGED <<wanted, before, handleVars, cancelVars, workVars, histVars>>

(* Mutants of SaveFails: without the roll back, and without the release. *)
SaveFailsNoRollback(t) ==
    /\ pc[t] = "save"
    /\ Done(t)
    /\ Fails
    /\ UNCHANGED <<wanted, before, handleVars, cancelVars, workVars>>

(* The first handler fails: the reconciler is not called, roll back. *)
SaveFails(t) ==
    /\ pc[t] = "save"
    /\ Done(t)
    /\ wanted' = before[t]
    /\ Fails
    /\ UNCHANGED <<before, handleVars, cancelVars, workVars>>

-----------------------------------------------------------------------------
(* NotificationRuntimeReconciler::reconcile. *)

Agree(t) ==
    /\ \/ pc[t] = "reconcile" /\ (Running <=> wanted = "on")
       \/ pc[t] = "again" /\ (Running \/ wanted = "off")
    /\ Done(t)
    /\ UNCHANGED <<wanted, before, handleVars, cancelVars, workVars, histVars>>

Start(t) ==
    /\ wanted = "on" /\ ~Running
    /\ pc[t] \in {"reconcile", "again"}
    /\ pc' = [pc EXCEPT ![t] = "begin"]
    /\ UNCHANGED <<settingVars, handleVars, cancelVars, workVars, histVars>>

Stop(t) ==
    /\ wanted = "off" /\ Running
    /\ Goto(t, "reconcile", "stop")
    /\ UNCHANGED <<settingVars, handleVars, cancelVars, workVars, histVars>>

-----------------------------------------------------------------------------
(* NotificationWorker::begin. *)

(* Mutant of Begin: the token of an earlier stop is not reset. *)
BeginUnarmed(t) ==
    /\ pc[t] = "begin"
    /\ storage' = IF Exited THEN 0 ELSE storage
    /\ IF taskHandle # 0 \/ (stoppingHandle # 0 /\ ~Exited)
       THEN Done(t) /\ UNCHANGED <<token, stoppingHandle>>
       ELSE /\ stoppingHandle' = 0
            /\ pc' = [pc EXCEPT ![t] = "arm"]
            /\ UNCHANGED <<lock, token>>
    /\ UNCHANGED <<wanted, before, taskHandle, flags, workVars, histVars>>

(* Reclaim a task that has exited; "Already running or stopping". *)
Begin(t) ==
    /\ pc[t] = "begin"
    /\ storage' = IF Exited THEN 0 ELSE storage
    /\ IF taskHandle # 0 \/ (stoppingHandle # 0 /\ ~Exited)
       THEN Done(t) /\ UNCHANGED <<token, stoppingHandle>>
       ELSE /\ token' = "run" /\ stoppingHandle' = 0
            /\ pc' = [pc EXCEPT ![t] = "arm"]
            /\ UNCHANGED lock
    /\ UNCHANGED <<wanted, before, taskHandle, flags, workVars, histVars>>

Arm(t) ==
    /\ Goto(t, "arm", "create")
    /\ flags' = "armed"
    /\ UNCHANGED <<settingVars, handleVars, token, workVars, histVars>>

(* The task runs as soon as it exists, before its handle is stored. *)
Create(t) ==
    /\ created < MaxStarts
    /\ Goto(t, "create", "publish")
    /\ created' = created + 1
    /\ storage' = created + 1
    /\ wpc' = [wpc EXCEPT ![created + 1] = "loop"]
    /\ UNCHANGED <<settingVars, taskHandle, stoppingHandle, cancelVars, histVars>>

CreateFails(t) ==
    /\ pc[t] = "create"
    /\ Done(t)
    /\ Fails
    /\ token' = "stop" /\ flags' = "clear" /\ storage' = 0
    /\ UNCHANGED <<wanted, before, taskHandle, stoppingHandle, workVars>>

Publish(t) ==
    /\ pc[t] = "publish"
    /\ Done(t)
    /\ taskHandle' = created
    /\ UNCHANGED <<wanted, before, stoppingHandle, storage, cancelVars, workVars,
                   histVars>>

-----------------------------------------------------------------------------
(* NotificationWorker::stop, called by the reconciler or the shutdown. *)

StopReturns(t, from) ==
    Goto(t, from, IF t = Power THEN "over" ELSE "again")

Reclaim == stoppingHandle' = 0 /\ storage' = 0 /\ flags' = "clear"

(* Nothing to stop, or what an earlier stop left behind has exited. *)
StopNothing(t) ==
    /\ StopReturns(t, "stop")
    /\ \/ Exited /\ Reclaim
       \/ ~Tracked /\ flags' = "clear" /\ UNCHANGED <<stoppingHandle, storage>>
    /\ UNCHANGED <<settingVars, taskHandle, token, workVars, histVars>>

StopRequest(t) ==
    /\ Tracked /\ ~Exited
    /\ Goto(t, "stop", "waitLoop")
    /\ token' = "stop"
    /\ UNCHANGED <<settingVars, handleVars, flags, workVars, histVars>>

LoopGone(t) ==
    /\ taskHandle = 0
    /\ Goto(t, "waitLoop", "waitGone")
    /\ UNCHANGED <<settingVars, handleVars, cancelVars, workVars, histVars>>

InChannel(g) == g \in Gens /\ wpc[g] \in {"channel", "bind"}

(* TIMEOUT_LOOP: the worker is in a channel for longer than 8 s, in the    *)
(* network or waiting, 5 s for each read, for the settings lock of t.      *)
LoopTimeout(t) ==
    /\ InChannel(taskHandle)
    /\ StopReturns(t, "waitLoop")
    /\ GivesUp
    /\ UNCHANGED <<settingVars, handleVars, cancelVars, workVars>>

(* The task has deleted itself, which 8 s are enough for: reclaim it. The  *)
(* way out is TIMEOUT_CLEANUP when somebody else has done that meanwhile.   *)
CleanedUp(t) ==
    /\ stoppingHandle = 0 \/ Exited
    /\ StopReturns(t, "waitGone")
    /\ IF Exited THEN Reclaim ELSE UNCHANGED <<stoppingHandle, storage, flags>>
    /\ UNCHANGED <<settingVars, taskHandle, token, workVars, histVars>>

(* ShutdownSequence::stopBackgroundTasks. *)
Shutdown ==
    /\ Goto(Power, "idle", "stop")
    /\ UNCHANGED <<settingVars, handleVars, cancelVars, workVars, histVars>>

-----------------------------------------------------------------------------
(* The worker. *)

Cycle(g) ==
    /\ token = "run"
    /\ Work(g, "loop", "channel")
    /\ UNCHANGED <<settingVars, handleVars, cancelVars, created, pc, histVars>>

(* Back from a channel; the next one looks at the token first. *)
ChannelDone(g) ==
    /\ Work(g, "channel", "loop")
    /\ UNCHANGED <<settingVars, handleVars, cancelVars, created, pc, histVars>>

(* The first chat that writes to the bot becomes a setting. *)
BindChat(g) ==
    /\ lock = NoOne
    /\ Work(g, "channel", "bind")
    /\ lock' = Worker
    /\ UNCHANGED <<wanted, before, handleVars, cancelVars, created, pc, histVars>>

(* Saved, the worker reconciles itself and may tell itself to stop; it may *)
(* also have failed to save.                                               *)
ChatBound(g) ==
    /\ Work(g, "bind", "channel")
    /\ lock' = NoOne
    /\ token' \in {token, IF wanted = "off" THEN "stop" ELSE token}
    /\ UNCHANGED <<wanted, before, handleVars, flags, created, pc, histVars>>

(* Mutant of Leave: the loop does not look at the token. *)
LeaveNever(g) == FALSE /\ UNCHANGED vars

Leave(g) ==
    /\ token = "stop"
    /\ Work(g, "loop", "leaving")
    /\ UNCHANGED <<settingVars, handleVars, cancelVars, created, pc, histVars>>

(* Mutant of HandOff: the two handles in the other order. *)
HandOffReversed(g) ==
    /\ \/ Work(g, "leaving", "handed") /\ taskHandle' = 0 /\ UNCHANGED stoppingHandle
       \/ Work(g, "handed", "deleting") /\ stoppingHandle' = g /\ UNCHANGED taskHandle
    /\ UNCHANGED <<settingVars, storage, cancelVars, created, pc, histVars>>

(* handOffTaskToSelfDelete: whoever looks in between sees a task. *)
HandOff(g) ==
    /\ \/ Work(g, "leaving", "handed") /\ stoppingHandle' = g /\ UNCHANGED taskHandle
       \/ Work(g, "handed", "deleting") /\ taskHandle' = 0 /\ UNCHANGED stoppingHandle
    /\ UNCHANGED <<settingVars, storage, cancelVars, created, pc, histVars>>

Delete(g) ==
    /\ Work(g, "deleting", "gone")
    /\ UNCHANGED <<settingVars, handleVars, cancelVars, created, pc, histVars>>

-----------------------------------------------------------------------------
Reconcile(t) ==
    \/ SaveOk(t) \/ NothingChanged(t) \/ SaveFails(t) \/ Agree(t) \/ Start(t)
    \/ Stop(t) \/ Begin(t) \/ Arm(t) \/ Create(t) \/ CreateFails(t) \/ Publish(t)

Stopping(t) ==
    \/ StopNothing(t) \/ StopRequest(t) \/ LoopGone(t) \/ LoopTimeout(t)
    \/ CleanedUp(t)

Live(g) ==
    \/ Cycle(g) \/ ChannelDone(g) \/ BindChat(g) \/ ChatBound(g)
    \/ Leave(g) \/ HandOff(g) \/ Delete(g)

Next ==
    \/ \E t \in Callers : Change(t)
    \/ \E t \in Callers \cup {Boot} : Reconcile(t)
    \/ \E t \in Tasks : Stopping(t)
    \/ Shutdown
    \/ \E g \in Gens : Live(g)

Spec == Init /\ [][Next]_vars

(* Calls go on, every wait in them has a time-out; the loop goes on, and a *)
(* channel comes back within the time-outs of its transport.               *)
FairSpec ==
    /\ Spec
    /\ \A t \in Tasks : WF_vars(Reconcile(t) \/ Stopping(t))
    /\ \A g \in Gens : WF_vars(Live(g)) /\ SF_vars(ChannelDone(g))

-----------------------------------------------------------------------------
(* Every variable keeps its type. *)
TypeOK ==
    /\ lock \in Callers \cup {Boot, Worker, NoOne}
    /\ wanted \in {"on", "off"} /\ before \in [Callers -> {"on", "off"}]
    /\ token \in {"run", "stop"} /\ flags \in {"armed", "clear"}
    /\ taskHandle \in 0 .. MaxStarts /\ stoppingHandle \in 0 .. MaxStarts
    /\ storage \in 0 .. MaxStarts /\ created \in 0 .. MaxStarts
    /\ wpc \in [Gens -> {"none", "loop", "channel", "bind", "leaving", "handed",
                         "deleting", "gone"}]
    /\ pc \in [Tasks -> {"idle", "save", "reconcile", "again", "begin", "arm",
                         "create", "publish", "stop", "waitLoop", "waitGone",
                         "over"}]
    /\ gaveUp \in 0 .. MaxTimeouts /\ failed \in 0 .. MaxFailures

(* The device is not shutting down: its stop() does not take the lock. *)
Up == pc[Power] = "idle"

(* However stops, time-outs and starts follow one another, there is never  *)
(* a second worker beside one that has not finished.                       *)
OneWorker ==
    Up => \A g, h \in Gens : Alive(g) /\ Alive(h) => g = h

(* The stack and the control block of a task are not freed or reused while *)
(* the task still runs on them (freeTaskStorage).                          *)
StackOutlivesTask == Up => \A g \in Gens : Alive(g) => storage = g

(* A live worker can be cancelled: its transports look at the token, also  *)
(* after a stop() that gave up (clearCancelFlags).                         *)
FlagsWhileAlive == Up => \A g \in Gens : Alive(g) => flags = "armed"

(* With all channels off and no change under way no worker is told to run. *)
DisabledStops ==
    lock = NoOne /\ wanted = "off" => \A g \in Gens : ~Alive(g) \/ token = "stop"

Served == \E g \in Gens : Alive(g) /\ token = "run"

(* With a channel on and no change under way a worker runs, unless a stop  *)
(* has timed out or there was no memory for the task.                      *)
EnabledRuns ==
    Up /\ lock = NoOne /\ wanted = "on" /\ gaveUp = 0 /\ failed = 0 => Served

(* A worker that was told to stop is never told to go on: starting again   *)
(* waits for its end, whichever call resumes the stop.                     *)
NoRevival ==
    [][Up /\ token = "stop" /\ token' = "run" => \A g \in Gens : ~Alive(g)]_vars

-----------------------------------------------------------------------------
(* What the rest of the firmware may rely on, see WorkerLife. A request to *)
(* stop is a fact of the worker that lives, if any.                        *)
Life(g) ==
    IF ~Alive(g) THEN wpc[g] ELSE IF token = "run" THEN "running" ELSE "told"

Lifecycle == INSTANCE WorkerLife WITH
    Workers <- Gens, NoStack <- 0,
    life <- [g \in Gens |-> Life(g)], stack <- storage, supervised <- Up

(* Until the shutdown begins, whatever stops gave up, and whoever changed  *)
(* the settings meanwhile: a worker starts only when the last has gone, on *)
(* a stack nobody uses; it goes only when it was told to; and it is never  *)
(* told to go on.                                                          *)
ImplementsLife == Lifecycle!Spec

(* A worker told to stop is gone in the end. *)
StopHonoured ==
    \A g \in Gens : (Alive(g) /\ token = "stop") ~> ~Alive(g)

(* "a quick disable->enable sequence does not leave the worker stopped     *)
(* until some later settings change happens to reconcile again"            *)
(* (NotificationRuntimeReconciler.cpp, reconcile).                         *)
ReenableRuns ==
    Up /\ lock = NoOne /\ wanted = "on" /\ failed = 0 => \E g \in Gens : Alive(g)

=============================================================================
