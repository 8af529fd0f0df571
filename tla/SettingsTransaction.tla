------------------------ MODULE SettingsTransaction ------------------------
(***************************************************************************)
(* A change of settings in MatrixHub: the update-and-propagate transaction *)
(* of RtcStatefulService and AlarmSettingsService, from the commit into    *)
(* the configuration store, through the running service and the            *)
(* configuration file, to the answer or the roll back; and the two ways    *)
(* the store is filled at boot, from the snapshot kept in RTC memory over  *)
(* deep sleep or from the file.                                            *)
(*                                                                         *)
(* Three services stand for the others, one per shape of update handler:   *)
(*   udp       saves the file and nothing else;                            *)
(*   sensing   changes its running worker first, then saves, and changes   *)
(*             the worker back when the save fails;                        *)
(*   alarms    saves first, with its own rules in place of the stored      *)
(*             ones, then installs the rules, and rolls back all three     *)
(*             when either fails.                                          *)
(* A section of the configuration is a version number.  Writing the        *)
(* document is one step here: ConfigFile has the file operations, and what *)
(* a boot does with a file it cannot read.                                 *)
(***************************************************************************)
EXTENDS Integers, Sequences

CONSTANTS
    Tasks,        \* the tasks that change settings (HTTP server, runtimes)
    None,         \* nobody; also an invalid RTC slot
    MaxVersions,  \* bound: versions made, over all services
    MaxFaults,    \* bound: failing steps
    MaxRestarts   \* bound: boots

ASSUME SettingsAssumption ==
    /\ None \notin Tasks
    /\ MaxVersions \in Nat /\ MaxFaults \in Nat /\ MaxRestarts \in Nat

Services == {"udp", "sensing", "alarms"}
Running  == {"sensing", "alarms"}      \* those that hold settings of their own
Retained == {"udp", "sensing"}         \* sections of RTC::ConfigStore
Sections == <<"sensing", "alarms", "udp">>  \* the order the document is built in

Off == 0                               \* sensing: disabled, the worker stopped
Versions == 0 .. MaxVersions
Blank == -1                            \* in a document: a section not read
Contents == Versions \cup {Blank}

VARIABLES
    store,       \* the configuration in PSRAM, section by section
    file,        \* the configuration file
    slot,        \* the retained sections in RTC memory, or None
    live,        \* what each running service works with
    lastPersisted,  \* sensing's _lastPersistedState
    access,      \* holder of each service's access mutex
    task,        \* the transaction each task is in
    asleep,      \* is the device about to enter deep sleep?
    booting,     \* is POST /rest/sleep still the framework's?
    made,        \* versions made so far
    faults,      \* failing steps so far
    restarts,    \* boots so far
    told,        \* history: per service, the last version acknowledged
    disturbed    \* history: did a transaction overlap another or a snapshot?

vars == <<store, file, slot, live, lastPersisted, access, task, asleep, booting, made,
          faults, restarts, told, disturbed>>

Idle == [pc |-> "idle", svc |-> "udp", old |-> 0, new |-> 0, at |-> 0,
         doc |-> [s \in Services |-> 0], back |-> FALSE]

TypeOK ==
    /\ store \in [Services -> Versions]
    /\ file \in [Services -> Contents]
    /\ slot \in [Retained -> Versions] \cup {None}
    /\ live \in [Running -> Versions]
    /\ lastPersisted \in Versions
    /\ access \in [Services -> Tasks \cup {None}]
    /\ task \in [Tasks ->
            [pc : {"idle", "apply", "collect", "write", "install", "revert",
                   "restore"},
             svc : Services, old : Versions, new : Versions,
             at : 0 .. Len(Sections) - 1, doc : [Services -> Contents],
             back : BOOLEAN]]
    /\ asleep \in BOOLEAN
    /\ booting \in BOOLEAN
    /\ made \in Versions
    /\ faults \in 0 .. MaxFaults
    /\ restarts \in 0 .. MaxRestarts
    /\ told \in [Services -> Versions]
    /\ disturbed \in BOOLEAN

Init ==
    /\ store = [s \in Services |-> 0]
    /\ file = [s \in Services |-> 0]
    /\ slot = None
    /\ live = [s \in Running |-> 0]
    /\ lastPersisted = 0
    /\ access = [s \in Services |-> None]
    /\ task = [t \in Tasks |-> Idle]
    /\ asleep = FALSE
    /\ booting = TRUE
    /\ made = 0 /\ faults = 0 /\ restarts = 0
    /\ told = [s \in Services |-> 0]
    /\ disturbed = FALSE

----------------------------------------------------------------------------
(* Steps shared by the handlers.                                           *)

Busy(t) == task[t].pc # "idle"

Goto(t, pc) == task' = [task EXCEPT ![t].pc = pc]

(* The transaction returns and its scope lock on the access mutex ends. *)
Finish(t) ==
    /\ task' = [task EXCEPT ![t] = Idle]
    /\ access' = [access EXCEPT ![task[t].svc] = None]

Acknowledge(t) ==
    /\ Finish(t)
    /\ told' = [told EXCEPT ![task[t].svc] = task[t].new]

Refuse(t) == Finish(t) /\ UNCHANGED told

(* What the alarm handlers save and install: the new rules, or on the way *)
(* back the old ones.                                                     *)
Target(t) == IF task[t].back THEN task[t].old ELSE task[t].new

Fault == faults < MaxFaults /\ faults' = faults + 1

(* The section a save comes to next; the alarm service hands its rules over *)
(* instead of having them read.                                             *)
Section(t) == Sections[task[t].at + 1]
HandedOver(t) == Section(t) = "alarms" /\ task[t].svc = "alarms"

(* The document grows by one section. *)
Add(t, content) ==
    LET last == task[t].at + 1 = Len(Sections) IN
    task' = [task EXCEPT ![t].doc[Section(t)] = content,
                         ![t].at = IF last THEN 0 ELSE @ + 1,
                         ![t].pc = IF last THEN "write" ELSE @]

Boot == <<restarts, asleep, booting, slot>>   \* untouched by a transaction
Past == <<made, disturbed>>

----------------------------------------------------------------------------
(* The transaction.                                                        *)

(* updateAndPropagate takes the access mutex, reads the section, changes it *)
(* and commits it.  An update that finds a lock busy, fails or changes      *)
(* nothing leaves everything as it was.  The endpoints that ask for changes *)
(* are registered after the one for sleep.                                  *)
Begin(t, s, v) ==
    /\ ~booting
    /\ ~Busy(t)
    /\ access[s] = None
    /\ v # store[s]
    /\ access' = [access EXCEPT ![s] = t]
    /\ store' = [store EXCEPT ![s] = v]
    /\ task' = [task EXCEPT ![t] =
            [Idle EXCEPT !.pc = IF s = "sensing" THEN "apply" ELSE "collect",
                         !.svc = s, !.old = store[s], !.new = v]]
    /\ made' = IF v > made THEN v ELSE made
    /\ disturbed' = (disturbed \/ asleep \/ \E u \in Tasks : Busy(u))
    /\ UNCHANGED <<file, slot, live, lastPersisted, asleep, booting, faults, restarts, told>>

(* A request brings settings not seen before, or disables sensing. *)
Requested(s) ==
    (IF made < MaxVersions THEN {made + 1} ELSE {})
        \cup (IF s = "sensing" THEN {Off} ELSE {})

(* The ways applyRuntimeState ends.  stop() clears the running flag before it *)
(* waits for the worker, so a failing stop leaves the worker off too.         *)
ApplyRuntime(from, to) ==
    LET cur     == live["sensing"]
        started == IF cur = Off THEN {[ok |-> TRUE, live |-> to], [ok |-> FALSE, live |-> Off]}
                   ELSE {[ok |-> TRUE, live |-> cur]}
    IN  IF from = Off /\ to = Off THEN {[ok |-> TRUE, live |-> cur]}
        ELSE IF to = Off THEN {[ok |-> TRUE, live |-> Off], [ok |-> FALSE, live |-> Off]}
        ELSE IF from = Off THEN started
        ELSE {[ok |-> TRUE, live |-> to], [ok |-> FALSE, live |-> Off]}

Apply(t) ==
    /\ task[t].pc = "apply"
    /\ \E r \in ApplyRuntime(lastPersisted, task[t].new) :
          /\ live' = [live EXCEPT !["sensing"] = r.live]
          /\ Goto(t, IF r.ok THEN "collect" ELSE "restore")
          /\ IF r.ok THEN UNCHANGED faults ELSE Fault
    /\ UNCHANGED <<store, file, lastPersisted, access, told, Boot, Past>>

(* buildConfigDocument reads the store one section at a time, each under the *)
(* configuration lock, and nothing holds the others still in between.        *)
Collect(t) ==
    /\ task[t].pc = "collect"
    /\ Add(t, IF HandedOver(t) THEN Target(t) ELSE store[Section(t)])
    /\ UNCHANGED <<store, file, live, lastPersisted, access, told, faults, Boot, Past>>

(* A read that does not get the lock in time skips its callback: the section *)
(* is written from zeroed settings, or without rules, and the save goes on.  *)
CollectFails(t) ==
    /\ task[t].pc = "collect" /\ ~HandedOver(t)
    /\ Fault
    /\ Add(t, Blank)
    /\ UNCHANGED <<store, file, live, lastPersisted, access, told, Boot, Past>>

(* CONFIG::save succeeds. *)
Persist(t) ==
    /\ task[t].pc = "write"
    /\ file' = task[t].doc
    /\ IF task[t].svc = "alarms"
       THEN Goto(t, "install") /\ UNCHANGED <<access, told>>
       ELSE Acknowledge(t)
    /\ lastPersisted' = IF task[t].svc = "sensing" THEN task[t].new ELSE lastPersisted
    /\ UNCHANGED <<store, live, faults, Boot, Past>>

(* Mutant of SaveFails: a failed save of sensing leaves the worker as it is. *)
SaveFailsNoRevert(t) ==
    /\ task[t].pc = "write"
    /\ Fault
    /\ IF task[t].back
       THEN Refuse(t)
       ELSE Goto(t, "restore") /\ UNCHANGED <<access, told>>
    /\ UNCHANGED <<store, file, live, lastPersisted, Boot, Past>>

(* CONFIG::save fails and keeps the file. *)
SaveFails(t) ==
    /\ task[t].pc = "write"
    /\ Fault
    /\ IF task[t].back
       THEN Refuse(t)
       ELSE /\ Goto(t, IF task[t].svc = "sensing" THEN "revert" ELSE "restore")
            /\ UNCHANGED <<access, told>>
    /\ UNCHANGED <<store, file, live, lastPersisted, Boot, Past>>

(* Sensing goes back to the settings it ran with; a failure is only logged. *)
Revert(t) ==
    /\ task[t].pc = "revert"
    /\ \E r \in ApplyRuntime(task[t].new, lastPersisted) :
          /\ live' = [live EXCEPT !["sensing"] = r.live]
          /\ IF r.ok THEN UNCHANGED faults ELSE Fault
    /\ Goto(t, "restore")
    /\ UNCHANGED <<store, file, lastPersisted, access, told, Boot, Past>>

(* The alarm service takes over the rules, or fails before or after the copy. *)
Install(t) ==
    /\ task[t].pc = "install"
    /\ live' = [live EXCEPT !["alarms"] = Target(t)]
    /\ IF task[t].back THEN Refuse(t) ELSE Acknowledge(t)
    /\ UNCHANGED <<store, file, lastPersisted, faults, Boot, Past>>

InstallFails(t) ==
    /\ task[t].pc = "install"
    /\ Fault
    /\ live' \in {live, [live EXCEPT !["alarms"] = Target(t)]}
    /\ IF task[t].back
       THEN Refuse(t)
       ELSE Goto(t, "restore") /\ UNCHANGED <<access, told>>
    /\ UNCHANGED <<store, file, lastPersisted, Boot, Past>>

(* Mutant of Restore: the alarm roll back forgets to save the old rules again. *)
RestoreStoreOnly(t) ==
    /\ task[t].pc = "restore"
    /\ store' = [store EXCEPT ![task[t].svc] = task[t].old]
    /\ Refuse(t)
    /\ UNCHANGED <<file, live, lastPersisted, faults, Boot, Past>>

(* A handler failed: commit the previous settings again.  The alarm service *)
(* also saves and installs them before it answers.                          *)
Restore(t) ==
    /\ task[t].pc = "restore"
    /\ store' = [store EXCEPT ![task[t].svc] = task[t].old]
    /\ IF task[t].svc = "alarms"
       THEN /\ task' = [task EXCEPT ![t].pc = "collect", ![t].at = 0, ![t].back = TRUE]
            /\ UNCHANGED <<access, told>>
       ELSE Refuse(t)
    /\ UNCHANGED <<file, live, lastPersisted, faults, Boot, Past>>

(* Mutant of RestoreFails: a failed commit of the roll back returns without giving the mutex back. *)
RestoreFailsHolding(t) ==
    /\ task[t].pc = "restore"
    /\ Fault
    /\ task' = [task EXCEPT ![t] = Idle]
    /\ UNCHANGED <<store, file, live, lastPersisted, access, told, Boot, Past>>

(* The commit does not get its lock: rtc/restore_failed. *)
RestoreFails(t) ==
    /\ task[t].pc = "restore"
    /\ Fault
    /\ Refuse(t)
    /\ UNCHANGED <<store, file, live, lastPersisted, Boot, Past>>

----------------------------------------------------------------------------
(* Deep sleep and boot.                                                    *)

(* PowerApiService::begin puts its own handler in the place of the          *)
(* framework's; the other API services follow.                              *)
Ready ==
    /\ booting /\ ~asleep
    /\ booting' = FALSE
    /\ UNCHANGED <<store, file, slot, live, lastPersisted, access, task, asleep,
                   faults, restarts, told, Past>>

(* Until then a request for sleep is the framework's to answer: it takes no *)
(* snapshot, and what the slot holds from an earlier sleep is used again.   *)
SleepNow ==
    /\ booting /\ ~asleep
    /\ asleep' = TRUE
    /\ UNCHANGED <<store, file, slot, live, lastPersisted, access, task, booting,
                   faults, restarts, told, Past>>

(* Mutant of Snapshot: a snapshot that cannot be taken keeps the older one. *)
SnapshotKeepsOld ==
    /\ ~asleep
    /\ asleep' = TRUE
    /\ slot' \in {[s \in Retained |-> store[s]], slot}
    /\ disturbed' = (disturbed \/ \E t \in Tasks : Busy(t))
    /\ UNCHANGED <<store, file, live, lastPersisted, access, task, booting, made,
                   faults, restarts, told>>

(* prepareForSleep copies the store, or invalidates the slot when it cannot. *)
(* Tasks run on for 100 ms until esp_deep_sleep_start; the HTTP server is    *)
(* among them.                                                               *)
Snapshot ==
    /\ ~asleep
    /\ asleep' = TRUE
    /\ slot' \in {[s \in Retained |-> store[s]], None}
    /\ disturbed' = (disturbed \/ \E t \in Tasks : Busy(t))
    /\ UNCHANGED <<store, file, live, lastPersisted, access, task, booting, made,
                   faults, restarts, told>>

(* Every boot forgets the tasks and starts the services from the store. *)
Start(config) ==
    /\ restarts < MaxRestarts
    /\ restarts' = restarts + 1
    /\ store' = config
    /\ live' = [s \in Running |-> config[s]]
    /\ lastPersisted' = config["sensing"]
    /\ told' = config
    /\ access' = [s \in Services |-> None]
    /\ task' = [t \in Tasks |-> Idle]
    /\ asleep' = FALSE
    /\ booting' = TRUE
    /\ UNCHANGED <<file, made>>

(* What the loader makes of the file: an empty section configures nothing. *)
Loaded == [s \in Services |-> IF file[s] = Blank THEN 0 ELSE file[s]]

(* Wake from deep sleep with a valid slot, which stays valid: the retained   *)
(* sections from it, the sections that live in PSRAM only from the file.     *)
WarmBoot ==
    /\ asleep
    /\ slot # None
    /\ Start([s \in Services |-> IF s \in Retained THEN slot[s] ELSE Loaded[s]])
    /\ UNCHANGED <<slot, faults, disturbed>>

(* The sections that live in PSRAM only cannot be loaded: all are loaded again. *)
HydrateFails ==
    /\ asleep
    /\ slot # None
    /\ Fault
    /\ Start(Loaded)
    /\ UNCHANGED <<slot, disturbed>>

(* Every other start, a wake with an invalid slot among them.  Only deep sleep *)
(* keeps the memory of the slot (RTC_DATA_ATTR).                               *)
ColdBoot ==
    /\ slot' = None
    /\ Start(Loaded)
    /\ UNCHANGED faults
    /\ disturbed' = FALSE

----------------------------------------------------------------------------

TaskStep(t) ==
    \/ Apply(t) \/ Collect(t) \/ CollectFails(t) \/ Persist(t) \/ SaveFails(t) \/ Revert(t)
    \/ Install(t) \/ InstallFails(t) \/ Restore(t) \/ RestoreFails(t)

Next ==
    \/ \E t \in Tasks, s \in Services : \E v \in Requested(s) : Begin(t, s, v)
    \/ \E t \in Tasks : TaskStep(t)
    \/ Ready \/ SleepNow \/ Snapshot
    \/ WarmBoot \/ HydrateFails \/ ColdBoot

Spec == Init /\ [][Next]_vars

(* Inside a transaction every wait has a timeout, so a task always goes on. *)
FairSpec == Spec /\ \A t \in Tasks : WF_vars(TaskStep(t))

----------------------------------------------------------------------------
(* Properties.                                                             *)

(* Nothing here is in doubt: at most one step failed, and since the last cold *)
(* boot no transaction overlapped another one or a snapshot.                  *)
Undisturbed == faults <= 1 /\ ~disturbed

(* With at most one failing step, wherever it falls, a service no transaction *)
(* is changing has one version: the store, the file and the last answer that  *)
(* said "saved" agree, after a roll back too (RtcStatefulService,             *)
(* AlarmSettingsService).  The one way apart is that a save left a section it *)
(* could not read empty in the file; the store still has it.                  *)
SettledAgree ==
    Undisturbed =>
        \A s \in Services :
            access[s] = None =>
                /\ store[s] = told[s]
                /\ file[s] = store[s] \/ (file[s] = Blank /\ faults = 1)

(* Whatever other services' transactions do at the same time, and with at most *)
(* one failing step, a service at rest runs on the settings in the store, but  *)
(* that the failing step may have stopped the sensing worker (the order of     *)
(* apply, save, revert and restore in the handlers).                           *)
LiveFollowsStore ==
    faults <= 1 =>
        \A s \in Running :
            access[s] = None =>
                \/ live[s] = store[s]
                \/ s = "sensing" /\ faults = 1 /\ live[s] = Off

(* No boot, warm or cold, at any moment, brings up a service with settings   *)
(* other than the last it acknowledged, unless it was being changed or a save *)
(* emptied its section in the file, and then with none: a slot that settings  *)
(* have superseded is never used, whichever handler put the device to sleep,  *)
(* and a change of one service that is cut by the restart does not touch      *)
(* another (prepareForSleep, initConfig, the order of the endpoints).         *)
RestartKeepsAcknowledged ==
    [][restarts' # restarts /\ Undisturbed =>
          \A s \in Services :
              access[s] = None =>
                  \/ store'[s] = told[s]
                  \/ file[s] = Blank /\ store'[s] = 0]_vars

(* Every transaction ends and gives its access mutex back, on every path of *)
(* failure, so that no service refuses all later changes.                   *)
AccessReleased ==
    \A s \in Services : access[s] # None ~> access[s] = None

=============================================================================
