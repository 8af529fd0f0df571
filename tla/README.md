# MatrixHub: formal models

MatrixHub is firmware for an ESP32-S3 hub: sensors, BLE and Wi-Fi sensing,
alarms, notifications, macros and a LED matrix behind a web interface. It is
C++ on FreeRTOS: a dozen or more tasks, one HTTP server task, a LittleFS
partition, a configuration that lives in PSRAM and is mirrored to flash and to
RTC memory. Paths below are relative to `src/src/` of the repository unless
they start with `src/` or `docs/`.

The models are about what this code does when several tasks meet: one file
that every settings service rewrites, one queue that anybody may switch off,
one pool whose storage is replaced under its users, one worker that must stop
exactly when nobody needs it, one transaction that spans memory, flash and a
running service, one task that is told to stop while it waits for the network,
one offset that must follow the bot it was learned from, one relay that must
follow its rule.

| Module | What it models | Checked by | Proved |
|---|---|---|---|
| `ConfigFile` | saving and loading the configuration file | `config_file`, `config_file_cut`, `config_file_race` | every invariant of the run, the refinement of `ConfigStore` |
| `ConfigStore` | what saving promises its callers (abstract) | `config_file` | - |
| `WsTaskQueue` | WebSocket message queue, its life cycle and its task | `task_queue` | every invariant of the run, the refinement of `WsHandoff` |
| `WsHandoff` | what that queue promises its callers (abstract) | `task_queue` | - |
| `WsPool` | payload slots and the storage behind them | `pool`, `pool_freed` | every invariant of `pool`, `FreedDrained` when controllers take turns, the refinement of `WsHandoff` |
| `CsiFrontend` | who keeps CSI running for browsers | `csi_frontend` | every invariant of the run |
| `NotificationWorker` | life cycle of the notification task | `notification`, `notification_quick` | every invariant of `notification`, the refinement of `WorkerLife` |
| `WorkerLife` | what a worker's life cycle promises the code around it (abstract) | `notification` | - |
| `TelegramWorker` | Telegram queue, sender, poller and update offset | `telegram` | every invariant of the run |
| `AlarmEngine` | readings, evaluation, events, display, relays, saved rules | `alarms` | every invariant of the run, `AlertsOnTime` |
| `SettingsTransaction` | change, save, apply, roll back; deep sleep and boot | `settings` | every invariant of the run, `RestartKeepsAcknowledged` |

`MCConfigFile` and `MCWsPool` add the symmetry sets of two runs that look for a
violation; the `*_proofs` modules hold the theorems. `PROJECT.json` maps every
definition to the lines it stands for.

## 1. Inventory

### What keeps state, and how the parts meet

**Configuration store and file.** `system/rtc` keeps the working copy of the
settings (`RTC::ConfigStore`) in PSRAM under one lock. Each settings service
(`wifisensing`, `udp`, `ble`, `macros`, `alarms`, `matrix`, `power`, ...) owns
one section, has an access mutex of its own and runs changes as a transaction:
commit the section, run the update handlers, roll back when one fails.
`core/config` turns all sections into one JSON document and replaces
`config.json` through `settings.tmp` and `settings.bak`, under the FS mutex it
shares with the file manager, the macro repository and the data logger. Before
deep sleep the store is copied to a slot in RTC memory; a wake reads the slot, any
other start reads the file. Hard: the document is built before the mutex is
held; six file operations that may each fail; power loss between any two;
roll backs that fail; a snapshot taken while tasks still run.
Correct when: an acknowledged change survives, a refused one leaves no trace,
store, file and running service agree at rest, some whole document always
exists, the mutexes come back.

**WebSocket transport.** `api/common/websocket`: `WsTaskQueue` (a FreeRTOS queue,
a broadcast task, two atomic flags, a count of enqueues in flight and a
lifecycle lock), `WsPayloadPool` (slots in PSRAM), `WsClientManager` (the
client map, send time-outs, removal of dead sockets) and the facade
`WebSocketBroadcaster`. Producers are sensor, logging and CSI tasks. Hard:
`xQueueSend` and the slot's filling happen outside the lifecycle lock, a
disable times out half-way and is resumed by a later call, release of a slot may
time out. Correct when: nobody uses a dead queue or freed storage, each payload is
released once, a task is only deleted parked, a slot has one holder.

**CSI frontend.** `api/wifisensing/WifiSensingApiService` keeps the CSI consumer
and the queue of `/ws/csi` alive while browsers are connected: first and last
client are callbacks of the client map; the stop is delayed, done by a worker
task, and claimed with one flag. Hard: reconnects in the grace period, a
callback under the client map's lock, a socket number that is reused between a
failing send and the removal of its client. Correct when: a browser is served
whenever things are at rest, CSI is off when nobody is connected, teardown and
start exclude each other.

**Notifications.** `notifications`: one worker task for webhook, Pushover and
Telegram, with a cancel token, cancel flags in the transports, two task handles
and a stack of its own; a reconciler starts and stops it after every change of
the notification settings, the boot starts it, the shutdown sequence stops it
without the settings lock. Hard: a stop that gives up on a worker in a long
transfer and the begin after it; the task that reads its settings under the
lock its stopper holds; storage that may be freed only once the task is gone.
Correct when: one worker at a time, its stack outlives it, it runs exactly when
some channel is enabled, a stop is final.

**Telegram.** `notifications/telegram`: a ring of outbound messages filled by
any task, a processor that sends one per cycle and puts retryable failures back,
a poller that asks for updates from an offset kept in RTC memory, a command
dispatcher whose replies go into the ring. Hard: eviction of the oldest message;
commands dispatched before the offset is stored; the bot's token changes, or
cannot be read, between two reads of a cycle; deep sleep keeps the offset, a
restart does not. Correct when: messages leave in order, no update is forgotten
by the server before it was dispatched, none is dispatched again without cause.

**Alarms.** `alarms`: producers merge readings into a snapshot and ask for a
pass; the main loop evaluates rules against it under a lock, keeps per-rule
runtime states, and then, on copies and with no lock held, latches the display
and sends relay commands through the queue of the Shelly worker; the settings
service replaces the rules, switches off the relays of rules that ended and
clears the display, and does so again when it rolls back. Hard: rules that end
while their event is pending; two tasks that change latch and display in two
steps each; cooldowns as differences of wrapping counters; a pass dropped because
the rules are locked; deep sleep keeps the states of the rules and the relays, and
nothing else of a pass. Correct when: a relay follows its rule, the display follows
its latch, alerts keep their cooldown, a source that stays hot raises its alarm.

**Power, sleep, shutdown, boot.** `system/power`, `system/shutdown`,
`system/init`, `system/boot`: sleep requests, a failsafe task, an ordered
shutdown, boot counting. Hard: the failsafe races the regular path. The snapshot
before deep sleep, the two boots and the shutdown's stop of the notification
worker are in the modules above; the rest is not modelled.

**Data logger, macros, BLE, Shelly, sensors, heartbeat, thermal monitor, USB
terminal.** Each has a task and a start/stop protocol; what is left out is
listed per component in `PROJECT.json`.

**No state of interest or out of reach.** Signal processing of Wi-Fi sensing and
air mouse (numeric filters), matrix rendering, REST handlers that only format,
the web interface, the browser extension, vendored libraries, generated data.

### Interaction

```
 HTTP task --+--> settings service --commit--> RTC::ConfigStore --snapshot--> RTC slot
             |        | handlers                    | sections                  | warm boot
             |        v                             v                           v
             |    running service            CONFIG::save --> config.json --> store
             |        |                                       (cold boot)
             |        +--> reconciler --begin/stop--> notification task --> Telegram queue,
             |        +--> rules --> alarm pass --> display, Shelly queue      poller
             |                          ^ readings
 producers --+--> WebSocketBroadcaster --slot--> WsPayloadPool
                      |  enqueue                      ^ release
                      v                               |
                  WsTaskQueue --> broadcast task --> WsClientManager --> sockets
                      ^ enable/disable                | first/last client
                      +------- WifiSensingApiService <+
```

How the modules lean on each other:

- `WsTaskQueue` implements `WsHandoff`: a message offered is refused at once, or
  accepted, sent in the order of acceptance and released once, whatever is done
  to the queue's life cycle meanwhile. `WsPool` keeps the queue at that level, and
  is proved to implement `WsHandoff` too: what it takes for granted of the queue is
  no more than the queue keeps, also when it is enabled or is destroyed. `DrainedBeforePark`
  adds that a queue is only destroyed drained.
- `CsiFrontend` takes the transport as on, off, closing or stuck: what its
  callers can tell of `enable` and `disable` in `WsTaskQueue`. A disable takes it to
  off, to stuck when it gave up half-way, or back to on when it did not even get the
  lock.
- `SettingsTransaction` takes a save as one step that replaces the document or
  keeps it, which is what `ConfigStore` describes and `ConfigFile` implements. The alarm service's transaction appears there with its
  store, file and engine, and in `AlarmEngine` with what the engine does then.
- `TelegramWorker` is what the worker of `NotificationWorker` does in its channel.
  The object behind it outlives the task, so a stop and a begin between two of its
  cycles change nothing in it; `NotificationWorker` keeps of it that the worker
  may stay in a channel for long and may change a setting from there.

## 2. The modules

### ConfigFile, ConfigStore
Code: `core/config/persistence/ConfigPersistence.cpp`, `core/config/ConfigManager.cpp`.
A document is the number of changes committed when it was built. `tmp`, `cfg`
and `bak` are the three files, each a version, `Absent` or `Torn`; `pc[s]` is
the saver's place in `writeConfigDocumentAtomically`, `owner` the FS mutex,
`ram` the working copy. One action per file operation, and one per way it
fails; `OtherLocks`/`OtherUnlocks` stand for every other user of the mutex;
`PowerLoss` is power loss and the cold boot after it. `found`, `acked` and
`everSaved` are history. Short writes (`shorts`) promote a torn document, as the
code does: only `written == 0` is an error there.

`ConfigStore` is the abstract specification: one register. A task asks to save
what it found in the working copy, the register takes that document at one
instant, and the call returns true if that has happened and false if not. Nothing
else writes the register; a power loss during a save may empty it, because the
code has that weakness (`config_file_cut`). `trusted` ends the promise: after a
second failed file operation or a short write anything may happen. The refinement
mapping (`Store` in `ConfigFile`) reads the register from `config.json`, except
between the two renames, where it is what the save had found.

### WsTaskQueue, WsHandoff
Code: `api/common/websocket/WsTaskQueue.cpp`. A queue object is the number of
the enable that created it, so a stale handle can be told from the successor's.
Producers run `enqueue` (`offer`, `send`, `sent`/`unsent`, `report`), controllers
run `enable` and `disable` under `lock`, the broadcast task is `none`, `waiting`,
`busy`, `leaving` or `suspended`. Atomics keep their names. All time-outs (lock,
drain, park) are actions that may always be taken instead of waiting.

`WsHandoff` is the abstract specification: a line of accepted messages, the one
being sent, and what became of each. Of the queue's life cycle it has only that the
line is opened, and closed when nothing waits in it and nothing is being sent; it
has no action that drops an accepted message. The refinement mapping (`Handoff` in
`WsTaskQueue`) reads the line from the queue's content, a message's stage from where
it is, and takes the line for open while there is a queue.

### WsPool
Code: `api/common/websocket/WsPayloadPool.cpp`, `api/common/WebSocketBroadcaster.cpp`.
Storage is the number of the `init` that allocated it; `ptr[m]` is where message
`m` was put. `init` is modelled in the three pieces a producer can see (sizes,
allocation, clearing), because it does not take the pool's lock. It begins with a
`deinit` of its own, so a pool is freed in two places: by the `disableQueue` that
destroyed its queue (`DisableDeinit`), and by the next `enableQueue` (`InitDeinit`).
Each may find the pool's lock busy and leave the storage as it is
(`DisableDeinitBusy`, `InitDeinitBusy`). `gaveUp` is history: a disable or a deinit
gave up on its wait, and no `disableQueue` has freed the pool since. A producer whose
writer writes nothing releases its slot at once (`WriterFails`). The initial
states tell the two uses apart: enabled once before the first broadcast
(`AtBoot`), or on demand by controllers.

### CsiFrontend
Code: `api/wifisensing/WifiSensingApiService.cpp`,
`api/common/websocket/WsClientManager.cpp`, `api/common/WsEndpointRuntime.cpp`.
`open` and `clients` are the sockets that are connected and those in the map, and
`victims` the sockets each sender found dead, which it removes by number later: the
number may be open again by then. A send may fail at any time after the
registration. `desired`, `due` and `running` are the three atomics of
the lifecycle; every read and write of them that another task can come between
is a step of its own. `failed` remembers that the last start did not succeed,
`overtook` that a stop came while another call was past the point where it looks
what is desired.

### NotificationWorker, WorkerLife
Code: `notifications/runtime/NotificationWorker.cpp`,
`notifications/runtime/NotificationRuntimeReconciler.cpp`,
`notifications/settings/NotificationSettingsService.cpp`, and the worker's stop
in `system/shutdown/ShutdownSequence.cpp`. A worker is the number of the `begin`
that created it; `taskHandle`, `stoppingHandle` and `storage` carry that number,
so a handle or a stack of an earlier task can be told from its successor's. Callers
change the settings under `lock`: save (with the roll back), then reconcile, or
return when nothing changed (`NothingChanged`); `Boot` reconciles once at the start, with the lock; `Power` is the shutdown, which
stops without it. (That the boot holds the lock is the model's: see section 5.)
`stop` is a request, a wait for the loop and a wait for the
handle, each of which may give up; `begin` reclaims, arms the cancel flags, creates
and publishes the handle. The worker's own steps are its loop, a channel, the
binding of a chat from inside a channel (which takes the settings lock), the
leave, and the two steps that hand its handle to self-deletion.

`WorkerLife` is the abstract specification: a worker starts only when no other is on
its way out, on a stack that is then its own until it has gone; it goes only when it
was told to, and one that was told to is never told to go on. There are no handles,
locks, waits or settings in it. The promise holds while starts and stops are
supervised, that is, until the shutdown stops the worker without the settings lock.
The refinement mapping (`Lifecycle` in `NotificationWorker`) reads a request to stop
from the run token and the worker that lives.

### TelegramWorker
Code: `notifications/telegram/queue/`,
`notifications/telegram/runtime/TelegramWorker.cpp`,
`notifications/telegram/polling/TelegramPoller.cpp`, the update fetcher. Updates are
numbered per bot as its server issues them; messages as the ring accepts them.
`issued` and `confirmed` are the server; `token` the settings, `known` what
`syncConfigChanges` saw last; `offset` is the RTC variable, `owner` (history) the
bot it was learned from. Every read of the settings sees the token or, when the lock
is busy, nothing: `Reads`. `fate` says what became of a message, `runs` how often an
update was dispatched, `count` how often each kind of trouble happened. `Boot` is
both ways out of a cycle: deep sleep keeps the offset, a restart does not. The limit
a poll asks for and the number of updates it keeps are different constants.

### AlarmEngine
Code: `alarms/AlarmService.cpp`, `alarms/core/` (`AlarmCoordinator`,
`AlarmRuleManager`, `controller/AlarmMatrixController`),
`alarms/engine/AlarmEvaluator.h`, `alarms/wiring/AlarmShellyBridge.cpp`, and the
alarm service's handlers. Three tasks: producers and the clock (`Submit`, `Sample`,
`Vanish`, `Tick`), the main loop (`Begin`, `Skip`, `Evaluate`, `UpdateDisplay`,
`Show`, `RunEvent`, `EndPass`), the task that saves (`Save`, `Apply`, `ApplyFails`,
`Undo`, `UndoFails`, `SwitchOff`, `ClearDisplay`, `Hide`), and the Shelly worker
(`Execute`). A pass reads beacons and pins rule by rule (`ReadSource`) and ends by
committing the states that changed to the store (`PersistStates`); `kept` is what
the store has. The commit may fail, or come after the snapshot for sleep was taken:
`kept` stays older until the next change. `Restart` is deep sleep with its wake,
which brings `kept` back (`Wake`), or any other restart, which forgets the states
(`WakeFresh`); it may come at every place of the main loop. `millis()` counts modulo `Turn` and the cooldown is
the wrapping difference the code computes; `since` is the true time awake, kept only
for `AlertsOnTime`. `slept`, `adrift` and `overlap` are history: rules whose last
alert was before a sleep; rules whose relay something went wrong for (a command that
the queue refused or the device failed, an event or a command that a restart wiped, a
wake that brought back another status than the rule had, a rule that ended before a
pass evaluated it, with its event to switch on pending, or in a save whose commit
failed), until the next command for that relay is accepted; and the two tasks changing
the display at once.

### SettingsTransaction
Code: `system/rtc/RtcStatefulService.h`, `alarms/AlarmSettingsService.cpp`,
`wifisensing/WifiSensingSettings.cpp`, `udp/UdpSettingsService.cpp`,
`core/config/serialization/ConfigSavers.cpp`, `system/rtc/RtcConfigLoader.cpp`,
`system/rtc/runtime/RtcRuntimeData.cpp`, `system/init/services/StorageInitializer.cpp`.
Three services stand for the three shapes of update handler. `Begin` commits,
`Apply`/`Revert` change the sensing worker, `Collect` reads the document one
section per step, `CollectFails` is the read that does not get the lock in time, whose
section is written empty (`Blank`) by a save that goes on and returns true,
`Persist`/`SaveFails` is `CONFIG::save`, `Install` hands alarm
rules to the engine, `Restore` is the roll back, which for alarms saves and
installs again. `Snapshot` is `prepareForSleep`; `WarmBoot`, `HydrateFails` (a warm
boot that has to load the whole file after all) and `ColdBoot` are the ways out. The
slot survives deep sleep only, and a wake leaves it valid.

There are two handlers of `POST /rest/sleep`. The framework's
(`src/lib/framework/services/SleepService.cpp`) goes to sleep without a snapshot.
`PowerApiService::begin` (`api/power/PowerApiService.cpp:157-168`) unregisters it and
puts its own in its place, which asks the power manager to sleep, snapshot included
(`docs/engineering/architecture/power_modes.md:143-145`). It is the first of the API
services to begin (`ApiServicesInitializer.cpp:120-121`), before those that change
settings. So the framework's handler answers only in a window of every boot, in which
no endpoint can change a setting yet: `booting`, ended by `Ready`. In it `SleepNow` sleeps
with whatever the slot holds.

`told` is what was last acknowledged, `disturbed` says whether transactions overlapped
one another or the snapshot since the last cold boot.

## 3. What the runs check

| Run | Shows | Distinct states |
|---|---|---|
| `config_file` | three savers, two failed operations, one short write, two power losses: `ImplementsStore`, `BootableWhenIdle`, `FailedSaveKeepsFile`, `SurvivesOneFault`, `SaveReturns` | 404 K |
| `task_queue` | two producers, two controllers, capacity 2, three messages, two generations of queue: `SendOnLiveQueue`, `OneCustodian`, `DrainedBeforePark`, `StopParks`, `EveryMessageReleased`, `ImplementsHandoff` | 71 K |
| `pool` | both uses of the pool, two producers, two slots, three messages, a controller with two generations, one time-out: `SlotExclusive`, `SentIntact`, `TakenIsHeld`, `FreedDrained`, `SlotComesBack` | 1.99 M |
| `csi_frontend` | two sockets, three connections, one fault: `ServedWhenQuiet`, `StoppedWhenQuiet`, `PendingMeansEmpty`, `StartExcludesTeardown`, `ClientServed` | 558 K |
| `notification` | two callers, the boot, the shutdown, three workers, two stops that give up, two failures: `ImplementsLife`, `DisabledStops`, `EnabledRuns`, `FlagsWhileAlive`, `StopHonoured` | 44 K |
| `telegram` | two bots, a ring of two, three messages, two updates, two troubles of any kind: `SentInOrder`, `NothingSkipped`, `RerunsBounded`, `UpdateServed`, `MessageLeaves` | 578 K |
| `alarms` | one rule, clock modulo 3, cooldown 2, a command queue of one, two saves, restarts or failed commits, with any failures of saves and commands: `RelayFollows`, `DisplayFollows`, `AlertsOnTime`, `AlarmRaised`, `LatchReleased` | 944 K |
| `settings` | two tasks, two changes, two failing steps (reads inside a save among them), two restarts by either handler: `SettledAgree`, `LiveFollowsStore`, `RestartKeepsAcknowledged`, `AccessReleased` | 979 K |

Runs that find a violation state what a comment or a document claims:

| Run | Claim | What the code does |
|---|---|---|
| `config_file_cut` | `CONFIG::save()` "writes atomically" (`docs/engineering/architecture/configuration_system.md:88`) | power lost between the two renames boots into factory defaults with two whole files unread |
| `config_file_race` | every change is "persisted to LittleFS" (`docs/engineering/integrations/telegram_integration.md:43`) | a saver with an older document overwrites a newer one already acknowledged |
| `pool_freed` | "Thread-safe" facade (`WebSocketBroadcaster.h:15`) | a producer between taking its slot and enqueueing is not waited for; the storage is freed under it |
| `notification_quick` | "a quick disable->enable sequence does not leave the worker stopped until some later settings change" (`NotificationRuntimeReconciler.cpp:46-51`) | the stop gave up on a worker in a transfer, the enable takes the leaving worker for a live one, and none is started after it |

Type invariants are in no run: they are theorems, and each run that checked an
inductive invariant while it was being found checked the types with it.

### Bounds, and why they are enough
Two producers and two controllers are needed to have a controller resume another's
timed-out stop while a producer is in flight. Capacity 2 and three messages make
"full", order and a message behind the one being sent all happen. Two generations of
queue or pool are needed to use an old one beside a new one. In `pool` one
controller is enough: the services that use a pool on demand do not call enable and
disable concurrently, and the theorem about `FreedDrained` has that as its hypothesis. One
time-out is enough to give up a disable, after which the next enable frees a pool in
use. Three
savers: one holds the mutex, one waits with an old document, one begins. Two faults,
because each property tolerates one and must not be broken by the handling of it,
and the paths where the handling fails must exist. Two restarts: one to leave a
snapshot behind, one to use it wrongly. Three connections on two sockets: one to
reuse a number. Three notification workers: one that a stop gave up on, its
successor, and one more to find stale handles; two callers, so that one change
follows another while the shutdown comes in between. Two bots and two troubles: a
token that changes and changes back, or one that changes around a read that timed
out. One alarm rule, because rules share only the display and the command queue: the
safety properties were also checked with two rules and one save, and with one rule
and four saves, without restarts. Saves, restarts and failed commits of states share one
bound, so that two of a kind, or one before or after another, happen: a commit that
fails and the wake that brings the older states back are two. Every bound is a CONSTANT in the guard of
its actions. Deadlock checking is off where the bounds end all activity (`WsPool`,
`CsiFrontend`, `NotificationWorker`, `TelegramWorker`, `AlarmEngine`,
`SettingsTransaction`).

### Fairness
Weak fairness on the code of a task that is inside a call: FreeRTOS serves every
ready task, and every wait in the modelled code has a time-out. New calls,
faults, power loss and departures of browsers are never assumed to happen; the
other user of the FS mutex gives it back. `CsiFrontend` has strong fairness on
`GraceOver`: the worker polls, so the end of the grace period is noticed however
often it is extended in between. Closing a socket the server was told to close is
assumed. `NotificationWorker` has strong fairness on `ChannelDone`: a transport
comes back within its own time-outs. `TelegramWorker` has strong fairness on
`Take`, `Ask` and `Answer`: of infinitely many cycles some find the settings lock
free and the network up; without it nothing can be promised of a message or an
update. `AlarmEngine` has weak fairness on `Sample`: the sensor task publishes
every few seconds, which is what a dropped pass relies on.

## 4. What is proved

Theorems hold for every value of the constants that the modules' named
assumptions allow. These say that bounds are natural numbers and capacities
positive, that the tasks are told apart from one another and from the marker for a
free lock, that `Producers` of the message queue is finite, that a poll asks for
no more updates than it keeps (`Limit \in 1 .. Kept`, the two numbers of
`TelegramPoller`), and that the cooldown is shorter than a turn of the clock.

In each proof module the invariant `IInv` (or the several invariants that were
proved one on top of the other) is a conjunction of named parts.
The arguments:

`ConfigFile_proofs`. `LockInv` (a saver past the lock owns the mutex); `TmpInv` (the
temporary file holds its own document from the write to the promotion); `FoundInv`
(`config.json`, or the backup once it was renamed, is still what the save found);
`BootInv` and `WholeInv` (as long as at most one thing failed, which of the three
files is whole at each place of the sequence). `BootableWhenIdle` and
`SurvivesOneFault` are not inductive: they say nothing of the places between two
renames, which is where `BootInv` and `WholeInv` follow the document.
`SaveImplementsStore` maps every step to one of `ConfigStore` or to a stutter: the
document is asked for when it is built, stored by the promoting rename, and
`FoundInv` gives that the renames before it and the error paths after it leave the
register alone. That two savers are never between the renames at once, so that the
mapping means anything, is `LockInv`. `PromotedIsOwn` (a save about to return true has
its own document in place) is proved too, and not in a run: the refinement says
more.

`WsTaskQueue_proofs`. `CountInv` (`inFlight` is the number of producers between
count-in and count-out, by cardinality of a finite set), `LockInv`, `StageInv`,
`QueueInv`: a controller destroys a queue only when the count is zero under the
lock with `accepting` off, so a producer that has counted itself in keeps the queue
alive. On top of it the custody of messages: every message offered is with its
call, in the queue, with the broadcast task, or released, exactly once.
`QueueImplementsHandoff` then maps every step: sends accept, receives take,
releases finish or refuse, enabling opens the line and the destruction of the queue
closes it (`OpenStep`: a queue goes only from under a parked task, which left nothing
queued and nothing in its hands), and everything else that enabling and disabling
does leaves the hand-off as it was.

`WsPool_proofs`. `Custody` (a message is in one place) and `Boot` (in a pool
enabled at boot every slot is marked exactly while somebody holds it or its release
timed out, and holds its holder's bytes once they are written) carry
`SlotExclusive`, `SentIntact` and `TakenIsHeld`. `FreedOnlyDrained` is about the
behaviours in which controllers take turns (`Turns`: at most one is inside a call at a
time), and about every step that frees a pool, the one in the next enable included, as
long as no disable and no deinit gave up before (`gaveUp`). The turns are needed because
what a controller found drained could otherwise be filled again by an enable of
another's; the other condition because after a disable that gave up the next enable
does free a pool in use, in the model and in the code. `PoolKeepsHandoff` maps the
steps of the pool to `WsHandoff`; what it needs of `Custody` is that a message a producer still has is in no other place. That
nothing waits where there is no queue (`Empty`) needs no turns: enables and disables
that run into each other may free the pool too early, but never lose a message.

`CsiFrontend_proofs`. `Places`, `Excluded` (who holds the lifecycle mutex where),
`Flagged` (the flag is up exactly while a worker exists or is being created),
`Wanted` and `Served` (a registered browser is wanted and served, or its start is
still to come), `Stopped` and `Remembered` (a wanted stop is done or under way).

`NotificationWorker_proofs`. `LockInv`, `Numbered` (only the latest worker can be
alive), `Handles` (one of the two handles leads to it, at every place), `Starting`,
`Stored`, `Armed`, `Leaving`, `Disabled`, `Rollback`. The argument for
`StackOutlivesTask` (the stack of a live worker is its own): storage is freed and allocated only where both handles are
empty, and a worker that is alive has one of them set, or its creator is just about
to publish it with the lock held. `WorkerKeepsLife` maps every step to one of
`WorkerLife` or to a stutter: the creation of the task starts a worker, the lowering of
the run token tells it to stop, its deletion of itself ends it. What
it needs beyond `IInv` is `Ready`: whoever is about to create a task has raised the
token with nobody alive, so a request to stop cannot be taken back under a worker.
`StorageOutlivesTask` and `StopIsFinal` are proved as well; the refinement says more.

`TelegramWorker_proofs`. `QueueInv` (`Accounted`, `Numbered`, `Ordered`) for
`SentInOrder`. For `NothingSkipped`: `Owned` and `Polling` (the bot a poll asks is the
one its offset was learned from) and `Learned` and `Covered` (what the offset covers
was dispatched; so was what the poll has seen, but for the batch at hand). Proving
it showed one more way to the wrong offset, which the bounds of the run had not
reached then: two reads in a row that time out hide a change of the token. For
`RerunsBounded`: `Ahead` (a batch goes up, beyond the offset it was asked from) and
`Once` (an update was dispatched at most once per reset of the offset so far, and
once more if it lies behind the offset or the poll has passed it). Troubles are
counted when they happen and the offset is reset later, when `syncConfigChanges`
next compares the tokens, so the account (`Used`) holds one reset back while the two
differ; a read that times out may cost two, one when the token reads as empty and
one when it is back.

`AlarmEngine_proofs`. `Display`, `Timing` (the wrapping difference is the true time,
up to the bound, for a rule that alerted since the last restart), `Phases`, `Relays`
(a relay follows its rule, or an event, a pending switch-off or the last queued
command for it makes it follow, or it is `adrift`). Proving it showed that the roll back of a save may
fail as well and leave the engine with rules the store does not have; the model has
that step (`UndoFails`).

`SettingsTransaction_proofs`. `Locked` (one transaction per service), `Shape`, `Stored`,
`Sensing` and `Alarms` (what the running services have at each stage, with at most
one fault), `Settled` (without overlap, the document collected so far is the
store, but for a section left empty by the one fault). `RestartKeepsAcknowledged` follows from what the snapshot and the file hold
at a boot.

Only model-checked: all liveness (`SaveReturns`, `StopParks`, `EveryMessageReleased`,
`SlotComesBack`, `ClientServed`, `StopHonoured`, `UpdateServed`, `MessageLeaves`,
`AlarmRaised`, `LatchReleased`, `AccessReleased`), because fairness is out of the
prover's reach.

## 5. What is not modelled, and known gaps

Not modelled, by component: see `PROJECT.json`. Most of the lines in the repository
are vendored (a Bluetooth stack, twice, and other libraries), generated, web
interface or numeric code; the modules cover the part of the firmware where tasks,
files and restarts meet.

In the modelled components:

- Payloads sent inline or from the heap; drop statistics; frames, ping,
  authentication; `deleteConfigFile` (no caller); disable called from the
  broadcast task itself; destructors.
- The boot's reconcile of the notification worker without the settings lock
  (`ServiceRegistryCallbacks.cpp:88-90`), after the endpoints were registered
  (`ServiceRegistryLifecycle.cpp:136-137`): in the model the boot holds the lock.
- `reapplyLatchedState`, with which the matrix manager asks for the alarm layer again.
- Rotation, canaries and checksums of the RTC slot: a slot is valid or `None`.
- A service's start at boot is taken to succeed.
- What webhook and Pushover send, what a Telegram command does, back-off intervals.
- A restart in the middle of a save of the alarm rules, or after one whose commit
  failed, may bring back states for other rules than they were of, because the store
  keeps them by position: `Restart` waits for the save, and the states stay with their
  rules.

Where the code does something the properties set aside, by a named condition:

- A short write is promoted and reported as success (`shorts = 0`); only
  `FailedSaveKeepsFile` covers it.
- A save whose read of a section does not get the configuration lock in 100 ms
  (`system/rtc/store/RtcConfigStore.cpp:131-135`) writes that section from a zeroed
  struct (`WifiSensingConfigJson.cpp:195-201`, `SystemConfigJson.cpp:139-156`) or as an
  empty list of rules (`AlarmConfigJson.cpp:511-519`), and returns true. `SettledAgree` and
  `RestartKeepsAcknowledged` name the emptied section as the one way apart; any other
  difference would violate them.
- A change acknowledged in the 100 ms between the snapshot and deep sleep is lost
  from the store at the warm boot, and transactions that overlap may leave an older
  section in the file (`disturbed`).
- After a disable, or the deinit of a pool, that gave up, the next enable may free a
  pool with messages queued or being sent (`gaveUp`).
- Two failing steps in one transaction (a roll back that fails) leave store, file
  and service apart; the properties allow for one. A sensing worker that was
  stopped and could not be restarted stays off although the store says it runs
  (`WifiSensingSettings.cpp:159-160`, against the comment at 179-181): `live` may then
  be `Off`.
- `WsPayloadPool::init` clears slot states without the lock: with `AtBoot` false
  the model gives one slot out twice.
- After a failed send `enqueue` reads the queue's fill level although it has
  counted itself out; the queue may be gone. `SendOnLiveQueue` covers the send.
- A CSI stop scheduled behind the worker's last check is dropped
  (`WifiSensingApiService.cpp:213-216`): `overtook`. A start that found the lifecycle
  mutex busy is logged as deferred (157-159) and nothing remembers it: `failed`.
- The shutdown stops the notification worker without the settings lock, so two
  stops may reclaim one task; the safety properties are stated until it begins
  (`Up`). In the model the check and the reclaim are one step.
- A bot's token that changes between the two reads of a cycle, between reads that
  both time out, or right before a deep sleep, is polled with the other bot's
  offset (`unnoticed`), and the server forgets updates nobody saw.
- A rule that ends while its event is pending, before a pass evaluated it, or in a
  save whose commit failed may leave its relay on; so may a command the queue refused
  or the device failed, and an event or a command that a restart came before: the
  rule's state was committed ahead of it. A commit of states that fails is only logged
  (`AlarmCoordinator.cpp:197-199`): a wake then brings back older ones, and the next
  reading may be no change although the relay is in the other position. `RelayFollows` sets a
  relay aside from then on, until the next command for it is accepted (`adrift`). Two tasks that change
  latch and display at once may leave them different until the next refresh
  (`overlap`). An alert at `millis() = 0` counts as none and is repeated.
- The cooldown does not outlive a deep sleep (`slept`), although
  `AlarmRuntimeState.h:18-19` says of it "Now stored in RTC memory to survive deep
  sleep": the time of the last alert does, but `millis()` starts over,
  `isCooldownElapsed` takes the difference for a wrap of 49 days, and a rule that
  stayed triggered alerts again at once.

## 6. Plan

1. Done: `ConfigFile`, `ConfigStore`, `WsTaskQueue`, `WsHandoff`, `WsPool`,
   `CsiFrontend`, `NotificationWorker`, `WorkerLife`, `TelegramWorker`,
   `AlarmEngine`, `SettingsTransaction`, with proofs of every invariant and every refinement the
   runs check.
2. The life cycle of the Shelly worker (`shelly/worker/ShellyWorker.cpp:173`: it
   announces its end before it deletes itself), as a second instance of the worker
   life cycle that `NotificationWorker` has, and the second refinement of `WorkerLife`.
3. Alarm runtime states in RTC memory against rules by index, when a restart hits
   a save.
4. The data logger (append, rotation, a record cut short) on the FS mutex of
   `ConfigFile`; thermal monitor; macro engine.
5. Sleep and shutdown: the failsafe against the regular path; boot tracking.
