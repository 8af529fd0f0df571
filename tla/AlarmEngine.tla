----------------------------- MODULE AlarmEngine -----------------------------
(***************************************************************************)
(* The alarm pipeline: producers publish readings, the main loop evaluates *)
(* the rules against them and then, with no lock held, moves the relays    *)
(* and the display; a task that saves the rules replaces them, switches    *)
(* off the relays of rules that ended, and clears the display. Relay       *)
(* commands go through the queue of the Shelly worker. The device sleeps    *)
(* and restarts: rules and relays stay, and the states of the rules that   *)
(* were last committed if the restart is a wake.                           *)
(*                                                                         *)
(* Each rule has a relay of its own and uses the display. The rules are    *)
(* handled in the order of their numbers.                                  *)
(***************************************************************************)
EXTENDS Integers, Sequences, FiniteSets

CONSTANTS
    NumRules,     \* rules 1 .. NumRules
    Turn,         \* millis() counts modulo Turn
    Cooldown,     \* cooldownSeconds of every rule
    QueueSize,    \* kCommandQueueSize
    MaxUpsets     \* bound on the saves of the rules, the restarts and the failed
                  \* commits of rule states together

ASSUME AlarmEngineAssumption ==
    /\ NumRules \in Nat \ {0} /\ Turn \in Nat \ {0} /\ Cooldown \in 1 .. Turn - 1
    /\ QueueSize \in Nat \ {0} /\ MaxUpsets \in Nat

VARIABLES
    latest,     \* last reading of each rule's source
    pending,    \* _pendingEvaluation, "yes" or "no"
    enabled,    \* the manager's enabled rules
    kept,       \* the states of the rules in the store: status and last
    status,     \* initialized and previouslyTriggered of each rule
    last,       \* lastTriggeredMs of each rule, 0 for none
    now,        \* millis()
    since,      \* time awake since the last alert of a triggered rule (history)
    slept,      \* rules whose last alert was before the last restart (history)
    lpc,        \* place of the main loop
    input,      \* the readings it took, during a pass
    led,        \* whether an evaluated rule wants the display, until it was set
    todo,       \* what each rule's pending event does to the relay
    alerts,     \* rules whose pending event alerts
    latched,    \* AlarmMatrixController::_active
    shown,      \* whether the display's alarm layer is set
    epc,        \* place of the task that saves the rules
    want,       \* the rules it is about to apply
    offs,       \* rules whose relay it still has to switch off
    upsets,     \* saves, restarts and failed commits so far
    commands,   \* queue of the Shelly worker
    relay,      \* the relays
    adrift,     \* rules whose relay something went wrong for since the last
                \* command that was accepted (history)
    overlap     \* whether both tasks were changing the display (history)

inputVars  == <<latest, pending>>
ruleVars   == <<enabled, kept, status, last, since, slept>>
passVars   == <<input, led, todo, alerts>>
ledVars    == <<latched, shown>>
saveVars   == <<want, offs, upsets>>
relayVars  == <<commands, relay, adrift>>
vars == <<inputVars, ruleVars, now, lpc, passVars, ledVars, epc, saveVars, relayVars, overlap>>

Rules    == 1 .. NumRules
Readings == {"hot", "ok", "none"}

(* The states of rules that were not evaluated yet. *)
Reset == [status |-> [r \in Rules |-> "fresh"], last |-> [r \in Rules |-> 0]]

Init ==
    /\ latest = [r \in Rules |-> "none"] /\ pending = "no"
    /\ enabled = Rules
    /\ kept = Reset /\ status = Reset.status /\ last = Reset.last
    /\ now = 0 /\ since = [r \in Rules |-> 0] /\ slept = {}
    /\ lpc = "idle" /\ input = latest /\ led = "clear"
    /\ todo = [r \in Rules |-> "none"] /\ alerts = {}
    /\ latched = "no" /\ shown = "no"
    /\ epc = "idle" /\ want = {} /\ offs = {} /\ upsets = 0
    /\ commands = <<>> /\ relay = [r \in Rules |-> "off"] /\ adrift = {}
    /\ overlap = "no"

-----------------------------------------------------------------------------
(* Readings and time *)

(* submitInput: a number is merged into the snapshot and asks for a pass. *)
Submit(r, v) ==
    /\ v \in {"hot", "ok"} /\ v # latest[r]
    /\ latest' = [latest EXCEPT ![r] = v]
    /\ pending' = "yes"
    /\ UNCHANGED <<ruleVars, now, lpc, passVars, ledVars, epc, saveVars, relayVars, overlap>>

(* A producer publishes what it had, or the source of no rule. *)
Sample ==
    /\ pending' = "yes"
    /\ UNCHANGED <<latest, ruleVars, now, lpc, passVars, ledVars, epc, saveVars, relayVars,
                   overlap>>

(* A beacon or pin that is read at evaluation has no value any more. *)
Vanish(r) ==
    /\ latest[r] # "none" /\ latest' = [latest EXCEPT ![r] = "none"]
    /\ UNCHANGED <<pending, ruleVars, now, lpc, passVars, ledVars, epc, saveVars, relayVars,
                   overlap>>

(* Only a pass looks at the clock, so time passes there. Bound: a triggered *)
(* rule is evaluated within one turn of millis().                          *)
Tick ==
    /\ lpc = "pass"
    /\ \A r \in Rules : since[r] < Turn - 1
    /\ now' = (now + 1) % Turn
    /\ since' = [r \in Rules |-> IF status[r] = "triggered" THEN since[r] + 1 ELSE 0]
    /\ UNCHANGED <<inputVars, enabled, kept, status, last, slept, lpc, passVars, ledVars, epc,
                   saveVars, relayVars, overlap>>

-----------------------------------------------------------------------------
(* A pass of the main loop *)

(* Mutant of Begin: the flag is cleared without a new snapshot. *)
BeginStale ==
    /\ lpc = "idle" /\ lpc' = "pass"
    /\ pending = "yes" /\ pending' = "no"
    /\ UNCHANGED <<latest, ruleVars, now, passVars, ledVars, epc, saveVars, relayVars, overlap>>

(* processPending: take the snapshot and clear the flag. *)
Begin ==
    /\ lpc = "idle" /\ lpc' = "pass"
    /\ pending = "yes" /\ pending' = "no"
    /\ input' = latest
    /\ UNCHANGED <<latest, ruleVars, now, led, todo, alerts, ledVars, epc, saveVars,
                   relayVars, overlap>>

(* Beacons and pins are read at evaluation, rule by rule. *)
ReadSource(r) ==
    /\ lpc = "pass"
    /\ input' = [input EXCEPT ![r] = latest[r]]
    /\ UNCHANGED <<inputVars, ruleVars, now, lpc, led, todo, alerts, ledVars, epc, saveVars,
                   relayVars, overlap>>

(* The task that saves holds the manager's mutex. *)
Held == epc \in {"locked", "relocked"}

(* The rules are being replaced for longer than 25 ms: the pass is dropped. *)
Skip ==
    /\ lpc = "pass" /\ lpc' = "idle"
    /\ Held
    /\ input' = [r \in Rules |-> "none"]
    /\ UNCHANGED <<inputVars, ruleVars, now, led, todo, alerts, ledVars, epc, saveVars,
                   relayVars, overlap>>

(* Mutant of Elapsed: a wrap counts one too few. *)
ElapsedShort(t) == IF now >= t THEN now - t ELSE (Turn - 1 - t) + now

(* isCooldownElapsed *)
Elapsed(t) == IF now >= t THEN now - t ELSE (Turn - 1 - t) + now + 1

Due(r) == last[r] = 0 \/ Elapsed(last[r]) >= Cooldown

(* What evaluate makes of the status of rule r. *)
After(r) ==
    IF r \notin enabled THEN status[r]
    ELSE IF input[r] = "hot" THEN "triggered"
    ELSE IF input[r] = "ok" \/ status[r] = "fresh" THEN "clear"
    ELSE status[r]

(* Mutant of RelayAction: a rule's first evaluation does not set its relay. *)
RelayActionOnChange(r) ==
    IF r \in enabled /\ After(r) # status[r] /\ {After(r), status[r]} # {"fresh", "clear"}
    THEN IF input[r] = "hot" THEN "on" ELSE "off"
    ELSE "none"

(* determineAction: on a change, and on the first evaluation. *)
RelayAction(r) ==
    IF r \in enabled /\ After(r) # status[r]
    THEN IF input[r] = "hot" THEN "on" ELSE "off"
    ELSE "none"

Upset == upsets < MaxUpsets /\ upsets' = upsets + 1

(* States that changed are committed to the store. When the commit fails,  *)
(* or comes after the snapshot that is taken for sleep, the store keeps    *)
(* the older states until the next change.                                 *)
PersistStates ==
    \/ <<status, last>>' = <<status, last>> /\ UNCHANGED <<kept, upsets>>
    \/ /\ <<status, last>>' # <<status, last>>
       /\ \/ kept' = [status |-> status', last |-> last'] /\ UNCHANGED upsets
          \/ Upset /\ UNCHANGED kept

(* collectPendingEvents, under the manager's mutex *)
Evaluate ==
    /\ lpc = "pass" /\ lpc' = "led"
    /\ ~Held
    /\ status' = [r \in Rules |-> After(r)]
    /\ alerts' = {r \in enabled : input[r] = "hot" /\ Due(r)}
    /\ last' = [r \in Rules |-> IF r \in alerts' THEN now
                                ELSE IF r \in enabled /\ input[r] = "ok" THEN 0 ELSE last[r]]
    /\ PersistStates
    /\ since' = [r \in Rules |-> IF r \in alerts' \/ After(r) # "triggered" THEN 0 ELSE since[r]]
    /\ slept' = slept \ (alerts' \cup {r \in enabled : input[r] = "ok"})
    /\ todo' = [r \in Rules |-> RelayAction(r)]
    /\ led' = IF \E r \in enabled : After(r) = "triggered" THEN "set" ELSE "clear"
    /\ input' = [r \in Rules |-> "none"]
    /\ UNCHANGED <<inputVars, enabled, now, ledVars, epc, want, offs, relayVars, overlap>>

(* Mutant of UpdateDisplay: nobody wants the display, and it is kept. *)
UpdateDisplayKeeps ==
    /\ lpc = "led"
    /\ IF led = "set" THEN latched' = "yes" /\ lpc' = "show" ELSE lpc' = "events" /\ UNCHANGED latched
    /\ overlap' = IF lpc' = "show" /\ epc = "show" THEN "yes" ELSE overlap
    /\ UNCHANGED <<inputVars, ruleVars, now, passVars, shown, epc, saveVars, relayVars>>

(* AlarmMatrixController::update, its critical section: a display that is  *)
(* set already is set again when its refresh is due.                       *)
UpdateDisplay ==
    /\ lpc = "led"
    /\ \/ led = "set" /\ latched' = "yes" /\ lpc' = "show"
       \/ led = "clear" /\ latched = "yes" /\ latched' = "no" /\ lpc' = "show"
       \/ (led = "set") = (latched = "yes") /\ UNCHANGED latched /\ lpc' = "events"
    /\ overlap' = IF lpc' = "show" /\ epc = "show" THEN "yes" ELSE overlap
    /\ UNCHANGED <<inputVars, ruleVars, now, passVars, shown, epc, saveVars, relayVars>>

(* ... and the call of the matrix manager after it *)
Show ==
    /\ lpc = "show" /\ lpc' = "events"
    /\ shown' = IF led = "set" THEN "yes" ELSE "no"
    /\ UNCHANGED <<inputVars, ruleVars, now, passVars, latched, epc, saveVars, relayVars, overlap>>

(* setRelayState: a full queue drops the command. An event may switch the  *)
(* relay of a rule on that has ended meanwhile.                            *)
Send(r, v) ==
    \/ /\ Len(commands) < QueueSize
       /\ commands' = Append(commands, <<r, v>>)
       /\ adrift' = IF v = "on" /\ r \notin enabled THEN adrift \cup {r} ELSE adrift \ {r}
    \/ Len(commands) = QueueSize /\ adrift' = adrift \cup {r} /\ UNCHANGED commands

HasEvent(r) == todo[r] # "none" \/ r \in alerts

(* executePendingEvents: one event, with no lock held *)
RunEvent(r) ==
    /\ lpc = "events"
    /\ HasEvent(r) /\ \A k \in Rules : k < r => ~HasEvent(k)
    /\ IF todo[r] = "none" THEN UNCHANGED <<commands, adrift>> ELSE Send(r, todo[r])
    /\ todo' = [todo EXCEPT ![r] = "none"] /\ alerts' = alerts \ {r}
    /\ UNCHANGED <<inputVars, ruleVars, now, lpc, input, led, ledVars, epc, saveVars, relay, overlap>>

EndPass ==
    /\ lpc = "events" /\ lpc' = "idle"
    /\ \A r \in Rules : ~HasEvent(r)
    /\ led' = "clear"
    /\ UNCHANGED <<inputVars, ruleVars, now, input, todo, alerts, ledVars, epc,
                   saveVars, relayVars, overlap>>

-----------------------------------------------------------------------------
(* Saving the rules: one task at a time, the settings lock is held. *)

(* updateRules takes the manager's mutex between two of the loop's passes. *)
Save(new) ==
    /\ epc = "idle" /\ epc' = "locked"
    /\ Upset
    /\ want' = new
    /\ UNCHANGED <<inputVars, ruleVars, now, lpc, passVars, ledVars, offs, relayVars,
                   overlap>>

(* The states of all rules are reset. *)
Forget ==
    /\ status' = Reset.status /\ last' = Reset.last
    /\ since' = [r \in Rules |-> 0] /\ slept' = {}

Replace ==
    /\ Held
    /\ enabled' = want
    /\ Forget

(* Triggered rules that are not among the new ones. *)
Ended == {r \in Rules \ want : status[r] = "triggered"}

(* Rules that end before a pass evaluated them, or while their event to    *)
(* switch on is pending: their relay may be on.                            *)
Unseen == {r \in enabled \ want : todo[r] = "on" \/ status[r] = "fresh"}

(* The rules are replaced and committed, the mutex is given back. *)
Apply ==
    /\ Replace
    /\ kept' = Reset
    /\ epc' = "off" /\ offs' = Ended /\ want' = {}
    /\ adrift' = adrift \cup Unseen
    /\ UNCHANGED <<inputVars, now, lpc, passVars, ledVars, upsets, commands, relay, overlap>>

(* The commit fails, relays and display are left alone, and the settings   *)
(* service rolls back by applying the rules from before, once.             *)
ApplyFails ==
    /\ Replace
    /\ adrift' = adrift \cup Unseen \cup Ended
    /\ IF epc = "locked" THEN epc' = "undo" /\ want' = enabled ELSE epc' = "idle" /\ want' = {}
    /\ UNCHANGED <<inputVars, kept, now, lpc, passVars, ledVars, offs, upsets, commands, relay,
                   overlap>>

Undo ==
    /\ epc = "undo" /\ epc' = "relocked"
    /\ UNCHANGED <<inputVars, ruleVars, now, lpc, passVars, ledVars, saveVars, relayVars, overlap>>

(* Store or file refuse the rules from before: the engine keeps the new.  *)
UndoFails ==
    /\ epc = "undo" /\ epc' = "idle"
    /\ want' = {}
    /\ UNCHANGED <<inputVars, ruleVars, now, lpc, passVars, ledVars, offs, upsets, relayVars,
                   overlap>>

SwitchOff(r) ==
    /\ epc = "off"
    /\ r \in offs /\ \A k \in offs : r <= k
    /\ Send(r, "off")
    /\ offs' = offs \ {r}
    /\ UNCHANGED <<inputVars, ruleVars, now, lpc, passVars, ledVars, epc, want, upsets,
                   relay, overlap>>

(* Mutant of ClearDisplay: the layer is cleared, the latch kept. *)
ClearDisplayOnly ==
    /\ epc = "off" /\ offs = {}
    /\ epc' = IF latched = "yes" THEN "show" ELSE "idle"
    /\ overlap' = IF latched = "yes" /\ lpc = "show" THEN "yes" ELSE overlap
    /\ UNCHANGED <<inputVars, ruleVars, now, lpc, passVars, ledVars, saveVars, relayVars>>

(* clearLatchedState, its critical section *)
ClearDisplay ==
    /\ epc = "off" /\ offs = {}
    /\ latched' = "no"
    /\ epc' = IF latched = "yes" THEN "show" ELSE "idle"
    /\ overlap' = IF latched = "yes" /\ lpc = "show" THEN "yes" ELSE overlap
    /\ UNCHANGED <<inputVars, ruleVars, now, lpc, passVars, shown, saveVars, relayVars>>

(* ... and the call of the matrix manager after it *)
Hide ==
    /\ epc = "show" /\ epc' = "idle"
    /\ shown' = "no"
    /\ UNCHANGED <<inputVars, ruleVars, now, lpc, passVars, latched, saveVars, relayVars, overlap>>

-----------------------------------------------------------------------------
(* The rules of the commands in a queue. *)
Queued(q) == {q[i][1] : i \in 1 .. Len(q)}

(* The Shelly worker carries a command out, or fails it for good. *)
Execute ==
    /\ commands # <<>> /\ commands' = Tail(commands)
    /\ \/ relay' = [relay EXCEPT ![Head(commands)[1]] = Head(commands)[2]] /\ UNCHANGED adrift
       \/ adrift' = adrift \cup ({Head(commands)[1]} \ Queued(commands')) /\ UNCHANGED relay
    /\ UNCHANGED <<inputVars, ruleVars, now, lpc, passVars, ledVars, epc, saveVars, overlap>>

-----------------------------------------------------------------------------
(* Deep sleep, begun by the main loop or at any time by its failsafe, and  *)
(* other restarts. Bound: no rules are being saved.                        *)

(* A wake brings back the states of the rules that were committed last. *)
Wake ==
    /\ status' = kept.status /\ last' = kept.last
    /\ since' = [r \in Rules |-> 0] /\ slept' = {r \in Rules : kept.last[r] # 0}
    /\ UNCHANGED kept

(* Any other restart does not, nor a wake that cannot read them. *)
WakeFresh == Forget /\ kept' \in {kept, Reset}

Restart ==
    /\ Upset
    /\ epc = "idle"
    /\ Wake \/ WakeFresh
    /\ now' = 0
    /\ latest' = [r \in Rules |-> "none"] /\ pending' = "no"
    /\ lpc' = "idle" /\ input' = latest' /\ led' = "clear"
    /\ todo' = [r \in Rules |-> "none"] /\ alerts' = {}
    /\ latched' = "no" /\ shown' = "no"
    /\ commands' = <<>>
    /\ adrift' = adrift \cup {r \in Rules : todo[r] # "none"} \cup Queued(commands)
                    \cup {r \in enabled : status'[r] \notin {"fresh", status[r]}}
    /\ UNCHANGED <<enabled, epc, want, offs, relay, overlap>>

Loop == Begin \/ Skip \/ Evaluate \/ UpdateDisplay \/ Show \/ EndPass \/ \E r \in Rules : RunEvent(r)

Saver ==
    \/ Apply \/ ApplyFails \/ Undo \/ UndoFails \/ ClearDisplay \/ Hide
    \/ \E r \in Rules : SwitchOff(r)

Next ==
    \/ \E r \in Rules : Vanish(r) \/ ReadSource(r) \/ \E v \in Readings : Submit(r, v)
    \/ Sample \/ Tick \/ Loop \/ Saver \/ Execute \/ Restart
    \/ \E new \in SUBSET Rules : Save(new)

(* The sensor task publishes a sample every few seconds. *)
Fairness ==
    WF_vars(Loop) /\ WF_vars(Saver) /\ WF_vars(Execute) /\ WF_vars(Sample)

Spec == Init /\ [][Next]_vars /\ Fairness

-----------------------------------------------------------------------------
States == [status : [Rules -> {"fresh", "clear", "triggered"}], last : [Rules -> 0 .. Turn - 1]]

(* The types of the variables. *)
TypeOK ==
    /\ latest \in [Rules -> Readings] /\ pending \in {"yes", "no"}
    /\ enabled \subseteq Rules
    /\ kept \in States
    /\ status \in [Rules -> {"fresh", "clear", "triggered"}]
    /\ last \in [Rules -> 0 .. Turn - 1] /\ now \in 0 .. Turn - 1
    /\ since \in [Rules -> 0 .. Turn - 1] /\ slept \subseteq Rules
    /\ lpc \in {"idle", "pass", "led", "show", "events"}
    /\ input \in [Rules -> Readings] /\ led \in {"set", "clear"}
    /\ todo \in [Rules -> {"none", "on", "off"}] /\ alerts \subseteq Rules
    /\ latched \in {"yes", "no"} /\ shown \in {"yes", "no"}
    /\ epc \in {"idle", "locked", "undo", "relocked", "off", "show"}
    /\ want \subseteq Rules /\ offs \subseteq Rules
    /\ upsets \in 0 .. MaxUpsets
    /\ commands \in Seq(Rules \X {"on", "off"}) /\ Len(commands) <= QueueSize
    /\ relay \in [Rules -> {"on", "off"}] /\ adrift \subseteq Rules
    /\ overlap \in {"yes", "no"}

AtRest == lpc = "idle" /\ epc = "idle" /\ commands = <<>>

(* Once everything is quiet a relay is on if its rule is triggered and off *)
(* if the rule is clear or ended, however passes, saves, failed commits and *)
(* restarts follow one another. What goes wrong sets the relay adrift no   *)
(* longer than until the next command for it is accepted: a command that   *)
(* is dropped or fails, a restart that wipes one, a wake that brings back  *)
(* another status than the rule had, a rule that ends before a pass        *)
(* evaluated it, with its event to switch on pending, or by a save whose   *)
(* commit fails.                                                           *)
RelayFollows ==
    AtRest => \A r \in Rules \ adrift :
        /\ r \notin enabled => relay[r] = "off"
        /\ r \in enabled /\ status[r] = "triggered" => relay[r] = "on"
        /\ r \in enabled /\ status[r] = "clear" => relay[r] = "off"

(* The display shows the alarm layer exactly while it is latched, once the *)
(* calls of both tasks are through, unless the two overlapped.             *)
DisplayFollows ==
    lpc # "show" /\ epc # "show" /\ overlap = "no" => shown = latched

(* A pass alerts for a hot rule exactly if the rule was not triggered, or  *)
(* the cooldown has passed since its last alert, also when millis() wraps  *)
(* in between. An alert at millis() = 0 counts as none: it is repeated. Not *)
(* so after a wake, until the next alert: millis() starts over.             *)
AlertsOnTime ==
    [][lpc = "pass" /\ lpc' = "led" => \A r \in enabled \ slept :
        input[r] = "hot" =>
            (r \in alerts' <=> \/ status[r] # "triggered" \/ last[r] = 0
                               \/ since[r] >= Cooldown)]_vars

(* A source that stays hot triggers its rule, although a pass may be       *)
(* dropped while the rules are replaced: a later sample asks for another.  *)
AlarmRaised ==
    \A r \in Rules :
        latest[r] = "hot" ~> (status[r] = "triggered" \/ latest[r] # "hot" \/ r \notin enabled)

(* A latch that no triggered rule backs does not stay: a save or a later   *)
(* pass takes it away, even when a pass set it after the save cleared it.  *)
LatchReleased ==
    latched = "yes" ~> (latched = "no" \/ \E r \in enabled : status[r] = "triggered")

=============================================================================
