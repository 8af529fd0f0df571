-------------------------- MODULE AlarmEngine_proofs --------------------------
(***************************************************************************)
(* Proofs about AlarmEngine for any number of rules and saves, any turn of *)
(* the clock and any size of the queue.                                    *)
(***************************************************************************)
EXTENDS AlarmEngine, TLAPS

(* The display is as latched, or the one task that changes it makes it so. *)
Display ==
    overlap = "no" =>
        /\ lpc # "show" \/ epc # "show"
        /\ lpc # "show" /\ epc # "show" => shown = latched
        /\ lpc = "show" => (latched = "yes" <=> led = "set")
        /\ epc = "show" => latched = "no"

(* The wrapping difference to the last alert is the time that has passed,  *)
(* unless the device slept in between.                                     *)
Timing ==
    \A r \in Rules :
        /\ last[r] # 0 => status[r] = "triggered" /\ (r \in slept \/ since[r] = Elapsed(last[r]))
        /\ kept.last[r] # 0 => kept.status[r] = "triggered"

(* Events are pending during a pass only, and fit the status of their rule; *)
(* relays are switched off during a save only, and belong to rules that    *)
(* ended.                                                                  *)
Phases ==
    /\ lpc \in {"idle", "pass"} => \A r \in Rules : todo[r] = "none"
    /\ epc # "off" => offs = {}
    /\ offs \cap enabled = {}
    /\ \A r \in enabled : /\ status[r] = "triggered" => todo[r] # "off"
                          /\ status[r] = "clear" => todo[r] # "on"

(* What relay r is once the queued commands are carried out. *)
Leads(r, v) ==
    \/ \E i \in 1 .. Len(commands) :
          commands[i] = <<r, v>> /\ \A j \in 1 .. Len(commands) : j > i => commands[j][1] # r
    \/ relay[r] = v /\ \A j \in 1 .. Len(commands) : commands[j][1] # r

(* The relay follows its rule, or what makes it follow is still to come. *)
Follows(r) ==
    todo[r] = "none" =>
        /\ r \notin enabled => r \in offs \/ Leads(r, "off")
        /\ r \in enabled /\ status[r] = "triggered" => Leads(r, "on")
        /\ r \in enabled /\ status[r] = "clear" => Leads(r, "off")
Relays == \A r \in Rules \ adrift : Follows(r)

IInv == TypeOK /\ Display /\ Timing /\ Phases /\ Relays

USE AlarmEngineAssumption

(* What Send makes of the queue. *)
LEMMA SendTypes ==
    ASSUME TypeOK, NEW r \in Rules, NEW v \in {"on", "off"}, Send(r, v)
    PROVE  /\ commands' \in Seq(Rules \X {"on", "off"}) /\ Len(commands') <= QueueSize
           /\ adrift' \subseteq Rules
<1> DEFINE Command == Rules \X {"on", "off"}
<1>1. commands \in Seq(Command) /\ Len(commands) \in Nat /\ <<r, v>> \in Command
  BY DEF TypeOK
<1>2. ASSUME Len(commands) < QueueSize, commands' = Append(commands, <<r, v>>)
      PROVE  commands' \in Seq(Command) /\ Len(commands') <= QueueSize
  <2>1. commands' \in Seq(Command) /\ Len(commands') = Len(commands) + 1
    BY <1>1, <1>2
  <2> QED
    BY <1>1, <1>2, <2>1
<1> QED
  BY <1>2 DEF TypeOK, Send

LEMMA TypeStep == TypeOK /\ [Next]_vars => TypeOK'
<1> SUFFICES ASSUME TypeOK, [Next]_vars PROVE TypeOK'
  OBVIOUS
<1> USE DEF TypeOK, inputVars, ruleVars, passVars, ledVars, saveVars, relayVars
<1>1. ASSUME NEW r \in Rules, NEW v \in Readings, Submit(r, v) PROVE TypeOK'
  BY <1>1 DEF Submit
<1>2. ASSUME Sample PROVE TypeOK'
  BY <1>2 DEF Sample
<1>3. ASSUME NEW r \in Rules, Vanish(r) PROVE TypeOK'
  BY <1>3 DEF Vanish, Readings
<1>4. ASSUME Tick PROVE TypeOK'
  BY <1>4 DEF Tick
<1>5. ASSUME Begin PROVE TypeOK'
  BY <1>5 DEF Begin
<1>6. ASSUME Skip PROVE TypeOK'
  BY <1>6 DEF Skip, Readings
<1>7. ASSUME Evaluate PROVE TypeOK'
<2>1. /\ todo' \in [Rules -> {"none", "on", "off"}] /\ alerts' \subseteq Rules
      /\ led' \in {"set", "clear"} /\ input' \in [Rules -> Readings] /\ lpc' = "led"
  BY <1>7 DEF Evaluate, RelayAction, Readings
<2>2. status' \in [Rules -> {"fresh", "clear", "triggered"}]
  <3>1. \A r \in Rules : After(r) \in {"fresh", "clear", "triggered"}
    BY DEF After
  <3> QED
    BY <1>7, <3>1 DEF Evaluate
<2>3. last' \in [Rules -> 0 .. Turn - 1] /\ since' \in [Rules -> 0 .. Turn - 1]
  BY <1>7 DEF Evaluate
<2>4. kept' \in States
  <3>1. kept' = kept \/ kept' = [status |-> status', last |-> last']
    BY <1>7 DEF Evaluate, PersistStates
  <3>2. [status |-> status', last |-> last'] \in States
    BY <2>2, <2>3 DEF States
  <3> QED
    BY <3>1, <3>2
<2>5. upsets' \in 0 .. MaxUpsets
  BY <1>7 DEF Evaluate, PersistStates, Upset
<2> QED
  BY <1>7, <2>1, <2>2, <2>3, <2>4, <2>5 DEF Evaluate
<1>8. ASSUME UpdateDisplay PROVE TypeOK'
  BY <1>8 DEF UpdateDisplay
<1>9. ASSUME Show PROVE TypeOK'
  BY <1>9 DEF Show
<1>10. ASSUME NEW r \in Rules, RunEvent(r) PROVE TypeOK'
  BY <1>10, SendTypes DEF RunEvent
<1>11. ASSUME EndPass PROVE TypeOK'
  BY <1>11 DEF EndPass
<1>12. ASSUME NEW new \in SUBSET Rules, Save(new) PROVE TypeOK'
  BY <1>12 DEF Save, Upset
<1>13. ASSUME Apply PROVE TypeOK'
  BY <1>13 DEF Apply, Replace, Forget, Ended, Unseen, Reset, States
<1>14. ASSUME ApplyFails PROVE TypeOK'
  BY <1>14 DEF ApplyFails, Replace, Forget, Ended, Unseen, Reset
<1>15. ASSUME Undo PROVE TypeOK'
  BY <1>15 DEF Undo
<1>16. ASSUME UndoFails PROVE TypeOK'
  BY <1>16 DEF UndoFails
<1>17. ASSUME NEW r \in Rules, SwitchOff(r) PROVE TypeOK'
  BY <1>17, SendTypes DEF SwitchOff
<1>18. ASSUME ClearDisplay PROVE TypeOK'
  BY <1>18 DEF ClearDisplay
<1>19. ASSUME Hide PROVE TypeOK'
  BY <1>19 DEF Hide
<1>20. ASSUME Execute PROVE TypeOK'
<2>1. commands' \in Seq(Rules \X {"on", "off"}) /\ Len(commands') <= QueueSize
      /\ Head(commands) \in Rules \X {"on", "off"}
  <3> DEFINE Command == Rules \X {"on", "off"}
  <3>1. commands \in Seq(Command) /\ commands # <<>> /\ commands' = Tail(commands)
    BY <1>20 DEF Execute
  <3>2. Tail(commands) \in Seq(Command) /\ Head(commands) \in Command
        /\ Len(Tail(commands)) = Len(commands) - 1 /\ Len(commands) \in Nat
    BY <3>1
  <3> QED
    BY <3>1, <3>2
<2>2. Head(commands)[1] \in Rules /\ Head(commands)[2] \in {"on", "off"}
  BY <2>1
<2>3. relay' \in [Rules -> {"on", "off"}] /\ adrift' \subseteq Rules
  BY <1>20, <2>2 DEF Execute
<2>4. UNCHANGED <<inputVars, ruleVars, now, lpc, passVars, ledVars, epc, saveVars, overlap>>
  BY <1>20 DEF Execute
<2> QED
  BY <2>1, <2>3, <2>4
<1>21. ASSUME Restart PROVE TypeOK'
<2>1. /\ latest' \in [Rules -> Readings] /\ input' \in [Rules -> Readings]
      /\ todo' \in [Rules -> {"none", "on", "off"}]
      /\ commands' = <<>> /\ commands' \in Seq(Rules \X {"on", "off"}) /\ Len(commands') = 0
  BY <1>21 DEF Restart, Readings
<2>2. adrift' \subseteq Rules
  <3>1. Queued(commands) \subseteq Rules
    BY DEF Queued
  <3> QED
    BY <1>21, <3>1 DEF Restart
<2>3. /\ status' \in [Rules -> {"fresh", "clear", "triggered"}] /\ slept' \subseteq Rules
      /\ last' \in [Rules -> 0 .. Turn - 1] /\ since' \in [Rules -> 0 .. Turn - 1]
      /\ kept' \in States
      /\ now' = 0
  <3>1. 0 \in 0 .. Turn - 1 /\ now' = 0
    BY <1>21 DEF Restart
  <3>2. CASE WakeFresh
    BY <3>1, <3>2 DEF WakeFresh, Forget, Reset, States
  <3>3. CASE Wake
    BY <3>1, <3>3 DEF Wake, States
  <3> QED
    BY <1>21, <3>2, <3>3 DEF Restart
<2> QED
  BY <1>21, <2>1, <2>2, <2>3 DEF Restart, Upset
<1>23. ASSUME NEW r \in Rules, ReadSource(r) PROVE TypeOK'
  BY <1>23 DEF ReadSource, Readings
<1>22. CASE UNCHANGED vars
  BY <1>22 DEF vars
<1> QED
  BY <1>1, <1>2, <1>3, <1>4, <1>5, <1>6, <1>7, <1>8, <1>9, <1>10, <1>11, <1>12, <1>13, <1>14, <1>15, <1>16, <1>17, <1>18, <1>19, <1>20, <1>21, <1>22, <1>23 DEF Next, Loop, Saver

LEMMA DisplayStep == TypeOK /\ Display /\ [Next]_vars => Display'
<1> SUFFICES ASSUME TypeOK, Display, [Next]_vars PROVE Display'
  OBVIOUS
<1> USE DEF Display, inputVars, ruleVars, passVars, ledVars, saveVars, relayVars
<1>1. ASSUME NEW r \in Rules, NEW v \in Readings, Submit(r, v) PROVE Display'
  BY <1>1 DEF Submit
<1>2. ASSUME Sample PROVE Display'
  BY <1>2 DEF Sample
<1>3. ASSUME NEW r \in Rules, Vanish(r) PROVE Display'
  BY <1>3 DEF Vanish
<1>4. ASSUME Tick PROVE Display'
  BY <1>4 DEF Tick
<1>5. ASSUME Begin PROVE Display'
  BY <1>5 DEF Begin
<1>6. ASSUME Skip PROVE Display'
  BY <1>6 DEF Skip, Held
<1>7. ASSUME Evaluate PROVE Display'
  BY <1>7 DEF Evaluate, Held
<1>8. ASSUME UpdateDisplay PROVE Display'
  BY <1>8 DEF UpdateDisplay, TypeOK
<1>9. ASSUME Show PROVE Display'
  BY <1>9 DEF Show, TypeOK
<1>10. ASSUME NEW r \in Rules, RunEvent(r) PROVE Display'
  BY <1>10 DEF RunEvent
<1>11. ASSUME EndPass PROVE Display'
  BY <1>11 DEF EndPass
<1>12. ASSUME NEW new \in SUBSET Rules, Save(new) PROVE Display'
  BY <1>12 DEF Save, Upset
<1>13. ASSUME Apply PROVE Display'
  BY <1>13 DEF Apply, Replace, Forget, Reset, Held
<1>14. ASSUME ApplyFails PROVE Display'
  BY <1>14 DEF ApplyFails, Replace, Forget, Reset, Held
<1>15. ASSUME Undo PROVE Display'
  BY <1>15 DEF Undo
<1>16. ASSUME UndoFails PROVE Display'
  BY <1>16 DEF UndoFails
<1>17. ASSUME NEW r \in Rules, SwitchOff(r) PROVE Display'
  BY <1>17 DEF SwitchOff
<1>18. ASSUME ClearDisplay PROVE Display'
  BY <1>18 DEF ClearDisplay, TypeOK
<1>19. ASSUME Hide PROVE Display'
  BY <1>19 DEF Hide, TypeOK
<1>20. ASSUME Execute PROVE Display'
  BY <1>20 DEF Execute
<1>21. ASSUME Restart PROVE Display'
  BY <1>21 DEF Restart, Wake, WakeFresh, Forget, Reset, Upset
<1>23. ASSUME NEW r \in Rules, ReadSource(r) PROVE Display'
  BY <1>23 DEF ReadSource
<1>22. CASE UNCHANGED vars
  BY <1>22 DEF vars
<1> QED
  BY <1>1, <1>2, <1>3, <1>4, <1>5, <1>6, <1>7, <1>8, <1>9, <1>10, <1>11, <1>12, <1>13, <1>14, <1>15, <1>16, <1>17, <1>18, <1>19, <1>20, <1>21, <1>22, <1>23 DEF Next, Loop, Saver

(* The clock of the main loop counts up and starts again at 0. *)
LEMMA ClockTick == now \in 0 .. Turn - 1 => (now + 1) % Turn = IF now = Turn - 1 THEN 0 ELSE now + 1
  OBVIOUS

LEMMA TimingStep == TypeOK /\ Timing /\ [Next]_vars => Timing'
<1> SUFFICES ASSUME TypeOK, Timing, [Next]_vars PROVE Timing'
  OBVIOUS
<1> USE DEF Timing, Elapsed, inputVars, ruleVars, passVars, ledVars, saveVars, relayVars
<1>1. ASSUME NEW r \in Rules, NEW v \in Readings, Submit(r, v) PROVE Timing'
  BY <1>1 DEF Submit
<1>2. ASSUME Sample PROVE Timing'
  BY <1>2 DEF Sample
<1>3. ASSUME NEW r \in Rules, Vanish(r) PROVE Timing'
  BY <1>3 DEF Vanish
<1>4. ASSUME Tick PROVE Timing'
<2> SUFFICES ASSUME NEW r \in Rules, last'[r] # 0
                PROVE  status'[r] = "triggered" /\ (r \in slept' \/ since'[r] = Elapsed(last[r])')
  BY <1>4 DEF Tick
<2>1. /\ last' = last /\ status' = status /\ status[r] = "triggered" /\ slept' = slept
      /\ r \in slept \/ since[r] = IF now >= last[r] THEN now - last[r] ELSE (Turn - 1 - last[r]) + now + 1
      /\ since[r] < Turn - 1 /\ since'[r] = since[r] + 1
  BY <1>4 DEF Tick
<2>2. /\ last[r] \in 0 .. Turn - 1 /\ now \in 0 .. Turn - 1 /\ since[r] \in 0 .. Turn - 1
      /\ now' = IF now = Turn - 1 THEN 0 ELSE now + 1
  BY <1>4, ClockTick DEF Tick, TypeOK
<2> QED
  BY <2>1, <2>2
<1>5. ASSUME Begin PROVE Timing'
  BY <1>5 DEF Begin
<1>6. ASSUME Skip PROVE Timing'
  BY <1>6 DEF Skip, Held
<1>7. ASSUME Evaluate PROVE Timing'
<2> SUFFICES ASSUME NEW r \in Rules, last'[r] # 0
                PROVE  status'[r] = "triggered" /\ (r \in slept' \/ since'[r] = Elapsed(last'[r]))
  BY <1>7 DEF Evaluate, PersistStates
<2>1. /\ last[r] \in 0 .. Turn - 1 /\ now \in 0 .. Turn - 1 /\ since[r] \in 0 .. Turn - 1
      /\ now' = now /\ enabled \subseteq Rules
  BY <1>7 DEF Evaluate, TypeOK
<2>2. /\ status'[r] = After(r)
      /\ last'[r] = IF r \in alerts' THEN now
                    ELSE IF r \in enabled /\ input[r] = "ok" THEN 0 ELSE last[r]
      /\ since'[r] = IF r \in alerts' \/ After(r) # "triggered" THEN 0 ELSE since[r]
      /\ r \in alerts' => r \in enabled /\ input[r] = "hot"
      /\ slept' = slept \ (alerts' \cup {k \in enabled : input[k] = "ok"})
  BY <1>7 DEF Evaluate
<2>3. CASE r \in alerts'
  <3>1. After(r) = "triggered" /\ last'[r] = now /\ since'[r] = 0
    BY <2>2, <2>3 DEF After
  <3> QED
    BY <2>1, <2>2, <3>1
<2>4. CASE r \notin alerts'
  <3>1. last'[r] = last[r] /\ last[r] # 0 /\ ~(r \in enabled /\ input[r] = "ok")
    BY <2>2, <2>4
  <3>2. status[r] = "triggered" /\ (r \in slept \/ since[r] = Elapsed(last[r]))
    BY <3>1
  <3>3. After(r) = "triggered" /\ since'[r] = since[r]
    BY <2>2, <2>4, <3>1, <3>2 DEF After
  <3>4. r \in slept => r \in slept'
    BY <2>2, <2>4, <3>1
  <3> QED
    BY <2>1, <2>2, <3>1, <3>2, <3>3, <3>4
<2> QED
  BY <2>3, <2>4
<1>8. ASSUME UpdateDisplay PROVE Timing'
  BY <1>8 DEF UpdateDisplay
<1>9. ASSUME Show PROVE Timing'
  BY <1>9 DEF Show
<1>10. ASSUME NEW r \in Rules, RunEvent(r) PROVE Timing'
  BY <1>10 DEF RunEvent
<1>11. ASSUME EndPass PROVE Timing'
  BY <1>11 DEF EndPass
<1>12. ASSUME NEW new \in SUBSET Rules, Save(new) PROVE Timing'
  BY <1>12 DEF Save, Upset
<1>13. ASSUME Apply PROVE Timing'
  BY <1>13 DEF Apply, Replace, Forget, Reset
<1>14. ASSUME ApplyFails PROVE Timing'
  BY <1>14 DEF ApplyFails, Replace, Forget, Reset
<1>15. ASSUME Undo PROVE Timing'
  BY <1>15 DEF Undo
<1>16. ASSUME UndoFails PROVE Timing'
  BY <1>16 DEF UndoFails
<1>17. ASSUME NEW r \in Rules, SwitchOff(r) PROVE Timing'
  BY <1>17 DEF SwitchOff
<1>18. ASSUME ClearDisplay PROVE Timing'
  BY <1>18 DEF ClearDisplay
<1>19. ASSUME Hide PROVE Timing'
  BY <1>19 DEF Hide
<1>20. ASSUME Execute PROVE Timing'
  BY <1>20 DEF Execute
<1>21. ASSUME Restart PROVE Timing'
  BY <1>21 DEF Restart, Wake, WakeFresh, Forget, Reset, Upset
<1>23. ASSUME NEW r \in Rules, ReadSource(r) PROVE Timing'
  BY <1>23 DEF ReadSource
<1>22. CASE UNCHANGED vars
  BY <1>22 DEF vars
<1> QED
  BY <1>1, <1>2, <1>3, <1>4, <1>5, <1>6, <1>7, <1>8, <1>9, <1>10, <1>11, <1>12, <1>13, <1>14, <1>15, <1>16, <1>17, <1>18, <1>19, <1>20, <1>21, <1>22, <1>23 DEF Next, Loop, Saver

LEMMA PhasesStep == TypeOK /\ Phases /\ [Next]_vars => Phases'
<1> SUFFICES ASSUME TypeOK, Phases, [Next]_vars PROVE Phases'
  OBVIOUS
<1> USE DEF Phases, inputVars, ruleVars, passVars, ledVars, saveVars, relayVars
<1>1. ASSUME NEW r \in Rules, NEW v \in Readings, Submit(r, v) PROVE Phases'
  BY <1>1 DEF Submit
<1>2. ASSUME Sample PROVE Phases'
  BY <1>2 DEF Sample
<1>3. ASSUME NEW r \in Rules, Vanish(r) PROVE Phases'
  BY <1>3 DEF Vanish
<1>4. ASSUME Tick PROVE Phases'
  BY <1>4 DEF Tick
<1>5. ASSUME Begin PROVE Phases'
  BY <1>5 DEF Begin
<1>6. ASSUME Skip PROVE Phases'
  BY <1>6 DEF Skip, Held
<1>7. ASSUME Evaluate PROVE Phases'
  BY <1>7 DEF Evaluate, Held, RelayAction, After, TypeOK
<1>8. ASSUME UpdateDisplay PROVE Phases'
  BY <1>8 DEF UpdateDisplay
<1>9. ASSUME Show PROVE Phases'
  BY <1>9 DEF Show
<1>10. ASSUME NEW r \in Rules, RunEvent(r) PROVE Phases'
  BY <1>10 DEF RunEvent
<1>11. ASSUME EndPass PROVE Phases'
  BY <1>11 DEF EndPass, HasEvent
<1>12. ASSUME NEW new \in SUBSET Rules, Save(new) PROVE Phases'
  BY <1>12 DEF Save, Upset
<1>13. ASSUME Apply PROVE Phases'
  BY <1>13 DEF Apply, Replace, Forget, Reset, Held, Ended, TypeOK
<1>14. ASSUME ApplyFails PROVE Phases'
  BY <1>14 DEF ApplyFails, Replace, Forget, Reset, Held, TypeOK
<1>15. ASSUME Undo PROVE Phases'
  BY <1>15 DEF Undo
<1>16. ASSUME UndoFails PROVE Phases'
  BY <1>16 DEF UndoFails
<1>17. ASSUME NEW r \in Rules, SwitchOff(r) PROVE Phases'
  BY <1>17 DEF SwitchOff
<1>18. ASSUME ClearDisplay PROVE Phases'
  BY <1>18 DEF ClearDisplay
<1>19. ASSUME Hide PROVE Phases'
  BY <1>19 DEF Hide
<1>20. ASSUME Execute PROVE Phases'
  BY <1>20 DEF Execute
<1>21. ASSUME Restart PROVE Phases'
  BY <1>21 DEF Restart, Wake, WakeFresh, Forget, Reset, Upset, TypeOK
<1>23. ASSUME NEW r \in Rules, ReadSource(r) PROVE Phases'
  BY <1>23 DEF ReadSource
<1>22. CASE UNCHANGED vars
  BY <1>22 DEF vars
<1> QED
  BY <1>1, <1>2, <1>3, <1>4, <1>5, <1>6, <1>7, <1>8, <1>9, <1>10, <1>11, <1>12, <1>13, <1>14, <1>15, <1>16, <1>17, <1>18, <1>19, <1>20, <1>21, <1>22, <1>23 DEF Next, Loop, Saver

(* The commands decide what a relay is going to be. *)
LEMMA LeadsSame ==
    ASSUME UNCHANGED <<commands, relay>>
    PROVE  \A r \in Rules, v \in {"on", "off"} : Leads(r, v)' <=> Leads(r, v)
  BY DEF Leads

(* The command sent last does, those for other relays do not count. *)
LEMMA SendLeads ==
    ASSUME TypeOK, NEW r \in Rules, NEW v \in {"on", "off"}, Send(r, v), UNCHANGED relay
    PROVE  /\ adrift \subseteq adrift' \cup {r}
           /\ r \in adrift' \/ (Leads(r, v)' /\ (v = "off" \/ r \in enabled))
           /\ \A k \in Rules \ {r}, w \in {"on", "off"} : Leads(k, w) => Leads(k, w)'
<1>1. CASE adrift' = adrift \cup {r} /\ UNCHANGED commands
  BY <1>1, LeadsSame
<1>2. CASE /\ commands' = Append(commands, <<r, v>>)
           /\ adrift' = IF v = "on" /\ r \notin enabled THEN adrift \cup {r} ELSE adrift \ {r}
  <2>1. /\ Len(commands) \in Nat /\ Len(commands') = Len(commands) + 1
        /\ commands'[Len(commands) + 1] = <<r, v>>
        /\ \A i \in 1 .. Len(commands) : commands'[i] = commands[i]
    BY <1>2 DEF TypeOK
  <2>2. Leads(r, v)'
    BY <2>1 DEF Leads
  <2>3. ASSUME NEW k \in Rules \ {r}, NEW w \in {"on", "off"}, Leads(k, w) PROVE Leads(k, w)'
    <3>1. CASE relay[k] = w /\ \A j \in 1 .. Len(commands) : commands[j][1] # k
      <4>1. \A j \in 1 .. Len(commands') : commands'[j][1] # k
        BY <2>1, <3>1
      <4> QED
        BY <3>1, <4>1 DEF Leads
    <3>2. ASSUME NEW i \in 1 .. Len(commands), commands[i] = <<k, w>>,
                 \A j \in 1 .. Len(commands) : j > i => commands[j][1] # k
          PROVE  Leads(k, w)'
      <4>1. i \in 1 .. Len(commands') /\ commands'[i] = <<k, w>>
        BY <2>1, <3>2
      <4>2. ASSUME NEW j \in 1 .. Len(commands'), j > i PROVE commands'[j][1] # k
        <5>1. CASE j = Len(commands) + 1
          BY <2>1, <2>3, <5>1
        <5>2. CASE j # Len(commands) + 1
          <6>1. j \in 1 .. Len(commands) /\ commands'[j] = commands[j]
            BY <2>1, <5>2
          <6> QED
            BY <3>2, <4>2, <6>1
        <5> QED
          BY <5>1, <5>2
      <4> QED
        BY <4>1, <4>2 DEF Leads
    <3> QED
      BY <2>3, <3>1, <3>2 DEF Leads
  <2> QED
    BY <1>2, <2>2, <2>3
<1> QED
  BY <1>1, <1>2 DEF Send

(* A command that is carried out makes true what it led to. *)
LEMMA ExecuteLeads ==
    ASSUME TypeOK, Execute, NEW k \in Rules \ adrift', NEW v \in {"on", "off"}, Leads(k, v)
    PROVE  Leads(k, v)'
<1>1. /\ Len(commands) \in Nat \ {0} /\ Len(commands') = Len(commands) - 1
      /\ commands[1] = Head(commands)
      /\ \A i \in 1 .. Len(commands) - 1 : commands'[i] = commands[i + 1]
  BY DEF Execute, TypeOK
<1>2. /\ relay \in [Rules -> {"on", "off"}]
      /\ commands[1][1] # k => relay'[k] = relay[k]
      /\ commands[1][1] = k => relay'[k] = commands[1][2] \/ k \in Queued(commands')
  <2>1. CASE relay' = [relay EXCEPT ![Head(commands)[1]] = Head(commands)[2]]
    BY <1>1, <2>1 DEF TypeOK
  <2>2. CASE adrift' = adrift \cup ({Head(commands)[1]} \ Queued(commands')) /\ UNCHANGED relay
    BY <1>1, <2>2 DEF TypeOK
  <2> QED
    BY <2>1, <2>2 DEF Execute
<1>3. ASSUME NEW i \in 1 .. Len(commands), commands[i] = <<k, v>>,
             \A j \in 1 .. Len(commands) : j > i => commands[j][1] # k
      PROVE  Leads(k, v)'
  <2>1. CASE i = 1
    <3>1. \A j \in 1 .. Len(commands') : commands'[j][1] # k
      BY <1>1, <1>3, <2>1
    <3>2. relay'[k] = v
      BY <1>2, <1>3, <2>1, <3>1 DEF Queued
    <3> QED
      BY <3>1, <3>2 DEF Leads
  <2>2. CASE i > 1
    <3>1. i - 1 \in 1 .. Len(commands') /\ commands'[i - 1] = <<k, v>>
      BY <1>1, <1>3, <2>2
    <3>2. \A j \in 1 .. Len(commands') : j > i - 1 => commands'[j][1] # k
      BY <1>1, <1>3, <2>2
    <3> QED
      BY <3>1, <3>2 DEF Leads
  <2> QED
    BY <2>1, <2>2
<1>4. CASE relay[k] = v /\ \A j \in 1 .. Len(commands) : commands[j][1] # k
  <2>1. relay'[k] = v
    <3>1. commands[1][1] # k
      BY <1>1, <1>4
    <3> QED
      BY <1>2, <1>4, <3>1
  <2>2. ASSUME NEW j \in 1 .. Len(commands')
        PROVE  commands'[j][1] # k
    <3>1. j + 1 \in 1 .. Len(commands) /\ commands'[j] = commands[j + 1]
      BY <1>1
    <3> QED
      BY <1>4, <3>1
  <2> QED
    BY <2>1, <2>2 DEF Leads
<1> QED
  BY <1>3, <1>4 DEF Leads

LEMMA RelaysStep == TypeOK /\ Phases /\ Relays /\ [Next]_vars => Relays'
<1> SUFFICES ASSUME TypeOK, Phases, Relays, [Next]_vars PROVE Relays'
  OBVIOUS
<1> USE DEF Relays, Follows, TypeOK, inputVars, ruleVars, passVars, ledVars, saveVars, relayVars
<1>1. ASSUME NEW r \in Rules, NEW v \in Readings, Submit(r, v) PROVE Relays'
<2>1. UNCHANGED <<commands, relay>>
  BY <1>1 DEF Submit
<2>2. \A k \in Rules, w \in {"on", "off"} : Leads(k, w)' <=> Leads(k, w)
  BY <2>1, LeadsSame
<2> QED
  BY <1>1, <2>2 DEF Submit
<1>2. ASSUME Sample PROVE Relays'
<2>1. UNCHANGED <<commands, relay>>
  BY <1>2 DEF Sample
<2>2. \A k \in Rules, w \in {"on", "off"} : Leads(k, w)' <=> Leads(k, w)
  BY <2>1, LeadsSame
<2> QED
  BY <1>2, <2>2 DEF Sample
<1>3. ASSUME NEW r \in Rules, Vanish(r) PROVE Relays'
<2>1. UNCHANGED <<commands, relay>>
  BY <1>3 DEF Vanish
<2>2. \A k \in Rules, w \in {"on", "off"} : Leads(k, w)' <=> Leads(k, w)
  BY <2>1, LeadsSame
<2> QED
  BY <1>3, <2>2 DEF Vanish
<1>4. ASSUME Tick PROVE Relays'
<2>1. UNCHANGED <<commands, relay>>
  BY <1>4 DEF Tick
<2>2. \A k \in Rules, w \in {"on", "off"} : Leads(k, w)' <=> Leads(k, w)
  BY <2>1, LeadsSame
<2> QED
  BY <1>4, <2>2 DEF Tick
<1>5. ASSUME Begin PROVE Relays'
<2>1. UNCHANGED <<commands, relay>>
  BY <1>5 DEF Begin
<2>2. \A k \in Rules, w \in {"on", "off"} : Leads(k, w)' <=> Leads(k, w)
  BY <2>1, LeadsSame
<2> QED
  BY <1>5, <2>2 DEF Begin
<1>6. ASSUME Skip PROVE Relays'
<2>1. UNCHANGED <<commands, relay>>
  BY <1>6 DEF Skip
<2>2. \A k \in Rules, w \in {"on", "off"} : Leads(k, w)' <=> Leads(k, w)
  BY <2>1, LeadsSame
<2> QED
  BY <1>6, <2>2 DEF Skip, Held
<1>7. ASSUME Evaluate PROVE Relays'
<2>1. UNCHANGED <<commands, relay>>
  BY <1>7 DEF Evaluate
<2>2. \A r \in Rules, v \in {"on", "off"} : Leads(r, v)' <=> Leads(r, v)
  BY <2>1, LeadsSame
<2> SUFFICES ASSUME NEW r \in Rules \ adrift PROVE Follows(r)'
  BY <1>7 DEF Evaluate
<2>3. todo[r] = "none" /\ todo'[r] = RelayAction(r) /\ status'[r] = After(r) /\ r \in Rules
  BY <1>7 DEF Evaluate, Phases
<2>4. CASE r \notin enabled
  BY <1>7, <2>2, <2>3, <2>4 DEF Evaluate, RelayAction
<2>5. CASE r \in enabled /\ After(r) # status[r]
  <3>1. todo'[r] = IF After(r) = "triggered" THEN "on" ELSE "off"
    BY <2>3, <2>5 DEF RelayAction, After
  <3>2. enabled' = enabled
    BY <1>7 DEF Evaluate
  <3> QED
    BY <2>3, <2>5, <3>1, <3>2
<2>6. CASE r \in enabled /\ After(r) = status[r]
  <3>1. todo'[r] = "none" /\ enabled' = enabled /\ offs' = offs
    BY <1>7, <2>3, <2>6 DEF RelayAction, Evaluate
  <3> QED
    BY <2>2, <2>3, <2>6, <3>1
<2> QED
  BY <2>4, <2>5, <2>6
<1>8. ASSUME UpdateDisplay PROVE Relays'
<2>1. UNCHANGED <<commands, relay>>
  BY <1>8 DEF UpdateDisplay
<2>2. \A k \in Rules, w \in {"on", "off"} : Leads(k, w)' <=> Leads(k, w)
  BY <2>1, LeadsSame
<2> QED
  BY <1>8, <2>2 DEF UpdateDisplay
<1>9. ASSUME Show PROVE Relays'
<2>1. UNCHANGED <<commands, relay>>
  BY <1>9 DEF Show
<2>2. \A k \in Rules, w \in {"on", "off"} : Leads(k, w)' <=> Leads(k, w)
  BY <2>1, LeadsSame
<2> QED
  BY <1>9, <2>2 DEF Show
<1>10. ASSUME NEW r \in Rules, RunEvent(r) PROVE Relays'
<2>1. todo[r] # "none" => Send(r, todo[r])
  BY <1>10 DEF RunEvent
<2>2. /\ todo' = [todo EXCEPT ![r] = "none"]
      /\ UNCHANGED <<enabled, status, offs, relay>>
  BY <1>10 DEF RunEvent
<2>3. CASE todo[r] = "none"
  <3>1. UNCHANGED <<commands, relay, adrift>>
    BY <1>10, <2>2, <2>3 DEF RunEvent
  <3>2. \A k \in Rules, v \in {"on", "off"} : Leads(k, v)' <=> Leads(k, v)
    BY <3>1, LeadsSame
  <3> QED
    BY <2>2, <2>3, <3>1, <3>2
<2>4. ASSUME NEW v \in {"on", "off"}, todo[r] = v PROVE Relays'
  <3>1. /\ adrift \subseteq adrift' \cup {r}
        /\ r \in adrift' \/ (Leads(r, v)' /\ (v = "off" \/ r \in enabled))
        /\ \A k \in Rules \ {r}, w \in {"on", "off"} : Leads(k, w) => Leads(k, w)'
    BY <2>1, <2>2, <2>4, SendLeads
  <3>2. r \in enabled => /\ status[r] = "triggered" => v = "on"
                         /\ status[r] = "clear" => v = "off"
    BY <2>4 DEF Phases
  <3> QED
    BY <2>2, <2>4, <3>1, <3>2
<2> QED
  BY <2>3, <2>4
<1>11. ASSUME EndPass PROVE Relays'
<2>1. UNCHANGED <<commands, relay>>
  BY <1>11 DEF EndPass
<2>2. \A k \in Rules, w \in {"on", "off"} : Leads(k, w)' <=> Leads(k, w)
  BY <2>1, LeadsSame
<2> QED
  BY <1>11, <2>2 DEF EndPass
<1>12. ASSUME NEW new \in SUBSET Rules, Save(new) PROVE Relays'
<2>1. UNCHANGED <<commands, relay>>
  BY <1>12 DEF Save, Upset
<2>2. \A k \in Rules, w \in {"on", "off"} : Leads(k, w)' <=> Leads(k, w)
  BY <2>1, LeadsSame
<2> QED
  BY <1>12, <2>2 DEF Save, Upset
<1>13. ASSUME Apply PROVE Relays'
<2>1. UNCHANGED <<commands, relay>>
  BY <1>13 DEF Apply
<2>2. \A k \in Rules, w \in {"on", "off"} : Leads(k, w)' <=> Leads(k, w)
  BY <2>1, LeadsSame
<2> QED
  BY <1>13, <2>2 DEF Apply, Replace, Forget, Reset, Held, Ended, Unseen, Phases
<1>14. ASSUME ApplyFails PROVE Relays'
<2>1. UNCHANGED <<commands, relay>>
  BY <1>14 DEF ApplyFails
<2>2. \A k \in Rules, w \in {"on", "off"} : Leads(k, w)' <=> Leads(k, w)
  BY <2>1, LeadsSame
<2> QED
  BY <1>14, <2>2 DEF ApplyFails, Replace, Forget, Reset, Held, Ended, Unseen, Phases
<1>15. ASSUME Undo PROVE Relays'
<2>1. UNCHANGED <<commands, relay>>
  BY <1>15 DEF Undo
<2>2. \A k \in Rules, w \in {"on", "off"} : Leads(k, w)' <=> Leads(k, w)
  BY <2>1, LeadsSame
<2> QED
  BY <1>15, <2>2 DEF Undo
<1>16. ASSUME UndoFails PROVE Relays'
<2>1. UNCHANGED <<commands, relay>>
  BY <1>16 DEF UndoFails
<2>2. \A k \in Rules, w \in {"on", "off"} : Leads(k, w)' <=> Leads(k, w)
  BY <2>1, LeadsSame
<2> QED
  BY <1>16, <2>2 DEF UndoFails
<1>17. ASSUME NEW r \in Rules, SwitchOff(r) PROVE Relays'
<2>1. /\ Send(r, "off") /\ r \in offs /\ offs' = offs \ {r}
      /\ UNCHANGED <<todo, enabled, status, relay>>
  BY <1>17 DEF SwitchOff
<2>2. /\ adrift \subseteq adrift' \cup {r} /\ (r \in adrift' \/ Leads(r, "off")')
      /\ \A k \in Rules \ {r}, w \in {"on", "off"} : Leads(k, w) => Leads(k, w)'
  BY <2>1, SendLeads
<2> QED
  BY <2>1, <2>2 DEF Phases
<1>18. ASSUME ClearDisplay PROVE Relays'
<2>1. UNCHANGED <<commands, relay>>
  BY <1>18 DEF ClearDisplay
<2>2. \A k \in Rules, w \in {"on", "off"} : Leads(k, w)' <=> Leads(k, w)
  BY <2>1, LeadsSame
<2> QED
  BY <1>18, <2>2 DEF ClearDisplay
<1>19. ASSUME Hide PROVE Relays'
<2>1. UNCHANGED <<commands, relay>>
  BY <1>19 DEF Hide
<2>2. \A k \in Rules, w \in {"on", "off"} : Leads(k, w)' <=> Leads(k, w)
  BY <2>1, LeadsSame
<2> QED
  BY <1>19, <2>2 DEF Hide
<1>20. ASSUME Execute PROVE Relays'
<2>1. \A k \in Rules \ adrift', v \in {"on", "off"} : Leads(k, v) => Leads(k, v)'
  BY <1>20, ExecuteLeads
<2>2. adrift \subseteq adrift' /\ UNCHANGED <<todo, enabled, status, offs>>
  BY <1>20 DEF Execute
<2> QED
  BY <2>1, <2>2
<1>21. ASSUME Restart PROVE Relays'
<2> SUFFICES ASSUME NEW r \in Rules \ adrift' PROVE Follows(r)'
  OBVIOUS
<2>1. /\ r \in Rules \ adrift /\ todo[r] = "none" /\ offs = {}
      /\ \A j \in 1 .. Len(commands) : commands[j][1] # r
      /\ r \in enabled => status'[r] \in {"fresh", status[r]}
  <3>1. adrift' = adrift \cup {k \in Rules : todo[k] # "none"} \cup Queued(commands)
                      \cup {k \in enabled : status'[k] \notin {"fresh", status[k]}}
    BY <1>21 DEF Restart
  <3>2. offs = {}
    BY <1>21 DEF Restart, Phases
  <3>3. r \notin Queued(commands)
    BY <3>1
  <3>4. \A j \in 1 .. Len(commands) : commands[j][1] # r
    BY <3>3 DEF Queued
  <3> QED
    BY <3>1, <3>2, <3>4
<2>2. \A v \in {"on", "off"} : Leads(r, v) => Leads(r, v)'
  <3>1. commands' = <<>> /\ relay' = relay
    BY <1>21 DEF Restart
  <3>2. \A j \in 1 .. Len(commands') : FALSE
    BY <3>1
  <3> QED
    BY <2>1, <3>1, <3>2 DEF Leads
<2>3. enabled' = enabled /\ offs' = offs
  BY <1>21 DEF Restart
<2> QED
  BY <2>1, <2>2, <2>3
<1>23. ASSUME NEW r \in Rules, ReadSource(r) PROVE Relays'
<2>1. UNCHANGED <<commands, relay>>
  BY <1>23 DEF ReadSource
<2>2. \A k \in Rules, w \in {"on", "off"} : Leads(k, w)' <=> Leads(k, w)
  BY <2>1, LeadsSame
<2> QED
  BY <1>23, <2>2 DEF ReadSource
<1>22. CASE UNCHANGED vars
<2>1. \A r \in Rules, v \in {"on", "off"} : Leads(r, v)' <=> Leads(r, v)
  BY <1>22, LeadsSame DEF vars
<2> QED
  BY <1>22, <2>1 DEF vars
<1> QED
  BY <1>1, <1>2, <1>3, <1>4, <1>5, <1>6, <1>7, <1>8, <1>9, <1>10, <1>11, <1>12, <1>13, <1>14, <1>15, <1>16, <1>17, <1>18, <1>19, <1>20, <1>21, <1>22, <1>23 DEF Next, Loop, Saver

-----------------------------------------------------------------------------
LEMMA InitInv == Init => IInv
<1> SUFFICES ASSUME Init PROVE IInv
  OBVIOUS
<1>1. TypeOK
  BY DEF Init, TypeOK, Readings, Reset, States
<1>2. Display /\ Timing /\ Phases
  BY DEF Init, Display, Timing, Phases, Reset
<1>3. Relays
  BY DEF Init, Relays, Follows, Leads, Reset
<1> QED
  BY <1>1, <1>2, <1>3 DEF IInv

LEMMA Invariance == Spec => []IInv
<1>1. IInv /\ [Next]_vars => IInv'
  BY TypeStep, DisplayStep, TimingStep, PhasesStep, RelaysStep DEF IInv
<1> QED
  BY <1>1, InitInv, PTL DEF Spec

(* Types, for any number of rules, saves and restarts. *)
THEOREM TypeCorrect == Spec => []TypeOK
<1>1. IInv => TypeOK
  BY DEF IInv
<1> QED
  BY <1>1, Invariance, PTL

(* At rest the relays that are not adrift follow the rules, however passes, *)
(* failed commits, saves that may fail, their roll back, restarts from     *)
(* older states and the Shelly worker interleaved; and a relay is adrift   *)
(* no longer than until the next command for it is accepted.               *)
THEOREM RelaysFollow == Spec => []RelayFollows
<1>1. IInv => RelayFollows
  <2> SUFFICES ASSUME IInv, AtRest, NEW r \in Rules \ adrift
               PROVE  /\ r \notin enabled => relay[r] = "off"
                      /\ r \in enabled /\ status[r] = "triggered" => relay[r] = "on"
                      /\ r \in enabled /\ status[r] = "clear" => relay[r] = "off"
    BY DEF RelayFollows
  <2>1. todo[r] = "none" /\ offs = {} /\ Len(commands) = 0 /\ Follows(r)
    BY DEF IInv, Phases, Relays, AtRest
  <2>2. \A v \in {"on", "off"} : Leads(r, v) => relay[r] = v
    BY <2>1 DEF Leads
  <2> QED
    BY <2>1, <2>2 DEF Follows
<1> QED
  BY <1>1, Invariance, PTL

(* The display shows the alarm layer while it is latched, also when two    *)
(* tasks change it one after the other.                                    *)
THEOREM DisplayFollowsLatch == Spec => []DisplayFollows
<1>1. IInv => DisplayFollows
  BY DEF IInv, Display, DisplayFollows
<1> QED
  BY <1>1, Invariance, PTL

(* The cooldown is kept on a clock that wraps, for any turn longer than it. *)
THEOREM AlertsKeepCooldown == Spec => AlertsOnTime
<1>1. IInv /\ [Next]_vars =>
        [lpc = "pass" /\ lpc' = "led" => \A r \in enabled \ slept : input[r] = "hot" =>
            (r \in alerts' <=> \/ status[r] # "triggered" \/ last[r] = 0
                               \/ since[r] >= Cooldown)]_vars
  <2> SUFFICES ASSUME IInv, [Next]_vars, lpc = "pass", lpc' = "led",
                      NEW r \in enabled \ slept, input[r] = "hot"
               PROVE  r \in alerts' <=> \/ status[r] # "triggered" \/ last[r] = 0
                                        \/ since[r] >= Cooldown
    OBVIOUS
  <2>1. Evaluate
    BY DEF Next, Loop, Saver, vars, inputVars, ruleVars, passVars, ledVars, saveVars, relayVars,
           Submit, Sample, Vanish, Tick, Begin, Skip, UpdateDisplay, Show, RunEvent,
           EndPass, Save, Apply, ApplyFails, Undo, UndoFails, SwitchOff, ClearDisplay, Hide, Execute,
           Restart, ReadSource
  <2>2. r \in alerts' <=> Due(r)
    BY <2>1 DEF Evaluate
  <2>3. last[r] # 0 => status[r] = "triggered" /\ since[r] = Elapsed(last[r])
    BY DEF IInv, TypeOK, Timing
  <2> QED
    BY <2>2, <2>3 DEF Due
<1> QED
  BY <1>1, Invariance, PTL DEF Spec, AlertsOnTime

=============================================================================
