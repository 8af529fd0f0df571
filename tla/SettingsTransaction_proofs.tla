---------------------- MODULE SettingsTransaction_proofs ----------------------
(***************************************************************************)
(* Proofs about SettingsTransaction for any set of tasks and any number of *)
(* versions, faults and boots.                                             *)
(***************************************************************************)
EXTENDS SettingsTransaction, TLAPS

(* A transaction holds the access mutex of its service, and nobody else    *)
(* holds one.                                                              *)
Locked ==
    /\ \A t \in Tasks : Busy(t) => access[task[t].svc] = t
    /\ \A s \in Services : access[s] # None => Busy(access[s]) /\ task[access[s]].svc = s

(* The ways through a transaction. *)
Shape ==
    \A t \in Tasks :
        /\ task[t].pc \in {"apply", "revert"} => task[t].svc = "sensing"
        /\ task[t].pc = "install" => task[t].svc = "alarms"
        /\ task[t].back => task[t].svc = "alarms" /\ task[t].pc \in {"collect", "write", "install"}
        /\ task[t].pc # "collect" => task[t].at = 0
        /\ task[t].pc \in {"revert", "restore"} \/ task[t].back => faults # 0
        /\ Busy(t) => task[t].old # task[t].new

(* Until it restores, a transaction's own section has its new version. *)
Stored == \A t \in Tasks : Busy(t) => store[task[t].svc] = Target(t)

(* What the sensing worker runs on, and what it goes back to. *)
Sensing ==
    faults <= 1 =>
        /\ access["sensing"] = None =>
              /\ lastPersisted = store["sensing"]
              /\ live["sensing"] = store["sensing"] \/ (faults = 1 /\ live["sensing"] = Off)
        /\ \A t \in Tasks : Busy(t) /\ task[t].svc = "sensing" =>
              /\ lastPersisted = task[t].old
              /\ task[t].pc = "apply" =>
                    live["sensing"] = task[t].old \/ (faults = 1 /\ live["sensing"] = Off)
              /\ task[t].pc \in {"collect", "write", "revert"} => live["sensing"] = task[t].new
              /\ task[t].pc = "restore" => live["sensing"] \in {task[t].old, Off}

Alarms == faults <= 1 /\ access["alarms"] = None => live["alarms"] = store["alarms"]

(* A section of a document has a version, but that the one failing step may *)
(* have been its read.                                                     *)
Has(content, v) == content = v \/ (content = Blank /\ faults = 1)

(* The store, the file and the last answer that said "saved" agree. *)
Agree(s) == Has(file[s], store[s]) /\ store[s] = told[s]

(* The part of the document that has been read is what the store holds. *)
Copied(t) ==
    \A i \in 1 .. Len(Sections) :
        task[t].pc = "write" \/ i <= task[t].at =>
            /\ Has(task[t].doc[Sections[i]], store[Sections[i]])
            /\ task[t].svc = "alarms" /\ Sections[i] = "alarms" =>
                  task[t].doc["alarms"] = store["alarms"]

(* A transaction that goes on: what it was asked to change has not been      *)
(* acknowledged, and the file has it or not, depending on how far it got.    *)
Underway(t) ==
    /\ told[task[t].svc] = task[t].old
    /\ ~task[t].back /\ ~(task[t].pc \in {"install", "restore"} /\ task[t].svc = "alarms") =>
          Has(file[task[t].svc], task[t].old)
    /\ task[t].pc = "install" => file["alarms"] = Target(t)
    /\ task[t].pc \in {"collect", "write"} => Copied(t)

(* Without a second fault and an overlap, who may differ from whom. *)
Settled ==
    Undisturbed =>
        /\ \A t, u \in Tasks : Busy(t) /\ Busy(u) => t = u
        /\ asleep \/ booting =>
              /\ \A t \in Tasks : ~Busy(t)
              /\ slot # None => \A s \in Retained : slot[s] = store[s]
        /\ \A s \in Services : access[s] = None => Agree(s)
        /\ \A t \in Tasks : Busy(t) => Underway(t)

(* Only a failing step leaves a section of a document empty. *)
Full == faults = 0 => file \in [Services -> Versions] /\ \A t \in Tasks : task[t].doc \in [Services -> Versions]

IInv == TypeOK /\ Locked /\ Shape /\ Stored /\ Sensing /\ Alarms /\ Full /\ Settled

Stages == {"idle", "apply", "collect", "write", "install", "revert", "restore"}

Transactions ==
    [pc : Stages, svc : Services, old : Versions, new : Versions, at : 0 .. Len(Sections) - 1,
     doc : [Services -> Contents], back : BOOLEAN]

USE SettingsAssumption DEF Services, Running, Retained, Off

(* How a step changes the transaction of a task. *)
LEMMA GotoTask ==
    ASSUME TypeOK, NEW t \in Tasks, NEW p \in Stages, Goto(t, p)
    PROVE  /\ task' \in [Tasks -> Transactions]
           /\ task'[t] = [task[t] EXCEPT !.pc = p]
           /\ \A u \in Tasks \ {t} : task'[u] = task[u]
<1>1. task \in [Tasks -> Transactions]
  BY DEF TypeOK, Transactions, Stages
<1>2. task' = [task EXCEPT ![t] = [task[t] EXCEPT !.pc = p]]
  BY DEF Goto
<1>3. [task[t] EXCEPT !.pc = p] \in Transactions
  BY <1>1 DEF Transactions
<1> QED
  BY <1>1, <1>2, <1>3

LEMMA FinishTask ==
    ASSUME TypeOK, NEW t \in Tasks, Finish(t)
    PROVE  /\ task' \in [Tasks -> Transactions] /\ access' \in [Services -> Tasks \cup {None}]
           /\ task'[t] = Idle
           /\ \A u \in Tasks \ {t} : task'[u] = task[u]
           /\ access'[task[t].svc] = None
           /\ \A s \in Services \ {task[t].svc} : access'[s] = access[s]
<1>1. task \in [Tasks -> Transactions] /\ task[t].svc \in Services
  BY DEF TypeOK, Transactions, Stages
<1>2. Idle \in Transactions
  BY DEF Idle, Transactions, Stages, Versions, Contents, Sections
<1> QED
  BY <1>1, <1>2 DEF Finish, TypeOK

(* A transaction stays one when a field gets a value of its type. *)
LEMMA FieldTypes ==
    \A r \in Transactions :
        /\ \A p \in Stages : [r EXCEPT !.pc = p] \in Transactions
        /\ \A n \in 0 .. Len(Sections) - 1 : [r EXCEPT !.at = n] \in Transactions
        /\ \A d \in [Services -> Contents] : [r EXCEPT !.doc = d] \in Transactions
        /\ [r EXCEPT !.back = TRUE] \in Transactions
  BY DEF Transactions

(* A section of the document is read, or is not. *)
Reads(t) == Collect(t) \/ CollectFails(t)

(* The document grows by a section. *)
LEMMA AddTask ==
    ASSUME TypeOK, NEW t \in Tasks, NEW c \in Contents, task[t].pc = "collect", Add(t, c)
    PROVE  /\ task' \in [Tasks -> Transactions]
           /\ task'[t] = [task[t] EXCEPT !.doc = [task[t].doc EXCEPT ![Section(t)] = c],
                              !.at = IF task[t].at + 1 = Len(Sections) THEN 0 ELSE task[t].at + 1,
                              !.pc = IF task[t].at + 1 = Len(Sections) THEN "write" ELSE "collect"]
           /\ \A u \in Tasks \ {t} : task'[u] = task[u]
<1>1. task \in [Tasks -> Transactions] /\ task[t] \in Transactions /\ task[t].pc = "collect"
  BY DEF TypeOK, Transactions, Stages
<1>2. Len(Sections) = 3 /\ \A i \in 1 .. 3 : Sections[i] \in Services
  BY DEF Sections
<1> DEFINE doc == [task[t].doc EXCEPT ![Section(t)] = c]
           new == [task[t] EXCEPT !.doc = doc,
                       !.at = IF task[t].at + 1 = Len(Sections) THEN 0 ELSE task[t].at + 1,
                       !.pc = IF task[t].at + 1 = Len(Sections) THEN "write" ELSE "collect"]
<1>3. doc \in [Services -> Contents]
  BY <1>1 DEF Transactions
<1>4. new \in Transactions
  <2>1. task[t].at \in 0 .. 2
    BY <1>1, <1>2 DEF Transactions
  <2>2. (IF task[t].at + 1 = Len(Sections) THEN 0 ELSE task[t].at + 1) \in 0 .. Len(Sections) - 1
    BY <1>2, <2>1
  <2> QED
    BY <1>1, <1>3, <2>2, FieldTypes DEF Stages
<1>5. task' = [task EXCEPT ![t] = new]
  BY <1>1 DEF Add
<1> QED
  BY <1>1, <1>4, <1>5

(* What is read, or taken over, is in the store. *)
LEMMA SectionTypes ==
    ASSUME TypeOK, NEW t \in Tasks
    PROVE  /\ Section(t) \in Services /\ Section(t) = Sections[task[t].at + 1]
           /\ task[t].at \in 0 .. 2
           /\ (IF HandedOver(t) THEN Target(t) ELSE store[Section(t)]) \in Versions
<1>1. task[t] \in Transactions /\ store \in [Services -> Versions]
  BY DEF TypeOK, Transactions, Stages
<1>2. Len(Sections) = 3 /\ \A i \in 1 .. 3 : Sections[i] \in Services
  BY DEF Sections
<1>3. task[t].at \in 0 .. 2
  BY <1>1, <1>2 DEF Transactions
<1>4. Section(t) = Sections[task[t].at + 1]
  BY DEF Section
<1>5. Section(t) \in Services
  BY <1>2, <1>3, <1>4
<1> QED
  BY <1>1, <1>3, <1>4, <1>5 DEF Target, Transactions

LEMMA ReadAdds ==
    ASSUME TypeOK, NEW t \in Tasks, Reads(t)
    PROVE  /\ task[t].pc = "collect"
           /\ \E c \in Contents :
                 /\ Add(t, c)
                 /\ \/ faults' = faults /\ c = IF HandedOver(t) THEN Target(t) ELSE store[Section(t)]
                    \/ faults' = faults + 1 /\ c = Blank /\ ~HandedOver(t)
           /\ faults' \in 0 .. MaxFaults
           /\ UNCHANGED <<store, file, slot, live, lastPersisted, access, told, asleep, booting,
                          made, disturbed, restarts>>
<1>1. CASE Collect(t)
  <2>1. (IF HandedOver(t) THEN Target(t) ELSE store[Section(t)]) \in Contents
    BY SectionTypes DEF Contents
  <2> QED
    BY <1>1, <2>1 DEF Collect, Boot, Past, TypeOK
<1>2. CASE CollectFails(t)
  BY <1>2 DEF CollectFails, Fault, Boot, Past, TypeOK, Contents
<1> QED
  BY <1>1, <1>2 DEF Reads

(* On the way back an alarm transaction starts over. *)
LEMMA RestoreTask ==
    ASSUME TypeOK, NEW t \in Tasks,
           task' = [task EXCEPT ![t].pc = "collect", ![t].at = 0, ![t].back = TRUE]
    PROVE  /\ task' \in [Tasks -> Transactions]
           /\ task'[t] = [task[t] EXCEPT !.pc = "collect", !.at = 0, !.back = TRUE]
           /\ \A u \in Tasks \ {t} : task'[u] = task[u]
<1>1. task \in [Tasks -> Transactions] /\ task[t] \in Transactions
  BY DEF TypeOK, Transactions, Stages
<1> DEFINE new == [task[t] EXCEPT !.pc = "collect", !.at = 0, !.back = TRUE]
<1>2. new \in Transactions
  <2>1. 0 \in 0 .. Len(Sections) - 1
    BY DEF Sections
  <2> QED
    BY <1>1, <2>1, FieldTypes DEF Stages
<1>3. task' = [task EXCEPT ![t] = new]
  OBVIOUS
<1> QED
  BY <1>1, <1>2, <1>3

(* The transaction a task begins. *)
LEMMA BeginTask ==
    ASSUME TypeOK, NEW t \in Tasks, NEW s \in Services, NEW v \in Versions,
           task' = [task EXCEPT ![t] =
               [Idle EXCEPT !.pc = IF s = "sensing" THEN "apply" ELSE "collect",
                            !.svc = s, !.old = store[s], !.new = v]]
    PROVE  /\ task' \in [Tasks -> Transactions]
           /\ task'[t] = [Idle EXCEPT !.pc = IF s = "sensing" THEN "apply" ELSE "collect",
                                      !.svc = s, !.old = store[s], !.new = v]
           /\ \A u \in Tasks \ {t} : task'[u] = task[u]
<1>1. task \in [Tasks -> Transactions] /\ store[s] \in Versions
  BY DEF TypeOK, Transactions, Stages
<1>2. Idle \in Transactions
  BY DEF Idle, Transactions, Stages, Versions, Contents, Sections
<1> DEFINE new == [Idle EXCEPT !.pc = IF s = "sensing" THEN "apply" ELSE "collect",
                               !.svc = s, !.old = store[s], !.new = v]
<1>3. new \in Transactions
  BY <1>1, <1>2 DEF Transactions, Stages
<1> QED
  BY <1>1, <1>3

LEMMA FaultType == TypeOK /\ Fault => faults' \in 0 .. MaxFaults /\ faults' = faults + 1
  BY DEF TypeOK, Fault

LEMMA RequestType ==
    ASSUME TypeOK, NEW s \in Services, NEW v \in Requested(s)
    PROVE  v \in Versions
  BY DEF TypeOK, Requested, Versions

(* What the sensing worker runs on after applyRuntimeState. *)
LEMMA ApplyTypes ==
    ASSUME TypeOK, NEW from \in Versions, NEW to \in Versions, NEW r \in ApplyRuntime(from, to)
    PROVE  r.ok \in BOOLEAN /\ r.live \in Versions
<1>1. live["sensing"] \in Versions /\ Off \in Versions
  BY DEF TypeOK, Versions
<1>2. \E b \in BOOLEAN, l \in Versions : r = [ok |-> b, live |-> l]
  BY <1>1 DEF ApplyRuntime
<1> QED
  BY <1>2

TaskTypes == task' \in [Tasks -> Transactions] /\ access' \in [Services -> Tasks \cup {None}]

LEMMA StartTypes ==
    ASSUME TypeOK, NEW config \in [Services -> Versions], Start(config)
    PROVE  /\ TaskTypes
           /\ store' \in [Services -> Versions] /\ live' \in [Running -> Versions]
           /\ lastPersisted' \in Versions /\ told' \in [Services -> Versions]
           /\ restarts' \in 0 .. MaxRestarts
<1>1. Idle \in Transactions
  BY DEF Idle, Transactions, Stages, Versions, Contents, Sections
<1>2. restarts' \in 0 .. MaxRestarts
  BY DEF Start, TypeOK
<1> QED
  BY <1>1, <1>2 DEF Start, TaskTypes

LEMMA TypeStep == TypeOK /\ [Next]_vars => TypeOK'
<1> SUFFICES ASSUME TypeOK, [Next]_vars PROVE TypeOK'
  OBVIOUS
<1> USE DEF Boot, Past, Acknowledge, Refuse, TaskTypes
<1>0. /\ task \in [Tasks -> Transactions] /\ \A t \in Tasks : task[t] \in Transactions
      /\ TaskTypes /\ UNCHANGED <<store, file, slot, live, lastPersisted, asleep, booting, made,
                                 restarts, told, disturbed>> /\ faults' \in 0 .. MaxFaults => TypeOK'
  BY DEF TypeOK, Transactions, Stages
<1>1. ASSUME NEW t \in Tasks, NEW s \in Services, NEW v \in Requested(s), Begin(t, s, v) PROVE TypeOK'
<2>1. v \in Versions
  BY RequestType
<2>2. TaskTypes
  BY <1>1, <2>1, BeginTask DEF Begin, TypeOK
<2>3. store' \in [Services -> Versions] /\ made' \in Versions
  BY <1>1, <2>1 DEF Begin, TypeOK
<2>4. disturbed' \in BOOLEAN
  BY <1>1 DEF Begin, TypeOK
<2> QED
  BY <1>1, <2>2, <2>3, <2>4 DEF Begin, TypeOK, Transactions, Stages
<1>2. ASSUME NEW t \in Tasks, Apply(t) PROVE TypeOK'
<2>1. PICK r \in ApplyRuntime(lastPersisted, task[t].new) :
        /\ live' = [live EXCEPT !["sensing"] = r.live]
        /\ Goto(t, IF r.ok THEN "collect" ELSE "restore")
        /\ IF r.ok THEN UNCHANGED faults ELSE Fault
  BY <1>2 DEF Apply
<2>2. r.live \in Versions /\ r.ok \in BOOLEAN
  BY <1>0, <2>1, ApplyTypes DEF TypeOK, Transactions
<2>3. TaskTypes
  BY <1>2, <2>1, <2>2, GotoTask DEF Apply, TypeOK, Stages
<2>4. live' \in [Running -> Versions] /\ faults' \in 0 .. MaxFaults
  BY <2>1, <2>2, FaultType DEF TypeOK
<2> QED
  BY <1>2, <2>3, <2>4 DEF Apply, TypeOK, Transactions, Stages
<1>3. ASSUME NEW t \in Tasks, Reads(t) PROVE TypeOK'
<2>1. task' \in [Tasks -> Transactions]
  BY <1>3, ReadAdds, AddTask
<2>2. TaskTypes
  BY <1>3, <2>1, ReadAdds DEF TypeOK
<2> QED
  BY <1>3, <1>0, <2>2, ReadAdds
<1>4. ASSUME NEW t \in Tasks, Persist(t) PROVE TypeOK'
<2>1. TaskTypes
  BY <1>4, GotoTask, FinishTask DEF Persist, TypeOK, Stages
<2>2. file' \in [Services -> Contents] /\ lastPersisted' \in Versions /\ told' \in [Services -> Versions]
  BY <1>4, <1>0 DEF Persist, TypeOK, Transactions
<2> QED
  BY <1>4, <2>1, <2>2 DEF Persist, TypeOK, Transactions, Stages
<1>5. ASSUME NEW t \in Tasks, SaveFails(t) PROVE TypeOK'
<2>1. TaskTypes /\ told' = told
  BY <1>5, GotoTask, FinishTask DEF SaveFails, TypeOK, Stages
<2> QED
  BY <1>5, <2>1, FaultType DEF SaveFails, TypeOK, Transactions, Stages
<1>6. ASSUME NEW t \in Tasks, Revert(t) PROVE TypeOK'
<2>1. PICK r \in ApplyRuntime(task[t].new, lastPersisted) :
        /\ live' = [live EXCEPT !["sensing"] = r.live]
        /\ IF r.ok THEN UNCHANGED faults ELSE Fault
  BY <1>6 DEF Revert
<2>2. r.live \in Versions
  BY <1>0, <2>1, ApplyTypes DEF TypeOK, Transactions
<2>3. TaskTypes
  BY <1>6, GotoTask DEF Revert, TypeOK, Stages
<2>4. live' \in [Running -> Versions] /\ faults' \in 0 .. MaxFaults
  BY <2>1, <2>2, FaultType DEF TypeOK
<2> QED
  BY <1>6, <2>3, <2>4 DEF Revert, TypeOK, Transactions, Stages
<1>7. ASSUME NEW t \in Tasks, Install(t) PROVE TypeOK'
<2>1. TaskTypes
  BY <1>7, FinishTask DEF Install
<2>2. live' \in [Running -> Versions] /\ told' \in [Services -> Versions]
  BY <1>7, <1>0 DEF Install, Target, TypeOK, Transactions
<2> QED
  BY <1>7, <2>1, <2>2 DEF Install, TypeOK, Transactions, Stages
<1>8. ASSUME NEW t \in Tasks, InstallFails(t) PROVE TypeOK'
<2>1. TaskTypes /\ told' = told
  BY <1>8, GotoTask, FinishTask DEF InstallFails, TypeOK, Stages
<2>2. live' \in [Running -> Versions]
  BY <1>8, <1>0 DEF InstallFails, Target, TypeOK, Transactions
<2> QED
  BY <1>8, <2>1, <2>2, FaultType DEF InstallFails, TypeOK, Transactions, Stages
<1>9. ASSUME NEW t \in Tasks, Restore(t) PROVE TypeOK'
<2>1. TaskTypes /\ told' = told
  BY <1>9, RestoreTask, FinishTask DEF Restore, TypeOK
<2>2. store' \in [Services -> Versions]
  BY <1>9, <1>0 DEF Restore, TypeOK, Transactions
<2> QED
  BY <1>9, <2>1, <2>2 DEF Restore, TypeOK, Transactions, Stages
<1>10. ASSUME NEW t \in Tasks, RestoreFails(t) PROVE TypeOK'
<2>1. TaskTypes /\ told' = told
  BY <1>10, FinishTask DEF RestoreFails
<2> QED
  BY <1>10, <2>1, FaultType DEF RestoreFails, TypeOK, Transactions, Stages
<1>11. ASSUME Ready \/ SleepNow PROVE TypeOK'
  BY <1>11 DEF Ready, SleepNow, TypeOK
<1>12. ASSUME Snapshot PROVE TypeOK'
<2>1. slot' \in [Retained -> Versions] \cup {None} /\ disturbed' \in BOOLEAN
  BY <1>12 DEF Snapshot, TypeOK
<2> QED
  BY <1>12, <2>1 DEF Snapshot, TypeOK
<1>13. ASSUME NEW config \in [Services -> Versions], Start(config), faults' \in 0 .. MaxFaults,
              slot' \in {slot, None}, disturbed' \in {disturbed, FALSE}
       PROVE  TypeOK'
<2>1. UNCHANGED <<file, made>> /\ asleep' = FALSE /\ booting' = TRUE
  BY <1>13 DEF Start
<2> QED
  BY <1>13, <2>1, StartTypes DEF TypeOK, Transactions, Stages
<1>15. Loaded \in [Services -> Versions]
  BY DEF Loaded, TypeOK, Contents, Versions
<1>16. ASSUME WarmBoot PROVE TypeOK'
<2>1. [s \in Services |-> IF s \in Retained THEN slot[s] ELSE Loaded[s]] \in [Services -> Versions]
  BY <1>16, <1>15 DEF WarmBoot, TypeOK
<2>2. faults' \in 0 .. MaxFaults /\ slot' \in {slot, None} /\ disturbed' \in {disturbed, FALSE}
  BY <1>16 DEF WarmBoot, TypeOK
<2> QED
  BY <1>13, <1>16, <2>1, <2>2 DEF WarmBoot
<1>17. ASSUME HydrateFails PROVE TypeOK'
<2>1. faults' \in 0 .. MaxFaults /\ slot' \in {slot, None} /\ disturbed' \in {disturbed, FALSE}
  BY <1>17, FaultType DEF HydrateFails
<2> QED
  BY <1>13, <1>15, <1>17, <2>1 DEF HydrateFails
<1>18. ASSUME ColdBoot PROVE TypeOK'
<2>1. faults' \in 0 .. MaxFaults /\ slot' \in {slot, None} /\ disturbed' \in {disturbed, FALSE}
  BY <1>18 DEF ColdBoot, TypeOK
<2> QED
  BY <1>13, <1>15, <1>18, <2>1 DEF ColdBoot
<1>14. CASE UNCHANGED vars
  BY <1>14 DEF vars, TypeOK
<1> QED
  BY <1>1, <1>2, <1>3, <1>4, <1>5, <1>6, <1>7, <1>8, <1>9, <1>10, <1>11, <1>12, <1>14, <1>16, <1>17, <1>18
  DEF Next, TaskStep, Reads

-----------------------------------------------------------------------------
(* What each step does to the transactions, field by field. *)
Others(t) == \A u \in Tasks \ {t} : task'[u] = task[u]

Moves(t, p) ==
    /\ task'[t].pc = p /\ task'[t].svc = task[t].svc
    /\ task'[t].old = task[t].old /\ task'[t].new = task[t].new
    /\ task'[t].at = task[t].at /\ task'[t].doc = task[t].doc /\ task'[t].back = task[t].back
    /\ Others(t) /\ UNCHANGED access

Ends(t) ==
    /\ task'[t].pc = "idle" /\ task'[t].at = 0 /\ task'[t].back = FALSE
    /\ task'[t].doc = Idle.doc
    /\ Others(t)
    /\ access'[task[t].svc] = None
    /\ \A s \in Services \ {task[t].svc} : access'[s] = access[s]

OnlyAt(f, g, s) == \A k \in Services \ {s} : f[k] = g[k]

(* The fields of a transaction in which only its place changes. *)
LEMMA FieldValues ==
    ASSUME NEW r \in Transactions, NEW p
    PROVE  /\ [r EXCEPT !.pc = p].pc = p
           /\ [r EXCEPT !.pc = p].svc = r.svc
           /\ [r EXCEPT !.pc = p].old = r.old /\ [r EXCEPT !.pc = p].new = r.new
           /\ [r EXCEPT !.pc = p].at = r.at /\ [r EXCEPT !.pc = p].doc = r.doc
           /\ [r EXCEPT !.pc = p].back = r.back
  BY DEF Transactions

LEMMA GotoMoves ==
    ASSUME TypeOK, NEW t \in Tasks, NEW p \in Stages, Goto(t, p), UNCHANGED access
    PROVE  Moves(t, p)
<1>1. task[t] \in Transactions
  BY DEF TypeOK, Transactions, Stages
<1>2. task'[t] = [task[t] EXCEPT !.pc = p] /\ Others(t)
  BY GotoTask DEF Others
<1> QED
  BY <1>1, <1>2, FieldValues DEF Moves

LEMMA FinishEnds ==
    ASSUME TypeOK, NEW t \in Tasks, Finish(t)
    PROVE  Ends(t)
  BY FinishTask DEF Ends, Others, Idle

Begun(t, s, v) ==
    /\ task[t].pc = "idle" /\ access[s] = None /\ v # store[s]
    /\ task'[t].pc = (IF s = "sensing" THEN "apply" ELSE "collect") /\ task'[t].svc = s
    /\ task'[t].old = store[s] /\ task'[t].new = v /\ task'[t].at = 0
    /\ task'[t].back = FALSE /\ task'[t].doc = Idle.doc
    /\ Others(t)
    /\ access'[s] = t /\ OnlyAt(access', access, s)
    /\ store'[s] = v /\ OnlyAt(store', store, s)
    /\ UNCHANGED <<file, slot, live, lastPersisted, asleep, booting, faults, restarts, told>>

LEMMA BeginEffect ==
    ASSUME TypeOK, NEW t \in Tasks, NEW s \in Services, NEW v \in Versions, Begin(t, s, v)
    PROVE  Begun(t, s, v)
<1>1. /\ task[t].pc = "idle" /\ access[s] = None /\ v # store[s]
      /\ access' = [access EXCEPT ![s] = t] /\ store' = [store EXCEPT ![s] = v]
      /\ UNCHANGED <<file, slot, live, lastPersisted, asleep, booting, faults, restarts, told>>
  BY DEF Begin, Busy
<1>2. /\ access'[s] = t /\ OnlyAt(access', access, s)
      /\ store'[s] = v /\ OnlyAt(store', store, s)
  BY <1>1 DEF TypeOK, OnlyAt
<1>3. /\ Others(t)
      /\ task'[t] = [Idle EXCEPT !.pc = IF s = "sensing" THEN "apply" ELSE "collect",
                                 !.svc = s, !.old = store[s], !.new = v]
  BY BeginTask DEF Begin, Others
<1>4. /\ task'[t].pc = (IF s = "sensing" THEN "apply" ELSE "collect") /\ task'[t].svc = s
      /\ task'[t].old = store[s] /\ task'[t].new = v /\ task'[t].at = 0
      /\ task'[t].back = FALSE /\ task'[t].doc = Idle.doc
  BY <1>3 DEF Idle
<1> QED
  BY <1>1, <1>2, <1>3, <1>4 DEF Begun

LEMMA Begins ==
    ASSUME TypeOK, NEW t \in Tasks, NEW s \in Services, NEW v \in Requested(s), Begin(t, s, v)
    PROVE  Begun(t, s, v)
<1>1. v \in Versions
  BY RequestType
<1> QED
  BY <1>1, BeginEffect

LEMMA ApplyEffect ==
    ASSUME TypeOK, NEW t \in Tasks, Apply(t)
    PROVE  /\ task[t].pc = "apply"
           /\ \E r \in ApplyRuntime(lastPersisted, task[t].new) :
                 /\ live'["sensing"] = r.live /\ live'["alarms"] = live["alarms"]
                 /\ Moves(t, IF r.ok THEN "collect" ELSE "restore")
                 /\ IF r.ok THEN UNCHANGED faults ELSE faults' = faults + 1
           /\ UNCHANGED <<store, file, slot, lastPersisted, told, asleep, booting, disturbed, restarts>>
<1>1. PICK r \in ApplyRuntime(lastPersisted, task[t].new) :
        /\ live' = [live EXCEPT !["sensing"] = r.live]
        /\ Goto(t, IF r.ok THEN "collect" ELSE "restore")
        /\ IF r.ok THEN UNCHANGED faults ELSE Fault
  BY DEF Apply
<1>2. task[t].pc = "apply"
      /\ UNCHANGED <<store, file, slot, lastPersisted, told, asleep, booting, disturbed, restarts, access>>
  BY DEF Apply, Boot, Past
<1>3. Moves(t, IF r.ok THEN "collect" ELSE "restore")
  BY <1>1, <1>2, GotoMoves DEF Stages
<1>4. live'["sensing"] = r.live /\ live'["alarms"] = live["alarms"]
  BY <1>1 DEF TypeOK
<1>5. IF r.ok THEN UNCHANGED faults ELSE faults' = faults + 1
  BY <1>1 DEF Fault
<1> QED
  BY <1>1, <1>2, <1>3, <1>4, <1>5

LEMMA CollectEffect ==
    ASSUME TypeOK, NEW t \in Tasks, Reads(t)
    PROVE  /\ task[t].pc = "collect" /\ task[t].at \in 0 .. 2
           /\ task'[t].pc = (IF task[t].at = 2 THEN "write" ELSE "collect")
           /\ task'[t].at = (IF task[t].at = 2 THEN 0 ELSE task[t].at + 1)
           /\ task'[t].svc = task[t].svc /\ task'[t].old = task[t].old
           /\ task'[t].new = task[t].new /\ task'[t].back = task[t].back
           /\ \E c \in Contents :
                 /\ task'[t].doc = [task[t].doc EXCEPT ![Section(t)] = c]
                 /\ \/ faults' = faults /\ c = IF HandedOver(t) THEN Target(t) ELSE store[Section(t)]
                    \/ faults' = faults + 1 /\ c = Blank /\ ~HandedOver(t)
           /\ faults' = faults \/ faults' = faults + 1
           /\ Others(t)
           /\ UNCHANGED <<store, file, slot, live, lastPersisted, access, told, asleep, booting,
                          disturbed, restarts>>
<1>1. task[t].pc = "collect" /\ task[t] \in Transactions /\ Len(Sections) = 3
      /\ UNCHANGED <<store, file, slot, live, lastPersisted, access, told, asleep, booting,
                     disturbed, restarts>>
  BY ReadAdds DEF TypeOK, Transactions, Stages, Sections
<1>2. task[t].at \in 0 .. 2 /\ (task[t].at + 1 = Len(Sections) <=> task[t].at = 2)
  BY <1>1, SectionTypes
<1>3. PICK c \in Contents :
         /\ Add(t, c)
         /\ \/ faults' = faults /\ c = IF HandedOver(t) THEN Target(t) ELSE store[Section(t)]
            \/ faults' = faults + 1 /\ c = Blank /\ ~HandedOver(t)
  BY ReadAdds
<1> DEFINE last == task[t].at + 1 = Len(Sections)
           doc == [task[t].doc EXCEPT ![Section(t)] = c]
<1>4. task'[t] = [task[t] EXCEPT !.doc = doc, !.at = IF last THEN 0 ELSE task[t].at + 1,
                                 !.pc = IF last THEN "write" ELSE "collect"] /\ Others(t)
  BY <1>1, <1>3, AddTask DEF Others
<1>5. \A r \in Transactions : \A d, n, p :
         LET q == [r EXCEPT !.doc = d, !.at = n, !.pc = p]
         IN  /\ q.pc = p /\ q.at = n /\ q.doc = d
             /\ q.svc = r.svc /\ q.old = r.old /\ q.new = r.new /\ q.back = r.back
  BY DEF Transactions
<1>6. /\ task'[t].pc = (IF last THEN "write" ELSE "collect")
      /\ task'[t].at = (IF last THEN 0 ELSE task[t].at + 1)
      /\ task'[t].doc = doc
      /\ task'[t].svc = task[t].svc /\ task'[t].old = task[t].old
      /\ task'[t].new = task[t].new /\ task'[t].back = task[t].back
  BY <1>1, <1>4, <1>5
<1> QED
  BY <1>1, <1>2, <1>3, <1>4, <1>6

LEMMA PersistEffect ==
    ASSUME TypeOK, NEW t \in Tasks, Persist(t)
    PROVE  /\ task[t].pc = "write" /\ file' = task[t].doc
           /\ \/ task[t].svc = "alarms" /\ Moves(t, "install") /\ UNCHANGED <<told, lastPersisted>>
              \/ /\ task[t].svc # "alarms" /\ Ends(t)
                 /\ told'[task[t].svc] = task[t].new /\ OnlyAt(told', told, task[t].svc)
                 /\ lastPersisted' = IF task[t].svc = "sensing" THEN task[t].new ELSE lastPersisted
           /\ UNCHANGED <<store, slot, live, faults, asleep, booting, disturbed, restarts>>
<1>1. task[t] \in Transactions
  BY DEF TypeOK, Transactions, Stages
<1>2. /\ task[t].pc = "write" /\ file' = task[t].doc
      /\ lastPersisted' = IF task[t].svc = "sensing" THEN task[t].new ELSE lastPersisted
      /\ UNCHANGED <<store, slot, live, faults, asleep, booting, disturbed, restarts>>
  BY DEF Persist, Boot, Past
<1>3. CASE task[t].svc = "alarms"
  BY <1>2, <1>3, GotoMoves DEF Persist, Stages
<1>4. CASE task[t].svc # "alarms"
  <2>1. Ends(t) /\ told' = [told EXCEPT ![task[t].svc] = task[t].new]
    BY <1>4, FinishEnds DEF Persist, Acknowledge
  <2>2. told'[task[t].svc] = task[t].new /\ OnlyAt(told', told, task[t].svc)
    BY <1>1, <2>1 DEF TypeOK, OnlyAt, Transactions
  <2> QED
    BY <1>2, <1>4, <2>1, <2>2
<1> QED
  BY <1>3, <1>4

LEMMA SaveFailsEffect ==
    ASSUME TypeOK, NEW t \in Tasks, SaveFails(t)
    PROVE  /\ task[t].pc = "write" /\ faults' = faults + 1
           /\ \/ task[t].back /\ Ends(t)
              \/ ~task[t].back /\ Moves(t, IF task[t].svc = "sensing" THEN "revert" ELSE "restore")
           /\ UNCHANGED <<store, file, slot, live, lastPersisted, told, asleep, booting, disturbed,
                          restarts>>
<1>1. /\ task[t].pc = "write" /\ faults' = faults + 1
      /\ UNCHANGED <<store, file, slot, live, lastPersisted, told, asleep, booting, disturbed, restarts>>
  BY DEF SaveFails, Fault, Boot, Past, Refuse
<1>2. CASE task[t].back
  BY <1>1, <1>2, FinishEnds DEF SaveFails, Refuse
<1>3. CASE ~task[t].back
  BY <1>1, <1>3, GotoMoves DEF SaveFails, Stages
<1> QED
  BY <1>2, <1>3

LEMMA RevertEffect ==
    ASSUME TypeOK, NEW t \in Tasks, Revert(t)
    PROVE  /\ task[t].pc = "revert" /\ Moves(t, "restore")
           /\ \E r \in ApplyRuntime(task[t].new, lastPersisted) :
                 /\ live'["sensing"] = r.live /\ live'["alarms"] = live["alarms"]
                 /\ IF r.ok THEN UNCHANGED faults ELSE faults' = faults + 1
           /\ UNCHANGED <<store, file, slot, lastPersisted, told, asleep, booting, disturbed, restarts>>
<1>1. PICK r \in ApplyRuntime(task[t].new, lastPersisted) :
        /\ live' = [live EXCEPT !["sensing"] = r.live]
        /\ IF r.ok THEN UNCHANGED faults ELSE Fault
  BY DEF Revert
<1>2. task[t].pc = "revert" /\ Goto(t, "restore")
      /\ UNCHANGED <<store, file, slot, lastPersisted, told, asleep, booting, disturbed, restarts, access>>
  BY DEF Revert, Boot, Past
<1>3. Moves(t, "restore")
  BY <1>2, GotoMoves DEF Stages
<1>4. live'["sensing"] = r.live /\ live'["alarms"] = live["alarms"]
  BY <1>1 DEF TypeOK
<1>5. IF r.ok THEN UNCHANGED faults ELSE faults' = faults + 1
  BY <1>1 DEF Fault
<1> QED
  BY <1>1, <1>2, <1>3, <1>4, <1>5

LEMMA InstallEffect ==
    ASSUME TypeOK, NEW t \in Tasks, Install(t)
    PROVE  /\ task[t].pc = "install" /\ Ends(t)
           /\ live'["alarms"] = Target(t) /\ live'["sensing"] = live["sensing"]
           /\ \/ task[t].back /\ UNCHANGED told
              \/ /\ ~task[t].back
                 /\ told'[task[t].svc] = task[t].new /\ OnlyAt(told', told, task[t].svc)
           /\ UNCHANGED <<store, file, slot, lastPersisted, faults, asleep, booting, disturbed, restarts>>
<1>1. task[t] \in Transactions
  BY DEF TypeOK, Transactions, Stages
<1>2. /\ task[t].pc = "install" /\ live' = [live EXCEPT !["alarms"] = Target(t)] /\ Finish(t)
      /\ told' = IF task[t].back THEN told ELSE [told EXCEPT ![task[t].svc] = task[t].new]
      /\ UNCHANGED <<store, file, slot, lastPersisted, faults, asleep, booting, disturbed, restarts>>
  BY DEF Install, Boot, Past, Refuse, Acknowledge
<1>3. Ends(t)
  BY <1>2, FinishEnds
<1>4. live'["alarms"] = Target(t) /\ live'["sensing"] = live["sensing"]
  BY <1>2 DEF TypeOK
<1>5. ~task[t].back => told'[task[t].svc] = task[t].new /\ OnlyAt(told', told, task[t].svc)
  BY <1>1, <1>2 DEF TypeOK, OnlyAt, Transactions
<1> QED
  BY <1>2, <1>3, <1>4, <1>5

LEMMA InstallFailsEffect ==
    ASSUME TypeOK, NEW t \in Tasks, InstallFails(t)
    PROVE  /\ task[t].pc = "install" /\ faults' = faults + 1
           /\ live'["alarms"] \in {live["alarms"], Target(t)} /\ live'["sensing"] = live["sensing"]
           /\ \/ task[t].back /\ Ends(t)
              \/ ~task[t].back /\ Moves(t, "restore")
           /\ UNCHANGED <<store, file, slot, lastPersisted, told, asleep, booting, disturbed, restarts>>
<1>1. /\ task[t].pc = "install" /\ faults' = faults + 1
      /\ live' \in {live, [live EXCEPT !["alarms"] = Target(t)]}
      /\ UNCHANGED <<store, file, slot, lastPersisted, told, asleep, booting, disturbed, restarts>>
  BY DEF InstallFails, Fault, Boot, Past, Refuse
<1>2. live'["alarms"] \in {live["alarms"], Target(t)} /\ live'["sensing"] = live["sensing"]
  BY <1>1 DEF TypeOK
<1>3. CASE task[t].back
  BY <1>1, <1>2, <1>3, FinishEnds DEF InstallFails, Refuse
<1>4. CASE ~task[t].back
  BY <1>1, <1>2, <1>4, GotoMoves DEF InstallFails, Stages
<1> QED
  BY <1>3, <1>4

LEMMA RestoreEffect ==
    ASSUME TypeOK, NEW t \in Tasks, Restore(t)
    PROVE  /\ task[t].pc = "restore"
           /\ store'[task[t].svc] = task[t].old /\ OnlyAt(store', store, task[t].svc)
           /\ \/ /\ task[t].svc = "alarms"
                 /\ task'[t].pc = "collect" /\ task'[t].at = 0 /\ task'[t].back = TRUE
                 /\ task'[t].svc = task[t].svc /\ task'[t].old = task[t].old
                 /\ task'[t].new = task[t].new /\ task'[t].doc = task[t].doc
                 /\ Others(t) /\ UNCHANGED access
              \/ task[t].svc # "alarms" /\ Ends(t)
           /\ UNCHANGED <<file, slot, live, lastPersisted, told, faults, asleep, booting, disturbed,
                          restarts>>
<1>1. task[t] \in Transactions
  BY DEF TypeOK, Transactions, Stages
<1>2. /\ task[t].pc = "restore" /\ store' = [store EXCEPT ![task[t].svc] = task[t].old]
      /\ UNCHANGED <<file, slot, live, lastPersisted, told, faults, asleep, booting, disturbed, restarts>>
  BY DEF Restore, Boot, Past, Refuse
<1>3. store'[task[t].svc] = task[t].old /\ OnlyAt(store', store, task[t].svc)
  BY <1>1, <1>2 DEF TypeOK, OnlyAt, Transactions
<1>4. CASE task[t].svc = "alarms"
  <2>1. task' = [task EXCEPT ![t].pc = "collect", ![t].at = 0, ![t].back = TRUE] /\ UNCHANGED access
    BY <1>4 DEF Restore
  <2>2. task'[t] = [task[t] EXCEPT !.pc = "collect", !.at = 0, !.back = TRUE] /\ Others(t)
    BY <2>1, RestoreTask DEF Others
  <2>3. /\ task'[t].pc = "collect" /\ task'[t].at = 0 /\ task'[t].back = TRUE
        /\ task'[t].svc = task[t].svc /\ task'[t].old = task[t].old /\ task'[t].new = task[t].new
        /\ task'[t].doc = task[t].doc
    BY <1>1, <2>2 DEF Transactions
  <2> QED
    BY <1>2, <1>3, <1>4, <2>1, <2>2, <2>3
<1>5. CASE task[t].svc # "alarms"
  BY <1>2, <1>3, <1>5, FinishEnds DEF Restore, Refuse
<1> QED
  BY <1>4, <1>5

LEMMA RestoreFailsEffect ==
    ASSUME TypeOK, NEW t \in Tasks, RestoreFails(t)
    PROVE  /\ task[t].pc = "restore" /\ faults' = faults + 1 /\ Ends(t)
           /\ UNCHANGED <<store, file, slot, live, lastPersisted, told, asleep, booting, disturbed,
                          restarts>>
  BY FinishEnds DEF RestoreFails, Fault, Boot, Past, Refuse

LEMMA StartEffect ==
    ASSUME NEW config, Start(config)
    PROVE  /\ \A t \in Tasks : /\ task'[t].pc = "idle" /\ task'[t].at = 0 /\ task'[t].back = FALSE
                                /\ task'[t].doc = Idle.doc
           /\ \A s \in Services : access'[s] = None
           /\ store' = config /\ told' = config /\ lastPersisted' = config["sensing"]
           /\ \A s \in Running : live'[s] = config[s]
           /\ asleep' = FALSE /\ booting' = TRUE /\ UNCHANGED file
  BY DEF Start, Idle

-----------------------------------------------------------------------------
(* Mutual exclusion, the ways through a transaction and the section it has *)
(* stored, together.                                                       *)
Basic == Locked /\ Shape /\ Stored

LEMMA TypeFacts ==
    ASSUME TypeOK
    PROVE  /\ \A s \in Services : access[s] \in Tasks \cup {None}
           /\ \A u \in Tasks : task[u].svc \in Services
           /\ faults \in Nat
  BY DEF TypeOK

LEMMA EndsBasic ==
    ASSUME TypeOK, Basic, NEW t \in Tasks, Busy(t), Ends(t),
           OnlyAt(store', store, task[t].svc), faults # 0 => faults' # 0
    PROVE  Basic'
<1>1. ASSUME NEW u \in Tasks, Busy(u)'
      PROVE  u # t /\ task'[u] = task[u] /\ Busy(u) /\ task[u].svc # task[t].svc
  <2>1. u # t /\ task'[u] = task[u] /\ Busy(u)
    BY <1>1 DEF Ends, Others, Busy
  <2> QED
    BY <2>1 DEF Basic, Locked
<1>2. \A u \in Tasks : Busy(u)' => access'[task'[u].svc] = u
  BY <1>1, TypeFacts DEF Basic, Locked, Ends
<1>3. ASSUME NEW s \in Services, access'[s] # None PROVE Busy(access[s])' /\ task'[access'[s]].svc = s
  BY <1>3, TypeFacts DEF Ends, Others, Busy, Locked, Basic
<1>4. Shape'
  BY <1>1 DEF Shape, Basic, Ends, Others, Busy
<1>5. Stored'
  <2> SUFFICES ASSUME NEW u \in Tasks, Busy(u)' PROVE store'[task'[u].svc] = Target(u)'
    BY DEF Stored
  <2>1. task'[u] = task[u] /\ store[task[u].svc] = Target(u) /\ store'[task[u].svc] = store[task[u].svc]
    BY <1>1, TypeFacts DEF Basic, Stored, OnlyAt
  <2> QED
    BY <2>1 DEF Target
<1> QED
  BY <1>2, <1>3, <1>4, <1>5 DEF Basic, Locked

LEMMA MovesBasic ==
    ASSUME TypeOK, Basic, NEW t \in Tasks, Busy(t), NEW p \in Stages \ {"idle"}, Moves(t, p),
           UNCHANGED store, faults # 0 => faults' # 0,
           p \in {"apply", "revert"} => task[t].svc = "sensing",
           p = "install" => task[t].svc = "alarms",
           task[t].back => p \in {"collect", "write", "install"},
           p # "collect" => task[t].at = 0,
           p \in {"revert", "restore"} => faults' # 0
    PROVE  Basic'
<1>1. Locked'
  BY TypeFacts DEF Basic, Locked, Moves, Others, Busy
<1>2. Shape'
  <2> SUFFICES ASSUME NEW u \in Tasks
               PROVE  /\ task'[u].pc \in {"apply", "revert"} => task'[u].svc = "sensing"
                      /\ task'[u].pc = "install" => task'[u].svc = "alarms"
                      /\ task'[u].back =>
                            task'[u].svc = "alarms" /\ task'[u].pc \in {"collect", "write", "install"}
                      /\ task'[u].pc # "collect" => task'[u].at = 0
                      /\ task'[u].pc \in {"revert", "restore"} \/ task'[u].back => faults' # 0
                      /\ Busy(u)' => task'[u].old # task'[u].new
    BY DEF Shape
  <2>1. CASE u = t
    BY <2>1 DEF Basic, Shape, Moves, Busy
  <2>2. CASE u # t
    BY <2>2 DEF Basic, Shape, Moves, Others, Busy
  <2> QED
    BY <2>1, <2>2
<1>3. Stored'
  <2> SUFFICES ASSUME NEW u \in Tasks, Busy(u)' PROVE store'[task'[u].svc] = Target(u)'
    BY DEF Stored
  <2>1. Target(u)' = Target(u) /\ task'[u].svc = task[u].svc /\ Busy(u)
    BY DEF Moves, Others, Target, Busy
  <2> QED
    BY <2>1 DEF Basic, Stored
<1> QED
  BY <1>1, <1>2, <1>3 DEF Basic

(* A boot leaves no transaction. *)
LEMMA StartBasic ==
    ASSUME NEW config, Start(config)
    PROVE  Basic'
  BY StartEffect DEF Basic, Locked, Shape, Stored, Busy

LEMMA BasicStep == TypeOK /\ Basic /\ [Next]_vars => Basic'
<1> SUFFICES ASSUME TypeOK, Basic, [Next]_vars PROVE Basic'
  OBVIOUS
<1>1. ASSUME NEW t \in Tasks, NEW s \in Services, NEW v \in Requested(s), Begin(t, s, v) PROVE Basic'
<2>a. /\ task[t].pc = "idle" /\ access[s] = None /\ v # store[s]
      /\ task'[t].pc \in {"apply", "collect"} /\ (task'[t].pc = "apply" => s = "sensing")
      /\ task'[t].svc = s /\ task'[t].old = store[s] /\ task'[t].new = v
      /\ task'[t].at = 0 /\ task'[t].back = FALSE
      /\ \A u \in Tasks : u # t => task'[u] = task[u]
      /\ access'[s] = t /\ \A k \in Services : k # s => access'[k] = access[k]
      /\ store'[s] = v /\ \A k \in Services : k # s => store'[k] = store[k]
      /\ faults' = faults
  <3>1. Begun(t, s, v)
    BY <1>1, Begins
  <3> QED
    BY <3>1 DEF Begun, Others, OnlyAt
<2>2. Locked'
  BY <2>a, TypeFacts DEF Basic, Locked, Busy
<2>3. Shape'
  BY <2>a DEF Basic, Shape, Busy
<2>4. Stored'
  <3> SUFFICES ASSUME NEW u \in Tasks, Busy(u)' PROVE store'[task'[u].svc] = Target(u)'
    BY DEF Stored
  <3>1. CASE u = t
    BY <2>a, <3>1 DEF Target
  <3>2. CASE u # t
    <4>1. task'[u] = task[u] /\ Busy(u)
      BY <2>a, <3>2 DEF Busy
    <4>2. task[u].svc # s /\ task[u].svc \in Services
      BY <2>a, <4>1, TypeFacts DEF Basic, Locked
    <4> QED
      BY <2>a, <4>1, <4>2 DEF Basic, Stored, Target
  <3> QED
    BY <3>1, <3>2
<2> QED
  BY <2>2, <2>3, <2>4 DEF Basic
<1>2. ASSUME NEW t \in Tasks, Apply(t) PROVE Basic'
<2>1. PICK r \in ApplyRuntime(lastPersisted, task[t].new) :
        /\ Moves(t, IF r.ok THEN "collect" ELSE "restore")
        /\ IF r.ok THEN UNCHANGED faults ELSE faults' = faults + 1
  BY <1>2, ApplyEffect
<2>2. Busy(t) /\ task[t].at = 0 /\ ~task[t].back
  BY <1>2, ApplyEffect DEF Busy, Basic, Shape
<2> QED
  BY <1>2, <2>1, <2>2, TypeFacts, ApplyEffect, MovesBasic DEF Stages
<1>3. ASSUME NEW t \in Tasks, Reads(t) PROVE Basic'
<2>1. Locked'
  BY <1>3, TypeFacts, CollectEffect DEF Basic, Locked, Busy, Others
<2>2. Shape'
  <3>1. task[t].pc = "collect" /\ task'[t].pc \in {"collect", "write"}
    BY <1>3, CollectEffect
  <3>2. faults # 0 => faults' # 0
    BY <1>3, TypeFacts, CollectEffect
  <3> QED
    BY <1>3, <3>1, <3>2, CollectEffect DEF Basic, Shape, Busy, Others
<2>3. Stored'
  BY <1>3, CollectEffect DEF Basic, Stored, Busy, Others, Target
<2> QED
  BY <2>1, <2>2, <2>3 DEF Basic
<1>4. ASSUME NEW t \in Tasks, Persist(t) PROVE Basic'
<2>1. Busy(t) /\ task[t].at = 0
  BY <1>4, PersistEffect DEF Busy, Basic, Shape
<2> QED
  BY <1>4, <2>1, TypeFacts, PersistEffect, MovesBasic, EndsBasic DEF Stages, OnlyAt, Basic, Shape
<1>5. ASSUME NEW t \in Tasks, SaveFails(t) PROVE Basic'
<2>1. Busy(t) /\ task[t].at = 0
  BY <1>5, SaveFailsEffect DEF Busy, Basic, Shape
<2> QED
  BY <1>5, <2>1, TypeFacts, SaveFailsEffect, MovesBasic, EndsBasic DEF Stages, OnlyAt, Basic, Shape
<1>6. ASSUME NEW t \in Tasks, Revert(t) PROVE Basic'
<2>1. Busy(t) /\ task[t].at = 0
  BY <1>6, RevertEffect DEF Busy, Basic, Shape
<2> QED
  BY <1>6, <2>1, TypeFacts, RevertEffect, MovesBasic, EndsBasic DEF Stages, OnlyAt, Basic, Shape
<1>7. ASSUME NEW t \in Tasks, Install(t) PROVE Basic'
<2>1. Busy(t) /\ task[t].at = 0
  BY <1>7, InstallEffect DEF Busy, Basic, Shape
<2> QED
  BY <1>7, <2>1, TypeFacts, InstallEffect, MovesBasic, EndsBasic DEF Stages, OnlyAt, Basic, Shape
<1>8. ASSUME NEW t \in Tasks, InstallFails(t) PROVE Basic'
<2>1. Busy(t) /\ task[t].at = 0
  BY <1>8, InstallFailsEffect DEF Busy, Basic, Shape
<2> QED
  BY <1>8, <2>1, TypeFacts, InstallFailsEffect, MovesBasic, EndsBasic DEF Stages, OnlyAt, Basic, Shape
<1>9. ASSUME NEW t \in Tasks, Restore(t) PROVE Basic'
<2>1. Busy(t) /\ ~task[t].back /\ faults # 0
  BY <1>9, RestoreEffect DEF Busy, Basic, Shape
<2>2. CASE task[t].svc # "alarms"
  BY <1>9, <2>1, <2>2, RestoreEffect, EndsBasic
<2>3. CASE task[t].svc = "alarms"
  <3>a. /\ task'[t].pc = "collect" /\ task'[t].at = 0 /\ task'[t].back = TRUE
        /\ task'[t].svc = task[t].svc /\ task'[t].old = task[t].old /\ task'[t].new = task[t].new
        /\ \A u \in Tasks : u # t => task'[u] = task[u]
        /\ store'[task[t].svc] = task[t].old
        /\ \A k \in Services : k # task[t].svc => store'[k] = store[k]
        /\ access' = access /\ faults' = faults
    BY <1>9, <2>1, <2>3, RestoreEffect DEF Others, OnlyAt, Ends
  <3>1. Locked'
    BY <2>1, <3>a, TypeFacts DEF Basic, Locked, Busy
  <3>2. Shape'
    BY <2>1, <2>3, <3>a DEF Basic, Shape, Busy
  <3>3. Stored'
    <4> SUFFICES ASSUME NEW u \in Tasks, Busy(u)' PROVE store'[task'[u].svc] = Target(u)'
      BY DEF Stored
    <4>1. CASE u = t
      BY <3>a, <4>1 DEF Target
    <4>2. CASE u # t
      <5>1. task'[u] = task[u] /\ Busy(u)
        BY <3>a, <4>2 DEF Busy
      <5>2. task[u].svc # task[t].svc /\ task[u].svc \in Services
        BY <2>1, <4>2, <5>1, TypeFacts DEF Basic, Locked
      <5> QED
        BY <3>a, <5>1, <5>2 DEF Basic, Stored, Target
    <4> QED
      BY <4>1, <4>2
  <3> QED
    BY <3>1, <3>2, <3>3 DEF Basic
<2> QED
  BY <2>2, <2>3
<1>10. ASSUME NEW t \in Tasks, RestoreFails(t) PROVE Basic'
<2>1. Busy(t) /\ task[t].at = 0
  BY <1>10, RestoreFailsEffect DEF Busy, Basic, Shape
<2> QED
  BY <1>10, <2>1, TypeFacts, RestoreFailsEffect, MovesBasic, EndsBasic DEF Stages, OnlyAt, Basic, Shape
<1>11. ASSUME Ready \/ SleepNow PROVE Basic'
  BY <1>11 DEF Ready, SleepNow, Basic, Locked, Shape, Stored, Busy, Target, Past
<1>12. ASSUME Snapshot PROVE Basic'
  BY <1>12 DEF Snapshot, Basic, Locked, Shape, Stored, Busy, Target
<1>13. ASSUME WarmBoot \/ HydrateFails \/ ColdBoot PROVE Basic'
  BY <1>13, StartBasic DEF WarmBoot, HydrateFails, ColdBoot
<1>14. CASE UNCHANGED vars
  BY <1>14 DEF vars, Basic, Locked, Shape, Stored, Busy, Target
<1> QED
  BY <1>1, <1>2, <1>3, <1>4, <1>5, <1>6, <1>7, <1>8, <1>9, <1>10, <1>11, <1>12, <1>13, <1>14 DEF Next, TaskStep, Reads

-----------------------------------------------------------------------------
(* The settings the alarm service works with. *)
LEMMA AlarmsStep == TypeOK /\ Basic /\ Alarms /\ [Next]_vars => Alarms'
<1> SUFFICES ASSUME TypeOK, Basic, Alarms, [Next]_vars PROVE Alarms'
  OBVIOUS
<1>0. /\ None \notin Tasks /\ faults \in Nat
      /\ \A u \in Tasks : task[u].svc \in Services /\ (Busy(u) => access[task[u].svc] = u)
  BY TypeFacts DEF Basic, Locked
<1>1. ASSUME NEW t \in Tasks, NEW s \in Services, NEW v \in Requested(s), Begin(t, s, v) PROVE Alarms'
<2>1. Begun(t, s, v)
  BY <1>1, Begins
<2>2. CASE s = "alarms"
  <3>1. access'["alarms"] = t
    BY <2>1, <2>2 DEF Begun
  <3> QED
    BY <1>0, <3>1 DEF Alarms
<2>3. CASE s # "alarms"
  <3>1. access'["alarms"] = access["alarms"] /\ store'["alarms"] = store["alarms"]
        /\ UNCHANGED <<live, faults>>
    BY <2>1, <2>3 DEF Begun, OnlyAt
  <3> QED
    BY <3>1 DEF Alarms
<2> QED
  BY <2>2, <2>3
<1>2. ASSUME NEW t \in Tasks, Apply(t) PROVE Alarms'
<2>1. /\ live'["alarms"] = live["alarms"] /\ UNCHANGED <<store, access>>
      /\ faults' = faults \/ faults' = faults + 1
  BY <1>2, ApplyEffect DEF Moves
<2> QED
  BY <1>0, <2>1 DEF Alarms
<1>3. ASSUME NEW t \in Tasks, Reads(t) PROVE Alarms'
  BY <1>3, <1>0, CollectEffect DEF Alarms, Ends, Moves, OnlyAt, Basic, Shape, Stored, Busy, Target
<1>4. ASSUME NEW t \in Tasks, Persist(t) PROVE Alarms'
  BY <1>4, <1>0, PersistEffect DEF Alarms, Ends, Moves, OnlyAt, Basic, Shape, Stored, Busy, Target
<1>5. ASSUME NEW t \in Tasks, SaveFails(t) PROVE Alarms'
<2>1. faults' = faults + 1 /\ live' = live /\ store' = store
      /\ (access' = access \/ faults # 0)
  BY <1>5, SaveFailsEffect DEF Moves, Basic, Shape
<2> QED
  BY <1>0, <2>1 DEF Alarms
<1>6. ASSUME NEW t \in Tasks, Revert(t) PROVE Alarms'
<2>1. /\ live'["alarms"] = live["alarms"] /\ UNCHANGED <<store, access>>
      /\ faults' = faults \/ faults' = faults + 1
  BY <1>6, RevertEffect DEF Moves
<2> QED
  BY <1>0, <2>1 DEF Alarms
<1>7. ASSUME NEW t \in Tasks, Install(t) PROVE Alarms'
<2>1. task[t].svc = "alarms" /\ Busy(t)
  BY <1>7, InstallEffect DEF Basic, Shape, Busy
<2>2. live'["alarms"] = Target(t) /\ store' = store /\ store["alarms"] = Target(t)
  BY <1>7, <2>1, InstallEffect DEF Basic, Stored
<2> QED
  BY <2>2 DEF Alarms
<1>8. ASSUME NEW t \in Tasks, InstallFails(t) PROVE Alarms'
<2>1. /\ faults' = faults + 1
      /\ faults # 0 \/ access' = access
      /\ access["alarms"] = t
  <3>1. task[t].svc = "alarms" /\ Busy(t)
    BY <1>8, InstallFailsEffect DEF Basic, Shape, Busy
  <3> QED
    BY <1>8, <1>0, <3>1, InstallFailsEffect DEF Moves, Basic, Shape
<2> QED
  BY <1>0, <2>1 DEF Alarms
<1>9. ASSUME NEW t \in Tasks, Restore(t) PROVE Alarms'
<2>1. UNCHANGED <<live, faults>> /\ Busy(t) /\ store'[task[t].svc] = task[t].old
      /\ OnlyAt(store', store, task[t].svc)
  BY <1>9, RestoreEffect DEF Busy
<2>2. CASE task[t].svc = "alarms"
  <3>1. access' = access
    BY <1>9, <2>2, RestoreEffect
  <3> QED
    BY <1>0, <2>1, <2>2, <3>1 DEF Alarms
<2>3. CASE task[t].svc # "alarms"
  <3>1. Ends(t)
    BY <1>9, <2>3, RestoreEffect
  <3>2. access'["alarms"] = access["alarms"] /\ store'["alarms"] = store["alarms"]
    BY <2>1, <2>3, <3>1 DEF Ends, OnlyAt
  <3> QED
    BY <2>1, <3>2 DEF Alarms
<2> QED
  BY <2>2, <2>3
<1>10. ASSUME NEW t \in Tasks, RestoreFails(t) PROVE Alarms'
<2>1. faults' = faults + 1 /\ faults # 0
  BY <1>10, RestoreFailsEffect DEF Basic, Shape
<2> QED
  BY <1>0, <2>1 DEF Alarms
<1>11. ASSUME Ready \/ SleepNow PROVE Alarms'
  BY <1>11 DEF Ready, SleepNow, Alarms, Past
<1>12. ASSUME Snapshot PROVE Alarms'
  BY <1>12 DEF Snapshot, Alarms
<1>13. ASSUME WarmBoot \/ HydrateFails \/ ColdBoot PROVE Alarms'
  BY <1>13, StartEffect DEF WarmBoot, HydrateFails, ColdBoot, Alarms
<1>14. CASE UNCHANGED vars
  BY <1>14 DEF vars, Alarms
<1> QED
  BY <1>1, <1>2, <1>3, <1>4, <1>5, <1>6, <1>7, <1>8, <1>9, <1>10, <1>11, <1>12, <1>13, <1>14 DEF Next, TaskStep, Reads

-----------------------------------------------------------------------------
(* The settings the sensing worker runs on. *)

(* A step of another service's transaction. *)
LEMMA SensingKept ==
    ASSUME TypeOK, Basic, Sensing, NEW t \in Tasks, Others(t),
           Busy(t) => task[t].svc # "sensing", Busy(t)' => task'[t].svc # "sensing",
           access'["sensing"] = access["sensing"], store'["sensing"] = store["sensing"],
           live'["sensing"] = live["sensing"], lastPersisted' = lastPersisted,
           faults' = faults \/ faults' = faults + 1
    PROVE  Sensing'
<1>1. faults \in Nat
  BY TypeFacts
<1>2. \A u \in Tasks : Busy(u)' /\ task'[u].svc = "sensing" =>
          Busy(u) /\ task[u].svc = "sensing" /\ task'[u] = task[u]
  BY DEF Others, Busy
<1> QED
  BY <1>1, <1>2 DEF Sensing

(* The sensing transaction goes on. *)
LEMMA SensingMoved ==
    ASSUME TypeOK, Basic, NEW t \in Tasks, Others(t), task'[t].svc = "sensing",
           access'["sensing"] = t, access["sensing"] \in {t, None},
           faults' <= 1 =>
              /\ lastPersisted' = task'[t].old
              /\ task'[t].pc = "apply" =>
                    live'["sensing"] = task'[t].old \/ (faults' = 1 /\ live'["sensing"] = Off)
              /\ task'[t].pc \in {"collect", "write", "revert"} => live'["sensing"] = task'[t].new
              /\ task'[t].pc = "restore" => live'["sensing"] \in {task'[t].old, Off}
    PROVE  Sensing'
<1>1. None \notin Tasks
  OBVIOUS
<1>2. \A u \in Tasks : Busy(u)' /\ task'[u].svc = "sensing" => u = t
  BY <1>1 DEF Others, Busy, Basic, Locked
<1> QED
  BY <1>1, <1>2 DEF Sensing

(* The sensing transaction ends. *)
LEMMA SensingEnded ==
    ASSUME TypeOK, Basic, NEW t \in Tasks, Busy(t), task[t].svc = "sensing", Ends(t),
           faults' <= 1 =>
              /\ lastPersisted' = store'["sensing"]
              /\ live'["sensing"] = store'["sensing"] \/ (faults' = 1 /\ live'["sensing"] = Off)
    PROVE  Sensing'
<1>1. \A u \in Tasks : ~(Busy(u)' /\ task'[u].svc = "sensing")
  BY DEF Ends, Others, Busy, Basic, Locked
<1> QED
  BY <1>1 DEF Sensing

LEMMA SensingStep == TypeOK /\ Basic /\ Sensing /\ [Next]_vars => Sensing'
<1> SUFFICES ASSUME TypeOK, Basic, Sensing, [Next]_vars PROVE Sensing'
  OBVIOUS
<1>0. /\ None \notin Tasks /\ faults \in Nat
      /\ \A u \in Tasks : task[u].svc \in Services /\ (Busy(u) => access[task[u].svc] = u)
  BY TypeFacts DEF Basic, Locked
<1>1. ASSUME NEW t \in Tasks, NEW s \in Services, NEW v \in Requested(s), Begin(t, s, v) PROVE Sensing'
<2>1. Begun(t, s, v)
  BY <1>1, Begins
<2>2. CASE s = "sensing"
  <3>1. /\ Others(t) /\ task'[t].svc = "sensing" /\ task'[t].pc = "apply"
        /\ task'[t].old = store["sensing"]
        /\ access'["sensing"] = t /\ access["sensing"] = None
        /\ UNCHANGED <<live, lastPersisted, faults>>
    BY <2>1, <2>2 DEF Begun
  <3>2. faults <= 1 => /\ lastPersisted = store["sensing"]
                       /\ live["sensing"] = store["sensing"] \/ (faults = 1 /\ live["sensing"] = Off)
    BY <3>1 DEF Sensing
  <3> QED
    BY <3>1, <3>2, SensingMoved
<2>3. CASE s # "sensing"
  <3>1. /\ Others(t) /\ access'["sensing"] = access["sensing"]
        /\ store'["sensing"] = store["sensing"] /\ live' = live
        /\ lastPersisted' = lastPersisted /\ faults' = faults
        /\ ~Busy(t) /\ task'[t].svc # "sensing"
    BY <2>1, <2>3 DEF Begun, OnlyAt, Busy
  <3> QED
    BY <3>1, SensingKept
<2> QED
  BY <2>2, <2>3
<1>2. ASSUME NEW t \in Tasks, Apply(t) PROVE Sensing'
<2>1. task[t].svc = "sensing" /\ Busy(t) /\ access["sensing"] = t /\ task[t].old # task[t].new
      /\ task[t].pc = "apply"
  BY <1>2, <1>0, ApplyEffect DEF Basic, Shape, Busy
<2>2. PICK r \in ApplyRuntime(lastPersisted, task[t].new) :
        /\ live'["sensing"] = r.live
        /\ Moves(t, IF r.ok THEN "collect" ELSE "restore")
        /\ IF r.ok THEN UNCHANGED faults ELSE faults' = faults + 1
  BY <1>2, ApplyEffect
<2>3. faults <= 1 => /\ lastPersisted = task[t].old
                     /\ live["sensing"] = task[t].old \/ (faults = 1 /\ live["sensing"] = Off)
  BY <2>1 DEF Sensing
<2>4. /\ Others(t) /\ task'[t].svc = "sensing" /\ access'["sensing"] = t
      /\ lastPersisted' = lastPersisted /\ task'[t].old = task[t].old /\ task'[t].new = task[t].new
      /\ task'[t].pc = (IF r.ok THEN "collect" ELSE "restore")
  BY <1>2, <2>1, <2>2, ApplyEffect DEF Moves
<2>5. CASE r.ok
  <3>1. faults' = faults /\ task'[t].pc = "collect"
    BY <2>2, <2>4, <2>5
  <3>2. faults <= 1 => r.live = task[t].new
    BY <2>1, <2>2, <2>3, <2>5 DEF ApplyRuntime
  <3> QED
    BY <2>1, <2>2, <2>3, <2>4, <3>1, <3>2, SensingMoved
<2>6. CASE ~r.ok
  <3>1. faults' = faults + 1 /\ task'[t].pc = "restore"
    BY <2>2, <2>4, <2>6
  <3>2. r.live = Off
    BY <2>2, <2>6 DEF ApplyRuntime
  <3> QED
    BY <1>0, <2>1, <2>2, <2>3, <2>4, <3>1, <3>2, SensingMoved
<2> QED
  BY <2>5, <2>6
<1>3. ASSUME NEW t \in Tasks, Reads(t) PROVE Sensing'
<2>1. CASE task[t].svc = "sensing"
  <3>1. Busy(t) /\ access["sensing"] = t /\ task[t].pc = "collect"
    BY <1>3, <1>0, <2>1, CollectEffect DEF Busy
  <3>2. faults <= 1 => lastPersisted = task[t].old /\ live["sensing"] = task[t].new
    BY <2>1, <3>1 DEF Sensing
  <3>3. /\ Others(t) /\ task'[t].svc = "sensing" /\ task'[t].pc \in {"collect", "write"}
        /\ task'[t].old = task[t].old /\ task'[t].new = task[t].new
        /\ faults' = faults \/ faults' = faults + 1
        /\ UNCHANGED <<live, lastPersisted, access>>
    BY <1>3, <2>1, CollectEffect
  <3> QED
    BY <1>0, <3>1, <3>2, <3>3, SensingMoved
<2>2. CASE task[t].svc # "sensing"
  <3>1. /\ Others(t) /\ task'[t].svc # "sensing"
        /\ faults' = faults \/ faults' = faults + 1
        /\ UNCHANGED <<store, live, lastPersisted, access>>
    BY <1>3, <2>2, CollectEffect
  <3> QED
    BY <2>2, <3>1, SensingKept
<2> QED
  BY <2>1, <2>2
<1>4. ASSUME NEW t \in Tasks, Persist(t) PROVE Sensing'
<2>0. Busy(t) /\ task[t].pc = "write" /\ ~(task[t].svc = "sensing" /\ task[t].back)
  BY <1>4, PersistEffect DEF Busy, Basic, Shape
<2>2. CASE task[t].svc = "sensing"
  <3>1. faults <= 1 => live["sensing"] = task[t].new
    BY <2>0, <2>2 DEF Sensing
  <3>2. store["sensing"] = task[t].new
    BY <2>0, <2>2 DEF Basic, Stored, Target
  <3>3. Ends(t) /\ lastPersisted' = task[t].new /\ UNCHANGED <<store, live, faults>>
    BY <1>4, <2>2, PersistEffect
  <3> QED
    BY <2>0, <2>2, <3>1, <3>2, <3>3, SensingEnded
<2>1. CASE task[t].svc # "sensing"
  <3>1. Others(t) /\ access'["sensing"] = access["sensing"]
    BY <1>4, <1>0, <2>1, PersistEffect DEF Moves, Ends
  <3>2. /\ store'["sensing"] = store["sensing"] /\ live'["sensing"] = live["sensing"]
        /\ lastPersisted' = lastPersisted /\ faults' = faults
    BY <1>4, <1>0, <2>1, PersistEffect DEF OnlyAt
  <3>3. Busy(t)' => task'[t].svc # "sensing"
    BY <1>4, <2>1, PersistEffect DEF Moves, Ends, Busy
  <3> QED
    BY <2>1, <3>1, <3>2, <3>3, SensingKept
<2> QED
  BY <2>1, <2>2
<1>5. ASSUME NEW t \in Tasks, SaveFails(t) PROVE Sensing'
<2>0. Busy(t) /\ task[t].pc = "write" /\ ~(task[t].svc = "sensing" /\ task[t].back)
  BY <1>5, SaveFailsEffect DEF Busy, Basic, Shape
<2>2. CASE task[t].svc = "sensing"
  <3>1. faults <= 1 => lastPersisted = task[t].old /\ live["sensing"] = task[t].new
    BY <2>0, <2>2 DEF Sensing
  <3>2. Moves(t, "revert") /\ UNCHANGED <<store, live, lastPersisted>> /\ faults' = faults + 1
    BY <1>5, <2>0, <2>2, SaveFailsEffect
  <3>3. Others(t) /\ task'[t].svc = "sensing" /\ access'["sensing"] = t /\ access["sensing"] = t
        /\ task'[t].pc = "revert" /\ task'[t].old = task[t].old /\ task'[t].new = task[t].new
    BY <1>0, <2>0, <2>2, <3>2 DEF Moves
  <3> QED
    BY <1>0, <3>1, <3>2, <3>3, SensingMoved
<2>1. CASE task[t].svc # "sensing"
  <3>1. /\ Others(t) /\ access'["sensing"] = access["sensing"]
        /\ store'["sensing"] = store["sensing"] /\ live'["sensing"] = live["sensing"]
        /\ lastPersisted' = lastPersisted /\ (faults' = faults \/ faults' = faults + 1)
        /\ (Busy(t)' => task'[t].svc # "sensing")
    BY <1>5, <1>0, <2>1, SaveFailsEffect DEF Moves, Ends, OnlyAt, Busy, Basic, Shape
  <3> QED
    BY <2>1, <3>1, SensingKept
<2> QED
  BY <2>1, <2>2
<1>6. ASSUME NEW t \in Tasks, Revert(t) PROVE Sensing'
<2>1. task[t].svc = "sensing" /\ Busy(t) /\ access["sensing"] = t /\ task[t].old # task[t].new
      /\ task[t].pc = "revert" /\ faults # 0
  BY <1>6, <1>0, RevertEffect DEF Basic, Shape, Busy
<2>2. PICK r \in ApplyRuntime(task[t].new, lastPersisted) :
        /\ live'["sensing"] = r.live
        /\ IF r.ok THEN UNCHANGED faults ELSE faults' = faults + 1
  BY <1>6, RevertEffect
<2>3. faults <= 1 => lastPersisted = task[t].old /\ live["sensing"] = task[t].new
  BY <2>1 DEF Sensing
<2>4. /\ Others(t) /\ task'[t].svc = "sensing" /\ access'["sensing"] = t
      /\ lastPersisted' = lastPersisted /\ task'[t].old = task[t].old /\ task'[t].pc = "restore"
  BY <1>6, <2>1, RevertEffect DEF Moves
<2>5. CASE r.ok
  <3>1. faults <= 1 => r.live = task[t].old
    BY <2>1, <2>2, <2>3, <2>5 DEF ApplyRuntime
  <3> QED
    BY <2>1, <2>2, <2>3, <2>4, <2>5, <3>1, SensingMoved
<2>6. CASE ~r.ok
  BY <1>0, <2>1, <2>2, <2>4, <2>6, SensingMoved
<2> QED
  BY <2>5, <2>6
<1>7. ASSUME NEW t \in Tasks, Install(t) PROVE Sensing'
<2>1. task[t].svc \in Services \ {"sensing"} /\ Ends(t)
      /\ live'["sensing"] = live["sensing"] /\ UNCHANGED <<store, lastPersisted, faults>>
  BY <1>7, <1>0, InstallEffect DEF Basic, Shape
<2>2. Others(t) /\ ~Busy(t)' /\ access'["sensing"] = access["sensing"]
  BY <2>1 DEF Ends, Busy
<2> QED
  BY <2>1, <2>2, SensingKept
<1>8. ASSUME NEW t \in Tasks, InstallFails(t) PROVE Sensing'
<2>1. task[t].svc # "sensing"
  BY <1>8, InstallFailsEffect DEF Basic, Shape
<2>2. /\ Others(t) /\ access'["sensing"] = access["sensing"]
      /\ store'["sensing"] = store["sensing"] /\ live'["sensing"] = live["sensing"]
      /\ lastPersisted' = lastPersisted /\ (faults' = faults \/ faults' = faults + 1)
      /\ (Busy(t)' => task'[t].svc # "sensing")
  BY <1>8, <1>0, <2>1, InstallFailsEffect DEF Moves, Ends, OnlyAt, Busy, Basic, Shape
<2> QED
  BY <2>1, <2>2, SensingKept
<1>9. ASSUME NEW t \in Tasks, Restore(t) PROVE Sensing'
<2>0. Busy(t) /\ task[t].pc = "restore" /\ faults # 0
  BY <1>9, RestoreEffect DEF Busy, Basic, Shape
<2>2. CASE task[t].svc = "sensing"
  <3>1. faults <= 1 => lastPersisted = task[t].old /\ live["sensing"] \in {task[t].old, Off}
    BY <2>0, <2>2 DEF Sensing
  <3>2. Ends(t) /\ store'["sensing"] = task[t].old /\ UNCHANGED <<live, lastPersisted, faults>>
    BY <1>9, <2>2, RestoreEffect
  <3> QED
    BY <1>0, <2>0, <2>2, <3>1, <3>2, SensingEnded
<2>1. CASE task[t].svc # "sensing"
  <3>1. Others(t) /\ access'["sensing"] = access["sensing"]
    BY <1>9, <1>0, <2>1, RestoreEffect DEF Moves, Ends
  <3>2. /\ store'["sensing"] = store["sensing"] /\ live'["sensing"] = live["sensing"]
        /\ lastPersisted' = lastPersisted /\ faults' = faults
    BY <1>9, <1>0, <2>1, RestoreEffect DEF OnlyAt
  <3>3. Busy(t)' => task'[t].svc # "sensing"
    BY <1>9, <2>1, RestoreEffect DEF Moves, Ends, Busy
  <3> QED
    BY <2>1, <3>1, <3>2, <3>3, SensingKept
<2> QED
  BY <2>1, <2>2
<1>10. ASSUME NEW t \in Tasks, RestoreFails(t) PROVE Sensing'
<2>0. Busy(t) /\ faults # 0 /\ faults' = faults + 1
  BY <1>10, RestoreFailsEffect DEF Busy, Basic, Shape
<2> QED
  BY <1>0, <2>0 DEF Sensing
<1>11. ASSUME Ready \/ SleepNow PROVE Sensing'
  BY <1>11 DEF Ready, SleepNow, Sensing, Busy, Past
<1>12. ASSUME Snapshot PROVE Sensing'
  BY <1>12 DEF Snapshot, Sensing, Busy
<1>13. ASSUME WarmBoot \/ HydrateFails \/ ColdBoot PROVE Sensing'
  BY <1>13, StartEffect DEF WarmBoot, HydrateFails, ColdBoot, Sensing, Busy
<1>14. CASE UNCHANGED vars
  BY <1>14 DEF vars, Sensing, Busy
<1> QED
  BY <1>1, <1>2, <1>3, <1>4, <1>5, <1>6, <1>7, <1>8, <1>9, <1>10, <1>11, <1>12, <1>13, <1>14 DEF Next, TaskStep, Reads

-----------------------------------------------------------------------------
(* A section of a document is empty only after a failing step. *)

(* A step that leaves the file alone, and a transaction's document unless it ends. *)
LEMMA FullKept ==
    ASSUME TypeOK, Full, NEW t \in Tasks, Others(t), file' = file,
           faults' = faults \/ faults' = faults + 1,
           task'[t].doc = task[t].doc \/ task'[t].doc = Idle.doc
    PROVE  Full'
<1>1. Idle.doc \in [Services -> Versions]
  BY DEF Idle, Versions
<1>2. faults' = 0 => faults = 0
  BY TypeFacts
<1>3. ASSUME faults' = 0, NEW u \in Tasks PROVE task'[u].doc \in [Services -> Versions]
  BY <1>1, <1>2, <1>3 DEF Full, Others
<1> QED
  BY <1>2, <1>3 DEF Full

LEMMA FullStep == TypeOK /\ Full /\ [Next]_vars => Full'
<1> SUFFICES ASSUME TypeOK, Full, [Next]_vars PROVE Full'
  OBVIOUS
<1>0. Idle.doc \in [Services -> Versions] /\ faults \in Nat
  BY TypeFacts DEF Idle, Versions
<1>1. ASSUME NEW t \in Tasks, NEW s \in Services, NEW v \in Requested(s), Begin(t, s, v) PROVE Full'
<2>1. Begun(t, s, v)
  BY <1>1, Begins
<2>2. Others(t) /\ file' = file /\ faults' = faults /\ task'[t].doc = Idle.doc
  BY <2>1 DEF Begun
<2> QED
  BY <2>2, FullKept
<1>2. ASSUME NEW t \in Tasks, Apply(t) PROVE Full'
<2>1. /\ Others(t) /\ file' = file /\ task'[t].doc = task[t].doc
      /\ faults' = faults \/ faults' = faults + 1
  BY <1>2, ApplyEffect DEF Moves
<2> QED
  BY <2>1, FullKept
<1>3. ASSUME NEW t \in Tasks, Reads(t) PROVE Full'
<2>1. Others(t) /\ file' = file
  BY <1>3, CollectEffect
<2>2. PICK c \in Contents :
         /\ task'[t].doc = [task[t].doc EXCEPT ![Section(t)] = c]
         /\ \/ faults' = faults /\ c = IF HandedOver(t) THEN Target(t) ELSE store[Section(t)]
            \/ faults' = faults + 1 /\ c = Blank /\ ~HandedOver(t)
  BY <1>3, CollectEffect
<2>3. ASSUME faults' = 0 PROVE faults = 0 /\ task'[t].doc \in [Services -> Versions]
  <3>1. faults = 0 /\ c \in Versions
    BY <1>0, <2>2, <2>3, SectionTypes
  <3>2. task[t].doc \in [Services -> Versions]
    BY <3>1 DEF Full
  <3> QED
    BY <2>2, <3>1, <3>2
<2> QED
  BY <2>1, <2>3 DEF Full, Others
<1>4. ASSUME NEW t \in Tasks, Persist(t) PROVE Full'
<2>1. /\ file' = task[t].doc /\ faults' = faults /\ Others(t)
      /\ task'[t].doc = task[t].doc \/ task'[t].doc = Idle.doc
  BY <1>4, PersistEffect DEF Moves, Ends
<2>2. ASSUME faults = 0, NEW u \in Tasks PROVE task'[u].doc \in [Services -> Versions]
  BY <1>0, <2>1, <2>2 DEF Full, Others
<2> QED
  BY <2>1, <2>2 DEF Full
<1>5. ASSUME NEW t \in Tasks, SaveFails(t) PROVE Full'
  BY <1>5, SaveFailsEffect, FullKept DEF Moves, Ends
<1>6. ASSUME NEW t \in Tasks, Revert(t) PROVE Full'
<2>1. /\ Others(t) /\ file' = file /\ task'[t].doc = task[t].doc
      /\ faults' = faults \/ faults' = faults + 1
  BY <1>6, RevertEffect DEF Moves
<2> QED
  BY <2>1, FullKept
<1>7. ASSUME NEW t \in Tasks, Install(t) PROVE Full'
  BY <1>7, InstallEffect, FullKept DEF Ends
<1>8. ASSUME NEW t \in Tasks, InstallFails(t) PROVE Full'
  BY <1>8, InstallFailsEffect, FullKept DEF Moves, Ends
<1>9. ASSUME NEW t \in Tasks, Restore(t) PROVE Full'
  BY <1>9, RestoreEffect, FullKept DEF Ends
<1>10. ASSUME NEW t \in Tasks, RestoreFails(t) PROVE Full'
  BY <1>10, RestoreFailsEffect, FullKept DEF Ends
<1>11. ASSUME Ready \/ SleepNow \/ Snapshot PROVE Full'
  BY <1>11 DEF Ready, SleepNow, Snapshot, Past, Full
<1>12. ASSUME WarmBoot \/ HydrateFails \/ ColdBoot PROVE Full'
<2>1. /\ file' = file /\ \A t \in Tasks : task'[t].doc = Idle.doc
      /\ faults' = faults \/ faults' = faults + 1
  BY <1>12, StartEffect DEF WarmBoot, HydrateFails, ColdBoot, Fault
<2> QED
  BY <1>0, <2>1 DEF Full
<1>13. CASE UNCHANGED vars
  BY <1>13 DEF vars, Full
<1> QED
  BY <1>1, <1>2, <1>3, <1>4, <1>5, <1>6, <1>7, <1>8, <1>9, <1>10, <1>11, <1>12, <1>13
  DEF Next, TaskStep, Reads

-----------------------------------------------------------------------------
(* The store, the file, the RTC slot and the answers. *)

(* A transaction nothing disturbs is alone. *)
LEMMA Alone ==
    ASSUME TypeOK, Basic, Settled, Undisturbed, NEW t \in Tasks, Busy(t)
    PROVE  /\ ~asleep /\ ~booting /\ Underway(t)
           /\ \A u \in Tasks : Busy(u) => u = t
           /\ \A s \in Services \ {task[t].svc} : access[s] = None /\ Agree(s)
<1>1. /\ ~asleep /\ ~booting /\ Underway(t)
      /\ \A u \in Tasks : Busy(u) => u = t
      /\ \A s \in Services : access[s] = None => Agree(s)
  BY DEF Settled
<1>2. \A s \in Services \ {task[t].svc} : access[s] = None
  BY <1>1, TypeFacts DEF Basic, Locked
<1> QED
  BY <1>1, <1>2

(* What a step of a transaction has to keep. *)
LEMMA SettledTask ==
    ASSUME TypeOK, Basic, Settled, NEW t \in Tasks, Busy(t), Others(t),
           UNCHANGED <<asleep, booting, disturbed>>, faults' = faults \/ faults' = faults + 1,
           \A s \in Services \ {task[t].svc} : access'[s] = access[s],
           Undisturbed' =>
              /\ \A s \in Services \ {task[t].svc} : Agree(s)'
              /\ access'[task[t].svc] = None =>
                    /\ \/ file'[task[t].svc] = store'[task[t].svc]
                       \/ file'[task[t].svc] = Blank /\ faults' = 1
                    /\ store'[task[t].svc] = told'[task[t].svc]
              /\ Busy(t)' => Underway(t)'
    PROVE  Settled'
<1> SUFFICES ASSUME Undisturbed'
             PROVE  /\ \A u, w \in Tasks : Busy(u)' /\ Busy(w)' => u = w
                    /\ ~asleep' /\ ~booting'
                    /\ \A s \in Services : access'[s] = None => Agree(s)'
                    /\ \A u \in Tasks : Busy(u)' => Underway(u)'
  BY DEF Settled
<1>1. Undisturbed
  BY TypeFacts DEF Undisturbed
<1>2. \A u \in Tasks : Busy(u)' => u = t
  BY <1>1, Alone DEF Others, Busy
<1>3. ~asleep' /\ ~booting'
  BY <1>1, Alone
<1>4. task[t].svc \in Services
  BY TypeFacts
<1>5. \A s \in Services : access'[s] = None => Agree(s)'
  BY <1>4 DEF Agree, Has
<1> QED
  BY <1>2, <1>3, <1>5

(* A step that leaves the store, the file and the answers alone. *)
LEMMA SettledMoved ==
    ASSUME TypeOK, Basic, Settled, NEW t \in Tasks, Busy(t), Others(t),
           UNCHANGED <<asleep, booting, disturbed, store, file, told, access>>,
           faults' = faults \/ faults' = faults + 1,
           Undisturbed' => Underway(t)'
    PROVE  Settled'
<1>1. access[task[t].svc] # None
  BY TypeFacts DEF Basic, Locked
<1>2. ASSUME Undisturbed' PROVE \A s \in Services \ {task[t].svc} : Agree(s)'
  <2>1. Undisturbed
    BY <1>2, TypeFacts DEF Undisturbed
  <2>2. faults \in Nat /\ faults' <= 1
    BY <1>2, TypeFacts DEF Undisturbed
  <2> QED
    BY <2>1, <2>2, Alone DEF Agree, Has
<1> QED
  BY <1>1, <1>2, SettledTask

(* A wake finds the settings as they were: the sections in the slot and those in the file. *)
Retrieved == [s \in Services |-> IF s \in Retained THEN slot[s] ELSE Loaded[s]]

LEMMA Woken ==
    ASSUME TypeOK, Basic, Settled, Undisturbed, asleep, slot # None
    PROVE  /\ \A s \in Services : Agree(s)
           /\ \A s \in Retained : Retrieved[s] = store[s]
<1>1. /\ \A t \in Tasks : ~Busy(t)
      /\ \A s \in Retained : slot[s] = store[s]
  BY DEF Settled
<1>2. \A s \in Services : access[s] = None
  BY <1>1, TypeFacts DEF Basic, Locked
<1> QED
  BY <1>1, <1>2 DEF Settled, Retrieved

(* What is loaded is what the file has, but for an emptied section. *)
LEMMA LoadedFile ==
    ASSUME NEW s \in Services
    PROVE  \/ Loaded[s] = file[s] /\ file[s] # Blank
           \/ Loaded[s] = 0 /\ file[s] = Blank
  BY DEF Loaded

LEMMA SettledStep == TypeOK /\ Basic /\ Full /\ Settled /\ [Next]_vars => Settled'
<1> SUFFICES ASSUME TypeOK, Basic, Full, Settled, [Next]_vars PROVE Settled'
  OBVIOUS
<1>0. /\ None \notin Tasks /\ faults \in Nat
      /\ \A u \in Tasks : task[u].svc \in Services /\ (Busy(u) => access[task[u].svc] = u)
  BY TypeFacts DEF Basic, Locked
<1>a. Len(Sections) = 3 /\ Sections[1] = "sensing" /\ Sections[2] = "alarms" /\ Sections[3] = "udp"
  BY DEF Sections
<1>1. ASSUME NEW t \in Tasks, NEW s \in Services, NEW v \in Requested(s), Begin(t, s, v) PROVE Settled'
<2>1. Begun(t, s, v) /\ ~booting /\ disturbed' = (disturbed \/ asleep \/ \E u \in Tasks : Busy(u))
  BY <1>1, Begins DEF Begin
<2>2. SUFFICES ASSUME Undisturbed'
               PROVE  /\ \A u, w \in Tasks : Busy(u)' /\ Busy(w)' => u = w
                      /\ ~asleep' /\ ~booting'
                      /\ \A k \in Services : access'[k] = None => Agree(k)'
                      /\ \A u \in Tasks : Busy(u)' => Underway(u)'
  BY DEF Settled
<2>3. faults' = faults
  BY <2>1 DEF Begun
<2>4. Undisturbed /\ ~asleep /\ \A u \in Tasks : ~Busy(u)
  BY <2>1, <2>2, <2>3 DEF Undisturbed
<2>5. \A k \in Services : access[k] = None /\ Agree(k)
  BY <1>0, <2>4, TypeFacts DEF Settled, Basic, Locked
<2>6. \A u \in Tasks : Busy(u)' => u = t
  BY <2>1, <2>4 DEF Begun, Others, Busy
<2>7. ~asleep' /\ ~booting'
  BY <2>1, <2>4 DEF Begun
<2>8. ASSUME NEW k \in Services, access'[k] = None PROVE Agree(k)'
  <3>1. k # s
    BY <1>0, <2>1, <2>8 DEF Begun
  <3> QED
    BY <2>1, <2>5, <3>1 DEF Begun, OnlyAt, Agree, Has
<2>9. Underway(t)'
  <3>1. /\ task'[t].svc = s /\ task'[t].old = store[s] /\ task'[t].at = 0
        /\ task'[t].pc \notin {"write", "install"}
        /\ file[s] = store[s] \/ (file[s] = Blank /\ faults = 1)
        /\ file' = file /\ told'[s] = store[s] /\ faults' = faults
    BY <2>1, <2>5 DEF Begun, Agree, Has
  <3>2. Copied(t)'
    BY <1>a, <3>1 DEF Copied
  <3> QED
    BY <3>1, <3>2 DEF Underway, Has
<2> QED
  BY <2>6, <2>7, <2>8, <2>9
<1>2. ASSUME NEW t \in Tasks, Apply(t) PROVE Settled'
<2>1. /\ Busy(t) /\ Others(t) /\ UNCHANGED <<asleep, booting, disturbed, store, file, told, access>>
      /\ (faults' = faults \/ faults' = faults + 1)
      /\ task'[t].svc = task[t].svc /\ task'[t].old = task[t].old /\ task'[t].back = task[t].back
  BY <1>2, ApplyEffect DEF Busy, Moves
<2>2. SUFFICES ASSUME Undisturbed' PROVE Underway(t)'
  BY <1>0, <2>1, SettledMoved
<2>3. Undisturbed
  BY <1>0, <2>1, <2>2 DEF Undisturbed
<2>4. Underway(t)
  BY <2>1, <2>3, Alone
<2>5. task'[t].pc \in {"collect", "restore"} /\ task[t].pc = "apply" /\ task[t].at = 0
      /\ task[t].svc = "sensing" /\ task'[t].at = task[t].at
  BY <1>2, ApplyEffect DEF Moves, Basic, Shape
<2>6. Copied(t)' \/ task'[t].pc = "restore"
  BY <1>a, <2>5 DEF Copied
<2> QED
  BY <1>0, <2>1, <2>2, <2>4, <2>5, <2>6 DEF Underway, Has, Undisturbed
<1>3. ASSUME NEW t \in Tasks, Reads(t) PROVE Settled'
<2>1. /\ Busy(t) /\ Others(t) /\ UNCHANGED <<asleep, booting, disturbed, store, file, told, access>>
      /\ (faults' = faults \/ faults' = faults + 1)
      /\ task'[t].svc = task[t].svc /\ task'[t].old = task[t].old /\ task'[t].back = task[t].back
  BY <1>3, CollectEffect DEF Busy, Moves
<2>2. SUFFICES ASSUME Undisturbed' PROVE Underway(t)'
  BY <1>0, <2>1, SettledMoved
<2>3. Undisturbed /\ faults' <= 1
  BY <1>0, <2>1, <2>2 DEF Undisturbed
<2>4. Underway(t)
  BY <2>1, <2>3, Alone
<2>5. /\ task[t].pc = "collect" /\ task[t].at \in 0 .. 2
      /\ task'[t].pc = (IF task[t].at = 2 THEN "write" ELSE "collect")
      /\ task'[t].at = (IF task[t].at = 2 THEN 0 ELSE task[t].at + 1)
  BY <1>3, CollectEffect
<2>6. PICK c \in Contents :
         /\ task'[t].doc = [task[t].doc EXCEPT ![Section(t)] = c]
         /\ \/ faults' = faults /\ c = IF HandedOver(t) THEN Target(t) ELSE store[Section(t)]
            \/ faults' = faults + 1 /\ c = Blank /\ ~HandedOver(t)
  BY <1>3, CollectEffect
<2> DEFINE n == task[t].at + 1
<2>7. /\ task'[t].doc[Sections[n]] = c
      /\ \A i \in 1 .. 3 : i # n => task'[t].doc[Sections[i]] = task[t].doc[Sections[i]]
  <3>1. n \in 1 .. 3 /\ Section(t) = Sections[n] /\ task[t].doc \in [Services -> Contents]
    BY <1>a, <2>5, SectionTypes DEF TypeOK
  <3>2. \A i \in 1 .. 3 : i # n => Sections[i] # Sections[n] /\ Sections[i] \in Services
    BY <1>a, <3>1
  <3>3. Sections[n] \in Services
    BY <1>a, <3>1
  <3> QED
    BY <2>6, <3>1, <3>2, <3>3
<2>8. /\ c = store[Sections[n]] \/ (c = Blank /\ faults' = 1)
      /\ task[t].svc = "alarms" /\ Sections[n] = "alarms" => c = store["alarms"]
  <3>1. store["alarms"] = Target(t) \/ task[t].svc # "alarms"
    BY <2>1 DEF Basic, Stored
  <3>2. Section(t) = Sections[n]
    BY SectionTypes
  <3> QED
    BY <1>0, <2>3, <2>6, <3>1, <3>2 DEF HandedOver
<2>9. \A i \in 1 .. 3 : i <= task[t].at =>
          /\ task[t].doc[Sections[i]] = store[Sections[i]] \/ (task[t].doc[Sections[i]] = Blank /\ faults' = 1)
          /\ task[t].svc = "alarms" /\ Sections[i] = "alarms" => task[t].doc["alarms"] = store["alarms"]
  <3>1. Copied(t)
    BY <2>4, <2>5 DEF Underway
  <3>2. faults = 1 => faults' = 1
    BY <1>0, <2>1, <2>3
  <3> QED
    BY <1>a, <3>1, <3>2 DEF Copied, Has
<2>10. \A i \in 1 .. 3 : i <= n =>
          /\ task'[t].doc[Sections[i]] = store[Sections[i]] \/ (task'[t].doc[Sections[i]] = Blank /\ faults' = 1)
          /\ task[t].svc = "alarms" /\ Sections[i] = "alarms" => task'[t].doc["alarms"] = store["alarms"]
  <3> SUFFICES ASSUME NEW i \in 1 .. 3, i <= n
               PROVE  /\ \/ task'[t].doc[Sections[i]] = store[Sections[i]]
                         \/ task'[t].doc[Sections[i]] = Blank /\ faults' = 1
                      /\ task[t].svc = "alarms" /\ Sections[i] = "alarms" =>
                            task'[t].doc["alarms"] = store["alarms"]
    OBVIOUS
  <3>1. CASE i = n
    BY <2>7, <2>8, <3>1
  <3>2. CASE i # n
    BY <2>5, <2>7, <2>9, <3>2
  <3> QED
    BY <3>1, <3>2
<2>11. Copied(t)'
  <3>1. \A i \in 1 .. 3 : task'[t].pc = "write" \/ i <= task'[t].at => i <= n
    BY <2>5
  <3> QED
    BY <1>a, <2>1, <2>10, <3>1 DEF Copied, Has
<2>12. /\ told'[task'[t].svc] = task'[t].old
       /\ ~task'[t].back => Has(file[task[t].svc], task[t].old)
  BY <2>1, <2>4, <2>5 DEF Underway
<2>13. ~task'[t].back => Has(file[task[t].svc], task[t].old)'
  BY <1>0, <2>1, <2>3, <2>12 DEF Has
<2> QED
  BY <2>1, <2>5, <2>11, <2>12, <2>13 DEF Underway
<1>4. ASSUME NEW t \in Tasks, Persist(t) PROVE Settled'
<2>1. /\ Busy(t) /\ task[t].pc = "write" /\ file' = task[t].doc /\ task[t].svc \in Services
      /\ UNCHANGED <<asleep, booting, disturbed, store, faults>>
      /\ (task[t].back => task[t].svc = "alarms")
  BY <1>4, <1>0, PersistEffect DEF Busy, Basic, Shape
<2>2. ASSUME Undisturbed'
      PROVE  /\ told[task[t].svc] = task[t].old
             /\ \A s \in Services : Has(file'[s], store[s])
             /\ task[t].svc = "alarms" => file'["alarms"] = store["alarms"]
             /\ \A s \in Services \ {task[t].svc} : store[s] = told[s]
  <3>1. Undisturbed
    BY <2>1, <2>2 DEF Undisturbed
  <3>2. Underway(t) /\ \A s \in Services \ {task[t].svc} : Agree(s)
    BY <2>1, <3>1, Alone
  <3>3. /\ \A i \in 1 .. 3 : Has(task[t].doc[Sections[i]], store[Sections[i]])
        /\ task[t].svc = "alarms" => task[t].doc["alarms"] = store["alarms"]
    BY <1>a, <2>1, <3>2 DEF Underway, Copied
  <3> QED
    BY <1>a, <2>1, <3>2, <3>3 DEF Agree, Underway
<2>3. store[task[t].svc] = Target(t)
  BY <2>1 DEF Basic, Stored
<2>4. CASE task[t].svc = "alarms"
  <3>1. /\ task'[t].pc = "install" /\ task'[t].svc = "alarms" /\ task'[t].old = task[t].old
        /\ task'[t].new = task[t].new /\ task'[t].back = task[t].back
        /\ Others(t) /\ UNCHANGED <<access, told>>
    BY <1>4, <2>4, PersistEffect DEF Moves
  <3>2. Undisturbed' => Underway(t)'
    BY <2>1, <2>2, <2>3, <2>4, <3>1 DEF Underway, Target
  <3>3. Undisturbed' => \A s \in Services \ {task[t].svc} : Agree(s)'
    BY <2>1, <2>2, <3>1 DEF Agree, Has
  <3> QED
    BY <1>0, <2>1, <2>4, <3>1, <3>2, <3>3, SettledTask
<2>5. CASE task[t].svc # "alarms"
  <3>1. /\ Ends(t) /\ told'[task[t].svc] = task[t].new /\ OnlyAt(told', told, task[t].svc)
        /\ ~task[t].back
    BY <1>4, <2>1, <2>5, PersistEffect
  <3>2. Undisturbed' =>
            /\ file'[task[t].svc] = store'[task[t].svc] \/ (file'[task[t].svc] = Blank /\ faults' = 1)
            /\ store'[task[t].svc] = told'[task[t].svc]
    BY <2>1, <2>2, <2>3, <3>1 DEF Target, Has
  <3>3. Undisturbed' => \A s \in Services \ {task[t].svc} : Agree(s)'
    BY <2>1, <2>2, <3>1 DEF Agree, OnlyAt, Has
  <3> QED
    BY <2>1, <3>1, <3>2, <3>3, SettledTask DEF Ends, Busy
<2> QED
  BY <2>4, <2>5
<1>5. ASSUME NEW t \in Tasks, SaveFails(t) PROVE Settled'
<2>1. /\ Busy(t) /\ task[t].pc = "write" /\ faults' = faults + 1
      /\ (task[t].back => faults # 0)
  BY <1>5, SaveFailsEffect DEF Busy, Basic, Shape
<2>2. CASE task[t].back
  BY <1>0, <2>1, <2>2 DEF Settled, Undisturbed
<2>3. CASE ~task[t].back
  <3>1. /\ Moves(t, IF task[t].svc = "sensing" THEN "revert" ELSE "restore")
        /\ UNCHANGED <<asleep, booting, disturbed, store, file, told>>
    BY <1>5, <2>3, SaveFailsEffect
  <3>2. SUFFICES ASSUME Undisturbed' PROVE Underway(t)'
    BY <2>1, <3>1, SettledMoved DEF Moves
  <3>3. Underway(t)
    BY <1>0, <2>1, <3>1, <3>2, Alone DEF Undisturbed
  <3>4. /\ task'[t].svc = task[t].svc /\ task'[t].old = task[t].old
        /\ task'[t].pc \in {"revert", "restore"}
    BY <3>1 DEF Moves
  <3> QED
    BY <1>0, <2>1, <2>3, <3>1, <3>2, <3>3, <3>4 DEF Underway, Has, Undisturbed
<2> QED
  BY <2>2, <2>3
<1>6. ASSUME NEW t \in Tasks, Revert(t) PROVE Settled'
<2>1. /\ Busy(t) /\ Others(t) /\ UNCHANGED <<asleep, booting, disturbed, store, file, told, access>>
      /\ (faults' = faults \/ faults' = faults + 1)
      /\ task'[t].svc = task[t].svc /\ task'[t].old = task[t].old /\ task'[t].back = task[t].back
  BY <1>6, RevertEffect DEF Busy, Moves
<2>2. SUFFICES ASSUME Undisturbed' PROVE Underway(t)'
  BY <1>0, <2>1, SettledMoved
<2>3. Undisturbed
  BY <1>0, <2>1, <2>2 DEF Undisturbed
<2>4. Underway(t)
  BY <2>1, <2>3, Alone
<2>5. task'[t].pc = "restore" /\ task[t].pc = "revert" /\ task[t].svc = "sensing"
  BY <1>6, RevertEffect DEF Moves, Basic, Shape
<2> QED
  BY <1>0, <2>1, <2>2, <2>4, <2>5 DEF Underway, Has, Undisturbed
<1>7. ASSUME NEW t \in Tasks, Install(t) PROVE Settled'
<2>1. /\ Busy(t) /\ Ends(t) /\ task[t].pc = "install" /\ task[t].svc = "alarms"
      /\ UNCHANGED <<asleep, booting, disturbed, store, file, faults>>
  BY <1>7, InstallEffect DEF Busy, Basic, Shape
<2>2. /\ OnlyAt(told', told, "alarms")
      /\ told'["alarms"] = IF task[t].back THEN told["alarms"] ELSE task[t].new
  BY <1>7, <2>1, InstallEffect DEF OnlyAt
<2>3. SUFFICES ASSUME Undisturbed'
               PROVE  /\ \A s \in Services \ {"alarms"} : Agree(s)'
                      /\ file'["alarms"] = store'["alarms"] /\ store'["alarms"] = told'["alarms"]
  BY <2>1, SettledTask DEF Ends, Busy
<2>4. Undisturbed
  BY <2>1, <2>3 DEF Undisturbed
<2>5. Underway(t) /\ \A s \in Services \ {"alarms"} : Agree(s)
  BY <2>1, <2>4, Alone
<2>6. store["alarms"] = Target(t)
  BY <2>1 DEF Basic, Stored
<2>7. \A s \in Services \ {"alarms"} : Agree(s)'
  BY <2>1, <2>2, <2>5 DEF Agree, OnlyAt, Has
<2> QED
  BY <2>1, <2>2, <2>5, <2>6, <2>7 DEF Underway, Target
<1>8. ASSUME NEW t \in Tasks, InstallFails(t) PROVE Settled'
<2>1. /\ Busy(t) /\ task[t].pc = "install" /\ faults' = faults + 1 /\ task[t].svc = "alarms"
      /\ (task[t].back => faults # 0)
  BY <1>8, InstallFailsEffect DEF Busy, Basic, Shape
<2>2. CASE task[t].back
  BY <1>0, <2>1, <2>2 DEF Settled, Undisturbed
<2>3. CASE ~task[t].back
  <3>1. Moves(t, "restore") /\ UNCHANGED <<asleep, booting, disturbed, store, file, told>>
    BY <1>8, <2>3, InstallFailsEffect
  <3>2. SUFFICES ASSUME Undisturbed' PROVE Underway(t)'
    BY <2>1, <3>1, SettledMoved DEF Moves
  <3>3. Underway(t)
    BY <1>0, <2>1, <3>1, <3>2, Alone DEF Undisturbed
  <3>4. task'[t].svc = "alarms" /\ task'[t].old = task[t].old /\ task'[t].pc = "restore"
    BY <2>1, <3>1 DEF Moves
  <3> QED
    BY <2>1, <3>1, <3>3, <3>4 DEF Underway, Has
<2> QED
  BY <2>2, <2>3
<1>9. ASSUME NEW t \in Tasks, Restore(t) PROVE Settled'
<2>1. /\ Busy(t) /\ task[t].pc = "restore" /\ ~task[t].back
      /\ store'[task[t].svc] = task[t].old /\ OnlyAt(store', store, task[t].svc)
      /\ UNCHANGED <<asleep, booting, disturbed, file, told, faults>>
  BY <1>9, RestoreEffect DEF Busy, Basic, Shape
<2>2. ASSUME Undisturbed' PROVE Underway(t) /\ \A s \in Services \ {task[t].svc} : Agree(s)'
  <3>1. Undisturbed
    BY <2>1, <2>2 DEF Undisturbed
  <3> QED
    BY <2>1, <3>1, Alone DEF Agree, OnlyAt, Has
<2>3. CASE task[t].svc = "alarms"
  <3>1. /\ task'[t].pc = "collect" /\ task'[t].at = 0 /\ task'[t].back = TRUE
        /\ task'[t].svc = "alarms" /\ task'[t].old = task[t].old
        /\ Others(t) /\ UNCHANGED access
    BY <1>9, <2>3, RestoreEffect
  <3>2. Undisturbed' => Underway(t)'
    <4>1. Copied(t)'
      BY <1>a, <3>1 DEF Copied
    <4> QED
      BY <2>1, <2>2, <2>3, <3>1, <4>1 DEF Underway
  <3> QED
    BY <1>0, <2>1, <2>2, <2>3, <3>1, <3>2, SettledTask
<2>4. CASE task[t].svc # "alarms"
  <3>1. Ends(t)
    BY <1>9, <2>4, RestoreEffect
  <3>2. Undisturbed' =>
            /\ file'[task[t].svc] = store'[task[t].svc] \/ (file'[task[t].svc] = Blank /\ faults' = 1)
            /\ store'[task[t].svc] = told'[task[t].svc]
    BY <2>1, <2>2, <2>4 DEF Underway, Has
  <3> QED
    BY <2>1, <2>2, <3>1, <3>2, SettledTask DEF Ends, Busy
<2> QED
  BY <2>3, <2>4
<1>10. ASSUME NEW t \in Tasks, RestoreFails(t) PROVE Settled'
<2>1. faults # 0 /\ faults' = faults + 1
  BY <1>10, RestoreFailsEffect DEF Basic, Shape
<2> QED
  BY <1>0, <2>1 DEF Settled, Undisturbed
<1>11. ASSUME Ready \/ SleepNow PROVE Settled'
<2>1. /\ UNCHANGED <<store, file, slot, access, task, told, faults, disturbed>>
      /\ booting /\ booting' \in BOOLEAN
  BY <1>11 DEF Ready, SleepNow, Past, TypeOK
<2>2. ASSUME NEW t \in Tasks PROVE (Busy(t)' <=> Busy(t)) /\ (Underway(t)' <=> Underway(t))
  BY <2>1 DEF Busy, Underway, Copied, Has, Target
<2>3. (Undisturbed' <=> Undisturbed) /\ \A s \in Services : Agree(s)' <=> Agree(s)
  BY <2>1 DEF Undisturbed, Agree, Has
<2> QED
  BY <2>1, <2>2, <2>3 DEF Settled
<1>12. ASSUME Snapshot PROVE Settled'
<2>1. /\ UNCHANGED <<store, file, access, task, told, faults>>
      /\ disturbed' = (disturbed \/ \E t \in Tasks : Busy(t))
      /\ slot' = [s \in Retained |-> store[s]] \/ slot' = None
  BY <1>12 DEF Snapshot
<2>2. SUFFICES ASSUME Undisturbed'
               PROVE  /\ \A t \in Tasks : ~Busy(t)'
                      /\ slot' # None => \A s \in Retained : slot'[s] = store'[s]
                      /\ \A s \in Services : access'[s] = None => Agree(s)'
  BY DEF Settled
<2>3. Undisturbed /\ \A t \in Tasks : ~Busy(t)
  BY <2>1, <2>2 DEF Undisturbed
<2>4. \A t \in Tasks : ~Busy(t)'
  BY <2>1, <2>3 DEF Busy
<2>5. \A s \in Services : access'[s] = None => Agree(s)'
  BY <2>1, <2>3 DEF Settled, Agree, Has
<2> QED
  BY <2>1, <2>4, <2>5
<1>13. ASSUME NEW config, Start(config),
              Undisturbed' => /\ \A s \in Services : config[s] = file[s] \/ (file[s] = Blank /\ faults' = 1)
                              /\ slot' # None => \A s \in Retained : slot'[s] = config[s]
       PROVE  Settled'
<2>1. /\ \A t \in Tasks : ~Busy(t)'
      /\ store' = config /\ told' = config /\ file' = file
  BY <1>13, StartEffect DEF Busy
<2>2. ASSUME Undisturbed' PROVE \A s \in Services : Agree(s)'
  BY <1>13, <2>1, <2>2 DEF Agree, Has
<2> SUFFICES ASSUME Undisturbed'
             PROVE  /\ \A t \in Tasks : ~Busy(t)'
                    /\ slot' # None => \A s \in Retained : slot'[s] = store'[s]
                    /\ \A s \in Services : access'[s] = None => Agree(s)'
  BY DEF Settled
<2> QED
  BY <1>13, <2>1, <2>2
<1>15. ASSUME WarmBoot PROVE Settled'
<2>1. Start(Retrieved) /\ asleep /\ slot # None /\ UNCHANGED <<slot, faults, disturbed>>
  BY <1>15 DEF WarmBoot, Retrieved
<2>2. ASSUME Undisturbed' PROVE \A s \in Services : Retrieved[s] = file[s] \/ (file[s] = Blank /\ faults' = 1)
  <3>1. Undisturbed
    BY <2>1, <2>2 DEF Undisturbed
  <3>2. ASSUME NEW s \in Services PROVE Retrieved[s] = file[s] \/ (file[s] = Blank /\ faults = 1)
    <4>1. Agree(s) /\ (s \in Retained => Retrieved[s] = store[s])
      BY <2>1, <3>1, Woken
    <4>2. s \notin Retained => Retrieved[s] = Loaded[s]
      BY DEF Retrieved
    <4>3. file[s] = Blank => faults = 1
      BY <4>1 DEF Agree, Has, TypeOK, Blank, Versions
    <4> QED
      BY <4>1, <4>2, <4>3, LoadedFile DEF Agree, Has
  <3> QED
    BY <2>1, <3>2
<2>3. \A s \in Retained : slot'[s] = Retrieved[s]
  BY <2>1 DEF Retrieved
<2> QED
  BY <1>13, <2>1, <2>2, <2>3
<1>16. ASSUME HydrateFails PROVE Settled'
<2>1. Start(Loaded) /\ asleep /\ slot # None /\ faults' = faults + 1 /\ UNCHANGED <<slot, disturbed>>
  BY <1>16 DEF HydrateFails, Fault
<2>2. ASSUME Undisturbed'
      PROVE  /\ \A s \in Services : Loaded[s] = file[s] \/ (file[s] = Blank /\ faults' = 1)
             /\ \A s \in Retained : slot'[s] = Loaded[s]
  <3>1. Undisturbed /\ faults = 0
    BY <1>0, <2>1, <2>2 DEF Undisturbed
  <3>2. ASSUME NEW s \in Services PROVE file[s] = store[s] /\ file[s] # Blank
    <4>1. Agree(s)
      BY <2>1, <3>1, Woken
    <4>2. file[s] \in Versions /\ file[s] # Blank
      BY <3>1 DEF Full, Blank, Versions
    <4> QED
      BY <3>1, <4>1, <4>2 DEF Agree, Has
  <3>3. \A s \in Retained : slot[s] = store[s]
    BY <2>1, <3>1 DEF Settled
  <3>4. \A s \in Services : Loaded[s] = file[s]
    BY <3>2, LoadedFile
  <3> QED
    BY <2>1, <3>2, <3>3, <3>4
<2> QED
  BY <1>13, <2>1, <2>2
<1>17. ASSUME ColdBoot PROVE Settled'
<2>1. Start(Loaded) /\ slot' = None /\ faults' = faults
  BY <1>17 DEF ColdBoot
<2>2. ASSUME Undisturbed', NEW s \in Services
      PROVE  Loaded[s] = file[s] \/ (file[s] = Blank /\ faults' = 1)
  <3>1. file[s] = Blank => faults # 0
    BY DEF Full, Blank, Versions
  <3>2. faults <= 1
    BY <2>1, <2>2 DEF Undisturbed
  <3> QED
    BY <1>0, <2>1, <3>1, <3>2, LoadedFile
<2> QED
  BY <1>13, <2>1, <2>2
<1>14. CASE UNCHANGED vars
  BY <1>14 DEF vars, Settled, Undisturbed, Busy, Underway, Copied, Agree, Target, Has
<1> QED
  BY <1>1, <1>2, <1>3, <1>4, <1>5, <1>6, <1>7, <1>8, <1>9, <1>10, <1>11, <1>12, <1>14, <1>15, <1>16, <1>17
  DEF Next, TaskStep, Reads

-----------------------------------------------------------------------------
(* The theorems. *)

LEMMA InitInv == Init => IInv
<1> SUFFICES ASSUME Init PROVE IInv
  OBVIOUS
<1>1. TypeOK
  <2>1. 0 \in Versions /\ 0 \in 0 .. MaxFaults /\ 0 \in 0 .. MaxRestarts
    BY DEF Versions
  <2>2. Idle \in Transactions
    BY <2>1 DEF Idle, Transactions, Stages, Contents, Sections
  <2>3. task \in [Tasks -> Transactions]
    BY <2>2 DEF Init
  <2> QED
    BY <2>1, <2>3 DEF Init, TypeOK, Transactions, Stages, Contents
<1>2. \A t \in Tasks : task[t] = Idle /\ ~Busy(t)
  BY DEF Init, Busy, Idle
<1>3. Locked /\ Stored
  BY <1>2 DEF Init, Locked, Stored
<1>4. Shape
  <2>1. \A t \in Tasks : task[t].pc = "idle" /\ task[t].at = 0 /\ task[t].back = FALSE
    BY DEF Init, Idle
  <2> QED
    BY <2>1 DEF Shape, Busy
<1>5. Sensing /\ Alarms /\ Settled
  BY <1>2 DEF Init, Sensing, Alarms, Settled, Agree, Has
<1>6. Full
  <2>1. file \in [Services -> Versions] /\ Idle.doc \in [Services -> Versions]
    BY DEF Init, Idle, Versions
  <2> QED
    BY <1>2, <2>1 DEF Full
<1> QED
  BY <1>1, <1>3, <1>4, <1>5, <1>6 DEF IInv

LEMMA StepInv == IInv /\ [Next]_vars => IInv'
  BY TypeStep, BasicStep, SensingStep, AlarmsStep, FullStep, SettledStep DEF IInv, Basic

LEMMA Invariance == Spec => []IInv
  BY InitInv, StepInv, PTL DEF Spec

(* Every field of the store, the transactions and the boot state has its type. *)
THEOREM TypeCorrect == Spec => []TypeOK
<1>1. IInv => TypeOK
  BY DEF IInv
<1> QED
  BY <1>1, Invariance, PTL

(* A service at rest runs on the settings in the store, whatever the other   *)
(* services' transactions do and wherever one step fails, except that the    *)
(* failing step may have stopped the sensing worker (the order of apply,     *)
(* save, revert and restore in the update handlers).                         *)
THEOREM LiveFollows == Spec => []LiveFollowsStore
<1>1. IInv => LiveFollowsStore
  BY DEF IInv, LiveFollowsStore, Sensing, Alarms
<1> QED
  BY <1>1, Invariance, PTL

(* With at most one failing step and no overlap, a service no transaction is *)
(* changing has one version in the store and the last answer, after a roll   *)
(* back too, and the file has that version, or an empty section if the       *)
(* failing step was the read of it by a save (RtcStatefulService,            *)
(* AlarmSettingsService, withConfig).                                        *)
THEOREM SettledVersions == Spec => []SettledAgree
<1>1. IInv => SettledAgree
  BY DEF IInv, SettledAgree, Settled, Agree, Has
<1> QED
  BY <1>1, Invariance, PTL

(* No boot brings up a service with settings other than the last it          *)
(* acknowledged, unless it was being changed or a save emptied its section   *)
(* of the file, and then with none; not from a slot kept over several wakes  *)
(* and a sleep without a snapshot either (prepareForSleep, initConfig,       *)
(* SleepService, PowerApiService).                                           *)
THEOREM RestartKeeps == Spec => RestartKeepsAcknowledged
<1>1. ASSUME IInv, Next, restarts' # restarts, Undisturbed, NEW s \in Services, access[s] = None
      PROVE  store'[s] = told[s] \/ (file[s] = Blank /\ store'[s] = 0)
  <2>0. Agree(s)
    BY <1>1 DEF IInv, Settled
  <2>1. CASE WarmBoot
    <3>1. store' = Retrieved /\ asleep /\ slot # None
      BY <2>1, StartEffect DEF WarmBoot, Retrieved
    <3>2. s \in Retained => Retrieved[s] = store[s]
      BY <1>1, <3>1, Woken DEF IInv, Basic
    <3>3. s \notin Retained => Retrieved[s] = Loaded[s]
      BY DEF Retrieved
    <3> QED
      BY <2>0, <3>1, <3>2, <3>3, LoadedFile DEF Agree, Has
  <2>2. CASE HydrateFails \/ ColdBoot
    <3>1. store' = Loaded
      BY <2>2, StartEffect DEF HydrateFails, ColdBoot
    <3> QED
      BY <2>0, <3>1, LoadedFile DEF Agree, Has
  <2>3. CASE Ready \/ SleepNow \/ Snapshot
    BY <1>1, <2>3 DEF Ready, SleepNow, Snapshot
  <2>4. CASE \E t \in Tasks, k \in Services : \E v \in Requested(k) : Begin(t, k, v)
    BY <1>1, <2>4 DEF Begin
  <2>5. CASE \E t \in Tasks : TaskStep(t)
    BY <1>1, <2>5 DEF TaskStep, Apply, Collect, CollectFails, Persist, SaveFails, Revert, Install,
                      InstallFails, Restore, RestoreFails, Boot
  <2> QED
    BY <1>1, <2>1, <2>2, <2>3, <2>4, <2>5 DEF Next
<1>2. IInv /\ [Next]_vars =>
          [restarts' # restarts /\ Undisturbed =>
              \A s \in Services :
                  access[s] = None =>
                      \/ store'[s] = told[s]
                      \/ file[s] = Blank /\ store'[s] = 0]_vars
  BY <1>1
<1> QED
  BY <1>2, Invariance, PTL DEF Spec, RestartKeepsAcknowledged

=============================================================================
