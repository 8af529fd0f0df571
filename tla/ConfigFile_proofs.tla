-------------------------- MODULE ConfigFile_proofs --------------------------
(***************************************************************************)
(* Proofs about ConfigFile for any set of savers and any bounds.           *)
(***************************************************************************)
EXTENDS ConfigFile, TLAPS

(* The FS mutex is held by exactly the saver that is in the locked part. *)
LockInv ==
    \A s \in Savers : (pc[s] \in Locked) <=> (owner = s)

(* What the holder knows of the temporary file, with no short writes. *)
TmpInv ==
    \A s \in Savers :
        pc[s] \in {"dropOldBak", "backup", "promote", "restore"} /\ shorts = 0 =>
            tmp = doc[s]

(* Where the document the save found is, stage by stage. *)
FoundInv ==
    /\ shorts = 0 => cfg # Torn /\ bak # Torn /\ found # Torn
    /\ \A s \in Savers :
        /\ pc[s] \in {"open", "write", "dropOldBak", "backup"} => cfg = found
        /\ pc[s] = "backup" /\ bak # Absent => faults >= 1
        /\ pc[s] \in {"promote", "restore"} => cfg = Absent
        /\ pc[s] \in {"promote", "restore"} /\ found # Absent => bak = found
        /\ pc[s] = "promote" /\ found = Absent /\ bak # Absent => faults >= 1
        /\ pc[s] = "restore" => faults >= 1
        /\ pc[s] = "restore" /\ found = Absent /\ bak # Absent => faults >= 2

(* What a boot would find is whole outside a save, and so is what a running *)
(* save found.                                                              *)
BootInv ==
    acked # Default /\ faults <= 1 /\ shorts = 0 =>
        IF owner \in Savers THEN found \in Nat ELSE cfg \in Nat

(* Which file is whole, stage by stage, while at most one thing went wrong. *)
WholeInv ==
    everSaved /\ faults + cuts <= 1 /\ shorts = 0 =>
        /\ owner \notin Savers => cfg \in Nat \/ (bak \in Nat /\ cuts = 1)
        /\ \A s \in Savers :
            /\ pc[s] \in {"open", "write", "dropOldBak", "discard"} =>
                    cfg \in Nat \/ (bak \in Nat /\ cuts = 1)
            /\ pc[s] = "backup" => cfg \in Nat \/ cuts = 1
            /\ pc[s] = "promote" => bak \in Nat \/ cuts = 1
            /\ pc[s] = "restore" => bak \in Nat

IInv ==
    /\ TypeOK
    /\ LockInv
    /\ TmpInv
    /\ PromotedIsOwn
    /\ FoundInv
    /\ FailedSaveKeepsFile
    /\ BootInv
    /\ WholeInv

(* Every step of a saver, of the other lock user and every power loss keeps *)
(* the types (ConfigPersistence.cpp, writeConfigDocumentAtomically).        *)
LEMMA TypeStep == TypeOK /\ [Next]_vars => TypeOK'
<1> SUFFICES ASSUME TypeOK, [Next]_vars PROVE TypeOK'
  OBVIOUS
<1> USE ConfigFileAssumption DEF TypeOK, Contents, Stages, Locked, Default,
        Goto, Fault, files, Newer, Loaded
<1>1. ASSUME NEW s \in Savers, Change(s) PROVE TypeOK'
  BY <1>1 DEF Change
<1>2. ASSUME NEW s \in Savers, Build(s) PROVE TypeOK'
  BY <1>2 DEF Build
<1>3. ASSUME NEW s \in Savers, Lock(s) PROVE TypeOK'
  BY <1>3 DEF Lock
<1>4. ASSUME NEW s \in Savers, LockTimeout(s) PROVE TypeOK'
  BY <1>4 DEF LockTimeout
<1>5. ASSUME NEW s \in Savers, OpenTmp(s) PROVE TypeOK'
  BY <1>5 DEF OpenTmp
<1>6. ASSUME NEW s \in Savers, OpenFails(s) PROVE TypeOK'
  BY <1>6 DEF OpenFails
<1>7. ASSUME NEW s \in Savers, WriteWhole(s) PROVE TypeOK'
  BY <1>7 DEF WriteWhole
<1>8. ASSUME NEW s \in Savers, WriteRejected(s) PROVE TypeOK'
  BY <1>8 DEF WriteRejected
<1>9. ASSUME NEW s \in Savers, DropOldBak(s) PROVE TypeOK'
  BY <1>9 DEF DropOldBak
<1>10. ASSUME NEW s \in Savers, Backup(s) PROVE TypeOK'
  BY <1>10 DEF Backup
<1>11. ASSUME NEW s \in Savers, BackupFails(s) PROVE TypeOK'
  BY <1>11 DEF BackupFails
<1>12. ASSUME NEW s \in Savers, Promote(s) PROVE TypeOK'
  BY <1>12 DEF Promote
<1>13. ASSUME NEW s \in Savers, PromoteFails(s) PROVE TypeOK'
  BY <1>13 DEF PromoteFails
<1>14. ASSUME NEW s \in Savers, Restore(s) PROVE TypeOK'
  BY <1>14 DEF Restore
<1>15. ASSUME NEW s \in Savers, RestoreFails(s) PROVE TypeOK'
  BY <1>15 DEF RestoreFails
<1>16. ASSUME NEW s \in Savers, Discard(s) PROVE TypeOK'
  BY <1>16 DEF Discard
<1>17. ASSUME NEW s \in Savers, DropBak(s) PROVE TypeOK'
  BY <1>17 DEF DropBak
<1>18. ASSUME NEW s \in Savers, WriteShort(s) PROVE TypeOK'
  BY <1>18 DEF WriteShort
<1>19. CASE OtherLocks
  BY <1>19 DEF OtherLocks
<1>20. CASE OtherUnlocks
  BY <1>20 DEF OtherUnlocks
<1>21. CASE PowerLoss
  BY <1>21 DEF PowerLoss
<1>22. CASE UNCHANGED vars
  BY <1>22 DEF vars
<1> QED
  BY <1>1, <1>2, <1>3, <1>4, <1>5, <1>6, <1>7, <1>8, <1>9, <1>10, <1>11, <1>12, <1>13, <1>14, <1>15, <1>16, <1>17, <1>18, <1>19, <1>20, <1>21, <1>22 DEF Next, Save

LEMMA SumMono ==
    \A a, b, c \in Nat : a <= b /\ b + c <= 1 => a + c <= 1
  OBVIOUS

(* The inductive step: every action keeps IInv. *)
LEMMA InvStep == IInv /\ [Next]_vars => IInv'
<1> SUFFICES ASSUME IInv, [Next]_vars PROVE IInv'
  OBVIOUS
<1> USE ConfigFileAssumption
<1>0. TypeOK /\ TypeOK'
  BY TypeStep DEF IInv
<1> DEFINE Rest == LockInv /\ TmpInv /\ PromotedIsOwn /\ FoundInv
                     /\ FailedSaveKeepsFile /\ BootInv /\ WholeInv
<1> USE DEF IInv, TypeOK, LockInv, TmpInv, PromotedIsOwn, FoundInv,
        FailedSaveKeepsFile, BootInv, WholeInv, Contents, Stages, Locked,
        Default, Goto, Fault, files, Newer, Loaded
<1>1. ASSUME NEW s \in Savers, Change(s) PROVE Rest'
  BY <1>0, <1>1 DEF Change
<1>2. ASSUME NEW s \in Savers, Build(s) PROVE Rest'
  BY <1>0, <1>2 DEF Build
<1>3. ASSUME NEW s \in Savers, Lock(s) PROVE Rest'
  BY <1>0, <1>3 DEF Lock
<1>4. ASSUME NEW s \in Savers, LockTimeout(s) PROVE Rest'
  BY <1>0, <1>4 DEF LockTimeout
<1>5. ASSUME NEW s \in Savers, OpenTmp(s) PROVE Rest'
  BY <1>0, <1>5 DEF OpenTmp
<1>6. ASSUME NEW s \in Savers, OpenFails(s) PROVE Rest'
  BY <1>0, <1>6 DEF OpenFails
<1>7. ASSUME NEW s \in Savers, WriteWhole(s) PROVE Rest'
  BY <1>0, <1>7 DEF WriteWhole
<1>8. ASSUME NEW s \in Savers, WriteRejected(s) PROVE Rest'
  BY <1>0, <1>8 DEF WriteRejected
<1>9. ASSUME NEW s \in Savers, DropOldBak(s) PROVE Rest'
  <2>1. LockInv' /\ TmpInv' /\ PromotedIsOwn'
    BY <1>0, <1>9 DEF DropOldBak
  <2>2. FoundInv'
    BY <1>0, <1>9 DEF DropOldBak
  <2>3. FailedSaveKeepsFile'
    BY <1>0, <1>9 DEF DropOldBak
  <2>4. BootInv'
    BY <1>0, <1>9 DEF DropOldBak
  <2>5. WholeInv'
    <3>1. /\ faults \in Nat /\ cuts \in Nat /\ faults' \in Nat /\ cuts' \in Nat
          /\ faults <= faults' /\ cuts' = cuts
      BY <1>0, <1>9 DEF DropOldBak
    <3>2. faults' + cuts' <= 1 => faults + cuts <= 1
      BY <3>1, SumMono
    <3> QED
      BY <1>0, <1>9, <3>1, <3>2, SMTT(30) DEF DropOldBak
  <2> QED
    BY <2>1, <2>2, <2>3, <2>4, <2>5
<1>10. ASSUME NEW s \in Savers, Backup(s) PROVE Rest'
  BY <1>0, <1>10 DEF Backup
<1>11. ASSUME NEW s \in Savers, BackupFails(s) PROVE Rest'
  BY <1>0, <1>11 DEF BackupFails
<1>12. ASSUME NEW s \in Savers, Promote(s) PROVE Rest'
  BY <1>0, <1>12 DEF Promote
<1>13. ASSUME NEW s \in Savers, PromoteFails(s) PROVE Rest'
  BY <1>0, <1>13 DEF PromoteFails
<1>14. ASSUME NEW s \in Savers, Restore(s) PROVE Rest'
  <2>1. LockInv' /\ TmpInv' /\ PromotedIsOwn'
    BY <1>0, <1>14 DEF Restore
  <2>2. FoundInv'
    BY <1>0, <1>14 DEF Restore
  <2>3. FailedSaveKeepsFile'
    BY <1>0, <1>14 DEF Restore
  <2>4. BootInv'
    BY <1>0, <1>14 DEF Restore
  <2>5. WholeInv'
    BY <1>0, <1>14 DEF Restore
  <2> QED
    BY <2>1, <2>2, <2>3, <2>4, <2>5
<1>15. ASSUME NEW s \in Savers, RestoreFails(s) PROVE Rest'
  <2>1. LockInv' /\ TmpInv' /\ PromotedIsOwn'
    BY <1>0, <1>15 DEF RestoreFails
  <2>2. FoundInv'
    BY <1>0, <1>15 DEF RestoreFails
  <2>3. FailedSaveKeepsFile'
    BY <1>0, <1>15 DEF RestoreFails
  <2>4. BootInv'
    BY <1>0, <1>15 DEF RestoreFails
  <2>5. WholeInv'
    BY <1>0, <1>15 DEF RestoreFails
  <2> QED
    BY <2>1, <2>2, <2>3, <2>4, <2>5
<1>16. ASSUME NEW s \in Savers, Discard(s) PROVE Rest'
  <2>1. LockInv' /\ TmpInv' /\ PromotedIsOwn'
    BY <1>0, <1>16 DEF Discard
  <2>2. FoundInv'
    BY <1>0, <1>16 DEF Discard
  <2>3. FailedSaveKeepsFile'
    BY <1>0, <1>16 DEF Discard
  <2>4. BootInv'
    BY <1>0, <1>16 DEF Discard
  <2>5. WholeInv'
    <3>1. /\ faults \in Nat /\ cuts \in Nat /\ faults' \in Nat /\ cuts' \in Nat
          /\ faults <= faults' /\ cuts' = cuts
      BY <1>0, <1>16 DEF Discard
    <3>2. faults' + cuts' <= 1 => faults + cuts <= 1
      BY <3>1, SumMono
    <3> QED
      BY <1>0, <1>16, <3>1, <3>2, SMTT(30) DEF Discard
  <2> QED
    BY <2>1, <2>2, <2>3, <2>4, <2>5
<1>17. ASSUME NEW s \in Savers, DropBak(s) PROVE Rest'
  <2>1. LockInv' /\ TmpInv' /\ PromotedIsOwn'
    BY <1>0, <1>17 DEF DropBak
  <2>2. FoundInv'
    BY <1>0, <1>17 DEF DropBak
  <2>3. FailedSaveKeepsFile'
    BY <1>0, <1>17 DEF DropBak
  <2>4. BootInv'
    BY <1>0, <1>17 DEF DropBak
  <2>5. WholeInv'
    BY <1>0, <1>17 DEF DropBak
  <2> QED
    BY <2>1, <2>2, <2>3, <2>4, <2>5
<1>18. CASE OtherLocks
  BY <1>0, <1>18 DEF OtherLocks
<1>19. CASE OtherUnlocks
  BY <1>0, <1>19 DEF OtherUnlocks
<1>20. CASE PowerLoss
  BY <1>0, <1>20 DEF PowerLoss
<1>21. CASE UNCHANGED vars
  BY <1>0, <1>21 DEF vars
<1>22. ASSUME NEW s \in Savers, WriteShort(s) PROVE Rest'
  BY <1>0, <1>22 DEF WriteShort
<1> QED
  BY <1>0, <1>1, <1>2, <1>3, <1>4, <1>5, <1>6, <1>7, <1>8, <1>9, <1>10, <1>11, <1>12, <1>13, <1>14, <1>15, <1>16, <1>17, <1>18, <1>19, <1>20, <1>21, <1>22 DEF Next, Save

LEMMA TypeInit == Init => TypeOK
<1>1. Init => everSaved \in BOOLEAN
  BY Zenon DEF Init
<1> QED
  BY <1>1, ConfigFileAssumption DEF Init, TypeOK, Contents, Stages, Locked, Default

LEMMA InvInit == Init => IInv
  BY TypeInit, ConfigFileAssumption
  DEF Init, IInv, LockInv, TmpInv, PromotedIsOwn, FoundInv,
      FailedSaveKeepsFile, BootInv, WholeInv, Contents, Stages, Locked, Default

LEMMA Inductive == Spec => []IInv
  BY InvInit, InvStep, PTL DEF Spec

-----------------------------------------------------------------------------
(* The types hold whatever the filesystem does, for any savers and bounds. *)
THEOREM TypeCorrect == Spec => []TypeOK
  BY TypeInit, TypeStep, PTL DEF Spec

(* As long as no write was cut short, a save that returns true has its own  *)
(* document in config.json, for any number of savers, failures and cuts.    *)
THEOREM SavedIsOwn == Spec => []PromotedIsOwn
<1>1. IInv => PromotedIsOwn
  BY DEF IInv
<1> QED
  BY <1>1, Inductive, PTL

(* A save that fails leaves config.json as it found it. *)
THEOREM FailedSaveHarmless == Spec => []FailedSaveKeepsFile
<1>1. IInv => FailedSaveKeepsFile
  BY DEF IInv
<1> QED
  BY <1>1, Inductive, PTL

(* Between saves a cold boot finds what was saved. *)
THEOREM IdleBootable == Spec => []BootableWhenIdle
<1>1. IInv => BootableWhenIdle
  BY DEF IInv, BootInv, BootableWhenIdle
<1> QED
  BY <1>1, Inductive, PTL

(* One failure or one power loss never destroys every copy of the           *)
(* configuration: the file that is whole is the one WholeInv names, and     *)
(* while the temporary file is the only one, TmpInv says it is complete.    *)
THEOREM OneFaultSurvived == Spec => []SurvivesOneFault
<1>1. IInv => SurvivesOneFault
  <2> SUFFICES ASSUME IInv, everSaved, faults + cuts <= 1, shorts = 0
               PROVE  \E file \in {tmp, cfg, bak} : file \in Nat
    BY DEF SurvivesOneFault
  <2> USE DEF IInv
  <2>1. CASE owner \notin Savers
    BY <2>1 DEF WholeInv
  <2>2. CASE owner \in Savers
    <3>1. PICK s \in Savers : owner = s
      BY <2>2
    <3>2. pc[s] \in Locked /\ doc[s] \in Nat
      BY <3>1 DEF LockInv, TypeOK
    <3>3. CASE pc[s] \in {"dropOldBak", "backup", "promote", "restore"}
      BY <3>2, <3>3 DEF TmpInv
    <3>4. CASE pc[s] = "dropBak"
      BY <3>2, <3>4 DEF PromotedIsOwn
    <3>5. CASE pc[s] \in {"open", "write", "discard"}
      BY <3>5 DEF WholeInv
    <3> QED
      BY <3>2, <3>3, <3>4, <3>5 DEF Locked
  <2> QED
    BY <2>1, <2>2
<1> QED
  BY <1>1, Inductive, PTL


-----------------------------------------------------------------------------
(* The refinement of ConfigStore. *)

Trusted == faults <= 1 /\ shorts = 0

(* Only the holder of the mutex can be between the renames. *)
LEMMA StoredIs ==
    ASSUME LockInv, NEW s \in Savers, pc[s] \in Locked
    PROVE  Stored = IF pc[s] \in {"promote", "restore"} THEN found ELSE cfg
BY DEF LockInv, Stored, Locked

LEMMA StoredNext ==
    ASSUME LockInv', NEW s \in Savers, pc'[s] \in Locked
    PROVE  Stored' = IF pc'[s] \in {"promote", "restore"} THEN found' ELSE cfg'
BY DEF LockInv, Stored, Locked

LEMMA StoredIdle ==
    ASSUME LockInv, owner \notin Savers
    PROVE  Stored = cfg
BY DEF LockInv, Stored, Locked

LEMMA StoredIdleNext ==
    ASSUME LockInv', owner' \notin Savers
    PROVE  Stored' = cfg'
BY DEF LockInv, Stored, Locked

(* A saver that stays outside the mutex does not move what is stored. *)
LEMMA StoredSame ==
    ASSUME UNCHANGED <<cfg, found>>, NEW s \in Savers, TypeOK, NEW to,
           pc' = [pc EXCEPT ![s] = to],
           pc[s] \in {"promote", "restore"} <=> to \in {"promote", "restore"}
    PROVE  Stored' = Stored
<1>1. \A k \in Savers : pc'[k] \in {"promote", "restore"} <=> pc[k] \in {"promote", "restore"}
  BY DEF TypeOK
<1> QED
  BY <1>1 DEF Stored

(* One saver moves on in the abstract sense, or none does. *)
LEMMA StageMoves ==
    ASSUME TypeOK, NEW s \in Savers, NEW from, NEW to, Goto(s, from, to),
           NEW a, NEW b,
           a = IF from \in {"idle", "build"} THEN "idle"
               ELSE IF from = "dropBak" THEN "stored" ELSE "asked",
           b = IF to \in {"idle", "build"} THEN "idle"
               ELSE IF to = "dropBak" THEN "stored" ELSE "asked"
    PROVE  /\ Store!Becomes(s, a, b)
           /\ a = b => UNCHANGED [k \in Savers |-> Stage(k)]
<1>1. pc \in [Savers -> Stages] /\ pc[s] = from /\ pc' = [pc EXCEPT ![s] = to]
  BY DEF TypeOK, Goto
<1>2. Stage(s) = a /\ Stage(s)' = b
  BY <1>1 DEF Stage
<1>3. \A k \in Savers \ {s} : Stage(k)' = Stage(k)
  BY <1>1 DEF Stage
<1>4. [k \in Savers |-> Stage(k)]' = [[k \in Savers |-> Stage(k)] EXCEPT ![s] = b]
  BY <1>2, <1>3
<1> QED
  BY <1>2, <1>3, <1>4 DEF Store!Becomes

LEMMA RefineInit == Init => Store!Init
<1> SUFFICES ASSUME Init PROVE Store!Init
  OBVIOUS
<1>1. Stored = Absent /\ \A s \in Savers : Stage(s) = "idle"
  BY DEF Init, Stored, Stage
<1>2. (faults <= 1 /\ shorts = 0) = TRUE
  BY DEF Init
<1> QED
  BY <1>1, <1>2 DEF Init, Store!Init

(* The filesystem does not become trusted again. *)
LEMMA TrustLost ==
    ASSUME TypeOK, [Next]_vars, Trusted'
    PROVE  Trusted /\ (faults <= 1 /\ shorts = 0)' = (faults <= 1 /\ shorts = 0)
<1>1. faults \in Nat /\ shorts \in Nat
  BY DEF TypeOK
<1>2. \/ UNCHANGED faults \/ faults' = faults + 1
  BY DEF Next, vars, files, Fault, Save, Change, Build, Lock, LockTimeout, OpenTmp, OpenFails,
         WriteWhole, WriteShort, WriteRejected, DropOldBak, Backup, BackupFails, Promote,
         PromoteFails, Restore, RestoreFails, Discard, DropBak, OtherLocks, OtherUnlocks, PowerLoss
<1>3. \/ UNCHANGED shorts \/ shorts' = shorts + 1
  BY DEF Next, vars, files, Fault, Save, Change, Build, Lock, LockTimeout, OpenTmp, OpenFails,
         WriteWhole, WriteShort, WriteRejected, DropOldBak, Backup, BackupFails, Promote,
         PromoteFails, Restore, RestoreFails, Discard, DropBak, OtherLocks, OtherUnlocks, PowerLoss
<1>4. faults <= 1 /\ shorts = 0
  BY <1>1, <1>2, <1>3 DEF Trusted
<1>5. (faults <= 1 /\ shorts = 0)'
  BY DEF Trusted
<1> QED
  BY <1>4, <1>5 DEF Trusted

(* A step of the program that callers do not see. *)
LEMMA Unseen ==
    ASSUME TypeOK, NEW s \in Savers, NEW from, NEW to, Goto(s, from, to),
           {from, to} \subseteq {"idle", "build"}
              \/ {from, to} \cap {"idle", "build", "dropBak"} = {},
           Stored' = Stored, UNCHANGED <<ram, doc>>,
           (faults <= 1 /\ shorts = 0)' = (faults <= 1 /\ shorts = 0)
    PROVE  UNCHANGED Store!storeVars
<1> DEFINE class(p) == IF p \in {"idle", "build"} THEN "idle"
                       ELSE IF p = "dropBak" THEN "stored" ELSE "asked"
<1>1. class(from) = class(to)
  OBVIOUS
<1>2. UNCHANGED [k \in Savers |-> Stage(k)]
  BY <1>1, StageMoves
<1> QED
  BY <1>2 DEF Store!storeVars

(* Each step is one of the abstract store, or is not seen there. *)
LEMMA RefineTrusted ==
    ASSUME IInv, [Next]_vars, Trusted'
    PROVE  Store!Next \/ UNCHANGED Store!storeVars
<1>0. /\ TypeOK /\ LockInv /\ LockInv' /\ Trusted
      /\ (faults <= 1 /\ shorts = 0)' = (faults <= 1 /\ shorts = 0)
  BY TrustLost, InvStep DEF IInv
<1>1. ASSUME NEW s \in Savers, Change(s) PROVE Store!Next
  <2>1. Goto(s, "idle", "build") /\ UNCHANGED doc /\ ram' \in Nat
    BY <1>0, <1>1 DEF Change, TypeOK
  <2>2. Stored' = Stored
    BY <1>0, <1>1, <2>1, StoredSame DEF Change, files, Goto
  <2>3. UNCHANGED [k \in Savers |-> Stage(k)]
    BY <1>0, <2>1, StageMoves
  <2>4. Store!Change
    BY <2>1, <2>2, <2>3 DEF Store!Change
  <2> QED
    BY <1>0, <2>4 DEF Store!Next
<1>2. ASSUME NEW s \in Savers, Build(s) PROVE Store!Next
  <2>1. Goto(s, "build", "lock") /\ UNCHANGED ram /\ doc' = [doc EXCEPT ![s] = ram]
    BY <1>2 DEF Build, files
  <2>2. Stored' = Stored
    BY <1>0, <1>2, <2>1, StoredSame DEF Build, files, Goto
  <2>3. Store!Becomes(s, "idle", "asked")
    BY <1>0, <2>1, StageMoves
  <2>4. Store!Ask(s)
    BY <2>1, <2>2, <2>3 DEF Store!Ask
  <2> QED
    BY <1>0, <2>4 DEF Store!Next
<1>3. ASSUME NEW s \in Savers, Lock(s) PROVE UNCHANGED Store!storeVars
  <2>1. Goto(s, "lock", "open") /\ UNCHANGED <<ram, doc>>
    BY <1>3 DEF Lock, files
  <2>2. Stored' = Stored
    <3>1. Stored = cfg
      BY <1>0, <1>3, StoredIdle, ConfigFileAssumption DEF Lock
    <3>2. pc'[s] = "open"
      BY <1>0, <2>1 DEF TypeOK, Goto
    <3>3. Stored' = cfg'
      BY <1>0, <3>2, StoredNext DEF Locked
    <3> QED
      BY <1>3, <3>1, <3>3 DEF Lock, files
  <2> QED
    BY <1>0, <2>1, <2>2, Unseen
<1>4. ASSUME NEW s \in Savers, LockTimeout(s) PROVE Store!Next
  <2>1. Goto(s, "lock", "idle") /\ UNCHANGED <<ram, doc>>
    BY <1>4 DEF LockTimeout, files
  <2>2. Stored' = Stored
    BY <1>0, <1>4, <2>1, StoredSame DEF LockTimeout, files, Goto
  <2>3. Store!Becomes(s, "asked", "idle")
    BY <1>0, <2>1, StageMoves
  <2>4. Store!ReturnFalse(s)
    BY <2>1, <2>2, <2>3 DEF Store!ReturnFalse
  <2> QED
    BY <1>0, <2>4 DEF Store!Next
<1>5. ASSUME NEW s \in Savers, OpenTmp(s) PROVE UNCHANGED Store!storeVars
  <2>1. Goto(s, "open", "write") /\ UNCHANGED <<ram, doc>>
    BY <1>5 DEF OpenTmp, files
  <2>2. Stored' = Stored
    BY <1>0, <1>5, <2>1, StoredSame DEF OpenTmp, files, Goto
  <2> QED
    BY <1>0, <2>1, <2>2, Unseen
<1>6. ASSUME NEW s \in Savers, OpenFails(s) PROVE Store!Next
  <2>1. Goto(s, "open", "idle") /\ UNCHANGED <<ram, doc>>
    BY <1>6 DEF OpenFails, files
  <2>2. Stored' = Stored
    BY <1>0, <1>6, <2>1, StoredSame DEF OpenFails, files, Goto
  <2>3. Store!Becomes(s, "asked", "idle")
    BY <1>0, <2>1, StageMoves
  <2>4. Store!ReturnFalse(s)
    BY <2>1, <2>2, <2>3 DEF Store!ReturnFalse
  <2> QED
    BY <1>0, <2>4 DEF Store!Next
<1>7. ASSUME NEW s \in Savers, WriteWhole(s) PROVE UNCHANGED Store!storeVars
  <2>1. Goto(s, "write", "dropOldBak") /\ UNCHANGED <<ram, doc>>
    BY <1>7 DEF WriteWhole, files
  <2>2. Stored' = Stored
    BY <1>0, <1>7, <2>1, StoredSame DEF WriteWhole, files, Goto
  <2> QED
    BY <1>0, <2>1, <2>2, Unseen
<1>8. ASSUME NEW s \in Savers, WriteRejected(s) PROVE UNCHANGED Store!storeVars
  <2>1. Goto(s, "write", "discard") /\ UNCHANGED <<ram, doc>>
    BY <1>8 DEF WriteRejected, files
  <2>2. Stored' = Stored
    BY <1>0, <1>8, <2>1, StoredSame DEF WriteRejected, files, Goto
  <2> QED
    BY <1>0, <2>1, <2>2, Unseen
<1>9. ASSUME NEW s \in Savers, DropOldBak(s) PROVE UNCHANGED Store!storeVars
  <2>1. Goto(s, "dropOldBak", "backup") /\ UNCHANGED <<ram, doc>>
    BY <1>9 DEF DropOldBak, files
  <2>2. Stored' = Stored
    BY <1>0, <1>9, <2>1, StoredSame DEF DropOldBak, files, Goto
  <2> QED
    BY <1>0, <2>1, <2>2, Unseen
<1>10. ASSUME NEW s \in Savers, Backup(s) PROVE UNCHANGED Store!storeVars
  <2>1. Goto(s, "backup", "promote") /\ UNCHANGED <<ram, doc>>
    BY <1>10 DEF Backup, files
  <2>2. Stored' = Stored
    <3>1. pc[s] = "backup" /\ pc'[s] = "promote"
      BY <1>0, <2>1 DEF TypeOK, Goto
    <3>2. Stored = cfg /\ cfg = found
      BY <1>0, <3>1, StoredIs DEF Locked, IInv, FoundInv
    <3>3. Stored' = found'
      BY <1>0, <3>1, StoredNext DEF Locked
    <3> QED
      BY <1>10, <3>2, <3>3 DEF Backup
  <2> QED
    BY <1>0, <2>1, <2>2, Unseen
<1>11. ASSUME NEW s \in Savers, BackupFails(s) PROVE UNCHANGED Store!storeVars
  <2>1. Goto(s, "backup", "discard") /\ UNCHANGED <<ram, doc>>
    BY <1>11 DEF BackupFails, files
  <2>2. Stored' = Stored
    BY <1>0, <1>11, <2>1, StoredSame DEF BackupFails, files, Goto
  <2> QED
    BY <1>0, <2>1, <2>2, Unseen
<1>12. ASSUME NEW s \in Savers, Promote(s) PROVE Store!Next
  <2>1. Goto(s, "promote", "dropBak") /\ UNCHANGED <<ram, doc>>
    BY <1>12 DEF Promote, files
  <2>2. Stored' = doc[s]
    <3>1. pc[s] = "promote" /\ pc'[s] = "dropBak"
      BY <1>0, <2>1 DEF TypeOK, Goto
    <3>2. Stored' = cfg'
      BY <1>0, <3>1, StoredNext DEF Locked
    <3>3. tmp = doc[s]
      BY <1>0, <3>1 DEF IInv, TmpInv, Trusted
    <3> QED
      BY <1>12, <3>2, <3>3 DEF Promote
  <2>3. Store!Becomes(s, "asked", "stored")
    BY <1>0, <2>1, StageMoves
  <2>4. Store!Store(s)
    BY <2>1, <2>2, <2>3 DEF Store!Store
  <2> QED
    BY <1>0, <2>4 DEF Store!Next
<1>13. ASSUME NEW s \in Savers, PromoteFails(s) PROVE UNCHANGED Store!storeVars
  <2>1. Goto(s, "promote", "restore") /\ UNCHANGED <<ram, doc>>
    BY <1>13 DEF PromoteFails, files
  <2>2. Stored' = Stored
    BY <1>0, <1>13, <2>1, StoredSame DEF PromoteFails, files, Goto
  <2> QED
    BY <1>0, <2>1, <2>2, Unseen
<1>14. ASSUME NEW s \in Savers, Restore(s) PROVE UNCHANGED Store!storeVars
  <2>1. Goto(s, "restore", "discard") /\ UNCHANGED <<ram, doc>>
    BY <1>14 DEF Restore, files
  <2>2. Stored' = Stored
    <3>1. pc[s] = "restore" /\ pc'[s] = "discard"
      BY <1>0, <2>1 DEF TypeOK, Goto
    <3>2. Stored = found /\ Stored' = cfg'
      BY <1>0, <3>1, StoredIs, StoredNext DEF Locked
    <3>3. faults \in Nat /\ faults <= 1
      BY <1>0 DEF TypeOK, Trusted
    <3>4. cfg = Absent /\ (found # Absent => bak = found) /\ (found = Absent => bak = Absent)
      BY <3>1, <3>3 DEF IInv, FoundInv
    <3> QED
      BY <1>14, <3>2, <3>4 DEF Restore
  <2> QED
    BY <1>0, <2>1, <2>2, Unseen
<1>15. ASSUME NEW s \in Savers, Discard(s) PROVE Store!Next
  <2>1. Goto(s, "discard", "idle") /\ UNCHANGED <<ram, doc>>
    BY <1>15 DEF Discard, files
  <2>2. Stored' = Stored
    BY <1>0, <1>15, <2>1, StoredSame DEF Discard, files, Goto
  <2>3. Store!Becomes(s, "asked", "idle")
    BY <1>0, <2>1, StageMoves
  <2>4. Store!ReturnFalse(s)
    BY <2>1, <2>2, <2>3 DEF Store!ReturnFalse
  <2> QED
    BY <1>0, <2>4 DEF Store!Next
<1>16. ASSUME NEW s \in Savers, DropBak(s) PROVE Store!Next
  <2>1. Goto(s, "dropBak", "idle") /\ UNCHANGED <<ram, doc>>
    BY <1>16 DEF DropBak, files
  <2>2. Stored' = Stored
    BY <1>0, <1>16, <2>1, StoredSame DEF DropBak, files, Goto
  <2>3. Store!Becomes(s, "stored", "idle")
    BY <1>0, <2>1, StageMoves
  <2>4. Store!ReturnTrue(s)
    BY <2>1, <2>2, <2>3 DEF Store!ReturnTrue
  <2> QED
    BY <1>0, <2>4 DEF Store!Next
<1>17. ASSUME NEW s \in Savers, WriteShort(s) \/ RestoreFails(s) PROVE FALSE
  <2>1. faults \in Nat /\ shorts \in Nat
    BY <1>0 DEF TypeOK
  <2>2. CASE WriteShort(s)
    BY <2>1, <2>2 DEF WriteShort, Trusted
  <2>3. CASE RestoreFails(s)
    <3>1. pc[s] = "restore" /\ faults' = faults + 1
      BY <2>3 DEF RestoreFails, Goto, Fault
    <3>2. faults >= 1
      BY <3>1 DEF IInv, FoundInv
    <3> QED
      BY <2>1, <3>1, <3>2 DEF Trusted
  <2> QED
    BY <1>17, <2>2, <2>3
<1>18. ASSUME OtherLocks \/ OtherUnlocks \/ UNCHANGED vars PROVE UNCHANGED Store!storeVars
  <2>1. UNCHANGED <<cfg, found, pc, ram, doc, faults, shorts>>
    BY <1>18 DEF OtherLocks, OtherUnlocks, vars, files
  <2>2. Stored' = Stored /\ UNCHANGED [k \in Savers |-> Stage(k)]
    BY <2>1 DEF Stored, Stage
  <2> QED
    BY <1>0, <2>1, <2>2 DEF Store!storeVars
<1>19. ASSUME PowerLoss PROVE Store!Next
  <2>1. /\ pc' = [s \in Savers |-> "idle"] /\ ram' = Loaded(cfg)
        /\ UNCHANGED <<cfg, doc>> /\ owner' = NoOne
    BY <1>19 DEF PowerLoss, files
  <2>2. [k \in Savers |-> Stage(k)]' = [k \in Savers |-> "idle"]
    BY <2>1 DEF Stage
  <2>3. Stored' = cfg
    BY <1>0, <2>1, StoredIdleNext, ConfigFileAssumption
  <2>4. cfg \in Nat \cup {Absent}
    BY <1>0 DEF IInv, FoundInv, TypeOK, Contents, Trusted
  <2>5. ram' = IF Stored' = Absent THEN Default ELSE Stored'
    BY <2>1, <2>3, <2>4, ConfigFileAssumption DEF Loaded
  <2>6. \/ Stored' = Stored
        \/ Stored' = Absent /\ \E s \in Savers : Stage(s) = "asked"
    <3>1. CASE \E s \in Savers : pc[s] \in {"promote", "restore"}
      <4>1. PICK s \in Savers : pc[s] \in {"promote", "restore"}
        BY <3>1
      <4>2. cfg = Absent /\ Stage(s) = "asked"
        BY <4>1 DEF IInv, FoundInv, Stage
      <4> QED
        BY <2>3, <4>2
    <3>2. CASE ~ \E s \in Savers : pc[s] \in {"promote", "restore"}
      BY <2>3, <3>2 DEF Stored
    <3> QED
      BY <3>1, <3>2
  <2>7. Store!Restart
    BY <2>1, <2>2, <2>5, <2>6 DEF Store!Restart
  <2> QED
    BY <1>0, <2>7 DEF Store!Next
<1> QED
  BY <1>1, <1>2, <1>3, <1>4, <1>5, <1>6, <1>7, <1>8, <1>9, <1>10, <1>11, <1>12, <1>13, <1>14, <1>15, <1>16, <1>17, <1>18, <1>19 DEF Next, Save

(* Within what the filesystem may be trusted for, CONFIG::save is an atomic *)
(* store (ConfigPersistence.cpp, writeConfigDocumentAtomically): for any    *)
(* savers and bounds the three files, the mutex and the error paths behave  *)
(* like one register that saves replace at one instant.                     *)
THEOREM SaveImplementsStore == Spec => ImplementsStore
<1>1. IInv /\ [Next]_vars => [Store!Next]_Store!storeVars
  <2> SUFFICES ASSUME IInv, [Next]_vars PROVE Store!Next \/ UNCHANGED Store!storeVars
    OBVIOUS
  <2>1. CASE Trusted'
    BY <2>1, RefineTrusted
  <2>2. CASE ~Trusted'
    <3>1. (faults <= 1 /\ shorts = 0)' = FALSE
      BY <2>2 DEF Trusted
    <3> QED
      BY <3>1 DEF Store!Next
  <2> QED
    BY <2>1, <2>2
<1> QED
  BY <1>1, RefineInit, Inductive, PTL DEF Spec, ImplementsStore, Store!Spec

=============================================================================
