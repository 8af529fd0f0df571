------------------------------ MODULE ConfigFile ------------------------------
(***************************************************************************)
(* The configuration file on LittleFS: CONFIG::save as every settings      *)
(* service calls it, CONFIG::load as a cold boot calls it, the global FS   *)
(* mutex they share with the file manager and the data logger, file        *)
(* operations that fail, and power loss between any two of them.           *)
(*                                                                         *)
(* A document is a version number: the number of settings changes that had *)
(* been committed to the working copy when buildConfigDocument read it.    *)
(* Version 0 stands for the factory defaults.                              *)
(***************************************************************************)
EXTENDS Naturals

CONSTANTS
    Savers,        \* tasks that change a setting and call CONFIG::save
    FileUser,      \* any other holder of g_fsMutex (file manager, logger)
    NoOne,         \* g_fsMutex is free
    Absent,        \* the path does not exist
    Torn,          \* the file exists and does not parse
    MaxVersion,    \* bound on the settings changes of a run
    MaxFaults,     \* bound on the file operations that fail
    MaxShorts,     \* bound on the documents a full filesystem cuts short
    MaxCuts        \* bound on the power losses

ASSUME ConfigFileAssumption ==
    /\ FileUser \notin Savers
    /\ NoOne \notin Savers \cup {FileUser}
    /\ Absent \notin Nat /\ Torn \notin Nat
    /\ Absent # Torn
    /\ MaxVersion \in Nat /\ MaxFaults \in Nat
    /\ MaxShorts \in Nat /\ MaxCuts \in Nat

VARIABLES
    tmp, cfg, bak,  \* settings.tmp, config.json, settings.bak
    ram,            \* version held by the working copy
    latest,         \* number of changes ever committed
    doc,            \* the document each saver has built
    pc,             \* where each saver is inside CONFIG::save
    owner,          \* holder of g_fsMutex
    found,          \* config.json as the running save found it (history)
    acked,          \* newest version a successful save has reported (history)
    everSaved,      \* some save has succeeded, in this boot or before (history)
    faults, shorts, cuts    \* failed file operations, short writes and
                            \* power losses so far

files == <<tmp, cfg, bak>>
vars  == <<tmp, cfg, bak, ram, latest, doc, pc, owner, found, acked, everSaved, faults, shorts, cuts>>

Default  == 0
Contents == Nat \cup {Absent, Torn}
Locked   == {"open", "write", "dropOldBak", "backup", "promote", "restore",
             "discard", "dropBak"}
Stages   == {"idle", "build", "lock"} \cup Locked

(* What CONFIG::load makes of the file: a document or the defaults. *)
Loaded(file) == IF file \in Nat THEN file ELSE Default

Newer(a, b) == IF a > b THEN a ELSE b

Init ==
    /\ tmp = Absent /\ cfg = Absent /\ bak = Absent
    /\ ram = Default /\ latest = 0
    /\ doc = [s \in Savers |-> Default]
    /\ pc = [s \in Savers |-> "idle"]
    /\ owner = NoOne
    /\ found = Absent
    /\ acked = Default /\ everSaved = FALSE
    /\ faults = 0 /\ shorts = 0 /\ cuts = 0

Goto(s, from, to) == pc[s] = from /\ pc' = [pc EXCEPT ![s] = to]

Fault == faults < MaxFaults /\ faults' = faults + 1

-----------------------------------------------------------------------------
(* A settings service commits its section, then its update handler saves. *)
Change(s) ==
    /\ latest < MaxVersion
    /\ Goto(s, "idle", "build")
    /\ latest' = latest + 1
    /\ ram' = latest + 1
    /\ UNCHANGED <<files, doc, owner, found, acked, everSaved, faults, shorts, cuts>>

(* saveInternal builds the document before it has the FS mutex. *)
Build(s) ==
    /\ Goto(s, "build", "lock")
    /\ doc' = [doc EXCEPT ![s] = ram]
    /\ UNCHANGED <<files, ram, latest, owner, found, acked, everSaved, faults, shorts, cuts>>

(* Mutant of Lock: the FS mutex is not waited for. *)
LockUnguarded(s) ==
    /\ Goto(s, "lock", "open")
    /\ owner' = s
    /\ found' = cfg
    /\ UNCHANGED <<files, ram, latest, doc, acked, everSaved, faults, shorts, cuts>>

Lock(s) ==
    /\ owner = NoOne
    /\ Goto(s, "lock", "open")
    /\ owner' = s
    /\ found' = cfg
    /\ UNCHANGED <<files, ram, latest, doc, acked, everSaved, faults, shorts, cuts>>

(* Mutant of LockTimeout: try again, for ever. *)
LockRetried(s) ==
    /\ owner # NoOne
    /\ Goto(s, "lock", "build")
    /\ UNCHANGED <<files, ram, latest, doc, owner, found, acked, everSaved, faults, shorts, cuts>>

(* "FS mutex busy, config save skipped": the call returns false. *)
LockTimeout(s) ==
    /\ owner # NoOne
    /\ Goto(s, "lock", "idle")
    /\ UNCHANGED <<files, ram, latest, doc, owner, found, acked, everSaved, faults, shorts, cuts>>

OpenTmp(s) ==
    /\ Goto(s, "open", "write")
    /\ tmp' = Torn
    /\ UNCHANGED <<cfg, bak, ram, latest, doc, owner, found, acked, everSaved, faults, shorts, cuts>>

(* mkdir or open fails: return false before anything was touched. *)
OpenFails(s) ==
    /\ Fault
    /\ Goto(s, "open", "idle")
    /\ owner' = NoOne
    /\ UNCHANGED <<files, ram, latest, doc, found, acked, everSaved, shorts, cuts>>

WriteWhole(s) ==
    /\ Goto(s, "write", "dropOldBak")
    /\ tmp' = doc[s]
    /\ UNCHANGED <<cfg, bak, ram, latest, doc, owner, found, acked, everSaved, faults, shorts, cuts>>

(* Fewer bytes than the document has, but more than none: not noticed. *)
WriteShort(s) ==
    /\ shorts < MaxShorts
    /\ shorts' = shorts + 1
    /\ Goto(s, "write", "dropOldBak")
    /\ UNCHANGED <<files, ram, latest, doc, owner, found, acked, everSaved, faults, cuts>>

(* Nothing written, too large, or the document overflowed its buffer. *)
WriteRejected(s) ==
    /\ Goto(s, "write", "discard")
    /\ UNCHANGED <<files, ram, latest, doc, owner, found, acked, everSaved, faults, shorts, cuts>>

(* The result of remove is not looked at. *)
DropOldBak(s) ==
    /\ Goto(s, "dropOldBak", "backup")
    /\ \/ bak' = Absent /\ UNCHANGED faults
       \/ bak # Absent /\ Fault /\ UNCHANGED bak
    /\ UNCHANGED <<tmp, cfg, ram, latest, doc, owner, found, acked, everSaved, shorts, cuts>>

(* Mutant of Backup: the old file is removed instead of renamed. *)
BackupRemoves(s) ==
    /\ Goto(s, "backup", "promote")
    /\ cfg' = Absent
    /\ UNCHANGED <<tmp, bak, ram, latest, doc, owner, found, acked, everSaved, faults, shorts, cuts>>

Backup(s) ==
    /\ Goto(s, "backup", "promote")
    /\ IF cfg = Absent THEN UNCHANGED <<cfg, bak>>
                       ELSE bak' = cfg /\ cfg' = Absent
    /\ UNCHANGED <<tmp, ram, latest, doc, owner, found, acked, everSaved, faults, shorts, cuts>>

BackupFails(s) ==
    /\ cfg # Absent
    /\ Fault
    /\ Goto(s, "backup", "discard")
    /\ UNCHANGED <<files, ram, latest, doc, owner, found, acked, everSaved, shorts, cuts>>

Promote(s) ==
    /\ Goto(s, "promote", "dropBak")
    /\ cfg' = tmp /\ tmp' = Absent
    /\ UNCHANGED <<bak, ram, latest, doc, owner, found, acked, everSaved, faults, shorts, cuts>>

(* Mutant of PromoteFails: the backup is not put back. *)
PromoteFailsForGood(s) ==
    /\ Fault
    /\ Goto(s, "promote", "discard")
    /\ UNCHANGED <<files, ram, latest, doc, owner, found, acked, everSaved, shorts, cuts>>

PromoteFails(s) ==
    /\ Fault
    /\ Goto(s, "promote", "restore")
    /\ UNCHANGED <<files, ram, latest, doc, owner, found, acked, everSaved, shorts, cuts>>

(* Mutant of Restore: the backup is dropped before it is renamed. *)
RestoreDropped(s) ==
    /\ Goto(s, "restore", "discard")
    /\ bak' = Absent
    /\ UNCHANGED <<tmp, cfg, ram, latest, doc, owner, found, acked, everSaved, faults, shorts, cuts>>

Restore(s) ==
    /\ Goto(s, "restore", "discard")
    /\ IF bak = Absent THEN UNCHANGED <<cfg, bak>>
                       ELSE cfg' = bak /\ bak' = Absent
    /\ UNCHANGED <<tmp, ram, latest, doc, owner, found, acked, everSaved, faults, shorts, cuts>>

RestoreFails(s) ==
    /\ bak # Absent
    /\ Fault
    /\ Goto(s, "restore", "discard")
    /\ UNCHANGED <<files, ram, latest, doc, owner, found, acked, everSaved, shorts, cuts>>

(* Remove the temporary file, leave the lock's scope, return false. *)
Discard(s) ==
    /\ Goto(s, "discard", "idle")
    /\ \/ tmp' = Absent /\ UNCHANGED faults
       \/ tmp # Absent /\ Fault /\ UNCHANGED tmp
    /\ owner' = NoOne
    /\ UNCHANGED <<cfg, bak, ram, latest, doc, found, acked, everSaved, shorts, cuts>>

(* Remove the backup, leave the lock's scope, return true. *)
DropBak(s) ==
    /\ Goto(s, "dropBak", "idle")
    /\ \/ bak' = Absent /\ UNCHANGED faults
       \/ bak # Absent /\ Fault /\ UNCHANGED bak
    /\ owner' = NoOne
    /\ acked' = Newer(acked, doc[s])
    /\ everSaved' = TRUE
    /\ UNCHANGED <<tmp, cfg, ram, latest, doc, found, shorts, cuts>>

-----------------------------------------------------------------------------
(* Some other code works on its own files under the same mutex. *)
OtherLocks ==
    /\ owner = NoOne
    /\ owner' = FileUser
    /\ UNCHANGED <<files, ram, latest, doc, pc, found, acked, everSaved, faults, shorts, cuts>>

OtherUnlocks ==
    /\ owner = FileUser
    /\ owner' = NoOne
    /\ UNCHANGED <<files, ram, latest, doc, pc, found, acked, everSaved, faults, shorts, cuts>>

(* Power loss and the cold boot that follows: reloadAllFromFS. *)
PowerLoss ==
    /\ cuts < MaxCuts
    /\ cuts' = cuts + 1
    /\ pc' = [s \in Savers |-> "idle"]
    /\ owner' = NoOne
    /\ ram' = Loaded(cfg)
    /\ acked' = Loaded(cfg)
    /\ UNCHANGED <<files, latest, doc, found, everSaved, faults, shorts>>

Save(s) ==
    \/ Build(s) \/ Lock(s) \/ LockTimeout(s)
    \/ OpenTmp(s) \/ OpenFails(s)
    \/ WriteWhole(s) \/ WriteShort(s) \/ WriteRejected(s)
    \/ DropOldBak(s) \/ Backup(s) \/ BackupFails(s)
    \/ Promote(s) \/ PromoteFails(s) \/ Restore(s) \/ RestoreFails(s)
    \/ Discard(s) \/ DropBak(s)

Next ==
    \/ \E s \in Savers : Change(s) \/ Save(s)
    \/ OtherLocks \/ OtherUnlocks
    \/ PowerLoss

Spec == Init /\ [][Next]_vars

(* Every saver runs in a task the scheduler keeps serving, and so does the *)
(* other user of the mutex once it is inside.                              *)
FairSpec ==
    /\ Spec
    /\ \A s \in Savers : WF_vars(Save(s))
    /\ WF_vars(OtherUnlocks)

-----------------------------------------------------------------------------
(* Every variable keeps its type; the three budgets are never overdrawn. *)
TypeOK ==
    /\ tmp \in Contents /\ cfg \in Contents /\ bak \in Contents
    /\ ram \in Nat /\ latest \in Nat /\ acked \in Nat
    /\ everSaved \in BOOLEAN
    /\ found \in Contents
    /\ doc \in [Savers -> Nat]
    /\ pc \in [Savers -> Stages]
    /\ owner \in Savers \cup {NoOne, FileUser}
    /\ faults \in 0 .. MaxFaults /\ shorts \in 0 .. MaxShorts
    /\ cuts \in 0 .. MaxCuts

(* A save that is about to return true has its own document, whole, in     *)
(* config.json: neither another saver's temporary file nor a failed rename *)
(* can slip in between. Only a document cut short slips through: that is   *)
(* not noticed (ConfigPersistence.cpp, writeConfigDocumentAtomically).     *)
PromotedIsOwn ==
    \A s \in Savers : pc[s] = "dropBak" /\ shorts = 0 => cfg = doc[s]

(* Once a save has been reported as done, a cold boot that comes while no  *)
(* save is running finds a readable config.json, even if one file operation *)
(* has failed so far: the error paths put the old file back.               *)
BootableWhenIdle ==
    acked # Default /\ faults <= 1 /\ shorts = 0 /\ owner \notin Savers =>
        cfg \in Nat

(* One failed operation or one power loss, wherever it falls and whatever  *)
(* saves follow it, leaves a whole document in one of the three files: what *)
(* a boot would need to recover is there, whether or not it looks for it.  *)
SurvivesOneFault ==
    everSaved /\ faults + cuts <= 1 /\ shorts = 0 =>
        \E file \in {tmp, cfg, bak} : file \in Nat

(* A save on its way to returning false has put config.json back as it     *)
(* found it, unless a second operation failed while it was doing so; short *)
(* writes, its own or of others, make no difference.                       *)
FailedSaveKeepsFile ==
    \A s \in Savers : pc[s] = "discard" /\ faults <= 1 => cfg = found

-----------------------------------------------------------------------------
(* What a caller may rely on, see ConfigStore. Between its two renames the *)
(* running save still has what it found, in the backup.                    *)
Stored == IF \E s \in Savers : pc[s] \in {"promote", "restore"} THEN found ELSE cfg

Stage(s) ==
    IF pc[s] \in {"idle", "build"} THEN "idle"
    ELSE IF pc[s] = "dropBak" THEN "stored" ELSE "asked"

Store == INSTANCE ConfigStore WITH
    Documents <- Nat, Factory <- Default, Nothing <- Absent,
    stored <- Stored, working <- ram, stage <- [s \in Savers |-> Stage(s)],
    trusted <- (faults <= 1 /\ shorts = 0)

(* Whatever other savers, the other users of the mutex, one failed file    *)
(* operation and power losses do in between, a save replaces the stored    *)
(* configuration at one instant by its own document and reports that       *)
(* truly; only a power loss between the two renames leaves nothing.        *)
ImplementsStore == Store!Spec

(* Every call of CONFIG::save returns. *)
SaveReturns == \A s \in Savers : pc[s] # "idle" ~> pc[s] = "idle"

(* What the documentation says of CONFIG::save ("writes atomically"): a    *)
(* device that has saved its configuration never boots into the factory    *)
(* defaults after a power loss.                                            *)
SaveIsAtomic == [][cuts' # cuts /\ acked # Default => ram' # Default]_vars

(* "every settings change is ... persisted": once all saves have returned, *)
(* config.json is not older than a change whose save reported success.     *)
ReportedChangePersists ==
    (\A s \in Savers : pc[s] = "idle") /\ cfg \in Nat => cfg >= acked

=============================================================================
