----------------------------- MODULE ConfigStore -----------------------------
(***************************************************************************)
(* What CONFIG::save promises while the filesystem can be trusted: the     *)
(* stored configuration is replaced as a whole, by the document of one of  *)
(* the saves under way, in one step; a save that returns true has done     *)
(* that step and one that returns false has not; and nothing else touches  *)
(* what is stored, but for a power loss during a save.                     *)
(*                                                                         *)
(* That a power loss may leave nothing is a weakness of the program, not   *)
(* of this description: see SaveIsAtomic in ConfigFile.                    *)
(***************************************************************************)
CONSTANTS
    Savers,     \* tasks that save
    Documents,  \* what can be stored
    Factory,    \* the document of a device that has nothing stored
    Nothing     \* nothing is stored

VARIABLES
    stored,     \* the configuration a boot would find
    working,    \* the working copy all tasks change
    doc,        \* what each task saves
    stage,      \* per task: "idle", "asked" to save, "stored" its document
    trusted     \* the filesystem has not failed too often to hold a promise

storeVars == <<stored, working, doc, stage, trusted>>

Init ==
    /\ stored = Nothing /\ working = Factory
    /\ doc = [s \in Savers |-> Factory]
    /\ stage = [s \in Savers |-> "idle"]
    /\ trusted = TRUE

Becomes(s, from, to) == stage[s] = from /\ stage' = [stage EXCEPT ![s] = to]

Change ==
    /\ working' \in Documents
    /\ UNCHANGED <<stored, doc, stage>>

(* The document is a copy of what the task finds in the working copy. *)
Ask(s) ==
    /\ Becomes(s, "idle", "asked")
    /\ doc' = [doc EXCEPT ![s] = working]
    /\ UNCHANGED <<stored, working>>

Store(s) ==
    /\ Becomes(s, "asked", "stored")
    /\ stored' = doc[s]
    /\ UNCHANGED <<working, doc>>

ReturnTrue(s) ==
    /\ Becomes(s, "stored", "idle")
    /\ UNCHANGED <<stored, working, doc>>

ReturnFalse(s) ==
    /\ Becomes(s, "asked", "idle")
    /\ UNCHANGED <<stored, working, doc>>

(* Power is lost, and the boot loads what is left. *)
Restart ==
    /\ stage' = [s \in Savers |-> "idle"]
    /\ \/ UNCHANGED stored
       \/ stored' = Nothing /\ \E s \in Savers : stage[s] = "asked"
    /\ working' = IF stored' = Nothing THEN Factory ELSE stored'
    /\ UNCHANGED doc

(* Once it has failed too often anything may happen. *)
Next ==
    \/ /\ \/ Change \/ Restart
          \/ \E s \in Savers : Ask(s) \/ Store(s) \/ ReturnTrue(s) \/ ReturnFalse(s)
       /\ UNCHANGED trusted
    \/ trusted' = FALSE

Spec == Init /\ [][Next]_storeVars

=============================================================================
