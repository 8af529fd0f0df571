----------------------------- MODULE WorkerLife ------------------------------
(***************************************************************************)
(* What the life cycle of a worker task promises the code around it, for   *)
(* as long as its starts and stops are supervised, that is, come one at a  *)
(* time: one worker at a time, on a stack that stays its own until it has  *)
(* ended; a worker ends only when it was told to, and one that was told to *)
(* is never told to go on.                                                 *)
(*                                                                         *)
(* There is deliberately no action that starts a worker beside one that is *)
(* still on its way out, or that takes a request to stop back.             *)
(***************************************************************************)
CONSTANTS
    Workers,    \* all the workers there may ever be
    NoStack     \* no stack is allocated

VARIABLES
    life,       \* of each worker: "none", "running", "told" to stop, "gone"
    stack,      \* the worker that the stack was allocated for
    supervised  \* starts and stops come one at a time

lifeVars == <<life, stack, supervised>>

Init ==
    /\ life = [w \in Workers |-> "none"]
    /\ stack = NoStack
    /\ supervised = TRUE

Idle == \A w \in Workers : life[w] \in {"none", "gone"}

Becomes(w, from, to) == life[w] = from /\ life' = [life EXCEPT ![w] = to]

Start(w) ==
    /\ Idle
    /\ Becomes(w, "none", "running")
    /\ stack' = w

Tell(w) ==
    /\ Becomes(w, "running", "told")
    /\ UNCHANGED stack

End(w) ==
    /\ Becomes(w, "told", "gone")
    /\ UNCHANGED stack

Free ==
    /\ Idle
    /\ stack' = NoStack
    /\ UNCHANGED life

(* Once nobody supervises it, anything may happen. *)
Next ==
    \/ /\ Free \/ \E w \in Workers : Start(w) \/ Tell(w) \/ End(w)
       /\ UNCHANGED supervised
    \/ supervised' = FALSE

Spec == Init /\ [][Next]_lifeVars

=============================================================================
