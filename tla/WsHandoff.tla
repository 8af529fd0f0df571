----------------------------- MODULE WsHandoff ------------------------------
(***************************************************************************)
(* What the WebSocket message queue promises its callers, whatever is      *)
(* going on with enabling, disabling and the broadcast task: a message is  *)
(* refused at once or accepted into one line, accepted messages leave only *)
(* by being sent, one at a time and in the order of their acceptance, and  *)
(* a message that is done never comes back. The line is opened and closed  *)
(* by others, and closed only when it is empty and nothing is being sent.  *)
(*                                                                         *)
(* There is deliberately no action that drops an accepted message.         *)
(***************************************************************************)
EXTENDS Naturals, Sequences

CONSTANTS
    Msgs,       \* messages, numbered in the order they are offered
    Capacity    \* how many may wait

VARIABLES
    line,       \* accepted messages that wait
    sending,    \* the message being sent, 0 for none
    open,       \* messages are accepted and sent
    st          \* what became of each message

handoffVars == <<line, sending, open, st>>

Init ==
    /\ line = <<>> /\ sending = 0 /\ open \in BOOLEAN
    /\ st = [m \in Msgs |-> "new"]

Turn(m, from, to) == st[m] = from /\ st' = [st EXCEPT ![m] = to]

Offer(m) ==
    /\ Turn(m, "new", "offered")
    /\ UNCHANGED <<line, sending, open>>

Refuse(m) ==
    /\ Turn(m, "offered", "done")
    /\ UNCHANGED <<line, sending, open>>

Accept(m) ==
    /\ open /\ Len(line) < Capacity
    /\ Turn(m, "offered", "waiting")
    /\ line' = Append(line, m)
    /\ UNCHANGED <<sending, open>>

Take(m) ==
    /\ open /\ sending = 0
    /\ line # <<>> /\ m = Head(line)
    /\ Turn(m, "waiting", "sending")
    /\ line' = Tail(line)
    /\ sending' = m
    /\ UNCHANGED open

Finish(m) ==
    /\ sending = m
    /\ Turn(m, "sending", "done")
    /\ sending' = 0
    /\ UNCHANGED <<line, open>>

Open ==
    /\ ~open /\ open' = TRUE
    /\ UNCHANGED <<line, sending, st>>

Close ==
    /\ open /\ open' = FALSE
    /\ line = <<>> /\ sending = 0
    /\ UNCHANGED <<line, sending, st>>

Next ==
    \/ Open \/ Close
    \/ \E m \in Msgs : Offer(m) \/ Refuse(m) \/ Accept(m) \/ Take(m) \/ Finish(m)

Spec == Init /\ [][Next]_handoffVars

=============================================================================
