--------------------------- MODULE TelegramWorker ---------------------------
(***************************************************************************)
(* The Telegram channel: the queue of outbound messages, and the cycle of  *)
(* the worker that sends one of them and then polls the bot for commands.  *)
(* Other tasks enqueue messages and change the bot's token meanwhile; the  *)
(* network loses requests and answers; the device sleeps and restarts.     *)
(*                                                                         *)
(* Updates of a bot are numbered from 1 in the order they reach its        *)
(* server; messages are numbered in the order the queue accepts them.      *)
(***************************************************************************)
EXTENDS Naturals, Sequences, FiniteSets

CONSTANTS
    Bots,           \* bot tokens the settings may hold
    FirstBot,       \* the one they hold at first
    NoToken,        \* the token a reader sees that could not lock the settings
    Capacity,       \* kQueueCapacity
    Kept,           \* kMaxUpdates, the updates a poll keeps
    Limit,          \* the limit a poll asks the server for
    MaxUpdates,     \* bound on the updates of all bots
    MaxMsgs,        \* bound on the messages accepted
    MaxTroubles     \* bound on the troubles, of all kinds together

ASSUME TelegramWorkerAssumption ==
    /\ FirstBot \in Bots /\ NoToken \notin Bots
    /\ Capacity \in Nat \ {0} /\ Kept \in Nat \ {0} /\ Limit \in 1 .. Kept
    /\ MaxUpdates \in Nat /\ MaxMsgs \in Nat /\ MaxTroubles \in Nat

VARIABLES
    issued, confirmed,  \* server: updates of each bot, and how many it forgot
    token,      \* botToken in the settings
    known,      \* _lastBotToken
    offset,     \* RTC::runtimeStats.telegramLastUpdateId, 0 for none
    owner,      \* the bot the offset was learned from, if any (history)
    pc,         \* place in the worker's cycle
    polled,     \* the bot being polled, NoToken outside of a poll
    batch,      \* updates of the poll that are still to be dispatched
    seen,       \* ctx.maxSeenUpdateId, 0 outside of a poll
    runs,       \* how often each update was dispatched (history)
    queue,      \* the outbound messages that wait
    sending,    \* the message being sent, 0 for none
    fate,       \* what became of each message
    retried,    \* messages that were put back at least once (history)
    count,      \* how often each kind of trouble happened
    unnoticed   \* a token changed behind the back of syncConfigChanges (history)

serverVars == <<issued, confirmed>>
offsetVars == <<known, offset, owner>>
pollVars   == <<polled, batch, seen, runs>>
queueVars  == <<queue, sending, fate, retried>>
vars == <<serverVars, token, offsetVars, pc, pollVars, queueVars, count, unnoticed>>

Updates == 1 .. MaxUpdates
Msgs    == 1 .. MaxMsgs
Final   == {"sent", "failed", "evicted", "lost"}
Kinds   == {"retry", "change", "timeout", "boot"}

Trouble(kind) ==
    /\ count["retry"] + count["change"] + count["timeout"] + count["boot"] < MaxTroubles
    /\ count' = [count EXCEPT ![kind] = @ + 1]

Init ==
    /\ issued = [b \in Bots |-> 0] /\ confirmed = issued
    /\ token = FirstBot /\ known = FirstBot /\ offset = 0 /\ owner = NoToken
    /\ pc = "outSync" /\ polled = NoToken /\ batch = <<>> /\ seen = 0
    /\ runs = [b \in Bots |-> [u \in Updates |-> 0]]
    /\ queue = <<>> /\ sending = 0
    /\ fate = [m \in Msgs |-> "new"] /\ retried = {}
    /\ count = [kind \in Kinds |-> 0]
    /\ unnoticed = FALSE

-----------------------------------------------------------------------------
(* The queue *)

Full == Len(queue) = Capacity

(* enqueue: a full queue drops its oldest message. *)
Put(m) ==
    /\ queue' = Append(IF Full THEN Tail(queue) ELSE queue, m)
    /\ fate' = [k \in Msgs |-> CASE k = m -> "queued"
                                 [] Full /\ k = Head(queue) -> "evicted"
                                 [] OTHER -> fate[k]]

(* The next message number is free and everything before it is taken. *)
Fresh(m) == fate[m] = "new" /\ \A k \in Msgs : k < m => fate[k] # "new"

Produce(m) ==
    /\ Fresh(m)
    /\ Put(m)
    /\ UNCHANGED <<serverVars, token, offsetVars, pc, pollVars, sending, retried,
                   count, unnoticed>>

-----------------------------------------------------------------------------
(* The settings *)

(* Whether the offset belongs to another bot than the settings name. *)
Foreign == offset > 0 /\ owner # token

ChangeToken(b) ==
    /\ Trouble("change")
    /\ b # token /\ token' = b
    /\ unnoticed' = (unnoticed \/ pc = "in")
    /\ UNCHANGED <<serverVars, offsetVars, pc, pollVars, queueVars>>

(* A read of the settings sees the token, or nothing when the lock is busy. *)
Reads(view) ==
    \/ view = token /\ UNCHANGED count
    \/ view = NoToken /\ Trouble("timeout")

(* syncConfigChanges. Between two reads that saw nothing a poll may have   *)
(* stored an offset, and the second does not tell that the token changed.  *)
Sync(view) ==
    /\ pc \in {"outSync", "inSync"}
    /\ pc' = IF pc = "outSync" THEN "out" ELSE "in"
    /\ Reads(view)
    /\ known' = view
    /\ IF view = known THEN UNCHANGED <<offset, owner>> ELSE offset' = 0 /\ owner' = NoToken
    /\ unnoticed' = (unnoticed \/ (view = NoToken /\ known = NoToken /\ Foreign))
    /\ UNCHANGED <<serverVars, token, pollVars, queueVars>>

-----------------------------------------------------------------------------
(* processOutbound *)

(* Not configured, offline, nothing queued, or within the delay. *)
OutSkip(view) ==
    /\ pc = "out" /\ pc' = "inSync"
    /\ Reads(view)
    /\ UNCHANGED <<serverVars, token, offsetVars, pollVars, queueVars, unnoticed>>

(* Mutants of Take: the newest message first; the queue keeps the message. *)
TakeNewest ==
    /\ pc = "out" /\ pc' = "sending"
    /\ queue # <<>>
    /\ sending' = queue[Len(queue)]
    /\ queue' = SubSeq(queue, 1, Len(queue) - 1)
    /\ fate' = [fate EXCEPT ![sending'] = "sending"]
    /\ UNCHANGED <<serverVars, token, offsetVars, pollVars, retried, count, unnoticed>>

(* The tail of the ring is not advanced. *)
TakeCopies ==
    /\ pc = "out" /\ pc' = "sending"
    /\ queue # <<>>
    /\ sending' = Head(queue)
    /\ fate' = [fate EXCEPT ![Head(queue)] = "sending"]
    /\ UNCHANGED <<serverVars, token, offsetVars, pollVars, queue, retried, count,
                   unnoticed>>

Take ==
    /\ pc = "out" /\ pc' = "sending"
    /\ queue # <<>>
    /\ sending' = Head(queue) /\ queue' = Tail(queue)
    /\ fate' = [fate EXCEPT ![Head(queue)] = "sending"]
    /\ UNCHANGED <<serverVars, token, offsetVars, pollVars, retried, count, unnoticed>>

(* The send succeeded, or failed for good. *)
SendEnds ==
    /\ pc = "sending" /\ pc' = "inSync"
    /\ \E end \in {"sent", "failed"} : fate' = [fate EXCEPT ![sending] = end]
    /\ sending' = 0
    /\ UNCHANGED <<serverVars, token, offsetVars, pollVars, queue, retried, count,
                   unnoticed>>

(* A transient failure puts the message at the end of the queue. *)
SendRetry ==
    /\ pc = "sending" /\ pc' = "inSync"
    /\ Trouble("retry")
    /\ Put(sending)
    /\ retried' = retried \cup {sending}
    /\ sending' = 0
    /\ UNCHANGED <<serverVars, token, offsetVars, pollVars, unnoticed>>

-----------------------------------------------------------------------------
(* processInbound and TelegramPoller::pollAndDispatch *)

(* Not configured, commands off, too early, offline, or no connection. *)
InSkip(view) ==
    /\ pc = "in" /\ pc' = "outSync"
    /\ Reads(view)
    /\ UNCHANGED <<serverVars, token, offsetVars, pollVars, queueVars, unnoticed>>

Largest(a, b)  == IF a < b THEN b ELSE a
Smallest(a, b) == IF a < b THEN a ELSE b

(* A user sends the bot an update; external to the device. *)
Issue(b) ==
    /\ \E u \in Updates : u = issued[b] + 1
    /\ \A k \in Bots \ {b} : issued[b] + issued[k] < MaxUpdates
    /\ issued' = [issued EXCEPT ![b] = @ + 1]
    /\ UNCHANGED <<confirmed, token, offsetVars, pc, pollVars, queueVars, count, unnoticed>>

(* The server's part of getUpdates: it forgets the updates before "from"   *)
(* and answers with the oldest of the others; external to the device.      *)
Serve(b, from) ==
    LET first == Largest(from, confirmed[b] + 1)
    IN  /\ confirmed' = [confirmed EXCEPT ![b] = Largest(@, Smallest(from - 1, issued[b]))]
        /\ batch' = [i \in 1 .. Smallest(Limit, (issued[b] + 1) - Smallest(first, issued[b] + 1))
                        |-> first + i - 1]

(* Mutants of Ask: the offset is sent as it is, or advanced twice. *)
AskSame ==
    /\ pc = "in" /\ pc' = "fetch"
    /\ polled' = token /\ seen' = offset
    /\ Serve(token, Largest(offset, 1))
    /\ UNCHANGED <<issued, token, offsetVars, runs, queueVars, count, unnoticed>>

(* The request names the update after the next one. *)
AskSkips ==
    /\ pc = "in" /\ pc' = "fetch"
    /\ polled' = token /\ seen' = offset
    /\ Serve(token, offset + 2)
    /\ UNCHANGED <<issued, token, offsetVars, runs, queueVars, count, unnoticed>>

(* beginStream: the request names the update after the offset. *)
Ask ==
    /\ pc = "in" /\ pc' = "fetch"
    /\ polled' = token /\ seen' = offset
    /\ Serve(token, offset + 1)
    /\ UNCHANGED <<issued, token, offsetVars, runs, queueVars, count, unnoticed>>

EndPoll == pc' = "outSync" /\ polled' = NoToken /\ batch' = <<>> /\ seen' = 0

(* Lost, broken or an error, or an answer without updates. *)
NoUpdates ==
    /\ pc = "fetch"
    /\ EndPoll
    /\ UNCHANGED <<serverVars, token, offsetVars, runs, queueVars, count, unnoticed>>

(* Mutant of Answer: the poll keeps fewer updates than the server sends. *)
AnswerKeepsOne ==
    /\ pc = "fetch" /\ pc' = "walk"
    /\ batch # <<>>
    /\ seen' = Largest(seen, batch[Len(batch)])
    /\ batch' = SubSeq(batch, 1, 1)
    /\ UNCHANGED <<serverVars, token, offsetVars, polled, runs, queueVars, count, unnoticed>>

(* The answer is parsed to its end; the first Kept updates are kept. *)
Answer ==
    /\ pc = "fetch" /\ pc' = "walk"
    /\ batch # <<>>
    /\ seen' = Largest(seen, batch[Len(batch)])
    /\ batch' = SubSeq(batch, 1, Smallest(Kept, Len(batch)))
    /\ UNCHANGED <<serverVars, token, offsetVars, polled, runs, queueVars, count, unnoticed>>

(* One update is dispatched; a command of the owner's may be replied to. *)
Dispatch ==
    /\ pc = "walk" /\ batch # <<>>
    /\ runs' = [runs EXCEPT ![polled][Head(batch)] = @ + 1]
    /\ batch' = Tail(batch)
    /\ \/ UNCHANGED queueVars
       \/ \E m \in Msgs : Fresh(m) /\ Put(m) /\ UNCHANGED <<sending, retried>>
    /\ UNCHANGED <<serverVars, token, offsetVars, pc, polled, seen, count, unnoticed>>

(* The offset is stored once every update of the poll was dispatched. *)
Commit ==
    /\ pc = "walk" /\ batch = <<>>
    /\ EndPoll
    /\ offset' = Largest(offset, seen) /\ owner' = polled
    /\ UNCHANGED <<serverVars, token, known, runs, queueVars, count, unnoticed>>

-----------------------------------------------------------------------------
(* Deep sleep keeps the offset, a restart does not; both lose the queue. *)
Boot ==
    /\ Trouble("boot")
    /\ \/ UNCHANGED <<offset, owner>> /\ unnoticed' = (unnoticed \/ Foreign)
       \/ offset' = 0 /\ owner' = NoToken /\ UNCHANGED unnoticed
    /\ EndPoll
    /\ known' = token
    /\ queue' = <<>> /\ sending' = 0
    /\ fate' = [m \in Msgs |-> IF fate[m] \in {"queued", "sending"} THEN "lost" ELSE fate[m]]
    /\ UNCHANGED <<serverVars, token, runs, retried>>

Outbound ==
    \/ \E view \in Bots \cup {NoToken} : OutSkip(view)
    \/ Take \/ SendEnds \/ SendRetry

Inbound ==
    \/ \E view \in Bots \cup {NoToken} : InSkip(view)
    \/ Ask \/ NoUpdates \/ Answer \/ Dispatch \/ Commit

Worker == (\E view \in Bots \cup {NoToken} : Sync(view)) \/ Outbound \/ Inbound

Next ==
    \/ Worker \/ Boot
    \/ \E m \in Msgs : Produce(m)
    \/ \E b \in Bots : ChangeToken(b) \/ Issue(b)

(* The worker keeps cycling, and of infinitely many cycles some find the   *)
(* network up: they get to send, to ask, and to receive the answer.        *)
Fairness == WF_vars(Worker) /\ SF_vars(Take) /\ SF_vars(Ask) /\ SF_vars(Answer)

Spec == Init /\ [][Next]_vars /\ Fairness

-----------------------------------------------------------------------------
(* The types of the variables. *)
TypeOK ==
    /\ issued \in [Bots -> 0 .. MaxUpdates] /\ confirmed \in [Bots -> 0 .. MaxUpdates]
    /\ token \in Bots /\ known \in Bots \cup {NoToken}
    /\ offset \in 0 .. MaxUpdates /\ owner \in Bots \cup {NoToken}
    /\ pc \in {"outSync", "out", "sending", "inSync", "in", "fetch", "walk"}
    /\ polled \in Bots \cup {NoToken} /\ seen \in 0 .. MaxUpdates
    /\ batch \in Seq(Updates) /\ Len(batch) <= Limit
    /\ runs \in [Bots -> [Updates -> Nat]]
    /\ queue \in Seq(Msgs) /\ Len(queue) <= Capacity
    /\ sending \in Msgs \cup {0}
    /\ fate \in [Msgs -> {"new", "queued", "sending"} \cup Final]
    /\ retried \subseteq Msgs
    /\ count \in [Kinds -> 0 .. MaxTroubles]
    /\ unnoticed \in BOOLEAN

(* Every message is in one place: the queue holds exactly the messages     *)
(* that wait, each once, and the worker holds the one being sent (the ring *)
(* of MessageQueue under evictions and the processor's putting back).      *)
Accounted ==
    /\ \A m \in Msgs : fate[m] = "queued" <=> \E i \in DOMAIN queue : queue[i] = m
    /\ \A i, j \in DOMAIN queue : queue[i] = queue[j] => i = j
    /\ \A m \in Msgs : fate[m] = "sending" <=> (m = sending /\ pc = "sending")

(* Messages that were never put back are sent in the order they were       *)
(* accepted, whatever was evicted or put back around them.                 *)
SentInOrder ==
    \A m, n \in Msgs \ retried :
        m < n /\ fate[n] \in {"sending", "sent", "failed"} => fate[m] # "queued"

(* The server forgets an update only after the worker dispatched it: the   *)
(* offset is stored after the whole answer was walked, and a new bot does  *)
(* not inherit the old one's. Not so for a token that changed between the  *)
(* two reads of a cycle, between reads that both timed out, or before a    *)
(* deep sleep that no cycle preceded.                                      *)
NothingSkipped ==
    ~unnoticed => \A b \in Bots : \A u \in 1 .. confirmed[b] : runs[b][u] > 0

(* An update is dispatched again only if the offset was reset in between:  *)
(* once per change of the token, boot or restart, twice per read of the    *)
(* settings that timed out. Lost answers and errors repeat nothing.        *)
RerunsBounded ==
    \A b \in Bots : \A u \in Updates :
        runs[b][u] <= 1 + count["change"] + count["boot"] + 2 * count["timeout"]

(* Again and again no update of the configured bot is left undispatched,   *)
(* unless its token was changed unnoticed: none waits for ever.            *)
UpdateServed ==
    []<>(unnoticed \/ \A u \in 1 .. issued[token] : runs[token][u] > 0)

(* Again and again no message waits: each is sent, counted as failed,      *)
(* evicted by newer ones, or lost with the device's memory.                *)
MessageLeaves == []<>(queue = <<>> /\ sending = 0)

=============================================================================
