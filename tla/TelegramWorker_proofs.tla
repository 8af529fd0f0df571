------------------------ MODULE TelegramWorker_proofs ------------------------
(***************************************************************************)
(* Theorems about the Telegram channel, for any bots, capacities, messages, *)
(* updates and troubles.                                                   *)
(*                                                                         *)
(* The queue: Accounted (a message is where its fate says), Numbered (the  *)
(* numbers in use have no gap) and Ordered (what was never put back waits  *)
(* in the order of its numbers) carry SentInOrder.                         *)
(*                                                                         *)
(* The offset: Owned (an offset has an owner, the one syncConfigChanges    *)
(* knows), Polling (a poll and the offset it names are of one bot),        *)
(* Learned (what the offset covers was dispatched) and Covered (so is what *)
(* the poll has seen, but for the batch at hand) carry NothingSkipped.     *)
(*                                                                         *)
(* The repeats: Ahead (a batch lies above the offset and goes up) and Once *)
(* (runs, against the resets that troubles allow for) carry RerunsBounded. *)
(***************************************************************************)
EXTENDS TelegramWorker, Integers, TLAPS

(* The numbers of accepted messages have no gap. *)
Numbered ==
    \A m, n \in Msgs : m < n /\ fate[m] = "new" => fate[n] = "new"

(* Messages that were never put back wait in the order of their numbers. *)
Ordered ==
    \A i, j \in DOMAIN queue :
        i < j /\ {queue[i], queue[j]} \cap retried = {} => queue[i] < queue[j]

InHand == pc = "sending" => sending \in Msgs

QueueInv == Accounted /\ Numbered /\ Ordered /\ SentInOrder

(* The bot an offset belongs to is known, or no bot is. *)
Owned ==
    /\ offset > 0 => owner \in Bots
    /\ ~unnoticed => offset = 0 \/ owner = known \/ known = NoToken

(* The bot a poll asks is the one the offset belongs to. *)
Polling ==
    /\ pc \in {"fetch", "walk"} <=> polled \in Bots
    /\ ~unnoticed =>
          /\ pc = "in" => known \in {token, NoToken} /\ (offset = 0 \/ owner = token)
          /\ pc \in {"fetch", "walk"} =>
                known \in {polled, NoToken} /\ (offset = 0 \/ owner = polled)

(* Bot b's update u was dispatched. *)
Dispatched(b, u) == runs[b][u] > 0

(* What the offset covers was dispatched. *)
Learned ==
    ~unnoticed /\ owner \in Bots => \A u \in 1 .. offset : Dispatched(owner, u)

InBatch(u) == \E i \in DOMAIN batch : batch[i] = u

(* What a poll has seen, or is about to see, was dispatched or will be. *)
Covered ==
    ~unnoticed =>
        /\ pc = "fetch" =>
              /\ seen = offset
              /\ \A i \in DOMAIN batch : \A u \in 1 .. batch[i] :
                    Dispatched(polled, u) \/ InBatch(u)
        /\ pc = "walk" => \A u \in 1 .. seen : Dispatched(polled, u) \/ InBatch(u)

OffsetInv == Owned /\ Polling /\ Learned /\ Covered /\ NothingSkipped

(* A batch goes up, from above the offset to what the poll has seen.       *)
Ahead ==
    /\ pc \in {"fetch", "walk"} =>
          /\ \A i, j \in DOMAIN batch : i < j => batch[i] < batch[j]
          /\ \A i \in DOMAIN batch : offset < batch[i]
    /\ pc = "walk" => \A i \in DOMAIN batch : batch[i] <= seen

(* How often troubles allow the offset to be reset, or a poll to be cut    *)
(* short; and how often that may have happened, as a reset is still to     *)
(* come while syncConfigChanges has not seen the token.                    *)
Resets == count["change"] + count["boot"] + 2 * count["timeout"]
Used   == IF known = token THEN Resets ELSE Resets - 1

(* Bot b's update u is not dispatched again before the next reset. *)
Passed(b, u) == u <= offset \/ (pc = "walk" /\ polled = b /\ u <= seen /\ ~InBatch(u))

(* An update was dispatched at most once before every reset and once after *)
(* the last, and then it is passed.                                        *)
Once ==
    /\ 0 <= Used
    /\ \A b \in Bots, u \in Updates :
          /\ runs[b][u] - 1 <= Used
          /\ ~Passed(b, u) => runs[b][u] <= Used

IInv == TypeOK /\ InHand /\ QueueInv /\ OffsetInv /\ Ahead /\ Once

-----------------------------------------------------------------------------
(* The queue's operations, with indexes in place of Head and Tail. *)

LEMMA Pushed ==
    ASSUME NEW q \in Seq(Msgs), NEW m \in Msgs, NEW s, s = Append(q, m)
    PROVE  /\ s \in Seq(Msgs) /\ Len(s) = Len(q) + 1
           /\ s[Len(s)] = m
           /\ \A i \in 1 .. Len(q) : s[i] = q[i]
OBVIOUS

LEMMA Shifted ==
    ASSUME NEW q \in Seq(Msgs), q # <<>>, NEW m \in Msgs, NEW s, s = Append(Tail(q), m)
    PROVE  /\ s \in Seq(Msgs) /\ Len(s) = Len(q)
           /\ s[Len(s)] = m
           /\ \A i \in 1 .. Len(q) - 1 : s[i] = q[i + 1]
<1>1. /\ Tail(q) \in Seq(Msgs) /\ Len(Tail(q)) = Len(q) - 1
      /\ \A i \in 1 .. Len(q) - 1 : Tail(q)[i] = q[i + 1]
  OBVIOUS
<1>2. /\ s \in Seq(Msgs) /\ Len(s) = Len(Tail(q)) + 1
      /\ s[Len(s)] = m
      /\ \A i \in 1 .. Len(Tail(q)) : s[i] = Tail(q)[i]
  BY <1>1, Pushed
<1> QED
  BY <1>1, <1>2

(* Put shifts the queue by one exactly if it is full, and appends. *)
LEMMA PutShifts ==
    ASSUME TypeOK, NEW m \in Msgs, Put(m)
    PROVE  /\ queue' \in Seq(Msgs) /\ Len(queue') <= Capacity
           /\ fate' \in [Msgs -> {"new", "queued", "sending"} \cup Final]
           /\ \E d \in {0, 1} :
                 /\ d = 1 <=> Full
                 /\ d <= Len(queue) /\ Len(queue') = Len(queue) + 1 - d
                 /\ queue'[Len(queue')] = m
                 /\ \A i \in 1 .. Len(queue) - d : queue'[i] = queue[i + d]
                 /\ d = 1 => Head(queue) = queue[1] /\ queue[1] \in Msgs
<1>1. /\ queue \in Seq(Msgs) /\ Len(queue) \in Nat /\ Len(queue) <= Capacity
      /\ Capacity \in Nat \ {0}
  BY TelegramWorkerAssumption DEF TypeOK
<1>2. fate' \in [Msgs -> {"new", "queued", "sending"} \cup Final]
  BY DEF Put, Final, TypeOK
<1>3. CASE Full
  <2>0. queue \in Seq(Msgs)
    BY <1>1
  <2>1. Len(queue) = Capacity /\ queue # <<>>
    BY <1>1, <1>3 DEF Full
  <2>2. /\ Tail(queue) \in Seq(Msgs) /\ Len(Tail(queue)) = Len(queue) - 1
        /\ \A i \in 1 .. Len(queue) - 1 : Tail(queue)[i] = queue[i + 1]
        /\ Head(queue) = queue[1] /\ queue[1] \in Msgs
    BY <1>1, <2>1
  <2>3. queue' = Append(Tail(queue), m)
    BY <1>3 DEF Put
  <2>4. /\ queue' \in Seq(Msgs) /\ Len(queue') = Len(queue)
        /\ queue'[Len(queue')] = m
        /\ \A i \in 1 .. Len(queue) - 1 : queue'[i] = queue[i + 1]
    BY <2>0, <2>1, <2>3, Shifted
  <2> QED
    BY <1>1, <1>2, <1>3, <2>1, <2>2, <2>4
<1>4. CASE ~Full
  <2>1. Len(queue) < Capacity
    BY <1>1, <1>4 DEF Full
  <2>2. queue' = Append(queue, m)
    BY <1>4 DEF Put
  <2>3. /\ queue' \in Seq(Msgs) /\ Len(queue') = Len(queue) + 1
        /\ queue'[Len(queue')] = m
        /\ \A i \in 1 .. Len(queue) : queue'[i] = queue[i]
    BY <1>1, <2>2, Pushed
  <2>4. Len(queue') <= Capacity
    BY <1>1, <2>1, <2>3
  <2>5. /\ 0 = 1 <=> Full
        /\ 0 <= Len(queue) /\ Len(queue') = Len(queue) + 1 - 0
        /\ \A i \in 1 .. Len(queue) - 0 : queue'[i] = queue[i + 0]
        /\ 0 = 1 => Head(queue) = queue[1] /\ queue[1] \in Msgs
    BY <1>1, <1>4, <2>3
  <2> QED
    BY <1>2, <2>3, <2>4, <2>5
<1> QED
  BY <1>3, <1>4

LEMMA TakeShifts ==
    ASSUME TypeOK, Take
    PROVE  /\ queue' \in Seq(Msgs) /\ Len(queue') = Len(queue) - 1
           /\ Len(queue) \in Nat \ {0}
           /\ sending' = queue[1] /\ queue[1] \in Msgs
           /\ fate' = [fate EXCEPT ![queue[1]] = "sending"]
           /\ \A i \in 1 .. Len(queue) - 1 : queue'[i] = queue[i + 1]
<1>1. queue \in Seq(Msgs) /\ queue # <<>> /\ queue' = Tail(queue)
  BY DEF TypeOK, Take
<1>2. /\ Tail(queue) \in Seq(Msgs) /\ Len(Tail(queue)) = Len(queue) - 1
      /\ Len(queue) \in Nat \ {0}
      /\ \A i \in 1 .. Len(queue) - 1 : Tail(queue)[i] = queue[i + 1]
      /\ Head(queue) = queue[1] /\ queue[1] \in Msgs
  BY <1>1
<1> QED
  BY <1>1, <1>2 DEF Take

-----------------------------------------------------------------------------
(* Type correctness *)

LEMMA TypeInit == Init => TypeOK
<1> SUFFICES ASSUME Init PROVE TypeOK
  OBVIOUS
<1> USE TelegramWorkerAssumption
<1>1. <<>> \in Seq(Updates) /\ <<>> \in Seq(Msgs) /\ Len(<<>>) = 0
  OBVIOUS
<1>2. 0 \in 0 .. MaxUpdates /\ 0 \in 0 .. MaxTroubles /\ Limit \in Nat
  OBVIOUS
<1>3. count \in [Kinds -> 0 .. MaxTroubles]
  BY <1>2 DEF Init
<1>4. runs \in [Bots -> [Updates -> Nat]]
  BY DEF Init
<1>5. fate \in [Msgs -> {"new", "queued", "sending"} \cup Final]
  BY DEF Init
<1>6. issued \in [Bots -> 0 .. MaxUpdates] /\ confirmed \in [Bots -> 0 .. MaxUpdates]
  BY <1>2 DEF Init
<1>7. /\ token \in Bots /\ known \in Bots \cup {NoToken} /\ owner \in Bots \cup {NoToken}
      /\ polled \in Bots \cup {NoToken} /\ offset = 0 /\ seen = 0
  BY DEF Init
<1>8. Len(queue) <= Capacity /\ Len(batch) <= Limit
  BY <1>1, <1>2 DEF Init
<1> QED
  BY <1>1, <1>2, <1>3, <1>4, <1>5, <1>6, <1>7, <1>8 DEF Init, TypeOK

LEMMA TroubleCounts ==
    ASSUME TypeOK, NEW kind \in Kinds, Trouble(kind)
    PROVE  count' \in [Kinds -> 0 .. MaxTroubles]
<1>1. /\ count["retry"] \in Nat /\ count["change"] \in Nat
      /\ count["timeout"] \in Nat /\ count["boot"] \in Nat
      /\ MaxTroubles \in Nat
  BY TelegramWorkerAssumption DEF TypeOK, Kinds
<1>2. count[kind] + 1 \in 0 .. MaxTroubles
  BY <1>1 DEF Trouble, Kinds
<1> QED
  BY <1>2 DEF TypeOK, Trouble

LEMMA ReadsCounts ==
    ASSUME TypeOK, NEW view, Reads(view)
    PROVE  count' \in [Kinds -> 0 .. MaxTroubles] /\ view \in {token, NoToken}
BY TroubleCounts DEF Reads, Kinds, TypeOK

(* The server answers with consecutive updates after the offset and after  *)
(* what it forgot, and forgets no more than the offset covers.             *)
LEMMA Served ==
    ASSUME TypeOK, NEW b \in Bots, NEW from \in Nat \ {0}, Serve(b, from)
    PROVE  \E first \in Nat \ {0} :
              /\ first = Largest(from, confirmed[b] + 1)
              /\ batch' \in Seq(Updates) /\ Len(batch') <= Limit
              /\ \A i \in DOMAIN batch' : batch'[i] = first + i - 1
              /\ confirmed' \in [Bots -> 0 .. MaxUpdates]
              /\ \A c \in Bots \ {b} : confirmed'[c] = confirmed[c]
              /\ confirmed'[b] <= confirmed[b] \/ confirmed'[b] < from
<1> DEFINE first == Largest(from, confirmed[b] + 1)
           upto == issued[b] + 1
           size == Smallest(Limit, upto - Smallest(first, upto))
<1> USE TelegramWorkerAssumption
<1>1. /\ issued[b] \in 0 .. MaxUpdates /\ confirmed[b] \in 0 .. MaxUpdates
      /\ MaxUpdates \in Nat /\ Limit \in Nat \ {0}
  BY DEF TypeOK
<1>2. first \in Nat \ {0}
  BY <1>1 DEF Largest
<1>3. size \in Nat /\ size <= Limit /\ (size > 0 => first + size - 1 <= issued[b])
  BY <1>1, <1>2 DEF Smallest
<1> HIDE DEF size
<1>4. batch' = [i \in 1 .. size |-> first + i - 1]
  BY DEF Serve, size
<1>5. \A i \in 1 .. size : first + i - 1 \in Updates
  BY <1>1, <1>2, <1>3 DEF Updates
<1>6. batch' \in Seq(Updates) /\ Len(batch') = size /\ DOMAIN batch' = 1 .. size
  BY <1>3, <1>4, <1>5
<1>7. confirmed' = [confirmed EXCEPT ![b] = Largest(@, Smallest(from - 1, issued[b]))]
  BY DEF Serve
<1>8. /\ Largest(confirmed[b], Smallest(from - 1, issued[b])) \in 0 .. MaxUpdates
      /\ \/ Largest(confirmed[b], Smallest(from - 1, issued[b])) <= confirmed[b]
         \/ Largest(confirmed[b], Smallest(from - 1, issued[b])) < from
  BY <1>1 DEF Largest, Smallest
<1>9. /\ confirmed' \in [Bots -> 0 .. MaxUpdates]
      /\ \A c \in Bots \ {b} : confirmed'[c] = confirmed[c]
      /\ confirmed'[b] <= confirmed[b] \/ confirmed'[b] < from
  BY <1>7, <1>8 DEF TypeOK
<1> QED
  BY <1>2, <1>3, <1>4, <1>6, <1>9

(* Dispatch counts one run, of the first update of the batch. *)
LEMMA Counted ==
    ASSUME TypeOK, Dispatch
    PROVE  /\ batch' \in Seq(Updates) /\ Len(batch') = Len(batch) - 1
           /\ Len(batch) \in Nat \ {0} /\ batch[1] \in Updates
           /\ \A i \in 1 .. Len(batch) - 1 : batch'[i] = batch[i + 1]
           /\ runs' \in [Bots -> [Updates -> Nat]]
           /\ \A b \in Bots, u \in Updates :
                 runs'[b][u] = IF b = polled /\ u = batch[1] THEN runs[b][u] + 1 ELSE runs[b][u]
<1>1. batch \in Seq(Updates) /\ batch # <<>> /\ batch' = Tail(batch)
  BY DEF Dispatch, TypeOK
<1>2. /\ batch' \in Seq(Updates) /\ Len(batch') = Len(batch) - 1
      /\ Len(batch) \in Nat \ {0} /\ batch[1] \in Updates /\ Head(batch) = batch[1]
      /\ \A i \in 1 .. Len(batch) - 1 : batch'[i] = batch[i + 1]
  BY <1>1
<1> DEFINE h == batch[1]
<1>3. runs \in [Bots -> [Updates -> Nat]] /\ h \in Updates
  BY <1>2 DEF TypeOK
<1>4. runs' = [runs EXCEPT ![polled][h] = @ + 1]
  BY <1>2 DEF Dispatch
<1> HIDE DEF h
<1>5. ASSUME NEW b \in Bots PROVE runs'[b] \in [Updates -> Nat]
  <2>1. CASE b = polled
    <3>1. runs'[b] = [runs[b] EXCEPT ![h] = @ + 1]
      BY <1>3, <1>4, <2>1
    <3>2. runs[b] \in [Updates -> Nat] /\ runs[b][h] \in Nat
      BY <1>3
    <3>3. runs[b][h] + 1 \in Nat
      BY <3>2
    <3> QED
      BY <3>1, <3>2, <3>3
  <2>2. CASE b # polled
    BY <1>3, <1>4, <2>2
  <2> QED
    BY <2>1, <2>2
<1>6. runs' = [b \in Bots |-> runs'[b]]
  BY <1>3, <1>4
<1>7. \A b \in Bots, u \in Updates :
         runs'[b][u] = IF b = polled /\ u = h THEN runs[b][u] + 1 ELSE runs[b][u]
  BY <1>3, <1>4
<1> QED
  BY <1>2, <1>5, <1>6, <1>7 DEF h

LEMMA TypeNext == TypeOK /\ InHand /\ [Next]_vars => TypeOK'
<1> SUFFICES ASSUME TypeOK, InHand, [Next]_vars PROVE TypeOK'
  OBVIOUS
<1> USE TelegramWorkerAssumption
<1>1. ASSUME NEW m \in Msgs, Produce(m) PROVE TypeOK'
  BY <1>1, PutShifts DEF Produce, TypeOK, serverVars, offsetVars, pollVars
<1>2. ASSUME NEW b \in Bots, ChangeToken(b) PROVE TypeOK'
  <2>1. count' \in [Kinds -> 0 .. MaxTroubles]
    BY <1>2, TroubleCounts DEF ChangeToken, Kinds
  <2>2. unnoticed' \in BOOLEAN
    BY <1>2 DEF ChangeToken
  <2> QED
    BY <1>2, <2>1, <2>2 DEF ChangeToken, TypeOK, serverVars, offsetVars, pollVars, queueVars
<1>3. ASSUME NEW b \in Bots, Issue(b) PROVE TypeOK'
  <2>1. issued[b] + 1 \in 0 .. MaxUpdates
    BY <1>3 DEF Issue, TypeOK, Updates
  <2> QED
    BY <1>3, <2>1 DEF Issue, TypeOK, offsetVars, pollVars, queueVars
<1>4. ASSUME NEW view \in Bots \cup {NoToken}, Sync(view) PROVE TypeOK'
  <2>1. count' \in [Kinds -> 0 .. MaxTroubles]
    BY <1>4, ReadsCounts DEF Sync
  <2>2. unnoticed' \in BOOLEAN
    BY <1>4 DEF Sync
  <2>3. offset' \in 0 .. MaxUpdates /\ owner' \in Bots \cup {NoToken}
    <3>1. offset \in 0 .. MaxUpdates /\ 0 \in 0 .. MaxUpdates /\ owner \in Bots \cup {NoToken}
      BY DEF TypeOK
    <3>2. (UNCHANGED <<offset, owner>>) \/ (offset' = 0 /\ owner' = NoToken)
      BY <1>4 DEF Sync
    <3> QED
      BY <3>1, <3>2
  <2> QED
    BY <1>4, <2>1, <2>2, <2>3 DEF Sync, TypeOK, serverVars, pollVars, queueVars
<1>5. ASSUME NEW view \in Bots \cup {NoToken}, OutSkip(view) \/ InSkip(view)
      PROVE  TypeOK'
  <2>1. count' \in [Kinds -> 0 .. MaxTroubles]
    BY <1>5, ReadsCounts DEF OutSkip, InSkip
  <2> QED
    BY <1>5, <2>1 DEF OutSkip, InSkip, TypeOK, serverVars, offsetVars, pollVars, queueVars
<1>6. CASE Take
  <2>1. Len(queue') <= Capacity
    BY <1>6, TakeShifts DEF TypeOK
  <2> QED
    BY <1>6, <2>1, TakeShifts DEF Take, TypeOK, serverVars, offsetVars, pollVars
<1>7. CASE SendEnds
  BY <1>7 DEF SendEnds, TypeOK, Final, serverVars, offsetVars, pollVars
<1>8. CASE SendRetry
  <2>1. count' \in [Kinds -> 0 .. MaxTroubles]
    BY <1>8, TroubleCounts DEF SendRetry, Kinds
  <2>2. CASE sending \in Msgs
    BY <1>8, <2>1, <2>2, PutShifts DEF SendRetry, TypeOK, serverVars, offsetVars, pollVars
  <2> QED
    BY <1>8, <2>2 DEF SendRetry, InHand
<1>9. CASE Ask
  <2>1. offset + 1 \in Nat \ {0} /\ token \in Bots
    BY DEF TypeOK
  <2>2. /\ batch' \in Seq(Updates) /\ Len(batch') <= Limit
        /\ confirmed' \in [Bots -> 0 .. MaxUpdates]
    BY <1>9, <2>1, Served DEF Ask
  <2>3. polled' \in Bots \cup {NoToken} /\ seen' \in 0 .. MaxUpdates
    BY <1>9, <2>1 DEF Ask, TypeOK
  <2>4. UNCHANGED <<issued, token, known, offset, owner, runs, queue, sending, fate,
                    retried, count, unnoticed>> /\ pc' = "fetch"
    BY <1>9 DEF Ask, offsetVars, queueVars
  <2> QED
    BY <2>2, <2>3, <2>4 DEF TypeOK
<1>10. CASE NoUpdates
  <2>1. /\ pc' = "outSync" /\ polled' = NoToken /\ batch' = <<>> /\ seen' = 0
        /\ UNCHANGED <<serverVars, token, offsetVars, runs, queueVars, count, unnoticed>>
    BY <1>10 DEF NoUpdates, EndPoll
  <2>2. batch' \in Seq(Updates) /\ Len(batch') <= Limit /\ seen' \in 0 .. MaxUpdates
    BY <2>1
  <2> QED
    BY <2>1, <2>2 DEF TypeOK, serverVars, offsetVars, queueVars
<1>11. CASE Answer
  <2>0. batch \in Seq(Updates) /\ batch # <<>>
    BY <1>11 DEF Answer, TypeOK
  <2>1. batch[Len(batch)] \in Updates /\ Len(batch) \in Nat
    BY <2>0
  <2>2. seen' \in 0 .. MaxUpdates
    <3>1. batch[Len(batch)] \in 0 .. MaxUpdates /\ seen \in 0 .. MaxUpdates
      BY <2>1 DEF TypeOK, Updates
    <3> QED
      BY <1>11, <3>1 DEF Answer, Largest
  <2>3. Smallest(Kept, Len(batch)) \in 0 .. Len(batch)
    BY <2>1 DEF Smallest
  <2>4. batch' \in Seq(Updates) /\ Len(batch') <= Limit
    <3>1. batch \in Seq(Updates) /\ Len(batch) <= Limit /\ Limit \in Nat
      BY DEF TypeOK
    <3>2. PICK k \in 0 .. Len(batch) : batch' = SubSeq(batch, 1, k)
      BY <1>11, <2>3 DEF Answer
    <3> QED
      BY <3>1, <3>2
  <2> QED
    BY <1>11, <2>2, <2>4 DEF Answer, TypeOK, serverVars, offsetVars, queueVars
<1>12. CASE Dispatch
  <2>1. batch' \in Seq(Updates) /\ Len(batch') <= Limit /\ runs' \in [Bots -> [Updates -> Nat]]
    <3>1. Len(batch) <= Limit /\ Limit \in Nat
      BY DEF TypeOK
    <3> QED
      BY <1>12, <3>1, Counted
  <2>3. /\ queue' \in Seq(Msgs) /\ Len(queue') <= Capacity
        /\ fate' \in [Msgs -> {"new", "queued", "sending"} \cup Final]
        /\ UNCHANGED <<sending, retried>>
    BY <1>12, PutShifts DEF Dispatch, TypeOK, queueVars
  <2> QED
    BY <1>12, <2>1, <2>3 DEF Dispatch, TypeOK, serverVars, offsetVars
<1>13. CASE Commit
  <2>1. offset' \in 0 .. MaxUpdates /\ owner' \in Bots \cup {NoToken}
    BY <1>13 DEF Commit, Largest, TypeOK
  <2>2. /\ batch' = <<>> /\ seen' = 0 /\ pc' = "outSync" /\ polled' = NoToken
        /\ UNCHANGED <<serverVars, token, known, runs, queueVars, count, unnoticed>>
    BY <1>13 DEF Commit, EndPoll
  <2>3. batch' \in Seq(Updates) /\ Len(batch') <= Limit /\ seen' \in 0 .. MaxUpdates
    BY <2>2
  <2> QED
    BY <2>1, <2>2, <2>3 DEF TypeOK, serverVars, queueVars
<1>14. CASE Boot
  <2>1. count' \in [Kinds -> 0 .. MaxTroubles]
    BY <1>14, TroubleCounts DEF Boot, Kinds
  <2>2. fate' \in [Msgs -> {"new", "queued", "sending"} \cup Final]
    BY <1>14 DEF Boot, TypeOK, Final
  <2>3. offset' \in 0 .. MaxUpdates /\ owner' \in Bots \cup {NoToken}
    <3>1. offset \in 0 .. MaxUpdates /\ 0 \in 0 .. MaxUpdates /\ owner \in Bots \cup {NoToken}
      BY DEF TypeOK
    <3>2. \/ offset' = offset /\ owner' = owner
          \/ offset' = 0 /\ owner' = NoToken
      BY <1>14 DEF Boot
    <3> QED
      BY <3>1, <3>2
  <2>4. unnoticed' \in BOOLEAN
    BY <1>14 DEF Boot, TypeOK
  <2>5. /\ pc' = "outSync" /\ polled' = NoToken /\ batch' = <<>> /\ seen' = 0
        /\ known' = token /\ queue' = <<>> /\ sending' = 0
        /\ UNCHANGED <<issued, confirmed, token, runs, retried>>
    BY <1>14 DEF Boot, EndPoll, serverVars
  <2>6. /\ batch' \in Seq(Updates) /\ Len(batch') <= Limit
        /\ queue' \in Seq(Msgs) /\ Len(queue') <= Capacity
    BY <2>5
  <2>7. seen' \in 0 .. MaxUpdates /\ sending' \in Msgs \cup {0}
    BY <2>5
  <2> QED
    BY <2>1, <2>2, <2>3, <2>4, <2>5, <2>6, <2>7 DEF TypeOK
<1>15. CASE UNCHANGED vars
  BY <1>15 DEF vars, TypeOK, serverVars, offsetVars, pollVars, queueVars
<1> QED
  BY <1>1, <1>2, <1>3, <1>4, <1>5, <1>6, <1>7, <1>8, <1>9, <1>10, <1>11, <1>12,
     <1>13, <1>14, <1>15 DEF Next, Worker, Outbound, Inbound

-----------------------------------------------------------------------------
(* The queue *)

LEMMA QueueInit == Init => InHand /\ QueueInv
<1> SUFFICES ASSUME Init PROVE InHand /\ QueueInv
  OBVIOUS
<1>1. /\ queue = <<>> /\ DOMAIN queue = {} /\ sending = 0 /\ pc = "outSync"
      /\ \A m \in Msgs : fate[m] = "new"
  BY DEF Init
<1> QED
  BY <1>1 DEF InHand, QueueInv, Accounted, Numbered, Ordered, SentInOrder

(* What Put does to the queue's invariants, for a new message and for one  *)
(* that is put back.                                                       *)
LEMMA PutKeeps ==
    ASSUME TypeOK, QueueInv, NEW m \in Msgs, Put(m), fate[m] # "queued",
           \/ Fresh(m) /\ retried' = retried
           \/ fate[m] = "sending" /\ retried' = retried \cup {m}
    PROVE  /\ \A k \in Msgs : fate'[k] = "queued" <=> \E i \in DOMAIN queue' : queue'[i] = k
           /\ \A i, j \in DOMAIN queue' : queue'[i] = queue'[j] => i = j
           /\ \A k \in Msgs : fate'[k] = "sending" <=> fate[k] = "sending" /\ k # m
           /\ Numbered' /\ Ordered' /\ SentInOrder'
<1>1. PICK d \in {0, 1} :
         /\ d = 1 <=> Full
         /\ d <= Len(queue) /\ Len(queue') = Len(queue) + 1 - d
         /\ queue'[Len(queue')] = m
         /\ \A i \in 1 .. Len(queue) - d : queue'[i] = queue[i + d]
         /\ d = 1 => Head(queue) = queue[1] /\ queue[1] \in Msgs
  BY PutShifts
<1>2. /\ queue \in Seq(Msgs) /\ Len(queue) \in Nat /\ DOMAIN queue = 1 .. Len(queue)
      /\ queue' \in Seq(Msgs) /\ Len(queue') \in Nat /\ DOMAIN queue' = 1 .. Len(queue')
      /\ \A i \in 1 .. Len(queue) : queue[i] \in Msgs
  BY PutShifts DEF TypeOK
<1>3. /\ \A k \in Msgs : fate[k] = "queued" <=> \E i \in 1 .. Len(queue) : queue[i] = k
      /\ \A i, j \in 1 .. Len(queue) : queue[i] = queue[j] => i = j
  BY <1>2 DEF QueueInv, Accounted
<1>4. \A i \in 1 .. Len(queue) : queue[i] # m /\ fate[queue[i]] = "queued"
  BY <1>2, <1>3
<1>5. \A k \in Msgs : fate'[k] = IF k = m THEN "queued"
                               ELSE IF d = 1 /\ k = queue[1] THEN "evicted" ELSE fate[k]
  <2> SUFFICES ASSUME NEW k \in Msgs
               PROVE  fate'[k] = IF k = m THEN "queued"
                                 ELSE IF d = 1 /\ k = queue[1] THEN "evicted" ELSE fate[k]
    OBVIOUS
  <2>1. fate'[k] = CASE k = m -> "queued"
                     [] Full /\ k = Head(queue) -> "evicted"
                     [] OTHER -> fate[k]
    BY DEF Put
  <2>2. CASE k = m
    BY <1>1, <1>2, <1>4, <2>1, <2>2
  <2>3. CASE k # m
    BY <1>1, <2>1, <2>3
  <2> QED
    BY <2>2, <2>3
<1>6. \A i \in 1 .. Len(queue') : i = Len(queue') \/ (i + d \in 1 .. Len(queue) /\ queue'[i] = queue[i + d])
  BY <1>1, <1>2
<1>7. ASSUME NEW k \in Msgs
      PROVE  fate'[k] = "queued" <=> \E i \in 1 .. Len(queue') : queue'[i] = k
  <2>1. CASE k = m
    BY <1>1, <1>2, <1>5, <2>1
  <2>2. CASE k # m /\ d = 1 /\ k = queue[1]
    <3>1. \A i \in 1 .. Len(queue') : queue'[i] # k
      <4> SUFFICES ASSUME NEW i \in 1 .. Len(queue'), queue'[i] = k PROVE FALSE
        OBVIOUS
      <4>1. i # Len(queue')
        BY <1>1, <2>2
      <4>2. i + 1 \in 1 .. Len(queue) /\ queue[i + 1] = queue[1]
        BY <1>6, <2>2, <4>1
      <4>3. 1 \in 1 .. Len(queue)
        BY <1>2, <4>2
      <4> QED
        BY <1>3, <4>2, <4>3
    <3> QED
      BY <1>5, <2>2, <3>1
  <2>3. CASE k # m /\ ~(d = 1 /\ k = queue[1])
    <3>1. fate'[k] = fate[k]
      BY <1>5, <2>3
    <3>2. ASSUME NEW i \in 1 .. Len(queue), queue[i] = k
          PROVE  \E j \in 1 .. Len(queue') : queue'[j] = k
      <4>1. i - d \in 1 .. Len(queue) - d
        BY <1>1, <1>2, <2>3, <3>2
      <4>2. queue'[i - d] = queue[(i - d) + d] /\ (i - d) + d = i
        BY <1>1, <1>2, <4>1
      <4>3. i - d \in 1 .. Len(queue')
        BY <1>1, <1>2, <4>1
      <4> QED
        BY <3>2, <4>2, <4>3
    <3>3. ASSUME NEW i \in 1 .. Len(queue'), queue'[i] = k
          PROVE  \E j \in 1 .. Len(queue) : queue[j] = k
      BY <1>1, <1>2, <1>6, <2>3, <3>3
    <3> QED
      BY <1>3, <3>1, <3>2, <3>3
  <2> QED
    BY <2>1, <2>2, <2>3
<1>8. ASSUME NEW i \in 1 .. Len(queue'), NEW j \in 1 .. Len(queue'), queue'[i] = queue'[j]
      PROVE  i = j
  <2>1. i = Len(queue') => j = Len(queue')
    BY <1>1, <1>4, <1>6, <1>8
  <2>2. j = Len(queue') => i = Len(queue')
    BY <1>1, <1>4, <1>6, <1>8
  <2>3. CASE i # Len(queue') /\ j # Len(queue')
    <3>1. /\ i + d \in 1 .. Len(queue) /\ j + d \in 1 .. Len(queue)
          /\ queue[i + d] = queue[j + d]
      BY <1>6, <1>8, <2>3
    <3>2. i + d = j + d
      BY <1>3, <3>1
    <3> QED
      BY <3>2
  <2> QED
    BY <2>1, <2>2, <2>3
<1>9. \A k \in Msgs : fate'[k] = "sending" <=> fate[k] = "sending" /\ k # m
  <2>1. d = 1 => fate[queue[1]] = "queued"
    BY <1>1, <1>2, <1>4
  <2> QED
    BY <1>5, <2>1
<1>10. Numbered'
  <2>1. \A k \in Msgs : fate'[k] = "new" <=> fate[k] = "new" /\ k # m
    <3>1. d = 1 => fate[queue[1]] = "queued"
      BY <1>1, <1>2, <1>4
    <3> QED
      BY <1>5, <3>1
  <2>2. \A k, n \in Msgs : k < n /\ fate[k] = "new" => fate[n] = "new"
    BY DEF QueueInv, Numbered
  <2>3. fate[m] = "new" => \A k \in Msgs : k < m => fate[k] # "new"
    BY DEF Fresh
  <2> QED
    BY <2>1, <2>2, <2>3 DEF Numbered
<1>11. m \in retried' \/ (\A i \in 1 .. Len(queue) : queue[i] < m)
  <2>1. SUFFICES ASSUME Fresh(m), NEW i \in 1 .. Len(queue) PROVE queue[i] < m
    OBVIOUS
  <2>2. queue[i] \in Msgs /\ fate[queue[i]] = "queued" /\ queue[i] # m
    BY <1>2, <1>4
  <2>3. fate[m] = "new" /\ (m < queue[i] => fate[queue[i]] = "new")
    BY <2>1, <2>2 DEF Fresh, QueueInv, Numbered
  <2> QED
    BY <2>2, <2>3 DEF Msgs
<1>12. Ordered'
  <2> SUFFICES ASSUME NEW i \in 1 .. Len(queue'), NEW j \in 1 .. Len(queue'), i < j,
                      queue'[i] \notin retried', queue'[j] \notin retried'
               PROVE  queue'[i] < queue'[j]
    BY <1>2 DEF Ordered
  <2>1. i + d \in 1 .. Len(queue) /\ queue'[i] = queue[i + d] /\ queue[i + d] \notin retried
    <3>1. i # Len(queue')
      BY <1>2
    <3>2. i + d \in 1 .. Len(queue) /\ queue'[i] = queue[i + d]
      BY <1>6, <3>1
    <3> QED
      BY <3>2
  <2>2. CASE j = Len(queue')
    BY <1>1, <1>11, <2>1, <2>2
  <2>3. CASE j # Len(queue')
    <3>1. j + d \in 1 .. Len(queue) /\ queue'[j] = queue[j + d] /\ queue[j + d] \notin retried
      BY <1>6, <2>3
    <3>2. i + d < j + d
      OBVIOUS
    <3> QED
      BY <1>2, <2>1, <3>1, <3>2 DEF QueueInv, Ordered
  <2> QED
    BY <2>2, <2>3
<1>13. SentInOrder'
  <2> SUFFICES ASSUME NEW k \in Msgs, NEW n \in Msgs, k \notin retried', n \notin retried', k < n,
                      fate'[n] \in {"sending", "sent", "failed"}, fate'[k] = "queued"
               PROVE  FALSE
    BY DEF SentInOrder
  <2>1. n # m /\ fate[n] = fate'[n]
    BY <1>5
  <2>2. k # m
    <3>1. Fresh(m) => (m < n => fate[n] = "new")
      BY DEF Fresh, QueueInv, Numbered
    <3> QED
      BY <2>1, <3>1
  <2>3. fate[k] = "queued"
    BY <1>5, <2>2
  <2> QED
    BY <2>1, <2>3 DEF QueueInv, SentInOrder
<1> QED
  BY <1>2, <1>7, <1>8, <1>9, <1>10, <1>12, <1>13
(* Steps that leave queue and message alone, and do not begin or end a send. *)
LEMMA QueueIdle ==
    ASSUME InHand, QueueInv, UNCHANGED queueVars,
           pc' = pc \/ (pc # "sending" /\ pc' # "sending")
    PROVE  InHand' /\ QueueInv'
BY DEF InHand, QueueInv, Accounted, Numbered, Ordered, SentInOrder, queueVars

LEMMA QueueTake ==
    ASSUME TypeOK, QueueInv, Take
    PROVE  InHand' /\ QueueInv'
<1>1. /\ queue' \in Seq(Msgs) /\ Len(queue') = Len(queue) - 1 /\ Len(queue) \in Nat \ {0}
      /\ sending' = queue[1] /\ queue[1] \in Msgs
      /\ fate' = [fate EXCEPT ![queue[1]] = "sending"]
      /\ \A i \in 1 .. Len(queue) - 1 : queue'[i] = queue[i + 1]
  BY TakeShifts
<1>2. /\ DOMAIN queue = 1 .. Len(queue) /\ DOMAIN queue' = 1 .. Len(queue) - 1
      /\ \A i \in 1 .. Len(queue) : queue[i] \in Msgs
      /\ fate \in [Msgs -> {"new", "queued", "sending"} \cup Final]
  BY <1>1 DEF TypeOK
<1>3. /\ pc = "out" /\ pc' = "sending" /\ retried' = retried
  BY DEF Take
<1>4. /\ \A k \in Msgs : fate[k] = "queued" <=> \E i \in 1 .. Len(queue) : queue[i] = k
      /\ \A i, j \in 1 .. Len(queue) : queue[i] = queue[j] => i = j
      /\ \A k \in Msgs : fate[k] # "sending"
  BY <1>2, <1>3 DEF QueueInv, Accounted
<1>5. \A k \in Msgs : fate'[k] = IF k = queue[1] THEN "sending" ELSE fate[k]
  BY <1>1, <1>2
<1>6. fate[queue[1]] = "queued"
  BY <1>1, <1>4
<1>7. \A i \in 1 .. Len(queue) - 1 : i + 1 \in 1 .. Len(queue) /\ i + 1 # 1 /\ queue'[i] = queue[i + 1]
  BY <1>1
<1>8. ASSUME NEW k \in Msgs
      PROVE  fate'[k] = "queued" <=> \E i \in 1 .. Len(queue) - 1 : queue'[i] = k
  <2>1. CASE k = queue[1]
    BY <1>1, <1>4, <1>5, <1>7, <2>1
  <2>2. CASE k # queue[1]
    <3>1. ASSUME NEW i \in 1 .. Len(queue), queue[i] = k
          PROVE  \E j \in 1 .. Len(queue) - 1 : queue'[j] = k
      <4>1. i - 1 \in 1 .. Len(queue) - 1 /\ (i - 1) + 1 = i
        BY <1>1, <2>2, <3>1
      <4> QED
        BY <1>7, <3>1, <4>1
    <3>2. fate'[k] = fate[k]
      BY <1>5, <2>2
    <3>3. ASSUME NEW i \in 1 .. Len(queue) - 1, queue'[i] = k
          PROVE  fate[k] = "queued"
      <4>1. i + 1 \in 1 .. Len(queue) /\ queue[i + 1] = k
        BY <1>7, <3>3
      <4> QED
        BY <1>4, <4>1
    <3>4. ASSUME fate[k] = "queued"
          PROVE  \E i \in 1 .. Len(queue) - 1 : queue'[i] = k
      <4>1. PICK i \in 1 .. Len(queue) : queue[i] = k
        BY <1>4, <3>4
      <4> QED
        BY <3>1, <4>1
    <3> QED
      BY <3>2, <3>3, <3>4
  <2> QED
    BY <2>1, <2>2
<1>9. ASSUME NEW i \in 1 .. Len(queue) - 1, NEW j \in 1 .. Len(queue) - 1, queue'[i] = queue'[j]
      PROVE  i = j
  <2>1. i + 1 = j + 1
    BY <1>4, <1>7, <1>9
  <2> QED
    BY <2>1
<1>10. Accounted' /\ InHand'
  BY <1>1, <1>2, <1>3, <1>4, <1>5, <1>8, <1>9 DEF Accounted, InHand
<1>11. Numbered'
  BY <1>5, <1>6 DEF QueueInv, Numbered
<1>12. Ordered'
  <2> SUFFICES ASSUME NEW i \in 1 .. Len(queue) - 1, NEW j \in 1 .. Len(queue) - 1, i < j,
                      queue'[i] \notin retried, queue'[j] \notin retried
               PROVE  queue'[i] < queue'[j]
    BY <1>2, <1>3 DEF Ordered
  <2>1. i + 1 < j + 1
    OBVIOUS
  <2> QED
    BY <1>2, <1>7, <2>1 DEF QueueInv, Ordered
<1>13. SentInOrder'
  <2> SUFFICES ASSUME NEW k \in Msgs, NEW n \in Msgs, k \notin retried, n \notin retried, k < n,
                      fate'[n] \in {"sending", "sent", "failed"}, fate'[k] = "queued"
               PROVE  FALSE
    BY <1>3 DEF SentInOrder
  <2>1. fate[k] = "queued" /\ k # queue[1]
    BY <1>5
  <2>2. CASE n = queue[1]
    <3>1. PICK i \in 1 .. Len(queue) : queue[i] = k
      BY <1>4, <2>1
    <3>2. 1 < i /\ 1 \in 1 .. Len(queue)
      BY <1>1, <2>1, <3>1
    <3>3. queue[1] < queue[i]
      BY <1>2, <2>2, <3>1, <3>2 DEF QueueInv, Ordered
    <3> QED
      BY <2>2, <3>1, <3>3 DEF Msgs
  <2>3. CASE n # queue[1]
    BY <1>5, <2>1, <2>3 DEF QueueInv, SentInOrder
  <2> QED
    BY <2>2, <2>3
<1> QED
  BY <1>10, <1>11, <1>12, <1>13 DEF QueueInv

LEMMA QueueNext == TypeOK /\ InHand /\ QueueInv /\ [Next]_vars => InHand' /\ QueueInv'
<1> SUFFICES ASSUME TypeOK, InHand, QueueInv, [Next]_vars PROVE InHand' /\ QueueInv'
  OBVIOUS
<1>1. ASSUME NEW m \in Msgs, Produce(m) PROVE InHand' /\ QueueInv'
  <2>1. Fresh(m) /\ Put(m) /\ fate[m] = "new" /\ UNCHANGED <<pc, sending, retried>>
    BY <1>1 DEF Produce, Fresh
  <2> QED
    BY <2>1, PutKeeps DEF InHand, QueueInv, Accounted
<1>2. ASSUME NEW b \in Bots, ChangeToken(b) \/ Issue(b) PROVE InHand' /\ QueueInv'
  BY <1>2, QueueIdle DEF ChangeToken, Issue
<1>3. ASSUME NEW view \in Bots \cup {NoToken}, Sync(view) \/ OutSkip(view) \/ InSkip(view)
      PROVE  InHand' /\ QueueInv'
  BY <1>3, QueueIdle DEF Sync, OutSkip, InSkip
<1>4. CASE Take
  BY <1>4, QueueTake
<1>5. CASE SendEnds
  <2>1. PICK end \in {"sent", "failed"} : fate' = [fate EXCEPT ![sending] = end]
    BY <1>5 DEF SendEnds
  <2>2. /\ pc = "sending" /\ pc' = "inSync" /\ sending \in Msgs /\ fate[sending] = "sending"
        /\ UNCHANGED <<queue, retried>>
    BY <1>5 DEF SendEnds, InHand, QueueInv, Accounted
  <2>3. \A k \in Msgs : fate'[k] = IF k = sending THEN end ELSE fate[k]
    BY <2>1 DEF TypeOK
  <2>4. Accounted' /\ InHand'
    BY <2>2, <2>3 DEF Accounted, InHand, QueueInv
  <2>5. Numbered' /\ Ordered'
    BY <2>2, <2>3 DEF Numbered, Ordered, QueueInv
  <2>6. SentInOrder'
    BY <2>2, <2>3 DEF SentInOrder, QueueInv
  <2> QED
    BY <2>4, <2>5, <2>6 DEF QueueInv
<1>6. CASE SendRetry
  <2>1. /\ pc = "sending" /\ pc' = "inSync" /\ sending \in Msgs /\ fate[sending] = "sending"
        /\ Put(sending) /\ retried' = retried \cup {sending}
        /\ \A k \in Msgs : fate[k] = "sending" => k = sending
    BY <1>6 DEF SendRetry, InHand, QueueInv, Accounted
  <2> QED
    BY <2>1, PutKeeps DEF InHand, QueueInv, Accounted
<1>7. CASE Ask \/ NoUpdates \/ Answer \/ Commit
  BY <1>7, QueueIdle DEF Ask, NoUpdates, Answer, Commit, EndPoll
<1>8. CASE Dispatch
  <2>1. CASE UNCHANGED queueVars
    BY <1>8, <2>1, QueueIdle DEF Dispatch
  <2>2. ASSUME NEW m \in Msgs, Fresh(m), Put(m), UNCHANGED <<sending, retried>>
        PROVE  InHand' /\ QueueInv'
    <3>1. fate[m] = "new" /\ pc' = pc
      BY <1>8, <2>2 DEF Dispatch, Fresh
    <3> QED
      BY <2>2, <3>1, PutKeeps DEF InHand, QueueInv, Accounted
  <2> QED
    BY <1>8, <2>1, <2>2 DEF Dispatch
<1>9. CASE Boot
  <2>1. /\ pc' = "outSync" /\ queue' = <<>> /\ sending' = 0 /\ retried' = retried
        /\ DOMAIN queue' = {}
    BY <1>9 DEF Boot, EndPoll
  <2>2. \A k \in Msgs :
           fate'[k] = IF fate[k] \in {"queued", "sending"} THEN "lost" ELSE fate[k]
    BY <1>9 DEF Boot
  <2>3. Accounted' /\ InHand'
    BY <2>1, <2>2 DEF Accounted, InHand
  <2>4. Numbered' /\ Ordered' /\ SentInOrder'
    BY <2>1, <2>2 DEF Numbered, Ordered, SentInOrder, QueueInv
  <2> QED
    BY <2>3, <2>4 DEF QueueInv
<1>10. CASE UNCHANGED vars
  BY <1>10, QueueIdle DEF vars
<1> QED
  BY <1>1, <1>2, <1>3, <1>4, <1>5, <1>6, <1>7, <1>8, <1>9, <1>10
  DEF Next, Worker, Outbound, Inbound
-----------------------------------------------------------------------------
(* The offset *)

LEMMA OffsetInit == Init => OffsetInv
<1> SUFFICES ASSUME Init PROVE OffsetInv
  OBVIOUS
<1>1. /\ offset = 0 /\ owner = NoToken /\ pc = "outSync" /\ polled = NoToken
      /\ NoToken \notin Bots /\ \A b \in Bots : confirmed[b] = 0
  BY TelegramWorkerAssumption DEF Init
<1> QED
  BY <1>1 DEF OffsetInv, Owned, Polling, Learned, Covered, NothingSkipped

(* Steps between polls that leave bot and offset alone. *)
LEMMA OffsetIdle ==
    ASSUME OffsetInv, UNCHANGED <<confirmed, token, offsetVars, pollVars, unnoticed>>,
           \/ pc' = pc
           \/ pc \notin {"fetch", "walk"} /\ pc' \notin {"in", "fetch", "walk"}
    PROVE  OffsetInv'
<1> USE DEF offsetVars, pollVars
<1>1. Owned' /\ Learned' /\ NothingSkipped'
  BY DEF OffsetInv, Owned, Learned, NothingSkipped, Dispatched
<1>2. Polling'
  BY DEF OffsetInv, Polling
<1>3. Covered'
  BY DEF OffsetInv, Covered, Dispatched, InBatch
<1> QED
  BY <1>1, <1>2, <1>3 DEF OffsetInv

LEMMA OffsetChange ==
    ASSUME OffsetInv, NEW b \in Bots, ChangeToken(b)
    PROVE  OffsetInv'
<1>1. /\ UNCHANGED <<confirmed, known, offset, owner, pc, polled, batch, seen, runs>>
      /\ ~unnoticed' => ~unnoticed /\ pc # "in"
  BY DEF ChangeToken, serverVars, offsetVars, pollVars
<1>2. Owned' /\ Learned' /\ NothingSkipped'
  BY <1>1 DEF OffsetInv, Owned, Learned, NothingSkipped, Dispatched
<1>3. Polling'
  BY <1>1 DEF OffsetInv, Polling
<1>4. Covered'
  BY <1>1 DEF OffsetInv, Covered, Dispatched, InBatch
<1> QED
  BY <1>2, <1>3, <1>4 DEF OffsetInv

(* syncConfigChanges leaves the offset of the bot it read, or none, unless *)
(* it missed a change.                                                     *)
LEMMA OffsetSync ==
    ASSUME TypeOK, OffsetInv, NEW view \in Bots \cup {NoToken}, Sync(view)
    PROVE  OffsetInv'
<1> USE TelegramWorkerAssumption
<1>1. /\ UNCHANGED <<confirmed, token, polled, batch, seen, runs>>
      /\ pc \notin {"fetch", "walk"} /\ pc' \notin {"fetch", "walk"}
      /\ known' = view /\ view \in {token, NoToken}
      /\ ~unnoticed' => ~unnoticed /\ ~(view = NoToken /\ known = NoToken /\ Foreign)
  BY DEF Sync, Reads, serverVars, pollVars
<1>2. \/ view = known /\ UNCHANGED <<offset, owner>>
      \/ offset' = 0 /\ owner' = NoToken
  BY DEF Sync
<1>3. token \in Bots /\ offset \in Nat /\ NoToken \notin Bots
  BY DEF TypeOK
<1>4. Owned'
  BY <1>1, <1>2, <1>3 DEF OffsetInv, Owned
<1>5. ~unnoticed' => offset' = 0 \/ owner' = token
  BY <1>1, <1>2, <1>3 DEF OffsetInv, Owned, Foreign
<1>6. Polling'
  BY <1>1, <1>3, <1>5 DEF OffsetInv, Polling
<1>7. Learned' /\ NothingSkipped' /\ Covered'
  BY <1>1, <1>2, <1>3 DEF OffsetInv, Learned, NothingSkipped, Covered, Dispatched
<1> QED
  BY <1>4, <1>6, <1>7 DEF OffsetInv

(* The request covers what was dispatched, the answer what comes next. *)
LEMMA OffsetAsk ==
    ASSUME TypeOK, OffsetInv, Ask
    PROVE  OffsetInv'
<1> USE TelegramWorkerAssumption
<1>1. /\ pc = "in" /\ pc' = "fetch" /\ polled' = token /\ seen' = offset
      /\ Serve(token, offset + 1)
      /\ UNCHANGED <<token, known, offset, owner, runs, unnoticed>>
  BY DEF Ask, offsetVars
<1>2. token \in Bots /\ offset \in Nat /\ offset + 1 \in Nat \ {0} /\ confirmed[token] \in Nat
  BY DEF TypeOK
<1>3. PICK first \in Nat \ {0} :
         /\ first = Largest(offset + 1, confirmed[token] + 1)
         /\ batch' \in Seq(Updates) /\ Len(batch') <= Limit
         /\ \A i \in DOMAIN batch' : batch'[i] = first + i - 1
         /\ confirmed' \in [Bots -> 0 .. MaxUpdates]
         /\ \A c \in Bots \ {token} : confirmed'[c] = confirmed[c]
         /\ confirmed'[token] <= confirmed[token] \/ confirmed'[token] < offset + 1
  BY <1>1, <1>2, Served
<1>4. ASSUME ~unnoticed
      PROVE  /\ offset = 0 \/ owner = token
             /\ \A u \in 1 .. offset : Dispatched(token, u)
             /\ \A u \in 1 .. confirmed[token] : Dispatched(token, u)
  <2>1. offset = 0 \/ owner = token
    BY <1>1, <1>4 DEF OffsetInv, Polling
  <2> QED
    BY <1>2, <1>4, <2>1 DEF OffsetInv, Learned, NothingSkipped, Dispatched
<1>5. NothingSkipped'
  <2> SUFFICES ASSUME ~unnoticed, NEW c \in Bots, NEW u \in 1 .. confirmed'[c]
               PROVE  runs[c][u] > 0
    BY <1>1 DEF NothingSkipped
  <2>1. CASE c = token
    <3>1. confirmed'[token] \in Nat
      BY <1>2, <1>3
    <3>2. u \in 1 .. confirmed[token] \/ u \in 1 .. offset
      BY <1>2, <1>3, <2>1, <3>1
    <3> QED
      BY <1>4, <2>1, <3>2 DEF Dispatched
  <2>2. CASE c # token
    BY <1>3, <2>2 DEF OffsetInv, NothingSkipped
  <2> QED
    BY <2>1, <2>2
<1>6. Owned' /\ Learned'
  BY <1>1 DEF OffsetInv, Owned, Learned, Dispatched
<1>7. Polling'
  BY <1>1, <1>2, <1>4 DEF OffsetInv, Polling
<1>8. Covered'
  <2> SUFFICES ASSUME ~unnoticed, NEW i \in DOMAIN batch', NEW u \in 1 .. batch'[i]
               PROVE  runs[token][u] > 0 \/ \E j \in DOMAIN batch' : batch'[j] = u
    BY <1>1 DEF Covered, Dispatched, InBatch
  <2>1. /\ DOMAIN batch' = 1 .. Len(batch') /\ Len(batch') \in Nat
        /\ batch'[i] = first + i - 1
    BY <1>3
  <2>2. CASE u < first
    <3>1. u \in Nat \ {0} /\ u < first
      BY <1>3, <2>1, <2>2
    <3>2. first = offset + 1 \/ first = confirmed[token] + 1
      BY <1>3 DEF Largest
    <3>3. u \in 1 .. offset \/ u \in 1 .. confirmed[token]
      BY <1>2, <3>1, <3>2
    <3> QED
      BY <1>4, <3>3 DEF Dispatched
  <2>3. CASE u >= first
    <3>1. u - first + 1 \in 1 .. Len(batch')
      BY <1>3, <2>1, <2>3
    <3>2. batch'[u - first + 1] = first + (u - first + 1) - 1
      BY <1>3, <2>1, <3>1
    <3> QED
      BY <1>3, <2>1, <3>1, <3>2
  <2> QED
    BY <1>3, <2>1, <2>2, <2>3
<1> QED
  BY <1>5, <1>6, <1>7, <1>8 DEF OffsetInv

(* A poll keeps all the server sent: the limit asked for is not above Kept. *)
LEMMA AllKept ==
    ASSUME TypeOK, Answer
    PROVE  /\ batch' = batch /\ Len(batch) \in Nat \ {0} /\ DOMAIN batch = 1 .. Len(batch)
           /\ \A i \in DOMAIN batch : batch[i] \in Updates
<1>1. /\ batch \in Seq(Updates) /\ batch # <<>> /\ Len(batch) <= Limit
      /\ Limit \in Nat /\ Kept \in Nat /\ Limit <= Kept
  BY TelegramWorkerAssumption DEF Answer, TypeOK
<1>2. /\ Len(batch) \in Nat \ {0} /\ DOMAIN batch = 1 .. Len(batch)
      /\ \A i \in DOMAIN batch : batch[i] \in Updates
  BY <1>1
<1>3. Smallest(Kept, Len(batch)) = Len(batch)
  <2>1. Len(batch) <= Kept
    BY <1>1, <1>2
  <2>2. CASE Kept < Len(batch)
    BY <1>1, <1>2, <2>1, <2>2
  <2> QED
    BY <2>2 DEF Smallest
<1>4. batch' = SubSeq(batch, 1, Len(batch))
  BY <1>3 DEF Answer
<1> QED
  BY <1>1, <1>2, <1>4

LEMMA OffsetAnswer ==
    ASSUME TypeOK, OffsetInv, Answer
    PROVE  OffsetInv'
<1> USE TelegramWorkerAssumption
<1>1. /\ pc = "fetch" /\ pc' = "walk"
      /\ UNCHANGED <<confirmed, token, known, offset, owner, polled, runs, unnoticed>>
  BY DEF Answer, serverVars, offsetVars
<1>3. /\ Len(batch) \in Nat \ {0} /\ DOMAIN batch = 1 .. Len(batch)
      /\ \A i \in DOMAIN batch : batch[i] \in Updates
  BY AllKept
<1>4. batch' = batch
  BY AllKept
<1>5. seen' = Largest(seen, batch[Len(batch)])
  BY DEF Answer
<1>6. Owned' /\ Learned' /\ NothingSkipped'
  BY <1>1 DEF OffsetInv, Owned, Learned, NothingSkipped, Dispatched
<1>7. Polling'
  BY <1>1 DEF OffsetInv, Polling
<1>8. Covered'
  <2> SUFFICES ASSUME ~unnoticed, NEW u \in 1 .. seen'
               PROVE  runs[polled][u] > 0 \/ \E i \in DOMAIN batch : batch[i] = u
    BY <1>1, <1>4 DEF Covered, Dispatched, InBatch
  <2>1. /\ seen = offset
        /\ \A i \in DOMAIN batch : \A k \in 1 .. batch[i] :
              runs[polled][k] > 0 \/ \E j \in DOMAIN batch : batch[j] = k
    BY <1>1 DEF OffsetInv, Covered, Dispatched, InBatch
  <2>2. u \in 1 .. offset \/ u \in 1 .. batch[Len(batch)]
    BY <1>5, <2>1 DEF Largest
  <2>3. CASE u \in 1 .. batch[Len(batch)]
    BY <1>3, <2>1, <2>3
  <2>4. CASE u \in 1 .. offset
    <3>1. offset > 0
      BY <2>4 DEF TypeOK
    <3>2. polled = owner /\ owner \in Bots
      BY <1>1, <3>1 DEF OffsetInv, Polling, Owned
    <3> QED
      BY <2>4, <3>2 DEF OffsetInv, Learned, Dispatched
  <2> QED
    BY <2>2, <2>3, <2>4
<1> QED
  BY <1>6, <1>7, <1>8 DEF OffsetInv

LEMMA OffsetDispatch ==
    ASSUME TypeOK, OffsetInv, Dispatch
    PROVE  OffsetInv'
<1>1. /\ pc = "walk" /\ pc' = "walk"
      /\ UNCHANGED <<confirmed, token, known, offset, owner, polled, seen, unnoticed>>
  BY DEF Dispatch, serverVars, offsetVars
<1>2. /\ batch \in Seq(Updates) /\ batch' \in Seq(Updates) /\ Len(batch') = Len(batch) - 1
      /\ Len(batch) \in Nat \ {0} /\ batch[1] \in Updates
      /\ \A i \in 1 .. Len(batch) - 1 : batch'[i] = batch[i + 1]
      /\ \A b \in Bots, u \in Updates :
            runs'[b][u] = IF b = polled /\ u = batch[1] THEN runs[b][u] + 1 ELSE runs[b][u]
  BY Counted DEF TypeOK
<1>3. /\ polled \in Bots /\ offset \in 0 .. MaxUpdates /\ seen \in 0 .. MaxUpdates
      /\ \A b \in Bots : confirmed[b] \in 0 .. MaxUpdates
      /\ \A b \in Bots, u \in Updates : runs[b][u] \in Nat
      /\ MaxUpdates \in Nat
  <2>1. polled \in Bots
    BY <1>1 DEF TypeOK, OffsetInv, Polling
  <2> QED
    BY <2>1, TelegramWorkerAssumption DEF TypeOK
<1>4. \A b \in Bots, u \in Updates : runs[b][u] > 0 => runs'[b][u] > 0
  BY <1>2, <1>3
<1>5. runs'[polled][batch[1]] > 0
  BY <1>2, <1>3
<1>6. Owned' /\ Polling'
  BY <1>1 DEF OffsetInv, Owned, Polling
<1>7. Learned'
  <2> SUFFICES ASSUME ~unnoticed, owner \in Bots, NEW u \in 1 .. offset PROVE runs'[owner][u] > 0
    BY <1>1 DEF Learned, Dispatched
  <2>1. u \in Updates
    BY <1>3 DEF Updates
  <2> QED
    BY <1>4, <2>1 DEF OffsetInv, Learned, Dispatched
<1>8. NothingSkipped'
  <2> SUFFICES ASSUME ~unnoticed, NEW b \in Bots, NEW u \in 1 .. confirmed[b]
               PROVE  runs'[b][u] > 0
    BY <1>1 DEF NothingSkipped
  <2>1. u \in Updates
    BY <1>3 DEF Updates
  <2> QED
    BY <1>4, <2>1 DEF OffsetInv, NothingSkipped
<1>9. Covered'
  <2> SUFFICES ASSUME ~unnoticed, NEW u \in 1 .. seen
               PROVE  runs'[polled][u] > 0 \/ \E i \in DOMAIN batch' : batch'[i] = u
    BY <1>1 DEF Covered, Dispatched, InBatch
  <2>1. u \in Updates
    BY <1>3 DEF Updates
  <2>2. CASE runs[polled][u] > 0
    BY <1>3, <1>4, <2>1, <2>2
  <2>3. ASSUME NEW i \in DOMAIN batch, batch[i] = u
        PROVE  runs'[polled][u] > 0 \/ \E j \in DOMAIN batch' : batch'[j] = u
    <3>1. CASE i = 1
      BY <1>5, <2>3, <3>1
    <3>2. CASE i # 1
      <4>1. i - 1 \in 1 .. Len(batch) - 1 /\ (i - 1) + 1 = i /\ DOMAIN batch' = 1 .. Len(batch) - 1
        BY <1>2, <3>2
      <4> QED
        BY <1>2, <2>3, <4>1
    <3> QED
      BY <3>1, <3>2
  <2>4. runs[polled][u] > 0 \/ \E i \in DOMAIN batch : batch[i] = u
    BY <1>1 DEF OffsetInv, Covered, Dispatched, InBatch
  <2> QED
    BY <2>2, <2>3, <2>4
<1> QED
  BY <1>6, <1>7, <1>8, <1>9 DEF OffsetInv

LEMMA OffsetCommit ==
    ASSUME TypeOK, OffsetInv, Commit
    PROVE  OffsetInv'
<1> USE TelegramWorkerAssumption
<1>1. /\ pc = "walk" /\ pc' = "outSync" /\ batch = <<>> /\ polled' = NoToken
      /\ offset' = Largest(offset, seen) /\ owner' = polled
      /\ UNCHANGED <<confirmed, token, known, runs, unnoticed>>
  BY DEF Commit, EndPoll, serverVars
<1>2. /\ polled \in Bots /\ NoToken \notin Bots /\ DOMAIN batch = {}
      /\ offset \in Nat /\ seen \in Nat
  BY <1>1 DEF TypeOK, OffsetInv, Polling
<1>3. Owned'
  BY <1>1, <1>2 DEF OffsetInv, Owned, Polling
<1>4. Learned'
  <2> SUFFICES ASSUME ~unnoticed, NEW u \in 1 .. offset' PROVE runs[polled][u] > 0
    BY <1>1 DEF Learned, Dispatched
  <2>1. u \in 1 .. offset \/ u \in 1 .. seen
    BY <1>1, <1>2 DEF Largest
  <2>2. CASE u \in 1 .. seen
    BY <1>1, <1>2, <2>2 DEF OffsetInv, Covered, Dispatched, InBatch
  <2>3. CASE u \in 1 .. offset
    <3>1. owner = polled
      BY <1>1, <1>2, <2>3 DEF OffsetInv, Polling
    <3> QED
      BY <1>2, <2>3, <3>1 DEF OffsetInv, Learned, Dispatched
  <2> QED
    BY <2>1, <2>2, <2>3
<1>5. Polling' /\ Covered' /\ NothingSkipped'
  BY <1>1, <1>2 DEF OffsetInv, Polling, Covered, NothingSkipped
<1> QED
  BY <1>3, <1>4, <1>5 DEF OffsetInv

(* A poll that ends without an answer, and a sleep or a restart: no poll is *)
(* under way, and the offset is kept for its bot or forgotten.             *)
LEMMA OffsetEnds ==
    ASSUME TypeOK, OffsetInv, NoUpdates \/ Boot
    PROVE  OffsetInv'
<1> USE TelegramWorkerAssumption
<1>1. /\ pc' = "outSync" /\ polled' = NoToken /\ NoToken \notin Bots /\ token \in Bots
      /\ offset \in Nat /\ UNCHANGED <<confirmed, runs, token>>
  BY DEF NoUpdates, Boot, EndPoll, serverVars, TypeOK
<1>2. \/ UNCHANGED <<offset, owner, known, unnoticed>>
      \/ /\ UNCHANGED <<offset, owner>> /\ known' = token
         /\ ~unnoticed' => ~unnoticed /\ ~Foreign
      \/ offset' = 0 /\ owner' = NoToken /\ UNCHANGED unnoticed
  BY DEF NoUpdates, Boot, offsetVars
<1>3. Owned'
  BY <1>1, <1>2 DEF OffsetInv, Owned, Foreign
<1>4. Learned'
  BY <1>1, <1>2 DEF OffsetInv, Learned, Dispatched
<1>5. NothingSkipped'
  BY <1>1, <1>2 DEF OffsetInv, NothingSkipped
<1>6. Polling' /\ Covered'
  BY <1>1 DEF Polling, Covered
<1> QED
  BY <1>3, <1>4, <1>5, <1>6 DEF OffsetInv

LEMMA OffsetNext == TypeOK /\ OffsetInv /\ [Next]_vars => OffsetInv'
<1> SUFFICES ASSUME TypeOK, OffsetInv, [Next]_vars PROVE OffsetInv'
  OBVIOUS
<1>1. ASSUME NEW m \in Msgs, Produce(m) PROVE OffsetInv'
  BY <1>1, OffsetIdle DEF Produce, serverVars
<1>2. ASSUME NEW b \in Bots, Issue(b) PROVE OffsetInv'
  BY <1>2, OffsetIdle DEF Issue
<1>3. ASSUME NEW view \in Bots \cup {NoToken}, OutSkip(view) \/ InSkip(view) PROVE OffsetInv'
  BY <1>3, OffsetIdle DEF OutSkip, InSkip, serverVars
<1>4. CASE Take \/ SendEnds \/ SendRetry
  BY <1>4, OffsetIdle DEF Take, SendEnds, SendRetry, serverVars
<1>5. CASE UNCHANGED vars
  BY <1>5, OffsetIdle DEF vars, serverVars
<1> QED
  BY <1>1, <1>2, <1>3, <1>4, <1>5, OffsetChange, OffsetSync, OffsetAsk, OffsetAnswer,
     OffsetDispatch, OffsetCommit, OffsetEnds DEF Next, Worker, Outbound, Inbound

-----------------------------------------------------------------------------
(* Ahead: a batch goes up, and lies between the offset and what was seen.  *)
(* A poll that is not being walked leaves nothing to show.                 *)
LEMMA AheadIdle ==
    ASSUME Ahead, UNCHANGED <<offset, batch, seen>>,
           pc' = pc \/ pc' \notin {"fetch", "walk"}
    PROVE  Ahead'
BY DEF Ahead

LEMMA AheadAsk ==
    ASSUME TypeOK, Ask
    PROVE  Ahead'
<1>1. /\ pc' = "fetch" /\ offset' = offset /\ offset \in Nat /\ token \in Bots
      /\ Serve(token, offset + 1) /\ offset + 1 \in Nat \ {0}
  BY DEF Ask, offsetVars, TypeOK
<1>2. confirmed[token] \in Nat
  BY <1>1 DEF TypeOK
<1>3. PICK first \in Nat \ {0} :
         /\ first = Largest(offset + 1, confirmed[token] + 1)
         /\ batch' \in Seq(Updates) /\ \A i \in DOMAIN batch' : batch'[i] = first + i - 1
  BY <1>1, Served
<1>4. first > offset
  BY <1>1, <1>2, <1>3 DEF Largest
<1>5. DOMAIN batch' \subseteq Nat \ {0}
  BY <1>3
<1>6. \A i, j \in DOMAIN batch' : i < j => batch'[i] < batch'[j]
  BY <1>3, <1>5
<1>7. \A i \in DOMAIN batch' : offset < batch'[i]
  BY <1>1, <1>3, <1>4, <1>5
<1> QED
  BY <1>1, <1>6, <1>7 DEF Ahead

LEMMA AheadAnswer ==
    ASSUME TypeOK, Ahead, Answer
    PROVE  Ahead'
<1>1. /\ pc = "fetch" /\ pc' = "walk" /\ offset' = offset
      /\ seen' = Largest(seen, batch[Len(batch)])
  BY DEF Answer, offsetVars
<1>2. /\ batch' = batch /\ Len(batch) \in Nat \ {0} /\ DOMAIN batch = 1 .. Len(batch)
      /\ \A i \in DOMAIN batch : batch[i] \in Nat
  BY AllKept DEF Updates
<1>3. seen \in Nat
  BY DEF TypeOK
<1>4. batch[Len(batch)] <= seen'
  BY <1>1, <1>2, <1>3 DEF Largest
<1>5. ASSUME NEW i \in DOMAIN batch PROVE batch[i] <= seen'
  <2>1. CASE i = Len(batch)
    BY <1>4, <2>1
  <2>2. CASE i # Len(batch)
    <3>1. i < Len(batch) /\ Len(batch) \in DOMAIN batch
      BY <1>2, <2>2
    <3>2. batch[i] < batch[Len(batch)]
      BY <1>1, <3>1 DEF Ahead
    <3>3. seen' \in Nat
      BY <1>1, <1>2, <1>3 DEF Largest
    <3> QED
      BY <1>2, <1>4, <3>1, <3>2, <3>3
  <2> QED
    BY <2>1, <2>2
<1> QED
  BY <1>1, <1>2, <1>5 DEF Ahead

LEMMA AheadDispatch ==
    ASSUME TypeOK, Ahead, Dispatch
    PROVE  Ahead'
<1>1. pc = "walk" /\ UNCHANGED <<pc, offset, seen>>
  BY DEF Dispatch, offsetVars
<1>0. /\ Len(batch) \in Nat \ {0} /\ batch \in Seq(Updates) /\ batch' \in Seq(Updates)
      /\ Len(batch') = Len(batch) - 1
      /\ \A i \in 1 .. Len(batch) - 1 : batch'[i] = batch[i + 1]
  BY Counted DEF TypeOK
<1>2. /\ Len(batch) \in Nat \ {0} /\ DOMAIN batch = 1 .. Len(batch)
      /\ DOMAIN batch' = 1 .. Len(batch) - 1
      /\ \A i \in 1 .. Len(batch) - 1 : batch'[i] = batch[i + 1]
  BY <1>0
<1>3. \A i \in 1 .. Len(batch) - 1 : i + 1 \in 1 .. Len(batch)
  BY <1>2
<1>4. ASSUME NEW i \in 1 .. Len(batch) - 1, NEW j \in 1 .. Len(batch) - 1, i < j
      PROVE  batch'[i] < batch'[j]
  <2>1. i + 1 < j + 1
    BY <1>4
  <2> QED
    BY <1>1, <1>2, <1>3, <2>1 DEF Ahead
<1>5. \A i \in 1 .. Len(batch) - 1 : offset < batch'[i] /\ batch'[i] <= seen
  BY <1>1, <1>2, <1>3 DEF Ahead
<1> QED
  BY <1>1, <1>2, <1>4, <1>5 DEF Ahead

LEMMA AheadNext == TypeOK /\ Ahead /\ [Next]_vars => Ahead'
<1> SUFFICES ASSUME TypeOK, Ahead, [Next]_vars PROVE Ahead'
  OBVIOUS
<1> USE DEF offsetVars, pollVars
<1>1. ASSUME NEW m \in Msgs, Produce(m) PROVE Ahead'
  BY <1>1, AheadIdle DEF Produce
<1>2. ASSUME NEW b \in Bots, Issue(b) \/ ChangeToken(b) PROVE Ahead'
  BY <1>2, AheadIdle DEF Issue, ChangeToken
<1>3. ASSUME NEW view \in Bots \cup {NoToken}, OutSkip(view) \/ InSkip(view) PROVE Ahead'
  BY <1>3, AheadIdle DEF OutSkip, InSkip
<1>4. ASSUME NEW view \in Bots \cup {NoToken}, Sync(view) PROVE Ahead'
  <2>1. pc' \notin {"fetch", "walk"}
    BY <1>4 DEF Sync
  <2> QED
    BY <2>1 DEF Ahead
<1>5. CASE Take \/ SendEnds \/ SendRetry
  BY <1>5, AheadIdle DEF Take, SendEnds, SendRetry
<1>6. CASE NoUpdates \/ Commit \/ Boot
  <2>1. pc' \notin {"fetch", "walk"}
    BY <1>6 DEF NoUpdates, Commit, Boot, EndPoll
  <2> QED
    BY <2>1 DEF Ahead
<1>7. CASE UNCHANGED vars
  BY <1>7, AheadIdle DEF vars
<1> QED
  BY <1>1, <1>2, <1>3, <1>4, <1>5, <1>6, <1>7, AheadAsk, AheadAnswer, AheadDispatch
     DEF Next, Worker, Outbound, Inbound

-----------------------------------------------------------------------------
(* Once: what every kind of trouble allows. *)
LEMMA ResetsCount ==
    ASSUME TypeOK
    PROVE  /\ Resets \in Nat
           /\ UNCHANGED count => Resets' = Resets
           /\ Trouble("retry") => Resets' = Resets
           /\ Trouble("change") => Resets' = Resets + 1
           /\ Trouble("boot") => Resets' = Resets + 1
           /\ Trouble("timeout") => Resets' = Resets + 2
<1>1. /\ count["change"] \in Nat /\ count["boot"] \in Nat /\ count["timeout"] \in Nat
      /\ DOMAIN count = Kinds
  BY DEF TypeOK, Kinds
<1>2. ASSUME NEW kind \in Kinds, Trouble(kind)
      PROVE  /\ count'[kind] = count[kind] + 1
             /\ \A k \in Kinds \ {kind} : count'[k] = count[k]
  BY <1>1, <1>2 DEF Trouble
<1>3. Resets \in Nat
  BY <1>1 DEF Resets
<1>4. UNCHANGED count => Resets' = Resets
  BY DEF Resets
<1>5. Trouble("retry") => Resets' = Resets
  BY <1>2 DEF Resets, Kinds
<1>6. Trouble("change") => Resets' = Resets + 1
  <2> SUFFICES ASSUME Trouble("change") PROVE Resets' = Resets + 1
    OBVIOUS
  <2>1. /\ count'["change"] = count["change"] + 1
        /\ count'["boot"] = count["boot"] /\ count'["timeout"] = count["timeout"]
    BY <1>2 DEF Kinds
  <2> QED
    BY <1>1, <2>1 DEF Resets
<1>7. Trouble("boot") => Resets' = Resets + 1
  <2> SUFFICES ASSUME Trouble("boot") PROVE Resets' = Resets + 1
    OBVIOUS
  <2>1. /\ count'["boot"] = count["boot"] + 1
        /\ count'["change"] = count["change"] /\ count'["timeout"] = count["timeout"]
    BY <1>2 DEF Kinds
  <2> QED
    BY <1>1, <2>1 DEF Resets
<1>8. Trouble("timeout") => Resets' = Resets + 2
  <2> SUFFICES ASSUME Trouble("timeout") PROVE Resets' = Resets + 2
    OBVIOUS
  <2>1. /\ count'["timeout"] = count["timeout"] + 1
        /\ count'["change"] = count["change"] /\ count'["boot"] = count["boot"]
    BY <1>2 DEF Kinds
  <2> QED
    BY <1>1, <2>1 DEF Resets
<1> QED
  BY <1>3, <1>4, <1>5, <1>6, <1>7, <1>8

(* Nothing is dispatched, and either what was passed stays passed, or a    *)
(* reset that was allowed for is used up.                                  *)
LEMMA OnceKept ==
    ASSUME TypeOK, Once, runs' = runs, Used \in Int, Used' \in Int,
           \/ /\ Used <= Used'
              /\ \A b \in Bots, u \in Updates : Passed(b, u) => Passed(b, u)'
           \/ Used < Used'
    PROVE  Once'
<1>1. Used <= Used' /\ 0 <= Used'
  BY DEF Once
<1>2. ASSUME NEW b \in Bots, NEW u \in Updates
      PROVE  runs[b][u] - 1 <= Used' /\ (~Passed(b, u)' => runs[b][u] <= Used')
  <2>1. runs[b][u] \in Nat
    BY DEF TypeOK
  <2>2. runs[b][u] - 1 <= Used /\ (~Passed(b, u) => runs[b][u] <= Used)
    BY DEF Once
  <2>3. runs[b][u] - 1 <= Used'
    BY <1>1, <2>1, <2>2
  <2>4. CASE Used < Used'
    <3>1. runs[b][u] <= Used'
      BY <2>1, <2>2, <2>4
    <3> QED
      BY <2>3, <3>1
  <2>5. CASE Passed(b, u) => Passed(b, u)'
    <3>1. ~Passed(b, u)' => runs[b][u] <= Used
      BY <2>2, <2>5
    <3>2. ~Passed(b, u)' => runs[b][u] <= Used'
      BY <1>1, <2>1, <3>1
    <3> QED
      BY <2>3, <3>2
  <2> QED
    BY <2>4, <2>5
<1> QED
  BY <1>1, <1>2 DEF Once

(* Neither token nor offset changes, and no answer is being walked.        *)
LEMMA OnceIdle ==
    ASSUME TypeOK, Once, UNCHANGED <<known, token, offset, polled, seen, batch, runs>>,
           pc' = pc \/ pc # "walk", UNCHANGED count \/ Trouble("timeout") \/ Trouble("retry")
    PROVE  Once'
<1>1. Resets \in Nat /\ (Resets' = Resets \/ Resets' = Resets + 2)
  BY ResetsCount
<1>2. Used \in Int /\ Used' \in Int /\ Used <= Used'
  BY <1>1 DEF Used
<1>3. \A b \in Bots, u \in Updates : Passed(b, u) => Passed(b, u)'
  BY DEF Passed, InBatch
<1> QED
  BY <1>2, <1>3, OnceKept

LEMMA OnceChange ==
    ASSUME TypeOK, Once, NEW b \in Bots, ChangeToken(b)
    PROVE  Once'
<1>1. Trouble("change") /\ UNCHANGED <<offset, pc, polled, seen, batch, runs>>
  BY DEF ChangeToken, offsetVars, pollVars
<1>2. Resets \in Nat /\ Resets' = Resets + 1
  BY <1>1, ResetsCount
<1>3. Used \in Int /\ Used' \in Int /\ Used <= Used'
  BY <1>2 DEF Used
<1>4. \A c \in Bots, u \in Updates : Passed(c, u) => Passed(c, u)'
  BY <1>1 DEF Passed, InBatch
<1> QED
  BY <1>1, <1>3, <1>4, OnceKept

(* A read that sees the token makes good for a change or for a read that   *)
(* timed out; one that times out allows for two resets, and uses one.      *)
LEMMA OnceSync ==
    ASSUME TypeOK, Once, NEW view \in Bots \cup {NoToken}, Sync(view)
    PROVE  Once'
<1> USE TelegramWorkerAssumption
<1>1. /\ pc # "walk" /\ known' = view /\ token' = token /\ token \in Bots
      /\ UNCHANGED <<polled, seen, batch, runs>>
  BY DEF Sync, pollVars, TypeOK
<1>2. \/ view = token /\ UNCHANGED count
      \/ view = NoToken /\ Trouble("timeout")
  BY DEF Sync, Reads
<1>3. /\ Resets \in Nat
      /\ view = token => Resets' = Resets
      /\ view # token => view = NoToken /\ Resets' = Resets + 2
  BY <1>1, <1>2, ResetsCount
<1>4. Used \in Int /\ Used' \in Int
  BY <1>3 DEF Used
<1>5. CASE view = known
  <2>1. Used <= Used'
    BY <1>1, <1>3, <1>5 DEF Used
  <2>2. offset' = offset
    BY <1>5 DEF Sync
  <2>3. \A b \in Bots, u \in Updates : Passed(b, u) => Passed(b, u)'
    BY <1>1, <2>2 DEF Passed
  <2> QED
    BY <1>1, <1>4, <2>1, <2>3, OnceKept
<1>6. CASE view # known
  <2>1. Used < Used'
    BY <1>1, <1>3, <1>6 DEF Used
  <2> QED
    BY <1>1, <1>4, <2>1, OnceKept
<1> QED
  BY <1>5, <1>6

(* Nothing that Used depends on changes. *)
LEMMA UsedKept ==
    ASSUME TypeOK, UNCHANGED <<known, token, count>>
    PROVE  Used \in Int /\ Used' = Used
<1>1. Resets' = Resets /\ Resets \in Nat
  BY ResetsCount
<1> QED
  BY <1>1 DEF Used

(* A poll begins, is answered, or ends without an answer. *)
LEMMA OncePoll ==
    ASSUME TypeOK, Once, Ask \/ NoUpdates \/ Answer
    PROVE  Once'
<1>1. pc # "walk" /\ UNCHANGED <<known, token, offset, runs, count>>
  BY DEF Ask, NoUpdates, Answer, offsetVars
<1>2. Used \in Int /\ Used' \in Int /\ Used <= Used'
  BY <1>1, UsedKept
<1>3. \A b \in Bots, u \in Updates : Passed(b, u) => Passed(b, u)'
  BY <1>1 DEF Passed
<1> QED
  BY <1>1, <1>2, <1>3, OnceKept

(* Dispatched is what was not passed before, and is then. *)
LEMMA OnceDispatch ==
    ASSUME TypeOK, Ahead, Once, Dispatch
    PROVE  Once'
<1>1. pc = "walk" /\ UNCHANGED <<pc, known, token, offset, polled, seen, count>>
  BY DEF Dispatch, offsetVars
<1>2. /\ Len(batch) \in Nat \ {0} /\ batch \in Seq(Updates) /\ batch' \in Seq(Updates)
      /\ Len(batch') = Len(batch) - 1 /\ batch[1] \in Updates
      /\ \A i \in 1 .. Len(batch) - 1 : batch'[i] = batch[i + 1]
      /\ \A b \in Bots, u \in Updates :
            runs'[b][u] = IF b = polled /\ u = batch[1] THEN runs[b][u] + 1 ELSE runs[b][u]
  BY Counted DEF TypeOK
<1>3. DOMAIN batch = 1 .. Len(batch) /\ DOMAIN batch' = 1 .. Len(batch) - 1
  BY <1>2
<1>4. Used \in Int /\ Used' = Used /\ 0 <= Used
  BY <1>1, UsedKept DEF Once
<1>5. \A i \in 1 .. Len(batch) - 1 : i + 1 \in DOMAIN batch /\ 1 \in DOMAIN batch /\ 1 < i + 1
  BY <1>2, <1>3
<1>6. ASSUME NEW b \in Bots, NEW u \in Updates, Passed(b, u)
      PROVE  Passed(b, u)'
  <2>1. InBatch(u)' => InBatch(u)
    <3> SUFFICES ASSUME NEW i \in 1 .. Len(batch) - 1, batch'[i] = u PROVE InBatch(u)
      BY <1>3 DEF InBatch
    <3> QED
      BY <1>2, <1>5 DEF InBatch
  <2> QED
    BY <1>1, <1>6, <2>1 DEF Passed
<1>7. ~Passed(polled, batch[1])
  <2>1. 1 \in DOMAIN batch
    BY <1>2, <1>3
  <2>2. InBatch(batch[1])
    BY <2>1 DEF InBatch
  <2>3. offset < batch[1]
    BY <1>1, <2>1 DEF Ahead
  <2>4. offset \in Nat /\ batch[1] \in Nat
    BY <1>2 DEF TypeOK, Updates
  <2> QED
    BY <2>2, <2>3, <2>4 DEF Passed
<1>8. ASSUME NEW b \in Bots, NEW u \in Updates, b = polled, u = batch[1]
      PROVE  Passed(b, u)'
  <2>1. batch[1] <= seen
    BY <1>1, <1>2, <1>3 DEF Ahead
  <2>2. ASSUME NEW i \in 1 .. Len(batch) - 1 PROVE batch'[i] # batch[1]
    <3>1. batch[1] < batch[i + 1] /\ batch'[i] = batch[i + 1]
      BY <1>1, <1>2, <1>5 DEF Ahead
    <3>2. batch[1] \in Nat
      BY <1>2 DEF Updates
    <3> QED
      BY <3>1, <3>2
  <2> QED
    BY <1>1, <1>3, <1>8, <2>1, <2>2 DEF Passed, InBatch
<1>9. ASSUME NEW b \in Bots, NEW u \in Updates
      PROVE  runs'[b][u] - 1 <= Used /\ (~Passed(b, u)' => runs'[b][u] <= Used)
  <2>1. runs[b][u] \in Nat /\ runs[b][u] - 1 <= Used /\ (~Passed(b, u) => runs[b][u] <= Used)
    BY DEF Once, TypeOK
  <2>2. CASE b = polled /\ u = batch[1]
    <3>1. runs[b][u] <= Used
      BY <1>7, <2>1, <2>2
    <3>2. runs'[b][u] = runs[b][u] + 1
      BY <1>2, <2>2
    <3>3. Passed(b, u)'
      BY <1>8, <2>2
    <3> QED
      BY <1>4, <2>1, <3>1, <3>2, <3>3
  <2>3. CASE ~(b = polled /\ u = batch[1])
    <3>1. runs'[b][u] = runs[b][u]
      BY <1>2, <2>3
    <3> QED
      BY <1>6, <2>1, <3>1
  <2> QED
    BY <2>2, <2>3
<1> QED
  BY <1>4, <1>9 DEF Once

(* What was passed is covered by the offset from now on. *)
LEMMA OnceCommit ==
    ASSUME TypeOK, Once, Commit
    PROVE  Once'
<1>1. /\ offset' = Largest(offset, seen) /\ UNCHANGED <<known, token, runs, count>>
      /\ offset \in Nat /\ seen \in Nat
  BY DEF Commit, TypeOK
<1>2. Used \in Int /\ Used' \in Int /\ Used <= Used'
  BY <1>1, UsedKept
<1>3. ASSUME NEW b \in Bots, NEW u \in Updates, Passed(b, u)
      PROVE  Passed(b, u)'
  <2>1. u \in Nat /\ (u <= offset \/ u <= seen)
    BY <1>3 DEF Passed, Updates
  <2>2. u <= offset'
    BY <1>1, <2>1 DEF Largest
  <2> QED
    BY <2>2 DEF Passed
<1> QED
  BY <1>1, <1>2, <1>3, OnceKept

(* A sleep loses what the poll has passed, a restart the offset as well.   *)
LEMMA OnceBoot ==
    ASSUME TypeOK, Once, Boot
    PROVE  Once'
<1>1. Trouble("boot") /\ runs' = runs /\ known' = token /\ token' = token
  BY DEF Boot
<1>2. Resets \in Nat /\ Resets' = Resets + 1
  BY <1>1, ResetsCount
<1>3. Used \in Int /\ Used' \in Int /\ Used < Used'
  BY <1>1, <1>2 DEF Used
<1> QED
  BY <1>1, <1>3, OnceKept

LEMMA OnceNext == TypeOK /\ Ahead /\ Once /\ [Next]_vars => Once'
<1> SUFFICES ASSUME TypeOK, Ahead, Once, [Next]_vars PROVE Once'
  OBVIOUS
<1> USE DEF offsetVars, pollVars
<1>1. ASSUME NEW m \in Msgs, Produce(m) PROVE Once'
  BY <1>1, OnceIdle DEF Produce
<1>2. ASSUME NEW b \in Bots, Issue(b) PROVE Once'
  BY <1>2, OnceIdle DEF Issue
<1>3. ASSUME NEW view \in Bots \cup {NoToken}, OutSkip(view) \/ InSkip(view) PROVE Once'
  BY <1>3, OnceIdle DEF OutSkip, InSkip, Reads
<1>4. CASE Take \/ SendEnds
  BY <1>4, OnceIdle DEF Take, SendEnds
<1>5. CASE SendRetry
  BY <1>5, OnceIdle DEF SendRetry
<1>6. CASE UNCHANGED vars
  BY <1>6, OnceIdle DEF vars
<1> QED
  BY <1>1, <1>2, <1>3, <1>4, <1>5, <1>6, OnceChange, OnceSync, OncePoll, OnceDispatch,
     OnceCommit, OnceBoot DEF Next, Worker, Outbound, Inbound

LEMMA RerunsInit == Init => Ahead /\ Once
<1> SUFFICES ASSUME Init PROVE Ahead /\ Once
  OBVIOUS
<1>1. Ahead
  BY DEF Init, Ahead
<1>2. Used = 0
  BY DEF Init, Used, Resets, Kinds
<1>3. \A b \in Bots, u \in Updates : runs[b][u] = 0
  BY DEF Init
<1> QED
  BY <1>1, <1>2, <1>3 DEF Once

-----------------------------------------------------------------------------
LEMMA InvInit == Init => IInv
BY TypeInit, QueueInit, OffsetInit, RerunsInit DEF IInv

LEMMA InvNext == IInv /\ [Next]_vars => IInv'
BY TypeNext, QueueNext, OffsetNext, AheadNext, OnceNext DEF IInv

LEMMA Invariant == Spec => []IInv
<1> QED
  BY InvInit, InvNext, PTL DEF Spec

(* Every variable of the Telegram channel keeps its type, the queue its    *)
(* capacity and a poll its limit (MessageQueue, TelegramPoller).           *)
THEOREM TypeCorrect == Spec => []TypeOK
<1>1. IInv => TypeOK
  BY DEF IInv
<1> QED
  BY <1>1, Invariant, PTL

(* Every message is where its fate says it is, in the queue once or with   *)
(* the worker, under evictions and retries (MessageQueue::enqueue).        *)
THEOREM MessagesAccounted == Spec => []Accounted
<1>1. IInv => Accounted
  BY DEF IInv, QueueInv
<1> QED
  BY <1>1, Invariant, PTL

(* Messages that were never put back leave in the order they came.         *)
THEOREM SendsInOrder == Spec => []SentInOrder
<1>1. IInv => SentInOrder
  BY DEF IInv, QueueInv
<1> QED
  BY <1>1, Invariant, PTL

(* The server forgets only what the worker dispatched, unless a change of  *)
(* the token went unnoticed (TelegramPoller::pollAndDispatch,              *)
(* TelegramWorker::syncConfigChanges).                                     *)
THEOREM NoUpdateSkipped == Spec => []NothingSkipped
<1>1. IInv => NothingSkipped
  BY DEF IInv, OffsetInv
<1> QED
  BY <1>1, Invariant, PTL

(* No update is dispatched more than once, plus once per change of the     *)
(* token, boot or restart, and twice per read of the settings that timed   *)
(* out (TelegramPoller::pollAndDispatch, UpdatesFetcher::beginStream).     *)
THEOREM RepeatsBounded == Spec => []RerunsBounded
<1>1. IInv => RerunsBounded
  <2> SUFFICES ASSUME IInv, NEW b \in Bots, NEW u \in Updates
               PROVE  runs[b][u] <= 1 + count["change"] + count["boot"] + 2 * count["timeout"]
    BY DEF RerunsBounded
  <2>1. runs[b][u] - 1 <= Used /\ runs[b][u] \in Nat
    BY DEF IInv, Once, TypeOK
  <2>2. Resets \in Nat
    BY ResetsCount DEF IInv
  <2>3. runs[b][u] <= 1 + Resets
    BY <2>1, <2>2 DEF Used
  <2>4. count["change"] \in Nat /\ count["boot"] \in Nat /\ count["timeout"] \in Nat
    BY DEF IInv, TypeOK, Kinds
  <2> QED
    BY <2>1, <2>3, <2>4 DEF Resets
<1> QED
  BY <1>1, Invariant, PTL
=============================================================================
