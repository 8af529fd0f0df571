---------------------------- MODULE WsPool_proofs ----------------------------
(***************************************************************************)
(* Proofs about WsPool for any set of producers, any slots, messages and   *)
(* pools: no slot of a pool enabled at boot is shared or lost and every    *)
(* message is sent as it was written; and, with controllers that take      *)
(* turns, a pool is only freed drained, unless a disable or deinit gave up. *)
(***************************************************************************)
EXTENDS WsPool, TLAPS

(* Messages whose bytes are still to be written, or not needed any more. *)
Writing == {msg[p] : p \in {p \in Producers : pc[p] \in {"write", "release"}}}

(* A message is in one place: with its producer, in the queue or with the *)
(* broadcast task.                                                        *)
Custody ==
    /\ \A p \in Producers : pc[p] # "idle" => msg[p] \in 1 .. started
    /\ \A p, q \in Producers : pc[p] # "idle" /\ pc[q] # "idle" /\ p # q => msg[p] # msg[q]
    /\ ToSet(line) \cup ({sending} \ {0}) \subseteq 1 .. started
    /\ IsInjective(line) /\ sending \notin ToSet(line)
    /\ \A p \in Producers : pc[p] # "idle" => msg[p] # sending /\ msg[p] \notin ToSet(line)

(* A pool enabled at boot stays: who has a slot has it in the storage, marked *)
(* and alone, and it holds his bytes once they are written.  Every other slot *)
(* is free, or was leaked.                                                    *)
Boot ==
    AtBoot =>
        /\ phase \in {"none", "ready"}
        /\ \A m \in Holding :
              phase = "ready" /\ ptr[m].storage = storage /\ taken[ptr[m].slot]
        /\ \A m, n \in Holding : m # n => ptr[m] # ptr[n]
        /\ \A m \in Holding \ Writing : written[ptr[m].slot] = m
        /\ \A x \in leaked :
              x.storage = storage /\ taken[x.slot] /\ \A m \in Holding : ptr[m] # x
        /\ \A s \in Slots : taken[s] =>
              [storage |-> storage, slot |-> s] \in leaked \cup {ptr[m] : m \in Holding}
        /\ garbled = {}

IInv == TypeOK /\ Custody /\ Boot

USE WsPoolAssumption

(* A message somebody has is one that was broadcast. *)
LEMMA InHand ==
    ASSUME TypeOK, Custody
    PROVE  /\ \A p \in Producers : pc[p] # "idle" => msg[p] \in Msgs
           /\ ToSet(line) \subseteq Msgs /\ (sending # 0 => sending \in Msgs)
           /\ started \in Nat /\ 0 \notin Msgs
<1>1. 1 .. started \subseteq Msgs /\ started \in Nat /\ 0 \notin Msgs
  BY DEF TypeOK, Msgs
<1> QED
  BY <1>1 DEF Custody

Ptrs == [storage : 0 .. MaxPools, slot : Slots]

LEMMA TimeoutType == TypeOK /\ Timeout => timeouts' \in 0 .. MaxTimeouts
  BY DEF TypeOK, Timeout

LEMMA TypeStep == TypeOK /\ Custody /\ [Next]_vars => TypeOK'
<1> SUFFICES ASSUME TypeOK, Custody, [Next]_vars PROVE TypeOK'
  OBVIOUS
<1> USE DEF queueVars, poolVars, prodVars, histVars
<1>1. ASSUME NEW p \in Producers, Broadcast(p) PROVE TypeOK'
  BY <1>1 DEF Broadcast, Move, Goto, Timeout, NoTimeout, FreeSlot, FreePool, NoStorage, Fresh, Blank, TypeOK
<1>2. ASSUME NEW p \in Producers, AcquireSlot(p) PROVE TypeOK'
<2>1. PICK s \in FreeSlots : /\ taken' = [taken EXCEPT ![s] = TRUE]
                            /\ ptr' = [ptr EXCEPT ![msg[p]] = [storage |-> storage, slot |-> s]]
  BY <1>2 DEF AcquireSlot
<2>2. s \in Slots /\ storage \in 0 .. MaxPools
  BY DEF FreeSlots, TypeOK
<2>3. [storage |-> storage, slot |-> s] \in Ptrs
  BY <2>2 DEF Ptrs
<2>4. ptr' \in [Msgs -> Ptrs] /\ taken' \in [Slots -> BOOLEAN]
  BY <2>1, <2>3 DEF TypeOK, Ptrs
<2> QED
  BY <1>2, <2>4 DEF AcquireSlot, Move, TypeOK, Ptrs
<1>3. ASSUME NEW p \in Producers, AcquireFails(p) PROVE TypeOK'
  BY <1>3 DEF AcquireFails, Move, Goto, Timeout, NoTimeout, FreeSlot, FreePool, NoStorage, Fresh, Blank, TypeOK
<1>4. ASSUME NEW p \in Producers, AcquireFaults(p) PROVE TypeOK'
  BY <1>4 DEF AcquireFaults, Move, Goto, Timeout, NoTimeout, FreeSlot, FreePool, NoStorage, Fresh, Blank, TypeOK
<1>5. ASSUME NEW p \in Producers, AcquireBusy(p) PROVE TypeOK'
  BY <1>5 DEF AcquireBusy, Move, Goto, Timeout, NoTimeout, FreeSlot, FreePool, NoStorage, Fresh, Blank, TypeOK
<1>6. ASSUME NEW p \in Producers, WritePayload(p) PROVE TypeOK'
  BY <1>6 DEF WritePayload, Move, Goto, Timeout, NoTimeout, FreeSlot, FreePool, NoStorage, Fresh, Blank, TypeOK
<1>7. ASSUME NEW p \in Producers, EnqueueAccepted(p) PROVE TypeOK'
<2>1. msg[p] \in Msgs
  BY <1>7, InHand DEF EnqueueAccepted, Move
<2>2. Len(line) \in Nat /\ Len(line) < SlotCount /\ line' = Append(line, msg[p])
  BY <1>7 DEF EnqueueAccepted, TypeOK
<2>3. line' \in Seq(Msgs) /\ Len(line') <= SlotCount
  BY <2>1, <2>2 DEF TypeOK
<2>4. /\ msg' \in [Producers -> 0 .. MaxMsgs]
      /\ pc' \in [Producers -> {"idle", "acquire", "write", "enqueue", "release", "dead"}]
  BY <1>7 DEF EnqueueAccepted, Move, TypeOK
<2> QED
  BY <1>7, <2>3, <2>4 DEF EnqueueAccepted, TypeOK
<1>8. ASSUME NEW p \in Producers, EnqueueRefused(p) PROVE TypeOK'
  BY <1>8 DEF EnqueueRefused, Move, Goto, Timeout, NoTimeout, FreeSlot, FreePool, NoStorage, Fresh, Blank, TypeOK
<1>9. ASSUME NEW p \in Producers, Release(p) PROVE TypeOK'
<2>1. taken' \in [Slots -> BOOLEAN]
  BY <1>9 DEF Release, FreeSlot, TypeOK
<2> QED
  BY <1>9, <2>1 DEF Release, Move, TypeOK
<1>10. ASSUME NEW p \in Producers, ReleaseBusy(p) PROVE TypeOK'
<2>1. msg[p] \in Msgs
  BY <1>10, InHand DEF ReleaseBusy, Move
<2>2. leaked' \subseteq Ptrs
  BY <1>10, <2>1 DEF ReleaseBusy, TypeOK, Ptrs
<2>3. /\ timeouts' \in 0 .. MaxTimeouts
      /\ pc' \in [Producers -> {"idle", "acquire", "write", "enqueue", "release", "dead"}]
      /\ msg' \in [Producers -> 0 .. MaxMsgs]
  BY <1>10, TimeoutType DEF ReleaseBusy, Move, TypeOK
<2>4. UNCHANGED <<queueVars, poolVars, ptr, started, cpc, garbled, gaveUp>>
  BY <1>10 DEF ReleaseBusy
<2> QED
  BY <2>2, <2>3, <2>4 DEF TypeOK, Ptrs
<1>11. ASSUME Receive PROVE TypeOK'
<2>1. line' \in Seq(Msgs) /\ Len(line') <= SlotCount /\ sending' \in Msgs
  BY <1>11 DEF Receive, TypeOK
<2>2. sending' \in 0 .. MaxMsgs
  BY <2>1 DEF Msgs
<2> QED
  BY <1>11, <2>1, <2>2 DEF Receive, TypeOK
<1>12. ASSUME Send PROVE TypeOK'
<2>1. sending \in Msgs
  BY <1>12, InHand DEF Send
<2>2. garbled' \subseteq Msgs
  BY <1>12, <2>1 DEF Send, TypeOK
<2>3. leaked' \subseteq Ptrs /\ taken' \in [Slots -> BOOLEAN] /\ timeouts' \in 0 .. MaxTimeouts
  <3>1. CASE FreeSlot(sending) /\ NoTimeout /\ UNCHANGED leaked
    BY <3>1 DEF FreeSlot, NoTimeout, TypeOK, Ptrs
  <3>2. CASE Timeout /\ leaked' = leaked \cup {ptr[sending]} /\ UNCHANGED taken
    BY <2>1, <3>2, TimeoutType DEF TypeOK, Ptrs
  <3> QED
    BY <1>12, <3>1, <3>2 DEF Send
<2> QED
  BY <1>12, <2>2, <2>3 DEF Send, TypeOK, Ptrs
<1>13. ASSUME NEW c \in Controllers, CallEnable(c) PROVE TypeOK'
  BY <1>13 DEF CallEnable, Move, Goto, Timeout, NoTimeout, FreeSlot, FreePool, NoStorage, Fresh, Blank, TypeOK
<1>14. ASSUME NEW c \in Controllers, CallDisable(c) PROVE TypeOK'
  BY <1>14 DEF CallDisable, Move, Goto, Timeout, NoTimeout, FreeSlot, FreePool, NoStorage, Fresh, Blank, TypeOK
<1>15. ASSUME NEW c \in Controllers, Enable(c) PROVE TypeOK'
  BY <1>15 DEF Enable, Move, Goto, Timeout, NoTimeout, FreeSlot, FreePool, NoStorage, Fresh, Blank, TypeOK
<1>16. ASSUME NEW c \in Controllers, EnableDeferred(c) PROVE TypeOK'
  BY <1>16 DEF EnableDeferred, Move, Goto, Timeout, NoTimeout, FreeSlot, FreePool, NoStorage, Fresh, Blank, TypeOK
<1>17. ASSUME NEW c \in Controllers, EnableFails(c) PROVE TypeOK'
<2>1. {live', accepting', stopping'} \subseteq BOOLEAN
  BY <1>17 DEF EnableFails
<2> QED
  BY <1>17, <2>1, TimeoutType DEF EnableFails, Goto, TypeOK
<1>18. ASSUME NEW c \in Controllers, InitDeinit(c) PROVE TypeOK'
  BY <1>18 DEF InitDeinit, Move, Goto, Timeout, NoTimeout, FreeSlot, FreePool, NoStorage, Fresh, Blank, TypeOK
<1>19. ASSUME NEW c \in Controllers, InitSize(c) PROVE TypeOK'
  BY <1>19 DEF InitSize, Move, Goto, Timeout, NoTimeout, FreeSlot, FreePool, NoStorage, Fresh, Blank, TypeOK
<1>20. ASSUME NEW c \in Controllers, InitAlloc(c) PROVE TypeOK'
  BY <1>20 DEF InitAlloc, Move, Goto, Timeout, NoTimeout, FreeSlot, FreePool, NoStorage, Fresh, Blank, TypeOK
<1>21. ASSUME NEW c \in Controllers, InitClear(c) PROVE TypeOK'
  BY <1>21 DEF InitClear, Move, Goto, Timeout, NoTimeout, FreeSlot, FreePool, NoStorage, Fresh, Blank, TypeOK
<1>22. ASSUME NEW c \in Controllers, InitFails(c) PROVE TypeOK'
  BY <1>22 DEF InitFails, Move, Goto, Timeout, NoTimeout, FreeSlot, FreePool, NoStorage, Fresh, Blank, TypeOK
<1>23. ASSUME NEW c \in Controllers, DisableBusy(c) PROVE TypeOK'
  BY <1>23 DEF DisableBusy, Move, Goto, Timeout, NoTimeout, FreeSlot, FreePool, NoStorage, Fresh, Blank, TypeOK
<1>24. ASSUME NEW c \in Controllers, StopAccepting(c) PROVE TypeOK'
  BY <1>24 DEF StopAccepting, Move, Goto, Timeout, NoTimeout, FreeSlot, FreePool, NoStorage, Fresh, Blank, TypeOK
<1>25. ASSUME NEW c \in Controllers, Disable(c) PROVE TypeOK'
  BY <1>25 DEF Disable, Move, Goto, Timeout, NoTimeout, FreeSlot, FreePool, NoStorage, Fresh, Blank, TypeOK
<1>26. ASSUME NEW c \in Controllers, DisableFails(c) PROVE TypeOK'
<2>1. {live', accepting', stopping'} \subseteq BOOLEAN
  BY <1>26 DEF DisableFails, TypeOK
<2> QED
  BY <1>26, <2>1, TimeoutType DEF DisableFails, Goto, TypeOK
<1>27. ASSUME NEW c \in Controllers, DisableDeinit(c) PROVE TypeOK'
<2>1. cpc' \in [Controllers -> {"absent", "idle", "enable", "deinit", "size", "alloc",
                                "clear", "disable", "drain", "free"}]
  BY <1>27 DEF DisableDeinit, Goto, TypeOK
<2>3. taken' \in [Slots -> BOOLEAN] /\ written' \in [Slots -> 0 .. MaxMsgs]
  BY <1>27 DEF DisableDeinit, FreePool, NoStorage, Fresh, Blank
<2>4. phase' = "none" /\ storage' \in 0 .. allocated' /\ gaveUp' = FALSE
  BY <1>27 DEF DisableDeinit, FreePool, NoStorage, TypeOK
<2>2. UNCHANGED <<queueVars, prodVars, allocated, leaked, garbled, timeouts>>
  BY <1>27 DEF DisableDeinit, FreePool, NoStorage
<2> QED
  BY <2>1, <2>2, <2>3, <2>4 DEF TypeOK
<1>29. ASSUME NEW p \in Producers, WriterFails(p) PROVE TypeOK'
  BY <1>29 DEF WriterFails, Move, Goto, Timeout, NoTimeout, FreeSlot, FreePool, NoStorage, Fresh, Blank, TypeOK
<1>30. ASSUME NEW c \in Controllers, InitDeinitBusy(c) PROVE TypeOK'
  BY <1>30 DEF InitDeinitBusy, Move, Goto, Timeout, NoTimeout, FreeSlot, FreePool, NoStorage, Fresh, Blank, TypeOK
<1>31. ASSUME NEW c \in Controllers, DisableDeinitBusy(c) PROVE TypeOK'
  BY <1>31 DEF DisableDeinitBusy, Move, Goto, Timeout, NoTimeout, FreeSlot, FreePool, NoStorage, Fresh, Blank, TypeOK
<1>28. CASE UNCHANGED vars
  BY <1>28 DEF vars, queueVars, poolVars, prodVars, histVars, TypeOK
<1> QED
  BY <1>1, <1>2, <1>3, <1>4, <1>5, <1>6, <1>7, <1>8, <1>9, <1>10, <1>11, <1>12, <1>13, <1>14, <1>15, <1>16, <1>17, <1>18, <1>19, <1>20, <1>21, <1>22, <1>23, <1>24, <1>25, <1>26, <1>27, <1>28, <1>29, <1>30, <1>31 DEF Next, Produce, Control

-----------------------------------------------------------------------------
(* What is in the queue after its end or its head has changed. *)
LEMMA AppendSet ==
    ASSUME NEW S, NEW s \in Seq(S), NEW x \in S
    PROVE  /\ ToSet(Append(s, x)) = ToSet(s) \cup {x}
           /\ x \notin ToSet(s) /\ IsInjective(s) => IsInjective(Append(s, x))
<1>1. /\ DOMAIN s = 1 .. Len(s) /\ Len(s) \in Nat
      /\ DOMAIN Append(s, x) = 1 .. (Len(s) + 1)
      /\ Append(s, x)[Len(s) + 1] = x
      /\ \A i \in 1 .. Len(s) : Append(s, x)[i] = s[i]
  OBVIOUS
<1>2. 1 .. (Len(s) + 1) = (1 .. Len(s)) \cup {Len(s) + 1}
  BY <1>1
<1> QED
  BY <1>1, <1>2 DEF ToSet, IsInjective

LEMMA TailSet ==
    ASSUME NEW S, NEW s \in Seq(S), s # <<>>, IsInjective(s)
    PROVE  /\ Head(s) \in ToSet(s)
           /\ ToSet(Tail(s)) = ToSet(s) \ {Head(s)}
           /\ IsInjective(Tail(s))
<1>1. /\ DOMAIN s = 1 .. Len(s) /\ Len(s) \in Nat \ {0} /\ Head(s) = s[1]
      /\ DOMAIN Tail(s) = 1 .. (Len(s) - 1)
      /\ \A i \in 1 .. (Len(s) - 1) : Tail(s)[i] = s[i + 1]
  OBVIOUS
<1>2. \A i \in 1 .. Len(s) : s[i] = s[1] => i = 1
  BY <1>1 DEF IsInjective
<1>3. ASSUME NEW x \in ToSet(s) \ {Head(s)} PROVE x \in ToSet(Tail(s))
  <2>1. PICK i \in 1 .. Len(s) : s[i] = x
    BY <1>1 DEF ToSet
  <2>2. i - 1 \in 1 .. (Len(s) - 1) /\ Tail(s)[i - 1] = x
    BY <1>1, <1>3, <2>1
  <2> QED
    BY <1>1, <2>2 DEF ToSet
<1>4. ASSUME NEW x \in ToSet(Tail(s)) PROVE x \in ToSet(s) \ {Head(s)}
  <2>1. PICK i \in 1 .. (Len(s) - 1) : Tail(s)[i] = x
    BY <1>1 DEF ToSet
  <2>2. i + 1 \in 1 .. Len(s) /\ s[i + 1] = x /\ i + 1 # 1
    BY <1>1, <2>1
  <2> QED
    BY <1>1, <1>2, <2>2 DEF ToSet
<1>5. IsInjective(Tail(s))
  <2>1. SUFFICES ASSUME NEW i \in 1 .. (Len(s) - 1), NEW j \in 1 .. (Len(s) - 1),
                        Tail(s)[i] = Tail(s)[j]
                 PROVE  i = j
    BY <1>1 DEF IsInjective
  <2>2. i + 1 \in 1 .. Len(s) /\ j + 1 \in 1 .. Len(s) /\ s[i + 1] = s[j + 1]
    BY <1>1, <2>1
  <2> QED
    BY <1>1, <2>2 DEF IsInjective
<1>6. ToSet(Tail(s)) = ToSet(s) \ {Head(s)}
  BY <1>3, <1>4
<1>7. Head(s) \in ToSet(s)
  BY <1>1 DEF ToSet
<1> QED
  BY <1>5, <1>6, <1>7

(* No message changes its place, though some may be given up. *)
LEMMA CustodyKept ==
    ASSUME Custody, UNCHANGED <<line, sending, started>>,
           \A q \in Producers : pc'[q] # "idle" => pc[q] # "idle" /\ msg'[q] = msg[q]
    PROVE  Custody'
  BY DEF Custody

LEMMA CustodyStep == TypeOK /\ Custody /\ [Next]_vars => Custody'
<1> SUFFICES ASSUME TypeOK, Custody, [Next]_vars PROVE Custody'
  OBVIOUS
<1> USE DEF queueVars, poolVars, prodVars, histVars
<1>1. ASSUME NEW p \in Producers, Broadcast(p) PROVE Custody'
<2>1. /\ pc[p] = "idle" /\ started' = started + 1 /\ UNCHANGED <<line, sending>>
      /\ msg'[p] = started + 1 /\ \A q \in Producers \ {p} : pc'[q] = pc[q] /\ msg'[q] = msg[q]
  BY <1>1 DEF Broadcast, Move, TypeOK
<2>2. started \in Nat
  BY InHand
<2>3. /\ \A x \in 1 .. started : x \in 1 .. started' /\ x # started + 1
      /\ started + 1 \in 1 .. started' /\ started + 1 # 0
  BY <2>1, <2>2
<2>4. started + 1 # sending /\ started + 1 \notin ToSet(line)
  BY <2>3 DEF Custody
<2> QED
  BY <2>1, <2>3, <2>4 DEF Custody
<1>2. ASSUME NEW p \in Producers, AcquireSlot(p) PROVE Custody'
<2>1. UNCHANGED <<line, sending, started>>
      /\ \A q \in Producers : pc'[q] # "idle" => pc[q] # "idle" /\ msg'[q] = msg[q]
  BY <1>2 DEF AcquireSlot, Move, TypeOK
<2> QED
  BY <2>1, CustodyKept
<1>3. ASSUME NEW p \in Producers, AcquireFails(p) PROVE Custody'
<2>1. UNCHANGED <<line, sending, started>>
      /\ \A q \in Producers : pc'[q] # "idle" => pc[q] # "idle" /\ msg'[q] = msg[q]
  BY <1>3 DEF AcquireFails, Move, TypeOK
<2> QED
  BY <2>1, CustodyKept
<1>4. ASSUME NEW p \in Producers, AcquireFaults(p) PROVE Custody'
<2>1. UNCHANGED <<line, sending, started>>
      /\ \A q \in Producers : pc'[q] # "idle" => pc[q] # "idle" /\ msg'[q] = msg[q]
  BY <1>4 DEF AcquireFaults, Move, TypeOK
<2> QED
  BY <2>1, CustodyKept
<1>5. ASSUME NEW p \in Producers, AcquireBusy(p) PROVE Custody'
<2>1. UNCHANGED <<line, sending, started>>
      /\ \A q \in Producers : pc'[q] # "idle" => pc[q] # "idle" /\ msg'[q] = msg[q]
  BY <1>5 DEF AcquireBusy, Move, TypeOK
<2> QED
  BY <2>1, CustodyKept
<1>6. ASSUME NEW p \in Producers, WritePayload(p) PROVE Custody'
<2>1. UNCHANGED <<line, sending, started>>
      /\ \A q \in Producers : pc'[q] # "idle" => pc[q] # "idle" /\ msg'[q] = msg[q]
  BY <1>6 DEF WritePayload, Move, TypeOK
<2> QED
  BY <2>1, CustodyKept
<1>7. ASSUME NEW p \in Producers, EnqueueAccepted(p) PROVE Custody'
<2>1. /\ pc[p] # "idle" /\ pc'[p] = "idle" /\ line' = Append(line, msg[p])
      /\ UNCHANGED <<sending, started>>
      /\ \A q \in Producers \ {p} : pc'[q] = pc[q] /\ msg'[q] = msg[q]
  BY <1>7 DEF EnqueueAccepted, Move, TypeOK
<2>2. msg[p] \in Msgs /\ line \in Seq(Msgs)
  BY <2>1, InHand DEF TypeOK
<2>3. msg[p] \notin ToSet(line) /\ IsInjective(line) /\ msg[p] # sending
      /\ msg[p] \in 1 .. started
  BY <2>1 DEF Custody
<2>4. ToSet(line') = ToSet(line) \cup {msg[p]} /\ IsInjective(line')
  BY <2>1, <2>2, <2>3, AppendSet
<2>5. ASSUME NEW q \in Producers, pc'[q] # "idle"
      PROVE  pc[q] # "idle" /\ msg'[q] = msg[q] /\ msg[q] # msg[p]
  BY <2>1, <2>5 DEF Custody
<2> QED
  BY <2>1, <2>3, <2>4, <2>5 DEF Custody
<1>8. ASSUME NEW p \in Producers, EnqueueRefused(p) PROVE Custody'
<2>1. UNCHANGED <<line, sending, started>>
      /\ \A q \in Producers : pc'[q] # "idle" => pc[q] # "idle" /\ msg'[q] = msg[q]
  BY <1>8 DEF EnqueueRefused, Move, TypeOK
<2> QED
  BY <2>1, CustodyKept
<1>9. ASSUME NEW p \in Producers, Release(p) PROVE Custody'
<2>1. UNCHANGED <<line, sending, started>>
      /\ \A q \in Producers : pc'[q] # "idle" => pc[q] # "idle" /\ msg'[q] = msg[q]
  BY <1>9 DEF Release, Move, TypeOK
<2> QED
  BY <2>1, CustodyKept
<1>10. ASSUME NEW p \in Producers, ReleaseBusy(p) PROVE Custody'
<2>1. UNCHANGED <<line, sending, started>>
      /\ \A q \in Producers : pc'[q] # "idle" => pc[q] # "idle" /\ msg'[q] = msg[q]
  BY <1>10 DEF ReleaseBusy, Move, TypeOK
<2> QED
  BY <2>1, CustodyKept
<1>11. ASSUME Receive PROVE Custody'
<2>1. /\ line # <<>> /\ sending = 0 /\ sending' = Head(line) /\ line' = Tail(line)
      /\ UNCHANGED <<pc, msg, started>>
  BY <1>11 DEF Receive
<2>2. line \in Seq(Msgs) /\ IsInjective(line)
  BY DEF TypeOK, Custody
<2>3. /\ sending' \in ToSet(line) /\ ToSet(line') = ToSet(line) \ {sending'}
      /\ IsInjective(line')
  BY <2>1, <2>2, TailSet
<2> QED
  BY <2>1, <2>3 DEF Custody
<1>12. ASSUME Send PROVE Custody'
<2>1. sending' = 0 /\ UNCHANGED <<pc, msg, line, started>>
  BY <1>12 DEF Send
<2>2. 0 \notin 1 .. started
  BY InHand
<2> QED
  BY <2>1, <2>2 DEF Custody
<1>13. ASSUME NEW c \in Controllers, (CallEnable(c) \/ CallDisable(c) \/ Control(c)) PROVE Custody'
<2>1. UNCHANGED <<line, sending, started, pc, msg>>
  BY <1>13 DEF CallEnable, CallDisable, Enable, EnableDeferred, EnableFails, InitDeinit, InitDeinitBusy, InitSize, InitAlloc, InitClear, InitFails, DisableBusy, StopAccepting, Disable, DisableFails, DisableDeinit, DisableDeinitBusy, Control
<2> QED
  BY <2>1, CustodyKept
<1>15. ASSUME NEW p \in Producers, WriterFails(p) PROVE Custody'
<2>1. UNCHANGED <<line, sending, started>>
      /\ \A q \in Producers : pc'[q] # "idle" => pc[q] # "idle" /\ msg'[q] = msg[q]
  BY <1>15 DEF WriterFails, Move, TypeOK
<2> QED
  BY <2>1, CustodyKept
<1>14. CASE UNCHANGED vars
  BY <1>14 DEF vars, queueVars, poolVars, prodVars, histVars, Custody
<1> QED
  BY <1>15, <1>1, <1>2, <1>3, <1>4, <1>5, <1>6, <1>7, <1>8, <1>9, <1>10, <1>11, <1>12, <1>13, <1>14 DEF Next, Produce

-----------------------------------------------------------------------------
(* A pool enabled at boot. *)

InHolding(p) == pc[p] \in {"write", "enqueue", "release"}

(* Who holds a slot, told place by place. *)
LEMMA HoldingIs ==
    \A m : m \in Holding <=> \/ \E p \in Producers : InHolding(p) /\ msg[p] = m
                             \/ m \in ToSet(line)
                             \/ m = sending /\ m # 0
  BY DEF Holding, InHolding

LEMMA HoldingIsNext ==
    \A m : m \in Holding' <=> \/ \E p \in Producers : InHolding(p)' /\ msg'[p] = m
                              \/ m \in ToSet(line')
                              \/ m = sending' /\ m # 0
  BY DEF Holding, InHolding

(* Every holder is a message with a place in the table of pointers. *)
LEMMA Holders ==
    ASSUME TypeOK, Custody
    PROVE  /\ Holding \subseteq Msgs
           /\ \A m \in Msgs : ptr[m] = [storage |-> ptr[m].storage, slot |-> ptr[m].slot]
                              /\ ptr[m].slot \in Slots
<1>1. Holding \subseteq Msgs
  BY InHand, HoldingIs DEF InHolding
<1> QED
  BY <1>1 DEF TypeOK

(* The part of Boot that speaks of the slots. *)
Filled ==
    /\ phase \in {"none", "ready"}
    /\ \A m \in Holding :
          phase = "ready" /\ ptr[m].storage = storage /\ taken[ptr[m].slot]
    /\ \A m, n \in Holding : m # n => ptr[m] # ptr[n]
    /\ \A m \in Holding \ Writing : written[ptr[m].slot] = m
    /\ \A x \in leaked :
          x.storage = storage /\ taken[x.slot] /\ \A m \in Holding : ptr[m] # x
    /\ \A s \in Slots : taken[s] =>
          [storage |-> storage, slot |-> s] \in leaked \cup {ptr[m] : m \in Holding}

(* Two holders have different slots of one storage. *)
LEMMA SlotsApart ==
    ASSUME TypeOK, Custody, Filled, NEW m \in Holding, NEW n \in Holding, m # n
    PROVE  ptr[m].slot \in Slots /\ ptr[n].slot \in Slots /\ ptr[n].slot # ptr[m].slot
<1>1. m \in Msgs /\ n \in Msgs
  BY Holders
<1>2. /\ ptr[m] = [storage |-> storage, slot |-> ptr[m].slot] /\ ptr[m].slot \in Slots
      /\ ptr[n] = [storage |-> storage, slot |-> ptr[n].slot] /\ ptr[n].slot \in Slots
  BY <1>1, Holders DEF Filled
<1>3. ptr[m] # ptr[n]
  BY DEF Filled
<1> QED
  BY <1>2, <1>3

(* Nobody gets or gives back a slot. *)
LEMMA FilledKept ==
    ASSUME Filled, Holding' = Holding, Writing \subseteq Writing',
           UNCHANGED <<phase, storage, taken, written, ptr, leaked>>
    PROVE  Filled'
  BY DEF Filled

(* A holder gives its slot back. *)
LEMMA FilledGiven ==
    ASSUME TypeOK, Custody, Filled, NEW m \in Holding,
           Holding' = Holding \ {m}, Writing \subseteq Writing' \cup {m}, FreeSlot(m),
           UNCHANGED <<phase, storage, written, ptr, leaked>>
    PROVE  Filled'
<1>1. /\ m \in Msgs /\ ptr[m].slot \in Slots /\ ptr[m].storage = storage /\ phase = "ready"
      /\ ptr[m] = [storage |-> storage, slot |-> ptr[m].slot]
  BY Holders DEF Filled
<1>2. /\ taken'[ptr[m].slot] = FALSE
      /\ \A s \in Slots : s # ptr[m].slot => taken'[s] = taken[s]
  BY <1>1 DEF FreeSlot, TypeOK
<1>3. \A n \in Holding \ {m} : ptr[n].slot \in Slots /\ ptr[n].slot # ptr[m].slot
  BY SlotsApart
<1>4. \A x \in leaked : x.slot \in Slots /\ x.slot # ptr[m].slot
  <2>1. \A x \in leaked : x.slot \in Slots /\ x = [storage |-> x.storage, slot |-> x.slot]
    BY DEF TypeOK
  <2> QED
    BY <1>1, <2>1 DEF Filled
<1>5. \A s \in Slots : taken'[s] =>
          [storage |-> storage, slot |-> s] \in leaked \cup {ptr[n] : n \in Holding \ {m}}
  BY <1>1, <1>2 DEF Filled
<1> QED
  BY <1>1, <1>2, <1>3, <1>4, <1>5 DEF Filled

(* A holder's release times out: its slot is leaked. *)
LEMMA FilledLeaked ==
    ASSUME TypeOK, Custody, Filled, NEW m \in Holding,
           Holding' = Holding \ {m}, Writing \subseteq Writing' \cup {m}, leaked' = leaked \cup {ptr[m]},
           UNCHANGED <<phase, storage, taken, written, ptr>>
    PROVE  Filled'
  BY DEF Filled

LEMMA BootStep == TypeOK /\ Custody /\ Boot /\ [Next]_vars => Boot'
<1> SUFFICES ASSUME TypeOK, Custody, Boot, [Next]_vars PROVE Boot'
  OBVIOUS
<1> USE DEF queueVars, poolVars, prodVars, histVars
<1>0. ASSUME UNCHANGED cpc, AtBoot => Filled' /\ garbled' = {} PROVE Boot'
  BY <1>0 DEF Boot, Filled, AtBoot
<1>a. AtBoot => Filled /\ garbled = {}
  BY DEF Boot, Filled
<1>b. ASSUME UNCHANGED <<cpc, phase, storage, taken, written, ptr, leaked, garbled>>,
             Holding' = Holding, Writing \subseteq Writing'
      PROVE  Boot'
  BY <1>0, <1>a, <1>b, FilledKept
<1>1. ASSUME NEW p \in Producers, Broadcast(p) PROVE Boot'
<2>1. /\ UNCHANGED <<cpc, phase, storage, taken, written, ptr, leaked, garbled>>
      /\ UNCHANGED <<line, sending>>
      /\ ~InHolding(p) /\ ~InHolding(p)'
      /\ \A q \in Producers \ {p} : pc'[q] = pc[q] /\ msg'[q] = msg[q]
  BY <1>1 DEF Broadcast, Move, TypeOK, InHolding
<2>2. \A m : m \in Holding' <=> m \in Holding
  BY <2>1, HoldingIs, HoldingIsNext DEF InHolding
<2>3. \A m : m \in Writing' <=> m \in Writing
  BY <2>1 DEF Writing, InHolding
<2> QED
  BY <1>b, <2>1, <2>2, <2>3
<1>2. ASSUME NEW p \in Producers, AcquireSlot(p) PROVE Boot'
<2>1. PICK s \in FreeSlots : /\ taken' = [taken EXCEPT ![s] = TRUE]
                            /\ ptr' = [ptr EXCEPT ![msg[p]] = [storage |-> storage, slot |-> s]]
  BY <1>2 DEF AcquireSlot
<2>2. /\ phase \in {"raw", "ready"} /\ pc[p] = "acquire" /\ pc'[p] = "write" /\ msg' = msg
      /\ UNCHANGED <<cpc, phase, storage, written, leaked, garbled, line, sending>>
      /\ \A q \in Producers \ {p} : pc'[q] = pc[q]
  BY <1>2 DEF AcquireSlot, Move, TypeOK
<2> DEFINE m == msg[p]
<2>3. m \in Msgs /\ m \notin Holding
  <3>1. /\ m \in Msgs /\ m # sending /\ m \notin ToSet(line)
        /\ \A q \in Producers \ {p} : pc[q] # "idle" => msg[q] # m
    BY <2>2, InHand DEF Custody
  <3> QED
    BY <2>2, <3>1, HoldingIs DEF InHolding
<2>4. Holding' = Holding \cup {m}
  <3>1. InHolding(p)' /\ ~InHolding(p) /\ \A q \in Producers \ {p} : InHolding(q)' = InHolding(q)
    BY <2>2 DEF InHolding
  <3>2. \A n : n \in Holding' <=> n \in Holding \/ n = m
    BY <2>2, <3>1, HoldingIs, HoldingIsNext
  <3> QED
    BY <3>2
<2>5. Writing' = Writing \cup {m}
  <3>1. \A n : n \in Writing' <=> n \in Writing \/ n = m
    BY <2>2 DEF Writing
  <3> QED
    BY <3>1
<2> HIDE DEF m
<2>6. s \in Slots /\ ~taken[s]
  BY DEF FreeSlots
<2>7. /\ ptr'[m] = [storage |-> storage, slot |-> s]
      /\ \A n \in Msgs : n # m => ptr'[n] = ptr[n]
      /\ taken'[s] = TRUE /\ \A t \in Slots : t # s => taken'[t] = taken[t]
  BY <2>1, <2>3, <2>6 DEF m, TypeOK
<2>8. ASSUME AtBoot PROVE Filled'
  <3>1. Filled /\ phase = "ready"
    BY <1>a, <2>2, <2>8 DEF Filled
  <3>2. \A n \in Holding : /\ n \in Msgs /\ n # m /\ ptr'[n] = ptr[n] /\ ptr[n].slot \in Slots
                           /\ ptr[n].slot # s /\ ptr[n] # ptr'[m]
    <4> SUFFICES ASSUME NEW n \in Holding
                 PROVE  /\ n \in Msgs /\ n # m /\ ptr'[n] = ptr[n] /\ ptr[n].slot \in Slots
                        /\ ptr[n].slot # s /\ ptr[n] # ptr'[m]
      OBVIOUS
    <4>1. n \in Msgs /\ n # m /\ ptr[n].slot \in Slots
      BY <2>3, Holders
    <4>2. ptr[n].slot # s /\ ptr'[n] = ptr[n]
      BY <2>6, <2>7, <3>1, <4>1 DEF Filled
    <4>3. ptr'[m].slot = s
      BY <2>7
    <4> QED
      BY <4>1, <4>2, <4>3
  <3>3. \A x \in leaked : x.storage = storage /\ x.slot \in Slots /\ x.slot # s /\ x # ptr'[m]
    BY <2>6, <2>7, <3>1 DEF Filled, TypeOK
  <3>4. \A n \in Holding' : ptr'[n].storage = storage /\ taken'[ptr'[n].slot]
    BY <2>4, <2>6, <2>7, <3>1, <3>2 DEF Filled
  <3>5. \A n, k \in Holding' : n # k => ptr'[n] # ptr'[k]
    BY <2>4, <3>1, <3>2 DEF Filled
  <3>6. \A n \in Holding' \ Writing' : written[ptr'[n].slot] = n
    BY <2>4, <2>5, <3>1, <3>2 DEF Filled
  <3>7. \A x \in leaked : x.storage = storage /\ taken'[x.slot] /\ \A n \in Holding' : ptr'[n] # x
    BY <2>4, <2>7, <3>1, <3>2, <3>3 DEF Filled
  <3>8. \A t \in Slots : taken'[t] =>
            [storage |-> storage, slot |-> t] \in leaked \cup {ptr'[n] : n \in Holding'}
    BY <2>4, <2>7, <3>1, <3>2 DEF Filled
  <3> QED
    BY <2>2, <3>1, <3>4, <3>5, <3>6, <3>7, <3>8 DEF Filled
<2> QED
  BY <1>0, <1>a, <2>2, <2>8
<1>3. ASSUME NEW p \in Producers, AcquireFails(p) PROVE Boot'
<2>1. /\ UNCHANGED <<cpc, phase, storage, taken, written, ptr, leaked, garbled>>
      /\ UNCHANGED <<line, sending>>
      /\ ~InHolding(p) /\ ~InHolding(p)'
      /\ \A q \in Producers \ {p} : pc'[q] = pc[q] /\ msg'[q] = msg[q]
  BY <1>3 DEF AcquireFails, Move, TypeOK, InHolding
<2>2. \A m : m \in Holding' <=> m \in Holding
  BY <2>1, HoldingIs, HoldingIsNext DEF InHolding
<2>3. \A m : m \in Writing' <=> m \in Writing
  BY <2>1 DEF Writing, InHolding
<2> QED
  BY <1>b, <2>1, <2>2, <2>3
<1>4. ASSUME NEW p \in Producers, AcquireFaults(p) PROVE Boot'
<2>1. /\ UNCHANGED <<cpc, phase, storage, taken, written, ptr, leaked, garbled>>
      /\ UNCHANGED <<line, sending>>
      /\ ~InHolding(p) /\ ~InHolding(p)'
      /\ \A q \in Producers \ {p} : pc'[q] = pc[q] /\ msg'[q] = msg[q]
  BY <1>4 DEF AcquireFaults, Move, TypeOK, InHolding
<2>2. \A m : m \in Holding' <=> m \in Holding
  BY <2>1, HoldingIs, HoldingIsNext DEF InHolding
<2>3. \A m : m \in Writing' <=> m \in Writing
  BY <2>1 DEF Writing, InHolding
<2> QED
  BY <1>b, <2>1, <2>2, <2>3
<1>5. ASSUME NEW p \in Producers, AcquireBusy(p) PROVE Boot'
<2>1. /\ UNCHANGED <<cpc, phase, storage, taken, written, ptr, leaked, garbled>>
      /\ UNCHANGED <<line, sending>>
      /\ ~InHolding(p) /\ ~InHolding(p)'
      /\ \A q \in Producers \ {p} : pc'[q] = pc[q] /\ msg'[q] = msg[q]
  BY <1>5 DEF AcquireBusy, Move, TypeOK, InHolding
<2>2. \A m : m \in Holding' <=> m \in Holding
  BY <2>1, HoldingIs, HoldingIsNext DEF InHolding
<2>3. \A m : m \in Writing' <=> m \in Writing
  BY <2>1 DEF Writing, InHolding
<2> QED
  BY <1>b, <2>1, <2>2, <2>3
<1>6. ASSUME NEW p \in Producers, WritePayload(p) PROVE Boot'
<2>1. /\ UNCHANGED <<cpc, phase, storage, taken, ptr, leaked, garbled, line, sending, msg>>
      /\ pc[p] = "write" /\ pc'[p] = "enqueue" /\ \A q \in Producers \ {p} : pc'[q] = pc[q]
  BY <1>6 DEF WritePayload, Move, TypeOK
<2>2. \A q \in Producers : InHolding(q)' = InHolding(q)
  BY <2>1 DEF InHolding
<2>3. \A n : n \in Holding' <=> n \in Holding
  BY <2>1, <2>2, HoldingIs, HoldingIsNext
<2>4. msg[p] \in Holding
  BY <2>1, HoldingIs DEF InHolding
<2>5. \A n \in Writing : n \in Writing' \/ n = msg[p]
  BY <2>1 DEF Writing
<2>6. ASSUME AtBoot PROVE Filled'
  <3>1. Filled
    BY <1>a, <2>6
  <3>2. /\ ptr[msg[p]].storage = storage /\ ptr[msg[p]].slot \in Slots
        /\ \A n \in Holding : n # msg[p] => ptr[n].slot \in Slots /\ ptr[n].slot # ptr[msg[p]].slot
    <4>1. ptr[msg[p]].storage = storage /\ ptr[msg[p]].slot \in Slots
      BY <2>4, <3>1, Holders DEF Filled
    <4>2. \A n \in Holding : n # msg[p] => ptr[n].slot \in Slots /\ ptr[n].slot # ptr[msg[p]].slot
      BY <2>4, <3>1, SlotsApart
    <4> QED
      BY <4>1, <4>2
  <3>3. written' = [written EXCEPT ![ptr[msg[p]].slot] = msg[p]]
    BY <1>6, <3>2 DEF WritePayload
  <3>4. /\ written'[ptr[msg[p]].slot] = msg[p]
        /\ \A s \in Slots : s # ptr[msg[p]].slot => written'[s] = written[s]
    BY <3>2, <3>3 DEF TypeOK
  <3>5. \A n \in Holding' \ Writing' : written'[ptr'[n].slot] = n
    BY <2>1, <2>3, <2>5, <3>1, <3>2, <3>4 DEF Filled
  <3> QED
    BY <2>1, <2>3, <3>1, <3>5 DEF Filled
<2> QED
  BY <1>0, <1>a, <2>1, <2>6
<1>7. ASSUME NEW p \in Producers, EnqueueAccepted(p) PROVE Boot'
<2>1. /\ UNCHANGED <<cpc, phase, storage, taken, written, ptr, leaked, garbled, sending>>
      /\ pc[p] = "enqueue" /\ pc'[p] = "idle" /\ line' = Append(line, msg[p])
      /\ \A q \in Producers \ {p} : pc'[q] = pc[q] /\ msg'[q] = msg[q]
  BY <1>7 DEF EnqueueAccepted, Move, TypeOK
<2>2. ToSet(line') = ToSet(line) \cup {msg[p]}
  <3>1. line \in Seq(Msgs) /\ msg[p] \in Msgs
    BY <2>1, InHand DEF TypeOK
  <3> QED
    BY <2>1, <3>1, AppendSet
<2>3. InHolding(p) /\ ~InHolding(p)'
  BY <2>1 DEF InHolding
<2>4. \A q \in Producers \ {p} : InHolding(q)' = InHolding(q)
  BY <2>1 DEF InHolding
<2>5. \A n : n \in Holding' <=> n \in Holding
  BY <2>1, <2>2, <2>3, <2>4, HoldingIs, HoldingIsNext
<2>6. \A n : n \in Writing' <=> n \in Writing
  BY <2>1 DEF Writing
<2> QED
  BY <1>b, <2>1, <2>5, <2>6
<1>8. ASSUME NEW p \in Producers, EnqueueRefused(p) PROVE Boot'
<2>1. /\ UNCHANGED <<cpc, phase, storage, taken, written, ptr, leaked, garbled, line, sending, msg>>
      /\ pc[p] = "enqueue" /\ pc'[p] = "release" /\ \A q \in Producers \ {p} : pc'[q] = pc[q]
  BY <1>8 DEF EnqueueRefused, Move, TypeOK
<2>2. \A q \in Producers : InHolding(q)' = InHolding(q)
  BY <2>1 DEF InHolding
<2>3. \A n : n \in Holding' <=> n \in Holding
  BY <2>1, <2>2, HoldingIs, HoldingIsNext
<2>4. Writing \subseteq Writing'
  BY <2>1 DEF Writing
<2> QED
  BY <1>b, <2>1, <2>3, <2>4
<1>15. ASSUME NEW p \in Producers, WriterFails(p) PROVE Boot'
<2>1. /\ UNCHANGED <<cpc, phase, storage, taken, written, ptr, leaked, garbled, line, sending, msg>>
      /\ pc[p] = "write" /\ pc'[p] = "release" /\ \A q \in Producers \ {p} : pc'[q] = pc[q]
  BY <1>15 DEF WriterFails, Move, TypeOK
<2>2. \A q \in Producers : InHolding(q)' = InHolding(q)
  BY <2>1 DEF InHolding
<2>3. \A n : n \in Holding' <=> n \in Holding
  BY <2>1, <2>2, HoldingIs, HoldingIsNext
<2>4. Writing \subseteq Writing'
  BY <2>1 DEF Writing
<2> QED
  BY <1>b, <2>1, <2>3, <2>4
<1>9. ASSUME NEW p \in Producers, Release(p) PROVE Boot'
<2>1. /\ UNCHANGED <<cpc, phase, storage, written, ptr, garbled, line, sending>>
      /\ pc[p] = "release" /\ pc'[p] = "idle" /\ FreeSlot(msg[p]) /\ UNCHANGED leaked
      /\ \A q \in Producers \ {p} : pc'[q] = pc[q] /\ msg'[q] = msg[q]
  BY <1>9 DEF Release, Move, TypeOK
<2>2. InHolding(p) /\ ~InHolding(p)' /\ \A q \in Producers \ {p} : InHolding(q)' = InHolding(q)
  BY <2>1 DEF InHolding
<2>3. /\ msg[p] # sending /\ msg[p] \notin ToSet(line)
      /\ \A q \in Producers \ {p} : pc[q] # "idle" => msg[q] # msg[p]
  BY <2>1 DEF Custody
<2>4. Holding' = Holding \ {msg[p]} /\ msg[p] \in Holding
  <3>1. \A q \in Producers \ {p} : InHolding(q) => pc[q] # "idle"
    BY DEF InHolding
  <3>2. msg[p] \in Holding /\ \A n : n \in Holding' <=> n \in Holding /\ n # msg[p]
    BY <2>1, <2>2, <2>3, <3>1, HoldingIs, HoldingIsNext
  <3> QED
    BY <3>2
<2>5. Writing \subseteq Writing' \cup {msg[p]}
  BY <2>1 DEF Writing
<2>6. AtBoot => Filled'
  BY <1>a, <2>1, <2>4, <2>5, FilledGiven
<2> QED
  BY <1>0, <1>a, <2>1, <2>6
<1>10. ASSUME NEW p \in Producers, ReleaseBusy(p) PROVE Boot'
<2>1. /\ UNCHANGED <<cpc, phase, storage, written, ptr, garbled, line, sending>>
      /\ pc[p] = "release" /\ pc'[p] = "idle" /\ leaked' = leaked \cup {ptr[msg[p]]} /\ UNCHANGED taken
      /\ \A q \in Producers \ {p} : pc'[q] = pc[q] /\ msg'[q] = msg[q]
  BY <1>10 DEF ReleaseBusy, Move, TypeOK
<2>2. InHolding(p) /\ ~InHolding(p)' /\ \A q \in Producers \ {p} : InHolding(q)' = InHolding(q)
  BY <2>1 DEF InHolding
<2>3. /\ msg[p] # sending /\ msg[p] \notin ToSet(line)
      /\ \A q \in Producers \ {p} : pc[q] # "idle" => msg[q] # msg[p]
  BY <2>1 DEF Custody
<2>4. Holding' = Holding \ {msg[p]} /\ msg[p] \in Holding
  <3>1. \A q \in Producers \ {p} : InHolding(q) => pc[q] # "idle"
    BY DEF InHolding
  <3>2. msg[p] \in Holding /\ \A n : n \in Holding' <=> n \in Holding /\ n # msg[p]
    BY <2>1, <2>2, <2>3, <3>1, HoldingIs, HoldingIsNext
  <3> QED
    BY <3>2
<2>5. Writing \subseteq Writing' \cup {msg[p]}
  BY <2>1 DEF Writing
<2>6. AtBoot => Filled'
  BY <1>a, <2>1, <2>4, <2>5, FilledLeaked
<2> QED
  BY <1>0, <1>a, <2>1, <2>6
<1>11. ASSUME Receive PROVE Boot'
<2>1. /\ UNCHANGED <<cpc, phase, storage, taken, written, ptr, leaked, garbled, pc, msg>>
      /\ line # <<>> /\ sending = 0 /\ sending' = Head(line) /\ line' = Tail(line)
  BY <1>11 DEF Receive
<2>2. ToSet(line) = ToSet(line') \cup {sending'} /\ sending' # 0
  <3>1. line \in Seq(Msgs) /\ IsInjective(line) /\ 0 \notin Msgs /\ ToSet(line) \subseteq Msgs
    BY InHand DEF TypeOK, Custody
  <3>2. sending' \in ToSet(line) /\ ToSet(line') = ToSet(line) \ {sending'}
    BY <2>1, <3>1, TailSet
  <3> QED
    BY <3>1, <3>2
<2>3. \A n : n \in Holding' <=> n \in Holding
  BY <2>1, <2>2, HoldingIs, HoldingIsNext DEF InHolding
<2>4. Writing' = Writing
  BY <2>1 DEF Writing
<2> QED
  BY <1>b, <2>1, <2>3, <2>4
<1>12. ASSUME Send PROVE Boot'
<2>1. /\ UNCHANGED <<cpc, phase, storage, written, ptr, pc, msg, line>> /\ sending # 0 /\ sending' = 0
      /\ garbled' = IF Intact(sending) THEN garbled ELSE garbled \cup {sending}
      /\ \/ FreeSlot(sending) /\ UNCHANGED leaked
         \/ leaked' = leaked \cup {ptr[sending]} /\ UNCHANGED taken
  BY <1>12 DEF Send
<2>2. sending \in Holding \ Writing /\ \A n : n \in Holding' <=> n \in Holding \ {sending}
  <3>1. /\ \A q \in Producers : pc[q] # "idle" => msg[q] # sending
        /\ sending \notin ToSet(line)
    BY DEF Custody
  <3> QED
    BY <2>1, <3>1, HoldingIs, HoldingIsNext DEF InHolding, Writing
<2>3. Writing' = Writing
  BY <2>1 DEF Writing
<2>4. Holding' = Holding \ {sending}
  BY <2>2
<2>5. AtBoot => Filled'
  BY <1>a, <2>1, <2>2, <2>3, <2>4, FilledGiven, FilledLeaked
<2>6. AtBoot => garbled' = {}
  BY <1>a, <2>1, <2>2 DEF Filled, Intact
<2> QED
  BY <1>0, <2>1, <2>5, <2>6
<1>13. ASSUME NEW c \in Controllers, (CallEnable(c) \/ CallDisable(c) \/ Control(c)) PROVE Boot'
<2>1. PICK k \in {"enable", "disable", "deinit", "size", "alloc", "clear", "idle", "drain", "free"} :
        cpc[c] # "absent" /\ cpc' = [cpc EXCEPT ![c] = k]
  BY <1>13 DEF CallEnable, CallDisable, Control, Enable, EnableDeferred, EnableFails, InitDeinit, InitDeinitBusy, InitSize, InitAlloc,
           InitClear, InitFails, DisableBusy, StopAccepting, Disable, DisableFails, DisableDeinit, DisableDeinitBusy, Goto
<2>2. cpc'[c] # "absent"
  BY <2>1 DEF TypeOK
<2> QED
  BY <2>2 DEF Boot, AtBoot
<1>14. CASE UNCHANGED vars
  BY <1>14 DEF vars, queueVars, poolVars, prodVars, histVars, AtBoot, Boot, Holding, Writing
<1> QED
  BY <1>1, <1>2, <1>3, <1>4, <1>5, <1>6, <1>7, <1>8, <1>9, <1>10, <1>11, <1>12, <1>13, <1>14, <1>15 DEF Next, Produce

-----------------------------------------------------------------------------
(* The theorems. *)

LEMMA InitInv == Init => IInv
<1> SUFFICES ASSUME Init PROVE IInv
  OBVIOUS
<1>1. /\ {live, accepting, stopping} \subseteq BOOLEAN /\ phase \in {"none", "ready"}
      /\ storage \in {0, 1} /\ allocated = storage /\ line = <<>> /\ sending = 0
      /\ \A c \in Controllers : cpc[c] \in {"absent", "idle"}
      /\ cpc \in [Controllers -> {"absent", "idle"}]
  BY DEF Init, Start
<1>2. /\ taken = [s \in Slots |-> FALSE] /\ written = [s \in Slots |-> 0]
      /\ pc = [p \in Producers |-> "idle"] /\ msg = [p \in Producers |-> 0]
      /\ ptr = [m \in Msgs |-> NoSlot] /\ started = 0 /\ leaked = {} /\ garbled = {} /\ timeouts = 0 /\ gaveUp = FALSE
  BY DEF Init, Fresh, Blank
<1>3. Len(line) = 0 /\ line \in Seq(Msgs) /\ ToSet(line) = {} /\ IsInjective(line)
  BY <1>1 DEF ToSet, IsInjective
<1>4. 0 \in Slots /\ 0 \in 0 .. MaxPools /\ 1 \in 0 .. MaxPools /\ 0 \in 0 .. MaxMsgs /\ 0 \in 0 .. MaxTimeouts
  BY DEF Slots
<1>5. ptr \in [Msgs -> [storage : 0 .. MaxPools, slot : Slots]]
  BY <1>2, <1>4 DEF NoSlot
<1>6. TypeOK
  BY <1>1, <1>2, <1>3, <1>4, <1>5 DEF TypeOK
<1>7. Custody
  BY <1>1, <1>2, <1>3 DEF Custody
<1>8. Holding = {}
  BY <1>1, <1>2, <1>3, HoldingIs DEF InHolding
<1>9. Boot
  BY <1>1, <1>2, <1>8 DEF Boot
<1> QED
  BY <1>6, <1>7, <1>9 DEF IInv

LEMMA StepInv == IInv /\ [Next]_vars => IInv'
  BY TypeStep, CustodyStep, BootStep DEF IInv

LEMMA Invariance == Spec => []IInv
  BY InitInv, StepInv, PTL DEF Spec

(* Every variable of the pool keeps its type, and the queue its capacity.   *)
THEOREM TypeCorrect == Spec => []TypeOK
<1>1. IInv => TypeOK
  BY DEF IInv
<1> QED
  BY <1>1, Invariance, PTL

(* No slot of a pool enabled at boot is given out twice (acquireSlot and     *)
(* releaseSlot of WsPayloadPool under the pool lock).                        *)
THEOREM SlotsExclusive == Spec => []SlotExclusive
<1>1. IInv => SlotExclusive
  BY DEF IInv, Boot, SlotExclusive
<1> QED
  BY <1>1, Invariance, PTL

(* Every message sent through a pool enabled at boot is the one its producer *)
(* wrote (performBroadcast reads the slot before it is released).            *)
THEOREM MessagesIntact == Spec => []SentIntact
<1>1. IInv => SentIntact
  BY DEF IInv, Boot, SentIntact
<1> QED
  BY <1>1, Invariance, PTL

(* The marks of a pool enabled at boot are exact: neither is a slot lost,    *)
(* but by a release that timed out, nor is one free that somebody holds.     *)
THEOREM TakenExactly == Spec => []TakenIsHeld
<1>1. ASSUME IInv, AtBoot, NEW s \in Slots
      PROVE  taken[s] <=> [storage |-> storage, slot |-> s] \in leaked \cup {ptr[m] : m \in Holding}
  <2> DEFINE here == [storage |-> storage, slot |-> s]
  <2>1. taken[s] => here \in leaked \cup {ptr[m] : m \in Holding}
    BY <1>1 DEF IInv, Boot
  <2>2. ASSUME here \in leaked PROVE taken[s]
    BY <1>1, <2>2 DEF IInv, Boot
  <2>3. ASSUME NEW m \in Holding, here = ptr[m] PROVE taken[s]
    BY <1>1, <2>3 DEF IInv, Boot
  <2> QED
    BY <2>1, <2>2, <2>3
<1>2. IInv => TakenIsHeld
  BY <1>1 DEF TakenIsHeld
<1> QED
  BY <1>2, Invariance, PTL

(* At most one controller is inside enableQueue or disableQueue.             *)
Resting(c) == cpc[c] \in {"absent", "idle"}
Turns == \A c, d \in Controllers : c # d => Resting(c) \/ Resting(d)

(* Controllers in an enableQueue, before and after it opens the queue and     *)
(* before it has a new pool.                                                 *)
Enabling(c) == cpc[c] \in {"enable", "deinit", "size", "alloc"}
Opened(c)   == cpc[c] \in {"deinit", "size", "alloc", "clear"}

(* What disableQueue is about to free belongs to a queue that is gone; and    *)
(* unless something gave up, there is no pool while the queue is not enabled. *)
Tidy ==
    /\ \A c \in Controllers : cpc[c] = "free" => ~live /\ Drained
    /\ ~gaveUp =>
          /\ (\A c \in Controllers : cpc[c] \notin {"drain", "free"}) => Enabled \/ storage = 0
          /\ \A c \in Controllers : Enabling(c) => storage = 0
          /\ \A c \in Controllers : Opened(c) => Enabled

LEMMA TidyStep == TypeOK /\ Turns /\ Turns' /\ Tidy /\ [Next]_vars => Tidy'
<1> SUFFICES ASSUME TypeOK, Turns, Turns', Tidy, [Next]_vars PROVE Tidy'
  OBVIOUS
<1> USE DEF queueVars, poolVars, prodVars, histVars
<1>1. ASSUME NEW p \in Producers, Broadcast(p) \/ Produce(p) PROVE Tidy'
  <2>1. UNCHANGED <<cpc, live, accepting, storage, gaveUp>>
    BY <1>1 DEF Broadcast, Produce, AcquireSlot, AcquireFails, AcquireFaults, AcquireBusy, WritePayload,
                WriterFails, EnqueueAccepted, EnqueueRefused, Release, ReleaseBusy
  <2>2. ~live => UNCHANGED <<line, sending>>
    BY <1>1 DEF Broadcast, Produce, AcquireSlot, AcquireFails, AcquireFaults, AcquireBusy, WritePayload,
                WriterFails, EnqueueAccepted, EnqueueRefused, Release, ReleaseBusy, Enabled
  <2> QED
    BY <2>1, <2>2 DEF Tidy, Drained, Enabled, Enabling, Opened
<1>2. CASE Receive \/ Send
  <2>1. UNCHANGED <<cpc, live, accepting, storage, gaveUp>> /\ (Drained => Drained')
    BY <1>2 DEF Receive, Send, Drained
  <2> QED
    BY <2>1 DEF Tidy, Enabled, Enabling, Opened
<1>3. ASSUME NEW d \in Controllers, CallEnable(d) \/ CallDisable(d) \/ Control(d) PROVE Tidy'
  <2>1. ~Resting(d) \/ ~Resting(d)'
    BY <1>3 DEF CallEnable, CallDisable, Control, Enable, EnableDeferred, EnableFails, InitDeinit,
                InitDeinitBusy, InitSize, InitAlloc, InitClear, InitFails, DisableBusy, StopAccepting,
                Disable, DisableFails, DisableDeinit, DisableDeinitBusy, Goto, Resting, TypeOK
  <2>2. PICK k : cpc' = [cpc EXCEPT ![d] = k]
    BY <1>3 DEF CallEnable, CallDisable, Control, Enable, EnableDeferred, EnableFails, InitDeinit,
                InitDeinitBusy, InitSize, InitAlloc, InitClear, InitFails, DisableBusy, StopAccepting,
                Disable, DisableFails, DisableDeinit, DisableDeinitBusy, Goto
  <2>3. cpc'[d] = k /\ \A c \in Controllers \ {d} : cpc'[c] = cpc[c]
    BY <2>2 DEF TypeOK
  <2>4. \A c \in Controllers \ {d} : Resting(c) /\ Resting(c)'
    BY <2>1, <2>3 DEF Turns, Resting
  <2>5. UNCHANGED <<line, sending>>
    BY <1>3 DEF CallEnable, CallDisable, Control, Enable, EnableDeferred, EnableFails, InitDeinit,
                InitDeinitBusy, InitSize, InitAlloc, InitClear, InitFails, DisableBusy, StopAccepting,
                Disable, DisableFails, DisableDeinit, DisableDeinitBusy
  <2>6. /\ cpc'[d] = "free" => ~live' /\ Drained
        /\ ~gaveUp' =>
              /\ cpc'[d] \notin {"drain", "free"} => Enabled' \/ storage' = 0
              /\ cpc'[d] \in {"enable", "deinit", "size", "alloc"} => storage' = 0
              /\ cpc'[d] \in {"deinit", "size", "alloc", "clear"} => Enabled'
    <3>1. /\ cpc[d] = "free" => ~live /\ Drained
          /\ ~gaveUp =>
                /\ cpc[d] \notin {"drain", "free"} => Enabled \/ storage = 0
                /\ cpc[d] \in {"enable", "deinit", "size", "alloc"} => storage = 0
                /\ cpc[d] \in {"deinit", "size", "alloc", "clear"} => Enabled
      BY <2>4 DEF Tidy, Enabling, Opened, Resting
    <3> USE DEF Goto
    <3>2. CASE CallEnable(d)
      BY <2>3, <3>1, <3>2 DEF CallEnable, Enabled, TypeOK
    <3>3. CASE CallDisable(d)
      BY <2>3, <3>1, <3>3 DEF CallDisable, Enabled, TypeOK
    <3>4. CASE Enable(d)
      BY <2>3, <3>1, <3>4 DEF Enable, Enabled, TypeOK
    <3>5. CASE EnableDeferred(d)
      BY <2>3, <3>1, <3>5 DEF EnableDeferred, Enabled, TypeOK
    <3>6. CASE EnableFails(d)
      BY <2>3, <3>1, <3>6 DEF EnableFails, Enabled, TypeOK
    <3>7. CASE InitDeinit(d)
      BY <2>3, <3>1, <3>7 DEF InitDeinit, FreePool, NoStorage, Enabled, TypeOK
    <3>8. CASE InitDeinitBusy(d)
      BY <2>3, <3>1, <3>8 DEF InitDeinitBusy, TypeOK
    <3>9. CASE InitSize(d)
      BY <2>3, <3>1, <3>9 DEF InitSize, Enabled, TypeOK
    <3>10. CASE InitAlloc(d)
      BY <2>3, <3>1, <3>10 DEF InitAlloc, Enabled, TypeOK
    <3>11. CASE InitClear(d)
      BY <2>3, <3>1, <3>11 DEF InitClear, Enabled, TypeOK
    <3>12. CASE InitFails(d)
      BY <2>3, <3>1, <3>12 DEF InitFails, NoStorage, Enabled, TypeOK
    <3>13. CASE DisableBusy(d)
      BY <2>3, <3>1, <3>13 DEF DisableBusy, Enabled, TypeOK
    <3>14. CASE StopAccepting(d)
      BY <2>3, <3>1, <3>14 DEF StopAccepting, TypeOK
    <3>15. CASE Disable(d)
      BY <2>3, <3>1, <3>15 DEF Disable, TypeOK
    <3>16. CASE DisableFails(d)
      BY <2>3, <3>1, <3>16 DEF DisableFails, TypeOK
    <3>17. CASE DisableDeinit(d)
      BY <2>3, <3>1, <3>17 DEF DisableDeinit, FreePool, NoStorage, TypeOK
    <3>18. CASE DisableDeinitBusy(d)
      BY <2>3, <3>1, <3>18 DEF DisableDeinitBusy, TypeOK
    <3> QED
      BY <1>3, <3>2, <3>3, <3>4, <3>5, <3>6, <3>7, <3>8, <3>9, <3>10, <3>11, <3>12, <3>13, <3>14, <3>15,
         <3>16, <3>17, <3>18 DEF Control
  <2> QED
    BY <2>4, <2>5, <2>6 DEF Tidy, Enabling, Opened, Resting, Drained, Enabled
<1>4. CASE UNCHANGED vars
  BY <1>4 DEF vars, Tidy, Drained, Enabled, Enabling, Opened
<1> QED
  BY <1>1, <1>2, <1>3, <1>4 DEF Next

(* As long as the controllers take turns, a pool is freed only with nothing   *)
(* queued and nothing being sent, by disableQueue and by the init of the next *)
(* enableQueue alike: what a disable found drained stays so, because nothing  *)
(* enters a queue that is gone, and an enable finds no pool left to free.     *)
(* Not so once a disable or a deinit gave up.                                 *)
THEOREM FreedOnlyDrained == Spec /\ []Turns => FreedDrained
<1>1. Init => Tidy
  BY DEF Init, Start, Tidy, Enabled, Enabling, Opened
<1>2. TypeOK /\ Turns /\ Tidy /\ [Next]_vars =>
          [storage # 0 /\ storage' = 0 => Drained \/ gaveUp]_vars
  <2> SUFFICES ASSUME TypeOK, Turns, Tidy, [Next]_vars, storage # 0, storage' = 0, ~gaveUp
               PROVE  Drained
    OBVIOUS
  <2> USE DEF queueVars, poolVars
  <2>1. ASSUME NEW p \in Producers, Broadcast(p) \/ Produce(p) PROVE FALSE
    <3>1. UNCHANGED storage
      BY <2>1 DEF Broadcast, Produce, AcquireSlot, AcquireFails, AcquireFaults, AcquireBusy,
                  WritePayload, WriterFails, EnqueueAccepted, EnqueueRefused, Release, ReleaseBusy
    <3> QED
      BY <3>1
  <2>2. CASE Receive \/ Send
    BY <2>2 DEF Receive, Send
  <2>3. ASSUME NEW c \in Controllers, CallEnable(c) \/ CallDisable(c) \/ Control(c) PROVE Drained
    <3>1. CASE InitDeinit(c) \/ InitFails(c) \/ DisableDeinit(c)
      BY <3>1 DEF InitDeinit, InitFails, DisableDeinit, Goto, Tidy, Enabling
    <3>2. CASE InitAlloc(c)
      BY <3>2 DEF InitAlloc, TypeOK
    <3>3. ~(InitDeinit(c) \/ InitFails(c) \/ DisableDeinit(c) \/ InitAlloc(c)) => UNCHANGED storage
      BY <2>3 DEF CallEnable, CallDisable, Control, Enable, EnableDeferred, EnableFails,
                  InitDeinitBusy, InitSize, InitClear, DisableBusy, StopAccepting, Disable,
                  DisableFails, DisableDeinitBusy
    <3> QED
      BY <3>1, <3>2, <3>3
  <2>4. CASE UNCHANGED vars
    BY <2>4 DEF vars
  <2> QED
    BY <2>1, <2>2, <2>3, <2>4 DEF Next
<1> QED
  BY <1>1, <1>2, TidyStep, TypeCorrect, PTL DEF Spec, FreedDrained

-----------------------------------------------------------------------------
(* The queue as this module keeps it promises what WsTaskQueue was shown to *)
(* promise: it implements the same hand-off, see WsHandoff.                 *)

(* Messages a producer is still responsible for. *)
Offered == {msg[p] : p \in {p \in Producers : pc[p] # "idle"}}

Stage(m) ==
    IF m > started THEN "new"
    ELSE IF m = sending THEN "sending"
    ELSE IF m \in ToSet(line) THEN "waiting"
    ELSE IF m \in Offered THEN "offered" ELSE "done"

Handoff == INSTANCE WsHandoff WITH
    Capacity <- SlotCount, open <- live, st <- [m \in Msgs |-> Stage(m)]

LEMMA OneTurn ==
    ASSUME NEW k \in Msgs, NEW from, NEW to, Stage(k) = from, Stage(k)' = to,
           \A m \in Msgs \ {k} : Stage(m)' = Stage(m)
    PROVE  Handoff!Turn(k, from, to)
BY DEF Handoff!Turn

(* Producers that move on without a new message keep theirs. *)
LEMMA OfferedKept ==
    ASSUME UNCHANGED msg, \A p \in Producers : pc'[p] = "idle" <=> pc[p] = "idle"
    PROVE  Offered' = Offered
BY DEF Offered

(* A producer that returns is not responsible any more, and nobody else is. *)
LEMMA OfferedReturns ==
    ASSUME TypeOK, Custody, NEW p \in Producers, pc[p] # "idle",
           pc' = [pc EXCEPT ![p] = "idle"], msg' = [msg EXCEPT ![p] = 0]
    PROVE  Offered' = Offered \ {msg[p]} /\ msg[p] \in Offered
<1>1. \A q \in Producers \ {p} : pc'[q] = pc[q] /\ msg'[q] = msg[q]
  BY DEF TypeOK
<1>2. pc'[p] = "idle"
  BY DEF TypeOK
<1>3. \A q \in Producers \ {p} : pc[q] # "idle" => msg[q] # msg[p]
  BY DEF Custody
<1> QED
  BY <1>1, <1>2, <1>3 DEF Offered

LEMMA HandoffInit == Init => Handoff!Init
<1> SUFFICES ASSUME Init PROVE Handoff!Init
  OBVIOUS
<1>1. \A m \in Msgs : Stage(m) = "new"
  BY DEF Init, Stage, Msgs
<1> QED
  BY <1>1 DEF Init, Start, Handoff!Init

(* The message of a producer that returns is handed on, or refused.         *)
LEMMA Responsible ==
    ASSUME TypeOK, Custody, NEW p \in Producers, pc[p] # "idle"
    PROVE  msg[p] \in Msgs /\ Stage(msg[p]) = "offered"
<1>1. msg[p] \in Msgs /\ msg[p] <= started /\ msg[p] # sending /\ msg[p] \notin ToSet(line)
  BY InHand DEF Custody, TypeOK
<1>2. msg[p] \in Offered /\ started \in Nat /\ msg[p] \in Nat
  BY <1>1 DEF Offered, TypeOK, Msgs
<1> QED
  BY <1>1, <1>2 DEF Stage

LEMMA HandoffRefuse ==
    ASSUME TypeOK, Custody, NEW p \in Producers, pc[p] # "idle",
           pc' = [pc EXCEPT ![p] = "idle"], msg' = [msg EXCEPT ![p] = 0],
           UNCHANGED <<line, sending, live, started>>
    PROVE  Handoff!Next
<1>1. PICK k \in Msgs : k = msg[p] /\ Stage(k) = "offered"
  BY Responsible
<1>2. Offered' = Offered \ {k}
  BY <1>1, OfferedReturns
<1>3. \A m \in Msgs \ {k} : Stage(m)' = Stage(m)
  BY <1>2 DEF Stage
<1>4. Stage(k)' = "done"
  BY <1>1, <1>2 DEF Stage
<1>5. Handoff!Refuse(k)
  BY <1>1, <1>3, <1>4, OneTurn DEF Handoff!Refuse
<1> QED
  BY <1>5 DEF Handoff!Next

(* A queue that is gone was drained before it went, and stays so.           *)
Empty == ~live => Drained

LEMMA EmptyStep == IInv /\ Empty /\ [Next]_vars => Empty'
<1> SUFFICES ASSUME IInv, Empty, [Next]_vars PROVE Empty'
  OBVIOUS
<1> USE DEF Empty, Drained, queueVars
<1>0. line \in Seq(Msgs)
  BY DEF IInv, TypeOK
<1>1. ASSUME NEW p \in Producers, Broadcast(p) \/ Produce(p) PROVE Empty'
  BY <1>1 DEF Broadcast, Produce, AcquireSlot, AcquireFails, AcquireFaults,
     AcquireBusy, WritePayload, WriterFails, EnqueueAccepted, EnqueueRefused, Release,
     ReleaseBusy, Enabled
<1>2. ASSUME Receive \/ Send PROVE Empty'
  BY <1>2 DEF Receive, Send
<1>3. ASSUME NEW c \in Controllers, CallEnable(c) \/ CallDisable(c) \/ Control(c)
      PROVE  Empty'
  BY <1>3 DEF CallEnable, CallDisable, Control, Enable, EnableDeferred, EnableFails,
     InitDeinit, InitDeinitBusy, InitSize, InitAlloc, InitClear, InitFails, DisableBusy, StopAccepting,
     Disable, DisableFails, DisableDeinit, DisableDeinitBusy
<1>4. ASSUME UNCHANGED vars PROVE Empty'
  BY <1>4 DEF vars
<1> QED
  BY <1>1, <1>2, <1>3, <1>4 DEF Next

LEMMA EmptyHolds == Spec => []Empty
<1>1. Init => Empty
  BY DEF Init, Empty, Drained
<1> QED
  BY <1>1, EmptyStep, Invariance, PTL DEF Spec

LEMMA HandoffStep ==
    ASSUME IInv, Empty, [Next]_vars
    PROVE  [Handoff!Next]_Handoff!handoffVars
<1>0. TypeOK /\ Custody /\ started \in Nat /\ \A m \in Msgs : m \in Nat \ {0}
  <2>1. TypeOK /\ Custody
    BY DEF IInv
  <2>2. started \in Nat
    BY <2>1 DEF TypeOK
  <2> QED
    BY <2>1, <2>2 DEF Msgs
<1>1. ASSUME NEW p \in Producers, Broadcast(p) PROVE Handoff!Next
  <2>1. /\ started + 1 \in Msgs /\ started' = started + 1
        /\ pc[p] = "idle" /\ pc' = [pc EXCEPT ![p] = "acquire"]
        /\ msg' = [msg EXCEPT ![p] = started + 1]
        /\ UNCHANGED <<line, sending, live>>
    BY <1>0, <1>1 DEF Broadcast, Move, Msgs, TypeOK, queueVars
  <2>2. PICK k \in Msgs : k = started + 1
    BY <2>1
  <2>3. Offered' = Offered \cup {k}
    <3>1. \A q \in Producers \ {p} : pc'[q] = pc[q] /\ msg'[q] = msg[q]
      BY <1>0, <2>1 DEF TypeOK
    <3>2. pc'[p] = "acquire" /\ msg'[p] = k
      BY <1>0, <2>1, <2>2 DEF TypeOK
    <3> QED
      BY <2>1, <3>1, <3>2 DEF Offered
  <2>4. k # sending /\ k \notin ToSet(line) /\ k \notin 1 .. started
    BY <1>0, <2>2 DEF Custody
  <2>5. \A m \in Msgs \ {k} : Stage(m)' = Stage(m)
    <3> SUFFICES ASSUME NEW m \in Msgs \ {k} PROVE Stage(m)' = Stage(m)
      OBVIOUS
    <3>1. m > started' <=> m > started
      BY <1>0, <2>1, <2>2
    <3>2. m \in Offered' <=> m \in Offered
      BY <2>3
    <3> QED
      BY <2>1, <3>1, <3>2 DEF Stage
  <2>6. Stage(k) = "new"
    BY <1>0, <2>2 DEF Stage
  <2>7. Stage(k)' = "offered"
    <3>1. ~(k > started') /\ k \in Offered'
      BY <1>0, <2>1, <2>2, <2>3
    <3> QED
      BY <2>1, <2>4, <3>1 DEF Stage
  <2>8. Handoff!Offer(k)
    BY <2>1, <2>5, <2>6, <2>7, OneTurn DEF Handoff!Offer
  <2> QED
    BY <2>8 DEF Handoff!Next
<1>2. ASSUME NEW p \in Producers,
             AcquireFails(p) \/ AcquireBusy(p) \/ Release(p) \/ ReleaseBusy(p)
      PROVE  Handoff!Next
  <2>1. /\ pc[p] # "idle" /\ pc' = [pc EXCEPT ![p] = "idle"]
        /\ msg' = [msg EXCEPT ![p] = 0] /\ UNCHANGED <<line, sending, live, started>>
    BY <1>2 DEF AcquireFails, AcquireBusy, Release, ReleaseBusy, Move, queueVars
  <2> QED
    BY <1>0, <2>1, HandoffRefuse
<1>3. ASSUME NEW p \in Producers, EnqueueAccepted(p) PROVE Handoff!Next
  <2>1. /\ pc[p] # "idle" /\ pc' = [pc EXCEPT ![p] = "idle"]
        /\ msg' = [msg EXCEPT ![p] = 0] /\ UNCHANGED <<sending, live, started>>
        /\ live /\ Len(line) < SlotCount /\ line' = Append(line, msg[p])
    BY <1>3 DEF EnqueueAccepted, Enabled, Move
  <2>2. PICK k \in Msgs : k = msg[p] /\ Stage(k) = "offered"
    BY <1>0, <2>1, Responsible
  <2>3. Offered' = Offered \ {k}
    BY <1>0, <2>1, <2>2, OfferedReturns
  <2>4. ToSet(line') = ToSet(line) \cup {k}
    BY <1>0, <2>1, <2>2, AppendSet DEF TypeOK
  <2>5. \A m \in Msgs \ {k} : Stage(m)' = Stage(m)
    BY <2>1, <2>3, <2>4 DEF Stage
  <2>6. Stage(k)' = "waiting"
    BY <2>1, <2>2, <2>4 DEF Stage
  <2>7. Handoff!Accept(k)
    BY <2>1, <2>2, <2>5, <2>6, OneTurn DEF Handoff!Accept
  <2> QED
    BY <2>7 DEF Handoff!Next
<1>4. ASSUME Receive PROVE Handoff!Next
  <2>1. /\ line \in Seq(Msgs) /\ line # <<>> /\ IsInjective(line)
        /\ sending = 0 /\ sending' = Head(line) /\ line' = Tail(line)
        /\ live /\ UNCHANGED <<live, started, Offered>>
    BY <1>0, <1>4 DEF TypeOK, Custody, Receive, Empty, Drained, prodVars, Offered
  <2>2. Head(line) \in ToSet(line) /\ ToSet(line') = ToSet(line) \ {Head(line)}
    BY <2>1, TailSet
  <2>3. Head(line) \in 1 .. started /\ Head(line) \in Msgs
    BY <1>0, <2>2, InHand DEF Custody
  <2>4. PICK k \in Msgs : k = Head(line)
    BY <2>3
  <2>5. \A m \in Msgs \ {k} : Stage(m)' = Stage(m)
    BY <1>0, <2>1, <2>2, <2>4 DEF Stage
  <2>6. Stage(k) = "waiting" /\ Stage(k)' = "sending"
    BY <1>0, <2>1, <2>2, <2>3, <2>4 DEF Stage
  <2>7. Handoff!Take(k)
    BY <2>1, <2>4, <2>5, <2>6, OneTurn DEF Handoff!Take
  <2> QED
    BY <2>7 DEF Handoff!Next
<1>5. ASSUME Send PROVE Handoff!Next
  <2>1. sending # 0 /\ sending' = 0 /\ UNCHANGED <<line, live, started, Offered>>
    BY <1>5 DEF Send, prodVars, Offered
  <2>2. PICK k \in Msgs : k = sending
    BY <1>0, <2>1, InHand
  <2>3. k \in 1 .. started /\ k \notin ToSet(line) /\ k \notin Offered
    BY <1>0, <2>1, <2>2 DEF Custody, Offered
  <2>4. \A m \in Msgs \ {k} : Stage(m)' = Stage(m)
    BY <1>0, <2>1, <2>2 DEF Stage
  <2>5. Stage(k) = "sending" /\ Stage(k)' = "done"
    BY <1>0, <2>1, <2>2, <2>3 DEF Stage
  <2>6. Handoff!Finish(k)
    BY <2>1, <2>2, <2>4, <2>5, OneTurn DEF Handoff!Finish
  <2> QED
    BY <2>6 DEF Handoff!Next
<1>6. ASSUME UNCHANGED <<line, sending, live, started, Offered>>
      PROVE  UNCHANGED Handoff!handoffVars
  BY <1>6 DEF Handoff!handoffVars, Stage
<1>7. ASSUME NEW p \in Producers,
             AcquireSlot(p) \/ AcquireFaults(p) \/ WritePayload(p) \/ WriterFails(p) \/ EnqueueRefused(p)
      PROVE  UNCHANGED <<line, sending, live, started, Offered>>
  <2>1. UNCHANGED <<line, sending, live, started, msg>>
    BY <1>7 DEF AcquireSlot, AcquireFaults, WritePayload, WriterFails, EnqueueRefused, queueVars
  <2>2. pc[p] # "idle" /\ \E to \in {"write", "dead", "enqueue", "release"} :
            pc' = [pc EXCEPT ![p] = to]
    BY <1>7 DEF AcquireSlot, AcquireFaults, WritePayload, WriterFails, EnqueueRefused, Move
  <2>3. \A q \in Producers : pc'[q] = "idle" <=> pc[q] = "idle"
    BY <1>0, <2>2 DEF TypeOK
  <2> QED
    BY <2>1, <2>3, OfferedKept
<1>8. ASSUME NEW c \in Controllers, CallEnable(c) \/ CallDisable(c) \/ Control(c)
      PROVE  Handoff!Next \/ UNCHANGED Handoff!handoffVars
  <2>1. UNCHANGED <<line, sending, prodVars>>
    BY <1>8 DEF CallEnable, CallDisable, Control, Enable, EnableDeferred, EnableFails,
       InitDeinit, InitDeinitBusy, InitSize, InitAlloc, InitClear, InitFails, DisableBusy, StopAccepting,
       Disable, DisableFails, DisableDeinit, DisableDeinitBusy, queueVars
  <2>2. UNCHANGED [m \in Msgs |-> Stage(m)]
    BY <2>1 DEF prodVars, Offered, Stage
  <2>3. live' = live \/ live' = TRUE \/ (live' = FALSE /\ (live => Drained))
    BY <1>8 DEF CallEnable, CallDisable, Control, Enable, EnableDeferred, EnableFails,
       InitDeinit, InitDeinitBusy, InitSize, InitAlloc, InitClear, InitFails, DisableBusy, StopAccepting,
       Disable, DisableFails, DisableDeinit, DisableDeinitBusy, queueVars
  <2>4. live \in BOOLEAN
    BY <1>0 DEF TypeOK
  <2>5. CASE live' = live
    BY <2>1, <2>2, <2>5 DEF Handoff!handoffVars
  <2>6. CASE ~live /\ live' = TRUE
    BY <2>1, <2>2, <2>6 DEF Handoff!Next, Handoff!Open
  <2>7. CASE live /\ live' = FALSE /\ Drained
    BY <2>1, <2>2, <2>7 DEF Handoff!Next, Handoff!Close, Drained
  <2> QED
    BY <2>3, <2>4, <2>5, <2>6, <2>7
<1>9. ASSUME UNCHANGED vars PROVE UNCHANGED <<line, sending, live, started, Offered>>
  BY <1>9 DEF vars, queueVars, prodVars, Offered
<1> QED
  BY <1>1, <1>2, <1>3, <1>4, <1>5, <1>6, <1>7, <1>8, <1>9 DEF Next, Produce

(* However the pool is enabled, refilled, freed and disabled under them, the *)
(* messages keep the order and the promises of the hand-off: both views of   *)
(* the queue, WsTaskQueue's and this one, implement it (WsTaskQueue::enqueue *)
(* and the broadcaster around it).                                           *)
THEOREM PoolKeepsHandoff == Spec => Handoff!Spec
<1>1. IInv /\ Empty /\ [Next]_vars => [Handoff!Next]_Handoff!handoffVars
  BY HandoffStep
<1> QED
  BY <1>1, HandoffInit, Invariance, EmptyHolds, PTL DEF Spec, Handoff!Spec

=============================================================================
