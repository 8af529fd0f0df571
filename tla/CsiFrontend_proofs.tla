-------------------------- MODULE CsiFrontend_proofs --------------------------
(***************************************************************************)
(* Proofs about CsiFrontend for any set of sockets and any number of       *)
(* connections and faults.                                                 *)
(***************************************************************************)
EXTENDS CsiFrontend, TLAPS

Starting  == {"start", "cancel", "startLock", "ensure"}
Stopping  == {"stop", "schedule", "claim", "create"}
Unlocked  == {"readDue", "readDesired", "grace", "stopLock"}
Waiting   == Unlocked \cup {"check"}
Working   == Waiting \cup {"off", "teardown", "clear", "exit"}

(* What a task may be in, and that a caller in a stop holds the map. *)
Places ==
    /\ \A t \in Tasks : pc[t] \in Starting => t = "httpd"
    /\ pc["worker"] \notin Stopping
    /\ \A t \in Callers : pc[t] \in Stopping \cup Working => clientLock = t

(* The lifecycle mutex is held from its lock to the way out. *)
Excluded ==
    /\ pc["httpd"] = "ensure" => mutex = "httpd"
    /\ \A t \in Tasks : pc[t] \in {"check", "off", "teardown", "clear"} => mutex = t

(* The flag is set exactly while a worker is being created or at work. *)
Flagged ==
    /\ pc["worker"] # "idle" => running
    /\ running => pc["worker"] # "idle" \/ \E t \in Callers : pc[t] = "create"
    /\ \A t \in Callers : pc[t] = "create" => running
    /\ \A t \in Callers : pc[t] \in {"create"} \cup Working => pc["worker"] = "idle"

(* A registered browser is wanted, or the start it causes is to come. *)
Wanted ==
    /\ \A t \in Callers : pc[t] \in Stopping \cup Working => ~HasClients
    /\ HasClients => desired \/ pc["httpd"] = "start"

(* Once the start of a registered browser is through, it has what it needs. *)
Served ==
    HasClients /\ pc["httpd"] \notin Starting /\ ~failed =>
        consumer /\ queue = "on" /\ \A t \in Tasks : pc[t] \notin {"off", "teardown"}

Off == ~consumer /\ queue = "off"

(* What a stop under way has switched off; without faults no caller has to *)
(* do the worker's part.                                                  *)
Stopped ==
    /\ \A t \in Tasks : pc[t] = "teardown" => ~consumer
    /\ faults = 0 => \A t \in Tasks : pc[t] = "clear" => Off
    /\ faults = 0 => \A t \in Callers : pc[t] \notin Working

(* Something is still on its way that switches CSI off, or on again. *)
Underway ==
    \/ pc["httpd"] = "start"
    \/ \E t \in Callers : pc[t] = "schedule"
    \/ due /\ \E t \in Callers : pc[t] \in {"claim", "create"}
    \/ due /\ pc["worker"] \in Waiting
    \/ pc["worker"] \in {"off", "teardown"}

(* A wanted stop is done or under way. *)
Remembered ==
    ~desired /\ ~overtook /\ faults = 0 =>
        /\ pc["httpd"] \notin {"cancel", "startLock", "ensure"}
        /\ Off \/ Underway

IInv ==
    /\ TypeOK /\ OneWorker /\ PendingMeansEmpty
    /\ Places /\ Excluded /\ Flagged /\ Wanted /\ Served /\ Stopped /\ Remembered

USE DEF None, Callers, Senders, Tasks, Stages

(* The two counters keep their type. *)
LEMMA CounterTypes ==
    /\ faults \in 0 .. MaxFaults /\ (Fault \/ NoFault) => faults' \in 0 .. MaxFaults
    /\ opens \in 0 .. MaxOpens /\ opens < MaxOpens => opens + 1 \in 0 .. MaxOpens
    /\ faults \in 0 .. MaxFaults /\ Fault => faults' # 0
  BY CsiFrontendAssumption DEF Fault, NoFault

(* What a removal leaves behind has its type. *)
LEMMA RemoveTypes ==
    ASSUME TypeOK, NEW f \in Sockets, NEW t \in Callers, Remove(t, f) \/ RemoveUnreported(f)
    PROVE  /\ clients' \subseteq Sockets /\ pending' \in BOOLEAN
           /\ clientLock' \in Callers \cup {None} /\ pc' \in [Tasks -> Stages]
<1>2. clients' \subseteq Sockets
  BY DEF Remove, RemoveUnreported, TypeOK
<1>3. pending \in BOOLEAN /\ clientLock \in Callers \cup {None} /\ pc \in [Tasks -> Stages]
  BY DEF TypeOK
<1>4. pending' \in BOOLEAN
  BY <1>3 DEF Remove, RemoveUnreported
<1>5. clientLock' \in Callers \cup {None} /\ pc' \in [Tasks -> Stages]
  BY <1>3 DEF Remove, RemoveUnreported
<1> QED
  BY <1>2, <1>4, <1>5

LEMMA TypeStep == TypeOK /\ [Next]_vars => TypeOK'
<1> SUFFICES ASSUME TypeOK, [Next]_vars PROVE TypeOK'
  OBVIOUS
<1> USE CounterTypes DEF TypeOK, Goto, Return
<1>1. ASSUME NEW f \in Sockets, Handshake(f) PROVE TypeOK'
  BY <1>1 DEF Handshake, connVars, csiVars, outVars
<1>2. ASSUME NEW f \in Sockets, HandshakeBusy(f) PROVE TypeOK'
  BY <1>2 DEF HandshakeBusy, connVars, csiVars, outVars
<1>3. ASSUME NEW f \in Sockets, Close(f) PROVE TypeOK'
<2>1. open' \subseteq Sockets /\ closing' \subseteq Sockets
  BY <1>3 DEF Close
<2>2. CASE Remove("httpd", f) /\ NoFault
  BY <1>3, <2>1, <2>2, RemoveTypes DEF Close, csiVars, outVars
<2>3. CASE Fault /\ UNCHANGED <<clients, pending, clientLock, pc>>
  BY <1>3, <2>1, <2>3 DEF Close, csiVars, outVars
<2> QED
  BY <1>3, <2>2, <2>3 DEF Close
<1>4. ASSUME NEW f \in Sockets, StopFrame(f) PROVE TypeOK'
  BY <1>4, RemoveTypes DEF StopFrame, connVars, csiVars, outVars
<1>5. ASSUME NEW s \in Senders, NEW f \in Sockets, SendFails(s, f) PROVE TypeOK'
  BY <1>5 DEF SendFails, connVars, csiVars, outVars
<1>6. ASSUME NEW s \in Senders, NEW f \in Sockets, RemoveVictim(s, f) PROVE TypeOK'
<2>1. victims' \in [Senders -> SUBSET Sockets]
  BY <1>6 DEF RemoveVictim
<2>2. CASE NoFault /\ ~Fault
  BY <1>6, <2>1, <2>2, RemoveTypes DEF RemoveVictim, csiVars, outVars
<2>3. CASE Fault
  BY <1>6, <2>1, <2>3, RemoveTypes DEF RemoveVictim, csiVars, outVars
<2> QED
  BY <1>6, <2>2, <2>3 DEF RemoveVictim
<1>7. ASSUME StartDesired PROVE TypeOK'
  BY <1>7 DEF StartDesired, connVars, csiVars, outVars
<1>8. ASSUME StartCancel PROVE TypeOK'
  BY <1>8 DEF StartCancel, connVars, csiVars, outVars
<1>9. ASSUME StartLock PROVE TypeOK'
  BY <1>9 DEF StartLock, connVars, csiVars, outVars
<1>10. ASSUME StartDeferred PROVE TypeOK'
  BY <1>10 DEF StartDeferred, connVars, csiVars, outVars
<1>11. ASSUME Ensure PROVE TypeOK'
  BY <1>11 DEF Ensure, connVars, csiVars, outVars
<1>12. ASSUME NEW c \in Callers, StopDesired(c) PROVE TypeOK'
  BY <1>12 DEF StopDesired, Committed, connVars, csiVars, outVars
<1>13. ASSUME NEW c \in Callers, Schedule(c) PROVE TypeOK'
  BY <1>13 DEF Schedule, Committed, connVars, csiVars, outVars
<1>14. ASSUME NEW c \in Callers, Claimed(c) PROVE TypeOK'
  BY <1>14 DEF Claimed, Committed, connVars, csiVars, outVars
<1>15. ASSUME NEW c \in Callers, Claim(c) PROVE TypeOK'
  BY <1>15 DEF Claim, connVars, csiVars, outVars
<1>16. ASSUME NEW c \in Callers, CreateWorker(c) PROVE TypeOK'
  BY <1>16 DEF CreateWorker, connVars, csiVars, outVars
<1>17. ASSUME NEW c \in Callers, CreateFails(c) PROVE TypeOK'
  BY <1>17 DEF CreateFails, connVars, csiVars, outVars
<1>18. ASSUME NEW t \in Tasks, ReadDue(t) PROVE TypeOK'
  BY <1>18 DEF ReadDue, connVars, csiVars, outVars
<1>19. ASSUME NEW t \in Tasks, ReadDesired(t) PROVE TypeOK'
  BY <1>19 DEF ReadDesired, connVars, csiVars, outVars
<1>20. ASSUME NEW t \in Tasks, NotDue(t) PROVE TypeOK'
  BY <1>20 DEF NotDue, connVars, csiVars, outVars
<1>21. ASSUME NEW t \in Tasks, GraceOver(t) PROVE TypeOK'
  BY <1>21 DEF GraceOver, connVars, csiVars, outVars
<1>22. ASSUME NEW t \in Tasks, StopLock(t) PROVE TypeOK'
  BY <1>22 DEF StopLock, connVars, csiVars, outVars
<1>23. ASSUME NEW t \in Tasks, StopSkipped(t) PROVE TypeOK'
  BY <1>23 DEF StopSkipped, connVars, csiVars, outVars
<1>24. ASSUME NEW t \in Tasks, Check(t) PROVE TypeOK'
  BY <1>24 DEF Check, connVars, csiVars, outVars
<1>25. ASSUME NEW t \in Tasks, ConsumerOff(t) PROVE TypeOK'
  BY <1>25 DEF ConsumerOff, connVars, csiVars, outVars
<1>26. ASSUME NEW t \in Tasks, Teardown(t) PROVE TypeOK'
  BY <1>26 DEF Teardown, connVars, csiVars, outVars
<1>27. ASSUME NEW t \in Tasks, ClearDue(t) PROVE TypeOK'
  BY <1>27 DEF ClearDue, connVars, csiVars, outVars
<1>28. ASSUME NEW t \in Tasks, Exit(t) PROVE TypeOK'
  BY <1>28 DEF Exit, connVars, csiVars, outVars
<1>29. CASE UNCHANGED vars
  BY <1>29 DEF vars, connVars, csiVars, outVars
<1> QED
  BY <1>1, <1>2, <1>3, <1>4, <1>5, <1>6, <1>7, <1>8, <1>9, <1>10, <1>11, <1>12, <1>13, <1>14, <1>15, <1>16, <1>17, <1>18, <1>19, <1>20, <1>21, <1>22, <1>23, <1>24, <1>25, <1>26, <1>27, <1>28, <1>29 DEF Next, Start, Stop, StopWorker, Connections

(* What a removal does to the map. *)
LEMMA RemoveMap ==
    ASSUME TypeOK, NEW f \in Sockets, clients' = clients \ {f}
    PROVE  /\ HasClients' => HasClients
           /\ WasLast(f) => ~HasClients'
  BY DEF HasClients, WasLast

Rest ==
    /\ OneWorker /\ PendingMeansEmpty
    /\ Places /\ Excluded /\ Flagged /\ Wanted /\ Served /\ Stopped /\ Remembered

(* A removal disturbs nothing, whether it reports or not. *)
Outside == UNCHANGED <<csiVars, outVars, mutex>> /\ (faults' = 0 => faults = 0)

LEMMA RemoveRest ==
    ASSUME IInv, NEW f \in Sockets, Outside,
           \/ RemoveUnreported(f)
           \/ \E t \in Callers : pc[t] = "idle" /\ Remove(t, f)
    PROVE  Rest'
<1> USE DEF IInv, TypeOK, Rest, OneWorker, PendingMeansEmpty, Places, Excluded, Flagged,
        Wanted, Served, Stopped, Remembered, Underway, Off, Starting, Stopping, Unlocked, Waiting, Working
<1>1. /\ HasClients' => HasClients
      /\ WasLast(f) => ~HasClients'
  BY RemoveMap DEF Remove, RemoveUnreported
<1>2. CASE UNCHANGED <<pc, clientLock>> /\ (pending' => pending \/ ~HasClients')
  BY <1>1, <1>2 DEF Outside, csiVars, outVars
<1>3. ASSUME NEW t \in Callers, pc[t] = "idle", clientLock = None,
             pending' = FALSE, clientLock' = t, pc' = [pc EXCEPT ![t] = "stop"], ~HasClients'
      PROVE  Rest'
  BY <1>1, <1>3 DEF Outside, csiVars, outVars
<1>4. CASE RemoveUnreported(f)
  BY <1>1, <1>2, <1>4 DEF RemoveUnreported
<1>5. ASSUME NEW t \in Callers, pc[t] = "idle", Remove(t, f) PROVE Rest'
  <2>1. CASE WasLast(f) \/ (~HasClients /\ pending)
    BY <1>1, <1>3, <1>5, <2>1 DEF Remove
  <2>2. CASE ~(WasLast(f) \/ (~HasClients /\ pending))
    BY <1>1, <1>2, <1>5, <2>2 DEF Remove
  <2> QED
    BY <2>1, <2>2
<1> QED
  BY <1>4, <1>5

(* Nor does one that finds the map locked. *)
LEMMA SkipRest ==
    ASSUME IInv, Outside, UNCHANGED <<clients, pending, clientLock, pc>>
    PROVE  Rest'
  BY DEF Outside, csiVars, outVars, HasClients, IInv, TypeOK, Rest, OneWorker, PendingMeansEmpty, Places, Excluded, Flagged, Wanted, Served, Stopped, Remembered,
         Underway, Off, Starting, Stopping, Unlocked, Waiting, Working

LEMMA RestStep == IInv /\ [Next]_vars => Rest'
<1> SUFFICES ASSUME IInv, [Next]_vars PROVE Rest'
  OBVIOUS
<1> USE CounterTypes DEF IInv, TypeOK, Rest, Goto, Return, OneWorker, PendingMeansEmpty, Places, Excluded,
        Flagged, Wanted, Served, Stopped, Remembered, Underway, Off, Starting, Stopping, Unlocked, Waiting, Working
<1>1. ASSUME NEW f \in Sockets, Handshake(f) PROVE Rest'
  BY <1>1 DEF Handshake, connVars, csiVars, outVars, HasClients
<1>2. ASSUME NEW f \in Sockets, HandshakeBusy(f) PROVE Rest'
  BY <1>2 DEF HandshakeBusy, connVars, csiVars, outVars, HasClients
<1>3. ASSUME NEW f \in Sockets, Close(f) PROVE Rest'
<2>1. Outside /\ pc["httpd"] = "idle"
  BY <1>3 DEF Close, Outside, NoFault
<2>2. CASE Remove("httpd", f)
  BY <2>1, <2>2, RemoveRest
<2>3. CASE UNCHANGED <<clients, pending, clientLock, pc>>
  BY <2>1, <2>3, SkipRest
<2> QED
  BY <1>3, <2>2, <2>3 DEF Close
<1>4. ASSUME NEW f \in Sockets, StopFrame(f) PROVE Rest'
<2>1. Outside /\ pc["httpd"] = "idle"
  BY <1>4 DEF StopFrame, Outside, NoFault
<2>2. CASE Remove("httpd", f)
  BY <2>1, <2>2, RemoveRest
<2>3. CASE UNCHANGED <<clients, pending, clientLock, pc>>
  BY <2>1, <2>3, SkipRest
<2> QED
  BY <1>4, <2>2, <2>3 DEF StopFrame
<1>5. ASSUME NEW s \in Senders, NEW f \in Sockets, SendFails(s, f) PROVE Rest'
  BY <1>5 DEF SendFails, connVars, csiVars, outVars, HasClients
<1>6. ASSUME NEW s \in Senders, NEW f \in Sockets, RemoveVictim(s, f) PROVE Rest'
<2>1. Outside
  BY <1>6 DEF RemoveVictim, Outside, NoFault
<2>2. CASE RemoveUnreported(f) \/ (pc["csi"] = "idle" /\ Remove("csi", f))
  BY <2>1, <2>2, RemoveRest
<2>3. CASE UNCHANGED <<clients, pending, clientLock, pc>>
  BY <2>1, <2>3, SkipRest
<2> QED
  BY <1>6, <2>2, <2>3 DEF RemoveVictim
<1>7. ASSUME StartDesired PROVE Rest'
  BY <1>7 DEF StartDesired, connVars, csiVars, outVars, HasClients
<1>8. ASSUME StartCancel PROVE Rest'
  BY <1>8 DEF StartCancel, connVars, csiVars, outVars, HasClients
<1>9. ASSUME StartLock PROVE Rest'
  BY <1>9 DEF StartLock, connVars, csiVars, outVars, HasClients
<1>10. ASSUME StartDeferred PROVE Rest'
  BY <1>10 DEF StartDeferred, connVars, csiVars, outVars, HasClients
<1>11. ASSUME Ensure PROVE Rest'
<2> USE DEF HasClients, connVars, csiVars, outVars
<2>1. CASE queue' = "on" /\ consumer' = TRUE /\ failed' = FALSE /\ NoFault
  BY <1>11, <2>1 DEF Ensure, NoFault
<2>2. CASE Fault /\ failed' = TRUE /\ UNCHANGED <<queue, consumer>>
  BY <1>11, <2>2 DEF Ensure
<2> QED
  BY <1>11, <2>1, <2>2 DEF Ensure
<1>12. ASSUME NEW c \in Callers, StopDesired(c) PROVE Rest'
  BY <1>12 DEF StopDesired, Committed, connVars, csiVars, outVars, HasClients
<1>13. ASSUME NEW c \in Callers, Schedule(c) PROVE Rest'
  BY <1>13 DEF Schedule, Committed, connVars, csiVars, outVars, HasClients
<1>14. ASSUME NEW c \in Callers, Claimed(c) PROVE Rest'
  BY <1>14 DEF Claimed, Committed, connVars, csiVars, outVars, HasClients
<1>15. ASSUME NEW c \in Callers, Claim(c) PROVE Rest'
  BY <1>15 DEF Claim, connVars, csiVars, outVars, HasClients
<1>16. ASSUME NEW c \in Callers, CreateWorker(c) PROVE Rest'
  BY <1>16 DEF CreateWorker, connVars, csiVars, outVars, HasClients
<1>17. ASSUME NEW c \in Callers, CreateFails(c) PROVE Rest'
  BY <1>17 DEF CreateFails, connVars, csiVars, outVars, HasClients
<1>18. ASSUME NEW t \in Tasks, ReadDue(t) PROVE Rest'
  BY <1>18 DEF ReadDue, connVars, csiVars, outVars, HasClients
<1>19. ASSUME NEW t \in Tasks, ReadDesired(t) PROVE Rest'
  BY <1>19 DEF ReadDesired, connVars, csiVars, outVars, HasClients
<1>20. ASSUME NEW t \in Tasks, NotDue(t) PROVE Rest'
  BY <1>20 DEF NotDue, connVars, csiVars, outVars, HasClients
<1>21. ASSUME NEW t \in Tasks, GraceOver(t) PROVE Rest'
  BY <1>21 DEF GraceOver, connVars, csiVars, outVars, HasClients
<1>22. ASSUME NEW t \in Tasks, StopLock(t) PROVE Rest'
  BY <1>22 DEF StopLock, connVars, csiVars, outVars, HasClients
<1>23. ASSUME NEW t \in Tasks, StopSkipped(t) PROVE Rest'
  BY <1>23 DEF StopSkipped, connVars, csiVars, outVars, HasClients
<1>24. ASSUME NEW t \in Tasks, Check(t) PROVE Rest'
  BY <1>24 DEF Check, connVars, csiVars, outVars, HasClients
<1>25. ASSUME NEW t \in Tasks, ConsumerOff(t) PROVE Rest'
  BY <1>25 DEF ConsumerOff, connVars, csiVars, outVars, HasClients
<1>26. ASSUME NEW t \in Tasks, Teardown(t) PROVE Rest'
<2> USE DEF HasClients, connVars, csiVars, outVars
<2>1. CASE queue' = "off" /\ NoFault
  BY <1>26, <2>1 DEF Teardown, NoFault
<2>2. CASE queue' = "stuck" /\ Fault
  BY <1>26, <2>2 DEF Teardown
<2>3. CASE queue = "closing" /\ queue' = "on" /\ Fault
  BY <1>26, <2>3 DEF Teardown
<2> QED
  BY <1>26, <2>1, <2>2, <2>3 DEF Teardown
<1>27. ASSUME NEW t \in Tasks, ClearDue(t) PROVE Rest'
  BY <1>27 DEF ClearDue, connVars, csiVars, outVars, HasClients
<1>28. ASSUME NEW t \in Tasks, Exit(t) PROVE Rest'
  BY <1>28 DEF Exit, connVars, csiVars, outVars, HasClients
<1>29. CASE UNCHANGED vars
  BY <1>29 DEF vars, connVars, csiVars, outVars, HasClients
<1> QED
  BY <1>1, <1>2, <1>3, <1>4, <1>5, <1>6, <1>7, <1>8, <1>9, <1>10, <1>11, <1>12, <1>13, <1>14, <1>15, <1>16, <1>17, <1>18, <1>19, <1>20, <1>21, <1>22, <1>23, <1>24, <1>25, <1>26, <1>27, <1>28, <1>29 DEF Next, Start, Stop, StopWorker, Connections

-----------------------------------------------------------------------------
(* At first there is no client, no task is busy and CSI is off. *)
LEMMA InitInv == Init => IInv
<1> SUFFICES ASSUME Init PROVE IInv
  OBVIOUS
<1>1. 0 \in 0 .. MaxOpens /\ 0 \in 0 .. MaxFaults
  BY CsiFrontendAssumption
<1>3. TypeOK
  BY <1>1 DEF Init, TypeOK
<1>4. ~HasClients
  BY DEF Init, HasClients
<1> QED
  BY <1>3, <1>4 DEF Init, IInv, OneWorker, PendingMeansEmpty, Places, Excluded, Flagged, Wanted,
              Served, Stopped, Remembered, Off, Starting, Stopping, Unlocked, Waiting, Working

LEMMA Invariance == Spec => []IInv
<1>1. IInv /\ [Next]_vars => IInv'
  BY TypeStep, RestStep DEF IInv, Rest
<1> QED
  BY <1>1, InitInv, PTL DEF Spec

(* Types, for any number of sockets. *)
THEOREM TypeCorrect == Spec => []TypeOK
<1>1. IInv => TypeOK
  BY DEF IInv
<1> QED
  BY <1>1, Invariance, PTL

(* No second stop worker is created while one runs. *)
THEOREM WorkerAlone == Spec => []OneWorker
<1>1. IInv => OneWorker
  BY DEF IInv
<1> QED
  BY <1>1, Invariance, PTL

(* A departure is left pending only while the map is empty. *)
THEOREM PendingEmpty == Spec => []PendingMeansEmpty
<1>1. IInv => PendingMeansEmpty
  BY DEF IInv
<1> QED
  BY <1>1, Invariance, PTL

(* A start that makes the transport ready and a teardown exclude each      *)
(* other: both hold the lifecycle mutex.                                   *)
THEOREM StartAlone == Spec => []StartExcludesTeardown
<1>1. IInv => StartExcludesTeardown
  BY DEF IInv, Excluded, StartExcludesTeardown
<1> QED
  BY <1>1, Invariance, PTL

(* At rest a registered browser has consumer and transport, unless the     *)
(* last start failed, whatever stops were on their way.                    *)
THEOREM QuietServed == Spec => []ServedWhenQuiet
<1>1. IInv => ServedWhenQuiet
  BY DEF IInv, Served, ServedWhenQuiet, Quiet, Starting
<1> QED
  BY <1>1, Invariance, PTL

(* At rest after a stop CSI is off, unless the stop came while another     *)
(* call was past its last check, or a step failed.                         *)
THEOREM QuietStopped == Spec => []StoppedWhenQuiet
<1>1. IInv => StoppedWhenQuiet
  BY DEF IInv, Remembered, Underway, Off, StoppedWhenQuiet, Quiet, Unlocked, Waiting
<1> QED
  BY <1>1, Invariance, PTL

=============================================================================
