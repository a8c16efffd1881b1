--------------------------- MODULE RunServer_proofs ---------------------------
(***************************************************************************)
(* Proofs about RunServer for any set of configurations, stored microvms   *)
(* and client calls and any number of events and errors.                   *)
(***************************************************************************)
EXTENDS RunServer, SequenceTheorems, TLAPS

\* The steps of the servers and of main, of the goroutines of the controllers, and
\* of the relay.
ServerStep ==
  \/ Interrupt \/ ReceiveSignal \/ WaitForAll \/ DebugEndpointFatal
  \/ \E c \in Components : StartFails(c) \/ StartServing(c) \/ StartRefused(c) \/ BeginStop(c)
  \/ ServeReturns \/ GatewayReturns \/ DebugReturns
  \/ \E r \in Requests : HandlerReturns(r) \/ GatewayDisconnects(r) \/ GatewayReplies(r) \/ Call(r)

ControllerStep ==
  \/ StartControllers \/ StartGoroutines \/ QueueShutdown \/ ControllersReturn
  \/ \E id \in Ids : ResyncOne(id)
  \/ WorkerDequeue \/ WorkerReconciled
  \/ ListenerSeesDone \/ ListenerTakesEvent \/ ListenerReadsClosed
  \/ ListenerTick \/ ListenerResynced \/ ListenerTakesError

RelayStep == RelaySeesDone \/ RelayTakesEvent \/ RelayTakesError \/ RelaySendsError

LEMMA StepCases == [Next]_vars => ServerStep \/ ControllerStep \/ RelayStep \/ UNCHANGED vars
BY DEF Next, Step, Gone, ServerStep, ControllerStep, RelayStep

\* Enqueue leaves a queue of ids.
LEMMA EnqueueType ==
  ASSUME queue \in [items : Seq(Ids), shuttingDown : BOOLEAN], NEW id \in Ids
  PROVE  /\ Enqueue(id) \in [items : Seq(Ids), shuttingDown : BOOLEAN]
         /\ queue.shuttingDown => Enqueue(id) = queue
         /\ Enqueue(id).shuttingDown = queue.shuttingDown
BY Zenon, AppendProperties DEF Enqueue, Enqueued

\* What the steps of the servers leave alone.
LEMMA ServerFrame == ServerStep => UNCHANGED ctlVars
BY DEF ServerStep, Interrupt, ReceiveSignal, WaitForAll, DebugEndpointFatal, StartFails,
       StartServing, StartRefused, BeginStop, ServeReturns, GatewayReturns, DebugReturns,
       HandlerReturns, GatewayDisconnects, GatewayReplies, Call

-----------------------------------------------------------------------------
\* Every variable keeps its type.
THEOREM TypeCorrect == SafeSpec => []TypeOK
<1>1. Init => TypeOK
  <2> SUFFICES ASSUME Init PROVE TypeOK
    OBVIOUS
  <2>1. queue \in [items : Seq(Ids), shuttingDown : BOOLEAN]
    BY EmptySeq DEF Init
  <2>2. events \in 0 .. MaxEvents /\ errors \in 0 .. MaxErrors
    BY BoundsAssumption DEF Init
  <2>3. comp \in [Components -> {"off", "starting", "serving", "returned"}]
    BY DEF Init
  <2> QED
    BY Zenon, <2>1, <2>2, <2>3 DEF Init, TypeOK, Running, Nil
<1>2. TypeOK /\ [Next]_vars => TypeOK'
  <2> SUFFICES ASSUME TypeOK, [Next]_vars PROVE TypeOK'
    OBVIOUS
  <2> USE DEF TypeOK, procVars, srvVars, ctlVars, listenVars, workVars, relayVars, Components
  <2>1. CASE Interrupt
    BY <2>1 DEF Interrupt
  <2>2. CASE ReceiveSignal
    BY <2>2 DEF ReceiveSignal
  <2>3. CASE WaitForAll
    BY <2>3 DEF WaitForAll
  <2>4. CASE DebugEndpointFatal
    BY <2>4 DEF DebugEndpointFatal
  <2>5. ASSUME NEW c \in Components, StartFails(c) PROVE TypeOK'
    BY <2>5 DEF StartFails, Fail
  <2>6. ASSUME NEW c \in Components, StartServing(c) PROVE TypeOK'
    BY <2>6 DEF StartServing
  <2>7. ASSUME NEW c \in Components, StartRefused(c) PROVE TypeOK'
    BY <2>7 DEF StartRefused, Fail
  <2>8. ASSUME NEW c \in Components, BeginStop(c) PROVE TypeOK'
    BY <2>8 DEF BeginStop
  <2>9. CASE ServeReturns
    BY <2>9 DEF ServeReturns
  <2>10. CASE GatewayReturns
    BY <2>10 DEF GatewayReturns, Fail
  <2>11. CASE DebugReturns
    BY <2>11 DEF DebugReturns
  <2>12. ASSUME NEW r \in Requests, HandlerReturns(r) PROVE TypeOK'
    BY <2>12 DEF HandlerReturns, Running
  <2>13. ASSUME NEW r \in Requests, GatewayDisconnects(r) PROVE TypeOK'
    BY <2>13 DEF GatewayDisconnects, Running
  <2>14. ASSUME NEW r \in Requests, GatewayReplies(r) PROVE TypeOK'
    BY <2>14 DEF GatewayReplies, Running
  <2>15. ASSUME NEW r \in Requests, Call(r) PROVE TypeOK'
    BY <2>15 DEF Call, Running
  <2>16. CASE StartControllers
    BY <2>16 DEF StartControllers
  <2>17. CASE StartGoroutines
    BY <2>17 DEF StartGoroutines
  <2>18. CASE QueueShutdown
    <3>1. queue' \in [items : Seq(Ids), shuttingDown : BOOLEAN]
      BY Zenon, <2>18 DEF QueueShutdown
    <3> QED
      BY <2>18, <3>1 DEF QueueShutdown
  <2>19. CASE ControllersReturn
    BY <2>19 DEF ControllersReturn
  <2>20. ASSUME NEW id \in Ids, ResyncOne(id) PROVE TypeOK'
    BY <2>20, EnqueueType DEF ResyncOne
  <2>21. CASE WorkerDequeue
    <3>1. CASE queue.items # <<>> /\ worker' = Head(queue.items)
               /\ queue' = [queue EXCEPT !.items = Tail(@)]
      <4>1. Head(queue.items) \in Ids /\ Tail(queue.items) \in Seq(Ids)
        BY <3>1, HeadTailProperties
      <4>2. queue' \in [items : Seq(Ids), shuttingDown : BOOLEAN]
        BY Zenon, <3>1, <4>1
      <4> QED
        BY <2>21, <3>1, <4>1, <4>2 DEF WorkerDequeue
    <3>2. CASE worker' = "returned" /\ UNCHANGED queue
      BY <2>21, <3>2 DEF WorkerDequeue
    <3> QED
      BY <2>21, <3>1, <3>2 DEF WorkerDequeue
  <2>22. CASE WorkerReconciled
    BY <2>22, EnqueueType DEF WorkerReconciled
  <2>23. CASE ListenerSeesDone
    BY <2>23 DEF ListenerSeesDone
  <2>24. CASE ListenerTakesEvent
    BY <2>24, EnqueueType DEF ListenerTakesEvent, Nil, Ignored
  <2>25. CASE ListenerReadsClosed
    BY <2>25 DEF ListenerReadsClosed
  <2>26. CASE ListenerTick
    BY <2>26 DEF ListenerTick
  <2>27. CASE ListenerResynced
    BY <2>27 DEF ListenerResynced
  <2>28. CASE ListenerTakesError
    <3>1. errBuf' \in BOOLEAN
      BY Zenon, <2>28 DEF ListenerTakesError
    <3> QED
      BY <2>28, <3>1 DEF ListenerTakesError
  <2>29. CASE RelaySeesDone
    BY <2>29 DEF RelaySeesDone
  <2>30. CASE RelayTakesEvent
    <3>1. events' \in 0 .. MaxEvents
      BY <2>30, BoundsAssumption DEF RelayTakesEvent
    <3>2. badEvent' \in BOOLEAN
      BY <2>30 DEF RelayTakesEvent
    <3> QED
      BY <2>30, <3>1, <3>2 DEF RelayTakesEvent, Nil, Ignored, Bad
  <2>31. CASE RelayTakesError
    <3>1. errors' \in 0 .. MaxErrors
      BY <2>31, BoundsAssumption DEF RelayTakesError
    <3> QED
      BY <2>31, <3>1 DEF RelayTakesError
  <2>32. CASE RelaySendsError
    BY <2>32 DEF RelaySendsError
  <2>33. CASE UNCHANGED vars
    BY <2>33 DEF vars
  <2> QED
    BY ZenonT(30), <2>1, <2>2, <2>3, <2>4, <2>5, <2>6, <2>7, <2>8, <2>9, <2>10, <2>11, <2>12,
       <2>13, <2>14, <2>15, <2>16, <2>17, <2>18, <2>19, <2>20, <2>21, <2>22, <2>23, <2>24, <2>25,
       <2>26, <2>27, <2>28, <2>29, <2>30, <2>31, <2>32, <2>33, StepCases
       DEF ServerStep, ControllerStep, RelayStep
<1> QED
  BY <1>1, <1>2, PTL DEF SafeSpec

-----------------------------------------------------------------------------
\* The process comes down in order: handlers, controllers, worker and queue end
\* before the components that hold them do, and those before the process.
THEOREM ComesDownInOrder == SafeSpec => []ComingDown
<1>1. Init => ComingDown
  BY DEF Init, ComingDown, Components, Running
<1>2. TypeOK /\ ComingDown /\ [Next]_vars => ComingDown'
  <2> SUFFICES ASSUME TypeOK, ComingDown, [Next]_vars PROVE ComingDown'
    OBVIOUS
  <2> USE DEF ComingDown, TypeOK, Alive, Components, procVars, srvVars, ctlVars, listenVars,
  workVars, relayVars
  <2>1. CASE Interrupt
    BY <2>1 DEF Interrupt
  <2>2. CASE ReceiveSignal
    BY <2>2 DEF ReceiveSignal
  <2>3. CASE WaitForAll
    BY <2>3 DEF WaitForAll
  <2>4. CASE DebugEndpointFatal
    BY <2>4 DEF DebugEndpointFatal
  <2>5. ASSUME NEW c \in Components, StartFails(c) PROVE ComingDown'
    BY <2>5 DEF StartFails, Fail
  <2>6. ASSUME NEW c \in Components, StartServing(c) PROVE ComingDown'
    BY <2>6 DEF StartServing
  <2>7. ASSUME NEW c \in Components, StartRefused(c) PROVE ComingDown'
    BY <2>7 DEF StartRefused, Fail
  <2>8. ASSUME NEW c \in Components, BeginStop(c) PROVE ComingDown'
    BY <2>8 DEF BeginStop
  <2>9. CASE ServeReturns
    BY <2>9 DEF ServeReturns
  <2>10. CASE GatewayReturns
    BY <2>10 DEF GatewayReturns, Fail
  <2>11. CASE DebugReturns
    BY <2>11 DEF DebugReturns
  <2>12. ASSUME NEW r \in Requests, HandlerReturns(r) PROVE ComingDown'
    BY <2>12 DEF HandlerReturns, Running
  <2>13. ASSUME NEW r \in Requests, GatewayDisconnects(r) PROVE ComingDown'
    BY <2>13 DEF GatewayDisconnects, Running
  <2>14. ASSUME NEW r \in Requests, GatewayReplies(r) PROVE ComingDown'
    BY <2>14 DEF GatewayReplies, Running
  <2>15. ASSUME NEW r \in Requests, Call(r) PROVE ComingDown'
    BY <2>15 DEF Call, Running, Serving
  <2>16. CASE StartControllers
    BY <2>16 DEF StartControllers
  <2>17. CASE StartGoroutines
    BY <2>17 DEF StartGoroutines
  <2>18. CASE QueueShutdown
    BY <2>18 DEF QueueShutdown
  <2>19. CASE ControllersReturn
    BY <2>19 DEF ControllersReturn
  <2>20. ASSUME NEW id \in Ids, ResyncOne(id) PROVE ComingDown'
    BY <2>20, EnqueueType DEF ResyncOne
  <2>21. CASE WorkerDequeue
    BY <2>21, IdsAssumption, HeadTailProperties DEF WorkerDequeue
  <2>22. CASE WorkerReconciled
    BY <2>22, EnqueueType, IdsAssumption DEF WorkerReconciled
  <2>23. CASE ListenerSeesDone
    BY <2>23 DEF ListenerSeesDone
  <2>24. CASE ListenerTakesEvent
    BY <2>24, EnqueueType DEF ListenerTakesEvent, Nil, Ignored
  <2>25. CASE ListenerReadsClosed
    BY <2>25 DEF ListenerReadsClosed
  <2>26. CASE ListenerTick
    BY <2>26 DEF ListenerTick
  <2>27. CASE ListenerResynced
    BY <2>27 DEF ListenerResynced
  <2>28. CASE ListenerTakesError
    BY <2>28 DEF ListenerTakesError
  <2>29. CASE RelayStep
    BY <2>29 DEF RelayStep, RelaySeesDone, RelayTakesEvent, RelayTakesError, RelaySendsError
  <2>30. CASE UNCHANGED vars
    BY <2>30 DEF vars
  <2> QED
    BY ZenonT(30), <2>1, <2>2, <2>3, <2>4, <2>5, <2>6, <2>7, <2>8, <2>9, <2>10, <2>11, <2>12,
       <2>13, <2>14, <2>15, <2>16, <2>17, <2>18, <2>19, <2>20, <2>21, <2>22, <2>23, <2>24, <2>25,
       <2>26, <2>27, <2>28, <2>29, <2>30, StepCases
       DEF ServerStep, ControllerStep, RelayStep
<1> QED
  BY <1>1, <1>2, TypeCorrect, PTL DEF SafeSpec

\* For any configuration, any number of calls, events and queued microvms: when
\* runServer returns, no handler and no reconcile is cut short and nothing is left
\* in the queue.
THEOREM CleanExitIsClean == SafeSpec => []CleanExitFinishesWork
<1>1. TypeOK /\ ComingDown => CleanExitFinishesWork
  <2> SUFFICES ASSUME TypeOK, ComingDown, exit = "clean"
               PROVE  ~Working /\ queue.items = <<>>
    BY DEF CleanExitFinishesWork
  <2>1. comp["api"] # "serving" /\ comp["controllers"] # "serving"
    BY DEF ComingDown, Components
  <2>2. worker \notin Ids /\ queue.items = <<>>
    BY <2>1, IdsAssumption DEF ComingDown
  <2> QED
    BY <2>1, <2>2 DEF ComingDown, Working
<1> QED
  BY <1>1, TypeCorrect, ComesDownInOrder, PTL

-----------------------------------------------------------------------------
\* However many events and errors containerd delivers and whenever the context is
\* cancelled, a nil envelope reaches handleEvent only for an event that could not
\* be converted or at shutdown.
THEOREM NilEventExplained == SafeSpec => []NilEventOnlyAtShutdown
<1>1. Init => NilComesFromBadEvent
  BY DEF Init, NilComesFromBadEvent, NilEventOnlyAtShutdown
<1>2. TypeOK /\ NilComesFromBadEvent /\ [Next]_vars => NilComesFromBadEvent'
  <2> SUFFICES ASSUME TypeOK, NilComesFromBadEvent, [Next]_vars PROVE NilComesFromBadEvent'
    OBVIOUS
  <2> USE DEF NilComesFromBadEvent, NilEventOnlyAtShutdown, Alive, procVars, srvVars, ctlVars,
              listenVars, workVars, relayVars
  <2>1. CASE ServerStep
    <3>1. UNCHANGED relayVars
      BY <2>1, ServerFrame
    <3>2. ctxDone => ctxDone'
      BY Zenon, <2>1 DEF ServerStep, Interrupt, ReceiveSignal, WaitForAll, DebugEndpointFatal,
         StartFails,
           StartServing, StartRefused, Fail, BeginStop, ServeReturns, GatewayReturns, DebugReturns,
           HandlerReturns, GatewayDisconnects, GatewayReplies, Call
    <3>3. exit' = "panic" => exit = "panic"
      BY <2>1 DEF ServerStep, Interrupt, ReceiveSignal, WaitForAll, DebugEndpointFatal, StartFails,
           StartServing, StartRefused, Fail, BeginStop, ServeReturns, GatewayReturns, DebugReturns,
           HandlerReturns, GatewayDisconnects, GatewayReplies, Call
    <3> QED
      BY <3>1, <3>2, <3>3
  <2>2. CASE ListenerTakesEvent
    BY <2>2 DEF ListenerTakesEvent
  <2>3. CASE ListenerReadsClosed
    BY <2>3 DEF ListenerReadsClosed
  <2>4. CASE ControllerStep /\ UNCHANGED <<exit, ctxDone, relay, holds, badEvent>>
    BY <2>4
  <2>5. CASE StartGoroutines
    BY <2>5 DEF StartGoroutines
  <2>6. CASE RelaySeesDone
    BY <2>6 DEF RelaySeesDone
  <2>7. CASE RelayTakesEvent
    <3>1. PICK e \in Ids \cup {Ignored, Bad} :
            /\ relay' = IF e = Bad THEN "sendErrEvt" ELSE "sendEvt"
            /\ holds' = IF e = Bad THEN Nil ELSE e
            /\ badEvent' = (badEvent \/ e = Bad)
      BY <2>7 DEF RelayTakesEvent
    <3>2. e # Nil
      BY IdsAssumption DEF Nil, Ignored, Bad
    <3> QED
      BY Zenon, <2>7, <3>1, <3>2 DEF RelayTakesEvent
  <2>8. CASE RelayTakesError
    BY <2>8 DEF RelayTakesError
  <2>9. CASE RelaySendsError
    BY <2>9 DEF RelaySendsError
  <2>10. CASE UNCHANGED vars
    BY <2>10 DEF vars
  <2> QED
    BY ZenonT(30), <2>1, <2>2, <2>3, <2>4, <2>5, <2>6, <2>7, <2>8, <2>9, <2>10, StepCases
       DEF ControllerStep, RelayStep, StartControllers, QueueShutdown, ControllersReturn, ResyncOne,
           WorkerDequeue, WorkerReconciled, ListenerSeesDone, ListenerTick, ListenerResynced,
           ListenerTakesError
<1> QED
  BY <1>1, <1>2, TypeCorrect, PTL DEF SafeSpec, NilComesFromBadEvent

=============================================================================
