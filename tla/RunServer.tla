----------------------------- MODULE RunServer -----------------------------
(***************************************************************************)
(* One life of the flintlockd process: internal/command/run/run.go starts  *)
(* up to four components as goroutines under one context and one           *)
(* WaitGroup, waits for a signal, cancels the context and waits for all of *)
(* them.  Inside the controllers component run the goroutines of           *)
(* infrastructure/controllers/microvm_controller.go (queue closer, event   *)
(* listener, one worker), and behind the listener the relay goroutine of   *)
(* infrastructure/containerd/event_service.go.                             *)
(*                                                                         *)
(* What is watched here is how the goroutines come down together: what the *)
(* reconciler does with a microvm is in Reconciler, and is one step of the *)
(* worker here.  Every blocking channel operation, every select and every  *)
(* wait is a step of its own.  A select with several ready cases takes any *)
(* of them, as Go's does.                                                  *)
(***************************************************************************)
EXTENDS QueueOps, FiniteSets

CONSTANTS Ids,          \* microvms that are stored, hence resynced, and announced
          Requests,     \* calls that clients make
          Configs,      \* the sets of components flintlockd may be told to run
          MaxEvents,    \* events containerd delivers to the subscription
          MaxErrors     \* errors the subscription reports

Components == {"pprof", "api", "gateway", "controllers"}

ASSUME ConfigsAssumption == Configs \subseteq SUBSET Components
ASSUME BoundsAssumption == MaxEvents \in Nat /\ MaxErrors \in Nat
ASSUME IdsAssumption ==
  Ids \cap {"off", "calling", "returned", "nil", "ignored", "bad"} = {}

VARIABLES
  main,      \* runServer: at <-sigChan, in wg.Wait, or gone
  exit,      \* how the process ended: "no", "clean", "fatal" (logger.Fatalf), "panic"
  signal,    \* the one-place sigChan: "none", "pending", "taken"
  ctxDone,   \* the context is cancelled
  comp,      \* where each component's goroutine is
  stopping,  \* components whose shutdown goroutine has run on ctx.Done
  request,   \* where each client call is
  listener,  \* runEventListener
  todo,      \* what the resync under way has still to queue
  worker,    \* the processQueueItem loop
  queue,     \* r.queue: [items, shuttingDown]
  relay,     \* the goroutine of subscribe
  holds,     \* the event the relay converted and must hand on
  errBuf,    \* evtErrCh, of capacity one, is full
  events,    \* events still to come from containerd
  errors,    \* errors still to come from containerd
  badEvent   \* history: an event that could not be converted has come

procVars == <<main, exit, signal, ctxDone>>
srvVars == <<comp, stopping, request>>
listenVars == <<listener, todo>>
workVars == <<worker, queue>>
relayVars == <<relay, holds, errBuf, events, errors, badEvent>>
ctlVars == <<listenVars, workVars, relayVars>>
vars == <<procVars, srvVars, ctlVars>>

Nil == "nil"            \* a nil *ports.EventEnvelope
Ignored == "ignored"    \* an event handleEvent does nothing with (deleted, unknown type)
Bad == "bad"            \* an event typeurl.UnmarshalAny does not know

\* A client call: its handler runs (called directly or through the gateway),
\* or runs although the gateway has dropped its side of the call, or is over
\* while the gateway has still to write the answer.
Running == {"direct", "proxied", "orphan"}

TypeOK ==
  /\ main \in {"serving", "waiting", "gone"}
  /\ exit \in {"no", "clean", "fatal", "panic"}
  /\ signal \in {"none", "pending", "taken"}
  /\ ctxDone \in BOOLEAN
  /\ comp \in [Components -> {"off", "starting", "serving", "returned"}]
  /\ stopping \subseteq {"api", "gateway", "pprof"}
  /\ request \in [Requests -> {"none", "replying", "answered", "cut"} \cup Running]
  /\ listener \in {"off", "startup", "select", "resync", "returned"}
  /\ todo \subseteq Ids
  /\ worker \in {"off", "calling", "returned"} \cup Ids
  /\ queue \in [items : Seq(Ids), shuttingDown : BOOLEAN]
  /\ relay \in {"off", "select", "sendErr", "sendErrEvt", "sendEvt", "closed"}
  /\ holds \in Ids \cup {Ignored, Nil}
  /\ errBuf \in BOOLEAN
  /\ events \in 0 .. MaxEvents /\ errors \in 0 .. MaxErrors
  /\ badEvent \in BOOLEAN

\* runServer up to <-sigChan: the configured components are started.
Init ==
  /\ main = "serving" /\ exit = "no" /\ signal = "none" /\ ctxDone = FALSE
  /\ \E cfg \in Configs :
       comp = [c \in Components |-> IF c \in cfg THEN "starting" ELSE "off"]
  /\ stopping = {}
  /\ request = [r \in Requests |-> "none"]
  /\ listener = "off" /\ todo = {} /\ worker = "off"
  /\ queue = [items |-> <<>>, shuttingDown |-> FALSE]
  /\ relay = "off" /\ holds = Nil /\ errBuf = FALSE
  /\ events = MaxEvents /\ errors = MaxErrors /\ badEvent = FALSE

-----------------------------------------------------------------------------
Alive == exit = "no"

\* The signal and runServer

\* The operator's interrupt; sigChan keeps the first one.
Interrupt ==
  /\ Alive /\ signal = "none" /\ signal' = "pending"
  /\ UNCHANGED <<main, exit, ctxDone, srvVars, ctlVars>>

\* <-sigChan, cancel().
ReceiveSignal ==
  /\ Alive /\ main = "serving" /\ signal = "pending"
  /\ main' = "waiting" /\ signal' = "taken" /\ ctxDone' = TRUE
  /\ UNCHANGED <<exit, srvVars, ctlVars>>

\* wg.Wait() returns when every started component has, and the process ends.
WaitForAll ==
  /\ Alive /\ main = "waiting"
  /\ \A c \in Components : comp[c] \in {"off", "returned"}
  /\ main' = "gone" /\ exit' = "clean"
  /\ UNCHANGED <<signal, ctxDone, srvVars, ctlVars>>

\* A component's goroutine ends with an error: it cancels the context for all
\* of them, and main stays at <-sigChan.
Fail(c) ==
  /\ comp' = [comp EXCEPT ![c] = "returned"]
  /\ ctxDone' = TRUE

\* Mutant: the failure is logged and the others keep running.
StartFailsAlone(c) ==
  /\ Alive /\ c \in {"api", "gateway", "controllers"}
  /\ comp[c] = "starting"
  /\ comp' = [comp EXCEPT ![c] = "returned"]
  /\ UNCHANGED <<procVars, stopping, request, ctlVars>>

\* serveAPI before Serve (TLS configuration, ports, options, listener),
\* serveHTTP before ListenAndServe and its listener, runControllers before
\* Run: any of their error returns.
StartFails(c) ==
  /\ Alive /\ c \in {"api", "gateway", "controllers"}
  /\ comp[c] = "starting"
  /\ Fail(c)
  /\ UNCHANGED <<main, exit, signal, stopping, request, ctlVars>>

\* runPProf serves in a goroutine of its own that ends the whole process when
\* it cannot listen.
DebugEndpointFatal ==
  /\ Alive /\ comp["pprof"] = "starting" /\ "pprof" \notin stopping
  /\ exit' = "fatal" /\ main' = "gone"
  /\ UNCHANGED <<signal, ctxDone, srvVars, ctlVars>>

\* The server goroutine listens.
StartServing(c) ==
  /\ Alive /\ c \in {"api", "gateway", "pprof"} \ stopping
  /\ comp[c] = "starting"
  /\ comp' = [comp EXCEPT ![c] = "serving"]
  /\ UNCHANGED <<procVars, stopping, request, ctlVars>>

\* A server that was told to stop before it listens returns an error at once
\* (ErrServerStopped, ErrServerClosed).
StartRefused(c) ==
  /\ Alive /\ c \in {"api", "gateway"} \cap stopping
  /\ comp[c] = "starting"
  /\ Fail(c)
  /\ UNCHANGED <<main, exit, signal, stopping, request, ctlVars>>

\* The goroutine that waits for ctx.Done calls GracefulStop or Shutdown: from
\* here on no new call is accepted.
BeginStop(c) ==
  /\ Alive /\ c \in {"api", "gateway", "pprof"} \ stopping
  /\ ctxDone /\ comp[c] \in {"starting", "serving"}
  /\ stopping' = stopping \cup {c}
  /\ UNCHANGED <<procVars, comp, request, ctlVars>>

\* Mutant: Stop instead of GracefulStop, which does not wait for handlers.
StopReturnsAtOnce ==
  /\ Alive /\ comp["api"] = "serving" /\ "api" \in stopping
  /\ comp' = [comp EXCEPT !["api"] = "returned"]
  /\ UNCHANGED <<procVars, stopping, request, ctlVars>>

\* grpcServer.Serve returns nil once GracefulStop has seen every handler end.
ServeReturns ==
  /\ Alive /\ comp["api"] = "serving" /\ "api" \in stopping
  /\ \A r \in Requests : request[r] \notin Running
  /\ comp' = [comp EXCEPT !["api"] = "returned"]
  /\ UNCHANGED <<procVars, stopping, request, ctlVars>>

\* The gateway's ListenAndServe returns ErrServerClosed as soon as Shutdown is
\* called, while Shutdown itself goes on waiting in a goroutine nobody waits
\* for; serveHTTP hands the error on and the context is cancelled (again).
GatewayReturns ==
  /\ Alive /\ comp["gateway"] = "serving" /\ "gateway" \in stopping
  /\ Fail("gateway")
  /\ UNCHANGED <<main, exit, signal, stopping, request, ctlVars>>

\* runPProf calls Shutdown itself, gives it a second, and returns nil.
DebugReturns ==
  /\ Alive /\ comp["pprof"] \in {"starting", "serving"} /\ "pprof" \in stopping
  /\ comp' = [comp EXCEPT !["pprof"] = "returned"]
  /\ UNCHANGED <<procVars, stopping, request, ctlVars>>

-----------------------------------------------------------------------------
\* Client calls

Serving(c) == comp[c] = "serving" /\ c \notin stopping

\* A client calls the API, or calls the gateway, which calls the API.
Call(r) ==
  /\ Alive /\ request[r] = "none" /\ Serving("api")
  /\ \/ request' = [request EXCEPT ![r] = "direct"]
     \/ Serving("gateway") /\ request' = [request EXCEPT ![r] = "proxied"]
  /\ UNCHANGED <<procVars, comp, stopping, ctlVars>>

\* The handler returns to its caller.
HandlerReturns(r) ==
  /\ Alive /\ request[r] \in Running
  /\ request' = [request EXCEPT ![r] =
       CASE @ = "direct" -> "answered" [] @ = "proxied" -> "replying" [] OTHER -> "cut"]
  /\ UNCHANGED <<procVars, comp, stopping, ctlVars>>

\* The generated gateway code closes its connection on ctx.Done: a call in
\* flight fails for the HTTP client while its handler runs on.
GatewayDisconnects(r) ==
  /\ Alive /\ request[r] = "proxied" /\ ctxDone
  /\ request' = [request EXCEPT ![r] = "orphan"]
  /\ UNCHANGED <<procVars, comp, stopping, ctlVars>>

GatewayReplies(r) ==
  /\ Alive /\ request[r] = "replying"
  /\ request' = [request EXCEPT ![r] = "answered"]
  /\ UNCHANGED <<procVars, comp, stopping, ctlVars>>

-----------------------------------------------------------------------------
\* MicroVMController.Run and its goroutines

Enqueue(id) ==
  IF queue.shuttingDown THEN queue ELSE [queue EXCEPT !.items = Enqueued(@, id)]

\* Run starts with a resync, done in Run's own goroutine: GetAllMicroVM lists
\* the stored microvms, or fails, which is only logged.
StartControllers ==
  /\ Alive /\ comp["controllers"] = "starting"
  /\ comp' = [comp EXCEPT !["controllers"] = "serving"]
  /\ listener' = "startup" /\ todo' \in {Ids, {}}
  /\ UNCHANGED <<procVars, stopping, request, workVars, relayVars>>

\* resyncSpecs queues the listed microvms one after the other.
ResyncOne(id) ==
  /\ Alive /\ listener \in {"startup", "resync"} /\ id \in todo
  /\ todo' = todo \ {id}
  /\ queue' = Enqueue(id)
  /\ UNCHANGED <<procVars, srvVars, listener, worker, relayVars>>

\* Once the first resync is over Run starts the listener, which subscribes, and
\* the worker.
StartGoroutines ==
  /\ Alive /\ listener = "startup" /\ todo = {}
  /\ listener' = "select" /\ relay' = "select" /\ worker' = "calling"
  /\ UNCHANGED <<procVars, srvVars, todo, queue, holds, errBuf, events, errors, badEvent>>

\* Mutant: the queue is never told.
QueueStaysOpen ==
  /\ Alive /\ ctxDone /\ comp["controllers"] = "serving" /\ ~queue.shuttingDown
  /\ UNCHANGED vars

\* The goroutine at the top of Run: <-ctx.Done(), r.queue.Shutdown().
QueueShutdown ==
  /\ Alive /\ ctxDone /\ comp["controllers"] = "serving" /\ ~queue.shuttingDown
  /\ queue' = [queue EXCEPT !.shuttingDown = TRUE]
  /\ UNCHANGED <<procVars, srvVars, listenVars, worker, relayVars>>

\* <-ctx.Done(), wg.Wait(), return nil.
ControllersReturn ==
  /\ Alive /\ comp["controllers"] = "serving" /\ ctxDone
  /\ listener = "returned" /\ worker = "returned"
  /\ comp' = [comp EXCEPT !["controllers"] = "returned"]
  /\ UNCHANGED <<procVars, stopping, request, ctlVars>>

\* Dequeue returns an item, or the shutdown of an empty queue.
WorkerDequeue ==
  /\ Alive /\ worker = "calling"
  /\ \/ /\ queue.items # <<>>
        /\ worker' = Head(queue.items)
        /\ queue' = [queue EXCEPT !.items = Tail(@)]
     \/ /\ queue.items = <<>> /\ queue.shuttingDown
        /\ worker' = "returned"
        /\ UNCHANGED queue
  /\ UNCHANGED <<procVars, srvVars, listenVars, relayVars>>

\* ReconcileMicroVM returns; after a failure the item is queued again.
WorkerReconciled ==
  /\ Alive /\ worker \in Ids
  /\ worker' = "calling"
  /\ queue' \in {queue, Enqueue(worker)}
  /\ UNCHANGED <<procVars, srvVars, listenVars, relayVars>>

-----------------------------------------------------------------------------
\* runEventListener: the four cases of its select

ListenerSeesDone ==
  /\ Alive /\ listener = "select" /\ ctxDone
  /\ listener' = "returned"
  /\ UNCHANGED <<procVars, srvVars, todo, workVars, relayVars>>

\* case evt := <-evtCh with the relay at its send: handleEvent dereferences
\* the envelope, and queues the microvm of a created or updated event.
ListenerTakesEvent ==
  /\ Alive /\ listener = "select" /\ relay = "sendEvt"
  /\ relay' = "select" /\ holds' = Nil
  /\ IF holds = Nil
       THEN exit' = "panic" /\ main' = "gone" /\ UNCHANGED queue
       ELSE /\ queue' = IF holds = Ignored THEN queue ELSE Enqueue(holds)
            /\ UNCHANGED <<main, exit>>
  /\ UNCHANGED <<signal, ctxDone, srvVars, listenVars, worker, errBuf, events, errors, badEvent>>

\* case evt := <-evtCh once the relay has closed the channel: evt is nil.
ListenerReadsClosed ==
  /\ Alive /\ listener = "select" /\ relay = "closed"
  /\ exit' = "panic" /\ main' = "gone"
  /\ UNCHANGED <<signal, ctxDone, srvVars, ctlVars>>

\* case <-ticker.C: resyncSpecs asks the repository, queues what it got
\* (ResyncOne) and the loop goes back to its select.
ListenerTick ==
  /\ Alive /\ listener = "select"
  /\ listener' = "resync" /\ todo' \in {Ids, {}}
  /\ UNCHANGED <<procVars, srvVars, workVars, relayVars>>

ListenerResynced ==
  /\ Alive /\ listener = "resync" /\ todo = {}
  /\ listener' = "select"
  /\ UNCHANGED <<procVars, srvVars, todo, workVars, relayVars>>

\* Mutant: the errors are left in their channel.
ListenerLeavesErrors ==
  /\ Alive /\ listener = "select" /\ errBuf
  /\ UNCHANGED vars

\* case evtErr := <-errCh: logged.
ListenerTakesError ==
  /\ Alive /\ listener = "select" /\ errBuf
  /\ errBuf' = FALSE
  /\ UNCHANGED <<procVars, srvVars, listenVars, workVars, relay, holds, events, errors, badEvent>>

-----------------------------------------------------------------------------
\* The relay of subscribe: the three cases of its select, and its sends

\* case <-ctx.Done(): a cancelled context is no error; close(evtCh).
RelaySeesDone ==
  /\ Alive /\ relay = "select" /\ ctxDone
  /\ relay' = "closed"
  /\ UNCHANGED <<procVars, srvVars, listenVars, workVars, holds, errBuf, events, errors, badEvent>>

\* Mutant: the event is handed on as it came.
RelayTakesRaw ==
  /\ Alive /\ relay = "select" /\ events > 0
  /\ events' = events - 1
  /\ \E e \in Ids \cup {Ignored, Bad} :
       relay' = "sendEvt" /\ holds' = e /\ badEvent' = (badEvent \/ e = Bad)
  /\ UNCHANGED <<procVars, srvVars, listenVars, workVars, errBuf, errors>>

\* case ctrEvt := <-ctrEvents: convertCtrEventEnvelope gives the envelope, or
\* nil and an error; the error is sent first, and then the nil as well.
RelayTakesEvent ==
  /\ Alive /\ relay = "select" /\ events > 0
  /\ events' = events - 1
  /\ \E e \in Ids \cup {Ignored, Bad} :
       /\ relay' = IF e = Bad THEN "sendErrEvt" ELSE "sendEvt"
       /\ holds' = IF e = Bad THEN Nil ELSE e
       /\ badEvent' = (badEvent \/ e = Bad)
  /\ UNCHANGED <<procVars, srvVars, listenVars, workVars, errBuf, errors>>

\* Mutant: an error of the subscription ends the relay.
RelayEndsOnError ==
  /\ Alive /\ relay = "select" /\ errors > 0
  /\ errors' = errors - 1
  /\ relay' = "closed"
  /\ UNCHANGED <<procVars, srvVars, listenVars, workVars, holds, errBuf, events, badEvent>>

\* case ctrErr := <-ctrErrs.
RelayTakesError ==
  /\ Alive /\ relay = "select" /\ errors > 0
  /\ errors' = errors - 1
  /\ relay' = "sendErr"
  /\ UNCHANGED <<procVars, srvVars, listenVars, workVars, holds, errBuf, events, badEvent>>

\* evtErrCh <- err goes through when the buffer has room.
RelaySendsError ==
  /\ Alive /\ relay \in {"sendErr", "sendErrEvt"} /\ ~errBuf
  /\ errBuf' = TRUE
  /\ relay' = IF relay = "sendErr" THEN "select" ELSE "sendEvt"
  /\ UNCHANGED <<procVars, srvVars, listenVars, workVars, holds, events, errors, badEvent>>

-----------------------------------------------------------------------------
Step ==
  \/ ReceiveSignal \/ WaitForAll \/ DebugEndpointFatal
  \/ \E c \in Components : StartFails(c) \/ StartServing(c) \/ StartRefused(c) \/ BeginStop(c)
  \/ ServeReturns \/ GatewayReturns \/ DebugReturns
  \/ \E r \in Requests : HandlerReturns(r) \/ GatewayDisconnects(r) \/ GatewayReplies(r)
  \/ StartControllers \/ StartGoroutines \/ QueueShutdown \/ ControllersReturn
  \/ \E id \in Ids : ResyncOne(id)
  \/ WorkerDequeue \/ WorkerReconciled
  \/ ListenerSeesDone \/ ListenerTakesEvent \/ ListenerReadsClosed
  \/ ListenerTick \/ ListenerResynced \/ ListenerTakesError
  \/ RelaySeesDone \/ RelayTakesEvent \/ RelayTakesError \/ RelaySendsError

\* The process is gone: nothing of it moves any more.
Gone == ~Alive /\ UNCHANGED vars

Next == Interrupt \/ Step \/ (\E r \in Requests : Call(r)) \/ Gone

SafeSpec == Init /\ [][Next]_vars

\* The Go scheduler runs every goroutine that can run, handlers and reconciles
\* end, and a select that finds a case ready again and again takes it some day.
\* Signals and calls come or do not come.
Fairness ==
  /\ WF_vars(ReceiveSignal) /\ WF_vars(WaitForAll)
  /\ \A c \in Components :
       /\ WF_vars(StartServing(c) \/ StartRefused(c) \/ StartFails(c))
       /\ WF_vars(BeginStop(c))
  /\ WF_vars(ServeReturns) /\ WF_vars(GatewayReturns)
  /\ WF_vars(DebugReturns)
  /\ \A r \in Requests : WF_vars(HandlerReturns(r))
  /\ WF_vars(StartControllers) /\ WF_vars(StartGoroutines)
  /\ WF_vars(QueueShutdown) /\ WF_vars(ControllersReturn)
  /\ WF_vars(\E id \in Ids : ResyncOne(id))
  /\ WF_vars(WorkerDequeue) /\ WF_vars(WorkerReconciled)
  /\ WF_vars(ListenerResynced)
  /\ SF_vars(ListenerSeesDone) /\ SF_vars(ListenerTakesEvent)
  /\ SF_vars(ListenerTakesError)
  /\ SF_vars(RelaySeesDone) /\ WF_vars(RelaySendsError)

Spec == SafeSpec /\ Fairness

-----------------------------------------------------------------------------
Working == worker \in Ids \/ \E r \in Requests : request[r] \in Running

\* When flintlockd leaves through the end of runServer no API handler runs, no
\* microvm is being reconciled and none is left in the queue: GracefulStop, the
\* draining Dequeue and the two WaitGroups together wait for all of it,
\* whichever component stopped first.
CleanExitFinishesWork == exit = "clean" => ~Working /\ queue.items = <<>>

\* Why that is so: handlers run only while the API serves; what queues or works
\* runs only while the controllers serve; the worker leaves an empty queue that
\* takes nothing any more; and the process is not over before its components are.
ComingDown ==
  /\ comp["api"] # "serving" => \A r \in Requests : request[r] \notin Running
  /\ comp["controllers"] # "serving" =>
       /\ listener \in {"off", "returned"} /\ worker \in {"off", "returned"}
       /\ queue.items = <<>>
  /\ worker = "returned" => queue.items = <<>> /\ queue.shuttingDown
  /\ exit = "clean" => \A c \in Components : comp[c] \in {"off", "returned"}

\* flintlockd does not die of a nil event while it serves: the listener gets a
\* nil envelope only from an event that could not be converted or once the
\* context is cancelled.
NilEventOnlyAtShutdown == exit = "panic" => badEvent \/ ctxDone

\* Why: the relay closes its channel on a cancelled context only, and has nothing
\* to hand on only after an event it could not convert.
NilComesFromBadEvent ==
  /\ relay = "closed" => ctxDone
  /\ relay = "sendErrEvt" \/ (relay = "sendEvt" /\ holds = Nil) => badEvent
  /\ NilEventOnlyAtShutdown

\* The relay and the listener never block each other: an event or an error the
\* relay has taken over reaches the listener unless flintlockd is shutting down,
\* although evtCh has no buffer and evtErrCh has one place.
RelayNeverStuck ==
  (relay \in {"sendErr", "sendErrEvt", "sendEvt"}) ~> (relay = "select" \/ ctxDone \/ exit # "no")

\* "Cancel all processes if at least one fails": once one component has returned,
\* because it failed to start or was told to stop, every other one returns as
\* well, however much is queued or in flight.
CancelStopsAll ==
  (\E c \in Components : comp[c] = "returned") ~>
    (exit # "no" \/ \A c \in Components : comp[c] \in {"off", "returned"})

\* A signal ends the process: none of the waits (for handlers, for the queue,
\* for the listener, for the WaitGroups) waits for ever.
SignalEnds == (signal = "pending") ~> (exit # "no")

\* "shutdown signal received, waiting for work to finish": however the process
\* ends after a signal, no handler and no reconcile is cut short by the end.
SignalWaitsForWork == (exit # "no" /\ signal = "taken") => ~Working

=============================================================================
