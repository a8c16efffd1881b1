------------------------------ MODULE Flintlock ------------------------------
(***************************************************************************)
(* flintlockd: the gRPC commands CreateMicroVM and DeleteMicroVM, the      *)
(* microvm controller (start-up, event listener, periodic resync, work     *)
(* queue, worker) and the host they act on, composed over one content      *)
(* store, with VMMs that exit and with flintlockd crashing and restarting. *)
(*                                                                         *)
(* A command and the worker interleave between any two of their accesses   *)
(* to the store, to the event service or to the host.  At most one command *)
(* per microvm is in flight.                                               *)
(***************************************************************************)
EXTENDS Reconciler, FiniteSets

CONSTANT PatientClient  \* clients delete a microvm only once they see it created

ASSUME PatientClientBoolean == PatientClient \in BOOLEAN
ASSUME IfacesFinite == IsFiniteSet(Ifaces)

VARIABLES resync,    \* microvms that resyncSpecs has read and not yet queued
          used,      \* UIDs that CreateMicroVM has drawn
          api,       \* the command in flight for each microvm
          apiMem,    \* its copy of the spec, or NoSpec
          accepted   \* history: microvms whose DeleteMicroVM returned nil

apiVars == <<used, api, apiMem, accepted>>

vars == <<store, hostVars, queue, workerVars, timerVars, evts, ctl, historyVars,
          budget, resync, apiVars>>

\* Between its calls, a command is about to publish the Created event, to save
\* the deletion, or to publish the Updated event.
ApiPC == {"none", "created", "save", "updated"}

Stored == {v \in VMs : store[v] # NoSpec}

Init ==
  /\ store = [v \in VMs |-> NoSpec]
  /\ HostInit
  /\ queue = <<>> /\ evts = [v \in VMs |-> 0]
  /\ pc = "idle" /\ cur = NoVM /\ mem = NoSpec /\ todo = {} /\ did = FALSE
  /\ backoff = {} /\ timers = [v \in VMs |-> 0]
  /\ ctl = "boot" /\ resync = {}
  /\ gone = {} /\ announced = {} /\ accepted = {} /\ used = {}
  /\ api = [v \in VMs |-> "none"] /\ apiMem = [v \in VMs |-> NoSpec]
  /\ budget = Budget

-----------------------------------------------------------------------------
\* CreateMicroVM up to its Save, under a UID never used before.  A request
\* that fails earlier changes nothing; a Save that commits and still returns an
\* error is like a Publish that fails.
CreateSave(v) ==
  /\ v \notin used /\ api[v] = "none"
  /\ used' = used \cup {v}
  /\ \E s \in Save(store[v], NewSpec) : store' = [store EXCEPT ![v] = s]
  /\ api' = [api EXCEPT ![v] = "created"]
  /\ UNCHANGED <<hostVars, queue, workerVars, timerVars, evts, ctl, historyVars,
                 budget, resync, apiMem, accepted>>

\* DeleteMicroVM reads the spec and marks its copy; NotBefore stays.
DeleteGet(v) ==
  /\ api[v] = "none" /\ store[v] # NoSpec
  /\ PatientClient => store[v].state = "created"
  /\ Spend("delete")
  /\ api' = [api EXCEPT ![v] = "save"]
  /\ apiMem' = [apiMem EXCEPT ![v] =
                  [store[v] EXCEPT !.deleted = TRUE, !.retry = 0, !.state = "deleting"]]
  /\ UNCHANGED <<store, hostVars, queue, workerVars, timerVars, evts, ctl, historyVars,
                 resync, used, accepted>>

\* Mutant: the mark is saved without the copy having been marked.
DeleteSaveUnmarked(v) ==
  /\ api[v] = "save"
  /\ \E s \in SaveStamped(store[v], [apiMem[v] EXCEPT !.deleted = FALSE]) :
       store' = [store EXCEPT ![v] = s]
  /\ api' = [api EXCEPT ![v] = "updated"]
  /\ apiMem' = [apiMem EXCEPT ![v] = NoSpec]
  /\ UNCHANGED <<hostVars, queue, workerVars, timerVars, evts, ctl, historyVars,
                 budget, resync, used, accepted>>

DeleteSave(v) ==
  /\ api[v] = "save"
  /\ \E s \in SaveStamped(store[v], apiMem[v]) : store' = [store EXCEPT ![v] = s]
  /\ api' = [api EXCEPT ![v] = "updated"]
  /\ apiMem' = [apiMem EXCEPT ![v] = NoSpec]
  /\ UNCHANGED <<hostVars, queue, workerVars, timerVars, evts, ctl, historyVars,
                 budget, resync, used, accepted>>

\* The command publishes its event and returns nil.
CommandPublish(v) ==
  /\ api[v] \in {"created", "updated"}
  /\ Publish(v)
  /\ api' = [api EXCEPT ![v] = "none"]
  /\ accepted' = IF api[v] = "updated" THEN accepted \cup {v} ELSE accepted
  /\ UNCHANGED <<store, hostVars, queue, workerVars, timerVars, ctl, historyVars,
                 budget, resync, used, apiMem>>

\* Save or Publish returns an error, and so does the command.  The spec or the
\* deletion mark is in the store all the same when Publish fails, and can be
\* when Save does.
CommandError(v) ==
  /\ \/ api[v] = "save" /\ Spend("save") /\ UNCHANGED store
     \/ /\ api[v] = "save" /\ Spend("save")
        /\ \E s \in SaveStamped(store[v], apiMem[v]) : store' = [store EXCEPT ![v] = s]
     \/ api[v] \in {"created", "updated"} /\ Spend("publish") /\ UNCHANGED store
  /\ api' = [api EXCEPT ![v] = "none"]
  /\ apiMem' = [apiMem EXCEPT ![v] = NoSpec]
  /\ UNCHANGED <<hostVars, queue, workerVars, timerVars, evts, ctl, historyVars,
                 resync, used, accepted>>

-----------------------------------------------------------------------------
\* resyncSpecs at start-up, before the listener subscribes; an error is only
\* logged.
BootResync ==
  /\ ctl = "boot"
  /\ \/ resync' = Stored /\ UNCHANGED budget
     \/ resync' = {} /\ Spend("step")
  /\ ctl' = "resync"
  /\ UNCHANGED <<store, hostVars, queue, workerVars, timerVars, evts, historyVars, apiVars>>

\* The worker starts, and the listener, which has yet to subscribe.
StartUp ==
  /\ ctl = "resync" /\ resync = {}
  /\ ctl' = "up"
  /\ UNCHANGED <<store, hostVars, queue, workerVars, timerVars, evts, historyVars,
                 budget, resync, apiVars>>

Subscribe ==
  /\ ctl = "up"
  /\ ctl' = "listening"
  /\ UNCHANGED <<store, hostVars, queue, workerVars, timerVars, evts, historyVars,
                 budget, resync, apiVars>>

\* Mutant: the periodic resync is lost.
ResyncNever == FALSE /\ UNCHANGED vars

\* The ticker: resyncSpecs lists the specs and then queues them one by one.
Resync ==
  /\ ctl = "listening" /\ resync = {}
  /\ resync' = Stored
  /\ UNCHANGED <<store, hostVars, queue, workerVars, timerVars, evts, ctl, historyVars,
                 budget, apiVars>>

ResyncEnqueue(v) ==
  /\ v \in resync
  /\ resync' = resync \ {v}
  /\ queue' = Enqueued(queue, v)
  /\ UNCHANGED <<store, hostVars, workerVars, timerVars, evts, ctl, historyVars,
                 budget, apiVars>>

\* handleEvent for a Created or an Updated event.
HandleEvent(v) ==
  /\ ctl = "listening" /\ resync = {}
  /\ evts[v] > 0
  /\ evts' = [evts EXCEPT ![v] = @ - 1]
  /\ queue' = Enqueued(queue, v)
  /\ UNCHANGED <<store, hostVars, workerVars, timerVars, ctl, historyVars,
                 budget, resync, apiVars>>

-----------------------------------------------------------------------------
\* The time in NotBefore passes.
Elapse(v) ==
  /\ v \in backoff
  /\ backoff' = backoff \ {v}
  /\ UNCHANGED <<store, hostVars, queue, workerVars, timers, evts, ctl, historyVars,
                 budget, resync, apiVars>>

\* Mutant: the goroutine publishes again and again.
RetryPublishForever(v) ==
  /\ v \notin backoff
  /\ timers' = [timers EXCEPT ![v] = @ - 1]
  /\ Publish(v)
  /\ UNCHANGED <<store, hostVars, queue, workerVars, backoff, ctl, historyVars,
                 budget, resync, apiVars>>

\* A goroutine of reschedule wakes up and publishes; an error is only logged.
\* The goroutine of the last reschedule sleeps until NotBefore.
RetryPublish(v) ==
  /\ timers[v] > (IF v \in backoff THEN 1 ELSE 0)
  /\ timers' = [timers EXCEPT ![v] = @ - 1]
  /\ \/ Publish(v) /\ UNCHANGED budget
     \/ Spend("publish") /\ UNCHANGED evts
  /\ UNCHANGED <<store, hostVars, queue, workerVars, backoff, ctl, historyVars,
                 resync, apiVars>>

\* A VMM exits: by itself, or because of a signal that was pending.
VMMExit(v) ==
  /\ Running(v)
  /\ IF v \in killed THEN UNCHANGED budget ELSE Spend("exit")
  /\ Terminated(v)
  /\ UNCHANGED <<store, queue, workerVars, timerVars, evts, ctl, historyVars, resync, apiVars>>

\* flintlockd dies, or is stopped: the queue, the timers, the subscription,
\* the attempt of the worker and the commands in flight are lost; specs, VMMs,
\* links and directories stay.  flintlockd starts again.
Crash ==
  /\ Spend("crash")
  /\ ctl' = "boot" /\ resync' = {} /\ queue' = <<>>
  /\ pc' = "idle" /\ cur' = NoVM /\ mem' = NoSpec /\ todo' = {} /\ did' = FALSE
  /\ timers' = [v \in VMs |-> 0] /\ evts' = [v \in VMs |-> 0]
  /\ api' = [v \in VMs |-> "none"] /\ apiMem' = [v \in VMs |-> NoSpec]
  /\ LosePids
  /\ UNCHANGED <<store, backoff, historyVars, used, accepted>>

Worker == WorkerNext /\ UNCHANGED <<resync, apiVars>>

Next ==
  \/ Worker
  \/ \E v \in VMs :
       \/ CreateSave(v) \/ DeleteGet(v) \/ DeleteSave(v)
       \/ CommandPublish(v) \/ CommandError(v)
       \/ ResyncEnqueue(v) \/ HandleEvent(v)
       \/ Elapse(v) \/ RetryPublish(v) \/ VMMExit(v)
  \/ BootResync \/ StartUp \/ Subscribe \/ Resync
  \/ Crash

\* The goroutines of a live flintlockd run, its ticker ticks, time passes and
\* a process with a fatal signal pending dies.  No event need ever arrive.
Fairness ==
  /\ WF_vars(Worker)
  /\ WF_vars(BootResync) /\ WF_vars(StartUp) /\ WF_vars(Subscribe) /\ WF_vars(Resync)
  /\ \A v \in VMs :
       /\ WF_vars(DeleteSave(v)) /\ WF_vars(CommandPublish(v))
       /\ WF_vars(ResyncEnqueue(v)) /\ WF_vars(Elapse(v))
       /\ WF_vars(v \in killed /\ VMMExit(v))

SafeSpec == Init /\ [][Next]_vars

Spec == SafeSpec /\ Fairness

-----------------------------------------------------------------------------
ApiTypeOK ==
  /\ resync \subseteq VMs /\ used \subseteq VMs /\ accepted \subseteq VMs
  /\ api \in [VMs -> ApiPC]
  /\ apiMem \in [VMs -> Specs \cup {NoSpec}]
  /\ \A v \in VMs : apiMem[v] = NoSpec <=> api[v] # "save"

\* Every variable has its type; the worker has a microvm while it is busy, and
\* the worker and the commands have a copy of the spec between read and save.
TypeOK == StoreTypeOK /\ HostTypeOK /\ WorkerTypeOK /\ ControllerTypeOK /\ ApiTypeOK

\* A deleted microvm never comes back to life.  Its spec can reappear after the
\* lease is released (reschedule saves it when a later delete step fails, and a
\* second DeleteMicroVM saves the copy it read before), but only marked as
\* deleted, so the create plan never runs for it again.
GoneStaysDeleted == \A v \in gone : store[v] = NoSpec \/ store[v].deleted

\* When the spec of a microvm is given up, its VMM is stopped, or is dying of a
\* signal, and its snapshots are collected; and that stays so, whatever
\* crashes, fails or comes late.  It rests on the order of the delete plan.
GoneIsStopped ==
  \A v \in gone : (vmm[v] = NoProc \/ v \in killed) /\ snaps[v] = {}

\* The Deleted event is published only for a microvm whose spec was given up,
\* whichever steps of the delete plan failed, were skipped or repeated before.
AnnouncedIsGone == announced \subseteq gone

\* No Save has failed and flintlockd has not died, so that no attempt has made
\* something on the host whose name is in no spec.
NoSaveLost == budget["save"] = Budget["save"] /\ budget["crash"] = Budget["crash"]

\* No process, link, snapshot or directory outlives its microvm: once the spec
\* is gone and no one holds a copy of it, nothing is left on the host, unless a
\* save was lost.  The delete plan is created again until it is empty, so that a
\* link is overlooked only when two lookups fail: the one that skips its step and
\* the one that leaves the step out of the next plan.
NoLeak ==
  NoSaveLost /\ budget["lookup"] + 1 >= Budget["lookup"] =>
    \A v \in gone :
      (store[v] = NoSpec /\ cur # v /\ api[v] # "save") => ~Leftovers(v)

\* The Deleted event tells the truth: it is published when the spec and all of
\* the microvm's resources are gone.  Only a link whose lookup failed, and which
\* RemoveIface therefore skipped, or whose name was lost with a save, can still
\* be there.
DeletedEventIsTrue ==
  [][NoSaveLost /\ budget["lookup"] = Budget["lookup"] =>
       \A v \in announced' \ announced : store[v] = NoSpec /\ ~Leftovers(v)]_vars

\* When the created state is saved, every image is mounted, every interface has
\* an existing link, and the VMM, unless it has exited, runs with exactly the
\* devices the status names; a VMM that is found again after a lost save may have
\* others.
CreatedIsProvisioned ==
  pc = "created" =>
    /\ Images \subseteq snaps[cur]
    /\ \A n \in Ifaces : IfaceExists(mem.ifaces[n], FALSE)
    /\ NoSaveLost => vmm[cur] \in {NoProc, mem.ifaces}

\* "Attach indicates if this device should be attached to the parent bridge"
\* (core/ports/services.go:127): a created microvm has its links up and attached,
\* in spite of misread lookups and repeated plans, unless a call has failed; a
\* failed attachment is not made up for, since the link then exists.
CreatedIsAttached ==
  pc = "created" /\ budget["step"] = Budget["step"] =>
    \A n \in Ifaces : mem.ifaces[n] \in attached

\* "All procedures must be idempotent" (pkg/planner/planner.go:26): as long as
\* no save fails and flintlockd does not die between making a link and saving its
\* name, repeating the create plan makes no second link for an interface.
OneLinkPerIface ==
  NoSaveLost =>
    \A v \in VMs : Cardinality({d \in Devs : link[d] = v}) <= Cardinality(Ifaces)

\* Failed attempts on a microvm are spaced by the backoff, although the failed
\* item goes straight back into the queue: an attempt fails and is rescheduled
\* only after the backoff of the one before has passed.  A deletion starts the
\* count afresh and may save a copy from before the failure, without its backoff.
RetriesSpaced ==
  [][\A v \in VMs : timers'[v] > timers[v] =>
       v \notin backoff \/ (mem.deleted /\ mem.retry = 0)]_vars

\* A microvm that was given up after MaximumRetry attempts stays failed until a
\* client deletes it: no resync, late event or timer makes it pending again.
FailedIsFinal ==
  [][\A v \in VMs :
       (store[v] # NoSpec /\ store[v].state = "failed") =>
          (store'[v] # NoSpec /\ (store'[v].state = "failed" \/ store'[v].deleted))]_vars

\* All the microvm needs is there, under the names its spec records.
Provisioned(v) ==
  /\ Images \subseteq snaps[v]
  /\ \A n \in Ifaces : IfaceExists(store[v].ifaces[n], FALSE)
  /\ Running(v)

\* Nothing is left to do for the microvm.
Settled(v) ==
  \/ store[v] = NoSpec
  \/ store[v].retry > MaximumRetry
  \/ ~store[v].deleted /\ Provisioned(v)

\* Whatever failed and whenever flintlockd crashed, each microvm ends up, for
\* good, without a spec, or given up, or provisioned as its spec wants it; and
\* a spec marked as deleted does not stay.  No event is needed for it.
Settles == \A v \in VMs : <>[]Settled(v)

\* A microvm whose DeleteMicroVM succeeded is eventually "no longer with us"
\* (test/e2e/e2e_test.go:119), for good.
DeleteHonoured ==
  \A v \in VMs : v \in accepted ~> [](store[v] = NoSpec)

-----------------------------------------------------------------------------
(* Why a deleted microvm stays deleted: the invariants that the three      *)
(* above need to be inductive.                                             *)

\* Only the release of its lease makes a spec disappear.
Accounted == used = Stored \cup gone

\* Every copy of the spec of a released microvm that may still be saved carries
\* the deletion mark, and no copy is older than the microvm.
WorkerCopy == mem # NoSpec => cur \in used /\ (cur \in gone => mem.deleted)

CommandCopies ==
  \A v \in VMs : api[v] = "save" => v \in used /\ apiMem[v].deleted

\* The worker runs steps of the plan that its copy of the spec asks for.
PlanFits ==
  /\ pc = "react" => todo \subseteq (IF mem.deleted THEN DeleteSteps \cup {<<"publish">>}
                                     ELSE CreateSteps)
  /\ pc = "setpid" => ~mem.deleted /\ todo \subseteq CreateSteps

\* Past its first step the delete plan has stopped the VMM, and past the second
\* it has released the lease.
DeletePlanProgress ==
  (pc = "react" /\ mem.deleted) =>
    /\ <<"delete">> \in todo \/ vmm[cur] = NoProc \/ cur \in killed
    /\ <<"release">> \in todo \/ cur \in gone

\* The inductive invariant, checked as a whole: a microvm never escapes its
\* deletion through a copy of its spec that the worker or a command still holds.
Deletion ==
  /\ Accounted /\ WorkerCopy /\ CommandCopies /\ PlanFits /\ DeletePlanProgress
  /\ GoneStaysDeleted /\ GoneIsStopped /\ AnnouncedIsGone

-----------------------------------------------------------------------------
(* What a comment of the code says and the code does not do in every case. *)

\* "When all is done and successful it will be put to created"
\* (microvm_create_update.go:228): a create plan that ends without an error
\* leaves the microvm in the created state.
DoneMeansCreated ==
  [][(pc = "plan" /\ pc' = "idle" /\ ~mem.deleted) => store[cur].state = "created"]_vars

=============================================================================
