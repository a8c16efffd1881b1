----------------------------- MODULE Reconciler -----------------------------
(***************************************************************************)
(* The worker of the microvm controller: processQueueItem, the use case    *)
(* ReconcileMicroVM with reschedule and saveState, and the actuator that   *)
(* creates a plan, runs its steps and creates it again until it is empty.  *)
(*                                                                         *)
(* flintlockd runs one worker (numWorkers = 1).  Its steps are the points  *)
(* where something else can happen in between: the read of the spec, each  *)
(* creation of the plan, each step of the plan (the VMM is started and its *)
(* pid recorded in two), and the save that ends the attempt.               *)
(*                                                                         *)
(* Anything that can go wrong draws on a budget of failures, so that a     *)
(* behaviour has finitely many and the state space is finite.              *)
(***************************************************************************)
EXTENDS MicroVMPlans, QueueOps

CONSTANT Budget     \* how often each kind of failure or request may happen

BudgetKinds ==
  {"step",     \* an error from a service while planning or running a step
   "save",     \* an error from Repo.Save
   "lookup",   \* a link lookup that fails
   "publish",  \* an error from EventService.Publish
   "exit",     \* a VMM that exits by itself
   "crash",    \* flintlockd dying or being stopped
   "delete"}   \* DeleteMicroVM requests

ASSUME BudgetType == Budget \in [BudgetKinds -> Nat]

VARIABLES queue,     \* the controller's work queue
          pc,        \* where the worker is
          cur,       \* the microvm it reconciles, or NoVM
          mem,       \* its copy of the spec, or NoSpec
          todo,      \* the steps of the plan not yet run
          did,       \* some step has been executed in this attempt
          backoff,   \* microvms whose last NotBefore is in the future
          timers,    \* sleeping goroutines of reschedule, per microvm
          evts,      \* Created and Updated events on their way, per microvm
          ctl,       \* the controller's start-up phase
          gone,      \* history: microvms whose lease was released
          announced, \* history: microvms whose Deleted event was published
          budget     \* what is left of Budget

workerVars == <<pc, cur, mem, todo, did>>
timerVars == <<backoff, timers>>
historyVars == <<gone, announced>>

WorkerPC == {"idle", "get", "plan", "react", "setpid", "reschedule", "created", "failed"}
CtlPhase == {"boot", "resync", "up", "listening"}

WorkerTypeOK ==
  /\ queue \in Seq(VMs)
  /\ pc \in WorkerPC
  /\ cur \in VMs \cup {NoVM} /\ (cur = NoVM <=> pc = "idle")
  /\ mem \in Specs \cup {NoSpec} /\ (mem = NoSpec <=> pc \in {"idle", "get"})
  /\ todo \subseteq Steps
  /\ did \in BOOLEAN

ControllerTypeOK ==
  /\ backoff \subseteq VMs
  /\ timers \in [VMs -> Nat]
  /\ evts \in [VMs -> Nat]
  /\ ctl \in CtlPhase
  /\ gone \subseteq VMs /\ announced \subseteq VMs
  /\ budget \in [BudgetKinds -> Nat]

Spend(kind) == budget[kind] > 0 /\ budget' = [budget EXCEPT ![kind] = @ - 1]

\* Events reach the controller only while it is subscribed.
Publish(v) ==
  evts' = IF ctl = "listening" THEN [evts EXCEPT ![v] = @ + 1] ELSE evts

-----------------------------------------------------------------------------
\* The worker is done with cur: without an error, or with one, and then the
\* item is queued again at once.
Return ==
  /\ pc' = "idle" /\ cur' = NoVM /\ mem' = NoSpec /\ todo' = {} /\ did' = FALSE
  /\ UNCHANGED queue

ReturnError ==
  /\ pc' = "idle" /\ cur' = NoVM /\ mem' = NoSpec /\ todo' = {} /\ did' = FALSE
  /\ queue' = Enqueued(queue, cur)

Goto(label) == pc' = label /\ UNCHANGED <<cur, did, queue>>

\* Dequeue, in the loop of processQueueItem.
Dequeue ==
  /\ ctl \in {"up", "listening"}
  /\ pc = "idle" /\ queue # <<>>
  /\ cur' = Head(queue) /\ queue' = Tail(queue)
  /\ pc' = "get"
  /\ UNCHANGED <<mem, todo, did, store, hostVars, timerVars, evts, ctl, historyVars, budget>>

\* Repo.Get finds nothing.
GetNotFound ==
  /\ pc = "get" /\ store[cur] = NoSpec
  /\ ReturnError
  /\ UNCHANGED <<store, hostVars, timerVars, evts, ctl, historyVars, budget>>

GetError ==
  /\ pc = "get" /\ Spend("step")
  /\ ReturnError
  /\ UNCHANGED <<store, hostVars, timerVars, evts, ctl, historyVars>>

\* Mutant: NotBefore is ignored.
GetImpatient ==
  /\ pc = "get" /\ store[cur] # NoSpec
  /\ mem' = store[cur]
  /\ Goto(IF store[cur].retry > MaximumRetry THEN "failed" ELSE "plan")
  /\ UNCHANGED <<todo, store, hostVars, timerVars, evts, ctl, historyVars, budget>>

\* Repo.Get, then the retry limit and the backoff of reconcile.
Get ==
  /\ pc = "get" /\ store[cur] # NoSpec
  /\ \/ /\ store[cur].retry > MaximumRetry
        /\ mem' = store[cur] /\ Goto("failed") /\ UNCHANGED todo
     \/ /\ store[cur].retry <= MaximumRetry
        /\ store[cur].notBefore /\ cur \in backoff
        /\ Return
     \/ /\ store[cur].retry <= MaximumRetry
        /\ ~(store[cur].notBefore /\ cur \in backoff)
        /\ mem' = store[cur] /\ Goto("plan") /\ UNCHANGED todo
  /\ UNCHANGED <<store, hostVars, timerVars, evts, ctl, historyVars, budget>>

\* GenerateRandom or a ShouldDo inside Plan.Create fails, the latter after
\* ensureStatus.
PlanError ==
  /\ pc = "plan" /\ Spend("step")
  /\ mem' \in {mem, EnsureStatus(mem)}
  /\ todo' = {}
  /\ Goto("reschedule")
  /\ UNCHANGED <<store, hostVars, timerVars, evts, ctl, historyVars>>

\* No more steps: reconcile returns after a delete plan or after a plan that
\* never had a step, and saves the created state otherwise.
PlanDone ==
  /\ IF mem.deleted \/ ~did THEN Return
     ELSE /\ mem' = [EnsureStatus(mem) EXCEPT !.retry = 0, !.notBefore = FALSE]
          /\ todo' = {}
          /\ Goto("created")
  /\ UNCHANGED <<store, hostVars, timerVars, evts, ctl, historyVars>>

\* executePlan creates the plan, for the first time or again.
PlanCreate ==
  /\ pc = "plan"
  /\ \E blind \in SUBSET Ifaces :
       /\ IF blind = {} THEN UNCHANGED budget ELSE Spend("lookup")
       /\ LET steps == Plan(cur, mem, blind)
          IN  IF steps = {} THEN PlanDone
              ELSE /\ todo' = steps /\ mem' = EnsureStatus(mem)
                   /\ Goto("react")
                   /\ UNCHANGED <<store, hostVars, timerVars, evts, ctl, historyVars>>

-----------------------------------------------------------------------------
\* react takes the next step of the plan.
AtStep(s) == pc = "react" /\ s \in todo /\ First(s, todo)

\* On to the next step, or to the next creation of the plan.
Proceed(s) ==
  /\ todo' = todo \ {s}
  /\ pc' = IF todo' = {} THEN "plan" ELSE "react"
  /\ UNCHANGED <<cur, queue>>

\* The step has been executed.
Done(s) == Proceed(s) /\ did' = TRUE

\* The step returns an error, which ends the attempt.
Failed == Spend("step") /\ todo' = {} /\ Goto("reschedule")

Skip(s) ==
  /\ AtStep(s)
  /\ \E blind \in SUBSET Ifaces :
       /\ IF blind = {} THEN UNCHANGED budget ELSE Spend("lookup")
       /\ ~ShouldDo(s, cur, mem, blind)
  /\ Proceed(s)
  /\ UNCHANGED <<did, mem, store, hostVars, timerVars, evts, ctl, historyVars>>

\* ShouldDo, or Do before it changed anything, fails.
StepError(s) ==
  /\ AtStep(s) /\ Failed
  /\ UNCHANGED <<mem, store, hostVars, timerVars, evts, ctl, historyVars>>

DirCreate ==
  LET s == <<"dir_create">> IN
  /\ AtStep(s) /\ ShouldDo(s, cur, mem, {})
  /\ MakeDir(RootDir) /\ Done(s)
  /\ UNCHANGED <<mem, store, timerVars, evts, ctl, historyVars, budget>>

\* A mount may fail with the snapshot prepared; the status is set at the end.
Mount(i) ==
  LET s == <<"mount", i>> IN
  /\ AtStep(s) /\ ShouldDo(s, cur, mem, {})
  /\ PullAndMount(cur, i)
  /\ \/ Done(s) /\ mem' = [mem EXCEPT !.mounts = @ \cup {i}] /\ UNCHANGED budget
     \/ Failed /\ UNCHANGED mem
  /\ UNCHANGED <<store, timerVars, evts, ctl, historyVars>>

\* The name goes into the status before the link is created.  The link then
\* exists already, or is created and attached, or the creation fails before
\* or after LinkAdd.
NewIface(n) ==
  LET s == <<"iface_create", n>> IN
  /\ AtStep(s)
  /\ \E blind \in SUBSET {n} :
       /\ IF blind = {} THEN UNCHANGED budget ELSE Spend("lookup")
       /\ ShouldDo(s, cur, mem, blind)
  /\ IF IfaceExists(mem.ifaces[n], FALSE)
       THEN UNCHANGED <<mem, hostVars>>
       ELSE \E d \in Devs :
              /\ IF mem.ifaces[n] = NoDev THEN FreshName(d) ELSE d = mem.ifaces[n]
              /\ mem' = [mem EXCEPT !.ifaces[n] = d]
              /\ IfaceCreate(cur, d)
  /\ Done(s)
  /\ UNCHANGED <<store, timerVars, evts, ctl, historyVars>>

\* Mutant: the name is recorded only when IfaceCreate succeeds.
NewIfaceErrorNameless(n) ==
  LET s == <<"iface_create", n>> IN
  /\ AtStep(s) /\ ShouldDo(s, cur, mem, {})
  /\ \E d \in Devs :
       /\ IF mem.ifaces[n] = NoDev THEN FreshName(d) ELSE d = mem.ifaces[n]
       /\ UNCHANGED hostVars \/ LinkAdd(cur, d)
  /\ Failed
  /\ UNCHANGED <<mem, store, timerVars, evts, ctl, historyVars>>

NewIfaceError(n) ==
  LET s == <<"iface_create", n>> IN
  /\ AtStep(s) /\ ShouldDo(s, cur, mem, {})
  /\ \E d \in Devs :
       /\ IF mem.ifaces[n] = NoDev THEN FreshName(d) ELSE d = mem.ifaces[n]
       /\ mem' = [mem EXCEPT !.ifaces[n] = d]
       /\ UNCHANGED hostVars \/ LinkAdd(cur, d)
  /\ Failed
  /\ UNCHANGED <<store, timerVars, evts, ctl, historyVars>>

\* NewIfaceName gives up when every name it draws is taken.
NoIfaceName(n) ==
  LET s == <<"iface_create", n>> IN
  /\ AtStep(s) /\ mem.ifaces[n] = NoDev /\ ~\E d \in Devs : FreshName(d)
  /\ todo' = {} /\ Goto("reschedule")
  /\ UNCHANGED <<mem, store, hostVars, timerVars, evts, ctl, historyVars, budget>>

\* provider.Create, up to the start of the process and up to the pid file.
CreateStart ==
  LET s == <<"create">> IN
  /\ AtStep(s) /\ ShouldDo(s, cur, mem, {})
  /\ StartVMM(cur, mem.ifaces)
  /\ Goto("setpid") /\ UNCHANGED <<mem, todo>>
  /\ UNCHANGED <<store, timerVars, evts, ctl, historyVars, budget>>

CreateSetPid ==
  /\ pc = "setpid"
  /\ SetPid(cur) /\ Done(<<"create">>)
  /\ UNCHANGED <<mem, store, timerVars, evts, ctl, historyVars, budget>>

CreateSetPidError ==
  /\ pc = "setpid"
  /\ LosePids /\ Failed
  /\ UNCHANGED <<mem, store, timerVars, evts, ctl, historyVars>>

\* Create fails with nothing but the state directory to show for it.
CreateError ==
  LET s == <<"create">> IN
  /\ AtStep(s) /\ ShouldDo(s, cur, mem, {})
  /\ MakeDir(cur) /\ Failed
  /\ UNCHANGED <<mem, store, timerVars, evts, ctl, historyVars>>

\* Start is not supported by either provider: it fails whenever it is called.
Start ==
  LET s == <<"start">> IN
  /\ AtStep(s) /\ ShouldDo(s, cur, mem, {})
  /\ todo' = {} /\ Goto("reschedule")
  /\ UNCHANGED <<mem, store, hostVars, timerVars, evts, ctl, historyVars, budget>>

\* provider.Delete.  With a signal already pending, the process can be gone by
\* the time of the next signal, which is an error too.
DeleteVMM ==
  LET s == <<"delete">> IN
  /\ AtStep(s) /\ ShouldDo(s, cur, mem, {})
  /\ \/ (Terminated(cur) \/ Signalled(cur)) /\ Done(s) /\ UNCHANGED budget
     \/ (Terminated(cur) \/ Signalled(cur)) /\ Failed
     \/ /\ cur \in killed /\ Terminated(cur)
        /\ todo' = {} /\ Goto("reschedule") /\ UNCHANGED budget
  /\ UNCHANGED <<mem, store, timerVars, evts, ctl, historyVars>>

\* The spec goes together with its lease, also when the answer is an error.
Release ==
  LET s == <<"release">> IN
  /\ AtStep(s) /\ ShouldDo(s, cur, mem, {})
  /\ store' = [store EXCEPT ![cur] = NoSpec]
  /\ CollectSnapshots(cur)
  /\ gone' = gone \cup {cur}
  /\ (Done(s) /\ UNCHANGED budget) \/ Failed
  /\ UNCHANGED <<mem, timerVars, evts, ctl, announced>>

RemoveIface(n) ==
  LET s == <<"iface_delete", n>> IN
  /\ AtStep(s) /\ ShouldDo(s, cur, mem, {})
  /\ IfaceDelete(mem.ifaces[n]) /\ Done(s)
  /\ UNCHANGED <<mem, store, timerVars, evts, ctl, historyVars, budget>>

DirDelete ==
  LET s == <<"dir_delete">> IN
  /\ AtStep(s) /\ ShouldDo(s, cur, mem, {})
  /\ RemoveDir(cur) /\ Done(s)
  /\ UNCHANGED <<mem, store, timerVars, evts, ctl, historyVars, budget>>

\* The Deleted event, which the controller's own listener ignores.
PublishDeleted ==
  LET s == <<"publish">> IN
  /\ AtStep(s)
  /\ announced' = announced \cup {cur}
  /\ Done(s)
  /\ UNCHANGED <<mem, store, hostVars, timerVars, evts, ctl, gone, budget>>

-----------------------------------------------------------------------------
\* What each ending of an attempt saves: reschedule counts the failure and
\* sets NotBefore; saveState finalises the plan.
Outcome ==
  CASE pc = "reschedule" -> [mem EXCEPT !.retry = @ + 1, !.notBefore = TRUE]
    [] pc = "created"    -> Finalise(mem, "created")
    [] pc = "failed"     -> Finalise(mem, "failed")

\* Mutant: the copy that is rescheduled has lost its deletion mark.
RescheduleUnmarked ==
  /\ pc = "reschedule"
  /\ \E s \in SaveStamped(store[cur], [Outcome EXCEPT !.deleted = FALSE]) :
       store' = [store EXCEPT ![cur] = s]
  /\ backoff' = backoff \cup {cur}
  /\ timers' = [timers EXCEPT ![cur] = @ + 1]
  /\ ReturnError
  /\ UNCHANGED <<hostVars, evts, ctl, historyVars, budget>>

\* reschedule saves the backoff and leaves a goroutine that will publish an
\* Updated event at its end; the error of the attempt queues the item again.
Reschedule ==
  /\ pc = "reschedule"
  /\ \E s \in SaveStamped(store[cur], Outcome) : store' = [store EXCEPT ![cur] = s]
  /\ backoff' = backoff \cup {cur}
  /\ timers' = [timers EXCEPT ![cur] = @ + 1]
  /\ ReturnError
  /\ UNCHANGED <<hostVars, evts, ctl, historyVars, budget>>

\* Mutant: giving up resets the retry counter, as success does.
SaveStateReset ==
  /\ pc \in {"created", "failed"}
  /\ \E s \in Save(store[cur], [Outcome EXCEPT !.retry = 0, !.notBefore = FALSE]) :
       store' = [store EXCEPT ![cur] = s]
  /\ Return
  /\ UNCHANGED <<hostVars, timerVars, evts, ctl, historyVars, budget>>

\* saveState(CreatedState) and saveState(FailedState).
SaveState ==
  /\ pc \in {"created", "failed"}
  /\ \E s \in Save(store[cur], Outcome) : store' = [store EXCEPT ![cur] = s]
  /\ Return
  /\ UNCHANGED <<hostVars, timerVars, evts, ctl, historyVars, budget>>

\* The save that ends the attempt returns an error: what the attempt learned is
\* lost, or it was written and only the answer is lost.  After a failed save
\* reschedule leaves no goroutine.
SaveError ==
  /\ pc \in {"reschedule", "created", "failed"}
  /\ Spend("save")
  /\ \/ UNCHANGED <<store, backoff>>
     \/ /\ \E s \in SaveStamped(store[cur], Outcome) : store' = [store EXCEPT ![cur] = s]
        /\ backoff' = IF pc = "reschedule" THEN backoff \cup {cur} ELSE backoff
  /\ ReturnError
  /\ UNCHANGED <<hostVars, timers, evts, ctl, historyVars>>

WorkerNext ==
  \/ Dequeue \/ GetNotFound \/ GetError \/ Get
  \/ PlanError \/ PlanCreate
  \/ \E s \in Steps : Skip(s) \/ StepError(s)
  \/ DirCreate \/ DirDelete
  \/ \E i \in Images : Mount(i)
  \/ \E n \in Ifaces : NewIface(n) \/ NewIfaceError(n) \/ NoIfaceName(n) \/ RemoveIface(n)
  \/ CreateStart \/ CreateSetPid \/ CreateSetPidError \/ CreateError \/ Start
  \/ DeleteVMM \/ Release \/ PublishDeleted
  \/ Reschedule \/ SaveState \/ SaveError

=============================================================================
