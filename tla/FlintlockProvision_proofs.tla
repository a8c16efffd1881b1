---------------------- MODULE FlintlockProvision_proofs ----------------------
(***************************************************************************)
(* Proofs about what the create plan of Flintlock leaves on the host: the  *)
(* links of a microvm, the order in which its plan comes to them, and that *)
(* a microvm saved as created has them attached, for any number of         *)
(* microvms, images, interfaces and link names and any budget of failures. *)
(* The steps of the system are sorted here by what they may change, for    *)
(* the modules that follow.                                                *)
(***************************************************************************)
EXTENDS FlintlockRetries_proofs

(***************************************************************************)
(* The invariants.                                                         *)
(***************************************************************************)

\* Nothing is spent that was not in the budget.
WithinBudget == \A k \in BudgetKinds : budget[k] <= Budget[k]

\* A link that is not attached comes from a step that failed.
LinksUp ==
  budget["step"] = Budget["step"] => \A d \in Devs : link[d] # NoVM => d \in attached

\* A microvm that was not created yet has nothing on the host.
Untouched == \A v \in VMs \ used : vmm[v] = NoProc /\ \A d \in Devs : link[d] # v

\* Every interface has its HostDeviceName.
Named(s) == \A n \in Ifaces : s.ifaces[n] # NoDev

\* The create plan names all interfaces before it starts the VMM, which gets
\* these names; when it is found empty, the mounts and the links are there.
CreatePlanProgress ==
  /\ pc = "react" /\ ~mem.deleted =>
       \A n \in Ifaces : <<"iface_create", n>> \in todo \/ mem.ifaces[n] # NoDev
  /\ pc = "setpid" => starting[cur] = mem.ifaces /\ Named(mem)
  /\ pc = "created" => /\ ~mem.deleted /\ Images \subseteq snaps[cur]
                       /\ \A n \in Ifaces : IfaceExists(mem.ifaces[n], FALSE)

(***************************************************************************)
(* The steps of the system, by what they may do.                           *)
(***************************************************************************)

ReadStep == Dequeue \/ GetNotFound \/ GetError \/ Get

AttemptStep ==
  \/ PlanError \/ PlanCreate
  \/ \E s \in Steps : Skip(s) \/ StepError(s)
  \/ DirCreate \/ DirDelete
  \/ \E i \in Images : Mount(i)
  \/ \E n \in Ifaces : NewIface(n) \/ NewIfaceError(n) \/ NoIfaceName(n) \/ RemoveIface(n)
  \/ CreateStart \/ CreateSetPid \/ CreateSetPidError \/ CreateError \/ Start
  \/ DeleteVMM \/ Release \/ PublishDeleted

SaveStep == Reschedule \/ SaveState \/ SaveError

CommandStep(v) ==
  CreateSave(v) \/ DeleteGet(v) \/ DeleteSave(v) \/ CommandPublish(v) \/ CommandError(v)

ControllerStep ==
  \/ \E v \in VMs : ResyncEnqueue(v) \/ HandleEvent(v) \/ Elapse(v) \/ RetryPublish(v)
  \/ BootResync \/ StartUp \/ Subscribe \/ Resync

\* Every step is one of the worker, of a command, of the controller, or the crash or
\* death of a VMM.
LEMMA StepsOfNext ==
  ASSUME [Next]_vars
  PROVE  \/ (ReadStep \/ AttemptStep \/ SaveStep) /\ UNCHANGED apiVars
         \/ \E v \in VMs : CommandStep(v) \/ VMMExit(v)
         \/ ControllerStep \/ Crash
         \/ UNCHANGED vars
  BY ZenonT(30) DEF Next, Worker, WorkerNext, ReadStep, AttemptStep, SaveStep, CommandStep,
     ControllerStep

\* What leaves the store, the commands, the host and the worker alone.
Idle == UNCHANGED <<store, hostVars, workerVars, historyVars, apiVars>>

\* The controller queues and publishes and does no more.
LEMMA ControllerIdle ==
  ASSUME ControllerStep \/ UNCHANGED vars
  PROVE  Idle
  BY ZenonT(30) DEF ControllerStep, ResyncEnqueue, HandleEvent, Elapse, RetryPublish, BootResync,
     StartUp, Subscribe, Resync, vars, Idle

(***************************************************************************)
(* The budget.                                                             *)
(***************************************************************************)

\* Whatever happens, at most one failure or request is spent.
LEMMA BudgetSteps ==
  ASSUME [Next]_vars
  PROVE  UNCHANGED budget \/ \E k \in BudgetKinds : Spend(k)
  <1>1. \A k \in {"step", "save", "lookup", "publish", "exit", "crash", "delete"} :
          k \in BudgetKinds
    BY DEF BudgetKinds
  <1>2. CASE ReadStep \/ SaveStep
    BY ZenonT(30), <1>1, <1>2 DEF ReadStep, SaveStep, Dequeue, GetNotFound, GetError, Get,
       Reschedule, SaveState, SaveError
  <1>3. CASE AttemptStep
    BY ZenonT(30), <1>1, <1>3 DEF AttemptStep, PlanError, PlanCreate, Skip, StepError, DirCreate,
       DirDelete, Mount, NewIface, NewIfaceError, NoIfaceName, RemoveIface, CreateStart,
       CreateSetPid, CreateSetPidError, CreateError, Start, DeleteVMM, Release, PublishDeleted,
       Failed
  <1>4. CASE \E v \in VMs : CommandStep(v) \/ VMMExit(v)
    BY ZenonT(30), <1>1, <1>4 DEF CommandStep, CreateSave, DeleteGet, DeleteSave, CommandPublish,
       CommandError, VMMExit
  <1>5. CASE ControllerStep \/ Crash
    BY ZenonT(30), <1>1, <1>5 DEF ControllerStep, ResyncEnqueue, HandleEvent, Elapse, RetryPublish,
       BootResync, StartUp, Subscribe, Resync, Crash
  <1>6. CASE UNCHANGED vars
    BY <1>6 DEF vars
  <1>. QED
    BY Zenon, <1>2, <1>3, <1>4, <1>5, <1>6, StepsOfNext

\* The budget is never exceeded.
LEMMA NextBudget == TypeOK /\ WithinBudget /\ [Next]_vars => WithinBudget'
  <1>. SUFFICES ASSUME TypeOK, WithinBudget, [Next]_vars PROVE WithinBudget'
    OBVIOUS
  <1>1. budget \in [BudgetKinds -> Nat] /\ Budget \in [BudgetKinds -> Nat]
    BY BudgetType DEF TypeOK, ControllerTypeOK
  <1>2. CASE UNCHANGED budget
    BY <1>2 DEF WithinBudget
  <1>3. ASSUME NEW k \in BudgetKinds, Spend(k) PROVE WithinBudget'
    BY <1>1, <1>3 DEF WithinBudget, Spend
  <1>. QED
    BY <1>2, <1>3, BudgetSteps

\* A kind of which nothing has been spent after a step was not spent by it.
LEMMA Unspent ==
  ASSUME TypeOK, WithinBudget, [Next]_vars, NEW k \in BudgetKinds, budget'[k] = Budget[k]
  PROVE  budget[k] = Budget[k] /\ ~Spend(k)
  <1>1. budget \in [BudgetKinds -> Nat] /\ Budget \in [BudgetKinds -> Nat]
    BY BudgetType DEF TypeOK, ControllerTypeOK
  <1>2. CASE UNCHANGED budget
    BY <1>1, <1>2 DEF Spend
  <1>3. ASSUME NEW j \in BudgetKinds, Spend(j) PROVE budget[k] = Budget[k] /\ ~Spend(k)
    BY <1>1, <1>3 DEF WithinBudget, Spend
  <1>. QED
    BY <1>2, <1>3, BudgetSteps

\* In particular, as long as no save is lost, the attempts and the commands end
\* with a save.
LEMMA SavesSucceed ==
  ASSUME TypeOK, WithinBudget, [Next]_vars, NoSaveLost'
  PROVE  /\ NoSaveLost /\ ~Crash /\ ~SaveError
         /\ \A v \in VMs : CommandError(v) => api[v] # "save"
  <1>1. "save" \in BudgetKinds /\ "crash" \in BudgetKinds
    BY DEF BudgetKinds
  <1>2. NoSaveLost /\ ~Spend("save") /\ ~Spend("crash")
    BY <1>1, Unspent DEF NoSaveLost
  <1>. QED
    BY ZenonT(30), <1>2 DEF Crash, SaveError, CommandError

(***************************************************************************)
(* What the steps do to the worker's copy, to the links and to the VMMs.   *)
(***************************************************************************)

\* Reading the spec.
LEMMA ReadEffect ==
  ASSUME TypeOK, ReadStep
  PROVE  /\ mem = NoSpec /\ UNCHANGED <<store, hostVars, historyVars>>
         /\ did' = did \/ did' = FALSE
         /\ \/ mem' = NoSpec /\ pc' \in {"idle", "get"}
            \/ /\ cur \in Stored /\ mem' = store[cur] /\ cur' = cur
               /\ pc' \in {"plan", "failed"} /\ mem' # NoSpec
  <1>1. pc \in {"idle", "get"}
    BY ZenonT(30) DEF ReadStep, Dequeue, GetNotFound, GetError, Get
  <1>2. mem = NoSpec /\ (pc = "get" => cur \in VMs)
    BY <1>1 DEF TypeOK, WorkerTypeOK
  <1>3. UNCHANGED <<store, hostVars, historyVars>>
    BY ZenonT(30) DEF ReadStep, Dequeue, GetNotFound, GetError, Get
  <1>4. did' = did \/ did' = FALSE
    BY ZenonT(30) DEF ReadStep, Dequeue, GetNotFound, GetError, Get, Return, ReturnError, Goto
  <1>5. CASE Dequeue \/ GetNotFound \/ GetError
    BY ZenonT(30), <1>2, <1>3, <1>4, <1>5 DEF Dequeue, GetNotFound, GetError, ReturnError
  <1>6. CASE Get
    <2>1. cur \in Stored /\ store[cur] # NoSpec
      BY <1>2, <1>6 DEF Get, Stored
    <2>2. \/ Return
          \/ mem' = store[cur] /\ (Goto("failed") \/ Goto("plan"))
      BY ZenonT(30), <1>6 DEF Get
    <2>. QED
      BY ZenonT(30), <1>2, <1>3, <1>4, <2>1, <2>2 DEF Return, Goto
  <1>. QED
    BY ZenonT(30), <1>5, <1>6 DEF ReadStep

\* IfaceCreate for interface n of the worker's microvm, under the name d, which
\* the worker's copy records; LinkSetUp or LinkSetMaster can fail.
NewLink(n, d) ==
  /\ AtStep(<<"iface_create", n>>) /\ ~mem.deleted
  /\ link[d] = NoVM /\ mem.ifaces[n] \in {NoDev, d}
  /\ cur' = cur /\ mem' = [mem EXCEPT !.ifaces[n] = d]
  /\ link' = [link EXCEPT ![d] = cur]
  /\ attached' = attached \cup {d} \/ (attached' = attached /\ Spend("step"))

\* Only these steps change a link.
LEMMA LinkSteps ==
  ASSUME TypeOK, Deletion, AttemptStep
  PROVE  \/ UNCHANGED <<link, attached>>
         \/ \E n \in Ifaces, d \in Devs : NewLink(n, d)
         \/ \E n \in Ifaces : RemoveIface(n)
  <1>1. ASSUME NEW n \in Ifaces, AtStep(<<"iface_create", n>>)
        PROVE  ~mem.deleted
    BY Zenon, <1>1, StepTellsPlan DEF Deletion
  <1>2. ASSUME NEW n \in Ifaces, NewIface(n)
        PROVE  UNCHANGED <<link, attached>> \/ \E d \in Devs : NewLink(n, d)
    <2>1. AtStep(<<"iface_create", n>>) /\ cur' = cur
      BY <1>2 DEF NewIface, Done, Proceed
    <2>2. CASE IfaceExists(mem.ifaces[n], FALSE)
      BY <1>2, <2>2 DEF NewIface, hostVars
    <2>3. CASE ~IfaceExists(mem.ifaces[n], FALSE)
      <3>1. PICK d \in Devs : /\ IF mem.ifaces[n] = NoDev THEN FreshName(d) ELSE d = mem.ifaces[n]
                              /\ mem' = [mem EXCEPT !.ifaces[n] = d]
                              /\ IfaceCreate(cur, d)
        BY <1>2, <2>3 DEF NewIface
      <3>2. link[d] = NoVM /\ mem.ifaces[n] \in {NoDev, d}
        BY <2>3, <3>1 DEF FreshName, IfaceExists
      <3>. QED
        BY ZenonT(30), <1>1, <2>1, <3>1, <3>2 DEF NewLink, IfaceCreate
    <2>. QED
      BY ZenonT(30), <2>2, <2>3
  <1>3. ASSUME NEW n \in Ifaces, NewIfaceError(n)
        PROVE  UNCHANGED <<link, attached>> \/ \E d \in Devs : NewLink(n, d)
    <2>1. AtStep(<<"iface_create", n>>) /\ cur' = cur /\ Spend("step")
      BY <1>3 DEF NewIfaceError, Failed, Goto
    <2>2. ~IfaceExists(mem.ifaces[n], FALSE)
      BY <1>3 DEF NewIfaceError, ShouldDo, ShouldCreateIface, IfaceExists
    <2>3. PICK d \in Devs : /\ IF mem.ifaces[n] = NoDev THEN FreshName(d) ELSE d = mem.ifaces[n]
                            /\ mem' = [mem EXCEPT !.ifaces[n] = d]
                            /\ UNCHANGED hostVars \/ LinkAdd(cur, d)
      BY <1>3 DEF NewIfaceError
    <2>4. link[d] = NoVM /\ mem.ifaces[n] \in {NoDev, d}
      BY <2>2, <2>3 DEF FreshName, IfaceExists
    <2>. QED
      BY ZenonT(30), <1>1, <2>1, <2>3, <2>4 DEF NewLink, LinkAdd, hostVars
  <1>4. CASE \/ PlanError \/ PlanCreate \/ \E s \in Steps : Skip(s) \/ StepError(s)
             \/ DirCreate \/ DirDelete \/ \E i \in Images : Mount(i)
             \/ \E n \in Ifaces : NoIfaceName(n)
             \/ CreateStart \/ CreateSetPid \/ CreateSetPidError \/ CreateError \/ Start
             \/ DeleteVMM \/ Release \/ PublishDeleted
    BY ZenonT(30), <1>4 DEF PlanError, PlanCreate, PlanDone, Skip, StepError, DirCreate, DirDelete,
       Mount, NoIfaceName, CreateStart, CreateSetPid, CreateSetPidError, CreateError, Start,
       DeleteVMM, Release, PublishDeleted, hostVars, MakeDir, RemoveDir, PullAndMount,
       CollectSnapshots, StartVMM, SetPid, LosePids, Terminated, Signalled
  <1>. QED
    BY Zenon, <1>2, <1>3, <1>4 DEF AttemptStep

\* Only these steps change which VMM a pid file names.
LEMMA VMMSteps ==
  ASSUME AttemptStep
  PROVE  UNCHANGED vmm \/ vmm' = [vmm EXCEPT ![cur] = NoProc] \/ CreateSetPid
  BY ZenonT(30) DEF AttemptStep, PlanError, PlanCreate, PlanDone, Skip, StepError, DirCreate,
     DirDelete, Mount, NewIface, NewIfaceError, NoIfaceName, RemoveIface, CreateStart,
     CreateSetPidError, CreateError, Start, DeleteVMM, Release, PublishDeleted, hostVars, MakeDir,
     RemoveDir, PullAndMount, CollectSnapshots, IfaceCreate, LinkAdd, IfaceDelete, StartVMM,
     LosePids, Terminated, Signalled

\* A name that the worker's copy has it keeps, and it gains one only in a step of
\* the create plan, which is executed or fails.
LEMMA NameSteps ==
  ASSUME TypeOK, Deletion, AttemptStep
  PROVE  \/ Return
         \/ /\ \A n \in Ifaces : mem.ifaces[n] # NoDev => mem'.ifaces[n] = mem.ifaces[n]
            /\ mem'.ifaces # mem.ifaces => ~mem.deleted /\ (did' \/ pc' = "reschedule")
  <1>1. mem \in Specs /\ mem.ifaces \in IfaceStatus
    <2>1. pc \in {"plan", "react", "setpid"}
      BY ZenonT(30), AttemptSteps DEF AttemptStep
    <2>. QED
      BY <2>1, Busy DEF TypeOK, Specs
  <1>2. ASSUME mem'.ifaces = mem.ifaces
        PROVE  /\ \A n \in Ifaces : mem.ifaces[n] # NoDev => mem'.ifaces[n] = mem.ifaces[n]
               /\ mem'.ifaces # mem.ifaces => ~mem.deleted /\ (did' \/ pc' = "reschedule")
    BY Zenon, <1>2
  <1>3. ASSUME NEW n \in Ifaces, NEW d \in Devs, AtStep(<<"iface_create", n>>),
               mem.ifaces[n] \in {NoDev, d}, mem' = [mem EXCEPT !.ifaces[n] = d],
               did' \/ pc' = "reschedule"
        PROVE  /\ \A m \in Ifaces : mem.ifaces[m] # NoDev => mem'.ifaces[m] = mem.ifaces[m]
               /\ mem'.ifaces # mem.ifaces => ~mem.deleted /\ (did' \/ pc' = "reschedule")
    <2>1. ~mem.deleted
      BY Zenon, <1>3, StepTellsPlan DEF Deletion
    <2>2. mem'.ifaces = [mem.ifaces EXCEPT ![n] = d]
      BY <1>1, <1>3, IfaceFields
    <2>. QED
      BY <1>1, <1>3, <2>1, <2>2 DEF IfaceStatus
  <1>4. ASSUME NEW n \in Ifaces, NewIface(n) \/ NewIfaceError(n), mem' # mem
        PROVE  \E d \in Devs : /\ AtStep(<<"iface_create", n>>) /\ mem.ifaces[n] \in {NoDev, d}
                               /\ mem' = [mem EXCEPT !.ifaces[n] = d]
                               /\ did' \/ pc' = "reschedule"
    <2>1. AtStep(<<"iface_create", n>>)
      BY Zenon, <1>4 DEF NewIface, NewIfaceError
    <2>2. did' \/ pc' = "reschedule"
      BY Zenon, <1>4 DEF NewIface, NewIfaceError, Done, Failed, Goto
    <2>3. \E d \in Devs : /\ mem.ifaces[n] \in {NoDev, d}
                          /\ mem' = [mem EXCEPT !.ifaces[n] = d]
      BY ZenonT(30), <1>4 DEF NewIface, NewIfaceError
    <2>. QED
      BY Zenon, <2>1, <2>2, <2>3
  <1>5. CASE PlanCreate \/ PlanError
    <2>1. \/ Return \/ mem' = mem \/ mem' = EnsureStatus(mem)
          \/ mem' = [EnsureStatus(mem) EXCEPT !.retry = 0, !.notBefore = FALSE]
      BY ZenonT(30), <1>5 DEF PlanCreate, PlanDone, PlanError
    <2>2. Return \/ mem'.ifaces = mem.ifaces
      BY Zenon, <1>1, <2>1, CopyFields
    <2>. QED
      BY Zenon, <1>2, <2>2
  <1>6. CASE \/ \E s \in Steps : Skip(s) \/ StepError(s)
             \/ DirCreate \/ DirDelete
             \/ \E n \in Ifaces : NoIfaceName(n) \/ RemoveIface(n)
             \/ CreateStart \/ CreateSetPid \/ CreateSetPidError \/ CreateError \/ Start
             \/ DeleteVMM \/ Release \/ PublishDeleted
    <2>1. mem' = mem
      BY ZenonT(30), <1>6 DEF Skip, StepError, DirCreate, DirDelete, NoIfaceName, RemoveIface,
         CreateStart, CreateSetPid, CreateSetPidError, CreateError, Start, DeleteVMM, Release,
         PublishDeleted
    <2>. QED
      BY Zenon, <1>2, <2>1
  <1>7. ASSUME NEW i \in Images, Mount(i) PROVE mem'.ifaces = mem.ifaces
    <2>1. mem' = mem \/ mem' = [mem EXCEPT !.mounts = @ \cup {i}]
      BY Zenon, <1>7 DEF Mount
    <2>. QED
      BY Zenon, <1>1, <2>1, MountFields
  <1>8. ASSUME NEW n \in Ifaces, NewIface(n) \/ NewIfaceError(n)
        PROVE  /\ \A m \in Ifaces : mem.ifaces[m] # NoDev => mem'.ifaces[m] = mem.ifaces[m]
               /\ mem'.ifaces # mem.ifaces => ~mem.deleted /\ (did' \/ pc' = "reschedule")
    BY Zenon, <1>2, <1>3, <1>4, <1>8
  <1>. QED
    BY Zenon, <1>2, <1>5, <1>6, <1>7, <1>8 DEF AttemptStep

\* What the other steps leave alone.
LEMMA SaveEffect ==
  ASSUME SaveStep
  PROVE  /\ UNCHANGED <<hostVars, historyVars>>
         /\ mem' = NoSpec /\ did' = FALSE /\ pc' = "idle" /\ cur' = NoVM
  BY ZenonT(30) DEF SaveStep, Reschedule, SaveState, SaveError, Return, ReturnError

\* A command of the API leaves the host and the worker alone.
LEMMA CommandEffect ==
  ASSUME NEW v \in VMs, CommandStep(v)
  PROVE  UNCHANGED <<hostVars, workerVars, historyVars>> /\ used \subseteq used'
  BY ZenonT(30) DEF CommandStep, CreateSave, DeleteGet, DeleteSave, CommandPublish, CommandError

\* The death of a VMM takes only its own process away.
LEMMA ExitEffect ==
  ASSUME NEW v \in VMs, VMMExit(v)
  PROVE  /\ UNCHANGED <<store, workerVars, historyVars, apiVars>>
         /\ UNCHANGED <<dirs, snaps, link, attached, starting>>
         /\ vmm' = [vmm EXCEPT ![v] = NoProc]
  BY ZenonT(30) DEF VMMExit, Terminated

\* A crash forgets the worker and leaves the host as it is.
LEMMA CrashEffect ==
  ASSUME Crash
  PROVE  /\ UNCHANGED <<store, historyVars, used, dirs, snaps, link, attached, vmm, killed>>
         /\ mem' = NoSpec /\ did' = FALSE /\ pc' = "idle" /\ cur' = NoVM
         /\ api' = [v \in VMs |-> "none"]
  BY ZenonT(30) DEF Crash, LosePids

\* The worker holds a copy of a created microvm while it works on a plan.
LEMMA AttemptAt ==
  ASSUME TypeOK, Deletion, AttemptStep
  PROVE  /\ pc \in {"plan", "react", "setpid"} /\ cur \in VMs /\ cur \in used
         /\ mem \in Specs /\ mem # NoSpec /\ mem.ifaces \in IfaceStatus
         /\ Return \/ Attempting
  <1>1. pc \in {"plan", "react", "setpid"} /\ (Return \/ Attempting)
    BY ZenonT(30), AttemptSteps DEF AttemptStep
  <1>2. cur \in VMs /\ mem \in Specs
    BY <1>1, Busy DEF TypeOK
  <1>3. mem # NoSpec /\ mem.ifaces \in IfaceStatus
    BY <1>2, NoSpecFresh DEF Specs
  <1>4. cur \in used
    BY <1>3 DEF Deletion, WorkerCopy
  <1>. QED
    BY <1>1, <1>2, <1>3, <1>4

(***************************************************************************)
(* Links are attached, and belong to microvms that were created.           *)
(***************************************************************************)

Links == WithinBudget /\ LinksUp /\ Untouched

\* Links holds initially, with nothing on the host.
LEMMA InitLinks == Init => Links
  <1>. SUFFICES ASSUME Init PROVE Links
    OBVIOUS
  <1>1. WithinBudget
    BY BudgetType DEF Init, WithinBudget
  <1>2. LinksUp /\ Untouched
    BY HostFresh DEF Init, HostInit, LinksUp, Untouched
  <1>. QED
    BY <1>1, <1>2 DEF Links

\* Links is inductive, given the types and the invariant of the deletion.
LEMMA NextLinks == TypeOK /\ Deletion /\ Links /\ [Next]_vars => Links'
  <1>. SUFFICES ASSUME TypeOK, Deletion, Links, [Next]_vars PROVE Links'
    OBVIOUS
  <1>1. WithinBudget'
    BY NextBudget DEF Links
  <1>2. budget'["step"] = Budget["step"] => budget["step"] = Budget["step"] /\ ~Spend("step")
    <2>1. "step" \in BudgetKinds
      BY DEF BudgetKinds
    <2>. QED
      BY <2>1, Unspent DEF Links
  <1>3. ASSUME UNCHANGED <<link, attached>> PROVE LinksUp'
    BY <1>2, <1>3 DEF Links, LinksUp
  <1>4. ASSUME UNCHANGED <<link, vmm>>, used \subseteq used' PROVE Untouched'
    BY <1>4 DEF Links, Untouched
  <1>5. /\ link \in [Devs -> VMs \cup {NoVM}] /\ vmm \in [VMs -> IfaceStatus \cup {NoProc}]
        /\ used \subseteq VMs
    BY DEF TypeOK, HostTypeOK, ApiTypeOK
  <1>6. CASE (ReadStep \/ SaveStep) /\ UNCHANGED apiVars
    <2>1. UNCHANGED <<link, attached, vmm, used>>
      BY ZenonT(30), <1>6, ReadEffect, SaveEffect DEF hostVars, apiVars
    <2>. QED
      BY <1>1, <1>3, <1>4, <2>1 DEF Links
  <1>7. CASE AttemptStep /\ UNCHANGED apiVars
    <2>1. UNCHANGED used /\ cur \in used
      BY <1>7, AttemptAt DEF apiVars
    <2>2. LinksUp'
      <3>1. ASSUME NEW n \in Ifaces, NEW d \in Devs, NewLink(n, d) PROVE LinksUp'
        BY <1>2, <1>5, <3>1 DEF Links, LinksUp, NewLink
      <3>2. ASSUME NEW n \in Ifaces, RemoveIface(n) PROVE LinksUp'
        BY <1>2, <1>5, <3>2 DEF Links, LinksUp, RemoveIface, IfaceDelete
      <3>. QED
        BY <1>3, <1>7, <3>1, <3>2, LinkSteps
    <2>3. \A v \in VMs \ used : \A d \in Devs : link'[d] # v
      <3>1. ASSUME NEW n \in Ifaces, NEW d \in Devs, NewLink(n, d)
            PROVE  \A v \in VMs \ used : \A e \in Devs : link'[e] # v
        BY <1>5, <2>1, <3>1 DEF Links, Untouched, NewLink
      <3>2. ASSUME NEW n \in Ifaces, RemoveIface(n)
            PROVE  \A v \in VMs \ used : \A e \in Devs : link'[e] # v
        BY <1>5, <3>2, HostFresh DEF Links, Untouched, RemoveIface, IfaceDelete
      <3>3. CASE UNCHANGED link
        BY <3>3 DEF Links, Untouched
      <3>. QED
        BY <1>7, <3>1, <3>2, <3>3, LinkSteps
    <2>4. \A v \in VMs \ used : vmm'[v] = NoProc
      <3>1. CASE UNCHANGED vmm
        BY <3>1 DEF Links, Untouched
      <3>2. CASE vmm' = [vmm EXCEPT ![cur] = NoProc] \/ CreateSetPid
        BY <1>5, <2>1, <3>2 DEF Links, Untouched, CreateSetPid, SetPid
      <3>. QED
        BY <1>7, <3>1, <3>2, VMMSteps
    <2>. QED
      BY <1>1, <2>1, <2>2, <2>3, <2>4 DEF Links, Untouched
  <1>8. ASSUME NEW v \in VMs, CommandStep(v) PROVE Links'
    <2>1. UNCHANGED <<link, attached, vmm>> /\ used \subseteq used'
      BY <1>8, CommandEffect DEF hostVars
    <2>. QED
      BY <1>1, <1>3, <1>4, <2>1 DEF Links
  <1>9. ASSUME NEW v \in VMs, VMMExit(v) PROVE Links'
    <2>1. UNCHANGED <<link, attached, used>> /\ vmm' = [vmm EXCEPT ![v] = NoProc]
      BY <1>9, ExitEffect DEF apiVars
    <2>2. Untouched'
      BY <1>5, <2>1 DEF Links, Untouched
    <2>. QED
      BY <1>1, <1>3, <2>1, <2>2 DEF Links
  <1>10. CASE ControllerStep \/ Crash \/ UNCHANGED vars
    <2>1. UNCHANGED <<link, attached, vmm, used>>
      BY ZenonT(30), <1>10, CrashEffect, ControllerIdle DEF Idle, hostVars, apiVars
    <2>. QED
      BY <1>1, <1>3, <1>4, <2>1 DEF Links
  <1>. QED
    BY Zenon, <1>6, <1>7, <1>8, <1>9, <1>10, StepsOfNext

\* Links are made only for microvms that CreateMicroVM has saved, and as long as
\* no step fails they are up and attached.
THEOREM LinksHold == SafeSpec => []Links
  BY InitType, NextType, InitDeletion, NextDeletion, InitLinks, NextLinks, PTL DEF SafeSpec

(***************************************************************************)
(* The create plan.                                                        *)
(***************************************************************************)

\* Why a step of the create plan is left out, or skipped.
LEMMA NotToDo ==
  ASSUME NEW v, NEW m, NEW blind
  PROVE  /\ \A n \in Ifaces : ~ShouldDo(<<"iface_create", n>>, v, m, blind)
                                => IfaceExists(m.ifaces[n], FALSE)
         /\ \A i \in Images : ~ShouldDo(<<"mount", i>>, v, m, blind) => i \in snaps[v]
  BY DEF ShouldDo, ShouldCreateIface, ShouldMount, IfaceExists

\* What a create plan leaves out is there.
LEMMA PlanLeavesOut ==
  ASSUME NEW v, NEW m, NEW blind, ~m.deleted
  PROVE  /\ \A n \in Ifaces : \/ <<"iface_create", n>> \in Plan(v, m, blind)
                              \/ IfaceExists(m.ifaces[n], FALSE)
         /\ \A i \in Images : <<"mount", i>> \in Plan(v, m, blind) \/ i \in snaps[v]
  <1>1. /\ \A n \in Ifaces : <<"iface_create", n>> \in CreateSteps
        /\ \A i \in Images : <<"mount", i>> \in CreateSteps
    BY DEF CreateSteps
  <1>2. \A s \in CreateSteps : s \in Plan(v, m, blind) \/ ~ShouldDo(s, v, m, blind)
    BY DEF Plan, CreatePlan
  <1>. QED
    BY ZenonT(30), <1>1, <1>2, NotToDo

\* When its turn comes to create the VMM, the interfaces are done with.
LEMMA CreateOrder == AtStep(<<"create">>) => \A n : <<"iface_create", n>> \notin todo
  BY DEF AtStep, First, Order

\* CreatePlanProgress holds initially, without an attempt.
LEMMA InitCreate == Init => CreatePlanProgress
  BY DEF Init, CreatePlanProgress

\* CreatePlanProgress is inductive, given the same and Links.
LEMMA NextCreate ==
  TypeOK /\ Deletion /\ CreatePlanProgress /\ [Next]_vars => CreatePlanProgress'
  <1>. SUFFICES ASSUME TypeOK, Deletion, CreatePlanProgress, [Next]_vars
                PROVE  CreatePlanProgress'
    OBVIOUS
  <1>1. ASSUME pc' \notin {"react", "setpid", "created"} PROVE CreatePlanProgress'
    BY Zenon, <1>1 DEF CreatePlanProgress
  <1>2. ASSUME UNCHANGED <<workerVars, link, snaps, starting>> PROVE CreatePlanProgress'
    BY <1>2 DEF CreatePlanProgress, workerVars, Named, IfaceExists
  <1>3. CASE (ReadStep \/ SaveStep) /\ UNCHANGED apiVars
    <2>1. pc' \in {"idle", "get", "plan", "failed"}
      BY Zenon, <1>3, ReadEffect, SaveEffect
    <2>. QED
      BY <1>1, <2>1
  <1>4. CASE AttemptStep /\ UNCHANGED apiVars
    <2>1. /\ cur \in VMs /\ mem \in Specs /\ mem.ifaces \in IfaceStatus
          /\ pc \in {"plan", "react", "setpid"} /\ (Return \/ Attempting)
      BY <1>4, AttemptAt
    \* A step is done or skipped.
    <2>2. ASSUME NEW s, Proceed(s), pc = "react", mem'.deleted = mem.deleted,
                 \A n \in Ifaces : mem.ifaces[n] # NoDev => mem'.ifaces[n] = mem.ifaces[n],
                 \A n \in Ifaces : s = <<"iface_create", n>> => mem'.ifaces[n] # NoDev
          PROVE  CreatePlanProgress'
      <3>1. pc' \in {"plan", "react"} /\ todo' = todo \ {s}
        BY <2>2 DEF Proceed
      <3>. QED
        BY Zenon, <2>2, <3>1 DEF CreatePlanProgress
    <2>3. CASE PlanCreate
      <3>1. PICK blind \in SUBSET Ifaces :
              LET steps == Plan(cur, mem, blind)
              IN  IF steps = {} THEN PlanDone
                  ELSE /\ todo' = steps /\ mem' = EnsureStatus(mem) /\ Goto("react")
                       /\ UNCHANGED <<store, hostVars, timerVars, evts, ctl, historyVars>>
        BY ZenonT(30), <2>3 DEF PlanCreate
      <3>2. UNCHANGED <<link, snaps>>
        BY ZenonT(30), <3>1 DEF PlanDone, hostVars
      <3>3. CASE Plan(cur, mem, blind) = {}
        <4>1. \/ pc' = "idle"
              \/ /\ ~mem.deleted /\ pc' = "created" /\ cur' = cur
                 /\ mem' = [EnsureStatus(mem) EXCEPT !.retry = 0, !.notBefore = FALSE]
          BY ZenonT(30), <3>1, <3>3 DEF PlanDone, Return, Goto
        <4>2. CASE pc' = "idle"
          BY <1>1, <4>2
        <4>3. CASE pc' # "idle"
          <5>1. mem'.ifaces = mem.ifaces /\ mem'.deleted = mem.deleted
            BY Zenon, <2>1, <4>1, <4>3, CopyFields
          <5>2. /\ Images \subseteq snaps[cur]
                /\ \A n \in Ifaces : IfaceExists(mem.ifaces[n], FALSE)
            BY ZenonT(30), <3>3, <4>1, <4>3, PlanLeavesOut
          <5>. QED
            BY <3>2, <4>1, <4>3, <5>1, <5>2 DEF CreatePlanProgress, IfaceExists
        <4>. QED
          BY <4>2, <4>3
      <3>4. CASE Plan(cur, mem, blind) # {}
        <4>1. todo' = Plan(cur, mem, blind) /\ pc' = "react" /\ mem' = EnsureStatus(mem)
          BY ZenonT(30), <3>1, <3>4 DEF Goto
        <4>2. mem'.ifaces = mem.ifaces /\ mem'.deleted = mem.deleted
          BY Zenon, <2>1, <4>1, CopyFields
        <4>3. ~mem.deleted =>
                \A n \in Ifaces : <<"iface_create", n>> \in todo' \/ mem.ifaces[n] # NoDev
          BY ZenonT(30), <4>1, PlanLeavesOut DEF IfaceExists
        <4>. QED
          BY <4>1, <4>2, <4>3 DEF CreatePlanProgress
      <3>. QED
        BY <3>3, <3>4
    <2>4. ASSUME NEW s \in Steps, Skip(s) PROVE CreatePlanProgress'
      <3>1. pc = "react" /\ Proceed(s) /\ mem' = mem
        BY <2>4 DEF Skip, AtStep
      <3>2. PICK blind \in SUBSET Ifaces : ~ShouldDo(s, cur, mem, blind)
        BY <2>4 DEF Skip
      <3>3. \A n \in Ifaces : s = <<"iface_create", n>> => mem.ifaces[n] # NoDev
        BY <3>2, NotToDo DEF IfaceExists
      <3>. QED
        BY <2>2, <3>1, <3>3
    <2>5. CASE DirCreate \/ DirDelete \/ (\E i \in Images : Mount(i)) \/ DeleteVMM \/ Release
               \/ PublishDeleted \/ \E n \in Ifaces : RemoveIface(n)
      <3>. DEFINE OtherStep(s) == \A n \in Ifaces : s # <<"iface_create", n>>
      <3>1. pc = "react" /\ (pc' = "reschedule" \/ \E s : Proceed(s) /\ OtherStep(s))
        <4>1. /\ OtherStep(<<"dir_create">>) /\ OtherStep(<<"dir_delete">>)
              /\ OtherStep(<<"delete">>) /\ OtherStep(<<"release">>) /\ OtherStep(<<"publish">>)
              /\ \A x : OtherStep(<<"mount", x>>) /\ OtherStep(<<"iface_delete", x>>)
          OBVIOUS
        <4>. QED
          BY ZenonT(30), <2>5, <4>1 DEF DirCreate, DirDelete, Mount, DeleteVMM, Release,
             PublishDeleted, RemoveIface, AtStep, Done, Failed, Goto
      <3>2. mem'.deleted = mem.deleted /\ mem'.ifaces = mem.ifaces
        <4>1. mem' = mem \/ \E i \in Images : mem' = [mem EXCEPT !.mounts = @ \cup {i}]
          BY ZenonT(30), <2>5 DEF DirCreate, DirDelete, Mount, DeleteVMM, Release, PublishDeleted,
             RemoveIface
        <4>2. ASSUME NEW i \in Images, mem' = [mem EXCEPT !.mounts = @ \cup {i}]
              PROVE  mem'.deleted = mem.deleted /\ mem'.ifaces = mem.ifaces
          BY Zenon, <2>1, <4>2, MountFields
        <4>. QED
          BY Zenon, <4>1, <4>2
      <3>3. ASSUME NEW s, Proceed(s), OtherStep(s) PROVE CreatePlanProgress'
        BY <2>2, <3>1, <3>2, <3>3
      <3>. QED
        BY <1>1, <3>1, <3>3
    <2>6. ASSUME NEW n \in Ifaces, NewIface(n) PROVE CreatePlanProgress'
      <3>1. pc = "react" /\ Proceed(<<"iface_create", n>>) /\ pc' \in {"plan", "react"}
        BY <2>6 DEF NewIface, AtStep, Done, Proceed
      <3>2. mem'.deleted = mem.deleted /\ \A m \in Ifaces :
              mem.ifaces[m] # NoDev => mem'.ifaces[m] = mem.ifaces[m]
        BY ZenonT(30), <1>4, <2>1, <3>1, NameSteps DEF Attempting, Return
      <3>3. mem'.ifaces[n] # NoDev
        <4>1. CASE IfaceExists(mem.ifaces[n], FALSE)
          BY <2>6, <4>1 DEF NewIface, IfaceExists
        <4>2. ASSUME NEW d \in Devs, mem' = [mem EXCEPT !.ifaces[n] = d]
              PROVE  mem'.ifaces[n] # NoDev
          <5>1. mem'.ifaces = [mem.ifaces EXCEPT ![n] = d]
            BY <2>1, <4>2, IfaceFields
          <5>. QED
            BY <2>1, <5>1, NoDevFresh DEF IfaceStatus
        <4>. QED
          BY Zenon, <2>6, <4>1, <4>2 DEF NewIface
      <3>4. \A m \in Ifaces : <<"iface_create", n>> = <<"iface_create", m>> => m = n
        OBVIOUS
      <3>. QED
        BY <2>2, <3>1, <3>2, <3>3, <3>4
    <2>7. CASE CreateStart
      <3>1. /\ AtStep(<<"create">>) /\ pc = "react" /\ pc' = "setpid" /\ UNCHANGED <<cur, mem>>
            /\ starting' = [starting EXCEPT ![cur] = mem.ifaces]
        BY <2>7 DEF CreateStart, AtStep, Goto, StartVMM
      <3>2. starting'[cur] = mem.ifaces
        BY <2>1, <3>1 DEF TypeOK, HostTypeOK
      <3>3. Named(mem)
        <4>1. ~mem.deleted
          BY Zenon, <3>1, StepTellsPlan DEF Deletion
        <4>. QED
          BY ZenonT(30), <3>1, <4>1, CreateOrder DEF CreatePlanProgress, Named
      <3>. QED
        BY <3>1, <3>2, <3>3 DEF CreatePlanProgress, Named
    <2>8. CASE CreateSetPid
      <3>1. pc = "setpid" /\ pc' \in {"plan", "react"} /\ mem' = mem
        BY <2>8 DEF CreateSetPid, Done, Proceed
      <3>. QED
        BY ZenonT(30), <3>1 DEF CreatePlanProgress, Named
    <2>9. CASE \/ PlanError \/ \E s \in Steps : StepError(s)
               \/ \E n \in Ifaces : NewIfaceError(n) \/ NoIfaceName(n)
               \/ CreateSetPidError \/ CreateError \/ Start
      <3>1. pc' = "reschedule"
        BY ZenonT(30), <2>9 DEF PlanError, StepError, NewIfaceError, NoIfaceName,
           CreateSetPidError, CreateError, Start, Failed, Goto
      <3>. QED
        BY <1>1, <3>1
    <2>. QED
      BY Zenon, <1>4, <2>3, <2>4, <2>5, <2>6, <2>7, <2>8, <2>9 DEF AttemptStep
  <1>5. ASSUME NEW v \in VMs, CommandStep(v) \/ VMMExit(v) PROVE CreatePlanProgress'
    BY <1>2, <1>5, CommandEffect, ExitEffect DEF hostVars
  <1>6. CASE ControllerStep \/ Crash \/ UNCHANGED vars
    BY ZenonT(30), <1>1, <1>2, <1>6, CrashEffect, ControllerIdle DEF Idle, hostVars
  <1>. QED
    BY Zenon, <1>3, <1>4, <1>5, <1>6, StepsOfNext

\* The create plan names every interface before it starts the VMM, and the created
\* state is saved only when the mounts and the links are there.
THEOREM CreatePlanHolds == SafeSpec => []CreatePlanProgress
  BY InitType, NextType, InitDeletion, NextDeletion, InitCreate, NextCreate, PTL DEF SafeSpec

\* A microvm that executePlan is about to report as created has its links up and
\* attached, unless a call failed.
THEOREM CreatedLinksAttached == SafeSpec => []CreatedIsAttached
  <1>1. LinksUp /\ CreatePlanProgress /\ TypeOK => CreatedIsAttached
    <2>. SUFFICES ASSUME LinksUp, CreatePlanProgress, TypeOK, pc = "created",
                         budget["step"] = Budget["step"], NEW n \in Ifaces
                  PROVE  mem.ifaces[n] \in attached
      BY DEF CreatedIsAttached
    <2>1. mem \in Specs
      BY Busy DEF TypeOK
    <2>2. mem.ifaces[n] \in Devs \cup {NoDev}
      BY <2>1 DEF Specs, IfaceStatus
    <2>3. mem.ifaces[n] # NoDev /\ link[mem.ifaces[n]] # NoVM
      BY DEF CreatePlanProgress, IfaceExists
    <2>. QED
      BY <2>2, <2>3 DEF LinksUp
  <1>2. Links => LinksUp
    BY DEF Links
  <1>. QED
    BY <1>1, <1>2, LinksHold, CreatePlanHolds, TypeCorrect, PTL

=============================================================================
