-------------------------- MODULE Flintlock_proofs --------------------------
(***************************************************************************)
(* Proofs about Flintlock, for any number of microvms, images, interfaces  *)
(* and link names, any MaximumRetry and any budget of failures:            *)
(* type correctness, and that a deleted microvm stays deleted and stopped. *)
(***************************************************************************)
EXTENDS Flintlock, SequenceTheorems, TLAPS

(***************************************************************************)
(* The repository.                                                         *)
(***************************************************************************)

\* A Save leaves visible the blob that was there or the one it wrote, and the
\* one it wrote has the fields of the caller's copy.
LEMMA SaveChooses ==
  ASSUME NEW old \in Specs \cup {NoSpec}, NEW mvm \in Specs,
         NEW s \in SaveStamped(old, mvm)
  PROVE  /\ s \in Specs
         /\ s = old \/ s = Written(mvm)
  <1>1. Written(mvm) \in Specs
    BY DEF Written, Specs
  <1>2. s \in Visible(old, Written(mvm)) \/ (old # NoSpec /\ s = old)
    BY DEF SaveStamped, Save
  <1>. QED
    BY <1>1, <1>2 DEF Visible

\* Save is the case of SaveStamped in which equal contents are recognised.
LEMMA SaveIsSaveStamped ==
  ASSUME NEW old, NEW mvm
  PROVE  Save(old, mvm) \subseteq SaveStamped(old, mvm)
  BY DEF SaveStamped

\* Saving keeps the deletion mark of the caller's copy.
LEMMA WrittenKeepsMark ==
  ASSUME NEW mvm \in Specs
  PROVE  Written(mvm) \in Specs /\ Written(mvm).deleted = mvm.deleted
  BY DEF Written, Specs

\* The spec CreateMicroVM saves is a spec.
LEMMA NewSpecType == NewSpec \in Specs
  <1>1. [n \in Ifaces |-> NoDev] \in IfaceStatus
    BY DEF IfaceStatus
  <1>2. "pending" \in States /\ {} \in SUBSET Images /\ 0 \in Nat
    BY DEF States
  <1>. QED
    BY <1>1, <1>2 DEF NewSpec, Specs

\* What the worker does to its copy of the spec.
LEMMA StatusUpdates ==
  ASSUME NEW m \in Specs
  PROVE  /\ EnsureStatus(m) \in Specs /\ EnsureStatus(m).deleted = m.deleted
         /\ LET w == [EnsureStatus(m) EXCEPT !.retry = 0, !.notBefore = FALSE]
            IN  w \in Specs /\ w.deleted = m.deleted
         /\ LET w == [m EXCEPT !.retry = @ + 1, !.notBefore = TRUE]
            IN  w \in Specs /\ w.deleted = m.deleted
         /\ \A st \in States : Finalise(m, st) \in Specs /\ Finalise(m, st).deleted = m.deleted
         /\ \A i \in Images : LET w == [m EXCEPT !.mounts = @ \cup {i}]
                              IN  w \in Specs /\ w.deleted = m.deleted
  <1>1. EnsureStatus(m) \in Specs /\ EnsureStatus(m).deleted = m.deleted
    BY DEF EnsureStatus, Specs, States
  <1>2. ASSUME NEW e \in Specs
        PROVE  LET w == [e EXCEPT !.retry = 0, !.notBefore = FALSE]
               IN  w \in Specs /\ w.deleted = e.deleted
    BY Zenon DEF Specs
  <1>3. LET w == [m EXCEPT !.retry = @ + 1, !.notBefore = TRUE]
        IN  w \in Specs /\ w.deleted = m.deleted
    <2>1. m.retry + 1 \in Nat
      BY DEF Specs
    <2>2. ASSUME NEW r \in Nat
          PROVE  LET w == [m EXCEPT !.retry = r, !.notBefore = TRUE]
                 IN  w \in Specs /\ w.deleted = m.deleted
      BY Zenon DEF Specs
    <2>. QED
      BY Zenon, <2>1, <2>2
  <1>4. ASSUME NEW st \in States
        PROVE  Finalise(m, st) \in Specs /\ Finalise(m, st).deleted = m.deleted
    BY DEF Finalise, Specs
  <1>5. ASSUME NEW i \in Images
        PROVE  LET w == [m EXCEPT !.mounts = @ \cup {i}]
               IN  w \in Specs /\ w.deleted = m.deleted
    BY DEF Specs
  <1>. QED
    BY Zenon, <1>1, <1>2, <1>3, <1>4, <1>5

\* Recording the name of one interface keeps the interface status well typed.
LEMMA IfaceUpdate ==
  ASSUME NEW m \in Specs, NEW n \in Ifaces, NEW d \in Devs
  PROVE  /\ [m EXCEPT !.ifaces[n] = d] \in Specs
         /\ [m EXCEPT !.ifaces[n] = d].deleted = m.deleted
  BY DEF Specs, IfaceStatus

\* What DeleteMicroVM does to its copy.
LEMMA DeleteMark ==
  ASSUME NEW m \in Specs
  PROVE  LET w == [m EXCEPT !.deleted = TRUE, !.retry = 0, !.state = "deleting"]
         IN  w \in Specs /\ w.deleted = TRUE
  BY Zenon DEF Specs, States

(***************************************************************************)
(* The host.                                                               *)
(***************************************************************************)

\* Leaving the host alone keeps its type.
LEMMA HostStutter ==
  ASSUME HostTypeOK, UNCHANGED hostVars
  PROVE  HostTypeOK'
  BY DEF HostTypeOK, hostVars

\* Every operation of the host services keeps the type of the host.
LEMMA HostSteps ==
  ASSUME HostTypeOK, NEW v \in VMs
  PROVE  /\ MakeDir(v) \/ MakeDir(RootDir) => HostTypeOK'
         /\ RemoveDir(v) => HostTypeOK'
         /\ \A i \in Images : PullAndMount(v, i) => HostTypeOK'
         /\ CollectSnapshots(v) => HostTypeOK'
         /\ \A d \in Devs : LinkAdd(v, d) \/ IfaceCreate(v, d) \/ IfaceDelete(d) => HostTypeOK'
         /\ \A ds \in IfaceStatus : StartVMM(v, ds) => HostTypeOK'
         /\ SetPid(v) => HostTypeOK'
         /\ Terminated(v) \/ Signalled(v) => HostTypeOK'
  <1>1. MakeDir(v) \/ MakeDir(RootDir) => HostTypeOK'
    BY DEF HostTypeOK, MakeDir
  <1>2. RemoveDir(v) => HostTypeOK'
    BY DEF HostTypeOK, RemoveDir
  <1>3. \A i \in Images : PullAndMount(v, i) => HostTypeOK'
    BY DEF HostTypeOK, PullAndMount
  <1>4. CollectSnapshots(v) => HostTypeOK'
    BY DEF HostTypeOK, CollectSnapshots
  <1>5. \A d \in Devs : LinkAdd(v, d) \/ IfaceCreate(v, d) \/ IfaceDelete(d) => HostTypeOK'
    BY DEF HostTypeOK, LinkAdd, IfaceCreate, IfaceDelete
  <1>6. \A ds \in IfaceStatus : StartVMM(v, ds) => HostTypeOK'
    BY DEF HostTypeOK, StartVMM
  <1>7. SetPid(v) => HostTypeOK'
    BY DEF HostTypeOK, SetPid
  <1>8. Terminated(v) \/ Signalled(v) => HostTypeOK'
    BY DEF HostTypeOK, Terminated, Signalled
  <1>. QED
    BY <1>1, <1>2, <1>3, <1>4, <1>5, <1>6, <1>7, <1>8

\* So does losing the processes that no pid file names yet.
LEMMA HostLosePids ==
  ASSUME HostTypeOK, LosePids
  PROVE  HostTypeOK'
  BY DEF HostTypeOK, LosePids

(***************************************************************************)
(* The plans.                                                              *)
(***************************************************************************)

\* The kinds of steps of the two plans.
LEMMA StepKinds ==
  /\ \A s \in CreateSteps : s[1] \in {"dir_create", "mount", "iface_create", "create", "start"}
  /\ \A s \in DeleteSteps : s[1] \in {"delete", "release", "iface_delete", "dir_delete"}
  BY DEF CreateSteps, DeleteSteps

\* A plan has steps of its own kind only.
LEMMA PlanSteps ==
  ASSUME NEW v, NEW m, NEW blind
  PROVE  /\ m.deleted => Plan(v, m, blind) \subseteq DeleteSteps \cup {<<"publish">>}
         /\ ~m.deleted => Plan(v, m, blind) \subseteq CreateSteps
  BY DEF Plan, DeletePlan, CreatePlan

(***************************************************************************)
(* Type correctness.                                                       *)
(***************************************************************************)

\* Spending from the budget keeps it a budget.
LEMMA SpendType ==
  ASSUME budget \in [BudgetKinds -> Nat], NEW kind \in BudgetKinds, Spend(kind)
  PROVE  budget' \in [BudgetKinds -> Nat]
  BY DEF Spend

\* The ends and the jumps of the worker keep its types.
LEMMA WorkerJumps ==
  ASSUME WorkerTypeOK, pc # "idle"
  PROVE  /\ Return \/ ReturnError => WorkerTypeOK'
         /\ \A label \in WorkerPC \ {"idle", "get"} :
              (Goto(label) /\ mem' \in Specs /\ todo' \subseteq Steps) => WorkerTypeOK'
         /\ \A s : (Proceed(s) /\ did' \in BOOLEAN /\ mem' \in Specs) => WorkerTypeOK'
  <1>. USE DEF WorkerTypeOK, WorkerPC
  <1>1. Return => WorkerTypeOK'
    BY Zenon DEF Return
  <1>2. ReturnError => WorkerTypeOK'
    <2>1. cur \in VMs
      OBVIOUS
    <2>2. Enqueued(queue, cur) \in Seq(VMs)
      BY <2>1 DEF Enqueued
    <2>. QED
      BY Zenon, <2>2 DEF ReturnError
  <1>3. ASSUME NEW label \in WorkerPC \ {"idle", "get"},
               Goto(label), mem' \in Specs, todo' \subseteq Steps
        PROVE  WorkerTypeOK'
    BY <1>3, NoSpecFresh DEF Goto
  <1>4. ASSUME NEW s, Proceed(s), did' \in BOOLEAN, mem' \in Specs
        PROVE  WorkerTypeOK'
    BY <1>4, NoSpecFresh DEF Proceed
  <1>. QED
    BY <1>1, <1>2, <1>3, <1>4

\* Past the read of the spec the worker has a microvm and a copy of its spec.
LEMMA Busy ==
  ASSUME WorkerTypeOK, pc \notin {"idle", "get"}
  PROVE  cur \in VMs /\ mem \in Specs
  BY DEF WorkerTypeOK

\* What an attempt saves at its end is a spec.
LEMMA OutcomeType ==
  ASSUME WorkerTypeOK, pc \in {"reschedule", "created", "failed"}
  PROVE  Outcome \in Specs /\ Outcome.deleted = mem.deleted
  <1>1. mem \in Specs
    BY Busy
  <1>2. "created" \in States /\ "failed" \in States
    BY DEF States
  <1>. QED
    BY Zenon, <1>1, <1>2, StatusUpdates DEF Outcome

\* Saving a copy: the visible blob is the old one or has the copy's mark.
LEMMA SaveType ==
  ASSUME StoreTypeOK, NEW v \in VMs, NEW m \in Specs,
         \E s \in SaveStamped(store[v], m) : store' = [store EXCEPT ![v] = s]
  PROVE  /\ StoreTypeOK'
         /\ store'[v] \in Specs
         /\ store'[v] = store[v] \/ store'[v].deleted = m.deleted
         /\ \A w \in VMs \ {v} : store'[w] = store[w]
  <1>1. PICK s \in SaveStamped(store[v], m) : store' = [store EXCEPT ![v] = s]
    BY ZenonT(30)
  <1>2. s \in Specs /\ (s = store[v] \/ s = Written(m))
    BY SaveChooses DEF StoreTypeOK
  <1>. QED
    BY <1>1, <1>2, WrittenKeepsMark DEF StoreTypeOK

\* The worker's own moves, which leave host and store alone, keep the types.
LEMMA WorkerQuietType ==
  ASSUME TypeOK,
         \/ Dequeue \/ GetNotFound \/ GetError \/ Get
         \/ PlanError \/ PlanCreate
         \/ \E s \in Steps : Skip(s) \/ StepError(s)
         \/ \E n \in Ifaces : NoIfaceName(n)
         \/ Start \/ PublishDeleted
  PROVE  StoreTypeOK' /\ HostTypeOK' /\ WorkerTypeOK' /\ ControllerTypeOK'
  <1>. USE DEF TypeOK
  <1>1. CASE Dequeue
    <2>1. WorkerTypeOK'
      BY <1>1, HostFresh DEF Dequeue, WorkerTypeOK, WorkerPC
    <2>. QED
      BY <1>1, <2>1, HostStutter DEF Dequeue, StoreTypeOK, ControllerTypeOK, timerVars, historyVars
  <1>2. CASE GetNotFound
    BY <1>2, WorkerJumps, HostStutter
       DEF GetNotFound, StoreTypeOK, ControllerTypeOK, timerVars, historyVars
  <1>3. CASE GetError
    <2>1. budget' \in [BudgetKinds -> Nat]
      BY <1>3, SpendType DEF GetError, ControllerTypeOK, BudgetKinds
    <2>. QED
      BY <1>3, <2>1, WorkerJumps, HostStutter
         DEF GetError, StoreTypeOK, ControllerTypeOK, timerVars, historyVars
  <1>4. CASE Get
    <2>1. cur \in VMs /\ store[cur] \in Specs /\ pc # "idle"
      BY <1>4 DEF Get, WorkerTypeOK, StoreTypeOK
    <2>2. WorkerTypeOK'
      BY <1>4, <2>1, WorkerJumps DEF Get, WorkerTypeOK, WorkerPC
    <2>. QED
      BY <1>4, <2>2, HostStutter
         DEF Get, StoreTypeOK, ControllerTypeOK, timerVars, historyVars
  <1>5. CASE PlanError
    <2>1. budget' \in [BudgetKinds -> Nat]
      BY <1>5, SpendType DEF PlanError, ControllerTypeOK, BudgetKinds
    <2>2. mem \in Specs
      BY <1>5, Busy DEF PlanError
    <2>3. WorkerTypeOK'
      BY ZenonT(30), <1>5, <2>2, WorkerJumps, StatusUpdates DEF PlanError, WorkerPC
    <2>. QED
      BY <1>5, <2>1, <2>3, HostStutter
         DEF PlanError, StoreTypeOK, ControllerTypeOK, timerVars, historyVars
  <1>6. CASE PlanCreate
    <2>1. mem \in Specs /\ pc = "plan"
      BY <1>6, Busy DEF PlanCreate
    <2>2. PICK blind \in SUBSET Ifaces :
            /\ IF blind = {} THEN UNCHANGED budget ELSE Spend("lookup")
            /\ LET steps == Plan(cur, mem, blind)
               IN  IF steps = {} THEN PlanDone
                   ELSE /\ todo' = steps /\ mem' = EnsureStatus(mem)
                        /\ Goto("react")
                        /\ UNCHANGED <<store, hostVars, timerVars, evts, ctl, historyVars>>
      BY <1>6 DEF PlanCreate
    <2>3. budget' \in [BudgetKinds -> Nat]
      BY <2>2, SpendType DEF ControllerTypeOK, BudgetKinds
    <2>4. UNCHANGED <<store, hostVars, timerVars, evts, ctl, historyVars>>
      BY <2>2 DEF PlanDone
    <2>5. Plan(cur, mem, blind) \subseteq Steps
      BY PlanSteps DEF Steps
    <2>6. WorkerTypeOK'
      <3>1. CASE Plan(cur, mem, blind) = {}
        BY ZenonT(30), <2>1, <2>2, <3>1, WorkerJumps, StatusUpdates DEF PlanDone, WorkerPC
      <3>2. CASE Plan(cur, mem, blind) # {}
        BY ZenonT(30), <2>1, <2>2, <2>5, <3>2, WorkerJumps, StatusUpdates DEF WorkerPC
      <3>. QED
        BY <3>1, <3>2
    <2>. QED
      BY <2>3, <2>4, <2>6, HostStutter
         DEF StoreTypeOK, ControllerTypeOK, timerVars, historyVars
  <1>7. ASSUME NEW s \in Steps, Skip(s)
        PROVE  StoreTypeOK' /\ HostTypeOK' /\ WorkerTypeOK' /\ ControllerTypeOK'
    <2>1. budget' \in [BudgetKinds -> Nat]
      BY <1>7, SpendType DEF Skip, ControllerTypeOK, BudgetKinds
    <2>2. mem \in Specs /\ pc = "react"
      BY <1>7, Busy DEF Skip, AtStep
    <2>3. WorkerTypeOK'
      <3>1. Proceed(s) /\ did' \in BOOLEAN /\ mem' \in Specs
        BY <1>7, <2>2 DEF Skip, WorkerTypeOK
      <3>. QED
        BY <2>2, <3>1, WorkerJumps
    <2>. QED
      BY <1>7, <2>1, <2>3, HostStutter
         DEF Skip, StoreTypeOK, ControllerTypeOK, timerVars, historyVars
  <1>8. ASSUME NEW s \in Steps, StepError(s)
        PROVE  StoreTypeOK' /\ HostTypeOK' /\ WorkerTypeOK' /\ ControllerTypeOK'
    <2>1. budget' \in [BudgetKinds -> Nat]
      BY <1>8, SpendType DEF StepError, Failed, ControllerTypeOK, BudgetKinds
    <2>2. mem \in Specs /\ pc = "react"
      BY <1>8, Busy DEF StepError, AtStep
    <2>3. WorkerTypeOK'
      BY <1>8, <2>2, WorkerJumps DEF StepError, Failed, WorkerPC
    <2>. QED
      BY <1>8, <2>1, <2>3, HostStutter
         DEF StepError, StoreTypeOK, ControllerTypeOK, timerVars, historyVars
  <1>9. ASSUME NEW n \in Ifaces, NoIfaceName(n)
        PROVE  StoreTypeOK' /\ HostTypeOK' /\ WorkerTypeOK' /\ ControllerTypeOK'
    <2>1. mem \in Specs /\ pc = "react"
      BY <1>9, Busy DEF NoIfaceName, AtStep
    <2>2. WorkerTypeOK'
      BY <1>9, <2>1, WorkerJumps DEF NoIfaceName, WorkerPC
    <2>. QED
      BY <1>9, <2>2, HostStutter
         DEF NoIfaceName, StoreTypeOK, ControllerTypeOK, timerVars, historyVars
  <1>10. CASE Start
    <2>1. mem \in Specs /\ pc = "react"
      BY <1>10, Busy DEF Start, AtStep
    <2>2. WorkerTypeOK'
      BY <1>10, <2>1, WorkerJumps DEF Start, WorkerPC
    <2>. QED
      BY <1>10, <2>2, HostStutter
         DEF Start, StoreTypeOK, ControllerTypeOK, timerVars, historyVars
  <1>11. CASE PublishDeleted
    <2>1. cur \in VMs /\ mem \in Specs /\ pc = "react"
      BY <1>11, Busy DEF PublishDeleted, AtStep
    <2>2. WorkerTypeOK'
      BY <1>11, <2>1, WorkerJumps DEF PublishDeleted, Done
    <2>. QED
      BY <1>11, <2>1, <2>2, HostStutter
         DEF PublishDeleted, StoreTypeOK, ControllerTypeOK, timerVars
  <1>. QED
    BY <1>1, <1>2, <1>3, <1>4, <1>5, <1>6, <1>7, <1>8, <1>9, <1>10, <1>11

\* Every step of a plan that has an effect on the host or on the store.
LEMMA WorkerStepType ==
  ASSUME TypeOK,
         \/ DirCreate \/ DirDelete
         \/ \E i \in Images : Mount(i)
         \/ \E n \in Ifaces : NewIface(n) \/ NewIfaceError(n) \/ RemoveIface(n)
         \/ CreateStart \/ CreateSetPid \/ CreateSetPidError \/ CreateError
         \/ DeleteVMM \/ Release
  PROVE  StoreTypeOK' /\ HostTypeOK' /\ WorkerTypeOK' /\ ControllerTypeOK'
  <1>. USE DEF TypeOK
  <1>1. cur \in VMs /\ mem \in Specs /\ pc \notin {"idle", "get"}
    BY Zenon, Busy DEF DirCreate, DirDelete, Mount, NewIface, NewIfaceError, RemoveIface,
       CreateStart,
                CreateSetPid, CreateSetPidError, CreateError, DeleteVMM, Release, AtStep
  <1>2. mem.ifaces \in IfaceStatus
    BY <1>1 DEF Specs
  \* A step is done, has failed, or ends the attempt, with a copy of its type.
  <1>3. ASSUME mem' \in Specs, (\E s : Done(s)) \/ Failed \/ (todo' = {} /\ Goto("reschedule"))
        PROVE  WorkerTypeOK'
    BY Zenon, <1>1, <1>3, WorkerJumps DEF Done, Failed, WorkerPC
  <1>4. ASSUME (UNCHANGED budget) \/ Failed \/ Spend("lookup"),
               UNCHANGED <<timerVars, evts, ctl, announced>>, gone' \in {gone, gone \cup {cur}}
        PROVE  ControllerTypeOK'
    <2>1. budget' \in [BudgetKinds -> Nat]
      BY <1>4, SpendType DEF ControllerTypeOK, Failed, BudgetKinds
    <2>. QED
      BY <1>1, <1>4, <2>1 DEF ControllerTypeOK, timerVars
  <1>5. ASSUME UNCHANGED store PROVE StoreTypeOK'
    BY <1>5 DEF StoreTypeOK
  <1>6. CASE DirCreate
    BY <1>1, <1>3, <1>4, <1>5, <1>6, HostSteps DEF DirCreate, historyVars
  <1>7. CASE DirDelete
    BY <1>1, <1>3, <1>4, <1>5, <1>7, HostSteps DEF DirDelete, historyVars
  <1>8. ASSUME NEW i \in Images, Mount(i)
        PROVE  StoreTypeOK' /\ HostTypeOK' /\ WorkerTypeOK' /\ ControllerTypeOK'
    <2>1. mem' \in Specs
      BY ZenonT(30), <1>1, <1>8, StatusUpdates DEF Mount
    <2>. QED
      BY <1>1, <1>3, <1>4, <1>5, <1>8, <2>1, HostSteps DEF Mount, historyVars
  <1>9. ASSUME NEW n \in Ifaces, NewIface(n)
        PROVE  StoreTypeOK' /\ HostTypeOK' /\ WorkerTypeOK' /\ ControllerTypeOK'
    <2>1. mem' \in Specs /\ HostTypeOK'
      <3>1. CASE UNCHANGED <<mem, hostVars>>
        BY <1>1, <3>1, HostStutter
      <3>2. CASE \E d \in Devs : mem' = [mem EXCEPT !.ifaces[n] = d] /\ IfaceCreate(cur, d)
        BY <1>1, <3>2, IfaceUpdate, HostSteps
      <3>. QED
        BY ZenonT(30), <1>9, <3>1, <3>2 DEF NewIface
    <2>2. (UNCHANGED budget) \/ Spend("lookup")
      BY <1>9 DEF NewIface
    <2>. QED
      BY <1>3, <1>4, <1>5, <1>9, <2>1, <2>2 DEF NewIface, historyVars
  <1>10. ASSUME NEW n \in Ifaces, NewIfaceError(n)
         PROVE  StoreTypeOK' /\ HostTypeOK' /\ WorkerTypeOK' /\ ControllerTypeOK'
    <2>1. PICK d \in Devs : /\ mem' = [mem EXCEPT !.ifaces[n] = d]
                            /\ UNCHANGED hostVars \/ LinkAdd(cur, d)
      BY <1>10 DEF NewIfaceError
    <2>2. mem' \in Specs /\ HostTypeOK'
      BY <1>1, <2>1, IfaceUpdate, HostSteps, HostStutter
    <2>. QED
      BY <1>3, <1>4, <1>5, <1>10, <2>2 DEF NewIfaceError, historyVars
  <1>11. ASSUME NEW n \in Ifaces, RemoveIface(n)
         PROVE  StoreTypeOK' /\ HostTypeOK' /\ WorkerTypeOK' /\ ControllerTypeOK'
    <2>1. mem.ifaces[n] \in Devs
      BY <1>2, <1>11 DEF RemoveIface, ShouldDo, ShouldDeleteIface, IfaceExists, IfaceStatus
    <2>. QED
      BY <1>1, <1>3, <1>4, <1>5, <1>11, <2>1, HostSteps DEF RemoveIface, historyVars
  <1>12. CASE CreateStart
    <2>1. WorkerTypeOK'
      BY <1>1, <1>12, WorkerJumps DEF CreateStart, WorkerTypeOK, WorkerPC
    <2>. QED
      BY <1>1, <1>2, <1>4, <1>5, <1>12, <2>1, HostSteps DEF CreateStart, historyVars
  <1>13. CASE CreateSetPid
    BY <1>1, <1>3, <1>4, <1>5, <1>13, HostSteps DEF CreateSetPid, historyVars
  <1>14. CASE CreateSetPidError
    BY <1>1, <1>3, <1>4, <1>5, <1>14, HostLosePids DEF CreateSetPidError, historyVars
  <1>15. CASE CreateError
    BY <1>1, <1>3, <1>4, <1>5, <1>15, HostSteps DEF CreateError, historyVars
  <1>16. CASE DeleteVMM
    BY <1>1, <1>3, <1>4, <1>5, <1>16, HostSteps DEF DeleteVMM, historyVars
  <1>17. CASE Release
    <2>1. StoreTypeOK'
      BY <1>1, <1>17 DEF Release, StoreTypeOK
    <2>. QED
      BY <1>1, <1>3, <1>4, <1>17, <2>1, HostSteps DEF Release
  <1>. QED
    BY <1>6, <1>7, <1>8, <1>9, <1>10, <1>11, <1>12, <1>13, <1>14, <1>15, <1>16, <1>17

\* The saves that end an attempt.
LEMMA WorkerSaveType ==
  ASSUME TypeOK, Reschedule \/ SaveState \/ SaveError
  PROVE  StoreTypeOK' /\ HostTypeOK' /\ WorkerTypeOK' /\ ControllerTypeOK'
  <1>. USE DEF TypeOK
  <1>1. pc \in {"reschedule", "created", "failed"}
    BY DEF Reschedule, SaveState, SaveError
  <1>2. cur \in VMs /\ Outcome \in Specs
    BY <1>1, Busy, OutcomeType
  <1>3. StoreTypeOK'
    <2>1. \/ UNCHANGED store
          \/ \E s \in SaveStamped(store[cur], Outcome) : store' = [store EXCEPT ![cur] = s]
      BY SaveIsSaveStamped DEF Reschedule, SaveState, SaveError
    <2>. QED
      BY <1>2, <2>1, SaveType DEF StoreTypeOK
  <1>4. WorkerTypeOK'
    BY <1>1, WorkerJumps DEF Reschedule, SaveState, SaveError
  <1>5. HostTypeOK'
    BY HostStutter DEF Reschedule, SaveState, SaveError
  <1>6. ControllerTypeOK'
    <2>1. budget' \in [BudgetKinds -> Nat]
      BY SpendType DEF Reschedule, SaveState, SaveError, ControllerTypeOK, BudgetKinds
    <2>2. timers' \in [VMs -> Nat]
      BY <1>2 DEF Reschedule, SaveState, SaveError, ControllerTypeOK, timerVars
    <2>. QED
      BY <1>2, <2>1, <2>2
         DEF Reschedule, SaveState, SaveError, ControllerTypeOK, timerVars, historyVars
  <1>. QED
    BY <1>3, <1>4, <1>5, <1>6

\* Every step of the worker keeps the types.
LEMMA WorkerType ==
  ASSUME TypeOK, Worker
  PROVE  TypeOK'
  <1>1. ApiTypeOK'
    BY DEF TypeOK, Worker, ApiTypeOK, apiVars
  <1>2. StoreTypeOK' /\ HostTypeOK' /\ WorkerTypeOK' /\ ControllerTypeOK'
    BY WorkerQuietType, WorkerStepType, WorkerSaveType DEF Worker, WorkerNext
  <1>. QED
    BY <1>1, <1>2 DEF TypeOK

\* The commands.
LEMMA CommandType ==
  ASSUME TypeOK, NEW v \in VMs,
         \/ CreateSave(v) \/ DeleteGet(v) \/ DeleteSave(v)
         \/ CommandPublish(v) \/ CommandError(v)
  PROVE  TypeOK'
  <1>. USE DEF TypeOK
  <1>1. HostTypeOK'
    BY HostStutter DEF CreateSave, DeleteGet, DeleteSave, CommandPublish, CommandError
  <1>2. WorkerTypeOK'
    BY DEF CreateSave, DeleteGet, DeleteSave, CommandPublish, CommandError,
           WorkerTypeOK, workerVars
  <1>3. ControllerTypeOK'
    <2>1. budget' \in [BudgetKinds -> Nat]
      BY SpendType DEF CreateSave, DeleteGet, DeleteSave, CommandPublish, CommandError,
                       ControllerTypeOK, BudgetKinds
    <2>2. evts' \in [VMs -> Nat]
      BY DEF CreateSave, DeleteGet, DeleteSave, CommandPublish, CommandError,
             ControllerTypeOK, Publish
    <2>. QED
      BY <2>1, <2>2 DEF CreateSave, DeleteGet, DeleteSave, CommandPublish, CommandError,
                        ControllerTypeOK, timerVars, historyVars
  <1>4. api[v] = "save" => apiMem[v] \in Specs
    BY DEF ApiTypeOK
  <1>5. StoreTypeOK'
    <2>1. CASE CreateSave(v)
      BY Zenon, <2>1, SaveIsSaveStamped, NewSpecType, SaveType DEF CreateSave
    <2>2. CASE /\ api[v] = "save"
               /\ \E s \in SaveStamped(store[v], apiMem[v]) : store' = [store EXCEPT ![v] = s]
      BY Zenon, <1>4, <2>2, SaveType
    <2>3. CASE UNCHANGED store
      BY <2>3 DEF StoreTypeOK
    <2>. QED
      BY <2>1, <2>2, <2>3 DEF DeleteGet, DeleteSave, CommandPublish, CommandError
  <1>6. ApiTypeOK'
    <2>1. CASE DeleteGet(v)
      <3>1. store[v] \in Specs
        BY <2>1 DEF DeleteGet, StoreTypeOK
      <3>. QED
        BY Zenon, <2>1, <3>1, DeleteMark, NoSpecFresh DEF DeleteGet, ApiTypeOK, ApiPC
    <2>2. CASE CreateSave(v)
      BY <2>2 DEF CreateSave, ApiTypeOK, ApiPC
    <2>3. CASE DeleteSave(v) \/ CommandError(v)
      <3>1. PICK a \in {"none", "updated"} : api' = [api EXCEPT ![v] = a]
        BY <2>3 DEF DeleteSave, CommandError
      <3>2. /\ apiMem' = [apiMem EXCEPT ![v] = NoSpec]
            /\ UNCHANGED <<resync, used, accepted>>
        BY <2>3 DEF DeleteSave, CommandError
      <3>. QED
        BY <3>1, <3>2 DEF ApiTypeOK, ApiPC
    <2>4. CASE CommandPublish(v)
      BY <2>4 DEF CommandPublish, ApiTypeOK, ApiPC
    <2>. QED
      BY <2>1, <2>2, <2>3, <2>4
  <1>. QED
    BY <1>1, <1>2, <1>3, <1>5, <1>6

\* The controller around the worker, the passing of time, the VMMs and the
\* crash of flintlockd.
LEMMA ControllerType ==
  ASSUME TypeOK,
         \/ \E v \in VMs : \/ ResyncEnqueue(v) \/ HandleEvent(v)
                           \/ Elapse(v) \/ RetryPublish(v) \/ VMMExit(v)
         \/ BootResync \/ StartUp \/ Subscribe \/ Resync
         \/ Crash
  PROVE  TypeOK'
  <1>. USE DEF TypeOK, timerVars, historyVars, workerVars, apiVars
  <1>1. ASSUME NEW v \in VMs, ResyncEnqueue(v) \/ HandleEvent(v)
        PROVE  TypeOK'
    <2>1. Enqueued(queue, v) \in Seq(VMs)
      BY DEF Enqueued, WorkerTypeOK
    <2>2. WorkerTypeOK'
      BY <1>1, <2>1 DEF ResyncEnqueue, HandleEvent, WorkerTypeOK
    <2>3. ControllerTypeOK'
      BY <1>1 DEF ResyncEnqueue, HandleEvent, ControllerTypeOK
    <2>. QED
      BY <1>1, <2>2, <2>3, HostStutter DEF ResyncEnqueue, HandleEvent, StoreTypeOK, ApiTypeOK
  <1>2. ASSUME NEW v \in VMs, Elapse(v) \/ RetryPublish(v)
        PROVE  TypeOK'
    <2>1. budget' \in [BudgetKinds -> Nat]
      BY <1>2, SpendType DEF Elapse, RetryPublish, ControllerTypeOK, BudgetKinds
    <2>2. ControllerTypeOK'
      BY <1>2, <2>1 DEF Elapse, RetryPublish, Publish, ControllerTypeOK
    <2>. QED
      BY <1>2, <2>2, HostStutter DEF Elapse, RetryPublish, StoreTypeOK, ApiTypeOK, WorkerTypeOK
  <1>3. ASSUME NEW v \in VMs, VMMExit(v)
        PROVE  TypeOK'
    <2>1. budget' \in [BudgetKinds -> Nat]
      BY <1>3, SpendType DEF VMMExit, ControllerTypeOK, BudgetKinds
    <2>. QED
      BY <1>3, <2>1, HostSteps DEF VMMExit, StoreTypeOK, ApiTypeOK, WorkerTypeOK, ControllerTypeOK
  <1>4. CASE BootResync \/ StartUp \/ Subscribe \/ Resync
    <2>1. budget' \in [BudgetKinds -> Nat]
      BY ZenonT(30), <1>4, SpendType DEF BootResync, StartUp, Subscribe, Resync,
         ControllerTypeOK, BudgetKinds
    <2>2. ControllerTypeOK'
      BY ZenonT(30), <1>4, <2>1 DEF BootResync, StartUp, Subscribe, Resync, ControllerTypeOK,
         CtlPhase
    <2>. QED
      BY ZenonT(30), <1>4, <2>2, HostStutter
         DEF BootResync, StartUp, Subscribe, Resync, Stored, StoreTypeOK, ApiTypeOK, WorkerTypeOK
  <1>5. CASE Crash
    <2>1. budget' \in [BudgetKinds -> Nat]
      BY <1>5, SpendType DEF Crash, ControllerTypeOK, BudgetKinds
    <2>2. ControllerTypeOK'
      BY <1>5, <2>1 DEF Crash, ControllerTypeOK, CtlPhase
    <2>3. WorkerTypeOK'
      <3>1. queue' \in Seq(VMs)
        BY <1>5, EmptySeq DEF Crash
      <3>. QED
        BY Zenon, <1>5, <3>1 DEF Crash, WorkerTypeOK, WorkerPC
    <2>4. ApiTypeOK'
      BY <1>5 DEF Crash, ApiTypeOK, ApiPC
    <2>. QED
      BY <1>5, <2>2, <2>3, <2>4, HostLosePids DEF Crash, StoreTypeOK
  <1>. QED
    BY <1>1, <1>2, <1>3, <1>4, <1>5

\* The types hold initially.
LEMMA InitType == Init => TypeOK
  <1>. SUFFICES ASSUME Init PROVE TypeOK
    OBVIOUS
  <1>1. StoreTypeOK /\ HostTypeOK
    BY DEF Init, HostInit, StoreTypeOK, HostTypeOK
  <1>2. WorkerTypeOK
    <2>1. queue \in Seq(VMs)
      BY EmptySeq DEF Init
    <2>. QED
      BY Zenon, <2>1 DEF Init, WorkerTypeOK, WorkerPC
  <1>3. ControllerTypeOK /\ ApiTypeOK
    BY BudgetType DEF Init, ControllerTypeOK, CtlPhase, ApiTypeOK, ApiPC
  <1>. QED
    BY <1>1, <1>2, <1>3 DEF TypeOK

\* They survive a stuttering step.
LEMMA StutterType == TypeOK /\ UNCHANGED vars => TypeOK'
  <1>. SUFFICES ASSUME TypeOK, UNCHANGED vars PROVE TypeOK'
    OBVIOUS
  <1>1. HostTypeOK'
    BY HostStutter DEF TypeOK, vars
  <1>. QED
    BY <1>1 DEF TypeOK, vars, StoreTypeOK, WorkerTypeOK, ControllerTypeOK, ApiTypeOK,
                workerVars, timerVars, historyVars, apiVars

\* They survive every step.
LEMMA NextType == TypeOK /\ [Next]_vars => TypeOK'
  BY WorkerType, CommandType, ControllerType, StutterType DEF Next

\* Whatever the commands, the controller, the worker, the host and the crashes
\* of flintlockd do, the state of the system has its type; in particular no
\* counter of events or of sleeping goroutines goes below zero, and the worker
\* and the commands hold a copy of a spec exactly between its read and its save.
THEOREM TypeCorrect == SafeSpec => []TypeOK
  BY InitType, NextType, PTL DEF SafeSpec

(***************************************************************************)
(* A deleted microvm stays deleted.                                        *)
(***************************************************************************)

\* Which plan a step belongs to tells whether the worker's copy is marked.
LEMMA StepTellsPlan ==
  ASSUME PlanFits
  PROVE  /\ \/ AtStep(<<"delete">>) \/ AtStep(<<"release">>) \/ AtStep(<<"dir_delete">>)
            \/ AtStep(<<"publish">>) \/ \E n : AtStep(<<"iface_delete", n>>)
            => mem.deleted
         /\ \/ AtStep(<<"dir_create">>) \/ AtStep(<<"create">>) \/ AtStep(<<"start">>)
            \/ \E x : AtStep(<<"mount", x>>) \/ AtStep(<<"iface_create", x>>)
            => ~mem.deleted
  <1>1. ASSUME NEW s, AtStep(s)
        PROVE  s \in (IF mem.deleted THEN DeleteSteps \cup {<<"publish">>} ELSE CreateSteps)
    BY <1>1 DEF PlanFits, AtStep
  <1>2. <<"publish">>[1] = "publish"
    OBVIOUS
  <1>3. ASSUME NEW s, AtStep(s),
               s[1] \in {"delete", "release", "iface_delete", "dir_delete", "publish"}
        PROVE  mem.deleted
    BY <1>1, <1>3, StepKinds
  <1>4. ASSUME NEW s, AtStep(s),
               s[1] \in {"dir_create", "mount", "iface_create", "create", "start"}
        PROVE  ~mem.deleted
    BY <1>1, <1>2, <1>4, StepKinds
  <1>5. /\ <<"delete">>[1] = "delete" /\ <<"release">>[1] = "release"
        /\ <<"dir_delete">>[1] = "dir_delete" /\ \A n : <<"iface_delete", n>>[1] = "iface_delete"
        /\ <<"dir_create">>[1] = "dir_create" /\ <<"create">>[1] = "create"
        /\ <<"start">>[1] = "start"
        /\ \A x : <<"mount", x>>[1] = "mount" /\ <<"iface_create", x>>[1] = "iface_create"
    OBVIOUS
  <1>. QED
    BY Zenon, <1>2, <1>3, <1>4, <1>5

\* The order of the delete plan: its first two steps come before the others.
LEMMA DeleteOrder ==
  /\ AtStep(<<"release">>) => <<"delete">> \notin todo
  /\ AtStep(<<"publish">>) => <<"release">> \notin todo
  BY DEF AtStep, First, Order

\* When the first two steps of the delete plan are left out.
LEMMA FirstDeleteSteps ==
  ASSUME NEW v, NEW m, NEW blind
  PROVE  /\ <<"delete">> \in DeleteSteps /\ <<"release">> \in DeleteSteps
         /\ ~ShouldDo(<<"delete">>, v, m, blind) => vmm[v] = NoProc
         /\ ~ShouldDo(<<"release">>, v, m, blind) => store[v] = NoSpec
  BY DEF DeleteSteps, ShouldDo, ShouldDelete, ShouldRelease, Running

\* What neither the store nor the VMMs, snapshots and histories have a part in
\* changing.
Framed == Accounted /\ CommandCopies /\ GoneStaysDeleted /\ GoneIsStopped /\ AnnouncedIsGone

\* The parts of Deletion that do not look at the worker only need their variables.
LEMMA FrameStutter ==
  ASSUME Framed, UNCHANGED <<store, historyVars, used, api, apiMem, vmm, killed, snaps>>
  PROVE  Framed'
  BY ZenonT(30) DEF Framed, Accounted, Stored, CommandCopies, GoneStaysDeleted, GoneIsStopped,
         AnnouncedIsGone, historyVars

\* The part of the invariant about the worker.
AtWork == WorkerCopy /\ PlanFits /\ DeletePlanProgress

\* A worker that is neither in a plan nor changes the mark of its copy.
LEMMA WorkEnds ==
  ASSUME WorkerTypeOK, AtWork, used \subseteq used',
         pc' \notin {"react", "setpid"},
         \/ mem' = NoSpec
         \/ /\ mem # NoSpec /\ mem' # NoSpec /\ mem'.deleted = mem.deleted
            /\ cur' = cur /\ (cur \in gone' => cur \in gone \/ mem.deleted)
  PROVE  AtWork'
  BY DEF AtWork, WorkerCopy, PlanFits, DeletePlanProgress

\* A step of a plan is over: the next one is ready for it if the step itself was.
LEMMA WorkProceeds ==
  ASSUME WorkerTypeOK, AtWork, pc = "react", NEW s, Proceed(s), UNCHANGED used,
         mem' \in Specs, mem'.deleted = mem.deleted,
         gone \subseteq gone', cur \in gone' => cur \in gone \/ mem.deleted,
         mem.deleted =>
           /\ \/ vmm'[cur] = NoProc \/ cur \in killed'
              \/ s # <<"delete">> /\ <<"delete">> \in todo
           /\ \/ cur \in gone'
              \/ s # <<"release">> /\ <<"release">> \in todo
  PROVE  AtWork'
  <1>1. mem # NoSpec /\ cur' = cur /\ todo' \subseteq todo /\ pc' \in {"plan", "react"}
    BY NoSpecFresh DEF WorkerTypeOK, Proceed
  <1>2. WorkerCopy'
    BY <1>1 DEF AtWork, WorkerCopy
  <1>3. PlanFits'
    BY <1>1 DEF AtWork, PlanFits
  <1>4. DeletePlanProgress'
    BY <1>1 DEF Proceed, DeletePlanProgress
  <1>. QED
    BY <1>2, <1>3, <1>4 DEF AtWork

\* Deletion is what concerns the store and the commands, and what concerns the worker.
LEMMA DeletionParts == Deletion <=> Framed /\ AtWork
  BY DEF Deletion, Framed, AtWork

\* Reading the spec, planning, skipping and failing.
LEMMA DeletionQuiet ==
  ASSUME TypeOK, Framed, AtWork, UNCHANGED apiVars,
         \/ Dequeue \/ GetNotFound \/ GetError \/ Get
         \/ PlanError \/ PlanCreate
         \/ \E s \in Steps : Skip(s) \/ StepError(s)
         \/ \E n \in Ifaces : NoIfaceName(n)
         \/ Start
  PROVE  Framed' /\ AtWork'
  <1>1. UNCHANGED <<store, hostVars, historyVars>>
    BY ZenonT(30) DEF Dequeue, GetNotFound, GetError, Get, PlanError, PlanCreate, PlanDone, Skip,
       StepError,
           NoIfaceName, Start
  <1>2. Framed'
    BY <1>1, FrameStutter DEF hostVars, apiVars
  <1>3. WorkerTypeOK /\ used \subseteq used' /\ gone' = gone
    BY <1>1 DEF TypeOK, apiVars, historyVars
  \* An attempt that ends, with or without an error, or goes to its save.
  <1>4. ASSUME Return \/ ReturnError PROVE AtWork'
    BY <1>3, <1>4, WorkEnds DEF Return, ReturnError
  <1>5. ASSUME mem \in Specs, mem' \in Specs, mem'.deleted = mem.deleted,
               Goto("reschedule") \/ Goto("created")
        PROVE  AtWork'
    BY <1>3, <1>5, WorkEnds, NoSpecFresh DEF Goto
  <1>6. CASE Dequeue
    <2>1. mem' = NoSpec /\ pc' = "get"
      BY <1>3, <1>6 DEF Dequeue, WorkerTypeOK
    <2>. QED
      BY <1>2, <1>3, <2>1, WorkEnds
  <1>7. CASE GetNotFound \/ GetError
    BY <1>2, <1>4, <1>7 DEF GetNotFound, GetError
  <1>8. CASE Get
    <2>1. CASE Return
      BY <1>2, <1>4, <2>1
    <2>2. CASE mem' = store[cur] /\ (Goto("failed") \/ Goto("plan"))
      <3>1. cur \in VMs /\ cur' = cur /\ pc' \in {"failed", "plan"}
        BY ZenonT(30), <1>3, <1>8, <2>2 DEF Get, Goto, WorkerTypeOK
      <3>2. cur \in used /\ (cur \in gone => store[cur].deleted)
        BY ZenonT(30), <1>8, <3>1 DEF Get, Framed, Accounted, Stored, GoneStaysDeleted
      <3>3. AtWork'
        BY <1>3, <2>2, <3>1, <3>2 DEF AtWork, WorkerCopy, PlanFits, DeletePlanProgress
      <3>. QED
        BY <1>2, <3>3
    <2>. QED
      BY ZenonT(30), <1>8, <2>1, <2>2 DEF Get
  <1>9. CASE PlanError
    <2>1. mem \in Specs
      BY <1>3, <1>9, Busy DEF PlanError
    <2>. QED
      BY ZenonT(30), <1>2, <1>5, <1>9, <2>1, StatusUpdates DEF PlanError
  <1>10. CASE PlanCreate
    <2>1. mem \in Specs /\ cur \in VMs /\ mem # NoSpec
      BY <1>3, <1>10, Busy, NoSpecFresh DEF PlanCreate
    <2>2. PICK blind \in SUBSET Ifaces :
            LET steps == Plan(cur, mem, blind)
            IN  IF steps = {} THEN PlanDone
                ELSE todo' = steps /\ mem' = EnsureStatus(mem) /\ Goto("react")
      BY <1>10 DEF PlanCreate
    <2>3. CASE Plan(cur, mem, blind) = {}
      BY ZenonT(30), <1>2, <1>4, <1>5, <2>1, <2>2, <2>3, StatusUpdates DEF PlanDone
    <2>4. CASE Plan(cur, mem, blind) # {}
      <3>1. /\ todo' = Plan(cur, mem, blind) /\ pc' = "react" /\ cur' = cur
            /\ mem' \in Specs /\ mem'.deleted = mem.deleted
        BY ZenonT(30), <2>1, <2>2, <2>4, StatusUpdates DEF Goto
      <3>2. WorkerCopy'
        BY <1>3, <2>1, <3>1 DEF AtWork, WorkerCopy
      <3>3. PlanFits'
        BY <3>1, PlanSteps DEF PlanFits
      <3>4. DeletePlanProgress'
        <4>1. SUFFICES ASSUME mem.deleted
                       PROVE  /\ <<"delete">> \in todo' \/ vmm[cur] = NoProc
                              /\ <<"release">> \in todo' \/ cur \in gone
          BY <1>1, <1>3, <3>1, <4>1 DEF DeletePlanProgress, hostVars
        <4>2. \A s \in DeleteSteps : s \in todo' \/ ~ShouldDo(s, cur, mem, blind)
          BY ZenonT(30), <3>1, <4>1 DEF Plan, DeletePlan
        <4>3. <<"delete">> \in todo' \/ vmm[cur] = NoProc
          BY ZenonT(30), <4>2, FirstDeleteSteps
        <4>4. <<"release">> \in todo' \/ store[cur] = NoSpec
          BY <4>2, FirstDeleteSteps
        <4>5. store[cur] = NoSpec => cur \in gone
          BY <2>1 DEF Framed, Accounted, Stored, AtWork, WorkerCopy
        <4>. QED
          BY <4>3, <4>4, <4>5
      <3>. QED
        BY <1>2, <3>2, <3>3, <3>4 DEF AtWork
    <2>. QED
      BY <2>3, <2>4
  <1>11. ASSUME NEW s \in Steps, Skip(s) PROVE Framed' /\ AtWork'
    <2>1. /\ pc = "react" /\ s \in todo /\ mem \in Specs /\ cur \in VMs /\ mem' = mem
          /\ Proceed(s)
      BY <1>3, <1>11, Busy DEF Skip, AtStep
    <2>2. PICK blind \in SUBSET Ifaces : ~ShouldDo(s, cur, mem, blind)
      BY <1>11 DEF Skip
    <2>3. s = <<"delete">> => vmm[cur] = NoProc
      BY ZenonT(30), <2>2, FirstDeleteSteps
    <2>4. s = <<"release">> => cur \in gone
      <3>1. s = <<"release">> => store[cur] = NoSpec
        BY ZenonT(30), <2>2, FirstDeleteSteps
      <3>2. cur \in used
        BY <2>1, NoSpecFresh DEF AtWork, WorkerCopy
      <3>. QED
        BY <2>1, <3>1, <3>2 DEF Framed, Accounted, Stored
    <2>5. vmm' = vmm /\ killed' = killed /\ UNCHANGED used
      BY <1>1 DEF hostVars, apiVars
    <2>6. mem.deleted => /\ <<"delete">> \in todo \/ vmm[cur] = NoProc \/ cur \in killed
                         /\ <<"release">> \in todo \/ cur \in gone
      BY <2>1 DEF AtWork, DeletePlanProgress
    <2>. QED
      BY <1>2, <1>3, <2>1, <2>3, <2>4, <2>5, <2>6, WorkProceeds
  <1>12. CASE (\E s \in Steps : StepError(s)) \/ (\E n \in Ifaces : NoIfaceName(n)) \/ Start
    <2>1. mem \in Specs /\ mem' = mem /\ Goto("reschedule")
      BY ZenonT(30), <1>3, <1>12, Busy DEF StepError, NoIfaceName, Start, AtStep, Failed
    <2>. QED
      BY <1>2, <1>5, <2>1
  <1>. QED
    BY <1>6, <1>7, <1>8, <1>9, <1>10, <1>11, <1>12

\* The steps of the create plan never run for a microvm that is gone.
LEMMA DeletionCreateSteps ==
  ASSUME TypeOK, Framed, AtWork, UNCHANGED apiVars,
         \/ DirCreate
         \/ \E i \in Images : Mount(i)
         \/ \E n \in Ifaces : NewIface(n) \/ NewIfaceError(n)
         \/ CreateStart \/ CreateSetPid \/ CreateSetPidError \/ CreateError
  PROVE  Framed' /\ AtWork'
  <1>1. cur \in VMs /\ mem \in Specs /\ WorkerTypeOK /\ HostTypeOK
    BY Zenon, Busy DEF TypeOK, DirCreate, Mount, NewIface, NewIfaceError, CreateStart, CreateSetPid,
                CreateSetPidError, CreateError, AtStep
  <1>2. pc \in {"react", "setpid"} /\ ~mem.deleted
    BY ZenonT(30), StepTellsPlan DEF AtWork, PlanFits, DirCreate, Mount, NewIface, NewIfaceError,
       CreateStart,
           CreateSetPid, CreateSetPidError, CreateError, AtStep
  <1>3. cur \notin gone /\ cur \in used /\ mem # NoSpec
    BY <1>1, <1>2, NoSpecFresh DEF AtWork, WorkerCopy
  <1>4. mem' \in Specs /\ mem'.deleted = mem.deleted
    <2>1. \/ mem' = mem
          \/ \E i \in Images : mem' = [mem EXCEPT !.mounts = @ \cup {i}]
          \/ \E n \in Ifaces, d \in Devs : mem' = [mem EXCEPT !.ifaces[n] = d]
      BY Zenon DEF DirCreate, Mount, NewIface, NewIfaceError, CreateStart, CreateSetPid,
             CreateSetPidError, CreateError
    <2>2. ASSUME NEW i \in Images, mem' = [mem EXCEPT !.mounts = @ \cup {i}]
          PROVE  mem' \in Specs /\ mem'.deleted = mem.deleted
      BY Zenon, <1>1, <2>2, StatusUpdates
    <2>3. ASSUME NEW n \in Ifaces, NEW d \in Devs, mem' = [mem EXCEPT !.ifaces[n] = d]
          PROVE  mem' \in Specs /\ mem'.deleted = mem.deleted
      BY <1>1, <2>3, IfaceUpdate
    <2>. QED
      BY <1>1, <2>1, <2>2, <2>3
  <1>5. UNCHANGED <<store, gone, announced, used, api, apiMem>>
    BY Zenon DEF DirCreate, Mount, NewIface, NewIfaceError, CreateStart, CreateSetPid,
           CreateSetPidError, CreateError, historyVars, apiVars
  <1>6. \A v \in VMs \ {cur} :
          vmm'[v] = vmm[v] /\ snaps'[v] = snaps[v] /\ (v \in killed' <=> v \in killed)
    <2>1. CASE UNCHANGED <<vmm, snaps, killed>>
      BY <2>1
    <2>2. CASE \E i \in Images : PullAndMount(cur, i)
      BY <1>1, <2>2 DEF PullAndMount, HostTypeOK
    <2>3. CASE SetPid(cur)
      BY <1>1, <2>3 DEF SetPid, HostTypeOK
    <2>. QED
      BY ZenonT(30), <2>1, <2>2, <2>3
         DEF DirCreate, Mount, NewIface, NewIfaceError, CreateStart, CreateSetPid,
             CreateSetPidError, CreateError, MakeDir, IfaceCreate, LinkAdd, StartVMM, LosePids,
             hostVars
  <1>7. GoneIsStopped'
    BY <1>3, <1>5, <1>6 DEF Framed, GoneIsStopped, TypeOK, ControllerTypeOK
  <1>8. Framed'
    BY <1>5, <1>7
       DEF Framed, Accounted, Stored, CommandCopies, GoneStaysDeleted, AnnouncedIsGone
  <1>9. cur' = cur /\ (\/ pc' \notin {"react", "setpid"}
                      \/ todo' \subseteq todo)
    BY ZenonT(30) DEF DirCreate, Mount, NewIface, NewIfaceError, CreateStart, CreateSetPid,
           CreateSetPidError, CreateError, Done, Proceed, Failed, Goto
  <1>10. pc \in {"react", "setpid"} => todo \subseteq CreateSteps
    BY <1>2 DEF AtWork, PlanFits
  <1>11. AtWork'
    BY ZenonT(30), <1>2, <1>3, <1>4, <1>5, <1>9, <1>10 DEF AtWork, WorkerCopy, PlanFits,
       DeletePlanProgress
  <1>. QED
    BY <1>8, <1>11

\* The steps of the delete plan.
LEMMA DeletionDeleteSteps ==
  ASSUME TypeOK, Framed, AtWork, UNCHANGED apiVars,
         \/ DirDelete \/ DeleteVMM \/ Release \/ PublishDeleted
         \/ \E n \in Ifaces : RemoveIface(n)
  PROVE  Framed' /\ AtWork'
  <1>1. cur \in VMs /\ mem \in Specs /\ WorkerTypeOK /\ HostTypeOK /\ pc = "react"
    BY Zenon, Busy DEF TypeOK, DirDelete, DeleteVMM, Release, PublishDeleted, RemoveIface, AtStep
  <1>2. mem.deleted
    BY Zenon, StepTellsPlan DEF AtWork, DirDelete, DeleteVMM, Release, PublishDeleted, RemoveIface
  <1>3. cur \in used /\ mem # NoSpec
    BY <1>1, NoSpecFresh DEF AtWork, WorkerCopy
  <1>4. /\ <<"delete">> \in todo \/ vmm[cur] = NoProc \/ cur \in killed
        /\ <<"release">> \in todo \/ cur \in gone
    BY <1>1, <1>2 DEF AtWork, DeletePlanProgress
  <1>5. UNCHANGED <<mem, used, api, apiMem>>
    BY Zenon DEF DirDelete, DeleteVMM, Release, PublishDeleted, RemoveIface, apiVars
  \* The plan goes on, or the attempt ends.
  <1>6. ASSUME NEW s, Done(s), gone \subseteq gone',
               \/ vmm'[cur] = NoProc \/ cur \in killed'
               \/ s # <<"delete">> /\ <<"delete">> \in todo,
               \/ cur \in gone'
               \/ s # <<"release">> /\ <<"release">> \in todo
        PROVE  AtWork'
    <2>1. Proceed(s)
      BY <1>6 DEF Done
    <2>. QED
      BY Zenon, <1>1, <1>2, <1>5, <1>6, <2>1, WorkProceeds
  <1>7. ASSUME Goto("reschedule") PROVE AtWork'
    BY Zenon, <1>1, <1>2, <1>3, <1>5, <1>7, WorkEnds DEF Goto
  <1>8. ASSUME UNCHANGED <<store, historyVars>>,
               \A v \in gone : (vmm'[v] = NoProc \/ v \in killed') /\ snaps'[v] = {}
        PROVE  Framed'
    BY <1>5, <1>8 DEF Framed, Accounted, Stored, CommandCopies, GoneStaysDeleted, GoneIsStopped,
                      AnnouncedIsGone, historyVars
  <1>9. gone \subseteq VMs
    BY DEF TypeOK, ControllerTypeOK
  <1>10. CASE DirDelete
    <2>1. vmm' = [vmm EXCEPT ![cur] = NoProc] /\ killed' = killed \ {cur} /\ UNCHANGED snaps
      BY <1>10 DEF DirDelete, RemoveDir
    <2>2. \A v \in gone : (vmm'[v] = NoProc \/ v \in killed') /\ snaps'[v] = {}
      BY <1>1, <1>9, <2>1 DEF Framed, GoneIsStopped, HostTypeOK
    <2>3. vmm'[cur] = NoProc
      BY <1>1, <2>1 DEF HostTypeOK
    <2>4. <<"dir_delete">> # <<"release">> /\ Done(<<"dir_delete">>)
      BY <1>10 DEF DirDelete
    <2>. QED
      BY ZenonT(30), <1>4, <1>6, <1>8, <1>10, <2>2, <2>3, <2>4 DEF DirDelete, historyVars
  <1>11. CASE DeleteVMM
    <2>1. Terminated(cur) \/ Signalled(cur)
      BY <1>11 DEF DeleteVMM
    <2>2. (vmm'[cur] = NoProc \/ cur \in killed') /\ UNCHANGED snaps
      BY <1>1, <2>1 DEF Terminated, Signalled, HostTypeOK
    <2>3. \A v \in gone : (vmm'[v] = NoProc \/ v \in killed') /\ snaps'[v] = {}
      BY <1>1, <1>9, <2>1, <2>2 DEF Framed, GoneIsStopped, HostTypeOK, Terminated, Signalled
    <2>4. <<"delete">> # <<"release">>
      OBVIOUS
    <2>5. (Done(<<"delete">>) \/ Goto("reschedule")) /\ UNCHANGED <<store, historyVars>>
      BY <1>11 DEF DeleteVMM, Failed
    <2>. QED
      BY ZenonT(30), <1>4, <1>6, <1>7, <1>8, <2>2, <2>3, <2>4, <2>5 DEF historyVars
  <1>12. CASE Release
    <2>1. vmm[cur] = NoProc \/ cur \in killed
      BY <1>4, <1>12, DeleteOrder DEF Release
    <2>2. /\ store' = [store EXCEPT ![cur] = NoSpec] /\ gone' = gone \cup {cur}
          /\ snaps' = [snaps EXCEPT ![cur] = {}] /\ UNCHANGED <<vmm, killed, announced>>
      BY <1>12 DEF Release, CollectSnapshots
    <2>3. Accounted'
      BY <1>1, <1>3, <1>5, <2>2 DEF Framed, Accounted, Stored, TypeOK, StoreTypeOK
    <2>4. GoneStaysDeleted'
      BY <1>1, <1>9, <2>2 DEF Framed, GoneStaysDeleted, TypeOK, StoreTypeOK
    <2>5. GoneIsStopped'
      BY <1>1, <1>9, <2>1, <2>2 DEF Framed, GoneIsStopped, HostTypeOK
    <2>6. Framed'
      BY ZenonT(30), <1>5, <2>2, <2>3, <2>4, <2>5 DEF Framed, CommandCopies, AnnouncedIsGone
    <2>7. Done(<<"release">>) \/ Goto("reschedule")
      BY <1>12 DEF Release, Failed
    <2>. QED
      BY <1>6, <1>7, <2>1, <2>2, <2>6, <2>7
  <1>13. CASE PublishDeleted
    <2>1. cur \in gone /\ announced' = announced \cup {cur} /\ UNCHANGED <<store, hostVars, gone>>
      BY <1>4, <1>13, DeleteOrder DEF PublishDeleted
    <2>2. Framed'
      BY ZenonT(30), <1>5, <2>1 DEF Framed, Accounted, Stored, CommandCopies, GoneStaysDeleted,
         GoneIsStopped,
                        AnnouncedIsGone, hostVars
    <2>3. <<"publish">> # <<"delete">> /\ Done(<<"publish">>)
      BY <1>13 DEF PublishDeleted
    <2>. QED
      BY <1>4, <1>6, <2>1, <2>2, <2>3 DEF hostVars
  <1>14. ASSUME NEW n \in Ifaces, RemoveIface(n) PROVE Framed' /\ AtWork'
    <2>1. UNCHANGED <<store, historyVars, vmm, killed, snaps>> /\ Done(<<"iface_delete", n>>)
      BY <1>14 DEF RemoveIface, IfaceDelete
    <2>2. <<"iface_delete", n>> # <<"delete">> /\ <<"iface_delete", n>> # <<"release">>
      OBVIOUS
    <2>. QED
      BY <1>4, <1>5, <1>6, <2>1, <2>2, FrameStutter DEF historyVars
  <1>. QED
    BY <1>10, <1>11, <1>12, <1>13, <1>14

\* Saving a copy that is marked if the microvm is gone keeps it deleted.
LEMMA SaveFramed ==
  ASSUME TypeOK, Framed, NEW v \in VMs, NEW m \in Specs,
         v \in used', used' = used \cup {v}, v \in gone => m.deleted,
         \E s \in SaveStamped(store[v], m) : store' = [store EXCEPT ![v] = s],
         UNCHANGED historyVars
  PROVE  Accounted' /\ GoneStaysDeleted' /\ AnnouncedIsGone'
  <1>1. /\ store'[v] \in Specs
        /\ store'[v] = store[v] \/ store'[v].deleted = m.deleted
        /\ \A w \in VMs \ {v} : store'[w] = store[w]
    BY ZenonT(30), SaveType DEF TypeOK
  <1>2. store'[v] # NoSpec
    BY <1>1, NoSpecFresh
  <1>3. Accounted'
    BY <1>1, <1>2 DEF Framed, Accounted, Stored, historyVars
  <1>4. GoneStaysDeleted'
    <2>1. gone \subseteq VMs
      BY DEF TypeOK, ControllerTypeOK
    <2>. QED
      BY <1>1, <1>2, <2>1 DEF Framed, GoneStaysDeleted, historyVars
  <1>. QED
    BY <1>3, <1>4 DEF Framed, AnnouncedIsGone, historyVars

\* The saves that end an attempt.
LEMMA DeletionSaves ==
  ASSUME TypeOK, Framed, AtWork, UNCHANGED apiVars, Reschedule \/ SaveState \/ SaveError
  PROVE  Framed' /\ AtWork'
  <1>1. pc \in {"reschedule", "created", "failed"} /\ WorkerTypeOK
    BY DEF Reschedule, SaveState, SaveError, TypeOK
  <1>2. cur \in VMs /\ mem \in Specs /\ Outcome \in Specs /\ Outcome.deleted = mem.deleted
    BY <1>1, Busy, OutcomeType
  <1>3. cur \in used /\ (cur \in gone => mem.deleted)
    BY <1>2, NoSpecFresh DEF AtWork, WorkerCopy
  <1>4. UNCHANGED <<used, api, apiMem, historyVars, hostVars>> /\ (Return \/ ReturnError)
    BY DEF Reschedule, SaveState, SaveError, apiVars
  <1>5. AtWork'
    BY <1>1, <1>4, WorkEnds DEF Return, ReturnError
  <1>6. Accounted' /\ GoneStaysDeleted' /\ AnnouncedIsGone'
    <2>1. CASE UNCHANGED store
      BY <1>4, <2>1
         DEF Framed, Accounted, Stored, GoneStaysDeleted, AnnouncedIsGone, historyVars
    <2>2. CASE \E s \in SaveStamped(store[cur], Outcome) : store' = [store EXCEPT ![cur] = s]
      BY ZenonT(30), <1>2, <1>3, <1>4, <2>2, SaveFramed
    <2>. QED
      BY <2>1, <2>2, SaveIsSaveStamped DEF Reschedule, SaveState, SaveError
  <1>7. Framed'
    BY <1>4, <1>6 DEF Framed, CommandCopies, GoneIsStopped, historyVars, hostVars
  <1>. QED
    BY <1>5, <1>7

\* The commands.
LEMMA DeletionCommands ==
  ASSUME TypeOK, Framed, AtWork, NEW v \in VMs,
         \/ CreateSave(v) \/ DeleteGet(v) \/ DeleteSave(v)
         \/ CommandPublish(v) \/ CommandError(v)
  PROVE  Framed' /\ AtWork'
  <1>1. UNCHANGED <<hostVars, workerVars, historyVars>> /\ used \subseteq used'
    BY DEF CreateSave, DeleteGet, DeleteSave, CommandPublish, CommandError
  <1>2. AtWork'
    BY <1>1 DEF AtWork, WorkerCopy, PlanFits, DeletePlanProgress, workerVars, historyVars, hostVars
  <1>3. GoneIsStopped'
    BY ZenonT(30), <1>1 DEF Framed, GoneIsStopped, historyVars, hostVars
  <1>4. CommandCopies'
    <2>1. CASE DeleteGet(v)
      <3>1. store[v] \in Specs /\ v \in used
        BY <2>1 DEF DeleteGet, TypeOK, StoreTypeOK, Framed, Accounted, Stored
      <3>2. apiMem'[v].deleted
        BY ZenonT(30), <2>1, <3>1, DeleteMark DEF DeleteGet, TypeOK, ApiTypeOK
      <3>. QED
        BY <2>1, <3>1, <3>2 DEF DeleteGet, TypeOK, ApiTypeOK, Framed, CommandCopies
    <2>2. CASE ~DeleteGet(v)
      <3>1. PICK a \in {"created", "updated", "none"} : api' = [api EXCEPT ![v] = a]
        BY ZenonT(30), <2>2 DEF CreateSave, DeleteSave, CommandPublish, CommandError
      <3>2. \A w \in VMs \ {v} : apiMem'[w] = apiMem[w]
        BY ZenonT(30), <2>2 DEF CreateSave, DeleteSave, CommandPublish, CommandError, TypeOK,
           ApiTypeOK
      <3>. QED
        BY <1>1, <3>1, <3>2 DEF TypeOK, ApiTypeOK, Framed, CommandCopies
    <2>. QED
      BY <2>1, <2>2
  <1>5. Accounted' /\ GoneStaysDeleted' /\ AnnouncedIsGone'
    <2>1. CASE UNCHANGED <<store, used>>
      BY <1>1, <2>1
         DEF Framed, Accounted, Stored, GoneStaysDeleted, AnnouncedIsGone, historyVars
    <2>2. CASE CreateSave(v)
      <3>1. v \notin gone /\ used' = used \cup {v}
        BY <2>2 DEF CreateSave, Framed, Accounted
      <3>2. \E s \in SaveStamped(store[v], NewSpec) : store' = [store EXCEPT ![v] = s]
        BY Zenon, <2>2, SaveIsSaveStamped DEF CreateSave
      <3>. QED
        BY Zenon, <1>1, <3>1, <3>2, NewSpecType, SaveFramed
    <2>3. CASE /\ api[v] = "save" /\ UNCHANGED used
               /\ \E s \in SaveStamped(store[v], apiMem[v]) : store' = [store EXCEPT ![v] = s]
      <3>1. v \in used /\ apiMem[v] \in Specs /\ apiMem[v].deleted
        BY <2>3 DEF TypeOK, ApiTypeOK, Framed, CommandCopies
      <3>. QED
        BY ZenonT(30), <1>1, <2>3, <3>1, SaveFramed
    <2>. QED
      BY <2>1, <2>2, <2>3 DEF DeleteGet, DeleteSave, CommandPublish, CommandError
  <1>. QED
    BY <1>2, <1>3, <1>4, <1>5 DEF Framed

\* The rest of the controller, the VMMs and the crash.
LEMMA DeletionController ==
  ASSUME TypeOK, Framed, AtWork,
         \/ \E v \in VMs : \/ ResyncEnqueue(v) \/ HandleEvent(v)
                           \/ Elapse(v) \/ RetryPublish(v) \/ VMMExit(v)
         \/ BootResync \/ StartUp \/ Subscribe \/ Resync
         \/ Crash
  PROVE  Framed' /\ AtWork'
  <1>1. CASE \/ \E v \in VMs : ResyncEnqueue(v) \/ HandleEvent(v) \/ Elapse(v) \/ RetryPublish(v)
             \/ BootResync \/ StartUp \/ Subscribe \/ Resync
    <2>1. UNCHANGED <<store, hostVars, workerVars, historyVars, apiVars>>
      BY ZenonT(30), <1>1 DEF ResyncEnqueue, HandleEvent, Elapse, RetryPublish, BootResync,
         StartUp, Subscribe,
                  Resync
    <2>2. Framed'
      BY <2>1, FrameStutter DEF hostVars, apiVars
    <2>3. AtWork'
      BY <2>1 DEF AtWork, WorkerCopy, PlanFits, DeletePlanProgress, workerVars, historyVars,
                  hostVars, apiVars
    <2>. QED
      BY <2>2, <2>3
  <1>2. ASSUME NEW v \in VMs, VMMExit(v) PROVE Framed' /\ AtWork'
    <2>1. /\ UNCHANGED <<store, workerVars, historyVars, apiVars, snaps>>
          /\ vmm' = [vmm EXCEPT ![v] = NoProc] /\ killed' = killed \ {v}
      BY <1>2 DEF VMMExit, Terminated
    <2>2. gone \subseteq VMs /\ vmm \in [VMs -> IfaceStatus \cup {NoProc}]
      BY DEF TypeOK, ControllerTypeOK, HostTypeOK
    <2>3. GoneIsStopped'
      BY ZenonT(30), <2>1, <2>2 DEF Framed, GoneIsStopped, historyVars
    <2>4. Framed'
      BY ZenonT(30), <2>1, <2>3 DEF Framed, Accounted, Stored, CommandCopies, GoneStaysDeleted,
                        AnnouncedIsGone, historyVars, apiVars
    <2>5. pc = "react" => cur \in VMs
      BY DEF TypeOK, WorkerTypeOK
    <2>6. AtWork'
      BY ZenonT(30), <2>1, <2>2, <2>5 DEF AtWork, WorkerCopy, PlanFits, DeletePlanProgress,
         workerVars,
                              historyVars, apiVars
    <2>. QED
      BY <2>4, <2>6
  <1>3. CASE Crash
    <2>1. /\ UNCHANGED <<store, historyVars, used, vmm, killed, snaps>>
          /\ mem' = NoSpec /\ pc' = "idle" /\ api' = [w \in VMs |-> "none"]
      BY ZenonT(30), <1>3 DEF Crash, LosePids
    <2>2. AtWork'
      BY <2>1, WorkEnds DEF TypeOK
    <2>3. CommandCopies'
      BY <2>1 DEF CommandCopies
    <2>4. Framed'
      BY ZenonT(30), <2>1, <2>3 DEF Framed, Accounted, Stored, GoneStaysDeleted, GoneIsStopped,
                        AnnouncedIsGone, historyVars
    <2>. QED
      BY <2>2, <2>4
  <1>. QED
    BY <1>1, <1>2, <1>3

\* Deletion holds initially.
LEMMA InitDeletion == Init => Deletion
  <1>. SUFFICES ASSUME Init PROVE Deletion
    OBVIOUS
  <1>1. Accounted
    BY DEF Init, Accounted, Stored
  <1>2. CommandCopies /\ WorkerCopy /\ PlanFits /\ DeletePlanProgress
    BY DEF Init, CommandCopies, WorkerCopy, PlanFits, DeletePlanProgress
  <1>3. GoneStaysDeleted /\ GoneIsStopped /\ AnnouncedIsGone
    BY DEF Init, GoneStaysDeleted, GoneIsStopped, AnnouncedIsGone
  <1>. QED
    BY <1>1, <1>2, <1>3 DEF Deletion

\* Deletion is inductive, given the types.
LEMMA NextDeletion == TypeOK /\ Deletion /\ [Next]_vars => Deletion'
  <1>. SUFFICES ASSUME TypeOK, Framed, AtWork, [Next]_vars PROVE Framed' /\ AtWork'
    BY DeletionParts DEF Deletion, Framed, AtWork
  <1>1. CASE Worker
    <2>1. UNCHANGED apiVars /\ WorkerNext
      BY <1>1 DEF Worker
    <2>. QED
      BY <2>1, DeletionQuiet, DeletionCreateSteps, DeletionDeleteSteps, DeletionSaves
         DEF WorkerNext
  <1>2. CASE UNCHANGED vars
    <2>1. Framed'
      BY <1>2, FrameStutter DEF vars, hostVars, apiVars
    <2>2. AtWork'
      BY Zenon, <1>2 DEF vars, hostVars, apiVars, workerVars, historyVars,
                  AtWork, WorkerCopy, PlanFits, DeletePlanProgress
    <2>. QED
      BY <2>1, <2>2
  <1>. QED
    BY <1>1, <1>2, DeletionCommands, DeletionController DEF Next

\* The inductive invariant holds.
THEOREM DeletionHolds == SafeSpec => []Deletion
  BY InitType, NextType, InitDeletion, NextDeletion, PTL DEF SafeSpec

\* Once the lease of a microvm is released, its spec never comes back without
\* the deletion mark: neither reschedule nor saveState nor a late save of
\* DeleteMicroVM can bring the microvm back to life, whatever fails or crashes.
THEOREM DeletedForGood == SafeSpec => []GoneStaysDeleted
  <1>1. Deletion => GoneStaysDeleted
    BY DEF Deletion
  <1>. QED
    BY <1>1, DeletionHolds, PTL

\* A microvm whose lease is released has no VMM that is not dying, and no
\* snapshots, from then on.
THEOREM StoppedForGood == SafeSpec => []GoneIsStopped
  <1>1. Deletion => GoneIsStopped
    BY DEF Deletion
  <1>. QED
    BY <1>1, DeletionHolds, PTL

\* The Deleted event is never published for a microvm that still has its lease.
THEOREM AnnouncedOnlyWhenGone == SafeSpec => []AnnouncedIsGone
  <1>1. Deletion => AnnouncedIsGone
    BY DEF Deletion
  <1>. QED
    BY <1>1, DeletionHolds, PTL

=============================================================================
