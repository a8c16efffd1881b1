---------------------------- MODULE MicroVMPlans ----------------------------
(***************************************************************************)
(* core/plans and core/steps: which steps a plan is made of, in which      *)
(* order, and when a step still has to be done.                            *)
(*                                                                         *)
(* A plan is the set of its steps; Order gives the order in which the      *)
(* actuator runs them.  Steps of one kind (the mounts, the interfaces) are *)
(* independent of each other and may run in any order.  A step decides     *)
(* from the spec in memory and from the host, never from the steps before. *)
(*                                                                         *)
(* A microvm without virtiofs and additional volumes: the virtiofs steps   *)
(* are in MicroVMProcesses, the cloud-init mounts in MicroVMRequests.      *)
(***************************************************************************)
EXTENDS MicroVMHost

CONSTANT AutoStart   \* the provider has models.AutoStartCapability

ASSUME AutoStartBoolean == AutoStart \in BOOLEAN

CreateSteps ==
  {<<"dir_create">>}
    \cup ({"mount"} \X Images)
    \cup ({"iface_create"} \X Ifaces)
    \cup {<<"create">>}
    \cup (IF AutoStart THEN {} ELSE {<<"start">>})

DeleteSteps ==
  {<<"delete">>, <<"release">>} \cup ({"iface_delete"} \X Ifaces) \cup {<<"dir_delete">>}

Steps == CreateSteps \cup DeleteSteps \cup {<<"publish">>}

\* Mutant: the lease is released before the VMM is stopped.
ReleaseFirstOrder ==
  [dir_create |-> 1, mount |-> 2, iface_create |-> 3, create |-> 4, start |-> 5,
   release |-> 1, delete |-> 2, iface_delete |-> 3, dir_delete |-> 4, publish |-> 5]

\* Mutant: the VMM is created before its interfaces.
CreateFirstOrder ==
  [dir_create |-> 1, mount |-> 2, create |-> 3, start |-> 4, iface_create |-> 5,
   delete |-> 1, release |-> 2, iface_delete |-> 3, dir_delete |-> 4, publish |-> 5]

\* Mutant: the Deleted event is published before anything is deleted.
PublishFirstOrder ==
  [dir_create |-> 1, mount |-> 2, iface_create |-> 3, create |-> 4, start |-> 5,
   publish |-> 1, delete |-> 2, release |-> 3, iface_delete |-> 4, dir_delete |-> 5]

\* Mutant: the Deleted event is published before the directory is removed.
PublishEarlyOrder ==
  [dir_create |-> 1, mount |-> 2, iface_create |-> 3, create |-> 4, start |-> 5,
   delete |-> 1, release |-> 2, publish |-> 3, iface_delete |-> 4, dir_delete |-> 5]

\* The place of each kind of step in the plan that has it.
Order ==
  [dir_create |-> 1, mount |-> 2, iface_create |-> 3, create |-> 4, start |-> 5,
   delete |-> 1, release |-> 2, iface_delete |-> 3, dir_delete |-> 4, publish |-> 5]

\* No step of the set comes before s.
First(s, steps) == \A t \in steps : Order[s[1]] <= Order[t[1]]

-----------------------------------------------------------------------------
\* ShouldDo of each step, for microvm v with spec mvm; blind tells that the
\* lookup of the interface goes wrong.
ShouldCreateDir == RootDir \notin dirs

\* The status lacks the mount, or the snapshot is not there.
ShouldMount(v, mvm, i) == i \notin mvm.mounts \/ i \notin snaps[v]

ShouldCreateIface(mvm, n, blind) == ~IfaceExists(mvm.ifaces[n], blind)

ShouldCreate(v) == ~Running(v)

ShouldStart(v) == ~Running(v)

ShouldDelete(v) == Running(v)

ShouldRelease(v) == store[v] # NoSpec

ShouldDeleteIface(mvm, n, blind) == IfaceExists(mvm.ifaces[n], blind)

ShouldDeleteDir(v) == v \in dirs

\* Procedure.ShouldDo; lookups of the interfaces in blind go wrong.
ShouldDo(s, v, mvm, blind) ==
  CASE s[1] = "dir_create"   -> ShouldCreateDir
    [] s[1] = "mount"        -> ShouldMount(v, mvm, s[2])
    [] s[1] = "iface_create" -> ShouldCreateIface(mvm, s[2], s[2] \in blind)
    [] s[1] = "create"       -> ShouldCreate(v)
    [] s[1] = "start"        -> ShouldStart(v)
    [] s[1] = "delete"       -> ShouldDelete(v)
    [] s[1] = "release"      -> ShouldRelease(v)
    [] s[1] = "iface_delete" -> ShouldDeleteIface(mvm, s[2], s[2] \in blind)
    [] s[1] = "dir_delete"   -> ShouldDeleteDir(v)
    [] s[1] = "publish"      -> TRUE

\* Plan.Create, delete plan: the Deleted event is published last, and only
\* when there was anything to do.
DeletePlan(v, mvm, blind) ==
  LET needed == {s \in DeleteSteps : ShouldDo(s, v, mvm, blind)}
  IN  IF needed = {} THEN {} ELSE needed \cup {<<"publish">>}

\* Plan.Create, create or update plan.
CreatePlan(v, mvm, blind) == {s \in CreateSteps : ShouldDo(s, v, mvm, blind)}

\* app.plan.
Plan(v, mvm, blind) ==
  IF mvm.deleted THEN DeletePlan(v, mvm, blind) ELSE CreatePlan(v, mvm, blind)

\* ensureStatus: going through the create plan makes the microvm pending.
EnsureStatus(mvm) == IF mvm.deleted THEN mvm ELSE [mvm EXCEPT !.state = "pending"]

\* Finalise: the delete plan keeps the state as it is.
Finalise(mvm, state) == IF mvm.deleted THEN mvm ELSE [mvm EXCEPT !.state = state]

=============================================================================
