----------------------- MODULE FlintlockLeftovers_proofs -----------------------
(***************************************************************************)
(* Proofs about what Flintlock has on the host for a microvm: no more than *)
(* one link per interface while it is there, and nothing once its spec is  *)
(* gone.                                                                   *)
(***************************************************************************)
EXTENDS FlintlockCopies_proofs, FiniteSetTheorems

(***************************************************************************)
(* The invariants.                                                         *)
(***************************************************************************)

\* Deleted or not, the links of a microvm have the names of its interfaces.
LinksCovered ==
  NoSaveLost =>
    \A v \in VMs : \E f \in IfaceStatus :
      \A d \in Devs : link[d] = v => \E n \in Ifaces : f[n] = d

\* The step is yet to be run.
Left(s) == pc = "react" /\ s \in todo

NoLookupFailed == budget["lookup"] = Budget["lookup"]

\* What the steps of the delete plan that are not left to run should delete is
\* gone.  When the plan has been run to its end, it has released the lease.
CleanProgress ==
  PatientClient /\ mem # NoSpec =>
    (mem.deleted /\ (pc = "react" \/ (pc = "plan" /\ store[cur] = NoSpec)) =>
       /\ Left(<<"release">>) \/ store[cur] = NoSpec
       /\ Left(<<"dir_delete">>) \/ cur \notin dirs
       /\ NoLookupFailed =>
            \A n \in Ifaces : Left(<<"iface_delete", n>>) \/ ~IfaceExists(mem.ifaces[n], FALSE))

\* A microvm without a directory and without links.
Cleared(v) == v \notin dirs /\ \A d \in Devs : link[d] # v

\* Once the lease is released and the worker has put its copy away, that is so.
AllCleared ==
  PatientClient /\ NoSaveLost /\ budget["lookup"] + 1 >= Budget["lookup"] =>
    \A v \in gone : store[v] = NoSpec /\ (cur # v \/ mem = NoSpec) => Cleared(v)

(***************************************************************************)
(* No more links than interfaces.                                          *)
(***************************************************************************)

\* LinksCovered holds initially, without a link.
LEMMA InitCovered == Init => LinksCovered
  <1>1. [n \in Ifaces |-> NoDev] \in IfaceStatus
    BY DEF IfaceStatus
  <1>. QED
    BY ZenonT(30), <1>1, HostFresh DEF Init, HostInit, LinksCovered

\* LinksCovered is inductive.
LEMMA NextCovered ==
  TypeOK /\ Deletion /\ Links /\ CopyKnows' /\ LinksCovered /\ [Next]_vars => LinksCovered'
  <1>. SUFFICES ASSUME TypeOK, Deletion, Links, CopyKnows', LinksCovered, [Next]_vars
                PROVE  LinksCovered'
    OBVIOUS
  <1>. SUFFICES ASSUME NoSaveLost', NEW v \in VMs
                PROVE  \E f \in IfaceStatus :
                         \A d \in Devs : link'[d] = v => \E n \in Ifaces : f[n] = d
    BY ZenonT(30) DEF LinksCovered
  <1>1. NoSaveLost /\ ~Crash
    BY SavesSucceed DEF Links
  <1>2. PICK g \in IfaceStatus : \A d \in Devs : link[d] = v => \E n \in Ifaces : g[n] = d
    BY ZenonT(30), <1>1 DEF LinksCovered
  <1>3. CASE \A d \in Devs : link'[d] = v => link[d] = v
    BY <1>2, <1>3
  <1>4. CASE AttemptStep /\ cur = v /\ \E n \in Ifaces, d \in Devs : NewLink(n, d)
    <2>1. PICK n \in Ifaces, d \in Devs : NewLink(n, d)
      BY <1>4
    <2>2. ~Return
      BY <1>4, <2>1, AttemptAt, HostFresh DEF NewLink, Return
    <2>3. /\ cur' = v /\ mem' \in Specs /\ mem' # NoSpec /\ ~mem'.deleted
      BY <1>4, <2>1, <2>2, AttemptAt, NoSpecFresh DEF Attempting, NewLink
    <2>4. Copy(v)' = mem'
      BY <2>3 DEF Copy
    <2>5. \A e \in Devs : link'[e] = v => \E m \in Ifaces : mem'.ifaces[m] = e
      BY <2>3, <2>4 DEF CopyKnows, Knows
    <2>. QED
      BY <2>3, <2>5 DEF Specs
  <1>5. CASE AttemptStep
    BY Zenon, <1>3, <1>4, <1>5, AttemptHost
  <1>6. CASE ~AttemptStep
    <2>1. UNCHANGED link
      <3>1. ASSUME NEW w \in VMs, CommandStep(w) \/ VMMExit(w) PROVE UNCHANGED link
        BY <3>1, CommandEffect, ExitEffect DEF hostVars
      <3>2. CASE ReadStep \/ SaveStep
        BY ZenonT(30), <3>2, ReadEffect, SaveEffect DEF hostVars
      <3>3. CASE ControllerStep \/ UNCHANGED vars
        BY <3>3, ControllerIdle DEF Idle, hostVars
      <3>. QED
        BY Zenon, <1>1, <1>6, <3>1, <3>2, <3>3, StepsOfNext
    <2>. QED
      BY <1>3, <2>1
  <1>. QED
    BY <1>5, <1>6

\* What the links are made for: every link of a microvm has the name of one of its
\* interfaces.
THEOREM LinksAreCovered == SafeSpec => []LinksCovered
  BY InitType, NextType, InitDeletion, NextDeletion, InitLinks, NextLinks,
     CopiesKnow, InitCovered, NextCovered, PTL DEF SafeSpec

\* However often the create plan is repeated, no interface gets a second link, as
\* long as no save is lost.
THEOREM NoSecondLink == SafeSpec => []OneLinkPerIface
  <1>1. LinksCovered => OneLinkPerIface
    <2>. SUFFICES ASSUME LinksCovered, NoSaveLost, NEW v \in VMs
                  PROVE  Cardinality({d \in Devs : link[d] = v}) <= Cardinality(Ifaces)
      BY ZenonT(30) DEF OneLinkPerIface
    <2>1. PICK f \in IfaceStatus : \A d \in Devs : link[d] = v => \E n \in Ifaces : f[n] = d
      BY DEF LinksCovered
    <2>. DEFINE names == {f[n] : n \in Ifaces}
                links == {d \in Devs : link[d] = v}
    <2>2. f \in Surjection(Ifaces, names)
      BY <2>1 DEF Surjection, IfaceStatus
    <2>3. links \in SUBSET names
      BY <2>1
    <2>4. IsFiniteSet(names) /\ Cardinality(names) <= Cardinality(Ifaces)
      <3>. HIDE DEF names
      <3>. QED
        BY <2>2, FS_Surjection, IfacesFinite
    <2>5. IsFiniteSet(links) /\ Cardinality(links) <= Cardinality(names)
      <3>. HIDE DEF names, links
      <3>. QED
        BY <2>3, <2>4, FS_Subset
    <2>6. Cardinality(links) \in Nat /\ Cardinality(names) \in Nat /\ Cardinality(Ifaces) \in Nat
      <3>. HIDE DEF names, links
      <3>. QED
        BY <2>4, <2>5, IfacesFinite, FS_CardinalityType
    <2>7. Cardinality(links) <= Cardinality(Ifaces)
      <3>. HIDE DEF names, links
      <3>. QED
        BY <2>4, <2>5, <2>6
    <2>. QED
      BY <2>7
  <1>. QED
    BY <1>1, LinksAreCovered, PTL

(***************************************************************************)
(* The delete plan.                                                        *)
(***************************************************************************)

\* Why a step of the delete plan is left out, or skipped.
LEMMA NothingToDelete ==
  ASSUME NEW v, NEW m, NEW blind
  PROVE  /\ ~ShouldDo(<<"release">>, v, m, blind) => store[v] = NoSpec
         /\ ~ShouldDo(<<"dir_delete">>, v, m, blind) => v \notin dirs
         /\ \A n \in Ifaces : ~ShouldDo(<<"iface_delete", n>>, v, m, {})
                                => ~IfaceExists(m.ifaces[n], FALSE)
  BY DEF ShouldDo, ShouldRelease, ShouldDeleteDir, ShouldDeleteIface, IfaceExists

\* What a delete plan leaves out is gone.
LEMMA DeletePlanLeavesOut ==
  ASSUME NEW v, NEW m, NEW blind, m.deleted
  PROVE  /\ <<"release">> \in Plan(v, m, blind) \/ store[v] = NoSpec
         /\ <<"dir_delete">> \in Plan(v, m, blind) \/ v \notin dirs
         /\ \A n \in Ifaces : \/ <<"iface_delete", n>> \in Plan(v, m, {})
                              \/ ~IfaceExists(m.ifaces[n], FALSE)
  <1>1. /\ <<"release">> \in DeleteSteps /\ <<"dir_delete">> \in DeleteSteps
        /\ \A n \in Ifaces : <<"iface_delete", n>> \in DeleteSteps
    BY DEF DeleteSteps
  <1>2. ASSUME NEW b, NEW s \in DeleteSteps, s \notin Plan(v, m, b)
        PROVE  ~ShouldDo(s, v, m, b)
    BY Zenon, <1>2 DEF Plan, DeletePlan
  <1>. QED
    BY ZenonT(30), <1>1, <1>2, NothingToDelete

\* The worker plans the deletion again.
Replans ==
  \E blind \in SUBSET Ifaces :
    /\ todo' = Plan(cur, mem, blind) /\ pc' = "react"
    /\ blind = {} \/ Spend("lookup")
    /\ UNCHANGED <<store, hostVars>>

\* It runs or skips step s of the deletion.
Deletes(s) ==
  /\ AtStep(s) /\ Proceed(s)
  /\ store'[cur] \in {store[cur], NoSpec} /\ (s = <<"release">> => store'[cur] = NoSpec)
  /\ dirs' \subseteq dirs /\ (s = <<"dir_delete">> => cur \notin dirs')
  /\ \A d \in Devs : link'[d] \in {link[d], NoVM}
  /\ \A n \in Ifaces : s = <<"iface_delete", n>> =>
       Spend("lookup") \/ ~(mem.ifaces[n] # NoDev /\ link'[mem.ifaces[n]] # NoVM)

\* These are all the steps of a deletion that goes on.
LEMMA DeletionSteps ==
  ASSUME TypeOK, Deletion, AttemptStep, mem.deleted, pc' \in {"plan", "react"}
  PROVE  mem' = mem /\ (Replans \/ \E s : Deletes(s))
  <1>1. /\ cur \in VMs /\ mem \in Specs /\ mem.ifaces \in IfaceStatus
        /\ store \in [VMs -> Specs \cup {NoSpec}] /\ link \in [Devs -> VMs \cup {NoVM}]
        /\ dirs \subseteq VMs \cup {RootDir}
    BY AttemptAt DEF TypeOK, StoreTypeOK, HostTypeOK
  <1>2. ASSUME \/ Failed \/ Return \/ Goto("reschedule") \/ Goto("created") \/ Goto("setpid")
        PROVE  FALSE
    BY <1>2 DEF Failed, Return, Goto
  <1>3. CASE PlanCreate
    <2>1. EnsureStatus(mem) = mem /\ (PlanDone => Return \/ Goto("created"))
      BY Zenon DEF EnsureStatus, PlanDone
    <2>. QED
      BY ZenonT(30), <1>2, <1>3, <2>1 DEF PlanCreate, Replans, Goto
  <1>4. ASSUME NEW s \in Steps, Skip(s) PROVE mem' = mem /\ Deletes(s)
    <2>1. PICK blind \in SUBSET Ifaces : /\ blind = {} \/ Spend("lookup")
                                         /\ ~ShouldDo(s, cur, mem, blind)
      BY Zenon, <1>4 DEF Skip
    <2>2. AtStep(s) /\ Proceed(s) /\ UNCHANGED <<mem, store, hostVars>>
      BY Zenon, <1>4 DEF Skip
    <2>3. UNCHANGED <<store, dirs, link>>
      BY <2>2 DEF hostVars
    <2>4. /\ s = <<"release">> => store[cur] = NoSpec
          /\ s = <<"dir_delete">> => cur \notin dirs
      BY Zenon, <2>1, NothingToDelete
    <2>5. \A n \in Ifaces : s = <<"iface_delete", n>> =>
            Spend("lookup") \/ ~IfaceExists(mem.ifaces[n], FALSE)
      BY Zenon, <2>1, NothingToDelete
    <2>. QED
      BY <2>2, <2>3, <2>4, <2>5 DEF Deletes, IfaceExists
  <1>. DEFINE NoIface(s) == \A n \in Ifaces : s # <<"iface_delete", n>>
  <1>5. CASE DeleteVMM
    <2>1. /\ AtStep(<<"delete">>) /\ UNCHANGED <<mem, store>>
          /\ Terminated(cur) \/ Signalled(cur)
      BY Zenon, <1>5 DEF DeleteVMM
    <2>2. Proceed(<<"delete">>)
      BY Zenon, <1>2, <1>5 DEF DeleteVMM, Done
    <2>3. UNCHANGED <<dirs, link>>
      BY <2>1 DEF Terminated, Signalled
    <2>4. <<"delete">> # <<"release">> /\ <<"delete">> # <<"dir_delete">> /\ NoIface(<<"delete">>)
      OBVIOUS
    <2>5. Deletes(<<"delete">>)
      BY <2>1, <2>2, <2>3, <2>4 DEF Deletes
    <2>. QED
      BY <2>1, <2>5
  <1>6. CASE Release
    <2>1. /\ AtStep(<<"release">>) /\ UNCHANGED mem /\ CollectSnapshots(cur)
          /\ store' = [store EXCEPT ![cur] = NoSpec]
      BY Zenon, <1>6 DEF Release
    <2>2. Proceed(<<"release">>)
      BY Zenon, <1>2, <1>6 DEF Release, Done
    <2>3. UNCHANGED <<dirs, link>> /\ store'[cur] = NoSpec
      BY <1>1, <2>1 DEF CollectSnapshots
    <2>4. <<"release">> # <<"dir_delete">> /\ NoIface(<<"release">>)
      OBVIOUS
    <2>5. Deletes(<<"release">>)
      BY <2>1, <2>2, <2>3, <2>4 DEF Deletes
    <2>. QED
      BY <2>1, <2>5
  <1>7. ASSUME NEW n \in Ifaces, RemoveIface(n) PROVE mem' = mem /\ Deletes(<<"iface_delete", n>>)
    <2>1. /\ AtStep(<<"iface_delete", n>>) /\ Proceed(<<"iface_delete", n>>)
          /\ UNCHANGED <<mem, store>> /\ IfaceDelete(mem.ifaces[n])
      BY Zenon, <1>7 DEF RemoveIface, Done
    <2>2. /\ UNCHANGED dirs /\ \A d \in Devs : link'[d] \in {link[d], NoVM}
          /\ mem.ifaces[n] # NoDev => link'[mem.ifaces[n]] = NoVM
      BY <1>1, <2>1 DEF IfaceDelete, IfaceStatus
    <2>3. /\ <<"iface_delete", n>> # <<"release">> /\ <<"iface_delete", n>> # <<"dir_delete">>
          /\ \A m \in Ifaces : <<"iface_delete", n>> = <<"iface_delete", m>> => m = n
      OBVIOUS
    <2>. QED
      BY <2>1, <2>2, <2>3 DEF Deletes
  <1>8. CASE DirDelete
    <2>1. /\ AtStep(<<"dir_delete">>) /\ Proceed(<<"dir_delete">>)
          /\ UNCHANGED <<mem, store>> /\ RemoveDir(cur)
      BY Zenon, <1>8 DEF DirDelete, Done
    <2>2. UNCHANGED link /\ dirs' = dirs \ {cur}
      BY <2>1 DEF RemoveDir
    <2>3. <<"dir_delete">> # <<"release">> /\ NoIface(<<"dir_delete">>)
      OBVIOUS
    <2>4. Deletes(<<"dir_delete">>)
      BY <2>1, <2>2, <2>3 DEF Deletes
    <2>. QED
      BY <2>1, <2>4
  <1>9. CASE PublishDeleted
    <2>1. /\ AtStep(<<"publish">>) /\ Proceed(<<"publish">>)
          /\ UNCHANGED <<mem, store, hostVars>>
      BY Zenon, <1>9 DEF PublishDeleted, Done
    <2>2. UNCHANGED <<dirs, link>>
      BY <2>1 DEF hostVars
    <2>3. /\ <<"publish">> # <<"release">> /\ <<"publish">> # <<"dir_delete">>
          /\ NoIface(<<"publish">>)
      OBVIOUS
    <2>4. Deletes(<<"publish">>)
      BY <2>1, <2>2, <2>3 DEF Deletes
    <2>. QED
      BY <2>1, <2>4
  <1>10. CASE \/ DirCreate \/ \E i \in Images : Mount(i)
              \/ \E n \in Ifaces : NewIface(n) \/ NewIfaceError(n) \/ NoIfaceName(n)
              \/ CreateStart \/ CreateError \/ Start
    BY ZenonT(30), <1>10, StepTellsPlan DEF Deletion, DirCreate, Mount, NewIface, NewIfaceError,
       NoIfaceName, CreateStart, CreateError, Start
  <1>11. CASE CreateSetPid \/ CreateSetPidError
    BY Zenon, <1>11 DEF CreateSetPid, CreateSetPidError, Deletion, PlanFits
  <1>12. CASE PlanError \/ \E s \in Steps : StepError(s)
    BY Zenon, <1>2, <1>12 DEF PlanError, StepError
  <1>. QED
    BY Zenon, <1>3, <1>4, <1>5, <1>6, <1>7, <1>8, <1>9, <1>10, <1>11, <1>12 DEF AttemptStep

\* While the worker carries out a deletion, no command saves the spec again.
LEMMA CommandLeaves ==
  ASSUME TypeOK, Deletion, Retries, NamesSettled, PatientClient, mem # NoSpec, mem.deleted,
         NEW v \in VMs, CommandStep(v)
  PROVE  store'[cur] = store[cur]
  <1>1. cur \in VMs /\ cur \in used /\ CommandsSettled
    BY DEF Deletion, WorkerCopy, TypeOK, ApiTypeOK, NamesSettled
  <1>2. api[cur] # "save"
    BY <1>1 DEF CommandsSettled
  <1>. QED
    BY ZenonT(30), <1>1, <1>2, CommandSaves

\* CleanProgress holds initially, without an attempt.
LEMMA InitClean == Init => CleanProgress
  BY DEF Init, CleanProgress

\* CleanProgress is inductive.
LEMMA NextClean ==
  TypeOK /\ Deletion /\ Retries /\ Links /\ NamesSettled /\ CleanProgress /\ [Next]_vars
    => CleanProgress'
  <1>. SUFFICES ASSUME TypeOK, Deletion, Retries, Links, NamesSettled, CleanProgress, [Next]_vars
                PROVE  CleanProgress'
    OBVIOUS
  <1>. SUFFICES ASSUME PatientClient, mem' # NoSpec, mem'.deleted,
                       pc' = "react" \/ (pc' = "plan" /\ store'[cur'] = NoSpec)
                PROVE  /\ Left(<<"release">>)' \/ store'[cur'] = NoSpec
                       /\ Left(<<"dir_delete">>)' \/ cur' \notin dirs'
                       /\ NoLookupFailed' =>
                            \A n \in Ifaces : \/ Left(<<"iface_delete", n>>)'
                                              \/ ~IfaceExists(mem.ifaces[n], FALSE)'
    BY ZenonT(30) DEF CleanProgress
  <1>1. NoLookupFailed' => NoLookupFailed /\ ~Spend("lookup")
    <2>1. "lookup" \in BudgetKinds
      BY DEF BudgetKinds
    <2>. QED
      BY <2>1, Unspent DEF NoLookupFailed, Links
  <1>2. ASSUME UNCHANGED <<mem, cur, pc, todo, dirs, link>>, store'[cur] = store[cur]
        PROVE  /\ Left(<<"release">>)' \/ store'[cur'] = NoSpec
               /\ Left(<<"dir_delete">>)' \/ cur' \notin dirs'
               /\ NoLookupFailed' =>
                    \A n \in Ifaces : \/ Left(<<"iface_delete", n>>)'
                                      \/ ~IfaceExists(mem.ifaces[n], FALSE)'
    BY <1>1, <1>2 DEF CleanProgress, Left, IfaceExists
  <1>3. CASE ReadStep
    <2>1. UNCHANGED store /\ cur' = cur /\ mem' = store[cur] /\ pc' \in {"plan", "failed"}
      BY Zenon, <1>3, ReadEffect
    <2>. QED
      BY <2>1
  <1>4. CASE AttemptStep
    <2>1. cur' = cur /\ mem.deleted /\ mem # NoSpec
      BY ZenonT(30), <1>4, AttemptAt DEF Return, Attempting
    <2>2. mem' = mem /\ (Replans \/ \E s : Deletes(s))
      BY <1>4, <2>1, DeletionSteps
    <2>3. CASE Replans
      <3>1. PICK blind \in SUBSET Ifaces : /\ todo' = Plan(cur, mem, blind) /\ pc' = "react"
                                           /\ blind = {} \/ Spend("lookup")
                                           /\ UNCHANGED <<store, hostVars>>
        BY <2>3 DEF Replans
      <3>2. UNCHANGED <<store, dirs, link>>
        BY <3>1 DEF hostVars
      <3>3. /\ <<"release">> \in todo' \/ store[cur] = NoSpec
            /\ <<"dir_delete">> \in todo' \/ cur \notin dirs
            /\ blind = {} => \A n \in Ifaces : \/ <<"iface_delete", n>> \in todo'
                                               \/ ~IfaceExists(mem.ifaces[n], FALSE)
        BY Zenon, <2>1, <3>1, DeletePlanLeavesOut
      <3>. QED
        BY <1>1, <2>1, <2>2, <3>1, <3>2, <3>3 DEF Left, IfaceExists
    <2>4. ASSUME NEW s, Deletes(s)
          PROVE  /\ Left(<<"release">>)' \/ store'[cur'] = NoSpec
                 /\ Left(<<"dir_delete">>)' \/ cur' \notin dirs'
                 /\ NoLookupFailed' =>
                      \A n \in Ifaces : \/ Left(<<"iface_delete", n>>)'
                                        \/ ~IfaceExists(mem.ifaces[n], FALSE)'
      <3>1. /\ pc = "react" /\ todo' = todo \ {s} /\ pc' = IF todo' = {} THEN "plan" ELSE "react"
        BY <2>4 DEF Deletes, AtStep, Proceed
      <3>2. \A r : Left(r)' \/ r \notin todo \/ r = s
        BY <3>1 DEF Left
      <3>3. /\ <<"release">> \in todo \/ store[cur] = NoSpec
            /\ <<"dir_delete">> \in todo \/ cur \notin dirs
            /\ NoLookupFailed => \A n \in Ifaces : \/ <<"iface_delete", n>> \in todo
                                                   \/ ~IfaceExists(mem.ifaces[n], FALSE)
        BY Zenon, <2>1, <3>1 DEF CleanProgress, Left
      <3>4. Left(<<"release">>)' \/ store'[cur'] = NoSpec
        BY <2>1, <2>4, <3>2, <3>3 DEF Deletes
      <3>5. Left(<<"dir_delete">>)' \/ cur' \notin dirs'
        BY <2>1, <2>4, <3>2, <3>3 DEF Deletes
      <3>6. ASSUME NoLookupFailed', NEW n \in Ifaces
            PROVE  Left(<<"iface_delete", n>>)' \/ ~IfaceExists(mem.ifaces[n], FALSE)'
        <4>1. mem.ifaces[n] \in Devs \cup {NoDev}
          BY <1>4, AttemptAt DEF IfaceStatus
        <4>2. CASE s = <<"iface_delete", n>>
          BY <1>1, <2>2, <2>4, <3>6, <4>2 DEF Deletes, IfaceExists
        <4>3. CASE s # <<"iface_delete", n>>
          <5>1. Left(<<"iface_delete", n>>)' \/ ~IfaceExists(mem.ifaces[n], FALSE)
            BY Zenon, <1>1, <3>2, <3>3, <3>6, <4>3
          <5>2. mem.ifaces[n] \in Devs =>
                  link'[mem.ifaces[n]] \in {link[mem.ifaces[n]], NoVM}
            BY Zenon, <2>4 DEF Deletes
          <5>. QED
            BY <2>2, <4>1, <5>1, <5>2 DEF IfaceExists
        <4>. QED
          BY ZenonT(30), <4>2, <4>3
      <3>. QED
        BY ZenonT(30), <3>4, <3>5, <3>6
    <2>. QED
      BY Zenon, <2>2, <2>3, <2>4
  <1>5. CASE SaveStep
    BY <1>5, SaveEffect
  <1>7. ASSUME NEW v \in VMs, CommandStep(v)
        PROVE  UNCHANGED <<mem, cur, pc, todo, dirs, link>> /\ store'[cur] = store[cur]
    <2>1. UNCHANGED <<mem, cur, pc, todo, dirs, link>>
      BY <1>7, CommandEffect DEF workerVars, hostVars
    <2>. QED
      BY <1>7, <2>1, CommandLeaves
  <1>8. ASSUME NEW v \in VMs, VMMExit(v)
        PROVE  UNCHANGED <<mem, cur, pc, todo, dirs, link>> /\ store'[cur] = store[cur]
    BY <1>8, ExitEffect DEF workerVars
  <1>9. CASE ControllerStep \/ UNCHANGED vars
    <2>1. UNCHANGED <<mem, cur, pc, todo, dirs, link, store>>
      BY <1>9, ControllerIdle DEF Idle, workerVars, hostVars
    <2>. QED
      BY ZenonT(30), <1>2, <2>1
  <1>10. CASE Crash
    BY <1>10, CrashEffect
  <1>. QED
    BY Zenon, <1>2, <1>3, <1>4, <1>5, <1>7, <1>8, <1>9, <1>10, StepsOfNext

\* A deletion by the worker leaves behind only what steps still to be run delete.
THEOREM CleanHolds == SafeSpec => []CleanProgress
  BY InitType, NextType, InitDeletion, NextDeletion, InitRetries, NextRetries, InitLinks, NextLinks,
     NamesHold, InitClean, NextClean, PTL DEF SafeSpec

\* The Deleted event is published for a microvm of which nothing is left, as long as
\* no save and no lookup has failed and clients delete what they see created.
THEOREM DeletedEventTrue ==
  ASSUME PatientClient
  PROVE  SafeSpec => DeletedEventIsTrue
  <1>1. ASSUME TypeOK, Deletion, CopyKnows, CleanProgress, Next, NoSaveLost, NoLookupFailed,
               NEW v \in announced' \ announced
        PROVE  store[v] = NoSpec /\ ~Leftovers(v)
    <2>1. PublishDeleted /\ AttemptStep
      <3>1. historyVars' # historyVars
        BY <1>1 DEF historyVars
      <3>2. AttemptStep
        <4>1. ~ReadStep /\ ~SaveStep /\ ~ControllerStep /\ ~Crash
          BY ZenonT(30), <3>1, <1>1, ReadEffect, SaveEffect, CrashEffect, ControllerIdle
             DEF Idle, historyVars
        <4>2. ASSUME NEW w \in VMs PROVE ~CommandStep(w) /\ ~VMMExit(w)
          BY ZenonT(30), <3>1, CommandEffect, ExitEffect DEF historyVars
        <4>3. ~UNCHANGED vars
          BY Zenon, <3>1 DEF vars
        <4>. QED
          BY Zenon, <1>1, <4>1, <4>2, <4>3, StepsOfNext
      <3>3. CASE Release
        BY <1>1, <3>3 DEF Release
      <3>4. CASE ~Release /\ ~PublishDeleted
        <4>1. UNCHANGED historyVars
          BY ZenonT(30), <3>2, <3>4 DEF AttemptStep, PlanError, PlanCreate, PlanDone, Skip,
             StepError, DirCreate, DirDelete, Mount, NewIface, NewIfaceError, NoIfaceName,
             RemoveIface, CreateStart, CreateSetPid, CreateSetPidError, CreateError, Start,
             DeleteVMM
        <4>. QED
          BY <3>1, <4>1
      <3>. QED
        BY <3>2, <3>3, <3>4
    <2>2. AtStep(<<"publish">>) /\ v = cur /\ pc = "react"
      BY <1>1, <2>1 DEF PublishDeleted, AtStep
    <2>3. cur \in VMs /\ mem # NoSpec /\ mem.deleted
      BY Zenon, <1>1, <2>1, <2>2, AttemptAt, StepTellsPlan DEF Deletion
    <2>4. /\ <<"release">> \notin todo /\ <<"delete">> \notin todo /\ <<"dir_delete">> \notin todo
          /\ \A n \in Ifaces : <<"iface_delete", n>> \notin todo
      BY <2>2 DEF AtStep, First, Order
    <2>5. /\ store[cur] = NoSpec /\ cur \notin dirs
          /\ \A n \in Ifaces : ~IfaceExists(mem.ifaces[n], FALSE)
      BY Zenon, <1>1, <2>2, <2>3, <2>4 DEF CleanProgress, Left
    <2>6. cur \in gone
      BY Zenon, <1>1, <2>2, <2>3, <2>4 DEF Deletion, DeletePlanProgress
    <2>7. (vmm[cur] = NoProc \/ cur \in killed) /\ snaps[cur] = {}
      BY Zenon, <1>1, <2>6 DEF Deletion, GoneIsStopped
    <2>8. ASSUME NEW d \in Devs, link[d] = cur PROVE FALSE
      <3>1. Copy(cur) = mem
        BY <2>3 DEF Copy
      <3>2. PICK n \in Ifaces : mem.ifaces[n] = d
        BY Zenon, <1>1, <2>3, <2>8, <3>1 DEF CopyKnows, Knows
      <3>. QED
        BY <2>3, <2>5, <2>8, <3>2, NoDevFresh, HostFresh DEF IfaceExists
    <2>. QED
      BY <2>2, <2>5, <2>7, <2>8 DEF Leftovers, Running
  <1>2. TypeOK /\ Deletion /\ CopyKnows /\ CleanProgress /\ [Next]_vars =>
          [NoSaveLost /\ budget["lookup"] = Budget["lookup"] =>
             \A v \in announced' \ announced : store[v] = NoSpec /\ ~Leftovers(v)]_vars
    BY Zenon, <1>1 DEF NoLookupFailed
  <1>. QED
    BY <1>2, TypeCorrect, DeletionHolds, CopiesKnow, CleanHolds, PTL DEF SafeSpec, DeletedEventIsTrue

(***************************************************************************)
(* Nothing is left of a microvm that is gone.                              *)
(***************************************************************************)

\* An attempt makes no directory for another microvm, and releases no lease but its
\* own.
LEMMA AttemptOthers ==
  ASSUME TypeOK, Deletion, AttemptStep, NEW v \in VMs, v # cur
  PROVE  (v \in dirs' => v \in dirs) /\ (v \in gone' => v \in gone)
  <1>1. UNCHANGED dirs \/ MakeDir(RootDir) \/ MakeDir(cur) \/ StartVMM(cur, mem.ifaces)
          \/ RemoveDir(cur)
    BY ZenonT(30) DEF AttemptStep, PlanError, PlanCreate, PlanDone, Skip, StepError, DirCreate,
       DirDelete, Mount, NewIface, NewIfaceError, NoIfaceName, RemoveIface, CreateStart,
       CreateSetPid, CreateSetPidError, CreateError, Start, DeleteVMM, Release, PublishDeleted,
       hostVars, PullAndMount, CollectSnapshots, IfaceCreate, LinkAdd, IfaceDelete, SetPid,
       LosePids, Terminated, Signalled
  <1>2. UNCHANGED gone \/ gone' = gone \cup {cur}
    BY ZenonT(30) DEF AttemptStep, PlanError, PlanCreate, PlanDone, Skip, StepError, DirCreate,
       DirDelete, Mount, NewIface, NewIfaceError, NoIfaceName, RemoveIface, CreateStart,
       CreateSetPid, CreateSetPidError, CreateError, Start, DeleteVMM, Release, PublishDeleted,
       historyVars
  <1>. QED
    BY <1>1, <1>2, HostFresh DEF MakeDir, StartVMM, RemoveDir

\* A deletion ends when nothing is left to do for the plan: nothing that it can see,
\* and what a failed lookup hides it has deleted before.
LEMMA DeletionEnds ==
  ASSUME TypeOK, Deletion, CopyKnows, CleanProgress, AttemptStep, Return, mem.deleted,
         PatientClient, NoSaveLost, Spend("lookup") => NoLookupFailed
  PROVE  Cleared(cur)
  <1>1. cur \in VMs /\ mem # NoSpec /\ pc = "plan"
    BY AttemptAt, ReturnEffect
  <1>2. PICK blind \in SUBSET Ifaces : /\ blind = {} \/ Spend("lookup")
                                       /\ Plan(cur, mem, blind) = {}
    <2>1. PlanCreate
      <3>1. pc' = "idle"
        BY DEF Return
      <3>2. ASSUME Failed \/ Goto("reschedule") PROVE FALSE
        BY <3>1, <3>2 DEF Failed, Goto
      <3>. QED
        BY ZenonT(30), <1>1, <3>2 DEF AttemptStep, PlanError, Skip, StepError, DirCreate,
           DirDelete, Mount, NewIface, NewIfaceError, NoIfaceName, RemoveIface, CreateStart,
           CreateSetPid, CreateSetPidError, CreateError, Start, DeleteVMM, Release,
           PublishDeleted, AtStep
    <2>2. ~Goto("react")
      BY DEF Goto, Return
    <2>. QED
      BY Zenon, <2>1, <2>2 DEF PlanCreate
  <1>3. /\ store[cur] = NoSpec /\ cur \notin dirs
        /\ blind = {} => \A n \in Ifaces : ~IfaceExists(mem.ifaces[n], FALSE)
    BY Zenon, <1>2, DeletePlanLeavesOut
  <1>4. \A n \in Ifaces : ~IfaceExists(mem.ifaces[n], FALSE)
    <2>1. CASE blind = {}
      BY ZenonT(30), <1>3, <2>1
    <2>2. CASE Spend("lookup")
      <3>1. \A s : ~Left(s)
        BY <1>1 DEF Left
      <3>. QED
        BY Zenon, <1>1, <1>3, <2>2, <3>1 DEF CleanProgress
    <2>. QED
      BY Zenon, <1>2, <2>1, <2>2
  <1>5. ASSUME NEW d \in Devs, link[d] = cur PROVE FALSE
    <2>1. Copy(cur) = mem
      BY <1>1 DEF Copy
    <2>2. PICK n \in Ifaces : mem.ifaces[n] = d
      BY Zenon, <1>1, <1>5, <2>1 DEF CopyKnows, Knows
    <2>. QED
      BY <1>1, <1>4, <1>5, <2>2, NoDevFresh, HostFresh DEF IfaceExists
  <1>. QED
    BY <1>3, <1>5 DEF Cleared

\* AllCleared holds initially, with nothing on the host.
LEMMA InitCleared == Init => AllCleared
  BY DEF Init, AllCleared

\* AllCleared is inductive.
LEMMA NextCleared ==
  TypeOK /\ Deletion /\ Retries /\ Links /\ CopyKnows /\ CleanProgress /\ AllCleared
    /\ [Next]_vars => AllCleared'
  <1>. SUFFICES ASSUME TypeOK, Deletion, Retries, Links, CopyKnows, CleanProgress, AllCleared,
                       [Next]_vars
                PROVE  AllCleared'
    OBVIOUS
  <1>. SUFFICES ASSUME PatientClient, NoSaveLost', budget'["lookup"] + 1 >= Budget["lookup"],
                       NEW v \in gone', store'[v] = NoSpec, cur' # v \/ mem' = NoSpec
                PROVE  Cleared(v)'
    BY ZenonT(30) DEF AllCleared
  <1>1. NoSaveLost /\ ~Crash /\ ~SaveError
    BY SavesSucceed DEF Links
  <1>2. /\ budget["lookup"] + 1 >= Budget["lookup"]
        /\ Spend("lookup") => NoLookupFailed
    <2>1. /\ budget \in [BudgetKinds -> Nat] /\ Budget \in [BudgetKinds -> Nat]
          /\ "lookup" \in BudgetKinds /\ budget["lookup"] <= Budget["lookup"]
      BY BudgetType DEF TypeOK, ControllerTypeOK, Links, WithinBudget, BudgetKinds
    <2>2. UNCHANGED budget \/ \E k \in BudgetKinds : Spend(k)
      BY BudgetSteps
    <2>3. budget'["lookup"] <= budget["lookup"]
      BY <2>1, <2>2 DEF Spend
    <2>4. Spend("lookup") => budget'["lookup"] = budget["lookup"] - 1
      BY <2>1 DEF Spend
    <2>5. budget'["lookup"] \in Nat
      <3>1. ASSUME NEW k \in BudgetKinds, Spend(k) PROVE budget'["lookup"] \in Nat
        BY <2>1, <3>1 DEF Spend
      <3>. QED
        BY <2>1, <2>2, <3>1
    <2>6. budget["lookup"] \in Nat /\ Budget["lookup"] \in Nat
      BY <2>1
    <2>. QED
      BY <2>1, <2>3, <2>4, <2>5, <2>6 DEF NoLookupFailed
  <1>3. v \in gone /\ store[v] = NoSpec /\ (cur # v \/ mem = NoSpec) => Cleared(v)
    BY Zenon, <1>1, <1>2 DEF AllCleared
  <1>4. ASSUME UNCHANGED <<dirs, link, gone>>, store[v] = NoSpec, cur # v \/ mem = NoSpec
        PROVE  Cleared(v)'
    BY <1>3, <1>4 DEF Cleared
  <1>5. gone \subseteq VMs /\ gone' \subseteq VMs
    BY NextType DEF TypeOK, ControllerTypeOK
  <1>6. CASE ReadStep
    <2>1. mem = NoSpec /\ UNCHANGED <<store, dirs, link, gone>>
      BY ZenonT(30), <1>6, ReadEffect DEF hostVars, historyVars
    <2>. QED
      BY <1>4, <2>1
  <1>7. CASE AttemptStep
    <2>1. cur \in VMs /\ mem # NoSpec /\ (Return \/ Attempting)
      BY <1>7, AttemptAt
    <2>2. CASE v # cur
      <3>1. /\ v \in gone /\ store[v] = NoSpec
            /\ v \in dirs' => v \in dirs
        BY <1>5, <1>7, <2>2, AttemptStore, AttemptOthers
      <3>2. \A d \in Devs : link'[d] = v => link[d] = v
        BY <1>5, <1>7, <2>2, AttemptHost
      <3>. QED
        BY <1>3, <2>2, <3>1, <3>2 DEF Cleared
    <2>3. CASE v = cur
      <3>1. Return
        BY <2>1, <2>3, NoSpecFresh DEF Attempting
      <3>2. UNCHANGED <<store, dirs, link>>
        BY ZenonT(30), <1>7, <3>1, ReturnEffect DEF hostVars
      <3>3. v \in gone
        <4>1. ~Release
          BY <3>1 DEF Release, Done, Proceed, Failed, Goto, Return
        <4>. QED
          BY ZenonT(30), <1>7, <4>1 DEF AttemptStep, PlanError, PlanCreate, PlanDone, Skip,
             StepError, DirCreate, DirDelete, Mount, NewIface, NewIfaceError, NoIfaceName,
             RemoveIface, CreateStart, CreateSetPid, CreateSetPidError, CreateError, Start,
             DeleteVMM, PublishDeleted, historyVars
      <3>4. mem.deleted
        BY <2>1, <2>3, <3>3 DEF Deletion, WorkerCopy
      <3>5. Cleared(cur)
        BY <1>1, <1>2, <1>7, <3>1, <3>4, DeletionEnds
      <3>. QED
        BY <2>3, <3>2, <3>5 DEF Cleared
    <2>. QED
      BY <2>2, <2>3
  <1>8. CASE SaveStep
    <2>1. /\ cur \in VMs /\ store'[cur] \in Specs
          /\ \A w \in VMs \ {cur} : store'[w] = store[w]
      BY Zenon, <1>1, <1>8, SavedCopy
    <2>2. UNCHANGED <<dirs, link, gone>>
      BY ZenonT(30), <1>8, SaveEffect DEF hostVars, historyVars
    <2>3. v # cur /\ store[v] = NoSpec
      BY <1>5, <2>1, NoSpecFresh
    <2>. QED
      BY <1>4, <2>2, <2>3
  <1>9. ASSUME NEW w \in VMs, CommandStep(w) PROVE Cleared(v)'
    <2>1. UNCHANGED <<mem, cur, dirs, link, gone>>
      BY ZenonT(30), <1>9, CommandEffect DEF workerVars, hostVars, historyVars
    <2>2. store[v] = NoSpec
      <3>1. store'[v] = store[v] \/ store'[v] \in Specs
        BY ZenonT(30), <1>5, <1>9, CommandSaves
      <3>. QED
        BY <3>1, NoSpecFresh
    <2>. QED
      BY <1>4, <2>1, <2>2
  <1>10. ASSUME NEW w \in VMs, VMMExit(w) PROVE Cleared(v)'
    <2>1. UNCHANGED <<store, mem, cur, dirs, link, gone>>
      BY ZenonT(30), <1>10, ExitEffect DEF workerVars, historyVars
    <2>. QED
      BY <1>4, <2>1
  <1>11. CASE ControllerStep \/ UNCHANGED vars
    <2>1. UNCHANGED <<store, mem, cur, dirs, link, gone>>
      BY ZenonT(30), <1>11, ControllerIdle DEF Idle, workerVars, hostVars, historyVars
    <2>. QED
      BY <1>4, <2>1
  <1>. QED
    BY Zenon, <1>1, <1>6, <1>7, <1>8, <1>9, <1>10, <1>11, StepsOfNext

\* A released microvm that the worker is done with has no directory and no link.
THEOREM ClearedHolds == SafeSpec => []AllCleared
  BY InitType, NextType, InitDeletion, NextDeletion, InitRetries, NextRetries, InitLinks, NextLinks,
     CopiesKnow, CleanHolds, InitCleared, NextCleared, PTL DEF SafeSpec

\* Nothing outlives its microvm: as long as no save is lost and at most one lookup
\* fails, the deletion of a microvm that its client saw created leaves nothing.
THEOREM NothingLeaks ==
  ASSUME PatientClient
  PROVE  SafeSpec => []NoLeak
  <1>1. Deletion /\ AllCleared => NoLeak
    <2>. SUFFICES ASSUME Deletion, AllCleared, NoSaveLost,
                         budget["lookup"] + 1 >= Budget["lookup"],
                         NEW v \in gone, store[v] = NoSpec, cur # v
                  PROVE  ~Leftovers(v)
      BY ZenonT(30) DEF NoLeak
    <2>1. Cleared(v)
      BY Zenon DEF AllCleared
    <2>2. (vmm[v] = NoProc \/ v \in killed) /\ snaps[v] = {}
      BY Zenon DEF Deletion, GoneIsStopped
    <2>. QED
      BY <2>1, <2>2 DEF Cleared, Leftovers, Running
  <1>. QED
    BY <1>1, DeletionHolds, ClearedHolds, PTL

=============================================================================
