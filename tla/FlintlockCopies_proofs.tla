------------------------ MODULE FlintlockCopies_proofs ------------------------
(***************************************************************************)
(* Proofs about the copies of a spec, the worker's and the store's: as     *)
(* long as no save is lost they know every link and the devices of every   *)
(* VMM that Flintlock has made, so that a VMM runs with the devices its    *)
(* status names.                                                           *)
(***************************************************************************)
EXTENDS FlintlockProvision_proofs

(***************************************************************************)
(* The invariants.                                                         *)
(***************************************************************************)

\* What the worker learns while it holds a copy of the spec is not in the store
\* yet; before the first step has been executed it has learned nothing.
WorkerAgrees ==
  /\ mem = NoSpec => ~did
  /\ mem # NoSpec /\ cur \in Stored =>
       /\ mem.deleted => store[cur].deleted
       /\ pc \in {"plan", "react"} /\ ~did /\ ~store[cur].deleted => store[cur].ifaces = mem.ifaces

\* Clients that wait for the created state delete only microvms that have all
\* their names: whoever holds a copy then holds the same names.
Settling(s) ==
  /\ s.state = "created" \/ s.deleted => Named(s)
  /\ s.deleted => s.state # "created"

SpecsSettled == \A v \in Stored : Settling(store[v])

CopySettled ==
  mem # NoSpec =>
    /\ Settling(mem)
    /\ cur \in Stored /\ Named(store[cur]) => mem.ifaces = store[cur].ifaces

CommandsSettled ==
  \A v \in VMs : api[v] = "save" =>
    /\ v \in Stored /\ ~store[v].deleted
    /\ Named(apiMem[v]) /\ apiMem[v].ifaces = store[v].ifaces
    /\ cur = v /\ mem # NoSpec => ~mem.deleted

NamesSettled == PatientClient => SpecsSettled /\ CopySettled /\ CommandsSettled

\* The copy of the spec that knows most: the worker's, while it has one.
Copy(v) == IF cur = v /\ mem # NoSpec THEN mem ELSE store[v]

\* A copy knows every link and the devices of the VMM of its microvm.
Knows(s, v) ==
  /\ \A d \in Devs : link[d] = v => \E n \in Ifaces : s.ifaces[n] = d
  /\ vmm[v] # NoProc => vmm[v] = s.ifaces /\ Named(s)

\* As long as no save is lost, what there is on the host for a microvm is known
\* to the copy of its spec, unless a client deleted it while it was being made.
CopyKnows ==
  NoSaveLost =>
    \A v \in VMs : Copy(v) # NoSpec /\ (PatientClient \/ ~Copy(v).deleted) => Knows(Copy(v), v)

(***************************************************************************)
(* The saves.                                                              *)
(***************************************************************************)

\* The save that ends an attempt leaves in the store what the worker knows, or a
\* deletion that was faster.
LEMMA SavedCopy ==
  ASSUME TypeOK, Deletion, Retries, SaveStep
  PROVE  /\ cur \in VMs /\ mem \in Specs /\ mem # NoSpec
         /\ \A w \in VMs \ {cur} : store'[w] = store[w]
         /\ \/ UNCHANGED store /\ SaveError
            \/ /\ store'[cur] \in Specs /\ Stored' = Stored \cup {cur}
               /\ \/ /\ store'[cur].ifaces = mem.ifaces /\ store'[cur].deleted = mem.deleted
                     /\ store'[cur].state = "created" =>
                          mem.state = "created" \/ (pc = "created" /\ ~mem.deleted)
                  \/ cur \in Stored /\ store'[cur] = store[cur] /\ store[cur].deleted
  <1>1. pc \in {"reschedule", "created", "failed"} /\ cur \in VMs /\ mem \in Specs
    BY Busy DEF SaveStep, Reschedule, SaveState, SaveError, TypeOK
  <1>2. mem # NoSpec
    BY <1>1, NoSpecFresh
  <1>3. CASE UNCHANGED store /\ SaveError
    BY <1>1, <1>2, <1>3
  <1>4. CASE \E s \in SaveStamped(store[cur], Outcome) : store' = [store EXCEPT ![cur] = s]
    <2>1. /\ Outcome \in Specs /\ Outcome.version = mem.version
          /\ Outcome.deleted = mem.deleted /\ Outcome.ifaces = mem.ifaces
          /\ Outcome.state = "created" => mem.state = "created" \/ (pc = "created" /\ ~mem.deleted)
      BY ZenonT(30), <1>1, OutcomeFields DEF TypeOK
    <2>2. /\ store'[cur] \in Specs /\ Stored' = Stored \cup {cur}
          /\ \/ store'[cur] = Written(Outcome)
             \/ cur \in Stored /\ store'[cur] = store[cur] /\ SameContent(store[cur], Outcome)
             \/ cur \in Stored /\ store'[cur] = store[cur] /\ store[cur].version > Outcome.version
          /\ \A w \in VMs \ {cur} : store'[w] = store[w]
      BY ZenonT(30), <1>1, <1>4, <2>1, SaveLeaves
    <2>3. CASE store'[cur] = Written(Outcome)
      <3>1. /\ store'[cur].ifaces = Outcome.ifaces /\ store'[cur].deleted = Outcome.deleted
            /\ store'[cur].state = Outcome.state
        BY Zenon, <2>1, <2>3, WrittenFields
      <3>. QED
        BY Zenon, <1>1, <1>2, <2>1, <2>2, <3>1
    <2>4. CASE cur \in Stored /\ store'[cur] = store[cur] /\ SameContent(store[cur], Outcome)
      <3>1. store[cur] \in Specs
        BY <2>2, <2>4
      <3>2. /\ store'[cur].ifaces = Outcome.ifaces /\ store'[cur].deleted = Outcome.deleted
            /\ store'[cur].state = Outcome.state
        BY <2>1, <2>4, <3>1, SameFields
      <3>. QED
        BY Zenon, <1>1, <1>2, <2>1, <2>2, <3>2
    <2>5. CASE /\ cur \in Stored /\ store'[cur] = store[cur]
               /\ store[cur].version > Outcome.version
      <3>1. store[cur].deleted
        BY <1>2, <2>1, <2>5 DEF Retries, BackedOff, JustDeleted
      <3>. QED
        BY Zenon, <1>1, <1>2, <2>2, <2>5, <3>1
    <2>. QED
      BY <2>2, <2>3, <2>4, <2>5
  <1>. QED
    BY <1>3, <1>4, SaveIsSaveStamped DEF SaveStep, Reschedule, SaveState, SaveError

\* A command leaves the store alone, adds a microvm, or marks one with the copy it
\* has read.
LEMMA CommandSaves ==
  ASSUME TypeOK, Deletion, Retries, NEW v \in VMs, CommandStep(v)
  PROVE  /\ \A w \in VMs \ {v} : store'[w] = store[w]
         /\ \/ UNCHANGED store
            \/ /\ v \notin used /\ v \notin Stored /\ Stored' = Stored \cup {v}
               /\ store'[v] \in Specs /\ ~store'[v].deleted /\ store'[v].state = "pending"
            \/ /\ api[v] = "save" /\ api'[v] # "save" /\ Stored' = Stored \cup {v}
               /\ store'[v] \in Specs /\ JustDeleted(store'[v])
               /\ store'[v].ifaces = apiMem[v].ifaces
  <1>1. CASE UNCHANGED store
    BY <1>1
  <1>2. CASE CreateSave(v)
    <2>1. \E s \in SaveStamped(store[v], NewSpec) : store' = [store EXCEPT ![v] = s]
      BY Zenon, <1>2, SaveIsSaveStamped DEF CreateSave
    <2>2. v \notin used /\ v \notin Stored
      BY <1>2 DEF CreateSave, Deletion, Accounted
    <2>3. /\ store'[v] = Written(NewSpec) /\ store'[v] \in Specs /\ Stored' = Stored \cup {v}
          /\ \A w \in VMs \ {v} : store'[w] = store[w]
      BY ZenonT(30), <2>1, <2>2, NewSpecType, SaveLeaves
    <2>4. Written(NewSpec).state = "pending" /\ ~Written(NewSpec).deleted
      BY Zenon, NewSpecType, WrittenFields DEF NewSpec
    <2>. QED
      BY <2>2, <2>3, <2>4
  <1>3. CASE /\ api[v] = "save" /\ (DeleteSave(v) \/ CommandError(v))
             /\ \E s \in SaveStamped(store[v], apiMem[v]) : store' = [store EXCEPT ![v] = s]
    <2>1. apiMem[v] \in Specs /\ JustDeleted(apiMem[v])
      BY <1>3 DEF TypeOK, ApiTypeOK, Retries, CommandsDelete
    <2>2. /\ store'[v] \in Specs /\ Stored' = Stored \cup {v}
          /\ store'[v] = Written(apiMem[v]) \/ (v \in Stored /\ store'[v] = store[v])
          /\ \A w \in VMs \ {v} : store'[w] = store[w]
      BY ZenonT(30), <1>3, <2>1, SaveLeaves
    <2>3. JustDeleted(Written(apiMem[v])) /\ Written(apiMem[v]).ifaces = apiMem[v].ifaces
      BY Zenon, <2>1, WrittenFields DEF JustDeleted
    <2>4. api'[v] # "save"
      BY <1>3 DEF DeleteSave, CommandError, TypeOK, ApiTypeOK
    <2>5. store'[v] = store[v] => UNCHANGED store
      <3>1. PICK s \in SaveStamped(store[v], apiMem[v]) : store' = [store EXCEPT ![v] = s]
        BY Zenon, <1>3
      <3>. QED
        BY <3>1 DEF TypeOK, StoreTypeOK
    <2>. QED
      BY <1>3, <2>2, <2>3, <2>4, <2>5
  <1>. QED
    BY ZenonT(30), <1>1, <1>2, <1>3
       DEF CommandStep, DeleteGet, DeleteSave, CommandPublish, CommandError

\* What a command does to its own copy.
LEMMA CommandReads ==
  ASSUME TypeOK, NEW v \in VMs, CommandStep(v)
  PROVE  /\ \A w \in VMs \ {v} : api'[w] = api[w] /\ apiMem'[w] = apiMem[w]
         /\ \/ api'[v] # "save"
            \/ /\ UNCHANGED store /\ v \in Stored
               /\ PatientClient => store[v].state = "created"
               /\ apiMem'[v].ifaces = store[v].ifaces
  <1>1. api \in [VMs -> ApiPC] /\ apiMem \in [VMs -> Specs \cup {NoSpec}]
    BY DEF TypeOK, ApiTypeOK
  <1>2. CASE DeleteGet(v)
    <2>1. store[v] \in Specs /\ v \in Stored
      BY <1>2 DEF DeleteGet, TypeOK, StoreTypeOK, Stored
    <2>2. apiMem'[v] = [store[v] EXCEPT !.deleted = TRUE, !.retry = 0, !.state = "deleting"]
      BY Zenon, <1>1, <1>2 DEF DeleteGet
    <2>3. [store[v] EXCEPT !.deleted = TRUE, !.retry = 0, !.state = "deleting"].ifaces
            = store[v].ifaces
      BY Zenon, <2>1 DEF Specs
    <2>4. \A w \in VMs \ {v} : api'[w] = api[w] /\ apiMem'[w] = apiMem[w]
      BY <1>1, <1>2 DEF DeleteGet
    <2>. QED
      BY Zenon, <1>2, <2>1, <2>2, <2>3, <2>4 DEF DeleteGet
  <1>3. CASE ~DeleteGet(v)
    <2>1. PICK a \in {"created", "updated", "none"} : api' = [api EXCEPT ![v] = a]
      BY ZenonT(30), <1>3 DEF CommandStep, CreateSave, DeleteSave, CommandPublish, CommandError
    <2>2. \A w \in VMs \ {v} : apiMem'[w] = apiMem[w]
      BY ZenonT(30), <1>1, <1>3 DEF CommandStep, CreateSave, DeleteSave, CommandPublish,
         CommandError
    <2>. QED
      BY <1>1, <2>1, <2>2
  <1>. QED
    BY <1>2, <1>3

(***************************************************************************)
(* The worker's copy and the store.                                        *)
(***************************************************************************)

\* Until a step has been executed, none has been.
LEMMA NothingDone ==
  ASSUME AttemptStep, pc' \in {"plan", "react"}, ~did'
  PROVE  pc \in {"plan", "react"} /\ ~did
  <1>1. ASSUME Failed \/ Return \/ Goto("reschedule") \/ Goto("created") \/ Goto("setpid")
        PROVE  FALSE
    BY <1>1 DEF Failed, Return, Goto
  <1>2. ASSUME NEW s, Done(s) PROVE FALSE
    BY <1>2 DEF Done
  <1>3. ASSUME NEW s \in Steps, Skip(s) PROVE pc \in {"plan", "react"} /\ ~did
    BY <1>3 DEF Skip, AtStep
  <1>4. CASE PlanCreate
    <2>1. PlanDone => Return \/ Goto("created")
      BY Zenon DEF PlanDone
    <2>2. PICK blind \in SUBSET Ifaces :
            PlanDone \/ Goto("react")
      BY Zenon, <1>4 DEF PlanCreate
    <2>. QED
      BY <1>1, <1>4, <2>1, <2>2 DEF PlanCreate, Goto
  <1>5. CASE /\ ~PlanCreate /\ ~\E s \in Steps : Skip(s)
    BY ZenonT(30), <1>1, <1>2, <1>5 DEF AttemptStep, PlanError, StepError, DirCreate, DirDelete,
       Mount, NewIface, NewIfaceError, NoIfaceName, RemoveIface, CreateStart, CreateSetPid,
       CreateSetPidError, CreateError, Start, DeleteVMM, Release, PublishDeleted
  <1>. QED
    BY <1>3, <1>4, <1>5

\* An attempt leaves the specs alone, or releases the lease of a deleted one.
LEMMA AttemptStore ==
  ASSUME TypeOK, Deletion, AttemptStep
  PROVE  \/ UNCHANGED store
         \/ /\ mem.deleted /\ Attempting /\ store'[cur] = NoSpec
            /\ \A w \in VMs \ {cur} : store'[w] = store[w]
  <1>1. CASE Release
    <2>1. mem.deleted
      BY Zenon, <1>1, StepTellsPlan DEF Release, Deletion
    <2>2. /\ store' = [store EXCEPT ![cur] = NoSpec] /\ cur \in VMs
          /\ store \in [VMs -> Specs \cup {NoSpec}]
      BY <1>1, AttemptAt DEF AttemptStep, Release, TypeOK, StoreTypeOK
    <2>3. pc' # "idle"
      BY <1>1 DEF Release, Done, Proceed, Failed, Goto
    <2>4. Attempting
      BY ZenonT(30), <2>3, AttemptAt DEF Return
    <2>. QED
      BY <2>1, <2>2, <2>4
  <1>2. CASE ~Release
    BY ZenonT(30), <1>2 DEF AttemptStep, PlanError, PlanCreate, PlanDone, Skip, StepError,
       DirCreate, DirDelete, Mount, NewIface, NewIfaceError, NoIfaceName, RemoveIface, CreateStart,
       CreateSetPid, CreateSetPidError, CreateError, Start, DeleteVMM, PublishDeleted
  <1>. QED
    BY <1>1, <1>2

\* WorkerAgrees holds initially, without an attempt.
LEMMA InitAgrees == Init => WorkerAgrees
  BY DEF Init, WorkerAgrees

\* WorkerAgrees is inductive.
LEMMA NextAgrees ==
  TypeOK /\ Deletion /\ Retries /\ WorkerAgrees /\ [Next]_vars => WorkerAgrees'
  <1>. SUFFICES ASSUME TypeOK, Deletion, Retries, WorkerAgrees, [Next]_vars
                PROVE  WorkerAgrees'
    OBVIOUS
  <1>1. ASSUME mem' = NoSpec, ~did' PROVE WorkerAgrees'
    BY <1>1 DEF WorkerAgrees
  <1>2. ASSUME UNCHANGED <<store, workerVars>> PROVE WorkerAgrees'
    BY <1>2 DEF WorkerAgrees, workerVars, Stored
  <1>3. CASE ReadStep
    <2>1. mem = NoSpec /\ (did' = did \/ did' = FALSE) /\ UNCHANGED store
      BY ZenonT(30), <1>3, ReadEffect
    <2>3. ~did'
      BY Zenon, <2>1 DEF WorkerAgrees
    <2>2. mem' = NoSpec \/ (mem' = store[cur] /\ cur' = cur /\ mem' # NoSpec)
      BY <1>3, ReadEffect
    <2>. QED
      BY <2>1, <2>2, <2>3 DEF WorkerAgrees
  <1>4. CASE AttemptStep
    <2>1. /\ cur \in VMs /\ mem \in Specs /\ mem # NoSpec /\ (Return \/ Attempting)
      BY <1>4, AttemptAt
    <2>2. CASE Return
      BY <1>1, <2>2 DEF Return
    <2>3. CASE Attempting /\ ~Return
      <3>1. cur' = cur /\ mem'.deleted = mem.deleted /\ mem' \in Specs /\ mem' # NoSpec
        BY <2>3, NoSpecFresh DEF Attempting
      <3>2. cur \in Stored' => cur \in Stored /\ store'[cur] = store[cur]
        BY <1>4, <2>1, AttemptStore DEF Stored
      <3>3. pc' \in {"plan", "react"} /\ ~did' =>
              pc \in {"plan", "react"} /\ ~did /\ mem'.ifaces = mem.ifaces
        BY Zenon, <1>4, <2>3, NothingDone, NameSteps
      <3>. QED
        BY <2>1, <3>1, <3>2, <3>3 DEF WorkerAgrees
    <2>. QED
      BY <2>1, <2>2, <2>3
  <1>5. CASE SaveStep
    BY <1>1, <1>5, SaveEffect
  <1>6. ASSUME NEW v \in VMs, CommandStep(v) PROVE WorkerAgrees'
    <2>1. UNCHANGED <<mem, cur, pc, did>>
      BY <1>6, CommandEffect DEF workerVars
    <2>2. CASE UNCHANGED store
      BY <2>1, <2>2 DEF WorkerAgrees, Stored
    <2>3. CASE mem = NoSpec
      BY <2>1, <2>3 DEF WorkerAgrees
    <2>4. CASE mem # NoSpec /\ ~UNCHANGED store
      <3>1. cur \in VMs /\ cur \in used
        BY <2>4 DEF Deletion, WorkerCopy, TypeOK, ApiTypeOK
      <3>2. cur \in Stored' => \/ cur \in Stored /\ store'[cur] = store[cur]
                               \/ store'[cur].deleted
        BY <1>6, <2>4, <3>1, CommandSaves DEF Stored, JustDeleted
      <3>. QED
        BY <2>1, <2>4, <3>2 DEF WorkerAgrees
    <2>. QED
      BY <2>2, <2>3, <2>4
  <1>7. ASSUME NEW v \in VMs, VMMExit(v) PROVE WorkerAgrees'
    BY <1>2, <1>7, ExitEffect
  <1>8. CASE ControllerStep \/ Crash \/ UNCHANGED vars
    BY ZenonT(30), <1>1, <1>2, <1>8, CrashEffect, ControllerIdle DEF Idle
  <1>. QED
    BY Zenon, <1>3, <1>4, <1>5, <1>6, <1>7, <1>8, StepsOfNext

\* Between the first step it executes and its save the worker knows more than the
\* store, and never that a microvm is deleted which the store has as wanted.
THEOREM AgreesHold == SafeSpec => []WorkerAgrees
  BY InitType, NextType, InitDeletion, NextDeletion, InitRetries, NextRetries,
     InitAgrees, NextAgrees, PTL DEF SafeSpec

(***************************************************************************)
(* The names, when clients wait for the created state.                     *)
(***************************************************************************)

\* Once every interface has its name, an attempt changes none.
LEMMA NamesKept ==
  ASSUME TypeOK, Deletion, AttemptStep, ~Return, Named(mem)
  PROVE  mem'.ifaces = mem.ifaces
  <1>1. /\ mem.ifaces \in IfaceStatus /\ mem' \in Specs
        /\ \A n \in Ifaces : mem'.ifaces[n] = mem.ifaces[n]
    BY AttemptAt, NameSteps DEF Named, Attempting
  <1>2. mem'.ifaces \in IfaceStatus
    BY <1>1 DEF Specs
  <1>. QED
    BY <1>1, <1>2 DEF IfaceStatus

\* NamesSettled holds initially, without a spec.
LEMMA InitSettled == Init => NamesSettled
  BY DEF Init, NamesSettled, SpecsSettled, CopySettled, CommandsSettled, Stored

\* NamesSettled is inductive.
LEMMA NextSettled ==
  TypeOK /\ Deletion /\ Retries /\ CreatePlanProgress /\ WorkerAgrees /\ NamesSettled
    /\ [Next]_vars => NamesSettled'
  <1>. SUFFICES ASSUME TypeOK, Deletion, Retries, CreatePlanProgress, WorkerAgrees, NamesSettled,
                       [Next]_vars, PatientClient
                PROVE  SpecsSettled' /\ CopySettled' /\ CommandsSettled'
    BY Zenon DEF NamesSettled
  <1>1. SpecsSettled /\ CopySettled /\ CommandsSettled /\ Stored \subseteq VMs
    BY DEF NamesSettled, Stored
  <1>2. ASSUME UNCHANGED store PROVE SpecsSettled'
    BY <1>1, <1>2 DEF SpecsSettled, Settling, Named, Stored
  <1>3. ASSUME mem' = NoSpec PROVE CopySettled'
    BY <1>3 DEF CopySettled
  <1>4. CASE ReadStep /\ UNCHANGED apiVars
    <2>1. /\ UNCHANGED <<store, api, apiMem>>
          /\ mem' = NoSpec \/ (cur \in Stored /\ mem' = store[cur] /\ cur' = cur)
      BY <1>4, ReadEffect DEF apiVars
    <2>2. CopySettled'
      BY <1>1, <1>3, <2>1 DEF CopySettled, SpecsSettled, Settling, Named, Stored
    <2>3. CommandsSettled'
      BY <1>1, <2>1 DEF CommandsSettled, Named, Stored
    <2>. QED
      BY <1>2, <2>1, <2>2, <2>3
  <1>5. CASE AttemptStep /\ UNCHANGED apiVars
    <2>1. /\ cur \in VMs /\ mem \in Specs /\ mem # NoSpec /\ mem.ifaces \in IfaceStatus
          /\ Return \/ Attempting
      BY <1>5, AttemptAt
    <2>2. /\ \A v \in Stored' : v \in Stored /\ store'[v] = store[v]
          /\ \A v \in VMs : api[v] = "save" => v \in Stored'
      <3>1. CASE UNCHANGED store
        BY <1>1, <3>1 DEF Stored, CommandsSettled
      <3>2. CASE /\ mem.deleted /\ store'[cur] = NoSpec
                 /\ \A w \in VMs \ {cur} : store'[w] = store[w]
        BY <1>1, <2>1, <3>2 DEF Stored, CommandsSettled
      <3>. QED
        BY <1>5, <3>1, <3>2, AttemptStore
    <2>3. SpecsSettled'
      BY <1>1, <2>2 DEF SpecsSettled, Settling, Named
    <2>4. UNCHANGED <<api, apiMem>>
      BY <1>5 DEF apiVars
    <2>5. CASE Return
      BY ZenonT(30), <1>1, <1>3, <2>2, <2>3, <2>4, <2>5 DEF Return, CommandsSettled, Named
    <2>6. CASE ~Return
      <3>1. /\ cur' = cur /\ mem'.deleted = mem.deleted
            /\ mem'.state = "created" => mem.state = "created"
        BY <2>1, <2>6 DEF Attempting
      <3>2. Named(mem) => mem'.ifaces = mem.ifaces
        BY <1>5, <2>6, NamesKept
      <3>3. CopySettled'
        BY <1>1, <2>1, <2>2, <3>1, <3>2 DEF CopySettled, Settling, Named
      <3>4. CommandsSettled'
        BY <1>1, <2>1, <2>2, <2>4, <3>1 DEF CommandsSettled, Named
      <3>. QED
        BY <2>3, <3>3, <3>4
    <2>. QED
      BY <2>5, <2>6
  <1>6. CASE SaveStep /\ UNCHANGED apiVars
    <2>1. /\ cur \in VMs /\ mem \in Specs /\ mem # NoSpec
          /\ \A w \in VMs \ {cur} : store'[w] = store[w]
      BY <1>6, SavedCopy
    <2>2. mem' = NoSpec /\ UNCHANGED <<api, apiMem>>
      BY <1>6, SaveEffect DEF apiVars
    <2>3. CASE UNCHANGED store
      BY <1>1, <1>2, <1>3, <2>2, <2>3 DEF CommandsSettled, Named, Stored
    <2>4. CASE cur \in Stored /\ store'[cur] = store[cur] /\ Stored' = Stored \cup {cur}
      <3>1. \A v \in VMs : store'[v] = store[v]
        BY <2>1, <2>4
      <3>2. SpecsSettled'
        BY <1>1, <2>4, <3>1 DEF SpecsSettled, Settling, Named
      <3>3. CommandsSettled'
        BY <1>1, <2>2, <2>4, <3>1 DEF CommandsSettled, Named
      <3>. QED
        BY <1>3, <2>2, <3>2, <3>3
    <2>5. CASE /\ Stored' = Stored \cup {cur}
               /\ store'[cur].ifaces = mem.ifaces /\ store'[cur].deleted = mem.deleted
               /\ store'[cur].state = "created" =>
                    mem.state = "created" \/ (pc = "created" /\ ~mem.deleted)
      <3>1. pc = "created" => Named(mem)
        BY DEF CreatePlanProgress, Named, IfaceExists
      <3>2. Settling(store'[cur])
        BY <1>1, <2>1, <2>5, <3>1 DEF CopySettled, Settling, Named
      <3>3. SpecsSettled'
        BY <1>1, <2>1, <2>5, <3>2 DEF SpecsSettled, Settling, Named
      <3>4. api[cur] = "save" =>
              /\ ~store'[cur].deleted /\ Named(apiMem[cur])
              /\ apiMem[cur].ifaces = store'[cur].ifaces
        BY <1>1, <2>1, <2>5 DEF CommandsSettled, CopySettled, Named
      <3>5. CommandsSettled'
        BY <1>1, <2>1, <2>2, <2>5, <3>4 DEF CommandsSettled, Named
      <3>. QED
        BY <1>3, <2>2, <3>3, <3>5
    <2>. QED
      BY <1>6, <2>3, <2>4, <2>5, SavedCopy
  <1>7. ASSUME NEW v \in VMs, CommandStep(v)
        PROVE  SpecsSettled' /\ CopySettled' /\ CommandsSettled'
    <2>1. UNCHANGED <<cur, mem>>
      BY <1>7, CommandEffect DEF workerVars
    <2>2. /\ \A w \in VMs \ {v} : store'[w] = store[w]
          /\ \A w \in VMs \ {v} : api'[w] = api[w] /\ apiMem'[w] = apiMem[w]
      BY <1>7, CommandSaves, CommandReads
    <2>3. \/ UNCHANGED store
          \/ /\ cur = v => mem = NoSpec
             /\ ~store'[v].deleted /\ store'[v].state = "pending" /\ Stored' = Stored \cup {v}
          \/ /\ store'[v].deleted /\ store'[v].state # "created" /\ Stored' = Stored \cup {v}
             /\ Named(store'[v]) /\ v \in Stored /\ store'[v].ifaces = store[v].ifaces
      <3>1. CASE UNCHANGED store
        BY <3>1
      <3>2. CASE /\ v \notin used /\ Stored' = Stored \cup {v}
                 /\ ~store'[v].deleted /\ store'[v].state = "pending"
        BY <3>2 DEF Deletion, WorkerCopy
      <3>3. CASE /\ api[v] = "save" /\ Stored' = Stored \cup {v} /\ JustDeleted(store'[v])
                 /\ store'[v].ifaces = apiMem[v].ifaces
        BY <1>1, <3>3 DEF CommandsSettled, JustDeleted, Named
      <3>. QED
        BY ZenonT(30), <1>7, <3>1, <3>2, <3>3, CommandSaves
    <2>4. SpecsSettled'
      <3>1. CASE UNCHANGED store
        BY <1>2, <3>1
      <3>2. CASE Stored' = Stored \cup {v} /\ Settling(store'[v])
        <4>1. ASSUME NEW w \in Stored', w # v PROVE Settling(store'[w])
          <5>1. w \in Stored /\ store'[w] = store[w]
            BY <1>1, <2>2, <3>2, <4>1
          <5>. QED
            BY Zenon, <1>1, <5>1 DEF SpecsSettled
        <4>. QED
          BY Zenon, <3>2, <4>1 DEF SpecsSettled, Settling, Named
      <3>. QED
        BY <2>3, <3>1, <3>2 DEF Settling
    <2>5. CopySettled'
      <3>1. CASE mem = NoSpec
        BY <1>3, <2>1, <3>1
      <3>2. CASE mem # NoSpec
        <4>1. cur \in Stored' => cur \in Stored /\ store'[cur].ifaces = store[cur].ifaces
          BY <1>1, <2>2, <2>3, <3>2 DEF Stored
        <4>. QED
          BY <1>1, <2>1, <3>2, <4>1 DEF CopySettled, Settling, Named
      <3>. QED
        BY <3>1, <3>2
    <2>6. CommandsSettled'
      <3>1. ASSUME NEW w \in VMs \ {v}, api'[w] = "save"
            PROVE  /\ w \in Stored' /\ ~store'[w].deleted
                   /\ Named(apiMem'[w]) /\ apiMem'[w].ifaces = store'[w].ifaces
                   /\ cur' = w /\ mem' # NoSpec => ~mem'.deleted
        BY <1>1, <2>1, <2>2, <3>1 DEF CommandsSettled, Named, Stored
      <3>2. ASSUME api'[v] = "save"
            PROVE  /\ v \in Stored' /\ ~store'[v].deleted
                   /\ Named(apiMem'[v]) /\ apiMem'[v].ifaces = store'[v].ifaces
                   /\ cur' = v /\ mem' # NoSpec => ~mem'.deleted
        <4>1. /\ UNCHANGED store /\ v \in Stored /\ store[v].state = "created"
              /\ apiMem'[v].ifaces = store[v].ifaces
          BY <1>7, <3>2, CommandReads
        <4>2. Named(store[v]) /\ ~store[v].deleted
          BY <1>1, <4>1 DEF SpecsSettled, Settling
        <4>3. cur = v /\ mem # NoSpec => ~mem.deleted
          BY <4>1, <4>2 DEF WorkerAgrees
        <4>. QED
          BY <2>1, <4>1, <4>2, <4>3 DEF Named, Stored
      <3>. QED
        BY Zenon, <3>1, <3>2 DEF CommandsSettled, Named
    <2>. QED
      BY <2>4, <2>5, <2>6
  <1>8. ASSUME UNCHANGED <<store, mem, cur, api, apiMem>>
        PROVE  SpecsSettled' /\ CopySettled' /\ CommandsSettled'
    <2>1. CopySettled'
      BY <1>1, <1>8 DEF CopySettled, Settling, Named, Stored
    <2>2. CommandsSettled'
      BY <1>1, <1>8 DEF CommandsSettled, Named, Stored
    <2>. QED
      BY <1>2, <1>8, <2>1, <2>2
  <1>9. ASSUME NEW v \in VMs, VMMExit(v)
        PROVE  SpecsSettled' /\ CopySettled' /\ CommandsSettled'
    BY <1>8, <1>9, ExitEffect DEF workerVars, apiVars
  <1>10. CASE ControllerStep \/ UNCHANGED vars
    BY <1>8, <1>10, ControllerIdle DEF Idle, workerVars, apiVars
  <1>11. CASE Crash
    <2>1. UNCHANGED store /\ mem' = NoSpec /\ \A v \in VMs : api'[v] # "save"
      BY <1>11, CrashEffect
    <2>. QED
      BY <1>2, <1>3, <2>1 DEF CommandsSettled
  <1>. QED
    BY Zenon, <1>4, <1>5, <1>6, <1>7, <1>9, <1>10, <1>11, StepsOfNext

\* With clients that wait for the created state, a command saves the deletion of a
\* microvm under the names that the store and the worker have for its links.
THEOREM NamesHold == SafeSpec => []NamesSettled
  BY InitType, NextType, InitDeletion, NextDeletion, InitRetries, NextRetries,
     InitCreate, NextCreate, InitAgrees, NextAgrees, InitSettled, NextSettled, PTL DEF SafeSpec

(***************************************************************************)
(* What the copies know of the host.                                       *)
(***************************************************************************)

\* An attempt that ends without a save has changed nothing since the store was
\* read, or was a deletion.
LEMMA ReturnEffect ==
  ASSUME AttemptStep, Return
  PROVE  /\ pc = "plan" /\ UNCHANGED <<store, hostVars>>
         /\ mem.deleted \/ ~did
  <1>1. pc' = "idle"
    BY DEF Return
  <1>2. ASSUME Failed \/ Goto("reschedule") \/ Goto("created") \/ Goto("setpid") \/ Goto("react")
        PROVE  FALSE
    BY <1>1, <1>2 DEF Failed, Goto
  <1>3. ASSUME NEW s, Proceed(s) \/ Done(s) PROVE FALSE
    BY <1>1, <1>3 DEF Done, Proceed
  <1>4. CASE PlanCreate
    <2>1. pc = "plan" /\ PlanDone
      BY Zenon, <1>2, <1>4 DEF PlanCreate
    <2>. QED
      BY Zenon, <1>2, <2>1 DEF PlanDone
  <1>5. CASE ~PlanCreate
    BY ZenonT(30), <1>2, <1>3, <1>5 DEF AttemptStep, PlanError, Skip, StepError, DirCreate,
       DirDelete, Mount, NewIface, NewIfaceError, NoIfaceName, RemoveIface, CreateStart,
       CreateSetPid, CreateSetPidError, CreateError, Start, DeleteVMM, Release, PublishDeleted
  <1>. QED
    BY <1>4, <1>5

\* An attempt changes nothing of the other microvms, and makes a link or records
\* a VMM only with a step of the create plan.
LEMMA AttemptHost ==
  ASSUME TypeOK, Deletion, AttemptStep, NEW v \in VMs
  PROVE  /\ \A d \in Devs : link'[d] = v =>
              link[d] = v \/ (v = cur /\ \E n \in Ifaces : NewLink(n, d))
         /\ vmm'[v] \in {vmm[v], NoProc} \/ (v = cur /\ CreateSetPid)
  <1>1. /\ link \in [Devs -> VMs \cup {NoVM}] /\ vmm \in [VMs -> IfaceStatus \cup {NoProc}]
        /\ cur \in VMs
    BY AttemptAt DEF TypeOK, HostTypeOK
  <1>2. \A d \in Devs : link'[d] = v => link[d] = v \/ (v = cur /\ \E n \in Ifaces : NewLink(n, d))
    <2>1. ASSUME NEW n \in Ifaces, NEW e \in Devs, NewLink(n, e), NEW d \in Devs, link'[d] = v
          PROVE  link[d] = v \/ (v = cur /\ d = e)
      BY <1>1, <2>1 DEF NewLink
    <2>2. ASSUME NEW n \in Ifaces, RemoveIface(n), NEW d \in Devs, link'[d] = v
          PROVE  link[d] = v
      BY <1>1, <2>2, HostFresh DEF RemoveIface, IfaceDelete
    <2>3. CASE UNCHANGED link
      BY <2>3
    <2>. QED
      BY Zenon, <2>1, <2>2, <2>3, LinkSteps
  <1>3. vmm'[v] \in {vmm[v], NoProc} \/ (v = cur /\ CreateSetPid)
    <2>1. CASE CreateSetPid
      BY <1>1, <2>1 DEF CreateSetPid, SetPid
    <2>2. CASE ~CreateSetPid
      BY <1>1, <2>2, VMMSteps
    <2>. QED
      BY <2>1, <2>2
  <1>. QED
    BY <1>2, <1>3

\* CopyKnows holds initially, with nothing on the host.
LEMMA InitKnows == Init => CopyKnows
  BY HostFresh DEF Init, CopyKnows, Copy

\* CopyKnows is inductive.
LEMMA NextKnows ==
  TypeOK /\ Deletion /\ Retries /\ Links /\ CreatePlanProgress /\ WorkerAgrees
    /\ NamesSettled /\ CopyKnows /\ [Next]_vars => CopyKnows'
  <1>. SUFFICES ASSUME TypeOK, Deletion, Retries, Links, CreatePlanProgress, WorkerAgrees,
                       NamesSettled, CopyKnows, [Next]_vars
                PROVE  CopyKnows'
    OBVIOUS
  <1>. SUFFICES ASSUME NoSaveLost', NEW v \in VMs, Copy(v)' # NoSpec,
                       PatientClient \/ ~Copy(v)'.deleted
                PROVE  Knows(Copy(v), v)'
    BY DEF CopyKnows
  <1>1. /\ NoSaveLost /\ ~Crash /\ ~SaveError
        /\ \A w \in VMs : CommandError(w) => api[w] # "save"
    BY SavesSucceed DEF Links
  <1>2. Copy(v) # NoSpec /\ (PatientClient \/ ~Copy(v).deleted) => Knows(Copy(v), v)
    BY <1>1 DEF CopyKnows
  <1>3. PatientClient => SpecsSettled /\ CopySettled /\ CommandsSettled
    BY DEF NamesSettled
  <1>4. ASSUME UNCHANGED <<link, vmm>>, Copy(v)' = Copy(v) PROVE Knows(Copy(v), v)'
    BY <1>2, <1>4 DEF Knows, Named
  <1>5. ASSUME UNCHANGED <<link, vmm>>, Copy(v)'.ifaces = Copy(v).ifaces, Copy(v) # NoSpec,
               PatientClient \/ ~Copy(v).deleted
        PROVE  Knows(Copy(v), v)'
    BY <1>2, <1>5 DEF Knows, Named
  <1>6. CASE ReadStep
    <2>1. /\ mem = NoSpec /\ UNCHANGED <<store, link, vmm>>
          /\ mem' = NoSpec \/ (mem' = store[cur] /\ cur' = cur)
      BY <1>6, ReadEffect DEF hostVars
    <2>2. Copy(v)' = Copy(v)
      BY <2>1 DEF Copy
    <2>. QED
      BY <1>4, <2>1, <2>2
  <1>7. CASE AttemptStep
    <2>1. cur \in VMs /\ mem \in Specs /\ mem # NoSpec /\ (Return \/ Attempting)
      BY <1>7, AttemptAt
    <2>2. CASE v # cur
      <3>1. store'[v] = store[v]
        BY <1>7, <2>2, AttemptStore
      <3>2. Copy(v)' = Copy(v)
        BY <2>1, <2>2, <3>1 DEF Copy, Return, Attempting
      <3>3. /\ \A d \in Devs : link'[d] = v => link[d] = v
            /\ vmm'[v] # NoProc => vmm'[v] = vmm[v]
        BY <1>7, <2>2, AttemptHost
      <3>. QED
        BY <1>2, <3>2, <3>3 DEF Knows, Named
    <2>3. CASE v = cur /\ Return
      <3>1. /\ pc = "plan" /\ UNCHANGED <<store, link, vmm>> /\ (mem.deleted \/ ~did)
            /\ mem' = NoSpec
        BY ZenonT(30), <1>7, <2>3, ReturnEffect DEF hostVars, Return
      <3>2. Copy(v)' = store[v] /\ Copy(v) = mem /\ v \in Stored
        BY <2>1, <2>3, <3>1 DEF Copy, Stored
      <3>3. CASE ~store[v].deleted
        <4>1. ~mem.deleted /\ store[v].ifaces = mem.ifaces
          BY <2>1, <2>3, <3>1, <3>2, <3>3 DEF WorkerAgrees
        <4>. QED
          BY <1>5, <2>1, <3>1, <3>2, <4>1
      <3>4. CASE PatientClient /\ store[v].deleted
        <4>1. Named(store[v])
          BY <1>3, <3>2, <3>4 DEF SpecsSettled, Settling
        <4>2. mem.ifaces = store[v].ifaces
          BY <1>3, <2>1, <2>3, <3>2, <3>4, <4>1 DEF CopySettled
        <4>. QED
          BY <1>5, <2>1, <3>1, <3>2, <3>4, <4>2
      <3>. QED
        BY <3>2, <3>3, <3>4
    <2>4. CASE v = cur /\ ~Return
      <3>1. /\ cur' = cur /\ mem' # NoSpec /\ mem'.deleted = mem.deleted
        BY <2>1, <2>4, NoSpecFresh DEF Attempting
      <3>2. Copy(v) = mem /\ Copy(v)' = mem'
        BY <2>1, <2>4, <3>1 DEF Copy
      <3>3. Knows(mem, cur)
        BY <1>2, <2>1, <2>4, <3>1, <3>2
      <3>4. ASSUME NEW d \in Devs, link'[d] = v PROVE \E n \in Ifaces : mem'.ifaces[n] = d
        <4>1. CASE link[d] = v
          <5>1. PICK n \in Ifaces : mem.ifaces[n] = d
            BY <2>4, <3>3, <4>1 DEF Knows
          <5>2. mem'.ifaces[n] = d
            BY <1>7, <2>4, <5>1, NameSteps, NoDevFresh
          <5>. QED
            BY <5>2
        <4>2. ASSUME NEW n \in Ifaces, NewLink(n, d) PROVE mem'.ifaces[n] = d
          <5>1. mem' = [mem EXCEPT !.ifaces[n] = d] /\ mem.ifaces \in IfaceStatus
            BY <1>7, <4>2, AttemptAt DEF NewLink
          <5>2. mem'.ifaces = [mem.ifaces EXCEPT ![n] = d]
            BY <2>1, <5>1, IfaceFields
          <5>. QED
            BY <5>1, <5>2 DEF IfaceStatus
        <4>. QED
          BY ZenonT(30), <1>7, <3>4, <4>1, <4>2, AttemptHost
      <3>5. ASSUME vmm'[v] # NoProc
            PROVE  vmm'[v] = mem'.ifaces /\ \A n \in Ifaces : mem'.ifaces[n] # NoDev
        <4>1. CASE CreateSetPid
          <5>1. vmm \in [VMs -> IfaceStatus \cup {NoProc}]
            BY DEF TypeOK, HostTypeOK
          <5>2. vmm'[v] = starting[cur] /\ mem' = mem /\ pc = "setpid"
            BY <2>1, <2>4, <4>1, <5>1 DEF CreateSetPid, SetPid
          <5>. QED
            BY <5>2 DEF CreatePlanProgress, Named
        <4>2. CASE ~CreateSetPid
          <5>1. vmm'[v] = vmm[v] /\ vmm[v] # NoProc
            BY <1>7, <3>5, <4>2, AttemptHost
          <5>2. vmm[v] = mem.ifaces /\ Named(mem)
            BY <2>4, <3>3, <5>1 DEF Knows
          <5>3. mem'.ifaces = mem.ifaces
            BY <1>7, <2>4, <5>2, NamesKept
          <5>. QED
            BY <5>1, <5>2, <5>3 DEF Named
        <4>. QED
          BY <4>1, <4>2
      <3>. QED
        BY <3>2, <3>4, <3>5 DEF Knows, Named
    <2>. QED
      BY <2>2, <2>3, <2>4
  <1>8. CASE SaveStep
    <2>1. /\ cur \in VMs /\ mem # NoSpec
          /\ \A w \in VMs \ {cur} : store'[w] = store[w]
          /\ \/ store'[cur].ifaces = mem.ifaces /\ store'[cur].deleted = mem.deleted
             \/ cur \in Stored /\ store'[cur] = store[cur] /\ store[cur].deleted
      BY <1>1, <1>8, SavedCopy
    <2>2. UNCHANGED <<link, vmm>> /\ mem' = NoSpec
      BY <1>8, SaveEffect DEF hostVars
    <2>3. CASE v # cur
      <3>1. Copy(v)' = Copy(v)
        BY <2>1, <2>2, <2>3 DEF Copy
      <3>. QED
        BY <1>4, <2>2, <3>1
    <2>4. CASE v = cur
      <3>1. Copy(v) = mem /\ Copy(v)' = store'[cur]
        BY <2>1, <2>2, <2>4 DEF Copy
      <3>2. CASE store'[cur].ifaces = mem.ifaces /\ store'[cur].deleted = mem.deleted
        BY ZenonT(30), <1>5, <2>1, <2>2, <3>1, <3>2
      <3>3. CASE cur \in Stored /\ store'[cur] = store[cur] /\ store[cur].deleted
        <4>1. PatientClient
          BY <3>1, <3>3
        <4>2. mem.ifaces = store[cur].ifaces
          BY <1>3, <2>1, <3>3, <4>1 DEF SpecsSettled, Settling, CopySettled
        <4>. QED
          BY <1>5, <2>1, <2>2, <3>1, <3>3, <4>1, <4>2
      <3>. QED
        BY <2>1, <3>2, <3>3
    <2>. QED
      BY <2>3, <2>4
  <1>9. ASSUME NEW w \in VMs, CommandStep(w) PROVE Knows(Copy(v), v)'
    <2>1. UNCHANGED <<link, vmm, mem, cur>>
      BY <1>9, CommandEffect DEF hostVars, workerVars
    <2>2. CASE store'[v] = store[v] \/ (cur = v /\ mem # NoSpec)
      <3>1. Copy(v)' = Copy(v)
        BY <2>1, <2>2 DEF Copy
      <3>. QED
        BY <1>4, <2>1, <3>1
    <2>3. CASE store'[v] # store[v] /\ ~(cur = v /\ mem # NoSpec)
      <3>1. w = v
        BY <1>9, <2>3, CommandSaves
      <3>2. Copy(v)' = store'[v] /\ Copy(v) = store[v]
        BY <2>1, <2>3 DEF Copy
      <3>3. CASE v \notin used
        BY <2>1, <3>3 DEF Links, Untouched, Knows
      <3>4. CASE api[v] = "save" /\ store'[v].deleted /\ store'[v].ifaces = apiMem[v].ifaces
        <4>1. PatientClient
          BY <3>2, <3>4
        <4>2. v \in Stored /\ apiMem[v].ifaces = store[v].ifaces
          BY <1>3, <3>4, <4>1 DEF CommandsSettled
        <4>. QED
          BY <1>5, <2>1, <3>2, <3>4, <4>1, <4>2 DEF Stored
      <3>. QED
        BY ZenonT(30), <1>9, <2>3, <3>1, <3>3, <3>4, CommandSaves DEF JustDeleted
    <2>. QED
      BY <2>2, <2>3
  <1>10. ASSUME NEW w \in VMs, VMMExit(w) PROVE Knows(Copy(v), v)'
    <2>1. UNCHANGED <<store, mem, cur, link>> /\ vmm' = [vmm EXCEPT ![w] = NoProc]
      BY <1>10, ExitEffect DEF workerVars
    <2>2. Copy(v)' = Copy(v) /\ (vmm'[v] # NoProc => vmm'[v] = vmm[v])
      BY <2>1 DEF Copy, TypeOK, HostTypeOK
    <2>. QED
      BY <1>2, <2>1, <2>2 DEF Knows, Named
  <1>11. CASE ControllerStep \/ UNCHANGED vars
    <2>1. UNCHANGED <<store, mem, cur, link, vmm>>
      BY <1>11, ControllerIdle DEF Idle, hostVars, workerVars
    <2>. QED
      BY <1>4, <2>1 DEF Copy
  <1>. QED
    BY Zenon, <1>1, <1>6, <1>7, <1>8, <1>9, <1>10, <1>11, StepsOfNext

\* No link is made and no VMM recorded that the spec does not learn of.
THEOREM CopiesKnow == SafeSpec => []CopyKnows
  BY InitType, NextType, InitDeletion, NextDeletion, InitRetries, NextRetries,
     InitLinks, NextLinks, InitCreate, NextCreate, InitAgrees, NextAgrees,
     InitSettled, NextSettled, InitKnows, NextKnows, PTL DEF SafeSpec

\* When saveState(CreatedState) runs, the mounts and the links that the spec names
\* exist and the VMM, if it is alive, has exactly these devices.
THEOREM CreatedHasAll == SafeSpec => []CreatedIsProvisioned
  <1>1. TypeOK /\ CreatePlanProgress /\ CopyKnows => CreatedIsProvisioned
    <2>. SUFFICES ASSUME TypeOK, CreatePlanProgress, CopyKnows, pc = "created"
                  PROVE  /\ Images \subseteq snaps[cur]
                         /\ \A n \in Ifaces : IfaceExists(mem.ifaces[n], FALSE)
                         /\ NoSaveLost => vmm[cur] \in {NoProc, mem.ifaces}
      BY ZenonT(30) DEF CreatedIsProvisioned
    <2>1. cur \in VMs /\ mem \in Specs
      BY Busy DEF TypeOK
    <2>2. Copy(cur) = mem /\ mem # NoSpec
      BY <2>1, NoSpecFresh DEF Copy
    <2>3. ~mem.deleted
      BY DEF CreatePlanProgress
    <2>4. NoSaveLost => Knows(mem, cur)
      BY <2>1, <2>2, <2>3 DEF CopyKnows
    <2>. QED
      BY Zenon, <2>4 DEF CreatePlanProgress, Knows
  <1>. QED
    BY <1>1, TypeCorrect, CreatePlanHolds, CopiesKnow, PTL

=============================================================================
