------------------------ MODULE MicroVMProcesses_proofs ------------------------
(***************************************************************************)
(* Proofs about MicroVMProcesses for any set of pids, any of the providers *)
(* and flags, and any amount of trouble.                                   *)
(***************************************************************************)
EXTENDS MicroVMProcesses, FiniteSetTheorems, SequenceTheorems, TLAPS

\* addStep yields no step or the one it was asked to add.
LEMMA AddStepType ==
  ASSUME NEW S, NEW s \in S
  PROVE  AddStep(s) \in Seq(S)
BY EmptySeq DEF AddStep

\* The plan is a sequence of steps of its kind.
LEMMA PlanType ==
  Plan \in Seq(IF goal = "up" THEN CreateSteps ELSE DeleteSteps)
<1>2. ASSUME NEW S, NEW a \in S, NEW b \in S, NEW c \in S
      PROVE  AddStep(a) \o AddStep(b) \o AddStep(c) \in Seq(S)
  BY AddStepType, ConcatProperties
<1> QED
  BY Zenon, <1>2 DEF Plan, CreateSteps, DeleteSteps

\* The steps that leave the process table alone.
LEMMA SameProcesses ==
  ASSUME Begin \/ MakePlan \/ NextStep \/ CreateVMM \/ CreateVirtiofsd \/ StartVMM
           \/ TruncatePid \/ WritePid \/ LaunchRefused \/ AwaitShutdown \/ DeleteVirtiofsd
           \/ DeleteDir \/ StartError \/ DeleteRequest
  PROVE  proc' = proc
BY DEF Begin, MakePlan, NextStep, CreateVMM, CreateVirtiofsd, StartVMM, TruncatePid, WritePid,
       LaunchRefused, AwaitShutdown, DeleteVirtiofsd, DeleteDir, StartError, DeleteRequest

\* Every entry of the process table stays a process or free.
LEMMA ProcessTyped ==
  ASSUME TypeOK, Next
  PROVE  proc' \in [Pids -> Process \cup {Free}]
<1> DEFINE Table == [Pids -> Process \cup {Free}]
<1>0. proc \in Table
  BY DEF TypeOK
<1>1. ASSUME NEW p \in Pids, NEW r \in Process \cup {Free}, proc' = [proc EXCEPT ![p] = r]
      PROVE  proc' \in Table
  BY <1>0, <1>1
<1>2. ASSUME NEW p \in Pids, proc[p] # Free PROVE proc[p] \in Process
  BY <1>0, <1>2
<1>3. ASSUME NEW p \in Pids, proc[p] # Free, proc' = Killed(p) PROVE proc' \in Table
  BY <1>0, <1>2, <1>3 DEF Killed, Process
<1>4. ASSUME NEW p \in Pids, NEW lives, "gone" \notin lives, NEW role, Is(p, role, lives)
      PROVE  proc[p] # Free
  BY <1>4 DEF Is, Free
<1>5. CASE DeleteVMM
  <2>1. CASE UNCHANGED proc
    BY <1>0, <2>1
  <2>2. CASE ~UNCHANGED proc
    <3>1. Info \notin {"none", "boot"} /\ proc' = [proc EXCEPT ![sock].api = "off"]
      BY <1>5, <2>2 DEF DeleteVMM
    <3>2. sock \in Alive("vmm")
      BY <3>1 DEF Info
    <3>3. sock \in Pids /\ proc[sock] # Free
      BY <3>2, <1>4 DEF Alive
    <3> QED
      BY <3>1, <3>3, <1>0, <1>2 DEF Process
  <2> QED
    BY <2>1, <2>2
<1>6. CASE Signal
  BY <1>0, <1>3, <1>6 DEF Signal, Exists
<1>7. CASE Wait
  BY <1>0, <1>1, <1>3, <1>7 DEF Wait, Exists
<1>8. CASE Reap
  BY <1>0, <1>1, <1>8 DEF Reap, Exists
<1>9. CASE Crash
  <2>1. ASSUME NEW p \in Pids, proc[p].life \notin {"gone", "zombie"}
        PROVE  [proc[p] EXCEPT !.child = FALSE] \in Process
    <3>1. proc[p] # Free
      BY <2>1 DEF Free
    <3> QED
      BY Zenon, <1>2, <3>1 DEF Process
  <2> QED
    BY <1>9, <2>1 DEF Crash
<1>10. ASSUME NEW p \in Pids, Launch(p) PROVE proc' \in Table
  <2>1. [role |-> Role, life |-> "up", child |-> TRUE, api |-> "boot"] \in Process
    BY DEF Role, Process
  <2> QED
    BY Zenon, <1>1, <1>10, <2>1 DEF Launch
<1>11. ASSUME NEW p \in Pids, Boot(p) PROVE proc' \in Table
  <2>1. \A q \in Pids : Is(q, "virtiofsd", {"up"}) \/ q = p => proc[q] \in Process
    BY <1>2, <1>4, <1>11 DEF Boot
  <2> QED
    BY <1>0, <1>11, <2>1 DEF Boot, Process
<1>12. ASSUME NEW p \in Pids, End(p), proc[p] # Free PROVE proc' \in Table
  BY ZenonT(30), <1>1, <1>2, <1>12 DEF End, Only, Process
<1>13. ASSUME NEW p \in Pids, Ends(p) PROVE proc' \in Table
  <2>1. proc[p] # Free
    BY <1>4, <1>13 DEF Ends, EndsByItself, Free
  <2> QED
    BY <1>12, <1>13, <2>1 DEF Ends
<1>14. ASSUME NEW p \in Pids, Dies(p) PROVE proc' \in Table
  BY <1>4, <1>12, <1>14 DEF Dies
<1>15. ASSUME NEW p \in Pids, GuestOff(p) PROVE proc' \in Table
  <2>1. proc[p] \in Process
    BY <1>2, <1>4, <1>15 DEF GuestOff
  <2> QED
    BY Zenon, <1>1, <1>15, <2>1 DEF GuestOff, Only, Process
<1>16. ASSUME NEW p \in Pids, Reaper(p) PROVE proc' \in Table
  BY Zenon, <1>1, <1>16 DEF Reaper, Only
<1>17. ASSUME NEW p \in Pids, Reuse(p) PROVE proc' \in Table
  BY Zenon, <1>1, <1>17 DEF Reuse, Only, Process
<1>18. CASE Finished
  BY <1>0, <1>18 DEF Finished, vars
<1> QED
  BY SameProcesses, <1>0, <1>5, <1>6, <1>7, <1>8, <1>9, <1>10, <1>11, <1>13, <1>14, <1>15,
     <1>16, <1>17, <1>18 DEF Next, Worker

\* Going on to the next step keeps the rest of the plan a plan.
LEMMA ReturnFits ==
  ASSUME TypeOK, PlanFits, steps # <<>>, Return
  PROVE  /\ steps' \in Seq(PlanSteps)
         /\ steps' \in Seq(IF goal' = "up" THEN CreateSteps ELSE DeleteSteps)
BY HeadTailProperties DEF TypeOK, PlanFits, Return

\* Every variable keeps its type, and the worker's place fits its plan: a step is
\* asked, done and left only at the head of the plan it is in.
LEMMA FitsInductive ==
  SafeSpec => [](TypeOK /\ PlanFits)
<1> DEFINE Fits == TypeOK /\ PlanFits
<1>1. Init => Fits
  BY ZenonT(30), EmptySeq DEF Init, TypeOK, PlanFits, Process, Free, CreateSteps, DeleteSteps,
     PlanSteps
<1>2. Fits /\ [Next]_vars => Fits'
  <2> SUFFICES ASSUME Fits, [Next]_vars PROVE Fits'
    OBVIOUS
  <2>0. proc' \in [Pids -> Process \cup {Free}]
    BY ProcessTyped DEF vars, TypeOK
  <2> USE DEF TypeOK, PlanFits, PlanSteps, CreateSteps, DeleteSteps, diskVars, planVars,
  envUnchanged
  <2>1. CASE Begin
    BY <2>1, <2>0, EmptySeq DEF Begin
  <2>2. CASE MakePlan
    BY <2>2, <2>0, PlanType DEF MakePlan, Fail
  <2>3. CASE NextStep
    BY <2>3, <2>0, HeadTailProperties, ReturnFits DEF NextStep, Fail, Return
  <2>4. CASE CreateVMM
    <3>1. dir' \in BOOLEAN /\ mount' \in BOOLEAN /\ stored' \in BOOLEAN
      BY ZenonT(30), <2>4 DEF CreateVMM, Fail, Return
    <3>2. sock' \in Pids \cup {NoFile}
      BY <2>4 DEF CreateVMM
    <3>3. CASE pc' = "launch"
      BY <2>4, <2>0, <3>1, <3>2, <3>3 DEF CreateVMM, Fail, Return
    <3>4. CASE pc' # "launch"
      BY <2>4, <2>0, <3>1, <3>2, <3>4, ReturnFits DEF CreateVMM, Fail, Return
    <3> QED
      BY <3>3, <3>4
  <2>5. CASE CreateVirtiofsd
    BY <2>5, <2>0 DEF CreateVirtiofsd
  <2>6. CASE StartVMM
    BY <2>6, <2>0 DEF StartVMM, Fail
  <2>7. CASE TruncatePid
    BY <2>7, <2>0 DEF TruncatePid, PidFile
  <2>8. CASE WritePid
    <3>1. mount' \in BOOLEAN
      BY <2>8 DEF WritePid
    <3>2. pidFile' \in Pids \cup {NoFile, Garbled} /\ vfsFile' \in Pids \cup {NoFile, Garbled}
      BY <2>8 DEF WritePid, PidFile
    <3> QED
      BY <2>8, <2>0, <3>1, <3>2, ReturnFits DEF WritePid, Return
  <2>9. CASE LaunchRefused
    BY <2>9, <2>0 DEF LaunchRefused, Fail
  <2>10. CASE DeleteVMM
    BY <2>10, <2>0, ReturnFits DEF DeleteVMM, Fail, Return, Exists
  <2>11. CASE AwaitShutdown
    BY <2>11, <2>0 DEF AwaitShutdown, Fail
  <2>12. CASE DeleteVirtiofsd
    BY <2>12, <2>0, ReturnFits DEF DeleteVirtiofsd, Return, Exists
  <2>13. CASE Signal
    BY <2>13, <2>0 DEF Signal, Fail, Exists
  <2>14. CASE Wait
    BY <2>14, <2>0, ReturnFits DEF Wait, Fail, Return, Exists
  <2>15. CASE Reap
    BY <2>15, <2>0, ReturnFits DEF Reap, Return, Exists
  <2>16. CASE DeleteDir
    BY ZenonT(30), <2>16, <2>0, ReturnFits DEF DeleteDir, Return
  <2>17. CASE StartError
    <3>1. lost' \subseteq {"vmm", "virtiofsd"}
      BY <2>17 DEF StartError, Role
    <3> QED
      BY <2>17, <2>0, <3>1 DEF StartError, Fail, Trouble, Troubles
  <2>18. CASE DeleteRequest
    BY <2>18, <2>0 DEF DeleteRequest
  <2>19. CASE Crash
    <3>1. lost' \subseteq {"vmm", "virtiofsd"}
      BY <2>19 DEF Crash, Role
    <3> QED
      BY <2>19, <2>0, <3>1 DEF Crash, Trouble, Troubles
  <2>20. ASSUME NEW p \in Pids, Launch(p) PROVE Fits'
    BY <2>20, <2>0 DEF Launch
  <2>21. ASSUME NEW p \in Pids, Boot(p) PROVE Fits'
    BY <2>21, <2>0 DEF Boot
  <2>22. ASSUME NEW p \in Pids, Ends(p) PROVE Fits'
    BY <2>22, <2>0 DEF Ends
  <2>23. ASSUME NEW p \in Pids, Dies(p) PROVE Fits'
    BY <2>23, <2>0 DEF Dies, Trouble, Troubles
  <2>24. ASSUME NEW p \in Pids, GuestOff(p) PROVE Fits'
    BY <2>24, <2>0 DEF GuestOff, Trouble, Troubles
  <2>25. ASSUME NEW p \in Pids, Reaper(p) PROVE Fits'
    BY <2>25, <2>0 DEF Reaper
  <2>26. ASSUME NEW p \in Pids, Reuse(p) PROVE Fits'
    BY <2>26, <2>0 DEF Reuse, Trouble, Troubles
  <2>27. CASE UNCHANGED vars
    BY <2>27, <2>0 DEF vars
  <2> QED
    BY Zenon, <2>1, <2>2, <2>3, <2>4, <2>5, <2>6, <2>7, <2>8, <2>9, <2>10, <2>11, <2>12,
       <2>13, <2>14, <2>15, <2>16, <2>17, <2>18, <2>19, <2>20, <2>21, <2>22, <2>23, <2>24,
       <2>25, <2>26, <2>27
       DEF Next, Worker, Finished
<1> QED
  BY <1>1, <1>2, PTL DEF SafeSpec


\* A live process is in the table.
LEMMA AliveExists ==
  ASSUME TypeOK, NEW role \in {"vmm", "virtiofsd"}, NEW p \in Alive(role)
  PROVE  p \in Pids /\ Exists(p)
BY DEF Alive, Is, Exists, Free

\* No process of the role comes to life, and what is dying does not recover.
Quieter(role) ==
  \A p \in Pids : Is(p, role, {"up", "dying"})' =>
     /\ Is(p, role, {"up", "dying"})
     /\ proc[p].life = "dying" => proc'[p].life = "dying"

\* Every step of the worker, of the host and of the processes, but Launch.
LEMMA QuietSteps ==
  ASSUME NEW role \in {"vmm", "virtiofsd"}, TypeOK, Next, \A p \in Pids : ~Launch(p)
  PROVE  Quieter(role)
<1>0. proc \in [Pids -> Process \cup {Free}]
  BY DEF TypeOK
<1>1. CASE UNCHANGED proc
  BY <1>1 DEF Quieter, Is
<1>2. ASSUME NEW p \in Pids, NEW r, proc' = [proc EXCEPT ![p] = r],
             r.role = role /\ r.life \in {"up", "dying"} =>
               Is(p, role, {"up", "dying"}) /\ (proc[p].life = "dying" => r.life = "dying")
      PROVE  Quieter(role)
  BY <1>0, <1>2 DEF Quieter, Is
<1>3. ASSUME NEW p \in Pids, proc[p] # Free, proc' = Killed(p) PROVE Quieter(role)
  <2>1. proc[p] \in Process
    BY <1>0, <1>3
  <2> QED
    BY <1>0, <1>3, <2>1 DEF Quieter, Is, Killed, Process
<1>4. ASSUME NEW p \in Pids, proc' = [proc EXCEPT ![p] = Free] PROVE Quieter(role)
  BY ZenonT(30), <1>2, <1>4 DEF Free
<1>5. CASE DeleteVMM
  <2>1. CASE ~UNCHANGED proc
    <3>1. Info \notin {"none", "boot"} /\ proc' = [proc EXCEPT ![sock].api = "off"]
      BY <1>5, <2>1 DEF DeleteVMM
    <3>2. sock \in Pids /\ proc[sock] \in Process
      BY <3>1, <1>0 DEF Info, Alive, Is, Free
    <3> QED
      BY <3>1, <3>2, <1>0 DEF Quieter, Is, Process
  <2> QED
    BY <1>1, <2>1
<1>6. CASE Signal
  BY <1>1, <1>3, <1>6 DEF Signal, Exists
<1>7. CASE Wait
  BY <1>1, <1>3, <1>4, <1>7 DEF Wait, Exists
<1>8. CASE Reap
  BY <1>1, <1>4, <1>8 DEF Reap, Exists
<1>9. CASE Crash
  <2>1. ASSUME NEW p \in Pids, proc[p].life \notin {"gone", "zombie"}
        PROVE  /\ proc'[p].role = proc[p].role
               /\ proc'[p].life = proc[p].life
    <3>1. proc[p] \in Process
      BY <1>0, <2>1 DEF Free
    <3> QED
      BY <1>9, <2>1, <3>1 DEF Crash, Process
  <2>2. ASSUME NEW p \in Pids, proc[p].life \in {"gone", "zombie"}
        PROVE  proc'[p].role = "free"
    BY <1>9, <2>2 DEF Crash, Free
  <2> QED
    BY <2>1, <2>2 DEF Quieter, Is
<1>11. ASSUME NEW p \in Pids, Boot(p) PROVE Quieter(role)
  <2>1. ASSUME NEW q \in Pids
        PROVE  proc'[q].role = proc[q].role /\ proc'[q].life = proc[q].life
    <3>1. CASE q = p \/ (conf.virtiofs /\ Is(q, "virtiofsd", {"up"}))
      <4>1. proc[q] \in Process
        BY <1>0, <1>11, <3>1 DEF Boot, Is, Free
      <4> QED
        BY <1>11, <3>1, <4>1 DEF Boot, Process
    <3>2. CASE ~(q = p \/ (conf.virtiofs /\ Is(q, "virtiofsd", {"up"})))
      BY <1>11, <3>2 DEF Boot
    <3> QED
      BY <3>1, <3>2
  <2> QED
    BY <2>1 DEF Quieter, Is
<1>12. ASSUME NEW p \in Pids, End(p), proc[p] # Free PROVE Quieter(role)
  <2>1. proc[p] \in Process
    BY <1>0, <1>12
  <2> QED
    BY Zenon, <1>2, <1>4, <1>12, <2>1 DEF End, Only, Process
<1>13. ASSUME NEW p \in Pids, Ends(p) \/ Dies(p) PROVE Quieter(role)
  <2>1. proc[p] # Free
    BY <1>13 DEF Ends, Dies, EndsByItself, Is, Free
  <2> QED
    BY <1>12, <1>13, <2>1 DEF Ends, Dies
<1>15. ASSUME NEW p \in Pids, GuestOff(p) PROVE Quieter(role)
  <2>1. proc[p] \in Process
    BY <1>0, <1>15 DEF GuestOff, Is, Free
  <2> QED
    BY Zenon, <1>0, <1>2, <1>15, <2>1 DEF GuestOff, Only, Process, Is
<1>16. ASSUME NEW p \in Pids, Reaper(p) PROVE Quieter(role)
  BY Zenon, <1>4, <1>16 DEF Reaper, Only
<1>17. ASSUME NEW p \in Pids, Reuse(p) PROVE Quieter(role)
  BY Zenon, <1>2, <1>17 DEF Reuse, Only
<1>18. CASE Finished
  BY <1>1, <1>18 DEF Finished, vars
<1> QED
  BY SameProcesses, <1>1, <1>5, <1>6, <1>7, <1>8, <1>9, <1>11, <1>13, <1>15,
     <1>16, <1>17, <1>18 DEF Next, Worker

\* A plan and its goal are of one kind.
LEMMA GoalOfPlan ==
  ASSUME TypeOK, PlanFits, steps # <<>>
  PROVE  \/ goal = "up" /\ Head(steps) \in CreateSteps
         \/ goal = "deleted" /\ Head(steps) \in DeleteSteps
BY HeadTailProperties DEF TypeOK, PlanFits

\* State is pending only when the pid file names no process, and running or an
\* error when it names one.
LEMMA StateOfVMM ==
  /\ State = "pending" => ~Exists(pidFile)
  /\ Exists(pidFile) /\ pidFile # Garbled => State \in {"running", "error"}
  /\ State \in {"pending", "running", "error"}
BY DEF State

\* What ShouldDo of the VMM's steps comes down to.
LEMMA ShouldDoVMM ==
  /\ ShouldDo("vmm_create") <=> State = "pending"
  /\ ShouldDo("vmm_delete") <=> State = "running"
BY Zenon DEF ShouldDo

\* A delete plan that does not start with the VMM's step has nothing to stop.
LEMMA PlanStopsVMM ==
  ASSUME goal = "deleted", State = "running"
  PROVE  Plan # <<>> /\ Head(Plan) = "vmm_delete"
<1>1. AddStep("vmm_delete") = <<"vmm_delete">>
  BY ShouldDoVMM DEF AddStep
<1>2. AddStep("vfs_delete") \in Seq(DeleteSteps) /\ AddStep("dir_delete") \in Seq(DeleteSteps)
  BY AddStepType DEF DeleteSteps
<1>3. Plan = <<"vmm_delete">> \o AddStep("vfs_delete") \o AddStep("dir_delete")
  BY ZenonT(30), <1>1 DEF Plan
<1> HIDE DEF Plan
<1>4. ASSUME NEW a \in Seq(DeleteSteps), NEW b \in Seq(DeleteSteps)
      PROVE  LET c == <<"vmm_delete">> \o a \o b IN c # <<>> /\ Head(c) = "vmm_delete"
  <2>1. <<"vmm_delete">> \in Seq(DeleteSteps)
    BY DEF DeleteSteps
  <2> QED
    BY <2>1
<1> QED
  BY <1>2, <1>3, <1>4

\* VMMRecorded is kept by every step of the worker but Launch, as long as the
\* processes only get quieter: what is left to see is the worker's own state.
LEMMA RecordedByWorker ==
  ASSUME TypeOK, PlanFits, PlanFits', VMMRecorded, Quieter("vmm"), "vmm" \notin lost',
         Begin \/ MakePlan \/ NextStep \/ CreateVMM \/ CreateVirtiofsd \/ StartVMM \/ TruncatePid
           \/ WritePid \/ LaunchRefused \/ DeleteVMM \/ AwaitShutdown \/ DeleteVirtiofsd \/ Signal
           \/ Wait \/ Reap \/ DeleteDir \/ StartError \/ Crash
  PROVE  VMMRecorded'
<1>1. \A p \in (Alive("vmm"))' :
        p \in Alive("vmm") /\ (proc[p].life = "dying" => proc'[p].life = "dying")
  BY DEF Quieter, Alive
<1>2. \A p \in Alive("vmm") : Exists(p)
  BY AliveExists
<1>3. \A p \in Alive("vmm") : p # Garbled /\ p # NoFile /\ p # NoPid
  BY AliveExists, PidsAssumption
<1> HIDE DEF Alive
<1> USE GoalOfPlan, <1>1
<1> USE DEF PlanFits, VMMRecorded, Creating, Recording, Stopped, Role, CreateSteps, DeleteSteps,
            PlanSteps, planVars, diskVars
<1>4. CASE Begin
  BY <1>4 DEF Begin
<1>5. CASE MakePlan
  BY <1>5, <1>2, <1>3, StateOfVMM, PlanStopsVMM DEF MakePlan, Fail
<1>6. CASE NextStep
  BY <1>6, <1>2, <1>3, StateOfVMM, ShouldDoVMM DEF NextStep, Fail, Return, Asks
<1>7. CASE CreateVMM
  BY <1>7 DEF CreateVMM, Fail, Return
<1>8. CASE CreateVirtiofsd
  BY <1>8 DEF CreateVirtiofsd
<1>9. CASE StartVMM
  BY <1>9 DEF StartVMM, Fail
<1>10. CASE TruncatePid
  BY <1>10 DEF TruncatePid, PidFile
<1>11. CASE WritePid
  BY <1>11 DEF WritePid, Return, PidFile
<1>12. CASE LaunchRefused
  BY <1>12 DEF LaunchRefused, Fail
<1>13. CASE DeleteVMM
  BY <1>13, <1>2 DEF DeleteVMM, Fail, Return
<1>14. CASE AwaitShutdown
  BY <1>14 DEF AwaitShutdown, Fail
<1>15. CASE DeleteVirtiofsd
  BY <1>15 DEF DeleteVirtiofsd, Return
<1>16. CASE Signal
  <2>1. CASE UNCHANGED proc /\ pc' = "idle"
    BY <1>16, <2>1 DEF Signal, Fail
  <2>2. CASE proc' = Killed(target) /\ pc' = "wait" /\ UNCHANGED planVars
    <3>1. \A p \in (Alive("vmm"))' : p = target => proc'[p].life = "dying"
      <4>1. \A p \in (Alive("vmm"))' : p \in Pids /\ proc'[p].life \in {"up", "dying"}
        BY DEF Alive, Is
      <4>2. target \in Pids => proc'[target].life # "up"
        BY <2>2 DEF Killed, TypeOK, Process, Free
      <4> QED
        BY <4>1, <4>2
    <3> QED
      BY <1>16, <2>2, <3>1 DEF Signal
  <2> QED
    BY <1>16, <2>1, <2>2 DEF Signal, Fail
<1>17. CASE Wait
  BY <1>17 DEF Wait, Fail, Return
<1>18. CASE Reap
  BY <1>18 DEF Reap, Return
<1>19. CASE DeleteDir
  BY <1>19 DEF DeleteDir, Return
<1>20. CASE StartError
  BY <1>20 DEF StartError, Fail
<1>21. CASE Crash
  BY ZenonT(30), <1>21 DEF Crash
<1> QED
  BY Zenon, <1>4, <1>5, <1>6, <1>7, <1>8, <1>9, <1>10, <1>11, <1>12, <1>13, <1>14, <1>15,
     <1>16, <1>17, <1>18, <1>19, <1>20, <1>21

\* A pid that was lost is never found again.
LEMMA LostGrows == [Next]_vars => lost \subseteq lost'
BY Zenon DEF Next, Worker, vars, Begin, MakePlan, NextStep, CreateVMM, CreateVirtiofsd, StartVMM,
         TruncatePid, WritePid, LaunchRefused, Launch, DeleteVMM, AwaitShutdown,
         DeleteVirtiofsd, Signal, Wait, Reap, DeleteDir, StartError, DeleteRequest, Crash,
         Finished, Boot, Ends, Dies, GuestOff, Reaper, Reuse, envUnchanged

\* The client, the processes and the host leave the worker and the pid files alone.
LEMMA OthersSteps ==
  ASSUME \/ DeleteRequest \/ Finished
         \/ \E p \in Pids : Boot(p) \/ Ends(p) \/ Dies(p) \/ GuestOff(p) \/ Reaper(p) \/ Reuse(p)
  PROVE  /\ conf' = conf /\ pc' = pc /\ steps' = steps /\ goal' = goal /\ target' = target
         /\ mount' = mount /\ stored' = stored /\ pidFile' = pidFile /\ vfsFile' = vfsFile
BY Zenon DEF DeleteRequest, Finished, Boot, Ends, Dies, GuestOff, Reaper, Reuse,
             envUnchanged, planVars, diskVars, vars

\* The record of the VMM is kept by every step.
LEMMA VMMStaysRecorded ==
  ASSUME TypeOK, PlanFits, PlanFits', "vmm" \in lost \/ VMMRecorded, [Next]_vars
  PROVE  ("vmm" \in lost \/ VMMRecorded)'
<1> SUFFICES ASSUME VMMRecorded, Next, "vmm" \notin lost'
             PROVE  VMMRecorded'
  <2>1. UNCHANGED vars /\ VMMRecorded => VMMRecorded'
    BY DEF vars, diskVars, planVars, VMMRecorded, Creating, Recording, Stopped, Role, Alive, Is
  <2> QED
    BY <2>1, LostGrows
<1>1. CASE \E p \in Pids : Launch(p)
  <2> PICK p \in Pids : Launch(p)
    BY <1>1
  <2>1. CASE Role = "vmm"
    <3>1. Alive("vmm") = {}
      BY <2>1 DEF Launch, VMMRecorded, Creating
    <3>2. \A q \in (Alive("vmm"))' : q = p
      BY <3>1 DEF Launch, Alive, Is, TypeOK
    <3>3. goal = "up" /\ steps' = steps /\ goal' = goal /\ pc' = "record" /\ target' = p
      BY GoalOfPlan DEF Launch, PlanFits, CreateSteps, DeleteSteps, planVars
    <3> QED
      BY <2>1, <3>2, <3>3 DEF VMMRecorded, Creating, Recording, Stopped, Role
  <2>2. CASE Role = "virtiofsd"
    <3>1. \A q \in (Alive("vmm"))' : q \in Alive("vmm") /\ proc'[q].life = proc[q].life
      BY <2>2 DEF Launch, Alive, Is, TypeOK
    <3> QED
      BY <2>2, <3>1, GoalOfPlan
      DEF Launch, PlanFits, CreateSteps, DeleteSteps, planVars, diskVars, VMMRecorded, Creating,
          Recording, Stopped, Role
  <2> QED
    BY <2>1, <2>2 DEF Role
<1>2. CASE ~\E p \in Pids : Launch(p)
  <2>1. Quieter("vmm")
    BY <1>2, QuietSteps
  <2>2. CASE \/ DeleteRequest \/ Finished
             \/ \E p \in Pids : Boot(p) \/ Ends(p) \/ Dies(p) \/ GuestOff(p) \/ Reaper(p) \/ Reuse(p)
    <3>1. /\ pc' = pc /\ steps' = steps /\ goal' = goal /\ pidFile' = pidFile /\ target' = target
      BY Zenon, <2>2, OthersSteps
    <3>2. \A q \in (Alive("vmm"))' :
            q \in Alive("vmm") /\ (proc[q].life = "dying" => proc'[q].life = "dying")
      BY <2>1 DEF Quieter, Alive
    <3> QED
      BY <3>1, <3>2 DEF VMMRecorded, Creating, Recording, Stopped, Role
  <2> QED
    BY <1>2, <2>1, <2>2, RecordedByWorker DEF Next, Worker
<1> QED
  BY <1>1, <1>2

\* What ShouldDo of virtiofsd's steps comes down to.
LEMMA ShouldDoVirtiofsd ==
  /\ ShouldDo("vfs_create") <=> conf.virtiofs /\ ~mount
  /\ ShouldDo("vfs_delete") <=> conf.virtiofs /\ mount /\ Exists(vfsFile)
BY Zenon DEF ShouldDo

\* Two and three steps put together, as appending a step to a plan does.
LEMMA TwoSteps ==
  ASSUME NEW S, NEW x \in S, NEW y \in S
  PROVE  <<x>> \o <<y>> = <<x, y>>
<1> DEFINE s == <<x>> \o <<y>>
           t == <<x, y>>
<1>1. s \in Seq(S) /\ t \in Seq(S) /\ Len(s) = 2 /\ Len(t) = 2
  OBVIOUS
<1>2. s[1] = x /\ s[2] = y /\ t[1] = x /\ t[2] = y
  OBVIOUS
<1> HIDE DEF s, t
<1>3. s = t
  BY <1>1, <1>2, SeqEqual
<1> QED
  BY <1>3 DEF s, t

\* The same for a third step.
LEMMA ThreeSteps ==
  ASSUME NEW S, NEW x \in S, NEW y \in S, NEW z \in S
  PROVE  <<x, y>> \o <<z>> = <<x, y, z>>
<1> DEFINE s == <<x, y>> \o <<z>>
           t == <<x, y, z>>
<1>1. s \in Seq(S) /\ t \in Seq(S) /\ Len(s) = 3 /\ Len(t) = 3
  OBVIOUS
<1>2. s[1] = x /\ s[2] = y /\ s[3] = z /\ t[1] = x /\ t[2] = y /\ t[3] = z
  OBVIOUS
<1> HIDE DEF s, t
<1>3. s = t
  BY <1>1, <1>2, SeqEqual
<1> QED
  BY <1>3 DEF s, t

\* The plan of a deletion has its steps in one order, and virtiofsd's is among them
\* when there is one to stop.
LEMMA PlanOfDeletion ==
  ASSUME goal = "deleted"
  PROVE  /\ Plan \in DeletePlans
         /\ ShouldDo("vfs_delete") => Plan \in VirtiofsdAhead
<1>1. Plan = AddStep("vmm_delete") \o AddStep("vfs_delete") \o AddStep("dir_delete")
  BY Zenon DEF Plan
<1>2. /\ AddStep("vmm_delete") \in {<<>>, <<"vmm_delete">>}
      /\ AddStep("dir_delete") \in {<<>>, <<"dir_delete">>}
      /\ AddStep("vfs_delete") = IF ShouldDo("vfs_delete") THEN <<"vfs_delete">> ELSE <<>>
  BY Zenon DEF AddStep
<1> DEFINE m == "vmm_delete"  v == "vfs_delete"  d == "dir_delete"
<1>3. m \in DeleteSteps /\ v \in DeleteSteps /\ d \in DeleteSteps
  BY DEF DeleteSteps
<1> HIDE DEF m, v, d
<1>4. /\ <<>> \o <<>> = <<>>
      /\ <<m>> \o <<>> = <<m>> /\ <<>> \o <<v>> = <<v>> /\ <<>> \o <<d>> = <<d>>
      /\ <<v>> \o <<>> = <<v>> /\ <<m, v>> \o <<>> = <<m, v>>
  BY <1>3, ConcatEmptySeq
<1>5. /\ <<m>> \o <<v>> = <<m, v>> /\ <<m>> \o <<d>> = <<m, d>> /\ <<v>> \o <<d>> = <<v, d>>
      /\ <<m, v>> \o <<d>> = <<m, v, d>>
  BY Zenon, <1>3, TwoSteps, ThreeSteps
<1>6. ASSUME NEW a \in {<<>>, <<m>>}, NEW b \in {<<>>, <<d>>}
      PROVE  /\ (a \o <<>>) \o b \in {<<>>, <<d>>, <<m>>, <<m, d>>}
             /\ (a \o <<v>>) \o b \in {<<v>>, <<v, d>>, <<m, v>>, <<m, v, d>>}
  <2>1. /\ a \o <<>> \in {<<>>, <<m>>}
        /\ a \o <<v>> \in {<<v>>, <<m, v>>}
    BY Zenon, <1>4, <1>5
  <2>2. (a \o <<>>) \o b \in {<<>>, <<d>>, <<m>>, <<m, d>>}
    BY Zenon, <2>1, <1>4, <1>5
  <2>3. (a \o <<v>>) \o b \in {<<v>>, <<v, d>>, <<m, v>>, <<m, v, d>>}
    BY Zenon, <2>1, <1>4, <1>5
  <2> QED
    BY <2>2, <2>3
<1> QED
  BY Zenon, <1>1, <1>2, <1>6 DEF DeletePlans, VirtiofsdAhead, m, v, d

\* Going on in the plan of a deletion: the rest is one too, and virtiofsd is left
\* behind only with its own step.  When the directory's turn comes it is behind.
LEMMA RestOfDeletion ==
  ASSUME steps \in DeletePlans, steps # <<>>
  PROVE  /\ Tail(steps) \in DeletePlans
         /\ steps \in VirtiofsdAhead /\ Head(steps) # "vfs_delete" => Tail(steps) \in VirtiofsdAhead
         /\ Head(steps) = "dir_delete" => steps \notin VirtiofsdAhead
         /\ <<>> \notin VirtiofsdAhead
<1> DEFINE m == "vmm_delete"  v == "vfs_delete"  d == "dir_delete"
<1>1. m # v /\ m # d /\ v # d
  OBVIOUS
<1>2. /\ Head(<<v>>) = v /\ Tail(<<v>>) = <<>> /\ Head(<<d>>) = d /\ Tail(<<d>>) = <<>>
      /\ Head(<<m>>) = m /\ Tail(<<m>>) = <<>> /\ Head(<<v, d>>) = v /\ Tail(<<v, d>>) = <<d>>
      /\ Head(<<m, v>>) = m /\ Tail(<<m, v>>) = <<v>>
      /\ Head(<<m, d>>) = m /\ Tail(<<m, d>>) = <<d>>
      /\ Head(<<m, v, d>>) = m /\ Tail(<<m, v, d>>) = <<v, d>>
  OBVIOUS
<1>3. /\ <<>> \notin {<<v>>, <<v, d>>, <<m, v>>, <<m, v, d>>}
      /\ <<d>> \notin {<<v>>, <<v, d>>, <<m, v>>, <<m, v, d>>}
      /\ <<m>> \notin {<<v>>, <<v, d>>, <<m, v>>, <<m, v, d>>}
      /\ <<m, d>> \notin {<<v>>, <<v, d>>, <<m, v>>, <<m, v, d>>}
  OBVIOUS
<1> HIDE DEF m, v, d
<1>4. /\ VirtiofsdAhead = {<<v>>, <<v, d>>, <<m, v>>, <<m, v, d>>}
      /\ DeletePlans = VirtiofsdAhead \cup {<<>>, <<d>>, <<m>>, <<m, d>>}
  BY Zenon DEF VirtiofsdAhead, DeletePlans, m, v, d
<1>5. \/ Head(steps) = v /\ Tail(steps) \in {<<>>, <<d>>}
      \/ Head(steps) = m /\ steps \in VirtiofsdAhead /\ Tail(steps) \in {<<v>>, <<v, d>>}
      \/ Head(steps) = m /\ steps \notin VirtiofsdAhead /\ Tail(steps) \in {<<>>, <<d>>}
      \/ Head(steps) = d /\ steps = <<d>> /\ Tail(steps) = <<>>
  <2>1. CASE steps = <<v>>
    BY Zenon, <1>2, <2>1
  <2>2. CASE steps = <<v, d>>
    BY Zenon, <1>2, <2>2
  <2>3. CASE steps = <<m, v>>
    BY Zenon, <1>2, <1>4, <2>3
  <2>4. CASE steps = <<m, v, d>>
    BY Zenon, <1>2, <1>4, <2>4
  <2>5. CASE steps = <<d>>
    BY Zenon, <1>2, <2>5
  <2>6. CASE steps = <<m>>
    BY Zenon, <1>2, <1>3, <1>4, <2>6
  <2>7. CASE steps = <<m, d>>
    BY Zenon, <1>2, <1>3, <1>4, <2>7
  <2> QED
    BY Zenon, <1>4, <2>1, <2>2, <2>3, <2>4, <2>5, <2>6, <2>7
<1>6. /\ Tail(steps) \in DeletePlans
      /\ steps \in VirtiofsdAhead /\ Head(steps) # v => Tail(steps) \in VirtiofsdAhead
  BY Zenon, <1>3, <1>4, <1>5
<1>7. <<>> \notin VirtiofsdAhead
  BY Zenon, <1>3, <1>4
<1>8. Head(steps) = d => steps \notin VirtiofsdAhead
  BY Zenon, <1>1, <1>3, <1>4, <1>5
<1> QED
  BY Zenon, <1>6, <1>7, <1>8 DEF v, d

\* VirtiofsdRecorded is kept by every step of the worker but Launch.
LEMMA VirtiofsdByWorker ==
  ASSUME TypeOK, PlanFits, PlanFits', VirtiofsdRecorded, Quieter("virtiofsd"),
         "virtiofsd" \notin lost',
         Begin \/ MakePlan \/ NextStep \/ CreateVMM \/ CreateVirtiofsd \/ StartVMM \/ TruncatePid
           \/ WritePid \/ LaunchRefused \/ DeleteVMM \/ AwaitShutdown \/ DeleteVirtiofsd \/ Signal
           \/ Wait \/ Reap \/ DeleteDir \/ StartError \/ Crash
  PROVE  VirtiofsdRecorded'
<1>1. \A p \in (Alive("virtiofsd"))' :
        p \in Alive("virtiofsd") /\ (proc[p].life = "dying" => proc'[p].life = "dying")
  BY DEF Quieter, Alive
<1>2. \A p \in Alive("virtiofsd") : Exists(p)
  BY AliveExists
<1>3. <<>> \in DeletePlans
  BY DEF DeletePlans
<1> HIDE DEF Alive
<1> USE GoalOfPlan, RestOfDeletion, <1>1, <1>3
<1> USE DEF PlanFits, VirtiofsdRecorded, CreatingVirtiofsd, RecordingVirtiofsd, VirtiofsdStopped,
            Role, CreateSteps, DeleteSteps, PlanSteps, planVars, diskVars
<1>4. CASE Begin
  BY <1>4 DEF Begin
<1>5. CASE MakePlan
  BY ZenonT(30), <1>5, <1>2, PlanOfDeletion, ShouldDoVirtiofsd DEF MakePlan, Fail
<1>6. CASE NextStep
  BY ZenonT(30), <1>6, <1>2, ShouldDoVirtiofsd DEF NextStep, Fail, Return, Asks
<1>7. CASE CreateVMM
  BY <1>7 DEF CreateVMM, Fail, Return
<1>8. CASE CreateVirtiofsd
  BY <1>8 DEF CreateVirtiofsd
<1>9. CASE StartVMM
  BY <1>9 DEF StartVMM, Fail
<1>10. CASE TruncatePid
  BY <1>10 DEF TruncatePid, PidFile
<1>11. CASE WritePid
  BY ZenonT(30), <1>11 DEF WritePid, Return, PidFile
<1>12. CASE LaunchRefused
  BY <1>12 DEF LaunchRefused, Fail
<1>13. CASE DeleteVMM
  BY ZenonT(30), <1>13 DEF DeleteVMM, Fail, Return
<1>14. CASE AwaitShutdown
  BY ZenonT(30), <1>14 DEF AwaitShutdown, Fail
<1>15. CASE DeleteVirtiofsd
  BY ZenonT(30), <1>15, <1>2 DEF DeleteVirtiofsd, Return
<1>16. CASE Signal
  <2>1. CASE UNCHANGED proc /\ pc' = "idle"
    BY ZenonT(30), <1>16, <2>1 DEF Signal, Fail
  <2>2. CASE proc' = Killed(target) /\ pc' = "wait" /\ UNCHANGED planVars
    <3>1. \A p \in (Alive("virtiofsd"))' : p = target => proc'[p].life = "dying"
      <4>1. \A p \in (Alive("virtiofsd"))' : p \in Pids /\ proc'[p].life \in {"up", "dying"}
        BY DEF Alive, Is
      <4>2. target \in Pids => proc'[target].life # "up"
        BY <2>2 DEF Killed, TypeOK, Process, Free
      <4> QED
        BY <4>1, <4>2
    <3> QED
      BY ZenonT(30), <1>16, <2>2, <3>1 DEF Signal
  <2> QED
    BY ZenonT(30), <1>16, <2>1, <2>2 DEF Signal, Fail
<1>17. CASE Wait
  BY ZenonT(30), <1>17 DEF Wait, Fail, Return
<1>18. CASE Reap
  BY ZenonT(30), <1>18 DEF Reap, Return
<1>19. CASE DeleteDir
  BY ZenonT(30), <1>19 DEF DeleteDir, Return
<1>20. CASE StartError
  BY <1>20 DEF StartError, Fail
<1>21. CASE Crash
  BY <1>21 DEF Crash
<1> QED
  BY Zenon, <1>4, <1>5, <1>6, <1>7, <1>8, <1>9, <1>10, <1>11, <1>12, <1>13, <1>14, <1>15,
     <1>16, <1>17, <1>18, <1>19, <1>20, <1>21

\* The record of virtiofsd is kept by every step.
LEMMA VirtiofsdStaysRecorded ==
  ASSUME TypeOK, PlanFits, PlanFits', "virtiofsd" \in lost \/ VirtiofsdRecorded, [Next]_vars
  PROVE  ("virtiofsd" \in lost \/ VirtiofsdRecorded)'
<1> SUFFICES ASSUME VirtiofsdRecorded, Next, "virtiofsd" \notin lost'
             PROVE  VirtiofsdRecorded'
  <2>1. UNCHANGED vars /\ VirtiofsdRecorded => VirtiofsdRecorded'
    <3> SUFFICES ASSUME UNCHANGED vars, VirtiofsdRecorded PROVE VirtiofsdRecorded'
      OBVIOUS
    <3>1. /\ conf' = conf /\ pc' = pc /\ steps' = steps /\ goal' = goal /\ target' = target
          /\ mount' = mount /\ stored' = stored /\ vfsFile' = vfsFile /\ proc' = proc
      BY DEF vars, diskVars, planVars
    <3>2. (Alive("virtiofsd"))' = Alive("virtiofsd")
      BY <3>1 DEF Alive, Is
    <3> QED
      BY ZenonT(30), <3>1, <3>2 DEF VirtiofsdRecorded, CreatingVirtiofsd, RecordingVirtiofsd,
         VirtiofsdStopped, Role
  <2> QED
    BY <2>1, LostGrows
<1>1. CASE \E p \in Pids : Launch(p)
  <2> PICK p \in Pids : Launch(p)
    BY <1>1
  <2>0. /\ goal = "up" /\ steps' = steps /\ goal' = goal /\ pc' = "record" /\ target' = p
        /\ conf' = conf /\ mount' = mount /\ vfsFile' = vfsFile
    BY GoalOfPlan DEF Launch, PlanFits, CreateSteps, DeleteSteps, planVars, diskVars
  <2>1. CASE Role = "virtiofsd"
    <3>1. Alive("virtiofsd") = {}
      BY <2>1 DEF Launch, VirtiofsdRecorded, CreatingVirtiofsd, RecordingVirtiofsd
    <3>2. \A q \in (Alive("virtiofsd"))' : q = p
      BY <3>1 DEF Launch, Alive, Is, TypeOK
    <3> QED
      BY <2>0, <2>1, <3>2 DEF Launch, VirtiofsdRecorded, CreatingVirtiofsd, RecordingVirtiofsd,
         VirtiofsdStopped, Role
  <2>2. CASE Role # "virtiofsd"
    <3>1. \A q \in (Alive("virtiofsd"))' : q \in Alive("virtiofsd") /\ proc'[q].life = proc[q].life
      BY <2>2 DEF Launch, Alive, Is, TypeOK
    <3> QED
      BY <2>0, <2>2, <3>1 DEF Launch, VirtiofsdRecorded, CreatingVirtiofsd, RecordingVirtiofsd,
         VirtiofsdStopped, Role
  <2> QED
    BY <2>1, <2>2
<1>2. CASE ~\E p \in Pids : Launch(p)
  <2>1. Quieter("virtiofsd")
    BY <1>2, QuietSteps
  <2>2. CASE \/ DeleteRequest \/ Finished
             \/ \E p \in Pids : Boot(p) \/ Ends(p) \/ Dies(p) \/ GuestOff(p) \/ Reaper(p) \/ Reuse(p)
    <3>1. /\ conf' = conf /\ pc' = pc /\ steps' = steps /\ goal' = goal /\ target' = target
          /\ mount' = mount /\ stored' = stored /\ vfsFile' = vfsFile
      BY Zenon, <2>2, OthersSteps
    <3>2. \A q \in (Alive("virtiofsd"))' :
            q \in Alive("virtiofsd") /\ (proc[q].life = "dying" => proc'[q].life = "dying")
      BY <2>1 DEF Quieter, Alive
    <3> QED
      BY ZenonT(30), <3>1, <3>2 DEF VirtiofsdRecorded, CreatingVirtiofsd, RecordingVirtiofsd,
         VirtiofsdStopped, Role
  <2> QED
    BY <1>2, <2>1, <2>2, VirtiofsdByWorker DEF Next, Worker
<1> QED
  BY <1>1, <1>2

\* The whole of it: with the plan, the records of the VMM and of virtiofsd are kept.
LEMMA RecordedInductive == SafeSpec => []Recorded
<1>1. Init => Recorded
  <2> SUFFICES ASSUME Init PROVE Recorded
    OBVIOUS
  <2>1. PlanFits
    BY EmptySeq DEF Init, PlanFits, CreateSteps, DeleteSteps, PlanSteps
  <2>2. Alive("vmm") = {} /\ Alive("virtiofsd") = {}
    BY DEF Init, Alive, Is, Free
  <2>3. VMMRecorded
    BY <2>2 DEF Init, VMMRecorded, Creating, Stopped
  <2>4. VirtiofsdRecorded
    BY ZenonT(30), <2>2 DEF Init, VirtiofsdRecorded, CreatingVirtiofsd, RecordingVirtiofsd,
                            VirtiofsdStopped
  <2> QED
    BY <2>1, <2>3, <2>4 DEF Recorded
<1>2. TypeOK /\ PlanFits /\ PlanFits' /\ Recorded /\ [Next]_vars => Recorded'
  BY VMMStaysRecorded, VirtiofsdStaysRecorded DEF Recorded
<1> QED
  BY <1>1, <1>2, FitsInductive, PTL DEF SafeSpec

\* Every variable keeps its type: a signal and a wait only ever meet a process.
THEOREM TypeCorrect == SafeSpec => []TypeOK
BY FitsInductive, PTL

\* There is at most one VMM process for the microvm, for any number of pids,
\* restarts, deaths and reuses of pids, as long as no pid was lost before it was
\* written: Create is only called while the pid file names no process.
THEOREM NoSecondVMM == SafeSpec => []OneVMM
<1>1. Recorded => OneVMM
  <2> SUFFICES ASSUME \A p, q \in Alive("vmm") : p = q
               PROVE  Cardinality(Alive("vmm")) <= 1
    BY DEF Recorded, VMMRecorded, OneVMM
  <2> HIDE DEF Alive
  <2>1. CASE Alive("vmm") = {}
    BY <2>1, FS_EmptySet
  <2>2. CASE Alive("vmm") # {}
    <3> PICK p \in Alive("vmm") : TRUE
      BY <2>2
    <3>1. Alive("vmm") = {p}
      OBVIOUS
    <3> QED
      BY <3>1, FS_Singleton
  <2> QED
    BY <2>1, <2>2
<1> QED
  BY <1>1, RecordedInductive, PTL

\* Once the delete plan is done, every VMM of the microvm is dead or dying: the
\* plan leaves the pid file only behind a process it has signalled.
THEOREM DeletionForgetsNoVMM == SafeSpec => []NoVMMForgotten
<1>1. Recorded => NoVMMForgotten
  <2> SUFFICES ASSUME Recorded, pc = "done", "vmm" \notin lost, NEW p \in Pids, Is(p, "vmm", {"up"})
               PROVE  FALSE
    BY DEF NoVMMForgotten
  <2>1. p \in Alive("vmm") /\ proc[p].life # "dying"
    BY DEF Alive, Is
  <2>2. Stopped
    BY DEF Recorded, PlanFits, VMMRecorded, Stopped
  <2> QED
    BY <2>1, <2>2 DEF Recorded, VMMRecorded
<1> QED
  BY <1>1, RecordedInductive, PTL

\* The same for virtiofsd, of whose pid file only the mount in the status tells: it
\* is started once, and an attempt that fails saves the mount it has come to know.
THEOREM DeletionForgetsNoVirtiofsd == SafeSpec => []NoVirtiofsdForgotten
<1>1. Recorded => NoVirtiofsdForgotten
  <2> SUFFICES ASSUME Recorded, pc = "done", "virtiofsd" \notin lost, NEW p \in Pids,
                      Is(p, "virtiofsd", {"up"})
               PROVE  FALSE
    BY DEF NoVirtiofsdForgotten
  <2>1. p \in Alive("virtiofsd") /\ proc[p].life # "dying"
    BY DEF Alive, Is
  <2>2. <<>> \notin VirtiofsdAhead
    BY DEF VirtiofsdAhead
  <2>3. VirtiofsdStopped
    BY <2>2 DEF Recorded, PlanFits, VirtiofsdStopped
  <2> QED
    BY <2>1, <2>3 DEF Recorded, VirtiofsdRecorded
<1> QED
  BY <1>1, RecordedInductive, PTL

=============================================================================
