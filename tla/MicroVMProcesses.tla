-------------------------- MODULE MicroVMProcesses --------------------------
(***************************************************************************)
(* The processes flintlockd starts for one microvm and how it finds them   *)
(* again: the VMM (firecracker or cloud-hypervisor) and, for a virtiofs    *)
(* volume, virtiofsd.  MicroVMHost treats a provider's Create and Delete   *)
(* as one or two steps on a process; here are the steps they are made of,  *)
(* on a table of pids.                                                     *)
(*                                                                         *)
(* A process is found through a pid file, which is truncated and then      *)
(* written, and asked for with signal 0, which a zombie answers as well.   *)
(* flintlockd reaps its children (DetachedStart) or does not (cmd.Start);  *)
(* after a restart its processes are no longer its children.  Their pids   *)
(* are given to other processes once they are gone.                        *)
(*                                                                         *)
(* One worker reconciles the microvm again and again, as long as it is     *)
(* needed; backoff, the limit on retries and the other steps of the plans  *)
(* are in Reconciler.                                                      *)
(***************************************************************************)
EXTENDS Naturals, FiniteSets, Sequences

CONSTANTS Pids,       \* process ids of the host
          Providers,  \* subset of {"firecracker", "cloudhypervisor"}
          Detach,     \* values of the detach flags
          Volumes,    \* whether there is a virtiofs volume: subset of BOOLEAN
          MaxTroubles \* how many kinds of trouble happen in one behaviour, once each

Troubles == {"crash", "fail", "exit", "off", "reuse"}

ASSUME TroublesAssumption == MaxTroubles \in Nat
ASSUME ProvidersAssumption == Providers \subseteq {"firecracker", "cloudhypervisor"}
ASSUME FlagsAssumption == Detach \subseteq BOOLEAN /\ Volumes \subseteq BOOLEAN

VARIABLES
  conf,      \* [provider, detached, virtiofs] of this host and microvm
  proc,      \* the host's processes
  pidFile,   \* the VMM's pid file
  vfsFile,   \* virtiofsd's pid file
  dir,       \* the state directory exists
  sock,      \* the process that bound the API socket file, or NoFile
  wanted,    \* what the client asked for last: "up" or "deleted"
  goal,      \* what the running attempt works for
  mount,     \* the attempt's copy of the volume status has virtiofsd's socket
  stored,    \* the saved status has it
  pc,        \* where the worker is
  steps,     \* steps of the plan still to run
  target,    \* the pid just started, or signalled and waited for
  lost,      \* history: roles of processes no pid file or status will ever name
  seen       \* troubles that have happened

diskVars == <<pidFile, vfsFile, dir, sock>>
planVars == <<goal, mount, stored, steps>>
vars == <<conf, proc, diskVars, wanted, planVars, pc, target, lost, seen>>

Free == [role |-> "free", life |-> "gone", child |-> FALSE, api |-> "boot"]
NoFile == "nofile"
Garbled == "garbled"     \* truncated and not yet written
NoPid == "nopid"

ASSUME PidsAssumption == Pids \cap {NoFile, Garbled, NoPid} = {}

Process == [role : {"vmm", "virtiofsd", "other"},
            life : {"up", "dying", "zombie"},   \* dying: a fatal signal is pending
            child : BOOLEAN,                    \* of the flintlockd that runs now
            api : {"boot", "on", "off"}]        \* cloud-hypervisor: not bound, VM on, VM shut down

CreateSteps == {"vfs_create", "vmm_create", "vmm_start"}
DeleteSteps == {"vmm_delete", "vfs_delete", "dir_delete"}
PlanSteps == CreateSteps \cup DeleteSteps

TypeOK ==
  /\ conf \in [provider : Providers, detached : Detach, virtiofs : Volumes]
  /\ proc \in [Pids -> Process \cup {Free}]
  /\ pidFile \in Pids \cup {NoFile, Garbled} /\ vfsFile \in Pids \cup {NoFile, Garbled}
  /\ dir \in BOOLEAN /\ sock \in Pids \cup {NoFile}
  /\ wanted \in {"up", "deleted"} /\ goal \in {"up", "deleted"}
  /\ mount \in BOOLEAN /\ stored \in BOOLEAN
  /\ pc \in {"idle", "plan", "run", "launch", "record", "write", "shutdown", "signal",
             "wait", "reap", "done"} \cup PlanSteps
  /\ steps \in Seq(PlanSteps)
  /\ target \in Pids \cup {NoPid}
  /\ lost \subseteq {"vmm", "virtiofsd"}
  /\ seen \subseteq Troubles

Init ==
  /\ conf \in [provider : Providers, detached : Detach, virtiofs : Volumes]
  /\ conf.virtiofs => conf.provider = "cloudhypervisor"   \* the capability check
  /\ proc = [p \in Pids |-> Free]
  /\ pidFile = NoFile /\ vfsFile = NoFile /\ dir = FALSE /\ sock = NoFile
  /\ wanted = "up" /\ goal = "up" /\ mount = FALSE /\ stored = FALSE
  /\ pc = "idle" /\ steps = <<>> /\ target = NoPid
  /\ lost = {} /\ seen = {}

CloudHypervisor == conf.provider = "cloudhypervisor"

Trouble(k) ==
  k \notin seen /\ Cardinality(seen) < MaxTroubles /\ seen' = seen \cup {k}

-----------------------------------------------------------------------------
\* pkg/process and the providers' State

\* Mutant: only flintlockd's own children count as existing.
ExistsAsChild(pid) == pid \in Pids /\ proc[pid] # Free /\ proc[pid].child

\* process.Exists: signal 0 reaches any process of the table, a zombie included.
\* No pid file, or one that cannot be read, is pid -1.
Exists(pid) == pid \in Pids /\ proc[pid] # Free

\* What answers at a file, a pid or a role.
Is(p, role, lives) == proc[p].role = role /\ proc[p].life \in lives
Alive(role) == {p \in Pids : Is(p, role, {"up", "dying"})}

\* client.Info over the socket: the state of the VM, or "none" for an error.
Info == IF sock \in Alive("vmm") THEN proc[sock].api ELSE "none"

\* Mutant: a cloud-hypervisor whose API does not answer is reported as pending,
\* and so is one whose VM is shut down.
StateByAPI ==
  CASE pidFile = Garbled -> "error"
    [] ~Exists(pidFile) -> "pending"
    [] Exists(pidFile) /\ CloudHypervisor /\ Info # "on" -> "pending"
    [] OTHER -> "running"

\* State of both providers.  Without a pid file or a process: pending.  With a
\* process firecracker is running; cloud-hypervisor is running too, whether its
\* API answers yet or not, unless it answers with another state than Running or
\* Created.
State ==
  IF pidFile = Garbled THEN "error"
  ELSE IF ~Exists(pidFile) THEN "pending"
  ELSE IF CloudHypervisor /\ Info = "off" THEN "error"
  ELSE "running"

\* ShouldDo of the steps that have to do with processes.
ShouldDo(s) ==
  CASE s = "vfs_create" -> conf.virtiofs /\ ~mount
    [] s = "vmm_create" -> State = "pending"
    [] s = "vmm_start"  -> ~CloudHypervisor /\ State # "running"
    [] s = "vmm_delete" -> State = "running"
    [] s = "vfs_delete" -> conf.virtiofs /\ mount /\ Exists(vfsFile)
    [] s = "dir_delete" -> dir

\* A step that asks for the State gets its error.
Asks(s) == s \in {"vmm_create", "vmm_start", "vmm_delete"}

-----------------------------------------------------------------------------
\* The worker: attempts, plans, steps

\* ReconcileMicroVM loads the spec; a microvm that is gone is not found.
Begin ==
  /\ pc = "idle"
  /\ pc' = "plan" /\ goal' = wanted /\ mount' = stored /\ steps' = <<>> /\ target' = NoPid
  /\ UNCHANGED <<conf, proc, diskVars, wanted, stored, lost, seen>>

\* Mutant: a failed attempt leaves the saved status as it was.
FailUnsaved == pc' = "idle" /\ UNCHANGED planVars

\* An error ends the attempt; the reconciler saves the status it has so far.
Fail ==
  /\ pc' = "idle" /\ stored' = mount
  /\ UNCHANGED <<goal, mount, steps>>

\* The step is over, go on with the next one.
Return == pc' = "run" /\ steps' = Tail(steps) /\ UNCHANGED <<goal, stored>>

\* addStep: a step that has nothing to do is left out.
AddStep(s) == IF ShouldDo(s) THEN <<s>> ELSE <<>>

Plan ==
  IF goal = "up" THEN AddStep("vfs_create") \o AddStep("vmm_create") \o AddStep("vmm_start")
                 ELSE AddStep("vmm_delete") \o AddStep("vfs_delete") \o AddStep("dir_delete")

\* plan.Create; a plan without steps ends the attempt.
MakePlan ==
  /\ pc = "plan"
  /\ IF State = "error" THEN Fail
     ELSE /\ steps' = Plan
          /\ pc' = IF steps' # <<>> THEN "run" ELSE IF goal = "up" THEN "idle" ELSE "done"
          /\ stored' = IF steps' = <<>> THEN mount ELSE stored
          /\ UNCHANGED <<goal, mount>>
  /\ UNCHANGED <<conf, proc, diskVars, wanted, target, lost, seen>>

\* react: the step is asked again before it is done.
NextStep ==
  /\ pc = "run"
  /\ IF steps = <<>> THEN pc' = "plan" /\ UNCHANGED planVars
     ELSE IF Asks(Head(steps)) /\ State = "error" THEN Fail
     ELSE IF ShouldDo(Head(steps)) THEN pc' = Head(steps) /\ UNCHANGED planVars
     ELSE Return /\ UNCHANGED mount
  /\ UNCHANGED <<conf, proc, diskVars, wanted, target, lost, seen>>

-----------------------------------------------------------------------------
\* Starting a process: virtioFS Create and the providers' Create

\* Mutant: ensureState leaves the socket file of the last VMM behind.
CreateKeepsSocket ==
  /\ pc = "vmm_create"
  /\ IF CloudHypervisor /\ pidFile # NoFile /\ (pidFile = Garbled \/ Exists(pidFile))
       THEN IF pidFile = Garbled THEN Fail ELSE Return /\ UNCHANGED mount
       ELSE pc' = "launch" /\ UNCHANGED planVars
  /\ dir' = TRUE
  /\ UNCHANGED <<conf, proc, sock, pidFile, vfsFile, wanted, target, lost, seen>>

\* cloud-hypervisor's Create leaves a live process alone.  ensureState makes the
\* directory and removes a socket file that is left from before.
CreateVMM ==
  /\ pc = "vmm_create"
  /\ IF CloudHypervisor /\ pidFile # NoFile /\ (pidFile = Garbled \/ Exists(pidFile))
       THEN /\ IF pidFile = Garbled THEN Fail ELSE Return /\ UNCHANGED mount
            /\ UNCHANGED <<dir, sock>>
       ELSE /\ pc' = "launch" /\ dir' = TRUE
            /\ sock' = IF CloudHypervisor THEN NoFile ELSE sock
            /\ UNCHANGED planVars
  /\ UNCHANGED <<conf, proc, pidFile, vfsFile, wanted, target, lost, seen>>

\* virtiofs ensureState.
CreateVirtiofsd ==
  /\ pc = "vfs_create"
  /\ pc' = "launch" /\ dir' = TRUE
  /\ UNCHANGED <<conf, proc, pidFile, vfsFile, sock, wanted, planVars, target, lost, seen>>

Role == IF Head(steps) = "vfs_create" THEN "virtiofsd" ELSE "vmm"

\* The pids the kernel may pick: one that a file still names, or any other.  Pids
\* that nothing names are interchangeable, so one of them stands for all.
FreePids == {p \in Pids : proc[p] = Free}
NewPids ==
  LET named == FreePids \cap {pidFile, vfsFile, sock}
      fresh == FreePids \ named
  IN  named \cup (IF fresh = {} THEN {} ELSE {CHOOSE p \in fresh : TRUE})

\* startFirecracker, startCloudHypervisor, startVirtioFS.
Launch(p) ==
  /\ pc = "launch" /\ p \in NewPids
  /\ proc' = [proc EXCEPT ![p] =
                [role |-> Role, life |-> "up", child |-> TRUE, api |-> "boot"]]
  /\ target' = p /\ pc' = "record"
  /\ UNCHANGED <<conf, diskVars, wanted, planVars, lost, seen>>

\* The host has no pid left.
LaunchRefused ==
  /\ pc = "launch" /\ FreePids = {}
  /\ Fail
  /\ UNCHANGED <<conf, proc, diskVars, wanted, target, lost, seen>>

\* The pid file of a role is given a content.
PidFile(role, content) ==
  IF role = "vmm" THEN pidFile' = content /\ UNCHANGED vfsFile
                  ELSE vfsFile' = content /\ UNCHANGED pidFile

\* PIDWriteToFile opens the file with O_TRUNC ...
TruncatePid ==
  /\ pc = "record"
  /\ PidFile(Role, Garbled) /\ pc' = "write"
  /\ UNCHANGED <<conf, proc, dir, sock, wanted, planVars, target, lost, seen>>

\* ... and writes the pid; virtiofs Create returns its mount.
WritePid ==
  /\ pc = "write"
  /\ PidFile(Role, target)
  /\ mount' = (mount \/ Role = "virtiofsd") /\ Return
  /\ target' = NoPid
  /\ UNCHANGED <<conf, proc, dir, sock, wanted, lost, seen>>

\* The process cannot be started, or its pid file cannot be opened or written.
StartError ==
  /\ pc \in {"launch", "record", "write"} /\ Trouble("fail")
  /\ Fail
  /\ lost' = IF pc = "launch" THEN lost ELSE lost \cup {Role}
  /\ target' = NoPid
  /\ UNCHANGED <<conf, proc, diskVars, wanted>>

\* Both providers' Start: not supported.
StartVMM ==
  /\ pc = "vmm_start" /\ Fail
  /\ UNCHANGED <<conf, proc, diskVars, wanted, target, lost, seen>>

-----------------------------------------------------------------------------
\* Stopping a process: the providers' Delete, virtiofs Delete

\* Delete reads the pid again.  cloud-hypervisor's is done when the process is
\* gone, and otherwise first asks the API to shut the VM down, which fails when
\* the API does not answer.
DeleteVMM ==
  /\ pc = "vmm_delete"
  /\ target' = IF pidFile \in Pids THEN pidFile ELSE NoPid
  /\ IF pidFile \notin Pids THEN Fail /\ UNCHANGED proc
     ELSE IF ~CloudHypervisor THEN pc' = "signal" /\ UNCHANGED <<proc, planVars>>
     ELSE IF ~Exists(pidFile) THEN Return /\ UNCHANGED <<proc, mount>>
     ELSE IF Info \in {"none", "boot"} THEN Fail /\ UNCHANGED proc
     ELSE /\ proc' = [proc EXCEPT ![sock].api = "off"]
          /\ pc' = "shutdown" /\ UNCHANGED planVars
  /\ UNCHANGED <<conf, diskVars, wanted, lost, seen>>

\* wait.ForCondition on Info: an error ends it, the VM being off and the timeout
\* both lead on to the signal.
AwaitShutdown ==
  /\ pc = "shutdown"
  /\ IF Info = "none" THEN Fail ELSE pc' = "signal" /\ UNCHANGED planVars
  /\ UNCHANGED <<conf, proc, diskVars, wanted, target, lost, seen>>

\* virtiofs Delete ignores a pid file it cannot read.
DeleteVirtiofsd ==
  /\ pc = "vfs_delete"
  /\ IF Exists(vfsFile)
       THEN pc' = "signal" /\ target' = vfsFile /\ UNCHANGED planVars
       ELSE Return /\ UNCHANGED <<mount, target>>
  /\ UNCHANGED <<conf, proc, diskVars, wanted, lost, seen>>

\* Sends a fatal signal to whatever has the pid.
Killed(p) == [proc EXCEPT ![p].life = IF @ = "zombie" THEN @ ELSE "dying"]

\* Mutant: the process is signalled without looking whether it is still there.
SignalUnchecked ==
  /\ pc = "signal"
  /\ proc' = Killed(target) /\ pc' = "wait"
  /\ UNCHANGED <<conf, diskVars, wanted, planVars, target, lost, seen>>

\* process.SendSignal(SIGHUP or SIGTERM): fails when the pid is free.
Signal ==
  /\ pc = "signal"
  /\ IF ~Exists(target)
       THEN Fail /\ UNCHANGED proc
       ELSE proc' = Killed(target) /\ pc' = "wait" /\ UNCHANGED planVars
  /\ UNCHANGED <<conf, diskVars, wanted, target, lost, seen>>

\* WaitWithContext.  The wait of its goroutine ends when a child is dead, and at
\* once with an error for a process that is not a child or is reaped already; the
\* context is done at once (a timeout of zero) or after 200 ms, and then the
\* process is killed and waited for.
Wait ==
  /\ pc = "wait"
  /\ IF ~Exists(target) THEN Fail /\ UNCHANGED proc
     ELSE IF proc[target].life = "zombie"
       THEN proc' = [proc EXCEPT ![target] = Free] /\ Return /\ UNCHANGED mount
     ELSE IF proc[target].child
       THEN proc' = Killed(target) /\ pc' = "reap" /\ UNCHANGED planVars
     ELSE \/ Fail /\ UNCHANGED proc
          \/ proc' = Killed(target) /\ Return /\ UNCHANGED mount
  /\ UNCHANGED <<conf, diskVars, wanted, target, lost, seen>>

\* Mutant: waits until it has seen the child as a zombie.
ReapAlone ==
  /\ pc = "reap"
  /\ IF Exists(target) /\ proc[target].life = "zombie"
       THEN proc' = [proc EXCEPT ![target] = Free] /\ Return
       ELSE UNCHANGED <<proc, pc, planVars>>
  /\ UNCHANGED <<conf, diskVars, mount, wanted, target, lost, seen>>

\* The second proc.Wait: returns when the child is dead, reaped by this call or
\* by the goroutine of DetachedStart, whose "no child processes" is ignored.
Reap ==
  /\ pc = "reap" /\ ~(Exists(target) /\ proc[target].child /\ proc[target].life # "zombie")
  /\ proc' = IF Exists(target) /\ proc[target].child
               THEN [proc EXCEPT ![target] = Free] ELSE proc
  /\ Return /\ UNCHANGED mount
  /\ UNCHANGED <<conf, diskVars, wanted, target, lost, seen>>

\* deleteDirectory: RemoveAll takes the pid files and the socket along.
DeleteDir ==
  /\ pc = "dir_delete"
  /\ pidFile' = NoFile /\ vfsFile' = NoFile /\ sock' = NoFile /\ dir' = FALSE
  /\ Return /\ UNCHANGED mount
  /\ UNCHANGED <<conf, proc, wanted, target, lost, seen>>

-----------------------------------------------------------------------------
\* The client, the restarts of flintlockd, and the processes themselves

DeleteRequest ==
  /\ wanted = "up" /\ wanted' = "deleted"
  /\ UNCHANGED <<conf, proc, diskVars, planVars, pc, target, lost, seen>>

\* flintlockd dies and starts again.  Its processes live on as children of init,
\* which reaps them; a process not yet recorded is never found again.
Crash ==
  /\ pc \notin {"idle", "done"} /\ Trouble("crash")
  /\ pc' = "idle" /\ target' = NoPid
  /\ proc' = [p \in Pids |-> IF proc[p].life \in {"gone", "zombie"} THEN Free
                             ELSE [proc[p] EXCEPT !.child = FALSE]]
  /\ lost' = lost \cup (IF pc \in {"record", "write"} THEN {Role} ELSE {})
                  \cup (IF mount # stored THEN {"virtiofsd"} ELSE {})
  /\ UNCHANGED <<conf, diskVars, wanted, planVars>>

Only(p, record) == proc' = [proc EXCEPT ![p] = record]

\* A process ends: a child stays as a zombie until it is reaped.
End(p) == Only(p, IF proc[p].child THEN [proc[p] EXCEPT !.life = "zombie"] ELSE Free)

envUnchanged == <<conf, wanted, planVars, pc, target, lost>>

\* A booting cloud-hypervisor needs its socket path free and virtiofsd there;
\* it then binds the socket and boots the guest.  firecracker runs without API.
CanBoot(p) ==
  CloudHypervisor => sock = NoFile /\ (conf.virtiofs => Alive("virtiofsd") # {})

Boot(p) ==
  /\ Is(p, "vmm", {"up"}) /\ proc[p].api = "boot" /\ CanBoot(p)
  /\ proc' = [q \in Pids |-> IF q = p \/ (conf.virtiofs /\ Is(q, "virtiofsd", {"up"}))
                              THEN [proc[q] EXCEPT !.api = "on"] ELSE proc[q]]
  /\ sock' = IF CloudHypervisor /\ dir THEN p ELSE sock
  /\ UNCHANGED <<envUnchanged, pidFile, vfsFile, dir, seen>>

\* A VMM that cannot boot ends; virtiofsd ends when the VMM it served is gone;
\* and a process with a fatal signal pending ends.
EndsByItself(p) ==
  \/ Is(p, "vmm", {"up"}) /\ proc[p].api = "boot" /\ ~CanBoot(p)
  \/ Is(p, "virtiofsd", {"up"}) /\ proc[p].api = "on" /\ Alive("vmm") = {}
  \/ proc[p].life = "dying"

Ends(p) ==
  /\ EndsByItself(p) /\ End(p)
  /\ UNCHANGED <<envUnchanged, diskVars, seen>>

\* A VMM or virtiofsd dies although nobody told it to.
Dies(p) ==
  /\ Is(p, "vmm", {"up"}) \/ Is(p, "virtiofsd", {"up"})
  /\ Trouble("exit") /\ End(p)
  /\ UNCHANGED <<envUnchanged, diskVars>>

\* The guest shuts itself down: cloud-hypervisor lives on with the VM off.
GuestOff(p) ==
  /\ CloudHypervisor /\ Is(p, "vmm", {"up"}) /\ proc[p].api = "on"
  /\ Trouble("off") /\ Only(p, [proc[p] EXCEPT !.api = "off"])
  /\ UNCHANGED <<envUnchanged, diskVars>>

\* The goroutine of DetachedStart reaps; without it a dead VMM stays a zombie.
Reaper(p) ==
  /\ proc[p].life = "zombie"
  /\ conf.detached \/ proc[p].role = "virtiofsd"
  /\ Only(p, Free)
  /\ UNCHANGED <<envUnchanged, diskVars, seen>>

\* The host gives a free pid to a process of its own.
Reuse(p) ==
  /\ proc[p] = Free /\ p \in {pidFile, vfsFile} /\ Trouble("reuse")
  /\ Only(p, [role |-> "other", life |-> "up", child |-> FALSE, api |-> "boot"])
  /\ UNCHANGED <<envUnchanged, diskVars>>

-----------------------------------------------------------------------------
Worker ==
  \/ Begin \/ MakePlan \/ NextStep
  \/ CreateVMM \/ CreateVirtiofsd \/ StartVMM \/ TruncatePid \/ WritePid
  \/ LaunchRefused \/ \E p \in Pids : Launch(p)
  \/ DeleteVMM \/ AwaitShutdown \/ DeleteVirtiofsd \/ Signal \/ Wait \/ Reap \/ DeleteDir

\* The microvm is gone and nothing of it moves any more.
Finished == pc = "done" /\ UNCHANGED vars

Next ==
  \/ Worker \/ StartError \/ DeleteRequest \/ Crash \/ Finished
  \/ \E p \in Pids : Boot(p) \/ Ends(p) \/ Dies(p) \/ GuestOff(p) \/ Reaper(p) \/ Reuse(p)

SafeSpec == Init /\ [][Next]_vars

\* The worker comes back to the microvm (requeue, backoff, resync), processes
\* boot, and those that end do so in time.
Spec ==
  /\ SafeSpec
  /\ WF_vars(Worker)
  /\ \A p \in Pids : WF_vars(Boot(p)) /\ WF_vars(Ends(p)) /\ WF_vars(Reaper(p))

-----------------------------------------------------------------------------
\* There are never two VMM processes for the microvm, on the same disks and
\* links, whatever dies, restarts or is slow to answer, except when the pid of
\* one was lost between the start of the process and its pid file.
OneVMM == "vmm" \in lost \/ Cardinality(Alive("vmm")) <= 1

\* When the deletion is complete and the state directory with the pid files is
\* gone, no VMM of the microvm is left running: it is dead or has a fatal signal
\* pending, again unless its pid was lost.
NoVMMForgotten == pc = "done" /\ "vmm" \notin lost => ~\E p \in Pids : Is(p, "vmm", {"up"})

\* The same for virtiofsd, which is stopped only if the status tells of it.
NoVirtiofsdForgotten ==
  pc = "done" /\ "virtiofsd" \notin lost => ~\E p \in Pids : Is(p, "virtiofsd", {"up"})

\* Where the worker is and what its plan says fit together, and an attempt to delete
\* is never followed by one to create.
PlanFits ==
  /\ goal = "deleted" => wanted = "deleted"
  /\ steps \in Seq(IF goal = "up" THEN CreateSteps ELSE DeleteSteps)
  /\ pc \in PlanSteps => steps # <<>> /\ Head(steps) = pc
  /\ pc \in {"launch", "record", "write"} =>
       steps # <<>> /\ Head(steps) \in {"vfs_create", "vmm_create"}
  /\ pc \in {"signal", "wait", "reap"} =>
       steps # <<>> /\ Head(steps) \in {"vmm_delete", "vfs_delete"}
  /\ pc = "shutdown" => steps # <<>> /\ Head(steps) = "vmm_delete"
  /\ pc \in {"record", "write"} => target \in Pids
  /\ pc = "done" => goal = "deleted" /\ steps = <<>>

\* The worker is about to start a VMM, or has started one and not yet recorded it.
Creating == pc = "vmm_create" \/ (pc = "launch" /\ Role = "vmm")
Recording == pc \in {"record", "write"} /\ Role = "vmm"

\* The delete plan has dealt with the VMM.
Stopped ==
  /\ goal = "deleted" /\ pc \notin {"idle", "plan"}
  /\ pc \in {"wait", "reap"} \/ steps = <<>> \/ Head(steps) # "vmm_delete"

\* Why there is one VMM and none is forgotten: the live one is the one in the pid
\* file, or the one about to be written there, or is dying in a deletion; there is
\* none when one is created, and none up once the delete plan is past it.
VMMRecorded ==
  /\ \A p, q \in Alive("vmm") : p = q
  /\ Creating => Alive("vmm") = {}
  /\ \A p \in Alive("vmm") :
       IF Recording THEN p = target
       ELSE p = pidFile \/ (goal = "deleted" /\ proc[p].life = "dying")
  /\ pc \in {"shutdown", "signal"} /\ Head(steps) = "vmm_delete" => target = pidFile
  /\ Stopped => \A p \in Alive("vmm") : proc[p].life = "dying"

\* The plans of a deletion, from its start or from a later step on, and those that
\* still have virtiofsd to stop.
VirtiofsdAhead ==
  {<<"vfs_delete">>, <<"vfs_delete", "dir_delete">>,
   <<"vmm_delete", "vfs_delete">>, <<"vmm_delete", "vfs_delete", "dir_delete">>}
DeletePlans ==
  VirtiofsdAhead \cup {<<>>, <<"dir_delete">>, <<"vmm_delete">>, <<"vmm_delete", "dir_delete">>}

CreatingVirtiofsd == pc = "vfs_create" \/ (pc = "launch" /\ Role = "virtiofsd")
RecordingVirtiofsd == pc \in {"record", "write"} /\ Role = "virtiofsd"

\* The delete plan has dealt with virtiofsd.
VirtiofsdStopped ==
  /\ goal = "deleted" /\ pc \notin {"idle", "plan"}
  /\ steps \notin VirtiofsdAhead \/ (pc \in {"wait", "reap"} /\ Head(steps) = "vfs_delete")

\* The same for virtiofsd, which is started once: a live one has its mount in the
\* status, the attempt has the saved status or a newer one, and the plan of a
\* deletion comes to virtiofsd before the directory with its pid file.
VirtiofsdRecorded ==
  /\ pc = "idle" => mount = stored
  /\ CreatingVirtiofsd \/ RecordingVirtiofsd => conf.virtiofs /\ ~mount
  /\ \A p \in Alive("virtiofsd") :
       IF RecordingVirtiofsd THEN p = target
       ELSE /\ conf.virtiofs /\ mount
            /\ p = vfsFile \/ (goal = "deleted" /\ proc[p].life = "dying")
  /\ goal = "deleted" => steps \in DeletePlans
  /\ pc = "signal" /\ Head(steps) = "vfs_delete" => target = vfsFile
  /\ VirtiofsdStopped => \A p \in Alive("virtiofsd") : proc[p].life = "dying"

Recorded ==
  PlanFits /\ ("vmm" \in lost \/ VMMRecorded) /\ ("virtiofsd" \in lost \/ VirtiofsdRecorded)

\* What State says of the microvm is about another process.
Foreign == pidFile \in Pids /\ proc[pidFile].role \in {"other", "virtiofsd"}

\* States no later attempt can get out of: the pid file was truncated and never
\* written; its pid belongs to another process; the VM of a live cloud-hypervisor
\* is off, which makes State an error.
Trapped ==
  /\ pc = "idle"
  /\ \/ pidFile = Garbled \/ Foreign
     \/ CloudHypervisor /\ Info = "off" /\ proc[sock].life = "up"

\* A dead VMM nobody reaps still looks alive.
Unreaped == pc = "idle" /\ ~conf.detached /\ \E p \in Pids : Is(p, "vmm", {"zombie"})

\* virtiofsd has ended and is not started a second time: no VMM can boot.
Unserved == conf.virtiofs /\ mount /\ Alive("virtiofsd") = {}

\* A microvm that is to run gets a VMM (again), whatever died, as long as the
\* reconciler keeps coming back, none of the traps is sprung and virtiofsd is
\* there for its virtiofs volume.
VMMComesUp ==
  (wanted = "up") ~>
    \/ \E p \in Pids : Is(p, "vmm", {"up"}) /\ proc[p].api = "on"
    \/ wanted = "deleted" \/ Trapped \/ Unreaped \/ Unserved

\* A deletion completes, as long as none of the traps is sprung, and no create
\* attempt goes on for ever starting a VMM that cannot boot.
DeletionCompletes ==
  (wanted = "deleted") ~>
    \/ pc = "done" \/ Trapped
    \/ CloudHypervisor /\ Unreaped
    \/ goal = "up" /\ pc # "idle" /\ Unserved

=============================================================================
