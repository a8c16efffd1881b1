----------------------- MODULE FlintlockRetries_proofs -----------------------
(***************************************************************************)
(* Proofs about the retries of Flintlock: failed attempts are spaced by    *)
(* the backoff, and a microvm that was given up stays given up, whatever   *)
(* is saved, lost, delivered late or crashes in between.                   *)
(***************************************************************************)
EXTENDS Flintlock_proofs

(***************************************************************************)
(* The inductive invariant.                                                *)
(***************************************************************************)

\* A copy of the spec as DeleteMicroVM marks it, with its count of retries back
\* at zero.
JustDeleted(s) == s.deleted /\ s.retry = 0 /\ s.state = "deleting"

\* That is what a command saves.
CommandsDelete == \A v \in VMs : api[v] = "save" => JustDeleted(apiMem[v])

\* A spec is failed only past the limit on retries, and while it is, the worker
\* that holds a copy of it is only about to save it as failed again.
GivenUp ==
  /\ \A v \in Stored : store[v].state = "failed" => store[v].retry > MaximumRetry
  /\ mem # NoSpec =>
       /\ IF pc = "failed" THEN mem.retry > MaximumRetry ELSE mem.state # "failed"
       /\ cur \in Stored /\ store[cur].state = "failed" => pc = "failed"

\* While a backoff runs, the spec tells of it or was deleted since; the worker
\* is then busy only with the deletion, or with giving the microvm up.  What the
\* worker's save would lose against is a deletion.
BackedOff ==
  /\ backoff \subseteq used
  /\ \A v \in Stored \cap backoff : store[v].notBefore \/ JustDeleted(store[v])
  /\ mem # NoSpec =>
       /\ cur \in backoff => JustDeleted(mem) \/ (pc = "failed" /\ mem.notBefore)
       /\ cur \in Stored /\ store[cur].version > mem.version => JustDeleted(store[cur])

Retries == CommandsDelete /\ GivenUp /\ BackedOff

(***************************************************************************)
(* What saves and steps do to a spec.                                      *)
(***************************************************************************)

\* Equal contents agree in every field but the version.
LEMMA SameFields ==
  ASSUME NEW s \in Specs, NEW t \in Specs, SameContent(s, t)
  PROVE  /\ s.deleted = t.deleted /\ s.state = t.state /\ s.retry = t.retry
         /\ s.notBefore = t.notBefore /\ s.mounts = t.mounts /\ s.ifaces = t.ifaces
  <1>1. ASSUME NEW u \in Specs
        PROVE  LET w == [u EXCEPT !.version = 0]
               IN  /\ w.deleted = u.deleted /\ w.state = u.state /\ w.retry = u.retry
                   /\ w.notBefore = u.notBefore /\ w.mounts = u.mounts /\ w.ifaces = u.ifaces
    BY DEF Specs
  <1>. QED
    BY ZenonT(30), <1>1 DEF SameContent

\* Save writes every field of the caller's copy, and the next version.
LEMMA WrittenFields ==
  ASSUME NEW m \in Specs
  PROVE  LET w == Written(m)
         IN  /\ w \in Specs /\ w.version = m.version + 1
             /\ w.deleted = m.deleted /\ w.state = m.state /\ w.retry = m.retry
             /\ w.notBefore = m.notBefore /\ w.mounts = m.mounts /\ w.ifaces = m.ifaces
  BY DEF Written, Specs

\* After a Save, Get returns the copy that was saved, or an equal one, or one
\* that was a version ahead.
LEMMA SaveWins ==
  ASSUME NEW old \in Specs \cup {NoSpec}, NEW m \in Specs, NEW s \in SaveStamped(old, m)
  PROVE  /\ s \in Specs
         /\ \/ s = Written(m)
            \/ s = old /\ SameContent(old, m)
            \/ s = old /\ old.version > m.version
  <1>1. s \in Specs /\ (s = old \/ s = Written(m))
    BY SaveChooses
  <1>2. CASE s # Written(m)
    <2>1. s = old /\ old \in Specs /\ old # NoSpec
      BY <1>1, <1>2, NoSpecFresh
    <2>2. SameContent(old, m) \/ old \in Visible(old, Written(m))
      BY <2>1 DEF SaveStamped, Save
    <2>3. ASSUME old \in Visible(old, Written(m)) PROVE old.version > m.version
      <3>1. old.version >= Written(m).version
        BY <2>1, <2>3 DEF Visible
      <3>2. Written(m).version = m.version + 1 /\ m.version \in Nat /\ old.version \in Nat
        BY <2>1, WrittenFields DEF Specs
      <3>. QED
        BY <3>1, <3>2
    <2>. QED
      BY <1>1, <2>1, <2>2, <2>3
  <1>. QED
    BY <1>1, <1>2

\* What the steps of an attempt do to the worker's copy.
LEMMA CopyFields ==
  ASSUME NEW m \in Specs
  PROVE  /\ LET w == EnsureStatus(m)
            IN  /\ w \in Specs /\ w.version = m.version /\ w.deleted = m.deleted
                /\ w.retry = m.retry /\ w.notBefore = m.notBefore
                /\ w.state = m.state \/ (~m.deleted /\ w.state = "pending")
                /\ w.mounts = m.mounts /\ w.ifaces = m.ifaces
         /\ LET w == [EnsureStatus(m) EXCEPT !.retry = 0, !.notBefore = FALSE]
            IN  /\ w \in Specs /\ w.version = m.version /\ w.deleted = m.deleted
                /\ w.state = m.state \/ (~m.deleted /\ w.state = "pending")
                /\ w.mounts = m.mounts /\ w.ifaces = m.ifaces
  <1>1. LET w == EnsureStatus(m)
        IN  /\ w \in Specs /\ w.version = m.version /\ w.deleted = m.deleted
            /\ w.retry = m.retry /\ w.notBefore = m.notBefore
            /\ w.state = m.state \/ (~m.deleted /\ w.state = "pending")
            /\ w.mounts = m.mounts /\ w.ifaces = m.ifaces
    BY DEF EnsureStatus, Specs, States
  <1>2. ASSUME NEW e \in Specs
        PROVE  LET w == [e EXCEPT !.retry = 0, !.notBefore = FALSE]
               IN  /\ w \in Specs /\ w.version = e.version /\ w.deleted = e.deleted
                   /\ w.state = e.state /\ w.mounts = e.mounts /\ w.ifaces = e.ifaces
    BY Zenon DEF Specs
  <1>. QED
    BY Zenon, <1>1, <1>2

\* A mounted image changes nothing that the retries are about.
LEMMA MountFields ==
  ASSUME NEW m \in Specs, NEW i \in Images
  PROVE  LET w == [m EXCEPT !.mounts = @ \cup {i}]
         IN  /\ w \in Specs /\ w.version = m.version /\ w.deleted = m.deleted
             /\ w.state = m.state /\ w.retry = m.retry
             /\ w.mounts = m.mounts \cup {i} /\ w.ifaces = m.ifaces
  BY DEF Specs

\* Nor does an interface that gets its name.
LEMMA IfaceFields ==
  ASSUME NEW m \in Specs, NEW n \in Ifaces, NEW d \in Devs
  PROVE  LET w == [m EXCEPT !.ifaces[n] = d]
         IN  /\ w \in Specs /\ w.version = m.version /\ w.deleted = m.deleted
             /\ w.state = m.state /\ w.retry = m.retry
             /\ w.mounts = m.mounts /\ w.ifaces = [m.ifaces EXCEPT ![n] = d]
  BY DEF Specs, IfaceStatus

\* What the end of an attempt saves.
LEMMA OutcomeFields ==
  ASSUME WorkerTypeOK, pc \in {"reschedule", "created", "failed"}
  PROVE  /\ mem \in Specs /\ Outcome \in Specs
         /\ Outcome.version = mem.version /\ Outcome.deleted = mem.deleted
         /\ Outcome.mounts = mem.mounts /\ Outcome.ifaces = mem.ifaces
         /\ pc = "reschedule" => Outcome.notBefore /\ Outcome.state = mem.state
         /\ pc # "reschedule" => /\ Outcome.notBefore = mem.notBefore
                                 /\ Outcome.retry = mem.retry
                                 /\ IF mem.deleted THEN Outcome.state = mem.state
                                                   ELSE Outcome.state = pc
  <1>1. mem \in Specs
    BY Busy
  <1>2. CASE pc = "reschedule"
    <2>1. Outcome = [mem EXCEPT !.retry = mem.retry + 1, !.notBefore = TRUE]
      BY Zenon, <1>2 DEF Outcome
    <2>2. mem.retry + 1 \in Nat
      BY <1>1 DEF Specs
    <2>3. ASSUME NEW r \in Nat
          PROVE  LET w == [mem EXCEPT !.retry = r, !.notBefore = TRUE]
                 IN  /\ w \in Specs /\ w.version = mem.version /\ w.deleted = mem.deleted
                     /\ w.notBefore = TRUE /\ w.state = mem.state
                     /\ w.mounts = mem.mounts /\ w.ifaces = mem.ifaces
      BY Zenon, <1>1 DEF Specs
    <2>. QED
      BY Zenon, <1>1, <1>2, <2>1, <2>2, <2>3
  <1>3. CASE pc # "reschedule"
    <2>1. pc \in States /\ Outcome = Finalise(mem, pc)
      BY Zenon, <1>3 DEF Outcome, States
    <2>2. ASSUME NEW st \in States
          PROVE  LET w == Finalise(mem, st)
                 IN  /\ w \in Specs /\ w.version = mem.version /\ w.deleted = mem.deleted
                     /\ w.notBefore = mem.notBefore /\ w.retry = mem.retry
                     /\ w.mounts = mem.mounts /\ w.ifaces = mem.ifaces
                     /\ w.state = IF mem.deleted THEN mem.state ELSE st
      BY <1>1 DEF Finalise, Specs
    <2>. QED
      BY Zenon, <1>1, <1>3, <2>1, <2>2
  <1>. QED
    BY <1>2, <1>3

\* An attempt goes on: the worker keeps its microvm, and of its copy the version
\* and the mark, and, once the microvm is deleted, the count of retries.
Attempting ==
  /\ pc' \in {"plan", "react", "setpid", "reschedule", "created"}
  /\ cur' = cur /\ mem' \in Specs
  /\ mem'.version = mem.version /\ mem'.deleted = mem.deleted
  /\ mem'.state = mem.state \/ (~mem.deleted /\ mem'.state = "pending")
  /\ mem.deleted => mem'.retry = mem.retry

\* Every step between the read of the spec and its save either goes on with the
\* attempt or ends it.
LEMMA AttemptSteps ==
  ASSUME TypeOK,
         \/ PlanError \/ PlanCreate
         \/ \E s \in Steps : Skip(s) \/ StepError(s)
         \/ DirCreate \/ DirDelete
         \/ \E i \in Images : Mount(i)
         \/ \E n \in Ifaces : NewIface(n) \/ NewIfaceError(n) \/ NoIfaceName(n) \/ RemoveIface(n)
         \/ CreateStart \/ CreateSetPid \/ CreateSetPidError \/ CreateError \/ Start
         \/ DeleteVMM \/ Release \/ PublishDeleted
  PROVE  /\ pc \in {"plan", "react", "setpid"} /\ UNCHANGED timerVars
         /\ Return \/ Attempting
  <1>1. cur \in VMs /\ mem \in Specs /\ pc \in {"plan", "react", "setpid"}
    BY ZenonT(30), Busy DEF TypeOK, PlanError, PlanCreate, Skip, StepError, DirCreate, DirDelete,
       Mount, NewIface, NewIfaceError, NoIfaceName, RemoveIface, CreateStart, CreateSetPid,
       CreateSetPidError, CreateError, Start, DeleteVMM, Release, PublishDeleted, AtStep
  <1>2. UNCHANGED timerVars
    BY ZenonT(30) DEF PlanError, PlanCreate, PlanDone, Skip, StepError, DirCreate, DirDelete,
       Mount, NewIface, NewIfaceError, NoIfaceName, RemoveIface, CreateStart, CreateSetPid,
       CreateSetPidError, CreateError, Start, DeleteVMM, Release, PublishDeleted
  \* Where the worker goes.
  <1>3. ASSUME \/ \E s : Proceed(s)
               \/ \E l \in {"react", "setpid", "reschedule", "created"} : Goto(l)
        PROVE  cur' = cur /\ pc' \in {"plan", "react", "setpid", "reschedule", "created"}
    BY <1>3 DEF Proceed, Goto
  \* What becomes of its copy.
  <1>7. ASSUME cur' = cur, pc' \in {"plan", "react", "setpid", "reschedule", "created"},
               mem' = mem \/ mem' = EnsureStatus(mem)
        PROVE  Attempting
    <2>1. CASE mem' = mem
      BY <1>1, <1>7, <2>1 DEF Attempting
    <2>2. CASE mem' = EnsureStatus(mem)
      BY Zenon, <1>1, <1>7, <2>2, CopyFields DEF Attempting
    <2>. QED
      BY <1>7, <2>1, <2>2
  <1>8. ASSUME cur' = cur, pc' = "created", ~mem.deleted,
               mem' = [EnsureStatus(mem) EXCEPT !.retry = 0, !.notBefore = FALSE]
        PROVE  Attempting
    BY Zenon, <1>1, <1>8, CopyFields DEF Attempting
  <1>9. ASSUME cur' = cur, pc' \in {"plan", "react", "setpid", "reschedule", "created"},
               NEW i \in Images, mem' = [mem EXCEPT !.mounts = @ \cup {i}]
        PROVE  Attempting
    BY Zenon, <1>1, <1>9, MountFields DEF Attempting
  <1>10. ASSUME cur' = cur, pc' \in {"plan", "react", "setpid", "reschedule", "created"},
                NEW n \in Ifaces, NEW d \in Devs, mem' = [mem EXCEPT !.ifaces[n] = d]
         PROVE  Attempting
    BY <1>1, <1>10, IfaceFields DEF Attempting
  <1>4. CASE PlanError
    <2>1. Goto("reschedule") /\ (mem' = mem \/ mem' = EnsureStatus(mem))
      BY <1>4 DEF PlanError
    <2>. QED
      BY <1>1, <1>2, <1>3, <1>7, <2>1
  <1>5. CASE PlanCreate
    <2>1. \/ Return
          \/ mem' = EnsureStatus(mem) /\ Goto("react")
          \/ /\ mem' = [EnsureStatus(mem) EXCEPT !.retry = 0, !.notBefore = FALSE]
             /\ ~mem.deleted /\ Goto("created")
      BY ZenonT(30), <1>5 DEF PlanCreate, PlanDone
    <2>. QED
      BY <1>1, <1>2, <1>3, <1>7, <1>8, <2>1 DEF Goto
  <1>6. CASE ~PlanError /\ ~PlanCreate
    <2>1. (\E s : Proceed(s)) \/ \E l \in {"react", "setpid", "reschedule", "created"} : Goto(l)
      BY ZenonT(30), <1>6 DEF Skip, StepError, DirCreate, DirDelete,
         Mount, NewIface, NewIfaceError, NoIfaceName, RemoveIface, CreateStart, CreateSetPid,
         CreateSetPidError, CreateError, Start, DeleteVMM, Release, PublishDeleted, Done, Failed
    <2>2. \/ mem' = mem
          \/ \E i \in Images : mem' = [mem EXCEPT !.mounts = @ \cup {i}]
          \/ \E n \in Ifaces, d \in Devs : mem' = [mem EXCEPT !.ifaces[n] = d]
      BY ZenonT(30), <1>6 DEF Skip, StepError, DirCreate, DirDelete,
         Mount, NewIface, NewIfaceError, NoIfaceName, RemoveIface, CreateStart, CreateSetPid,
         CreateSetPidError, CreateError, Start, DeleteVMM, Release, PublishDeleted
    <2>. QED
      BY Zenon, <1>1, <1>2, <1>3, <1>7, <1>9, <1>10, <2>1, <2>2
  <1>. QED
    BY <1>4, <1>5, <1>6

(***************************************************************************)
(* Retries is inductive.                                                   *)
(***************************************************************************)

\* Steps that leave the store alone, and the worker's copy, unless it is dropped.
LEMMA RetriesFrame ==
  ASSUME Retries, UNCHANGED <<store, used>>, backoff' \subseteq backoff, CommandsDelete',
         mem' = NoSpec \/ UNCHANGED <<mem, cur, pc>>
  PROVE  Retries'
  BY DEF Retries, GivenUp, BackedOff, Stored

\* The steps of an attempt.
LEMMA RetriesAttempt ==
  ASSUME TypeOK, Retries, UNCHANGED apiVars,
         pc \in {"plan", "react", "setpid"}, UNCHANGED timerVars, Return \/ Attempting,
         UNCHANGED store \/ Release
  PROVE  Retries'
  <1>1. CommandsDelete'
    BY DEF Retries, CommandsDelete, apiVars
  <1>2. cur \in VMs /\ mem \in Specs /\ mem # NoSpec
    BY Busy, NoSpecFresh DEF TypeOK
  <1>3. UNCHANGED <<used, backoff, timers>>
    BY DEF apiVars, timerVars
  \* A release only takes a spec away.
  <1>4. Stored' \subseteq Stored /\ \A v \in Stored' : store'[v] = store[v]
    BY <1>2 DEF Release, Stored, TypeOK, StoreTypeOK
  <1>5. mem' = NoSpec \/ Attempting
    BY DEF Return
  <1>6. GivenUp'
    BY <1>2, <1>4, <1>5 DEF Retries, GivenUp, Attempting
  <1>7. BackedOff'
    BY <1>2, <1>3, <1>4, <1>5 DEF Retries, BackedOff, Attempting, JustDeleted
  <1>. QED
    BY <1>1, <1>6, <1>7 DEF Retries

\* The read of the spec, which looks at the retries and at the backoff.
LEMMA RetriesGet ==
  ASSUME TypeOK, Deletion, Retries, UNCHANGED apiVars,
         Dequeue \/ GetNotFound \/ GetError \/ Get
  PROVE  Retries'
  <1>1. CommandsDelete'
    BY DEF Retries, CommandsDelete, apiVars
  <1>2. UNCHANGED <<store, used, backoff>>
    BY DEF Dequeue, GetNotFound, GetError, Get, apiVars, timerVars
  <1>3. CASE mem' = NoSpec
    BY <1>1, <1>2, <1>3, RetriesFrame
  <1>4. CASE Dequeue
    <2>1. mem' = NoSpec
      BY <1>4 DEF Dequeue, TypeOK, WorkerTypeOK
    <2>. QED
      BY <1>3, <2>1
  <1>5. CASE GetNotFound \/ GetError
    BY <1>3, <1>5 DEF GetNotFound, GetError, ReturnError
  <1>6. CASE Get
    <2>1. pc = "get" /\ cur \in VMs /\ cur \in Stored /\ store[cur] \in Specs
      BY <1>6 DEF Get, Stored, TypeOK, WorkerTypeOK, StoreTypeOK
    <2>2. CASE Return
      BY <1>3, <2>2 DEF Return
    <2>3. CASE store[cur].retry > MaximumRetry /\ mem' = store[cur] /\ Goto("failed")
      <3>1. /\ cur' = cur /\ pc' = "failed" /\ mem'.retry > MaximumRetry
            /\ mem'.version = store[cur].version /\ mem'.version \in Nat
        BY <2>1, <2>3 DEF Goto, Specs
      <3>2. GivenUp'
        BY <1>2, <3>1 DEF Retries, GivenUp, Stored
      <3>3. BackedOff'
        BY <1>2, <2>1, <2>3, <3>1 DEF Retries, BackedOff, Stored
      <3>. QED
        BY <1>1, <3>2, <3>3 DEF Retries
    <2>4. CASE /\ store[cur].retry <= MaximumRetry
               /\ ~(store[cur].notBefore /\ cur \in backoff)
               /\ mem' = store[cur] /\ Goto("plan")
      <3>1. /\ cur' = cur /\ pc' = "plan" /\ mem' = store[cur]
            /\ mem'.version = store[cur].version /\ mem'.version \in Nat
        BY <2>1, <2>4 DEF Goto, Specs
      <3>2. mem'.state # "failed"
        BY <2>1, <2>4, MaximumRetryNat DEF Retries, GivenUp, Specs
      <3>3. GivenUp'
        BY <1>2, <3>1, <3>2 DEF Retries, GivenUp, Stored
      <3>4. BackedOff'
        BY <1>2, <2>1, <2>4, <3>1 DEF Retries, BackedOff, Stored
      <3>. QED
        BY <1>1, <3>3, <3>4 DEF Retries
    <2>. QED
      BY ZenonT(30), <1>6, <2>2, <2>3, <2>4 DEF Get
  <1>. QED
    BY <1>4, <1>5, <1>6

\* What a save leaves in the store, and what it leaves alone.
LEMMA SaveLeaves ==
  ASSUME TypeOK, NEW v \in VMs, NEW m \in Specs,
         \E s \in SaveStamped(store[v], m) : store' = [store EXCEPT ![v] = s]
  PROVE  /\ store'[v] \in Specs /\ Stored' = Stored \cup {v}
         /\ \/ store'[v] = Written(m)
            \/ v \in Stored /\ store'[v] = store[v] /\ SameContent(store[v], m)
            \/ v \in Stored /\ store'[v] = store[v] /\ store[v].version > m.version
         /\ \A w \in VMs \ {v} : store'[w] = store[w]
  <1>1. PICK s \in SaveStamped(store[v], m) : store' = [store EXCEPT ![v] = s]
    BY ZenonT(30)
  <1>2. store \in [VMs -> Specs \cup {NoSpec}]
    BY DEF TypeOK, StoreTypeOK
  <1>3. store'[v] = s /\ \A w \in VMs \ {v} : store'[w] = store[w]
    BY <1>1, <1>2
  <1>4. /\ s \in Specs
        /\ \/ s = Written(m)
           \/ s = store[v] /\ SameContent(store[v], m)
           \/ s = store[v] /\ store[v].version > m.version
    BY <1>2, SaveWins
  <1>5. s # NoSpec
    BY <1>4, NoSpecFresh
  <1>. QED
    BY <1>3, <1>4, <1>5 DEF Stored

\* The saves that end an attempt.
LEMMA RetriesSaves ==
  ASSUME TypeOK, Deletion, Retries, UNCHANGED apiVars, Reschedule \/ SaveState \/ SaveError
  PROVE  Retries'
  <1>1. CommandsDelete' /\ mem' = NoSpec /\ UNCHANGED used
    BY DEF Retries, CommandsDelete, apiVars, Reschedule, SaveState, SaveError, Return, ReturnError
  <1>2. pc \in {"reschedule", "created", "failed"} /\ cur \in VMs /\ mem \in Specs
    BY Busy DEF Reschedule, SaveState, SaveError, TypeOK
  <1>3. cur \in used /\ mem # NoSpec
    BY <1>2, NoSpecFresh DEF Deletion, WorkerCopy
  <1>4. CASE UNCHANGED <<store, backoff>>
    BY <1>1, <1>4, RetriesFrame
  <1>5. CASE /\ \E s \in SaveStamped(store[cur], Outcome) : store' = [store EXCEPT ![cur] = s]
             /\ backoff' = IF pc = "reschedule" THEN backoff \cup {cur} ELSE backoff
    <2>1. /\ Outcome \in Specs /\ Outcome.version = mem.version
          /\ Outcome.deleted = mem.deleted
          /\ pc = "reschedule" => Outcome.notBefore /\ Outcome.state = mem.state
          /\ pc # "reschedule" => /\ Outcome.notBefore = mem.notBefore
                                  /\ Outcome.retry = mem.retry
                                  /\ IF mem.deleted THEN Outcome.state = mem.state
                                                    ELSE Outcome.state = pc
      BY ZenonT(30), <1>2, OutcomeFields DEF TypeOK
    <2>2. /\ store'[cur] \in Specs /\ Stored' = Stored \cup {cur}
          /\ \/ store'[cur] = Written(Outcome)
             \/ cur \in Stored /\ store'[cur] = store[cur] /\ SameContent(store[cur], Outcome)
             \/ cur \in Stored /\ store'[cur] = store[cur] /\ store[cur].version > Outcome.version
          /\ \A w \in VMs \ {cur} : store'[w] = store[w]
      BY ZenonT(30), <1>2, <1>5, <2>1, SaveLeaves
    \* What is stored is what the attempt saves, or a deletion that was faster.
    <2>3. \/ /\ store'[cur].notBefore = Outcome.notBefore /\ store'[cur].retry = Outcome.retry
             /\ store'[cur].state = Outcome.state /\ store'[cur].deleted = Outcome.deleted
          \/ JustDeleted(store'[cur])
      <3>1. CASE store'[cur] = Written(Outcome)
        BY Zenon, <2>1, <3>1, WrittenFields
      <3>2. CASE cur \in Stored /\ store'[cur] = store[cur] /\ SameContent(store[cur], Outcome)
        <4>1. store[cur] \in Specs
          BY <2>2, <3>2
        <4>. QED
          BY <2>1, <3>2, <4>1, SameFields
      <3>3. CASE /\ cur \in Stored /\ store'[cur] = store[cur]
                 /\ store[cur].version > Outcome.version
        BY <1>3, <2>1, <3>3 DEF Retries, BackedOff
      <3>. QED
        BY <2>2, <3>1, <3>2, <3>3
    <2>4. store'[cur].state = "failed" => store'[cur].retry > MaximumRetry
      BY <1>2, <1>3, <2>1, <2>3 DEF Retries, GivenUp, JustDeleted
    <2>5. cur \in backoff' => store'[cur].notBefore \/ JustDeleted(store'[cur])
      <3>1. CASE pc = "reschedule"
        BY <2>1, <2>3, <3>1
      <3>2. CASE pc # "reschedule"
        BY <1>2, <1>3, <1>5, <2>1, <2>3, <3>2 DEF Retries, BackedOff, JustDeleted
      <3>. QED
        BY <3>1, <3>2
    <2>6. GivenUp'
      BY <1>1, <2>2, <2>4 DEF Retries, GivenUp, Stored
    <2>7. BackedOff'
      BY <1>1, <1>3, <1>5, <2>2, <2>5 DEF Retries, BackedOff, Stored
    <2>. QED
      BY <1>1, <2>6, <2>7 DEF Retries
  <1>. QED
    BY <1>4, <1>5, SaveIsSaveStamped DEF Reschedule, SaveState, SaveError, timerVars

\* The commands.
LEMMA RetriesCommands ==
  ASSUME TypeOK, Deletion, Retries, NEW v \in VMs,
         \/ CreateSave(v) \/ DeleteGet(v) \/ DeleteSave(v)
         \/ CommandPublish(v) \/ CommandError(v)
  PROVE  Retries'
  <1>1. UNCHANGED <<mem, cur, pc, backoff>> /\ used \subseteq used'
    BY DEF CreateSave, DeleteGet, DeleteSave, CommandPublish, CommandError, workerVars, timerVars
  <1>2. CommandsDelete'
    <2>1. CASE DeleteGet(v)
      <3>1. store[v] \in Specs
        BY <2>1 DEF DeleteGet, TypeOK, StoreTypeOK
      <3>2. JustDeleted([store[v] EXCEPT !.deleted = TRUE, !.retry = 0, !.state = "deleting"])
        BY Zenon, <3>1 DEF JustDeleted, Specs
      <3>3. apiMem'[v] = [store[v] EXCEPT !.deleted = TRUE, !.retry = 0, !.state = "deleting"]
        BY Zenon, <2>1 DEF DeleteGet, TypeOK, ApiTypeOK
      <3>4. JustDeleted(apiMem'[v])
        BY Zenon, <3>2, <3>3
      <3>5. \A w \in VMs \ {v} : api'[w] = api[w] /\ apiMem'[w] = apiMem[w]
        BY <2>1 DEF DeleteGet, TypeOK, ApiTypeOK
      <3>. QED
        BY <3>4, <3>5 DEF Retries, CommandsDelete
    <2>2. CASE ~DeleteGet(v)
      <3>1. PICK a \in {"created", "updated", "none"} : api' = [api EXCEPT ![v] = a]
        BY ZenonT(30), <2>2 DEF CreateSave, DeleteSave, CommandPublish, CommandError
      <3>2. \A w \in VMs \ {v} : apiMem'[w] = apiMem[w]
        BY ZenonT(30), <2>2 DEF CreateSave, DeleteSave, CommandPublish, CommandError, TypeOK,
           ApiTypeOK
      <3>. QED
        BY <3>1, <3>2 DEF TypeOK, ApiTypeOK, Retries, CommandsDelete
    <2>. QED
      BY <2>1, <2>2
  \* A command that saves: a new microvm, or a deletion.
  <1>3. ASSUME store'[v] \in Specs, Stored' = Stored \cup {v},
               \A w \in VMs \ {v} : store'[w] = store[w],
               \/ v \in Stored /\ store'[v] = store[v]
               \/ JustDeleted(store'[v])
               \/ v \notin used /\ store'[v].state = "pending"
        PROVE  Retries'
    <2>1. mem # NoSpec /\ cur = v => v \in used
      BY DEF Deletion, WorkerCopy
    <2>4. Stored \subseteq VMs
      BY DEF Stored
    <2>5. CASE v \in Stored /\ store'[v] = store[v]
      BY ZenonT(30), <1>1, <1>2, <1>3, <2>4, <2>5 DEF Retries, GivenUp, BackedOff
    <2>2. ASSUME store'[v].state # "failed" PROVE GivenUp'
      BY <1>1, <1>3, <2>2, <2>4 DEF Retries, GivenUp
    <2>3. ASSUME JustDeleted(store'[v]) \/ v \notin used PROVE BackedOff'
      BY <1>1, <1>3, <2>1, <2>3, <2>4 DEF Retries, BackedOff
    <2>. QED
      BY <1>2, <1>3, <2>2, <2>3, <2>5 DEF Retries, JustDeleted
  <1>4. CASE UNCHANGED <<store, used>>
    BY <1>1, <1>2, <1>4, RetriesFrame
  <1>5. CASE CreateSave(v)
    <2>1. \E s \in SaveStamped(store[v], NewSpec) : store' = [store EXCEPT ![v] = s]
      BY Zenon, <1>5, SaveIsSaveStamped DEF CreateSave
    <2>2. v \notin used /\ v \notin Stored
      BY <1>5 DEF CreateSave, Deletion, Accounted
    <2>3. /\ store'[v] = Written(NewSpec) /\ store'[v] \in Specs /\ Stored' = Stored \cup {v}
          /\ \A w \in VMs \ {v} : store'[w] = store[w]
      BY ZenonT(30), <2>1, <2>2, NewSpecType, SaveLeaves
    <2>4. Written(NewSpec).state = "pending"
      BY Zenon, NewSpecType, WrittenFields DEF NewSpec
    <2>. QED
      BY <1>3, <2>2, <2>3, <2>4
  <1>6. CASE /\ api[v] = "save"
             /\ \E s \in SaveStamped(store[v], apiMem[v]) : store' = [store EXCEPT ![v] = s]
    <2>1. apiMem[v] \in Specs /\ JustDeleted(apiMem[v])
      BY <1>6 DEF TypeOK, ApiTypeOK, Retries, CommandsDelete
    <2>2. /\ store'[v] \in Specs /\ Stored' = Stored \cup {v}
          /\ store'[v] = Written(apiMem[v]) \/ (v \in Stored /\ store'[v] = store[v])
          /\ \A w \in VMs \ {v} : store'[w] = store[w]
      BY ZenonT(30), <1>6, <2>1, SaveLeaves
    <2>3. JustDeleted(Written(apiMem[v]))
      BY Zenon, <2>1, WrittenFields DEF JustDeleted
    <2>. QED
      BY <1>3, <2>2, <2>3
  <1>. QED
    BY <1>4, <1>5, <1>6 DEF DeleteGet, DeleteSave, CommandPublish, CommandError

\* The rest of the controller, the passing of time, the VMMs and the crash.
LEMMA RetriesController ==
  ASSUME TypeOK, Retries,
         \/ \E v \in VMs : \/ ResyncEnqueue(v) \/ HandleEvent(v)
                           \/ Elapse(v) \/ RetryPublish(v) \/ VMMExit(v)
         \/ BootResync \/ StartUp \/ Subscribe \/ Resync
         \/ Crash
  PROVE  Retries'
  <1>1. UNCHANGED <<store, used>> /\ backoff' \subseteq backoff
    BY ZenonT(30) DEF ResyncEnqueue, HandleEvent, Elapse, RetryPublish, VMMExit, BootResync,
       StartUp, Subscribe, Resync, Crash, timerVars, apiVars
  <1>2. mem' = NoSpec \/ UNCHANGED <<mem, cur, pc>>
    BY ZenonT(30) DEF ResyncEnqueue, HandleEvent, Elapse, RetryPublish, VMMExit, BootResync,
       StartUp, Subscribe, Resync, Crash, workerVars
  <1>3. CommandsDelete'
    <2>1. UNCHANGED <<api, apiMem>> \/ api' = [v \in VMs |-> "none"]
      BY ZenonT(30) DEF ResyncEnqueue, HandleEvent, Elapse, RetryPublish, VMMExit, BootResync,
         StartUp, Subscribe, Resync, Crash, apiVars
    <2>. QED
      BY <2>1 DEF Retries, CommandsDelete
  <1>. QED
    BY <1>1, <1>2, <1>3, RetriesFrame

\* Retries holds initially.
LEMMA InitRetries == Init => Retries
  BY DEF Init, Retries, CommandsDelete, GivenUp, BackedOff, Stored

\* Retries is inductive, given the types and the invariant of the deletion.
LEMMA NextRetries == TypeOK /\ Deletion /\ Retries /\ [Next]_vars => Retries'
  <1>. SUFFICES ASSUME TypeOK, Deletion, Retries, [Next]_vars PROVE Retries'
    OBVIOUS
  <1>1. CASE Worker
    <2>1. UNCHANGED apiVars /\ WorkerNext
      BY <1>1 DEF Worker
    <2>2. CASE Dequeue \/ GetNotFound \/ GetError \/ Get
      BY <2>1, <2>2, RetriesGet
    <2>3. CASE Reschedule \/ SaveState \/ SaveError
      BY <2>1, <2>3, RetriesSaves
    <2>4. CASE ~(\/ Dequeue \/ GetNotFound \/ GetError \/ Get
                 \/ Reschedule \/ SaveState \/ SaveError)
      <3>1. /\ pc \in {"plan", "react", "setpid"} /\ UNCHANGED timerVars
            /\ Return \/ Attempting
        BY ZenonT(30), <2>1, <2>4, AttemptSteps DEF WorkerNext
      <3>2. UNCHANGED store \/ Release
        BY ZenonT(30), <2>1, <2>4 DEF WorkerNext, PlanError, PlanCreate, PlanDone, Skip,
           StepError, DirCreate, DirDelete, Mount, NewIface, NewIfaceError, NoIfaceName,
           RemoveIface, CreateStart, CreateSetPid, CreateSetPidError, CreateError, Start,
           DeleteVMM, PublishDeleted
      <3>. QED
        BY <2>1, <3>1, <3>2, RetriesAttempt
    <2>. QED
      BY <2>2, <2>3, <2>4
  <1>2. CASE UNCHANGED vars
    <2>1. CommandsDelete' /\ UNCHANGED <<store, used, backoff, mem, cur, pc>>
      BY <1>2 DEF Retries, CommandsDelete, vars, apiVars, timerVars, workerVars
    <2>. QED
      BY <2>1, RetriesFrame
  <1>. QED
    BY <1>1, <1>2, RetriesCommands, RetriesController DEF Next

\* The inductive invariant holds: while a backoff runs the worker is busy with
\* the microvm only to delete it or to give it up, and it never plans for a
\* microvm that was given up.
THEOREM RetriesHold == SafeSpec => []Retries
  BY InitType, NextType, InitDeletion, NextDeletion, InitRetries, NextRetries, PTL DEF SafeSpec

\* A failed attempt is rescheduled only when the backoff of the one before has
\* passed, or, once, when a client has deleted the microvm since: however often
\* the item is queued again, by the failure itself, by the resync or by late
\* events, and however often flintlockd crashes, reconcile does not run the
\* plan before NotBefore.
THEOREM BackoffKept == SafeSpec => RetriesSpaced
  <1>1. TypeOK /\ Retries /\ [Next]_vars =>
          [\A v \in VMs : timers'[v] > timers[v] =>
             v \notin backoff \/ (mem.deleted /\ mem.retry = 0)]_vars
    <2>. SUFFICES ASSUME TypeOK, Retries, Next, NEW v \in VMs, timers'[v] > timers[v]
                  PROVE  v \notin backoff \/ (mem.deleted /\ mem.retry = 0)
      BY DEF vars, timerVars
    <2>1. timers \in [VMs -> Nat]
      BY DEF TypeOK, ControllerTypeOK
    \* Only reschedule starts a goroutine.
    <2>2. CASE Reschedule
      <3>1. cur = v
        BY <2>1, <2>2 DEF Reschedule
      <3>2. mem # NoSpec
        BY <2>2, Busy, NoSpecFresh DEF Reschedule, TypeOK
      <3>. QED
        BY <2>2, <3>1, <3>2 DEF Reschedule, Retries, BackedOff, JustDeleted
    <2>3. CASE Worker /\ ~Reschedule
      <3>1. UNCHANGED timers
        BY ZenonT(30), <2>3 DEF Worker, WorkerNext, Dequeue, GetNotFound, GetError, Get, PlanError,
           PlanCreate, PlanDone, Skip, StepError, DirCreate, DirDelete, Mount, NewIface,
           NewIfaceError, NoIfaceName, RemoveIface, CreateStart, CreateSetPid, CreateSetPidError,
           CreateError, Start, DeleteVMM, Release, PublishDeleted, SaveState, SaveError, timerVars
      <3>. QED
        BY <2>1, <3>1
    <2>4. CASE \E w \in VMs : RetryPublish(w)
      BY <2>1, <2>4 DEF RetryPublish
    <2>5. CASE Crash
      BY <2>1, <2>5 DEF Crash
    <2>6. CASE \/ \E w \in VMs : \/ CreateSave(w) \/ DeleteGet(w) \/ DeleteSave(w)
                                 \/ CommandPublish(w) \/ CommandError(w)
                                 \/ ResyncEnqueue(w) \/ HandleEvent(w)
                                 \/ Elapse(w) \/ VMMExit(w)
               \/ BootResync \/ StartUp \/ Subscribe \/ Resync
      <3>1. UNCHANGED timers
        BY ZenonT(30), <2>6 DEF CreateSave, DeleteGet, DeleteSave, CommandPublish, CommandError,
           ResyncEnqueue, HandleEvent, Elapse, VMMExit, BootResync, StartUp, Subscribe, Resync,
           timerVars
      <3>. QED
        BY <2>1, <3>1
    <2>. QED
      BY <2>2, <2>3, <2>4, <2>5, <2>6 DEF Next
  <1>. QED
    BY <1>1, TypeCorrect, RetriesHold, PTL DEF SafeSpec, RetriesSpaced

\* A microvm that was given up is saved again only as failed or as deleted, and
\* its spec does not disappear: neither an attempt that is still under way nor a
\* late save revives it, and its lease is not released before a client asks.
THEOREM GivenUpForGood == SafeSpec => FailedIsFinal
  <1>1. TypeOK /\ Deletion /\ Retries /\ [Next]_vars =>
          [\A v \in VMs : (store[v] # NoSpec /\ store[v].state = "failed") =>
             (store'[v] # NoSpec /\ (store'[v].state = "failed" \/ store'[v].deleted))]_vars
    <2>. SUFFICES ASSUME TypeOK, Deletion, Retries, Next,
                         NEW v \in VMs, store[v] # NoSpec, store[v].state = "failed"
                  PROVE  store'[v] # NoSpec /\ (store'[v].state = "failed" \/ store'[v].deleted)
      BY ZenonT(30) DEF vars
    <2>1. v \in Stored /\ v \in used /\ store \in [VMs -> Specs \cup {NoSpec}]
      BY DEF Stored, Deletion, Accounted, TypeOK, StoreTypeOK
    <2>2. CASE UNCHANGED store
      BY <2>2
    <2>3. CASE pc \in {"reschedule", "created", "failed"} /\
               \E s \in SaveStamped(store[cur], Outcome) : store' = [store EXCEPT ![cur] = s]
      <3>1. cur \in VMs /\ mem \in Specs /\ mem # NoSpec
        BY <2>3, Busy, NoSpecFresh DEF TypeOK
      <3>2. CASE cur # v
        BY <2>1, <2>3, <3>1, <3>2
      <3>3. CASE cur = v
        <4>1. pc = "failed"
          BY <2>1, <3>1, <3>3 DEF Retries, GivenUp
        <4>2. /\ Outcome \in Specs /\ Outcome.deleted = mem.deleted
              /\ Outcome.deleted \/ Outcome.state = "failed"
          BY Zenon, <4>1, OutcomeFields DEF TypeOK
        <4>3. store'[v] \in Specs /\ (store'[v] = Written(Outcome) \/ store'[v] = store[v])
          BY ZenonT(30), <2>3, <3>1, <3>3, <4>2, SaveLeaves
        <4>4. Written(Outcome).deleted \/ Written(Outcome).state = "failed"
          BY Zenon, <4>2, WrittenFields
        <4>. QED
          BY <4>3, <4>4, NoSpecFresh
      <3>. QED
        BY <3>2, <3>3
    <2>4. CASE Release
      <3>1. pc = "react" /\ mem # NoSpec
        BY <2>4, Busy, NoSpecFresh DEF Release, AtStep, TypeOK
      <3>2. cur # v
        BY <2>1, <3>1 DEF Retries, GivenUp
      <3>. QED
        BY <2>1, <2>4, <3>2 DEF Release
    <2>5. ASSUME NEW w \in VMs, CreateSave(w)
          PROVE  store'[v] # NoSpec /\ (store'[v].state = "failed" \/ store'[v].deleted)
      <3>1. w # v
        BY <2>1, <2>5 DEF CreateSave
      <3>. QED
        BY <2>1, <2>5, <3>1 DEF CreateSave
    <2>6. ASSUME NEW w \in VMs, api[w] = "save",
                 \E s \in SaveStamped(store[w], apiMem[w]) : store' = [store EXCEPT ![w] = s]
          PROVE  store'[v] # NoSpec /\ (store'[v].state = "failed" \/ store'[v].deleted)
      <3>1. apiMem[w] \in Specs /\ JustDeleted(apiMem[w])
        BY <2>6 DEF TypeOK, ApiTypeOK, Retries, CommandsDelete
      <3>2. /\ store'[w] \in Specs /\ (store'[w] = Written(apiMem[w]) \/ store'[w] = store[w])
            /\ \A u \in VMs \ {w} : store'[u] = store[u]
        BY ZenonT(30), <2>6, <3>1, SaveLeaves
      <3>3. Written(apiMem[w]).deleted
        BY Zenon, <3>1, WrittenFields DEF JustDeleted
      <3>. QED
        BY <3>2, <3>3, NoSpecFresh
    <2>7. CASE Worker
      <3>1. \/ UNCHANGED store \/ Release
            \/ /\ pc \in {"reschedule", "created", "failed"}
               /\ \E s \in SaveStamped(store[cur], Outcome) : store' = [store EXCEPT ![cur] = s]
        <4>1. CASE Reschedule \/ SaveState \/ SaveError
          BY <4>1, SaveIsSaveStamped DEF Reschedule, SaveState, SaveError
        <4>2. CASE ~(Reschedule \/ SaveState \/ SaveError)
          BY ZenonT(30), <2>7, <4>2 DEF Worker, WorkerNext, Dequeue, GetNotFound, GetError, Get,
             PlanError, PlanCreate, PlanDone, Skip, StepError, DirCreate, DirDelete, Mount,
             NewIface, NewIfaceError, NoIfaceName, RemoveIface, CreateStart, CreateSetPid,
             CreateSetPidError, CreateError, Start, DeleteVMM, PublishDeleted
        <4>. QED
          BY <4>1, <4>2
      <3>. QED
        BY <2>2, <2>3, <2>4, <3>1
    <2>8. ASSUME NEW w \in VMs, DeleteGet(w) \/ DeleteSave(w) \/ CommandPublish(w) \/ CommandError(w)
          PROVE  store'[v] # NoSpec /\ (store'[v].state = "failed" \/ store'[v].deleted)
      BY ZenonT(30), <2>2, <2>6, <2>8 DEF DeleteGet, DeleteSave, CommandPublish, CommandError
    <2>9. CASE \/ \E w \in VMs : \/ ResyncEnqueue(w) \/ HandleEvent(w)
                                 \/ Elapse(w) \/ RetryPublish(w) \/ VMMExit(w)
               \/ BootResync \/ StartUp \/ Subscribe \/ Resync \/ Crash
      <3>1. UNCHANGED store
        BY ZenonT(30), <2>9 DEF ResyncEnqueue, HandleEvent, Elapse, RetryPublish, VMMExit,
           BootResync, StartUp, Subscribe, Resync, Crash
      <3>. QED
        BY <2>2, <3>1
    <2>. QED
      BY <2>5, <2>7, <2>8, <2>9 DEF Next
  <1>. QED
    BY <1>1, TypeCorrect, DeletionHolds, RetriesHold, PTL DEF SafeSpec, FailedIsFinal

=============================================================================
