---------------------------- MODULE MirrorProofs ----------------------------
(* Theorems about Mirror for every value of its constants. *)
EXTENDS Mirror, TLAPS

\* The records the actions build.
LEMMA RecordTypes ==
    /\ IdleSync \in Sync
    /\ BlankMirror \in MirrorRow
    /\ NoRunRow \in RunRow
    /\ IdleSched \in [pc : {"idle", "due", "dispatch"}, todo : SUBSET Repos,
                      age : 0 .. SyncTimeout]
BY MirrorAssumption
   DEF IdleSync, Sync, BlankMirror, MirrorRow, NoRunRow, RunRow, IdleSched,
       Directions, Triggers, Pcs

\* Leaving keeps the types of goroutines and mutexes.
LEMMA LeaveType ==
    ASSUME TypeOK, NEW s \in Syncs, NEW failed \in BOOLEAN, Leave(s, failed)
    PROVE  /\ sync' \in [Syncs -> Sync]
           /\ lock' \in [Repos -> Syncs \cup {None}]
<1>1. sync' \in [Syncs -> Sync]
  <2>1. sync[s] \in Sync
    BY DEF TypeOK
  <2>2. [sync[s] EXCEPT !.pc = "rollback", !.run = None] \in Sync
    BY <2>1 DEF Sync, Pcs
  <2>3. QED BY <2>2, RecordTypes DEF TypeOK, Leave
<1>2. lock' \in [Repos -> Syncs \cup {None}]
  BY DEF TypeOK, Leave, Unlock
<1>3. QED BY <1>1, <1>2

\* An upsert keeps the types of the mirror rows.
LEMMA UpsertType ==
    ASSUME TypeOK, NEW r \in Repos, NEW q \in Requests, Upsert(r, q)
    PROVE  configured' \subseteq Repos /\ mirror' \in [Repos -> MirrorRow]
<1>1. q \in Request
  BY MirrorAssumption
<1>2. UpsertedRow(r, q) \in MirrorRow
  BY <1>1, RecordTypes DEF UpsertedRow, TypeOK, MirrorRow, Request
<1>3. QED BY <1>2 DEF TypeOK, Upsert

LEMMA DropRepoType ==
    ASSUME TypeOK, NEW r, DropRepo(r)
    PROVE  /\ repos' \subseteq Repos /\ configured' \subseteq Repos
           /\ mirror' \in [Repos -> MirrorRow] /\ runs' \in [RunIds -> RunRow]
BY RecordTypes DEF TypeOK, DropRepo

LEMMA SpawnType ==
    ASSUME TypeOK, NEW s \in Syncs, NEW r \in Repos, NEW trigger \in Triggers,
           NEW pc \in Pcs, NEW age \in 0 .. SyncTimeout,
           Spawn(s, r, trigger, pc, age)
    PROVE  sync' \in [Syncs -> Sync]
<1>1. [IdleSync EXCEPT !.pc = pc, !.repo = r, !.trigger = trigger, !.age = age] \in Sync
  BY RecordTypes DEF IdleSync, Sync
<1>2. QED BY <1>1 DEF TypeOK, Spawn

\* Changing fields of the records of goroutines, runs and mirrors within their
\* types keeps the record in its type.
LEMMA SyncFields ==
    ASSUME NEW x \in Sync
    PROVE  /\ \A pc \in Pcs : [x EXCEPT !.pc = pc] \in Sync
           /\ \A pc \in Pcs, i \in RunIds : [x EXCEPT !.pc = pc, !.run = i] \in Sync
           /\ \A pc \in Pcs, ok \in BOOLEAN : [x EXCEPT !.pc = pc, !.ok = ok] \in Sync
           /\ [x EXCEPT !.gone = TRUE] \in Sync
           /\ x.age < SyncTimeout => [x EXCEPT !.age = x.age + 1] \in Sync
<1>1. SyncTimeout \in Nat
  BY MirrorAssumption
<1>2. ASSUME NEW pc \in Pcs PROVE [x EXCEPT !.pc = pc] \in Sync
  BY DEF Sync
<1>3. ASSUME NEW pc \in Pcs, NEW i \in RunIds
      PROVE  [x EXCEPT !.pc = pc, !.run = i] \in Sync
  BY DEF Sync
<1>4. ASSUME NEW pc \in Pcs, NEW ok \in BOOLEAN
      PROVE  [x EXCEPT !.pc = pc, !.ok = ok] \in Sync
  BY DEF Sync
<1>5. [x EXCEPT !.gone = TRUE] \in Sync
  BY DEF Sync
<1>6. ASSUME x.age < SyncTimeout PROVE [x EXCEPT !.age = x.age + 1] \in Sync
  <2>1. x.age + 1 \in 0 .. SyncTimeout
    BY <1>1, <1>6 DEF Sync
  <2>2. QED BY <2>1 DEF Sync
<1>7. QED BY <1>2, <1>3, <1>4, <1>5, <1>6

LEMMA RunFields ==
    ASSUME NEW x \in RunRow
    PROVE  /\ \A st \in {"success", "failed"} : [x EXCEPT !.status = st, !.age = 0] \in RunRow
           /\ x.newer < HistoryLimit => [x EXCEPT !.newer = x.newer + 1] \in RunRow
           /\ x.age < AgeCap => [x EXCEPT !.age = x.age + 1] \in RunRow
<1>1. AgeCap \in Nat /\ HistoryLimit \in Nat
  BY MirrorAssumption
<1>2. ASSUME NEW st \in {"success", "failed"}
      PROVE  [x EXCEPT !.status = st, !.age = 0] \in RunRow
  <2>1. 0 \in 0 .. AgeCap
    BY <1>1
  <2>2. QED BY <2>1 DEF RunRow
<1>3. ASSUME x.newer < HistoryLimit PROVE [x EXCEPT !.newer = x.newer + 1] \in RunRow
  <2>1. x.newer + 1 \in 0 .. HistoryLimit
    BY <1>1, <1>3 DEF RunRow
  <2>2. QED BY <2>1 DEF RunRow
<1>4. ASSUME x.age < AgeCap PROVE [x EXCEPT !.age = x.age + 1] \in RunRow
  <2>1. x.age + 1 \in 0 .. AgeCap
    BY <1>1, <1>4 DEF RunRow
  <2>2. QED BY <2>1 DEF RunRow
<1>5. QED BY <1>2, <1>3, <1>4

LEMMA MirrorFields ==
    ASSUME NEW x \in MirrorRow
    PROVE  /\ \A st \in {"running", "failed"} : [x EXCEPT !.status = st] \in MirrorRow
           /\ \A st \in {"success", "failed"} :
                 [x EXCEPT !.status = st, !.wait = x.interval] \in MirrorRow
           /\ x.wait > 0 => [x EXCEPT !.wait = x.wait - 1] \in MirrorRow
<1>1. ASSUME NEW st \in {"running", "failed"} PROVE [x EXCEPT !.status = st] \in MirrorRow
  BY DEF MirrorRow
<1>2. ASSUME NEW st \in {"success", "failed"}
      PROVE  [x EXCEPT !.status = st, !.wait = x.interval] \in MirrorRow
  BY DEF MirrorRow
<1>3. ASSUME x.wait > 0 PROVE [x EXCEPT !.wait = x.wait - 1] \in MirrorRow
  <2>1. x.wait - 1 \in Nat
    BY <1>3 DEF MirrorRow
  <2>2. QED BY <2>1 DEF MirrorRow
<1>4. QED BY <1>1, <1>2, <1>3

\* The goroutine variable keeps its type when one goroutine moves on.
LEMMA MoveType ==
    ASSUME TypeOK, NEW s \in Syncs, NEW pc \in Pcs,
           sync' = [sync EXCEPT ![s].pc = pc]
    PROVE  sync' \in [Syncs -> Sync]
<1>1. sync[s] \in Sync
  BY DEF TypeOK
<1>2. sync' = [sync EXCEPT ![s] = [sync[s] EXCEPT !.pc = pc]]
  OBVIOUS
<1>3. [sync[s] EXCEPT !.pc = pc] \in Sync
  BY <1>1, SyncFields
<1>4. QED BY <1>2, <1>3 DEF TypeOK

LEMMA UserType ==
    ASSUME TypeOK, UserNext
    PROVE  TypeOK'
<1>1. CASE \E r \in Repos : Remove(r)
  BY <1>1, RecordTypes DEF Remove, TypeOK
<1>2. CASE \E r \in Repos : DeleteRepo(r)
  BY <1>2, DropRepoType DEF DeleteRepo, TypeOK
<1>3. CASE \E r \in Repos, q \in Requests : Configure(r, q)
  BY <1>3, UpsertType DEF Configure, TypeOK
<1>4. ASSUME NEW s \in Handlers, NEW r \in Repos,
             RequestSync(s, r) \/ AutoPush(s, r) \/ CreateMirrorRepo(s, r)
      PROVE  TypeOK'
  <2>1. s \in Syncs /\ 0 \in 0 .. SyncTimeout
    BY MirrorAssumption DEF Syncs
  <2>2. sync' \in [Syncs -> Sync]
    BY <1>4, <2>1, SpawnType DEF RequestSync, AutoPush, CreateMirrorRepo, Triggers, Pcs
  <2>3. repos' \subseteq Repos
    BY <1>4 DEF TypeOK, RequestSync, AutoPush, CreateMirrorRepo
  <2>4. QED BY <1>4, <2>2, <2>3 DEF TypeOK, RequestSync, AutoPush, CreateMirrorRepo
<1>5. ASSUME NEW s \in Handlers, Disconnect(s)
      PROVE  TypeOK'
  <2>1. sync[s] \in Sync /\ s \in Syncs
    BY DEF TypeOK, Syncs
  <2>2. sync' = [sync EXCEPT ![s] = [sync[s] EXCEPT !.gone = TRUE]]
    BY <1>5 DEF Disconnect
  <2>3. sync' \in [Syncs -> Sync]
    BY <2>1, <2>2, SyncFields DEF TypeOK
  <2>4. QED BY <1>5, <2>3 DEF TypeOK, Disconnect
<1>6. QED BY <1>1, <1>2, <1>3, <1>4, <1>5 DEF UserNext

LEMMA SyncType ==
    ASSUME TypeOK, NEW s \in Syncs, SyncNext(s)
    PROVE  TypeOK'
<1>0. sync[s] \in Sync
  BY DEF TypeOK
<1>1. CASE CreateConfigure(s)
  <2>1. CASE Leave(s, TRUE) /\ UNCHANGED <<configured, mirror>>
    BY <1>1, <2>1, LeaveType DEF CreateConfigure, TypeOK
  <2>2. CASE ~(Expired(s) \/ sync[s].repo \notin repos)
    <3>1. configured' \subseteq Repos /\ mirror' \in [Repos -> MirrorRow]
      BY <1>1, <2>2, UpsertType DEF CreateConfigure, TypeOK
    <3>2. sync' \in [Syncs -> Sync]
      BY <1>1, <2>2, MoveType DEF CreateConfigure, Pcs
    <3>3. QED BY <1>1, <2>2, <3>1, <3>2 DEF CreateConfigure, TypeOK
  <2>3. QED BY <1>1, <2>1, <2>2 DEF CreateConfigure
<1>2. CASE Rollback(s)
  BY <1>2, LeaveType, DropRepoType DEF Rollback, TypeOK
<1>3. CASE Acquire(s)
  <2>1. sync' \in [Syncs -> Sync]
    BY <1>3, MoveType DEF Acquire, Pcs
  <2>2. lock' \in [Repos -> Syncs \cup {None}]
    BY <1>3 DEF Acquire, TypeOK
  <2>3. QED BY <1>3, <2>1, <2>2 DEF Acquire, TypeOK
<1>4. CASE GiveUp(s)
  BY <1>4, LeaveType DEF GiveUp, TypeOK
<1>5. CASE StartRun(s)
  <2>1. CASE Leave(s, TRUE) /\ UNCHANGED <<runs, mirror>>
    BY <1>5, <2>1, LeaveType DEF StartRun, TypeOK
  <2>2. CASE ~(Expired(s) \/ sync[s].repo \notin repos)
    <3>1. NewRun \in RunIds
      BY <1>5, <2>2 DEF StartRun, NewRun, FreshRuns
    <3>2. mirror' \in [Repos -> MirrorRow]
      <4>1. CASE sync[s].repo \in configured
        <5>1. mirror[sync[s].repo] \in MirrorRow
          BY <4>1 DEF TypeOK
        <5>2. QED BY <1>5, <2>2, <4>1, <5>1, MirrorFields DEF StartRun, TypeOK
      <4>2. CASE sync[s].repo \notin configured
        BY <1>5, <2>2, <4>2 DEF StartRun, TypeOK
      <4>3. QED BY <4>1, <4>2
    <3>3. sync' \in [Syncs -> Sync]
      <4>1. sync' = [sync EXCEPT ![s] = [sync[s] EXCEPT !.pc = "running", !.run = NewRun]]
        BY <1>5, <2>2 DEF StartRun
      <4>2. [sync[s] EXCEPT !.pc = "running", !.run = NewRun] \in Sync
        BY <1>0, <3>1, SyncFields DEF Pcs
      <4>3. QED BY <4>1, <4>2 DEF TypeOK
    <3>4. runs' \in [RunIds -> RunRow]
      <4>1. [status |-> "running", repo |-> sync[s].repo, age |-> 0, newer |-> 0] \in RunRow
        BY <1>0, MirrorAssumption DEF Sync, RunRow
      <4>2. \A j \in RunIds : runs[j] \in RunRow
        BY DEF TypeOK
      <4>3. ASSUME NEW j \in RunIds, runs[j].newer < HistoryLimit
            PROVE  [runs[j] EXCEPT !.newer = @ + 1] \in RunRow
        BY <4>2, <4>3, RunFields
      <4>4. runs' = [j \in RunIds |->
               IF j = NewRun THEN [status |-> "running", repo |-> sync[s].repo,
                                   age |-> 0, newer |-> 0]
               ELSE IF j \in RunsOf(sync[s].repo) /\ runs[j].newer < HistoryLimit
                    THEN [runs[j] EXCEPT !.newer = @ + 1]
                    ELSE runs[j]]
        BY <1>5, <2>2 DEF StartRun
      <4>5. QED BY <4>1, <4>2, <4>3, <4>4
    <3>5. QED BY <1>5, <2>2, <3>2, <3>3, <3>4 DEF StartRun, TypeOK
  <2>3. QED BY <1>5, <2>1, <2>2 DEF StartRun
<1>6. CASE Transfer(s)
  <2>1. sync' \in [Syncs -> Sync]
    <3>1. PICK ok \in BOOLEAN : sync' = [sync EXCEPT ![s].pc = "finish", ![s].ok = ok]
      BY <1>6 DEF Transfer
    <3>2. sync' = [sync EXCEPT ![s] = [sync[s] EXCEPT !.pc = "finish", !.ok = ok]]
      BY <3>1
    <3>3. [sync[s] EXCEPT !.pc = "finish", !.ok = ok] \in Sync
      BY <1>0, SyncFields DEF Pcs
    <3>4. QED BY <3>2, <3>3 DEF TypeOK
  <2>2. QED BY <1>6, <2>1 DEF Transfer, TypeOK
<1>7. CASE FinishRun(s)
  <2>1. sync' \in [Syncs -> Sync]
    BY <1>7, MoveType DEF FinishRun, Pcs
  <2>2. runs' \in [RunIds -> RunRow]
    <3> DEFINE i == sync[s].run
    <3>1. CASE runs' = runs
      BY <3>1 DEF TypeOK
    <3>2. CASE i \notin RunIds /\ runs' = [runs EXCEPT ![i].status = Outcome(s), ![i].age = 0]
      BY <3>2 DEF TypeOK
    <3>3. CASE i \in RunIds /\ runs' = [runs EXCEPT ![i].status = Outcome(s), ![i].age = 0]
      <4>1. runs' = [runs EXCEPT ![i] = [runs[i] EXCEPT !.status = Outcome(s), !.age = 0]]
        BY <3>3
      <4>2. runs[i] \in RunRow /\ Outcome(s) \in {"success", "failed"}
        BY <3>3 DEF TypeOK, Outcome
      <4>3. QED BY <4>1, <4>2, RunFields DEF TypeOK
    <3>4. QED BY <1>7, <3>1, <3>2, <3>3 DEF FinishRun
  <2>3. QED BY <1>7, <2>1, <2>2 DEF FinishRun, TypeOK
<1>8. CASE PublishResult(s)
  <2>1. sync' \in [Syncs -> Sync]
    BY <1>8, MoveType DEF PublishResult, Pcs
  <2>2. mirror' \in [Repos -> MirrorRow]
    <3>1. CASE sync[s].repo \in configured
      <4>1. mirror[sync[s].repo] \in MirrorRow
        BY <3>1 DEF TypeOK
      <4>2. PublishedRow(s, mirror[sync[s].repo]) \in MirrorRow
        BY <4>1, MirrorFields DEF PublishedRow, Outcome
      <4>3. QED BY <1>8, <3>1, <4>2 DEF PublishResult, TypeOK
    <3>2. CASE sync[s].repo \notin configured
      BY <1>8, <3>2 DEF PublishResult, TypeOK
    <3>3. QED BY <3>1, <3>2
  <2>3. QED BY <1>8, <2>1, <2>2 DEF PublishResult, TypeOK
<1>9. CASE PruneRuns(s)
  <2>1. runs' \in [RunIds -> RunRow]
    BY <1>9, RecordTypes DEF PruneRuns, TypeOK
  <2>2. QED BY <1>9, <2>1, LeaveType, <1>0 DEF PruneRuns, TypeOK, Sync
<1>10. QED BY <1>1, <1>2, <1>3, <1>4, <1>5, <1>6, <1>7, <1>8, <1>9 DEF SyncNext, Lock, Statement

LEMMA WorkerType ==
    ASSUME TypeOK, WorkerNext
    PROVE  TypeOK'
<1>1. CASE Reap
  <2>1. runs' \in [RunIds -> RunRow]
    BY <1>1, RunFields DEF Reap, TypeOK
  <2>2. mirror' \in [Repos -> MirrorRow]
    BY <1>1, MirrorFields DEF Reap, TypeOK
  <2>3. QED BY <1>1, <2>1, <2>2 DEF Reap, TypeOK
<1>2. CASE QueryDue
  <2>1. Due \subseteq Repos
    BY DEF Due, TypeOK
  <2>2. PICK batch \in IF Cardinality(Due) <= DueLimit THEN {Due}
                       ELSE kSubset(DueLimit, Due) :
           sched' = IF batch = {} THEN IdleSched
                    ELSE [sched EXCEPT !.pc = "dispatch", !.todo = batch]
    BY <1>2 DEF QueryDue
  <2>3. batch \subseteq Repos
    BY <2>1, <2>2 DEF kSubset
  <2>4. QED BY <1>2, <2>2, <2>3, RecordTypes DEF QueryDue, TypeOK
<1>3. CASE EndTick
  BY <1>3, RecordTypes DEF EndTick, TypeOK
<1>4. ASSUME NEW s \in Slots, NEW r \in Repos, Dispatch(s, r)
      PROVE  TypeOK'
  <2>1. sched.age \in 0 .. SyncTimeout /\ s \in Syncs
    BY DEF TypeOK, Syncs
  <2>2. sync' \in [Syncs -> Sync]
    BY <1>4, <2>1, SpawnType DEF Dispatch, Triggers, Pcs
  <2>3. QED BY <1>4, <2>2 DEF Dispatch, TypeOK
<1>5. QED BY <1>1, <1>2, <1>3, <1>4 DEF WorkerNext

LEMMA TickType ==
    ASSUME TypeOK, Tick
    PROVE  TypeOK'
<1>1. runs' \in [RunIds -> RunRow]
  BY RunFields DEF Tick, TypeOK
<1>2. mirror' \in [Repos -> MirrorRow]
  BY MirrorFields DEF Tick, TypeOK
<1>3. sync' \in [Syncs -> Sync]
  BY SyncFields DEF Tick, TypeOK, Older
<1>4. sched' \in [pc : {"idle", "due", "dispatch"}, todo : SUBSET Repos,
                  age : 0 .. SyncTimeout]
  <2>1. CASE sched.age < SyncTimeout
    <3>1. sched.age + 1 \in 0 .. SyncTimeout
      BY <2>1, MirrorAssumption DEF TypeOK
    <3>2. QED BY <3>1 DEF Tick, TypeOK
  <2>2. QED BY <2>1 DEF Tick, TypeOK
<1>5. QED BY <1>1, <1>2, <1>3, <1>4 DEF Tick, TypeOK

LEMMA FaultType ==
    ASSUME TypeOK, FaultNext
    PROVE  TypeOK'
<1>1. faults' \in 0 .. MaxFaults
  BY MirrorAssumption DEF FaultNext, Crash, WorkerQueryFails, StatementFails, TypeOK
<1>2. CASE Crash
  BY <1>1, <1>2, RecordTypes DEF Crash, TypeOK
<1>3. CASE WorkerQueryFails
  BY <1>1, <1>3 DEF WorkerQueryFails, TypeOK
<1>4. ASSUME NEW s \in Syncs, StatementFails(s)
      PROVE  TypeOK'
  <2>1. (sync[s].pc = "prune" => ~sync[s].ok) \in BOOLEAN
    OBVIOUS
  <2>2. sync' \in [Syncs -> Sync] /\ lock' \in [Repos -> Syncs \cup {None}]
    BY <1>4, <2>1, LeaveType DEF StatementFails
  <2>3. QED BY <1>1, <1>4, <2>2 DEF StatementFails, TypeOK
<1>5. QED BY <1>2, <1>3, <1>4 DEF FaultNext

LEMMA InitType == Init => TypeOK
<1>1. SUFFICES ASSUME Init PROVE TypeOK
  OBVIOUS
<1>2. faults \in 0 .. MaxFaults
  BY <1>1, MirrorAssumption DEF Init
<1>3. QED BY <1>1, <1>2, RecordTypes DEF Init, TypeOK

LEMMA StepType ==
    ASSUME TypeOK, [Next]_vars
    PROVE  TypeOK'
<1>1. CASE UNCHANGED vars
  BY <1>1 DEF TypeOK, vars
<1>2. CASE Next
  BY <1>2, UserType, SyncType, WorkerType, TickType, FaultType DEF Next
<1>3. QED BY <1>1, <1>2

\* The tables, the mutexes, the goroutines and the worker keep their types for
\* every number of repositories, goroutines and runs.
THEOREM TypeCorrect == Spec => []TypeOK
BY InitType, StepType, PTL DEF Spec
=============================================================================
