------------------------- MODULE MirrorSafetyProofs -------------------------
(***************************************************************************)
(* The safety properties of Mirror for every value of its constants, and   *)
(* that it implements MirrorSerial.  LockInv ties the mutexes to the       *)
(* goroutines inside, RunInv and HistoryInv the goroutines to the run rows *)
(* they have started; ShowInv and WaitInv say what holds of the mirror     *)
(* rows until the first fault, LeadInv what holds of them after it too.    *)
(***************************************************************************)
EXTENDS MirrorProofs

\* A mutex is held exactly by the goroutine that is between Lock and Unlock.
LockInv ==
    /\ \A s \in Syncs : sync[s].pc \in Holding
            => sync[s].repo \in Repos /\ lock[sync[s].repo] = s
    /\ \A r \in Repos : lock[r] # None
            => sync[lock[r]].pc \in Holding /\ sync[lock[r]].repo = r

\* Between inserting its run row and finishing it.
InFlight == {"running", "finish"}

\* The row of a run in flight is not a success yet, and that of a timed sync is
\* running and not older than the sync.
Tracked(s) ==
    /\ sync[s].run \in RunIds => sync[s].pc \in InFlight \cup {"publish", "prune"}
    /\ sync[s].pc \in InFlight =>
          /\ sync[s].run \in RunIds
          /\ runs[sync[s].run].status # "success"
          /\ Timed(s) => \/ runs[sync[s].run].status = "none"
                         \/ /\ runs[sync[s].run].status = "running"
                            /\ runs[sync[s].run].age <= sync[s].age

RunInv ==
    /\ \A s \in Syncs : Tracked(s)
    /\ \A s, t \in Syncs : sync[s].run = sync[t].run /\ sync[s].run # None => s = t
-----------------------------------------------------------------------------
(* The mutexes *)

LEMMA LockInit == Init => LockInv
BY DEF Init, LockInv, Holding, IdleSync

\* A goroutine that returns is outside, and gives back the mutex it held.
LEMMA LeaveLock ==
    ASSUME TypeOK, LockInv, NEW s \in Syncs, NEW failed, Leave(s, failed)
    PROVE  LockInv'
<1>1. sync'[s].pc \notin Holding /\ \A t \in Syncs \ {s} : sync'[t] = sync[t]
  BY DEF Leave, TypeOK, Sync, IdleSync, Holding
<1>2. \A r \in Repos : /\ lock'[r] # s
                       /\ lock[r] # s => lock'[r] = lock[r]
                       /\ lock'[r] # None => lock'[r] = lock[r]
  BY MirrorAssumption DEF Leave, Unlock, TypeOK, LockInv
<1>3. \A t \in Syncs : sync'[t].pc \in Holding
            => sync'[t].repo \in Repos /\ lock'[sync'[t].repo] = t
  BY <1>1, <1>2 DEF LockInv
<1>4. \A r \in Repos : lock'[r] # None
            => sync'[lock'[r]].pc \in Holding /\ sync'[lock'[r]].repo = r
  BY <1>1, <1>2 DEF LockInv, TypeOK
<1>5. QED BY <1>3, <1>4 DEF LockInv

\* A goroutine that moves on without the mutex changing hands.
LEMMA MoveLock ==
    ASSUME TypeOK, LockInv, UNCHANGED lock,
           \A t \in Syncs : /\ sync'[t].pc \in Holding <=> sync[t].pc \in Holding
                            /\ sync[t].pc \in Holding => sync'[t].repo = sync[t].repo
    PROVE  LockInv'
<1>1. \A r \in Repos : lock[r] # None => lock[r] \in Syncs
  BY DEF TypeOK
<1>2. QED BY <1>1 DEF LockInv

LEMMA SpawnLock ==
    ASSUME TypeOK, LockInv, NEW s \in Syncs, NEW r, NEW trigger,
           NEW pc \in {"waiting", "configuring"}, NEW age,
           Spawn(s, r, trigger, pc, age), UNCHANGED lock
    PROVE  LockInv'
<1>1. sync'[s].pc = pc /\ sync[s].pc = "idle" /\ \A t \in Syncs \ {s} : sync'[t] = sync[t]
  BY DEF Spawn, TypeOK, Sync, IdleSync
<1>2. QED BY <1>1, MoveLock DEF Holding

LEMMA SyncLock ==
    ASSUME TypeOK, LockInv, NEW s \in Syncs, SyncNext(s)
    PROVE  LockInv'
<1>1. CASE \E failed \in BOOLEAN : Leave(s, failed)
  BY <1>1, LeaveLock
<1>2. CASE Acquire(s)
  <2> DEFINE r == sync[s].repo
  <2>1. r \in Repos /\ lock[r] = None
    BY <1>2 DEF Acquire, CanLock, TypeOK
  <2>2. lock' = [lock EXCEPT ![r] = s]
    BY <1>2 DEF Acquire
  <2>3. /\ sync'[s].pc \in Holding
        /\ sync'[s].repo = r
        /\ \A t \in Syncs \ {s} : sync'[t] = sync[t]
    BY <1>2 DEF Acquire, TypeOK, Sync, Holding
  <2>4. \A t \in Syncs : sync'[t].pc \in Holding
            => sync'[t].repo \in Repos /\ lock'[sync'[t].repo] = t
    BY <2>1, <2>2, <2>3, MirrorAssumption DEF LockInv, TypeOK
  <2>5. \A q \in Repos : lock'[q] # None
            => sync'[lock'[q]].pc \in Holding /\ sync'[lock'[q]].repo = q
    <3>1. CASE sync[s].pc = "waiting"
      BY <2>1, <2>2, <2>3, <3>1 DEF LockInv, TypeOK, Holding
    <3>2. QED BY <1>2, <3>1 DEF Acquire, CanLock
  <2>6. QED BY <2>4, <2>5 DEF LockInv
<1>3. CASE /\ UNCHANGED lock
           /\ \A t \in Syncs : /\ sync'[t].pc \in Holding <=> sync[t].pc \in Holding
                               /\ sync[t].pc \in Holding => sync'[t].repo = sync[t].repo
  BY <1>3, MoveLock
<1>4. CASE CreateConfigure(s)
  <2>1. CASE Leave(s, TRUE)
    BY <1>1, <2>1
  <2>2. CASE ~(Expired(s) \/ sync[s].repo \notin repos)
    <3>1. /\ UNCHANGED lock /\ sync[s].pc = "configuring"
          /\ sync' = [sync EXCEPT ![s].pc = "waiting"]
      BY <1>4, <2>2 DEF CreateConfigure
    <3>2. QED BY <1>3, <3>1 DEF Holding, TypeOK, Sync
  <2>3. QED BY <1>4, <2>1, <2>2 DEF CreateConfigure
<1>5. CASE Rollback(s) \/ GiveUp(s) \/ PruneRuns(s)
  <2>1. (~sync[s].ok) \in BOOLEAN
    OBVIOUS
  <2>2. QED BY <1>1, <1>5, <2>1 DEF Rollback, GiveUp, PruneRuns
<1>6. CASE StartRun(s)
  <2>1. CASE Leave(s, TRUE)
    BY <1>1, <2>1
  <2>2. CASE ~(Expired(s) \/ sync[s].repo \notin repos)
    <3>1. /\ UNCHANGED lock /\ sync[s].pc = "loaded"
          /\ sync' = [sync EXCEPT ![s].pc = "running", ![s].run = NewRun]
      BY <1>6, <2>2 DEF StartRun
    <3>2. QED BY <1>3, <3>1 DEF Holding, TypeOK, Sync
  <2>3. QED BY <1>6, <2>1, <2>2 DEF StartRun
<1>7. CASE Transfer(s) \/ FinishRun(s) \/ PublishResult(s)
  BY <1>3, <1>7 DEF Transfer, FinishRun, PublishResult, Holding, TypeOK, Sync
<1>8. QED BY <1>2, <1>4, <1>5, <1>6, <1>7 DEF SyncNext, Lock, Statement

LEMMA StepLock ==
    ASSUME TypeOK, LockInv, [Next]_vars
    PROVE  LockInv'
<1>1. CASE UNCHANGED vars
  BY <1>1 DEF LockInv, vars
<1>2. CASE UserNext
  <2>1. ASSUME NEW s \in Handlers, NEW r \in Repos,
               RequestSync(s, r) \/ AutoPush(s, r) \/ CreateMirrorRepo(s, r)
        PROVE  LockInv'
    <3>1. s \in Syncs
      BY DEF Syncs
    <3>2. QED BY <2>1, <3>1, SpawnLock DEF RequestSync, AutoPush, CreateMirrorRepo
  <2>2. ASSUME NEW s \in Handlers, Disconnect(s)
        PROVE  LockInv'
    <3>1. \A t \in Syncs : sync'[t].pc = sync[t].pc /\ sync'[t].repo = sync[t].repo
      BY <2>2 DEF Disconnect, TypeOK, Sync
    <3>2. QED BY <2>2, <3>1, MoveLock DEF Disconnect
  <2>3. CASE UNCHANGED <<lock, sync>>
    BY <2>3 DEF LockInv
  <2>4. QED BY <1>2, <2>1, <2>2, <2>3
            DEF UserNext, Remove, DeleteRepo, Configure
<1>3. CASE \E s \in Syncs : SyncNext(s)
  BY <1>3, SyncLock
<1>4. CASE WorkerNext
  <2>1. ASSUME NEW s \in Slots, NEW r \in Repos, Dispatch(s, r)
        PROVE  LockInv'
    <3>1. s \in Syncs
      BY DEF Syncs
    <3>2. QED BY <2>1, <3>1, SpawnLock DEF Dispatch
  <2>2. CASE Reap \/ QueryDue \/ EndTick
    BY <2>2 DEF Reap, QueryDue, EndTick, LockInv
  <2>3. QED BY <1>4, <2>1, <2>2 DEF WorkerNext
<1>5. CASE Tick
  <2>1. \A t \in Syncs : sync'[t].pc = sync[t].pc /\ sync'[t].repo = sync[t].repo
    BY <1>5 DEF Tick, Older, TypeOK, Sync
  <2>2. QED BY <1>5, <2>1, MoveLock DEF Tick
<1>6. CASE FaultNext
  <2>1. CASE Crash
    BY <2>1 DEF Crash, LockInv, Holding, IdleSync
  <2>2. CASE WorkerQueryFails
    BY <2>2 DEF WorkerQueryFails, LockInv
  <2>3. ASSUME NEW s \in Syncs, StatementFails(s)
        PROVE  LockInv'
    BY <2>3, LeaveLock DEF StatementFails
  <2>4. QED BY <1>6, <2>1, <2>2, <2>3 DEF FaultNext
<1>7. QED BY <1>1, <1>2, <1>3, <1>4, <1>5, <1>6 DEF Next

\* Two goroutines are never between Lock and Unlock of one repository, however
\* many handlers and scheduler slots there are.
THEOREM MutualExclusion == Spec => []OneSyncPerRepo
<1>1. TypeOK /\ LockInv => OneSyncPerRepo
  BY DEF LockInv, OneSyncPerRepo
<1>2. QED BY <1>1, InitType, StepType, LockInit, StepLock, PTL DEF Spec
-----------------------------------------------------------------------------
(* The runs *)

LEMMA RunInit == Init => RunInv
BY MirrorAssumption DEF Init, RunInv, Tracked, InFlight, IdleSync

\* What keeps RunInv in most steps: a goroutine stays as it is, drops its run,
\* or moves on with it, and the row of a run in flight stays or is deleted.
Quiet(t) ==
    /\ \/ sync'[t] = sync[t]
       \/ sync'[t].run = None /\ sync'[t].pc \notin InFlight
       \/ /\ sync'[t].run = sync[t].run
          /\ sync'[t].pc \in InFlight \cup {"publish", "prune"}
          /\ sync'[t].pc \in InFlight =>
                /\ sync[t].pc \in InFlight
                /\ sync'[t].trigger = sync[t].trigger
                /\ sync'[t].age = sync[t].age
    /\ sync'[t].pc \in InFlight =>
          \/ runs'[sync[t].run].status = "none"
          \/ /\ runs'[sync[t].run].status = runs[sync[t].run].status
             /\ runs'[sync[t].run].age = runs[sync[t].run].age

LEMMA QuietStep ==
    ASSUME RunInv, \A t \in Syncs : Quiet(t)
    PROVE  RunInv'
<1>1. ASSUME NEW t \in Syncs PROVE Tracked(t)'
  <2>1. Tracked(t) /\ Quiet(t)
    BY DEF RunInv
  <2>2. CASE sync'[t] = sync[t]
    BY <2>1, <2>2 DEF Tracked, Quiet, Timed
  <2>3. CASE sync'[t].run = None /\ sync'[t].pc \notin InFlight
    BY <2>3, MirrorAssumption DEF Tracked
  <2>4. CASE /\ sync'[t].run = sync[t].run
             /\ sync'[t].pc \in InFlight \cup {"publish", "prune"}
             /\ sync'[t].pc \in InFlight =>
                   /\ sync[t].pc \in InFlight
                   /\ sync'[t].trigger = sync[t].trigger
                   /\ sync'[t].age = sync[t].age
    BY <2>1, <2>4 DEF Tracked, Quiet, Timed
  <2>5. QED BY <2>1, <2>2, <2>3, <2>4 DEF Quiet
<1>2. \A t \in Syncs : sync'[t].run \in {None, sync[t].run}
  BY DEF Quiet
<1>3. QED BY <1>1, <1>2 DEF RunInv

LEMMA LeaveRun ==
    ASSUME TypeOK, RunInv, NEW s \in Syncs, NEW failed, Leave(s, failed),
           \A i \in RunIds : runs'[i] \in {runs[i], NoRunRow}
    PROVE  RunInv'
<1>1. sync'[s].run = None /\ sync'[s].pc \notin InFlight
  BY DEF Leave, TypeOK, Sync, IdleSync, InFlight
<1>2. \A t \in Syncs \ {s} : sync'[t] = sync[t]
  BY DEF Leave, TypeOK
<1>3. \A t \in Syncs : sync[t].pc \in InFlight => sync[t].run \in RunIds
  BY DEF RunInv, Tracked
<1>4. \A t \in Syncs : Quiet(t)
  BY <1>1, <1>2, <1>3 DEF Quiet, NoRunRow
<1>5. QED BY <1>4, QuietStep

LEMMA SpawnRun ==
    ASSUME TypeOK, RunInv, NEW s \in Syncs, NEW r, NEW trigger,
           NEW pc \in {"waiting", "configuring"}, NEW age,
           Spawn(s, r, trigger, pc, age), UNCHANGED runs
    PROVE  RunInv'
<1>1. sync'[s].run = None /\ sync'[s].pc \notin InFlight
  BY DEF Spawn, TypeOK, IdleSync, InFlight
<1>2. \A t \in Syncs \ {s} : sync'[t] = sync[t]
  BY DEF Spawn, TypeOK
<1>3. \A t \in Syncs : Quiet(t)
  BY <1>1, <1>2 DEF Quiet
<1>4. QED BY <1>3, QuietStep

\* The run row is new: no goroutine remembers its id, and its age is 0.
LEMMA StartRunKeeps ==
    ASSUME TypeOK, RunInv, NEW s \in Syncs, StartRun(s)
    PROVE  RunInv'
<1>1. CASE Leave(s, TRUE) /\ UNCHANGED runs
  BY <1>1, LeaveRun
<1>2. CASE ~(Expired(s) \/ sync[s].repo \notin repos)
  <2>1. /\ NewRun \in RunIds
        /\ \A t \in Syncs : sync[t].run # NewRun
    BY <1>2 DEF StartRun, NewRun, FreshRuns
  <2>2. /\ sync'[s].run = NewRun
        /\ sync'[s].pc = "running"
        /\ sync'[s].age = sync[s].age
        /\ \A t \in Syncs \ {s} : sync'[t] = sync[t]
    BY <1>2 DEF StartRun, TypeOK, Sync
  <2>3. /\ runs'[NewRun].status = "running"
        /\ runs'[NewRun].age = 0
    BY <1>2, <2>1 DEF StartRun
  <2>4. \A i \in RunIds \ {NewRun} : /\ runs'[i].status = runs[i].status
                                    /\ runs'[i].age = runs[i].age
    <3>1. ASSUME NEW i \in RunIds \ {NewRun}
          PROVE  runs'[i] \in {runs[i], [runs[i] EXCEPT !.newer = @ + 1]}
      BY <1>2, <3>1 DEF StartRun
    <3>2. \A i \in RunIds : runs[i] \in RunRow
      BY DEF TypeOK
    <3>3. QED BY <3>1, <3>2 DEF RunRow
  <2>5. sync[s].age >= 0
    BY MirrorAssumption DEF TypeOK, Sync
  <2>6. Tracked(s)'
    BY <2>1, <2>2, <2>3, <2>5 DEF Tracked, InFlight
  <2>7. ASSUME NEW t \in Syncs \ {s} PROVE Tracked(t)'
    BY <2>1, <2>2, <2>4 DEF Tracked, RunInv, Timed
  <2>8. \A t, u \in Syncs : sync'[t].run = sync'[u].run /\ sync'[t].run # None => t = u
    BY <2>1, <2>2 DEF RunInv
  <2>9. QED BY <2>6, <2>7, <2>8 DEF RunInv
<1>3. QED BY <1>1, <1>2 DEF StartRun

LEMMA FinishRunKeeps ==
    ASSUME TypeOK, RunInv, NEW s \in Syncs, FinishRun(s)
    PROVE  RunInv'
<1> DEFINE i == sync[s].run
<1>1. sync[s].pc \in InFlight /\ i \in RunIds
  BY DEF FinishRun, RunInv, Tracked, InFlight
<1>2. /\ sync'[s].run = i /\ sync'[s].pc = "publish"
      /\ \A t \in Syncs \ {s} : sync'[t] = sync[t]
  BY DEF FinishRun, TypeOK, Sync
<1>3. \A j \in RunIds \ {i} : runs'[j] = runs[j]
  BY DEF FinishRun, TypeOK
<1>4. \A t \in Syncs \ {s} : sync[t].pc \in InFlight => sync[t].run \in RunIds \ {i}
  BY <1>1, MirrorAssumption DEF RunInv, Tracked
<1>5. \A t \in Syncs : Quiet(t)
  BY <1>2, <1>3, <1>4 DEF Quiet, InFlight
<1>6. QED BY <1>5, QuietStep

\* The reaper passes over the run of a timed sync: it is not older than the
\* sync's deadline, which is below the threshold.
LEMMA ReapKeeps ==
    ASSUME TypeOK, RunInv, Reap
    PROVE  RunInv'
<1>1. ASSUME NEW t \in Syncs, sync[t].pc \in InFlight, Timed(t)
      PROVE  sync[t].run \notin Stuck
  <2> DEFINE i == sync[t].run
  <2>1. SUFFICES ASSUME i \in Stuck PROVE FALSE
    OBVIOUS
  <2>2. /\ runs[i].status = "running" /\ i \in RunIds /\ runs[i].repo \in Repos
        /\ runs[i].age > 3 * Larger(mirror[runs[i].repo].interval, MinReap)
    BY <2>1 DEF Stuck, TypeOK
  <2>3. mirror[runs[i].repo].interval \in Nat /\ MinReap \in Nat
    BY <2>2, MirrorAssumption DEF TypeOK, MirrorRow
  <2>4. runs[i].age \in Nat /\ sync[t].age \in 0 .. SyncTimeout
    BY <2>2, MirrorAssumption DEF TypeOK, RunRow, Sync
  <2>5. runs[i].age <= sync[t].age
    BY <1>1, <2>2 DEF RunInv, Tracked
  <2>6. Larger(mirror[runs[i].repo].interval, MinReap) \in Nat
        /\ Larger(mirror[runs[i].repo].interval, MinReap) >= MinReap
    BY <2>3 DEF Larger
  <2>7. SyncTimeout \in Nat /\ SyncTimeout < 3 * MinReap
    BY MirrorAssumption
  <2>8. QED BY <2>2, <2>3, <2>4, <2>5, <2>6, <2>7
<1>2. \A i \in RunIds : /\ i \notin Stuck => runs'[i] = runs[i]
                        /\ i \in Stuck => runs'[i].status = "failed"
  <2>1. \A i \in RunIds : runs[i] \in RunRow
    BY DEF TypeOK
  <2>2. QED BY <2>1 DEF Reap, RunRow
<1>3. ASSUME NEW t \in Syncs PROVE Tracked(t)'
  <2>1. Tracked(t) /\ sync' = sync
    BY DEF RunInv, Reap
  <2>2. QED BY <1>1, <1>2, <2>1 DEF Tracked, Timed
<1>4. QED BY <1>3 DEF RunInv, Reap

\* When time passes, a run in flight is within its context's deadline, so its
\* sync ages with it.
LEMMA TickKeeps ==
    ASSUME TypeOK, RunInv, Tick
    PROVE  RunInv'
<1>1. \A t \in Syncs : /\ sync'[t].run = sync[t].run
                       /\ sync'[t].pc = sync[t].pc
                       /\ sync'[t].trigger = sync[t].trigger
  BY DEF Tick, Older, TypeOK, Sync
<1>2. ASSUME NEW t \in Syncs PROVE Tracked(t)'
  <2>1. Tracked(t) /\ sync[t] \in Sync
    BY DEF RunInv, TypeOK
  <2>2. CASE sync[t].pc \notin InFlight
    BY <1>1, <2>1, <2>2 DEF Tracked
  <2>3. CASE sync[t].pc \in InFlight
    <3> DEFINE i == sync[t].run
    <3>1. i \in RunIds /\ runs[i] \in RunRow
      BY <2>1, <2>3 DEF Tracked, TypeOK
    <3>2. /\ runs'[i].status = runs[i].status
          /\ runs'[i].age <= runs[i].age + 1
      BY <3>1, MirrorAssumption DEF Tick, RunRow
    <3>3. ASSUME Timed(t) PROVE sync'[t].age = sync[t].age + 1
      <4>1. ~Expired(t)
        BY <2>3 DEF Tick, Settled, InFlight
      <4>2. sync[t].age < SyncTimeout
        BY <3>3, <4>1, <2>1, MirrorAssumption DEF Expired, Sync
      <4>3. Older(t) = [sync[t] EXCEPT !.age = @ + 1]
        BY <2>3, <3>3, <4>2 DEF Older, InFlight
      <4>4. QED BY <4>3, <2>1 DEF Tick, Sync
    <3>4. runs[i].age \in Int /\ sync[t].age \in Int /\ runs'[i].age \in Int
      BY <2>1, <3>1, TickType, MirrorAssumption DEF RunRow, Sync, TypeOK
    <3>5. ASSUME Timed(t), runs[i].age <= sync[t].age
          PROVE  runs'[i].age <= sync'[t].age
      BY <3>2, <3>3, <3>4, <3>5
    <3>6. Timed(t)' => Timed(t)
      BY <1>1 DEF Timed
    <3>7. QED BY <1>1, <2>1, <2>3, <3>1, <3>2, <3>5, <3>6 DEF Tracked
  <2>4. QED BY <2>2, <2>3
<1>3. QED BY <1>1, <1>2 DEF RunInv

LEMMA SyncRun ==
    ASSUME TypeOK, RunInv, NEW s \in Syncs, SyncNext(s)
    PROVE  RunInv'
<1>1. CASE CreateConfigure(s)
  <2>1. CASE Leave(s, TRUE)
    BY <1>1, <2>1, LeaveRun DEF CreateConfigure
  <2>2. CASE ~(Expired(s) \/ sync[s].repo \notin repos)
    <3>1. /\ sync' = [sync EXCEPT ![s].pc = "waiting"] /\ UNCHANGED runs
          /\ sync[s].pc = "configuring"
      BY <1>1, <2>2 DEF CreateConfigure
    <3>2. sync[s].run \notin RunIds
      BY <3>1 DEF RunInv, Tracked, InFlight
    <3>3. sync'[s].run = None /\ sync'[s].pc \notin InFlight
      BY <3>1, <3>2 DEF TypeOK, Sync, InFlight
    <3>4. \A t \in Syncs : Quiet(t)
      BY <3>1, <3>3 DEF Quiet, TypeOK
    <3>5. QED BY <3>4, QuietStep
  <2>3. QED BY <1>1, <2>1, <2>2 DEF CreateConfigure
<1>2. CASE Rollback(s)
  BY <1>2, LeaveRun DEF Rollback, DropRepo
<1>3. CASE GiveUp(s)
  BY <1>3, LeaveRun DEF GiveUp
<1>4. CASE Acquire(s)
  <2>1. /\ sync' = [sync EXCEPT ![s].pc = "loaded"] /\ UNCHANGED runs
        /\ sync[s].pc = "waiting"
    BY <1>4 DEF Acquire, CanLock
  <2>2. sync[s].run \notin RunIds
    BY <2>1 DEF RunInv, Tracked, InFlight
  <2>3. sync'[s].run = None /\ sync'[s].pc \notin InFlight
    BY <2>1, <2>2 DEF TypeOK, Sync, InFlight
  <2>4. \A t \in Syncs : Quiet(t)
    BY <2>1, <2>3 DEF Quiet, TypeOK
  <2>5. QED BY <2>4, QuietStep
<1>5. CASE StartRun(s)
  BY <1>5, StartRunKeeps
<1>6. CASE Transfer(s) \/ PublishResult(s)
  <2>1. /\ sync'[s].run = sync[s].run /\ sync'[s].trigger = sync[s].trigger
        /\ sync'[s].age = sync[s].age
        /\ \A t \in Syncs \ {s} : sync'[t] = sync[t]
        /\ UNCHANGED runs
        /\ \/ sync[s].pc = "running" /\ sync'[s].pc = "finish"
           \/ sync[s].pc = "publish" /\ sync'[s].pc = "prune"
    BY <1>6 DEF Transfer, PublishResult, TypeOK, Sync
  <2>2. \A t \in Syncs : Quiet(t)
    BY <2>1 DEF Quiet, InFlight
  <2>3. QED BY <2>2, QuietStep
<1>7. CASE FinishRun(s)
  BY <1>7, FinishRunKeeps
<1>8. CASE PruneRuns(s)
  BY <1>8, LeaveRun DEF PruneRuns
<1>9. QED BY <1>1, <1>2, <1>3, <1>4, <1>5, <1>6, <1>7, <1>8 DEF SyncNext, Lock, Statement

LEMMA StepRun ==
    ASSUME TypeOK, RunInv, [Next]_vars
    PROVE  RunInv'
<1>1. CASE UNCHANGED <<sync, runs>>
  BY <1>1, QuietStep DEF Quiet
<1>2. CASE UserNext
  <2>1. ASSUME NEW s \in Handlers, NEW r \in Repos,
               RequestSync(s, r) \/ AutoPush(s, r) \/ CreateMirrorRepo(s, r)
        PROVE  RunInv'
    <3>1. s \in Syncs
      BY DEF Syncs
    <3>2. QED BY <2>1, <3>1, SpawnRun DEF RequestSync, AutoPush, CreateMirrorRepo
  <2>2. ASSUME NEW s \in Handlers, Disconnect(s)
        PROVE  RunInv'
    <3>1. /\ \A t \in Syncs : /\ sync'[t].pc = sync[t].pc
                              /\ sync'[t].run = sync[t].run
                              /\ sync'[t].trigger = sync[t].trigger
                              /\ sync'[t].age = sync[t].age
          /\ UNCHANGED runs
      BY <2>2 DEF Disconnect, TypeOK, Sync
    <3>2. QED BY <3>1 DEF RunInv, Tracked, Timed
  <2>3. ASSUME NEW r \in Repos, DeleteRepo(r)
        PROVE  RunInv'
    <3>1. sync' = sync /\ \A i \in RunIds : runs'[i] \in {runs[i], NoRunRow}
      BY <2>3 DEF DeleteRepo, DropRepo
    <3>2. \A t \in Syncs : sync[t].pc \in InFlight => sync[t].run \in RunIds
      BY DEF RunInv, Tracked
    <3>3. \A t \in Syncs : Quiet(t)
      BY <3>1, <3>2 DEF Quiet, NoRunRow
    <3>4. QED BY <3>3, QuietStep
  <2>4. QED BY <1>1, <1>2, <2>1, <2>2, <2>3 DEF UserNext, Remove, Configure
<1>3. CASE \E s \in Syncs : SyncNext(s)
  BY <1>3, SyncRun
<1>4. CASE WorkerNext
  <2>1. ASSUME NEW s \in Slots, NEW r \in Repos, Dispatch(s, r)
        PROVE  RunInv'
    <3>1. s \in Syncs
      BY DEF Syncs
    <3>2. QED BY <2>1, <3>1, SpawnRun DEF Dispatch
  <2>2. QED BY <1>1, <1>4, <2>1, ReapKeeps DEF WorkerNext, QueryDue, EndTick
<1>5. CASE Tick
  BY <1>5, TickKeeps
<1>6. CASE FaultNext
  <2>1. CASE Crash
    <3>1. \A t \in Syncs : sync'[t].run = None /\ sync'[t].pc \notin InFlight
      BY <2>1 DEF Crash, IdleSync, InFlight
    <3>2. \A t \in Syncs : Quiet(t)
      BY <3>1 DEF Quiet
    <3>3. QED BY <3>2, QuietStep
  <2>2. ASSUME NEW s \in Syncs, StatementFails(s)
        PROVE  RunInv'
    BY <2>2, LeaveRun DEF StatementFails
  <2>3. QED BY <1>1, <1>6, <2>1, <2>2 DEF FaultNext, WorkerQueryFails
<1>7. QED BY <1>1, <1>2, <1>3, <1>4, <1>5, <1>6 DEF Next, vars

\* Whatever the intervals, the deadline and the number of goroutines, as long as
\* the deadline is below three times the reaper's floor, ReapStuck never marks
\* the run of a living manual or scheduled sync as failed.
THEOREM ReaperSparesTimedSyncs == Spec => []TimedSyncNotReaped
<1>1. RunInv => TimedSyncNotReaped
  BY DEF RunInv, Tracked, TimedSyncNotReaped, InFlight
<1>2. QED BY <1>1, InitType, StepType, RunInit, StepRun, PTL DEF Spec

\* One step never takes a success back.
LEMMA SuccessStep ==
    ASSUME TypeOK, RunInv, [Next]_vars, NEW i \in RunIds, runs[i].status = "success"
    PROVE  runs'[i].status \in {"success", "none"}
<1>0. runs[i] \in RunRow
  BY DEF TypeOK
<1>1. CASE runs'[i] \in {runs[i], NoRunRow}
  BY <1>1 DEF NoRunRow
<1>2. CASE Tick
  BY <1>0, <1>2 DEF Tick
<1>3. CASE Reap
  BY <1>3 DEF Reap, Stuck
<1>4. ASSUME NEW s \in Syncs, StartRun(s)
      PROVE  runs'[i].status \in {"success", "none"}
  <2>1. CASE UNCHANGED runs
    BY <2>1
  <2>2. CASE ~(Expired(s) \/ sync[s].repo \notin repos)
    <3>1. runs[NewRun].status = "none"
      BY <1>4, <2>2 DEF StartRun, NewRun, FreshRuns
    <3>2. runs'[i] \in {runs[i], [runs[i] EXCEPT !.newer = @ + 1]}
      BY <1>4, <2>2, <3>1 DEF StartRun
    <3>3. QED BY <1>0, <3>2 DEF RunRow
  <2>3. QED BY <1>4, <2>1, <2>2 DEF StartRun
<1>5. ASSUME NEW s \in Syncs, FinishRun(s)
      PROVE  runs'[i].status \in {"success", "none"}
  <2>1. sync[s].run # i
    BY <1>5 DEF FinishRun, RunInv, Tracked, InFlight
  <2>2. QED BY <1>5, <2>1 DEF FinishRun, TypeOK
<1>6. CASE UserNext
  BY <1>1, <1>6 DEF UserNext, Remove, DeleteRepo, DropRepo, Configure, RequestSync,
                    AutoPush, CreateMirrorRepo, Disconnect
<1>7. ASSUME NEW s \in Syncs,
             \/ CreateConfigure(s) \/ Rollback(s) \/ Acquire(s) \/ GiveUp(s)
             \/ Transfer(s) \/ PublishResult(s) \/ PruneRuns(s)
      PROVE  runs'[i].status \in {"success", "none"}
  BY <1>1, <1>7 DEF CreateConfigure, Rollback, DropRepo, Acquire, GiveUp, Transfer,
                    PublishResult, PruneRuns
<1>8. CASE WorkerNext
  BY <1>1, <1>3, <1>8 DEF WorkerNext, QueryDue, EndTick, Dispatch
<1>9. CASE FaultNext
  BY <1>1, <1>9 DEF FaultNext, Crash, WorkerQueryFails, StatementFails
<1>10. QED BY <1>1, <1>2, <1>4, <1>5, <1>6, <1>7, <1>8, <1>9 DEF Next, SyncNext, Lock, Statement, vars

\* No goroutine, reaper or reuse of an id turns a recorded success into
\* anything else: only the deletion of its row ends it.
THEOREM SuccessStays == Spec => SuccessIsFinal
<1>1. TypeOK /\ RunInv /\ [Next]_vars
          => [\A i \in RunIds : runs[i].status = "success"
                  => runs'[i].status \in {"success", "none"}]_vars
  BY SuccessStep
<1>2. QED BY <1>1, InitType, StepType, RunInit, StepRun, PTL DEF Spec, SuccessIsFinal
-----------------------------------------------------------------------------
(* The syncs of a repository are serial *)

LEMMA SerialInit == Init => Serial!SInit
BY DEF Init, Stage, Serial!SInit

\* Steps in which the mutexes and the stages of their holders stay.
LEMMA SerialStutter ==
    ASSUME TypeOK, LockInv, UNCHANGED lock,
           \A t \in Syncs : sync[t].pc \in Holding => sync'[t].pc = sync[t].pc
    PROVE  UNCHANGED <<lock, Stage>>
<1>1. \A r \in Repos : lock[r] # None => lock[r] \in Syncs /\ sync[lock[r]].pc \in Holding
  BY DEF TypeOK, LockInv
<1>2. \A r \in Repos : lock[r] # None => sync'[lock[r]].pc = sync[lock[r]].pc
  BY <1>1
<1>3. Stage' = Stage
  BY <1>2 DEF Stage
<1>4. QED BY <1>3

LEMMA SerialLeave ==
    ASSUME TypeOK, LockInv, NEW s \in Syncs, NEW failed, Leave(s, failed)
    PROVE  [Serial!SNext]_<<lock, Stage>>
<1> DEFINE r == sync[s].repo
<1>1. \A t \in Syncs \ {s} : sync'[t] = sync[t]
  BY DEF Leave, TypeOK
<1>2. CASE r \in Repos /\ lock[r] = s
  <2>1. lock' = [lock EXCEPT ![r] = None]
    BY <1>2 DEF Leave, Unlock
  <2>2. \A q \in Repos \ {r} : lock[q] # s
    BY <1>2, MirrorAssumption DEF LockInv
  <2>3. \A q \in Repos \ {r} : lock[q] # None => lock[q] \in Syncs \ {s}
    BY <2>2 DEF TypeOK
  <2>4. lock[r] # None
    BY <1>2, MirrorAssumption
  <2>5. Stage' = [Stage EXCEPT ![r] = "free"]
    BY <1>1, <1>2, <2>1, <2>3 DEF Stage, TypeOK
  <2>6. Serial!End(r)
    BY <2>1, <2>4, <2>5 DEF Serial!End
  <2>7. QED BY <1>2, <2>6 DEF Serial!SNext
<1>3. CASE ~(r \in Repos /\ lock[r] = s)
  <2>1. lock' = lock
    BY <1>3 DEF Leave, Unlock, TypeOK
  <2>2. sync[s].pc \notin Holding
    BY <1>3 DEF LockInv
  <2>3. UNCHANGED <<lock, Stage>>
    BY <1>1, <2>1, <2>2, SerialStutter
  <2>4. QED BY <2>3
<1>4. QED BY <1>2, <1>3

\* The goroutine that has the mutex goes on to its next stage.
LEMMA SerialAdvance ==
    ASSUME TypeOK, LockInv, NEW s \in Syncs, sync[s].pc \in Holding, UNCHANGED lock,
           <<sync[s].pc, sync'[s].pc>> \in {<<"loaded", "running">>, <<"running", "finish">>,
                                            <<"finish", "publish">>, <<"publish", "prune">>},
           \A t \in Syncs \ {s} : sync'[t] = sync[t]
    PROVE  [Serial!SNext]_<<lock, Stage>>
<1> DEFINE r == sync[s].repo
<1>1. r \in Repos /\ lock[r] = s /\ s # None
  BY MirrorAssumption DEF LockInv
<1>2. \A q \in Repos \ {r} : lock[q] # None => lock[q] \in Syncs \ {s}
  BY <1>1 DEF LockInv, TypeOK
<1>3. Stage' = [Stage EXCEPT ![r] = sync'[s].pc]
  BY <1>1, <1>2 DEF Stage, TypeOK
<1>4. Stage[r] = sync[s].pc
  BY <1>1 DEF Stage
<1>5. /\ sync[s].pc \in DOMAIN Serial!Successor
      /\ sync'[s].pc = Serial!Successor[sync[s].pc]
  BY DEF Serial!Successor
<1>6. Serial!Advance(r)
  BY <1>3, <1>4, <1>5 DEF Serial!Advance
<1>7. QED BY <1>1, <1>6 DEF Serial!SNext

LEMMA SerialAcquire ==
    ASSUME TypeOK, LockInv, NEW s \in Syncs, Acquire(s)
    PROVE  [Serial!SNext]_<<lock, Stage>>
<1> DEFINE r == sync[s].repo
<1>1. /\ r \in Repos /\ lock[r] = None /\ s # None /\ sync[s].pc = "waiting"
      /\ lock' = [lock EXCEPT ![r] = s]
      /\ sync' = [sync EXCEPT ![s].pc = "loaded"]
  BY MirrorAssumption DEF Acquire, CanLock, TypeOK
<1>2. \A q \in Repos : lock[q] # s
  BY <1>1 DEF LockInv, Holding
<1>3. \A q \in Repos : lock[q] # None => sync'[lock[q]] = sync[lock[q]]
  BY <1>1, <1>2 DEF TypeOK
<1>4. sync'[s].pc = "loaded"
  BY <1>1 DEF TypeOK, Sync
<1>5. Stage' = [Stage EXCEPT ![r] = "loaded"]
  BY <1>1, <1>3, <1>4 DEF Stage, TypeOK
<1>6. Serial!Begin(r, s)
  BY <1>1, <1>2, <1>5 DEF Serial!Begin
<1>7. QED BY <1>1, <1>6 DEF Serial!SNext

LEMMA SerialSync ==
    ASSUME TypeOK, LockInv, NEW s \in Syncs, SyncNext(s)
    PROVE  [Serial!SNext]_<<lock, Stage>>
<1>1. CASE CreateConfigure(s)
  <2>1. CASE Leave(s, TRUE)
    BY <2>1, SerialLeave
  <2>2. CASE ~(Expired(s) \/ sync[s].repo \notin repos)
    <3>1. /\ sync' = [sync EXCEPT ![s].pc = "waiting"] /\ UNCHANGED lock
          /\ sync[s].pc = "configuring"
      BY <1>1, <2>2 DEF CreateConfigure
    <3>2. \A t \in Syncs : sync[t].pc \in Holding => sync'[t].pc = sync[t].pc
      BY <3>1 DEF TypeOK, Holding
    <3>3. UNCHANGED <<lock, Stage>>
      BY <3>1, <3>2, SerialStutter
    <3>4. QED BY <3>3
  <2>3. QED BY <1>1, <2>1, <2>2 DEF CreateConfigure
<1>2. CASE Rollback(s) \/ GiveUp(s) \/ PruneRuns(s)
  BY <1>2, SerialLeave DEF Rollback, GiveUp, PruneRuns
<1>3. CASE Acquire(s)
  BY <1>3, SerialAcquire
<1>4. CASE StartRun(s)
  <2>1. CASE Leave(s, TRUE)
    BY <2>1, SerialLeave
  <2>2. CASE ~(Expired(s) \/ sync[s].repo \notin repos)
    <3>1. /\ sync' = [sync EXCEPT ![s].pc = "running", ![s].run = NewRun]
          /\ UNCHANGED lock /\ sync[s].pc = "loaded"
      BY <1>4, <2>2 DEF StartRun
    <3>2. /\ sync'[s].pc = "running"
          /\ \A t \in Syncs \ {s} : sync'[t] = sync[t]
      BY <3>1 DEF TypeOK, Sync
    <3>3. QED BY <3>1, <3>2, SerialAdvance DEF Holding
  <2>3. QED BY <1>4, <2>1, <2>2 DEF StartRun
<1>5. CASE Transfer(s) \/ FinishRun(s) \/ PublishResult(s)
  <2>1. /\ UNCHANGED lock /\ \A t \in Syncs \ {s} : sync'[t] = sync[t]
        /\ sync[s].pc \in Holding
        /\ <<sync[s].pc, sync'[s].pc>> \in {<<"loaded", "running">>, <<"running", "finish">>,
                                            <<"finish", "publish">>, <<"publish", "prune">>}
    BY <1>5 DEF Transfer, FinishRun, PublishResult, Holding, TypeOK, Sync
  <2>2. QED BY <2>1, SerialAdvance
<1>6. QED BY <1>1, <1>2, <1>3, <1>4, <1>5 DEF SyncNext, Lock, Statement

LEMMA SerialStep ==
    ASSUME TypeOK, LockInv, [Next]_vars
    PROVE  [Serial!SNext]_<<lock, Stage>>
<1>1. CASE UNCHANGED lock /\ \A t \in Syncs : sync[t].pc \in Holding => sync'[t].pc = sync[t].pc
  BY <1>1, SerialStutter
<1>2. CASE UserNext
  <2>1. UNCHANGED lock
    BY <1>2 DEF UserNext, Remove, DeleteRepo, Configure, RequestSync, AutoPush,
                CreateMirrorRepo, Disconnect
  <2>2. CASE UNCHANGED sync
    BY <1>1, <2>1, <2>2
  <2>3. ASSUME NEW s \in Syncs, NEW r, NEW trigger, NEW pc, NEW age,
               Spawn(s, r, trigger, pc, age)
        PROVE  \A t \in Syncs : sync[t].pc \in Holding => sync'[t].pc = sync[t].pc
    BY <2>3 DEF Spawn, Holding, TypeOK
  <2>4. ASSUME NEW s \in Syncs, Disconnect(s)
        PROVE  \A t \in Syncs : sync[t].pc \in Holding => sync'[t].pc = sync[t].pc
    BY <2>4 DEF Disconnect, TypeOK, Sync
  <2>5. Handlers \subseteq Syncs
    BY DEF Syncs
  <2>6. QED BY <1>1, <1>2, <2>1, <2>2, <2>3, <2>4, <2>5
            DEF UserNext, Remove, DeleteRepo, Configure, RequestSync, AutoPush,
                CreateMirrorRepo
<1>3. CASE \E s \in Syncs : SyncNext(s)
  BY <1>3, SerialSync
<1>4. CASE WorkerNext
  <2>1. ASSUME NEW s \in Slots, NEW r \in Repos, Dispatch(s, r)
        PROVE  \A t \in Syncs : sync[t].pc \in Holding => sync'[t].pc = sync[t].pc
    <3>1. s \in Syncs
      BY DEF Syncs
    <3>2. QED BY <2>1, <3>1 DEF Dispatch, Spawn, Holding, TypeOK
  <2>2. QED BY <1>1, <1>4, <2>1 DEF WorkerNext, Reap, QueryDue, EndTick, Dispatch
<1>5. CASE Tick
  <2>1. \A t \in Syncs : sync'[t].pc = sync[t].pc
    BY <1>5 DEF Tick, Older, TypeOK, Sync
  <2>2. QED BY <1>1, <1>5, <2>1 DEF Tick
<1>6. CASE FaultNext
  <2>1. CASE Crash
    <3>1. Serial!EndAll
      BY <2>1, MirrorAssumption DEF Crash, Serial!EndAll, Stage
    <3>2. QED BY <3>1 DEF Serial!SNext
  <2>2. CASE \E s \in Syncs : StatementFails(s)
    BY <2>2, SerialLeave DEF StatementFails
  <2>3. QED BY <1>1, <1>6, <2>1, <2>2 DEF FaultNext, WorkerQueryFails
<1>7. CASE UNCHANGED vars
  BY <1>1, <1>7 DEF vars
<1>8. QED BY <1>2, <1>3, <1>4, <1>5, <1>6, <1>7 DEF Next

\* Mirror implements MirrorSerial: every step of a goroutine, a handler, the
\* worker or a fault is a step of serial syncs, or changes nothing of them.
THEOREM ImplementsSerial == Spec => SyncsAreSerial
BY InitType, StepType, LockInit, StepLock, SerialInit, SerialStep, PTL
   DEF Spec, SyncsAreSerial, Serial!SerialSpec, Serial!svars
-----------------------------------------------------------------------------
(* The retention *)

\* As long as its repository exists, the run of a sync is the latest of the
\* repository's runs: only the holder of the mutex inserts another one.
HistoryInv ==
    \A s \in Syncs :
        sync[s].pc \in InFlight \cup {"publish", "prune"} /\ sync[s].repo \in repos
            => /\ sync[s].run \in RunIds
               /\ runs[sync[s].run].status # "none"
               /\ runs[sync[s].run].repo = sync[s].repo
               /\ runs[sync[s].run].newer = 0

\* A row may be lost when it has none, when its repository is gone, or when
\* enough newer ones exist; the others keep repository and rank.
Retained(i) ==
    \/ /\ runs[i].status # "none" => runs'[i].status # "none"
       /\ runs'[i].repo = runs[i].repo
       /\ runs'[i].newer = runs[i].newer
    \/ runs[i].repo \notin repos'
    \/ runs[i].newer >= HistoryLimit

LEMMA RetainingStep ==
    ASSUME HistoryInv, \A i \in RunIds : Retained(i),
           \A r \in repos' : r \in repos \/ SyncsOf(r) = {},
           \A t \in Syncs : sync'[t].pc \in InFlight \cup {"publish", "prune"} =>
                /\ sync[t].pc \in InFlight \cup {"publish", "prune"}
                /\ sync'[t].repo = sync[t].repo
                /\ sync'[t].run = sync[t].run
    PROVE  HistoryInv'
<1>1. SUFFICES ASSUME NEW t \in Syncs,
                      sync'[t].pc \in InFlight \cup {"publish", "prune"},
                      sync'[t].repo \in repos'
               PROVE  /\ sync'[t].run \in RunIds
                      /\ runs'[sync'[t].run].status # "none"
                      /\ runs'[sync'[t].run].repo = sync'[t].repo
                      /\ runs'[sync'[t].run].newer = 0
  BY DEF HistoryInv
<1>2. sync[t].repo \in repos
  BY <1>1 DEF SyncsOf
<1>3. ~(0 >= HistoryLimit)
  BY MirrorAssumption
<1>4. QED BY <1>1, <1>2, <1>3 DEF HistoryInv, Retained

LEMMA StartRunRetains ==
    ASSUME TypeOK, LockInv, HistoryInv, NEW s \in Syncs, StartRun(s),
           ~(Expired(s) \/ sync[s].repo \notin repos)
    PROVE  HistoryInv'
<1> DEFINE r == sync[s].repo
<1>1. /\ NewRun \in RunIds
      /\ \A t \in Syncs : sync[t].run # NewRun
  BY DEF StartRun, NewRun, FreshRuns
<1>2. /\ sync'[s].run = NewRun
      /\ sync'[s].repo = r
      /\ repos' = repos
      /\ \A t \in Syncs \ {s} : sync'[t] = sync[t]
  BY DEF StartRun, TypeOK, Sync
<1>3. runs'[NewRun] = [status |-> "running", repo |-> r, age |-> 0, newer |-> 0]
  BY <1>1 DEF StartRun
<1>4. ASSUME NEW t \in Syncs \ {s}, sync[t].pc \in InFlight \cup {"publish", "prune"},
             sync[t].repo \in repos
      PROVE  runs'[sync[t].run] = runs[sync[t].run]
  <2>1. sync[t].repo # r
    BY <1>4 DEF LockInv, Holding, InFlight, StartRun
  <2>2. sync[t].run \in RunIds \ {NewRun} /\ sync[t].run \notin RunsOf(r)
    BY <1>1, <1>4, <2>1 DEF HistoryInv, RunsOf
  <2>3. QED BY <2>2 DEF StartRun
<1>5. QED BY <1>1, <1>2, <1>3, <1>4 DEF HistoryInv

LEMMA DropRetains ==
    ASSUME NEW r, DropRepo(r)
    PROVE  /\ \A i \in RunIds : Retained(i)
           /\ repos' \subseteq repos
BY DEF DropRepo, Retained

LEMMA StepHistory ==
    ASSUME TypeOK, LockInv, HistoryInv, [Next]_vars
    PROVE  HistoryInv'
<1> DEFINE Live == InFlight \cup {"publish", "prune"}
           Kept == \A t \in Syncs : sync'[t].pc \in Live => /\ sync[t].pc \in Live
                                                            /\ sync'[t].repo = sync[t].repo
                                                            /\ sync'[t].run = sync[t].run
<1>1. CASE \E s \in Syncs : StartRun(s) /\ ~(Expired(s) \/ sync[s].repo \notin repos)
  BY <1>1, StartRunRetains
<1>2. ASSUME ~\E s \in Syncs : StartRun(s) /\ ~(Expired(s) \/ sync[s].repo \notin repos)
      PROVE  Kept
  <2>1. ASSUME NEW s \in Syncs, NEW failed, Leave(s, failed) PROVE Kept
    BY <2>1 DEF Leave, TypeOK, IdleSync, InFlight
  <2>2. ASSUME NEW s \in Syncs, NEW r, NEW trigger, NEW age,
               NEW pc \in {"waiting", "configuring"}, Spawn(s, r, trigger, pc, age)
        PROVE  Kept
    BY <2>2 DEF Spawn, TypeOK, IdleSync, InFlight
  <2>3. CASE UNCHANGED sync
    BY <2>3
  <2>4. Handlers \subseteq Syncs /\ Slots \subseteq Syncs
    BY DEF Syncs
  <2>5. CASE UserNext
    <3>1. ASSUME NEW s \in Syncs, Disconnect(s) PROVE Kept
      BY <3>1 DEF Disconnect, TypeOK, Sync
    <3>2. QED BY <2>2, <2>3, <2>4, <2>5, <3>1 DEF UserNext, Remove, DeleteRepo, Configure,
                  RequestSync, AutoPush, CreateMirrorRepo
  <2>6. ASSUME NEW s \in Syncs, SyncNext(s) PROVE Kept
    <3>1. CASE CreateConfigure(s)
      <4>1. CASE sync' = [sync EXCEPT ![s].pc = "waiting"]
        BY <4>1 DEF TypeOK, Sync, InFlight
      <4>2. QED BY <2>1, <3>1, <4>1 DEF CreateConfigure
    <3>2. CASE Rollback(s) \/ GiveUp(s) \/ PruneRuns(s)
      BY <2>1, <3>2 DEF Rollback, GiveUp, PruneRuns
    <3>3. CASE Acquire(s)
      BY <3>3 DEF Acquire, TypeOK, Sync, InFlight
    <3>4. CASE StartRun(s)
      <4>1. CASE Leave(s, TRUE)
        BY <2>1, <4>1
      <4>2. QED BY <1>2, <3>4, <4>1 DEF StartRun
    <3>5. CASE Transfer(s) \/ FinishRun(s) \/ PublishResult(s)
      BY <3>5 DEF Transfer, FinishRun, PublishResult, TypeOK, Sync, InFlight
    <3>6. QED BY <2>6, <3>1, <3>2, <3>3, <3>4, <3>5 DEF SyncNext, Lock, Statement
  <2>7. CASE WorkerNext
    BY <2>2, <2>3, <2>4, <2>7 DEF WorkerNext, Reap, QueryDue, EndTick, Dispatch
  <2>8. CASE Tick
    BY <2>8 DEF Tick, Older, TypeOK, Sync
  <2>9. CASE FaultNext
    BY <2>1, <2>3, <2>9 DEF FaultNext, Crash, WorkerQueryFails, StatementFails, IdleSync,
                            InFlight
  <2>10. QED BY <2>3, <2>5, <2>6, <2>7, <2>8, <2>9 DEF Next, vars
<1>3. \A r \in repos' : r \in repos \/ SyncsOf(r) = {}
  <2>1. CASE UserNext
    BY <2>1 DEF UserNext, Remove, DeleteRepo, DropRepo, Configure, RequestSync, AutoPush,
                CreateMirrorRepo, Disconnect
  <2>2. CASE \E s \in Syncs : SyncNext(s)
    BY <2>2 DEF SyncNext, Lock, Statement, CreateConfigure, Rollback, DropRepo, Acquire, GiveUp, StartRun,
                Transfer, FinishRun, PublishResult, PruneRuns
  <2>3. CASE WorkerNext \/ Tick \/ FaultNext
    BY <2>3 DEF WorkerNext, Reap, QueryDue, EndTick, Dispatch, Tick, FaultNext, Crash,
                WorkerQueryFails, StatementFails
  <2>4. QED BY <2>1, <2>2, <2>3 DEF Next, vars
<1>4. ASSUME ~\E s \in Syncs : StartRun(s) /\ ~(Expired(s) \/ sync[s].repo \notin repos)
      PROVE  \A i \in RunIds : Retained(i)
  <2>1. \A i \in RunIds : runs[i] \in RunRow
    BY DEF TypeOK
  <2>2. CASE UNCHANGED runs
    BY <2>2 DEF Retained
  <2>3. ASSUME NEW s \in Syncs, FinishRun(s) PROVE \A i \in RunIds : Retained(i)
    <3>1. Outcome(s) # "none"
      BY DEF Outcome
    <3>2. QED BY <2>1, <2>3, <3>1 DEF FinishRun, Retained, RunRow, TypeOK
  <2>4. ASSUME NEW s \in Syncs, PruneRuns(s) PROVE \A i \in RunIds : Retained(i)
    BY <2>4 DEF PruneRuns, Prunable, Retained
  <2>5. CASE Reap
    BY <2>1, <2>5 DEF Reap, Retained, RunRow
  <2>6. CASE Tick
    BY <2>1, <2>6 DEF Tick, Retained, RunRow
  <2>7. CASE UserNext
    BY <2>2, <2>7, DropRetains DEF UserNext, Remove, DeleteRepo, Configure, RequestSync,
                AutoPush, CreateMirrorRepo, Disconnect
  <2>8. CASE \E s \in Syncs : SyncNext(s)
    BY <1>4, <2>2, <2>3, <2>4, <2>8, DropRetains
       DEF SyncNext, Lock, Statement, CreateConfigure, Rollback, Acquire, GiveUp, StartRun, Transfer,
           PublishResult
  <2>9. CASE WorkerNext
    BY <2>2, <2>5, <2>9 DEF WorkerNext, QueryDue, EndTick, Dispatch
  <2>10. CASE FaultNext
    BY <2>2, <2>10 DEF FaultNext, Crash, WorkerQueryFails, StatementFails
  <2>11. QED BY <2>2, <2>6, <2>7, <2>8, <2>9, <2>10 DEF Next, vars
<1>5. QED BY <1>1, <1>2, <1>3, <1>4, RetainingStep

LEMMA HistoryInit == Init => HistoryInv
BY DEF Init, HistoryInv, InFlight, IdleSync

\* The retention DELETE, the reaper and reconfigurations never take the row a
\* sync still has to finish, for every HistoryLimit of at least one.
THEOREM LiveRunsAreKept == Spec => []LiveRunKept
<1>1. HistoryInv => LiveRunKept
  BY DEF HistoryInv, LiveRunKept, InFlight
<1>2. QED BY <1>1, InitType, StepType, LockInit, StepLock, HistoryInit, StepHistory, PTL
          DEF Spec
-----------------------------------------------------------------------------
(* What the mirror shows *)

\* A goroutine that has inserted a run and has not published its result.
Busy == InFlight \cup {"publish"}

\* Rows are kept for existing repositories only, and the run row a goroutine
\* remembers, if it is still there, is of the goroutine's repository.
OwnInv ==
    /\ configured \subseteq repos
    /\ \A s \in Syncs : sync[s].pc \in Busy =>
          /\ sync[s].run \in RunIds
          /\ runs[sync[s].run].status # "none" => runs[sync[s].run].repo = sync[s].repo

BusyWith(r) == \E s \in Syncs : sync[s].pc \in Busy /\ sync[s].repo = r

\* The latest run of the repository has the status the mirror shows.
Shown(r) == \E i \in RunsOf(r) : runs[i].newer = 0 /\ runs[i].status = mirror[r].status

\* Until the first fault: a running row has its goroutine, a finished one the
\* outcome that is about to be published, a mirror that reads running is being
\* synced, and one that nobody is syncing shows its latest run.
ShowInv ==
    faults = 0 =>
        /\ \A i \in RunIds : runs[i].status = "running" =>
              \E s \in Syncs : sync[s].pc \in InFlight /\ sync[s].run = i
        /\ \A s \in Syncs : sync[s].pc = "publish" /\ sync[s].repo \in repos =>
              runs[sync[s].run].status = Outcome(s)
        /\ \A r \in configured :
              ~BusyWith(r) /\ mirror[r].status # "pending"
                  => mirror[r].status # "running" /\ Shown(r)

LEMMA ShowInit == Init => OwnInv /\ ShowInv
BY DEF Init, OwnInv, ShowInv, Busy, InFlight, IdleSync, NoRunRow

\* Most steps: the goroutines that are busy stay so,
Steady(t) ==
    /\ sync'[t].pc \in InFlight <=> sync[t].pc \in InFlight
    /\ sync'[t].pc = "publish" <=> sync[t].pc = "publish"
    /\ sync[t].pc \in Busy => /\ sync'[t].repo = sync[t].repo
                              /\ sync'[t].run = sync[t].run
    /\ sync[t].pc = "publish" => sync'[t].ok = sync[t].ok

\* a run row keeps its status, or goes because of its repository or its rank,
RowStays(i) ==
    \/ /\ runs'[i].status = runs[i].status
       /\ runs'[i].repo = runs[i].repo
       /\ runs'[i].newer = runs[i].newer
    \/ /\ runs'[i].status = "none"
       /\ runs[i].repo \notin configured' \/ runs[i].newer >= HistoryLimit

\* and a mirror that was there keeps its status, and a new one is pending.
MirrorStays(r) ==
    \/ mirror'[r].status = "pending"
    \/ r \in configured /\ mirror'[r].status = mirror[r].status

Calm ==
    /\ \A t \in Syncs : Steady(t)
    /\ \A t \in Syncs : sync[t].repo \in repos' /\ sync[t].pc \in Busy => sync[t].repo \in repos
    /\ \A i \in RunIds : RowStays(i)
    /\ \A r \in configured' : MirrorStays(r)

LEMMA CalmOwn ==
    ASSUME OwnInv, Calm, configured' \subseteq repos'
    PROVE  OwnInv'
<1>1. ASSUME NEW t \in Syncs, sync'[t].pc \in Busy
      PROVE  /\ sync'[t].run \in RunIds
             /\ runs'[sync'[t].run].status # "none"
                   => runs'[sync'[t].run].repo = sync'[t].repo
  <2>1. sync[t].pc \in Busy /\ sync'[t].repo = sync[t].repo /\ sync'[t].run = sync[t].run
    BY <1>1 DEF Calm, Steady, Busy
  <2>2. sync[t].run \in RunIds
    BY <2>1 DEF OwnInv
  <2>3. RowStays(sync[t].run)
    BY <2>2 DEF Calm
  <2>4. QED BY <2>1, <2>2, <2>3 DEF OwnInv, RowStays
<1>2. QED BY <1>1 DEF OwnInv

LEMMA CalmShow ==
    ASSUME OwnInv, ShowInv, HistoryInv', Calm, faults' = faults
    PROVE  ShowInv'
<1>1. SUFFICES ASSUME faults = 0
               PROVE  /\ \A i \in RunIds : runs'[i].status = "running" =>
                            \E t \in Syncs : sync'[t].pc \in InFlight /\ sync'[t].run = i
                      /\ \A t \in Syncs : sync'[t].pc = "publish" /\ sync'[t].repo \in repos' =>
                            runs'[sync'[t].run].status = Outcome(t)'
                      /\ \A r \in configured' :
                            ~BusyWith(r)' /\ mirror'[r].status # "pending"
                                => mirror'[r].status # "running" /\ Shown(r)'
  BY DEF ShowInv
<1>2. ASSUME NEW i \in RunIds, runs'[i].status = "running"
      PROVE  \E t \in Syncs : sync'[t].pc \in InFlight /\ sync'[t].run = i
  <2>1. RowStays(i)
    BY DEF Calm
  <2>2. PICK t \in Syncs : sync[t].pc \in InFlight /\ sync[t].run = i
    BY <1>1, <1>2, <2>1 DEF RowStays, ShowInv
  <2>3. Steady(t)
    BY DEF Calm
  <2>4. QED BY <2>2, <2>3 DEF Steady, Busy
<1>3. ASSUME NEW t \in Syncs, sync'[t].pc = "publish", sync'[t].repo \in repos'
      PROVE  runs'[sync'[t].run].status = Outcome(t)'
  <2>1. /\ sync[t].pc = "publish"
        /\ sync'[t].repo = sync[t].repo /\ sync'[t].run = sync[t].run
        /\ Outcome(t)' = Outcome(t)
    BY <1>3 DEF Calm, Steady, Busy, Outcome
  <2>2. sync[t].repo \in repos
    BY <1>3, <2>1 DEF Calm, Busy
  <2>3. sync'[t].run \in RunIds /\ runs'[sync'[t].run].status # "none"
    BY <1>3 DEF HistoryInv
  <2>4. RowStays(sync[t].run)
    BY <2>1, <2>3 DEF Calm
  <2>5. QED BY <1>1, <2>1, <2>2, <2>3, <2>4 DEF RowStays, ShowInv
<1>4. ASSUME NEW r \in configured', ~BusyWith(r)', mirror'[r].status # "pending"
      PROVE  mirror'[r].status # "running" /\ Shown(r)'
  <2>1. r \in configured /\ mirror'[r].status = mirror[r].status
    BY <1>4 DEF Calm, MirrorStays
  <2>2. ~BusyWith(r)
    BY <1>4 DEF Calm, Steady, BusyWith, Busy
  <2>3. mirror[r].status # "running" /\ Shown(r)
    BY <1>1, <1>4, <2>1, <2>2 DEF ShowInv
  <2>4. PICK i \in RunIds : /\ runs[i].status # "none" /\ runs[i].repo = r
                            /\ runs[i].newer = 0 /\ runs[i].status = mirror[r].status
    BY <2>3 DEF Shown, RunsOf
  <2>5. ~(0 >= HistoryLimit)
    BY MirrorAssumption
  <2>6. RowStays(i)
    BY DEF Calm
  <2>7. /\ runs'[i].status = runs[i].status
        /\ runs'[i].repo = r /\ runs'[i].newer = 0
    BY <2>4, <2>5, <2>6 DEF RowStays
  <2>8. i \in RunsOf(r)'
    BY <2>4, <2>7 DEF RunsOf
  <2>9. Shown(r)'
    BY <2>1, <2>4, <2>7, <2>8 DEF Shown
  <2>10. QED BY <2>1, <2>3, <2>9
<1>5. QED BY <1>2, <1>3, <1>4

LEMMA LeaveSteady ==
    ASSUME TypeOK, NEW s \in Syncs, NEW failed, Leave(s, failed), sync[s].pc \notin Busy
    PROVE  \A t \in Syncs : Steady(t)
<1>1. sync'[s].pc \notin Busy /\ \A t \in Syncs \ {s} : sync'[t] = sync[t]
  BY DEF Leave, TypeOK, Sync, IdleSync, Busy, InFlight
<1>2. QED BY <1>1 DEF Steady, Busy

LEMMA SpawnSteady ==
    ASSUME TypeOK, NEW s \in Syncs, NEW r, NEW trigger,
           NEW pc \in {"waiting", "configuring"}, NEW age, Spawn(s, r, trigger, pc, age)
    PROVE  \A t \in Syncs : Steady(t)
<1>1. /\ sync'[s].pc \notin Busy /\ sync[s].pc \notin Busy
      /\ \A t \in Syncs \ {s} : sync'[t] = sync[t]
  BY DEF Spawn, TypeOK, IdleSync, Busy, InFlight
<1>2. QED BY <1>1 DEF Steady, Busy

\* Deleting a repository takes its rows; configuring one adds at most a mirror.
LEMMA DropCalm ==
    ASSUME TypeOK, NEW r, DropRepo(r), \A t \in Syncs : Steady(t)
    PROVE  Calm /\ repos' = repos \ {r} /\ configured' = configured \ {r}
<1>1. \A i \in RunIds : RowStays(i)
  BY DEF DropRepo, RowStays, NoRunRow
<1>2. \A q \in configured' : q \in Repos /\ q # r /\ q \in configured
  BY DEF DropRepo, TypeOK
<1>3. \A q \in configured' : MirrorStays(q)
  BY <1>2 DEF DropRepo, MirrorStays, TypeOK
<1>4. QED BY <1>1, <1>3 DEF Calm, DropRepo

LEMMA UpsertCalm ==
    ASSUME TypeOK, NEW r \in Repos, NEW q \in Requests, Upsert(r, q)
    PROVE  \A p \in configured' : MirrorStays(p)
<1>1. mirror[r] \in MirrorRow
  BY DEF TypeOK
<1>2. /\ r \in configured => mirror'[r].status = mirror[r].status
      /\ r \notin configured => mirror'[r].status = "pending"
  BY <1>1 DEF Upsert, UpsertedRow, BlankMirror, MirrorRow, TypeOK
<1>3. \A p \in configured' \ {r} : p \in configured /\ mirror'[p] = mirror[p]
  BY DEF Upsert, TypeOK
<1>4. QED BY <1>2, <1>3 DEF MirrorStays

\* What does not touch the tables.
LEMMA TablesCalm ==
    ASSUME UNCHANGED <<repos, configured, mirror, runs>>, \A t \in Syncs : Steady(t)
    PROVE  Calm
BY DEF Calm, RowStays, MirrorStays

LEMMA UserCalm ==
    ASSUME TypeOK, OwnInv, UserNext
    PROVE  Calm /\ configured' \subseteq repos' /\ faults' = faults
<1>1. ASSUME UNCHANGED sync PROVE \A t \in Syncs : Steady(t)
  BY <1>1 DEF Steady
<1>2. ASSUME NEW r \in Repos, NEW q \in Requests, Configure(r, q)
      PROVE  Calm /\ configured' \subseteq repos' /\ faults' = faults
  <2>1. \A p \in configured' : MirrorStays(p)
    BY <1>2, UpsertCalm DEF Configure
  <2>2. configured' \subseteq repos'
    BY <1>2 DEF Configure, Upsert, OwnInv
  <2>3. QED BY <1>1, <1>2, <2>1, <2>2 DEF Configure, Calm, RowStays
<1>3. ASSUME NEW r \in Repos, Remove(r)
      PROVE  Calm /\ configured' \subseteq repos' /\ faults' = faults
  <2>1. \A p \in configured' : MirrorStays(p)
    BY <1>3 DEF Remove, MirrorStays, TypeOK
  <2>2. QED BY <1>1, <1>3, <2>1 DEF Remove, Calm, RowStays, OwnInv
<1>4. ASSUME NEW r \in Repos, DeleteRepo(r)
      PROVE  Calm /\ configured' \subseteq repos' /\ faults' = faults
  BY <1>1, <1>4, DropCalm DEF DeleteRepo, OwnInv
<1>5. ASSUME NEW s \in Handlers, NEW r \in Repos, RequestSync(s, r) \/ AutoPush(s, r)
      PROVE  Calm /\ configured' \subseteq repos' /\ faults' = faults
  <2>1. s \in Syncs
    BY DEF Syncs
  <2>2. \A t \in Syncs : Steady(t)
    BY <1>5, <2>1, SpawnSteady DEF RequestSync, AutoPush
  <2>3. UNCHANGED <<repos, configured, mirror, runs, faults>>
    BY <1>5 DEF RequestSync, AutoPush
  <2>4. QED BY <2>2, <2>3, TablesCalm DEF OwnInv
<1>6. ASSUME NEW s \in Handlers, NEW r \in Repos, CreateMirrorRepo(s, r)
      PROVE  Calm /\ configured' \subseteq repos' /\ faults' = faults
  <2>1. s \in Syncs
    BY DEF Syncs
  <2>2. \A t \in Syncs : Steady(t)
    BY <1>6, <2>1, SpawnSteady DEF CreateMirrorRepo
  <2>3. QED BY <1>6, <2>2 DEF CreateMirrorRepo, Calm, RowStays, MirrorStays, SyncsOf, OwnInv
<1>7. ASSUME NEW s \in Handlers, Disconnect(s)
      PROVE  Calm /\ configured' \subseteq repos' /\ faults' = faults
  <2>1. \A t \in Syncs : Steady(t)
    BY <1>7 DEF Disconnect, Steady, TypeOK, Sync, Syncs
  <2>2. QED BY <1>7, <2>1, TablesCalm DEF Disconnect, OwnInv
<1>8. QED BY <1>2, <1>3, <1>4, <1>5, <1>6, <1>7 DEF UserNext

\* The steps of a sync that neither begin, finish nor publish a run.
LEMMA SyncCalm ==
    ASSUME TypeOK, OwnInv, NEW s \in Syncs,
           \/ CreateConfigure(s) \/ Rollback(s) \/ Acquire(s) \/ GiveUp(s)
           \/ StartRun(s) /\ (Expired(s) \/ sync[s].repo \notin repos)
           \/ Transfer(s) \/ PruneRuns(s)
    PROVE  Calm /\ configured' \subseteq repos' /\ faults' = faults
<1>1. CASE CreateConfigure(s)
  <2>1. sync[s].pc \notin Busy
    BY <1>1 DEF CreateConfigure, Busy, InFlight
  <2>2. CASE Expired(s) \/ sync[s].repo \notin repos
    BY <1>1, <2>1, <2>2, LeaveSteady, TablesCalm DEF CreateConfigure, OwnInv
  <2>3. CASE ~(Expired(s) \/ sync[s].repo \notin repos)
    <3>1. sync[s].repo \in Repos
      BY <2>3 DEF TypeOK
    <3>2. /\ \A p \in configured' : MirrorStays(p)
          /\ configured' \subseteq repos'
      BY <1>1, <2>3, <3>1, UpsertCalm DEF CreateConfigure, Upsert, OwnInv
    <3>3. \A t \in Syncs : Steady(t)
      <4>1. sync' = [sync EXCEPT ![s].pc = "waiting"] /\ sync[s].pc = "configuring"
        BY <1>1, <2>3 DEF CreateConfigure
      <4>2. QED BY <4>1 DEF Steady, Busy, InFlight, TypeOK
    <3>4. QED BY <1>1, <3>2, <3>3 DEF CreateConfigure, Calm, RowStays
  <2>4. QED BY <2>2, <2>3
<1>2. CASE Rollback(s)
  <2>1. \A t \in Syncs : Steady(t)
    BY <1>2, LeaveSteady DEF Rollback, Busy, InFlight
  <2>2. CASE sync[s].gone
    BY <1>2, <2>1, <2>2, TablesCalm DEF Rollback, OwnInv
  <2>3. CASE DropRepo(sync[s].repo)
    BY <1>2, <2>1, <2>3, DropCalm DEF Rollback, OwnInv
  <2>4. QED BY <1>2, <2>2, <2>3 DEF Rollback
<1>3. CASE Acquire(s) \/ Transfer(s)
  <2>1. \A t \in Syncs : Steady(t)
    <3>1. CASE Acquire(s)
      BY <3>1 DEF Acquire, CanLock, Steady, Busy, InFlight, TypeOK, Sync
    <3>2. CASE Transfer(s)
      <4>1. PICK ok \in BOOLEAN : sync' = [sync EXCEPT ![s].pc = "finish", ![s].ok = ok]
        BY <3>2 DEF Transfer
      <4>2. sync \in [Syncs -> Sync] /\ sync[s].pc = "running"
        BY <3>2 DEF Transfer, TypeOK
      <4>3. Steady(s)
        BY <4>1, <4>2 DEF Steady, Busy, InFlight, Sync
      <4>4. \A t \in Syncs \ {s} : sync'[t] = sync[t]
        BY <4>1, <4>2
      <4>5. \A t \in Syncs \ {s} : Steady(t)
        BY <4>4 DEF Steady
      <4>6. QED BY <4>3, <4>5
    <3>3. QED BY <1>3, <3>1, <3>2
  <2>2. QED BY <1>3, <2>1, TablesCalm DEF Acquire, Transfer, OwnInv
<1>4. CASE GiveUp(s) \/ (StartRun(s) /\ (Expired(s) \/ sync[s].repo \notin repos))
  <2>1. UNCHANGED <<repos, configured, mirror, runs, faults>> /\ Leave(s, TRUE)
    BY <1>4 DEF GiveUp, StartRun
  <2>2. sync[s].pc \notin Busy
    BY <1>4 DEF GiveUp, CanLock, StartRun, Busy, InFlight
  <2>3. QED BY <2>1, <2>2, LeaveSteady, TablesCalm DEF OwnInv
<1>5. CASE PruneRuns(s)
  <2>1. \A t \in Syncs : Steady(t)
    BY <1>5, LeaveSteady DEF PruneRuns, Busy, InFlight
  <2>2. \A i \in RunIds : RowStays(i)
    BY <1>5 DEF PruneRuns, Prunable, RowStays, NoRunRow
  <2>3. QED BY <1>5, <2>1, <2>2 DEF PruneRuns, Calm, MirrorStays, OwnInv
<1>6. QED BY <1>1, <1>2, <1>3, <1>4, <1>5

LEMMA TickCalm ==
    ASSUME TypeOK, OwnInv, Tick
    PROVE  Calm /\ configured' \subseteq repos' /\ faults' = faults
<1>1. \A t \in Syncs : Steady(t)
  BY DEF Tick, Older, Steady, TypeOK, Sync
<1>2. \A i \in RunIds : RowStays(i)
  <2>1. \A i \in RunIds : runs[i] \in RunRow
    BY DEF TypeOK
  <2>2. QED BY <2>1 DEF Tick, RowStays, RunRow
<1>3. \A r \in configured' : MirrorStays(r)
  <2>1. \A r \in Repos : mirror[r] \in MirrorRow
    BY DEF TypeOK
  <2>2. \A r \in configured : r \in Repos
    BY DEF TypeOK
  <2>3. QED BY <2>1, <2>2 DEF Tick, MirrorStays, MirrorRow
<1>4. QED BY <1>1, <1>2, <1>3 DEF Tick, Calm, OwnInv

LEMMA WorkerCalm ==
    ASSUME TypeOK, OwnInv, WorkerNext, ~Reap
    PROVE  Calm /\ configured' \subseteq repos' /\ faults' = faults
<1>1. UNCHANGED <<repos, configured, mirror, runs, faults>>
  BY DEF WorkerNext, QueryDue, EndTick, Dispatch
<1>2. ASSUME NEW s \in Slots, NEW r \in Repos, Dispatch(s, r)
      PROVE  \A t \in Syncs : Steady(t)
  <2>1. s \in Syncs
    BY DEF Syncs
  <2>2. QED BY <1>2, <2>1, SpawnSteady DEF Dispatch
<1>3. \A t \in Syncs : Steady(t)
  BY <1>2 DEF WorkerNext, QueryDue, EndTick, Steady
<1>4. QED BY <1>1, <1>3, TablesCalm DEF OwnInv

\* What the invariants need to know of the four steps that are not calm.
LEMMA StartRunEffect ==
    ASSUME TypeOK, NEW s \in Syncs, StartRun(s), ~(Expired(s) \/ sync[s].repo \notin repos)
    PROVE  /\ sync[s].pc = "loaded" /\ sync[s].repo \in repos
           /\ UNCHANGED <<repos, configured, faults>>
           /\ NewRun \in RunIds /\ runs[NewRun].status = "none"
           /\ \A t \in Syncs : sync[t].run # NewRun
           /\ sync'[s].pc = "running" /\ sync'[s].run = NewRun /\ sync'[s].repo = sync[s].repo
           /\ \A t \in Syncs \ {s} : sync'[t] = sync[t]
           /\ runs'[NewRun] = [status |-> "running", repo |-> sync[s].repo,
                               age |-> 0, newer |-> 0]
           /\ \A i \in RunIds \ {NewRun} :
                 /\ runs'[i].status = runs[i].status
                 /\ runs'[i].repo = runs[i].repo
                 /\ runs'[i].age = runs[i].age
                 /\ i \notin RunsOf(sync[s].repo) => runs'[i] = runs[i]
           /\ \A r \in configured : /\ mirror'[r].wait = mirror[r].wait
                                    /\ mirror'[r].interval = mirror[r].interval
                                    /\ r # sync[s].repo => mirror'[r] = mirror[r]
<1>1. /\ sync[s].pc = "loaded" /\ sync[s].repo \in repos
      /\ UNCHANGED <<repos, configured, faults>>
      /\ NewRun \in RunIds /\ runs[NewRun].status = "none"
      /\ \A t \in Syncs : sync[t].run # NewRun
  BY DEF StartRun, NewRun, FreshRuns
<1>2. /\ sync'[s].pc = "running" /\ sync'[s].run = NewRun /\ sync'[s].repo = sync[s].repo
      /\ \A t \in Syncs \ {s} : sync'[t] = sync[t]
  BY DEF StartRun, TypeOK, Sync
<1>3. runs'[NewRun] = [status |-> "running", repo |-> sync[s].repo, age |-> 0, newer |-> 0]
  BY <1>1 DEF StartRun
<1>4. ASSUME NEW i \in RunIds \ {NewRun}
      PROVE  /\ runs'[i].status = runs[i].status
             /\ runs'[i].repo = runs[i].repo
             /\ runs'[i].age = runs[i].age
             /\ i \notin RunsOf(sync[s].repo) => runs'[i] = runs[i]
  <2>1. \/ runs'[i] = runs[i]
        \/ i \in RunsOf(sync[s].repo) /\ runs'[i] = [runs[i] EXCEPT !.newer = @ + 1]
    BY DEF StartRun
  <2>2. runs[i] \in RunRow
    BY DEF TypeOK
  <2>3. QED BY <2>1, <2>2 DEF RunRow
<1>5. ASSUME NEW r \in configured
      PROVE  /\ mirror'[r].wait = mirror[r].wait
             /\ mirror'[r].interval = mirror[r].interval
             /\ r # sync[s].repo => mirror'[r] = mirror[r]
  <2>1. r \in Repos /\ mirror[r] \in MirrorRow
    BY DEF TypeOK
  <2>2. mirror' \in {mirror, [mirror EXCEPT ![sync[s].repo].status = "running"]}
    BY DEF StartRun
  <2>3. QED BY <2>1, <2>2 DEF TypeOK, MirrorRow
<1>6. QED BY <1>1, <1>2, <1>3, <1>4, <1>5

LEMMA StartRunShow ==
    ASSUME TypeOK, OwnInv, ShowInv, NEW s \in Syncs, StartRun(s),
           ~(Expired(s) \/ sync[s].repo \notin repos)
    PROVE  OwnInv' /\ ShowInv'
<1> DEFINE r == sync[s].repo
<1>0. \A t \in Syncs \ {s} : sync'[t] = sync[t]
  BY StartRunEffect
<1>1. \A t \in Syncs \ {s} : sync'[t].pc \in Busy =>
          sync[t].run \in RunIds \ {NewRun}
  <2>1. ASSUME NEW t \in Syncs \ {s}, sync'[t].pc \in Busy
        PROVE  sync[t].run \in RunIds \ {NewRun}
    <3>1. sync'[t] = sync[t] /\ sync[t].run # NewRun
      BY StartRunEffect
    <3>2. sync[t].pc \in Busy
      BY <2>1, <3>1
    <3>3. sync[t].run \in RunIds
      BY <3>2 DEF OwnInv
    <3>4. QED BY <3>1, <3>3
  <2>2. QED BY <2>1
<1>2. OwnInv'
  <2>1. ASSUME NEW t \in Syncs \ {s}, sync'[t].pc \in Busy
        PROVE  /\ sync'[t].run \in RunIds
               /\ runs'[sync'[t].run].status # "none"
                    => runs'[sync'[t].run].repo = sync'[t].repo
    <3>1. sync'[t] = sync[t] /\ sync[t].run \in RunIds \ {NewRun}
      BY <1>1, <2>1, StartRunEffect
    <3>2. /\ runs'[sync[t].run].status = runs[sync[t].run].status
          /\ runs'[sync[t].run].repo = runs[sync[t].run].repo
      BY <3>1, StartRunEffect
    <3>3. QED BY <2>1, <3>1, <3>2 DEF OwnInv
  <2>2. /\ sync'[s].run \in RunIds
        /\ runs'[sync'[s].run].repo = sync'[s].repo
    <3>1. /\ NewRun \in RunIds /\ sync'[s].run = NewRun /\ sync'[s].repo = sync[s].repo
          /\ runs'[NewRun] = [status |-> "running", repo |-> sync[s].repo,
                              age |-> 0, newer |-> 0]
      BY StartRunEffect
    <3>2. QED BY <3>1
  <2>3. configured' \subseteq repos'
    BY StartRunEffect DEF OwnInv
  <2>4. QED BY <2>1, <2>2, <2>3 DEF OwnInv
<1>3. SUFFICES ASSUME faults = 0
               PROVE  /\ \A i \in RunIds : runs'[i].status = "running" =>
                            \E t \in Syncs : sync'[t].pc \in InFlight /\ sync'[t].run = i
                      /\ \A t \in Syncs : sync'[t].pc = "publish" /\ sync'[t].repo \in repos' =>
                            runs'[sync'[t].run].status = Outcome(t)'
                      /\ \A q \in configured' :
                            ~BusyWith(q)' /\ mirror'[q].status # "pending"
                                => mirror'[q].status # "running" /\ Shown(q)'
  BY <1>2, StartRunEffect DEF ShowInv
<1>4. ASSUME NEW i \in RunIds, runs'[i].status = "running"
      PROVE  \E t \in Syncs : sync'[t].pc \in InFlight /\ sync'[t].run = i
  <2>1. CASE i = NewRun
    BY <2>1, StartRunEffect DEF InFlight
  <2>2. CASE i # NewRun
    <3>1. /\ runs[i].status = "running" /\ sync[s].pc = "loaded"
          /\ \A t \in Syncs \ {s} : sync'[t] = sync[t]
      BY <1>4, <2>2, StartRunEffect
    <3>2. PICK t \in Syncs : sync[t].pc \in InFlight /\ sync[t].run = i
      BY <1>3, <3>1 DEF ShowInv
    <3>3. t # s
      BY <3>1, <3>2 DEF InFlight
    <3>4. QED BY <3>1, <3>2, <3>3
  <2>3. QED BY <2>1, <2>2
<1>5. ASSUME NEW t \in Syncs, sync'[t].pc = "publish", sync'[t].repo \in repos'
      PROVE  runs'[sync'[t].run].status = Outcome(t)'
  <2>1. t # s /\ sync'[t] = sync[t] /\ repos' = repos
    BY <1>5, StartRunEffect
  <2>2. sync[t].run \in RunIds \ {NewRun}
    BY <1>1, <1>5, <2>1 DEF Busy
  <2>3. runs'[sync[t].run].status = runs[sync[t].run].status
    BY <2>2, StartRunEffect
  <2>4. runs[sync[t].run].status = Outcome(t)
    BY <1>3, <1>5, <2>1 DEF ShowInv
  <2>5. Outcome(t)' = Outcome(t)
    BY <2>1 DEF Outcome
  <2>6. QED BY <2>1, <2>3, <2>4, <2>5
<1>6. ASSUME NEW q \in configured', ~BusyWith(q)', mirror'[q].status # "pending"
      PROVE  mirror'[q].status # "running" /\ Shown(q)'
  <2>1. q # r
    BY <1>6, StartRunEffect DEF BusyWith, Busy, InFlight
  <2>2. q \in configured /\ mirror'[q] = mirror[q]
    BY <2>1, StartRunEffect
  <2>3. ~BusyWith(q)
    <3>1. ASSUME NEW t \in Syncs, sync[t].pc \in Busy, sync[t].repo = q
          PROVE  FALSE
      <4>1. t # s
        BY <2>1, <3>1
      <4>2. sync'[t] = sync[t]
        BY <1>0, <4>1
      <4>3. BusyWith(q)'
        BY <3>1, <4>2 DEF BusyWith, Busy, InFlight
      <4>4. QED BY <1>6, <4>3
    <3>2. QED BY <3>1 DEF BusyWith
  <2>4. mirror[q].status # "running" /\ Shown(q)
    BY <1>3, <1>6, <2>2, <2>3 DEF ShowInv
  <2>5. PICK i \in RunIds : /\ runs[i].status # "none" /\ runs[i].repo = q
                            /\ runs[i].newer = 0 /\ runs[i].status = mirror[q].status
    BY <2>4 DEF Shown, RunsOf
  <2>6. i # NewRun /\ i \notin RunsOf(r)
    BY <2>1, <2>5, StartRunEffect DEF RunsOf
  <2>7. runs'[i] = runs[i]
    BY <2>6, StartRunEffect
  <2>8. Shown(q)'
    BY <2>2, <2>5, <2>7 DEF Shown, RunsOf
  <2>9. QED BY <2>2, <2>4, <2>8
<1>7. QED BY <1>4, <1>5, <1>6

LEMMA FinishRunShow ==
    ASSUME TypeOK, RunInv, OwnInv, ShowInv, HistoryInv, NEW s \in Syncs, FinishRun(s)
    PROVE  OwnInv' /\ ShowInv'
<1> DEFINE i == sync[s].run
           r == sync[s].repo
<1>1. /\ sync[s].pc = "finish" /\ i \in RunIds
      /\ UNCHANGED <<repos, configured, mirror, faults>>
      /\ sync'[s].pc = "publish" /\ sync'[s].run = i /\ sync'[s].repo = r
      /\ sync'[s].ok = sync[s].ok
      /\ \A t \in Syncs \ {s} : sync'[t] = sync[t]
  BY DEF FinishRun, RunInv, Tracked, InFlight, TypeOK, Sync
<1>2. \A j \in RunIds \ {i} : runs'[j] = runs[j]
  BY DEF FinishRun, TypeOK
<1>3. /\ runs[i].status = "none" => runs'[i] = runs[i]
      /\ runs[i].status # "none" => runs'[i].status = Outcome(s)
      /\ runs'[i].repo = runs[i].repo
  <2>1. runs[i] \in RunRow
    BY <1>1 DEF TypeOK
  <2>2. QED BY <1>1, <2>1 DEF FinishRun, RunRow, TypeOK
<1>4. \A t \in Syncs \ {s} : sync[t].pc \in Busy => sync[t].run \in RunIds \ {i}
  BY <1>1, MirrorAssumption DEF RunInv, OwnInv
<1>5. OwnInv'
  <2>1. Outcome(s) # "none" /\ sync[s].pc \in Busy
    BY <1>1 DEF Outcome, Busy, InFlight
  <2>2. QED BY <1>1, <1>2, <1>3, <1>4, <2>1 DEF OwnInv
<1>6. SUFFICES ASSUME faults = 0
               PROVE  /\ \A j \in RunIds : runs'[j].status = "running" =>
                            \E t \in Syncs : sync'[t].pc \in InFlight /\ sync'[t].run = j
                      /\ \A t \in Syncs : sync'[t].pc = "publish" /\ sync'[t].repo \in repos' =>
                            runs'[sync'[t].run].status = Outcome(t)'
                      /\ \A q \in configured' :
                            ~BusyWith(q)' /\ mirror'[q].status # "pending"
                                => mirror'[q].status # "running" /\ Shown(q)'
  BY <1>1, <1>5 DEF ShowInv
<1>7. ASSUME NEW j \in RunIds, runs'[j].status = "running"
      PROVE  \E t \in Syncs : sync'[t].pc \in InFlight /\ sync'[t].run = j
  <2>1. j # i
    BY <1>1, <1>3, <1>7 DEF Outcome
  <2>2. PICK t \in Syncs : sync[t].pc \in InFlight /\ sync[t].run = j
    BY <1>2, <1>6, <1>7, <2>1 DEF ShowInv
  <2>3. QED BY <1>1, <2>1, <2>2
<1>8. ASSUME NEW t \in Syncs, sync'[t].pc = "publish", sync'[t].repo \in repos'
      PROVE  runs'[sync'[t].run].status = Outcome(t)'
  <2>1. CASE t = s
    <3>1. runs[i].status # "none"
      BY <1>1, <1>8, <2>1 DEF HistoryInv, InFlight
    <3>2. QED BY <1>1, <1>3, <2>1, <3>1 DEF Outcome
  <2>2. CASE t # s
    <3>1. sync'[t] = sync[t] /\ sync[t].run \in RunIds \ {i}
      BY <1>1, <1>4, <1>8, <2>2 DEF Busy
    <3>2. QED BY <1>1, <1>2, <1>6, <1>8, <3>1 DEF ShowInv, Outcome
  <2>3. QED BY <2>1, <2>2
<1>9. ASSUME NEW q \in configured', ~BusyWith(q)', mirror'[q].status # "pending"
      PROVE  mirror'[q].status # "running" /\ Shown(q)'
  <2>1. q # r /\ ~BusyWith(q)
    BY <1>1, <1>9 DEF BusyWith, Busy, InFlight
  <2>2. mirror[q].status # "running" /\ Shown(q)
    BY <1>1, <1>6, <1>9, <2>1 DEF ShowInv
  <2>3. PICK j \in RunIds : /\ runs[j].status # "none" /\ runs[j].repo = q
                            /\ runs[j].newer = 0 /\ runs[j].status = mirror[q].status
    BY <2>2 DEF Shown, RunsOf
  <2>4. j # i
    BY <1>1, <2>1, <2>3 DEF OwnInv, Busy, InFlight
  <2>5. Shown(q)'
    BY <1>1, <1>2, <2>3, <2>4 DEF Shown, RunsOf
  <2>6. QED BY <1>1, <2>2, <2>5
<1>10. QED BY <1>7, <1>8, <1>9

\* Only the holder of the mutex publishes for its repository, and its run row
\* has the outcome already.
LEMMA PublishShow ==
    ASSUME TypeOK, LockInv, HistoryInv, OwnInv, ShowInv, NEW s \in Syncs, PublishResult(s)
    PROVE  OwnInv' /\ ShowInv'
<1> DEFINE r == sync[s].repo
<1>1. /\ sync[s].pc = "publish"
      /\ UNCHANGED <<repos, configured, runs, faults>>
      /\ sync'[s].pc = "prune"
      /\ \A t \in Syncs \ {s} : sync'[t] = sync[t]
  BY DEF PublishResult, TypeOK, Sync
<1>2. \A q \in configured : q # r => mirror'[q] = mirror[q]
  BY DEF PublishResult, TypeOK
<1>3. r \in configured => mirror'[r].status = Outcome(s)
  <2>1. r \in configured => mirror[r] \in MirrorRow /\ r \in Repos
    BY DEF TypeOK
  <2>2. QED BY <2>1 DEF PublishResult, PublishedRow, TypeOK, MirrorRow
<1>4. OwnInv'
  BY <1>1 DEF OwnInv, Busy, InFlight
<1>5. ASSUME faults = 0, NEW i \in RunIds, runs'[i].status = "running"
      PROVE  \E t \in Syncs : sync'[t].pc \in InFlight /\ sync'[t].run = i
  BY <1>1, <1>5 DEF ShowInv, InFlight
<1>6. ASSUME faults = 0, NEW t \in Syncs, sync'[t].pc = "publish", sync'[t].repo \in repos'
      PROVE  runs'[sync'[t].run].status = Outcome(t)'
  BY <1>1, <1>6 DEF ShowInv, Outcome
<1>7. ASSUME faults = 0, NEW q \in configured', ~BusyWith(q)', mirror'[q].status # "pending"
      PROVE  mirror'[q].status # "running" /\ Shown(q)'
  <2>1. CASE q = r
    <3>1. r \in repos /\ r \in configured
      BY <1>1, <1>7, <2>1 DEF OwnInv
    <3>2. /\ sync[s].run \in RunsOf(r)
          /\ runs[sync[s].run].newer = 0
          /\ runs[sync[s].run].status = Outcome(s)
      BY <1>1, <1>7, <3>1 DEF HistoryInv, RunsOf, ShowInv, InFlight
    <3>3. mirror'[q].status = Outcome(s)
      BY <1>3, <2>1, <3>1
    <3>4. Shown(q)'
      BY <1>1, <2>1, <3>2, <3>3 DEF Shown, RunsOf
    <3>5. QED BY <3>3, <3>4 DEF Outcome
  <2>2. CASE q # r
    <3>1. ~BusyWith(q) /\ q \in configured /\ mirror'[q] = mirror[q]
      BY <1>1, <1>2, <1>7, <2>2 DEF BusyWith, Busy, InFlight
    <3>2. QED BY <1>1, <1>7, <3>1 DEF ShowInv, Shown, RunsOf
  <2>3. QED BY <2>1, <2>2
<1>8. QED BY <1>1, <1>4, <1>5, <1>6, <1>7 DEF ShowInv

\* A run the reaper takes has its goroutine still, so that its mirror is shown
\* anew when that goroutine is done.
LEMMA ReapShow ==
    ASSUME TypeOK, OwnInv, ShowInv, Reap
    PROVE  OwnInv' /\ ShowInv'
<1>1. UNCHANGED <<repos, configured, sync, faults>>
  BY DEF Reap
<1>2. \A i \in RunIds : /\ i \notin Stuck => runs'[i] = runs[i]
                        /\ i \in Stuck => runs'[i].status = "failed"
                        /\ runs'[i].repo = runs[i].repo
                        /\ runs'[i].newer = runs[i].newer
                        /\ runs[i].status = "none" => runs'[i].status = "none"
  <2>1. \A i \in RunIds : runs[i] \in RunRow
    BY DEF TypeOK
  <2>2. QED BY <2>1 DEF Reap, RunRow, Stuck
<1>3. OwnInv'
  BY <1>1, <1>2 DEF OwnInv
<1>4. ASSUME faults = 0, NEW i \in RunIds, runs'[i].status = "running"
      PROVE  \E t \in Syncs : sync'[t].pc \in InFlight /\ sync'[t].run = i
  BY <1>1, <1>2, <1>4 DEF ShowInv
<1>5. ASSUME faults = 0, NEW t \in Syncs, sync'[t].pc = "publish", sync'[t].repo \in repos'
      PROVE  runs'[sync'[t].run].status = Outcome(t)'
  <2>1. runs[sync[t].run].status = Outcome(t) /\ sync[t].run \in RunIds
    BY <1>1, <1>5 DEF ShowInv, OwnInv, Busy
  <2>2. sync[t].run \notin Stuck
    BY <2>1 DEF Stuck, Outcome
  <2>3. QED BY <1>1, <1>2, <2>1, <2>2 DEF Outcome
<1>6. ASSUME faults = 0, NEW q \in configured', ~BusyWith(q)', mirror'[q].status # "pending"
      PROVE  mirror'[q].status # "running" /\ Shown(q)'
  <2>1. ~BusyWith(q) /\ q \in configured
    BY <1>1, <1>6 DEF BusyWith
  <2>2. ASSUME NEW i \in Stuck, runs[i].repo = q PROVE FALSE
    <3>1. i \in RunIds /\ runs[i].status = "running"
      BY <2>2 DEF Stuck
    <3>2. PICK t \in Syncs : sync[t].pc \in InFlight /\ sync[t].run = i
      BY <1>6, <3>1 DEF ShowInv
    <3>3. sync[t].repo = q
      BY <2>2, <3>1, <3>2 DEF OwnInv, Busy
    <3>4. QED BY <2>1, <3>2, <3>3 DEF BusyWith, Busy
  <2>3. mirror'[q] = mirror[q]
    BY <2>1, <2>2 DEF Reap, TypeOK
  <2>4. mirror[q].status # "running" /\ Shown(q)
    BY <1>6, <2>1, <2>3 DEF ShowInv
  <2>5. PICK i \in RunsOf(q) : runs[i].newer = 0 /\ runs[i].status = mirror[q].status
    BY <2>4 DEF Shown
  <2>6. i \in RunIds /\ runs'[i] = runs[i]
    BY <1>2, <2>2, <2>5 DEF RunsOf
  <2>7. Shown(q)'
    BY <2>3, <2>5, <2>6 DEF Shown, RunsOf
  <2>8. QED BY <2>3, <2>4, <2>7
<1>7. QED BY <1>1, <1>3, <1>4, <1>5, <1>6 DEF ShowInv

\* A fault ends what ShowInv promises; the goroutines it leaves alone keep their
\* rows.
LEMMA FaultShow ==
    ASSUME TypeOK, OwnInv, FaultNext
    PROVE  OwnInv' /\ ShowInv'
<1>1. faults' # 0
  <2>1. faults \in Nat /\ faults' = faults + 1
    BY MirrorAssumption DEF FaultNext, Crash, WorkerQueryFails, StatementFails, TypeOK
  <2>2. QED BY <2>1
<1>2. UNCHANGED <<repos, configured, runs>>
  BY DEF FaultNext, Crash, WorkerQueryFails, StatementFails
<1>3. ASSUME NEW t \in Syncs, sync'[t].pc \in Busy
      PROVE  sync'[t] = sync[t]
  <2>1. ASSUME NEW s \in Syncs, StatementFails(s) PROVE sync'[t] = sync[t]
    BY <1>3, <2>1 DEF StatementFails, Leave, TypeOK, Sync, IdleSync, Busy, InFlight
  <2>2. QED BY <1>3, <2>1 DEF FaultNext, Crash, WorkerQueryFails, IdleSync, Busy, InFlight
<1>4. QED BY <1>1, <1>2, <1>3 DEF OwnInv, ShowInv

LEMMA StepShow ==
    ASSUME TypeOK, LockInv, RunInv, HistoryInv, HistoryInv', OwnInv, ShowInv, [Next]_vars
    PROVE  OwnInv' /\ ShowInv'
<1>1. CASE Calm /\ configured' \subseteq repos' /\ faults' = faults
  BY <1>1, CalmOwn, CalmShow
<1>2. CASE UNCHANGED vars
  <2>1. Calm
    BY <1>2 DEF vars, Calm, Steady, RowStays, MirrorStays
  <2>2. QED BY <1>1, <1>2, <2>1 DEF vars, OwnInv
<1>3. CASE UserNext
  BY <1>1, <1>3, UserCalm
<1>4. ASSUME NEW s \in Syncs, SyncNext(s) PROVE OwnInv' /\ ShowInv'
  BY <1>1, <1>4, SyncCalm, StartRunShow, FinishRunShow, PublishShow DEF SyncNext, Lock, Statement
<1>5. CASE WorkerNext
  BY <1>1, <1>5, WorkerCalm, ReapShow
<1>6. CASE Tick
  BY <1>1, <1>6, TickCalm
<1>7. CASE FaultNext
  BY <1>7, FaultShow
<1>8. QED BY <1>2, <1>3, <1>4, <1>5, <1>6, <1>7 DEF Next

\* Until the first crash or failed statement, a mirror that reads running has a
\* goroutine that will publish a result, for every number of repositories,
\* handlers and slots.
THEOREM RunningMirrorsAreSyncing == Spec => []RunningMirrorIsSyncing
<1>1. ShowInv => RunningMirrorIsSyncing
  BY DEF ShowInv, RunningMirrorIsSyncing, Syncing, BusyWith, Busy, InFlight
<1>2. QED BY <1>1, InitType, StepType, LockInit, StepLock, RunInit, StepRun, HistoryInit,
             StepHistory, ShowInit, StepShow, PTL DEF Spec

\* Until the first fault, a mirror nobody is syncing shows the status of the
\* latest run of its repository, for every HistoryLimit of at least one.
THEOREM MirrorsShowLatestRun == Spec => []MirrorShowsLatestRun
<1>1. TypeOK /\ LockInv /\ ShowInv => MirrorShowsLatestRun
  <2>1. SUFFICES ASSUME TypeOK, LockInv, ShowInv, faults = 0, NEW r \in configured,
                        lock[r] = None, mirror[r].status # "pending"
                 PROVE  \E i \in RunsOf(r) : /\ runs[i].newer = 0
                                             /\ runs[i].status = mirror[r].status
    BY DEF MirrorShowsLatestRun
  <2>2. ~BusyWith(r)
    BY <2>1, MirrorAssumption DEF LockInv, BusyWith, Busy, InFlight, Holding, TypeOK
  <2>3. QED BY <2>1, <2>2 DEF ShowInv, Shown
<1>2. QED BY <1>1, InitType, StepType, LockInit, StepLock, RunInit, StepRun, HistoryInit,
             StepHistory, ShowInit, StepShow, PTL DEF Spec
-----------------------------------------------------------------------------
(* What a mirror waits for *)

\* The wait and what has passed of it are within an interval that was requested.
Within(wait, age) == wait = 0 \/ \E q \in Requests : wait + age <= q.interval

\* Until the first fault, a mirror waits for the rest of an interval it has or
\* had, and counts it from before the run in flight began.
WaitInv ==
    faults = 0 =>
        \A r \in configured :
            /\ \E q \in Requests : mirror[r].interval = q.interval
            /\ Within(mirror[r].wait, 0)
            /\ \A i \in RunsOf(r) :
                  runs[i].status = "running" => Within(mirror[r].wait, runs[i].age)

LEMMA WaitInit == Init => WaitInv
BY DEF Init, WaitInv

\* Steps that leave the mirrors that stay and the running rows alone.
WaitQuiet ==
    /\ \A r \in configured' : /\ r \in configured
                              /\ mirror'[r].wait = mirror[r].wait
                              /\ mirror'[r].interval = mirror[r].interval
    /\ \A i \in RunIds : runs'[i].status = "running" =>
          /\ runs[i].status = "running"
          /\ runs'[i].repo = runs[i].repo
          /\ runs'[i].age = runs[i].age

LEMMA QuietWait ==
    ASSUME WaitInv, WaitQuiet, faults' = faults
    PROVE  WaitInv'
<1>1. SUFFICES ASSUME faults = 0, NEW r \in configured'
               PROVE  /\ \E q \in Requests : mirror'[r].interval = q.interval
                      /\ Within(mirror'[r].wait, 0)
                      /\ \A i \in RunsOf(r)' :
                            runs'[i].status = "running" => Within(mirror'[r].wait, runs'[i].age)
  BY DEF WaitInv, Within
<1>2. \A i \in RunsOf(r)' : runs'[i].status = "running" =>
          i \in RunsOf(r) /\ runs[i].status = "running" /\ runs'[i].age = runs[i].age
  BY DEF WaitQuiet, RunsOf
<1>3. r \in configured /\ mirror'[r].wait = mirror[r].wait
      /\ mirror'[r].interval = mirror[r].interval
  BY DEF WaitQuiet
<1>4. QED BY <1>1, <1>2, <1>3 DEF WaitInv

\* Configuring changes the interval and leaves the wait.
LEMMA UpsertWait ==
    ASSUME TypeOK, WaitInv, NEW r \in Repos, NEW q \in Requests, Upsert(r, q),
           UNCHANGED <<runs, faults>>
    PROVE  WaitInv'
<1>1. mirror[r] \in MirrorRow
  BY DEF TypeOK
<1>2. /\ mirror'[r].interval = q.interval
      /\ r \in configured => mirror'[r].wait = mirror[r].wait
      /\ r \notin configured => mirror'[r].wait = 0
  BY <1>1 DEF Upsert, UpsertedRow, BlankMirror, MirrorRow, TypeOK
<1>3. \A p \in configured' \ {r} : p \in configured /\ mirror'[p] = mirror[p]
  BY DEF Upsert, TypeOK
<1>4. ASSUME faults = 0, NEW p \in configured'
      PROVE  /\ \E u \in Requests : mirror'[p].interval = u.interval
             /\ Within(mirror'[p].wait, 0)
             /\ \A i \in RunsOf(p) :
                   runs[i].status = "running" => Within(mirror'[p].wait, runs[i].age)
  BY <1>2, <1>3, <1>4 DEF WaitInv, Within
<1>5. QED BY <1>4 DEF WaitInv, RunsOf, Within

LEMMA StartRunWait ==
    ASSUME TypeOK, OwnInv, WaitInv, NEW s \in Syncs, StartRun(s),
           ~(Expired(s) \/ sync[s].repo \notin repos)
    PROVE  WaitInv'
<1>1. SUFFICES ASSUME faults = 0, NEW r \in configured
               PROVE  /\ \E q \in Requests : mirror'[r].interval = q.interval
                      /\ Within(mirror'[r].wait, 0)
                      /\ \A i \in RunsOf(r)' :
                            runs'[i].status = "running" => Within(mirror'[r].wait, runs'[i].age)
  BY StartRunEffect DEF WaitInv, Within
<1>2. /\ mirror'[r].wait = mirror[r].wait
      /\ mirror'[r].interval = mirror[r].interval
  BY StartRunEffect
<1>3. ASSUME NEW i \in RunsOf(r)', runs'[i].status = "running"
      PROVE  Within(mirror[r].wait, runs'[i].age)
  <2>1. CASE i = NewRun
    <3>1. runs'[i].age = 0
      <4>1. runs'[NewRun] = [status |-> "running", repo |-> sync[s].repo,
                             age |-> 0, newer |-> 0]
        BY StartRunEffect
      <4>2. QED BY <2>1, <4>1
    <3>2. Within(mirror[r].wait, 0)
      BY <1>1 DEF WaitInv
    <3>3. QED BY <3>1, <3>2
  <2>2. CASE i # NewRun
    <3>1. /\ i \in RunIds /\ runs[i].status = "running"
          /\ runs[i].repo = r /\ runs'[i].age = runs[i].age
      BY <1>3, <2>2, StartRunEffect DEF RunsOf
    <3>2. QED BY <1>1, <3>1 DEF WaitInv, RunsOf
  <2>3. QED BY <2>1, <2>2
<1>4. QED BY <1>1, <1>2, <1>3 DEF WaitInv

\* Whoever publishes holds the mutex, so no other run of the repository is in
\* flight when the wait begins anew.
LEMMA PublishWait ==
    ASSUME TypeOK, LockInv, OwnInv, ShowInv, WaitInv, NEW s \in Syncs, PublishResult(s)
    PROVE  WaitInv'
<1>1. /\ sync[s].pc = "publish"
      /\ UNCHANGED <<configured, runs, faults>>
  BY DEF PublishResult
<1>2. \A q \in configured \ {sync[s].repo} : mirror'[q] = mirror[q]
  BY DEF PublishResult, TypeOK
<1>3. sync[s].repo \in configured =>
          /\ mirror'[sync[s].repo].interval = mirror[sync[s].repo].interval
          /\ mirror'[sync[s].repo].wait = mirror[sync[s].repo].interval
  <2>1. sync[s].repo \in configured => mirror[sync[s].repo] \in MirrorRow
                                       /\ sync[s].repo \in Repos
    BY DEF TypeOK
  <2>2. QED BY <2>1 DEF PublishResult, PublishedRow, TypeOK, MirrorRow
<1>4. SUFFICES ASSUME faults = 0, NEW q \in configured
               PROVE  /\ \E u \in Requests : mirror'[q].interval = u.interval
                      /\ Within(mirror'[q].wait, 0)
                      /\ \A i \in RunsOf(q) :
                            runs[i].status = "running" => Within(mirror'[q].wait, runs[i].age)
  BY <1>1 DEF WaitInv, Within, RunsOf
<1>5. CASE q # sync[s].repo
  BY <1>2, <1>4, <1>5 DEF WaitInv
<1>6. CASE q = sync[s].repo
  <2>1. ASSUME NEW i \in RunsOf(q), runs[i].status = "running" PROVE FALSE
    <3>1. PICK t \in Syncs : sync[t].pc \in InFlight /\ sync[t].run = i
      BY <1>4, <2>1 DEF ShowInv, RunsOf
    <3>2. sync[t].repo = q
      BY <2>1, <3>1 DEF OwnInv, RunsOf, Busy
    <3>3. t = s
      <4>1. sync[t].pc \in Holding /\ sync[s].pc \in Holding
        BY <1>1, <3>1 DEF Holding, InFlight
      <4>2. lock[q] = t /\ lock[q] = s
        BY <1>6, <3>2, <4>1 DEF LockInv
      <4>3. QED BY <4>2
    <3>4. QED BY <1>1, <3>1, <3>3 DEF InFlight
  <2>2. PICK u \in Requests : mirror[q].interval = u.interval
    BY <1>4 DEF WaitInv
  <2>3. u.interval \in Nat
    BY <2>2, MirrorAssumption DEF Request
  <2>4. Within(mirror'[q].wait, 0)
    BY <1>3, <1>6, <2>2, <2>3 DEF Within
  <2>5. QED BY <1>3, <1>6, <2>1, <2>2, <2>4
<1>7. QED BY <1>5, <1>6

\* While time passes, what a run ages the wait loses.
LEMMA TickWait ==
    ASSUME TypeOK, WaitInv, Tick
    PROVE  WaitInv'
<1>1. SUFFICES ASSUME faults = 0, NEW r \in configured
               PROVE  /\ \E q \in Requests : mirror'[r].interval = q.interval
                      /\ Within(mirror'[r].wait, 0)
                      /\ \A i \in RunsOf(r)' :
                            runs'[i].status = "running" => Within(mirror'[r].wait, runs'[i].age)
  BY DEF WaitInv, Within, Tick
<1>2. r \in Repos /\ mirror[r] \in MirrorRow
  BY DEF TypeOK
<1>3. /\ mirror'[r].interval = mirror[r].interval
      /\ mirror[r].wait \in Nat
      /\ mirror'[r].wait = IF mirror[r].wait > 0 THEN mirror[r].wait - 1 ELSE mirror[r].wait
  BY <1>2 DEF Tick, MirrorRow
<1>4. \A q \in Requests : q.interval \in Nat
  BY MirrorAssumption DEF Request
<1>5. Within(mirror'[r].wait, 0)
  BY <1>1, <1>3, <1>4 DEF WaitInv, Within
<1>6. ASSUME NEW i \in RunsOf(r)', runs'[i].status = "running"
      PROVE  Within(mirror'[r].wait, runs'[i].age)
  <2>1. i \in RunIds /\ runs[i] \in RunRow
    BY DEF RunsOf, TypeOK
  <2>2. /\ runs[i].status = "running" /\ runs[i].repo = r
        /\ runs[i].age \in Nat
        /\ runs'[i].age \in {runs[i].age, runs[i].age + 1}
    BY <1>6, <2>1, MirrorAssumption DEF Tick, RunRow, RunsOf
  <2>3. Within(mirror[r].wait, runs[i].age)
    BY <1>1, <2>1, <2>2 DEF WaitInv, RunsOf
  <2>4. QED BY <1>3, <1>4, <2>2, <2>3 DEF Within
<1>7. QED BY <1>1, <1>3, <1>5, <1>6 DEF WaitInv

LEMMA ReapWait ==
    ASSUME TypeOK, WaitInv, Reap
    PROVE  WaitInv'
<1>1. \A r \in Repos : mirror[r] \in MirrorRow
  BY DEF TypeOK
<1>2. \A r \in Repos : /\ mirror'[r].wait = mirror[r].wait
                       /\ mirror'[r].interval = mirror[r].interval
  BY <1>1 DEF Reap, MirrorRow
<1>3. \A i \in RunIds : runs[i] \in RunRow
  BY DEF TypeOK
<1>4. \A i \in RunIds : runs'[i].status = "running" => runs'[i] = runs[i]
  BY <1>3 DEF Reap, RunRow
<1>5. WaitQuiet
  BY <1>2, <1>4 DEF Reap, WaitQuiet, TypeOK
<1>6. QED BY <1>5, QuietWait DEF Reap

LEMMA DropWait ==
    ASSUME TypeOK, WaitInv, NEW r, DropRepo(r), faults' = faults
    PROVE  WaitInv'
<1>1. \A q \in configured' : q \in configured /\ mirror'[q] = mirror[q]
  BY DEF DropRepo, TypeOK
<1>2. \A i \in RunIds : runs'[i].status = "running" => runs'[i] = runs[i]
  BY DEF DropRepo, NoRunRow
<1>3. WaitQuiet
  BY <1>1, <1>2 DEF WaitQuiet
<1>4. QED BY <1>3, QuietWait

LEMMA SyncWait ==
    ASSUME TypeOK, LockInv, RunInv, OwnInv, ShowInv, WaitInv, NEW s \in Syncs, SyncNext(s)
    PROVE  WaitInv'
<1>1. CASE UNCHANGED <<configured, mirror, runs, faults>>
  BY <1>1, QuietWait DEF WaitQuiet
<1>2. CASE CreateConfigure(s)
  <2>1. CASE Expired(s) \/ sync[s].repo \notin repos
    BY <1>1, <1>2, <2>1 DEF CreateConfigure
  <2>2. CASE ~(Expired(s) \/ sync[s].repo \notin repos)
    <3>1. sync[s].repo \in Repos
      BY <2>2 DEF TypeOK
    <3>2. QED BY <1>2, <2>2, <3>1, UpsertWait DEF CreateConfigure
  <2>3. QED BY <2>1, <2>2
<1>3. CASE Rollback(s)
  BY <1>1, <1>3, DropWait DEF Rollback
<1>4. CASE StartRun(s)
  <2>1. CASE Expired(s) \/ sync[s].repo \notin repos
    BY <1>1, <1>4, <2>1 DEF StartRun
  <2>2. QED BY <1>4, <2>1, StartRunWait
<1>5. CASE FinishRun(s)
  <2>1. \A i \in RunIds : runs'[i].status = "running" => runs'[i] = runs[i]
    <3>1. \A i \in RunIds : runs[i] \in RunRow
      BY DEF TypeOK
    <3>2. Outcome(s) # "running"
      BY DEF Outcome
    <3>3. QED BY <1>5, <3>1, <3>2 DEF FinishRun, RunRow, TypeOK
  <2>2. QED BY <1>5, <2>1, QuietWait DEF FinishRun, WaitQuiet
<1>6. CASE PruneRuns(s)
  BY <1>6, QuietWait DEF PruneRuns, WaitQuiet, NoRunRow
<1>7. QED BY <1>1, <1>2, <1>3, <1>4, <1>5, <1>6, PublishWait
          DEF SyncNext, Lock, Statement, Acquire, GiveUp, Transfer

LEMMA StepWait ==
    ASSUME TypeOK, LockInv, RunInv, OwnInv, ShowInv, WaitInv, [Next]_vars
    PROVE  WaitInv'
<1>1. CASE UNCHANGED <<configured, mirror, runs, faults>>
  BY <1>1, QuietWait DEF WaitQuiet
<1>2. CASE UserNext
  <2>1. ASSUME NEW r \in Repos, Remove(r) PROVE WaitInv'
    <3>1. \A q \in configured' : q \in configured /\ mirror'[q] = mirror[q]
      BY <2>1 DEF Remove, TypeOK
    <3>2. QED BY <2>1, <3>1, QuietWait DEF Remove, WaitQuiet
  <2>2. QED BY <1>1, <1>2, <2>1, UpsertWait, DropWait
            DEF UserNext, DeleteRepo, Configure, RequestSync, AutoPush, CreateMirrorRepo,
                Disconnect
<1>3. CASE \E s \in Syncs : SyncNext(s)
  BY <1>3, SyncWait
<1>4. CASE WorkerNext
  BY <1>1, <1>4, ReapWait DEF WorkerNext, QueryDue, EndTick, Dispatch
<1>5. CASE FaultNext
  <2>1. faults \in Nat /\ faults' = faults + 1
    BY <1>5, MirrorAssumption DEF FaultNext, Crash, WorkerQueryFails, StatementFails, TypeOK
  <2>2. faults' # 0
    BY <2>1
  <2>3. QED BY <2>2 DEF WaitInv
<1>6. CASE UNCHANGED vars
  BY <1>1, <1>6 DEF vars
<1>7. QED BY <1>2, <1>3, <1>4, <1>5, <1>6, TickWait DEF Next

\* Until the first fault, the mirror of a run found stuck is due, or waits for
\* the rest of an interval that was three times its present one when the run
\* began: the reaper, which leaves next_run_at alone, brings it back no later.
THEOREM StuckMirrorsArePlanned == Spec => []StuckMirrorIsPlanned
<1>1. TypeOK /\ WaitInv => StuckMirrorIsPlanned
  BY DEF TypeOK, WaitInv, StuckMirrorIsPlanned, Stuck, RunsOf, Within
<1>2. QED BY <1>1, InitType, StepType, LockInit, StepLock, RunInit, StepRun, HistoryInit,
             StepHistory, ShowInit, StepShow, WaitInit, StepWait, PTL DEF Spec
-----------------------------------------------------------------------------
(* What leaves a mirror behind *)

\* Before and after faults: while the mirror reads running, the run in flight of
\* its repository does too, and nobody is past publishing.
LeadInv ==
    \A s \in Syncs :
        sync[s].repo \in configured /\ mirror[sync[s].repo].status = "running" =>
            /\ sync[s].pc \in InFlight => runs[sync[s].run].status = "running"
            /\ sync[s].pc # "prune"

LEMMA LeadInit == Init => LeadInv
BY DEF Init, LeadInv

\* Publishing is the only way to the third statement of finishRun.
PruneStays ==
    \A t \in Syncs : sync'[t].pc = "prune" =>
        sync[t].pc = "prune" /\ sync'[t].repo = sync[t].repo

\* A running run of a mirrored repository is not touched.
RunningStays ==
    \A i \in RunIds : runs[i].status = "running" /\ runs[i].repo \in configured' =>
        runs'[i].status = "running" /\ runs'[i].repo = runs[i].repo

\* A mirror that is abandoned in this step.
NewlyAbandoned(r) ==
    r \in configured' /\ Abandoned(r)' /\ ~(r \in configured /\ Abandoned(r))

LEMMA LeavePrune ==
    ASSUME TypeOK, NEW s \in Syncs, NEW failed, Leave(s, failed)
    PROVE  PruneStays
BY DEF Leave, TypeOK, Sync, IdleSync, PruneStays

LEMMA SpawnPrune ==
    ASSUME TypeOK, NEW s \in Syncs, NEW r, NEW trigger,
           NEW pc \in {"waiting", "configuring"}, NEW age, Spawn(s, r, trigger, pc, age)
    PROVE  PruneStays
BY DEF Spawn, TypeOK, IdleSync, PruneStays

LEMMA StepPrune ==
    ASSUME TypeOK, Next, ~\E s \in Syncs : PublishResult(s)
    PROVE  PruneStays
<1>1. CASE UNCHANGED sync
  BY <1>1 DEF PruneStays
<1>2. Handlers \subseteq Syncs /\ Slots \subseteq Syncs
  BY DEF Syncs
<1>3. CASE UserNext
  <2>1. ASSUME NEW s \in Syncs, Disconnect(s) PROVE PruneStays
    BY <2>1 DEF Disconnect, TypeOK, Sync, PruneStays
  <2>2. QED BY <1>1, <1>2, <1>3, <2>1, SpawnPrune
            DEF UserNext, Remove, DeleteRepo, Configure, RequestSync, AutoPush, CreateMirrorRepo
<1>4. ASSUME NEW s \in Syncs, SyncNext(s) PROVE PruneStays
  <2>1. CASE \E failed \in BOOLEAN : Leave(s, failed)
    BY <2>1, LeavePrune
  <2>2. (~sync[s].ok) \in BOOLEAN
    OBVIOUS
  <2>3. CASE CreateConfigure(s)
    <3>1. CASE sync' = [sync EXCEPT ![s].pc = "waiting"]
      BY <3>1 DEF TypeOK, Sync, PruneStays
    <3>2. QED BY <2>1, <2>3, <3>1 DEF CreateConfigure
  <2>4. CASE StartRun(s)
    <3>1. CASE sync' = [sync EXCEPT ![s].pc = "running", ![s].run = NewRun]
      BY <3>1 DEF TypeOK, Sync, PruneStays
    <3>2. QED BY <2>1, <2>4, <3>1 DEF StartRun
  <2>5. CASE Rollback(s) \/ GiveUp(s) \/ PruneRuns(s)
    BY <2>1, <2>2, <2>5 DEF Rollback, GiveUp, PruneRuns
  <2>6. CASE Acquire(s) \/ Transfer(s) \/ FinishRun(s)
    BY <2>6 DEF Acquire, Transfer, FinishRun, TypeOK, Sync, PruneStays
  <2>7. QED BY <1>4, <2>3, <2>4, <2>5, <2>6 DEF SyncNext, Lock, Statement
<1>5. CASE WorkerNext
  BY <1>1, <1>2, <1>5, SpawnPrune DEF WorkerNext, Reap, QueryDue, EndTick, Dispatch
<1>6. CASE Tick
  BY <1>6 DEF Tick, Older, TypeOK, Sync, PruneStays
<1>7. CASE FaultNext
  BY <1>1, <1>7, LeavePrune DEF FaultNext, Crash, WorkerQueryFails, StatementFails, IdleSync,
                                PruneStays
<1>8. QED BY <1>3, <1>4, <1>5, <1>6, <1>7 DEF Next

\* In a calm step the run in flight keeps its row, which is the latest.
LEMMA CalmLead ==
    ASSUME TypeOK, OwnInv, HistoryInv, LeadInv, Calm, PruneStays
    PROVE  LeadInv'
<1>1. SUFFICES ASSUME NEW t \in Syncs, sync'[t].repo \in configured',
                      mirror'[sync'[t].repo].status = "running"
               PROVE  /\ sync'[t].pc \in InFlight => runs'[sync'[t].run].status = "running"
                      /\ sync'[t].pc # "prune"
  BY DEF LeadInv
<1>2. /\ sync'[t].repo \in configured
      /\ mirror[sync'[t].repo].status = "running"
  BY <1>1 DEF Calm, MirrorStays
<1>3. ASSUME sync'[t].pc \in InFlight PROVE runs'[sync'[t].run].status = "running"
  <2>1. /\ sync[t].pc \in InFlight
        /\ sync'[t].repo = sync[t].repo /\ sync'[t].run = sync[t].run
    BY <1>3 DEF Calm, Steady, Busy
  <2>2. /\ sync[t].run \in RunIds /\ runs[sync[t].run].status = "running"
        /\ runs[sync[t].run].repo = sync[t].repo /\ runs[sync[t].run].newer = 0
    BY <1>2, <2>1 DEF LeadInv, OwnInv, HistoryInv
  <2>3. ~(0 >= HistoryLimit)
    BY MirrorAssumption
  <2>4. RowStays(sync[t].run)
    BY <2>2 DEF Calm
  <2>5. QED BY <1>1, <2>1, <2>2, <2>3, <2>4 DEF RowStays
<1>4. sync'[t].pc # "prune"
  BY <1>2 DEF PruneStays, LeadInv
<1>5. QED BY <1>3, <1>4

\* A calm step that leaves the running runs alone abandons nothing.
LEMMA CalmAbandons ==
    ASSUME Calm, RunningStays, NEW r, NewlyAbandoned(r)
    PROVE  FALSE
<1>1. /\ r \in configured' /\ mirror'[r].status = "running" /\ ~Syncing(r)'
      /\ \A i \in RunsOf(r)' : runs'[i].status # "running"
  BY DEF NewlyAbandoned, Abandoned
<1>2. r \in configured /\ mirror[r].status = "running"
  BY <1>1 DEF Calm, MirrorStays
<1>3. ~Syncing(r)
  BY <1>1 DEF Syncing, Calm, Steady, Busy, InFlight
<1>4. \A i \in RunsOf(r) : runs[i].status # "running"
  BY <1>1 DEF RunningStays, RunsOf
<1>5. QED BY <1>2, <1>3, <1>4 DEF NewlyAbandoned, Abandoned

\* Only FinishRun, the retention DELETE and the reaper end or take running rows
\* of a mirrored repository.
LEMMA StepRunningStays ==
    ASSUME TypeOK, Next, ~Reap, ~\E s \in Syncs : FinishRun(s) \/ PruneRuns(s)
    PROVE  RunningStays
<1>1. CASE UNCHANGED runs
  BY <1>1 DEF RunningStays
<1>2. ASSUME NEW r, DropRepo(r) PROVE RunningStays
  BY <1>2 DEF DropRepo, RunningStays
<1>3. CASE UserNext
  BY <1>1, <1>2, <1>3 DEF UserNext, Remove, DeleteRepo, Configure, RequestSync, AutoPush,
                          CreateMirrorRepo, Disconnect
<1>4. ASSUME NEW s \in Syncs, SyncNext(s) PROVE RunningStays
  <2>1. CASE StartRun(s)
    <3>1. CASE Expired(s) \/ sync[s].repo \notin repos
      BY <1>1, <2>1, <3>1 DEF StartRun
    <3>2. QED BY <2>1, <3>1, StartRunEffect DEF RunningStays
  <2>2. QED BY <1>1, <1>2, <1>4, <2>1 DEF SyncNext, Lock, Statement, CreateConfigure, Rollback,
                Acquire, GiveUp, Transfer, PublishResult
<1>5. CASE Tick
  <2>1. \A i \in RunIds : runs[i] \in RunRow
    BY DEF TypeOK
  <2>2. QED BY <1>5, <2>1 DEF Tick, RunningStays, RunRow
<1>6. CASE WorkerNext \/ FaultNext
  BY <1>1, <1>6 DEF WorkerNext, QueryDue, EndTick, Dispatch, FaultNext, Crash, WorkerQueryFails,
                    StatementFails
<1>7. QED BY <1>3, <1>4, <1>5, <1>6 DEF Next

\* Whoever starts a run is alone inside, and the mirror it marks is being synced.
LEMMA StartRunLead ==
    ASSUME TypeOK, LockInv, OwnInv, LeadInv, NEW s \in Syncs, StartRun(s),
           ~(Expired(s) \/ sync[s].repo \notin repos)
    PROVE  LeadInv' /\ \A r \in configured' : ~NewlyAbandoned(r)
<1>1. /\ sync[s].pc = "loaded" /\ configured' = configured
      /\ sync'[s].pc = "running" /\ sync'[s].run = NewRun /\ sync'[s].repo = sync[s].repo
      /\ \A t \in Syncs \ {s} : sync'[t] = sync[t]
  BY StartRunEffect
<1>2. /\ runs'[NewRun].status = "running"
      /\ \A t \in Syncs : sync[t].run # NewRun
      /\ \A i \in RunIds \ {NewRun} : runs'[i].status = runs[i].status
      /\ \A r \in configured \ {sync[s].repo} : mirror'[r] = mirror[r]
  <2>1. runs'[NewRun] = [status |-> "running", repo |-> sync[s].repo, age |-> 0, newer |-> 0]
    BY StartRunEffect
  <2>2. QED BY <2>1, StartRunEffect
<1>3. ASSUME NEW t \in Syncs, sync'[t].repo \in configured',
             mirror'[sync'[t].repo].status = "running"
      PROVE  /\ sync'[t].pc \in InFlight => runs'[sync'[t].run].status = "running"
             /\ sync'[t].pc # "prune"
  <2>1. CASE t = s
    BY <1>1, <1>2, <2>1
  <2>2. CASE t # s /\ sync[t].repo = sync[s].repo
    <3>1. sync[t].pc \notin Holding
      BY <1>1, <2>2 DEF LockInv, Holding
    <3>2. QED BY <1>1, <2>2, <3>1 DEF Holding, InFlight
  <2>3. CASE t # s /\ sync[t].repo # sync[s].repo
    <3>1. /\ sync'[t] = sync[t] /\ sync[t].repo \in configured
          /\ mirror[sync[t].repo].status = "running"
      BY <1>1, <1>2, <1>3, <2>3
    <3>2. sync[t].pc \in InFlight => sync[t].run \in RunIds \ {NewRun}
      BY <1>2 DEF OwnInv, Busy
    <3>3. QED BY <1>2, <3>1, <3>2 DEF LeadInv
  <2>4. QED BY <2>1, <2>2, <2>3
<1>4. ASSUME NEW r \in configured', NewlyAbandoned(r) PROVE FALSE
  <2>1. /\ r \in configured /\ mirror'[r].status = "running" /\ ~Syncing(r)'
        /\ \A i \in RunsOf(r)' : runs'[i].status # "running"
    BY <1>4, StartRunEffect DEF NewlyAbandoned, Abandoned
  <2>2. r # sync[s].repo
    BY <1>1, <2>1 DEF Syncing
  <2>3. mirror[r].status = "running"
    BY <2>1, <2>2, StartRunEffect
  <2>4. ~Syncing(r)
    BY <1>1, <2>1, <2>2 DEF Syncing
  <2>5. \A i \in RunsOf(r) : runs[i].status # "running"
    <3>1. ASSUME NEW i \in RunIds, runs[i].status = "running", runs[i].repo = r PROVE FALSE
      <4>1. runs'[i].status = "running" /\ runs'[i].repo = r
        BY <3>1, StartRunEffect
      <4>2. QED BY <2>1, <4>1 DEF RunsOf
    <3>2. QED BY <3>1 DEF RunsOf
  <2>6. QED BY <1>4, <2>1, <2>3, <2>4, <2>5 DEF NewlyAbandoned, Abandoned
<1>5. LeadInv'
  BY <1>3 DEF LeadInv
<1>6. QED BY <1>4, <1>5

\* Whoever finishes a run is still to publish its result.
LEMMA FinishRunLead ==
    ASSUME TypeOK, RunInv, OwnInv, LeadInv, NEW s \in Syncs, FinishRun(s)
    PROVE  LeadInv' /\ \A r \in configured' : ~NewlyAbandoned(r)
<1> DEFINE i == sync[s].run
<1>1. /\ sync[s].pc = "finish" /\ i \in RunIds
      /\ UNCHANGED <<configured, mirror>>
      /\ sync'[s].pc = "publish" /\ sync'[s].repo = sync[s].repo
      /\ \A t \in Syncs \ {s} : sync'[t] = sync[t]
  BY DEF FinishRun, RunInv, Tracked, InFlight, TypeOK, Sync
<1>2. \A j \in RunIds \ {i} : runs'[j] = runs[j]
  BY DEF FinishRun, TypeOK
<1>3. \A t \in Syncs \ {s} : sync[t].pc \in InFlight => sync[t].run \in RunIds \ {i}
  BY <1>1, MirrorAssumption DEF RunInv, Tracked
<1>4. LeadInv'
  BY <1>1, <1>2, <1>3 DEF LeadInv, InFlight
<1>5. ASSUME NEW r \in configured', NewlyAbandoned(r) PROVE FALSE
  <2>1. /\ r \in configured /\ mirror[r].status = "running" /\ ~Syncing(r)'
        /\ \A j \in RunsOf(r)' : runs'[j].status # "running"
    BY <1>1, <1>5 DEF NewlyAbandoned, Abandoned
  <2>2. r # sync[s].repo /\ ~Syncing(r)
    BY <1>1, <2>1 DEF Syncing
  <2>3. i \notin RunsOf(r)
    BY <1>1, <2>2 DEF OwnInv, RunsOf, Busy, InFlight
  <2>4. \A j \in RunsOf(r) : runs[j].status # "running"
    BY <1>2, <2>1, <2>3 DEF RunsOf
  <2>5. QED BY <1>5, <2>1, <2>2, <2>4 DEF NewlyAbandoned, Abandoned
<1>6. QED BY <1>4, <1>5

\* A mirror whose result is published does not read running.
LEMMA PublishLead ==
    ASSUME TypeOK, LeadInv, NEW s \in Syncs, PublishResult(s)
    PROVE  LeadInv' /\ \A r \in configured' : ~NewlyAbandoned(r)
<1>1. /\ sync[s].pc = "publish"
      /\ UNCHANGED <<configured, runs>>
      /\ sync'[s].pc = "prune" /\ sync'[s].repo = sync[s].repo
      /\ \A t \in Syncs \ {s} : sync'[t] = sync[t]
  BY DEF PublishResult, TypeOK, Sync
<1>2. \A q \in configured \ {sync[s].repo} : mirror'[q] = mirror[q]
  BY DEF PublishResult, TypeOK
<1>3. sync[s].repo \in configured => mirror'[sync[s].repo].status # "running"
  <2>1. sync[s].repo \in configured => mirror[sync[s].repo] \in MirrorRow
                                       /\ sync[s].repo \in Repos
    BY DEF TypeOK
  <2>2. QED BY <2>1 DEF PublishResult, PublishedRow, Outcome, TypeOK, MirrorRow
<1>4. LeadInv'
  BY <1>1, <1>2, <1>3 DEF LeadInv
<1>5. ASSUME NEW r \in configured', NewlyAbandoned(r) PROVE FALSE
  <2>1. r \in configured \ {sync[s].repo}
    BY <1>1, <1>3, <1>5 DEF NewlyAbandoned, Abandoned
  <2>2. Syncing(r)' = Syncing(r)
    BY <1>1, <2>1 DEF Syncing
  <2>3. QED BY <1>1, <1>2, <1>5, <2>1, <2>2 DEF NewlyAbandoned, Abandoned, RunsOf
<1>6. QED BY <1>4, <1>5

\* The retention DELETE may take a running row that a fault has orphaned, but
\* then the mirror has just been published.
LEMMA PruneLead ==
    ASSUME TypeOK, OwnInv, HistoryInv, LeadInv, NEW s \in Syncs, PruneRuns(s)
    PROVE  LeadInv' /\ \A r \in configured' : ~NewlyAbandoned(r)
<1>1. Calm /\ PruneStays
  BY SyncCalm, LeavePrune DEF PruneRuns
<1>2. ASSUME NEW r \in configured', NewlyAbandoned(r) PROVE FALSE
  <2>1. /\ r \in configured /\ mirror[r].status = "running" /\ ~Syncing(r)'
        /\ \A i \in RunsOf(r)' : runs'[i].status # "running"
    BY <1>2 DEF PruneRuns, NewlyAbandoned, Abandoned
  <2>2. r # sync[s].repo
    BY <2>1 DEF PruneRuns, LeadInv
  <2>3. \A i \in RunsOf(r) : runs'[i] = runs[i]
    BY <2>2 DEF PruneRuns, Prunable, RunsOf
  <2>4. ~Syncing(r)
    BY <1>1, <2>1 DEF Syncing, Calm, Steady, Busy, InFlight
  <2>5. QED BY <1>2, <2>1, <2>3, <2>4 DEF NewlyAbandoned, Abandoned, RunsOf
<1>3. QED BY <1>1, <1>2, CalmLead

\* The reaper takes a mirror out of running together with its runs.
LEMMA ReapLead ==
    ASSUME TypeOK, OwnInv, LeadInv, Reap
    PROVE  LeadInv' /\ \A r \in configured' : ~NewlyAbandoned(r)
<1>1. UNCHANGED <<configured, sync>> /\ \A i \in RunIds \ Stuck : runs'[i] = runs[i]
  BY DEF Reap
<1>2. ASSUME NEW r \in configured, mirror'[r].status = "running"
      PROVE  /\ mirror[r].status = "running"
             /\ \A i \in Stuck : runs[i].repo # r
  <2>1. r \in Repos /\ mirror[r] \in MirrorRow
    BY DEF TypeOK
  <2>2. QED BY <1>2, <2>1 DEF Reap, MirrorRow
<1>3. ASSUME NEW t \in Syncs, sync[t].repo \in configured,
             mirror'[sync[t].repo].status = "running"
      PROVE  /\ sync[t].pc \in InFlight => runs'[sync[t].run].status = "running"
             /\ sync[t].pc # "prune"
  <2>1. mirror[sync[t].repo].status = "running"
    BY <1>2, <1>3
  <2>2. ASSUME sync[t].pc \in InFlight
        PROVE  sync[t].run \in RunIds \ Stuck /\ runs[sync[t].run].status = "running"
    BY <1>2, <1>3, <2>1, <2>2 DEF LeadInv, OwnInv, Busy
  <2>3. QED BY <1>1, <1>3, <2>1, <2>2 DEF LeadInv
<1>4. LeadInv'
  BY <1>1, <1>3 DEF LeadInv
<1>5. ASSUME NEW r \in configured', NewlyAbandoned(r) PROVE FALSE
  <2>1. /\ r \in configured /\ mirror'[r].status = "running" /\ ~Syncing(r)
        /\ \A i \in RunsOf(r)' : runs'[i].status # "running"
    BY <1>1, <1>5 DEF NewlyAbandoned, Abandoned, Syncing
  <2>2. \A i \in RunsOf(r) : runs'[i] = runs[i]
    BY <1>1, <1>2, <2>1 DEF RunsOf
  <2>3. QED BY <1>2, <1>5, <2>1, <2>2 DEF NewlyAbandoned, Abandoned, RunsOf
<1>6. QED BY <1>4, <1>5

\* A goroutine that is lost before it finishes its run leaves the run running,
\* for the reaper; one that is lost before it publishes leaves nothing.
LEMMA FaultLead ==
    ASSUME TypeOK, OwnInv, LeadInv, FaultNext
    PROVE  /\ LeadInv'
           /\ \A r \in configured' : NewlyAbandoned(r) =>
                 /\ faults' > faults
                 /\ \E s \in Syncs : sync[s].repo = r /\ sync[s].pc = "publish"
<1>1. faults' > faults
  <2>1. faults \in Nat /\ faults' = faults + 1
    BY MirrorAssumption DEF FaultNext, Crash, WorkerQueryFails, StatementFails, TypeOK
  <2>2. QED BY <2>1
<1>2. UNCHANGED <<repos, configured, mirror, runs>>
  BY DEF FaultNext, Crash, WorkerQueryFails, StatementFails
<1>3. ASSUME NEW t \in Syncs
      PROVE  sync'[t] = sync[t] \/ sync'[t].pc \in {"idle", "rollback"}
  <2>1. ASSUME NEW s \in Syncs, StatementFails(s)
        PROVE  sync'[t] = sync[t] \/ sync'[t].pc \in {"idle", "rollback"}
    BY <2>1 DEF StatementFails, Leave, TypeOK, Sync, IdleSync
  <2>2. QED BY <2>1 DEF FaultNext, Crash, WorkerQueryFails, IdleSync
<1>4. LeadInv'
  BY <1>2, <1>3 DEF LeadInv, InFlight
<1>5. ASSUME NEW r \in configured', NewlyAbandoned(r)
      PROVE  \E s \in Syncs : sync[s].repo = r /\ sync[s].pc = "publish"
  <2>1. /\ r \in configured /\ mirror[r].status = "running"
        /\ \A i \in RunsOf(r) : runs[i].status # "running"
        /\ Syncing(r)
    BY <1>2, <1>5 DEF NewlyAbandoned, Abandoned, RunsOf
  <2>2. PICK s \in Syncs : sync[s].repo = r /\ sync[s].pc \in {"running", "finish", "publish"}
    BY <2>1 DEF Syncing
  <2>3. ASSUME sync[s].pc \in InFlight PROVE FALSE
    <3>1. sync[s].run \in RunIds /\ runs[sync[s].run].status = "running"
      BY <2>1, <2>2, <2>3 DEF LeadInv, OwnInv, Busy
    <3>2. runs[sync[s].run].repo = r
      BY <2>2, <2>3, <3>1 DEF OwnInv, Busy
    <3>3. QED BY <2>1, <3>1, <3>2 DEF RunsOf
  <2>4. QED BY <2>2, <2>3 DEF InFlight
<1>6. QED BY <1>1, <1>4, <1>5

\* Steps in which nothing is abandoned, whatever r is.
LEMMA CalmStepLead ==
    ASSUME TypeOK, OwnInv, HistoryInv, LeadInv, Next, Calm, ~Reap,
           ~\E s \in Syncs : FinishRun(s) \/ PublishResult(s) \/ PruneRuns(s)
    PROVE  LeadInv' /\ \A r \in configured' : ~NewlyAbandoned(r)
BY StepPrune, StepRunningStays, CalmLead, CalmAbandons

LEMMA StepLead ==
    ASSUME TypeOK, LockInv, RunInv, HistoryInv, OwnInv, LeadInv, Next
    PROVE  /\ LeadInv'
           /\ \A r \in configured' : NewlyAbandoned(r) =>
                 /\ faults' > faults
                 /\ \E s \in Syncs : sync[s].repo = r /\ sync[s].pc = "publish"
<1>1. CASE FaultNext
  BY <1>1, FaultLead
<1>2. CASE Reap
  BY <1>2, ReapLead
<1>3. CASE \E s \in Syncs : FinishRun(s) \/ PublishResult(s) \/ PruneRuns(s)
  BY <1>3, FinishRunLead, PublishLead, PruneLead
<1>4. ASSUME NEW s \in Syncs, StartRun(s), ~(Expired(s) \/ sync[s].repo \notin repos)
      PROVE  LeadInv' /\ \A r \in configured' : ~NewlyAbandoned(r)
  BY <1>4, StartRunLead
<1>5. ASSUME ~FaultNext, ~Reap,
             ~\E s \in Syncs : FinishRun(s) \/ PublishResult(s) \/ PruneRuns(s),
             ~\E s \in Syncs : StartRun(s) /\ ~(Expired(s) \/ sync[s].repo \notin repos)
      PROVE  Calm
  <2>1. CASE \E s \in Syncs : SyncNext(s)
    BY <1>5, <2>1, SyncCalm DEF SyncNext, Lock, Statement
  <2>2. QED BY <1>5, <2>1, UserCalm, WorkerCalm, TickCalm DEF Next
<1>6. QED BY <1>1, <1>2, <1>3, <1>4, <1>5, CalmStepLead

\* A mirror is left running with nothing to bring it back only by a fault that
\* takes the goroutine that has finished its run and not yet published, for every
\* number of repositories, handlers, slots and faults.
THEOREM LostResultsAbandonOnly == Spec => OnlyLostResultsAbandon
<1>1. TypeOK /\ LockInv /\ RunInv /\ HistoryInv /\ OwnInv /\ LeadInv /\ [Next]_vars
         => LeadInv'
  <2>1. UNCHANGED vars => (LeadInv => LeadInv')
    BY DEF vars, LeadInv
  <2>2. QED BY <2>1, StepLead
<1>2. TypeOK /\ LockInv /\ RunInv /\ HistoryInv /\ OwnInv /\ LeadInv /\ [Next]_vars
         => [\A r \in configured' : Abandoned(r)' /\ ~(r \in configured /\ Abandoned(r)) =>
                /\ faults' > faults
                /\ \E s \in Syncs : sync[s].repo = r /\ sync[s].pc = "publish"]_vars
  BY StepLead DEF NewlyAbandoned
<1>3. QED BY <1>1, <1>2, InitType, StepType, LockInit, StepLock, RunInit, StepRun, HistoryInit,
             StepHistory, ShowInit, StepShow, LeadInit, PTL DEF Spec, OnlyLostResultsAbandon
=============================================================================
