------------------------------- MODULE Mirror -------------------------------
(***************************************************************************)
(* The GitHub mirror service: the tables repo_mirrors (one row per         *)
(* mirrored repository) and repo_mirror_runs (the run history), the        *)
(* per-repository in-process mutex, the goroutines that perform one sync   *)
(* each (manual, auto-push, scheduled, initial clone), and the background  *)
(* worker that reaps abandoned runs and dispatches the mirrors that are    *)
(* due.  A process crash loses the goroutines, the mutexes and the worker, *)
(* and keeps the tables.                                                   *)
(*                                                                         *)
(* Time is digital: one Tick is one reaping unit (ten minutes), and steps  *)
(* that only take a query or a scheduling decision happen between ticks.   *)
(***************************************************************************)
EXTENDS Integers, FiniteSets, FiniteSetsExt

CONSTANTS
    Repos,        \* repository ids
    Handlers,     \* bound: syncs of users (manual, auto-push, clone) at once
    Slots,        \* the runDueMaxInflight slots of RunDue's semaphore
    RunIds,       \* ids of run rows; a deleted row's id may be used again
    None,         \* no repository, no run, no lock holder
    Requests,     \* bodies of the configure requests
    MinReap,      \* the 600 s floor of the reaper's threshold, in ticks
    SyncTimeout,  \* the context deadline of a manual or scheduled sync, in ticks
    AgeCap,       \* bound: ages of runs stop growing here
    DueLimit,     \* the LIMIT of RunDue's query
    HistoryLimit, \* runs kept per repository
    MaxFaults     \* bound: crashes and failed database statements

Syncs      == Handlers \cup Slots  \* goroutines in SyncNow or InitialClone
Directions == {"push", "pull"}
Triggers   == {"manual", "scheduled", "push_event", "initial_clone"}

Request == [direction : Directions, interval : Nat, autoPush : BOOLEAN]

ASSUME MirrorAssumption ==
    /\ None \notin Repos \cup Syncs \cup RunIds
    /\ Handlers \cap Slots = {}
    /\ Requests \subseteq Request
    /\ MinReap \in Nat \ {0}
    /\ SyncTimeout \in Nat \ {0}
    /\ SyncTimeout < 3 * MinReap
    /\ AgeCap \in Nat
    /\ 3 * MinReap < AgeCap
    /\ \A q \in Requests : 3 * q.interval < AgeCap
    /\ {DueLimit, HistoryLimit} \subseteq Nat \ {0}
    /\ MaxFaults \in Nat

VARIABLES
    repos,      \* repositories that exist
    configured, \* repositories with a repo_mirrors row
    mirror,     \* the repo_mirrors rows
    runs,       \* the repo_mirror_runs rows
    lock,       \* holder of each repository's mutex
    sync,       \* the sync goroutines
    sched,      \* the mirror worker
    faults      \* crashes and statement failures so far

vars == <<repos, configured, mirror, runs, lock, sync, sched, faults>>
-----------------------------------------------------------------------------
(* Rows and records *)

\* wait is the time left to next_run_at; NULL and a past time are both 0,
\* RunDue treats them alike.
MirrorRow == [direction : Directions, interval : Nat, autoPush : BOOLEAN,
              wait : Nat,
              status : {"pending", "running", "success", "failed"}]

BlankMirror == [direction |-> "pull", interval |-> 0, autoPush |-> FALSE,
                wait |-> 0, status |-> "pending"]

\* age is the time since started_at of a running run; newer counts the repository's runs that
\* started later (all that ORDER BY started_at is used for), up to HistoryLimit.
RunRow == [status : {"none", "running", "success", "failed"},
           repo : Repos \cup {None}, age : 0 .. AgeCap,
           newer : 0 .. HistoryLimit]

NoRunRow == [status |-> "none", repo |-> None, age |-> 0, newer |-> 0]

\* Where a goroutine is: about to upsert the mirror of a repository it has just
\* created; blocked on (or about to take) the mutex; row loaded; git running;
\* about to execute finishRun's first, second and third statement; about to
\* roll the created repository back.
Pcs == {"idle", "configuring", "waiting", "loaded", "running", "finish",
        "publish", "prune", "rollback"}

\* age is the time since the context was made (timed triggers only), gone says
\* that the HTTP client of an initial clone has disconnected.
Sync == [pc : Pcs, repo : Repos \cup {None}, trigger : Triggers,
         run : RunIds \cup {None}, ok : BOOLEAN, age : 0 .. SyncTimeout,
         gone : BOOLEAN]

IdleSync == [pc |-> "idle", repo |-> None, trigger |-> "manual", run |-> None,
             ok |-> FALSE, age |-> 0, gone |-> FALSE]

IdleSched == [pc |-> "idle", todo |-> {}, age |-> 0]

\* Between lock.Lock() and the deferred lock.Unlock().
Holding == {"loaded", "running", "finish", "publish", "prune"}

Init ==
    /\ repos \in SUBSET Repos
    /\ configured = {}
    /\ mirror = [r \in Repos |-> BlankMirror]
    /\ runs = [i \in RunIds |-> NoRunRow]
    /\ lock = [r \in Repos |-> None]
    /\ sync = [s \in Syncs |-> IdleSync]
    /\ sched = IdleSched
    /\ faults = 0
-----------------------------------------------------------------------------
(* Helpers *)

Larger(a, b) == IF a >= b THEN a ELSE b

Timed(s) == sync[s].trigger \in {"manual", "scheduled"}

\* The sync's context is done: deadline passed, or client disconnected.
Expired(s) == sync[s].gone \/ (Timed(s) /\ sync[s].age >= SyncTimeout)

SyncsOf(r) == {s \in Syncs : sync[s].repo = r}

RunsOf(r) == {i \in RunIds : runs[i].status # "none" /\ runs[i].repo = r}

\* Ids no row has and no goroutine remembers.
FreshRuns == {i \in RunIds : /\ runs[i].status = "none"
                             /\ \A s \in Syncs : sync[s].run # i}

\* uuid_generate_v4: which of them is of no consequence.
NewRun == CHOOSE i \in FreshRuns : TRUE

Spawn(s, r, trigger, pc, age) ==
    /\ sync[s].pc = "idle"
    /\ sync' = [sync EXCEPT ![s] = [IdleSync EXCEPT !.pc = pc, !.repo = r,
                                        !.trigger = trigger, !.age = age]]

\* Mutant of Unlock: an error return forgets the mutex.
UnlockOnSuccessOnly(s) ==
    lock' = [lock EXCEPT ![sync[s].repo] = IF @ = s /\ sync[s].ok THEN None ELSE @]

\* The deferred Unlock, if the goroutine holds the mutex.
Unlock(s) == lock' = [lock EXCEPT ![sync[s].repo] = IF @ = s THEN None ELSE @]

\* The goroutine returns from SyncNow or InitialClone and drops the mutex; the
\* create handler goes on to its rollback when the clone failed.
Leave(s, failed) ==
    /\ sync' = [sync EXCEPT ![s] =
                   IF failed /\ @.trigger = "initial_clone" /\ @.pc # "rollback"
                   THEN [@ EXCEPT !.pc = "rollback", !.run = None]
                   ELSE IdleSync]
    /\ Unlock(s)

\* DELETE FROM repositories, with the ON DELETE CASCADE of both mirror tables.
DropRepo(r) ==
    /\ repos' = repos \ {r}
    /\ configured' = configured \ {r}
    /\ mirror' = [mirror EXCEPT ![r] = BlankMirror]
    /\ runs' = [i \in RunIds |-> IF runs[i].repo = r THEN NoRunRow ELSE runs[i]]

\* Mutant of UpsertedRow: reconfiguring also postpones the next run.
PostponingRow(r, q) ==
    LET old == IF r \in configured THEN mirror[r] ELSE BlankMirror
    IN [old EXCEPT !.direction = q.direction, !.interval = q.interval,
                   !.autoPush = q.autoPush, !.wait = q.interval]

\* The row INSERT ... ON CONFLICT DO UPDATE leaves behind: an existing row keeps
\* last_status and next_run_at.
UpsertedRow(r, q) ==
    LET old == IF r \in configured THEN mirror[r] ELSE BlankMirror
    IN [old EXCEPT !.direction = q.direction, !.interval = q.interval,
                   !.autoPush = q.autoPush]

Upsert(r, q) ==
    /\ configured' = configured \cup {r}
    /\ mirror' = [mirror EXCEPT ![r] = UpsertedRow(r, q)]
-----------------------------------------------------------------------------
(* Requests of users *)

\* Configure accepts a valid request.  What it does with the token decides only
\* whether a later Transfer succeeds.
Configure(r, q) ==
    /\ r \in repos
    /\ Upsert(r, q)
    /\ UNCHANGED <<repos, runs, lock, sync, sched, faults>>

\* Remove deletes the row only: no mutex, and the runs stay.
Remove(r) ==
    /\ r \in configured
    /\ configured' = configured \ {r}
    /\ mirror' = [mirror EXCEPT ![r] = BlankMirror]
    /\ UNCHANGED <<repos, runs, lock, sync, sched, faults>>

DeleteRepo(r) ==
    /\ r \in repos
    /\ DropRepo(r)
    /\ UNCHANGED <<lock, sync, sched, faults>>

\* POST .../mirror/sync: refused while the row says running.
RequestSync(s, r) ==
    /\ r \in configured
    /\ mirror[r].status # "running"
    /\ Spawn(s, r, "manual", "waiting", 0)
    /\ UNCHANGED <<repos, configured, mirror, runs, lock, sched, faults>>

\* The post-receive hook's goroutine.
AutoPush(s, r) ==
    /\ r \in configured
    /\ mirror[r].direction = "push"
    /\ mirror[r].autoPush
    /\ Spawn(s, r, "push_event", "waiting", 0)
    /\ UNCHANGED <<repos, configured, mirror, runs, lock, sched, faults>>

\* POST /api/repos/mirror-create, first half: a new repository under a new id.
CreateMirrorRepo(s, r) ==
    /\ r \notin repos
    /\ SyncsOf(r) = {}
    /\ r \notin sched.todo
    /\ repos' = repos \cup {r}
    /\ Spawn(s, r, "initial_clone", "configuring", 0)
    /\ UNCHANGED <<configured, mirror, runs, lock, sched, faults>>

\* Second half: configure it as a pull mirror, then call InitialClone.
CreateConfigure(s) ==
    /\ sync[s].pc = "configuring"
    /\ IF Expired(s) \/ sync[s].repo \notin repos
       THEN /\ Leave(s, TRUE)
            /\ UNCHANGED <<configured, mirror>>
       ELSE /\ \E q \in Requests :
                  /\ q.direction = "pull" /\ ~q.autoPush
                  /\ Upsert(sync[s].repo, q)
            /\ sync' = [sync EXCEPT ![s].pc = "waiting"]
            /\ UNCHANGED lock
    /\ UNCHANGED <<repos, runs, sched, faults>>

\* The request's context is cancelled when its client goes away.
Disconnect(s) ==
    /\ sync[s].trigger = "initial_clone"
    /\ ~sync[s].gone
    /\ sync' = [sync EXCEPT ![s].gone = TRUE]
    /\ UNCHANGED <<repos, configured, mirror, runs, lock, sched, faults>>

\* The rollback deletes the repository with the request's own context.
Rollback(s) ==
    /\ sync[s].pc = "rollback"
    /\ IF sync[s].gone THEN UNCHANGED <<repos, configured, mirror, runs>>
                       ELSE DropRepo(sync[s].repo)
    /\ Leave(s, FALSE)
    /\ UNCHANGED <<sched, faults>>
-----------------------------------------------------------------------------
(* One sync *)

\* Mutant of CanLock: the per-repository mutex is not taken.
CanLockUnguarded(s) == sync[s].pc = "waiting"

\* lock.Lock() would return.
CanLock(s) == sync[s].pc = "waiting" /\ lock[sync[s].repo] = None

\* Take the mutex and load the row.
Acquire(s) ==
    LET r == sync[s].repo IN
    /\ CanLock(s)
    /\ r \in configured
    /\ ~Expired(s)
    /\ lock' = [lock EXCEPT ![r] = s]
    /\ sync' = [sync EXCEPT ![s].pc = "loaded"]
    /\ UNCHANGED <<repos, configured, mirror, runs, sched, faults>>

\* Take the mutex and fail to load the row: ErrMirrorNotFound, or the context
\* ended while the goroutine was blocked (Lock itself does not look at it).
GiveUp(s) ==
    /\ CanLock(s)
    /\ sync[s].repo \notin configured \/ Expired(s)
    /\ Leave(s, TRUE)
    /\ UNCHANGED <<repos, configured, mirror, runs, sched, faults>>

\* startRun: one transaction inserts the run and marks the mirror.
StartRun(s) ==
    LET r == sync[s].repo IN
    /\ sync[s].pc = "loaded"
    /\ IF Expired(s) \/ r \notin repos
       THEN Leave(s, TRUE) /\ UNCHANGED <<runs, mirror>>
       ELSE /\ FreshRuns # {}
            /\ runs' = [j \in RunIds |->
                    IF j = NewRun THEN [status |-> "running", repo |-> r,
                                   age |-> 0, newer |-> 0]
                    ELSE IF j \in RunsOf(r) /\ runs[j].newer < HistoryLimit
                         THEN [runs[j] EXCEPT !.newer = @ + 1]
                         ELSE runs[j]]
            /\ mirror' = IF r \in configured
                         THEN [mirror EXCEPT ![r].status = "running"]
                         ELSE mirror
            /\ sync' = [sync EXCEPT ![s].pc = "running", ![s].run = NewRun]
            /\ UNCHANGED lock
    /\ UNCHANGED <<repos, configured, sched, faults>>

\* git push or fetch (and decrypting the token before it) succeeds or fails;
\* once the context is done it fails.
Transfer(s) ==
    /\ sync[s].pc = "running"
    /\ \E ok \in BOOLEAN :
          /\ ok => ~Expired(s)
          /\ sync' = [sync EXCEPT ![s].pc = "finish", ![s].ok = ok]
    /\ UNCHANGED <<repos, configured, mirror, runs, lock, sched, faults>>

Outcome(s) == IF sync[s].ok THEN "success" ELSE "failed"

\* finishRun, first statement: by id and whatever the row's status is.
FinishRun(s) ==
    LET i == sync[s].run IN
    /\ sync[s].pc = "finish"
    /\ runs' = IF runs[i].status = "none" THEN runs
               ELSE [runs EXCEPT ![i].status = Outcome(s), ![i].age = 0]
    /\ sync' = [sync EXCEPT ![s].pc = "publish"]
    /\ UNCHANGED <<repos, configured, mirror, lock, sched, faults>>

\* Mutants of PublishedRow: the next run one unit early; a failure leaves the
\* status alone.
EarlyRow(s, row) == [row EXCEPT !.status = Outcome(s), !.wait = row.interval - 1]
SilentFailureRow(s, row) ==
    [row EXCEPT !.status = IF sync[s].ok THEN "success" ELSE @, !.wait = row.interval]

PublishedRow(s, row) == [row EXCEPT !.status = Outcome(s), !.wait = row.interval]

\* finishRun, second statement: by repository, whatever row is there now.
PublishResult(s) ==
    LET r == sync[s].repo IN
    /\ sync[s].pc = "publish"
    /\ mirror' = IF r \in configured
                 THEN [mirror EXCEPT ![r] = PublishedRow(s, @)]
                 ELSE mirror
    /\ sync' = [sync EXCEPT ![s].pc = "prune"]
    /\ UNCHANGED <<repos, configured, runs, lock, sched, faults>>

\* Mutant of Prunable: one row too many.
PrunableTooMany(r) == {i \in RunsOf(r) : runs[i].newer >= HistoryLimit - 1}

\* Rows the retention DELETE removes: all but the newest HistoryLimit.
Prunable(r) == {i \in RunsOf(r) : runs[i].newer >= HistoryLimit}

\* finishRun, third statement, and the return.
PruneRuns(s) ==
    LET r == sync[s].repo IN
    /\ sync[s].pc = "prune"
    /\ runs' = [i \in RunIds |-> IF i \in Prunable(r) THEN NoRunRow ELSE runs[i]]
    /\ Leave(s, ~sync[s].ok)
    /\ UNCHANGED <<repos, configured, mirror, sched, faults>>
-----------------------------------------------------------------------------
(* The worker: ReapStuck, then RunDue *)

\* Mutants of Stuck: the threshold is one interval; finished runs qualify too
\* (their age is not counted, they are old sooner or later); mirrors without an
\* interval are skipped.
StuckAfterInterval == {i \in RunIds :
            /\ runs[i].status = "running"
            /\ runs[i].repo \in configured
            /\ runs[i].age >= mirror[runs[i].repo].interval}
StuckAnyStatus == {i \in RunIds :
            /\ runs[i].status # "none"
            /\ runs[i].repo \in configured
            /\ runs[i].status = "running" =>
                  runs[i].age > 3 * Larger(mirror[runs[i].repo].interval, MinReap)}
StuckPeriodicOnly == {i \in RunIds :
            /\ runs[i].status = "running"
            /\ runs[i].repo \in configured
            /\ mirror[runs[i].repo].interval > 0
            /\ runs[i].age > 3 * Larger(mirror[runs[i].repo].interval, MinReap)}

\* Runs the reaper's query selects.
Stuck == {i \in RunIds :
            /\ runs[i].status = "running"
            /\ runs[i].repo \in configured
            /\ runs[i].age > 3 * Larger(mirror[runs[i].repo].interval, MinReap)}

\* Mutant of Reap: only the runs are marked failed.
ReapRunsOnly ==
    /\ sched.pc = "idle"
    /\ runs' = [i \in RunIds |-> IF i \in Stuck
                                 THEN [runs[i] EXCEPT !.status = "failed", !.age = 0]
                                 ELSE runs[i]]
    /\ sched' = [sched EXCEPT !.pc = "due"]
    /\ UNCHANGED <<repos, configured, mirror, lock, sync, faults>>

Reap ==
    /\ sched.pc = "idle"
    /\ runs' = [i \in RunIds |-> IF i \in Stuck
                                 THEN [runs[i] EXCEPT !.status = "failed", !.age = 0]
                                 ELSE runs[i]]
    /\ mirror' = [r \in Repos |-> IF \E i \in Stuck : runs[i].repo = r
                                  THEN [mirror[r] EXCEPT !.status = "failed"]
                                  ELSE mirror[r]]
    /\ sched' = [sched EXCEPT !.pc = "due"]
    /\ UNCHANGED <<repos, configured, lock, sync, faults>>

\* Mutant of Due: a failed mirror is not retried.
DueAfterSuccess == {r \in configured : /\ mirror[r].interval > 0
                                       /\ mirror[r].status = "success"
                                       /\ mirror[r].wait = 0}

\* Mirrors RunDue's query selects.
Due == {r \in configured : /\ mirror[r].interval > 0
                           /\ mirror[r].status # "running"
                           /\ mirror[r].wait = 0}

\* The query returns at most DueLimit rows, in no particular order.
QueryDue ==
    /\ sched.pc = "due"
    /\ \E batch \in IF Cardinality(Due) <= DueLimit THEN {Due}
                    ELSE kSubset(DueLimit, Due) :
         sched' = IF batch = {} THEN IdleSched
                  ELSE [sched EXCEPT !.pc = "dispatch", !.todo = batch]
    /\ UNCHANGED <<repos, configured, mirror, runs, lock, sync, faults>>

\* One goroutine per selected repository, once a slot of the semaphore is free;
\* the list is the one the query returned, however long ago.
Dispatch(s, r) ==
    /\ r \in sched.todo
    /\ Spawn(s, r, "scheduled", "waiting", sched.age)
    /\ sched' = [sched EXCEPT !.todo = @ \ {r}]
    /\ UNCHANGED <<repos, configured, mirror, runs, lock, faults>>

\* wg.Wait, and the tick returns.
EndTick ==
    /\ sched.pc = "dispatch"
    /\ sched.todo = {}
    /\ \A s \in Slots : sync[s].pc = "idle"
    /\ sched' = IdleSched
    /\ UNCHANGED <<repos, configured, mirror, runs, lock, sync, faults>>
-----------------------------------------------------------------------------
(* Time and faults *)

\* Nothing is left that takes less than a tick: the goroutine is blocked on a
\* held mutex, or its git process runs within its context.
Settled(s) ==
    \/ sync[s].pc = "idle"
    \/ sync[s].pc = "waiting" /\ lock[sync[s].repo] # None
    \/ sync[s].pc = "running" /\ ~Expired(s)

SchedSettled ==
    \/ sched.pc = "idle"
    \/ sched.pc = "dispatch" /\ (sched.todo = {} \/ \A s \in Slots : sync[s].pc # "idle")

Older(s) == IF sync[s].pc # "idle" /\ Timed(s) /\ sync[s].age < SyncTimeout
            THEN [sync[s] EXCEPT !.age = @ + 1] ELSE sync[s]

Tick ==
    /\ \A s \in Syncs : Settled(s)
    /\ SchedSettled
    /\ runs' = [i \in RunIds |->
                  IF runs[i].status = "running" /\ runs[i].age < AgeCap
                  THEN [runs[i] EXCEPT !.age = @ + 1] ELSE runs[i]]
    /\ mirror' = [r \in Repos |-> IF mirror[r].wait > 0
                                  THEN [mirror[r] EXCEPT !.wait = @ - 1]
                                  ELSE mirror[r]]
    /\ sync' = [s \in Syncs |-> Older(s)]
    /\ sched' = IF sched.pc = "dispatch" /\ sched.age < SyncTimeout
                THEN [sched EXCEPT !.age = @ + 1] ELSE sched
    /\ UNCHANGED <<repos, configured, lock, faults>>

\* The process dies and is started again.
Crash ==
    /\ faults < MaxFaults
    /\ faults' = faults + 1
    /\ lock' = [r \in Repos |-> None]
    /\ sync' = [s \in Syncs |-> IdleSync]
    /\ sched' = IdleSched
    /\ UNCHANGED <<repos, configured, mirror, runs>>

\* A statement of a sync fails: the goroutine returns the error (finishRun
\* ignores that of its third statement).
StatementFails(s) ==
    /\ faults < MaxFaults
    /\ faults' = faults + 1
    /\ \/ sync[s].pc \in {"configuring", "loaded", "finish", "publish", "prune", "rollback"}
       \/ CanLock(s)
    /\ Leave(s, sync[s].pc = "prune" => ~sync[s].ok)
    /\ UNCHANGED <<repos, configured, mirror, runs, sched>>

\* The worker logs a failed query and goes on: reaping is skipped, or RunDue
\* returns nothing.
WorkerQueryFails ==
    /\ faults < MaxFaults
    /\ faults' = faults + 1
    /\ sched.pc \in {"idle", "due"}
    /\ sched' = [sched EXCEPT !.pc = IF @ = "idle" THEN "due" ELSE "idle"]
    /\ UNCHANGED <<repos, configured, mirror, runs, lock, sync>>
-----------------------------------------------------------------------------
UserNext ==
    \/ \E r \in Repos : Remove(r) \/ DeleteRepo(r)
    \/ \E r \in Repos, q \in Requests : Configure(r, q)
    \/ \E s \in Handlers, r \in Repos :
          RequestSync(s, r) \/ AutoPush(s, r) \/ CreateMirrorRepo(s, r)
    \/ \E s \in Handlers : Disconnect(s)

\* Statements a goroutine executes without waiting, each at a pc of its own.
Statement(s) ==
    \/ CreateConfigure(s) \/ Rollback(s) \/ StartRun(s)
    \/ FinishRun(s) \/ PublishResult(s) \/ PruneRuns(s)

\* lock.Lock() returns.
Lock(s) == Acquire(s) \/ GiveUp(s)

SyncNext(s) == Lock(s) \/ Transfer(s) \/ Statement(s)

WorkerNext ==
    \/ Reap \/ QueryDue \/ EndTick
    \/ \E s \in Slots, r \in Repos : Dispatch(s, r)

FaultNext == Crash \/ WorkerQueryFails \/ \E s \in Syncs : StatementFails(s)

Next == UserNext \/ (\E s \in Syncs : SyncNext(s)) \/ WorkerNext \/ Tick \/ FaultNext

Spec == Init /\ [][Next]_vars

(* Fairness.  Goroutines run and the worker's ticker fires; sync.Mutex hands   *)
(* itself to the longest waiter, hence strong fairness of taking it; a git     *)
(* process whose context has a deadline or is cancelled is killed, hence weak  *)
(* fairness of Transfer for those syncs only.  Time passes, although something *)
(* instantaneous may be pending again and again: strong fairness of Tick.      *)
Progress == SF_vars(Tick) /\ WF_vars(WorkerNext) /\ \A s \in Syncs : SF_vars(Lock(s))

\* The remote may keep an auto-push or an initial clone waiting forever.
HangSpec ==
    /\ Spec /\ Progress
    /\ \A s \in Syncs :
          WF_vars(Statement(s) \/ ((Timed(s) \/ sync[s].gone) /\ Transfer(s)))

\* Every git process ends.
FairSpec == Spec /\ Progress /\ \A s \in Syncs : WF_vars(Statement(s) \/ Transfer(s))
-----------------------------------------------------------------------------
(* Properties *)

\* The tables, the mutexes, the goroutines and the worker have their types.
TypeOK ==
    /\ repos \subseteq Repos
    /\ configured \subseteq Repos
    /\ mirror \in [Repos -> MirrorRow]
    /\ runs \in [RunIds -> RunRow]
    /\ lock \in [Repos -> Syncs \cup {None}]
    /\ sync \in [Syncs -> Sync]
    /\ sched \in [pc : {"idle", "due", "dispatch"}, todo : SUBSET Repos,
                  age : 0 .. SyncTimeout]
    /\ faults \in 0 .. MaxFaults

\* SyncNow and InitialClone serialise on the repository's mutex: between taking
\* it and returning, a goroutine is the only one of its repository, so two git
\* processes never run in one mirror directory.
OneSyncPerRepo ==
    \A s, t \in Syncs :
        /\ sync[s].pc \in Holding
        /\ sync[t].pc \in Holding
        /\ sync[s].repo = sync[t].repo
        => s = t

\* The retention DELETE of one sync never removes the run row another sync, or
\* its own, is still to finish, as long as the repository exists.
LiveRunKept ==
    \A s \in Syncs :
        sync[s].pc \in {"running", "finish"} /\ sync[s].repo \in repos
            => /\ runs[sync[s].run].status # "none"
               /\ runs[sync[s].run].repo = sync[s].repo

\* The reaper's threshold is longer than the deadline of a manual or scheduled
\* sync: it never declares such a run abandoned while its goroutine lives.
TimedSyncNotReaped ==
    \A s \in Syncs :
        sync[s].pc \in {"running", "finish"} /\ Timed(s)
            => runs[sync[s].run].status \in {"running", "none"}

\* A goroutine has started a run of the repository and is to publish its result.
Syncing(r) == \E s \in Syncs : /\ sync[s].repo = r
                               /\ sync[s].pc \in {"running", "finish", "publish"}

\* The mirror reads running, but nobody is syncing it and it has no running run
\* for the reaper to find: what a fault between the first two statements of
\* finishRun leaves behind.
Abandoned(r) ==
    /\ mirror[r].status = "running"
    /\ ~Syncing(r)
    /\ \A i \in RunsOf(r) : runs[i].status # "running"

\* Without crashes and statement failures, a mirror whose status reads running
\* (which hides it from RunDue and makes the manual sync answer 409) is being
\* synced: a goroutine holds its mutex and is to publish a result.
RunningMirrorIsSyncing ==
    faults = 0 => \A r \in configured : mirror[r].status = "running" => Syncing(r)

\* Without faults, and while nobody holds the mutex, the status the mirror
\* shows is that of its latest run.
MirrorShowsLatestRun ==
    faults = 0 =>
        \A r \in configured :
            lock[r] = None /\ mirror[r].status # "pending" =>
                \E i \in RunsOf(r) : /\ runs[i].newer = 0
                                     /\ runs[i].status = mirror[r].status

\* ReapStuck leaves next_run_at alone because it "was already in the past": without
\* faults the mirror of a stuck run is due, or waits for the rest of an interval
\* it had before the run began, longer than three times its present one.
StuckMirrorIsPlanned ==
    faults = 0 => \A i \in Stuck :
        LET row == mirror[runs[i].repo]
        IN row.wait = 0 \/ \E q \in Requests : row.wait + runs[i].age <= q.interval

\* A run recorded as a success keeps that status until its row is deleted:
\* neither a reaper nor another goroutine rewrites it, and its id is not
\* started again while somebody remembers it.
SuccessIsFinal ==
    [][\A i \in RunIds : runs[i].status = "success"
            => runs'[i].status \in {"success", "none"}]_vars

\* No run stays running for ever, whatever crash or failure lost its goroutine:
\* time and again none of a mirrored repository is left running, because they
\* end, are reaped, or go with the repository; unless the mirror is removed.
RunsEnd ==
    \A r \in Repos :
        (r \in configured /\ \E i \in RunsOf(r) : runs[i].status = "running")
            ~> (r \notin configured \/ \A i \in RunsOf(r) : runs[i].status # "running")

\* A tick of the worker comes to its end, so that the next one can reap and
\* dispatch the other mirrors.
TickEnds == (sched.pc # "idle") ~> (sched.pc = "idle")

\* Only the loss of a goroutine between the first two statements of finishRun
\* abandons a mirror, in that very step: no interleaving of syncs, the reaper,
\* retention, removals and reconfigurations does, before or after a fault.
OnlyLostResultsAbandon ==
    [][\A r \in configured' : Abandoned(r)' /\ ~(r \in configured /\ Abandoned(r)) =>
          /\ faults' > faults
          /\ \E s \in Syncs : sync[s].repo = r /\ sync[s].pc = "publish"]_vars

\* A periodic mirror whose time has come is really synced, also after a crash or
\* a failed statement: a goroutine starts a run of it, or is already running one,
\* or its next time is planned, unless it is reconfigured or removed.  Reading
\* running is not enough.  The one exemption is the state that
\* RunningMirrorRecovers is about.
DueMirrorsAreSynced ==
    \A r \in Repos :
        (r \in configured /\ mirror[r].interval > 0 /\ mirror[r].wait = 0)
            ~> \/ r \notin configured \/ mirror[r].interval = 0 \/ mirror[r].wait > 0
               \/ Syncing(r) \/ Abandoned(r)

\* A mirror marked running gets out of that state: "flips the corresponding
\* mirror's last_status back to 'failed' so the scheduler picks it up again".
RunningMirrorRecovers ==
    \A r \in Repos : (r \in configured /\ mirror[r].status = "running")
        ~> (r \notin configured \/ mirror[r].status # "running")

\* The stage of the goroutine that has the mutex.
Stage == [r \in Repos |-> IF lock[r] = None THEN "free" ELSE sync[lock[r]].pc]

Serial == INSTANCE MirrorSerial WITH holder <- lock, stage <- Stage

\* The service implements MirrorSerial: whatever handlers, the worker, crashes,
\* removals and reconfigurations do meanwhile, the syncs of a repository run one
\* after the other, each through its stages in order.
SyncsAreSerial == Serial!SerialSpec
=============================================================================
