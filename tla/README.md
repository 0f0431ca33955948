# Gitwise in TLA+

Specifications of Gitwise, a self-hosted git forge written in Go: what runs
concurrently in it, modelled, checked with TLC on small instances, and the
properties that matter most proved with TLAPS for every value of the constants.
Five specifications cover the server: `Mirror`, `PullMerge` and `Webhook`, one
component each; `Assistant`, the parts that use the language model; and `Site`, in
which everything that shares users, organizations and repositories is composed.

Paths are relative to `src/`. `PROJECT.json` maps every definition to the lines it
models.

## 1. The system

One Go process serves HTTP (chi) and SSH, with PostgreSQL (a pool of at most
`GITWISE_DB_MAX_CONNS`, 50 by default), Redis, bare repositories on disk, and
background goroutines. Handlers run concurrently, one goroutine per request, and
share the database, the repositories and, in a few services, process memory. Only
`pull.Merge`, `mirror.Configure/startRun` and a few multi-row writes use
transactions, always READ COMMITTED.

| Component | State | Operations | What is hard | What makes it correct | Model |
|---|---|---|---|---|---|
| GitHub mirrors (`services/mirror`, `workers/mirror_worker.go`, `handlers/mirror.go`) | `repo_mirrors`, `repo_mirror_runs`, a mutex per repository in memory | configure, remove, sync (manual, scheduled, auto-push, initial clone), reap, due query, rollback of a failed creation | goroutines that outlive requests, three statements that publish a result, crash between them, hung remotes, reaper against slow syncs | one git process per directory; the row shows the latest run; runs end; due mirrors get synced | `Mirror` |
| Pull requests and merging (`services/pull`, `git/service.go`, `handlers/pull.go`) | `pull_requests`, branches | create, update, merge | a transaction around a git write it does not cover, row locks, a second pool connection, retargeting meanwhile | a merge acts on what it locked; the database is never ahead of git; merged is final; no merge is lost | `PullMerge` |
| Reviews (`services/review`) | `reviews`, a JSON summary on the pull request | create, resolve thread | the summary is recomputed from a read and written later | approvals counted are those of others; the summary catches up | `PullMerge` (approvals) |
| Branch protection (`services/protection`) | `branch_protection_rules` | create, update, delete, check | rules change while a merge runs | the first matching rule decides | `PullMerge` |
| Git storage (`git/service.go`) | refs and objects | branches, merge, squash, rebase, diff, blame | refs are set without comparing | branches do not lose commits | `PullMerge` (refs) |
| Transports (`git/http.go`, `git/ssh.go`) | none | fetch, push, hooks | a push between two steps of a merge | pushes move one ref at a time | `PullMerge` (pushes), `Mirror` (post-receive) |
| Webhooks (`services/webhook`) | `webhooks`, `webhook_deliveries` | dispatch, deliver, retry loop | POST before the row; retry batch longer than its period; restart | a failed delivery is tried up to three times, then no more | `Webhook` |
| Agent queue (`services/llm/queue.go`) | `agent_tasks`, a Redis list per priority, the mutex of a local model | enqueue, pop, run, finish, stop | row before list; pop before the work is done; crash; cancelled writes at shutdown | a task is in one place, is run once and ends, unless a fault cut it off | `AgentQueue` |
| Agents (`services/agent`) | `agents`, `repo_agents` | create, delete, install, trigger | a look-up by slug, then a statement | only its author deletes an agent | `AgentQueue` |
| Chat (`services/chat`, `handlers/chat.go`) | conversations, messages | send a message, stream the answer, read files | two goroutines and two channels per stream, clients that leave, deleted conversations | an answer stands behind its question; every stream ends | `Chat` |
| Organizations, teams (`services/org`, `team`) | members, roles, teams | add, remove, change role | the last owner is counted, then deleted | an organization keeps an owner (it need not: section 5) | `Membership` |
| Repositories on disk (`services/repo`) | `repositories`, directories | create, rename, delete, roll back | row and directory change in two steps, by names read before | a repository keeps its directory | `Repos` |
| Import (`services/importer`) | job status in Redis, rows, directories | start, run, report | partial failure, lost reports, exit | what is reported is so | `Import` |
| Embeddings (`services/embedding`, `workers/embedding_worker.go`), issues (`services/issue`) | rows with vectors, failures | create, edit; backfill a batch | edits between the read and the write, answers left out | a vector is of a text of its own row | `Tracker` |
| Notifications, mentions (`services/notification`, `mention`) | notifications, preferences, watchers | mention, read, watch | goroutines that outlive requests | delivered to the connections there are | `Notifications` |
| WebSocket hub (`websocket/hub.go`) | connections, bounded send buffers | register, drop, send | three ways to drop a connection | a channel is closed once; a listed connection has its writer | `Hub` |
| Rate limiter (`middleware/ratelimit.go`) | Redis counters | INCR, EXPIRE | two commands | a counter expires | `RateLimit` |
| Users, sessions, OAuth, two-factor, admins (`services/user`, `oauth`, `totp`, `middleware`) | rows, Redis keys, a cache | register, log in, link, set up a factor, try a code, delete | checks and updates in different statements | guesses of a code are bounded | `Accounts` |
| Search, commit indexer, activity, SSH keys, pagination, configuration, migrations, web | rows or none | single statements, reads | none | | not modelled |

Interactions: handlers call services directly; services share one pool; mirror
syncs start from handlers, the worker and the post-receive hook of a push; merges,
issues and pushes dispatch webhooks in goroutines of their own
(`go h.webhooks.Dispatch(context.Background(), ...)`); notifications end in the hub.

The hazards this gives rise to, with the line where each bites and the properties
that cover it, are the list `hazards` of `PROJECT.json`.

## 2. Modules

| Module | Contents |
|---|---|
| `Mirror` | tables, mutexes, sync goroutines, worker, faults; its properties |
| `MirrorSerial` | abstract: the syncs of a repository are serial, each through its stages |
| `MirrorMC` | instances of `Mirror` |
| `MirrorProofs`, `MirrorSafetyProofs` | theorems about `Mirror` |
| `PullMerge` | rows, approvals, rules, branches, row locks, connections, merge handlers; its properties |
| `PullLifecycle` | abstract: the life of a pull request's status and target |
| `PullMergeMC` | instances of `PullMerge` |
| `PullMergeProofs`, `PullMergeSafetyProofs` | theorems about `PullMerge` |
| `Webhook` | webhooks, deliveries, the goroutines that send, the retry loop, receivers, exits; its properties |
| `DeliveryLife` | abstract: the log of a delivery, attempt by attempt |
| `WebhookMC` | instances of `Webhook` |
| `WebhookProofs` | theorems about `Webhook` |
| `Common` | users, and the load an instance is sent; extended by all modules below |
| `AgentQueue` | agents, tasks, lists, workers, shutdown, crashes; its properties |
| `Chat` | conversations, requests, their streams; its properties |
| `Assistant` | `AgentQueue` and `Chat` in one process |
| `AssistantMC` | instances of `Assistant` |
| `AssistantProofs` | theorems about `Assistant` |
| `Requests` | requests in progress, users, organizations; extended by all modules below |
| `Accounts` | registration, logins, second factors, tokens, admins |
| `Membership` | organizations, members, teams |
| `Repos` | repositories, as rows and as directories |
| `Import` | imports (extends `Repos`) |
| `RateLimit` | counters of the rate limiter |
| `Hub` | WebSocket connections |
| `Notifications` | mentions, notifications, watchers (extends `Hub` and `Repos`) |
| `Tracker` | issues and the embedding worker (extends `Notifications`) |
| `Site` | the modules from `Requests` on, composed: users are deleted in all of them, the server exits |
| `SiteMC` | instances of `Site` |
| `SiteProofs`, `PeopleProofs` | theorems about `Site` |

### Mirror

`mirror` and `runs` are the tables; `lock[r]` is the mutex of `lockFor`; `sync[s]` is a
goroutine in `SyncNow` or `InitialClone`, its `pc` the statement it is about to execute;
`sched` is the worker. One action per statement: `Acquire` takes the mutex and loads
the row, `StartRun` is the transaction of `startRun`, `Transfer` the git process,
`FinishRun`, `PublishResult` and `PruneRuns` the three statements of `finishRun`. The
worker's tick is `Reap`, `QueryDue`, `Dispatch` for each due mirror, `EndTick`
(`wg.Wait`). Time is digital: a `Tick` is ten minutes, so that the reaper's threshold
(`GREATEST(600, 3 * interval)` seconds), the deadlines and the intervals are small
numbers; `SyncTimeout` is one tick for both kinds of deadline (10 minutes of a manual
sync, 55 seconds of a scheduled one). `newer` counts the runs of a repository that
started after a run, which is all the retention's `ORDER BY started_at` needs.
Faults: `Crash` (memory lost, tables kept), a failed statement of a sync, a failed
query of the worker. A mirror whose row reads `running` is `Syncing` if a goroutine has
started a run of it and will publish the result, and `Abandoned` if neither a goroutine
nor a running row, which the reaper would find, is left. `DueMirrorsAreSynced` does not
take the word of the row: it asks for the goroutine, and exempts abandoned mirrors only
(finding 2); `OnlyLostResultsAbandon` says which steps abandon one.

### PullMerge

`pr` are the rows (status, repository, author, branches); `approvals[p]` is who has
an approving review, and `users` who exists: when an administrator deletes a user
(`DeleteUser`), the reviews go with the row (`ON DELETE CASCADE`, migration 016), also
those a merge has counted (`counted`, history); `rules` maps the patterns of a
repository to rules; `tip` are the branches, `history[c]` the commits reachable from
a commit, `merges[c]` the pull request it was made for (kept for the properties
only). `lock` are the rows held FOR UPDATE: the SELECT of `Merge` joins
`pull_requests` with `users`, so it locks the author's row as well; `Approve` and
`Create` wait for rows they reference, and `MarkMerged` for the merging user's row
(`merged_by`), on which it keeps a shared lock (`Sharing`) until the commit. A merge
handler is in `pc`: `begin` (a connection of the pool is needed), `lock` and `author`
(the locking SELECT; then the status is looked at), `check` (the rules, on a second
connection), `resolve` and `write` (`MergeBranches` reads both refs, then sets one),
`update`, `commit`, `delete` (the source branch). `Fail` is every error return, with the
deferred Rollback; `Cancel` is a request whose client has gone, or a statement that
fails; `Deadlock` is PostgreSQL ending one transaction of a cycle, which exists: two
owners who merge each other's pull requests each hold their author's row and need
the other's.

Abstractions: `Create` checks the branches and inserts in one step (a branch deleted
in between leads to the same states as one deleted right after); a chain of rebased
commits is one commit; trees are left out, ancestry is kept; approvals are counted
in the step that reads the rules (in between none can be added, since the insert waits
for the locked row, and one that a deletion takes away is as if it went before);
`DeleteUser` takes users who own no repository and wrote no pull request, since the
deletion of the others takes rows that the properties are about, or waits for a lock of
the merge; a pushed commit is one commit; which pushes a rule rejects is left
open, because the check lets pushes through when it fails and SSH has none.

### Webhook

`hook` and `row` are the tables `webhooks` and `webhook_deliveries` (a row with no
attempts does not exist; deleting a webhook deletes its rows). An event occurrence is
dispatched once: `Dispatch` is the query of the goroutine, `todo` what it has still to
start, `StartDelivery` the loop that takes a slot of the semaphore and starts a
goroutine. The goroutines of `deliver` and `retryDelivery` are the set `couriers`: each
carries the delivery and the attempts it has read (none for `deliver`), makes its
POST (`Post`) and writes what came of it (`Insert`, `UpdateRow`). `Tick` is
`RetryPending`'s query, `batch` what it has read, `StartRetry` its loop and
`BatchDone` its `wg.Wait`. `Test` is the handler that sends a ping: one delivery,
whether the webhook is active or not. `Exit` is the end of the process (shutdown
included: `StopRetryLoop` and `Shutdown` do not wait for these goroutines) and its
restart. `sent` and `missed` are history: whether the delay has elapsed since the latest
POST, and which deliveries had a POST that was not logged.

Abstractions: the POST with its answer is one step, before which the webhook may
change and after which the process may exit; the three delays are one, since only
whether the delay has elapsed matters; the answer is success or failure (a timeout
is a failure) and, for the receivers of `Garblers`, a body that PostgreSQL refuses. URLs,
secrets, signatures and payloads are left out: `deliver` and `retryDelivery` return before the
POST only if the payload is no JSON object or the URL does not parse, which `Dispatch`
and `Create` rule out.

### Assistant

`AgentQueue`: `agent`, `installed` and `task` are tables, `list` the three Redis lists.
A handler between two statements is in `call`: `Delete` looks the agent up,
`DeleteAgent` is the DELETE, and so on; `InsertTask` and `PushTask` are the two halves of
`Enqueue`. A worker goes from `loop` through `popped` (`Dequeue`), `marked` (`MarkRunning`),
`asking` (`Lock`, then the provider) and the outcome (`Generate`) back (`Record`, with the
deferred Unlock). `AgentCancel` is the first thing main does at a signal, `StopWorkers`
the wait for the workers; in between, statements with the cancelled context fail.
`Die` is a crash; after both, the process is started again with the lists and rows
there are. `strayed` (history) are the tasks a failed statement, a crash or a cancelled
write has cut off: the code never looks for them, and `NoTaskGoesAstray` says that
nothing else loses one, `TasksRunOnce` that none is run twice. Nothing in the repository
calls `Enqueue` (`internal/services/llm/queue.go:101`): the model serves it as a request of a
user, which is what its contract allows. The mutex is the workers': chat asks the model
without it (section 5). The row of a deleted agent keeps its slug and loses its author,
so ids are not used twice.

`Chat`: `reply[r]` is a request to `SendMessage`, its `at` the numbered step of the handler;
`pipe[r]` is its stream: the provider's goroutine (`Scan`) fills a buffered channel, the
adapter's (`Adapt`) moves chunks to an unbuffered one, and the handler (`Receive`) drains
it to the end even when its client has left, as the code does. A chunk is text with or
without a request for a file. `Assistant` puts both in one process: its end cuts the
workers and the chat requests (`Cut`).

Abstractions: the three pops of a dequeue are one step; what a task or a message says
is left out but for whether it is empty and whether it asks for files.

### Site

A request is a record in `req[c]`: what its handler does next, `op`, and its local
variables. It arrives (`Arrive`) with its handler's first statement; each later step is
one statement, or one change on disk, or one command to Redis, and any other request's
step may come between. Requests that change nothing do not arrive. Every module has
its own actions of this form:

- `Accounts`: registration (no organization has the name, then the INSERT, then the
  session), logins by password or through GitHub (states, link, mail address,
  transaction), the second factor (set up, enable, disable, pending logins, recovery codes
  that are written back from what was read), tokens, admins and their cache.
  `DeleteAccount` is the part of a user's deletion that is here. `pending[p].tried` and
  `lost` (history) count the codes tried, and those whose outcome was never recorded: the
  script that counts a failure and the command that uses the login up are sent with the
  request's context, and nobody looks at their errors (`Unrecorded`).
- `Membership`: each handler asks whether its caller is an owner and goes on;
  `LookAtMember` is the role and, for owners, the count, `DeleteMember` the DELETE, which
  does not look again. It has no property of its own: what the code promises of owners
  does not hold (section 5). It is here because registration and the creation of an
  organization look at each other's names, and the deletion of a user reaches into it.
- `Repos`: the row first, the directory afterwards, by the path the handler has read.
  `dir[p]` is whose directory is at a path. `spoiled` (history) are the paths
  a repository was renamed from or to, or deleted at while the directory there was not
  its own. A deletion finds the row by the owner's name in any case, and the directory
  only under the name as it was spelled: `RemoveDir` may find nothing.
- `Import`: clone before row; `SetStatus` is a report, which may be lost. `Fail` are the
  error returns of the first three stages, `Panic` the deferred recover, at any stage.
  `lost`, `panic` and `repo` of a job are history: whether its last report was lost, whether
  it panicked, and the repository whose row it has inserted, set in the step that does.
- `Hub`: a connection's `reader` and `pump` goroutines, its channel (`queue`, `closed`) and
  socket. `SendToUser` is one step, since it holds the lock. `panicked` becomes true where
  Go would panic.
- `Notifications`, `Tracker`: one statement inserts a mention's row unless the user has
  turned it off, and the hub is told. The embedding worker holds a batch in `work`.
- `RateLimit`: `Incr` and `Expire`; `forsaken` (history) are the keys whose EXPIRE was lost.
- `Site` composes them; `DeleteUser` deletes the rows that refer to a user in all modules
  and leaves directories, sessions and pending logins; `Exit` loses the requests, the
  connections, the worker's batch, imports and the admin cache, and nothing else.

Abstractions: the load (`left`) bounds how many requests each component is sent; titles
and bodies, pull requests, commit messages and descriptions are embedded alike, so issues
stand for them; of a user's sessions only whether there is one is kept; keys in Redis
do not expire except counters.

## 3. What is checked

| Run | Instance | Shows |
|---|---|---|
| `mirror_safety` | 1 repository, 2 user syncs, 1 scheduler slot, 3 run ids, intervals of 5 and none, 1 fault, history limit 1 | types, mutual exclusion, live runs kept, timed syncs never reaped, mirror row follows the latest run, stuck mirrors come up again, success final, mirrors abandoned only by a fault while a result is published |
| `mirror_live` | as above with 1 user sync, intervals of 1 and none, `FairSpec` | refinement of `MirrorSerial`; runs end, ticks end, due mirrors get a goroutine that syncs them, also after a fault, unless it abandoned them |
| `mirror_hang` | `HangSpec`, no faults | violated: `TickEnds` (finding 1) |
| `mirror_crash` | `FairSpec`, 1 fault | violated: `RunningMirrorRecovers` (finding 2) |
| `pull_safety` | 2 repositories of 2 owners who contribute to each other, a third user, 2 pull requests, 2 merges at once, 3 connections, 4 commits, 1 edit (update, rule or push), 2 kinds of merge request | types, merges see their rows, one merge per author, merged rows have a commit, landings are allowed, refinement of `PullLifecycle` |
| `pull_live` | 1 repository, 1 pull request, 2 patterns (`main`, everything), 2 merges, 3 connections, 2 edits, `FairSpec` | every merge request is answered |
| `pull_pool` | 1 pull request, 2 merges, 2 connections, no edits, `FairSpec` | violated: `MergesEnd` (finding 3) |
| `pull_lost` | 2 pull requests of 2 authors into one branch, no edits | violated: `NoMergeLost` (finding 4) |
| `webhook` | 2 webhooks, one with a garbling receiver, 1 event, 3 attempts, 1 slot, 1 edit, 2 faults, `FairSpec` | types, one goroutine per delivery, fresh copies, delays kept, refinement of `DeliveryLife`; what is selected is sent, failed deliveries end |
| `assistant` | 2 users, 1 repository, 2 agents, 2 tasks, 2 workers, a local model, 1 conversation, 2 chat requests, 1 chunk, 1 round of files; 5 loads; `FairSpec` (136,000 states) | tasks in one place and run once, answers behind questions, only authors delete agents; listed tasks end, the shutdown ends, replies end |
| `site` | 3 users, 2 calls at a time, 1 organization, 1 team, 2 repositories, 1 import, 2 connections, 2 issues, 1 second factor; 25 loads | guesses bounded, reports of imports true, counters expire, hub sound, embeddings of the row's own text; directories are lost only in the ways the property names |
| `webhook_garbled` | 1 webhook with a garbling receiver, no faults | violated: `RetriesBackOff` (finding 5) |

Why the bounds are enough for the questions asked.

- Mirrors interact through their repository's mutex and, in the worker, through the
  due list only. Two user syncs and a scheduled one of one repository meet at the
  mutex in every order; three run ids and a limit of 1 make the retention delete
  rows in every run. Ages are capped one tick past the highest threshold (3 times the
  longest interval: 16 for 5, and 4 for 1). In `mirror_safety` an interval of 5 is
  shortened to none, whose threshold is 3: a run can be stuck while its mirror still
  waits, which `StuckMirrorIsPlanned` bounds; `mirror_live` needs no more than 1. An
  instance of two repositories with a fault-free worker also passes (780,000
  states); it is not kept as a run because it finds nothing else.
- Merges interact through rows, branches and connections in pairs; a deadlock needs
  two. Four commits are the root and one for each pull request with one to spare for a
  push. One edit can hit between any two steps of a merge; two (`pull_live`) let a rule
  be made and then changed or deleted. The third user of `pull_safety` reviews and may be
  deleted at any time, the two others stay (`DeleteUser`). Of the requests, one asks for a
  merge commit and keeps the branch, the other squashes and deletes it (`TwoBodies`); the
  other runs have every combination. In `pull_safety` three connections suffice for two
  merges and one more, so that the pool is never the reason for what happens; the
  pool's exhaustion is `pull_pool`, which differs from `pull_live` by one connection.
- `pull_safety` uses the symmetries of pull requests, of handlers, and of the two
  owners with their repositories; none of its properties names one of them.
  Runs of liveness properties use none.
- Deliveries meet in a batch, at a semaphore and in a deleted webhook, in pairs; one
  event with two webhooks gives two. Three attempts are the code's, one slot makes
  every goroutine wait for another. Two faults can hit a first attempt and a retry of the
  same delivery.

- `Assistant`: two workers meet at the mutex, two tasks at a priority and between
  priorities, two chat requests in one conversation. The loads (`Mixtures`) are about
  agents alone, agents or tasks with a fault, chat alone, chat with a fault: the queue and
  chat share only the process, so they need not both be busy, and a fault meets each.
  An endless stream of chat tasks, which would starve the others, is not among them:
  `ListedTasksEnd` is about finite loads.
- `Site`: two requests at a time meet in every pair of statements; more than two are
  needed by no property (`GuessesAreBounded` depends on their number and says so). Each of
  the 25 loads sends a few requests to the components that touch the same state:
  logins with factors and deletions, repositories with imports, issues with the hub, an
  exit wherever something is in progress. An instance starts (`StartsSmall`) with
  what its load asks for, so that no request is spent on setting the scene.
  Calls are symmetric, and no property names one.

Deadlock checking is off in the runs of `Mirror`, `PullMerge`, `Assistant` and `Site`: ids, commits, edits and
faults are used up. In `Webhook` the ticker always ticks, and it is on.

Fairness. Goroutines proceed and the worker's ticker fires (weak). A mutex in Go
hands itself to the longest waiter, so taking it is strongly fair; so is getting a
connection (pgxpool queues) and a row lock (PostgreSQL queues). A git process is
only sure to end when its context has a deadline or is cancelled: `HangSpec` assumes
just that, `FairSpec` of `Mirror` assumes that every git process ends. Time passes there
although something may be pending again and again (`Tick`, strong). PostgreSQL
detects deadlocks (`WF Deadlock`). Requests to receivers end (the client's timeout is 10
seconds), and delays elapse. In `Assistant`, handlers, workers and the goroutines of a
stream proceed, and the provider answers, fails or ends its stream (weak); taking the
mutex is strongly fair; `StopWorkers` is weakly fair, since main waits for nothing else.
`Site` states no fairness: its properties are safety. Nobody is assumed to disconnect, to edit or to
fail.

## 4. What is proved

For every value of the constants (any number of repositories, users, handlers,
connections, and any thresholds that satisfy the named assumptions):

| Theorem | Property |
|---|---|
| `TypeCorrect` | `TypeOK` of `Mirror` |
| `MutualExclusion` | `OneSyncPerRepo` |
| `ReaperSparesTimedSyncs` | `TimedSyncNotReaped` |
| `SuccessStays` | `SuccessIsFinal` |
| `ImplementsSerial` | `SyncsAreSerial`: `Mirror` implements `MirrorSerial` |
| `LiveRunsAreKept` | `LiveRunKept` |
| `RunningMirrorsAreSyncing` | `RunningMirrorIsSyncing` |
| `MirrorsShowLatestRun` | `MirrorShowsLatestRun` |
| `StuckMirrorsArePlanned` | `StuckMirrorIsPlanned` |
| `LostResultsAbandonOnly` | `OnlyLostResultsAbandon` |
| `PullTypeCorrect` | `TypeOK` of `PullMerge` |
| `MergesSeeTheirRows` | `MergeSeesItsRow` |
| `MergesExclude` | `OneMergePerAuthor` |
| `ImplementsLifecycle` | `StatusFollowsLifecycle`: `PullMerge` implements `PullLifecycle` |
| `MergedHaveCommits` | `MergedHasCommit` |
| `LandingsAreAllowed` | `LandedMergesAreAllowed` |
| `WebhookTypeCorrect` | `TypeOK` of `Webhook` |
| `OneCourierAlways` | `OneCourier` |
| `CopiesAreFreshAlways` | `CopiesAreFresh` |
| `BackOffIsKept` | `BackOffKept` |
| `ImplementsLife` | `LogsFollowLife`: `Webhook` implements `DeliveryLife` |
| `OnlyAuthorsDelete` | `OnlyItsAuthorDeletes` of `AgentQueue`, in `Assistant` |
| `NoTaskStrays` | `NoTaskGoesAstray` of `AgentQueue`, in `Assistant` |
| `TasksAreRunOnce` | `TasksRunOnce` of `AgentQueue`, in `Assistant` |
| `AnswersStandBehindQuestions` | `AnswersFollowQuestions` of `Chat`, in `Assistant` |
| `HubIsSound` | `ListIsSound` of `Hub`, in `Site` |
| `AllCountersExpire` | `CountersExpire` of `RateLimit`, in `Site` |
| `EmbeddingsAreOwn` | `EmbeddingIsOwn` of `Tracker`, in `Site` |
| `StatusesAreTrue` | `StatusIsTrue` of `Import`, in `Site` |
| `RepositoriesKeepDirectories` | `DirectoriesStay` of `Repos`, in `Site` |
| `GuessesStayBounded` | `GuessesAreBounded` of `Accounts`, in `Site` |

The assumptions are on constants only, each named and in the module that declares them,
and TLC evaluates them in the runs. Most give types: limits and sizes are positive, what
the proofs count (handlers, requests at a time, commits, rows, users) is finite, and the model
value `None` is none of the ids. Two say more: `MirrorAssumption`, that a sync's deadline is below three
times the reaper's floor (10 minutes against 30) and that ages are counted past every
threshold, and `PullAssumption`, that a pull request's id is not a user's (both are rows
to be locked).

The arguments.

- `LockInv` of `MirrorSafetyProofs`: whoever is between Lock and Unlock is the holder the
  mutex records. Mutual exclusion says nothing about the mutex, so it is not
  inductive without it.
- `RunInv`: a goroutine's run id is its own, the row it points to, if any, is that
  of its repository, and the run is not older than the goroutine's context. With
  `SyncTimeout < 3 * MinReap` (part of `MirrorAssumption`: 10 minutes against 30) the reaper's
  set never contains it. `SuccessIsFinal` follows because ids that are remembered
  are not given out again.
- `HistoryInv`: while its repository exists, the run of a goroutine in flight is the
  latest one (`newer = 0`), because a newer one can only be inserted by the holder of
  the mutex; so the DELETE, which spares the `HistoryLimit >= 1` newest, spares it.
- `OwnInv` (rows of existing repositories only; the run a goroutine remembers is of its
  repository) and `ShowInv`, which says of the time until the first fault what links the
  two tables to the goroutines: a running row has its goroutine, a finished one the
  outcome that is about to be published, a mirror that reads running is being synced, and
  one that nobody is syncing shows its latest run. `RunningMirrorIsSyncing` and
  `MirrorShowsLatestRun` are parts of it, neither inductive alone: between the two UPDATEs of
  `finishRun` the tables disagree, and only the goroutine at `publish` knows how. The
  reaper's case needs `RunInv` and `HistoryInv` (the run it fails is the latest).
- `WaitInv`: until the first fault, a mirror waits for the rest of an interval that was
  requested once, counted from before the run in flight began. The plain form, that a
  stuck mirror is due, is what `ReapStuck`'s comment says and is not so once an interval
  is shortened (section 5); `StuckMirrorIsPlanned` is what holds.
- `LeadInv` holds after faults too: while the mirror reads running, the run in flight of its
  repository does, and nobody is past publishing. So a fault that takes a goroutine before
  `finishRun`'s first UPDATE leaves a running row for the reaper, and one at its third
  statement a mirror that no longer reads running; what remains is the step
  `OnlyLostResultsAbandon` names. The retention DELETE is the case to see: it may take a
  row a crash has left running, but only just after the mirror was published.
- `PullInv` = `TypeOK` and `LockInv` of `PullMergeProofs`, inductive only together: a handler past the
  locking SELECT has both locks and its row is open with the target it read. Typing
  needs it (a handler's row exists, its base and head are commits) and it needs the
  types. Each step keeps the other handlers' part because it changes no row but one
  it has locked (`OthersStayOK`) or one that nobody has (`UserKeepsLocks`). That the
  rule lookup finds a least pattern is `LeastExists`, from the well-foundedness of
  finite subsets.
- `CommitInv`: a handler past the write has made a commit for its pull request, and
  unused ids were made for nothing; rollback never undoes git, so `merged` without
  a commit is unreachable.
- `ApprovalInv`: approvals are finite and never the author's, nor are those a handler
  past the check has counted, which are as many as its rule demands; and every one of
  them whose user still exists still stands, because only the deletion of its user takes
  an approval away, and a user's row does not come back (`ApprovalsStand`).
- `Inv` of `WebhookProofs` partitions the deliveries: not begun (`QueuedAreIdle`), with one
  goroutine, in the batch, or at rest (`Apart`); goroutines of retries exist only
  while `RetryPending` runs (`RetriesAreFresh`), so its query, which looks at rows only,
  finds none that is in hand. From that, the number of attempts a goroutine copied is
  that of the row, and the UPDATE, which has no condition, only adds one
  (`LogsFollowLife`). `DueAreRested` is the delay: a due row was rested, or has a
  goroutine that has made its POST, or had one that was not logged.
- Refinements map `holder <- lock`, `stage <- Stage`, and `status`, `target` to the fields of
  the rows; the commit of a merge maps to `MarkMerged`, whose guard (`open`) is
  `LockInv`, since the UPDATE itself has no such condition.
- `DeletionInv`: the agent a deleting handler has looked up is its caller's, or has no
  author any more, and it had a slug. A new agent takes an id without one, so it is never
  the agent a handler means, though it may have taken its slug.
- `PlaceInv` with `QueueType`: lists, workers and handlers that are about to push are
  disjoint places (one position of one list, one handler; `Listed`, `Held`, `Pushing` exclude
  each other), an enqueued task whose row is not final is in one of them, and a task has
  its row before it has its place. What a pop takes and a push appends is shown for
  sequences of any length. That a task is run once follows: what is popped was listed, so
  nobody held it, and a task that was cut off is in no list.
- `AnswerInv` with `ChatType`: every message is in the conversation of its request, and only
  once the question is saved; an answer is stored by a request that ends in the same step, after its
  question, and is its only one; as long as the request goes on its conversation
  holds the question or is gone, since an id is not used again while a request has it.
- In `Site` every proof goes through the same lemmas: `Sound` is what the record of a
  request says by its operation, `Hop(ops)` that a step moves at most one request, of one
  component, to a sound record; that each component's actions hop is shown once, from
  a lemma for each of `Arrive`, `Become`, `Go` and `End`. So `AllSound` is invariant, and
  what a step of another component does to a request is `HopSpares`.
- `HubInv` of `SiteProofs` is the property with the types of connections: that a closed
  channel is off the list, and a writer ends only off the list, is inductive because each
  close and each `unregisterConn` takes the connection off in the same step. All steps
  of other components leave `conn` alone, or send (`SendToUser`).
- `LimitInv` is the property with `AllSound` and the types of the counters: no step but
  `Expire` and the exit takes a request away that is at `expire`.
- `EmbedInv`: the batch (`BatchOf`) has as many texts as rows, and what it holds for a row is
  a text that row has had; the texts of a row only grow (`HadGrows`). The query's rows are
  a sequence without repetition of a finite set, from which the prefix is taken.
- `JobInv`: an import has at most one request; while it has, its report is `running` or was
  lost (`Agrees`), and its row is inserted exactly from the stage `copy` on; what it is about
  to report in the end may be told of it (`MayTell`), also after a panic; when it has
  none it is `Settled`.
- `DirInv`: a request that has deleted a row and not yet its directory, or made a directory
  and not yet its row, is the only one with that repository (`HoldsRow`), and the directory
  at its path is that repository's unless the path is spoiled (`FitsDirs`). Then every step
  that takes a directory away takes one without a row, or at a spoiled path (`DirsKept`).
- `GuessInv` of `PeopleProofs` counts: while a pending login lives, the codes tried on it are the attempts
  counted, the requests that have tried one and not recorded it yet (`Trying`), and the
  lost ones; when it is over, only requests that hold it can add to them, and one of the
  `Calls` was the one that ended it. How one step changes the cardinalities is `Counts`.

These theorems hold for the composition: they go through every action of `Site`
(or `Assistant`), not of one module alone.

Model-checked only: the liveness properties (`RunsEnd`, `TickEnds`, `DueMirrorsAreSynced`,
`MergesEnd`, `SelectedAreSent`, `DeliveriesEnd`, `ListedTasksEnd`, `ShutdownEnds`,
`RepliesEnd`), because fairness and ENABLED are outside the prover's reach. Every other
property of a passing run is the statement of a theorem.

## 5. Findings

1. `mirror_hang`: `SyncNow` blocks on the mutex before it looks at its context, and
   auto-push and initial clone hold it without a deadline. `RunDue` waits for its
   syncs, so one hung remote stops reaping and scheduling of all mirrors, against
   "Bound each tick ..." (`internal/workers/mirror_worker.go:55`).
2. `mirror_crash`: between the two UPDATEs of `finishRun`, the run is finished and the
   mirror stays `running`; nothing frees it but a push, or removing the mirror, against what `ReapStuck` says
   (`internal/services/mirror/service.go:456`).
3. `pull_pool`: every merge needs a second connection while its transaction holds one;
   as many merges as connections stop for good, and with them every other request,
   against `SPEC.md:420`.
4. `pull_lost`: `SetReference` does not compare; two merges of different authors into one
   branch lose one, against "This prevents concurrent merges"
   (`internal/services/pull/service.go:370`). Merges of one author's pull requests
   are safe from it (`OneMergePerAuthor`), by the accident that the join locks
   the author's row.
5. `webhook_garbled`: the body of an answer is stored as it came, in the UPDATE that
   also counts the attempt. If it is not valid text, PostgreSQL rejects the statement
   and the delivery stays due: it is posted every 30 seconds for ever, against "use
   exponential backoff" (`internal/services/webhook/service.go:616`). For all other
   receivers `DeliveriesEnd` holds, and `BackOffKept` whenever the POSTs were logged.

Also met, and stated by no run. But for the first, the second and the last, and the
second event of `issue.closed`, these are behaviours of the models.

- `push` is an event type webhooks can subscribe to, but nothing dispatches it (no call of
  `Dispatch` with it), against "Every mutation fires a typed webhook event" (`SPEC.md:196`).
  Two concurrent edits can both dispatch `issue.closed` (the old status is read before).
- The local model's provider says "Only one request runs at a time"
  (`internal/services/llm/ollama_gen.go:48-49`), and the workers of the agent queue take turns for
  it. Chat does not: `GenerateStream` (`internal/server/server.go:1047`,
  `internal/services/llm/gateway.go:84`) asks the same provider without the queue's mutex, so two chats,
  or a chat and a task, ask it at once. The model has the workers' mutex for what waits
  for it (`ListedTasksEnd`, `ShutdownEnds`) and states no property about the provider.
- `RemoveMember` "Prevents removing the last owner" (`internal/services/org/service.go:333`) does
  not: it counts the owners and deletes in two statements (346-376), so two owners who
  leave at once leave none. Besides, the rule is nowhere else: `AddMember` demotes the last
  owner, and the deletion of a user asks nobody. `Membership` has all three as
  behaviours (`LookAtMember` and `DeleteMember` of two requests, `UpsertMember`, `LeaveAll`) and
  states no property: one that exempted them would say what the guard says. Members
  who leave an organization stay in its teams. `Delete` is by name (249-259) after a check
  of the owner by name, so it can reach an organization that took the name in between.
- An approval that a merge has counted can be gone when the branch is set: nothing locks the
  reviews, and they are deleted with their user. `LandedMergesAreAllowed` says that this is
  the only way.
- No repository can be an organization's: `repositories.owner_id` refers to `users`. Grants
  of repositories to teams therefore have no effect and are not modelled.
- A user and an organization can get the same name when both are created at once.
- `InitBare` fails after the row was inserted: the row stays. Deleting a user leaves the
  repositories' directories, and fails for users with agents or merges to their name.
- A rename or a deletion uses the path it read at first: it can move or remove a directory
  that belongs to another repository by then, or leave one under an old name; a deletion
  of a repository whose directory is not there yet removes what it finds later. A deletion
  by a URL that spells the owner's name in another case leaves the directory.
  `DirectoriesStay` excludes these (`spoiled`) and no others.
- `ReapStuck` leaves `next_run_at` alone because it "was already in the past"
  (`internal/services/mirror/service.go:459`). After an interval was shortened it need not be:
  `Configure` does not touch it either, so the mirror waits for the rest of its old
  interval. `StuckMirrorIsPlanned` says how long at most.
- A code of a second factor is tried before it is counted, and the count may fail without
  anybody noticing (`IncrementAttempts` returns nothing): `GuessesAreBounded` adds such
  tries to the limit as `lost`.
- The rollback of a mirror's creation uses the request's context and fails if the client
  has gone. A failed import leaves its clone; one that panicked after the row was
  inserted is reported as failed and leaves both. An import stays `running` after an exit or
  a lost report.
- A login through GitHub with the mail address of an account that has a password fails
  at the UNIQUE constraint. Recovery codes are written back as they were read, so a code
  used meanwhile can come back. Enabling and disabling a second factor at once can leave it
  on without a secret. The admin cache is not invalidated (at most 30 seconds old).
- A lost EXPIRE leaves a counter for ever: the address is refused from then on.
- `TriggerAgent` inserts a task and pushes nothing: no worker sees it. Tasks that a crash
  or a failed write cuts off are never found again.
- The embedding of an edited text stays that of the old one; `embedding_failures` is never read.
- A writer that gives up takes its connection off the list and leaves its channel open; the
  reader ends when the client does.
- The summary of a pull request's reviews is recomputed from a read and can be written
  late (display only; not modelled).

## 6. Not modelled

- Search and its fusion, activity feed, pagination, lists and statistics: reads, or
  appends that nothing reads back.
- Commit indexer: one walk and inserts with ON CONFLICT DO NOTHING; no other actor.
- SSH keys, labels, milestones, comments, agent documents and feedback, profiles: single
  statements on rows that nothing modelled reads.
- Numbers of issues and pull requests: `next_repo_number` is one INSERT ... ON CONFLICT DO
  UPDATE ... RETURNING; uniqueness is PostgreSQL's row lock.
- Times to live of sessions, pending logins, OAuth states and reports in Redis; panics,
  but for those of an import's goroutine, which are recovered there.
- The deletion of repository owners and pull request authors while they merge or are
  merged: it takes the rows `PullMerge` is about.
- Configuration, migrations, the connection pool's settings: start-up. The constraints
  the modules rely on are taken from the migrations.
- Trees, diffs, blame, archives; the git wire protocol (git's own); the providers' HTTP
  formats (success or failure in the modules that use them); the web client.

## 7. Plan

1. Lemmas that `SiteProofs` and `PeopleProofs` could share further: what a deletion of a user
   does to each component's rows, stated once.
2. A finer clock in `Mirror`, to tell the tick's deadline of 55 seconds from the 10 minutes
   of `RunDue` (listed as a hazard without a property).
3. Contents of trees, to state what a squash of diverged branches undoes (likewise).
