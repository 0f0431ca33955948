----------------------------- MODULE AgentQueue -----------------------------
(***************************************************************************)
(* Agents and their task queue: the rows of agents, repo_agents and        *)
(* agent_tasks in PostgreSQL, one list of tasks per priority in Redis, the *)
(* handlers that create, install, trigger and delete agents, Enqueue, and  *)
(* the worker goroutines that pop tasks and give them to the language      *)
(* model.  A handler or a worker may be interrupted between its            *)
(* statements; the process may exit, at once or in the order of main's     *)
(* graceful shutdown.  The lists survive it.                               *)
(*                                                                         *)
(* TriggerAgent inserts a row and pushes nothing; only Enqueue pushes, and *)
(* nothing in the repository calls it: here any request may.  The workers  *)
(* ask the model under a mutex, the chat of the same process without it.   *)
(***************************************************************************)
EXTENDS Common, FiniteSets, Sequences

CONSTANTS
    Repos,     \* repository ids
    Slugs,     \* agent slugs
    AgentIds,  \* ids of custom agents, in the order of creation
    TaskIds,   \* task ids
    Workers,   \* numWorkers worker goroutines
    Calls,     \* requests in progress at a time
    OwnerOf,   \* OwnerOf[r]: the owner of repository r
    Parallel   \* the provider's SupportsParallel

ASSUME AgentQueueAssumption ==
    /\ OwnerOf \in [Repos -> Users]
    /\ Parallel \in BOOLEAN
    /\ None \notin AgentIds \cup TaskIds \cup Workers \cup Slugs

VARIABLES
    agent,     \* the agents rows: slug, author
    installed, \* the repo_agents rows: <<repository, agent>>
    task,      \* the agent_tasks rows
    list,      \* the Redis lists; tasks are pushed left, popped right
    call,      \* handlers between two statements
    worker,    \* where each worker is, and the task it holds
    ollamaMu,  \* the worker that holds the mutex
    phase,     \* of the process: up, or cancelled by a signal
    strayed    \* tasks that a fault or an exit has cut off

queueVars == <<left, agent, installed, task, list, call, worker, ollamaMu, phase,
               strayed>>
-----------------------------------------------------------------------------
PriorityChat     == 1
PriorityPush     == 2
PrioritySchedule == 3
Priorities == {PriorityChat, PriorityPush, PrioritySchedule}

NoAgent == [slug |-> None, author |-> None]
NoTask  == [status |-> "none", agent |-> None, prio |-> 0]
Idle    == [op |-> "idle"]

\* A fresh agent id is one that was never used; deleted agents do not come back.
QueueInit ==
    /\ LoadInit
    /\ agent = [a \in AgentIds |-> NoAgent]
    /\ installed = {}
    /\ task = [t \in TaskIds |-> NoTask]
    /\ list = [p \in Priorities |-> <<>>]
    /\ call = [c \in Calls |-> Idle]
    /\ worker = [w \in Workers |-> [at |-> "loop", task |-> None]]
    /\ ollamaMu = None
    /\ phase = "up"
    /\ strayed = {}
-----------------------------------------------------------------------------
(* Helpers *)

Exists(a) == agent[a].author # None

Rows == <<agent, installed, task>>

Process == <<worker, ollamaMu, phase>>

\* GetBySlug: slug is UNIQUE, so there is at most one.
BySlug(s) == {a \in AgentIds : Exists(a) /\ agent[a].slug = s}

\* A task id that no row has and no TriggerAgent has drawn.
FreshTask(t) ==
    /\ task[t] = NoTask
    /\ \A d \in Calls : call[d].op = "trigger" => call[d].task # t

\* A request arrives; the server listens until the workers have stopped.
Serving(c, kind) == call[c] = Idle /\ Spend(kind)

Begin(c, r) == call' = [call EXCEPT ![c] = r]

End(c) == call' = [call EXCEPT ![c] = Idle]

\* An UPDATE of a task's status: no row is changed once its agent is deleted.
SetStatus(t, s) ==
    task' = IF task[t].status = "none" THEN task ELSE [task EXCEPT ![t].status = s]

\* Deleting an agent deletes its installations and its tasks.
Cascade(a) ==
    /\ agent' = [agent EXCEPT ![a].author = None]
    /\ installed' = {i \in installed : i[2] # a}
    /\ task' = [t \in TaskIds |->
                   IF task[t].agent = a THEN [NoTask EXCEPT !.agent = a] ELSE task[t]]
-----------------------------------------------------------------------------
(* Agents and their installations *)

\* INSERT INTO agents: the slug is unique.
CreateAgent(u, s) ==
    /\ BySlug(s) = {}
    /\ \E a \in AgentIds :
          /\ agent[a] = NoAgent
          /\ agent' = [agent EXCEPT ![a] = [slug |-> s, author |-> u]]
    /\ UNCHANGED <<installed, task>>

\* POST /agents
Create(c, u, s) ==
    /\ Serving(c, "agents")
    /\ CreateAgent(u, s)
    /\ UNCHANGED <<list, call, Process, strayed>>

\* GetBySlug, and the check that the caller is the author.
LookAtOwn(u, s, a) == a \in BySlug(s) /\ agent[a].author = u

\* DELETE /agents/{slug}: the agent is looked up first.
Delete(c, u, s) ==
    /\ Serving(c, "agents")
    /\ \E a \in AgentIds :
          /\ LookAtOwn(u, s, a)
          /\ Begin(c, [op |-> "delete", user |-> u, agent |-> a, slug |-> s])
    /\ UNCHANGED <<Rows, list, Process, strayed>>

\* The row is deleted by its slug.
DeleteAgentBySlug(c) ==
    /\ call[c].op = "delete"
    /\ IF BySlug(call[c].slug) # {}
       THEN \E a \in BySlug(call[c].slug) : Cascade(a)
       ELSE UNCHANGED Rows
    /\ End(c)
    /\ UNCHANGED <<left, list, Process, strayed>>

\* DELETE FROM agents WHERE id.
DeleteAgent(c) ==
    /\ call[c].op = "delete"
    /\ IF Exists(call[c].agent) THEN Cascade(call[c].agent) ELSE UNCHANGED Rows
    /\ End(c)
    /\ UNCHANGED <<left, list, Process, strayed>>

\* The repository must be the caller's.
ResolveOwnedRepo(u, r) == OwnerOf[r] = u

\* POST and DELETE /repos/{owner}/{repo}/agents: the agent is looked up first.
Install(c, u, r, s) ==
    /\ Serving(c, "agents")
    /\ ResolveOwnedRepo(u, r)
    /\ \E a \in BySlug(s) : Begin(c, [op |-> "install", repo |-> r, agent |-> a])
    /\ UNCHANGED <<Rows, list, Process, strayed>>

Uninstall(c, u, r, s) ==
    /\ Serving(c, "agents")
    /\ ResolveOwnedRepo(u, r)
    /\ \E a \in BySlug(s) : Begin(c, [op |-> "uninstall", repo |-> r, agent |-> a])
    /\ UNCHANGED <<Rows, list, Process, strayed>>

\* INSERT INTO repo_agents: agent_id must exist, the pair is unique.
InsertRepoAgent(c) ==
    /\ call[c].op = "install"
    /\ installed' = IF Exists(call[c].agent)
                    THEN installed \cup {<<call[c].repo, call[c].agent>>} ELSE installed
    /\ End(c)
    /\ UNCHANGED <<left, agent, task, list, Process, strayed>>

\* DELETE FROM repo_agents.
DeleteRepoAgent(c) ==
    /\ call[c].op = "uninstall"
    /\ installed' = installed \ {<<call[c].repo, call[c].agent>>}
    /\ End(c)
    /\ UNCHANGED <<left, agent, task, list, Process, strayed>>

\* POST .../agents/{slug}/trigger: GetRepoAgent finds the installation.
TriggerAgent(c, u, r, s) ==
    /\ Serving(c, "agents")
    /\ ResolveOwnedRepo(u, r)
    /\ \E a \in BySlug(s), t \in TaskIds :
          /\ <<r, a>> \in installed
          /\ FreshTask(t)
          /\ Begin(c, [op |-> "trigger", agent |-> a, task |-> t])
    /\ UNCHANGED <<Rows, list, Process, strayed>>

\* CreateTask inserts the row, with status queued, and no more.
CreateTask(c) ==
    /\ call[c].op = "trigger"
    /\ IF Exists(call[c].agent)
       THEN task' = [task EXCEPT ![call[c].task] =
                        [status |-> "queued", agent |-> call[c].agent, prio |-> 0]]
       ELSE UNCHANGED task
    /\ End(c)
    /\ UNCHANGED <<left, agent, installed, list, Process, strayed>>
-----------------------------------------------------------------------------
(* Enqueue *)

\* The list is pushed before the row is inserted.
InsertTaskAfterPush(c, t, a, p) ==
    /\ Serving(c, "queue")
    /\ Exists(a)
    /\ FreshTask(t)
    /\ list' = [list EXCEPT ![p] = <<t>> \o @]
    /\ Begin(c, [op |-> "enqueue", task |-> t, prio |-> p])
    /\ task' = [task EXCEPT ![t] = [status |-> "queued", agent |-> a, prio |-> p]]
    /\ UNCHANGED <<agent, installed, Process, strayed>>

\* INSERT the row of a task for an agent.
InsertTask(c, t, a, p) ==
    /\ Serving(c, "queue")
    /\ Exists(a)
    /\ FreshTask(t)
    /\ task' = [task EXCEPT ![t] = [status |-> "queued", agent |-> a, prio |-> p]]
    /\ Begin(c, [op |-> "enqueue", task |-> t, prio |-> p])
    /\ UNCHANGED <<agent, installed, list, Process, strayed>>

\* LPUSH the task, or fail and leave the row.
PushTask(c) ==
    /\ call[c].op = "enqueue"
    /\ \/ /\ list' = [list EXCEPT ![call[c].prio] = <<call[c].task>> \o @]
          /\ UNCHANGED <<left, strayed>>
       \/ /\ Spend("faults")
          /\ strayed' = strayed \cup {call[c].task}
          /\ UNCHANGED list
    /\ End(c)
    /\ UNCHANGED <<Rows, Process>>
-----------------------------------------------------------------------------
(* The workers *)

At(w, place) == worker[w].at = place

Go(w, place) == worker' = [worker EXCEPT ![w].at = place]

\* The select at the top of the loop: the context is cancelled.
Leave(w) ==
    /\ At(w, "loop")
    /\ phase # "up"
    /\ Go(w, "ended")
    /\ UNCHANGED <<left, Rows, list, call, ollamaMu, phase, strayed>>

\* The task is read where it stands and stays in its list.
DequeueLeaving(w) ==
    /\ At(w, "loop")
    /\ phase = "up"
    /\ \E p \in Priorities :
          /\ list[p] # <<>>
          /\ \A q \in Priorities : q < p => list[q] = <<>>
          /\ worker' = [worker EXCEPT ![w] =
                           [at |-> "popped", task |-> list[p][Len(list[p])]]]
    /\ UNCHANGED <<left, Rows, list, call, ollamaMu, phase, strayed>>

\* dequeue: RPOP the lists in the order of their priorities, and BRPOP the last.
\* The three commands are taken as one; a task that is pushed between them is
\* found by the next round.  With a cancelled context they fail.
Dequeue(w) ==
    /\ At(w, "loop")
    /\ phase = "up"
    /\ \E p \in Priorities :
          /\ list[p] # <<>>
          /\ \A q \in Priorities : q < p => list[q] = <<>>
          /\ worker' = [worker EXCEPT ![w] =
                           [at |-> "popped", task |-> list[p][Len(list[p])]]]
          /\ list' = [list EXCEPT ![p] = SubSeq(@, 1, Len(@) - 1)]
    /\ UNCHANGED <<left, Rows, call, ollamaMu, phase, strayed>>

\* UPDATE ... SET status = 'running'; an error is only logged.
MarkRunning(w) ==
    /\ At(w, "popped")
    /\ Go(w, "marked")
    /\ \/ /\ phase = "up"
          /\ SetStatus(worker[w].task, "running")
          /\ UNCHANGED left
       \/ /\ phase # "up"
          /\ UNCHANGED <<left, task>>
       \/ /\ Spend("faults")
          /\ UNCHANGED task
    /\ UNCHANGED <<agent, installed, list, call, ollamaMu, phase, strayed>>

\* A provider that cannot work in parallel is asked under the mutex.
Lock(w) ==
    /\ At(w, "marked")
    /\ Go(w, "asking")
    /\ \/ Parallel /\ UNCHANGED ollamaMu
       \/ ~Parallel /\ ollamaMu = None /\ ollamaMu' = w
    /\ UNCHANGED <<left, Rows, list, call, phase, strayed>>

\* The provider answers, fails, or its request is cancelled.
Generate(w) ==
    /\ At(w, "asking")
    /\ \E answer \in {"completed", "failed"} : Go(w, answer)
    /\ UNCHANGED <<left, Rows, list, call, ollamaMu, phase, strayed>>

\* The mutex is not given back after a failure.
RecordKeeping(w) ==
    /\ worker[w].at \in {"completed", "failed"}
    /\ SetStatus(worker[w].task, worker[w].at)
    /\ worker' = [worker EXCEPT ![w] = [at |-> "loop", task |-> None]]
    /\ ollamaMu' = IF ollamaMu = w /\ At(w, "completed") THEN None ELSE ollamaMu
    /\ UNCHANGED <<left, agent, installed, list, call, phase, strayed>>

\* The outcome is written, if the context still allows it, and the mutex is
\* given back.
Record(w) ==
    /\ worker[w].at \in {"completed", "failed"}
    /\ \/ /\ phase = "up"
          /\ SetStatus(worker[w].task, worker[w].at)
          /\ UNCHANGED <<left, strayed>>
       \/ /\ phase # "up"
          /\ strayed' = strayed \cup {worker[w].task}
          /\ UNCHANGED <<left, task>>
       \/ /\ Spend("faults")
          /\ strayed' = strayed \cup {worker[w].task}
          /\ UNCHANGED task
    /\ worker' = [worker EXCEPT ![w] = [at |-> "loop", task |-> None]]
    /\ ollamaMu' = IF ollamaMu = w THEN None ELSE ollamaMu
    /\ UNCHANGED <<agent, installed, list, call, phase>>

Step(w) ==
    Leave(w) \/ Dequeue(w) \/ MarkRunning(w) \/ Lock(w) \/ Generate(w) \/ Record(w)
-----------------------------------------------------------------------------
(* The process *)

\* A signal: main cancels the workers' context.
AgentCancel ==
    /\ phase = "up"
    /\ Spend("faults")
    /\ phase' = "cancelled"
    /\ UNCHANGED <<Rows, list, call, worker, ollamaMu, strayed>>

\* StopWorkers waits until all workers have ended; the process ends, and is
\* started again with new workers.
StopWorkers ==
    /\ phase = "cancelled"
    /\ \A w \in Workers : At(w, "ended")
    /\ phase' = "up"
    /\ strayed' = strayed \cup
          {call[c].task : c \in {c \in Calls : call[c].op = "enqueue"}}
    /\ call' = [c \in Calls |-> Idle]
    /\ worker' = [w \in Workers |-> [at |-> "loop", task |-> None]]
    /\ UNCHANGED <<left, Rows, list, ollamaMu>>

\* The process dies, and is started again.
Die ==
    /\ Spend("faults")
    /\ phase' = "up"
    /\ strayed' = strayed
          \cup {call[c].task : c \in {c \in Calls : call[c].op = "enqueue"}}
          \cup {worker[w].task : w \in {w \in Workers : worker[w].task # None}}
    /\ call' = [c \in Calls |-> Idle]
    /\ worker' = [w \in Workers |-> [at |-> "loop", task |-> None]]
    /\ ollamaMu' = None
    /\ UNCHANGED <<Rows, list>>
-----------------------------------------------------------------------------
\* The steps that leave the process running.
QueueStep ==
    \/ \E c \in Calls, u \in Users, s \in Slugs : Create(c, u, s) \/ Delete(c, u, s)
    \/ \E c \in Calls, u \in Users, r \in Repos, s \in Slugs :
          Install(c, u, r, s) \/ Uninstall(c, u, r, s) \/ TriggerAgent(c, u, r, s)
    \/ \E c \in Calls, t \in TaskIds, a \in AgentIds, p \in Priorities :
          InsertTask(c, t, a, p)
    \/ \E c \in Calls :
          \/ DeleteAgent(c) \/ InsertRepoAgent(c) \/ DeleteRepoAgent(c)
          \/ CreateTask(c) \/ PushTask(c)
    \/ \E w \in Workers : Step(w)
    \/ AgentCancel

ProcessEnds == StopWorkers \/ Die

QueueNext == QueueStep \/ ProcessEnds

QueueSpec == QueueInit /\ [][QueueNext]_queueVars

\* Handlers and workers run, the provider answers or is cancelled.
QueueFairness ==
    /\ \A c \in Calls : WF_queueVars(PushTask(c))
    /\ \A w \in Workers :
          /\ WF_queueVars(Leave(w) \/ Dequeue(w) \/ MarkRunning(w) \/ Generate(w) \/ Record(w))
          /\ SF_queueVars(Lock(w))
    /\ WF_queueVars(StopWorkers)
-----------------------------------------------------------------------------
(* Properties *)

\* The places a pushed task can be in.
Listed(t) == \E p \in Priorities : \E i \in 1..Len(list[p]) : list[p][i] = t
Held(t)   == \E w \in Workers : worker[w].task = t
Pushing(t) == \E c \in Calls : call[c].op = "enqueue" /\ call[c].task = t

\* A task that was enqueued and whose row is not final is in exactly one place:
\* about to be pushed, in a list, or with a worker, unless a failed statement or
\* the end of the process has cut it off.  TriggerAgent's tasks have no priority
\* and are in none.
NoTaskGoesAstray ==
    \A t \in TaskIds :
        task[t].prio # 0 /\ task[t].status \in {"queued", "running"} /\ t \notin strayed
            => Cardinality({x \in {"list", "worker", "call"} :
                  \/ x = "list" /\ Listed(t)
                  \/ x = "worker" /\ Held(t)
                  \/ x = "call" /\ Pushing(t)}) = 1

\* A worker is given a task at most once: no other worker has it, none has run it
\* before, and no fault has cut it off, though a task whose row was never updated
\* still looks queued.
TasksRunOnce ==
    [][\A w \in Workers, t \in TaskIds :
          worker[w].task # t /\ worker'[w].task = t =>
             /\ ~Held(t) /\ t \notin strayed
             /\ task[t].status \in {"queued", "none"}]_queueVars

\* An agent disappears only when its own author has asked for it, also when
\* another agent has taken its slug between the look-up and the DELETE.
OnlyItsAuthorDeletes ==
    [][\A a \in AgentIds : Exists(a) /\ ~Exists(a)' =>
          \E c \in Calls : call[c].op = "delete" /\ call[c].user = agent[a].author]_queueVars

\* A task in a list is completed or failed in the end, unless its agent is
\* deleted or it is cut off by a fault, whatever its priority.
ListedTasksEnd ==
    \A t \in TaskIds :
        Listed(t) ~> task[t].status \in {"completed", "failed", "none"} \/ t \in strayed

\* The graceful shutdown ends, though a worker may be waiting for the mutex.
ShutdownEnds == phase = "cancelled" ~> phase = "up"
=============================================================================
