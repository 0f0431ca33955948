-------------------------- MODULE AssistantProofs ---------------------------
(***************************************************************************)
(* Theorems about Assistant: an agent is deleted only at its author's      *)
(* request, no task is lost but to a fault or run twice, and an answer     *)
(* stands behind its question.                                             *)
(***************************************************************************)
EXTENDS Assistant, FiniteSetTheorems, SequenceTheorems, TLAPS

-----------------------------------------------------------------------------
(* Steps that concern neither the workers nor the rows of agents *)

LEMMA ChatIsApart ==
    ASSUME ChatNext /\ UNCHANGED queueOnly
    PROVE  UNCHANGED <<agent, call, worker, ollamaMu>>
BY DEF queueOnly
-----------------------------------------------------------------------------
(* Deletions *)

\* A handler that has looked up an agent of its caller still means that agent, which
\* is the caller's or gone for good.
DeletionInv ==
    /\ DOMAIN agent = AgentIds /\ DOMAIN call = Calls
    /\ \A a \in AgentIds : DOMAIN agent[a] = {"slug", "author"}
    /\ \A c \in Calls : call[c].op = "delete" =>
          /\ call[c].agent \in AgentIds
          /\ agent[call[c].agent].slug # None
          /\ agent[call[c].agent].author \in {call[c].user, None}

\* What a handler goes on with is no deletion.
LEMMA OthersKeepDeletionInv ==
    ASSUME DeletionInv, UNCHANGED agent, NEW c \in Calls, NEW r, r.op # "delete",
           call' = [call EXCEPT ![c] = r]
    PROVE  DeletionInv'
BY DEF DeletionInv

LEMMA CreateKeepsDeletionInv ==
    ASSUME DeletionInv, NEW u \in Users, NEW s \in Slugs, CreateAgent(u, s), UNCHANGED call
    PROVE  DeletionInv'
<1>1. PICK a \in AgentIds : /\ agent[a] = NoAgent
                            /\ agent' = [agent EXCEPT ![a] = [slug |-> s, author |-> u]]
  BY DEF CreateAgent
<1>2. agent[a].slug = None
  BY <1>1 DEF NoAgent
<1>3. QED
  BY <1>1, <1>2 DEF DeletionInv

LEMMA LookKeepsDeletionInv ==
    ASSUME DeletionInv, NEW c \in Calls, NEW u \in Users, NEW s \in Slugs, Delete(c, u, s)
    PROVE  DeletionInv'
<1>1. PICK a \in AgentIds :
         /\ agent[a].slug = s /\ agent[a].author = u
         /\ call' = [call EXCEPT ![c] = [op |-> "delete", user |-> u, agent |-> a, slug |-> s]]
  BY DEF Delete, LookAtOwn, BySlug, Begin
<1>2. UNCHANGED agent /\ s # None
  BY AgentQueueAssumption DEF Delete, Rows
<1>3. QED
  BY <1>1, <1>2 DEF DeletionInv

LEMMA CascadeKeepsDeletionInv ==
    ASSUME DeletionInv, NEW c \in Calls, DeleteAgent(c)
    PROVE  DeletionInv'
<1>1. call' = [call EXCEPT ![c] = Idle]
  BY DEF DeleteAgent, End
<1>2. \/ UNCHANGED agent
      \/ agent' = [agent EXCEPT ![call[c].agent].author = None]
  BY DEF DeleteAgent, Cascade, Rows
<1>3. QED
  BY <1>1, <1>2 DEF DeletionInv, Idle

LEMMA DeletionInvStep ==
    ASSUME DeletionInv, [Next]_vars
    PROVE  DeletionInv'
<1>1. CASE UNCHANGED <<agent, call>>
  BY <1>1 DEF DeletionInv
<1>2. CASE QueueStep
  <2>1. ASSUME NEW w \in Workers, Step(w)
        PROVE  DeletionInv'
    BY <1>1, <2>1 DEF Step, Leave, Dequeue, MarkRunning, Lock, Generate, Record, Rows
  <2>2. CASE AgentCancel
    BY <1>1, <2>2 DEF AgentCancel, Rows
  <2>3. ASSUME NEW c \in Calls,
               InsertRepoAgent(c) \/ DeleteRepoAgent(c) \/ CreateTask(c) \/ PushTask(c)
        PROVE  DeletionInv'
    BY <2>3, OthersKeepDeletionInv
       DEF InsertRepoAgent, DeleteRepoAgent, CreateTask, PushTask, Rows, End, Idle
  <2>4. ASSUME NEW c \in Calls, NEW u \in Users, NEW s \in Slugs, Create(c, u, s)
        PROVE  DeletionInv'
    BY <2>4, CreateKeepsDeletionInv DEF Create
  <2>5. ASSUME NEW c \in Calls, NEW u \in Users, NEW r \in Repos, NEW s \in Slugs,
               Install(c, u, r, s) \/ Uninstall(c, u, r, s) \/ TriggerAgent(c, u, r, s)
        PROVE  DeletionInv'
    BY <2>5, OthersKeepDeletionInv DEF Install, Uninstall, TriggerAgent, Begin, Rows
  <2>6. ASSUME NEW c \in Calls, NEW t \in TaskIds, NEW a \in AgentIds, NEW p \in Priorities,
               InsertTask(c, t, a, p)
        PROVE  DeletionInv'
    BY <2>6, OthersKeepDeletionInv DEF InsertTask, Begin
  <2>7. QED
    BY <1>2, <2>1, <2>2, <2>3, <2>4, <2>5, <2>6, LookKeepsDeletionInv, CascadeKeepsDeletionInv
       DEF QueueStep
<1>3. CASE ProcessEnds
  <2>1. UNCHANGED agent /\ call' = [c \in Calls |-> Idle]
    BY <1>3 DEF ProcessEnds, StopWorkers, Die, Rows
  <2>2. QED
    BY <2>1 DEF DeletionInv, Idle
<1>4. QED
  BY <1>1, <1>2, <1>3, ChatIsApart DEF Next, vars, queueOnly

\* Only a deletion takes an agent's author away.
LEMMA FewDelete ==
    ASSUME DeletionInv, [Next]_vars, NEW a \in AgentIds, Exists(a), ~Exists(a)'
    PROVE  \E c \in Calls : DeleteAgent(c)
<1>1. agent' # agent
  BY DEF Exists
<1>2. ASSUME NEW u \in Users, NEW s \in Slugs, CreateAgent(u, s)
      PROVE  FALSE
  BY <1>2, CommonAssumption DEF CreateAgent, Exists, DeletionInv
<1>3. ASSUME NEW w \in Workers, Step(w)
      PROVE  FALSE
  BY <1>1, <1>3 DEF Step, Leave, Dequeue, MarkRunning, Lock, Generate, Record, Rows
<1>4. ASSUME NEW c \in Calls,
             InsertRepoAgent(c) \/ DeleteRepoAgent(c) \/ CreateTask(c) \/ PushTask(c)
      PROVE  FALSE
  BY <1>1, <1>4 DEF InsertRepoAgent, DeleteRepoAgent, CreateTask, PushTask, Rows
<1>5. ASSUME NEW c \in Calls, NEW u \in Users, NEW s \in Slugs, Create(c, u, s) \/ Delete(c, u, s)
      PROVE  FALSE
  BY <1>1, <1>2, <1>5 DEF Create, Delete, Rows
<1>6. ASSUME NEW c \in Calls, NEW u \in Users, NEW r \in Repos, NEW s \in Slugs,
             Install(c, u, r, s) \/ Uninstall(c, u, r, s) \/ TriggerAgent(c, u, r, s)
      PROVE  FALSE
  BY <1>1, <1>6 DEF Install, Uninstall, TriggerAgent, Rows
<1>7. ASSUME NEW c \in Calls, NEW t \in TaskIds, NEW b \in AgentIds, NEW p \in Priorities,
             InsertTask(c, t, b, p)
      PROVE  FALSE
  BY <1>1, <1>7 DEF InsertTask
<1>8. ASSUME AgentCancel \/ ProcessEnds
      PROVE  FALSE
  BY <1>1, <1>8 DEF AgentCancel, ProcessEnds, StopWorkers, Die, Rows
<1>9. QED
  BY <1>1, <1>3, <1>4, <1>5, <1>6, <1>7, <1>8, ChatIsApart DEF Next, QueueStep, vars, queueOnly

LEMMA OnlyItsAuthorStep ==
    ASSUME DeletionInv, [Next]_vars
    PROVE  [\A a \in AgentIds : Exists(a) /\ ~Exists(a)' =>
              \E c \in Calls : call[c].op = "delete" /\ call[c].user = agent[a].author]_queueVars
<1> SUFFICES ASSUME NEW a \in AgentIds, Exists(a), ~Exists(a)'
             PROVE  \E c \in Calls : call[c].op = "delete" /\ call[c].user = agent[a].author
  OBVIOUS
<1>1. PICK c \in Calls : DeleteAgent(c)
  BY FewDelete
<1>2. call[c].op = "delete"
  BY <1>1 DEF DeleteAgent
<1>3. a = call[c].agent
  BY <1>1, <1>2 DEF DeleteAgent, Cascade, Rows, Exists, DeletionInv
<1>4. QED
  BY <1>2, <1>3 DEF DeletionInv, Exists

\* OnlyItsAuthorDeletes (AgentQueue.tla): an agent goes only when its author has
\* asked for it (api/handlers/agent.go, Delete), though the row is looked up in one
\* statement and deleted in another.
THEOREM OnlyAuthorsDelete == Spec => OnlyItsAuthorDeletes
<1>1. Init => DeletionInv
  BY DEF Init, QueueInit, DeletionInv, NoAgent, Idle
<1>2. DeletionInv /\ [Next]_vars => DeletionInv'
  BY DeletionInvStep
<1>3. DeletionInv /\ [Next]_vars
      => [\A a \in AgentIds : Exists(a) /\ ~Exists(a)' =>
            \E c \in Calls : call[c].op = "delete" /\ call[c].user = agent[a].author]_queueVars
  BY OnlyItsAuthorStep
<1>4. QED
  BY <1>1, <1>2, <1>3, PTL DEF Spec, OnlyItsAuthorDeletes
-----------------------------------------------------------------------------
(* Tasks *)

\* The types of what a task passes through; a worker at the top of its loop, or
\* ended, has no task.
QueueType ==
    /\ task \in [TaskIds -> [status : {"none", "queued", "running", "completed", "failed"},
                             agent : AgentIds \cup {None}, prio : {0} \cup Priorities]]
    /\ list \in [Priorities -> Seq(TaskIds)]
    /\ worker \in [Workers -> [at : {"loop", "popped", "marked", "asking", "completed",
                                     "failed", "ended"},
                               task : TaskIds \cup {None}]]
    /\ \A w \in Workers : worker[w].task = None <=> worker[w].at \in {"loop", "ended"}
    /\ DOMAIN call = Calls
    /\ \A c \in Calls :
          /\ call[c].op = "trigger" => call[c].agent \in AgentIds
          /\ call[c].op \in {"trigger", "enqueue"} => call[c].task \in TaskIds
          /\ call[c].op = "enqueue" => call[c].prio \in Priorities

\* A handler goes on with r.
LEMMA CallType ==
    ASSUME QueueType, UNCHANGED <<task, list, worker>>, NEW c \in Calls, NEW r,
           call' = [call EXCEPT ![c] = r],
           r.op = "trigger" => r.agent \in AgentIds,
           r.op \in {"trigger", "enqueue"} => r.task \in TaskIds,
           r.op = "enqueue" => r.prio \in Priorities
    PROVE  QueueType'
BY DEF QueueType

\* LPUSH and RPOP.
LEMMA PushLeft ==
    ASSUME NEW S, NEW l \in Seq(S), NEW t \in S
    PROVE  /\ <<t>> \o l \in Seq(S)
           /\ Len(<<t>> \o l) = Len(l) + 1
           /\ (<<t>> \o l)[1] = t
           /\ \A i \in 1..Len(l) : (<<t>> \o l)[i + 1] = l[i]
OBVIOUS

LEMMA PopRight ==
    ASSUME NEW S, NEW l \in Seq(S), l # <<>>
    PROVE  /\ Len(l) \in 1..Len(l) /\ l[Len(l)] \in S
           /\ SubSeq(l, 1, Len(l) - 1) \in Seq(S)
           /\ Len(SubSeq(l, 1, Len(l) - 1)) = Len(l) - 1
           /\ \A i \in 1..Len(l) - 1 : SubSeq(l, 1, Len(l) - 1)[i] = l[i]
<1>1. Len(l) \in Nat /\ Len(l) # 0
  OBVIOUS
<1>2. Len(l) - 1 \in 0..Len(l) /\ \A i \in 1..Len(l) - 1 : l[i] \in S
  BY <1>1
<1>3. /\ SubSeq(l, 1, Len(l) - 1) \in Seq(S)
      /\ Len(SubSeq(l, 1, Len(l) - 1)) = Len(l) - 1
  <2> DEFINE n == Len(l) - 1
  <2>1. n \in Nat /\ \A i \in 1..n : l[i] \in S
    BY <1>1, <1>2
  <2> HIDE DEF n
  <2>2. /\ SubSeq(l, 1, n) \in Seq(S)
        /\ Len(SubSeq(l, 1, n)) = n
    BY <2>1, SubSeqProperties
  <2>3. QED BY <2>2 DEF n
<1>4. \A i \in 1..Len(l) - 1 : SubSeq(l, 1, Len(l) - 1)[i] = l[i]
  BY <1>1, <1>2
<1>5. Len(l) \in 1..Len(l) /\ l[Len(l)] \in S
  BY <1>1
<1>6. QED BY <1>3, <1>4, <1>5

LEMMA StatusType ==
    ASSUME QueueType, NEW t \in TaskIds,
           NEW s \in {"running", "completed", "failed"}, SetStatus(t, s)
    PROVE  task' \in [TaskIds -> [status : {"none", "queued", "running", "completed", "failed"},
                                  agent : AgentIds \cup {None}, prio : {0} \cup Priorities]]
<1>1. task[t] \in [status : {"none", "queued", "running", "completed", "failed"},
                    agent : AgentIds \cup {None}, prio : {0} \cup Priorities]
  BY DEF QueueType
<1>2. [task[t] EXCEPT !.status = s] \in
          [status : {"none", "queued", "running", "completed", "failed"},
           agent : AgentIds \cup {None}, prio : {0} \cup Priorities]
  BY <1>1
<1>3. task' = task \/ task' = [task EXCEPT ![t] = [task[t] EXCEPT !.status = s]]
  BY DEF SetStatus
<1>4. QED BY <1>2, <1>3 DEF QueueType

LEMMA WorkerType ==
    ASSUME QueueType, NEW w \in Workers, Step(w)
    PROVE  QueueType'
<1>1. CASE Leave(w)
  BY <1>1 DEF Leave, At, Go, QueueType, Rows
<1>2. CASE Dequeue(w)
  <2>1. PICK p \in Priorities :
           /\ list[p] # <<>>
           /\ worker' = [worker EXCEPT ![w] = [at |-> "popped", task |-> list[p][Len(list[p])]]]
           /\ list' = [list EXCEPT ![p] = SubSeq(list[p], 1, Len(list[p]) - 1)]
    BY <1>2 DEF Dequeue
  <2>2. list[p] \in Seq(TaskIds)
    BY DEF QueueType
  <2>3. list[p][Len(list[p])] \in TaskIds /\ SubSeq(list[p], 1, Len(list[p]) - 1) \in Seq(TaskIds)
    BY <2>1, <2>2, PopRight
  <2>4. None \notin TaskIds
    BY AgentQueueAssumption
  <2>5. QED BY <1>2, <2>1, <2>3, <2>4 DEF Dequeue, QueueType, Rows
<1>3. CASE MarkRunning(w)
  <2>1. worker[w].task \in TaskIds /\ worker[w].at = "popped"
    BY <1>3 DEF MarkRunning, At, QueueType
  <2>2. task' = task \/ SetStatus(worker[w].task, "running")
    BY <1>3 DEF MarkRunning
  <2>3. task' \in [TaskIds -> [status : {"none", "queued", "running", "completed", "failed"},
                              agent : AgentIds \cup {None}, prio : {0} \cup Priorities]]
    BY <2>1, <2>2, StatusType DEF QueueType
  <2>4. worker' = [worker EXCEPT ![w].at = "marked"] /\ UNCHANGED <<list, call>>
    BY <1>3 DEF MarkRunning, Go
  <2>5. QED BY <2>1, <2>3, <2>4 DEF QueueType
<1>4. CASE Lock(w) \/ Generate(w)
  <2>1. /\ worker[w].at \in {"marked", "asking"}
        /\ \E place \in {"asking", "completed", "failed"} :
              worker' = [worker EXCEPT ![w].at = place]
        /\ UNCHANGED <<task, list, call>>
    BY <1>4 DEF Lock, Generate, At, Go, Rows
  <2>2. QED BY <2>1 DEF QueueType
<1>5. CASE Record(w)
  <2>1. worker[w].task \in TaskIds /\ worker[w].at \in {"completed", "failed"}
    BY <1>5 DEF Record, QueueType
  <2>2. task' = task \/ SetStatus(worker[w].task, worker[w].at)
    BY <1>5 DEF Record
  <2>3. task' \in [TaskIds -> [status : {"none", "queued", "running", "completed", "failed"},
                              agent : AgentIds \cup {None}, prio : {0} \cup Priorities]]
    BY <2>1, <2>2, StatusType DEF QueueType
  <2>4. worker' = [worker EXCEPT ![w] = [at |-> "loop", task |-> None]] /\ UNCHANGED <<list, call>>
    BY <1>5 DEF Record
  <2>5. QED BY <2>3, <2>4 DEF QueueType
<1>6. QED BY <1>1, <1>2, <1>3, <1>4, <1>5 DEF Step

LEMMA QueueTypeStep ==
    ASSUME QueueType, DeletionInv, [Next]_vars
    PROVE  QueueType'
<1>1. CASE UNCHANGED <<task, list, worker, call>>
  BY <1>1 DEF QueueType
<1>2. CASE QueueStep
  <2>1. ASSUME NEW c \in Calls, NEW u \in Users, NEW s \in Slugs, Create(c, u, s)
        PROVE  QueueType'
    BY <1>1, <2>1 DEF Create, CreateAgent, Serving, Process
  <2>2. ASSUME NEW c \in Calls, NEW u \in Users, NEW s \in Slugs, Delete(c, u, s)
        PROVE  QueueType'
    BY <2>2, CallType DEF Delete, Begin, Rows, Process
  <2>3. ASSUME NEW c \in Calls, NEW u \in Users, NEW r \in Repos, NEW s \in Slugs,
               Install(c, u, r, s) \/ Uninstall(c, u, r, s)
        PROVE  QueueType'
    BY <2>3, CallType DEF Install, Uninstall, Begin, Rows, Process
  <2>4. ASSUME NEW c \in Calls, NEW u \in Users, NEW r \in Repos, NEW s \in Slugs,
               TriggerAgent(c, u, r, s)
        PROVE  QueueType'
    <3>1. PICK a \in AgentIds, t \in TaskIds :
             Begin(c, [op |-> "trigger", agent |-> a, task |-> t])
      BY <2>4 DEF TriggerAgent, BySlug
    <3>2. QED BY <2>4, <3>1, CallType DEF TriggerAgent, Begin, Rows, Process
  <2>5. ASSUME NEW c \in Calls, NEW t \in TaskIds, NEW a \in AgentIds, NEW p \in Priorities,
               InsertTask(c, t, a, p)
        PROVE  QueueType'
    BY <2>5 DEF InsertTask, Begin, QueueType, Process
  <2>6. ASSUME NEW c \in Calls, InsertRepoAgent(c) \/ DeleteRepoAgent(c)
        PROVE  QueueType'
    BY <2>6, CallType DEF InsertRepoAgent, DeleteRepoAgent, End, Idle, Process
  <2>7. ASSUME NEW c \in Calls, DeleteAgent(c)
        PROVE  QueueType'
    <3>1. task' \in [TaskIds -> [status : {"none", "queued", "running", "completed", "failed"},
                                agent : AgentIds \cup {None}, prio : {0} \cup Priorities]]
      <4>1. call[c].agent \in AgentIds
        BY <2>7 DEF DeleteAgent, DeletionInv
      <4>2. CASE UNCHANGED task
        BY <4>2 DEF QueueType
      <4>3. CASE task' = [t \in TaskIds |-> IF task[t].agent = call[c].agent
                                           THEN [NoTask EXCEPT !.agent = call[c].agent]
                                           ELSE task[t]]
        BY <4>1, <4>3 DEF QueueType, NoTask
      <4>4. QED BY <2>7, <4>2, <4>3 DEF DeleteAgent, Cascade, Rows
    <3>2. call' = [call EXCEPT ![c] = Idle] /\ UNCHANGED <<list, worker>>
      BY <2>7 DEF DeleteAgent, End, Process
    <3>3. QED BY <3>1, <3>2 DEF QueueType, Idle
  <2>8. ASSUME NEW c \in Calls, CreateTask(c)
        PROVE  QueueType'
    BY <2>8 DEF CreateTask, End, Idle, QueueType, Process
  <2>9. ASSUME NEW c \in Calls, PushTask(c)
        PROVE  QueueType'
    <3>1. list' \in [Priorities -> Seq(TaskIds)]
      <4>1. call[c].prio \in Priorities /\ call[c].task \in TaskIds
        BY <2>9 DEF PushTask, QueueType
      <4>2. list[call[c].prio] \in Seq(TaskIds)
        BY <4>1 DEF QueueType
      <4>3. <<call[c].task>> \o list[call[c].prio] \in Seq(TaskIds)
        BY <4>1, <4>2, PushLeft
      <4>4. QED BY <2>9, <4>1, <4>3 DEF PushTask, QueueType
    <3>2. call' = [call EXCEPT ![c] = Idle] /\ UNCHANGED <<task, worker>>
      BY <2>9 DEF PushTask, End, Rows, Process
    <3>3. QED BY <3>1, <3>2 DEF QueueType, Idle
  <2>10. QED BY <1>1, <1>2, <2>1, <2>2, <2>3, <2>4, <2>5, <2>6, <2>7, <2>8, <2>9, WorkerType
             DEF QueueStep, AgentCancel, Rows
<1>3. CASE ProcessEnds
  <2>1. /\ UNCHANGED <<task, list>>
        /\ call' = [c \in Calls |-> Idle]
        /\ worker' = [w \in Workers |-> [at |-> "loop", task |-> None]]
    BY <1>3 DEF ProcessEnds, StopWorkers, Die, Rows
  <2>2. QED BY <2>1 DEF QueueType, Idle
<1>4. QED BY <1>1, <1>2, <1>3 DEF Next, vars, queueOnly

Placed(t) == Listed(t) \/ Held(t) \/ Pushing(t)

\* Enqueued, and its row not final.
Open(t) == task[t].prio # 0 /\ task[t].status \in {"queued", "running"} /\ t \notin strayed

\* A task is in one position of one list, with workers, or with one call, and
\* then has a row, or had one; an open one is somewhere.  What TriggerAgent is
\* about to insert has no row yet.
PlaceInv ==
    /\ \A p, q \in Priorities : \A i \in 1..Len(list[p]), j \in 1..Len(list[q]) :
          list[p][i] = list[q][j] => p = q /\ i = j
    /\ \A c, d \in Calls :
          call[c].op = "enqueue" /\ call[d].op = "enqueue" /\ call[c].task = call[d].task
              => c = d
    /\ \A t \in TaskIds :
          /\ ~(Listed(t) /\ Held(t)) /\ ~(Listed(t) /\ Pushing(t)) /\ ~(Held(t) /\ Pushing(t))
          /\ Placed(t) => task[t] # NoTask
          /\ Open(t) => Placed(t)
    /\ \A c \in Calls : call[c].op = "trigger" => task[call[c].task] = NoTask
    /\ \A c, d \in Calls :
          call[c].op = "trigger" /\ call[d].op = "trigger" /\ call[c].task = call[d].task
              => c = d

LEMMA PlaceInit == Init => QueueType /\ PlaceInv
<1>1. ASSUME Init PROVE QueueType
  BY <1>1 DEF Init, QueueInit, QueueType, NoTask, Idle
<1>2. ASSUME Init PROVE PlaceInv
  <2>1. /\ \A t \in TaskIds : task[t] = NoTask
        /\ \A p \in Priorities : list[p] = <<>> /\ 1..Len(list[p]) = {}
        /\ \A c \in Calls : call[c].op = "idle"
        /\ \A w \in Workers : worker[w].task = None
    BY <1>2 DEF Init, QueueInit, Idle
  <2>2. \A t \in TaskIds : ~Listed(t) /\ ~Held(t) /\ ~Pushing(t) /\ ~Open(t)
    BY <2>1, AgentQueueAssumption DEF Listed, Held, Pushing, Open, NoTask
  <2>3. QED BY <2>1, <2>2 DEF PlaceInv, Placed
<1>3. QED BY <1>1, <1>2

\* Steps that push and pop nothing: a worker keeps its task or lets go of it, a
\* call goes on or ends, no row is freed, and what is open has a place still.
Quiet ==
    /\ UNCHANGED list
    /\ \A c \in Calls :
          /\ call'[c].op = "enqueue" =>
                call[c].op = "enqueue" /\ call'[c].task = call[c].task
          /\ call'[c].op = "trigger" =>
                /\ call[c].op = "trigger" /\ call'[c].task = call[c].task
                /\ task'[call[c].task] = NoTask
    /\ \A t \in TaskIds : /\ Held(t)' => Held(t)
                          /\ task[t] # NoTask => task'[t] # NoTask
                          /\ Open(t)' => Placed(t)'

LEMMA QuietStep ==
    ASSUME PlaceInv, Quiet
    PROVE  PlaceInv'
<1>1. \A t \in TaskIds : /\ Listed(t)' <=> Listed(t)
                         /\ Held(t)' => Held(t)
                         /\ Pushing(t)' => Pushing(t)
  BY DEF Quiet, Listed, Pushing
<1>2. \A t \in TaskIds :
          /\ ~(Listed(t)' /\ Held(t)') /\ ~(Listed(t)' /\ Pushing(t)')
          /\ ~(Held(t)' /\ Pushing(t)')
          /\ Placed(t)' => task'[t] # NoTask
          /\ Open(t)' => Placed(t)'
  BY <1>1 DEF PlaceInv, Placed, Quiet
<1>3. /\ \A p, q \in Priorities : \A i \in 1..Len(list'[p]), j \in 1..Len(list'[q]) :
            list'[p][i] = list'[q][j] => p = q /\ i = j
      /\ \A c, d \in Calls :
            call'[c].op = "enqueue" /\ call'[d].op = "enqueue" /\ call'[c].task = call'[d].task
                => c = d
  BY DEF PlaceInv, Quiet
<1>4. /\ \A c \in Calls : call'[c].op = "trigger" => task'[call'[c].task] = NoTask
      /\ \A c, d \in Calls :
            call'[c].op = "trigger" /\ call'[d].op = "trigger" /\ call'[c].task = call'[d].task
                => c = d
  BY DEF PlaceInv, Quiet
<1>5. QED BY <1>2, <1>3, <1>4 DEF PlaceInv

\* What is open and stays where it is, is still somewhere.
LEMMA PlacesStay ==
    ASSUME PlaceInv, UNCHANGED list, NEW t \in TaskIds, Open(t),
           Held(t) => Held(t)', Pushing(t) => Pushing(t)'
    PROVE  Placed(t)'
<1>1. Listed(t) \/ Held(t) \/ Pushing(t)
  BY DEF PlaceInv, Placed
<1>2. Listed(t)' <=> Listed(t)
  BY DEF Listed
<1>3. QED BY <1>1, <1>2 DEF Placed

\* A handler that pushes nothing goes on with r.
LEMMA HandlerQuiet ==
    ASSUME QueueType, PlaceInv, NEW c \in Calls, NEW r, r.op \notin {"enqueue", "trigger"},
           call[c].op # "enqueue", call' = [call EXCEPT ![c] = r], UNCHANGED <<list, worker>>,
           \A t \in TaskIds : /\ task[t] # NoTask => task'[t] # NoTask
                              /\ Open(t)' => Open(t),
           \A d \in Calls \ {c} : call[d].op = "trigger" => task'[call[d].task] = NoTask
    PROVE  PlaceInv'
<1>1. \A d \in Calls \ {c} : call'[d] = call[d]
  BY DEF QueueType
<1>2. call'[c] = r
  BY DEF QueueType
<1>3. \A t \in TaskIds : /\ Held(t)' <=> Held(t)
                         /\ Pushing(t)' <=> Pushing(t)
  BY <1>1, <1>2 DEF Held, Pushing
<1>4. \A t \in TaskIds : Open(t)' => Placed(t)'
  BY <1>3, PlacesStay
<1>5. Quiet
  BY <1>1, <1>2, <1>3, <1>4 DEF Quiet
<1>6. QED BY <1>5, QuietStep

\* RPOP: the task leaves its only place for the worker that pops it.
LEMMA DequeuePlaces ==
    ASSUME QueueType, PlaceInv, NEW w \in Workers, Dequeue(w)
    PROVE  PlaceInv'
<1>1. PICK p \in Priorities :
         /\ list[p] # <<>>
         /\ worker' = [worker EXCEPT ![w] = [at |-> "popped", task |-> list[p][Len(list[p])]]]
         /\ list' = [list EXCEPT ![p] = SubSeq(list[p], 1, Len(list[p]) - 1)]
  BY DEF Dequeue
<1> DEFINE n == Len(list[p])
           t == list[p][n]
<1>2. UNCHANGED <<task, call, strayed>> /\ worker[w].task = None
  BY DEF Dequeue, Rows, QueueType, At
<1>3. list[p] \in Seq(TaskIds) /\ \A q \in Priorities : list[q] \in Seq(TaskIds)
  BY DEF QueueType
<1>4. /\ n \in Nat /\ n \in 1..n /\ t \in TaskIds
      /\ Len(list'[p]) = n - 1
      /\ \A i \in 1..n - 1 : list'[p][i] = list[p][i]
      /\ \A q \in Priorities \ {p} : list'[q] = list[q]
  <2>1. list'[p] = SubSeq(list[p], 1, n - 1)
    BY <1>1 DEF QueueType
  <2>2. \A q \in Priorities \ {p} : list'[q] = list[q]
    BY <1>1 DEF QueueType
  <2>3. n \in Nat /\ n \in 1..n /\ t \in TaskIds
    BY <1>1, <1>3, PopRight
  <2>4. Len(list'[p]) = n - 1 /\ \A i \in 1..n - 1 : list'[p][i] = list[p][i]
    BY <1>1, <1>3, <2>1, PopRight
  <2>5. QED BY <2>2, <2>3, <2>4
<1> HIDE DEF n, t
<1>5. \A q \in Priorities : \A i \in 1..Len(list'[q]) :
          /\ i \in 1..Len(list[q]) /\ list'[q][i] = list[q][i]
          /\ q = p => i # n
  BY <1>3, <1>4 DEF n
<1>6. n \in 1..Len(list[p]) /\ list[p][n] = t
  BY <1>4 DEF n, t
<1>7. \A q \in Priorities : \A i \in 1..Len(list'[q]) : list'[q][i] # t
  BY <1>5, <1>6 DEF PlaceInv
<1>8. ASSUME NEW u \in TaskIds
      PROVE  /\ Listed(u)' <=> Listed(u) /\ u # t
             /\ Held(u)' <=> Held(u) \/ u = t
             /\ Pushing(u)' <=> Pushing(u)
  <2>1. Listed(u)' => Listed(u) /\ u # t
    BY <1>5, <1>7 DEF Listed
  <2>2. ASSUME Listed(u), u # t PROVE Listed(u)'
    <3>1. PICK q \in Priorities : \E i \in 1..Len(list[q]) : list[q][i] = u
      BY <2>2 DEF Listed
    <3>2. PICK i \in 1..Len(list[q]) : list[q][i] = u
      BY <3>1
    <3>3. i \in 1..Len(list'[q]) /\ list'[q][i] = u
      <4>1. CASE q = p
        <5>1. i # n
          BY <1>6, <2>2, <3>2, <4>1
        <5>2. i \in 1..n - 1
          BY <1>4, <3>2, <4>1, <5>1 DEF n
        <5>3. QED BY <1>4, <3>2, <4>1, <5>2
      <4>2. CASE q # p
        BY <1>4, <3>2, <4>2
      <4>3. QED BY <4>1, <4>2
    <3>4. QED BY <3>3 DEF Listed
  <2>3. /\ worker'[w].task = t
        /\ \A v \in Workers \ {w} : worker'[v].task = worker[v].task
    BY <1>1 DEF QueueType, t, n
  <2>4. u # None
    BY AgentQueueAssumption
  <2>5. Held(u)' <=> Held(u) \/ u = t
    BY <1>2, <2>3, <2>4 DEF Held
  <2>6. Pushing(u)' <=> Pushing(u)
    BY <1>2 DEF Pushing
  <2>7. QED BY <2>1, <2>2, <2>5, <2>6
<1>9. Listed(t)
  BY <1>6 DEF Listed
<1>10. \A u \in TaskIds :
          /\ ~(Listed(u)' /\ Held(u)') /\ ~(Listed(u)' /\ Pushing(u)')
          /\ ~(Held(u)' /\ Pushing(u)')
          /\ Placed(u)' => task'[u] # NoTask
          /\ Open(u)' => Placed(u)'
  BY <1>2, <1>8, <1>9 DEF PlaceInv, Placed, Open
<1>11. \A q, r \in Priorities : \A i \in 1..Len(list'[q]), j \in 1..Len(list'[r]) :
          list'[q][i] = list'[r][j] => q = r /\ i = j
  BY <1>5 DEF PlaceInv
<1>12. QED BY <1>2, <1>10, <1>11 DEF PlaceInv

LEMMA WorkerPlaces ==
    ASSUME QueueType, PlaceInv, NEW w \in Workers, Step(w)
    PROVE  PlaceInv'
<1>1. CASE Leave(w) \/ Lock(w) \/ Generate(w)
  <2>1. /\ UNCHANGED <<task, list, call, strayed>>
        /\ \E place : worker' = [worker EXCEPT ![w].at = place]
    BY <1>1 DEF Leave, Lock, Generate, Go, Rows
  <2>2. \A v \in Workers : worker'[v].task = worker[v].task
    BY <2>1 DEF QueueType
  <2>3. \A t \in TaskIds : /\ Held(t)' <=> Held(t)
                           /\ Pushing(t)' <=> Pushing(t)
                           /\ Open(t)' <=> Open(t)
    BY <2>1, <2>2 DEF Held, Pushing, Open
  <2>4. Quiet
    BY <2>1, <2>3, PlacesStay DEF Quiet, PlaceInv
  <2>5. QED BY <2>4, QuietStep
<1>2. CASE Dequeue(w)
  BY <1>2, DequeuePlaces
<1>3. CASE MarkRunning(w) \/ Record(w)
  <2>u. PICK u \in TaskIds : u = worker[w].task
    BY <1>3 DEF MarkRunning, Record, At, QueueType
  <2> DEFINE s == IF At(w, "popped") THEN "running" ELSE worker[w].at
  <2>1. /\ worker[w].at \in {"popped", "completed", "failed"}
        /\ UNCHANGED <<list, call>>
        /\ task' = task \/ SetStatus(u, s)
        /\ strayed \subseteq strayed'
    BY <1>3, <2>u DEF MarkRunning, Record, At
  <2>2. u \in TaskIds
    OBVIOUS
  <2>3. Held(u) /\ Placed(u) /\ task[u] # NoTask
    BY <2>u DEF Held, Placed, PlaceInv
  <2>4. /\ \A t \in TaskIds \ {u} : task'[t] = task[t]
        /\ task'[u] # NoTask
    <3>1. task[u].status = "none" => task'[u] = task[u]
      BY <2>1 DEF SetStatus
    <3>2. task[u].status # "none" => task'[u].status # "none"
      BY <2>1, <2>2 DEF SetStatus, QueueType
    <3>3. NoTask.status = "none"
      BY DEF NoTask
    <3>4. \A t \in TaskIds \ {u} : task'[t] = task[t]
      BY <2>1, <2>2 DEF SetStatus, QueueType
    <3>5. QED BY <2>3, <3>1, <3>2, <3>3, <3>4
  <2>5. \A v \in Workers \ {w} : worker'[v].task = worker[v].task
    BY <1>3 DEF MarkRunning, Record, Go, QueueType
  <2>6. worker'[w].task \in {u, None}
    BY <1>3, <2>u DEF MarkRunning, Record, Go, QueueType
  <2>7. \A t \in TaskIds : /\ Held(t)' => Held(t)
                           /\ t # u /\ Held(t) => Held(t)'
                           /\ Pushing(t)' <=> Pushing(t)
    BY <2>u, <2>1, <2>5, <2>6, AgentQueueAssumption DEF Held, Pushing
  <2>8. \A t \in TaskIds \ {u} : Open(t)' => Open(t)
    BY <2>1, <2>4 DEF Open
  <2>9. Open(u)' => Placed(u)'
    <3>1. CASE MarkRunning(w)
      <4>1. worker'[w].task = u
        BY <2>u, <3>1 DEF MarkRunning, Go, QueueType
      <4>2. QED BY <4>1 DEF Placed, Held
    <3>2. CASE Record(w)
      <4>1. \/ strayed' = strayed \cup {u}
            \/ worker[w].at \in {"completed", "failed"} /\ SetStatus(u, worker[w].at)
        BY <2>u, <3>2 DEF Record
      <4>2. u \notin strayed' => task'[u].status \notin {"queued", "running"}
        BY <2>2, <4>1 DEF SetStatus, QueueType
      <4>3. QED BY <4>2 DEF Open
    <3>3. QED BY <1>3, <3>1, <3>2
  <2>10. \A t \in TaskIds : Open(t)' => Placed(t)'
    <3>1. ASSUME NEW t \in TaskIds \ {u}, Open(t)' PROVE Placed(t)'
      <4>1. Open(t) /\ (Held(t) => Held(t)') /\ (Pushing(t) => Pushing(t)')
        BY <2>7, <2>8, <3>1
      <4>2. QED BY <2>1, <4>1, PlacesStay
    <3>2. QED BY <2>9, <3>1
  <2>11. ASSUME NEW c \in Calls, call[c].op = "trigger"
         PROVE  task'[call[c].task] = NoTask
    <3>1. call[c].task \in TaskIds /\ task[call[c].task] = NoTask
      BY <2>11 DEF QueueType, PlaceInv
    <3>2. call[c].task # u
      BY <2>3, <3>1
    <3>3. QED BY <2>4, <3>1, <3>2
  <2>12. \A t \in TaskIds : task[t] # NoTask => task'[t] # NoTask
    BY <2>4
  <2>13. Quiet
    BY <2>1, <2>7, <2>10, <2>11, <2>12 DEF Quiet
  <2>14. QED BY <2>13, QuietStep
<1>4. QED BY <1>1, <1>2, <1>3 DEF Step

\* LPUSH: the task leaves its only place for the list; or it is lost.
LEMMA PushPlaces ==
    ASSUME QueueType, PlaceInv, NEW c \in Calls, PushTask(c)
    PROVE  PlaceInv'
<1>1. PICK t \in TaskIds, p \in Priorities : t = call[c].task /\ p = call[c].prio
  BY DEF PushTask, QueueType
<1>2. /\ call[c].op = "enqueue"
      /\ call'[c].op = "idle"
      /\ \A d \in Calls \ {c} : call'[d] = call[d]
      /\ UNCHANGED <<task, worker>>
      /\ strayed \subseteq strayed'
  BY DEF PushTask, End, Idle, Rows, Process, QueueType
<1>3. \A u \in TaskIds : Pushing(u)' <=> Pushing(u) /\ u # t
  BY <1>1, <1>2 DEF Pushing, PlaceInv
<1>4. \A u \in TaskIds : Held(u)' <=> Held(u)
  BY <1>2 DEF Held
<1>5. /\ \A d, e \in Calls :
            call'[d].op = "enqueue" /\ call'[e].op = "enqueue" /\ call'[d].task = call'[e].task
                => d = e
      /\ \A d \in Calls : call'[d].op = "trigger" => task'[call'[d].task] = NoTask
      /\ \A d, e \in Calls :
            call'[d].op = "trigger" /\ call'[e].op = "trigger" /\ call'[d].task = call'[e].task
                => d = e
  BY <1>2 DEF PlaceInv
<1>6. CASE list' = [list EXCEPT ![call[c].prio] = <<call[c].task>> \o @] /\ UNCHANGED strayed
  <2> DEFINE n == Len(list[p])
  <2>1. list[p] \in Seq(TaskIds) /\ \A q \in Priorities : Len(list[q]) \in Nat
    BY DEF QueueType
  <2>2. /\ Len(list'[p]) = n + 1 /\ list'[p][1] = t
        /\ \A i \in 1..n : list'[p][i + 1] = list[p][i]
        /\ \A q \in Priorities \ {p} : list'[q] = list[q]
    <3>1. list'[p] = <<t>> \o list[p] /\ \A q \in Priorities \ {p} : list'[q] = list[q]
      BY <1>1, <1>6 DEF QueueType
    <3>2. QED BY <2>1, <3>1, PushLeft
  <2> HIDE DEF n
  <2>3. n \in Nat
    BY <2>1 DEF n
  <2>4. \A i \in 2..n + 1 : i - 1 \in 1..n /\ list'[p][i] = list[p][i - 1]
    <3>1. ASSUME NEW i \in 2..n + 1 PROVE i - 1 \in 1..n /\ (i - 1) + 1 = i
      BY <2>3
    <3>2. QED BY <2>2, <3>1
  <2>5. Pushing(t) /\ ~Listed(t) /\ ~Held(t) /\ task[t] # NoTask
    BY <1>1, <1>2 DEF Pushing, PlaceInv, Placed
  <2>6. ASSUME NEW u \in TaskIds
        PROVE  Listed(u)' <=> Listed(u) \/ u = t
    <3>1. ASSUME Listed(u)' PROVE Listed(u) \/ u = t
      <4>1. PICK q \in Priorities : \E i \in 1..Len(list'[q]) : list'[q][i] = u
        BY <3>1 DEF Listed
      <4>2. PICK i \in 1..Len(list'[q]) : list'[q][i] = u
        BY <4>1
      <4>3. CASE q = p /\ i = 1
        BY <2>2, <4>2, <4>3
      <4>4. CASE q = p /\ i # 1
        <5>1. i \in 2..n + 1
          BY <2>2, <2>3, <4>2, <4>4
        <5>2. i - 1 \in 1..Len(list[p]) /\ list[p][i - 1] = u
          BY <2>4, <4>2, <4>4, <5>1 DEF n
        <5>3. QED BY <5>2 DEF Listed
      <4>5. CASE q # p
        BY <2>2, <4>2, <4>5 DEF Listed
      <4>6. QED BY <4>3, <4>4, <4>5
    <3>2. ASSUME Listed(u) PROVE Listed(u)'
      <4>1. PICK q \in Priorities : \E i \in 1..Len(list[q]) : list[q][i] = u
        BY <3>2 DEF Listed
      <4>2. PICK i \in 1..Len(list[q]) : list[q][i] = u
        BY <4>1
      <4>3. CASE q = p
        <5>1. i + 1 \in 1..Len(list'[p]) /\ list'[p][i + 1] = u
          BY <2>2, <2>3, <4>2, <4>3 DEF n
        <5>2. QED BY <4>3, <5>1 DEF Listed
      <4>4. CASE q # p
        BY <2>2, <4>2, <4>4 DEF Listed
      <4>5. QED BY <4>3, <4>4
    <3>3. Listed(t)'
      <4>1. 1 \in 1..Len(list'[p])
        BY <2>2, <2>3
      <4>2. QED BY <2>2, <4>1 DEF Listed
    <3>4. QED BY <3>1, <3>2, <3>3
  <2>7. \A u \in TaskIds :
            /\ ~(Listed(u)' /\ Held(u)') /\ ~(Listed(u)' /\ Pushing(u)')
            /\ ~(Held(u)' /\ Pushing(u)')
            /\ Placed(u)' => task'[u] # NoTask
            /\ Open(u)' => Placed(u)'
    BY <1>2, <1>3, <1>4, <1>6, <2>5, <2>6 DEF PlaceInv, Placed, Open
  <2>8. ASSUME NEW q \in Priorities, NEW r \in Priorities,
               NEW i \in 1..Len(list'[q]), NEW j \in 1..Len(list'[r]),
               list'[q][i] = list'[r][j]
        PROVE  q = r /\ i = j
    <3>1. ASSUME NEW k \in Priorities, NEW m \in 1..Len(list'[k])
          PROVE  \/ k = p /\ m = 1
                 \/ /\ list'[k][m] # t
                    /\ k = p => m \in 2..n + 1
                    /\ k # p => m \in 1..Len(list[k]) /\ list'[k][m] = list[k][m]
      <4>1. CASE k = p /\ m # 1
        <5>1. m \in 2..n + 1
          BY <2>2, <2>3, <4>1
        <5>2. list'[k][m] = list[p][m - 1] /\ m - 1 \in 1..Len(list[p])
          BY <2>4, <4>1, <5>1 DEF n
        <5>3. QED BY <2>5, <4>1, <5>1, <5>2 DEF Listed
      <4>2. CASE k # p
        <5>1. m \in 1..Len(list[k]) /\ list'[k][m] = list[k][m]
          BY <2>2, <4>2
        <5>2. QED BY <2>5, <4>2, <5>1 DEF Listed
      <4>3. QED BY <4>1, <4>2
    <3>2. CASE q = p /\ i = 1
      BY <2>2, <2>8, <3>1, <3>2
    <3>3. CASE r = p /\ j = 1
      BY <2>2, <2>8, <3>1, <3>3
    <3>4. CASE ~(q = p /\ i = 1) /\ ~(r = p /\ j = 1)
      <4>1. CASE q = p /\ r = p
        <5>1. /\ i \in 2..n + 1 /\ j \in 2..n + 1
              /\ i - 1 \in 1..Len(list[p]) /\ j - 1 \in 1..Len(list[p])
              /\ list[p][i - 1] = list[p][j - 1]
          BY <2>4, <2>8, <3>1, <3>4, <4>1 DEF n
        <5>2. i - 1 = j - 1
          BY <5>1 DEF PlaceInv
        <5>3. QED BY <2>3, <4>1, <5>1, <5>2
      <4>2. CASE q = p /\ r # p
        BY <2>4, <2>8, <3>1, <3>4, <4>2 DEF PlaceInv, n
      <4>3. CASE q # p /\ r = p
        BY <2>4, <2>8, <3>1, <3>4, <4>3 DEF PlaceInv, n
      <4>4. CASE q # p /\ r # p
        BY <2>8, <3>1, <3>4, <4>4 DEF PlaceInv
      <4>5. QED BY <4>1, <4>2, <4>3, <4>4
    <3>5. QED BY <3>2, <3>3, <3>4
  <2>9. QED BY <1>5, <2>7, <2>8 DEF PlaceInv
<1>7. CASE UNCHANGED list /\ strayed' = strayed \cup {call[c].task}
  <2>1. \A u \in TaskIds : Open(u)' => Open(u) /\ u # t
    BY <1>1, <1>2, <1>7 DEF Open
  <2>2. \A u \in TaskIds : Open(u)' => Placed(u)'
    BY <1>3, <1>4, <1>7, <2>1, PlacesStay
  <2>3. Quiet
    BY <1>2, <1>4, <1>7, <2>2 DEF Quiet, PlaceInv
  <2>4. QED BY <2>3, QuietStep
<1>8. QED BY <1>6, <1>7 DEF PushTask

\* A fresh task is nowhere, and has no row.
LEMMA InsertPlaces ==
    ASSUME QueueType, PlaceInv, NEW c \in Calls, NEW t \in TaskIds, NEW a \in AgentIds,
           NEW p \in Priorities, InsertTask(c, t, a, p)
    PROVE  PlaceInv'
<1>1. /\ call[c].op = "idle" /\ task[t] = NoTask
      /\ \A d \in Calls : call[d].op = "trigger" => call[d].task # t
      /\ call'[c] = [op |-> "enqueue", task |-> t, prio |-> p]
      /\ \A d \in Calls \ {c} : call'[d] = call[d]
      /\ task'[t] = [status |-> "queued", agent |-> a, prio |-> p]
      /\ \A u \in TaskIds \ {t} : task'[u] = task[u]
      /\ UNCHANGED <<list, worker, strayed>>
  BY DEF InsertTask, Serving, FreshTask, Begin, Idle, Process, QueueType
<1>2. ~Listed(t) /\ ~Held(t) /\ ~Pushing(t)
  BY <1>1 DEF PlaceInv, Placed
<1>3. \A u \in TaskIds : /\ Listed(u)' <=> Listed(u)
                         /\ Held(u)' <=> Held(u)
                         /\ Pushing(u)' <=> Pushing(u) \/ u = t
  BY <1>1 DEF Listed, Held, Pushing
<1>4. task'[t] # NoTask
  <2>1. task'[t].status = "queued" /\ NoTask.status = "none"
    BY <1>1 DEF NoTask
  <2>2. QED BY <2>1
<1>5. \A u \in TaskIds :
          /\ ~(Listed(u)' /\ Held(u)') /\ ~(Listed(u)' /\ Pushing(u)')
          /\ ~(Held(u)' /\ Pushing(u)')
          /\ Placed(u)' => task'[u] # NoTask
          /\ Open(u)' => Placed(u)'
  BY <1>1, <1>2, <1>3, <1>4 DEF PlaceInv, Placed, Open
<1>6. \A d, e \in Calls :
          call'[d].op = "enqueue" /\ call'[e].op = "enqueue" /\ call'[d].task = call'[e].task
              => d = e
  BY <1>1, <1>2 DEF PlaceInv, Pushing
<1>7. \A d \in Calls : call'[d].op = "trigger" =>
          d # c /\ call[d].op = "trigger" /\ call'[d].task = call[d].task /\ call[d].task \in TaskIds \ {t}
  BY <1>1 DEF QueueType
<1>8. /\ \A d \in Calls : call'[d].op = "trigger" => task'[call'[d].task] = NoTask
      /\ \A d, e \in Calls :
            call'[d].op = "trigger" /\ call'[e].op = "trigger" /\ call'[d].task = call'[e].task
                => d = e
  BY <1>1, <1>7 DEF PlaceInv
<1>9. QED BY <1>1, <1>5, <1>6, <1>8 DEF PlaceInv

LEMMA TriggerPlaces ==
    ASSUME QueueType, PlaceInv, NEW c \in Calls, NEW u \in Users, NEW r \in Repos,
           NEW s \in Slugs, TriggerAgent(c, u, r, s)
    PROVE  PlaceInv'
<1>1. PICK a \in AgentIds, t \in TaskIds :
         /\ FreshTask(t)
         /\ Begin(c, [op |-> "trigger", agent |-> a, task |-> t])
  BY DEF TriggerAgent, BySlug
<1>2. /\ call[c].op = "idle" /\ task[t] = NoTask
      /\ \A d \in Calls : call[d].op = "trigger" => call[d].task # t
      /\ call'[c] = [op |-> "trigger", agent |-> a, task |-> t]
      /\ \A d \in Calls \ {c} : call'[d] = call[d]
      /\ UNCHANGED <<task, list, worker, strayed>>
  BY <1>1 DEF TriggerAgent, Serving, FreshTask, Begin, Idle, Rows, Process, QueueType
<1>3. \A v \in TaskIds : /\ Listed(v)' <=> Listed(v)
                         /\ Held(v)' <=> Held(v)
                         /\ Pushing(v)' <=> Pushing(v)
                         /\ Open(v)' <=> Open(v)
  BY <1>2 DEF Listed, Held, Pushing, Open
<1>4. \A v \in TaskIds :
          /\ ~(Listed(v)' /\ Held(v)') /\ ~(Listed(v)' /\ Pushing(v)')
          /\ ~(Held(v)' /\ Pushing(v)')
          /\ Placed(v)' => task'[v] # NoTask
          /\ Open(v)' => Placed(v)'
  BY <1>2, <1>3 DEF PlaceInv, Placed
<1>5. \A d, e \in Calls :
          call'[d].op = "enqueue" /\ call'[e].op = "enqueue" /\ call'[d].task = call'[e].task
              => d = e
  BY <1>2 DEF PlaceInv
<1>6. /\ \A d \in Calls : call'[d].op = "trigger" => task'[call'[d].task] = NoTask
      /\ \A d, e \in Calls :
            call'[d].op = "trigger" /\ call'[e].op = "trigger" /\ call'[d].task = call'[e].task
                => d = e
  BY <1>2 DEF PlaceInv
<1>7. QED BY <1>2, <1>4, <1>5, <1>6 DEF PlaceInv

LEMMA HandlerPlaces ==
    ASSUME QueueType, PlaceInv, DeletionInv, NEW c \in Calls,
           DeleteAgent(c) \/ CreateTask(c) \/ InsertRepoAgent(c) \/ DeleteRepoAgent(c)
    PROVE  PlaceInv'
<1>1. /\ call[c].op # "enqueue" /\ Idle.op \notin {"enqueue", "trigger"}
      /\ call' = [call EXCEPT ![c] = Idle]
      /\ UNCHANGED <<list, worker, strayed>>
  BY DEF DeleteAgent, CreateTask, InsertRepoAgent, DeleteRepoAgent, End, Idle, Process
<1>2. CASE InsertRepoAgent(c) \/ DeleteRepoAgent(c) \/ UNCHANGED task
  <2>1. UNCHANGED task
    BY <1>2 DEF InsertRepoAgent, DeleteRepoAgent
  <2>2. QED BY <1>1, <2>1, HandlerQuiet DEF Open, PlaceInv
<1>3. CASE DeleteAgent(c) /\ ~UNCHANGED task
  <2>1. PICK a \in AgentIds : task' = [t \in TaskIds |-> IF task[t].agent = a
                                         THEN [NoTask EXCEPT !.agent = a] ELSE task[t]]
    BY <1>3 DEF DeleteAgent, Cascade, Rows, DeletionInv
  <2>2. a # None /\ NoTask.agent = None /\ [NoTask EXCEPT !.agent = a].agent = a
        /\ [NoTask EXCEPT !.agent = a].status = "none"
    BY AgentQueueAssumption DEF NoTask
  <2>3. \A t \in TaskIds : /\ task[t] # NoTask => task'[t] # NoTask
                           /\ task[t] = NoTask => task'[t] = NoTask
                           /\ task'[t] = task[t] \/ task'[t].status = "none"
    BY <2>1, <2>2
  <2>4. \A t \in TaskIds : Open(t)' => Open(t)
    BY <1>1, <2>3 DEF Open
  <2>5. \A d \in Calls \ {c} : call[d].op = "trigger" => task'[call[d].task] = NoTask
    BY <2>3 DEF PlaceInv, QueueType
  <2>6. QED BY <1>1, <2>3, <2>4, <2>5, HandlerQuiet
<1>4. CASE CreateTask(c) /\ ~UNCHANGED task
  <2>1. PICK t \in TaskIds : t = call[c].task /\ call[c].op = "trigger"
    BY <1>4 DEF CreateTask, QueueType
  <2>2. task' = [task EXCEPT ![t] = [status |-> "queued", agent |-> call[c].agent, prio |-> 0]]
    BY <1>4, <2>1 DEF CreateTask
  <2>3. task'[t].prio = 0 /\ \A u \in TaskIds \ {t} : task'[u] = task[u]
    BY <2>2 DEF QueueType
  <2>4. task[t] = NoTask
    BY <2>1 DEF PlaceInv
  <2>5. \A u \in TaskIds : /\ task[u] # NoTask => task'[u] # NoTask
                           /\ Open(u)' => Open(u)
    BY <1>1, <2>3, <2>4 DEF Open
  <2>6. \A d \in Calls \ {c} : call[d].op = "trigger" => task'[call[d].task] = NoTask
    BY <2>1, <2>3 DEF PlaceInv, QueueType
  <2>7. QED BY <1>1, <2>5, <2>6, HandlerQuiet
<1>5. QED BY <1>2, <1>3, <1>4

\* What the end of the process cuts off has strayed; the lists survive it.
LEMMA EndPlaces ==
    ASSUME QueueType, PlaceInv, ProcessEnds
    PROVE  PlaceInv'
<1>1. /\ UNCHANGED <<task, list>> /\ strayed \subseteq strayed'
      /\ \A c \in Calls : call'[c].op = "idle"
      /\ \A w \in Workers : worker'[w].task = None
  BY DEF ProcessEnds, StopWorkers, Die, Rows, Idle
<1>2. \A t \in TaskIds : ~Held(t)'
  BY <1>1, AgentQueueAssumption DEF Held
<1>3. \A t \in TaskIds : Pushing(t) => t \in strayed'
  BY DEF ProcessEnds, StopWorkers, Die, Pushing
<1>4. \A t \in TaskIds : Held(t) => t \in strayed'
  <2>1. ASSUME StopWorkers, NEW t \in TaskIds, Held(t) PROVE FALSE
    BY <2>1, AgentQueueAssumption DEF StopWorkers, At, Held, QueueType
  <2>2. ASSUME Die, NEW t \in TaskIds, Held(t) PROVE t \in strayed'
    BY <2>2, AgentQueueAssumption DEF Die, Held
  <2>3. QED BY <2>1, <2>2 DEF ProcessEnds
<1>5. \A t \in TaskIds : Open(t)' => Open(t) /\ ~Held(t) /\ ~Pushing(t)
  BY <1>1, <1>3, <1>4 DEF Open
<1>6. \A t \in TaskIds : Open(t)' => Placed(t)'
  BY <1>1, <1>5, PlacesStay
<1>7. Quiet
  BY <1>1, <1>2, <1>6 DEF Quiet
<1>8. QED BY <1>7, QuietStep

LEMMA PlaceInvStep ==
    ASSUME QueueType, PlaceInv, DeletionInv, [Next]_vars
    PROVE  PlaceInv'
<1>1. CASE UNCHANGED <<task, list, worker, call, strayed>>
  BY <1>1 DEF PlaceInv, Placed, Open, Listed, Held, Pushing
<1>2. CASE QueueStep
  <2>1. ASSUME NEW c \in Calls, NEW u \in Users, NEW s \in Slugs, Create(c, u, s) \/ Delete(c, u, s)
        PROVE  PlaceInv'
    <3>1. CASE Create(c, u, s)
      BY <1>1, <3>1 DEF Create, CreateAgent, Serving, Process
    <3>2. CASE Delete(c, u, s)
      <4>1. /\ call[c].op = "idle"
            /\ UNCHANGED <<task, list, worker, strayed>>
        BY <3>2 DEF Delete, Serving, Rows, Process, Idle
      <4>2. PICK a : call' = [call EXCEPT ![c] = [op |-> "delete", user |-> u, agent |-> a, slug |-> s]]
        BY <3>2 DEF Delete, Begin
      <4>3. [op |-> "delete", user |-> u, agent |-> a, slug |-> s].op \notin {"enqueue", "trigger"}
        OBVIOUS
      <4>4. \A t \in TaskIds : /\ task[t] # NoTask => task'[t] # NoTask
                               /\ Open(t)' => Open(t)
        BY <4>1 DEF Open
      <4>5. \A d \in Calls \ {c} : call[d].op = "trigger" => task'[call[d].task] = NoTask
        BY <4>1 DEF PlaceInv
      <4>6. QED BY <4>1, <4>2, <4>3, <4>4, <4>5, HandlerQuiet
    <3>3. QED BY <2>1, <3>1, <3>2
  <2>2. ASSUME NEW c \in Calls, NEW u \in Users, NEW r \in Repos, NEW s \in Slugs,
               Install(c, u, r, s) \/ Uninstall(c, u, r, s)
        PROVE  PlaceInv'
    <3>1. /\ call[c].op = "idle"
          /\ UNCHANGED <<task, list, worker, strayed>>
      BY <2>2 DEF Install, Uninstall, Serving, Rows, Process, Idle
    <3>2. PICK a, o : /\ o \in {"install", "uninstall"}
                      /\ call' = [call EXCEPT ![c] = [op |-> o, repo |-> r, agent |-> a]]
      BY <2>2 DEF Install, Uninstall, Begin
    <3>3. [op |-> o, repo |-> r, agent |-> a].op \notin {"enqueue", "trigger"}
      BY <3>2
    <3>4. \A t \in TaskIds : /\ task[t] # NoTask => task'[t] # NoTask
                             /\ Open(t)' => Open(t)
      BY <3>1 DEF Open
    <3>5. \A d \in Calls \ {c} : call[d].op = "trigger" => task'[call[d].task] = NoTask
      BY <3>1 DEF PlaceInv
    <3>6. QED BY <3>1, <3>2, <3>3, <3>4, <3>5, HandlerQuiet
  <2>3. QED BY <1>1, <1>2, <2>1, <2>2, WorkerPlaces, PushPlaces, InsertPlaces, TriggerPlaces,
               HandlerPlaces DEF QueueStep, AgentCancel, Rows
<1>3. CASE ProcessEnds
  BY <1>3, EndPlaces
<1>4. QED BY <1>1, <1>2, <1>3 DEF Next, vars, queueOnly

\* NoTaskGoesAstray (AgentQueue.tla): a task that was enqueued (llm/queue.go, Enqueue) is in
\* one list, with a worker or about to be pushed until its row is final, for any
\* number of workers, handlers and tasks; only a fault or the end of the process
\* takes it away.
THEOREM NoTaskStrays == Spec => []NoTaskGoesAstray
<1>1. PlaceInv => NoTaskGoesAstray
  <2>1. SUFFICES ASSUME PlaceInv, NEW t \in TaskIds, Open(t)
                 PROVE  Cardinality({x \in {"list", "worker", "call"} :
                           \/ x = "list" /\ Listed(t)
                           \/ x = "worker" /\ Held(t)
                           \/ x = "call" /\ Pushing(t)}) = 1
    BY DEF NoTaskGoesAstray, Open
  <2> DEFINE S == {x \in {"list", "worker", "call"} :
                      \/ x = "list" /\ Listed(t)
                      \/ x = "worker" /\ Held(t)
                      \/ x = "call" /\ Pushing(t)}
  <2>2. \E x : S = {x}
    <3>1. CASE Listed(t)
      <4>1. S = {"list"}
        BY <2>1, <3>1 DEF PlaceInv
      <4>2. QED BY <4>1
    <3>2. CASE Held(t)
      <4>1. S = {"worker"}
        BY <2>1, <3>2 DEF PlaceInv
      <4>2. QED BY <4>1
    <3>3. CASE Pushing(t)
      <4>1. S = {"call"}
        BY <2>1, <3>3 DEF PlaceInv
      <4>2. QED BY <4>1
    <3>4. QED BY <2>1, <3>1, <3>2, <3>3 DEF PlaceInv, Placed
  <2>3. QED BY <2>2, FS_Singleton
<1>2. Init => DeletionInv
  BY DEF Init, QueueInit, DeletionInv, NoAgent, Idle
<1>3. QED BY <1>1, <1>2, PlaceInit, PlaceInvStep, QueueTypeStep, DeletionInvStep, PTL DEF Spec
-----------------------------------------------------------------------------
(* No task is run twice *)

Waiting(t) == Listed(t) \/ Pushing(t)

\* What waits was never run: it still looks queued, unless its agent was deleted,
\* and nothing has cut it off.  What has strayed has a row, or had one.
FreshInv ==
    \A t \in TaskIds :
        /\ t \in strayed => task[t] # NoTask
        /\ Waiting(t) => t \notin strayed /\ task[t].status \in {"queued", "none"}

\* Steps after which nothing waits that did not wait before, and that change the row
\* of none that waits, but for a deletion.
LEMMA FreshKept ==
    ASSUME FreshInv,
           \A t \in TaskIds :
              /\ Waiting(t)' => Waiting(t) /\ task'[t].status \in {task[t].status, "none"}
              /\ t \in strayed' => t \in strayed \/ (~Waiting(t)' /\ task[t] # NoTask)
              /\ task[t] # NoTask => task'[t] # NoTask
    PROVE  FreshInv'
BY DEF FreshInv

\* A handler that neither inserts nor pushes goes on with r.
LEMMA HandlerFresh ==
    ASSUME FreshInv, QueueType, NEW c \in Calls, NEW r, r.op # "enqueue",
           call' = [call EXCEPT ![c] = r], UNCHANGED <<list, strayed>>,
           \A t \in TaskIds :
              /\ Waiting(t) => task'[t].status \in {task[t].status, "none"}
              /\ task[t] # NoTask => task'[t] # NoTask
    PROVE  FreshInv'
<1>1. \A d \in Calls : call'[d].op = "enqueue" => call'[d] = call[d]
  BY DEF QueueType
<1>2. \A t \in TaskIds : Waiting(t)' => Waiting(t)
  BY <1>1 DEF Waiting, Listed, Pushing
<1>3. QED BY <1>2, FreshKept

LEMMA ChangeFresh ==
    ASSUME FreshInv, QueueType, PlaceInv, DeletionInv, NEW c \in Calls,
           DeleteAgent(c) \/ CreateTask(c) \/ InsertRepoAgent(c) \/ DeleteRepoAgent(c)
    PROVE  FreshInv'
<1>1. /\ Idle.op # "enqueue" /\ call' = [call EXCEPT ![c] = Idle]
      /\ UNCHANGED <<list, strayed>>
  BY DEF DeleteAgent, CreateTask, InsertRepoAgent, DeleteRepoAgent, End, Idle, Process
<1>2. CASE UNCHANGED task
  BY <1>1, <1>2, HandlerFresh
<1>3. CASE DeleteAgent(c) /\ ~UNCHANGED task
  <2>1. PICK a \in AgentIds : task' = [t \in TaskIds |-> IF task[t].agent = a
                                         THEN [NoTask EXCEPT !.agent = a] ELSE task[t]]
    BY <1>3 DEF DeleteAgent, Cascade, Rows, DeletionInv
  <2>2. a # None /\ NoTask.agent = None /\ [NoTask EXCEPT !.agent = a].agent = a
        /\ [NoTask EXCEPT !.agent = a].status = "none"
    BY AgentQueueAssumption DEF NoTask
  <2>3. \A t \in TaskIds : /\ task[t] # NoTask => task'[t] # NoTask
                           /\ task'[t].status \in {task[t].status, "none"}
    BY <2>1, <2>2
  <2>4. QED BY <1>1, <2>3, HandlerFresh
<1>4. CASE CreateTask(c) /\ ~UNCHANGED task
  <2>1. PICK t \in TaskIds : t = call[c].task /\ call[c].op = "trigger"
    BY <1>4 DEF CreateTask, QueueType
  <2>2. task' = [task EXCEPT ![t] = [status |-> "queued", agent |-> call[c].agent, prio |-> 0]]
    BY <1>4, <2>1 DEF CreateTask
  <2>3. task[t] = NoTask /\ ~Waiting(t)
    BY <2>1 DEF PlaceInv, Placed, Waiting
  <2>4. \A u \in TaskIds \ {t} : task'[u] = task[u]
    BY <2>2 DEF QueueType
  <2>5. \A u \in TaskIds : /\ Waiting(u) => task'[u].status \in {task[u].status, "none"}
                           /\ task[u] # NoTask => task'[u] # NoTask
    BY <2>3, <2>4
  <2>6. QED BY <1>1, <2>5, HandlerFresh
<1>5. QED BY <1>2, <1>3, <1>4 DEF InsertRepoAgent, DeleteRepoAgent

LEMMA InsertFresh ==
    ASSUME FreshInv, QueueType, NEW c \in Calls, NEW t \in TaskIds, NEW a \in AgentIds,
           NEW p \in Priorities, InsertTask(c, t, a, p)
    PROVE  FreshInv'
<1>1. /\ task[t] = NoTask
      /\ task'[t] = [status |-> "queued", agent |-> a, prio |-> p]
      /\ \A u \in TaskIds \ {t} : task'[u] = task[u]
      /\ call'[c] = [op |-> "enqueue", task |-> t, prio |-> p]
      /\ \A d \in Calls \ {c} : call'[d] = call[d]
      /\ UNCHANGED <<list, strayed>>
  BY DEF InsertTask, FreshTask, Begin, QueueType, Process
<1>2. task'[t].status = "queued" /\ NoTask.status = "none"
  BY <1>1 DEF NoTask
<1>3. \A u \in TaskIds : Waiting(u)' => Waiting(u) \/ u = t
  BY <1>1 DEF Waiting, Listed, Pushing
<1>4. QED BY <1>1, <1>2, <1>3 DEF FreshInv

LEMMA PushFresh ==
    ASSUME FreshInv, QueueType, PlaceInv, NEW c \in Calls, PushTask(c)
    PROVE  FreshInv'
<1>1. PICK t \in TaskIds, p \in Priorities : t = call[c].task /\ p = call[c].prio
  BY DEF PushTask, QueueType
<1>2. /\ Pushing(t) /\ ~Listed(t) /\ task[t] # NoTask /\ UNCHANGED task
  BY <1>1 DEF PushTask, Pushing, PlaceInv, Placed, Rows
<1>3. \A u \in TaskIds : Pushing(u)' <=> Pushing(u) /\ u # t
  BY <1>1 DEF PushTask, End, Idle, Pushing, PlaceInv, QueueType
<1>4. CASE list' = [list EXCEPT ![call[c].prio] = <<call[c].task>> \o @] /\ UNCHANGED strayed
  <2>1. list[p] \in Seq(TaskIds) /\ Len(list[p]) \in Nat
    BY DEF QueueType
  <2>2. /\ Len(list'[p]) = Len(list[p]) + 1 /\ list'[p][1] = t
        /\ \A i \in 1..Len(list[p]) : list'[p][i + 1] = list[p][i]
        /\ \A q \in Priorities \ {p} : list'[q] = list[q]
    <3>1. list'[p] = <<t>> \o list[p] /\ \A q \in Priorities \ {p} : list'[q] = list[q]
      BY <1>1, <1>4 DEF QueueType
    <3>2. QED BY <2>1, <3>1, PushLeft
  <2>3. ASSUME NEW q \in Priorities, NEW i \in 1..Len(list'[q])
        PROVE  list'[q][i] = t \/ \E j \in 1..Len(list[q]) : list[q][j] = list'[q][i]
    <3>1. CASE q = p /\ i = 1
      BY <2>2, <3>1
    <3>2. CASE q = p /\ i # 1
      <4>1. i - 1 \in 1..Len(list[p]) /\ (i - 1) + 1 = i
        BY <2>1, <2>2, <3>2
      <4>2. list'[p][i] = list[p][i - 1]
        BY <2>2, <4>1
      <4>3. QED BY <3>2, <4>1, <4>2
    <3>3. CASE q # p
      BY <2>2, <3>3
    <3>4. QED BY <3>1, <3>2, <3>3
  <2>4. \A u \in TaskIds : Waiting(u)' => Waiting(u)
    BY <1>2, <1>3, <2>3 DEF Waiting, Listed
  <2>5. QED BY <1>2, <1>4, <2>4, FreshKept
<1>5. CASE UNCHANGED list /\ strayed' = strayed \cup {call[c].task}
  <2>1. \A u \in TaskIds : Waiting(u)' <=> Waiting(u) /\ u # t
    BY <1>2, <1>3, <1>5 DEF Waiting, Listed
  <2>2. QED BY <1>1, <1>2, <1>5, <2>1, FreshKept
<1>6. QED BY <1>4, <1>5 DEF PushTask

LEMMA WorkerFresh ==
    ASSUME FreshInv, QueueType, PlaceInv, NEW w \in Workers, Step(w)
    PROVE  FreshInv'
<1>1. CASE Leave(w) \/ Lock(w) \/ Generate(w)
  BY <1>1 DEF Leave, Lock, Generate, Rows, FreshInv, Waiting, Listed, Pushing
<1>2. CASE Dequeue(w)
  <2>1. PICK p \in Priorities :
           list[p] # <<>> /\ list' = [list EXCEPT ![p] = SubSeq(list[p], 1, Len(list[p]) - 1)]
    BY <1>2 DEF Dequeue
  <2>2. list[p] \in Seq(TaskIds) /\ Len(list[p]) \in Nat
    BY DEF QueueType
  <2>3. /\ Len(list'[p]) = Len(list[p]) - 1
        /\ \A i \in 1..Len(list[p]) - 1 : list'[p][i] = list[p][i]
        /\ \A q \in Priorities \ {p} : list'[q] = list[q]
    <3>1. /\ list'[p] = SubSeq(list[p], 1, Len(list[p]) - 1)
          /\ \A q \in Priorities \ {p} : list'[q] = list[q]
      BY <2>1 DEF QueueType
    <3>2. QED BY <2>1, <2>2, <3>1, PopRight
  <2>4. \A q \in Priorities : \A i \in 1..Len(list'[q]) :
            i \in 1..Len(list[q]) /\ list'[q][i] = list[q][i]
    BY <2>2, <2>3
  <2>5. \A t \in TaskIds : Waiting(t)' => Waiting(t)
    BY <1>2, <2>4 DEF Dequeue, Waiting, Listed, Pushing
  <2>6. UNCHANGED <<task, strayed>>
    BY <1>2 DEF Dequeue, Rows
  <2>7. QED BY <2>5, <2>6, FreshKept
<1>3. CASE MarkRunning(w) \/ Record(w)
  <2>1. PICK t \in TaskIds : t = worker[w].task
    BY <1>3 DEF MarkRunning, Record, At, QueueType
  <2>2. ~Waiting(t) /\ task[t] # NoTask
    BY <2>1 DEF Waiting, Held, Placed, PlaceInv
  <2>3. /\ UNCHANGED <<list, call>> /\ strayed' \subseteq strayed \cup {t}
        /\ \/ task' = task
           \/ \E s \in {"running", "completed", "failed"} : SetStatus(t, s)
    BY <1>3, <2>1 DEF MarkRunning, Record
  <2>4. \A u \in TaskIds : Waiting(u)' <=> Waiting(u)
    BY <2>3 DEF Waiting, Listed, Pushing
  <2>5. \A u \in TaskIds \ {t} : task'[u] = task[u]
    BY <2>3 DEF SetStatus, QueueType
  <2>6. task'[t] # NoTask
    <3>1. NoTask.status = "none"
      BY DEF NoTask
    <3>2. task'[t] = task[t] \/ task'[t].status # "none"
      BY <2>3 DEF SetStatus, QueueType
    <3>3. QED BY <2>2, <3>1, <3>2
  <2>7. QED BY <2>2, <2>3, <2>4, <2>5, <2>6, FreshKept
<1>4. QED BY <1>1, <1>2, <1>3 DEF Step

LEMMA EndFresh ==
    ASSUME FreshInv, QueueType, PlaceInv, ProcessEnds
    PROVE  FreshInv'
<1>1. /\ UNCHANGED <<task, list>>
      /\ \A c \in Calls : call'[c].op = "idle"
  BY DEF ProcessEnds, StopWorkers, Die, Rows, Idle
<1>2. \A t \in TaskIds : Waiting(t)' <=> Listed(t)
  BY <1>1 DEF Waiting, Listed, Pushing
<1>3. \A t \in TaskIds : t \in strayed' => t \in strayed \/ Pushing(t) \/ Held(t)
  BY DEF ProcessEnds, StopWorkers, Die, Pushing, Held
<1>4. \A t \in TaskIds : Pushing(t) \/ Held(t) => ~Listed(t) /\ task[t] # NoTask
  BY DEF PlaceInv, Placed
<1>5. QED BY <1>1, <1>2, <1>3, <1>4, FreshKept DEF Waiting

LEMMA FreshInvStep ==
    ASSUME FreshInv, QueueType, PlaceInv, DeletionInv, [Next]_vars
    PROVE  FreshInv'
<1>1. CASE UNCHANGED <<task, list, call, strayed>>
  BY <1>1 DEF FreshInv, Waiting, Listed, Pushing
<1>2. CASE QueueStep
  <2>1. ASSUME NEW c \in Calls, NEW u \in Users, NEW s \in Slugs, Create(c, u, s)
        PROVE  FreshInv'
    BY <1>1, <2>1 DEF Create, CreateAgent
  <2>2. ASSUME NEW c \in Calls, NEW u \in Users, NEW s \in Slugs, Delete(c, u, s)
        PROVE  FreshInv'
    <3>1. PICK a : call' = [call EXCEPT ![c] = [op |-> "delete", user |-> u, agent |-> a, slug |-> s]]
      BY <2>2 DEF Delete, Begin
    <3>2. UNCHANGED <<task, list, strayed>>
      BY <2>2 DEF Delete, Rows
    <3>3. QED BY <3>1, <3>2, HandlerFresh
  <2>3. ASSUME NEW c \in Calls, NEW u \in Users, NEW r \in Repos, NEW s \in Slugs,
               Install(c, u, r, s) \/ Uninstall(c, u, r, s) \/ TriggerAgent(c, u, r, s)
        PROVE  FreshInv'
    <3>1. PICK z : z.op # "enqueue" /\ call' = [call EXCEPT ![c] = z]
      BY <2>3 DEF Install, Uninstall, TriggerAgent, Begin
    <3>2. UNCHANGED <<task, list, strayed>>
      BY <2>3 DEF Install, Uninstall, TriggerAgent, Rows
    <3>3. QED BY <3>1, <3>2, HandlerFresh
  <2>4. QED BY <1>1, <1>2, <2>1, <2>2, <2>3, ChangeFresh, InsertFresh, PushFresh, WorkerFresh
            DEF QueueStep, AgentCancel, Rows
<1>3. CASE ProcessEnds
  BY <1>3, EndFresh
<1>4. QED BY <1>1, <1>2, <1>3 DEF Next, vars, queueOnly

\* A worker gets a task in no step but Dequeue.
LEMMA FewTake ==
    ASSUME QueueType, [Next]_vars, NEW w \in Workers, NEW t \in TaskIds,
           worker[w].task # t, worker'[w].task = t
    PROVE  Dequeue(w) /\ Listed(t)
<1>1. worker' # worker /\ t # None
  BY AgentQueueAssumption
<1>2. ~ProcessEnds
  BY <1>1 DEF ProcessEnds, StopWorkers, Die
<1>3. PICK v \in Workers : Step(v)
  <2>1. QueueStep
    BY <1>1, <1>2 DEF Next, vars, queueOnly
  <2>2. \A c \in Calls : ~DeleteAgent(c) /\ ~InsertRepoAgent(c) /\ ~DeleteRepoAgent(c)
                         /\ ~CreateTask(c) /\ ~PushTask(c)
    BY <1>1 DEF DeleteAgent, InsertRepoAgent, DeleteRepoAgent, CreateTask, PushTask, Process
  <2>3. \A c \in Calls, u \in Users, s \in Slugs : ~Create(c, u, s) /\ ~Delete(c, u, s)
    BY <1>1 DEF Create, Delete, Process
  <2>4. \A c \in Calls, u \in Users, r \in Repos, s \in Slugs :
            ~Install(c, u, r, s) /\ ~Uninstall(c, u, r, s) /\ ~TriggerAgent(c, u, r, s)
    BY <1>1 DEF Install, Uninstall, TriggerAgent, Process
  <2>5. \A c \in Calls, u \in TaskIds, a \in AgentIds, p \in Priorities : ~InsertTask(c, u, a, p)
    BY <1>1 DEF InsertTask, Process
  <2>6. QED BY <1>1, <2>1, <2>2, <2>3, <2>4, <2>5 DEF QueueStep, AgentCancel
<1>4. \A x \in Workers \ {v} : worker'[x] = worker[x]
  BY <1>3 DEF Step, Leave, Dequeue, MarkRunning, Lock, Generate, Record, Go, QueueType
<1>5. v = w
  BY <1>4
<1>6. Dequeue(w)
  <2>1. ASSUME Leave(w) \/ MarkRunning(w) \/ Lock(w) \/ Generate(w) PROVE FALSE
    BY <2>1 DEF Leave, MarkRunning, Lock, Generate, Go, QueueType
  <2>2. ASSUME Record(w) PROVE FALSE
    BY <1>1, <2>2 DEF Record, QueueType
  <2>3. QED BY <1>3, <1>5, <2>1, <2>2 DEF Step
<1>7. PICK p \in Priorities :
         list[p] # <<>> /\ worker' = [worker EXCEPT ![w] =
                              [at |-> "popped", task |-> list[p][Len(list[p])]]]
  BY <1>6 DEF Dequeue
<1>8. list[p][Len(list[p])] = t
  BY <1>7 DEF QueueType
<1>9. Len(list[p]) \in 1..Len(list[p])
  BY <1>7, PopRight DEF QueueType
<1>10. QED BY <1>6, <1>8, <1>9 DEF Listed

\* TasksRunOnce (AgentQueue.tla): RPOP takes a task out of its list before it is run
\* (llm/queue.go, dequeue and processTask), and nothing pushes it again: no task is
\* given to two workers, or to a worker after it was run or cut off, for any number
\* of workers, handlers and tasks.
THEOREM TasksAreRunOnce == Spec => TasksRunOnce
<1>1. Init => FreshInv
  BY AgentQueueAssumption DEF Init, QueueInit, FreshInv, Waiting, Listed, Pushing, Idle
<1>2. Init => DeletionInv
  BY DEF Init, QueueInit, DeletionInv, NoAgent, Idle
<1>3. ASSUME FreshInv, QueueType, PlaceInv, [Next]_vars
      PROVE  [\A w \in Workers, t \in TaskIds :
                 worker[w].task # t /\ worker'[w].task = t =>
                    /\ ~Held(t) /\ t \notin strayed
                    /\ task[t].status \in {"queued", "none"}]_queueVars
  BY <1>3, FewTake DEF FreshInv, Waiting, PlaceInv
<1>4. QED BY <1>1, <1>2, <1>3, PlaceInit, PlaceInvStep, QueueTypeStep, DeletionInvStep,
             FreshInvStep, PTL DEF Spec, TasksRunOnce
-----------------------------------------------------------------------------
(* Questions and answers *)

Asked == {"saved", "asking", "streaming", "generated", "answered"}

ChatType ==
    /\ conv \in [Convs -> Users \cup {None}]
    /\ messages \in [Convs -> Seq([role : {"user", "assistant"}, of : Replies])]
    /\ DOMAIN reply = Replies
    /\ \A r \in Replies : /\ DOMAIN reply[r] = DOMAIN NewReply
                          /\ reply[r].at \in {"new", "accepted", "ended"} \cup Asked
                          /\ reply[r].at = "new" => reply[r] = NewReply
                          /\ reply[r].at # "new" => reply[r].conv \in Convs

\* Messages of a request are in its conversation, and only once the question is
\* saved; an answer is stored last, after the question, and is the only one.
\* While the request goes on, its conversation holds the question, unless it was
\* deleted: an id is not used again as long as a request has it.
AnswerInv ==
    /\ ChatType
    /\ \A v \in Convs : \A i \in 1..Len(messages[v]) :
          /\ reply[messages[v][i].of].at \in Asked \cup {"ended"}
          /\ reply[messages[v][i].of].conv = v
          /\ messages[v][i].role = "assistant" =>
                /\ reply[messages[v][i].of].at = "ended"
                /\ \E j \in 1..i - 1 : messages[v][j] = Question(messages[v][i].of)
    /\ \A v \in Convs : \A i, j \in 1..Len(messages[v]) :
          messages[v][i].role = "assistant" /\ messages[v][j].role = "assistant"
          /\ messages[v][i].of = messages[v][j].of => i = j
    /\ \A r \in Replies : reply[r].at \in Asked /\ conv[reply[r].conv] # None =>
          /\ \E i \in 1..Len(messages[reply[r].conv]) :
                messages[reply[r].conv][i] = Question(r)
          /\ reply[r].at # "saved" => reply[r].informed

LEMMA MessageType ==
    ASSUME ChatType, NEW v \in Convs
    PROVE  /\ messages[v] \in Seq([role : {"user", "assistant"}, of : Replies])
           /\ Len(messages[v]) \in Nat
           /\ \A i \in 1..Len(messages[v]) :
                 /\ messages[v][i] \in [role : {"user", "assistant"}, of : Replies]
                 /\ messages[v][i].of \in Replies
                 /\ messages[v][i].role \in {"user", "assistant"}
<1>1. messages[v] \in Seq([role : {"user", "assistant"}, of : Replies])
  BY DEF ChatType
<1>2. /\ Len(messages[v]) \in Nat
      /\ \A i \in 1..Len(messages[v]) :
            messages[v][i] \in [role : {"user", "assistant"}, of : Replies]
  BY <1>1, ElementOfSeq, LenProperties
<1>3. QED BY <1>1, <1>2

\* What Set does: the fields it is given change, the others stay.
LEMMA SetEffect ==
    ASSUME ChatType, NEW r \in Replies, NEW fields, DOMAIN fields \subseteq DOMAIN NewReply,
           Set(r, fields)
    PROVE  /\ DOMAIN reply' = Replies
           /\ \A q \in Replies \ {r} : reply'[q] = reply[q]
           /\ DOMAIN reply'[r] = DOMAIN NewReply
           /\ \A x \in DOMAIN fields : reply'[r][x] = fields[x]
           /\ \A x \in DOMAIN NewReply \ DOMAIN fields : reply'[r][x] = reply[r][x]
<1>1. reply' = [reply EXCEPT ![r] = [x \in DOMAIN NewReply |->
                   IF x \in DOMAIN fields THEN fields[x] ELSE reply[r][x]]]
  BY DEF Set
<1>2. reply'[r] = [x \in DOMAIN NewReply |-> IF x \in DOMAIN fields THEN fields[x]
                                             ELSE reply[r][x]]
      /\ DOMAIN reply' = Replies
      /\ \A q \in Replies \ {r} : reply'[q] = reply[q]
  BY <1>1 DEF ChatType
<1>3. QED BY <1>2

\* A step of one request that adds no message.
LEMMA RequestMoves ==
    ASSUME AnswerInv, NEW r \in Replies, UNCHANGED <<conv, messages>>,
           DOMAIN reply' = Replies,
           \A q \in Replies \ {r} : reply'[q] = reply[q],
           DOMAIN reply'[r] = DOMAIN NewReply,
           reply'[r].at \in {"accepted", "ended"} \cup Asked,
           reply'[r].conv \in Convs,
           reply[r].at \in Asked \cup {"ended"} =>
              /\ reply'[r].at \in Asked \cup {"ended"}
              /\ reply'[r].conv = reply[r].conv,
           reply[r].at = "ended" => reply'[r].at = "ended",
           reply'[r].at \in Asked /\ conv[reply'[r].conv] # None =>
              /\ \E i \in 1..Len(messages[reply'[r].conv]) :
                    messages[reply'[r].conv][i] = Question(r)
              /\ reply'[r].at # "saved" => reply'[r].informed
    PROVE  AnswerInv'
<1>1. ChatType'
  <2>1. /\ conv' \in [Convs -> Users \cup {None}]
        /\ messages' \in [Convs -> Seq([role : {"user", "assistant"}, of : Replies])]
    BY DEF AnswerInv, ChatType
  <2>2. ASSUME NEW q \in Replies
        PROVE  /\ DOMAIN reply'[q] = DOMAIN NewReply
               /\ reply'[q].at \in {"new", "accepted", "ended"} \cup Asked
               /\ reply'[q].at = "new" => reply'[q] = NewReply
               /\ reply'[q].at # "new" => reply'[q].conv \in Convs
    <3>1. CASE q = r
      BY <3>1 DEF Asked
    <3>2. CASE q # r
      BY <3>2 DEF AnswerInv, ChatType
    <3>3. QED BY <3>1, <3>2
  <2>3. NewReply' = NewReply /\ Asked' = Asked
    BY DEF NewReply, Asked
  <2>4. QED BY <2>1, <2>2, <2>3 DEF ChatType
<1>2. ASSUME NEW v \in Convs, NEW i \in 1..Len(messages[v])
      PROVE  /\ messages[v][i].of \in Replies
             /\ reply'[messages[v][i].of].at \in Asked \cup {"ended"}
             /\ reply'[messages[v][i].of].conv = v
             /\ messages[v][i].role = "assistant" =>
                   /\ reply'[messages[v][i].of].at = "ended"
                   /\ \E j \in 1..i - 1 : messages[v][j] = Question(messages[v][i].of)
  <2>1. messages[v][i].of \in Replies
    BY MessageType DEF AnswerInv
  <2>2. QED BY <2>1 DEF AnswerInv
<1>3. ASSUME NEW q \in Replies, reply'[q].at \in Asked, conv[reply'[q].conv] # None
      PROVE  /\ \E i \in 1..Len(messages[reply'[q].conv]) :
                   messages[reply'[q].conv][i] = Question(q)
             /\ reply'[q].at # "saved" => reply'[q].informed
  BY <1>3 DEF AnswerInv
<1>4. /\ Asked' = Asked /\ \A q : Question(q)' = Question(q)
  BY DEF Asked, Question
<1>5. QED BY <1>1, <1>2, <1>3, <1>4 DEF AnswerInv

LEMMA SendMessageAnswers ==
    ASSUME AnswerInv, NEW r \in Replies, NEW v \in Convs, NEW u \in Users, SendMessage(r, v, u)
    PROVE  AnswerInv'
<1> DEFINE F == [at |-> "accepted", conv |-> v]
<1>1. Set(r, F) /\ DOMAIN F = {"at", "conv"} /\ DOMAIN F \subseteq DOMAIN NewReply
      /\ F.at = "accepted" /\ F.conv = v
  BY DEF SendMessage, NewReply
<1>2. reply[r].at = "new"
  BY DEF SendMessage, NewReply
<1> HIDE DEF F
<1>3. ChatType /\ UNCHANGED <<conv, messages>>
  BY DEF AnswerInv, SendMessage
<1>4. /\ DOMAIN reply' = Replies
      /\ \A q \in Replies \ {r} : reply'[q] = reply[q]
      /\ DOMAIN reply'[r] = DOMAIN NewReply
      /\ reply'[r].at = "accepted" /\ reply'[r].conv = v
  BY <1>1, <1>3, SetEffect
<1>5. "new" \notin Asked \cup {"ended"} /\ "accepted" \notin Asked
  BY DEF Asked
<1>6. QED
  BY <1>2, <1>3, <1>4, <1>5, RequestMoves

\* The request goes from one step to a later one and keeps its conversation.
LEMMA RequestGoesOn ==
    ASSUME AnswerInv, NEW r \in Replies, NEW F, DOMAIN F \subseteq DOMAIN NewReply,
           Set(r, F), "at" \in DOMAIN F, F.at \in Asked, "conv" \notin DOMAIN F,
           UNCHANGED <<conv, messages>>,
           reply[r].at \in Asked, F.at # "saved",
           conv[reply[r].conv] # None =>
              IF "informed" \in DOMAIN F THEN F.informed ELSE reply[r].informed
    PROVE  AnswerInv'
<1>1. /\ DOMAIN reply' = Replies
      /\ \A q \in Replies \ {r} : reply'[q] = reply[q]
      /\ DOMAIN reply'[r] = DOMAIN NewReply
  BY SetEffect DEF AnswerInv
<1>2. reply'[r].at = F.at /\ reply'[r].conv = reply[r].conv
  BY SetEffect DEF AnswerInv, NewReply
<1>3. reply'[r].informed = IF "informed" \in DOMAIN F THEN F.informed ELSE reply[r].informed
  BY SetEffect DEF AnswerInv, NewReply
<1>4. reply[r].conv \in Convs
  BY DEF AnswerInv, ChatType, Asked
<1>5. conv[reply[r].conv] # None =>
         \E i \in 1..Len(messages[reply[r].conv]) : messages[reply[r].conv][i] = Question(r)
  BY DEF AnswerInv
<1>6. reply[r].at # "ended" /\ F.at # "ended"
  BY DEF Asked
<1>7. QED BY <1>1, <1>2, <1>3, <1>4, <1>5, <1>6, RequestMoves

\* What Ended leaves.
LEMMA EndedEffect ==
    ASSUME ChatType, NEW r \in Replies, reply[r].at # "new"
    PROVE  /\ DOMAIN Ended(r) = DOMAIN NewReply
           /\ Ended(r).at = "ended"
           /\ Ended(r).conv = reply[r].conv
           /\ reply[r].conv \in Convs
BY DEF ChatType, Ended, NewReply

LEMMA RequestEnds ==
    ASSUME AnswerInv, NEW r \in Replies, reply[r].at # "new", Set(r, Ended(r)),
           UNCHANGED <<conv, messages>>
    PROVE  AnswerInv'
<1>1. /\ DOMAIN Ended(r) = DOMAIN NewReply
      /\ Ended(r).at = "ended"
      /\ Ended(r).conv = reply[r].conv
      /\ reply[r].conv \in Convs
  BY EndedEffect DEF AnswerInv
<1>2. /\ DOMAIN reply' = Replies
      /\ \A q \in Replies \ {r} : reply'[q] = reply[q]
      /\ DOMAIN reply'[r] = DOMAIN NewReply
      /\ \A x \in DOMAIN NewReply : reply'[r][x] = Ended(r)[x]
  BY <1>1, SetEffect DEF AnswerInv
<1>3. reply'[r].at = "ended" /\ reply'[r].conv = reply[r].conv
  BY <1>1, <1>2 DEF NewReply
<1>4. "ended" \notin Asked
  BY DEF Asked
<1>5. QED BY <1>1, <1>2, <1>3, <1>4, RequestMoves

\* What AddMessage does.
LEMMA AddEffect ==
    ASSUME ChatType, NEW r \in Replies, NEW v \in Convs, v = reply[r].conv,
           NEW role \in {"user", "assistant"}, AddMessage(r, role)
    PROVE  /\ messages' \in [Convs -> Seq([role : {"user", "assistant"}, of : Replies])]
           /\ \A w \in Convs \ {v} : messages'[w] = messages[w]
           /\ Len(messages'[v]) = Len(messages[v]) + 1
           /\ \A i \in 1..Len(messages[v]) : messages'[v][i] = messages[v][i]
           /\ messages'[v][Len(messages[v]) + 1].role = role
           /\ messages'[v][Len(messages[v]) + 1].of = r
           /\ role = "user" => messages'[v][Len(messages[v]) + 1] = Question(r)
<1> DEFINE M == [role : {"user", "assistant"}, of : Replies]
           e == [role |-> role, of |-> r]
<1>2. e \in M /\ e.role = role /\ e.of = r
  OBVIOUS
<1>3. messages[v] \in Seq(M) /\ messages \in [Convs -> Seq(M)]
  BY MessageType DEF ChatType
<1>4. messages' = [messages EXCEPT ![v] = Append(messages[v], e)]
  BY DEF AddMessage
<1>5. role = "user" => e = Question(r)
  BY DEF Question
<1> HIDE DEF M, e
<1>6. /\ Append(messages[v], e) \in Seq(M)
      /\ Len(Append(messages[v], e)) = Len(messages[v]) + 1
      /\ \A i \in 1..Len(messages[v]) : Append(messages[v], e)[i] = messages[v][i]
      /\ Append(messages[v], e)[Len(messages[v]) + 1] = e
  BY <1>2, <1>3, AppendProperties
<1>7. /\ messages'[v] = Append(messages[v], e)
      /\ \A w \in Convs \ {v} : messages'[w] = messages[w]
      /\ messages' \in [Convs -> Seq(M)]
  BY <1>3, <1>4, <1>6
<1>8. QED BY <1>2, <1>5, <1>6, <1>7 DEF M

\* A question is added to a conversation that has no message of the request, an
\* answer to one that has the question and no answer.
LEMMA MessageAdded ==
    ASSUME AnswerInv, NEW r \in Replies, reply[r].conv \in Convs, UNCHANGED conv,
           NEW role \in {"user", "assistant"}, AddMessage(r, role),
           DOMAIN reply' = Replies,
           \A q \in Replies \ {r} : reply'[q] = reply[q],
           DOMAIN reply'[r] = DOMAIN NewReply,
           reply'[r].conv = reply[r].conv,
           IF role = "user"
           THEN reply[r].at = "accepted" /\ reply'[r].at = "saved"
           ELSE reply[r].at = "answered" /\ reply'[r].at = "ended"
                /\ conv[reply[r].conv] # None
    PROVE  AnswerInv'
<1>1. PICK v \in Convs : v = reply[r].conv
  OBVIOUS
<1>2. PICK n \in Nat : n = Len(messages[v])
  BY MessageType DEF AnswerInv
<1>3. /\ messages' \in [Convs -> Seq([role : {"user", "assistant"}, of : Replies])]
      /\ \A w \in Convs \ {v} : messages'[w] = messages[w]
      /\ Len(messages'[v]) = n + 1
      /\ \A i \in 1..n : messages'[v][i] = messages[v][i]
      /\ messages'[v][n + 1].role = role
      /\ messages'[v][n + 1].of = r
      /\ role = "user" => messages'[v][n + 1] = Question(r)
  <2>1. ChatType
    BY DEF AnswerInv
  <2>2. AddMessage(r, role)
    OBVIOUS
  <2>3. messages' \in [Convs -> Seq([role : {"user", "assistant"}, of : Replies])]
    BY <1>1, <2>1, <2>2, AddEffect
  <2>4. \A w \in Convs \ {v} : messages'[w] = messages[w]
    BY <1>1, <2>1, <2>2, AddEffect
  <2>5. Len(messages'[v]) = n + 1
    BY <1>1, <1>2, <2>1, <2>2, AddEffect
  <2>6. \A i \in 1..n : messages'[v][i] = messages[v][i]
    BY <1>1, <1>2, <2>1, <2>2, AddEffect
  <2>7. /\ messages'[v][n + 1].role = role
        /\ messages'[v][n + 1].of = r
    BY <1>1, <1>2, <2>1, <2>2, AddEffect
  <2>8. role = "user" => messages'[v][n + 1] = Question(r)
    BY <1>1, <1>2, <2>1, <2>2, AddEffect
  <2>9. QED BY <2>3, <2>4, <2>5, <2>6, <2>7, <2>8
<1>4. /\ reply'[r].at \in Asked \cup {"ended"}
      /\ role = "user" => reply'[r].at # "ended" /\ reply[r].at = "accepted"
      /\ role = "assistant" => /\ reply'[r].at = "ended"
                               /\ reply[r].at = "answered" /\ "answered" \in Asked
      /\ "ended" \notin Asked /\ "accepted" \notin Asked /\ "new" \notin Asked
  BY DEF Asked
<1>5. ChatType'
  <2>1. conv' \in [Convs -> Users \cup {None}]
    BY DEF AnswerInv, ChatType
  <2>2. \A q \in Replies :
           /\ DOMAIN reply'[q] = DOMAIN NewReply
           /\ reply'[q].at \in {"new", "accepted", "ended"} \cup Asked
           /\ reply'[q].at = "new" => reply'[q] = NewReply
           /\ reply'[q].at # "new" => reply'[q].conv \in Convs
    BY <1>4 DEF AnswerInv, ChatType
  <2>3. NewReply' = NewReply /\ Asked' = Asked
    BY DEF NewReply, Asked
  <2>4. QED BY <1>3, <2>1, <2>2, <2>3 DEF ChatType
<1>6. ASSUME NEW w \in Convs, NEW i \in 1..Len(messages[w])
      PROVE  /\ messages[w][i].of \in Replies
             /\ messages[w][i].of = r => role = "assistant" /\ messages[w][i].role = "user"
             /\ i \in 1..Len(messages'[w])
             /\ messages'[w][i] = messages[w][i]
  <2>1. messages[w][i].of \in Replies /\ messages[w][i].role \in {"user", "assistant"}
    BY MessageType DEF AnswerInv
  <2>2. /\ reply[messages[w][i].of].at \in Asked \cup {"ended"}
        /\ messages[w][i].role = "assistant" => reply[messages[w][i].of].at = "ended"
    BY DEF AnswerInv
  <2>3. messages[w][i].of = r => role = "assistant" /\ messages[w][i].role = "user"
    <3>1. CASE role = "user"
      BY <1>4, <2>2, <3>1
    <3>2. CASE role = "assistant"
      BY <1>4, <2>1, <2>2, <3>2
    <3>3. QED BY <3>1, <3>2
  <2>4. i \in 1..Len(messages'[w]) /\ messages'[w][i] = messages[w][i]
    <3>1. CASE w = v
      BY <1>2, <1>3, <3>1
    <3>2. CASE w # v
      BY <1>3, <3>2
    <3>3. QED BY <3>1, <3>2
  <2>5. QED BY <2>1, <2>3, <2>4
<1>7. ASSUME NEW w \in Convs, NEW i \in 1..Len(messages'[w])
      PROVE  \/ i \in 1..Len(messages[w]) /\ messages'[w][i] = messages[w][i]
             \/ w = v /\ i = n + 1
  <2>1. CASE w = v
    <3>1. i \in 1..n + 1
      BY <1>3, <2>1
    <3>2. CASE i \in 1..n
      BY <1>2, <1>3, <2>1, <3>2
    <3>3. QED BY <1>2, <2>1, <3>1, <3>2
  <2>2. CASE w # v
    BY <1>3, <2>2
  <2>3. QED BY <2>1, <2>2
<1>8. role = "assistant" => \E j \in 1..n : messages'[v][j] = Question(r)
  <2>1. ASSUME role = "assistant"
        PROVE  \E j \in 1..n : messages'[v][j] = Question(r)
    <3>1. reply[r].at \in Asked /\ conv[reply[r].conv] # None
      BY <1>4, <2>1
    <3>2. \E j \in 1..Len(messages[reply[r].conv]) :
             messages[reply[r].conv][j] = Question(r)
      BY <3>1 DEF AnswerInv
    <3>3. PICK j \in 1..n : messages[v][j] = Question(r)
      BY <1>1, <1>2, <3>2
    <3>4. messages'[v][j] = messages[v][j]
      BY <1>3
    <3>5. QED BY <3>3, <3>4
  <2>2. QED BY <2>1
<1>9. ASSUME NEW w \in Convs, NEW i \in 1..Len(messages'[w])
      PROVE  /\ reply'[messages'[w][i].of].at \in Asked \cup {"ended"}
             /\ reply'[messages'[w][i].of].conv = w
             /\ messages'[w][i].role = "assistant" =>
                   /\ reply'[messages'[w][i].of].at = "ended"
                   /\ \E j \in 1..i - 1 : messages'[w][j] = Question(messages'[w][i].of)
  <2>1. CASE w = v /\ i = n + 1
    BY <2>1, <1>1, <1>3, <1>4, <1>8
  <2>2. CASE i \in 1..Len(messages[w]) /\ messages'[w][i] = messages[w][i]
    <3>1. PICK q \in Replies : q = messages[w][i].of
      BY <2>2, <1>6
    <3>2. /\ reply[q].at \in Asked \cup {"ended"}
          /\ reply[q].conv = w
          /\ messages[w][i].role = "assistant" =>
                /\ reply[q].at = "ended"
                /\ \E j \in 1..i - 1 : messages[w][j] = Question(q)
      BY <2>2, <3>1 DEF AnswerInv
    <3>3. /\ reply'[q].at \in Asked \cup {"ended"}
          /\ reply'[q].conv = w
          /\ messages[w][i].role = "assistant" => reply'[q].at = "ended"
      BY <1>4, <2>2, <3>1, <3>2, <1>6
    <3>4. \A j \in 1..i - 1 : j \in 1..Len(messages[w]) /\ messages'[w][j] = messages[w][j]
      BY <2>2, <1>6, MessageType DEF AnswerInv
    <3>5. QED BY <2>2, <3>1, <3>2, <3>3, <3>4
  <2>3. QED BY <1>7, <2>1, <2>2
<1>10. ASSUME NEW w \in Convs, NEW i \in 1..Len(messages'[w]), NEW j \in 1..Len(messages'[w]),
              messages'[w][i].role = "assistant", messages'[w][j].role = "assistant",
              messages'[w][i].of = messages'[w][j].of
       PROVE  i = j
  <2>1. CASE i \in 1..Len(messages[w]) /\ j \in 1..Len(messages[w])
    <3>1. messages'[w][i] = messages[w][i] /\ messages'[w][j] = messages[w][j]
      BY <1>6, <2>1
    <3>2. /\ messages[w][i].role = "assistant" /\ messages[w][j].role = "assistant"
          /\ messages[w][i].of = messages[w][j].of
      BY <1>10, <3>1
    <3>3. QED BY <2>1, <3>2 DEF AnswerInv
  <2>2. CASE w = v /\ i = n + 1 /\ j # n + 1
    BY <1>3, <1>6, <1>7, <1>10, <2>2
  <2>3. CASE w = v /\ j = n + 1 /\ i # n + 1
    BY <1>3, <1>6, <1>7, <1>10, <2>3
  <2>4. QED BY <1>7, <2>1, <2>2, <2>3
<1>11. ASSUME NEW q \in Replies, reply'[q].at \in Asked, conv'[reply'[q].conv] # None
       PROVE  /\ \E i \in 1..Len(messages'[reply'[q].conv]) :
                    messages'[reply'[q].conv][i] = Question(q)
              /\ reply'[q].at # "saved" => reply'[q].informed
  <2>1. CASE q = r
    BY <2>1, <1>1, <1>3, <1>4, <1>11
  <2>2. CASE q # r
    <3>1. reply'[q] = reply[q] /\ reply[q].at \in Asked
      BY <2>2, <1>11
    <3>2. reply[q].conv \in Convs
      BY <1>4, <3>1 DEF AnswerInv, ChatType
    <3>3. /\ \E i \in 1..Len(messages[reply[q].conv]) :
                messages[reply[q].conv][i] = Question(q)
          /\ reply[q].at # "saved" => reply[q].informed
      BY <3>1, <1>11 DEF AnswerInv
    <3>4. QED BY <3>1, <3>2, <3>3, <1>6
  <2>3. QED BY <2>1, <2>2
<1>12. Asked' = Asked /\ \A q : Question(q)' = Question(q)
  BY DEF Asked, Question
<1>13. QED BY <1>5, <1>9, <1>10, <1>11, <1>12 DEF AnswerInv

LEMMA SaveQuestionAnswers ==
    ASSUME AnswerInv, NEW r \in Replies, SaveQuestion(r)
    PROVE  AnswerInv'
<1>1. reply[r].at = "accepted" /\ reply[r].conv \in Convs
  BY DEF SaveQuestion, AnswerInv, ChatType
<1>2. CASE ~CanAdd(r)
  BY <1>1, <1>2, RequestEnds DEF SaveQuestion
<1>3. CASE CanAdd(r)
  <2> DEFINE F == [at |-> "saved"]
  <2>1. AddMessage(r, "user") /\ Set(r, F) /\ UNCHANGED conv
    BY <1>3 DEF SaveQuestion
  <2>2. DOMAIN F = {"at"} /\ DOMAIN F \subseteq DOMAIN NewReply /\ F.at = "saved"
    BY DEF NewReply
  <2> HIDE DEF F
  <2>3. /\ DOMAIN reply' = Replies
        /\ \A q \in Replies \ {r} : reply'[q] = reply[q]
        /\ DOMAIN reply'[r] = DOMAIN NewReply
        /\ reply'[r].at = "saved"
        /\ reply'[r].conv = reply[r].conv
    BY <2>1, <2>2, SetEffect DEF AnswerInv, NewReply
  <2>4. QED BY <1>1, <2>1, <2>3, MessageAdded
<1>4. QED BY <1>2, <1>3

LEMMA SaveAnswerAnswers ==
    ASSUME AnswerInv, NEW r \in Replies, SaveAnswer(r)
    PROVE  AnswerInv'
<1>1. reply[r].at = "answered" /\ reply[r].conv \in Convs
      /\ Set(r, Ended(r)) /\ UNCHANGED conv
  BY DEF SaveAnswer, AnswerInv, ChatType
<1>2. CASE UNCHANGED messages
  BY <1>1, <1>2, RequestEnds
<1>3. CASE CanAdd(r) /\ AddMessage(r, "assistant")
  <2>1. /\ DOMAIN reply' = Replies
        /\ \A q \in Replies \ {r} : reply'[q] = reply[q]
        /\ DOMAIN reply'[r] = DOMAIN NewReply
        /\ reply'[r].at = "ended"
        /\ reply'[r].conv = reply[r].conv
    BY <1>1, EndedEffect, SetEffect DEF AnswerInv, NewReply
  <2>2. conv[reply[r].conv] # None
    BY <1>3 DEF CanAdd
  <2>3. QED BY <1>1, <1>3, <2>1, <2>2, MessageAdded
<1>4. QED BY <1>2, <1>3 DEF SaveAnswer

LEMMA ReadHistoryAnswers ==
    ASSUME AnswerInv, NEW r \in Replies, ReadHistory(r)
    PROVE  AnswerInv'
<1>1. reply[r].at = "saved" /\ "saved" \in Asked /\ UNCHANGED <<conv, messages>>
  BY DEF ReadHistory, Asked
<1>2. CASE reply[r].gone
  BY <1>1, <1>2, RequestEnds DEF ReadHistory
<1>3. CASE ~reply[r].gone
  <2> DEFINE F == [at |-> IF HasLLM THEN "asking" ELSE "generated",
                   informed |-> \E i \in 1..Len(messages[reply[r].conv]) :
                                   messages[reply[r].conv][i] = Question(r),
                   text |-> IF HasLLM THEN "empty" ELSE "plain"]
  <2>1. Set(r, F)
    BY <1>3 DEF ReadHistory
  <2>2. /\ DOMAIN F = {"at", "informed", "text"}
        /\ DOMAIN F \subseteq DOMAIN NewReply
        /\ F.at \in Asked /\ F.at # "saved"
        /\ F.informed = \E i \in 1..Len(messages[reply[r].conv]) :
                           messages[reply[r].conv][i] = Question(r)
    BY DEF NewReply, Asked
  <2> HIDE DEF F
  <2>3. conv[reply[r].conv] # None => F.informed
    BY <1>1, <2>2 DEF AnswerInv
  <2>4. QED BY <1>1, <2>1, <2>2, <2>3, RequestGoesOn
<1>4. QED BY <1>2, <1>3

LEMMA AskModelAnswers ==
    ASSUME AnswerInv, NEW r \in Replies, AskModel(r)
    PROVE  AnswerInv'
<1>1. /\ reply[r].at = "asking" /\ UNCHANGED <<conv, messages>>
      /\ conv[reply[r].conv] # None => reply[r].informed
  BY DEF AskModel, AnswerInv, Asked
<1>2. PICK a \in {"streaming", "generated"} : \E n, t :
         Set(r, [at |-> a, rounds |-> n, text |-> t])
  BY DEF AskModel
<1>3. PICK n, t : Set(r, [at |-> a, rounds |-> n, text |-> t])
  BY <1>2
<1> DEFINE F == [at |-> a, rounds |-> n, text |-> t]
<1>4. /\ DOMAIN F = {"at", "rounds", "text"}
      /\ DOMAIN F \subseteq DOMAIN NewReply
      /\ F.at \in Asked /\ F.at # "saved" /\ reply[r].at \in Asked
  BY <1>1 DEF NewReply, Asked
<1>5. Set(r, F)
  BY <1>3
<1> HIDE DEF F
<1>6. QED BY <1>1, <1>4, <1>5, RequestGoesOn

LEMMA ReadFilesAnswers ==
    ASSUME AnswerInv, NEW r \in Replies, ReadFiles(r)
    PROVE  AnswerInv'
<1>1. /\ reply[r].at = "generated" /\ UNCHANGED <<conv, messages>>
      /\ conv[reply[r].conv] # None => reply[r].informed
  BY DEF ReadFiles, AnswerInv, Asked
<1>2. CASE Set(r, [at |-> "asking"])
  <2> DEFINE F == [at |-> "asking"]
  <2>1. /\ DOMAIN F = {"at"}
        /\ DOMAIN F \subseteq DOMAIN NewReply
        /\ F.at \in Asked /\ F.at # "saved" /\ reply[r].at \in Asked
    BY <1>1 DEF NewReply, Asked
  <2>2. Set(r, F)
    BY <1>2
  <2> HIDE DEF F
  <2>3. QED BY <1>1, <2>1, <2>2, RequestGoesOn
<1>3. CASE \E t : Set(r, [at |-> "answered", text |-> t])
  <2>1. PICK t : Set(r, [at |-> "answered", text |-> t])
    BY <1>3
  <2> DEFINE F == [at |-> "answered", text |-> t]
  <2>2. /\ DOMAIN F = {"at", "text"}
        /\ DOMAIN F \subseteq DOMAIN NewReply
        /\ F.at \in Asked /\ F.at # "saved" /\ reply[r].at \in Asked
    BY <1>1 DEF NewReply, Asked
  <2>3. Set(r, F)
    BY <2>1
  <2> HIDE DEF F
  <2>4. QED BY <1>1, <2>2, <2>3, RequestGoesOn
<1>4. QED BY <1>2, <1>3 DEF ReadFiles

\* A change of another field than the step, the conversation and what was read.
LEMMA RequestStays ==
    ASSUME AnswerInv, NEW r \in Replies, reply[r].at # "new", NEW F,
           DOMAIN F \subseteq {"text", "gone"}, Set(r, F), UNCHANGED <<conv, messages>>
    PROVE  AnswerInv'
<1>1. DOMAIN F \subseteq DOMAIN NewReply
  BY DEF NewReply
<1>2. /\ DOMAIN reply' = Replies
      /\ \A q \in Replies \ {r} : reply'[q] = reply[q]
      /\ DOMAIN reply'[r] = DOMAIN NewReply
      /\ reply'[r].at = reply[r].at
      /\ reply'[r].conv = reply[r].conv
      /\ reply'[r].informed = reply[r].informed
  BY <1>1, SetEffect DEF AnswerInv, NewReply
<1>3. reply[r].at \in {"accepted", "ended"} \cup Asked /\ reply[r].conv \in Convs
  BY DEF AnswerInv, ChatType
<1>4. reply[r].at \in Asked /\ conv[reply[r].conv] # None =>
         /\ \E i \in 1..Len(messages[reply[r].conv]) :
               messages[reply[r].conv][i] = Question(r)
         /\ reply[r].at # "saved" => reply[r].informed
  BY DEF AnswerInv
<1>5. QED BY <1>2, <1>3, <1>4, RequestMoves

LEMMA ReceiveAnswers ==
    ASSUME AnswerInv, NEW r \in Replies, Receive(r)
    PROVE  AnswerInv'
<1>1. /\ reply[r].at = "streaming" /\ UNCHANGED <<conv, messages>>
      /\ conv[reply[r].conv] # None => reply[r].informed
  BY DEF Receive, AnswerInv, Asked
<1>2. CASE \E t : Set(r, [text |-> t])
  <2>1. PICK t : Set(r, [text |-> t])
    BY <1>2
  <2> DEFINE F == [text |-> t]
  <2>2. DOMAIN F \subseteq {"text", "gone"}
    OBVIOUS
  <2>3. Set(r, F)
    BY <2>1
  <2> HIDE DEF F
  <2>4. QED BY <1>1, <2>2, <2>3, RequestStays
<1>3. CASE Set(r, [at |-> "generated"])
  <2> DEFINE F == [at |-> "generated"]
  <2>1. /\ DOMAIN F = {"at"}
        /\ DOMAIN F \subseteq DOMAIN NewReply
        /\ F.at \in Asked /\ F.at # "saved" /\ reply[r].at \in Asked
    BY <1>1 DEF NewReply, Asked
  <2>2. Set(r, F)
    BY <1>3
  <2> HIDE DEF F
  <2>3. QED BY <1>1, <2>1, <2>2, RequestGoesOn
<1>4. QED BY <1>2, <1>3 DEF Receive

LEMMA DisconnectAnswers ==
    ASSUME AnswerInv, NEW r \in Replies, Disconnect(r)
    PROVE  AnswerInv'
<1> DEFINE F == [gone |-> TRUE]
<1>1. DOMAIN F \subseteq {"text", "gone"}
  OBVIOUS
<1>2. Set(r, F) /\ UNCHANGED <<conv, messages>> /\ reply[r].at # "new"
  BY DEF Disconnect
<1> HIDE DEF F
<1>3. QED BY <1>1, <1>2, RequestStays

\* No request has the id of the new conversation.
LEMMA CreateConversationAnswers ==
    ASSUME AnswerInv, NEW v \in Convs, NEW u \in Users, CreateConversation(v, u)
    PROVE  AnswerInv'
<1>1. /\ UNCHANGED <<messages, reply>>
      /\ conv' \in [Convs -> Users \cup {None}]
      /\ \A r \in Replies : reply[r].conv # v
      /\ \A w \in Convs \ {v} : conv'[w] = conv[w]
  BY DEF CreateConversation, AnswerInv, ChatType
<1>2. ChatType'
  BY <1>1 DEF AnswerInv, ChatType, Asked, NewReply
<1>3. \A r \in Replies : reply[r].at \in Asked => reply[r].conv \in Convs \ {v}
  BY <1>1 DEF AnswerInv, ChatType, Asked
<1>4. QED BY <1>1, <1>2, <1>3 DEF AnswerInv, Asked, Question

LEMMA DeleteConversationAnswers ==
    ASSUME AnswerInv, NEW v \in Convs, NEW u \in Users, DeleteConversation(v, u)
    PROVE  AnswerInv'
<1>1. /\ UNCHANGED reply
      /\ conv' = [conv EXCEPT ![v] = None]
      /\ messages' = [messages EXCEPT ![v] = <<>>]
  BY DEF DeleteConversation
<1>2. /\ conv' \in [Convs -> Users \cup {None}]
      /\ conv'[v] = None
      /\ \A w \in Convs \ {v} : conv'[w] = conv[w]
  BY <1>1 DEF AnswerInv, ChatType
<1>3. <<>> \in Seq([role : {"user", "assistant"}, of : Replies])
  BY EmptySeq
<1>4. /\ messages' \in [Convs -> Seq([role : {"user", "assistant"}, of : Replies])]
      /\ messages'[v] = <<>> /\ Len(messages'[v]) = 0
      /\ \A w \in Convs \ {v} : messages'[w] = messages[w]
  <2> DEFINE S == Seq([role : {"user", "assistant"}, of : Replies])
  <2>1. messages \in [Convs -> S] /\ <<>> \in S
    BY <1>3 DEF AnswerInv, ChatType
  <2> HIDE DEF S
  <2>2. /\ messages' \in [Convs -> S]
        /\ messages'[v] = <<>>
        /\ \A w \in Convs \ {v} : messages'[w] = messages[w]
    BY <1>1, <2>1
  <2>3. QED BY <2>2 DEF S
<1>5. ChatType'
  <2>1. /\ DOMAIN reply' = Replies
        /\ \A r \in Replies : /\ DOMAIN reply'[r] = DOMAIN NewReply
                              /\ reply'[r].at \in {"new", "accepted", "ended"} \cup Asked
                              /\ reply'[r].at = "new" => reply'[r] = NewReply
                              /\ reply'[r].at # "new" => reply'[r].conv \in Convs
    BY <1>1 DEF AnswerInv, ChatType
  <2>2. NewReply' = NewReply /\ Asked' = Asked
    BY DEF NewReply, Asked
  <2>3. QED BY <1>2, <1>4, <2>1, <2>2 DEF ChatType
<1>6. \A w \in Convs, i \in Nat : i \in 1..Len(messages'[w]) => w # v
  BY <1>4
<1>7. \A w \in Convs : Len(messages'[w]) \in Nat
  BY <1>4, MessageType DEF AnswerInv
<1>8. \A r \in Replies : reply[r].at \in Asked => reply[r].conv \in Convs
  BY DEF AnswerInv, ChatType, Asked
<1>9. QED BY <1>1, <1>2, <1>4, <1>5, <1>6, <1>7, <1>8 DEF AnswerInv, Asked, Question

\* The end of the process ends every request that was accepted.
LEMMA CutAnswers ==
    ASSUME AnswerInv, Cut
    PROVE  AnswerInv'
<1>1. UNCHANGED <<conv, messages>> /\ DOMAIN reply' = Replies
      /\ \A r \in Replies : reply'[r] = IF reply[r].at = "new" THEN reply[r] ELSE Ended(r)
  BY DEF Cut
<1>2. ASSUME NEW r \in Replies
      PROVE  /\ DOMAIN reply'[r] = DOMAIN NewReply
             /\ reply'[r].at \in {"new", "ended"}
             /\ reply'[r].at = "new" => reply'[r] = NewReply
             /\ reply'[r].at # "new" => reply'[r].conv \in Convs
             /\ reply[r].at # "new" => /\ reply'[r].at = "ended"
                                       /\ reply'[r].conv = reply[r].conv
  <2>1. /\ DOMAIN reply[r] = DOMAIN NewReply
        /\ reply[r].at = "new" => reply[r] = NewReply
    BY DEF AnswerInv, ChatType
  <2>2. reply[r].at # "new" => /\ DOMAIN Ended(r) = DOMAIN NewReply
                               /\ Ended(r).at = "ended"
                               /\ Ended(r).conv = reply[r].conv
                               /\ reply[r].conv \in Convs
    BY EndedEffect DEF AnswerInv
  <2>3. QED BY <1>1, <2>1, <2>2
<1>3. ChatType'
  BY <1>1, <1>2 DEF AnswerInv, ChatType, Asked, NewReply
<1>4. \A v \in Convs : \A i \in 1..Len(messages[v]) :
         /\ messages[v][i].of \in Replies
         /\ reply[messages[v][i].of].at # "new"
  BY MessageType DEF AnswerInv, Asked
<1>5. \A r \in Replies : reply'[r].at \notin Asked
  BY <1>2 DEF Asked
<1>6. QED BY <1>1, <1>2, <1>3, <1>4, <1>5 DEF AnswerInv, Asked, Question

LEMMA AnswerInvStep ==
    ASSUME AnswerInv, [Next]_vars
    PROVE  AnswerInv'
<1>1. CASE UNCHANGED <<conv, messages, reply>>
  <2>1. ChatType'
    BY <1>1 DEF AnswerInv, ChatType, Asked, NewReply
  <2>2. QED BY <1>1, <2>1 DEF AnswerInv, Asked, Question
<1>2. ASSUME NEW r \in Replies, Handle(r) \/ Disconnect(r) \/ Scan(r) \/ Adapt(r)
      PROVE  AnswerInv'
  BY <1>1, <1>2, SaveQuestionAnswers, ReadHistoryAnswers, AskModelAnswers, ReceiveAnswers,
     ReadFilesAnswers, SaveAnswerAnswers, DisconnectAnswers DEF Handle, Scan, Adapt
<1>3. CASE ChatNext
  BY <1>2, <1>3, CreateConversationAnswers, DeleteConversationAnswers, SendMessageAnswers
     DEF ChatNext
<1>4. QED BY <1>1, <1>3, CutAnswers DEF Next, vars, chatOnly

\* AnswersFollowQuestions (Chat.tla): an answer (handlers/chat.go, SendMessage) stands
\* behind its question, once, in the conversation of its request, and the model is
\* asked with a history that holds the question, for any number of requests and
\* conversations, whoever disconnects, deletes or cuts the process short.
THEOREM AnswersStandBehindQuestions == Spec => []AnswersFollowQuestions
<1>1. Init => AnswerInv
  <2>1. SUFFICES ASSUME Init PROVE AnswerInv
    OBVIOUS
  <2>2. /\ conv = [v \in Convs |-> None]
        /\ messages = [v \in Convs |-> <<>>]
        /\ reply = [r \in Replies |-> NewReply]
    BY <2>1 DEF Init, ChatInit
  <2>3. <<>> \in Seq([role : {"user", "assistant"}, of : Replies])
    BY EmptySeq
  <2>4. messages \in [Convs -> Seq([role : {"user", "assistant"}, of : Replies])]
    BY <2>2, <2>3
  <2>5. \A r \in Replies : reply[r] = NewReply /\ reply[r].at = "new" /\ reply[r].at \notin Asked
    BY <2>2 DEF NewReply, Asked
  <2>6. ChatType
    BY <2>2, <2>4, <2>5 DEF ChatType
  <2>7. \A v \in Convs : messages[v] = <<>> /\ Len(messages[v]) = 0
    BY <2>2
  <2>8. QED BY <2>5, <2>6, <2>7 DEF AnswerInv
<1>2. AnswerInv /\ [Next]_vars => AnswerInv'
  BY AnswerInvStep
<1>3. AnswerInv => AnswersFollowQuestions
  BY DEF AnswerInv, AnswersFollowQuestions, Asked
<1>4. QED BY <1>1, <1>2, <1>3, PTL DEF Spec
=============================================================================
