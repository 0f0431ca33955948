----------------------- MODULE PullMergeSafetyProofs -----------------------
(* What merges promise about pull requests, commits and approvals, for every *)
(* value of the constants: PullMerge implements PullLifecycle.               *)
EXTENDS PullMergeProofs

\* A step that is not Commit, Update or Create leaves the rows alone.
LEMMA RowsChange ==
    ASSUME Next
    PROVE  \/ pr' = pr
           \/ \E p \in Prs, q \in Requests, s \in {"draft", "open"} : Create(p, q, s)
           \/ \E p \in Prs : Update(p)
           \/ \E m \in Mergers : Commit(m)
BY DEF Next, UserNext, MergeNext, Step, Approve, DeleteUser, DeleteRule, CreateRule,
         UpdateRule, Push, MoveBranch, RequestMerge, Begin, LockPr, LockAuthor, CheckRules,
         Resolve, Write, MarkMerged, DeleteBranch, Cancel, Deadlock
-----------------------------------------------------------------------------
(* The life of a pull request *)

LEMMA LifecycleInit == Init => Lifecycle!LInit
BY NoRowFacts DEF Init, Lifecycle!LInit

LEMMA LifecycleStep ==
    PullInv /\ [Next]_vars => [Lifecycle!LNext]_(Lifecycle!lvars)
<1> DEFINE status == [p \in Prs |-> pr[p].status]
           target == [p \in Prs |-> pr[p].target]
<1>1. SUFFICES ASSUME PullInv, [Next]_vars
               PROVE  Lifecycle!LNext \/ (status' = status /\ target' = target)
  BY DEF Lifecycle!lvars
<1> USE DEF PullInv
<1>2. CASE pr' = pr
  BY <1>2
<1>3. ASSUME NEW p \in Prs, NEW q \in Requests, NEW s \in {"draft", "open"}, Create(p, q, s)
      PROVE  Lifecycle!LNext
  <2>1. q.target \in Names /\ pr[p].status = "none"
    BY <1>3, PullAssumption DEF Create, Request
  <2>2. /\ status' = [status EXCEPT ![p] = s]
        /\ target' = [target EXCEPT ![p] = q.target]
    BY <1>1, <1>3 DEF Create, TypeOK
  <2>3. status[p] = "none"
    BY <2>1
  <2>4. Lifecycle!Open(p)
    BY <2>1, <2>2, <2>3 DEF Lifecycle!Open
  <2>5. QED BY <2>4 DEF Lifecycle!LNext
<1>4. ASSUME NEW p \in Prs, Update(p)
      PROVE  Lifecycle!LNext
  <2>1. PICK s \in Statuses, n \in Names :
           pr' = [pr EXCEPT ![p].status = s, ![p].target = n]
    BY <1>4 DEF Update
  <2>2. pr[p] \in Row /\ pr[p].status \in Statuses
    BY <1>1, <1>4, NoRowFacts DEF Update, Changeable, TypeOK, Statuses
  <2>3. pr' = [pr EXCEPT ![p] = [pr[p] EXCEPT !.status = s, !.target = n]]
    BY <1>1, <2>1 DEF TypeOK
  <2>4. /\ [pr[p] EXCEPT !.status = s, !.target = n].status = s
        /\ [pr[p] EXCEPT !.status = s, !.target = n].target = n
    BY <2>2 DEF Row
  <2>5. /\ status' = [status EXCEPT ![p] = s]
        /\ target' = [target EXCEPT ![p] = n]
    BY <1>1, <2>3, <2>4 DEF TypeOK
  <2>6. Lifecycle!Change(p)
    BY <2>2, <2>5 DEF Lifecycle!Change, Statuses
  <2>7. QED BY <2>6 DEF Lifecycle!LNext
<1>5. ASSUME NEW m \in Mergers, Commit(m)
      PROVE  Lifecycle!LNext
  <2>0. PICK p \in Prs : p = merger[m].pr
    BY <1>1, <1>5 DEF Commit, LockInv, HandlerOK
  <2>1. pr[p] \in Row /\ pr[p].status = "open"
    BY <1>1, <1>5, <2>0 DEF Commit, LockInv, HandlerOK, Holding, MyRow
  <2>2. pr' = [pr EXCEPT ![p] = [pr[p] EXCEPT !.status = "merged"]]
    BY <1>1, <1>5, <2>0 DEF Commit, TypeOK
  <2>3. /\ [pr[p] EXCEPT !.status = "merged"].status = "merged"
        /\ [pr[p] EXCEPT !.status = "merged"].target = pr[p].target
    BY <2>1 DEF Row
  <2>4. status' = [status EXCEPT ![p] = "merged"] /\ target' = target
    BY <1>1, <2>1, <2>2, <2>3 DEF TypeOK
  <2>5. Lifecycle!MarkMerged(p)
    BY <2>1, <2>4 DEF Lifecycle!MarkMerged
  <2>6. QED BY <2>5 DEF Lifecycle!LNext
<1>6. \/ pr' = pr
      \/ \E p \in Prs, q \in Requests, s \in {"draft", "open"} : Create(p, q, s)
      \/ \E p \in Prs : Update(p)
      \/ \E m \in Mergers : Commit(m)
  BY <1>1, RowsChange DEF vars
<1> HIDE DEF status, target
<1>7. QED BY <1>2, <1>3, <1>4, <1>5, <1>6

\* PullMerge implements PullLifecycle: every step of users and merges is a step
\* of the life of a pull request, or leaves status and target alone.
THEOREM ImplementsLifecycle == Spec => StatusFollowsLifecycle
BY PullInvariant, LifecycleInit, LifecycleStep, PTL
   DEF Spec, StatusFollowsLifecycle, Lifecycle!LifecycleSpec, Lifecycle!lvars
-----------------------------------------------------------------------------
(* Merged pull requests have a commit *)

\* Unused ids were made for nothing, and a handler past the write has made the
\* commit of its pull request.
CommitInv ==
    /\ \A c \in Unused : merges[c] = None
    /\ \A m \in Mergers : merger[m].pc \in {"update", "commit"} =>
          \E c \in Commits : merges[c] = merger[m].pr
    /\ MergedHasCommit

\* Commits are only added.
LEMMA CommitsStay ==
    ASSUME PullInv, CommitInv, [Next]_vars
    PROVE  /\ Unused' \subseteq Unused
           /\ \A c \in Unused' : merges'[c] = merges[c]
           /\ \A c \in Commits : merges[c] # None => merges'[c] = merges[c]
<1> USE DEF PullInv
<1>1. CASE history' = history /\ merges' = merges
  BY <1>1 DEF Unused
<1>2. ASSUME NEW r \in Repos, NEW n \in Names, Push(r, n)
      PROVE  /\ Unused' \subseteq Unused
             /\ merges' = merges
  <2>1. NewCommit \in Commits /\ history[NewCommit] = {}
    BY <1>2, SpareLeavesOne, NewCommitFacts DEF Push
  <2>2. \A c \in Commits : history'[c] = {} => history[c] = {}
    BY <1>2, <2>1 DEF Push, TypeOK
  <2>3. QED BY <1>2, <2>2 DEF Push, Unused
<1>3. ASSUME NEW m \in Mergers, Write(m)
      PROVE  /\ Unused' \subseteq Unused
             /\ \A c \in Unused' : merges'[c] = merges[c]
             /\ \A c \in Commits : merges[c] # None => merges'[c] = merges[c]
  <2>1. NewCommit \in Commits /\ history[NewCommit] = {}
    BY <1>3, NewCommitFacts DEF Write
  <2>2. NewCommit \in Unused /\ merges[NewCommit] = None
    BY <2>1 DEF Unused, CommitInv
  <2>3. history'[NewCommit] = NewHistory(m) /\ NewHistory(m) # {}
    BY <1>3, <2>1 DEF Write, NewHistory, TypeOK
  <2>4. \A c \in Commits : c # NewCommit => history'[c] = history[c] /\ merges'[c] = merges[c]
    BY <1>3 DEF Write, TypeOK
  <2>5. Unused' = {c \in Commits : history'[c] = {}}
    BY DEF Unused
  <2>6. \A c \in Unused' : c \in Commits /\ c # NewCommit /\ history[c] = {}
    BY <2>3, <2>4, <2>5
  <2>7. QED BY <2>2, <2>4, <2>6 DEF Unused
<1>4. CASE UserNext
  <2>1. \/ history' = history /\ merges' = merges
        \/ \E r \in Repos, n \in Names : Push(r, n)
    BY <1>4 DEF UserNext, Create, Update, Approve, DeleteUser, DeleteRule, CreateRule,
                UpdateRule, MoveBranch
  <2>2. QED BY <1>1, <1>2, <2>1
<1>5. ASSUME NEW m \in Mergers, MergeNext(m), ~Write(m)
      PROVE  history' = history /\ merges' = merges
  BY <1>5 DEF MergeNext, Step, RequestMerge, Begin, LockPr, LockAuthor, CheckRules, Resolve,
              MarkMerged, Commit, DeleteBranch, Cancel, Deadlock
<1>6. QED BY <1>1, <1>3, <1>4, <1>5 DEF Next, vars

\* A handler gets past the write by writing, and stays there by marking.
LEMMA PastWrite ==
    ASSUME PullInv, Next, NEW n \in Mergers, merger'[n].pc \in {"update", "commit"}
    PROVE  /\ merger'[n].pr = merger[n].pr /\ merger[n].pr \in Prs
           /\ merger[n].pc \in {"update", "commit"} \/ Write(n)
<1> USE DEF PullInv
<1>1. merger[n] \in Merger /\ HandlerOK(n)
  BY DEF TypeOK, LockInv
<1>2. ASSUME NEW m \in Mergers, MergeNext(m), m # n
      PROVE  merger'[n] = merger[n]
  BY <1>2 DEF MergeNext, Step, RequestMerge, Begin, LockPr, LockAuthor, CheckRules, Resolve,
         Write, MarkMerged, Commit, DeleteBranch, Cancel, Deadlock, Goto, Fail, TypeOK
<1>3. CASE UserNext
  <2>1. merger' = merger
    BY <1>3 DEF UserNext, Create, Update, Approve, DeleteUser, DeleteRule, CreateRule,
         UpdateRule, Push, MoveBranch
  <2>2. QED BY <1>1, <2>1 DEF HandlerOK
<1>4. CASE MergeNext(n)
  <2>1. CASE Write(n) \/ MarkMerged(n)
    <3>1. /\ merger[n].pc \in {"write", "update"}
          /\ MarkMerged(n) => merger[n].pc = "update"
          /\ merger'[n].pr = merger[n].pr
      BY <1>1, <2>1 DEF Write, MarkMerged, Goto, TypeOK, Merger
    <3>2. QED BY <1>1, <2>1, <3>1 DEF HandlerOK
  <2>2. CASE \/ Fail(n) \/ DeleteBranch(n)
    BY <2>2 DEF Fail, DeleteBranch, TypeOK, IdleMerger
  <2>3. ASSUME NEW p \in Prs, RequestMerge(n, p) PROVE FALSE
    BY <2>3 DEF RequestMerge, TypeOK, IdleMerger
  <2>4. CASE Begin(n) \/ LockPr(n)
    BY <1>1, <2>4 DEF Begin, LockPr, Goto, TypeOK, Merger
  <2>5. CASE (LockAuthor(n) \/ CheckRules(n) \/ Resolve(n)) /\ ~Fail(n)
    BY <1>1, <2>5 DEF LockAuthor, CheckRules, Resolve, TypeOK, Merger
  <2>6. CASE Commit(n)
    BY <1>1, <2>6 DEF Commit, TypeOK, Merger, IdleMerger
  <2>7. QED
    BY <1>4, <2>1, <2>2, <2>3, <2>4, <2>5, <2>6 DEF MergeNext, Step, Cancel, Deadlock
<1>5. QED BY <1>1, <1>2, <1>3, <1>4 DEF Next, HandlerOK

LEMMA CommitInvInit == Init => CommitInv
<1>1. SUFFICES ASSUME Init PROVE CommitInv
  OBVIOUS
<1>2. \A m \in Mergers : merger[m].pc = "idle"
  BY <1>1 DEF Init, IdleMerger
<1>3. \A p \in Prs : pr[p].status = "none"
  BY <1>1, NoRowFacts DEF Init
<1>4. \A c \in Commits : merges[c] = None
  BY <1>1 DEF Init
<1>5. QED BY <1>2, <1>3, <1>4 DEF CommitInv, Unused, MergedHasCommit

LEMMA CommitInvStep == PullInv /\ CommitInv /\ [Next]_vars => CommitInv'
<1>1. SUFFICES ASSUME PullInv, CommitInv, [Next]_vars PROVE CommitInv'
  OBVIOUS
<1> USE DEF PullInv
<1>2. \A c \in Unused' : merges'[c] = None
  BY <1>1, CommitsStay DEF CommitInv
<1>3. ASSUME NEW p \in Prs, \E c \in Commits : merges[c] = p
      PROVE  \E c \in Commits : merges'[c] = p
  BY <1>1, <1>3, CommitsStay, PullAssumption
<1>4. ASSUME NEW n \in Mergers, merger'[n].pc \in {"update", "commit"}
      PROVE  \E c \in Commits : merges'[c] = merger'[n].pr
  <2>1. CASE UNCHANGED vars
    BY <1>1, <1>4, <2>1 DEF CommitInv, vars
  <2>2. CASE Next /\ Write(n)
    <3>1. merger'[n].pr = merger[n].pr
      BY <1>1, <1>4, <2>2, PastWrite
    <3>2. NewCommit \in Commits
      BY <1>1, <2>2, NewCommitFacts DEF Write
    <3>3. merges'[NewCommit] = merger[n].pr
      BY <1>1, <2>2, <3>2 DEF Write, TypeOK
    <3>4. QED BY <3>1, <3>2, <3>3
  <2>3. CASE Next /\ ~Write(n)
    <3>1. /\ merger'[n].pr = merger[n].pr /\ merger[n].pr \in Prs
          /\ merger[n].pc \in {"update", "commit"}
      BY <1>1, <1>4, <2>3, PastWrite
    <3>2. \E c \in Commits : merges[c] = merger[n].pr
      BY <1>1, <3>1 DEF CommitInv
    <3>3. QED BY <1>3, <3>1, <3>2
  <2>4. QED BY <1>1, <2>1, <2>2, <2>3
<1>5. ASSUME NEW p \in Prs, pr'[p].status = "merged"
      PROVE  \E c \in Commits : merges'[c] = p
  <2>1. CASE pr'[p] = pr[p]
    BY <1>1, <1>3, <1>5, <2>1 DEF CommitInv, MergedHasCommit
  <2>2. ASSUME NEW o \in Prs, NEW q \in Requests, NEW s \in {"draft", "open"}, Create(o, q, s)
        PROVE  pr'[p] = pr[p]
    BY <1>1, <1>5, <2>2 DEF Create, TypeOK
  <2>3. ASSUME NEW o \in Prs, Update(o)
        PROVE  pr'[p] = pr[p]
    <3>1. PICK s \in Statuses, n \in Names :
             pr' = [pr EXCEPT ![o].status = s, ![o].target = n]
      BY <2>3 DEF Update
    <3>2. pr[o] \in Row
      BY <1>1, <2>3, NoRowFacts DEF Update, Changeable, TypeOK, Statuses
    <3>3. pr' = [pr EXCEPT ![o] = [pr[o] EXCEPT !.status = s, !.target = n]]
      BY <1>1, <3>1 DEF TypeOK
    <3>4. [pr[o] EXCEPT !.status = s, !.target = n].status = s
      BY <3>2 DEF Row
    <3>5. QED BY <1>1, <1>5, <3>3, <3>4 DEF TypeOK, Statuses
  <2>4. ASSUME NEW m \in Mergers, Commit(m), p = merger[m].pr
        PROVE  \E c \in Commits : merges'[c] = p
    <3>1. \E c \in Commits : merges[c] = p
      BY <1>1, <2>4 DEF Commit, CommitInv
    <3>2. QED BY <1>3, <3>1
  <2>5. ASSUME NEW m \in Mergers, Commit(m), p # merger[m].pr
        PROVE  pr'[p] = pr[p]
    BY <1>1, <2>5 DEF Commit, TypeOK
  <2>6. \/ pr' = pr
        \/ \E o \in Prs, q \in Requests, s \in {"draft", "open"} : Create(o, q, s)
        \/ \E o \in Prs : Update(o)
        \/ \E m \in Mergers : Commit(m)
    BY <1>1, RowsChange DEF vars
  <2>7. QED BY <2>1, <2>2, <2>3, <2>4, <2>5, <2>6
<1>6. QED BY <1>2, <1>4, <1>5 DEF CommitInv, MergedHasCommit

\* No pull request is recorded as merged unless a commit was made for it: the
\* database is never ahead of git.
THEOREM MergedHaveCommits == Spec => []MergedHasCommit
<1>1. CommitInv => MergedHasCommit
  BY DEF CommitInv
<1>2. QED BY <1>1, PullInvariant, CommitInvInit, CommitInvStep, PTL DEF Spec
-----------------------------------------------------------------------------
(* Landed merges are allowed *)

\* Authors do not approve, nobody approves what does not exist, and a handler
\* past the check has counted the approvals its rule demands, of others than the
\* author, who still approve or are deleted.
ApprovalInv ==
    /\ \A p \in Prs : /\ pr[p].author \notin approvals[p]
                      /\ pr[p] = NoRow => approvals[p] = {}
    /\ \A m \in Mergers :
          merger[m].pc \in {"resolve", "write"} /\ merger[m].rule # None =>
              /\ Cardinality(merger[m].counted) >= merger[m].rule.required
              /\ MyRow(m).author \notin merger[m].counted
              /\ merger[m].counted \cap users \subseteq approvals[merger[m].pr]

\* Approvals are added by their users, and go with them only; deleted users do
\* not come back.
LEMMA ApprovalsStand ==
    ASSUME PullInv, [Next]_vars, NEW p \in Prs
    PROVE  /\ users' \subseteq users
           /\ approvals[p] \cap users' \subseteq approvals'[p]
           /\ \/ approvals'[p] \subseteq approvals[p]
              \/ \E u \in Users : Approve(p, u) /\ approvals'[p] = approvals[p] \cup {u}
<1> USE DEF PullInv
<1>1. CASE approvals' = approvals /\ users' = users
  BY <1>1
<1>2. ASSUME NEW o \in Prs, NEW u \in Users, Approve(o, u)
      PROVE  /\ users' = users
             /\ approvals'[p] = IF o = p THEN approvals[p] \cup {u} ELSE approvals[p]
  BY <1>2 DEF Approve, TypeOK
<1>3. ASSUME NEW u \in Users, DeleteUser(u)
      PROVE  users' = users \ {u} /\ approvals'[p] = approvals[p] \ {u}
  BY <1>3 DEF DeleteUser
<1>4. CASE UserNext
  <2>1. \/ approvals' = approvals /\ users' = users
        \/ \E o \in Prs, u \in Users : Approve(o, u)
        \/ \E u \in Users : DeleteUser(u)
    BY <1>4 DEF UserNext, Create, Update, DeleteRule, Push, MoveBranch, CreateRule, UpdateRule
  <2>2. QED BY <1>1, <1>2, <1>3, <2>1
<1>5. ASSUME NEW m \in Mergers, MergeNext(m)
      PROVE  approvals' = approvals /\ users' = users
  BY <1>5 DEF MergeNext, Step, RequestMerge, Begin, LockPr, LockAuthor, CheckRules, Resolve,
              Write, MarkMerged, Commit, DeleteBranch, Cancel, Deadlock
<1>6. QED BY <1>1, <1>4, <1>5 DEF Next, vars

\* Rows keep their authors; what is not created has no author.
LEMMA AuthorsStay ==
    ASSUME PullInv, [Next]_vars, NEW p \in Prs
    PROVE  \/ pr'[p].author = pr[p].author /\ (pr'[p] = NoRow <=> pr[p] = NoRow)
           \/ /\ pr[p] = NoRow /\ pr'[p] # NoRow
              /\ approvals' = approvals
<1> USE DEF PullInv
<1>1. CASE pr'[p] = pr[p]
  BY <1>1
<1>2. ASSUME NEW o \in Prs, NEW q \in Requests, NEW s \in {"draft", "open"}, Create(o, q, s)
      PROVE  \/ pr'[p] = pr[p]
             \/ pr[p] = NoRow /\ pr'[p] # NoRow /\ approvals' = approvals
  <2>1. CASE o # p
    BY <1>2, <2>1 DEF Create, TypeOK
  <2>2. CASE o = p
    <3>1. pr[p] = NoRow
      BY <1>2, <2>2, NoRowFacts DEF Create, TypeOK
    <3>2. pr'[p].status = s
      BY <1>2, <2>2 DEF Create, TypeOK
    <3>3. QED BY <1>2, <3>1, <3>2, NoRowFacts DEF Create
  <2>3. QED BY <2>1, <2>2
<1>3. ASSUME NEW o \in Prs, pr[o] \in Row,
             \/ \E s \in Statuses, n \in Names :
                   pr' = [pr EXCEPT ![o].status = s, ![o].target = n]
             \/ pr' = [pr EXCEPT ![o].status = "merged"]
      PROVE  pr'[p].author = pr[p].author /\ (pr'[p] = NoRow <=> pr[p] = NoRow)
  <2>1. CASE o # p
    BY <1>3, <2>1 DEF TypeOK
  <2>2. CASE o = p
    <3>0. PICK s \in Statuses \cup {"merged"}, n \in Names :
             pr'[p] = [pr[p] EXCEPT !.status = s, !.target = n]
      <4>1. CASE pr' = [pr EXCEPT ![o].status = "merged"]
        <5>1. pr'[p] = [pr[p] EXCEPT !.status = "merged"]
          BY <2>2, <4>1 DEF TypeOK
        <5>2. [pr[p] EXCEPT !.status = "merged"]
                 = [pr[p] EXCEPT !.status = "merged", !.target = pr[p].target]
          BY <1>3, <2>2 DEF Row
        <5>3. pr[p].target \in Names
          BY <1>3, <2>2 DEF Row
        <5>4. QED BY <5>1, <5>2, <5>3
      <4>2. CASE \E s \in Statuses, n \in Names :
                   pr' = [pr EXCEPT ![o].status = s, ![o].target = n]
        <5>1. PICK s \in Statuses, n \in Names :
                 pr' = [pr EXCEPT ![o].status = s, ![o].target = n]
          BY <4>2
        <5>2. pr'[p] = [pr[p] EXCEPT !.status = s, !.target = n]
          BY <2>2, <5>1 DEF TypeOK
        <5>3. QED BY <5>2
      <4>3. QED BY <1>3, <4>1, <4>2
    <3>1. pr'[p] \in Row /\ pr'[p].author = pr[p].author
      BY <1>3, <2>2, <3>0 DEF Row
    <3>2. NoRow \notin Row
      BY NoRowFacts
    <3>3. QED BY <1>3, <2>2, <3>1, <3>2
  <2>3. QED BY <2>1, <2>2
<1>4. ASSUME NEW o \in Prs, Update(o)
      PROVE  pr[o] \in Row
  BY <1>4, NoRowFacts DEF Update, Changeable, TypeOK, Statuses
<1>5. ASSUME NEW m \in Mergers, Commit(m)
      PROVE  merger[m].pr \in Prs /\ pr[merger[m].pr] \in Row
  BY <1>5 DEF Commit, LockInv, HandlerOK, MyRow
<1>6. \/ pr' = pr
      \/ \E o \in Prs, q \in Requests, s \in {"draft", "open"} : Create(o, q, s)
      \/ \E o \in Prs : Update(o)
      \/ \E m \in Mergers : Commit(m)
  BY RowsChange DEF vars
<1>7. QED
  <2>1. ASSUME NEW o \in Prs, Update(o)
        PROVE  pr'[p].author = pr[p].author /\ (pr'[p] = NoRow <=> pr[p] = NoRow)
    BY <1>3, <1>4, <2>1 DEF Update
  <2>2. ASSUME NEW m \in Mergers, Commit(m)
        PROVE  pr'[p].author = pr[p].author /\ (pr'[p] = NoRow <=> pr[p] = NoRow)
    BY <1>3, <1>5, <2>2 DEF Commit
  <2>3. QED BY <1>1, <1>2, <1>6, <2>1, <2>2

LEMMA ApprovalInvInit == Init => ApprovalInv
<1>1. SUFFICES ASSUME Init PROVE ApprovalInv
  OBVIOUS
<1>2. \A p \in Prs : approvals[p] = {}
  BY <1>1 DEF Init
<1>3. \A m \in Mergers : merger[m].pc = "idle"
  BY <1>1 DEF Init, IdleMerger
<1>4. QED BY <1>2, <1>3 DEF ApprovalInv

\* A handler gets past the check by checking, and keeps what it has read and
\* counted.
LEMMA PastCheck ==
    ASSUME PullInv, Next, NEW n \in Mergers, merger'[n].pc \in {"resolve", "write"}
    PROVE  \/ /\ merger[n].pc \in {"resolve", "write"}
              /\ merger'[n].pr = merger[n].pr /\ merger'[n].rule = merger[n].rule
              /\ merger'[n].counted = merger[n].counted
           \/ /\ CheckRules(n)
              /\ merger'[n].pr = merger[n].pr
              /\ Allowed(n, merger'[n].rule)
              /\ merger'[n].rule # None => merger'[n].counted = approvals[merger[n].pr]
<1> USE DEF PullInv
<1>1. merger[n] \in Merger
  BY DEF TypeOK
<1>2. ASSUME NEW m \in Mergers, MergeNext(m), m # n
      PROVE  merger'[n] = merger[n]
  BY <1>2 DEF MergeNext, Step, RequestMerge, Begin, LockPr, LockAuthor, CheckRules, Resolve,
         Write, MarkMerged, Commit, DeleteBranch, Cancel, Deadlock, Goto, Fail, TypeOK
<1>3. CASE UserNext
  <2>1. merger' = merger
    BY <1>3 DEF UserNext, Create, Update, Approve, DeleteUser, DeleteRule, CreateRule,
         UpdateRule, Push, MoveBranch
  <2>2. QED BY <2>1
<1>4. CASE MergeNext(n)
  <2>1. CASE CheckRules(n) /\ ~Fail(n)
    BY <1>1, <2>1 DEF CheckRules, TypeOK, Merger
  <2>2. CASE Resolve(n) /\ ~Fail(n)
    BY <1>1, <2>2 DEF Resolve, TypeOK, Merger
  <2>3. CASE Fail(n) \/ DeleteBranch(n)
    BY <2>3 DEF Fail, DeleteBranch, TypeOK, IdleMerger
  <2>4. ASSUME NEW p \in Prs, RequestMerge(n, p) PROVE FALSE
    BY <2>4 DEF RequestMerge, TypeOK, IdleMerger
  <2>5. CASE Begin(n) \/ LockPr(n) \/ Write(n) \/ MarkMerged(n)
    BY <1>1, <2>5 DEF Begin, LockPr, Write, MarkMerged, Goto, TypeOK, Merger
  <2>6. CASE LockAuthor(n) /\ ~Fail(n)
    BY <1>1, <2>6 DEF LockAuthor, TypeOK, Merger
  <2>7. CASE Commit(n)
    BY <1>1, <2>7 DEF Commit, TypeOK, Merger, IdleMerger
  <2>8. QED
    BY <1>4, <2>1, <2>2, <2>3, <2>4, <2>5, <2>6, <2>7
       DEF MergeNext, Step, Cancel, Deadlock
<1>5. QED BY <1>2, <1>3, <1>4 DEF Next

LEMMA ApprovalInvStep == PullInv /\ ApprovalInv /\ [Next]_vars => ApprovalInv'
<1>1. SUFFICES ASSUME PullInv, ApprovalInv, [Next]_vars PROVE ApprovalInv'
  OBVIOUS
<1> USE DEF PullInv
<1>2. TypeOK'
  BY <1>1, InvStep
<1>3. ASSUME NEW p \in Prs
      PROVE  /\ pr'[p].author \notin approvals'[p]
             /\ pr'[p] = NoRow => approvals'[p] = {}
  <2>1. CASE approvals'[p] \subseteq approvals[p]
    BY <1>1, <2>1, AuthorsStay DEF ApprovalInv
  <2>2. ASSUME NEW u \in Users, Approve(p, u)
        PROVE  /\ pr'[p].author \notin approvals'[p]
               /\ pr'[p] # NoRow
    BY <1>1, <2>2, NoRowFacts DEF Approve, TypeOK, ApprovalInv
  <2>3. QED BY <1>1, <2>1, <2>2, ApprovalsStand
<1>4. ASSUME NEW n \in Mergers, merger'[n].pc \in {"resolve", "write"}, merger'[n].rule # None
      PROVE  /\ Cardinality(merger'[n].counted) >= merger'[n].rule.required
             /\ pr'[merger'[n].pr].author \notin merger'[n].counted
             /\ merger'[n].counted \cap users' \subseteq approvals'[merger'[n].pr]
  <2>1. PICK p \in Prs : /\ p = merger'[n].pr /\ pr[p] \in Row
                         /\ Cardinality(merger'[n].counted) >= merger'[n].rule.required
                         /\ pr[p].author \notin merger'[n].counted
                         /\ merger'[n].counted \cap users \subseteq approvals[p]
    <3>1. CASE UNCHANGED vars
      BY <1>1, <1>4, <3>1 DEF vars, ApprovalInv, LockInv, HandlerOK, MyRow
    <3>2. CASE Next
      <4>1. merger[n].pc \in {"check", "resolve", "write"} /\ merger'[n].pr = merger[n].pr
        BY <1>1, <1>4, <3>2, PastCheck DEF CheckRules
      <4>2. merger[n].pr \in Prs /\ pr[merger[n].pr] \in Row
        BY <1>1, <4>1 DEF LockInv, HandlerOK, MyRow
      <4>3. CASE CheckRules(n) /\ Allowed(n, merger'[n].rule)
                   /\ merger'[n].counted = approvals[merger[n].pr]
        BY <1>1, <1>4, <4>1, <4>2, <4>3 DEF ApprovalInv, Allowed
      <4>4. CASE /\ merger[n].pc \in {"resolve", "write"}
                 /\ merger'[n].rule = merger[n].rule
                 /\ merger'[n].counted = merger[n].counted
        BY <1>1, <1>4, <4>1, <4>2, <4>4 DEF ApprovalInv, MyRow
      <4>5. QED BY <1>1, <1>4, <3>2, <4>3, <4>4, PastCheck
    <3>3. QED BY <1>1, <3>1, <3>2
  <2>2. pr[p] # NoRow
    BY <2>1, NoRowFacts
  <2>3. pr'[p].author = pr[p].author
    BY <1>1, <2>2, AuthorsStay
  <2>4. merger'[n].counted \cap users' \subseteq approvals'[p]
    BY <1>1, <2>1, ApprovalsStand
  <2>5. QED BY <2>1, <2>3, <2>4
<1>5. QED BY <1>3, <1>4 DEF ApprovalInv, MyRow

\* Only Write leaves "write".
LEMMA LeavesWrite ==
    ASSUME PullInv, Next, NEW m \in Mergers, merger[m].pc = "write", merger'[m].pc # "write"
    PROVE  Write(m)
<1> USE DEF PullInv
<1>1. ASSUME NEW n \in Mergers, MergeNext(n), n # m
      PROVE  merger'[m] = merger[m]
  BY <1>1 DEF MergeNext, Step, RequestMerge, Begin, LockPr, LockAuthor, CheckRules, Resolve,
         Write, MarkMerged, Commit, DeleteBranch, Cancel, Deadlock, Goto, Fail, TypeOK
<1>2. ~UserNext
  BY DEF UserNext, Create, Update, Approve, DeleteUser, DeleteRule, CreateRule,
         UpdateRule, Push, MoveBranch
<1>3. ~Deadlock(m)
  <2>1. Blocker(m) = None
    BY DEF Blocker
  <2>2. QED BY <2>1, PullAssumption DEF Deadlock
<1>4. MergeNext(m) => Write(m)
  BY <1>3 DEF MergeNext, Step, RequestMerge, Begin, LockPr, LockAuthor, CheckRules, Resolve,
         MarkMerged, Commit, DeleteBranch, Cancel
<1>5. QED BY <1>1, <1>2, <1>4 DEF Next

\* A commit made for a pull request is made while the pull request is open, on
\* its present target, after as many approvals of others were counted as the rule
\* demands, all of which still stand then unless their users were deleted.
THEOREM LandingsAreAllowed == Spec => LandedMergesAreAllowed
<1> DEFINE Landing(m) ==
             merger[m].pc = "write" /\ merger'[m].pc # "write" =>
                LET p == merger[m].pr
                    c == tip'[pr[p].repo][pr[p].target]
                IN /\ pr[p].status = "open"
                   /\ c \in Unused /\ merges'[c] = p
                   /\ merger[m].rule # None =>
                         /\ Cardinality(merger[m].counted) >= merger[m].rule.required
                         /\ pr[p].author \notin merger[m].counted
                         /\ merger[m].counted \cap users \subseteq approvals[p]
<1>1. ASSUME PullInv, ApprovalInv, [Next]_vars, NEW m \in Mergers
      PROVE  Landing(m)
  <2>1. SUFFICES ASSUME merger[m].pc = "write", merger'[m].pc # "write"
                 PROVE  Landing(m)
    OBVIOUS
  <2>2. Write(m)
    BY <1>1, <2>1, LeavesWrite DEF vars
  <2>3. PICK p \in Prs : p = merger[m].pr
    BY <1>1, <2>1 DEF PullInv, LockInv, HandlerOK
  <2>4. /\ pr[p] \in Row /\ pr[p].status = "open" /\ pr[p].target = merger[m].target
    BY <1>1, <2>1, <2>3 DEF PullInv, LockInv, HandlerOK, Holding, MyRow
  <2>5. NewCommit \in Commits /\ NewCommit \in Unused
    BY <1>1, <2>2, NewCommitFacts DEF PullInv, Write, Unused
  <2>6. tip'[pr[p].repo][pr[p].target] = NewCommit
    BY <1>1, <2>2, <2>3, <2>4 DEF Write, PullInv, TypeOK, MyRow, Row
  <2>7. merges'[NewCommit] = p
    BY <1>1, <2>2, <2>3, <2>5 DEF Write, PullInv, TypeOK
  <2>8. merger[m].rule # None =>
           /\ Cardinality(merger[m].counted) >= merger[m].rule.required
           /\ pr[p].author \notin merger[m].counted
           /\ merger[m].counted \cap users \subseteq approvals[p]
    BY <1>1, <2>1, <2>3 DEF ApprovalInv, MyRow
  <2>9. QED BY <2>3, <2>4, <2>5, <2>6, <2>7, <2>8
<1>2. PullInv /\ ApprovalInv /\ [Next]_vars => [\A m \in Mergers : Landing(m)]_vars
  BY <1>1
<1>3. QED
  BY <1>2, PullInvariant, ApprovalInvInit, ApprovalInvStep, PTL
     DEF Spec, LandedMergesAreAllowed
=============================================================================
