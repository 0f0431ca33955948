----------------------------- MODULE PullMerge -----------------------------
(***************************************************************************)
(* Merging pull requests: the rows of pull_requests, reviews (approvals)   *)
(* and branch_protection_rules, the branches of the git repositories, and  *)
(* the handlers that run pull.Service.Merge.  A merge is a database        *)
(* transaction that locks rows, looks up the protection rule on a second   *)
(* connection of the pool, writes a branch of the git repository (which no *)
(* transaction covers), marks the pull request and commits.  Meanwhile     *)
(* users update and review pull requests, change rules and push.           *)
(*                                                                         *)
(* PostgreSQL and git are modelled from how the code uses them: row locks  *)
(* (FOR UPDATE, and the FOR KEY SHARE of a foreign key check), deadlock    *)
(* detection, rollback, and a receive-pack that moves branches.            *)
(***************************************************************************)
EXTENDS Integers, FiniteSets

CONSTANTS
    Prs,        \* pull request ids
    Users,
    Repos,
    Names,      \* branch names
    Patterns,   \* branch patterns of rules, numbered in their sorting order
    Commits,    \* bound: commit ids
    Mergers,    \* bound: merge handlers at once
    None,
    Root,       \* the commit every branch starts from
    Owner,      \* repository -> the user who owns it
    Matches,    \* pattern -> the branch names it matches
    Requests,   \* bodies of the create requests, with their authors
    Bodies,     \* bodies of the merge requests
    Rules,      \* bodies of the protection requests
    PoolSize,   \* connections of the database pool
    MaxEdits    \* bound: updates, rule changes and pushes

Strategies == {"merge", "squash", "rebase"}
Statuses   == {"draft", "open", "closed"}  \* those a user can ask for

Rule == [required : Nat, linear : BOOLEAN]

Body == [strategy : Strategies, delete : BOOLEAN]

Request == [repo : Repos, author : Users, source : Names, target : Names]

ASSUME PullAssumption ==
    /\ None \notin Prs \cup Users \cup Repos \cup Names \cup Commits \cup Mergers
    /\ None \notin Rules
    /\ Prs \cap Users = {}
    /\ Root \in Commits
    /\ IsFiniteSet(Commits) /\ IsFiniteSet(Mergers)
    /\ Owner \in [Repos -> Users]
    /\ Patterns \subseteq Nat
    /\ Matches \in [Patterns -> SUBSET Names]
    /\ Requests \subseteq Request
    /\ Bodies \subseteq Body
    /\ Rules \subseteq Rule
    /\ PoolSize \in Nat \ {0}
    /\ MaxEdits \in Nat

VARIABLES
    pr,        \* the pull_requests rows
    users,     \* the users rows
    approvals, \* whose approvals of a pull request the reviews rows hold
    rules,     \* the branch_protection_rules rows
    tip,       \* the commit of each branch, None for a deleted one
    history,   \* the commits reachable from a commit, {} for an unused id
    merges,    \* the pull request a commit was made for
    lock,      \* the transaction that has a row FOR UPDATE
    merger,    \* the merge handlers
    edits

vars == <<pr, users, approvals, rules, tip, history, merges, lock, merger, edits>>
-----------------------------------------------------------------------------
NoRow == [status |-> "none", repo |-> None, author |-> None,
          source |-> None, target |-> None]

Row == [status : Statuses \cup {"merged"}, repo : Repos, author : Users,
        source : Names, target : Names]

\* Where a handler is: about to begin the transaction; executing the locking
\* SELECT, which locks the pull request's row and then its author's; to check
\* the rules; to resolve the branches; to set the target branch; to execute the
\* UPDATE; to commit; to delete the source branch.
Pcs == {"idle", "begin", "lock", "author", "check", "resolve", "write",
        "update", "commit", "delete"}

Merger == [pc : Pcs, pr : Prs \cup {None}, strategy : Strategies,
           delete : BOOLEAN, target : Names \cup {None},
           rule : Rules \cup {None},
           counted : SUBSET Users,  \* the reviewers whose approvals it counted
           base : Commits \cup {None}, head : Commits \cup {None}]

IdleMerger == [pc |-> "idle", pr |-> None, strategy |-> "merge",
               delete |-> FALSE, target |-> None, rule |-> None,
               counted |-> {}, base |-> None, head |-> None]

Init ==
    /\ pr = [p \in Prs |-> NoRow]
    /\ users = Users
    /\ approvals = [p \in Prs |-> {}]
    /\ rules = [r \in Repos |-> [i \in Patterns |-> None]]
    /\ tip = [r \in Repos |-> [n \in Names |-> Root]]
    /\ history = [c \in Commits |-> IF c = Root THEN {Root} ELSE {}]
    /\ merges = [c \in Commits |-> None]
    /\ lock = [x \in Prs \cup Users |-> None]
    /\ merger = [m \in Mergers |-> IdleMerger]
    /\ edits = 0
-----------------------------------------------------------------------------
(* Helpers *)

Unused == {c \in Commits : history[c] = {}}

\* Bound: a commit id is left for every handler that may still need one.
Spare == Cardinality(Unused) > Cardinality({m \in Mergers : merger[m].pc # "idle"})

NewCommit == CHOOSE c \in Unused : TRUE

\* The row of the pull request the handler works on.
MyRow(m) == pr[merger[m].pr]

\* Handlers that have a connection of the pool for their transaction.
InTx == {m \in Mergers :
            merger[m].pc \in {"lock", "author", "check", "resolve", "write", "update", "commit"}}

ConnectionFree == Cardinality(InTx) < PoolSize

\* The UPDATE checks its foreign key merged_by, which leaves a shared lock on
\* the row of the merging user until the commit.
Sharing(u) == {m \in Mergers : merger[m].pc = "commit" /\ Owner[MyRow(m).repo] = u}

\* protection.Service.Check: the first rule, in the order of the patterns, that
\* matches.
Matching(r, n) == {i \in Patterns : rules[r][i] # None /\ n \in Matches[i]}

Check(r, n) ==
    IF Matching(r, n) = {} THEN None
    ELSE rules[r][CHOOSE i \in Matching(r, n) : \A j \in Matching(r, n) : i <= j]

Goto(m, pc) == merger' = [merger EXCEPT ![m].pc = pc]

\* Mutant of Released: no deferred Rollback.
ReleasedNever(m) == lock

\* The locks that are left when the handler's transaction ends.
Released(m) == [x \in DOMAIN lock |-> IF lock[x] = m THEN None ELSE lock[x]]

\* An error return; the deferred Rollback ends the transaction.
Fail(m) ==
    /\ merger' = [merger EXCEPT ![m] = IdleMerger]
    /\ lock' = Released(m)

Edit == edits < MaxEdits /\ edits' = edits + 1
-----------------------------------------------------------------------------
(* Requests of users *)

\* POST .../pulls: the branches differ and exist; the insert waits for the
\* author's row.
Create(p, q, status) ==
    /\ pr[p].status = "none"
    /\ q.author \in users
    /\ q.source # q.target
    /\ None \notin {tip[q.repo][q.source], tip[q.repo][q.target]}
    /\ lock[q.author] = None
    /\ ConnectionFree
    /\ pr' = [pr EXCEPT ![p] = [status |-> status, repo |-> q.repo, author |-> q.author,
                                source |-> q.source, target |-> q.target]]
    /\ UNCHANGED <<approvals, users, rules, tip, history, merges, lock, merger, edits>>

\* Mutant of Changeable: merged rows too.
ChangeableAlways(p) == pr[p].status # "none" /\ lock[p] = None

\* WHERE ... status NOT IN ('merged'), once nobody has the row locked.
Changeable(p) == pr[p].status \in Statuses /\ lock[p] = None

\* Mutant of Update: a request without a target clears it.
UpdateClearing(p) ==
    /\ Edit
    /\ Changeable(p)
    /\ ConnectionFree
    /\ \E s \in Statuses, n \in Names \cup {None} :
          pr' = [pr EXCEPT ![p].status = s, ![p].target = n]
    /\ UNCHANGED <<approvals, users, rules, tip, history, merges, lock, merger>>

\* PATCH .../pulls/{number}: a new status, a new target or both; the target is
\* neither compared with the source nor looked up.
Update(p) ==
    /\ Edit
    /\ Changeable(p)
    /\ ConnectionFree
    /\ \E s \in Statuses, n \in Names :
          pr' = [pr EXCEPT ![p].status = s, ![p].target = n]
    /\ UNCHANGED <<approvals, users, rules, tip, history, merges, lock, merger>>

\* An approving review, of a pull request in any status; the insert waits for
\* the rows it references.
Approve(p, u) ==
    /\ pr[p].status # "none"
    /\ u \in users
    /\ u # pr[p].author
    /\ lock[p] = None /\ lock[u] = None
    /\ ConnectionFree
    /\ approvals' = [approvals EXCEPT ![p] = @ \cup {u}]
    /\ UNCHANGED <<pr, rules, tip, history, merges, lock, merger, edits, users>>

\* An administrator deletes a user who owns no repository and wrote no pull
\* request, so whose row no merge has locked: the reviews go with it, also those
\* a merge has counted.
DeleteUser(u) ==
    /\ u \in users
    /\ \A r \in Repos : Owner[r] # u
    /\ \A p \in Prs : pr[p].author # u
    /\ ConnectionFree
    /\ users' = users \ {u}
    /\ approvals' = [p \in Prs |-> approvals[p] \ {u}]
    /\ UNCHANGED <<pr, rules, tip, history, merges, lock, merger, edits>>

\* Patterns are unique in a repository.
CreateRule(r, i, rule) ==
    /\ Edit
    /\ rules[r][i] = None
    /\ ConnectionFree
    /\ rules' = [rules EXCEPT ![r][i] = rule]
    /\ UNCHANGED <<pr, approvals, users, tip, history, merges, lock, merger>>

UpdateRule(r, i, rule) ==
    /\ Edit
    /\ rules[r][i] # None
    /\ ConnectionFree
    /\ rules' = [rules EXCEPT ![r][i] = rule]
    /\ UNCHANGED <<pr, approvals, users, tip, history, merges, lock, merger>>

DeleteRule(r, i) ==
    /\ Edit
    /\ rules[r][i] # None
    /\ ConnectionFree
    /\ rules' = [rules EXCEPT ![r][i] = None]
    /\ UNCHANGED <<pr, approvals, users, tip, history, merges, lock, merger>>

\* A push of one commit on top of a branch.  Whether a rule matches does not
\* matter: only pushes over HTTP are checked, and let through when the check
\* fails; those over SSH are not.
Push(r, n) ==
    /\ Edit
    /\ Spare
    /\ tip[r][n] # None
    /\ history' = [history EXCEPT ![NewCommit] = history[tip[r][n]] \cup {NewCommit}]
    /\ tip' = [tip EXCEPT ![r][n] = NewCommit]
    /\ UNCHANGED <<pr, approvals, users, rules, merges, lock, merger>>

\* The commits the branches of a repository contain.
Reachable(r) ==
    {c \in Commits : \E n \in Names : tip[r][n] # None /\ c \in history[tip[r][n]]}

\* A push that creates or deletes a branch, or forces it back.
MoveBranch(r, n) ==
    /\ Edit
    /\ \E c \in Reachable(r) \cup {None} : tip' = [tip EXCEPT ![r][n] = c]
    /\ UNCHANGED <<pr, approvals, users, rules, history, merges, lock, merger>>
-----------------------------------------------------------------------------
(* Merge *)

\* PUT .../merge by the owner of the repository.
RequestMerge(m, p) ==
    /\ merger[m].pc = "idle"
    /\ pr[p].status # "none"
    /\ Spare
    /\ \E b \in Bodies :
          merger' = [merger EXCEPT ![m] =
              [IdleMerger EXCEPT !.pc = "begin", !.pr = p,
                                 !.strategy = b.strategy, !.delete = b.delete]]
    /\ UNCHANGED <<pr, approvals, users, rules, tip, history, merges, lock, edits>>

Begin(m) ==
    /\ merger[m].pc = "begin"
    /\ ConnectionFree
    /\ Goto(m, "lock")
    /\ UNCHANGED <<pr, approvals, users, rules, tip, history, merges, lock, edits>>

\* Mutants of Locked: SELECT without FOR UPDATE; FOR UPDATE OF u only.
NothingLocked(m, x) == lock
UserLocked(m, x) == IF x \in Users THEN [lock EXCEPT ![x] = m] ELSE lock

\* The row x is locked FOR UPDATE.
Locked(m, x) == [lock EXCEPT ![x] = m]

\* SELECT ... FOR UPDATE of the join with users: the pull request's row, ...
LockPr(m) ==
    /\ merger[m].pc = "lock"
    /\ lock[merger[m].pr] = None
    /\ lock' = Locked(m, merger[m].pr)
    /\ Goto(m, "author")
    /\ UNCHANGED <<pr, approvals, users, rules, tip, history, merges, edits>>

\* ... and its author's; then the status is looked at.
LockAuthor(m) ==
    LET u == MyRow(m).author IN
    /\ merger[m].pc = "author"
    /\ lock[u] = None
    /\ Sharing(u) = {}
    /\ IF MyRow(m).status = "open"
       THEN /\ lock' = Locked(m, u)
            /\ merger' = [merger EXCEPT ![m].pc = "check", ![m].target = MyRow(m).target]
       ELSE Fail(m)
    /\ UNCHANGED <<pr, approvals, users, rules, tip, history, merges, edits>>

\* Mutant of Allowed: one approval less will do.
AllowedWithOneLess(m, rule) ==
    rule # None =>
        /\ Cardinality(approvals[merger[m].pr]) + 1 >= rule.required
        /\ rule.linear => merger[m].strategy # "merge"

\* The rule's demands: approvals (of anyone but the author, at any time before the
\* count) and linear history.
Allowed(m, rule) ==
    rule # None =>
        /\ Cardinality(approvals[merger[m].pr]) >= rule.required
        /\ rule.linear => merger[m].strategy # "merge"

\* The rules are read on another connection than the transaction's.
CheckRules(m) ==
    LET rule == Check(MyRow(m).repo, merger[m].target) IN
    /\ merger[m].pc = "check"
    /\ ConnectionFree
    /\ IF Allowed(m, rule)
       THEN /\ merger' = [merger EXCEPT
                   ![m].pc = "resolve", ![m].rule = rule,
                   ![m].counted = IF rule = None THEN {} ELSE approvals[merger[m].pr]]
            /\ UNCHANGED lock
       ELSE Fail(m)
    /\ UNCHANGED <<pr, approvals, users, rules, tip, history, merges, edits>>

\* Whether the strategy accepts the two commits.
Mergeable(m, base, head) ==
    CASE merger[m].strategy = "merge"  -> base \in history[head]
      [] merger[m].strategy = "squash" -> TRUE
      [] merger[m].strategy = "rebase" -> base \in history[head] /\ base # head

\* Mutant of Resolve: the error of MergeBranches is not looked at.
ResolveUnchecked(m) ==
    LET base == tip[MyRow(m).repo][merger[m].target]
        head == tip[MyRow(m).repo][MyRow(m).source]
    IN
    /\ merger[m].pc = "resolve"
    /\ IF None \notin {base, head} /\ Mergeable(m, base, head)
       THEN merger' = [merger EXCEPT ![m].pc = "write", ![m].base = base, ![m].head = head]
       ELSE Goto(m, "update")
    /\ UNCHANGED <<pr, approvals, users, rules, tip, history, merges, lock, edits>>

\* git.MergeBranches resolves both branches ...
Resolve(m) ==
    LET base == tip[MyRow(m).repo][merger[m].target]
        head == tip[MyRow(m).repo][MyRow(m).source]
    IN
    /\ merger[m].pc = "resolve"
    /\ IF None \notin {base, head} /\ Mergeable(m, base, head)
       THEN /\ merger' = [merger EXCEPT ![m].pc = "write", ![m].base = base, ![m].head = head]
            /\ UNCHANGED lock
       ELSE Fail(m)
    /\ UNCHANGED <<pr, approvals, users, rules, tip, history, merges, edits>>

\* The commits reachable from the new one: a merge commit has both parents, a
\* squash and a (chain of) rebased commits only the base.
NewHistory(m) ==
    {NewCommit} \cup history[merger[m].base]
                \cup IF merger[m].strategy = "merge" THEN history[merger[m].head] ELSE {}

\* ... and sets the target branch, whatever it points to by now.  (Spare leaves a
\* commit id for it.)
Write(m) ==
    /\ merger[m].pc = "write"
    /\ Unused # {}
    /\ history' = [history EXCEPT ![NewCommit] = NewHistory(m)]
    /\ merges' = [merges EXCEPT ![NewCommit] = merger[m].pr]
    /\ tip' = [tip EXCEPT ![MyRow(m).repo][merger[m].target] = NewCommit]
    /\ Goto(m, "update")
    /\ UNCHANGED <<pr, approvals, users, rules, lock, edits>>

\* UPDATE ... merged_by: the foreign key check waits for the merging user's row.
MarkMerged(m) ==
    /\ merger[m].pc = "update"
    /\ lock[Owner[MyRow(m).repo]] \in {None, m}
    /\ Goto(m, "commit")
    /\ UNCHANGED <<pr, approvals, users, rules, tip, history, merges, lock, edits>>

Commit(m) ==
    /\ merger[m].pc = "commit"
    /\ pr' = [pr EXCEPT ![merger[m].pr].status = "merged"]
    /\ lock' = Released(m)
    /\ merger' = [merger EXCEPT ![m] = IF @.delete THEN [@ EXCEPT !.pc = "delete"]
                                                   ELSE IdleMerger]
    /\ UNCHANGED <<approvals, users, rules, tip, history, merges, edits>>

\* The source branch, which other pull requests may be using.
DeleteBranch(m) ==
    /\ merger[m].pc = "delete"
    /\ tip' = [tip EXCEPT ![MyRow(m).repo][MyRow(m).source] = None]
    /\ merger' = [merger EXCEPT ![m] = IdleMerger]
    /\ UNCHANGED <<pr, approvals, users, rules, history, merges, lock, edits>>

\* The request is cancelled, or a statement fails: noticed by the statement
\* that is executed or executed next, so not between Resolve and Write.
Cancel(m) ==
    /\ merger[m].pc \in {"begin", "lock", "author", "check", "update", "commit"}
    /\ Fail(m)
    /\ UNCHANGED <<pr, approvals, users, rules, tip, history, merges, edits>>

\* The transaction a handler waits for.
Blocker(m) ==
    CASE merger[m].pc = "lock"   -> lock[merger[m].pr]
      [] merger[m].pc = "author" -> lock[MyRow(m).author]
      [] merger[m].pc = "update" ->
             IF lock[Owner[MyRow(m).repo]] = m THEN None ELSE lock[Owner[MyRow(m).repo]]
      [] OTHER -> None

\* PostgreSQL's deadlock detection ends one transaction of a cycle.
Deadlock(m) ==
    /\ \E S \in SUBSET Mergers :
          /\ m \in S
          /\ \A n \in S : Blocker(n) \in S /\ \E k \in S : Blocker(k) = n
    /\ Fail(m)
    /\ UNCHANGED <<pr, approvals, users, rules, tip, history, merges, edits>>
-----------------------------------------------------------------------------
UserNext ==
    \/ \E p \in Prs, q \in Requests, s \in {"draft", "open"} : Create(p, q, s)
    \/ \E p \in Prs : Update(p) \/ \E u \in Users : Approve(p, u)
    \/ \E u \in Users : DeleteUser(u)
    \/ \E r \in Repos, i \in Patterns :
          \/ DeleteRule(r, i)
          \/ \E rule \in Rules : CreateRule(r, i, rule) \/ UpdateRule(r, i, rule)
    \/ \E r \in Repos, n \in Names : Push(r, n) \/ MoveBranch(r, n)

\* The steps of a handler, each at a pc of its own.
Step(m) ==
    \/ Begin(m) \/ LockPr(m) \/ LockAuthor(m) \/ CheckRules(m) \/ Resolve(m)
    \/ Write(m) \/ MarkMerged(m) \/ Commit(m) \/ DeleteBranch(m)

MergeNext(m) ==
    (\E p \in Prs : RequestMerge(m, p)) \/ Step(m) \/ Cancel(m) \/ Deadlock(m)

Next == UserNext \/ \E m \in Mergers : MergeNext(m)

Spec == Init /\ [][Next]_vars

(* Fairness.  Handlers run; the pool and PostgreSQL queue their waiters, hence *)
(* strong fairness of what waits for a connection or a row; deadlocks are      *)
(* detected.  Nobody has to disconnect.                                        *)
FairSpec ==
    /\ Spec
    /\ \A m \in Mergers : SF_vars(Step(m)) /\ WF_vars(Deadlock(m))
-----------------------------------------------------------------------------
(* Properties *)

\* Rows, branches, locks and handlers have their types.
TypeOK ==
    /\ pr \in [Prs -> Row \cup {NoRow}]
    /\ users \subseteq Users
    /\ approvals \in [Prs -> SUBSET users]
    /\ rules \in [Repos -> [Patterns -> Rules \cup {None}]]
    /\ tip \in [Repos -> [Names -> Commits \cup {None}]]
    /\ history \in [Commits -> SUBSET Commits]
    /\ merges \in [Commits -> Prs \cup {None}]
    /\ lock \in [Prs \cup Users -> Mergers \cup {None}]
    /\ merger \in [Mergers -> Merger]
    /\ edits \in 0 .. MaxEdits

\* Between locking the rows and committing.
Holding == {"check", "resolve", "write", "update", "commit"}

\* From the locking SELECT to the commit, what a merge has read of its pull
\* request stays true, whatever users and other merges do: it is open and has
\* the target the rules were checked for.
MergeSeesItsRow ==
    \A m \in Mergers : merger[m].pc \in Holding =>
        MyRow(m).status = "open" /\ MyRow(m).target = merger[m].target

\* Two requests never merge the same pull request at once, nor two of the same
\* author.
OneMergePerAuthor ==
    \A m, n \in Mergers :
        /\ {merger[m].pc, merger[n].pc} \subseteq Holding
        /\ merger[m].pr = merger[n].pr \/ MyRow(m).author = MyRow(n).author
        => m = n

\* A pull request is recorded as merged only if a commit was made for it.
MergedHasCommit ==
    \A p \in Prs : pr[p].status = "merged" => \E c \in Commits : merges[c] = p

\* A commit made for a pull request lands on the branch that is its target at
\* that moment, while the pull request is open.  The merge has counted as many
\* approvals as the rule it read demands, none of them the author's; and all of
\* them still stand then, but those of users who were deleted since, whose
\* reviews nothing locks.
LandedMergesAreAllowed ==
    [][\A m \in Mergers : merger[m].pc = "write" /\ merger'[m].pc # "write" =>
          LET p == merger[m].pr
              c == tip'[pr[p].repo][pr[p].target]
          IN /\ pr[p].status = "open"
             /\ c \in Unused /\ merges'[c] = p
             /\ merger[m].rule # None =>
                   /\ Cardinality(merger[m].counted) >= merger[m].rule.required
                   /\ pr[p].author \notin merger[m].counted
                   /\ merger[m].counted \cap users \subseteq approvals[p]]_vars

\* Every merge request is answered.
MergesEnd == \A m \in Mergers : (merger[m].pc # "idle") ~> (merger[m].pc = "idle")

\* "This prevents concurrent merges": as long as nobody pushes or retargets, a
\* pull request that is recorded as merged is contained in its target branch.
NoMergeLost ==
    \A p \in Prs : LET b == tip[pr[p].repo][pr[p].target] IN
        pr[p].status = "merged" /\ b # None => \E c \in history[b] : merges[c] = p

Lifecycle == INSTANCE PullLifecycle WITH
    status <- [p \in Prs |-> pr[p].status],
    target <- [p \in Prs |-> pr[p].target]

\* The rows implement PullLifecycle: the UPDATE to merged, which does not look
\* at the status, only ever meets an open row, and merged rows never change.
StatusFollowsLifecycle == Lifecycle!LifecycleSpec
=============================================================================
