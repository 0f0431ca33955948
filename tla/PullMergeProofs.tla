-------------------------- MODULE PullMergeProofs --------------------------
(* Theorems about PullMerge for every value of its constants: its types and *)
(* what its row locks guarantee.                                            *)
EXTENDS PullMerge, FiniteSetTheorems, TLAPS

\* What the locks guarantee a handler: past the locking SELECT it has the rows
\* it locked, and its pull request stays open with the target it has read.
HandlerOK(m) ==
    /\ merger[m].pc # "idle" => merger[m].pr \in Prs /\ MyRow(m) \in Row
    /\ merger[m].pc = "author" => lock[merger[m].pr] = m
    /\ merger[m].pc \in Holding => /\ lock[merger[m].pr] = m
                                   /\ lock[MyRow(m).author] = m
                                   /\ MyRow(m).status = "open"
                                   /\ MyRow(m).target = merger[m].target
    /\ merger[m].pc = "write" => merger[m].base \in Commits /\ merger[m].head \in Commits

LockInv == \A m \in Mergers : HandlerOK(m)

PullInv == TypeOK /\ LockInv
-----------------------------------------------------------------------------
(* Types *)

LEMMA IdleType == IdleMerger \in Merger
BY DEF IdleMerger, Merger, Pcs, Strategies

LEMMA NoRowFacts ==
    /\ NoRow.status = "none" /\ NoRow.target = None /\ NoRow.author = None
    /\ \A row \in Row : row.status # "none"
BY DEF NoRow, Row, Statuses

\* Every nonempty set of numbers has a least one, so a rule is found whenever
\* one matches.
LEMMA LeastExists ==
    ASSUME NEW S \in SUBSET Nat, S # {}
    PROVE  \E i \in S : \A j \in S : i <= j
<1> DEFINE Upto == {0 .. i : i \in S}
<1>1. Upto \subseteq FiniteSubsetsOf(Nat) /\ Upto # {}
  <2>1. \A i \in S : IsFiniteSet(0 .. i) /\ 0 .. i \subseteq Nat
    BY FS_Interval
  <2>2. QED BY <2>1 DEF FiniteSubsetsOf
<1>2. PICK T \in Upto : \A U \in Upto : <<U, T>> \notin StrictSubsetOrdering(Nat)
  BY <1>1, FS_StrictSubsetOrderingWellFounded, WFMin
<1>3. PICK i \in S : T = 0 .. i
  BY <1>2
<1>4. ASSUME NEW j \in S, j < i PROVE FALSE
  <2>1. 0 .. j \in Upto
    OBVIOUS
  <2>2. /\ 0 .. j \subseteq 0 .. i /\ i \in 0 .. i /\ i \notin 0 .. j
        /\ 0 .. i \subseteq Nat
    BY <1>4
  <2>3. <<0 .. j, T>> \in StrictSubsetOrdering(Nat)
    BY <1>3, <2>2 DEF StrictSubsetOrdering
  <2>4. QED BY <1>2, <2>1, <2>3
<1>5. QED BY <1>4

LEMMA CheckType ==
    ASSUME TypeOK, NEW r \in Repos, NEW n
    PROVE  Check(r, n) \in Rules \cup {None}
<1>1. CASE Matching(r, n) = {}
  BY <1>1 DEF Check
<1>2. CASE Matching(r, n) # {}
  <2> DEFINE least == CHOOSE i \in Matching(r, n) : \A j \in Matching(r, n) : i <= j
  <2>1. Matching(r, n) \subseteq Patterns /\ Patterns \subseteq Nat
    BY PullAssumption DEF Matching
  <2>2. \E i \in Matching(r, n) : \A j \in Matching(r, n) : i <= j
    BY <1>2, <2>1, LeastExists
  <2>3. least \in Patterns
    BY <2>1, <2>2
  <2>4. rules[r][least] \in Rules \cup {None}
    BY <2>3 DEF TypeOK
  <2>5. QED BY <1>2, <2>4 DEF Check
<1>3. QED BY <1>1, <1>2

\* Changes of the fields of a handler within their types.
LEMMA MergerFields ==
    ASSUME NEW x \in Merger, NEW pc \in Pcs
    PROVE  /\ [x EXCEPT !.pc = pc] \in Merger
           /\ \A n \in Names : [x EXCEPT !.pc = pc, !.target = n] \in Merger
           /\ \A rule \in Rules \cup {None}, S \in SUBSET Users :
                 [x EXCEPT !.pc = pc, !.rule = rule, !.counted = S] \in Merger
           /\ \A b, h \in Commits : [x EXCEPT !.pc = pc, !.base = b, !.head = h] \in Merger
<1>1. [x EXCEPT !.pc = pc] \in Merger
  BY DEF Merger
<1>2. ASSUME NEW n \in Names PROVE [x EXCEPT !.pc = pc, !.target = n] \in Merger
  BY DEF Merger
<1>3. ASSUME NEW rule \in Rules \cup {None}, NEW S \in SUBSET Users
      PROVE  [x EXCEPT !.pc = pc, !.rule = rule, !.counted = S] \in Merger
  BY DEF Merger
<1>4. ASSUME NEW b \in Commits, NEW h \in Commits
      PROVE  [x EXCEPT !.pc = pc, !.base = b, !.head = h] \in Merger
  BY DEF Merger
<1>5. QED BY <1>1, <1>2, <1>3, <1>4

\* A check that succeeds records the rule and the reviewers it has counted.
LEMMA CountedType ==
    ASSUME TypeOK, NEW m \in Mergers, HandlerOK(m), CheckRules(m), ~Fail(m)
    PROVE  \E S \in SUBSET Users :
              merger' = [merger EXCEPT ![m] =
                 [merger[m] EXCEPT !.pc = "resolve",
                                   !.rule = Check(MyRow(m).repo, merger[m].target),
                                   !.counted = S]]
<1> DEFINE rule == Check(MyRow(m).repo, merger[m].target)
           S == IF rule = None THEN {} ELSE approvals[merger[m].pr]
<1>1. merger[m].pr \in Prs
  BY DEF HandlerOK, CheckRules
<1>2. S \in SUBSET Users
  BY <1>1 DEF TypeOK
<1>3. merger' = [merger EXCEPT ![m].pc = "resolve", ![m].rule = rule, ![m].counted = S]
  BY DEF CheckRules
<1> HIDE DEF rule, S
<1>4. merger' = [merger EXCEPT ![m] =
                    [merger[m] EXCEPT !.pc = "resolve", !.rule = rule, !.counted = S]]
  BY <1>3 DEF TypeOK
<1>5. QED BY <1>2, <1>4 DEF rule

\* A handler that moves on, or fails, keeps its type; a lock keeps its type.
\* Replacing the record of one handler by another.
LEMMA PutType ==
    ASSUME TypeOK, NEW m \in Mergers, NEW x \in Merger, merger' = [merger EXCEPT ![m] = x]
    PROVE  merger' \in [Mergers -> Merger]
<1>1. merger \in [Mergers -> Merger]
  BY DEF TypeOK
<1>2. QED BY <1>1

LEMMA GotoType ==
    ASSUME TypeOK, NEW m \in Mergers, NEW pc \in Pcs, Goto(m, pc)
    PROVE  merger' \in [Mergers -> Merger]
<1>1. merger' = [merger EXCEPT ![m] = [merger[m] EXCEPT !.pc = pc]]
  BY DEF Goto
<1>2. merger[m] \in Merger
  BY DEF TypeOK
<1>3. QED BY <1>1, <1>2, MergerFields DEF TypeOK

LEMMA FailType ==
    ASSUME TypeOK, NEW m \in Mergers, Fail(m)
    PROVE  /\ merger' \in [Mergers -> Merger]
           /\ lock' \in [Prs \cup Users -> Mergers \cup {None}]
BY IdleType DEF TypeOK, Fail, Released

LEMMA LockedType ==
    ASSUME TypeOK, NEW m \in Mergers, NEW x \in Prs \cup Users
    PROVE  Locked(m, x) \in [Prs \cup Users -> Mergers \cup {None}]
BY DEF TypeOK, Locked

LEMMA NewCommitFacts ==
    ASSUME TypeOK, Unused # {}
    PROVE  NewCommit \in Commits /\ history[NewCommit] = {}
BY DEF Unused, NewCommit

\* Spare leaves at least one commit id.
LEMMA SpareLeavesOne == Spare => Unused # {}
<1>1. SUFFICES ASSUME Spare, Unused = {} PROVE FALSE
  OBVIOUS
<1> DEFINE Active == {m \in Mergers : merger[m].pc # "idle"}
<1>2. Cardinality(Unused) = 0
  BY <1>1, FS_EmptySet
<1>3. IsFiniteSet(Active)
  BY PullAssumption, FS_Subset
<1>4. Cardinality(Active) \in Nat
  BY <1>3, FS_CardinalityType
<1>5. QED BY <1>1, <1>2, <1>4 DEF Spare
-----------------------------------------------------------------------------
(* Type correctness, with the locks' invariant *)

LEMMA UserType ==
    ASSUME TypeOK, UserNext
    PROVE  TypeOK'
<1>1. CASE \E p \in Prs, q \in Requests, s \in {"draft", "open"} : Create(p, q, s)
  <2>1. PICK p \in Prs, q \in Requests, s \in {"draft", "open"} : Create(p, q, s)
    BY <1>1
  <2>2. q \in Request
    BY PullAssumption
  <2>3. [status |-> s, repo |-> q.repo, author |-> q.author,
         source |-> q.source, target |-> q.target] \in Row
    BY <2>2 DEF Request, Row, Statuses
  <2>4. pr' \in [Prs -> Row \cup {NoRow}]
    BY <2>1, <2>3 DEF Create, TypeOK
  <2>5. QED BY <2>1, <2>4 DEF Create, TypeOK
<1>2. ASSUME NEW p \in Prs, Update(p)
      PROVE  TypeOK'
  <2>1. PICK s \in Statuses, n \in Names :
           pr' = [pr EXCEPT ![p].status = s, ![p].target = n]
    BY <1>2 DEF Update
  <2>2. pr[p] \in Row
    BY <1>2, NoRowFacts DEF Update, Changeable, TypeOK, Statuses
  <2>3. [pr[p] EXCEPT !.status = s, !.target = n] \in Row
    BY <2>2 DEF Row
  <2>4. pr' = [pr EXCEPT ![p] = [pr[p] EXCEPT !.status = s, !.target = n]]
    BY <2>1 DEF TypeOK
  <2>5. pr' \in [Prs -> Row \cup {NoRow}]
    BY <2>3, <2>4 DEF TypeOK
  <2>6. edits' \in 0 .. MaxEdits
    BY <1>2, PullAssumption DEF Update, Edit, TypeOK
  <2>7. QED BY <1>2, <2>5, <2>6 DEF Update, TypeOK
<1>3. ASSUME NEW p \in Prs, NEW u \in Users, Approve(p, u)
      PROVE  TypeOK'
  BY <1>3 DEF Approve, TypeOK
<1>9. ASSUME NEW u \in Users, DeleteUser(u)
      PROVE  TypeOK'
  <2>1. approvals' \in [Prs -> SUBSET (users \ {u})]
    BY <1>9 DEF DeleteUser, TypeOK
  <2>2. QED BY <1>9, <2>1 DEF DeleteUser, TypeOK
<1>4. ASSUME NEW r \in Repos, NEW i \in Patterns, NEW rule \in Rules,
             CreateRule(r, i, rule) \/ UpdateRule(r, i, rule)
      PROVE  TypeOK'
  <2>1. edits' \in 0 .. MaxEdits
    BY <1>4, PullAssumption DEF CreateRule, UpdateRule, Edit, TypeOK
  <2>2. rules' = [rules EXCEPT ![r][i] = rule]
    BY <1>4 DEF CreateRule, UpdateRule
  <2>3. rules' \in [Repos -> [Patterns -> Rules \cup {None}]]
    BY <2>2 DEF TypeOK
  <2>4. QED BY <1>4, <2>1, <2>3 DEF CreateRule, UpdateRule, TypeOK
<1>5. ASSUME NEW r \in Repos, NEW i \in Patterns, DeleteRule(r, i)
      PROVE  TypeOK'
  <2>1. edits' \in 0 .. MaxEdits
    BY <1>5, PullAssumption DEF DeleteRule, Edit, TypeOK
  <2>2. rules' \in [Repos -> [Patterns -> Rules \cup {None}]]
    BY <1>5 DEF DeleteRule, TypeOK
  <2>3. QED BY <1>5, <2>1, <2>2 DEF DeleteRule, TypeOK
<1>6. ASSUME NEW r \in Repos, NEW n \in Names, Push(r, n)
      PROVE  TypeOK'
  <2>1. NewCommit \in Commits
    BY <1>6, SpareLeavesOne, NewCommitFacts DEF Push
  <2>2. tip[r][n] \in Commits
    BY <1>6 DEF Push, TypeOK
  <2>3. history[tip[r][n]] \cup {NewCommit} \subseteq Commits
    BY <2>1, <2>2 DEF TypeOK
  <2>4. edits' \in 0 .. MaxEdits
    BY <1>6, PullAssumption DEF Push, Edit, TypeOK
  <2>5. history' \in [Commits -> SUBSET Commits]
    BY <1>6, <2>3 DEF Push, TypeOK
  <2>6. tip' \in [Repos -> [Names -> Commits \cup {None}]]
    BY <1>6, <2>1 DEF Push, TypeOK
  <2>7. QED BY <1>6, <2>4, <2>5, <2>6 DEF Push, TypeOK
<1>7. ASSUME NEW r \in Repos, NEW n \in Names, MoveBranch(r, n)
      PROVE  TypeOK'
  <2>1. PICK c \in Reachable(r) \cup {None} : tip' = [tip EXCEPT ![r][n] = c]
    BY <1>7 DEF MoveBranch
  <2>2. c \in Commits \cup {None}
    BY DEF Reachable
  <2>3. tip' \in [Repos -> [Names -> Commits \cup {None}]]
    BY <2>1, <2>2 DEF TypeOK
  <2>4. edits' \in 0 .. MaxEdits
    BY <1>7, PullAssumption DEF MoveBranch, Edit, TypeOK
  <2>5. QED BY <1>7, <2>3, <2>4 DEF MoveBranch, TypeOK
<1>8. QED BY <1>1, <1>2, <1>3, <1>4, <1>5, <1>6, <1>7, <1>9 DEF UserNext

LEMMA MergeType ==
    ASSUME PullInv, NEW m \in Mergers, MergeNext(m)
    PROVE  TypeOK'
<1> USE DEF PullInv
<1>0. merger[m] \in Merger /\ HandlerOK(m)
  BY DEF TypeOK, LockInv
<1>1. ASSUME NEW p \in Prs, RequestMerge(m, p) PROVE TypeOK'
  <2>1. ASSUME NEW b \in Bodies
        PROVE  [IdleMerger EXCEPT !.pc = "begin", !.pr = p,
                                  !.strategy = b.strategy, !.delete = b.delete] \in Merger
    BY IdleType, PullAssumption DEF Merger, Pcs, Body
  <2>2. merger' \in [Mergers -> Merger]
    BY <1>1, <2>1 DEF RequestMerge, TypeOK
  <2>3. QED BY <1>1, <2>2 DEF RequestMerge, TypeOK
<1>2. CASE Begin(m)
  BY <1>2, GotoType DEF Begin, Pcs, TypeOK
<1>3. CASE LockPr(m)
  <2>1. merger[m].pr \in Prs
    BY <1>0, <1>3 DEF LockPr, HandlerOK
  <2>2. lock' \in [Prs \cup Users -> Mergers \cup {None}]
    BY <1>3, <2>1, LockedType DEF LockPr
  <2>3. merger' \in [Mergers -> Merger]
    BY <1>3, GotoType DEF LockPr, Pcs
  <2>4. QED BY <1>3, <2>2, <2>3 DEF LockPr, TypeOK
<1>4. CASE LockAuthor(m)
  <2>1. MyRow(m) \in Row
    BY <1>0, <1>4 DEF LockAuthor, HandlerOK
  <2>2. MyRow(m).author \in Users /\ MyRow(m).target \in Names
    BY <2>1 DEF Row
  <2>3. CASE Fail(m)
    BY <1>4, <2>3, FailType DEF LockAuthor, TypeOK
  <2>4. CASE ~Fail(m)
    <3>1. lock' = Locked(m, MyRow(m).author)
      BY <1>4, <2>4 DEF LockAuthor
    <3>2. merger' = [merger EXCEPT ![m] =
              [merger[m] EXCEPT !.pc = "check", !.target = MyRow(m).target]]
      BY <1>4, <2>4 DEF LockAuthor, TypeOK
    <3>3. "check" \in Pcs
      BY DEF Pcs
    <3>4. [merger[m] EXCEPT !.pc = "check", !.target = MyRow(m).target] \in Merger
      BY <1>0, <2>2, <3>3, MergerFields
    <3>5. merger' \in [Mergers -> Merger]
      BY <3>2, <3>4, PutType
    <3>6. QED BY <1>4, <2>2, <3>1, <3>5, LockedType DEF LockAuthor, TypeOK
  <2>5. QED BY <2>3, <2>4
<1>5. CASE CheckRules(m)
  <2>1. MyRow(m).repo \in Repos
    BY <1>0, <1>5 DEF CheckRules, HandlerOK, Row
  <2> DEFINE rule == Check(MyRow(m).repo, merger[m].target)
  <2>2. rule \in Rules \cup {None}
    BY <2>1, CheckType
  <2>3. CASE Fail(m)
    BY <1>5, <2>3, FailType DEF CheckRules, TypeOK
  <2>4. CASE ~Fail(m)
    <3>1. PICK S \in SUBSET Users :
             merger' = [merger EXCEPT ![m] =
                [merger[m] EXCEPT !.pc = "resolve", !.rule = rule, !.counted = S]]
      BY <1>0, <1>5, <2>4, CountedType
    <3>2. "resolve" \in Pcs
      BY DEF Pcs
    <3>3. [merger[m] EXCEPT !.pc = "resolve", !.rule = rule, !.counted = S] \in Merger
      BY <1>0, <2>2, <3>2, MergerFields
    <3>4. merger' \in [Mergers -> Merger]
      BY <3>1, <3>3, PutType
    <3>5. QED BY <1>5, <2>4, <3>4 DEF CheckRules, TypeOK
  <2>5. QED BY <2>3, <2>4
<1>6. CASE Resolve(m)
  <2>1. MyRow(m) \in Row /\ merger[m].target \in Names
    BY <1>0, <1>6 DEF Resolve, HandlerOK, Row, Holding
  <2> DEFINE base == tip[MyRow(m).repo][merger[m].target]
             head == tip[MyRow(m).repo][MyRow(m).source]
  <2>2. base \in Commits \cup {None} /\ head \in Commits \cup {None}
    BY <2>1 DEF TypeOK, Row
  <2>3. CASE Fail(m)
    BY <1>6, <2>3, FailType DEF Resolve, TypeOK
  <2>4. CASE ~Fail(m)
    <3>1. /\ None \notin {base, head}
          /\ merger' = [merger EXCEPT ![m] =
                [merger[m] EXCEPT !.pc = "write", !.base = base, !.head = head]]
      BY <1>6, <2>4 DEF Resolve, TypeOK
    <3>2. merger' \in [Mergers -> Merger]
      BY <1>0, <2>2, <3>1, MergerFields DEF TypeOK, Pcs
    <3>3. QED BY <1>6, <2>4, <3>2 DEF Resolve, TypeOK
  <2>5. QED BY <2>3, <2>4
<1>7. CASE Write(m)
  <2>1. /\ merger[m].base \in Commits /\ merger[m].head \in Commits
        /\ merger[m].pr \in Prs /\ MyRow(m) \in Row
    BY <1>0, <1>7 DEF Write, HandlerOK
  <2>2. NewCommit \in Commits
    BY <1>7, NewCommitFacts DEF Write
  <2>3. NewHistory(m) \subseteq Commits
    BY <2>1, <2>2 DEF NewHistory, TypeOK
  <2>4. history' \in [Commits -> SUBSET Commits]
    BY <1>7, <2>3 DEF Write, TypeOK
  <2>5. merges' \in [Commits -> Prs \cup {None}]
    BY <1>7, <2>1 DEF Write, TypeOK
  <2>6. tip' \in [Repos -> [Names -> Commits \cup {None}]]
    BY <1>7, <2>2 DEF Write, TypeOK
  <2>7. merger' \in [Mergers -> Merger]
    BY <1>7, GotoType DEF Write, Pcs
  <2>8. QED BY <1>7, <2>4, <2>5, <2>6, <2>7 DEF Write, TypeOK
<1>8. CASE MarkMerged(m)
  BY <1>8, GotoType DEF MarkMerged, Pcs, TypeOK
<1>9. CASE Commit(m)
  <2>1. merger[m].pr \in Prs /\ MyRow(m) \in Row
    BY <1>0, <1>9 DEF Commit, HandlerOK
  <2>2. [MyRow(m) EXCEPT !.status = "merged"] \in Row
    BY <2>1 DEF Row
  <2>3. pr' \in [Prs -> Row \cup {NoRow}]
    BY <1>9, <2>1, <2>2 DEF Commit, TypeOK, MyRow
  <2>4. [merger[m] EXCEPT !.pc = "delete"] \in Merger
    BY <1>0, MergerFields DEF Pcs
  <2>5. merger' \in [Mergers -> Merger]
    BY <1>9, <2>4, IdleType DEF Commit, TypeOK
  <2>6. lock' \in [Prs \cup Users -> Mergers \cup {None}]
    BY <1>9 DEF Commit, Released, TypeOK
  <2>7. QED BY <1>9, <2>3, <2>5, <2>6 DEF Commit, TypeOK
<1>10. CASE DeleteBranch(m)
  <2>1. tip' \in [Repos -> [Names -> Commits \cup {None}]]
    BY <1>10 DEF DeleteBranch, TypeOK
  <2>2. merger' \in [Mergers -> Merger]
    BY <1>10, IdleType DEF DeleteBranch, TypeOK
  <2>3. QED BY <1>10, <2>1, <2>2 DEF DeleteBranch, TypeOK
<1>11. CASE Cancel(m)
  BY <1>11, FailType DEF Cancel, TypeOK
<1>12. CASE Deadlock(m)
  BY <1>12, FailType DEF Deadlock, TypeOK
<1>13. QED
  BY <1>1, <1>2, <1>3, <1>4, <1>5, <1>6, <1>7, <1>8, <1>9, <1>10, <1>11, <1>12
     DEF MergeNext, Step

\* A handler whose record is kept is still OK when every row it has locked is
\* kept, and every other row keeps its author and is not taken away.
LEMMA StaysOK ==
    ASSUME TypeOK, NEW n \in Mergers, HandlerOK(n), merger'[n] = merger[n],
           \A p \in Prs : pr[p] \in Row =>
              /\ pr'[p] \in Row
              /\ pr'[p].author = pr[p].author
              /\ lock[p] = n => pr'[p] = pr[p],
           \A x \in Prs \cup Users : lock[x] = n => lock'[x] = n
    PROVE  HandlerOK(n)'
<1>1. CASE merger[n].pc = "idle"
  BY <1>1 DEF HandlerOK, Holding
<1>2. CASE merger[n].pc # "idle"
  <2>1. merger[n].pr \in Prs /\ MyRow(n) \in Row /\ MyRow(n).author \in Users
    BY <1>2 DEF HandlerOK, Row
  <2>2. MyRow(n)' \in Row /\ MyRow(n)'.author = MyRow(n).author
    BY <2>1 DEF MyRow
  <2>3. ASSUME lock[merger[n].pr] = n PROVE MyRow(n)' = MyRow(n)
    BY <2>1, <2>3 DEF MyRow
  <2>4. QED BY <2>1, <2>2, <2>3 DEF HandlerOK
<1>3. QED BY <1>1, <1>2

\* A handler in one of these places needs its row only.
LEMMA RowSuffices ==
    ASSUME NEW m \in Mergers,
           merger'[m].pc \in {"begin", "lock", "delete"},
           merger'[m].pr \in Prs, pr'[merger'[m].pr] \in Row
    PROVE  HandlerOK(m)'
BY DEF HandlerOK, Holding, MyRow

LEMMA UserKeepsLocks ==
    ASSUME PullInv, UserNext
    PROVE  LockInv'
<1>1. merger' = merger /\ lock' = lock
  BY DEF UserNext, Create, Update, Approve, DeleteUser, CreateRule, UpdateRule, DeleteRule,
         Push, MoveBranch
<1>2. ASSUME NEW p \in Prs, pr[p] \in Row
      PROVE  /\ pr'[p] \in Row
             /\ pr'[p].author = pr[p].author
             /\ \A n \in Mergers : lock[p] = n => pr'[p] = pr[p]
  <2>1. CASE pr' = pr
    BY <1>2, <2>1
  <2>2. ASSUME NEW o \in Prs, NEW q \in Requests, NEW s \in {"draft", "open"}, Create(o, q, s)
        PROVE  pr'[p] = pr[p]
    BY <1>2, <2>2, NoRowFacts DEF Create, PullInv, TypeOK
  <2>3. ASSUME NEW o \in Prs, Update(o)
        PROVE  /\ pr'[p] \in Row
               /\ pr'[p].author = pr[p].author
               /\ \A n \in Mergers : lock[p] = n => pr'[p] = pr[p]
    <3>1. PICK s \in Statuses, n \in Names :
             pr' = [pr EXCEPT ![o].status = s, ![o].target = n]
      BY <2>3 DEF Update
    <3>2. pr' = [pr EXCEPT ![o] = [pr[o] EXCEPT !.status = s, !.target = n]]
      BY <3>1 DEF PullInv, TypeOK
    <3>3. CASE o = p
      <4>1. pr'[p] = [pr[p] EXCEPT !.status = s, !.target = n]
        BY <3>2, <3>3 DEF PullInv, TypeOK
      <4>2. pr'[p] \in Row /\ pr'[p].author = pr[p].author
        BY <1>2, <4>1 DEF Row
      <4>3. lock[p] \notin Mergers
        BY <2>3, <3>3, PullAssumption DEF Update, Changeable
      <4>4. QED BY <4>2, <4>3
    <3>4. CASE o # p
      BY <1>2, <3>2, <3>4 DEF PullInv, TypeOK
    <3>5. QED BY <3>3, <3>4
  <2>4. \/ pr' = pr
        \/ \E o \in Prs, q \in Requests, s \in {"draft", "open"} : Create(o, q, s)
        \/ \E o \in Prs : Update(o)
    BY DEF UserNext, Approve, DeleteUser, CreateRule, UpdateRule, DeleteRule, Push, MoveBranch
  <2>5. QED BY <1>2, <2>1, <2>2, <2>3, <2>4
<1>3. ASSUME NEW n \in Mergers PROVE HandlerOK(n)'
  BY <1>1, <1>2, StaysOK DEF PullInv, LockInv
<1>4. QED BY <1>3 DEF LockInv

\* A step of one handler leaves the others OK: it changes no record but its own,
\* no row but one it has locked, and takes and frees no lock of others.
LEMMA OthersStayOK ==
    ASSUME PullInv, NEW m \in Mergers, NEW n \in Mergers, n # m,
           NEW new, merger' = [merger EXCEPT ![m] = new],
           \/ pr' = pr
           \/ Commit(m),
           \/ lock' = lock \/ lock' = Released(m)
           \/ \E x \in Prs \cup Users : lock[x] = None /\ lock' = Locked(m, x)
    PROVE  HandlerOK(n)'
<1>1. merger'[n] = merger[n]
  BY DEF PullInv, TypeOK
<1>2. ASSUME NEW x \in Prs \cup Users, lock[x] = n PROVE lock'[x] = n
  BY <1>2, PullAssumption DEF PullInv, TypeOK, Released, Locked
<1>3. ASSUME NEW p \in Prs, pr[p] \in Row
      PROVE  /\ pr'[p] \in Row
             /\ pr'[p].author = pr[p].author
             /\ lock[p] = n => pr'[p] = pr[p]
  <2>1. CASE pr' = pr
    BY <1>3, <2>1
  <2>2. CASE Commit(m)
    <3>1. pr' = [pr EXCEPT ![merger[m].pr] = [pr[merger[m].pr] EXCEPT !.status = "merged"]]
      BY <2>2 DEF Commit, PullInv, TypeOK
    <3>2. lock[merger[m].pr] = m
      BY <2>2 DEF Commit, PullInv, LockInv, HandlerOK, Holding
    <3>3. CASE p = merger[m].pr
      <4>1. pr'[p] = [pr[p] EXCEPT !.status = "merged"]
        BY <3>1, <3>3 DEF PullInv, TypeOK
      <4>2. QED BY <1>3, <3>2, <3>3, <4>1 DEF Row
    <3>4. CASE p # merger[m].pr
      BY <1>3, <3>1, <3>4 DEF PullInv, TypeOK
    <3>5. QED BY <3>3, <3>4
  <2>3. QED BY <2>1, <2>2
<1>4. QED BY <1>1, <1>2, <1>3, StaysOK DEF PullInv, LockInv

LEMMA MergeKeepsLocks ==
    ASSUME PullInv, NEW m \in Mergers, MergeNext(m)
    PROVE  LockInv'
<1> USE DEF PullInv
<1>0. merger[m] \in Merger /\ HandlerOK(m)
  BY DEF TypeOK, LockInv
<1> DEFINE Mine == HandlerOK(m)'
           Others == \A n \in Mergers : n # m => HandlerOK(n)'
<1> SUFFICES Mine /\ Others
  BY DEF LockInv
<1>1. ASSUME NEW p \in Prs, RequestMerge(m, p) PROVE Mine /\ Others
  <2>1. PICK b \in Bodies :
           merger' = [merger EXCEPT ![m] =
              [IdleMerger EXCEPT !.pc = "begin", !.pr = p,
                                 !.strategy = b.strategy, !.delete = b.delete]]
    BY <1>1 DEF RequestMerge
  <2>2. Others
    BY <1>1, <2>1, OthersStayOK DEF RequestMerge
  <2>3. merger'[m].pc = "begin" /\ merger'[m].pr = p
    BY <2>1 DEF TypeOK, IdleMerger
  <2>4. pr'[p] \in Row
    BY <1>1, NoRowFacts DEF RequestMerge, TypeOK
  <2>5. QED BY <2>2, <2>3, <2>4, RowSuffices
<1>2. CASE Fail(m) /\ pr' = pr
  <2>1. Others
    BY <1>2, OthersStayOK DEF Fail
  <2>2. Mine
    BY <1>2 DEF Fail, TypeOK, HandlerOK, IdleMerger, Holding
  <2>3. QED BY <2>1, <2>2
<1>3. CASE Begin(m)
  <2>1. merger' = [merger EXCEPT ![m] = [merger[m] EXCEPT !.pc = "lock"]]
    BY <1>3 DEF Begin, Goto, TypeOK
  <2>2. Others
    BY <1>3, <2>1, OthersStayOK DEF Begin
  <2>3. Mine
    BY <1>0, <1>3, <2>1, RowSuffices DEF Begin, TypeOK, Merger, HandlerOK, MyRow
  <2>4. QED BY <2>2, <2>3
<1>4. CASE LockPr(m)
  <2>1. merger' = [merger EXCEPT ![m] = [merger[m] EXCEPT !.pc = "author"]]
    BY <1>4 DEF LockPr, Goto, TypeOK
  <2>2. merger[m].pr \in Prs /\ MyRow(m) \in Row
    BY <1>0, <1>4 DEF LockPr, HandlerOK
  <2>3. Others
    BY <1>4, <2>1, <2>2, OthersStayOK DEF LockPr
  <2>4. merger'[m].pc = "author" /\ merger'[m].pr = merger[m].pr
    BY <1>0, <2>1 DEF TypeOK, Merger
  <2>5. lock'[merger[m].pr] = m
    BY <1>4, <2>2 DEF LockPr, Locked, TypeOK
  <2>6. Mine
    BY <1>4, <2>2, <2>4, <2>5 DEF LockPr, HandlerOK, Holding, MyRow
  <2>7. QED BY <2>3, <2>6
<1>5. CASE LockAuthor(m) /\ ~Fail(m)
  <2>1. /\ MyRow(m).status = "open"
        /\ lock[MyRow(m).author] = None
        /\ lock' = Locked(m, MyRow(m).author)
        /\ merger' = [merger EXCEPT ![m] =
              [merger[m] EXCEPT !.pc = "check", !.target = MyRow(m).target]]
    BY <1>5 DEF LockAuthor, TypeOK
  <2>2. /\ merger[m].pr \in Prs /\ MyRow(m) \in Row
        /\ lock[merger[m].pr] = m
    BY <1>0, <1>5 DEF LockAuthor, HandlerOK
  <2>3. MyRow(m).author \in Users
    BY <2>2 DEF Row
  <2>4. Others
    BY <1>5, <2>1, <2>3, OthersStayOK DEF LockAuthor
  <2>5. /\ merger'[m].pc = "check" /\ merger'[m].pr = merger[m].pr
        /\ merger'[m].target = MyRow(m).target
    BY <1>0, <2>1 DEF TypeOK, Merger
  <2>6. lock'[merger[m].pr] = m /\ lock'[MyRow(m).author] = m
    BY <2>1, <2>2, <2>3 DEF Locked, TypeOK
  <2>7. MyRow(m)' = MyRow(m)
    BY <1>5, <2>5 DEF LockAuthor, MyRow
  <2>8. Mine
    BY <2>1, <2>2, <2>5, <2>6, <2>7 DEF HandlerOK, Holding
  <2>9. QED BY <2>4, <2>8
<1>6. ASSUME NEW new \in Merger, merger' = [merger EXCEPT ![m] = new],
             pr' = pr, lock' = lock,
             merger[m].pc \in Holding, new.pc \in Holding,
             new.pr = merger[m].pr, new.target = merger[m].target,
             new.pc = "write" => new.base \in Commits /\ new.head \in Commits
      PROVE  Mine /\ Others
  <2>1. Others
    BY <1>6, OthersStayOK
  <2>2. merger'[m] = new
    BY <1>6 DEF TypeOK
  <2>3. MyRow(m)' = MyRow(m)
    BY <1>6, <2>2 DEF MyRow
  <2>4. Mine
    BY <1>0, <1>6, <2>2, <2>3 DEF HandlerOK, Holding
  <2>5. QED BY <2>1, <2>4
<1>7. CASE CheckRules(m) /\ ~Fail(m)
  <2> DEFINE rule == Check(MyRow(m).repo, merger[m].target)
  <2>0. PICK S \in SUBSET Users :
           merger' = [merger EXCEPT ![m] =
              [merger[m] EXCEPT !.pc = "resolve", !.rule = rule, !.counted = S]]
    BY <1>0, <1>7, CountedType
  <2> DEFINE new == [merger[m] EXCEPT !.pc = "resolve", !.rule = rule, !.counted = S]
  <2>1. merger' = [merger EXCEPT ![m] = new] /\ pr' = pr /\ lock' = lock
    BY <1>7, <2>0 DEF CheckRules
  <2>2. MyRow(m).repo \in Repos
    BY <1>0, <1>7 DEF CheckRules, HandlerOK, Row
  <2>3. rule \in Rules \cup {None}
    BY <2>2, CheckType
  <2>4. new \in Merger
    BY <1>0, <2>3, MergerFields DEF Pcs
  <2>5. new.pc = "resolve" /\ new.pr = merger[m].pr /\ new.target = merger[m].target
    BY <1>0 DEF Merger
  <2>6. merger[m].pc \in Holding /\ new.pc \in Holding /\ new.pc # "write"
    BY <1>7, <2>5 DEF CheckRules, Holding
  <2> HIDE DEF new
  <2>7. QED BY <1>6, <2>1, <2>4, <2>5, <2>6
<1>8. CASE Resolve(m) /\ ~Fail(m)
  <2> DEFINE base == tip[MyRow(m).repo][merger[m].target]
             head == tip[MyRow(m).repo][MyRow(m).source]
             new == [merger[m] EXCEPT !.pc = "write", !.base = base, !.head = head]
  <2>1. /\ merger' = [merger EXCEPT ![m] = new] /\ pr' = pr /\ lock' = lock
        /\ None \notin {base, head}
    BY <1>8 DEF Resolve, TypeOK
  <2>2. MyRow(m) \in Row /\ merger[m].target \in Names
    BY <1>0, <1>8 DEF Resolve, HandlerOK, Row, Holding
  <2>3. base \in Commits /\ head \in Commits
    BY <2>1, <2>2 DEF TypeOK, Row
  <2>4. new \in Merger
    BY <1>0, <2>3, MergerFields DEF Pcs
  <2>5. /\ new.pc = "write" /\ new.pr = merger[m].pr /\ new.target = merger[m].target
        /\ new.base = base /\ new.head = head
    BY <1>0 DEF Merger
  <2>6. merger[m].pc \in Holding /\ new.pc \in Holding
    BY <1>8, <2>5 DEF Resolve, Holding
  <2> HIDE DEF new
  <2>7. QED BY <1>6, <2>1, <2>3, <2>4, <2>5, <2>6
<1>9. CASE Write(m) \/ MarkMerged(m)
  <2>1. PICK pc \in {"update", "commit"} :
           merger' = [merger EXCEPT ![m] = [merger[m] EXCEPT !.pc = pc]]
    BY <1>9 DEF Write, MarkMerged, Goto, TypeOK
  <2> DEFINE new == [merger[m] EXCEPT !.pc = pc]
  <2>2. new \in Merger
    BY <1>0, MergerFields DEF Pcs
  <2>3. new.pc = pc /\ new.pr = merger[m].pr /\ new.target = merger[m].target
    BY <1>0 DEF Merger
  <2>4. merger[m].pc \in Holding /\ new.pc \in Holding /\ new.pc # "write"
    BY <1>9, <2>3 DEF Write, MarkMerged, Holding
  <2>5. merger' = [merger EXCEPT ![m] = new] /\ pr' = pr /\ lock' = lock
    BY <1>9, <2>1 DEF Write, MarkMerged
  <2> HIDE DEF new
  <2>6. QED BY <1>6, <2>2, <2>3, <2>4, <2>5
<1>10. CASE Commit(m)
  <2>1. PICK new \in {[merger[m] EXCEPT !.pc = "delete"], IdleMerger} :
           merger' = [merger EXCEPT ![m] = new]
    BY <1>10 DEF Commit
  <2>2. Others
    BY <1>10, <2>1, OthersStayOK DEF Commit
  <2>3. merger'[m] = new
    BY <2>1 DEF TypeOK
  <2>4. CASE new = IdleMerger
    BY <2>2, <2>3, <2>4 DEF HandlerOK, IdleMerger, Holding
  <2>5. CASE new = [merger[m] EXCEPT !.pc = "delete"]
    <3>1. merger[m].pr \in Prs /\ MyRow(m) \in Row
      BY <1>0, <1>10 DEF Commit, HandlerOK
    <3>2. merger'[m].pc = "delete" /\ merger'[m].pr = merger[m].pr
      BY <1>0, <2>3, <2>5 DEF Merger
    <3>3. pr'[merger[m].pr] = [MyRow(m) EXCEPT !.status = "merged"]
      BY <1>10, <3>1 DEF Commit, TypeOK, MyRow
    <3>4. pr'[merger[m].pr] \in Row
      BY <3>1, <3>3 DEF Row
    <3>5. QED BY <2>2, <3>1, <3>2, <3>4, RowSuffices
  <2>6. QED BY <2>1, <2>4, <2>5
<1>11. CASE DeleteBranch(m)
  <2>1. Others
    BY <1>11, OthersStayOK DEF DeleteBranch
  <2>2. Mine
    BY <1>11 DEF DeleteBranch, TypeOK, HandlerOK, IdleMerger, Holding
  <2>3. QED BY <2>1, <2>2
<1>12. QED
  <2>1. CASE Cancel(m) \/ Deadlock(m)
    BY <1>2, <2>1 DEF Cancel, Deadlock
  <2>2. CASE (LockAuthor(m) \/ CheckRules(m) \/ Resolve(m)) /\ Fail(m)
    BY <1>2, <2>2 DEF LockAuthor, CheckRules, Resolve
  <2>3. QED
    BY <1>1, <1>3, <1>4, <1>5, <1>7, <1>8, <1>9, <1>10, <1>11, <2>1, <2>2
       DEF MergeNext, Step

LEMMA InvInit == Init => PullInv
<1>1. SUFFICES ASSUME Init PROVE PullInv
  OBVIOUS
<1>2. TypeOK
  <2>1. /\ pr \in [Prs -> Row \cup {NoRow}]
        /\ merger \in [Mergers -> Merger]
        /\ edits \in 0 .. MaxEdits
    BY <1>1, IdleType, PullAssumption DEF Init
  <2>2. tip \in [Repos -> [Names -> Commits \cup {None}]]
    BY <1>1, PullAssumption DEF Init
  <2>3. history \in [Commits -> SUBSET Commits]
    BY <1>1, PullAssumption DEF Init
  <2>4. QED BY <1>1, <2>1, <2>2, <2>3 DEF Init, TypeOK
<1>3. LockInv
  BY <1>1 DEF Init, LockInv, HandlerOK, IdleMerger, Holding
<1>4. QED BY <1>2, <1>3 DEF PullInv

LEMMA InvStep == PullInv /\ [Next]_vars => PullInv'
<1>1. SUFFICES ASSUME PullInv, [Next]_vars PROVE PullInv'
  OBVIOUS
<1>2. CASE UserNext
  BY <1>1, <1>2, UserType, UserKeepsLocks DEF PullInv
<1>3. ASSUME NEW m \in Mergers, MergeNext(m) PROVE PullInv'
  BY <1>1, <1>3, MergeType, MergeKeepsLocks DEF PullInv
<1>4. CASE UNCHANGED vars
  <2>1. TypeOK'
    BY <1>1, <1>4 DEF PullInv, TypeOK, vars
  <2>2. LockInv'
    BY <1>1, <1>4 DEF PullInv, LockInv, HandlerOK, Holding, MyRow, vars
  <2>3. QED BY <2>1, <2>2 DEF PullInv
<1>5. QED BY <1>1, <1>2, <1>3, <1>4 DEF Next

\* Types, and the locks' invariant, hold in every reachable state.
THEOREM PullInvariant == Spec => []PullInv
BY InvInit, InvStep, PTL DEF Spec

\* TypeOK is an invariant.
THEOREM PullTypeCorrect == Spec => []TypeOK
BY PullInvariant, PTL DEF PullInv

\* What a merge read under FOR UPDATE stays true until it commits: users cannot
\* close, retarget or otherwise change the row, however the steps interleave.
THEOREM MergesSeeTheirRows == Spec => []MergeSeesItsRow
<1>1. PullInv => MergeSeesItsRow
  BY DEF PullInv, LockInv, HandlerOK, MergeSeesItsRow
<1>2. QED BY <1>1, PullInvariant, PTL

\* At most one handler is past the locking SELECT for a pull request, and for
\* the pull requests of an author.
THEOREM MergesExclude == Spec => []OneMergePerAuthor
<1>1. PullInv => OneMergePerAuthor
  <2>1. SUFFICES ASSUME PullInv, NEW m \in Mergers, NEW n \in Mergers,
                        merger[m].pc \in Holding, merger[n].pc \in Holding,
                        merger[m].pr = merger[n].pr \/ MyRow(m).author = MyRow(n).author
                 PROVE  m = n
    BY DEF OneMergePerAuthor
  <2>2. lock[MyRow(m).author] = m /\ lock[MyRow(n).author] = n
    BY <2>1 DEF PullInv, LockInv, HandlerOK
  <2>3. lock[merger[m].pr] = m /\ lock[merger[n].pr] = n
    BY <2>1 DEF PullInv, LockInv, HandlerOK
  <2>4. QED BY <2>1, <2>2, <2>3
<1>2. QED BY <1>1, PullInvariant, PTL
=============================================================================
