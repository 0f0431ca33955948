------------------------------ MODULE Tracker -------------------------------
(***************************************************************************)
(* Issues, whose text mentions users, and the worker that computes an      *)
(* embedding of every text.  The worker reads a batch of rows, asks a      *)
(* provider for the embeddings of their texts, and writes them one by one; *)
(* meanwhile rows are edited and deleted.  Titles and bodies, pull         *)
(* requests, commit messages and descriptions of repositories are treated  *)
(* alike.                                                                  *)
(***************************************************************************)
EXTENDS Notifications, SequencesExt

CONSTANTS
    IssueIds,
    Texts,
    Batch \* rows at a time; 50 in the code

ASSUME TrackerAssumption ==
    /\ Batch \in Nat \ {0}
    /\ None \notin Texts
    /\ IsFiniteSet(IssueIds)

VARIABLES
    issue, \* the issues rows: repository, text, the text its embedding is of, and,
           \* for the property, the texts it has had
    work,  \* what the worker does
    failed \* the embedding_failures rows

trackerVars == <<issue, work, failed>>
-----------------------------------------------------------------------------
NoIssue == [repo |-> None, text |-> None, embedding |-> None, had |-> {}]
Resting == [op |-> "rest"]

TrackerInit ==
    /\ issue = [i \in IssueIds |-> NoIssue]
    /\ work = Resting
    /\ failed = {}

\* Issues are deleted with their repository.
IsIssue(i) == issue[i].repo # None /\ IsRepo(issue[i].repo)

CreateIssue(c) ==
    \E r \in RepoIds, x \in Texts, m \in Users :
        /\ IsRepo(r)
        /\ Arrive("issues", c, [op |-> "insert issue", repo |-> r, text |-> x, mentions |-> m])
        /\ UNCHANGED <<user, org, repoVars, hubVars, noticeVars, trackerVars>>

InsertIssue(c) ==
    /\ Serving(c, "insert issue")
    /\ LET q == req[c] IN
        \/ \E i \in IssueIds :
            /\ IsRepo(q.repo) /\ issue[i] = NoIssue
            /\ issue' = [issue EXCEPT ![i] = [NoIssue EXCEPT !.repo = q.repo, !.text = q.text,
                                                             !.had = {q.text}]]
            /\ Become(c, [op |-> "mention", u |-> q.mentions])
        \/ ~IsRepo(q.repo) /\ End(c) /\ UNCHANGED issue
    /\ UNCHANGED <<user, org, repoVars, hubVars, noticeVars, work, failed>>

UpdateIssue(c) ==
    \E i \in IssueIds, x \in Texts :
        /\ IsIssue(i)
        /\ Arrive("issues", c, [op |-> "update issue", issue |-> i, text |-> x])
        /\ UNCHANGED <<user, org, repoVars, hubVars, noticeVars, trackerVars>>

\* The embedding stays that of the old text.
UpdateIssueRow(c) ==
    /\ Serving(c, "update issue")
    /\ LET i == req[c].issue
           x == req[c].text IN
         issue' = IF IsIssue(i)
                  THEN [issue EXCEPT ![i].text = x, ![i].had = @ \cup {x}] ELSE issue
    /\ End(c)
    /\ UNCHANGED <<user, org, repoVars, hubVars, noticeVars, work, failed>>
-----------------------------------------------------------------------------
\* The worker's steps.
ByWorker == UNCHANGED <<left, req, user, org, repoVars, hubVars, noticeVars>>

Missing == {i \in IssueIds : IsIssue(i) /\ issue[i].embedding = None}

\* The query: rows without an embedding, in no order.
SelectMissing ==
    /\ work = Resting /\ Spend("batches")
    /\ \E s \in SetToAllKPermutations(Missing) :
        /\ Len(s) = (IF Cardinality(Missing) < Batch THEN Cardinality(Missing) ELSE Batch)
        /\ Len(s) > 0
        /\ work' = [op |-> "embed", ids |-> s, texts |-> [k \in DOMAIN s |-> issue[s[k]].text]]
    /\ UNCHANGED <<req, user, org, repoVars, hubVars, noticeVars, issue, failed>>

\* The provider fails three times, or leaves out some of the texts.
EmbedFails ==
    /\ work.op = "embed"
    /\ failed' = failed \cup ToSet(work.ids)
    /\ work' = Resting
    /\ ByWorker /\ UNCHANGED issue

\* Mutant: the answers are taken in the order they come.
EmbedUnordered ==
    /\ work.op = "embed"
    /\ \E given \in SUBSET DOMAIN work.ids :
        LET answers == SetToSortSeq(given, <) IN
        work' = [op |-> "store", ids |-> work.ids,
                 texts |-> [k \in DOMAIN work.ids |->
                    IF k \in DOMAIN answers THEN work.texts[answers[k]] ELSE None]]
    /\ ByWorker /\ UNCHANGED <<issue, failed>>

\* An answer has the index of the text it is of.
Embed ==
    /\ work.op = "embed"
    /\ \E given \in SUBSET DOMAIN work.ids :
        work' = [op |-> "store", ids |-> work.ids,
                 texts |-> [k \in DOMAIN work.ids |->
                    IF k \in given THEN work.texts[k] ELSE None]]
    /\ ByWorker /\ UNCHANGED <<issue, failed>>

\* The next row: skipped, written if it is still there, or a failure is recorded.
StoreNext ==
    /\ work.op = "store"
    /\ LET i == Head(work.ids)
           x == Head(work.texts) IN
        \/ /\ issue' = IF IsIssue(i) /\ x # None
                       THEN [issue EXCEPT ![i].embedding = x] ELSE issue
           /\ UNCHANGED failed
        \/ /\ x # None /\ failed' = failed \cup {i}
           /\ UNCHANGED issue
    /\ work' = IF Len(work.ids) = 1 THEN Resting
               ELSE [work EXCEPT !.ids = Tail(@), !.texts = Tail(@)]
    /\ ByWorker

\* Five minutes are over: what is left fails, and recording that fails as well.
Deadline ==
    /\ work # Resting /\ work' = Resting
    /\ ByWorker /\ UNCHANGED <<issue, failed>>

TrackerNext ==
    \/ \E c \in Calls : CreateIssue(c) \/ InsertIssue(c) \/ UpdateIssue(c) \/ UpdateIssueRow(c)
    \/ SelectMissing \/ EmbedFails \/ Embed \/ StoreNext \/ Deadline
-----------------------------------------------------------------------------
\* However rows are edited or deleted while a batch is under way, and whatever the
\* provider leaves out, a row's embedding is of a text that this row has had.
EmbeddingIsOwn ==
    \A i \in IssueIds : issue[i].embedding # None => issue[i].embedding \in issue[i].had
=============================================================================
