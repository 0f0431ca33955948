------------------------------- MODULE Import -------------------------------
(***************************************************************************)
(* The import of a repository from GitHub or GitLab: a goroutine of the    *)
(* server, which lives as long as the server, clones the repository,       *)
(* inserts its row, copies issues and pull requests as far as it can, and  *)
(* reports in Redis how it goes.  The row is inserted after the clone, the *)
(* other way round than when a repository is created.                      *)
(***************************************************************************)
EXTENDS Repos

CONSTANT Jobs \* bound: imports that are ever started

ASSUME ImportAssumption ==
    /\ None \notin RepoIds
    /\ None \notin {"running", "completed", "failed"}

VARIABLE job \* the imports: what is reported and, for the properties, the repository
             \* that was inserted, whether the last report was lost, and whether
             \* the goroutine panicked

importVars == <<job>>
-----------------------------------------------------------------------------
NoJob == [status |-> None, repo |-> None, lost |-> FALSE, panic |-> FALSE]

ImportInit == job = [j \in Jobs |-> NoJob]

\* The job's row with a report: an error of Redis is only logged.
Told(row, s) == {[row EXCEPT !.status = s, !.lost = FALSE], [row EXCEPT !.lost = TRUE]}

SetStatus(j, s) == \E row \in Told(job[j], s) : job' = [job EXCEPT ![j] = row]

StartImport(c) ==
    \E j \in Jobs, u \in Users, n \in RepoNames :
        /\ job[j] = NoJob /\ IsUser(u)
        /\ Arrive("imports", c, [op |-> "metadata", job |-> j, u |-> u, name |-> n])
        /\ SetStatus(j, "running")
        /\ UNCHANGED <<user, org, repoVars>>

\* A stage first reports that it has begun.
Stage(c, op) ==
    /\ Serving(c, op)
    /\ SetStatus(req[c].job, "running")

\* An error of the first three stages ends the import.
Fail(c) == Become(c, [op |-> "report", job |-> req[c].job, status |-> "failed"])

\* A panic is recovered, whatever the goroutine has done by then, and reported as
\* a failure.
Panic(c) ==
    /\ \E op \in {"metadata", "clone", "insert import", "copy"} : Serving(c, op)
    /\ job' = [job EXCEPT ![req[c].job].panic = TRUE]
    /\ Fail(c)
    /\ UNCHANGED <<user, org, repoVars>>

GetMetadata(c) ==
    /\ Stage(c, "metadata")
    /\ Go(c, "clone") \/ Fail(c)
    /\ UNCHANGED <<user, org, repoVars>>

\* git clone makes no directory where there is one.
CloneBare(c) ==
    /\ Stage(c, "clone")
    /\ LET q == req[c]
           path == <<user[q.u].name, q.name>> IN
        \/ \E r \in RepoIds :
            /\ IsUser(q.u) /\ dir[path] = None /\ repo[r] = NoRepo
            /\ dir' = [dir EXCEPT ![path] = r]
            /\ repo' = [repo EXCEPT ![r].was = TRUE]
            /\ UNCHANGED spoiled
            /\ Become(c, [op |-> "insert import", job |-> q.job, u |-> q.u,
                          name |-> q.name, repo |-> r])
        \/ Fail(c) /\ UNCHANGED repoVars
    /\ UNCHANGED <<user, org>>

\* Mutant: the goroutine returns when there is no such user, and says nothing.
CreateRepoInDBSilently(c) ==
    /\ Serving(c, "insert import")
    /\ LET q == req[c] IN
        \/ /\ IsUser(q.u) /\ NameIsFree(q.u, q.name)
           /\ repo' = [repo EXCEPT ![q.repo].owner = q.u, ![q.repo].name = q.name]
           /\ \E row \in Told(job[q.job], "running") :
                job' = [job EXCEPT ![q.job] = [row EXCEPT !.repo = q.repo]]
           /\ Become(c, [op |-> "copy", job |-> q.job, repo |-> q.repo])
        \/ /\ ~IsUser(q.u) \/ ~NameIsFree(q.u, q.name)
           /\ SetStatus(q.job, "running")
           /\ End(c) /\ UNCHANGED repo
    /\ UNCHANGED <<user, org, dir, spoiled>>

\* The user's name is looked up, and the row inserted.  If that fails, the clone
\* is left on disk.
CreateRepoInDB(c) ==
    /\ Serving(c, "insert import")
    /\ LET q == req[c] IN
        \/ /\ IsUser(q.u) /\ NameIsFree(q.u, q.name)
           /\ repo' = [repo EXCEPT ![q.repo].owner = q.u, ![q.repo].name = q.name]
           /\ \E row \in Told(job[q.job], "running") :
                job' = [job EXCEPT ![q.job] = [row EXCEPT !.repo = q.repo]]
           /\ Become(c, [op |-> "copy", job |-> q.job, repo |-> q.repo])
        \/ /\ ~IsUser(q.u) \/ ~NameIsFree(q.u, q.name)
           /\ SetStatus(q.job, "running")
           /\ Fail(c) /\ UNCHANGED repo
    /\ UNCHANGED <<user, org, dir, spoiled>>

\* The last issue or pull request is copied, or they could not be fetched.
CopyIssues(c) ==
    /\ Serving(c, "copy")
    /\ SetStatus(req[c].job, "running")
    /\ Become(c, [op |-> "report", job |-> req[c].job, status |-> "completed"])
    /\ UNCHANGED <<user, org, repoVars>>

Report(c) ==
    /\ Serving(c, "report")
    /\ SetStatus(req[c].job, req[c].status)
    /\ End(c)
    /\ UNCHANGED <<user, org, repoVars>>

ImportNext ==
    \E c \in Calls :
        \/ StartImport(c) \/ GetMetadata(c) \/ CloneBare(c) \/ CreateRepoInDB(c)
        \/ CopyIssues(c) \/ Report(c) \/ Panic(c)
-----------------------------------------------------------------------------
Importing(j) == \E c \in Calls : "job" \in DOMAIN req[c] /\ req[c].job = j

\* What the user is told is so: `completed' is said when a repository was
\* inserted, `failed' when none was, unless the goroutine panicked after that, and
\* `running' while a goroutine works on it.  Only a report that was lost, or the
\* server's exit, leaves it at `running'.
StatusIsTrue ==
    \A j \in Jobs :
        /\ job[j].status = "completed" => job[j].repo # None
        /\ job[j].status = "failed" => job[j].repo = None \/ job[j].panic
        /\ job[j].status = "running" => job[j].lost \/ Importing(j)
=============================================================================
