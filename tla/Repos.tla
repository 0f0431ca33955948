------------------------------- MODULE Repos --------------------------------
(***************************************************************************)
(* Repositories: a row in PostgreSQL and a directory on disk, under the    *)
(* owner's name and the repository's.  Nothing makes the two change        *)
(* together: each request changes the row first and then, by the names it  *)
(* has read before, the directory.                                         *)
(*                                                                         *)
(* A repository that an organization would own is refused by the foreign   *)
(* key of repositories.owner_id, which names users; nothing is changed.    *)
(***************************************************************************)
EXTENDS Requests

CONSTANTS
    RepoIds,
    RepoNames

VARIABLES
    repo,   \* the repositories rows: owner and name, by id
    dir,    \* the directories: whose repository is there, by owner's name and name
    spoiled \* for the property: the paths a repository was renamed from or to, or
            \* deleted at while the directory there was not its own

repoVars == <<repo, dir, spoiled>>
-----------------------------------------------------------------------------
NoRepo == [owner |-> None, name |-> None, was |-> FALSE]
GoneRepo == [NoRepo EXCEPT !.was = TRUE]

Paths == Names \X RepoNames

\* Deleting a user deletes the rows, and not the directories.
IsRepo(r) == repo[r].owner # None /\ IsUser(repo[r].owner)

PathIn(rows, r) == <<user[rows[r].owner].name, rows[r].name>>
Path(r) == PathIn(repo, r)

\* UNIQUE (owner_id, name)
NameIsFree(u, n) == \A r \in RepoIds : IsRepo(r) => repo[r].owner # u \/ repo[r].name # n

\* Repositories that are there at the start have their directories.
ReposInit ==
    /\ repo \in [RepoIds -> {NoRepo} \cup
                   [owner : Founders, name : RepoNames, was : {TRUE}]]
    /\ \A r, s \in RepoIds : IsRepo(r) /\ IsRepo(s) /\ Path(r) = Path(s) => r = s
    /\ dir = [p \in Paths |->
                IF \E r \in RepoIds : IsRepo(r) /\ Path(r) = p
                THEN CHOOSE r \in RepoIds : IsRepo(r) /\ Path(r) = p ELSE None]
    /\ spoiled = {}
-----------------------------------------------------------------------------
\* Of a mirror too; the owner's name is looked up.
CreateRepo(c) ==
    \E u \in {v \in Users : IsUser(v)}, n \in RepoNames, next \in {"idle", "clone mirror"} :
        /\ Arrive("repos", c, [op |-> "insert repo", u |-> u,
                               path |-> <<user[u].name, n>>, next |-> next])
        /\ UNCHANGED <<user, org, repoVars>>

InsertRepo(c) ==
    /\ Serving(c, "insert repo")
    /\ LET q == req[c]
           mayInsert == IsUser(q.u) /\ NameIsFree(q.u, q.path[2]) IN
        \/ \E r \in RepoIds :
            /\ mayInsert /\ repo[r] = NoRepo
            /\ repo' = [repo EXCEPT ![r].owner = q.u, ![r].name = q.path[2], ![r].was = TRUE]
            /\ Become(c, [op |-> "init bare", repo |-> r, path |-> q.path, next |-> q.next])
        \/ /\ ~mayInsert
           /\ End(c) /\ UNCHANGED repo
    /\ UNCHANGED <<user, org, dir, spoiled>>

\* A directory that is there is left alone, and the request fails: the row stays.
InitBare(c) ==
    /\ Serving(c, "init bare")
    /\ LET q == req[c] IN
        \/ /\ dir[q.path] = None
           /\ dir' = [dir EXCEPT ![q.path] = q.repo]
           /\ IF q.next = "idle" THEN End(c)
              ELSE Become(c, [op |-> q.next, repo |-> q.repo, path |-> q.path])
        \/ /\ dir[q.path] # None
           /\ End(c) /\ UNCHANGED dir
    /\ UNCHANGED <<user, org, repo, spoiled>>

\* Configure and InitialClone.  When one fails, the repository is deleted by the
\* name it was created under; that fails too when the client is gone, since the
\* statement is cancelled with the request.
CloneMirror(c) ==
    /\ Serving(c, "clone mirror")
    /\ \/ End(c)
       \/ Go(c, "delete repo")
    /\ UNCHANGED <<user, org, repoVars>>
-----------------------------------------------------------------------------
\* The requests of a repository's owner, who gives its path.  A new name may come
\* with it; then the repository's old name is read.
AsRepoOwner(c, op, n) ==
    \E r \in RepoIds :
        /\ IsRepo(r)
        /\ Arrive("repos", c, [op |-> op, repo |-> r, path |-> Path(r), name |-> n])
        /\ UNCHANGED <<user, org, repoVars>>

DeleteRepo(c) == AsRepoOwner(c, "delete repo", None)

\* The path a request reaches, unless the directory there is its repository's.
NotItsOwn(q) == IF dir[q.path] = q.repo THEN {} ELSE {q.path}

\* Mutant: nobody looks how many rows were deleted.
DeleteRepoRowBlindly(c) ==
    /\ Serving(c, "delete repo")
    /\ LET q == req[c] IN
        /\ repo' = [repo EXCEPT ![q.repo] = GoneRepo]
        /\ spoiled' = IF IsRepo(q.repo) THEN spoiled \cup NotItsOwn(q) ELSE spoiled
        /\ Become(c, [op |-> "remove dir", repo |-> q.repo, path |-> q.path])
    /\ UNCHANGED <<user, org, dir>>

DeleteRepoRow(c) ==
    /\ Serving(c, "delete repo")
    /\ LET q == req[c] IN
        \/ /\ IsRepo(q.repo)
           /\ repo' = [repo EXCEPT ![q.repo] = GoneRepo]
           /\ spoiled' = spoiled \cup NotItsOwn(q)
           /\ Become(c, [op |-> "remove dir", repo |-> q.repo, path |-> q.path])
        \/ /\ ~IsRepo(q.repo)
           /\ End(c) /\ UNCHANGED <<repo, spoiled>>
    /\ UNCHANGED <<user, org, dir>>

\* The owner's name is given as the client spells it: the row is found in any case,
\* the directory only in the right one.  Errors of the removal are not looked at.
RemoveDir(c) ==
    /\ Serving(c, "remove dir")
    /\ dir' \in {dir, [dir EXCEPT ![req[c].path] = None]}
    /\ End(c)
    /\ UNCHANGED <<user, org, repo, spoiled>>

UpdateRepo(c) == \E n \in RepoNames : AsRepoOwner(c, "rename repo", n)

RenameRow(c) ==
    /\ Serving(c, "rename repo")
    /\ LET q == req[c]
           u == repo[q.repo].owner
           mayRename == IsRepo(q.repo) /\ (NameIsFree(u, q.name) \/ repo[q.repo].name = q.name) IN
        \/ /\ mayRename
           /\ repo' = [repo EXCEPT ![q.repo].name = q.name]
           /\ IF q.name = q.path[2] THEN End(c) /\ UNCHANGED spoiled
              ELSE LET to == <<q.path[1], q.name>> IN
                   /\ spoiled' = spoiled \cup {q.path, to}
                   /\ Become(c, [op |-> "rename dir", path |-> q.path, to |-> to])
        \/ /\ ~mayRename
           /\ End(c) /\ UNCHANGED <<repo, spoiled>>
    /\ UNCHANGED <<user, org, dir>>

\* os.Rename fails if there is no such directory, or one of the new name.
RenameDir(c) ==
    /\ Serving(c, "rename dir")
    /\ LET q == req[c] IN
         dir' = IF dir[q.path] # None /\ dir[q.to] = None
                THEN [dir EXCEPT ![q.to] = dir[q.path], ![q.path] = None]
                ELSE dir
    /\ End(c)
    /\ UNCHANGED <<user, org, repo, spoiled>>

ReposNext ==
    \E c \in Calls :
        \/ CreateRepo(c) \/ InsertRepo(c) \/ InitBare(c) \/ CloneMirror(c)
        \/ DeleteRepo(c) \/ DeleteRepoRow(c) \/ RemoveDir(c)
        \/ UpdateRepo(c) \/ RenameRow(c) \/ RenameDir(c)
-----------------------------------------------------------------------------
\* While a repository keeps its path, its directory stays there, whatever is
\* created, imported and deleted under that path at the same time.  The exceptions
\* are what a renaming takes, and what is removed after a repository that was
\* deleted when the directory at its path was another's, or not there yet.
DirectoriesStay ==
    [][\A r \in RepoIds, p \in Paths :
          /\ IsRepo(r) /\ IsRepo(r)' /\ Path(r) = p /\ Path(r)' = p
          /\ dir[p] = r /\ dir'[p] # r
          => p \in spoiled']_<<req, user, repoVars>>
=============================================================================
