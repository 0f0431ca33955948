-------------------------------- MODULE Site --------------------------------
(***************************************************************************)
(* The server's components that share users, organizations and             *)
(* repositories, serving requests at the same time.  Deleting a user       *)
(* reaches into all of them; when the server exits, what is in the process *)
(* is lost, and what is in PostgreSQL, in Redis and on disk stays.         *)
(***************************************************************************)
EXTENDS Accounts, Membership, Import, RateLimit, Tracker

siteVars == <<left, req, user, org, accountVars, memberVars, repoVars, importVars,
              limitVars, hubVars, noticeVars, trackerVars>>

Init ==
    /\ RequestsInit /\ AccountsInit /\ MembershipInit /\ ReposInit /\ ImportInit
    /\ RateLimitInit /\ HubInit /\ NotificationsInit /\ TrackerInit

\* What requests about people, and the rate limiter, leave alone.
contentVars == <<repoVars, importVars, noticeVars, trackerVars, hubVars>>

\* The rows that refer to a user go with it; a repository does when IsRepo is asked.
DeleteUser(c) ==
    /\ DeleteAccount(c) /\ LeaveAll(req[c].u)
    /\ UNCHANGED <<contentVars, limitVars>>

Exit ==
    /\ Spend("exits")
    /\ req' = [c \in Calls |-> Idle]
    /\ adminCache' = [u \in Users |-> "none"]
    /\ pending' = [p \in Pendings |-> Unrecorded(p, Cardinality({c \in Calls : Tried(c, p)}))]
    /\ conn' = [k \in Conns |-> NoConn]
    /\ work' = Resting
    /\ job' = [j \in Jobs |-> [job[j] EXCEPT !.lost = @ \/ Importing(j)]]
    /\ forsaken' = forsaken \cup {k \in Keys : \E c \in Calls :
                                    Serving(c, "expire") /\ req[c].key = k}
    /\ UNCHANGED <<user, org, link, session, token, states, memberVars, repoVars,
                   count, expires, panicked, noticeVars, issue, failed>>

\* An issue of a repository that is being imported, with its comments.  Nobody who
\* is mentioned there is told; what cannot be stored becomes a warning.
CopyIssue(c) ==
    /\ Spend("copies") /\ Serving(c, "copy")
    /\ SetStatus(req[c].job, "running")
    /\ \E i \in IssueIds, x \in Texts :
        /\ IsRepo(req[c].repo) /\ issue[i] = NoIssue
        /\ issue' = [issue EXCEPT ![i] = [NoIssue EXCEPT !.repo = req[c].repo, !.text = x,
                                                         !.had = {x}]]
    /\ UNCHANGED <<req, user, org, repoVars, hubVars, noticeVars, work, failed>>

People ==
    \/ AccountsNext /\ UNCHANGED <<org, memberVars>>
    \/ MembershipNext /\ UNCHANGED accountVars

Connections ==
    \/ HubNext
    \/ \E u \in Users, k \in Conns : HandleWS(u, k)

Content ==
    \/ ReposNext /\ UNCHANGED <<importVars, hubVars, noticeVars, trackerVars>>
    \/ ImportNext /\ UNCHANGED <<hubVars, noticeVars, trackerVars>>
    \/ Connections /\ UNCHANGED <<repoVars, importVars, noticeVars, trackerVars>>
    \/ NotificationsNext /\ UNCHANGED <<importVars, trackerVars>>
    \/ TrackerNext /\ UNCHANGED importVars
    \/ \E c \in Calls : CopyIssue(c)

Next ==
    \/ People /\ UNCHANGED <<contentVars, limitVars>>
    \/ Content /\ UNCHANGED <<org, accountVars, memberVars, limitVars>>
    \/ RateLimitNext /\ UNCHANGED <<accountVars, memberVars, contentVars>>
    \/ \E c \in Calls : DeleteUser(c)
    \/ Exit

Spec == Init /\ [][Next]_siteVars
=============================================================================
