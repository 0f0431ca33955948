--------------------------- MODULE Notifications ----------------------------
(***************************************************************************)
(* Notifications: rows for mentioned users, unless they have turned them   *)
(* off, sent to their WebSocket connections too; preferences; watchers.    *)
(***************************************************************************)
EXTENDS Hub, Repos

CONSTANT NoticeIds \* bound: notifications

VARIABLES
    pref,    \* the notification_preferences rows: "on", "off", None if there is none
    notice,  \* the notifications rows: whose, and whether they were read
    watching \* the repo_watchers rows: <<user, repository>>

noticeVars == <<pref, notice, watching>>
-----------------------------------------------------------------------------
NoNotice == [user |-> None, read |-> FALSE]

NotificationsInit ==
    /\ pref = [u \in Users |-> None]
    /\ notice = [i \in NoticeIds |-> NoNotice]
    /\ watching = {}

\* One statement asks and inserts; then the hub is told.
CreateNotice(u) ==
    \E i \in NoticeIds :
        /\ notice[i] = NoNotice
        /\ notice' = [notice EXCEPT ![i].user = u]
        /\ SendToUser(u)

\* A goroutine of the request in whose text user u is mentioned.
ProcessMentions(c) ==
    /\ Serving(c, "mention")
    /\ LET u == req[c].u IN
         IF IsUser(u) /\ pref[u] # "off" THEN CreateNotice(u)
         ELSE UNCHANGED <<notice, hubVars>>
    /\ End(c)
    /\ UNCHANGED <<user, org, repoVars, pref, watching>>

UpdatePreferences(u) ==
    /\ AtOnce("notices") /\ IsUser(u)
    /\ \E x \in {"on", "off"} : pref' = [pref EXCEPT ![u] = x]
    /\ UNCHANGED <<user, org, repoVars, hubVars, notice, watching>>

MarkRead(i) ==
    /\ AtOnce("notices")
    /\ notice[i] # NoNotice /\ notice' = [notice EXCEPT ![i].read = TRUE]
    /\ UNCHANGED <<user, org, repoVars, hubVars, pref, watching>>

MarkAllRead(u) ==
    /\ AtOnce("notices")
    /\ notice' = [i \in NoticeIds |->
                    IF notice[i].user = u THEN [notice[i] EXCEPT !.read = TRUE] ELSE notice[i]]
    /\ UNCHANGED <<user, org, repoVars, hubVars, pref, watching>>

\* The repository is looked up first.
AskToWatch(c) ==
    \E u \in Users, r \in RepoIds, op \in {"watch", "unwatch"} :
        /\ user[u].was /\ IsRepo(r)
        /\ Arrive("notices", c, [op |-> op, u |-> u, repo |-> r])
        /\ UNCHANGED <<user, org, repoVars, hubVars, noticeVars>>

WatchRepo(c) ==
    /\ Serving(c, "watch")
    /\ LET q == req[c] IN
         watching' = IF IsUser(q.u) /\ IsRepo(q.repo)
                     THEN watching \cup {<<q.u, q.repo>>} ELSE watching
    /\ End(c)
    /\ UNCHANGED <<user, org, repoVars, hubVars, pref, notice>>

UnwatchRepo(c) ==
    /\ Serving(c, "unwatch")
    /\ watching' = watching \ {<<req[c].u, req[c].repo>>}
    /\ End(c)
    /\ UNCHANGED <<user, org, repoVars, hubVars, pref, notice>>

NotificationsNext ==
    \/ \E c \in Calls : ProcessMentions(c) \/ AskToWatch(c) \/ WatchRepo(c) \/ UnwatchRepo(c)
    \/ \E u \in Users : UpdatePreferences(u) \/ MarkAllRead(u)
    \/ \E i \in NoticeIds : MarkRead(i)
=============================================================================
