----------------------------- MODULE SiteProofs -----------------------------
(***************************************************************************)
(* Theorems about Site, whatever requests of all kinds are served          *)
(* meanwhile: the WebSocket hub never panics and lists only connections    *)
(* that are served, the counters of the rate limiter expire, an embedding  *)
(* is of a text its row has had, the status of an import is true, and the  *)
(* directories of repositories stay.                                       *)
(***************************************************************************)
EXTENDS Site, FiniteSetTheorems, SequenceTheorems, TLAPS

-----------------------------------------------------------------------------
(* Requests: each component moves its own *)

AccountOps == {"create user", "session", "factor", "find link", "find mail", "link",
               "create linked", "setup", "enable", "use code", "clear", "verify", "count",
               "consume", "set admin", "delete user"}
MemberOps == {"create org", "delete org", "upsert", "remove", "delete member", "create team",
              "get team", "update team", "add to team", "drop from team", "delete team"}
RepoOps == {"insert repo", "init bare", "clone mirror", "delete repo", "remove dir",
            "rename repo", "rename dir"}
ImportOps == {"metadata", "clone", "insert import", "copy", "report"}
NoticeOps == {"mention", "watch", "unwatch"}
IssueOps == {"insert issue", "update issue", "mention"}

\* What a record says, whose handler goes on as it says.
Sound(r) ==
    /\ "op" \in DOMAIN r
    /\ r.op = "use code" => r.next \in {"consume", "clear"}
    /\ r.op = "get team" => r.then \in {"update team", "add to team", "drop from team"}
    /\ r.op = "upsert" => r.role \in {"owner", "member"}
    /\ r.op \in {"insert repo", "init bare"} => r.next \in {"idle", "clone mirror"}
    /\ r.op \in RepoOps \ {"insert repo", "rename dir"} => r.repo \in RepoIds
    /\ r.op = "clone mirror" => "repo" \in DOMAIN r
    /\ "job" \in DOMAIN r <=> r.op \in ImportOps
    /\ r.op \in ImportOps => r.job \in Jobs
    /\ r.op \in {"insert import", "copy"} => r.repo \in RepoIds
    /\ r.op = "report" => r.status \in {"completed", "failed"}

AllSound == DOMAIN req = Calls /\ \A c \in Calls : Sound(req[c])

\* At most one request moves, and it is a component's before and afterwards.
Hop(ops) ==
    \/ UNCHANGED req
    \/ \E c \in Calls : \E r :
          /\ req[c].op \in ops \cup {"idle"} /\ r.op \in ops \cup {"idle"}
          /\ Sound(r)
          /\ req' = [req EXCEPT ![c] = r]

LEMMA HopIsSound ==
    ASSUME AllSound, NEW ops, Hop(ops)
    PROVE  AllSound'
<1>1. CASE UNCHANGED req
  BY <1>1 DEF AllSound
<1>2. CASE ~UNCHANGED req
  <2>1. PICK c \in Calls : \E r : Sound(r) /\ req' = [req EXCEPT ![c] = r]
    BY <1>2 DEF Hop
  <2>2. PICK r : Sound(r) /\ req' = [req EXCEPT ![c] = r]
    BY <2>1
  <2>3. DOMAIN req' = Calls /\ \A d \in Calls : req'[d] = IF d = c THEN r ELSE req[d]
    BY <2>2 DEF AllSound
  <2>4. \A d \in Calls : Sound(req'[d])
    BY <2>2, <2>3 DEF AllSound
  <2>5. QED BY <2>3, <2>4 DEF AllSound, Sound, RepoOps, ImportOps
<1>3. QED BY <1>1, <1>2

\* The requests of other components stay.
LEMMA HopSpares ==
    ASSUME AllSound, NEW ops, Hop(ops), NEW c \in Calls
    PROVE  \/ req'[c] = req[c]
           \/ req[c].op \in ops \cup {"idle"} /\ req'[c].op \in ops \cup {"idle"}
BY DEF AllSound, Hop

LEMMA IdleIsSound == Sound(Idle) /\ Idle.op = "idle"
BY DEF Sound, Idle, RepoOps, ImportOps

LEMMA RestHops ==
    ASSUME NEW ops, UNCHANGED req
    PROVE  Hop(ops)
BY DEF Hop

LEMMA AtOnceHops ==
    ASSUME NEW ops, NEW k, AtOnce(k)
    PROVE  Hop(ops)
BY DEF AtOnce, Hop

LEMMA ArriveHops ==
    ASSUME NEW ops, NEW c \in Calls, NEW k, NEW r, Sound(r), r.op \in ops, Arrive(k, c, r)
    PROVE  Hop(ops)
BY IdleIsSound DEF Arrive, Hop

LEMMA BecomeHops ==
    ASSUME NEW ops, NEW c \in Calls, NEW r, req[c].op \in ops, Sound(r),
           r.op \in ops \cup {"idle"}, Become(c, r)
    PROVE  Hop(ops)
BY DEF Become, Hop

LEMMA EndHops ==
    ASSUME NEW ops, NEW c \in Calls, req[c].op \in ops, End(c)
    PROVE  Hop(ops)
BY IdleIsSound, BecomeHops DEF End

\* Records of the other operations are sound whatever they hold.
Telling == {"use code", "get team", "upsert"} \cup RepoOps \cup ImportOps

LEMMA PlainIsSound ==
    ASSUME NEW r, "op" \in DOMAIN r, r.op \notin Telling, "job" \notin DOMAIN r
    PROVE  Sound(r)
BY DEF Sound, Telling, RepoOps, ImportOps

LEMMA GoHops ==
    ASSUME AllSound, NEW ops, NEW c \in Calls, NEW op \in ops, req[c].op \in ops,
           req[c].op \notin ImportOps, op \notin Telling, Go(c, op)
    PROVE  Hop(ops)
<1> DEFINE r == [req[c] EXCEPT !.op = op]
<1>1. "op" \in DOMAIN req[c] /\ "job" \notin DOMAIN req[c]
  BY DEF AllSound, Sound
<1>2. r.op = op /\ "op" \in DOMAIN r /\ "job" \notin DOMAIN r
  BY <1>1
<1>3. Sound(r)
  BY <1>2, PlainIsSound
<1>4. Become(c, r)
  BY DEF Go
<1> HIDE DEF r
<1>5. QED BY <1>2, <1>3, <1>4, BecomeHops
-----------------------------------------------------------------------------
(* Accounts *)

LEMMA WithCodeIsSound ==
    ASSUME NEW u, NEW k, NEW p, NEW next \in {"consume", "clear"}
    PROVE  Sound(WithCode(u, k, p, next)) /\ WithCode(u, k, p, next).op \in {"use code", next}
<1>1. CASE k = "authenticator"
  BY <1>1 DEF WithCode, Sound, RepoOps, ImportOps
<1>2. CASE k # "authenticator"
  BY <1>2 DEF WithCode, Sound, RepoOps, ImportOps
<1>3. QED
  BY <1>1, <1>2

LEMMA AccountsHop ==
    ASSUME AllSound, AccountsNext
    PROVE  Hop(AccountOps)
<1>a. \A u, v, w :
        /\ Sound([op |-> "create user", u |-> u, name |-> v, mail |-> w])
        /\ Sound([op |-> "session", u |-> u])
        /\ Sound([op |-> "factor", u |-> u])
        /\ Sound([op |-> "find link", github |-> u, mail |-> v])
        /\ Sound([op |-> "link", github |-> u, u |-> v])
        /\ Sound([op |-> "setup", u |-> u])
        /\ Sound([op |-> "enable", u |-> u])
        /\ Sound([op |-> "verify", p |-> u, seen |-> v])
        /\ Sound([op |-> "set admin", by |-> u, u |-> v])
        /\ Sound([op |-> "delete user", by |-> u, u |-> v])
  BY DEF Sound, RepoOps, ImportOps
<1>b. /\ "create user" \in AccountOps /\ "session" \in AccountOps /\ "factor" \in AccountOps
      /\ "find link" \in AccountOps /\ "find mail" \in AccountOps /\ "link" \in AccountOps
      /\ "create linked" \in AccountOps /\ "setup" \in AccountOps /\ "enable" \in AccountOps
      /\ "use code" \in AccountOps /\ "clear" \in AccountOps /\ "verify" \in AccountOps
      /\ "count" \in AccountOps /\ "consume" \in AccountOps /\ "set admin" \in AccountOps
      /\ "delete user" \in AccountOps
  BY DEF AccountOps
<1>c. /\ "session" \notin Telling /\ "find mail" \notin Telling
      /\ "create linked" \notin Telling /\ "count" \notin Telling
      /\ "factor" \notin ImportOps /\ "find link" \notin ImportOps
      /\ "find mail" \notin ImportOps /\ "verify" \notin ImportOps
  BY DEF Telling, RepoOps, ImportOps
<1> USE <1>a, <1>b, ArriveHops, BecomeHops, EndHops
<1>1. ASSUME NEW c \in Calls, Register(c) \/ CreateUser(c) \/ CreateSession(c)
      PROVE  Hop(AccountOps)
  BY <1>1 DEF Register, CreateUser, CreateSession, Serving
<1>2. ASSUME NEW c \in Calls, Login(c) \/ AskFactor(c)
      PROVE  Hop(AccountOps)
  BY <1>2, <1>c, GoHops DEF Login, AskFactor, Serving
<1>3. ASSUME NEW c \in Calls, GitHubCallback(c) \/ FindLink(c) \/ FindMail(c)
      PROVE  Hop(AccountOps)
  BY <1>3, <1>c, GoHops DEF GitHubCallback, FindLink, FindMail, Serving
<1>4. ASSUME NEW c \in Calls, Link(c) \/ CreateLinked(c)
      PROVE  Hop(AccountOps)
  BY <1>4 DEF Link, CreateLinked, Serving
<1>5. ASSUME NEW c \in Calls, BeginSetup(c) \/ StoreSetup(c) \/ Enable(c) \/ StoreEnabled(c)
      PROVE  Hop(AccountOps)
  BY <1>5 DEF BeginSetup, StoreSetup, Enable, StoreEnabled, Serving
<1>6. ASSUME NEW c \in Calls, Disable(c) \/ ClearTOTP(c)
      PROVE  Hop(AccountOps)
  <2>1. ASSUME NEW u, NEW k
        PROVE  /\ Sound(WithCode(u, k, None, "clear"))
               /\ WithCode(u, k, None, "clear").op \in AccountOps
    BY WithCodeIsSound
  <2>2. QED
    BY <1>6, <2>1 DEF Disable, ClearTOTP, Serving
<1>7. ASSUME NEW c \in Calls, UseCode(c)
      PROVE  Hop(AccountOps)
  <2>0. Sound(req[c]) /\ req[c].op = "use code"
    BY <1>7 DEF UseCode, Serving, AllSound
  <2>1. req[c].op = "use code" /\ req[c].next \in {"consume", "clear"}
    BY <2>0 DEF Sound
  <2>2. Sound([op |-> req[c].next, u |-> req[c].u, p |-> req[c].p])
    BY <2>1 DEF Sound, RepoOps, ImportOps
  <2>3. req[c].op \in AccountOps /\ req[c].next \in AccountOps
    BY <2>1
  <2>4. QED
    BY <1>7, <2>2, <2>3 DEF UseCode
<1>8. ASSUME NEW c \in Calls, Verify(c)
      PROVE  Hop(AccountOps)
  <2>1. ASSUME NEW u, NEW k, NEW p
        PROVE  /\ Sound(WithCode(u, k, p, "consume"))
               /\ WithCode(u, k, p, "consume").op \in AccountOps
    BY WithCodeIsSound
  <2>2. req[c].op = "verify" /\ "verify" \in AccountOps /\ "count" \in AccountOps
    BY <1>8, <1>b DEF Verify, Serving
  <2>3. \/ \E u, k, p : Become(c, WithCode(u, k, p, "consume"))
        \/ Go(c, "count")
        \/ End(c)
    BY <1>8 DEF Verify
  <2>4. CASE \E u, k, p : Become(c, WithCode(u, k, p, "consume"))
    <3>1. PICK u, k, p : Become(c, WithCode(u, k, p, "consume"))
      BY <2>4
    <3>2. QED
      BY <3>1, <2>1, <2>2, BecomeHops
  <2>5. CASE Go(c, "count")
    BY <2>2, <2>5, <1>c, GoHops
  <2>6. CASE End(c)
    BY <2>2, <2>6, EndHops
  <2>7. QED
    BY <2>3, <2>4, <2>5, <2>6
<1>9. ASSUME NEW c \in Calls, Verify2FA(c) \/ IncrementAttempts(c)
      PROVE  Hop(AccountOps)
  <2>1. CASE Verify2FA(c)
    BY <2>1 DEF Verify2FA
  <2>2. CASE IncrementAttempts(c)
    BY <2>2 DEF IncrementAttempts, Serving
  <2>3. QED
    BY <1>9, <2>1, <2>2
<1>10. ASSUME NEW c \in Calls, ConsumePendingAuth(c)
       PROVE  Hop(AccountOps)
  <2>1. req[c].op = "consume" /\ Become(c, [op |-> "session", u |-> req[c].u])
    BY <1>10 DEF ConsumePendingAuth, Serving
  <2>2. Sound([op |-> "session", u |-> req[c].u])
    BY <1>a
  <2>3. [op |-> "session", u |-> req[c].u].op = "session"
    OBVIOUS
  <2>4. QED
    BY <2>1, <2>2, <2>3, <1>b, BecomeHops
<1>11. ASSUME NEW c \in Calls, RequireAdmin(c) \/ UpdateUser(c) \/ DeleteRefused(c)
       PROVE  Hop(AccountOps)
  <2>1. CASE RequireAdmin(c)
    <3>1. \E u, v \in Users : \/ Arrive("admin", c, [op |-> "set admin", by |-> u, u |-> v])
                             \/ Arrive("admin", c, [op |-> "delete user", by |-> u, u |-> v])
      BY <2>1 DEF RequireAdmin
    <3>2. QED
      BY <3>1
  <2>2. CASE UpdateUser(c) \/ DeleteRefused(c)
    BY <2>2 DEF UpdateUser, DeleteRefused, Serving
  <2>3. QED
    BY <1>11, <2>1, <2>2
<1>12. ASSUME NEW u \in Users,
              Logout(u) \/ CreateToken(u) \/ DeleteToken(u) \/ RefuseAdmin(u) \/ CacheExpires(u)
       PROVE  Hop(AccountOps)
  BY <1>12, RestHops, AtOnceHops DEF Logout, CreateToken, DeleteToken, RefuseAdmin, CacheExpires
<1>13. ASSUME GitHubLogin \/ GitHubDenies
       PROVE  Hop(AccountOps)
  BY <1>13, AtOnceHops DEF GitHubLogin, GitHubDenies
<1>14. QED
  BY <1>1, <1>2, <1>3, <1>4, <1>5, <1>6, <1>7, <1>8, <1>9, <1>10, <1>11, <1>12, <1>13
     DEF AccountsNext
-----------------------------------------------------------------------------
(* Organizations and teams *)

LEMMA LookAtMemberHops ==
    ASSUME NEW c \in Calls, LookAtMember(c)
    PROVE  Hop(MemberOps)
<1>1. req[c].op \in MemberOps
  BY DEF LookAtMember, Serving, MemberOps
<1>2. CASE End(c)
  BY <1>1, <1>2, EndHops
<1>3. CASE ~End(c)
  <2>1. PICK o \in OrgIds : Become(c, [op |-> "delete member", o |-> o, u |-> req[c].u])
    BY <1>3 DEF LookAtMember, OrgsNamed
  <2>2. Sound([op |-> "delete member", o |-> o, u |-> req[c].u])
    BY DEF Sound, RepoOps, ImportOps
  <2>3. "delete member" \in MemberOps
    BY DEF MemberOps
  <2>4. QED
    BY <1>1, <2>1, <2>2, <2>3, BecomeHops
<1>4. QED
  BY <1>2, <1>3

LEMMA MembershipHop ==
    ASSUME AllSound, MembershipNext
    PROVE  Hop(MemberOps)
<1> PICK c \in Calls :
       \/ CreateOrg(c) \/ InsertOrg(c) \/ DeleteOrg(c) \/ DeleteOrgRow(c)
       \/ AddMember(c) \/ UpsertMember(c)
       \/ RemoveMember(c) \/ LookAtMember(c) \/ DeleteMember(c)
       \/ CreateTeam(c) \/ InsertTeam(c) \/ ChangeTeam(c) \/ GetTeam(c)
       \/ UpdateTeam(c) \/ AddTeamMember(c) \/ RemoveTeamMember(c)
       \/ DeleteTeam(c) \/ DeleteTeamRow(c)
  BY DEF MembershipNext
<1>a. \A o, u, n :
        /\ Sound([op |-> "create org", name |-> n, u |-> u])
        /\ Sound([op |-> "delete org", name |-> n])
        /\ Sound([op |-> "upsert", name |-> n, u |-> u, role |-> "owner"])
        /\ Sound([op |-> "upsert", name |-> n, u |-> u, role |-> "member"])
        /\ Sound([op |-> "remove", name |-> n, u |-> u])
  BY DEF Sound, RepoOps, ImportOps
<1>b. \A o, n :
        /\ Sound([[op |-> "create team", o |-> None, name |-> n] EXCEPT !.o = o])
        /\ Sound([[op |-> "delete team", o |-> None, name |-> n] EXCEPT !.o = o])
  BY DEF Sound, RepoOps, ImportOps
<1>c. /\ "create org" \in MemberOps /\ "delete org" \in MemberOps /\ "upsert" \in MemberOps
      /\ "remove" \in MemberOps /\ "delete member" \in MemberOps
      /\ "create team" \in MemberOps /\ "get team" \in MemberOps
      /\ "update team" \in MemberOps /\ "add to team" \in MemberOps
      /\ "drop from team" \in MemberOps /\ "delete team" \in MemberOps
  BY DEF MemberOps
<1> USE <1>c, ArriveHops, BecomeHops, EndHops
<1>1. ASSUME NEW k, NEW r, Sound(r), r.op \in MemberOps, AsOwner(k, c, r)
      PROVE  Hop(MemberOps)
  BY <1>1 DEF AsOwner
<1>2. ASSUME NEW r, \A o \in OrgIds : Sound([r EXCEPT !.o = o]) /\ [r EXCEPT !.o = o].op \in MemberOps,
             AsTeamOwner(c, r)
      PROVE  Hop(MemberOps)
  BY <1>2 DEF AsTeamOwner
<1>3. CASE CreateOrg(c) \/ DeleteOrg(c)
  BY <1>1, <1>3, <1>a DEF CreateOrg, DeleteOrg
<1>4. CASE AddMember(c)
  <2> PICK n \in Names, u \in Users, x \in {"owner", "member"} :
           AsOwner("orgs", c, [op |-> "upsert", name |-> n, u |-> u, role |-> x])
    BY <1>4 DEF AddMember
  <2>1. Sound([op |-> "upsert", name |-> n, u |-> u, role |-> x])
    BY <1>a
  <2>2. QED
    BY <1>1, <2>1
<1>5. CASE RemoveMember(c)
  BY <1>1, <1>5, <1>a DEF RemoveMember
<1>6. CASE \/ InsertOrg(c) \/ DeleteOrgRow(c) \/ UpsertMember(c) \/ DeleteMember(c)
           \/ InsertTeam(c) \/ UpdateTeam(c) \/ AddTeamMember(c)
           \/ RemoveTeamMember(c) \/ DeleteTeamRow(c)
  <2>1. End(c) /\ req[c].op \in MemberOps
    BY <1>6 DEF InsertOrg, DeleteOrgRow, UpsertMember, DeleteMember, InsertTeam, UpdateTeam,
                AddTeamMember, RemoveTeamMember, DeleteTeamRow, Serving
  <2>2. QED
    BY <2>1
<1>9. CASE CreateTeam(c) \/ DeleteTeam(c)
  <2>1. PICK n \in TeamNames :
           \/ AsTeamOwner(c, [op |-> "create team", o |-> None, name |-> n])
           \/ AsTeamOwner(c, [op |-> "delete team", o |-> None, name |-> n])
    BY <1>9 DEF CreateTeam, DeleteTeam
  <2>2. CASE AsTeamOwner(c, [op |-> "create team", o |-> None, name |-> n])
    BY <1>2, <1>b, <2>2
  <2>3. CASE AsTeamOwner(c, [op |-> "delete team", o |-> None, name |-> n])
    BY <1>2, <1>b, <2>3
  <2>4. QED
    BY <2>1, <2>2, <2>3
<1>7. CASE ChangeTeam(c)
  <2> DEFINE rec(n, x) == [op |-> "get team", o |-> None, name |-> n,
                           then |-> x[1], new |-> x[2], u |-> x[3]]
  <2>1. PICK n, m \in TeamNames, u \in Users :
          \E x \in {<<"update team", m, None>>, <<"add to team", n, u>>, <<"drop from team", n, u>>} :
             AsTeamOwner(c, rec(n, x))
    BY <1>7 DEF ChangeTeam
  <2>2. PICK x \in {<<"update team", m, None>>, <<"add to team", n, u>>, <<"drop from team", n, u>>} :
             AsTeamOwner(c, rec(n, x))
    BY <2>1
  <2>3. x[1] \in {"update team", "add to team", "drop from team"}
    <3>1. CASE x = <<"update team", m, None>>
      BY <3>1
    <3>2. CASE x = <<"add to team", n, u>>
      BY <3>2
    <3>3. CASE x = <<"drop from team", n, u>>
      BY <3>3
    <3>4. QED
      BY <2>2, <3>1, <3>2, <3>3
  <2>4. ASSUME NEW o
        PROVE  Sound([rec(n, x) EXCEPT !.o = o])
    BY <2>3 DEF Sound, RepoOps, ImportOps
  <2>5. ASSUME NEW o
        PROVE  [rec(n, x) EXCEPT !.o = o].op \in MemberOps
    OBVIOUS
  <2> HIDE DEF rec
  <2>6. QED
    BY <1>2, <2>2, <2>4, <2>5
<1>8. CASE GetTeam(c)
  <2>1. /\ req[c].op = "get team"
        /\ req[c].then \in {"update team", "add to team", "drop from team"}
    BY <1>8 DEF GetTeam, Serving, AllSound, Sound
  <2>2. ASSUME NEW t
        PROVE  Sound([op |-> req[c].then, t |-> t, new |-> req[c].new, u |-> req[c].u])
    BY <2>1 DEF Sound, RepoOps, ImportOps
  <2>3. req[c].then \in MemberOps
    BY <2>1
  <2>4. QED
    BY <1>8, <2>1, <2>2, <2>3 DEF GetTeam
<1>10. QED
  BY <1>3, <1>4, <1>5, <1>6, <1>8, <1>7, <1>9, LookAtMemberHops
-----------------------------------------------------------------------------
(* Repositories, imports, notifications, issues, counters *)

LEMMA ReposHop ==
    ASSUME AllSound, ReposNext
    PROVE  Hop(RepoOps)
<1>a. /\ "insert repo" \in RepoOps /\ "init bare" \in RepoOps /\ "clone mirror" \in RepoOps
      /\ "delete repo" \in RepoOps /\ "remove dir" \in RepoOps
      /\ "rename repo" \in RepoOps /\ "rename dir" \in RepoOps
  BY DEF RepoOps
<1> USE <1>a, ArriveHops, BecomeHops, EndHops
<1>1. ASSUME NEW c \in Calls, NEW op \in {"delete repo", "rename repo"}, NEW n, AsRepoOwner(c, op, n)
      PROVE  Hop(RepoOps)
  <2>1. ASSUME NEW r \in RepoIds
        PROVE  Sound([op |-> op, repo |-> r, path |-> Path(r), name |-> n])
    BY DEF Sound, RepoOps, ImportOps
  <2>2. op \in RepoOps
    BY <1>a
  <2>3. QED
    BY <1>1, <2>1, <2>2 DEF AsRepoOwner
<1>2. ASSUME NEW c \in Calls, CreateRepo(c)
      PROVE  Hop(RepoOps)
  <2> PICK u \in Users, n \in RepoNames, next \in {"idle", "clone mirror"} :
         Arrive("repos", c, [op |-> "insert repo", u |-> u, path |-> <<user[u].name, n>>,
                             next |-> next])
    BY <1>2 DEF CreateRepo
  <2>1. Sound([op |-> "insert repo", u |-> u, path |-> <<user[u].name, n>>, next |-> next])
    BY DEF Sound, RepoOps, ImportOps
  <2>2. QED
    BY <2>1
<1>3. ASSUME NEW c \in Calls, InsertRepo(c)
      PROVE  Hop(RepoOps)
  <2>1. req[c].op = "insert repo" /\ req[c].next \in {"idle", "clone mirror"}
    BY <1>3 DEF InsertRepo, Serving, AllSound, Sound
  <2>2. ASSUME NEW r \in RepoIds, NEW p
        PROVE  Sound([op |-> "init bare", repo |-> r, path |-> p, next |-> req[c].next])
    BY <2>1 DEF Sound, RepoOps, ImportOps
  <2>3. QED
    BY <1>3, <2>1, <2>2 DEF InsertRepo
<1>4. ASSUME NEW c \in Calls, InitBare(c)
      PROVE  Hop(RepoOps)
  <2>1. /\ req[c].op = "init bare" /\ req[c].next \in {"idle", "clone mirror"}
        /\ req[c].repo \in RepoIds
    BY <1>4 DEF InitBare, Serving, AllSound, Sound, RepoOps
  <2>2. ASSUME NEW p
        PROVE  Sound([op |-> "clone mirror", repo |-> req[c].repo, path |-> p])
    BY <2>1 DEF Sound, RepoOps, ImportOps
  <2>3. QED
    BY <1>4, <2>1, <2>2 DEF InitBare
<1>5. ASSUME NEW c \in Calls, CloneMirror(c)
      PROVE  Hop(RepoOps)
  <2> DEFINE r == [req[c] EXCEPT !.op = "delete repo"]
  <2>0. /\ Sound(req[c]) /\ req[c].op = "clone mirror"
        /\ "clone mirror" \in RepoOps \ {"insert repo", "rename dir"}
        /\ "clone mirror" \notin ImportOps
    BY <1>5 DEF CloneMirror, Serving, AllSound, RepoOps, ImportOps
  <2>1. /\ req[c].repo \in RepoIds
        /\ "op" \in DOMAIN req[c] /\ "repo" \in DOMAIN req[c] /\ "job" \notin DOMAIN req[c]
    BY <2>0 DEF Sound
  <2>2. Sound(r) /\ r.op = "delete repo"
    BY <2>1 DEF Sound, RepoOps, ImportOps
  <2>3. End(c) \/ Become(c, r)
    BY <1>5 DEF CloneMirror, Go
  <2> HIDE DEF r
  <2>4. QED
    BY <2>0, <2>2, <2>3
<1>6. ASSUME NEW c \in Calls, RemoveDir(c) \/ RenameDir(c)
      PROVE  Hop(RepoOps)
  BY <1>6 DEF RemoveDir, RenameDir, Serving
<1>7. ASSUME NEW c \in Calls, DeleteRepo(c) \/ UpdateRepo(c)
      PROVE  Hop(RepoOps)
  BY <1>1, <1>7 DEF DeleteRepo, UpdateRepo
<1>8. ASSUME NEW c \in Calls, DeleteRepoRow(c)
      PROVE  Hop(RepoOps)
  <2>1. req[c].op = "delete repo" /\ req[c].repo \in RepoIds
    BY <1>8 DEF DeleteRepoRow, Serving, AllSound, Sound, RepoOps
  <2>2. Sound([op |-> "remove dir", repo |-> req[c].repo, path |-> req[c].path])
    BY <2>1 DEF Sound, RepoOps, ImportOps
  <2>3. QED
    BY <1>8, <2>1, <2>2 DEF DeleteRepoRow
<1>9. ASSUME NEW c \in Calls, RenameRow(c)
      PROVE  Hop(RepoOps)
  <2>1. ASSUME NEW p, NEW to
        PROVE  Sound([op |-> "rename dir", path |-> p, to |-> to])
    BY DEF Sound, RepoOps, ImportOps
  <2>2. QED
    BY <1>9, <2>1 DEF RenameRow, Serving
<1>10. QED
  BY <1>2, <1>3, <1>4, <1>5, <1>6, <1>7, <1>8, <1>9 DEF ReposNext

LEMMA ImportHop ==
    ASSUME AllSound, ImportNext
    PROVE  Hop(ImportOps)
<1>a. /\ "metadata" \in ImportOps /\ "clone" \in ImportOps /\ "insert import" \in ImportOps
      /\ "copy" \in ImportOps /\ "report" \in ImportOps
  BY DEF ImportOps
<1>b. ASSUME NEW j \in Jobs, NEW r \in RepoIds
      PROVE  /\ \A u, n : /\ Sound([op |-> "metadata", job |-> j, u |-> u, name |-> n])
                          /\ Sound([op |-> "insert import", job |-> j, u |-> u, name |-> n,
                                    repo |-> r])
             /\ Sound([op |-> "copy", job |-> j, repo |-> r])
  BY DEF Sound, RepoOps, ImportOps
<1>c. ASSUME NEW j \in Jobs
      PROVE  /\ \A u, n : Sound([op |-> "metadata", job |-> j, u |-> u, name |-> n])
             /\ Sound([op |-> "report", job |-> j, status |-> "completed"])
             /\ Sound([op |-> "report", job |-> j, status |-> "failed"])
  BY DEF Sound, RepoOps, ImportOps
<1>d. ASSUME NEW c \in Calls, req[c].op \in ImportOps
      PROVE  req[c].job \in Jobs
  BY <1>d DEF AllSound, Sound
<1> USE <1>a, ArriveHops, BecomeHops, EndHops
<1>1. ASSUME NEW c \in Calls, req[c].op \in ImportOps, Fail(c)
      PROVE  Hop(ImportOps)
  BY <1>1, <1>c, <1>d DEF Fail
<1>2. ASSUME NEW c \in Calls, StartImport(c)
      PROVE  Hop(ImportOps)
  BY <1>2, <1>c DEF StartImport
<1>3. ASSUME NEW c \in Calls, GetMetadata(c)
      PROVE  Hop(ImportOps)
  <2> DEFINE r == [req[c] EXCEPT !.op = "clone"]
  <2>1. req[c].op = "metadata"
    BY <1>3 DEF GetMetadata, Stage, Serving
  <2>2. req[c].job \in Jobs /\ "op" \in DOMAIN req[c] /\ "job" \in DOMAIN req[c]
    BY <2>1 DEF AllSound, Sound
  <2>3. Sound(r) /\ r.op = "clone"
    BY <2>1, <2>2 DEF Sound, RepoOps, ImportOps
  <2>4. Fail(c) \/ Become(c, r)
    BY <1>3 DEF GetMetadata, Go
  <2> HIDE DEF r
  <2>5. QED
    BY <1>1, <2>1, <2>3, <2>4
<1>4. ASSUME NEW c \in Calls, CloneBare(c) \/ CreateRepoInDB(c)
      PROVE  Hop(ImportOps)
  <2>1. /\ req[c].op \in {"clone", "insert import"} /\ req[c].job \in Jobs
        /\ req[c].op = "insert import" => req[c].repo \in RepoIds
    BY <1>4 DEF CloneBare, CreateRepoInDB, Stage, Serving, AllSound, Sound
  <2>2. req[c].op \in ImportOps
    BY <2>1
  <2>3. CASE CloneBare(c)
    <3>1. \/ Fail(c)
          \/ \E r \in RepoIds :
               Become(c, [op |-> "insert import", job |-> req[c].job, u |-> req[c].u,
                          name |-> req[c].name, repo |-> r])
      BY <2>3 DEF CloneBare
    <3>2. ASSUME NEW r \in RepoIds
          PROVE  Sound([op |-> "insert import", job |-> req[c].job, u |-> req[c].u,
                        name |-> req[c].name, repo |-> r])
      BY <2>1, <1>b
    <3>3. QED
      BY <2>2, <3>1, <3>2, <1>1
  <2>4. CASE CreateRepoInDB(c)
    <3>1. req[c].repo \in RepoIds
      BY <2>1, <2>4 DEF CreateRepoInDB, Stage, Serving
    <3>2. QED
      BY <2>1, <2>2, <2>4, <3>1, <1>1, <1>b DEF CreateRepoInDB
  <2>5. QED
    BY <1>4, <2>3, <2>4
<1>5. ASSUME NEW c \in Calls, CopyIssues(c) \/ Report(c)
      PROVE  Hop(ImportOps)
  BY <1>5, <1>c, <1>d DEF CopyIssues, Report, Serving
<1>6. ASSUME NEW c \in Calls, Panic(c)
      PROVE  Hop(ImportOps)
  BY <1>1, <1>6 DEF Panic, Serving
<1>7. QED
  BY <1>2, <1>3, <1>4, <1>5, <1>6 DEF ImportNext

LEMMA ConnectionsHop ==
    ASSUME Connections
    PROVE  UNCHANGED req
BY DEF Connections, HubNext, Pump, HandleWS, AtOnce, ByGoroutine, ClientLeaves, Unregister,
       WriteMessage, PingFails, GiveUp, WriterEnds

LEMMA NotificationsHop ==
    ASSUME NotificationsNext
    PROVE  Hop(NoticeOps)
<1>a. "mention" \in NoticeOps /\ "watch" \in NoticeOps /\ "unwatch" \in NoticeOps
  BY DEF NoticeOps
<1>1. ASSUME NEW c \in Calls, AskToWatch(c)
      PROVE  Hop(NoticeOps)
  <2> PICK u \in Users, r \in RepoIds, op \in {"watch", "unwatch"} :
         Arrive("notices", c, [op |-> op, u |-> u, repo |-> r])
    BY <1>1 DEF AskToWatch
  <2>1. Sound([op |-> op, u |-> u, repo |-> r])
    BY DEF Sound, RepoOps, ImportOps
  <2>2. op \in NoticeOps
    BY <1>a
  <2>3. QED
    BY <2>1, <2>2, ArriveHops
<1>2. ASSUME NEW c \in Calls, ProcessMentions(c) \/ WatchRepo(c) \/ UnwatchRepo(c)
      PROVE  Hop(NoticeOps)
  BY <1>2, <1>a, EndHops DEF ProcessMentions, WatchRepo, UnwatchRepo, Serving
<1>3. QED
  BY <1>1, <1>2, AtOnceHops DEF NotificationsNext, UpdatePreferences, MarkAllRead, MarkRead

LEMMA TrackerHop ==
    ASSUME TrackerNext
    PROVE  Hop(IssueOps)
<1>a. "insert issue" \in IssueOps /\ "update issue" \in IssueOps /\ "mention" \in IssueOps
  BY DEF IssueOps
<1>b. \A r, x, m : /\ Sound([op |-> "insert issue", repo |-> r, text |-> x, mentions |-> m])
                  /\ Sound([op |-> "mention", u |-> m])
                  /\ Sound([op |-> "update issue", issue |-> r, text |-> x])
  BY DEF Sound, RepoOps, ImportOps
<1>1. ASSUME NEW c \in Calls,
             CreateIssue(c) \/ InsertIssue(c) \/ UpdateIssue(c) \/ UpdateIssueRow(c)
      PROVE  Hop(IssueOps)
  BY <1>1, <1>a, <1>b, ArriveHops, BecomeHops, EndHops
     DEF CreateIssue, InsertIssue, UpdateIssue, UpdateIssueRow, Serving
<1>2. QED
  BY <1>1, RestHops DEF TrackerNext, ByWorker, SelectMissing, EmbedFails, Embed, StoreNext, Deadline

LEMMA RateLimitHop ==
    ASSUME RateLimitNext
    PROVE  Hop({"expire"})
<1>1. ASSUME NEW k
      PROVE  Sound([op |-> "expire", key |-> k])
  BY DEF Sound, RepoOps, ImportOps
<1>2. ASSUME NEW c \in Calls, Incr(c)
      PROVE  Hop({"expire"})
  BY <1>1, <1>2, ArriveHops, AtOnceHops DEF Incr
<1>3. ASSUME NEW c \in Calls, Expire(c)
      PROVE  Hop({"expire"})
  BY <1>3, EndHops DEF Expire, Serving
<1>4. QED
  BY <1>2, <1>3, RestHops, AtOnceHops DEF RateLimitNext, WindowEnds, Unavailable

LEMMA DeleteUserHops ==
    ASSUME NEW c \in Calls, DeleteUser(c)
    PROVE  Hop(AccountOps)
<1>1. "delete user" \in AccountOps
  BY DEF AccountOps
<1>2. QED
  BY <1>1, EndHops DEF DeleteUser, DeleteAccount, Serving

\* The steps of Content, by component.
ContentOps == RepoOps \cup ImportOps \cup NoticeOps \cup IssueOps

LEMMA ContentHop ==
    ASSUME AllSound, Content
    PROVE  Hop(ContentOps)
<1>1. ASSUME NEW ops, ops \subseteq ContentOps, Hop(ops)
      PROVE  Hop(ContentOps)
  BY <1>1 DEF Hop
<1>2. /\ RepoOps \subseteq ContentOps /\ ImportOps \subseteq ContentOps
      /\ NoticeOps \subseteq ContentOps /\ IssueOps \subseteq ContentOps
  BY DEF ContentOps
<1>3. QED
  BY <1>1, <1>2, ReposHop, ImportHop, ConnectionsHop, NotificationsHop, TrackerHop, RestHops
     DEF Content, CopyIssue

LEMMA PeopleHop ==
    ASSUME AllSound, People
    PROVE  Hop(AccountOps) \/ Hop(MemberOps)
BY AccountsHop, MembershipHop DEF People

LEMMA AllSoundInit ==
    ASSUME Init
    PROVE  AllSound
BY IdleIsSound DEF Init, RequestsInit, AllSound

LEMMA AllSoundStep ==
    ASSUME AllSound, [Next]_siteVars
    PROVE  AllSound'
<1>1. CASE Exit
  <2>1. DOMAIN req' = Calls /\ \A c \in Calls : req'[c] = Idle
    BY <1>1 DEF Exit
  <2>2. \A c \in Calls : Sound(req'[c])
    BY <2>1, IdleIsSound
  <2>3. QED
    BY <2>1, <2>2 DEF AllSound, Sound, RepoOps, ImportOps
<1>2. CASE UNCHANGED siteVars
  <2>1. UNCHANGED req
    BY <1>2 DEF siteVars
  <2>2. Hop({})
    BY <2>1, RestHops
  <2>3. QED
    BY <2>2, HopIsSound
<1>3. ASSUME NEW ops, Hop(ops)
      PROVE  AllSound'
  BY <1>3, HopIsSound
<1>4. CASE People
  BY <1>3, <1>4, PeopleHop
<1>5. CASE Content
  BY <1>3, <1>5, ContentHop
<1>6. CASE RateLimitNext
  BY <1>3, <1>6, RateLimitHop
<1>7. CASE \E c \in Calls : DeleteUser(c)
  BY <1>3, <1>7, DeleteUserHops
<1>8. QED
  BY <1>1, <1>2, <1>4, <1>5, <1>6, <1>7 DEF Next
-----------------------------------------------------------------------------
(* The hub *)

ConnType ==
    [user : Users \cup {None}, listed : BOOLEAN, queue : Nat, closed : BOOLEAN,
     socket : {"none", "open", "shut"}, reader : BOOLEAN,
     pump : {"none", "runs", "failed", "ended"}]

HubInv ==
    /\ conn \in [Conns -> ConnType]
    /\ ListIsSound

\* The hub starts empty.
LEMMA HubStarts == HubInit => HubInv
<1> SUFFICES ASSUME HubInit PROVE HubInv
  OBVIOUS
<1>1. NoConn \in ConnType /\ ~NoConn.listed
  BY DEF NoConn, ConnType
<1>2. QED
  BY <1>1 DEF HubInit, HubInv, ListIsSound

\* A message is sent, and a connection closed, only while it is listed.
LEMMA SendToUserIsSound ==
    ASSUME HubInv, NEW u, SendToUser(u)
    PROVE  HubInv'
<1>1. \A k \in Listed(u) : k \in Conns /\ conn[k].listed /\ ~conn[k].closed
  BY DEF Listed, HubInv, ListIsSound
<1>2. conn' \in [Conns -> ConnType]
  <2> DEFINE dropped(k) == [conn[k] EXCEPT !.closed = TRUE, !.socket = "shut", !.listed = FALSE]
             sent(k)    == [conn[k] EXCEPT !.queue = @ + 1]
  <2>1. ASSUME NEW k \in Conns
        PROVE  conn[k] \in ConnType /\ dropped(k) \in ConnType /\ sent(k) \in ConnType
    <3>1. conn[k] \in ConnType
      BY DEF HubInv
    <3>2. dropped(k) \in ConnType
      BY <3>1 DEF ConnType
    <3>3. sent(k) \in ConnType
      BY <3>1 DEF ConnType
    <3>4. QED
      BY <3>1, <3>2, <3>3
  <2>2. conn' = [k \in Conns |-> IF k \notin Listed(u) THEN conn[k]
                                ELSE IF Full(k) THEN dropped(k) ELSE sent(k)]
    BY DEF SendToUser
  <2> HIDE DEF dropped, sent
  <2>3. QED
    BY <2>1, <2>2
<1>3. ~panicked'
  BY <1>1 DEF SendToUser, HubInv, ListIsSound
<1>4. ASSUME NEW k \in Conns, conn'[k].listed
      PROVE  ~conn'[k].closed /\ conn'[k].pump \in {"runs", "failed"}
  <2>1. conn[k] \in ConnType
    BY DEF HubInv
  <2>2. CASE k \notin Listed(u)
    BY <1>4, <2>2 DEF SendToUser, HubInv, ListIsSound
  <2>3. CASE k \in Listed(u)
    BY <1>1, <1>4, <2>1, <2>3 DEF SendToUser, HubInv, ListIsSound, ConnType
  <2>4. QED
    BY <2>2, <2>3
<1>5. QED
  BY <1>2, <1>3, <1>4 DEF HubInv, ListIsSound

\* A new connection is listed with its writer running.
LEMMA HandleWSIsSound ==
    ASSUME HubInv, NEW u \in Users, NEW k \in Conns, HandleWS(u, k)
    PROVE  HubInv'
<1> DEFINE new == [NoConn EXCEPT !.user = u, !.listed = TRUE, !.socket = "open",
                                 !.reader = TRUE, !.pump = "runs"]
<1>1. new \in ConnType /\ ~new.closed /\ new.pump = "runs"
  BY DEF NoConn, ConnType
<1>2. conn' = [conn EXCEPT ![k] = new] /\ UNCHANGED panicked
  BY DEF HandleWS
<1>3. QED
  BY <1>1, <1>2 DEF HubInv, ListIsSound

\* The goroutines of a connection take it off the list when they end.
LEMMA HubNextIsSound ==
    ASSUME HubInv, HubNext
    PROVE  HubInv'
<1> PICK k \in Conns : ClientLeaves(k) \/ Unregister(k) \/ Pump(k)
  BY DEF HubNext
<1>1. /\ conn \in [Conns -> ConnType]
      /\ conn[k] \in ConnType
      /\ ~panicked
      /\ conn[k].listed => ~conn[k].closed /\ conn[k].pump \in {"runs", "failed"}
  BY DEF HubInv, ListIsSound
<1> DEFINE Fine(x) ==
      x \in ConnType /\ (x.listed => ~x.closed /\ x.pump \in {"runs", "failed"})
<1>2. ASSUME NEW x, conn' = [conn EXCEPT ![k] = x], Fine(x), ~panicked'
      PROVE  HubInv'
  BY <1>1, <1>2 DEF HubInv, ListIsSound
<1>3. CASE ClientLeaves(k)
  <2>1. Fine([conn[k] EXCEPT !.socket = "shut"])
    BY <1>1 DEF ConnType
  <2>2. QED
    BY <1>1, <1>2, <1>3, <2>1 DEF ClientLeaves
<1>4. CASE Unregister(k)
  <2> DEFINE x == [conn[k] EXCEPT !.reader = FALSE, !.listed = FALSE,
                                  !.closed = @ \/ conn[k].listed]
  <2>1. Fine(x)
    BY <1>1 DEF ConnType
  <2>2. conn' = [conn EXCEPT ![k] = x]
    BY <1>1, <1>4 DEF Unregister, ConnType
  <2>3. ~panicked'
    BY <1>1, <1>4 DEF Unregister
  <2>4. QED
    BY <1>2, <2>1, <2>2, <2>3
<1>5. CASE WriteMessage(k)
  <2> DEFINE x == [conn[k] EXCEPT !.queue = @ - 1,
                      !.pump = IF conn[k].socket = "open" THEN "runs" ELSE "failed"]
  <2>1. Fine(x)
    <3>1. conn[k].queue \in Nat /\ conn[k].queue > 0
      BY <1>1, <1>5 DEF WriteMessage, ConnType
    <3>2. conn[k].queue - 1 \in Nat
      BY <3>1
    <3>3. x \in ConnType
      BY <1>1, <3>2 DEF ConnType
    <3>4. x.listed = conn[k].listed /\ x.closed = conn[k].closed /\ x.pump \in {"runs", "failed"}
      BY <1>1 DEF ConnType
    <3>5. QED
      BY <1>1, <3>3, <3>4
  <2>2. conn' = [conn EXCEPT ![k] = x] /\ ~panicked'
    BY <1>1, <1>5 DEF WriteMessage
  <2>3. QED
    BY <1>2, <2>1, <2>2
<1>6. CASE PingFails(k)
  <2>1. Fine([conn[k] EXCEPT !.pump = "failed"])
    BY <1>1, <1>6 DEF PingFails, ConnType
  <2>2. QED
    BY <1>1, <1>2, <1>6, <2>1 DEF PingFails
<1>7. CASE GiveUp(k)
  <2>1. Fine([conn[k] EXCEPT !.listed = FALSE, !.pump = "ended"])
    BY <1>1 DEF ConnType
  <2>2. QED
    BY <1>1, <1>2, <1>7, <2>1 DEF GiveUp
<1>8. CASE WriterEnds(k)
  <2>1. Fine([conn[k] EXCEPT !.pump = "ended"])
    BY <1>1, <1>8 DEF WriterEnds, ConnType
  <2>2. QED
    BY <1>1, <1>2, <1>8, <2>1 DEF WriterEnds
<1>9. QED
  BY <1>3, <1>4, <1>5, <1>6, <1>7, <1>8 DEF Pump
-----------------------------------------------------------------------------
(* Who changes the hub *)

\* Requests about notifications reach the hub only to send a message.
LEMMA NotificationsReachHub ==
    ASSUME NotificationsNext
    PROVE  UNCHANGED hubVars \/ \E u : SendToUser(u)
<1>1. ASSUME NEW c \in Calls, ProcessMentions(c)
      PROVE  UNCHANGED hubVars \/ \E u : SendToUser(u)
  <2> DEFINE u == req[c].u
  <2>1. CASE IsUser(u) /\ pref[u] # "off"
    BY <1>1, <2>1 DEF ProcessMentions, CreateNotice
  <2>2. CASE ~(IsUser(u) /\ pref[u] # "off")
    BY <1>1, <2>2 DEF ProcessMentions
  <2>3. QED
    BY <2>1, <2>2
<1>2. QED
  BY <1>1 DEF NotificationsNext, AskToWatch, WatchRepo, UnwatchRepo, UpdatePreferences,
              MarkAllRead, MarkRead

LEMMA StepKeepsHub ==
    ASSUME HubInv, [Next]_siteVars
    PROVE  HubInv'
<1>1. CASE UNCHANGED hubVars
  BY <1>1 DEF HubInv, ListIsSound, hubVars
<1>2. CASE \E u : SendToUser(u)
  BY <1>2, SendToUserIsSound
<1>3. CASE People /\ UNCHANGED <<contentVars, limitVars>>
  BY <1>1, <1>3 DEF contentVars
<1>4. CASE Content
  <2>1. CASE UNCHANGED hubVars
    BY <1>1, <2>1
  <2>2. CASE Connections
    BY <2>2, HubNextIsSound, HandleWSIsSound DEF Connections
  <2>3. CASE NotificationsNext
    BY <1>1, <1>2, <2>3, NotificationsReachHub
  <2>4. CASE TrackerNext
    <3>1. UNCHANGED hubVars
      BY <2>4 DEF TrackerNext, CreateIssue, InsertIssue, UpdateIssue, UpdateIssueRow, ByWorker,
                  SelectMissing, EmbedFails, Embed, StoreNext, Deadline
    <3>2. QED
      BY <1>1, <3>1
  <2>5. CASE \E c \in Calls : CopyIssue(c)
    BY <1>1, <2>5 DEF CopyIssue
  <2>6. QED
    BY <1>4, <2>1, <2>2, <2>3, <2>4, <2>5 DEF Content
<1>5. CASE RateLimitNext /\ UNCHANGED <<accountVars, memberVars, contentVars>>
  BY <1>1, <1>5 DEF contentVars
<1>6. CASE \E c \in Calls : DeleteUser(c)
  BY <1>1, <1>6 DEF DeleteUser, contentVars
<1>7. CASE Exit
  <2>1. HubInit \/ (conn' = [k \in Conns |-> NoConn] /\ UNCHANGED panicked)
    BY <1>7 DEF Exit
  <2>2. NoConn \in ConnType /\ ~NoConn.listed
    BY DEF NoConn, ConnType
  <2>3. QED
    BY <1>7, <2>2 DEF Exit, HubInv, ListIsSound
<1>8. CASE UNCHANGED siteVars
  BY <1>1, <1>8 DEF siteVars
<1>9. QED
  BY <1>3, <1>4, <1>5, <1>6, <1>7, <1>8 DEF Next

\* No send on a closed channel, no channel closed twice, and no listed connection
\* without its writer, however many users, connections and requests there are.
THEOREM HubIsSound == Spec => []ListIsSound
<1>1. Init => HubInv
  BY HubStarts DEF Init
<1>2. HubInv /\ [Next]_siteVars => HubInv'
  BY StepKeepsHub
<1>3. HubInv => ListIsSound
  BY DEF HubInv
<1>4. QED
  BY <1>1, <1>2, <1>3, PTL DEF Spec
-----------------------------------------------------------------------------
(* The counters *)

LimitInv ==
    /\ AllSound
    /\ count \in [Keys -> Nat]
    /\ CountersExpire

\* A counter whose EXPIRE is under way.
Expiring(k) == \E c \in Calls : Serving(c, "expire") /\ req[c].key = k

\* Handlers of other requests do not touch a request at the EXPIRE.
LEMMA OthersKeepLimits ==
    ASSUME LimitInv, AllSound', NEW ops, "expire" \notin ops, Hop(ops), UNCHANGED limitVars
    PROVE  LimitInv'
<1>1. \A c \in Calls : Serving(c, "expire") => req'[c] = req[c]
  BY HopSpares DEF LimitInv, Serving
<1>2. ASSUME NEW k \in Keys, Expiring(k)
      PROVE  Expiring(k)'
  BY <1>1, <1>2 DEF Expiring, Serving
<1>3. CountersExpire'
  BY <1>2 DEF LimitInv, CountersExpire, limitVars, Expiring
<1>4. QED
  BY <1>3 DEF LimitInv, limitVars

LEMMA IncrKeepsLimits ==
    ASSUME LimitInv, AllSound', NEW c \in Calls, Incr(c)
    PROVE  LimitInv'
<1> PICK k \in Keys :
       /\ count' = [count EXCEPT ![k] = @ + 1]
       /\ IF count[k] = 0
          THEN Arrive("limiter", c, [op |-> "expire", key |-> k])
          ELSE AtOnce("limiter")
       /\ UNCHANGED <<user, org, expires, forsaken>>
  BY DEF Incr
<1>1. count' \in [Keys -> Nat] /\ DOMAIN req = Calls
  BY DEF LimitInv, AllSound
<1>2. ASSUME NEW j \in Keys, j # k
      PROVE  count'[j] = count[j]
  BY <1>2 DEF LimitInv
<1>3. CASE count[k] = 0
  <2>1. req[c] = Idle /\ req' = [req EXCEPT ![c] = [op |-> "expire", key |-> k]]
    BY <1>3 DEF Arrive
  <2>2. Expiring(k)'
    BY <1>1, <2>1 DEF Expiring, Serving
  <2>3. ASSUME NEW j \in Keys, Expiring(j)
        PROVE  Expiring(j)'
    BY <1>1, <2>1, <2>3 DEF Expiring, Serving, Idle
  <2>4. QED
    BY <1>1, <1>2, <2>1, <2>2, <2>3 DEF LimitInv, CountersExpire, Expiring
<1>4. CASE count[k] # 0
  <2>1. UNCHANGED req
    BY <1>4 DEF AtOnce
  <2>2. count[k] > 0
    BY <1>4 DEF LimitInv
  <2>3. QED
    BY <1>1, <1>2, <2>1, <2>2 DEF LimitInv, CountersExpire, Serving
<1>5. QED
  BY <1>3, <1>4

LEMMA ExpireKeepsLimits ==
    ASSUME LimitInv, AllSound', NEW c \in Calls, Expire(c)
    PROVE  LimitInv'
<1>1. req' = [req EXCEPT ![c] = Idle] /\ UNCHANGED count
  BY DEF Expire, End, Become
<1>2. ASSUME NEW k \in Keys, Expiring(k), k # req[c].key
      PROVE  Expiring(k)'
  BY <1>1, <1>2 DEF Expiring, Serving, LimitInv, AllSound
<1>3. req[c].key \in expires' \cup forsaken'
  BY DEF Expire
<1>4. expires \subseteq expires' /\ forsaken \subseteq forsaken'
  BY DEF Expire
<1>5. QED
  BY <1>1, <1>2, <1>3, <1>4 DEF LimitInv, CountersExpire, Expiring

LEMMA StepKeepsLimits ==
    ASSUME LimitInv, [Next]_siteVars
    PROVE  LimitInv'
<1> USE AllSoundStep
<1>0. AllSound /\ AllSound'
  BY DEF LimitInv
<1>10. "expire" \notin AccountOps /\ "expire" \notin MemberOps /\ "expire" \notin ContentOps
  BY DEF AccountOps, MemberOps, ContentOps, RepoOps, ImportOps, NoticeOps, IssueOps
<1>1. CASE People /\ UNCHANGED <<contentVars, limitVars>>
  BY <1>0, <1>1, <1>10, PeopleHop, OthersKeepLimits
<1>2. CASE Content /\ UNCHANGED <<org, accountVars, memberVars, limitVars>>
  BY <1>0, <1>2, <1>10, ContentHop, OthersKeepLimits
<1>3. CASE RateLimitNext
  <2>1. CASE \E c \in Calls : Incr(c) \/ Expire(c)
    BY <1>0, <2>1, IncrKeepsLimits, ExpireKeepsLimits
  <2>2. CASE \E k \in Keys : WindowEnds(k)
    <3> PICK k \in Keys : WindowEnds(k)
      BY <2>2
    <3>1. /\ count' = [count EXCEPT ![k] = 0]
          /\ expires' = expires \ {k}
          /\ UNCHANGED <<req, forsaken>>
      BY DEF WindowEnds
    <3>2. \A j \in Keys : count'[j] > 0 => j # k /\ count'[j] = count[j]
      BY <3>1 DEF LimitInv
    <3>3. QED
      BY <1>0, <3>1, <3>2 DEF LimitInv, CountersExpire, Serving
  <2>3. CASE Unavailable
    BY <1>0, <1>10, <2>3, RestHops, OthersKeepLimits DEF Unavailable, AtOnce
  <2>4. QED
    BY <1>3, <2>1, <2>2, <2>3 DEF RateLimitNext
<1>4. CASE \E c \in Calls : DeleteUser(c)
  <2>1. UNCHANGED limitVars
    BY <1>4 DEF DeleteUser
  <2>2. QED
    BY <1>0, <1>4, <1>10, <2>1, DeleteUserHops, OthersKeepLimits
<1>5. CASE Exit
  <2>1. /\ req' = [c \in Calls |-> Idle]
        /\ \A k \in Keys : Expiring(k) => k \in forsaken'
        /\ forsaken \subseteq forsaken'
        /\ UNCHANGED <<count, expires>>
    BY <1>5 DEF Exit, Expiring
  <2>2. QED
    BY <1>0, <2>1 DEF LimitInv, CountersExpire, Expiring
<1>6. CASE UNCHANGED siteVars
  BY <1>0, <1>6, <1>10, RestHops, OthersKeepLimits DEF siteVars
<1>7. QED
  BY <1>1, <1>2, <1>3, <1>4, <1>5, <1>6 DEF Next

\* Whatever other requests do meanwhile, a counter without a time to live is one
\* whose EXPIRE is under way or was cut off.
THEOREM AllCountersExpire == Spec => []CountersExpire
<1>1. Init => LimitInv
  BY AllSoundInit DEF Init, RateLimitInit, LimitInv, CountersExpire
<1>2. LimitInv /\ [Next]_siteVars => LimitInv'
  BY StepKeepsLimits
<1>3. LimitInv => CountersExpire
  BY DEF LimitInv
<1>4. QED
  BY <1>1, <1>2, <1>3, PTL DEF Spec
-----------------------------------------------------------------------------
(* Embeddings *)

\* A batch: rows, and what each of them is given, if anything, is a text it has had.
BatchOf(w) ==
    /\ DOMAIN w = {"op", "ids", "texts"} /\ w.op \in {"embed", "store"}
    /\ w.ids \in Seq(IssueIds) /\ Len(w.ids) > 0
    /\ \E S : w.texts \in Seq(S)
    /\ Len(w.texts) = Len(w.ids)
    /\ \A k \in 1 .. Len(w.ids) : w.texts[k] # None => w.texts[k] \in issue[w.ids[k]].had

RowsOf(rows) == rows \in [IssueIds -> {rows[i] : i \in IssueIds}]

EmbedInv ==
    /\ RowsOf(issue)
    /\ \A i \in IssueIds : DOMAIN issue[i] = DOMAIN NoIssue
    /\ \A i \in IssueIds : issue[i].text # None => issue[i].text \in issue[i].had
    /\ work = Resting \/ BatchOf(work)
    /\ EmbeddingIsOwn

\* What a row has had it has had.
LEMMA HadGrows ==
    ASSUME EmbedInv, NEW i \in IssueIds, UNCHANGED work,
           NEW row, issue' = [issue EXCEPT ![i] = row],
           DOMAIN row = DOMAIN NoIssue,
           issue[i].had \subseteq row.had,
           row.text # None => row.text \in row.had,
           row.embedding # None => row.embedding \in row.had
    PROVE  EmbedInv'
<1>1. /\ RowsOf(issue)'
      /\ \A j \in IssueIds : issue'[j] = IF j = i THEN row ELSE issue[j]
  BY DEF EmbedInv, RowsOf
<1>2. \A j \in IssueIds : issue[j].had \subseteq issue'[j].had
  BY <1>1
<1>3. ASSUME BatchOf(work)
      PROVE  BatchOf(work)'
  <2>1. \A k \in 1 .. Len(work.ids) : work.ids[k] \in IssueIds
    BY <1>3, ElementOfSeq DEF BatchOf
  <2>2. QED
    BY <1>2, <1>3, <2>1 DEF BatchOf
<1>4. \A j \in IssueIds : DOMAIN issue'[j] = DOMAIN NoIssue
  BY <1>1 DEF EmbedInv
<1>5. \A j \in IssueIds : issue'[j].text # None => issue'[j].text \in issue'[j].had
  BY <1>1 DEF EmbedInv
<1>6. EmbeddingIsOwn'
  BY <1>1 DEF EmbedInv, EmbeddingIsOwn
<1>7. (work = Resting \/ BatchOf(work))'
  BY <1>3 DEF EmbedInv, Resting
<1> HIDE DEF NoIssue
<1>8. QED
  BY <1>1, <1>4, <1>5, <1>6, <1>7 DEF EmbedInv, NoIssue

LEMMA InsertKeepsEmbeddings ==
    ASSUME EmbedInv, NEW i \in IssueIds, NEW r, NEW x, UNCHANGED work,
           issue[i] = NoIssue,
           issue' = [issue EXCEPT ![i] = [NoIssue EXCEPT !.repo = r, !.text = x, !.had = {x}]]
    PROVE  EmbedInv'
<1> DEFINE row == [NoIssue EXCEPT !.repo = r, !.text = x, !.had = {x}]
<1>1. /\ DOMAIN row = DOMAIN NoIssue /\ row.text = x /\ row.had = {x} /\ row.embedding = None
      /\ issue[i].had = {}
  BY DEF NoIssue
<1> HIDE DEF row
<1>2. issue' = [issue EXCEPT ![i] = row]
  BY DEF row
<1>3. QED
  BY <1>1, <1>2, HadGrows

\* A row that is edited keeps its embedding.
LEMMA EditKeepsEmbeddings ==
    ASSUME EmbedInv, NEW c \in Calls, UpdateIssueRow(c)
    PROVE  EmbedInv'
<1> DEFINE i == req[c].issue
           x == req[c].text
<1>1. UNCHANGED work
  BY DEF UpdateIssueRow
<1>2. CASE issue' = issue
  BY <1>1, <1>2 DEF EmbedInv, BatchOf, EmbeddingIsOwn
<1>3. CASE issue' # issue
  <2> DEFINE row == [issue[i] EXCEPT !.text = x, !.had = @ \cup {x}]
  <2>1. issue' = [issue EXCEPT ![i] = row]
    BY <1>3 DEF UpdateIssueRow
  <2>2. i \in IssueIds
    BY <1>3, <2>1 DEF EmbedInv, RowsOf
  <2>3. DOMAIN issue[i] = DOMAIN NoIssue
    BY <2>2 DEF EmbedInv
  <2>4. /\ DOMAIN row = DOMAIN NoIssue /\ row.text = x /\ row.had = issue[i].had \cup {x}
        /\ row.embedding = issue[i].embedding
    BY <2>3 DEF NoIssue
  <2>5. row.embedding # None => row.embedding \in row.had
    BY <2>2, <2>4 DEF EmbedInv, EmbeddingIsOwn
  <2> HIDE DEF row, i
  <2>6. QED
    BY <1>1, <2>1, <2>2, <2>4, <2>5, HadGrows
<1>4. QED
  BY <1>2, <1>3

\* A batch is of rows that are there, each with its own text.
LEMMA SelectKeepsEmbeddings ==
    ASSUME EmbedInv, SelectMissing
    PROVE  EmbedInv'
<1> PICK s \in SetToAllKPermutations(Missing) :
       /\ Len(s) > 0
       /\ work' = [op |-> "embed", ids |-> s, texts |-> [k \in DOMAIN s |-> issue[s[k]].text]]
       /\ UNCHANGED issue
  BY DEF SelectMissing
<1> DEFINE t == [k \in DOMAIN s |-> issue[s[k]].text]
<1>1. s \in Seq(IssueIds)
  <2>1. PICK m \in SUBSET Missing : s \in [1 .. Cardinality(m) -> m]
    BY DEF SetToAllKPermutations, SetToSeqs
  <2>2. m \subseteq IssueIds
    BY DEF Missing
  <2>3. Cardinality(m) \in Nat
    BY <2>2, FS_Subset, FS_CardinalityType, TrackerAssumption
  <2>4. QED
    BY <2>1, <2>2, <2>3
<1>2. DOMAIN s = 1 .. Len(s) /\ Len(s) \in Nat
  BY <1>1
<1>3. t \in Seq({issue[i].text : i \in IssueIds}) /\ Len(t) = Len(s)
  <2>1. \A k \in 1 .. Len(s) : s[k] \in IssueIds
    BY <1>1, ElementOfSeq
  <2>2. t \in [1 .. Len(s) -> {issue[i].text : i \in IssueIds}]
    BY <1>2, <2>1
  <2>3. QED
    BY <1>2, <2>2
<1>4. \A k \in 1 .. Len(s) : t[k] # None => t[k] \in issue[s[k]].had
  BY <1>1, <1>2, ElementOfSeq DEF EmbedInv
<1>5. /\ work'.op = "embed" /\ work'.ids = s /\ work'.texts = t
      /\ DOMAIN work' = {"op", "ids", "texts"}
      /\ Len(s) > 0 /\ UNCHANGED issue
  OBVIOUS
<1> HIDE DEF t
<1>6. \E S : t \in Seq(S)
  BY <1>3
<1>7. BatchOf(work)'
  BY ONLY <1>1, <1>3, <1>4, <1>5, <1>6 DEF BatchOf
<1>8. QED
  BY <1>7 DEF EmbedInv, EmbeddingIsOwn, NoIssue

\* The provider's answers are of the rows they are asked for.
LEMMA AnswerKeepsEmbeddings ==
    ASSUME EmbedInv, Embed
    PROVE  EmbedInv'
<1> PICK given \in SUBSET DOMAIN work.ids :
       work' = [op |-> "store", ids |-> work.ids,
                texts |-> [k \in DOMAIN work.ids |-> IF k \in given THEN work.texts[k] ELSE None]]
  BY DEF Embed
<1> DEFINE s == work.ids
           t == [k \in DOMAIN s |-> IF k \in given THEN work.texts[k] ELSE None]
<1>1. BatchOf(work)
  BY DEF Embed, EmbedInv, Resting
<1>2. s \in Seq(IssueIds) /\ Len(s) > 0 /\ DOMAIN s = 1 .. Len(s) /\ Len(s) \in Nat
  BY <1>1 DEF BatchOf
<1>3. t \in Seq({work.texts[k] : k \in DOMAIN s} \cup {None}) /\ Len(t) = Len(s)
  <2>1. t \in [1 .. Len(s) -> {work.texts[k] : k \in DOMAIN s} \cup {None}]
    BY <1>2
  <2>2. QED
    BY <1>2, <2>1
<1>4. \A k \in 1 .. Len(s) : t[k] # None => t[k] \in issue[s[k]].had
  BY <1>1, <1>2 DEF BatchOf
<1>5. UNCHANGED issue
  BY DEF Embed
<1>6. work'.op = "store" /\ work'.ids = s /\ work'.texts = t
  OBVIOUS
<1> HIDE DEF t, s
<1>7. BatchOf(work)'
  BY <1>2, <1>3, <1>4, <1>5, <1>6 DEF BatchOf
<1>8. QED
  BY <1>5, <1>7 DEF EmbedInv, EmbeddingIsOwn, NoIssue

\* What is written to a row is of a text the row has had.
LEMMA StoreKeepsEmbeddings ==
    ASSUME EmbedInv, StoreNext
    PROVE  EmbedInv'
<1> DEFINE i == Head(work.ids)
           x == Head(work.texts)
<1>1. BatchOf(work)
  BY DEF StoreNext, EmbedInv, Resting
<1>2. PICK S : work.texts \in Seq(S)
  BY <1>1 DEF BatchOf
<1>3. /\ work.ids \in Seq(IssueIds) /\ work.ids # <<>>
      /\ Len(work.ids) \in Nat /\ Len(work.ids) > 0
      /\ work.texts # <<>> /\ Len(work.texts) = Len(work.ids)
  BY <1>1, <1>2 DEF BatchOf
<1>4. i \in IssueIds /\ (x # None => x \in issue[i].had)
  <2>1. i = work.ids[1] /\ x = work.texts[1] /\ 1 \in 1 .. Len(work.ids)
    BY <1>2, <1>3
  <2>2. QED
    BY <1>1, <2>1, <1>3, ElementOfSeq DEF BatchOf
<1>5. /\ RowsOf(issue)'
      /\ \A j \in IssueIds : /\ DOMAIN issue'[j] = DOMAIN NoIssue
                             /\ issue'[j].had = issue[j].had
                             /\ issue'[j].text = issue[j].text
      /\ EmbeddingIsOwn'
  <2> DEFINE row == [issue[i] EXCEPT !.embedding = x]
  <2>1. UNCHANGED issue \/ (x # None /\ issue' = [issue EXCEPT ![i] = row])
    BY DEF StoreNext
  <2>2. RowsOf(issue) /\ \A j \in IssueIds : DOMAIN issue[j] = DOMAIN NoIssue
    BY DEF EmbedInv
  <2>3. /\ DOMAIN row = DOMAIN NoIssue /\ row.had = issue[i].had /\ row.text = issue[i].text
        /\ row.embedding = x
    BY <1>4, <2>2 DEF NoIssue
  <2>4. EmbeddingIsOwn
    BY DEF EmbedInv
  <2> HIDE DEF row, i, x
  <2>5. QED
    BY <1>4, <2>1, <2>2, <2>3, <2>4 DEF EmbeddingIsOwn, RowsOf
<1>6. (work = Resting \/ BatchOf(work))'
  <2>1. CASE Len(work.ids) = 1
    BY <2>1 DEF StoreNext, Resting
  <2>2. CASE Len(work.ids) # 1
    <3> DEFINE s == Tail(work.ids)
               t == Tail(work.texts)
    <3>1. work' = [work EXCEPT !.ids = s, !.texts = t]
      BY <2>2 DEF StoreNext
    <3>2. DOMAIN work = {"op", "ids", "texts"}
      BY <1>1 DEF BatchOf
    <3>3. work'.op = "store" /\ work'.ids = s /\ work'.texts = t
      BY <3>1, <3>2 DEF StoreNext
    <3>4. /\ s \in Seq(IssueIds) /\ Len(s) = Len(work.ids) - 1
          /\ \A k \in 1 .. Len(s) : s[k] = work.ids[k + 1]
      BY <1>3, HeadTailProperties
    <3>5. /\ t \in Seq(S) /\ Len(t) = Len(work.texts) - 1
          /\ \A k \in 1 .. Len(t) : t[k] = work.texts[k + 1]
      BY <1>2, <1>3, HeadTailProperties
    <3> HIDE DEF s, t
    <3>0. \A n \in Nat : /\ n > 0 /\ n # 1 => n - 1 > 0
                         /\ \A k \in 1 .. n - 1 : k + 1 \in 1 .. n
      OBVIOUS
    <3>6. Len(s) > 0 /\ Len(t) = Len(s)
      BY <1>3, <2>2, <3>0, <3>4, <3>5
    <3>7. ASSUME NEW k \in 1 .. Len(s), t[k] # None
          PROVE  t[k] \in issue'[s[k]].had
      <4>0. k + 1 \in 1 .. Len(work.ids)
        BY <1>3, <3>0, <3>4
      <4>1. k + 1 \in 1 .. Len(work.ids) /\ s[k] = work.ids[k + 1] /\ t[k] = work.texts[k + 1]
        BY <3>4, <3>5, <3>6, <4>0
      <4>2. work.ids[k + 1] \in IssueIds
        BY <1>3, <4>1, ElementOfSeq
      <4>3. QED
        BY <1>1, <1>5, <3>7, <4>1, <4>2 DEF BatchOf
    <3>8. DOMAIN work' = {"op", "ids", "texts"}
      BY <3>1, <3>2
    <3>9. \E V : t \in Seq(V)
      BY <3>5
    <3>10. BatchOf(work)'
      BY <3>3, <3>4, <3>6, <3>7, <3>8, <3>9 DEF BatchOf
    <3>11. QED
      BY <3>10
  <2>3. QED
    BY <2>1, <2>2
<1>7. QED
  BY <1>5, <1>6 DEF EmbedInv, NoIssue

LEMMA StepKeepsEmbeddings ==
    ASSUME EmbedInv, [Next]_siteVars
    PROVE  EmbedInv'
<1>1. CASE UNCHANGED <<issue, work>>
  BY <1>1 DEF EmbedInv, BatchOf, EmbeddingIsOwn
<1>2. CASE UNCHANGED issue /\ work' = Resting
  BY <1>2 DEF EmbedInv, EmbeddingIsOwn
<1>3. CASE Content
  <2>1. CASE UNCHANGED trackerVars
    BY <1>1, <2>1 DEF trackerVars
  <2>2. CASE NotificationsNext /\ UNCHANGED trackerVars
    BY <2>1, <2>2
  <2>3. CASE \E c \in Calls : CreateIssue(c) \/ UpdateIssue(c)
    BY <2>1, <2>3 DEF CreateIssue, UpdateIssue
  <2>4. CASE \E c \in Calls : InsertIssue(c)
    <3>1. UNCHANGED work
      BY <2>4 DEF InsertIssue
    <3>2. \/ UNCHANGED issue
          \/ \E i \in IssueIds : \E r, x :
               /\ issue[i] = NoIssue
               /\ issue' = [issue EXCEPT ![i] = [NoIssue EXCEPT !.repo = r, !.text = x,
                                                                !.had = {x}]]
      BY <2>4 DEF InsertIssue
    <3>3. QED
      BY <1>1, <3>1, <3>2, InsertKeepsEmbeddings
  <2>5. CASE \E c \in Calls : UpdateIssueRow(c)
    BY <2>5, EditKeepsEmbeddings
  <2>6. CASE SelectMissing \/ Embed \/ StoreNext
    BY <2>6, SelectKeepsEmbeddings, AnswerKeepsEmbeddings, StoreKeepsEmbeddings
  <2>7. CASE EmbedFails \/ Deadline
    BY <1>2, <2>7 DEF EmbedFails, Deadline
  <2>8. CASE \E c \in Calls : CopyIssue(c)
    <3> PICK c \in Calls, i \in IssueIds, x \in Texts :
           /\ issue[i] = NoIssue
           /\ issue' = [issue EXCEPT ![i] = [NoIssue EXCEPT !.repo = req[c].repo, !.text = x,
                                                            !.had = {x}]]
           /\ UNCHANGED work
      BY <2>8 DEF CopyIssue
    <3>1. QED
      BY InsertKeepsEmbeddings
  <2>9. QED
    BY <1>3, <2>1, <2>3, <2>4, <2>5, <2>6, <2>7, <2>8 DEF Content, TrackerNext
<1>4. CASE People /\ UNCHANGED <<contentVars, limitVars>>
  BY <1>1, <1>4 DEF contentVars, trackerVars
<1>5. CASE RateLimitNext /\ UNCHANGED <<accountVars, memberVars, contentVars>>
  BY <1>1, <1>5 DEF contentVars, trackerVars
<1>6. CASE \E c \in Calls : DeleteUser(c)
  BY <1>1, <1>6 DEF DeleteUser, contentVars, trackerVars
<1>7. CASE Exit
  BY <1>2, <1>7 DEF Exit
<1>8. CASE UNCHANGED siteVars
  BY <1>1, <1>8 DEF siteVars, trackerVars
<1>9. QED
  BY <1>3, <1>4, <1>5, <1>6, <1>7, <1>8 DEF Next

\* However rows are edited and deleted while a batch is under way, and whatever the
\* provider leaves out, a row's embedding is of a text the row has had.
THEOREM EmbeddingsAreOwn == Spec => []EmbeddingIsOwn
<1>1. Init => EmbedInv
  BY DEF Init, TrackerInit, EmbedInv, RowsOf, EmbeddingIsOwn, NoIssue
<1>2. EmbedInv /\ [Next]_siteVars => EmbedInv'
  BY StepKeepsEmbeddings
<1>3. EmbedInv => EmbeddingIsOwn
  BY DEF EmbedInv
<1>4. QED
  BY <1>1, <1>2, <1>3, PTL DEF Spec
-----------------------------------------------------------------------------
(* Imports *)

JobType == [status : {None, "running", "completed", "failed"}, repo : RepoIds \cup {None},
            lost : BOOLEAN, panic : BOOLEAN]

\* What may be reported in the end.
MayTell(s, row) ==
    /\ s = "completed" => row.repo # None
    /\ s = "failed" => row.repo = None \/ row.panic

\* What the record of an import says of its row: no repository is there before it
\* was inserted, and one from then on.
Agrees(r, row) ==
    /\ row.status \in {None, "running"}
    /\ row.status = "running" \/ row.lost
    /\ r.op \in {"metadata", "clone", "insert import"} => row.repo = None
    /\ r.op = "copy" => row.repo # None
    /\ r.op = "report" => MayTell(r.status, row)

\* What is said of an import that is over.
Settled(row) == MayTell(row.status, row) /\ (row.status = "running" => row.lost)

JobInv ==
    /\ AllSound
    /\ job \in [Jobs -> JobType]
    /\ \A c \in Calls : req[c].op \in ImportOps => Agrees(req[c], job[req[c].job])
    /\ \A c, d \in Calls : req[c].op \in ImportOps /\ req[d].op \in ImportOps /\ c # d
                           => req[c].job # req[d].job
    /\ StatusIsTrue

LEMMA ImportingMeans ==
    ASSUME AllSound, NEW j
    PROVE  Importing(j) <=> \E c \in Calls : req[c].op \in ImportOps /\ req[c].job = j
<1>1. \A c \in Calls : "job" \in DOMAIN req[c] <=> req[c].op \in ImportOps
  BY DEF AllSound, Sound
<1>2. QED
  BY <1>1 DEF Importing

\* A report arrives, or it is lost.
LEMMA ToldRows ==
    ASSUME NEW row \in JobType, NEW s \in {"running", "completed", "failed"},
           NEW told \in Told(row, s)
    PROVE  /\ told \in JobType
           /\ told.repo = row.repo /\ told.panic = row.panic
           /\ told.status = s \/ (told.status = row.status /\ told.lost)
<1>1. CASE told = [row EXCEPT !.status = s, !.lost = FALSE]
  BY <1>1 DEF JobType
<1>2. CASE told = [row EXCEPT !.lost = TRUE]
  BY <1>2 DEF JobType
<1>3. QED
  BY <1>1, <1>2 DEF Told

LEMMA Reported ==
    ASSUME job \in [Jobs -> JobType], NEW j \in Jobs, NEW s \in {"running", "completed", "failed"},
           SetStatus(j, s)
    PROVE  \E row \in JobType :
              /\ job' = [job EXCEPT ![j] = row]
              /\ row.repo = job[j].repo /\ row.panic = job[j].panic
              /\ row.status = s \/ (row.status = job[j].status /\ row.lost)
<1>1. PICK row \in Told(job[j], s) : job' = [job EXCEPT ![j] = row]
  BY DEF SetStatus
<1>2. PICK old \in JobType : old = job[j]
  OBVIOUS
<1>3. row \in Told(old, s)
  BY <1>1, <1>2
<1>4. /\ row \in JobType
      /\ row.repo = old.repo /\ row.panic = old.panic
      /\ row.status = s \/ (row.status = old.status /\ row.lost)
  BY <1>3, ToldRows
<1>5. QED
  BY <1>1, <1>2, <1>4

\* One import goes a step, begins or ends; its row is its own.
LEMMA ImportGoesOn ==
    ASSUME JobInv, AllSound', NEW c \in Calls, NEW j \in Jobs, NEW row \in JobType,
           job' = [job EXCEPT ![j] = row],
           \A d \in Calls : d # c => req'[d] = req[d],
           \/ req[c].op \in ImportOps /\ req[c].job = j
           \/ req[c].op \notin ImportOps /\ job[j] = NoJob,
           \/ req'[c].op \in ImportOps /\ req'[c].job = j /\ Agrees(req'[c], row)
           \/ req'[c].op \notin ImportOps /\ Settled(row)
    PROVE  JobInv'
<1>0. ASSUME NEW k, NEW d \in Calls, req'[d].op \in ImportOps, req'[d].job = k
      PROVE  Importing(k)'
  <2>1. "job" \in DOMAIN req'[d]
    BY <1>0 DEF AllSound, Sound
  <2>2. QED
    BY <1>0, <2>1 DEF Importing
<1>1. /\ job' \in [Jobs -> JobType]
      /\ \A k \in Jobs : job'[k] = IF k = j THEN row ELSE job[k]
  BY DEF JobInv
<1>2. \A d \in Calls : d # c /\ req[d].op \in ImportOps => req[d].job # j
  <2>1. SUFFICES ASSUME NEW d \in Calls, d # c, req[d].op \in ImportOps, req[d].job = j
                 PROVE  FALSE
    OBVIOUS
  <2>2. CASE req[c].op \in ImportOps /\ req[c].job = j
    BY <2>1, <2>2 DEF JobInv
  <2>3. CASE job[j] = NoJob
    <3>1. Agrees(req[d], NoJob)
      BY <2>1, <2>3 DEF JobInv
    <3>2. QED
      BY <3>1, ImportAssumption DEF Agrees, NoJob
  <2>4. QED
    BY <2>2, <2>3
<1>3. \A d \in Calls : req[d].op \in ImportOps => req[d].job \in Jobs
  BY DEF JobInv, AllSound, Sound
<1>4. (\A d \in Calls : req[d].op \in ImportOps => Agrees(req[d], job[req[d].job]))'
  <2> SUFFICES ASSUME NEW d \in Calls, req'[d].op \in ImportOps
               PROVE  Agrees(req'[d], job'[req'[d].job])
    BY DEF Agrees
  <2>1. CASE d = c
    BY <1>1, <2>1
  <2>2. CASE d # c
    BY <1>1, <1>2, <1>3, <2>2 DEF JobInv
  <2>3. QED
    BY <2>1, <2>2
<1>5. (\A d, e \in Calls : req[d].op \in ImportOps /\ req[e].op \in ImportOps /\ d # e
                           => req[d].job # req[e].job)'
  BY <1>2 DEF JobInv
<1>6. ASSUME NEW k \in Jobs
      PROVE  /\ job'[k].status = "completed" => job'[k].repo # None
             /\ job'[k].status = "failed" => job'[k].repo = None \/ job'[k].panic
             /\ job'[k].status = "running" => job'[k].lost \/ Importing(k)'
  <2>1. CASE k = j
    <3>1. CASE Settled(row)
      BY <1>1, <2>1, <3>1 DEF Settled, MayTell
    <3>2. CASE req'[c].op \in ImportOps /\ req'[c].job = j /\ Agrees(req'[c], row)
      <4>1. Importing(j)'
        BY <3>2, <1>0
      <4>2. QED
        BY <1>1, <2>1, <3>2, <4>1, ImportAssumption DEF Agrees
    <3>3. QED
      BY <3>1, <3>2
  <2>2. CASE k # j
    <3>1. job'[k] = job[k]
      BY <1>1, <2>2
    <3>2. Importing(k) => Importing(k)'
      <4>1. ASSUME Importing(k)
            PROVE  \E d \in Calls : req'[d].op \in ImportOps /\ req'[d].job = k
        BY <1>2, <2>2, <4>1, ImportingMeans DEF JobInv
      <4>2. QED
        BY <4>1, <1>0
    <3>3. QED
      BY <3>1, <3>2 DEF JobInv, StatusIsTrue
  <2>3. QED
    BY <2>1, <2>2
<1>7. StatusIsTrue'
  BY <1>6 DEF StatusIsTrue
<1>8. QED
  BY <1>1, <1>4, <1>5, <1>7 DEF JobInv

\* Requests that are no imports leave the imports alone.
LEMMA OthersKeepJobs ==
    ASSUME JobInv, AllSound', NEW ops, ops \cap (ImportOps \cup {"idle"}) = {}, Hop(ops),
           UNCHANGED job
    PROVE  JobInv'
<1>1. "idle" \notin ImportOps
  BY DEF ImportOps
<1>2. ASSUME NEW c \in Calls, req[c].op \in ImportOps \/ req'[c].op \in ImportOps
      PROVE  req'[c] = req[c]
  BY <1>1, <1>2, HopSpares DEF JobInv
<1>3. (\A c \in Calls : req[c].op \in ImportOps => Agrees(req[c], job[req[c].job]))'
  <2> SUFFICES ASSUME NEW c \in Calls, req'[c].op \in ImportOps
               PROVE  Agrees(req'[c], job[req'[c].job])
    BY DEF Agrees
  <2>1. req'[c] = req[c]
    BY <1>2
  <2>2. QED
    BY <2>1 DEF JobInv
<1>4. (\A c, d \in Calls : req[c].op \in ImportOps /\ req[d].op \in ImportOps /\ c # d
                           => req[c].job # req[d].job)'
  BY <1>2 DEF JobInv
<1>5. ASSUME NEW j, Importing(j)
      PROVE  Importing(j)'
  <2>1. PICK c \in Calls : "job" \in DOMAIN req[c] /\ req[c].job = j
    BY <1>5 DEF Importing
  <2>2. req[c].op \in ImportOps
    BY <2>1 DEF JobInv, AllSound, Sound
  <2>3. QED
    BY <1>2, <2>1, <2>2 DEF Importing
<1>6. StatusIsTrue'
  BY <1>5 DEF JobInv, StatusIsTrue
<1>7. QED
  BY <1>3, <1>4, <1>6 DEF JobInv

\* What is known of an import that is under way.
LEMMA UnderWay ==
    ASSUME JobInv, NEW c \in Calls, req[c].op \in ImportOps
    PROVE  /\ req[c].job \in Jobs /\ job[req[c].job] \in JobType
           /\ Sound(req[c]) /\ Agrees(req[c], job[req[c].job])
<1>1. req[c].job \in Jobs
  BY DEF JobInv, AllSound, Sound
<1>2. QED
  BY <1>1 DEF JobInv, AllSound

\* Before the repository is inserted.
LEMMA EarlyStagesAgree ==
    ASSUME JobInv, NEW c \in Calls, NEW op \in {"metadata", "clone", "insert import"}, Stage(c, op)
    PROVE  /\ req[c].op \in ImportOps /\ req[c].job \in Jobs
           /\ \E row \in JobType :
                 /\ job' = [job EXCEPT ![req[c].job] = row]
                 /\ row.repo = None
                 /\ row.status = "running" \/ (row.status \in {None, "running"} /\ row.lost)
<1>1. req[c].op = op /\ req[c].op \in ImportOps
  BY DEF Stage, Serving, ImportOps
<1>2. PICK j \in Jobs : j = req[c].job
  BY <1>1, UnderWay
<1>3. job[j].repo = None /\ job[j].status \in {None, "running"}
  BY <1>1, <1>2, UnderWay DEF Agrees
<1>4. SetStatus(j, "running") /\ job \in [Jobs -> JobType]
  BY <1>2 DEF Stage, JobInv
<1>5. PICK row \in JobType :
         /\ job' = [job EXCEPT ![j] = row]
         /\ row.repo = job[j].repo
         /\ row.status = "running" \/ (row.status = job[j].status /\ row.lost)
  BY <1>4, Reported
<1>6. QED
  BY <1>1, <1>2, <1>3, <1>5

LEMMA StartKeepsJobs ==
    ASSUME JobInv, AllSound', NEW c \in Calls, StartImport(c)
    PROVE  JobInv'
<1> PICK j \in Jobs, u \in Users, n \in RepoNames :
       /\ job[j] = NoJob
       /\ Arrive("imports", c, [op |-> "metadata", job |-> j, u |-> u, name |-> n])
       /\ SetStatus(j, "running")
  BY DEF StartImport
<1> DEFINE r == [op |-> "metadata", job |-> j, u |-> u, name |-> n]
<1>1. /\ req[c] = Idle /\ req'[c] = r /\ \A d \in Calls : d # c => req'[d] = req[d]
  BY DEF Arrive, JobInv, AllSound
<1>2. PICK row \in JobType :
         /\ job' = [job EXCEPT ![j] = row]
         /\ row.repo = job[j].repo
         /\ row.status = "running" \/ (row.status = job[j].status /\ row.lost)
  BY Reported DEF JobInv
<1>3. req[c].op \notin ImportOps /\ r.op \in ImportOps /\ r.job = j
  BY <1>1 DEF Idle, ImportOps
<1>4. job[j].status = None /\ job[j].repo = None
  BY DEF NoJob
<1>5. Agrees(r, row)
  BY <1>2, <1>4 DEF Agrees
<1> HIDE DEF r
<1>6. QED
  BY <1>1, <1>2, <1>3, <1>5, ImportGoesOn

\* The stages that come before the insertion, and an insertion that fails.
LEMMA StagesKeepJobs ==
    ASSUME JobInv, AllSound', NEW c \in Calls,
           \E op \in {"metadata", "clone", "insert import"} : Stage(c, op),
           GetMetadata(c) \/ CloneBare(c) \/ Fail(c)
    PROVE  JobInv'
<1> DEFINE j == req[c].job
<1>2. req[c].op \in ImportOps /\ j \in Jobs
  BY EarlyStagesAgree
<1>3. PICK row \in JobType :
         /\ job' = [job EXCEPT ![j] = row]
         /\ row.repo = None
         /\ row.status = "running" \/ (row.status \in {None, "running"} /\ row.lost)
  BY EarlyStagesAgree
<1>4. ASSUME NEW r, Become(c, r),
             r.op \in {"metadata", "clone", "insert import"}
               \/ (r.op = "report" /\ r.status = "failed"),
             r.job = j
      PROVE  JobInv'
  <2>1. req'[c] = r /\ \A d \in Calls : d # c => req'[d] = req[d]
    BY <1>4 DEF Become, JobInv, AllSound
  <2>2. Agrees(r, row)
    BY <1>3, <1>4 DEF Agrees, MayTell
  <2>3. r.op \in ImportOps
    BY <1>4 DEF ImportOps
  <2>4. QED
    BY <1>2, <1>3, <1>4, <2>1, <2>2, <2>3, ImportGoesOn
<1>5. CASE Fail(c)
  BY <1>4, <1>5 DEF Fail
<1>6. CASE GetMetadata(c) /\ ~Fail(c)
  <2> DEFINE r == [req[c] EXCEPT !.op = "clone"]
  <2>1. "op" \in DOMAIN req[c] /\ "job" \in DOMAIN req[c]
    BY <1>2 DEF JobInv, AllSound, Sound
  <2>2. r.op = "clone" /\ r.job = j
    BY <2>1
  <2>3. Become(c, r)
    BY <1>6 DEF GetMetadata, Go
  <2> HIDE DEF r
  <2>4. QED
    BY <1>4, <2>2, <2>3
<1>7. CASE CloneBare(c) /\ ~Fail(c)
  BY <1>4, <1>7 DEF CloneBare
<1>8. QED
  BY <1>5, <1>6, <1>7

\* The row and the import's record of it come together.
LEMMA InsertKeepsJobs ==
    ASSUME JobInv, AllSound', NEW c \in Calls, CreateRepoInDB(c)
    PROVE  JobInv'
<1>1. CASE Fail(c) /\ SetStatus(req[c].job, "running")
  BY <1>1, StagesKeepJobs DEF CreateRepoInDB, Stage
<1>2. CASE ~(Fail(c) /\ SetStatus(req[c].job, "running"))
  <2> PICK j : j = req[c].job
    OBVIOUS
  <2> PICK r : r = req[c].repo
    OBVIOUS
  <2>1. req[c].op = "insert import" /\ req[c].op \in ImportOps
    BY DEF CreateRepoInDB, Serving, ImportOps
  <2>2. j \in Jobs /\ job[j] \in JobType /\ job[j].status \in {None, "running"}
    BY <2>1, UnderWay DEF Agrees
  <2>3. r \in RepoIds
    BY <2>1, UnderWay DEF Sound
  <2>4. PICK told \in Told(job[j], "running") :
           job' = [job EXCEPT ![j] = [told EXCEPT !.repo = r]]
    BY <1>2 DEF CreateRepoInDB
  <2> DEFINE row == [told EXCEPT !.repo = r]
             q == [op |-> "copy", job |-> j, repo |-> r]
  <2>5. /\ told \in JobType
        /\ told.status = "running" \/ (told.status = job[j].status /\ told.lost)
    BY <2>2, ToldRows
  <2>6. row \in JobType /\ row.repo = r /\ row.status = told.status /\ row.lost = told.lost
    BY <2>3, <2>5 DEF JobType
  <2>7. Agrees(q, row)
    BY <2>2, <2>3, <2>5, <2>6, ImportAssumption DEF Agrees
  <2>8. Become(c, q)
    BY <1>2 DEF CreateRepoInDB
  <2>9. q.op \in ImportOps /\ q.job = j
    BY DEF ImportOps
  <2> HIDE DEF row, q
  <2>10. req'[c] = q /\ \A d \in Calls : d # c => req'[d] = req[d]
    BY <2>8 DEF Become, JobInv, AllSound
  <2>11. job' = [job EXCEPT ![j] = row]
    BY <2>4 DEF row
  <2>12. QED
    BY <2>1, <2>2, <2>6, <2>7, <2>9, <2>10, <2>11, ImportGoesOn
<1>3. QED
  BY <1>1, <1>2

\* From the insertion on the repository is there.
LEMMA CopiesKeepJobs ==
    ASSUME JobInv, AllSound', NEW c \in Calls, CopyIssues(c) \/ CopyIssue(c)
    PROVE  JobInv'
<1> DEFINE j == req[c].job
<1>1. req[c].op = "copy"
  BY DEF CopyIssues, CopyIssue, Serving
<1>2. req[c].op \in ImportOps
  BY <1>1 DEF ImportOps
<1>3. j \in Jobs /\ job[j].repo # None /\ job[j].status \in {None, "running"}
  BY <1>1, <1>2, UnderWay DEF Agrees
<1>4. SetStatus(j, "running")
  BY DEF CopyIssues, CopyIssue
<1>5. PICK row \in JobType :
         /\ job' = [job EXCEPT ![j] = row]
         /\ row.repo = job[j].repo
         /\ row.status = "running" \/ (row.status = job[j].status /\ row.lost)
  BY <1>3, <1>4, Reported DEF JobInv
<1>6. CASE CopyIssues(c)
  <2> DEFINE r == [op |-> "report", job |-> j, status |-> "completed"]
  <2>1. req'[c] = r /\ \A d \in Calls : d # c => req'[d] = req[d]
    BY <1>6 DEF CopyIssues, Become, JobInv, AllSound
  <2>2. r.op \in ImportOps /\ r.job = j
    BY DEF ImportOps
  <2>3. Agrees(r, row)
    BY <1>3, <1>5 DEF Agrees, MayTell
  <2> HIDE DEF r
  <2>4. QED
    BY <1>2, <1>3, <1>5, <2>1, <2>2, <2>3, ImportGoesOn
<1>7. CASE CopyIssue(c)
  <2>1. UNCHANGED req
    BY <1>7 DEF CopyIssue
  <2>2. Agrees(req[c], row)
    BY <1>1, <1>3, <1>5 DEF Agrees
  <2>3. QED
    BY <1>2, <1>3, <1>5, <2>1, <2>2, ImportGoesOn
<1>8. QED
  BY <1>6, <1>7

\* A panic is remembered, so that the failure may be told of what was inserted.
LEMMA PanicKeepsJobs ==
    ASSUME JobInv, AllSound', NEW c \in Calls, Panic(c)
    PROVE  JobInv'
<1> PICK j : j = req[c].job
  OBVIOUS
<1> DEFINE r == [op |-> "report", job |-> j, status |-> "failed"]
           row == [job[j] EXCEPT !.panic = TRUE]
<1>1. req[c].op \in ImportOps
  BY DEF Panic, Serving, ImportOps
<1>2. /\ j \in Jobs /\ job[j] \in JobType
      /\ job[j].status \in {None, "running"} /\ (job[j].status = "running" \/ job[j].lost)
  BY <1>1, UnderWay DEF Agrees
<1>3. /\ row \in JobType /\ row.panic
      /\ row.status = job[j].status /\ row.lost = job[j].lost
  BY <1>2 DEF JobType
<1>4. job' = [job EXCEPT ![j] = row]
  BY DEF Panic
<1>5. req'[c] = r /\ \A d \in Calls : d # c => req'[d] = req[d]
  BY DEF Panic, Fail, Become, JobInv, AllSound
<1>6. r.op \in ImportOps /\ r.job = j
  BY DEF ImportOps
<1>7. Agrees(r, row)
  BY <1>2, <1>3 DEF Agrees, MayTell
<1> HIDE DEF r, row
<1>8. QED
  BY <1>1, <1>2, <1>3, <1>4, <1>5, <1>6, <1>7, ImportGoesOn

LEMMA ReportKeepsJobs ==
    ASSUME JobInv, AllSound', NEW c \in Calls, Report(c)
    PROVE  JobInv'
<1> DEFINE j == req[c].job
<1>1. req[c].op = "report" /\ req[c].op \in ImportOps
  BY DEF Report, Serving, ImportOps
<1>2. /\ j \in Jobs /\ req[c].status \in {"completed", "failed"}
      /\ job[j].status \in {None, "running"}
      /\ MayTell(req[c].status, job[j])
  BY <1>1, UnderWay DEF Sound, Agrees
<1>3. PICK row \in JobType :
         /\ job' = [job EXCEPT ![j] = row]
         /\ row.repo = job[j].repo /\ row.panic = job[j].panic
         /\ row.status = req[c].status \/ (row.status = job[j].status /\ row.lost)
  BY <1>2, Reported DEF JobInv, Report
<1>4. /\ req'[c] = Idle /\ \A d \in Calls : d # c => req'[d] = req[d]
  BY DEF Report, End, Become, JobInv, AllSound
<1>5. Settled(row)
  BY <1>2, <1>3, ImportAssumption DEF Settled, MayTell
<1>6. req'[c].op \notin ImportOps
  BY <1>4 DEF Idle, ImportOps
<1>7. QED
  BY <1>1, <1>2, <1>3, <1>4, <1>5, <1>6, ImportGoesOn

\* The server exits: whatever is under way is lost.
LEMMA ExitKeepsJobs ==
    ASSUME JobInv, AllSound', Exit
    PROVE  JobInv'
<1>1. \A c \in Calls : req'[c].op \notin ImportOps
  BY DEF Exit, Idle, ImportOps
<1>2. job' = [j \in Jobs |-> [job[j] EXCEPT !.lost = @ \/ Importing(j)]]
  BY DEF Exit
<1>3. ASSUME NEW j \in Jobs
      PROVE  /\ job'[j] \in JobType
             /\ job'[j].status = job[j].status
             /\ job'[j].repo = job[j].repo /\ job'[j].panic = job[j].panic
             /\ job'[j].lost <=> job[j].lost \/ Importing(j)
  <2>1. job[j] \in JobType /\ Importing(j) \in BOOLEAN
    BY DEF JobInv, Importing
  <2>2. job'[j] = [job[j] EXCEPT !.lost = @ \/ Importing(j)]
    BY <1>2
  <2>3. job[j].lost \in BOOLEAN
    BY <2>1 DEF JobType
  <2> HIDE DEF Importing
  <2>4. QED
    BY <2>1, <2>2, <2>3 DEF JobType
<1>4. job' \in [Jobs -> JobType]
  <2>1. DOMAIN job' = Jobs
    BY <1>2
  <2>2. QED
    BY <1>2, <1>3, <2>1
<1>5. StatusIsTrue'
  BY <1>3 DEF JobInv, StatusIsTrue
<1>6. QED
  BY <1>1, <1>4, <1>5 DEF JobInv

LEMMA StepKeepsJobs ==
    ASSUME JobInv, [Next]_siteVars
    PROVE  JobInv'
<1>1. AllSound /\ AllSound'
  BY AllSoundStep DEF JobInv
<1>2. ASSUME NEW ops, ops \in {AccountOps, MemberOps, RepoOps, NoticeOps, IssueOps, {"expire"}}
      PROVE  ops \cap (ImportOps \cup {"idle"}) = {}
  BY <1>2 DEF AccountOps, MemberOps, RepoOps, NoticeOps, IssueOps, ImportOps
<1>3. ASSUME UNCHANGED job,
             \E ops \in {AccountOps, MemberOps, RepoOps, NoticeOps, IssueOps, {"expire"}} : Hop(ops)
      PROVE  JobInv'
  BY <1>1, <1>2, <1>3, OthersKeepJobs
<1>4. CASE People /\ UNCHANGED <<contentVars, limitVars>>
  <2>1. UNCHANGED job
    BY <1>4 DEF contentVars, importVars
  <2>2. QED
    BY <1>1, <1>3, <1>4, <2>1, PeopleHop
<1>5. CASE Content
  <2>1. CASE ReposNext /\ UNCHANGED importVars
    BY <1>1, <1>3, <2>1, ReposHop DEF importVars
  <2>2. CASE ImportNext
    <3>1. ASSUME NEW c \in Calls, GetMetadata(c) \/ CloneBare(c)
          PROVE  JobInv'
      BY <1>1, <3>1, StagesKeepJobs DEF GetMetadata, CloneBare
    <3>2. QED
      BY <1>1, <2>2, <3>1, StartKeepsJobs, InsertKeepsJobs, CopiesKeepJobs, PanicKeepsJobs,
         ReportKeepsJobs DEF ImportNext
  <2>3. CASE Connections /\ UNCHANGED importVars
    BY <1>1, <1>3, <2>3, ConnectionsHop, RestHops DEF importVars
  <2>4. CASE NotificationsNext /\ UNCHANGED importVars
    BY <1>1, <1>3, <2>4, NotificationsHop DEF importVars
  <2>5. CASE TrackerNext /\ UNCHANGED importVars
    BY <1>1, <1>3, <2>5, TrackerHop DEF importVars
  <2>6. CASE \E c \in Calls : CopyIssue(c)
    BY <1>1, <2>6, CopiesKeepJobs
  <2>7. QED
    BY <1>5, <2>1, <2>2, <2>3, <2>4, <2>5, <2>6 DEF Content
<1>6. CASE RateLimitNext /\ UNCHANGED <<accountVars, memberVars, contentVars>>
  BY <1>3, <1>6, RateLimitHop DEF contentVars, importVars
<1>7. CASE \E c \in Calls : DeleteUser(c)
  BY <1>3, <1>7, DeleteUserHops DEF DeleteUser, contentVars, importVars
<1>8. CASE Exit
  BY <1>1, <1>8, ExitKeepsJobs
<1>9. CASE UNCHANGED siteVars
  BY <1>3, <1>9, RestHops DEF siteVars, importVars
<1>10. QED
  BY <1>4, <1>5, <1>6, <1>7, <1>8, <1>9 DEF Next

\* What the user is told of an import is so, whatever is created, imported and
\* deleted meanwhile, whatever reports are lost, wherever the goroutine panics, and
\* when the server exits.
THEOREM StatusesAreTrue == Spec => []StatusIsTrue
<1>1. Init => JobInv
  <2> SUFFICES ASSUME Init PROVE JobInv
    OBVIOUS
  <2>1. AllSound /\ \A c \in Calls : req[c].op \notin ImportOps
    BY AllSoundInit DEF Init, RequestsInit, Idle, ImportOps
  <2>2. job = [j \in Jobs |-> NoJob] /\ NoJob \in JobType
    BY DEF Init, ImportInit, NoJob, JobType
  <2>3. StatusIsTrue
    BY <2>2, ImportAssumption DEF StatusIsTrue, NoJob
  <2>4. QED
    BY <2>1, <2>2, <2>3 DEF JobInv
<1>2. JobInv /\ [Next]_siteVars => JobInv'
  BY StepKeepsJobs
<1>3. JobInv => StatusIsTrue
  BY DEF JobInv
<1>4. QED
  BY <1>1, <1>2, <1>3, PTL DEF Spec
-----------------------------------------------------------------------------
(* Directories *)

\* A request that has a row without an owner to itself: the row was deleted and its
\* directory is still there, or the directory is there and the row is not inserted.
HoldsRow(r) == r.op \in {"remove dir", "insert import"}

\* What the record of a request says of rows, directories and spoiled paths.
FitsDirs(r, rows, dirs, bad) ==
    /\ HoldsRow(r) => rows[r.repo].owner = None /\ rows[r.repo].was = TRUE
    /\ r.op = "remove dir" /\ r.path \in Paths \ bad => dirs[r.path] = r.repo
    /\ r.op = "rename dir" => r.path \in bad /\ r.to \in bad

DirInv ==
    /\ AllSound
    /\ DOMAIN repo = RepoIds
    /\ \A r \in RepoIds : DOMAIN repo[r] = DOMAIN NoRepo
    /\ DOMAIN dir = Paths
    /\ \A c \in Calls : FitsDirs(req[c], repo, dir, spoiled)
    /\ \A c, d \in Calls : HoldsRow(req[c]) /\ HoldsRow(req[d]) /\ c # d
                           => req[c].repo # req[d].repo

\* A directory that is no longer where it was is of a repository without a row, or
\* was at a spoiled path.
DirsKept ==
    \A p \in Paths : dir'[p] # dir[p] =>
        dir[p] = None \/ p \in spoiled' \/ (dir[p] \in RepoIds => repo[dir[p]].owner = None)

LEMMA HeldRows ==
    ASSUME AllSound, NEW c \in Calls, HoldsRow(req[c])
    PROVE  req[c].repo \in RepoIds
<1>1. Sound(req[c])
  BY DEF AllSound
<1>2. req[c].op \in RepoOps \ {"insert repo", "rename dir"} \/ req[c].op = "insert import"
  BY DEF HoldsRow, RepoOps
<1>3. QED
  BY <1>1, <1>2 DEF Sound

\* Rows that are held are left alone, and so are the directories behind them.
LEMMA OneFits ==
    ASSUME DirInv, AllSound', NEW c \in Calls,
           \A d \in Calls : d # c => req'[d] = req[d],
           DOMAIN repo' = RepoIds, \A r \in RepoIds : DOMAIN repo'[r] = DOMAIN NoRepo,
           DOMAIN dir' = Paths,
           spoiled \subseteq spoiled',
           \A d \in Calls : d # c /\ HoldsRow(req[d]) => repo'[req[d].repo] = repo[req[d].repo],
           \A d \in Calls : /\ d # c /\ req[d].op = "remove dir"
                            /\ req[d].path \in Paths \ spoiled'
                            => dir'[req[d].path] = dir[req[d].path],
           FitsDirs(req'[c], repo', dir', spoiled'),
           \A d \in Calls : d # c /\ HoldsRow(req[d]) /\ HoldsRow(req'[c])
                            => req[d].repo # req'[c].repo
    PROVE  DirInv'
<1>1. ASSUME NEW d \in Calls
      PROVE  FitsDirs(req'[d], repo', dir', spoiled')
  <2>1. CASE d = c
    BY <2>1
  <2>2. CASE d # c
    <3>1. req'[d] = req[d] /\ FitsDirs(req[d], repo, dir, spoiled)
      BY <2>2 DEF DirInv
    <3>2. HoldsRow(req[d]) => repo'[req[d].repo].owner = None /\ repo'[req[d].repo].was = TRUE
      BY <2>2, <3>1 DEF FitsDirs
    <3>3. req[d].op = "remove dir" /\ req[d].path \in Paths \ spoiled'
              => dir'[req[d].path] = req[d].repo
      BY <2>2, <3>1 DEF FitsDirs
    <3>4. req[d].op = "rename dir" => req[d].path \in spoiled' /\ req[d].to \in spoiled'
      BY <3>1 DEF FitsDirs
    <3>5. QED
      BY <3>1, <3>2, <3>3, <3>4 DEF FitsDirs
  <2>3. QED
    BY <2>1, <2>2
<1>2. (\A d \in Calls : FitsDirs(req[d], repo, dir, spoiled))'
  BY <1>1 DEF FitsDirs, HoldsRow, Paths
<1>3. \A d, e \in Calls : HoldsRow(req'[d]) /\ HoldsRow(req'[e]) /\ d # e
                          => req'[d].repo # req'[e].repo
  BY Zenon DEF DirInv
<1>4. (\A d, e \in Calls : HoldsRow(req[d]) /\ HoldsRow(req[e]) /\ d # e
                          => req[d].repo # req[e].repo)'
  BY <1>3 DEF HoldsRow
<1>5. QED
  BY <1>2, <1>4 DEF DirInv, Paths, NoRepo

\* Requests that are not about repositories.
LEMMA OthersKeepDirs ==
    ASSUME DirInv, AllSound', NEW ops,
           ops \cap {"remove dir", "insert import", "rename dir", "idle"} = {}, Hop(ops),
           UNCHANGED repoVars
    PROVE  DirInv' /\ DirsKept
<1>1. UNCHANGED repo /\ UNCHANGED dir /\ UNCHANGED spoiled
  BY DEF repoVars
<1>2. ASSUME NEW c \in Calls, req'[c] # req[c]
      PROVE  req'[c].op \notin {"remove dir", "insert import", "rename dir"}
  BY <1>2, HopSpares DEF DirInv
<1>3. (\A c \in Calls : FitsDirs(req[c], repo, dir, spoiled))'
  <2> SUFFICES ASSUME NEW c \in Calls
               PROVE  FitsDirs(req'[c], repo, dir, spoiled)
    BY <1>1 DEF FitsDirs, HoldsRow, Paths
  <2>1. CASE req'[c] = req[c]
    BY <2>1 DEF DirInv
  <2>2. CASE req'[c] # req[c]
    BY <1>2, <2>2 DEF FitsDirs, HoldsRow
  <2>3. QED
    BY <2>1, <2>2
<1>4. (\A c, d \in Calls : HoldsRow(req[c]) /\ HoldsRow(req[d]) /\ c # d
                           => req[c].repo # req[d].repo)'
  BY <1>2 DEF DirInv, HoldsRow
<1>5. DirInv'
  BY <1>1, <1>3, <1>4 DEF DirInv, Paths, NoRepo
<1>6. QED
  BY <1>1, <1>5 DEF DirsKept

\* A step of a request that ends or goes on without holding a row.
LEMMA RestFits ==
    ASSUME NEW r, r.op \notin {"remove dir", "insert import", "rename dir"},
           NEW rows, NEW dirs, NEW bad
    PROVE  FitsDirs(r, rows, dirs, bad) /\ ~HoldsRow(r)
BY DEF FitsDirs, HoldsRow

LEMMA FreshRow ==
    ASSUME DirInv, NEW r \in RepoIds, repo[r] = NoRepo, NEW d \in Calls, HoldsRow(req[d])
    PROVE  req[d].repo # r
<1>1. repo[req[d].repo].was = TRUE
  BY DEF DirInv, FitsDirs
<1>2. NoRepo.was = FALSE
  BY DEF NoRepo
<1>3. QED
  BY <1>1, <1>2

LEMMA OwnedRow ==
    ASSUME DirInv, NEW r \in RepoIds, IsRepo(r), NEW d \in Calls, HoldsRow(req[d])
    PROVE  req[d].repo # r
BY DEF DirInv, FitsDirs, IsRepo

LEMMA MoveOf ==
    ASSUME DirInv, NEW c \in Calls, NEW r, Become(c, r)
    PROVE  req'[c] = r /\ \A d \in Calls : d # c => req'[d] = req[d]
BY DEF Become, DirInv, AllSound

LEMMA EndOf ==
    ASSUME DirInv, NEW c \in Calls, End(c)
    PROVE  /\ req'[c] = Idle /\ \A d \in Calls : d # c => req'[d] = req[d]
           /\ req'[c].op \notin {"remove dir", "insert import", "rename dir"}
<1>1. Become(c, Idle)
  BY DEF End
<1>2. Idle.op \notin {"remove dir", "insert import", "rename dir"}
  BY DEF Idle
<1>3. QED
  BY <1>1, <1>2, MoveOf

LEMMA ArrivalOf ==
    ASSUME DirInv, NEW c \in Calls, NEW k, NEW r, Arrive(k, c, r)
    PROVE  req'[c] = r /\ \A d \in Calls : d # c => req'[d] = req[d]
BY DEF Arrive, DirInv, AllSound

\* Steps of requests about repositories and imports that touch no row, no directory.
LEMMA PausesKeepDirs ==
    ASSUME DirInv, AllSound', NEW c \in Calls, UNCHANGED repoVars,
           \A d \in Calls : d # c => req'[d] = req[d],
           req'[c].op \notin {"remove dir", "insert import", "rename dir"}
    PROVE  DirInv' /\ DirsKept
<1>1. UNCHANGED repo /\ UNCHANGED dir /\ UNCHANGED spoiled
  BY DEF repoVars
<1>2. FitsDirs(req'[c], repo', dir', spoiled') /\ ~HoldsRow(req'[c])
  BY RestFits
<1>3. /\ DOMAIN repo = RepoIds /\ \A r \in RepoIds : DOMAIN repo[r] = DOMAIN NoRepo
      /\ DOMAIN dir = Paths
  BY DEF DirInv
<1>4. DirInv'
  BY <1>1, <1>2, <1>3, OneFits
<1>5. QED
  BY <1>1, <1>4 DEF DirsKept

\* A row is inserted, renamed or left, and no directory changes.
LEMMA RowKeepsDirs ==
    ASSUME DirInv, AllSound', NEW c \in Calls, NEW r \in RepoIds,
           \A d \in Calls : d # c => req'[d] = req[d],
           DOMAIN repo' = RepoIds, \A q \in RepoIds : q # r => repo'[q] = repo[q],
           DOMAIN repo'[r] = DOMAIN NoRepo,
           \A d \in Calls : d # c /\ HoldsRow(req[d]) => req[d].repo # r,
           UNCHANGED dir, spoiled \subseteq spoiled',
           FitsDirs(req'[c], repo', dir', spoiled'),
           HoldsRow(req'[c]) => req'[c].repo = r
    PROVE  DirInv' /\ DirsKept
<1>2. \A q \in RepoIds : DOMAIN repo'[q] = DOMAIN NoRepo
  BY DEF DirInv
<1>3. \A d \in Calls : d # c /\ HoldsRow(req[d]) => repo'[req[d].repo] = repo[req[d].repo]
  BY HeldRows DEF DirInv
<1>4. DOMAIN dir' = Paths
  BY DEF DirInv
<1>5. /\ \A d \in Calls : d # c /\ HoldsRow(req[d]) /\ HoldsRow(req'[c])
                            => req[d].repo # req'[c].repo
      /\ \A d \in Calls : /\ d # c /\ req[d].op = "remove dir"
                            /\ req[d].path \in Paths \ spoiled'
                            => dir'[req[d].path] = dir[req[d].path]
  OBVIOUS
<1>6. DirInv'
  BY <1>2, <1>3, <1>4, <1>5, OneFits
<1>7. QED
  BY <1>6 DEF DirsKept

LEMMA InsertKeepsDirs ==
    ASSUME DirInv, AllSound', NEW c \in Calls, InsertRepo(c)
    PROVE  DirInv' /\ DirsKept
<1>1. CASE End(c) /\ UNCHANGED repo
  BY <1>1, EndOf, PausesKeepDirs DEF InsertRepo, repoVars
<1>2. ASSUME NEW r \in RepoIds, repo[r] = NoRepo,
             repo' = [repo EXCEPT ![r].owner = req[c].u, ![r].name = req[c].path[2],
                                  ![r].was = TRUE],
             Become(c, [op |-> "init bare", repo |-> r, path |-> req[c].path, next |-> req[c].next])
      PROVE  DirInv' /\ DirsKept
  <2> DEFINE row == [repo[r] EXCEPT !.owner = req[c].u, !.name = req[c].path[2], !.was = TRUE]
             q == [op |-> "init bare", repo |-> r, path |-> req[c].path, next |-> req[c].next]
  <2>1. repo' = [repo EXCEPT ![r] = row]
    BY <1>2
  <2>2. DOMAIN row = DOMAIN NoRepo
    BY <1>2
  <2>3. req'[c] = q /\ \A d \in Calls : d # c => req'[d] = req[d]
    BY <1>2, MoveOf
  <2>4. q.op \notin {"remove dir", "insert import", "rename dir"}
    OBVIOUS
  <2> HIDE DEF row, q
  <2>5. FitsDirs(req'[c], repo', dir', spoiled') /\ ~HoldsRow(req'[c])
    BY <2>3, <2>4, RestFits
  <2>6. UNCHANGED dir /\ UNCHANGED spoiled
    BY DEF InsertRepo
  <2>7. \A d \in Calls : d # c /\ HoldsRow(req[d]) => req[d].repo # r
    BY <1>2, FreshRow
  <2>8. spoiled \subseteq spoiled' /\ (HoldsRow(req'[c]) => req'[c].repo = r)
    BY <2>5, <2>6
  <2>9. /\ DOMAIN repo' = RepoIds /\ \A p \in RepoIds : p # r => repo'[p] = repo[p]
        /\ DOMAIN repo'[r] = DOMAIN NoRepo
    BY <2>1, <2>2 DEF DirInv
  <2>10. QED
    BY <2>3, <2>5, <2>6, <2>7, <2>8, <2>9, RowKeepsDirs
<1>3. CASE ~(End(c) /\ UNCHANGED repo)
  <2>1. PICK r \in RepoIds :
           /\ repo[r] = NoRepo
           /\ repo' = [repo EXCEPT ![r].owner = req[c].u, ![r].name = req[c].path[2],
                                   ![r].was = TRUE]
           /\ Become(c, [op |-> "init bare", repo |-> r, path |-> req[c].path,
                         next |-> req[c].next])
    BY <1>3 DEF InsertRepo
  <2>2. QED
    BY <1>2, <2>1
<1>4. QED
  BY <1>1, <1>3

\* A directory is made where there is none.
LEMMA InitKeepsDirs ==
    ASSUME DirInv, AllSound', NEW c \in Calls, InitBare(c)
    PROVE  DirInv' /\ DirsKept
<1> DEFINE q == req[c]
<1>1. UNCHANGED repo /\ UNCHANGED spoiled
  BY DEF InitBare
<1>2. Sound(q) /\ q.op = "init bare"
  BY DEF InitBare, Serving, DirInv, AllSound
<1>3. CASE End(c) /\ UNCHANGED dir
  BY <1>1, <1>3, EndOf, PausesKeepDirs DEF repoVars
<1>4. CASE dir[q.path] = None /\ dir' = [dir EXCEPT ![q.path] = q.repo]
  <2>1. /\ req'[c].op \notin {"remove dir", "insert import", "rename dir"}
        /\ \A d \in Calls : d # c => req'[d] = req[d]
    <3>1. CASE End(c)
      BY <3>1, EndOf
    <3>2. CASE Become(c, [op |-> q.next, repo |-> q.repo, path |-> q.path])
      <4>1. q.next \in {"idle", "clone mirror"}
        BY <1>2 DEF Sound
      <4>2. /\ req'[c] = [op |-> q.next, repo |-> q.repo, path |-> q.path]
            /\ \A d \in Calls : d # c => req'[d] = req[d]
        BY <3>2, MoveOf
      <4>3. req'[c].op = q.next
        BY <4>2
      <4>4. QED
        BY <4>1, <4>2, <4>3
    <3>3. QED
      BY <1>4, <3>1, <3>2 DEF InitBare
  <2>2. DOMAIN dir' = Paths /\ \A p \in Paths : dir[p] # None => dir'[p] = dir[p]
    BY <1>4 DEF DirInv
  <2>3. FitsDirs(req'[c], repo', dir', spoiled') /\ ~HoldsRow(req'[c])
    BY <2>1, RestFits
  <2>4. ASSUME NEW d \in Calls, req[d].op = "remove dir", req[d].path \in Paths \ spoiled'
        PROVE  dir'[req[d].path] = dir[req[d].path]
    <3>1. dir[req[d].path] = req[d].repo
      BY <1>1, <2>4 DEF DirInv, FitsDirs
    <3>2. req[d].repo \in RepoIds
      BY <2>4, HeldRows DEF HoldsRow, DirInv
    <3>3. QED
      BY <2>2, <2>4, <3>1, <3>2, ImportAssumption
  <2>5. DOMAIN repo = RepoIds /\ \A r \in RepoIds : DOMAIN repo[r] = DOMAIN NoRepo
    BY DEF DirInv
  <2>6. DirInv'
    BY <1>1, <2>1, <2>2, <2>3, <2>4, <2>5, OneFits
  <2>7. QED
    BY <2>2, <2>6 DEF DirsKept
<1>5. QED
  BY <1>3, <1>4 DEF InitBare

\* The row goes first; its path is spoiled if the directory there is another's.
LEMMA DeleteRowKeepsDirs ==
    ASSUME DirInv, AllSound', NEW c \in Calls, DeleteRepoRow(c)
    PROVE  DirInv' /\ DirsKept
<1>1. Sound(req[c]) /\ req[c].op = "delete repo"
  BY DEF DeleteRepoRow, Serving, DirInv, AllSound
<1>2. req[c].repo \in RepoIds
  BY <1>1 DEF Sound, RepoOps
<1>3. CASE End(c) /\ UNCHANGED <<repo, spoiled>>
  BY <1>3, EndOf, PausesKeepDirs DEF DeleteRepoRow, repoVars
<1>4. CASE ~(End(c) /\ UNCHANGED <<repo, spoiled>>)
  <2> DEFINE q == [op |-> "remove dir", repo |-> req[c].repo, path |-> req[c].path]
  <2>1. /\ IsRepo(req[c].repo)
        /\ repo' = [repo EXCEPT ![req[c].repo] = GoneRepo]
        /\ spoiled' = spoiled \cup NotItsOwn(req[c])
        /\ Become(c, q)
    BY <1>4 DEF DeleteRepoRow
  <2>2. UNCHANGED dir
    BY DEF DeleteRepoRow
  <2>3. req'[c] = q /\ \A d \in Calls : d # c => req'[d] = req[d]
    BY <2>1, MoveOf
  <2>4. \A d \in Calls : d # c /\ HoldsRow(req[d]) => req[d].repo # req[c].repo
    BY <1>2, <2>1, OwnedRow
  <2>5. GoneRepo.owner = None /\ GoneRepo.was = TRUE /\ DOMAIN GoneRepo = DOMAIN NoRepo
    BY DEF GoneRepo, NoRepo
  <2>6. q.op = "remove dir" /\ q.repo = req[c].repo /\ q.path = req[c].path
    OBVIOUS
  <2> HIDE DEF q
  <2>7. repo'[q.repo] = GoneRepo
    BY <1>2, <2>1, <2>6 DEF DirInv
  <2>8. q.path \notin spoiled' => dir'[q.path] = q.repo
    BY <2>1, <2>2, <2>6 DEF NotItsOwn
  <2>9. FitsDirs(q, repo', dir', spoiled')
    BY <2>5, <2>6, <2>7, <2>8 DEF FitsDirs
  <2>10. spoiled \subseteq spoiled'
    BY <2>1
  <2>11. FitsDirs(req'[c], repo', dir', spoiled') /\ (HoldsRow(req'[c]) => req'[c].repo = req[c].repo)
    BY <2>3, <2>6, <2>9
  <2>12. /\ DOMAIN repo' = RepoIds
         /\ \A p \in RepoIds : p # req[c].repo => repo'[p] = repo[p]
         /\ DOMAIN repo'[req[c].repo] = DOMAIN NoRepo
    BY <1>2, <2>1, <2>5 DEF DirInv
  <2>13. QED
    BY <1>2, <2>2, <2>3, <2>4, <2>10, <2>11, <2>12, RowKeepsDirs
<1>5. QED
  BY <1>3, <1>4

\* A renaming spoils the path it is from, and the path it is to.
LEMMA RenameRowKeepsDirs ==
    ASSUME DirInv, AllSound', NEW c \in Calls, RenameRow(c)
    PROVE  DirInv' /\ DirsKept
<1> DEFINE q  == req[c]
           to == <<q.path[1], q.name>>
<1>1. Sound(q) /\ q.op = "rename repo"
  BY DEF RenameRow, Serving, DirInv, AllSound
<1>2. q.repo \in RepoIds
  BY <1>1 DEF Sound, RepoOps
<1>3. UNCHANGED dir
  BY DEF RenameRow
<1>4. CASE End(c) /\ UNCHANGED <<repo, spoiled>>
  BY <1>3, <1>4, EndOf, PausesKeepDirs DEF repoVars
<1>5. CASE ~(End(c) /\ UNCHANGED <<repo, spoiled>>)
  <2> DEFINE row == [repo[q.repo] EXCEPT !.name = q.name]
             ren == [op |-> "rename dir", path |-> q.path, to |-> to]
  <2>1. /\ IsRepo(q.repo)
        /\ repo' = [repo EXCEPT ![q.repo] = row]
        /\ \/ End(c) /\ UNCHANGED spoiled
           \/ Become(c, ren) /\ spoiled' = spoiled \cup {q.path, to}
    BY <1>5 DEF RenameRow
  <2>2. DOMAIN row = DOMAIN NoRepo
    BY <1>2 DEF DirInv
  <2>3. \A d \in Calls : d # c /\ HoldsRow(req[d]) => req[d].repo # q.repo
    BY <1>2, <2>1, OwnedRow
  <2>4. spoiled \subseteq spoiled'
    BY <2>1
  <2>5. /\ \A d \in Calls : d # c => req'[d] = req[d]
        /\ FitsDirs(req'[c], repo', dir', spoiled') /\ ~HoldsRow(req'[c])
    <3>1. CASE End(c)
      BY <3>1, EndOf, RestFits
    <3>2. CASE Become(c, ren) /\ spoiled' = spoiled \cup {q.path, to}
      <4>1. req'[c] = ren /\ \A d \in Calls : d # c => req'[d] = req[d]
        BY <3>2, MoveOf
      <4>2. ren.op = "rename dir" /\ ren.path = q.path /\ ren.to = to
        OBVIOUS
      <4>3. q.path \in spoiled' /\ to \in spoiled'
        BY <3>2
      <4> HIDE DEF ren, q, to
      <4>4. FitsDirs(ren, repo', dir', spoiled') /\ ~HoldsRow(ren)
        BY <4>2, <4>3 DEF FitsDirs, HoldsRow
      <4>5. QED
        BY <4>1, <4>4
    <3>3. QED
      BY <2>1, <3>1, <3>2
  <2> HIDE DEF row, ren
  <2>6. /\ DOMAIN repo' = RepoIds /\ \A p \in RepoIds : p # q.repo => repo'[p] = repo[p]
        /\ DOMAIN repo'[q.repo] = DOMAIN NoRepo
    BY <1>2, <2>1, <2>2 DEF DirInv
  <2>7. \A d \in Calls : d # c => req'[d] = req[d]
    BY <2>5
  <2>8. FitsDirs(req'[c], repo', dir', spoiled') /\ (HoldsRow(req'[c]) => req'[c].repo = q.repo)
    BY <2>5
  <2> HIDE DEF q
  <2>9. QED
    BY <1>2, <1>3, <2>3, <2>4, <2>6, <2>7, <2>8, RowKeepsDirs
<1>6. QED
  BY <1>4, <1>5

\* What is removed is the directory of the row that was deleted, or at a spoiled path.
LEMMA RemoveKeepsDirs ==
    ASSUME DirInv, AllSound', NEW c \in Calls, RemoveDir(c)
    PROVE  DirInv' /\ DirsKept
<1>1. req[c].op = "remove dir" /\ HoldsRow(req[c])
  BY DEF RemoveDir, Serving, HoldsRow
<1>2. FitsDirs(req[c], repo, dir, spoiled)
  BY DEF DirInv
<1>3. UNCHANGED repo /\ UNCHANGED spoiled /\ dir' \in {dir, [dir EXCEPT ![req[c].path] = None]}
  BY DEF RemoveDir
<1>4. /\ \A d \in Calls : d # c => req'[d] = req[d]
      /\ req'[c].op \notin {"remove dir", "insert import", "rename dir"}
  BY EndOf DEF RemoveDir
<1>5. DOMAIN dir' = Paths /\ \A p \in Paths : p # req[c].path => dir'[p] = dir[p]
  BY <1>3 DEF DirInv
<1>6. FitsDirs(req'[c], repo', dir', spoiled') /\ ~HoldsRow(req'[c])
  BY <1>4, RestFits
<1>7. ASSUME NEW d \in Calls, d # c, req[d].op = "remove dir", req[d].path \in Paths \ spoiled'
      PROVE  dir'[req[d].path] = dir[req[d].path]
  <2>1. HoldsRow(req[d]) /\ FitsDirs(req[d], repo, dir, spoiled)
    BY <1>7 DEF DirInv, HoldsRow
  <2>2. req[d].repo # req[c].repo
    BY <1>1, <1>7, <2>1 DEF DirInv
  <2>3. req[d].path = req[c].path => req[d].repo = req[c].repo
    BY <1>1, <1>2, <1>3, <1>7, <2>1 DEF FitsDirs
  <2>4. QED
    BY <1>5, <1>7, <2>2, <2>3
<1>8. /\ DOMAIN repo = RepoIds /\ \A r \in RepoIds : DOMAIN repo[r] = DOMAIN NoRepo
  BY DEF DirInv
<1>9. DirInv'
  BY <1>3, <1>4, <1>5, <1>6, <1>7, <1>8, OneFits
<1>10. ASSUME NEW p \in Paths, dir'[p] # dir[p], p \notin spoiled'
       PROVE  repo[dir[p]].owner = None
  <2>1. p = req[c].path
    BY <1>5, <1>10
  <2>2. dir[p] = req[c].repo
    BY <1>1, <1>2, <1>3, <1>10, <2>1 DEF FitsDirs
  <2>3. QED
    BY <1>1, <1>2, <2>2 DEF FitsDirs
<1>11. QED
  BY <1>9, <1>10 DEF DirsKept

\* A renaming moves what is at spoiled paths.
LEMMA RenameDirKeepsDirs ==
    ASSUME DirInv, AllSound', NEW c \in Calls, RenameDir(c)
    PROVE  DirInv' /\ DirsKept
<1>1. req[c].op = "rename dir" /\ FitsDirs(req[c], repo, dir, spoiled)
  BY DEF RenameDir, Serving, DirInv
<1>2. req[c].path \in spoiled /\ req[c].to \in spoiled
  BY <1>1 DEF FitsDirs
<1>3. UNCHANGED repo /\ UNCHANGED spoiled
  BY DEF RenameDir
<1>4. /\ \A d \in Calls : d # c => req'[d] = req[d]
      /\ req'[c].op \notin {"remove dir", "insert import", "rename dir"}
  BY EndOf DEF RenameDir
<1>5. DOMAIN dir' = Paths /\ \A p \in Paths \ spoiled : dir'[p] = dir[p]
  BY <1>2 DEF RenameDir, DirInv
<1>6. FitsDirs(req'[c], repo', dir', spoiled') /\ ~HoldsRow(req'[c])
  BY <1>4, RestFits
<1>7. /\ DOMAIN repo = RepoIds /\ \A r \in RepoIds : DOMAIN repo[r] = DOMAIN NoRepo
  BY DEF DirInv
<1>8. DirInv'
  BY <1>3, <1>4, <1>5, <1>6, <1>7, OneFits
<1>9. QED
  BY <1>3, <1>5, <1>8 DEF DirsKept

LEMMA FailureOf ==
    ASSUME DirInv, NEW c \in Calls, Fail(c)
    PROVE  /\ \A d \in Calls : d # c => req'[d] = req[d]
           /\ req'[c].op \notin {"remove dir", "insert import", "rename dir"}
<1> DEFINE r == [op |-> "report", job |-> req[c].job, status |-> "failed"]
<1>1. Become(c, r) /\ r.op = "report"
  BY DEF Fail
<1> HIDE DEF r
<1>2. QED
  BY <1>1, MoveOf

\* A clone is made where there is nothing, of a repository without a row.
LEMMA CloneKeepsDirs ==
    ASSUME DirInv, AllSound', NEW c \in Calls, CloneBare(c)
    PROVE  DirInv' /\ DirsKept
<1>1. CASE Fail(c) /\ UNCHANGED repoVars
  BY <1>1, FailureOf, PausesKeepDirs
<1>2. CASE ~(Fail(c) /\ UNCHANGED repoVars)
  <2> DEFINE path == <<user[req[c].u].name, req[c].name>>
  <2>1. PICK r \in RepoIds :
           /\ dir[path] = None /\ repo[r] = NoRepo
           /\ dir' = [dir EXCEPT ![path] = r]
           /\ repo' = [repo EXCEPT ![r].was = TRUE]
           /\ UNCHANGED spoiled
           /\ Become(c, [op |-> "insert import", job |-> req[c].job, u |-> req[c].u,
                         name |-> req[c].name, repo |-> r])
    BY <1>2 DEF CloneBare
  <2> DEFINE q == [op |-> "insert import", job |-> req[c].job, u |-> req[c].u,
                   name |-> req[c].name, repo |-> r]
  <2>2. q.op = "insert import" /\ q.repo = r
    OBVIOUS
  <2>3. Become(c, q)
    BY <2>1
  <2> HIDE DEF q
  <2>4. req'[c] = q /\ \A d \in Calls : d # c => req'[d] = req[d]
    BY <2>3, MoveOf
  <2>5. \A d \in Calls : HoldsRow(req[d]) => req[d].repo # r
    BY <2>1, FreshRow
  <2>6. /\ DOMAIN repo' = RepoIds /\ \A s \in RepoIds : s # r => repo'[s] = repo[s]
        /\ repo'[r] = [NoRepo EXCEPT !.was = TRUE]
    BY <2>1 DEF DirInv
  <2>7. /\ repo'[r].owner = None /\ repo'[r].was = TRUE
        /\ DOMAIN repo'[r] = DOMAIN NoRepo
    BY <2>6 DEF NoRepo
  <2>8. DOMAIN dir' = Paths /\ \A p \in Paths : dir[p] # None => dir'[p] = dir[p]
    BY <2>1 DEF DirInv
  <2>9. \A s \in RepoIds : DOMAIN repo'[s] = DOMAIN NoRepo
    BY <2>6, <2>7 DEF DirInv
  <2>10. \A d \in Calls : d # c /\ HoldsRow(req[d]) => repo'[req[d].repo] = repo[req[d].repo]
    BY <2>5, <2>6, HeldRows DEF DirInv
  <2>11. ASSUME NEW d \in Calls, req[d].op = "remove dir", req[d].path \in Paths \ spoiled'
         PROVE  dir'[req[d].path] = dir[req[d].path]
    <3>1. dir[req[d].path] = req[d].repo
      BY <2>1, <2>11 DEF DirInv, FitsDirs
    <3>2. req[d].repo \in RepoIds
      BY <2>11, HeldRows DEF HoldsRow, DirInv
    <3>3. QED
      BY <2>8, <2>11, <3>1, <3>2, ImportAssumption
  <2>12. FitsDirs(req'[c], repo', dir', spoiled')
    BY <2>2, <2>4, <2>7 DEF FitsDirs
  <2>13. \A d \in Calls : d # c /\ HoldsRow(req[d]) /\ HoldsRow(req'[c])
                          => req[d].repo # req'[c].repo
    BY <2>2, <2>4, <2>5
  <2>14. spoiled \subseteq spoiled'
    BY <2>1
  <2>15. DirInv'
    BY <2>4, <2>6, <2>8, <2>9, <2>10, <2>11, <2>12, <2>13, <2>14, OneFits
  <2>16. QED
    BY <2>8, <2>15 DEF DirsKept
<1>3. QED
  BY <1>1, <1>2

\* The row that an import inserts is its own.
LEMMA ImportedRowKeepsDirs ==
    ASSUME DirInv, AllSound', NEW c \in Calls, CreateRepoInDB(c)
    PROVE  DirInv' /\ DirsKept
<1>1. UNCHANGED dir /\ UNCHANGED spoiled
  BY DEF CreateRepoInDB
<1>2. CASE Fail(c) /\ UNCHANGED repo
  BY <1>1, <1>2, FailureOf, PausesKeepDirs DEF repoVars
<1>3. CASE ~(Fail(c) /\ UNCHANGED repo)
  <2> DEFINE r == req[c].repo
             q == [op |-> "copy", job |-> req[c].job, repo |-> r]
  <2>1. /\ repo' = [repo EXCEPT ![r].owner = req[c].u, ![r].name = req[c].name]
        /\ Become(c, q)
    BY <1>3 DEF CreateRepoInDB
  <2>2. HoldsRow(req[c])
    BY DEF CreateRepoInDB, Serving, HoldsRow
  <2>3. r \in RepoIds
    BY <2>2, HeldRows DEF DirInv
  <2>4. \A d \in Calls : d # c /\ HoldsRow(req[d]) => req[d].repo # r
    BY <2>2 DEF DirInv
  <2>5. /\ DOMAIN repo' = RepoIds /\ \A s \in RepoIds : s # r => repo'[s] = repo[s]
        /\ DOMAIN repo'[r] = DOMAIN NoRepo
    BY <2>1, <2>3 DEF DirInv
  <2>6. q.op = "copy"
    OBVIOUS
  <2> HIDE DEF q, r
  <2>7. /\ \A d \in Calls : d # c => req'[d] = req[d]
        /\ req'[c].op \notin {"remove dir", "insert import", "rename dir"}
    BY <2>1, <2>6, MoveOf
  <2>8. FitsDirs(req'[c], repo', dir', spoiled') /\ ~HoldsRow(req'[c])
    BY <2>7, RestFits
  <2>9. spoiled \subseteq spoiled' /\ (HoldsRow(req'[c]) => req'[c].repo = r)
    BY <1>1, <2>8
  <2>10. QED
    BY <1>1, <2>3, <2>4, <2>5, <2>7, <2>8, <2>9, RowKeepsDirs
<1>4. QED
  BY <1>2, <1>3 DEF CreateRepoInDB

\* What a request is when it arrives, and when it goes on to its next statement.
LEMMA ArrivalsKeepDirs ==
    ASSUME DirInv, AllSound', NEW c \in Calls,
           CreateRepo(c) \/ DeleteRepo(c) \/ UpdateRepo(c) \/ CloneMirror(c)
    PROVE  DirInv' /\ DirsKept
<1>1. UNCHANGED repoVars
  BY DEF CreateRepo, DeleteRepo, UpdateRepo, AsRepoOwner, CloneMirror
<1>2. ASSUME NEW k, NEW r, Arrive(k, c, r), r.op \notin {"remove dir", "insert import", "rename dir"}
      PROVE  DirInv' /\ DirsKept
  <2>1. req'[c] = r /\ \A d \in Calls : d # c => req'[d] = req[d]
    BY <1>2, ArrivalOf
  <2>2. QED
    BY <1>1, <1>2, <2>1, PausesKeepDirs
<1>3. CASE CreateRepo(c)
  BY <1>2, <1>3 DEF CreateRepo
<1>4. CASE DeleteRepo(c) \/ UpdateRepo(c)
  BY <1>2, <1>4 DEF DeleteRepo, UpdateRepo, AsRepoOwner
<1>5. CASE CloneMirror(c)
  <2>1. CASE End(c)
    BY <1>1, <2>1, EndOf, PausesKeepDirs
  <2>2. CASE Go(c, "delete repo")
    <3> DEFINE r == [req[c] EXCEPT !.op = "delete repo"]
    <3>1. "op" \in DOMAIN req[c]
      BY DEF DirInv, AllSound, Sound
    <3>2. r.op = "delete repo"
      BY <3>1
    <3>3. Become(c, r)
      BY <2>2 DEF Go
    <3> HIDE DEF r
    <3>4. req'[c] = r /\ \A d \in Calls : d # c => req'[d] = req[d]
      BY <3>3, MoveOf
    <3>5. QED
      BY <1>1, <3>2, <3>4, PausesKeepDirs
  <2>3. QED
    BY <1>5, <2>1, <2>2 DEF CloneMirror
<1>6. QED
  BY <1>3, <1>4, <1>5

LEMMA ReposKeepDirs ==
    ASSUME DirInv, AllSound', ReposNext
    PROVE  DirInv' /\ DirsKept
BY ArrivalsKeepDirs, InsertKeepsDirs, InitKeepsDirs, DeleteRowKeepsDirs, RemoveKeepsDirs,
   RenameRowKeepsDirs, RenameDirKeepsDirs DEF ReposNext

LEMMA ImportsKeepDirs ==
    ASSUME DirInv, AllSound', ImportNext \/ \E c \in Calls : CopyIssue(c)
    PROVE  DirInv' /\ DirsKept
<1>1. ASSUME NEW c \in Calls, StartImport(c)
      PROVE  DirInv' /\ DirsKept
  <2>1. PICK j \in Jobs, u \in Users, n \in RepoNames :
           Arrive("imports", c, [op |-> "metadata", job |-> j, u |-> u, name |-> n])
    BY <1>1 DEF StartImport
  <2>2. /\ req'[c] = [op |-> "metadata", job |-> j, u |-> u, name |-> n]
        /\ \A d \in Calls : d # c => req'[d] = req[d]
    BY <2>1, ArrivalOf
  <2>3. UNCHANGED repoVars
    BY <1>1 DEF StartImport
  <2>4. req'[c].op \notin {"remove dir", "insert import", "rename dir"}
    BY <2>2
  <2>5. QED
    BY <2>2, <2>3, <2>4, PausesKeepDirs
<1>2. ASSUME NEW c \in Calls, GetMetadata(c)
      PROVE  DirInv' /\ DirsKept
  <2>1. UNCHANGED repoVars
    BY <1>2 DEF GetMetadata
  <2>2. CASE Fail(c)
    BY <2>1, <2>2, FailureOf, PausesKeepDirs
  <2>3. CASE Go(c, "clone")
    <3> DEFINE r == [req[c] EXCEPT !.op = "clone"]
    <3>1. "op" \in DOMAIN req[c]
      BY DEF DirInv, AllSound, Sound
    <3>2. r.op = "clone"
      BY <3>1
    <3>3. Become(c, r)
      BY <2>3 DEF Go
    <3> HIDE DEF r
    <3>4. req'[c] = r /\ \A d \in Calls : d # c => req'[d] = req[d]
      BY <3>3, MoveOf
    <3>5. QED
      BY <2>1, <3>2, <3>4, PausesKeepDirs
  <2>4. QED
    BY <1>2, <2>2, <2>3 DEF GetMetadata
<1>3. ASSUME NEW c \in Calls, CopyIssues(c)
      PROVE  DirInv' /\ DirsKept
  <2> DEFINE r == [op |-> "report", job |-> req[c].job, status |-> "completed"]
  <2>1. UNCHANGED repoVars /\ Become(c, r) /\ r.op = "report"
    BY <1>3 DEF CopyIssues
  <2> HIDE DEF r
  <2>2. req'[c] = r /\ \A d \in Calls : d # c => req'[d] = req[d]
    BY <2>1, MoveOf
  <2>3. QED
    BY <2>1, <2>2, PausesKeepDirs
<1>4. ASSUME NEW c \in Calls, Report(c)
      PROVE  DirInv' /\ DirsKept
  BY <1>4, EndOf, PausesKeepDirs DEF Report
<1>5. ASSUME NEW c \in Calls, CopyIssue(c)
      PROVE  DirInv' /\ DirsKept
  <2>1. UNCHANGED req /\ UNCHANGED repoVars
    BY <1>5 DEF CopyIssue
  <2>2. Hop({})
    BY <2>1, RestHops
  <2>3. QED
    BY <2>1, <2>2, OthersKeepDirs
<1>6. ASSUME NEW c \in Calls, Panic(c)
      PROVE  DirInv' /\ DirsKept
  BY <1>6, FailureOf, PausesKeepDirs DEF Panic
<1>7. QED
  BY <1>1, <1>2, <1>3, <1>4, <1>5, <1>6, CloneKeepsDirs, ImportedRowKeepsDirs DEF ImportNext

LEMMA NotificationsSpareRepos ==
    ASSUME NotificationsNext
    PROVE  UNCHANGED repoVars
BY DEF NotificationsNext, ProcessMentions, AskToWatch, WatchRepo, UnwatchRepo,
       UpdatePreferences, MarkAllRead, MarkRead

LEMMA TrackerSparesRepos ==
    ASSUME TrackerNext
    PROVE  UNCHANGED repoVars
BY DEF TrackerNext, CreateIssue, InsertIssue, UpdateIssue, UpdateIssueRow, ByWorker,
       SelectMissing, EmbedFails, Embed, StoreNext, Deadline

LEMMA StepKeepsDirs ==
    ASSUME DirInv, [Next]_siteVars
    PROVE  DirInv' /\ DirsKept
<1>1. AllSound /\ AllSound'
  BY AllSoundStep DEF DirInv
<1>2. ASSUME NEW ops, ops \in {AccountOps, MemberOps, NoticeOps, IssueOps, {"expire"}}
      PROVE  ops \cap {"remove dir", "insert import", "rename dir", "idle"} = {}
  BY <1>2 DEF AccountOps, MemberOps, NoticeOps, IssueOps
<1>3. ASSUME UNCHANGED repoVars,
             \E ops \in {AccountOps, MemberOps, NoticeOps, IssueOps, {"expire"}} : Hop(ops)
      PROVE  DirInv' /\ DirsKept
  BY <1>1, <1>2, <1>3, OthersKeepDirs
<1>4. CASE People /\ UNCHANGED <<contentVars, limitVars>>
  <2>1. UNCHANGED repoVars
    BY <1>4 DEF contentVars
  <2>2. QED
    BY <1>1, <1>3, <1>4, <2>1, PeopleHop
<1>5. CASE Content
  <2>1. CASE ReposNext
    BY <1>1, <2>1, ReposKeepDirs
  <2>2. CASE ImportNext \/ \E c \in Calls : CopyIssue(c)
    BY <1>1, <2>2, ImportsKeepDirs
  <2>3. CASE Connections /\ UNCHANGED repoVars
    BY <1>1, <1>3, <2>3, ConnectionsHop, RestHops
  <2>4. CASE NotificationsNext
    BY <1>1, <1>3, <2>4, NotificationsHop, NotificationsSpareRepos
  <2>5. CASE TrackerNext
    BY <1>1, <1>3, <2>5, TrackerHop, TrackerSparesRepos
  <2>6. QED
    BY <1>5, <2>1, <2>2, <2>3, <2>4, <2>5 DEF Content
<1>6. CASE RateLimitNext /\ UNCHANGED <<accountVars, memberVars, contentVars>>
  BY <1>3, <1>6, RateLimitHop DEF contentVars
<1>7. CASE \E c \in Calls : DeleteUser(c)
  BY <1>3, <1>7, DeleteUserHops DEF DeleteUser, contentVars
<1>8. CASE Exit
  <2>1. UNCHANGED repoVars /\ \A c \in Calls : req'[c] = Idle
    BY <1>8 DEF Exit
  <2>2. UNCHANGED repo /\ UNCHANGED dir /\ UNCHANGED spoiled
    BY <2>1 DEF repoVars
  <2>3. \A c \in Calls : req'[c].op \notin {"remove dir", "insert import", "rename dir"}
    BY <2>1, IdleIsSound
  <2>4. (\A c \in Calls : FitsDirs(req[c], repo, dir, spoiled) /\ ~HoldsRow(req[c]))'
    BY <2>3 DEF FitsDirs, HoldsRow
  <2>5. DirInv'
    BY <1>1, <2>2, <2>4 DEF DirInv, Paths, NoRepo
  <2>6. QED
    BY <2>2, <2>5 DEF DirsKept
<1>9. CASE UNCHANGED siteVars
  BY <1>3, <1>9, RestHops DEF siteVars
<1>10. QED
  BY <1>4, <1>5, <1>6, <1>7, <1>8, <1>9 DEF Next

LEMMA InitHasDirs ==
    ASSUME Init
    PROVE  DirInv
<1>1. AllSound /\ \A c \in Calls : req[c].op \notin {"remove dir", "insert import", "rename dir"}
  BY AllSoundInit DEF Init, RequestsInit, Idle
<1>2. \A c \in Calls : FitsDirs(req[c], repo, dir, spoiled) /\ ~HoldsRow(req[c])
  BY <1>1 DEF FitsDirs, HoldsRow
<1>3. DOMAIN dir = Paths
  BY DEF Init, ReposInit
<1>4. repo \in [RepoIds -> {NoRepo} \cup [owner : Founders, name : RepoNames, was : {TRUE}]]
  BY DEF Init, ReposInit
<1>5. \A x \in [owner : Founders, name : RepoNames, was : {TRUE}] : DOMAIN x = DOMAIN NoRepo
  BY DEF NoRepo
<1>6. QED
  BY <1>1, <1>2, <1>3, <1>4, <1>5 DEF DirInv

\* What becomes of a directory is the business of the repository it is of, whatever
\* requests about other repositories, imports and deletions of users run meanwhile:
\* what is removed after a row is that row's, unless its path was spoiled by then.
THEOREM RepositoriesKeepDirectories == Spec => DirectoriesStay
<1>1. Init => DirInv
  BY InitHasDirs
<1>2. DirInv /\ [Next]_siteVars => DirInv'
  BY StepKeepsDirs
<1>3. DirInv /\ [Next]_siteVars =>
        [\A r \in RepoIds, p \in Paths :
            /\ IsRepo(r) /\ IsRepo(r)' /\ Path(r) = p /\ Path(r)' = p
            /\ dir[p] = r /\ dir'[p] # r
            => p \in spoiled']_<<req, user, repoVars>>
  <2> SUFFICES ASSUME DirInv, [Next]_siteVars,
                      NEW r \in RepoIds, NEW p \in Paths,
                      IsRepo(r), dir[p] = r, dir'[p] # r
               PROVE  p \in spoiled'
    OBVIOUS
  <2>1. dir[p] # None /\ dir[p] \in RepoIds
    BY ImportAssumption
  <2>2. repo[r].owner # None
    BY DEF IsRepo
  <2>3. DirsKept
    BY StepKeepsDirs
  <2>4. QED
    BY <2>1, <2>2, <2>3 DEF DirsKept
<1>4. QED
  BY <1>1, <1>2, <1>3, PTL DEF Spec, DirectoriesStay
=============================================================================
