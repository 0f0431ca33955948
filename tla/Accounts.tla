------------------------------ MODULE Accounts ------------------------------
(***************************************************************************)
(* Accounts: registration, login with a password or through GitHub, the    *)
(* second factor (an authenticator or one of the recovery codes),          *)
(* sessions, API tokens, and what an admin may do to other users.  Rows    *)
(* are in PostgreSQL; sessions, pending logins and OAuth states in Redis;  *)
(* the admin cache is in the process.                                      *)
(***************************************************************************)
EXTENDS Requests

CONSTANTS
    GithubIds,  \* accounts at GitHub
    Pendings,   \* bound: logins waiting for a second factor
    MaxAttempts \* maxAttempts; 5 in the code

ASSUME AccountsAssumption ==
    /\ MaxAttempts \in Nat \ {0}
    /\ IsFiniteSet(Calls)

VARIABLES
    link,       \* the oauth_accounts rows: the user, by GitHub account
    session,    \* users with a session
    token,      \* users with an API token
    pending,    \* logins waiting for a second factor; for the property, the codes
                \* tried on one, and those whose outcome was never recorded
    states,     \* OAuth states handed out and not yet used
    adminCache  \* globalAdminCache: "yes", "no" or "none" by user

accountVars == <<link, session, token, pending, states, adminCache>>
-----------------------------------------------------------------------------
NoPending == [user |-> None, attempts |-> 0, live |-> FALSE, tried |-> 0, lost |-> 0]

AccountsInit ==
    /\ link = [g \in GithubIds |-> None]
    /\ session = Founders
    /\ token = {}
    /\ pending \in [Pendings -> {NoPending} \cup
                      {[NoPending EXCEPT !.user = u, !.live = TRUE] : u \in Secured}]
    /\ states \in 0 .. Cardinality(Calls)
    /\ adminCache = [u \in Users |-> "none"]

\* The user a request is from, as the session or the token says.  A session
\* outlives its user; a token does not.
Authenticated(u) == u \in session \cup token

\* users.username and users.email are UNIQUE.
CanInsert(n, m) == \A u \in Users : IsUser(u) => user[u].name # n /\ user[u].mail # m

InsertUser(u, n, m, hasPassword) ==
    user' = [user EXCEPT ![u] = [NoUser EXCEPT !.name = n, !.mail = m,
                                    !.password = hasPassword, !.was = TRUE]]

Update(u, row) == user' = [user EXCEPT ![u] = IF IsUser(u) THEN row ELSE user[u]]
-----------------------------------------------------------------------------
\* Registration: no organization has the name, then the INSERT, then a session.
Register(c) ==
    \E u \in Users, n, m \in Names :
        /\ ~user[u].was
        /\ OrgsNamed(n) = {}
        /\ Arrive("accounts", c, [op |-> "create user", u |-> u, name |-> n, mail |-> m])
        /\ UNCHANGED <<user, accountVars>>

CreateUser(c) ==
    /\ Serving(c, "create user")
    /\ LET r == req[c] IN
        \/ /\ CanInsert(r.name, r.mail) /\ ~user[r.u].was
           /\ InsertUser(r.u, r.name, r.mail, TRUE)
           /\ Become(c, [op |-> "session", u |-> r.u])
        \/ /\ ~CanInsert(r.name, r.mail)
           /\ End(c) /\ UNCHANGED user
    /\ UNCHANGED accountVars

CreateSession(c) ==
    /\ Serving(c, "session")
    /\ session' = session \cup {req[c].u}
    /\ End(c)
    /\ UNCHANGED <<user, link, token, pending, states, adminCache>>

\* Other sessions of the user may be left.
Logout(u) ==
    /\ AtOnce("accounts")
    /\ u \in session /\ session' = session \ {u}
    /\ UNCHANGED <<user, link, token, pending, states, adminCache>>

\* The password is right.
Login(c) ==
    \E u \in Users :
        /\ user[u].password
        /\ Arrive("accounts", c, [op |-> "factor", u |-> u])
        /\ UNCHANGED <<user, accountVars>>

\* IsEnabled, after either way to log in: a pending login, or the session.
AskFactor(c) ==
    /\ Serving(c, "factor")
    /\ LET u == req[c].u IN
        \/ /\ user[u].enabled
           /\ \E p \in Pendings :
                /\ pending[p] = NoPending
                /\ pending' = [pending EXCEPT ![p].user = u, ![p].live = TRUE]
           /\ End(c)
        \/ /\ IsUser(u) /\ ~user[u].enabled
           /\ Go(c, "session") /\ UNCHANGED pending
        \/ /\ ~IsUser(u)
           /\ End(c) /\ UNCHANGED pending
    /\ UNCHANGED <<user, link, session, token, states, adminCache>>
-----------------------------------------------------------------------------
\* GitHub: the browser is sent away with a state, and comes back with it once.
GitHubLogin ==
    /\ AtOnce("github")
    /\ states' = states + 1
    /\ UNCHANGED <<user, link, session, token, pending, adminCache>>

\* GitHub says who it is, and under which mail address.
GitHubCallback(c) ==
    \E g \in GithubIds, m \in Names :
        /\ states > 0 /\ states' = states - 1
        /\ Arrive("accounts", c, [op |-> "find link", github |-> g, mail |-> m])
        /\ UNCHANGED <<user, link, session, token, pending, adminCache>>

\* GitHub, or the user there, says no: the state is used up all the same.
GitHubDenies ==
    /\ AtOnce("accounts")
    /\ states > 0 /\ states' = states - 1
    /\ UNCHANGED <<user, link, session, token, pending, adminCache>>

FindLink(c) ==
    /\ Serving(c, "find link")
    /\ LET u == link[req[c].github] IN
         IF u # None THEN Become(c, [op |-> "factor", u |-> u])
                     ELSE Go(c, "find mail")
    /\ UNCHANGED <<user, accountVars>>

\* An account without a password is linked; one with a password is not.
FindMail(c) ==
    /\ Serving(c, "find mail")
    /\ LET r == req[c]
           found == {u \in Users : user[u].mail = r.mail /\ ~user[u].password} IN
         \/ \E u \in found :
              Become(c, [op |-> "link", github |-> r.github, u |-> u])
         \/ found = {} /\ Go(c, "create linked")
    /\ UNCHANGED <<user, accountVars>>

\* ON CONFLICT keeps the user that another login linked meanwhile.
Link(c) ==
    /\ Serving(c, "link")
    /\ LET r == req[c] IN
        \/ /\ IsUser(r.u)
           /\ link' = [link EXCEPT ![r.github] = IF @ = None THEN r.u ELSE @]
           /\ Become(c, [op |-> "factor", u |-> r.u])
        \/ ~IsUser(r.u) /\ End(c) /\ UNCHANGED link
    /\ UNCHANGED <<user, session, token, pending, states, adminCache>>

\* The transaction: a free user name, the user, the link.  The mail address
\* may belong to an account with a password: the INSERT fails.
CreateLinked(c) ==
    /\ Serving(c, "create linked")
    /\ LET r == req[c] IN
        \/ \E u \in Users, n \in Names :
             /\ ~user[u].was /\ CanInsert(n, r.mail)
             /\ InsertUser(u, n, r.mail, FALSE)
             /\ link' = [link EXCEPT ![r.github] = u]
             /\ Become(c, [op |-> "factor", u |-> u])
        \/ /\ \A n \in Names : ~CanInsert(n, r.mail)
           /\ End(c) /\ UNCHANGED <<user, link>>
    /\ UNCHANGED <<session, token, pending, states, adminCache>>
-----------------------------------------------------------------------------
\* Setup: the password is right and the second factor is off; then new codes.
BeginSetup(c) ==
    \E u \in Users :
        /\ Authenticated(u) /\ user[u].password /\ ~user[u].enabled
        /\ Arrive("factors", c, [op |-> "setup", u |-> u])
        /\ UNCHANGED <<user, accountVars>>

StoreSetup(c) ==
    /\ Serving(c, "setup")
    /\ LET u == req[c].u IN
         Update(u, [user[u] EXCEPT !.secret = TRUE, !.codes = Codes])
    /\ End(c) /\ UNCHANGED accountVars

\* Enable reads the secret and checks the code, and then turns the factor on.
Enable(c) ==
    \E u \in Users :
        /\ Authenticated(u) /\ user[u].secret
        /\ Arrive("factors", c, [op |-> "enable", u |-> u])
        /\ UNCHANGED <<user, accountVars>>

StoreEnabled(c) ==
    /\ Serving(c, "enable")
    /\ LET u == req[c].u IN Update(u, [user[u] EXCEPT !.enabled = TRUE])
    /\ End(c) /\ UNCHANGED accountVars

\* A code is right for the row a request has read if the row has a secret and
\* it is the authenticator's, or it is one of the row's recovery codes.
RightCodes(u) == (IF user[u].secret THEN {"authenticator"} ELSE {}) \cup user[u].codes

\* What is left of the recovery codes as they were read is written back later.
WithCode(u, k, p, next) ==
    IF k = "authenticator"
    THEN [op |-> next, u |-> u, p |-> p]
    ELSE [op |-> "use code", u |-> u, p |-> p, left |-> user[u].codes \ {k}, next |-> next]

\* matchAndConsumeRecoveryCode: the UPDATE, whose error nobody looks at.
UseCode(c) ==
    /\ Serving(c, "use code")
    /\ LET r == req[c] IN
        /\ Update(r.u, [user[r.u] EXCEPT !.codes = r.left]) \/ UNCHANGED user
        /\ Become(c, [op |-> r.next, u |-> r.u, p |-> r.p])
    /\ UNCHANGED accountVars

Disable(c) ==
    \E u \in Users, k \in Codes \cup {"authenticator"} :
        /\ Authenticated(u) /\ k \in RightCodes(u)
        /\ Arrive("factors", c, WithCode(u, k, None, "clear"))
        /\ UNCHANGED <<user, accountVars>>

ClearTOTP(c) ==
    /\ Serving(c, "clear")
    /\ LET u == req[c].u IN
         Update(u, [user[u] EXCEPT !.enabled = FALSE, !.secret = FALSE, !.codes = {}])
    /\ End(c) /\ UNCHANGED accountVars
-----------------------------------------------------------------------------
\* The second step of a login: the pending login is looked up, not used up.
Verify2FA(c) ==
    \E p \in Pendings :
        /\ pending[p].live /\ pending[p].attempts < MaxAttempts
        /\ Arrive("factors", c, [op |-> "verify", p |-> p, seen |-> pending[p].attempts])
        /\ UNCHANGED <<user, accountVars>>

\* Any code may be sent.  A right one leads on, a wrong one is counted.
Verify(c) ==
    /\ Serving(c, "verify")
    /\ LET r == req[c]
           u == pending[r.p].user IN
        \/ /\ IsUser(u)
           /\ pending' = [pending EXCEPT ![r.p].tried = @ + 1]
           /\ \/ \E k \in RightCodes(u) :
                   Become(c, WithCode(u, k, r.p, "consume"))
              \/ Go(c, "count")
        \/ /\ ~IsUser(u)
           /\ End(c) /\ UNCHANGED pending
    /\ UNCHANGED <<user, link, session, token, states, adminCache>>

\* The outcome of n tries is not recorded: the statement fails, or is cancelled
\* with the request when the client leaves.
Unrecorded(p, n) ==
    IF pending[p].live THEN [pending[p] EXCEPT !.lost = @ + n] ELSE pending[p]

\* A code was tried on p, and what follows from that is not recorded yet.
Tried(c, p) ==
    \/ Serving(c, "count") /\ req[c].p = p
    \/ Serving(c, "use code") /\ req[c].next = "consume" /\ req[c].p = p
    \/ Serving(c, "consume") /\ req[c].p = p

\* The script that counts in place and deletes at the limit is atomic.
\* Mutant: the count that was read with the login is written back.
IncrementSeen(c) ==
    /\ Serving(c, "count")
    /\ LET p == req[c].p IN
         pending' = [pending EXCEPT ![p].attempts = req[c].seen + 1,
                                    ![p].live = @ /\ req[c].seen + 1 < MaxAttempts]
    /\ End(c)
    /\ UNCHANGED <<user, link, session, token, states, adminCache>>

IncrementAttempts(c) ==
    /\ Serving(c, "count")
    /\ LET p == req[c].p IN
         \/ pending' = IF pending[p].live
                       THEN [pending EXCEPT ![p].attempts = @ + 1,
                                            ![p].live = pending[p].attempts + 1 < MaxAttempts]
                       ELSE pending
         \/ pending' = [pending EXCEPT ![p] = Unrecorded(p, 1)]
    /\ End(c)
    /\ UNCHANGED <<user, link, session, token, states, adminCache>>

ConsumePendingAuth(c) ==
    /\ Serving(c, "consume")
    /\ LET p == req[c].p IN
         \/ pending' = [pending EXCEPT ![p].live = FALSE]
         \/ pending' = [pending EXCEPT ![p] = Unrecorded(p, 1)]
    /\ Become(c, [op |-> "session", u |-> req[c].u])
    /\ UNCHANGED <<user, link, session, token, states, adminCache>>
-----------------------------------------------------------------------------
CreateToken(u) ==
    /\ AtOnce("accounts")
    /\ Authenticated(u) /\ IsUser(u)
    /\ token' = token \cup {u}
    /\ UNCHANGED <<user, link, session, pending, states, adminCache>>

\* The last of the user's tokens.
DeleteToken(u) ==
    /\ AtOnce("accounts")
    /\ Authenticated(u) /\ u \in token
    /\ token' = token \ {u}
    /\ UNCHANGED <<user, link, session, pending, states, adminCache>>

\* RequireAdmin: what the cache says, or else what the row says, which is cached.
\* Then a request about another user, in a step of its own.
RequireAdmin(c) ==
    \E u, v \in Users, op \in {"set admin", "delete user"} :
        /\ Authenticated(u)
        /\ \/ adminCache[u] = "yes" /\ UNCHANGED adminCache
           \/ /\ adminCache[u] = "none" /\ user[u].admin
              /\ adminCache' = [adminCache EXCEPT ![u] = "yes"]
        /\ v # u /\ IsUser(v)
        /\ Arrive("admin", c, [op |-> op, by |-> u, u |-> v])
        /\ UNCHANGED <<user, link, session, token, pending, states>>

\* A user who is not an admin is refused, and that is cached too.
RefuseAdmin(u) ==
    /\ AtOnce("admin")
    /\ Authenticated(u) /\ adminCache[u] = "none"
    /\ IsUser(u) /\ ~user[u].admin
    /\ adminCache' = [adminCache EXCEPT ![u] = "no"]
    /\ UNCHANGED <<user, link, session, token, pending, states>>

CacheExpires(u) ==
    /\ adminCache[u] # "none"
    /\ adminCache' = [adminCache EXCEPT ![u] = "none"]
    /\ UNCHANGED <<left, req, user, link, session, token, pending, states>>

\* The cache is not told.
UpdateUser(c) ==
    /\ Serving(c, "set admin")
    /\ \E b \in BOOLEAN : LET u == req[c].u IN Update(u, [user[u] EXCEPT !.admin = b])
    /\ End(c) /\ UNCHANGED accountVars

\* The part of the cascade that is here.  Sessions stay.
DeleteAccount(c) ==
    /\ Serving(c, "delete user")
    /\ LET u == req[c].u IN
        /\ IsUser(u)
        /\ user' = [user EXCEPT ![u] = GoneUser]
        /\ link' = [g \in GithubIds |-> IF link[g] = u THEN None ELSE link[g]]
        /\ token' = token \ {u}
    /\ End(c)
    /\ UNCHANGED <<session, pending, states, adminCache>>

\* Rows that refer to the user without a cascade, or none deleted: an error.
DeleteRefused(c) ==
    /\ Serving(c, "delete user")
    /\ End(c) /\ UNCHANGED <<user, accountVars>>

AccountsNext ==
    \/ \E c \in Calls :
        \/ Register(c) \/ CreateUser(c) \/ CreateSession(c) \/ Login(c) \/ AskFactor(c)
        \/ GitHubCallback(c) \/ FindLink(c) \/ FindMail(c) \/ Link(c) \/ CreateLinked(c)
        \/ BeginSetup(c) \/ StoreSetup(c) \/ Enable(c) \/ StoreEnabled(c)
        \/ UseCode(c) \/ Disable(c) \/ ClearTOTP(c)
        \/ Verify2FA(c) \/ Verify(c) \/ IncrementAttempts(c) \/ ConsumePendingAuth(c)
        \/ RequireAdmin(c) \/ UpdateUser(c) \/ DeleteRefused(c)
    \/ \E u \in Users :
        Logout(u) \/ CreateToken(u) \/ DeleteToken(u) \/ RefuseAdmin(u) \/ CacheExpires(u)
    \/ GitHubLogin \/ GitHubDenies
-----------------------------------------------------------------------------
\* The codes tried on one pending login are bounded: past the limit only by
\* requests that looked it up before the last failure was counted, and by those
\* whose outcome was never recorded.
GuessesAreBounded ==
    \A p \in Pendings :
        pending[p].tried <= MaxAttempts + Cardinality(Calls) - 1 + pending[p].lost
=============================================================================
