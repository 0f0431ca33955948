------------------------------ MODULE Requests ------------------------------
(***************************************************************************)
(* The requests the server is working on, and the rows every component     *)
(* looks up first: users and organizations.  A request is a record: what   *)
(* its handler does next, and its local variables.  A handler's first      *)
(* statement is part of the step in which its request arrives; a request   *)
(* that it refuses changes nothing and does not arrive.  Any step of       *)
(* another request can come between two statements.                        *)
(***************************************************************************)
EXTENDS Common, FiniteSets

CONSTANTS
    Calls,    \* requests in progress at a time
    Names,    \* user names, organization names, mail addresses
    Founders, \* the users there are at the start, called by their ids
    Secured,  \* those of them with a second factor
    OrgIds,
    Codes     \* recovery codes

ASSUME RequestsAssumption == Secured \subseteq Founders /\ Founders \subseteq Users \cap Names

VARIABLES
    req,  \* the requests in progress
    user, \* the users rows
    org   \* the organizations rows: the name, by id

Idle == [op |-> "idle"]

\* A row that is not there yet, and one that was deleted: ids are not used twice.
NoUser == [name |-> None, mail |-> None, password |-> FALSE, admin |-> FALSE,
           secret |-> FALSE, enabled |-> FALSE, codes |-> {}, was |-> FALSE]

GoneUser == [NoUser EXCEPT !.was = TRUE]

\* Founders are admins.
Founder(f) == [NoUser EXCEPT !.name = f, !.mail = f, !.password = TRUE,
                             !.admin = TRUE, !.was = TRUE,
                             !.secret = f \in Secured, !.enabled = f \in Secured,
                             !.codes = IF f \in Secured THEN Codes ELSE {}]

RequestsInit ==
    /\ LoadInit
    /\ req = [c \in Calls |-> Idle]
    /\ user = [u \in Users |-> IF u \in Founders THEN Founder(u) ELSE NoUser]
    /\ org \in [OrgIds -> {None} \cup (Names \ Founders)]
    /\ \A o, p \in OrgIds : org[o] = org[p] /\ org[o] # None => o = p

IsUser(u) == user[u].name # None
IsOrg(o)  == org[o] # None

UsersNamed(n) == {u \in Users : user[u].name = n}
OrgsNamed(n)  == {o \in OrgIds : org[o] = n}

\* A request of component k arrives and its handler goes on as r.
Arrive(k, c, r) == req[c] = Idle /\ Spend(k) /\ req' = [req EXCEPT ![c] = r]

\* A request of component k that is served by one statement.
AtOnce(k) == Spend(k) /\ UNCHANGED req

Serving(c, op) == req[c].op = op

Become(c, r) == req' = [req EXCEPT ![c] = r] /\ UNCHANGED left

Go(c, op) == Become(c, [req[c] EXCEPT !.op = op])

End(c) == Become(c, Idle)
=============================================================================
