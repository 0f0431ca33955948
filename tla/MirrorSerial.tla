---------------------------- MODULE MirrorSerial ----------------------------
(***************************************************************************)
(* What the mirror service promises about syncs of one repository:         *)
(* "concurrent SyncNow/RunDue calls on the same repo queue sequentially".  *)
(* At most one goroutine has a repository, it has at most one, and before  *)
(* the next one begins it goes through the stages of a sync in their order *)
(* or stops at some stage.  All of them stop when the process dies.        *)
(***************************************************************************)
CONSTANTS Repos, Syncs, None

VARIABLES holder, \* the goroutine syncing a repository
          stage   \* how far it has come

svars == <<holder, stage>>

\* The stages of SyncNow: row loaded, run row inserted, git has ended, run row
\* finished, mirror row updated.
Successor == [loaded  |-> "running",
              running |-> "finish",
              finish  |-> "publish",
              publish |-> "prune"]

SInit ==
    /\ holder = [r \in Repos |-> None]
    /\ stage = [r \in Repos |-> "free"]

Begin(r, s) ==
    /\ holder[r] = None
    /\ \A q \in Repos : holder[q] # s
    /\ holder' = [holder EXCEPT ![r] = s]
    /\ stage' = [stage EXCEPT ![r] = "loaded"]

Advance(r) ==
    /\ stage[r] \in DOMAIN Successor
    /\ stage' = [stage EXCEPT ![r] = Successor[stage[r]]]
    /\ UNCHANGED holder

End(r) ==
    /\ holder[r] # None
    /\ holder' = [holder EXCEPT ![r] = None]
    /\ stage' = [stage EXCEPT ![r] = "free"]

EndAll == holder' = [r \in Repos |-> None] /\ stage' = [r \in Repos |-> "free"]

SNext ==
    \/ \E r \in Repos : Advance(r) \/ End(r) \/ \E s \in Syncs : Begin(r, s)
    \/ EndAll

SerialSpec == SInit /\ [][SNext]_svars
=============================================================================
