----------------------------- MODULE RateLimit ------------------------------
(***************************************************************************)
(* The rate limiter: a counter in Redis for each bucket and address.  The  *)
(* request that counts to one gives the counter its time to live, in a     *)
(* second call whose result nobody looks at.                               *)
(***************************************************************************)
EXTENDS Requests

CONSTANTS
    Keys, \* bucket and address
    Limit

ASSUME RateLimitAssumption == Limit \in Nat \ {0}

VARIABLES
    count,   \* the counters; 0 if there is none
    expires, \* the counters with a time to live
    forsaken \* the counters whose EXPIRE was cut off

limitVars == <<count, expires, forsaken>>
-----------------------------------------------------------------------------
RateLimitInit ==
    /\ count = [k \in Keys |-> 0]
    /\ expires = {}
    /\ forsaken = {}

\* The request that counts to one, any other within the limit, and one over it
\* differ in what follows: EXPIRE, the handler, an error.
\* Mutant: the limit is looked at first, and EXPIRE is for those over it.
IncrLimitFirst(c) ==
    \E k \in Keys :
        /\ count' = [count EXCEPT ![k] = @ + 1]
        /\ IF count[k] >= Limit
           THEN Arrive("limiter", c, [op |-> "expire", key |-> k])
           ELSE AtOnce("limiter")
        /\ UNCHANGED <<user, org, expires, forsaken>>

Incr(c) ==
    \E k \in Keys :
        /\ count' = [count EXCEPT ![k] = @ + 1]
        /\ IF count[k] = 0
           THEN Arrive("limiter", c, [op |-> "expire", key |-> k])
           ELSE AtOnce("limiter")
        /\ UNCHANGED <<user, org, expires, forsaken>>

\* The client leaves first, or Redis does not answer: the error is dropped.
Expire(c) ==
    /\ Serving(c, "expire")
    /\ LET k == req[c].key IN
        \/ expires' = expires \cup {k} /\ UNCHANGED forsaken
        \/ forsaken' = forsaken \cup {k} /\ UNCHANGED expires
    /\ End(c)
    /\ UNCHANGED <<user, org, count>>

\* Redis does not answer INCR: 503.
Unavailable ==
    /\ AtOnce("limiter")
    /\ UNCHANGED <<user, org, limitVars>>

\* Redis deletes a counter whose window is over.
WindowEnds(k) ==
    /\ k \in expires
    /\ count' = [count EXCEPT ![k] = 0]
    /\ expires' = expires \ {k}
    /\ UNCHANGED <<left, req, user, org, forsaken>>

RateLimitNext ==
    \/ \E c \in Calls : Incr(c) \/ Expire(c)
    \/ \E k \in Keys : WindowEnds(k)
    \/ Unavailable
-----------------------------------------------------------------------------
\* A counter that would count for ever, and in the end refuse everything, is one
\* whose EXPIRE was cut off; every other one expires, or its EXPIRE is under way.
CountersExpire ==
    \A k \in Keys :
        count[k] > 0 /\ k \notin expires /\ k \notin forsaken =>
            \E c \in Calls : Serving(c, "expire") /\ req[c].key = k
=============================================================================
