---------------------------- MODULE DeliveryLife ----------------------------
(***************************************************************************)
(* What the delivery log of the webhook service promises: a delivery is    *)
(* logged attempt by attempt, at most MaxAttempts times; one that          *)
(* succeeded is not attempted again; the deliveries of a deleted webhook   *)
(* go with it and do not come back.                                        *)
(***************************************************************************)
EXTENDS Naturals

CONSTANTS Deliveries, MaxAttempts

VARIABLES log,  \* the attempts of each delivery, and whether the last succeeded
          gone  \* the deliveries purged with their webhooks

dvars == <<log, gone>>

Nothing == [attempts |-> 0, success |-> FALSE]

DInit ==
    /\ log = [d \in Deliveries |-> Nothing]
    /\ gone = {}

Attempt(d) ==
    /\ d \notin gone
    /\ log[d].attempts < MaxAttempts
    /\ ~log[d].success
    /\ \E ok \in BOOLEAN :
          log' = [log EXCEPT ![d] = [attempts |-> log[d].attempts + 1, success |-> ok]]
    /\ UNCHANGED gone

Purge(D) ==
    /\ gone' = gone \cup D
    /\ log' = [d \in Deliveries |-> IF d \in D THEN Nothing ELSE log[d]]

DNext ==
    \/ \E d \in Deliveries : Attempt(d)
    \/ \E D \in SUBSET Deliveries : Purge(D)

LifeSpec == DInit /\ [][DNext]_dvars
=============================================================================
