------------------------------ MODULE Webhook ------------------------------
(***************************************************************************)
(* Webhooks: the rows of webhooks and webhook_deliveries, the goroutines   *)
(* that dispatch an event, the goroutines that make a delivery, and the    *)
(* loop that retries failed deliveries.  A delivery is first sent, then    *)
(* logged: the row with its number of attempts and the time of the next    *)
(* one is written when the answer of the receiver is known.  Meanwhile     *)
(* users change, disable and delete webhooks, and the process may exit.    *)
(*                                                                         *)
(* Time is whether the delay of a retry has elapsed.  Receivers are        *)
(* external: they answer with success or failure (a timeout is a failure), *)
(* and those of Garblers may answer with a body that is not text, which    *)
(* PostgreSQL refuses to store.                                            *)
(***************************************************************************)
EXTENDS Naturals, FiniteSets

CONSTANTS
    Hooks,         \* webhook ids
    EventTypes,    \* those of validEventTypes in use
    Events,        \* bound: occurrences of events
    MaxAttempts,   \* maxAttempts, 3 in the code
    MaxConcurrent, \* maxConcurrentDeliveries, 10 in the code
    Garblers,      \* the webhooks whose receivers may answer with a body
                   \* that cannot be stored
    MaxEdits,      \* bound: updates of webhooks
    MaxFaults      \* bound: exits and failed statements

ASSUME WebhookAssumption ==
    /\ MaxAttempts \in Nat \ {0, 1}
    /\ MaxConcurrent \in Nat \ {0}
    /\ Garblers \subseteq Hooks
    /\ MaxEdits \in Nat
    /\ MaxFaults \in Nat

VARIABLES
    hook,     \* the webhooks rows
    fired,    \* the events that have been dispatched
    todo,     \* the webhooks an event's Dispatch has still to deliver to
    row,      \* the webhook_deliveries rows
    couriers, \* the goroutines that run deliver and retryDelivery
    retrying, \* RetryPending is running
    batch,    \* what it has read and has not started yet
    sent,     \* the latest POST of a delivery, and whether the delay has elapsed
    missed,   \* the deliveries with a POST that was not logged
    edits,
    faults

vars == <<hook, fired, todo, row, couriers, retrying, batch, sent, missed,
          edits, faults>>
-----------------------------------------------------------------------------
\* The delivery of an event to a webhook; its id is made by deliver.
Deliveries == Events \X Hooks

\* Ids are new: a deleted webhook does not come back.
Hook == [state : {"absent", "present", "deleted"}, active : BOOLEAN,
         events : SUBSET EventTypes]

\* A row that does not exist has no attempts.  next is next_retry: NULL, in the
\* future, or past.
NoRow == [attempts |-> 0, success |-> FALSE, next |-> "never"]

Row == [attempts : 0..MaxAttempts, success : BOOLEAN,
        next : {"never", "later", "due"}]

\* A courier without attempts runs deliver, one with attempts retryDelivery.
\* ok is the answer, text whether its body can be stored.
Courier == [id : Deliveries, attempts : 0..MaxAttempts - 1,
            stage : {"started", "answered"}, ok : BOOLEAN, text : BOOLEAN]

\* What RetryPending scans: the delivery and the attempts it has read.
Pending == [id : Deliveries, attempts : 1..MaxAttempts - 1]

NoHook == [state |-> "absent", active |-> FALSE, events |-> {}]

Init ==
    /\ hook = [h \in Hooks |-> NoHook]
    /\ fired = {}
    /\ todo = [x \in Events |-> {}]
    /\ row = [d \in Deliveries |-> NoRow]
    /\ couriers = {}
    /\ retrying = FALSE
    /\ batch = {}
    /\ sent = [d \in Deliveries |-> "never"]
    /\ missed = {}
    /\ edits = 0
    /\ faults = 0
-----------------------------------------------------------------------------
(* Helpers *)

\* A slot is never given back.
DeliveringEver(x) == {d \in Deliveries : d[1] = x /\ sent[d] # "never"}

\* The goroutines that hold a slot of the semaphore of a Dispatch, and of the
\* semaphore of RetryPending.
Delivering(x) == {c \in couriers : c.attempts = 0 /\ c.id[1] = x}

Retrying == {c \in couriers : c.attempts > 0}

Present(h) == hook[h].state = "present"

Courses == <<todo, couriers, retrying, batch>>

Start(d, n) == [id |-> d, attempts |-> n, stage |-> "started",
                ok |-> FALSE, text |-> FALSE]

\* Only the first failure schedules a retry.
LoggedOnce(n, ok) ==
    [attempts |-> n, success |-> ok,
     next |-> IF ~ok /\ n = 1 THEN "later" ELSE "never"]

\* The columns both goroutines write after attempt n.
Logged(n, ok) ==
    [attempts |-> n, success |-> ok,
     next |-> IF ~ok /\ n < MaxAttempts THEN "later" ELSE "never"]

\* The query selects all deliveries of active webhooks.
PendingsAll ==
    {[id |-> d, attempts |-> row[d].attempts] : d \in
        {d \in Deliveries : row[d] # NoRow /\ hook[d[2]].active}}

\* The query forgets next_retry.
PendingsAtOnce ==
    {[id |-> d, attempts |-> row[d].attempts] : d \in
        {d \in Deliveries : /\ row[d].attempts \in 1..MaxAttempts - 1
                            /\ ~row[d].success
                            /\ Present(d[2])
                            /\ hook[d[2]].active}}

\* RetryPending's query; the delay of the retry must have elapsed.
Pendings ==
    {[id |-> d, attempts |-> row[d].attempts] : d \in
        {d \in Deliveries : /\ row[d].next = "due"
                            /\ ~row[d].success
                            /\ row[d].attempts < MaxAttempts
                            /\ Present(d[2])
                            /\ hook[d[2]].active}}
-----------------------------------------------------------------------------
(* Users.  Bodies that validateURL or validateEventTypes reject change nothing. *)

CreateHook(h) ==
    /\ hook[h].state = "absent"
    /\ \E active \in BOOLEAN, events \in SUBSET EventTypes :
          hook' = [hook EXCEPT ![h] = [state |-> "present", active |-> active,
                                       events |-> events]]
    /\ UNCHANGED <<fired, Courses, row, sent, missed, edits, faults>>

\* A PATCH of either column, or both.
UpdateHook(h) ==
    /\ Present(h)
    /\ edits < MaxEdits
    /\ \E active \in BOOLEAN, events \in SUBSET EventTypes :
          hook' = [hook EXCEPT ![h].active = active, ![h].events = events]
    /\ edits' = edits + 1
    /\ UNCHANGED <<fired, Courses, row, sent, missed, faults>>

\* The deliveries are deleted in cascade.  A deleted repository takes its
\* webhooks the same way.
DeleteHook(h) ==
    /\ Present(h)
    /\ hook' = [hook EXCEPT ![h].state = "deleted"]
    /\ row' = [d \in Deliveries |-> IF d[2] = h THEN NoRow ELSE row[d]]
    /\ UNCHANGED <<fired, Courses, sent, missed, edits, faults>>
-----------------------------------------------------------------------------
(* Dispatch and Test *)

\* A handler starts Dispatch in a goroutine; its query selects the webhooks.  If
\* it fails, the event is forgotten.
Dispatch(x) ==
    /\ x \notin fired
    /\ fired' = fired \cup {x}
    /\ \/ /\ \E type \in EventTypes :
                todo' = [todo EXCEPT ![x] =
                            {h \in Hooks : /\ Present(h)
                                           /\ hook[h].active
                                           /\ type \in hook[h].events}]
          /\ UNCHANGED faults
       \/ /\ faults < MaxFaults
          /\ faults' = faults + 1
          /\ UNCHANGED todo
    /\ UNCHANGED <<hook, row, couriers, retrying, batch, sent, missed, edits>>

\* The Test handler reads one webhook, active or not, and delivers a ping.
Test(x, h) ==
    /\ x \notin fired
    /\ Present(h)
    /\ fired' = fired \cup {x}
    /\ todo' = [todo EXCEPT ![x] = {h}]
    /\ UNCHANGED <<hook, row, couriers, retrying, batch, sent, missed, edits, faults>>

\* Dispatch starts a goroutine once it has a slot of the semaphore.
StartDelivery(x, h) ==
    /\ h \in todo[x]
    /\ Cardinality(Delivering(x)) < MaxConcurrent
    /\ todo' = [todo EXCEPT ![x] = @ \ {h}]
    /\ couriers' = couriers \cup {Start(<<x, h>>, 0)}
    /\ UNCHANGED <<hook, fired, row, retrying, batch, sent, missed, edits, faults>>

\* The POST and its answer.  The address, the secret and the payload are
\* copies: the webhook is not looked at again.
Post(c) ==
    /\ c \in couriers
    /\ c.stage = "started"
    /\ \E ok \in BOOLEAN, text \in BOOLEAN :
          /\ text \/ c.id[2] \in Garblers
          /\ couriers' = (couriers \ {c}) \cup
                {[c EXCEPT !.stage = "answered", !.ok = ok, !.text = text]}
    /\ sent' = [sent EXCEPT ![c.id] = "fresh"]
    /\ UNCHANGED <<hook, fired, todo, row, retrying, batch, missed, edits, faults>>

\* The end of deliver: INSERT the row.  It fails if the body cannot be stored,
\* if the webhook is gone (foreign key), or if the database fails; that is logged
\* to the server's log only.
Insert(c) ==
    /\ c \in couriers
    /\ c.stage = "answered"
    /\ c.attempts = 0
    /\ couriers' = couriers \ {c}
    /\ \/ /\ c.text
          /\ Present(c.id[2])
          /\ row' = [row EXCEPT ![c.id] = Logged(1, c.ok)]
          /\ UNCHANGED <<missed, faults>>
       \/ /\ ~c.text \/ ~Present(c.id[2])
          /\ missed' = missed \cup {c.id}
          /\ UNCHANGED <<row, faults>>
       \/ /\ faults < MaxFaults
          /\ faults' = faults + 1
          /\ missed' = missed \cup {c.id}
          /\ UNCHANGED row
    /\ UNCHANGED <<hook, fired, todo, retrying, batch, sent, edits>>
-----------------------------------------------------------------------------
(* The retry loop *)

\* The loop is started twice, and its timer ticks while RetryPending runs.
TickTwice ==
    /\ retrying' = TRUE
    /\ batch' = Pendings
    /\ UNCHANGED <<hook, fired, todo, row, couriers, sent, missed, edits, faults>>

\* A tick of the loop's timer: RetryPending reads what is due.
Tick ==
    /\ ~retrying
    /\ retrying' = TRUE
    /\ batch' = Pendings
    /\ UNCHANGED <<hook, fired, todo, row, couriers, sent, missed, edits, faults>>

StartRetry(p) ==
    /\ p \in batch
    /\ Cardinality(Retrying) < MaxConcurrent
    /\ batch' = batch \ {p}
    /\ couriers' = couriers \cup {Start(p.id, p.attempts)}
    /\ UNCHANGED <<hook, fired, todo, row, retrying, sent, missed, edits, faults>>

\* The row is written whether it still exists or not.
UpdateRowBlindly(c) ==
    /\ c \in couriers
    /\ c.stage = "answered"
    /\ c.attempts > 0
    /\ couriers' = couriers \ {c}
    /\ row' = [row EXCEPT ![c.id] = Logged(c.attempts + 1, c.ok)]
    /\ UNCHANGED <<hook, fired, todo, retrying, batch, sent, missed, edits, faults>>

\* The end of retryDelivery: UPDATE the row, if it still exists.
UpdateRow(c) ==
    /\ c \in couriers
    /\ c.stage = "answered"
    /\ c.attempts > 0
    /\ couriers' = couriers \ {c}
    /\ \/ /\ c.text
          /\ row[c.id] # NoRow
          /\ row' = [row EXCEPT ![c.id] = Logged(c.attempts + 1, c.ok)]
          /\ UNCHANGED <<missed, faults>>
       \/ /\ ~c.text \/ row[c.id] = NoRow
          /\ missed' = missed \cup {c.id}
          /\ UNCHANGED <<row, faults>>
       \/ /\ faults < MaxFaults
          /\ faults' = faults + 1
          /\ missed' = missed \cup {c.id}
          /\ UNCHANGED row
    /\ UNCHANGED <<hook, fired, todo, retrying, batch, sent, edits>>

\* RetryPending does not wait for its goroutines.
BatchDoneAtOnce ==
    /\ retrying
    /\ batch = {}
    /\ retrying' = FALSE
    /\ UNCHANGED <<hook, fired, todo, row, couriers, batch, sent, missed, edits, faults>>

\* wg.Wait: RetryPending returns when all its goroutines have ended.
BatchDone ==
    /\ retrying
    /\ batch = {}
    /\ Retrying = {}
    /\ retrying' = FALSE
    /\ UNCHANGED <<hook, fired, todo, row, couriers, batch, sent, missed, edits, faults>>
-----------------------------------------------------------------------------
(* Time and the process *)

\* The delay of the next retry elapses.
DelayElapses(d) ==
    /\ row[d].next = "later"
    /\ row' = [row EXCEPT ![d].next = "due"]
    /\ sent' = [sent EXCEPT ![d] = "rested"]
    /\ UNCHANGED <<hook, fired, Courses, missed, edits, faults>>

\* The process exits, and is started again: the goroutines are gone.
Exit ==
    /\ faults < MaxFaults
    /\ faults' = faults + 1
    /\ missed' = missed \cup {c.id : c \in {c \in couriers : c.stage = "answered"}}
    /\ sent' = [d \in Deliveries |->
                  IF \/ d[2] \in todo[d[1]]
                     \/ \E c \in couriers : c.id = d /\ c.attempts = 0 /\ c.stage = "started"
                  THEN "cut" ELSE sent[d]]
    /\ todo' = [x \in Events |-> {}]
    /\ couriers' = {}
    /\ retrying' = FALSE
    /\ batch' = {}
    /\ UNCHANGED <<hook, fired, row, edits>>
-----------------------------------------------------------------------------
Carry(d) == \E c \in couriers : c.id = d /\ (Post(c) \/ Insert(c) \/ UpdateRow(c))

Next ==
    \/ \E h \in Hooks : CreateHook(h) \/ UpdateHook(h) \/ DeleteHook(h)
    \/ \E x \in Events : Dispatch(x)
    \/ \E x \in Events, h \in Hooks : Test(x, h) \/ StartDelivery(x, h)
    \/ \E c \in couriers : Post(c) \/ Insert(c) \/ UpdateRow(c)
    \/ Tick
    \/ \E p \in batch : StartRetry(p)
    \/ BatchDone
    \/ \E d \in Deliveries : DelayElapses(d)
    \/ Exit

Spec == Init /\ [][Next]_vars

\* Goroutines run, requests are answered or time out, the ticker ticks and time
\* passes.  Users, exits and failures are under no obligation.
FairSpec ==
    /\ Spec
    /\ \A x \in Events : WF_vars(\E h \in Hooks : StartDelivery(x, h))
    /\ \A d \in Deliveries : WF_vars(Carry(d)) /\ WF_vars(DelayElapses(d))
    /\ WF_vars(Tick)
    /\ WF_vars(\E p \in batch : StartRetry(p))
    /\ WF_vars(BatchDone)
-----------------------------------------------------------------------------
(* Properties *)

\* Every variable holds what its column or its Go type can hold.
TypeOK ==
    /\ hook \in [Hooks -> Hook]
    /\ fired \subseteq Events
    /\ todo \in [Events -> SUBSET Hooks]
    /\ row \in [Deliveries -> Row]
    /\ couriers \subseteq Courier
    /\ retrying \in BOOLEAN
    /\ batch \subseteq Pending
    /\ sent \in [Deliveries -> {"never", "fresh", "rested", "cut"}]
    /\ missed \subseteq Deliveries
    /\ edits \in 0..MaxEdits
    /\ faults \in 0..MaxFaults

\* A delivery is in the hands of one goroutine at a time, and RetryPending reads
\* none that is: neither a retry that overtakes the first attempt nor two retries
\* at once, whatever exits, deletions and failed statements come between.
OneCourier ==
    \A c \in couriers :
        /\ \A e \in couriers : c.id = e.id => c = e
        /\ \A p \in batch : p.id # c.id

\* The number of attempts RetryPending read long ago, from which retryDelivery
\* computes the next number and the delay, is still that of the row when the
\* attempt is logged, unless the webhook is gone with its rows.
CopiesAreFresh ==
    \A c \in batch \cup Retrying :
        \/ hook[c.id[2]].state = "deleted"
        \/ row[c.id].attempts = c.attempts /\ ~row[c.id].success

\* No receiver is asked again before the delay of the retry has elapsed, if
\* every POST of that delivery was logged.
BackOffKept ==
    \A c \in Retrying :
        c.stage = "started" => sent[c.id] = "rested" \/ c.id \in missed

\* "Subsequent retries use exponential backoff": no receiver is asked again
\* before the delay of the retry has elapsed.
RetriesBackOff ==
    \A c \in Retrying : c.stage = "started" => sent[c.id] = "rested"

\* The log of the deliveries, attempt by attempt.
Log  == [d \in Deliveries |-> [attempts |-> row[d].attempts, success |-> row[d].success]]
Gone == {d \in Deliveries : hook[d[2]].state = "deleted"}

Life == INSTANCE DeliveryLife WITH log <- Log, gone <- Gone

\* What is logged of a delivery is one attempt after the other, at most
\* MaxAttempts, none after a success and none after the webhook was deleted,
\* although no statement that writes an attempt looks at the row.
LogsFollowLife == Life!LifeSpec

\* A webhook that Dispatch has selected is sent the event, however many others
\* are selected and however slow, unless the process exits first.
SelectedAreSent ==
    \A x \in Events, h \in Hooks : h \in todo[x] ~> sent[<<x, h>>] # "never"

\* A failed delivery is attempted again until it succeeds or MaxAttempts are
\* made, unless its webhook is disabled or deleted, or its receiver garbles.
DeliveriesEnd ==
    \A d \in Events \X (Hooks \ Garblers) :
        row[d].attempts > 0 ~>
            \/ row[d].success
            \/ row[d].attempts = MaxAttempts
            \/ ~Present(d[2])
            \/ ~hook[d[2]].active
=============================================================================
