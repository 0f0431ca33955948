--------------------------- MODULE WebhookProofs ---------------------------
(***************************************************************************)
(* Theorems about Webhook, for any number of webhooks, events, edits and   *)
(* faults: its type invariant, its safety invariants and the refinement of *)
(* DeliveryLife.  The inductive invariant says who may touch a row: a      *)
(* delivery is queued, in the hands of one goroutine, in the batch, or at  *)
(* rest, and what a goroutine has copied is what the row says.             *)
(***************************************************************************)
EXTENDS Webhook, TLAPS

\* Nobody has begun with the delivery.
Idle(d) ==
    /\ row[d] = NoRow
    /\ \A c \in couriers : c.id # d
    /\ \A p \in batch : p.id # d

\* Goroutines and the batch hold different deliveries.
Apart ==
    /\ \A c, e \in couriers : c.id = e.id => c = e
    /\ \A c \in couriers, p \in batch : c.id # p.id
    /\ \A p, q \in batch : p.id = q.id => p = q

\* What is not dispatched or still to be started is idle.
QueuedAreIdle ==
    /\ \A x \in Events : x \notin fired => todo[x] = {}
    /\ \A d \in Deliveries : d[1] \notin fired \/ d[2] \in todo[d[1]] => Idle(d)

\* deliver has no row before it inserts one.
FirstsHaveNoRow == \A c \in couriers : c.attempts = 0 => row[c.id] = NoRow

\* Retries exist only while RetryPending runs, and their copies are fresh.
RetriesAreFresh ==
    \A c \in batch \cup Retrying :
        /\ retrying
        /\ \/ hook[c.id[2]].state = "deleted"
           \/ row[c.id].attempts = c.attempts /\ ~row[c.id].success

\* Rows belong to webhooks; only a failed delivery with attempts left has a
\* next_retry.
RowsAreSound ==
    \A d \in Deliveries :
        /\ row[d].attempts = 0 => row[d] = NoRow
        /\ row[d].attempts > 0 => Present(d[2])
        /\ row[d].next # "never" =>
              row[d].attempts \in 1..MaxAttempts - 1 /\ ~row[d].success

Rested(d) == sent[d] = "rested" \/ d \in missed

\* Whoever may still make a POST for a due row may make it now.
DueAreRested ==
    /\ \A d \in Deliveries : row[d].next = "due" =>
          \/ Rested(d)
          \/ \E c \in couriers : c.id = d /\ c.stage = "answered"
    /\ \A p \in batch : Rested(p.id)
    /\ \A c \in Retrying : c.stage = "started" => Rested(c.id)

Inv ==
    /\ TypeOK
    /\ Apart
    /\ QueuedAreIdle
    /\ FirstsHaveNoRow
    /\ RetriesAreFresh
    /\ RowsAreSound
    /\ DueAreRested
-----------------------------------------------------------------------------
LEMMA InitInv == Init => Inv
<1> SUFFICES ASSUME Init PROVE Inv
  OBVIOUS
<1> USE WebhookAssumption DEF Init
<1>1. TypeOK
  <2>1. NoHook \in Hook /\ NoRow \in Row
    BY DEF NoHook, Hook, NoRow, Row
  <2>2. hook \in [Hooks -> Hook] /\ row \in [Deliveries -> Row]
    BY <2>1
  <2>3. edits \in 0..MaxEdits /\ faults \in 0..MaxFaults
    OBVIOUS
  <2> QED
    BY <2>2, <2>3 DEF TypeOK
<1>2. Apart /\ FirstsHaveNoRow /\ RetriesAreFresh
  BY DEF Apart, FirstsHaveNoRow, RetriesAreFresh, Retrying
<1>3. QueuedAreIdle
  BY DEF QueuedAreIdle, Idle
<1>4. RowsAreSound /\ DueAreRested
  BY DEF RowsAreSound, DueAreRested, NoRow, Retrying
<1> QED
  BY <1>1, <1>2, <1>3, <1>4 DEF Inv

\* What creating and updating a webhook change.
LEMMA HookChanges ==
    ASSUME TypeOK, NEW h \in Hooks, CreateHook(h) \/ UpdateHook(h)
    PROVE  /\ hook' \in [Hooks -> Hook]
           /\ \A g \in Hooks : hook'[g].state = "deleted" <=> hook[g].state = "deleted"
           /\ \A g \in Hooks : Present(g) => Present(g)'
           /\ edits' \in 0..MaxEdits
           /\ UNCHANGED <<fired, todo, row, couriers, retrying, batch, sent, missed, faults>>
<1> USE WebhookAssumption
<1>1. hook \in [Hooks -> Hook] /\ edits \in 0..MaxEdits /\ hook[h] \in Hook
  BY DEF TypeOK
<1>2. PICK r : /\ r \in Hook
               /\ hook' = [hook EXCEPT ![h] = r]
               /\ r.state = "present"
               /\ hook[h].state # "deleted"
  <2>1. CASE CreateHook(h)
    <3>1. PICK active \in BOOLEAN, events \in SUBSET EventTypes :
            hook' = [hook EXCEPT ![h] = [state |-> "present", active |-> active,
                                         events |-> events]]
      BY <2>1 DEF CreateHook
    <3>2. [state |-> "present", active |-> active, events |-> events] \in Hook
      BY DEF Hook
    <3> QED
      BY <2>1, <3>1, <3>2 DEF CreateHook
  <2>2. CASE UpdateHook(h)
    <3>1. PICK active \in BOOLEAN, events \in SUBSET EventTypes :
            hook' = [hook EXCEPT ![h].active = active, ![h].events = events]
      BY <2>2 DEF UpdateHook
    <3>2. hook' = [hook EXCEPT ![h] =
                     [hook[h] EXCEPT !.active = active, !.events = events]]
      BY <1>1, <3>1
    <3>3. /\ [hook[h] EXCEPT !.active = active, !.events = events] \in Hook
          /\ [hook[h] EXCEPT !.active = active, !.events = events].state = hook[h].state
      BY <1>1 DEF Hook
    <3> QED
      BY <2>2, <3>2, <3>3 DEF UpdateHook, Present
  <2> QED
    BY <2>1, <2>2
<1>3. edits' \in 0..MaxEdits
  BY <1>1 DEF CreateHook, UpdateHook
<1>4. UNCHANGED <<fired, todo, row, couriers, retrying, batch, sent, missed, faults>>
  BY DEF CreateHook, UpdateHook, Courses
<1>5. \A g \in Hooks : hook'[g] = IF g = h THEN r ELSE hook[g]
  BY <1>1, <1>2
<1>6. hook' \in [Hooks -> Hook]
  BY <1>1, <1>2
<1> QED
  BY <1>2, <1>3, <1>4, <1>5, <1>6 DEF Present

LEMMA HookSteps ==
    ASSUME Inv, NEW h \in Hooks, CreateHook(h) \/ UpdateHook(h)
    PROVE  Inv'
<1> USE DEF Inv
<1>1. /\ hook' \in [Hooks -> Hook]
      /\ \A g \in Hooks : hook'[g].state = "deleted" <=> hook[g].state = "deleted"
      /\ \A g \in Hooks : Present(g) => Present(g)'
      /\ edits' \in 0..MaxEdits
      /\ UNCHANGED <<fired, todo, row, couriers, retrying, batch, sent, missed, faults>>
  BY HookChanges
<1>2. TypeOK'
  BY <1>1 DEF TypeOK
<1>3. Apart' /\ FirstsHaveNoRow'
  BY <1>1 DEF Apart, FirstsHaveNoRow
<1>4. QueuedAreIdle'
  BY <1>1 DEF QueuedAreIdle, Idle
<1>5. RetriesAreFresh'
  BY <1>1 DEF RetriesAreFresh, Retrying, TypeOK, Courier, Pending, Deliveries
<1>6. RowsAreSound'
  BY <1>1 DEF RowsAreSound, Deliveries
<1>7. DueAreRested'
  BY <1>1 DEF DueAreRested, Rested, Retrying
<1> QED
  BY <1>2, <1>3, <1>4, <1>5, <1>6, <1>7

LEMMA DeleteSteps ==
    ASSUME Inv, NEW h \in Hooks, DeleteHook(h)
    PROVE  Inv'
<1> USE WebhookAssumption DEF Inv, DeleteHook, Courses
<1>1. /\ hook' \in [Hooks -> Hook]
      /\ hook'[h].state = "deleted"
      /\ \A g \in Hooks : g # h => hook'[g] = hook[g]
  BY DEF TypeOK, Hook
<1>2. row' \in [Deliveries -> Row]
  BY DEF TypeOK, Row, NoRow
<1>3. TypeOK'
  BY <1>1, <1>2 DEF TypeOK
<1>4. \A d \in Deliveries : row'[d] = IF d[2] = h THEN NoRow ELSE row[d]
  OBVIOUS
<1>5. Apart' /\ FirstsHaveNoRow'
  BY <1>4 DEF Apart, FirstsHaveNoRow, TypeOK, Courier
<1>6. QueuedAreIdle'
  BY <1>4 DEF QueuedAreIdle, Idle
<1>7. RetriesAreFresh'
  BY <1>1, <1>4 DEF RetriesAreFresh, Retrying, TypeOK, Courier, Pending, Deliveries
<1>8. RowsAreSound'
  BY <1>1, <1>4 DEF RowsAreSound, Deliveries, NoRow, Present
<1>9. DueAreRested'
  BY <1>4 DEF DueAreRested, Rested, Retrying, NoRow
<1> QED
  BY <1>3, <1>5, <1>6, <1>7, <1>8, <1>9

LEMMA DispatchSteps ==
    ASSUME Inv, NEW x \in Events,
           Dispatch(x) \/ \E h \in Hooks : Test(x, h)
    PROVE  Inv'
<1> USE WebhookAssumption DEF Inv
<1>1. /\ x \notin fired
      /\ fired' = fired \cup {x}
      /\ todo' \in [Events -> SUBSET Hooks]
      /\ \A y \in Events : y # x => todo'[y] = todo[y]
      /\ faults' \in 0..MaxFaults
      /\ UNCHANGED <<hook, row, couriers, retrying, batch, sent, missed, edits>>
  BY DEF Dispatch, Test, TypeOK
<1>2. TypeOK'
  BY <1>1 DEF TypeOK
<1>3. Apart' /\ FirstsHaveNoRow'
  BY <1>1 DEF Apart, FirstsHaveNoRow
<1>4. QueuedAreIdle'
  BY <1>1 DEF QueuedAreIdle, Idle, Deliveries, TypeOK
<1>5. RetriesAreFresh'
  BY <1>1 DEF RetriesAreFresh, Retrying
<1>6. RowsAreSound'
  BY <1>1 DEF RowsAreSound, Present
<1>7. DueAreRested'
  BY <1>1 DEF DueAreRested, Rested, Retrying
<1> QED
  BY <1>2, <1>3, <1>4, <1>5, <1>6, <1>7

LEMMA StartSteps ==
    ASSUME Inv, NEW x \in Events, NEW h \in Hooks, StartDelivery(x, h)
    PROVE  Inv'
<1> DEFINE d == <<x, h>>
           c == Start(d, 0)
<1> USE WebhookAssumption DEF Inv
<1>1. /\ h \in todo[x]
      /\ todo' \in [Events -> SUBSET Hooks]
      /\ todo'[x] = todo[x] \ {h}
      /\ \A y \in Events : y # x => todo'[y] = todo[y]
      /\ couriers' = couriers \cup {c}
      /\ UNCHANGED <<hook, fired, row, retrying, batch, sent, missed, edits, faults>>
  BY DEF StartDelivery, TypeOK
<1>2. d \in Deliveries /\ c \in Courier /\ c.id = d /\ c.attempts = 0
  BY DEF Start, Courier, Deliveries
<1>3. Idle(d)
  BY <1>1, <1>2 DEF QueuedAreIdle
<1>4. TypeOK'
  BY <1>1, <1>2 DEF TypeOK
<1>5. Apart' /\ FirstsHaveNoRow'
  BY <1>1, <1>2, <1>3 DEF Apart, FirstsHaveNoRow, Idle
<1>6. QueuedAreIdle'
  <2>3. x \in fired
    BY <1>1 DEF QueuedAreIdle
  <2>4. ASSUME NEW y \in Events, y \notin fired
        PROVE  todo'[y] = {}
    BY <1>1, <2>3, <2>4 DEF QueuedAreIdle
  <2> SUFFICES ASSUME NEW e \in Deliveries, e[1] \notin fired \/ e[2] \in todo'[e[1]]
               PROVE  Idle(e)'
    BY <1>1, <2>4 DEF QueuedAreIdle
  <2>0. e[1] \notin fired \/ e[2] \in todo[e[1]]
    BY <1>1 DEF Deliveries
  <2>1. Idle(e)
    BY <2>0 DEF QueuedAreIdle
  <2>2. CASE e = d
    <3>1. e[1] = x /\ e[2] = h
      BY <2>2
    <3>2. FALSE
      BY <3>1, <1>1, <2>3
    <3> QED
      BY <3>2
  <2> QED
    BY <1>1, <1>2, <2>1, <2>2 DEF Idle
<1>7. RetriesAreFresh'
  BY <1>1, <1>2 DEF RetriesAreFresh, Retrying
<1>8. RowsAreSound'
  BY <1>1 DEF RowsAreSound, Present
<1>9. DueAreRested'
  BY <1>1, <1>2 DEF DueAreRested, Rested, Retrying
<1> QED
  BY <1>4, <1>5, <1>6, <1>7, <1>8, <1>9

\* A POST makes its goroutine's stage answered, and nothing else of it new.
LEMMA PostSteps ==
    ASSUME Inv, NEW c \in couriers, Post(c)
    PROVE  Inv'
<1> USE WebhookAssumption DEF Inv
<1>1. PICK ok \in BOOLEAN, text \in BOOLEAN :
        couriers' = (couriers \ {c}) \cup
                      {[c EXCEPT !.stage = "answered", !.ok = ok, !.text = text]}
  BY DEF Post
<1>2. PICK e : e = [c EXCEPT !.stage = "answered", !.ok = ok, !.text = text]
  OBVIOUS
<1>3. c \in Courier
  BY DEF TypeOK
<1>4. /\ e \in Courier /\ e.id = c.id /\ e.attempts = c.attempts
      /\ e.stage = "answered"
  BY <1>2, <1>3 DEF Courier
<1>5. /\ couriers' = (couriers \ {c}) \cup {e}
      /\ c.stage = "started"
      /\ sent' = [sent EXCEPT ![c.id] = "fresh"]
      /\ UNCHANGED <<hook, fired, todo, row, retrying, batch, missed, edits, faults>>
  BY <1>1, <1>2 DEF Post
<1>6. TypeOK'
  BY <1>4, <1>5 DEF TypeOK
<1>7. Apart'
  BY <1>4, <1>5 DEF Apart
<1>8. QueuedAreIdle' /\ FirstsHaveNoRow'
  BY <1>4, <1>5 DEF QueuedAreIdle, Idle, FirstsHaveNoRow
<1>9. RetriesAreFresh'
  BY <1>4, <1>5 DEF RetriesAreFresh, Retrying
<1>10. RowsAreSound'
  BY <1>5 DEF RowsAreSound, Present
<1>11. DueAreRested'
  <2>1. \A d \in Deliveries : d # c.id => (Rested(d)' <=> Rested(d))
    BY <1>5 DEF Rested, TypeOK
  <2>2. \A f \in couriers \ {c} : f.id # c.id
    BY DEF Apart
  <2>3. \A p \in batch : p.id # c.id /\ p.id \in Deliveries
    BY DEF Apart, TypeOK, Pending
  <2>4. ASSUME NEW d \in Deliveries, row'[d].next = "due"
        PROVE  Rested(d)' \/ \E f \in couriers' : f.id = d /\ f.stage = "answered"
    <3>1. CASE d = c.id
      BY <3>1, <1>4, <1>5
    <3>2. CASE d # c.id
      BY <3>2, <2>1, <2>4, <1>5 DEF DueAreRested
    <3> QED
      BY <3>1, <3>2
  <2>5. \A p \in batch' : Rested(p.id)'
    BY <2>1, <2>3, <1>5 DEF DueAreRested
  <2>6. ASSUME NEW f \in Retrying', f.stage = "started"
        PROVE  Rested(f.id)'
    <3>1. f \in couriers \ {c} /\ f \in Retrying
      BY <2>6, <1>4, <1>5 DEF Retrying
    <3>2. f.id \in Deliveries
      BY <3>1 DEF TypeOK, Courier
    <3> QED
      BY <3>1, <3>2, <2>1, <2>2, <2>6 DEF DueAreRested
  <2> QED
    BY <2>4, <2>5, <2>6 DEF DueAreRested
<1> QED
  BY <1>6, <1>7, <1>8, <1>9, <1>10, <1>11

LEMMA LoggedFacts ==
    ASSUME NEW n \in 1..MaxAttempts, NEW ok \in BOOLEAN
    PROVE  /\ Logged(n, ok) \in Row
           /\ Logged(n, ok).attempts = n
           /\ Logged(n, ok).success = ok
           /\ Logged(n, ok).next \in {"never", "later"}
           /\ Logged(n, ok).next = "later" => ~ok /\ n < MaxAttempts
<1>1. Logged(n, ok).next \in {"never", "later"}
  BY DEF Logged
<1> QED
  BY <1>1, WebhookAssumption DEF Logged, Row

\* A goroutine that ends, having logged its attempt or not.
LEMMA LogSteps ==
    ASSUME Inv, NEW c \in couriers, Insert(c) \/ UpdateRow(c)
    PROVE  Inv'
<1> USE WebhookAssumption DEF Inv
<1>1. /\ c \in Courier
      /\ c.stage = "answered"
      /\ couriers' = couriers \ {c}
      /\ UNCHANGED <<hook, fired, todo, retrying, batch, sent, edits>>
  BY DEF Insert, UpdateRow, TypeOK
<1>2. /\ c.id \in Deliveries
      /\ c.attempts + 1 \in 1..MaxAttempts
      /\ c.ok \in BOOLEAN
  BY <1>1 DEF Courier
<1>3. \/ /\ row' = [row EXCEPT ![c.id] = Logged(c.attempts + 1, c.ok)]
         /\ Present(c.id[2])
         /\ UNCHANGED <<missed, faults>>
      \/ /\ row' = row
         /\ missed' = missed \cup {c.id}
         /\ faults' \in 0..MaxFaults
  <2>1. CASE Insert(c)
    <3>1. c.attempts + 1 = 1
      BY <2>1 DEF Insert
    <3> QED
      BY <2>1, <3>1 DEF Insert, TypeOK
  <2>2. CASE UpdateRow(c)
    <3>1. row[c.id] # NoRow => Present(c.id[2])
      BY <1>2 DEF RowsAreSound, TypeOK, Row
    <3> QED
      BY <2>2, <3>1 DEF UpdateRow, TypeOK
  <2> QED
    BY <2>1, <2>2
<1>4. PICK r : r = Logged(c.attempts + 1, c.ok)
  OBVIOUS
<1>5. /\ r \in Row
      /\ r.attempts = c.attempts + 1
      /\ r.next \in {"never", "later"}
      /\ r.next = "later" => ~r.success /\ c.attempts + 1 < MaxAttempts
  BY <1>2, <1>4, LoggedFacts
<1>6. /\ row' \in [Deliveries -> Row]
      /\ \A d \in Deliveries : d # c.id => row'[d] = row[d]
      /\ \/ row'[c.id] = r /\ Present(c.id[2]) /\ missed' = missed
         \/ row'[c.id] = row[c.id] /\ missed' = missed \cup {c.id}
  BY <1>2, <1>3, <1>4, <1>5 DEF TypeOK
<1>7. TypeOK'
  BY <1>1, <1>2, <1>3, <1>6 DEF TypeOK
<1>8. Apart'
  BY <1>1 DEF Apart
<1>9. \A f \in couriers' \cup batch : f.id # c.id /\ f.id \in Deliveries
  BY <1>1 DEF Apart, TypeOK, Courier, Pending
<1>10. QueuedAreIdle'
  <2>1. \A d \in Deliveries : Idle(d) => d # c.id
    BY DEF Idle
  <2>2. \A d \in Deliveries : Idle(d) => Idle(d)'
    BY <1>1, <1>6, <2>1 DEF Idle
  <2> QED
    BY <1>1, <2>2 DEF QueuedAreIdle
<1>11. FirstsHaveNoRow'
  BY <1>1, <1>6, <1>9 DEF FirstsHaveNoRow
<1>12. RetriesAreFresh'
  BY <1>1, <1>6, <1>9 DEF RetriesAreFresh, Retrying
<1>13. RowsAreSound'
  <2>1. ASSUME NEW d \in Deliveries
        PROVE  /\ row'[d].attempts = 0 => row'[d] = NoRow
               /\ row'[d].attempts > 0 => Present(d[2])
               /\ row'[d].next # "never" =>
                     row'[d].attempts \in 1..MaxAttempts - 1 /\ ~row'[d].success
    <3>1. CASE row'[d] = row[d]
      BY <3>1 DEF RowsAreSound
    <3>2. CASE d = c.id /\ row'[d] = r /\ Present(c.id[2])
      BY <3>2, <1>2, <1>5
    <3> QED
      BY <1>6, <3>1, <3>2
  <2> QED
    BY <2>1, <1>1 DEF RowsAreSound, Present
<1>14. DueAreRested'
  <2>1. \A d \in Deliveries : Rested(d) => Rested(d)'
    BY <1>1, <1>6 DEF Rested
  <2>2. ASSUME NEW d \in Deliveries, row'[d].next = "due"
        PROVE  Rested(d)' \/ \E f \in couriers' : f.id = d /\ f.stage = "answered"
    <3>1. CASE d = c.id
      BY <3>1, <2>2, <1>5, <1>6 DEF Rested
    <3>2. CASE d # c.id
      BY <3>2, <2>1, <2>2, <1>1, <1>6 DEF DueAreRested
    <3> QED
      BY <3>1, <3>2
  <2>3. \A p \in batch' : Rested(p.id)'
    BY <2>1, <1>1, <1>9 DEF DueAreRested
  <2>4. \A f \in Retrying' : f.stage = "started" => Rested(f.id)'
    BY <2>1, <1>1, <1>9 DEF DueAreRested, Retrying
  <2> QED
    BY <2>2, <2>3, <2>4 DEF DueAreRested
<1> QED
  BY <1>7, <1>8, <1>10, <1>11, <1>12, <1>13, <1>14

LEMMA TickStep ==
    ASSUME Inv, Tick
    PROVE  Inv'
<1> USE WebhookAssumption DEF Inv
<1>1. /\ Retrying = {}
      /\ batch = {}
  BY DEF Tick, RetriesAreFresh
<1>2. /\ retrying' = TRUE
      /\ batch' = Pendings
      /\ UNCHANGED <<hook, fired, todo, row, couriers, sent, missed, edits, faults>>
  BY DEF Tick
<1>3. \A p \in Pendings : /\ p \in Pending
                          /\ p.attempts = row[p.id].attempts
                          /\ row[p.id].next = "due"
                          /\ ~row[p.id].success
  BY DEF Pendings, Pending, TypeOK, Row, RowsAreSound
<1>4. \A p, q \in Pendings : p.id = q.id => p = q
  BY DEF Pendings
<1>5. \A c \in couriers : c.attempts = 0
  BY <1>1 DEF Retrying, TypeOK, Courier
<1>6. \A c \in couriers, p \in Pendings : c.id # p.id
  BY <1>3, <1>5 DEF FirstsHaveNoRow, NoRow
<1>7. TypeOK'
  BY <1>2, <1>3 DEF TypeOK
<1>8. Apart'
  BY <1>2, <1>4, <1>6 DEF Apart
<1>9. QueuedAreIdle'
  BY <1>2, <1>3 DEF QueuedAreIdle, Idle, NoRow
<1>10. FirstsHaveNoRow' /\ RowsAreSound'
  BY <1>2 DEF FirstsHaveNoRow, RowsAreSound, Present
<1>11. RetriesAreFresh'
  BY <1>1, <1>2, <1>3 DEF RetriesAreFresh, Retrying
<1>12. DueAreRested'
  <2>1. \A p \in Pendings : Rested(p.id)
    <3> SUFFICES ASSUME NEW p \in Pendings PROVE Rested(p.id)
      OBVIOUS
    <3>1. p.id \in Deliveries /\ row[p.id].next = "due"
      BY <1>3 DEF Pending
    <3>2. \A c \in couriers : c.id # p.id
      BY <1>6
    <3> QED
      BY <3>1, <3>2 DEF DueAreRested
  <2> QED
    BY <2>1, <1>2 DEF DueAreRested, Rested, Retrying
<1> QED
  BY <1>7, <1>8, <1>9, <1>10, <1>11, <1>12

LEMMA StartRetryStep ==
    ASSUME Inv, NEW p \in batch, StartRetry(p)
    PROVE  Inv'
<1> USE WebhookAssumption DEF Inv
<1>1. PICK c : c = Start(p.id, p.attempts)
  OBVIOUS
<1>2. /\ c \in Courier /\ c.id = p.id /\ c.attempts = p.attempts
      /\ c.attempts > 0 /\ p.id \in Deliveries
  BY <1>1 DEF Start, Courier, Pending, TypeOK
<1>3. /\ batch' = batch \ {p}
      /\ couriers' = couriers \cup {c}
      /\ UNCHANGED <<hook, fired, todo, row, retrying, sent, missed, edits, faults>>
  BY <1>1 DEF StartRetry
<1>4. TypeOK'
  BY <1>2, <1>3 DEF TypeOK
<1>5. Apart'
  BY <1>2, <1>3 DEF Apart
<1>6. QueuedAreIdle' /\ FirstsHaveNoRow' /\ RowsAreSound'
  BY <1>2, <1>3 DEF QueuedAreIdle, Idle, FirstsHaveNoRow, RowsAreSound, Present
<1>7. RetriesAreFresh'
  BY <1>2, <1>3 DEF RetriesAreFresh, Retrying
<1>8. DueAreRested'
  BY <1>2, <1>3 DEF DueAreRested, Rested, Retrying
<1> QED
  BY <1>4, <1>5, <1>6, <1>7, <1>8

LEMMA BatchDoneStep ==
    ASSUME Inv, BatchDone
    PROVE  Inv'
<1> USE WebhookAssumption DEF Inv, BatchDone
<1>1. TypeOK' /\ Apart' /\ QueuedAreIdle' /\ FirstsHaveNoRow' /\ RowsAreSound'
  BY DEF TypeOK, Apart, QueuedAreIdle, Idle, FirstsHaveNoRow, RowsAreSound, Present
<1>2. RetriesAreFresh' /\ DueAreRested'
  BY DEF RetriesAreFresh, Retrying, DueAreRested, Rested
<1> QED
  BY <1>1, <1>2

LEMMA DelaySteps ==
    ASSUME Inv, NEW d \in Deliveries, DelayElapses(d)
    PROVE  Inv'
<1> USE WebhookAssumption DEF Inv
<1>1. PICK r : r = [row[d] EXCEPT !.next = "due"]
  OBVIOUS
<1>2. row[d] \in Row /\ row[d].next = "later"
  BY DEF DelayElapses, TypeOK
<1>3. /\ r \in Row /\ r.attempts = row[d].attempts
      /\ r.success = row[d].success /\ r.next = "due"
  BY <1>1, <1>2 DEF Row
<1>4. /\ row' = [row EXCEPT ![d] = r]
      /\ sent' = [sent EXCEPT ![d] = "rested"]
      /\ UNCHANGED <<hook, fired, Courses, missed, edits, faults>>
  BY <1>1 DEF DelayElapses, TypeOK
<1>5. /\ row' \in [Deliveries -> Row]
      /\ sent' \in [Deliveries -> {"never", "fresh", "rested", "cut"}]
      /\ row'[d] = r
      /\ \A e \in Deliveries : e # d => row'[e] = row[e]
      /\ UNCHANGED <<todo, couriers, retrying, batch>>
  BY <1>3, <1>4 DEF TypeOK, Courses
<1>6. row[d] # NoRow /\ row[d].attempts > 0
  BY <1>2 DEF RowsAreSound, NoRow, Row
<1>7. TypeOK'
  BY <1>4, <1>5 DEF TypeOK
<1>8. Apart'
  BY <1>5 DEF Apart
<1>9. QueuedAreIdle'
  <2>1. \A e \in Deliveries : Idle(e) => Idle(e)'
    BY <1>5, <1>6 DEF Idle
  <2> QED
    BY <1>4, <1>5, <2>1 DEF QueuedAreIdle
<1>10. FirstsHaveNoRow'
  <2>1. \A c \in couriers : c.attempts = 0 => c.id # d
    BY <1>6 DEF FirstsHaveNoRow
  <2> QED
    BY <1>5, <2>1 DEF FirstsHaveNoRow, TypeOK, Courier
<1>11. RetriesAreFresh'
  <2>1. \A e \in Deliveries : /\ row'[e].attempts = row[e].attempts
                              /\ row'[e].success = row[e].success
    BY <1>3, <1>5
  <2> QED
    BY <1>4, <1>5, <2>1 DEF RetriesAreFresh, Retrying, TypeOK, Courier, Pending
<1>12. RowsAreSound'
  BY <1>2, <1>3, <1>4, <1>5, <1>6 DEF RowsAreSound, Present
<1>13. DueAreRested'
  <2>1. Rested(d)' /\ \A e : Rested(e) => Rested(e)'
    BY <1>4 DEF Rested, TypeOK
  <2>2. ASSUME NEW e \in Deliveries, row'[e].next = "due"
        PROVE  Rested(e)' \/ \E f \in couriers' : f.id = e /\ f.stage = "answered"
    BY <2>1, <2>2, <1>5 DEF DueAreRested
  <2> QED
    BY <2>1, <2>2, <1>5 DEF DueAreRested, Retrying
<1> QED
  BY <1>7, <1>8, <1>9, <1>10, <1>11, <1>12, <1>13

LEMMA ExitStep ==
    ASSUME Inv, Exit
    PROVE  Inv'
<1> USE WebhookAssumption DEF Inv
<1>1. /\ todo' = [x \in Events |-> {}]
      /\ couriers' = {} /\ retrying' = FALSE /\ batch' = {}
      /\ faults' \in 0..MaxFaults
      /\ UNCHANGED <<hook, fired, row, edits>>
  BY DEF Exit, TypeOK
<1>2. /\ \A c \in couriers : c.stage = "answered" => c.id \in missed'
      /\ missed' \subseteq Deliveries
      /\ missed \subseteq missed'
  BY DEF Exit, TypeOK, Courier
<1>3. sent' \in [Deliveries -> {"never", "fresh", "rested", "cut"}]
  BY DEF Exit, TypeOK
<1>4. TypeOK'
  BY <1>1, <1>2, <1>3 DEF TypeOK
<1>5. Apart' /\ QueuedAreIdle' /\ FirstsHaveNoRow' /\ RetriesAreFresh' /\ RowsAreSound'
  <2>1. Apart' /\ FirstsHaveNoRow' /\ RetriesAreFresh'
    BY <1>1 DEF Apart, FirstsHaveNoRow, RetriesAreFresh, Retrying
  <2>2. \A d \in Deliveries : d[2] \notin todo'[d[1]]
    BY <1>1 DEF Deliveries
  <2>3. \A d \in Deliveries : Idle(d) => Idle(d)'
    BY <1>1 DEF Idle
  <2>4. QueuedAreIdle'
    BY <1>1, <2>2, <2>3 DEF QueuedAreIdle
  <2>5. RowsAreSound'
    BY <1>1 DEF RowsAreSound, Present
  <2> QED
    BY <2>1, <2>4, <2>5
<1>6. DueAreRested'
  <2>1. ASSUME NEW d \in Deliveries, row'[d].next = "due"
        PROVE  Rested(d)'
    <3>1. row[d].next = "due" /\ row[d] # NoRow
      BY <1>1, <2>1 DEF NoRow
    <3>2. d[2] \notin todo[d[1]]
      BY <3>1 DEF QueuedAreIdle, Idle
    <3>3. ~ \E c \in couriers : c.id = d /\ c.attempts = 0 /\ c.stage = "started"
      BY <3>1 DEF FirstsHaveNoRow
    <3>4. sent'[d] = sent[d]
      BY <3>2, <3>3 DEF Exit
    <3> QED
      BY <3>1, <3>4, <1>2 DEF DueAreRested, Rested
  <2> QED
    BY <1>1, <2>1 DEF DueAreRested, Retrying
<1> QED
  BY <1>4, <1>5, <1>6

LEMMA NextInv == Inv /\ [Next]_vars => Inv'
<1>1. CASE UNCHANGED vars
  BY <1>1 DEF vars, Inv, TypeOK, Apart, QueuedAreIdle, Idle, FirstsHaveNoRow,
              RetriesAreFresh, Retrying, RowsAreSound, DueAreRested, Rested, Present
<1>2. ASSUME Inv, Next
      PROVE  Inv'
  BY <1>2, HookSteps, DeleteSteps, DispatchSteps, StartSteps, PostSteps, LogSteps,
     TickStep, StartRetryStep, BatchDoneStep, DelaySteps, ExitStep DEF Next
<1> QED
  BY <1>1, <1>2

\* The inductive invariant of the webhook service.
THEOREM WebhookInvariant == Spec => []Inv
BY InitInv, NextInv, PTL DEF Spec

\* Every column and variable keeps its type: attempts, computed from a copy,
\* never passes MaxAttempts.
THEOREM WebhookTypeCorrect == Spec => []TypeOK
<1>1. Inv => TypeOK
  BY DEF Inv
<1> QED
  BY <1>1, WebhookInvariant, PTL

\* A delivery is in the hands of one goroutine at a time.
THEOREM OneCourierAlways == Spec => []OneCourier
<1>1. Inv => OneCourier
  BY DEF Inv, Apart, OneCourier
<1> QED
  BY <1>1, WebhookInvariant, PTL

\* What a retry has copied is what the row says when it is written.
THEOREM CopiesAreFreshAlways == Spec => []CopiesAreFresh
<1>1. Inv => CopiesAreFresh
  BY DEF Inv, RetriesAreFresh, CopiesAreFresh
<1> QED
  BY <1>1, WebhookInvariant, PTL

\* The delay before a retry is kept unless a POST was not logged.
THEOREM BackOffIsKept == Spec => []BackOffKept
<1>1. Inv => BackOffKept
  BY DEF Inv, DueAreRested, Rested, BackOffKept
<1> QED
  BY <1>1, WebhookInvariant, PTL
-----------------------------------------------------------------------------
(* Webhook implements DeliveryLife *)

LEMMA LifeInit == Init => Life!DInit
BY DEF Init, Life!DInit, Log, Gone, NoRow, NoHook, Life!Nothing, Deliveries

LEMMA LifeStep == Inv /\ [Next]_vars => [Life!DNext]_(Life!dvars)
<1> SUFFICES ASSUME Inv, [Next]_vars
             PROVE  Life!DNext \/ (Log' = Log /\ Gone' = Gone)
  BY DEF Life!dvars
<1> USE WebhookAssumption DEF Inv
<1>1. CASE row' = row /\ hook' = hook
  BY <1>1 DEF Log, Gone
<1>2. ASSUME NEW h \in Hooks, CreateHook(h) \/ UpdateHook(h)
      PROVE  Log' = Log /\ Gone' = Gone
  <2>1. /\ row' = row
        /\ \A g \in Hooks : hook'[g].state = "deleted" <=> hook[g].state = "deleted"
    BY <1>2, HookChanges
  <2> QED
    BY <2>1 DEF Log, Gone, Deliveries
<1>3. ASSUME NEW h \in Hooks, DeleteHook(h)
      PROVE  Life!DNext
  <2> DEFINE D == {d \in Deliveries : d[2] = h}
  <2>1. \A g \in Hooks : hook'[g].state = "deleted" <=> g = h \/ hook[g].state = "deleted"
    BY <1>3 DEF DeleteHook, TypeOK, Hook
  <2>2. Gone' = Gone \cup D
    BY <2>1 DEF Gone, Deliveries
  <2>3. Log' = [d \in Deliveries |-> IF d \in D THEN Life!Nothing ELSE Log[d]]
    BY <1>3 DEF DeleteHook, Log, Life!Nothing, NoRow
  <2>4. Life!Purge(D)
    BY <2>2, <2>3 DEF Life!Purge
  <2>5. D \in SUBSET Deliveries
    OBVIOUS
  <2> QED
    BY <2>4, <2>5 DEF Life!DNext
<1>4. ASSUME NEW d \in Deliveries, DelayElapses(d)
      PROVE  Log' = Log /\ Gone' = Gone
  <2>1. hook' = hook /\ \A e \in Deliveries : /\ row'[e].attempts = row[e].attempts
                                              /\ row'[e].success = row[e].success
    BY <1>4 DEF DelayElapses, TypeOK, Row
  <2> QED
    BY <2>1 DEF Log, Gone
<1>5. ASSUME NEW c \in couriers, Insert(c) \/ UpdateRow(c)
      PROVE  Life!DNext \/ (Log' = Log /\ Gone' = Gone)
  <2>1. c \in Courier /\ hook' = hook
    BY <1>5 DEF TypeOK, Insert, UpdateRow
  <2>2. CASE row' = row
    BY <2>1, <2>2 DEF Log, Gone
  <2>3. CASE row' # row
    <3>1. /\ c.id \in Deliveries
          /\ c.attempts + 1 \in 1..MaxAttempts
          /\ c.ok \in BOOLEAN
      BY <2>1 DEF Courier
    <3>2. /\ row' = [row EXCEPT ![c.id] = Logged(c.attempts + 1, c.ok)]
          /\ Present(c.id[2])
      <4>1. CASE Insert(c)
        <5>1. c.attempts + 1 = 1
          BY <4>1 DEF Insert
        <5> QED
          BY <4>1, <5>1, <2>3 DEF Insert
      <4>2. CASE UpdateRow(c)
        <5>1. row[c.id] # NoRow => Present(c.id[2])
          BY <3>1 DEF RowsAreSound, TypeOK, Row
        <5> QED
          BY <4>2, <5>1, <2>3 DEF UpdateRow
      <4> QED
        BY <1>5, <4>1, <4>2
    <3>3. row[c.id].attempts = c.attempts /\ ~row[c.id].success
      <4>1. CASE c.attempts = 0
        BY <4>1 DEF FirstsHaveNoRow, NoRow
      <4>2. CASE c.attempts > 0
        BY <4>2, <3>2 DEF RetriesAreFresh, Retrying, Present
      <4> QED
        BY <4>1, <4>2, <2>1 DEF Courier
    <3>4. PICK r : r = Logged(c.attempts + 1, c.ok)
      OBVIOUS
    <3>5. r.attempts = c.attempts + 1 /\ r.success = c.ok
      BY <3>1, <3>4, LoggedFacts
    <3>6. /\ row'[c.id] = r
          /\ \A e \in Deliveries : e # c.id => row'[e] = row[e]
      BY <3>1, <3>2, <3>4 DEF TypeOK
    <3>7. Log' = [Log EXCEPT ![c.id] = [attempts |-> Log[c.id].attempts + 1,
                                        success |-> c.ok]]
      BY <3>1, <3>3, <3>5, <3>6 DEF Log
    <3>8. c.id \notin Gone /\ Gone' = Gone
      BY <2>1, <3>2 DEF Gone, Present
    <3>9. Log[c.id].attempts < MaxAttempts /\ ~Log[c.id].success
      BY <3>1, <3>3, <2>1 DEF Log, Courier
    <3>10. Life!Attempt(c.id)
      BY <3>1, <3>7, <3>8, <3>9 DEF Life!Attempt
    <3> QED
      BY <3>1, <3>10 DEF Life!DNext
  <2> QED
    BY <2>2, <2>3
<1>6. \/ row' = row /\ hook' = hook
      \/ \E h \in Hooks : CreateHook(h) \/ UpdateHook(h)
      \/ \E h \in Hooks : DeleteHook(h)
      \/ \E d \in Deliveries : DelayElapses(d)
      \/ \E c \in couriers : Insert(c) \/ UpdateRow(c)
  BY DEF Next, vars, Dispatch, Test, StartDelivery, Post, Tick, StartRetry, BatchDone, Exit
<1> QED
  BY <1>1, <1>2, <1>3, <1>4, <1>5, <1>6

\* The log of a delivery is made of one attempt after the other, none after a
\* success, none beyond MaxAttempts and none after its webhook was deleted.
THEOREM ImplementsLife == Spec => LogsFollowLife
<1>1. Spec => Life!LifeSpec
  BY LifeInit, LifeStep, WebhookInvariant, PTL DEF Spec, Life!LifeSpec
<1> QED
  BY <1>1 DEF LogsFollowLife
=============================================================================
