-------------------------------- MODULE Hub ---------------------------------
(***************************************************************************)
(* The WebSocket hub.  A connection has a reader, the goroutine of its     *)
(* request, and a writer that drains a bounded channel.  A client that     *)
(* does not read fast enough is dropped by the sender.  In Go a send on a  *)
(* closed channel, and a second close, panic: each close must take the     *)
(* connection off the list under the same lock.                            *)
(***************************************************************************)
EXTENDS Requests

CONSTANTS
    Conns,  \* bound: connections that are ever made
    BufSize \* sendBufSize; 256 in the code

ASSUME HubAssumption == BufSize \in Nat \ {0}

VARIABLES
    conn,    \* the connections
    panicked

hubVars == <<conn, panicked>>
-----------------------------------------------------------------------------
\* What of a connection its two goroutines, the hub and the client see.
NoConn == [user |-> None, listed |-> FALSE, queue |-> 0, closed |-> FALSE,
           socket |-> "none", reader |-> FALSE, pump |-> "none"]

HubInit ==
    /\ conn = [k \in Conns |-> NoConn]
    /\ panicked = FALSE

Listed(u) == {k \in Conns : conn[k].listed /\ conn[k].user = u}
Full(k) == conn[k].queue = BufSize

\* A connection is served by its own goroutines.
ByGoroutine == UNCHANGED <<left, req, user, org>>

\* The upgrade, and Register, which starts the writer.
HandleWS(u, k) ==
    /\ AtOnce("hub")
    /\ user[u].was
    /\ conn[k] = NoConn
    /\ conn' = [conn EXCEPT ![k] = [NoConn EXCEPT !.user = u, !.listed = TRUE,
                                !.socket = "open", !.reader = TRUE, !.pump = "runs"]]
    /\ UNCHANGED <<user, org, panicked>>

\* Mutant: a connection that is dropped stays on the list.
SendToUserKeeping(u) ==
    LET ks == Listed(u) IN
    /\ conn' = [k \in Conns |->
                  IF k \notin ks THEN conn[k]
                  ELSE IF Full(k) THEN [conn[k] EXCEPT !.closed = TRUE, !.socket = "shut"]
                                  ELSE [conn[k] EXCEPT !.queue = @ + 1]]
    /\ panicked' = (panicked \/ \E k \in ks : conn[k].closed)

\* Under the lock: a message for each connection of the user; those that are full
\* are closed and taken off the list.
SendToUser(u) ==
    LET ks == Listed(u) IN
    /\ conn' = [k \in Conns |->
                  IF k \notin ks THEN conn[k]
                  ELSE IF Full(k) THEN [conn[k] EXCEPT !.closed = TRUE, !.socket = "shut",
                                                       !.listed = FALSE]
                                  ELSE [conn[k] EXCEPT !.queue = @ + 1]]
    /\ panicked' = (panicked \/ \E k \in ks : conn[k].closed)

\* The client leaves, or does not answer a ping in time.
ClientLeaves(k) ==
    /\ conn[k].socket = "open"
    /\ conn' = [conn EXCEPT ![k].socket = "shut"]
    /\ ByGoroutine /\ UNCHANGED panicked

\* The reader ends: Unregister closes the channel of a connection that is listed.
Unregister(k) ==
    /\ conn[k].reader /\ conn[k].socket = "shut"
    /\ conn' = [conn EXCEPT ![k].reader = FALSE, ![k].listed = FALSE,
                            ![k].closed = @ \/ conn[k].listed]
    /\ panicked' = (panicked \/ (conn[k].listed /\ conn[k].closed))
    /\ ByGoroutine

\* The writer takes a message and writes it, or cannot.
WriteMessage(k) ==
    /\ conn[k].pump = "runs" /\ conn[k].queue > 0
    /\ conn' = [conn EXCEPT ![k].queue = @ - 1,
                            ![k].pump = IF conn[k].socket = "open" THEN "runs" ELSE "failed"]
    /\ ByGoroutine /\ UNCHANGED panicked

PingFails(k) ==
    /\ conn[k].pump = "runs" /\ conn[k].socket = "shut"
    /\ conn' = [conn EXCEPT ![k].pump = "failed"]
    /\ ByGoroutine /\ UNCHANGED panicked

\* The writer gives up: unregisterConn takes the lock.  The channel stays open.
GiveUp(k) ==
    /\ conn[k].pump = "failed"
    /\ conn' = [conn EXCEPT ![k].listed = FALSE, ![k].pump = "ended"]
    /\ ByGoroutine /\ UNCHANGED panicked

\* The channel is closed and drained.
WriterEnds(k) ==
    /\ conn[k].pump = "runs" /\ conn[k].closed /\ conn[k].queue = 0
    /\ conn' = [conn EXCEPT ![k].pump = "ended"]
    /\ ByGoroutine /\ UNCHANGED panicked

Pump(k) == WriteMessage(k) \/ PingFails(k) \/ GiveUp(k) \/ WriterEnds(k)

HubNext == \E k \in Conns : ClientLeaves(k) \/ Unregister(k) \/ Pump(k)
-----------------------------------------------------------------------------
\* No send on a closed channel, and no channel is closed twice; and whoever the
\* hub still lists is served: no listed connection is without its writer.
ListIsSound ==
    /\ ~panicked
    /\ \A k \in Conns : conn[k].listed => ~conn[k].closed /\ conn[k].pump \in {"runs", "failed"}
=============================================================================
