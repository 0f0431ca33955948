----------------------------- MODULE Assistant ------------------------------
(***************************************************************************)
(* The parts of the server that use the language model, in one process:    *)
(* the task queue and chat.  They share the provider and the end of the    *)
(* process, which cuts the workers and the chat requests alike.            *)
(***************************************************************************)
EXTENDS AgentQueue, Chat

queueOnly == <<agent, installed, task, list, call, worker, ollamaMu, phase,
               strayed>>
chatOnly  == <<conv, messages, reply, pipe>>
vars      == <<left, queueOnly, chatOnly>>

Init == QueueInit /\ ChatInit

Next ==
    \/ QueueStep /\ UNCHANGED chatOnly
    \/ ProcessEnds /\ Cut
    \/ ChatNext /\ UNCHANGED queueOnly

Spec == Init /\ [][Next]_vars

FairSpec == Spec /\ QueueFairness /\ ChatFairness
=============================================================================
