---------------------------- MODULE AssistantMC -----------------------------
(* An instance of Assistant for TLC. *)
EXTENDS Assistant, TLC

CONSTANTS alice, bob, ra, a1, a2, t1, t2

\* alice owns the repository.
Owners == ra :> alice

\* Requests about agents, tasks, or chat, and some of all, with faults or without.
Load(a, q, c, f) == [agents |-> a, queue |-> q, chat |-> c, faults |-> f]

Mixtures ==
    {Load(5, 0, 0, 0), Load(2, 1, 0, 1), Load(1, 2, 0, 1), Load(0, 0, 3, 0),
     Load(0, 0, 2, 1)}
=============================================================================
