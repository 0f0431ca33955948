------------------------------- MODULE Common -------------------------------
(***************************************************************************)
(* What the modules that are composed share: the users, a value that is no *)
(* id, and the load of a bounded instance, that is, how many more requests *)
(* each component is sent.  An instance can give much to one component, or *)
(* a little to several.                                                    *)
(***************************************************************************)
EXTENDS Naturals, FiniteSets

CONSTANTS
    Users, \* user ids
    Loads, \* bound: the loads an instance starts with, functions from
           \* component names to numbers
    None

ASSUME CommonAssumption == None \notin Users /\ IsFiniteSet(Users)

VARIABLE left \* requests each component may still be sent

LoadInit == left \in Loads

\* Component c is sent a request.
Spend(c) ==
    /\ left[c] > 0
    /\ left' = [left EXCEPT ![c] = left[c] - 1]
=============================================================================
