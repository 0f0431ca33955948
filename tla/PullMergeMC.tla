---------------------------- MODULE PullMergeMC ----------------------------
(* Instances of PullMerge for TLC. *)
EXTENDS PullMerge, TLC

CONSTANTS p1, p2, alice, bob, carol, ra, rb, main, topic, c0, c1, c2, c3, m1, m2

\* alice owns ra, bob owns rb.
Owners == (ra :> alice) @@ (rb :> bob)

\* One repository only, of alice.
OneOwner == ra :> alice

\* Two patterns: main, and every branch.
MatchTwo == (1 :> {main}) @@ (2 :> {main, topic})

\* One pattern, which matches the main branches only.
MatchMain == 1 :> {main}

Topic(r, u) == [repo |-> r, author |-> u, source |-> topic, target |-> main]

\* Each contributes to the repository of the other.
Crossed == {Topic(ra, bob), Topic(rb, alice)}

OneRequest == {Topic(ra, bob)}

\* Two authors contribute to one repository.
SameTarget == {Topic(ra, bob), Topic(ra, alice)}

AllBodies == [strategy : Strategies, delete : BOOLEAN]

\* A merge that may not be linear, and a linear one that deletes its branch.
TwoBodies == {[strategy |-> "merge", delete |-> FALSE], [strategy |-> "squash", delete |-> TRUE]}

\* One approval, linear history.
OneReview == {[required |-> 1, linear |-> TRUE]}

MCSymmetry == Permutations(Prs) \cup Permutations(Mergers)

\* Crossed stays the same when the two owners change places.
Mirrored == (alice :> bob) @@ (bob :> alice) @@ (ra :> rb) @@ (rb :> ra)

CrossedSymmetry == MCSymmetry \cup {Mirrored}
=============================================================================
