------------------------------ MODULE MirrorMC ------------------------------
(* Instances of Mirror for TLC. *)
EXTENDS Mirror, TLC

CONSTANTS r1, h1, h2, w1, i1, i2, i3

Pull(interval) == [direction |-> "pull", interval |-> interval, autoPush |-> FALSE]
Push(interval) == [direction |-> "push", interval |-> interval, autoPush |-> TRUE]

PushAndPull == {Push(1), Pull(0)}

LongPushAndPull == {Push(5), Pull(0)}

HandlerSymmetry == Permutations(Handlers)

=============================================================================
