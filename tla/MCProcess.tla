----------------------------- MODULE MCProcess -----------------------------
(* Values of the constants for the run of Process: a release, the next     *)
(* one, and one in which the first migration was edited.                   *)
EXTENDS Process

M(v, s) == [version |-> v, sum |-> s]

CONSTANTS p1, p2

Old    == <<M(1, "a")>>
New    == <<M(1, "a"), M(2, "b")>>
Edited == <<M(1, "x"), M(2, "b")>>

MCFleets == { (p1 :> Old @@ p2 :> New), (p1 :> New @@ p2 :> New), (p1 :> Old @@ p2 :> Edited) }
=============================================================================
