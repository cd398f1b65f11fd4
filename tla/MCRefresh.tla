----------------------------- MODULE MCRefresh -----------------------------
(* Instances of Refresh for TLC: item 3 is in a library of its own, and     *)
(* version 3 of an image comes in another format.                          *)
EXTENDS Refresh, TLC

CONSTANTS films, shorts

TwoLibraries == [i \in Items |-> IF i = 3 THEN shorts ELSE films]
Formats == [v \in Versions |-> IF v = 3 THEN "png" ELSE "jpg"]
=============================================================================
