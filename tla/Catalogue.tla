----------------------------- MODULE Catalogue ------------------------------
(***************************************************************************)
(* What a scan promises the readers of the media tables                    *)
(* (media_items, media_item_identity, media_files, media_streams): an item *)
(* appears together with somewhere for identification to land and with the *)
(* file that revealed it; a file's streams change only together with what  *)
(* the same probe said of its container; an item is never taken away and   *)
(* nothing a scan does undoes a decision.  There is no walk, no probe, no  *)
(* transaction and no process here.  Scan.tla is shown to implement it.    *)
(***************************************************************************)

CONSTANTS
  Items,      \* (library, source path)
  Files,      \* absolute paths
  Readings    \* what a probe can have said

VARIABLES
  known,      \* items there are
  identity,   \* [Items -> {"none", "pending", "decided"}]
  owner,      \* [Files -> an item, or NoItem]
  container,  \* [Files -> the reading the row holds, or NoReading]
  streams     \* [Files -> the reading the stream rows hold, or NoReading]

vars == <<known, identity, owner, container, streams>>

NoItem == <<>>
NoReading == 0

Init ==
  /\ known = {}
  /\ identity = [i \in Items |-> "none"]
  /\ owner = [f \in Files |-> NoItem]
  /\ container = [f \in Files |-> NoReading]
  /\ streams = [f \in Files |-> NoReading]

Welcome(i) ==
  /\ known' = known \cup {i}
  /\ identity' = IF identity[i] = "none"
                   THEN [identity EXCEPT ![i] = "pending"] ELSE identity

\* A file was probed: everything the reading says, at once.
Index(f, i, r) ==
  /\ Welcome(i)
  /\ owner' = [owner EXCEPT ![f] = i]
  /\ container' = [container EXCEPT ![f] = r]
  /\ streams' = [streams EXCEPT ![f] = r]

\* A file known already was seen again: its streams are left alone.
Revisit(f, i, r) ==
  /\ owner[f] # NoItem
  /\ Welcome(i)
  /\ owner' = [owner EXCEPT ![f] = i]
  /\ container' = [container EXCEPT ![f] = r]
  /\ UNCHANGED streams

\* Identification settles on something.
Decide(i) ==
  /\ i \in known
  /\ identity' = [identity EXCEPT ![i] = "decided"]
  /\ UNCHANGED <<known, owner, container, streams>>

Next ==
  \/ \E f \in Files, i \in Items, r \in Readings : Index(f, i, r) \/ Revisit(f, i, r)
  \/ \E i \in Items : Decide(i)

Spec == Init /\ [][Next]_vars
=============================================================================
