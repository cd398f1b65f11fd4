------------------------------ MODULE JobBoard ------------------------------
(***************************************************************************)
(* What the jobs table promises an operator, with no goroutine, process or *)
(* failing statement in it: a job is accepted for a (library, kind) slot   *)
(* that nothing occupies, it begins at most once, it settles once, and a   *)
(* settled job keeps its outcome.  Jobs.tla is shown to implement it.      *)
(***************************************************************************)

CONSTANTS
  Jobs,   \* job ids
  Slots   \* what at most one job may occupy at a time: (library, kind)

VARIABLES
  state,  \* [Jobs -> the state column, or "absent"]
  slot    \* [Jobs -> Slots], meaningful once a job is accepted

vars == <<state, slot>>

Active   == {"queued", "running"}
Terminal == {"completed", "failed"}

\* The slots some unfinished job occupies.
Occupied == {slot[j] : j \in {k \in Jobs : state[k] \in Active}}

Init ==
  /\ state = [j \in Jobs |-> "absent"]
  /\ slot \in [Jobs -> Slots]

Accept(j, s) ==
  /\ state[j] = "absent"
  /\ s \notin Occupied
  /\ state' = [state EXCEPT ![j] = "queued"]
  /\ slot' = [slot EXCEPT ![j] = s]

Begin(j) ==
  /\ state[j] = "queued"
  /\ state' = [state EXCEPT ![j] = "running"]
  /\ UNCHANGED slot

\* Some unfinished jobs get their outcome: one when its work ends, every one
\* of them when a process starts up and finds them left behind.
Settle(J) ==
  /\ \A j \in J : state[j] \in Active
  /\ \E outcome \in [J -> Terminal] :
       state' = [j \in Jobs |-> IF j \in J THEN outcome[j] ELSE state[j]]
  /\ UNCHANGED slot

Next ==
  \/ \E j \in Jobs, s \in Slots : Accept(j, s)
  \/ \E j \in Jobs : Begin(j)
  \/ \E J \in SUBSET Jobs : Settle(J)

Spec == Init /\ [][Next]_vars
=============================================================================
