----------------------------- MODULE MCPlayback -----------------------------
(* Instances of Playback for TLC.  A film of 1000 seconds has its           *)
(* thresholds at 50 and 900; one of 200 seconds is too short to resume.     *)
EXTENDS Playback, TLC

MCPositions == {-1, 0, 49, 50, 900, 901}

Symmetry == Permutations(Playbacks) \cup Permutations(Handlers)
=============================================================================
