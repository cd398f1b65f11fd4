----------------------------- MODULE JobsProofs -----------------------------
(***************************************************************************)
(* Proofs about Jobs, for any libraries, job ids, processes and bounds.    *)
(*                                                                         *)
(* TypeCorrect and ActiveRowsUnique hold whether or not processes overlap. *)
(* Everything about goroutines needs ~Overlap, the hypothesis startup      *)
(* states in a comment and nothing enforces.                               *)
(***************************************************************************)
EXTENDS Jobs, TLAPS

(***************************************************************************)
(* The type invariant: no handler, goroutine step or failed statement      *)
(* takes a variable out of its type.                                       *)
(***************************************************************************)
THEOREM TypeCorrect == Spec => []TypeOK
<1> USE OverlapBoolean, BoundsNat
<1>1. Init => TypeOK
  BY DEF Init, TypeOK, PC, Active, Terminal, Slots
<1>2. TypeOK /\ [Next]_vars => TypeOK'
  <2> SUFFICES ASSUME TypeOK, [Next]_vars PROVE TypeOK'
    OBVIOUS
  <2> USE DEF TypeOK, PC, Active, Terminal, Outcomes, Spend, Applied,
              row, runner, bounds, AfterError, Reaped
  <2>1. ASSUME NEW p \in Processes, Boot(p) PROVE TypeOK'
    BY <2>1 DEF Boot
  <2>2. ASSUME NEW p \in Processes, NEW out \in Outcomes, Reap(p, out) PROVE TypeOK'
    BY <2>2 DEF Reap
  <2>3. ASSUME NEW p \in Processes, Stop(p) PROVE TypeOK'
    BY <2>3 DEF Stop
  <2>4. ASSUME NEW p \in Processes, NEW j \in Jobs, NEW s \in Slots,
               NEW out \in Outcomes, Start(p, j, s, out)
        PROVE TypeOK'
    BY <2>4 DEF Start
  <2>5. ASSUME NEW j \in Jobs, Run(j) PROVE TypeOK'
    <3>1. ASSUME NEW out \in Outcomes, MarkRunning(j, out) PROVE TypeOK'
      BY <3>1 DEF MarkRunning
    <3>2. ASSUME NEW n \in 0..MaxItems, NEW out \in Outcomes, Select(j, n, out)
          PROVE TypeOK'
      BY <3>2 DEF Select, Progress, NoProgress
    <3>3. CASE BodyFails(j)
      BY <3>3 DEF BodyFails
    <3>4. ASSUME NEW due \in BOOLEAN, NEW out \in Outcomes, ScanItem(j, due, out)
          PROVE TypeOK'
      BY <3>4 DEF ScanItem, Progress, NoProgress
    <3>5. ASSUME NEW out \in Outcomes, PassItem(j, out) PROVE TypeOK'
      BY <3>5 DEF PassItem, Progress
    <3>6. ASSUME NEW out \in Outcomes, BodyEnds(j, out) PROVE TypeOK'
      BY <3>6 DEF BodyEnds, Progress, NoProgress, AfterLastProgress
    <3>7. ASSUME NEW out \in Outcomes, Finish(j, out) PROVE TypeOK'
      BY <3>7 DEF Finish
    <3>8. QED
      BY <2>5, <3>1, <3>2, <3>3, <3>4, <3>5, <3>6, <3>7 DEF Run
  <2>6. CASE UNCHANGED vars
    BY <2>6 DEF vars
  <2>7. QED
    BY <2>1, <2>2, <2>3, <2>4, <2>5, <2>6 DEF Next
<1>3. QED
  BY <1>1, <1>2, PTL DEF Spec

------------------------------------------------------------------------------

\* At most one unfinished row per (library, kind): what the index means.
OneActivePerSlot ==
  \A j, k \in Jobs :
    j # k /\ state[j] \in Active /\ state[k] \in Active => slot[j] # slot[k]

\* No step but Start makes a row active or changes a slot.
LEMMA OnlyStartActivates ==
  ASSUME TypeOK, [Next]_vars,
         ~\E p \in Processes, j \in Jobs, s \in Slots, out \in Outcomes : Start(p, j, s, out)
  PROVE  /\ slot' = slot
         /\ \A j \in Jobs : state'[j] \in Active => state[j] \in Active
<1> USE DEF TypeOK, Active, Terminal, row, runner, bounds, AfterError, Reaped
<1>1. CASE \E p \in Processes : Boot(p)
  BY <1>1 DEF Boot
<1>2. CASE \E p \in Processes, out \in Outcomes : Reap(p, out)
  BY <1>2 DEF Reap
<1>3. CASE \E p \in Processes : Stop(p)
  BY <1>3 DEF Stop
<1>4. ASSUME NEW i \in Jobs, Run(i)
      PROVE  /\ slot' = slot
             /\ \A j \in Jobs : state'[j] \in Active => state[j] \in Active
  <2>1. CASE \E out \in Outcomes : MarkRunning(i, out)
    BY <2>1 DEF MarkRunning
  <2>2. CASE \E n \in 0..MaxItems, out \in Outcomes : Select(i, n, out)
    BY <2>2 DEF Select
  <2>3. CASE BodyFails(i)
    BY <2>3 DEF BodyFails
  <2>4. CASE \E due \in BOOLEAN, out \in Outcomes : ScanItem(i, due, out)
    BY <2>4 DEF ScanItem
  <2>5. CASE \E out \in Outcomes : PassItem(i, out)
    BY <2>5 DEF PassItem
  <2>6. CASE \E out \in Outcomes : BodyEnds(i, out)
    BY <2>6 DEF BodyEnds
  <2>7. CASE \E out \in Outcomes : Finish(i, out)
    BY <2>7 DEF Finish
  <2>8. QED
    BY <1>4, <2>1, <2>2, <2>3, <2>4, <2>5, <2>6, <2>7 DEF Run
<1>5. CASE UNCHANGED vars
  BY <1>5 DEF vars
<1>6. QED
  BY <1>1, <1>2, <1>3, <1>4, <1>5 DEF Next

(***************************************************************************)
(* The index keeps unfinished rows of one (library, kind) apart, also      *)
(* while processes overlap and although Finish overwrites any row.         *)
(***************************************************************************)
THEOREM ActiveRowsUnique == Spec => []OneActivePerSlot
<1>1. Init => OneActivePerSlot
  BY DEF Init, OneActivePerSlot, Active
<1>2. TypeOK /\ OneActivePerSlot /\ [Next]_vars => OneActivePerSlot'
  <2> SUFFICES ASSUME TypeOK, OneActivePerSlot, [Next]_vars PROVE OneActivePerSlot'
    OBVIOUS
  <2>1. ASSUME NEW p \in Processes, NEW j \in Jobs, NEW s \in Slots,
               NEW out \in Outcomes, Start(p, j, s, out)
        PROVE OneActivePerSlot'
    BY <2>1 DEF Start, SlotFree, OneActivePerSlot, TypeOK
  <2>2. CASE ~\E p \in Processes, j \in Jobs, s \in Slots, out \in Outcomes :
                Start(p, j, s, out)
    BY <2>2, OnlyStartActivates DEF OneActivePerSlot
  <2>3. QED
    BY <2>1, <2>2
<1>3. QED
  BY <1>1, <1>2, TypeCorrect, PTL DEF Spec
------------------------------------------------------------------------------

\* Where a goroutine is says what its row is: the conditional UPDATE of
\* MarkRunning and the lone Finish keep the two in step.
RunnerMatchesRow ==
  \A j \in Jobs :
    /\ pc[j] = "spawned" => state[j] = "queued"
    /\ pc[j] \in Live \ {"spawned"} => state[j] = "running"

\* A goroutine lives in a process that has reaped and is serving.
RunnerIsHosted == \A j \in Jobs : pc[j] \in Live => phase[host[j]] = "serving"

\* At most one process is up.
OneProcess == \A p, q \in Processes : phase[p] # "down" /\ phase[q] # "down" => p = q

\* The inductive strengthening of the goroutine properties.
RunnerInv == RunnerMatchesRow /\ RunnerIsHosted /\ OneProcess

LEMMA RunnerInvInit == Init => RunnerInv
  BY DEF Init, RunnerInv, RunnerMatchesRow, RunnerIsHosted, OneProcess, Live

LEMMA RunnerInvStep ==
  ASSUME ~Overlap, TypeOK, RunnerInv, [Next]_vars
  PROVE  RunnerInv'
<1> USE DEF RunnerInv, RunnerMatchesRow, RunnerIsHosted, OneProcess, TypeOK, Live,
            row, runner, bounds, AfterError
<1>1. ASSUME NEW p \in Processes, Boot(p) PROVE RunnerInv'
  BY <1>1 DEF Boot
<1>2. ASSUME NEW p \in Processes, NEW out \in Outcomes, Reap(p, out) PROVE RunnerInv'
  <2>1. \A j \in Jobs : pc[j] \notin Live
    BY <1>2 DEF Reap
  <2>2. QED
    BY <1>2, <2>1 DEF Reap
<1>3. ASSUME NEW p \in Processes, Stop(p) PROVE RunnerInv'
  BY <1>3 DEF Stop
<1>4. ASSUME NEW p \in Processes, NEW j \in Jobs, NEW s \in Slots,
             NEW out \in Outcomes, Start(p, j, s, out)
      PROVE RunnerInv'
  BY <1>4 DEF Start, Listening
<1>5. ASSUME NEW j \in Jobs, Run(j) PROVE RunnerInv'
  <2>1. ASSUME NEW out \in Outcomes, MarkRunning(j, out) PROVE RunnerInv'
    BY <2>1 DEF MarkRunning, Applied
  <2>2. ASSUME NEW n \in 0..MaxItems, NEW out \in Outcomes, Select(j, n, out)
        PROVE RunnerInv'
    BY <2>2 DEF Select
  <2>3. CASE BodyFails(j)
    BY <2>3 DEF BodyFails
  <2>4. ASSUME NEW due \in BOOLEAN, NEW out \in Outcomes, ScanItem(j, due, out)
        PROVE RunnerInv'
    BY <2>4 DEF ScanItem
  <2>5. ASSUME NEW out \in Outcomes, PassItem(j, out) PROVE RunnerInv'
    BY <2>5 DEF PassItem
  <2>6. ASSUME NEW out \in Outcomes, BodyEnds(j, out) PROVE RunnerInv'
    BY <2>6 DEF BodyEnds, AfterLastProgress
  <2>7. ASSUME NEW out \in Outcomes, Finish(j, out) PROVE RunnerInv'
    BY <2>7 DEF Finish
  <2>8. QED
    BY <1>5, <2>1, <2>2, <2>3, <2>4, <2>5, <2>6, <2>7 DEF Run
<1>6. CASE UNCHANGED vars
  BY <1>6 DEF vars
<1>7. QED
  BY <1>1, <1>2, <1>3, <1>4, <1>5, <1>6 DEF Next

LEMMA RunnerInvariant ==
  ASSUME ~Overlap
  PROVE  Spec => []RunnerInv
<1>1. TypeOK /\ RunnerInv /\ [Next]_vars => RunnerInv'
  BY RunnerInvStep
<1>2. QED
  BY <1>1, RunnerInvInit, TypeCorrect, PTL DEF Spec

(***************************************************************************)
(* If processes do not overlap, no two goroutines ever work on the same    *)
(* library for the same kind of job.                                       *)
(***************************************************************************)
THEOREM RunnersExclude ==
  ASSUME ~Overlap
  PROVE  Spec => []OneRunnerPerSlot
<1>1. RunnerInv /\ OneActivePerSlot => OneRunnerPerSlot
  BY DEF RunnerInv, RunnerMatchesRow, OneActivePerSlot, OneRunnerPerSlot, Live, Active
<1>2. QED
  BY <1>1, RunnerInvariant, ActiveRowsUnique, PTL

(***************************************************************************)
(* If processes do not overlap, the startup reap fails only rows that no   *)
(* goroutine is working for.                                               *)
(***************************************************************************)
THEOREM ReapIsSafe ==
  ASSUME ~Overlap
  PROVE  Spec => []ReapFindsOnlyOrphans
<1>1. TypeOK /\ RunnerInv => ReapFindsOnlyOrphans
  BY DEF RunnerInv, RunnerIsHosted, OneProcess, ReapFindsOnlyOrphans, TypeOK
<1>2. QED
  BY <1>1, RunnerInvariant, TypeCorrect, PTL

------------------------------------------------------------------------------

\* Every step is a step of the board or leaves it alone.
LEMMA StepMapsToBoard ==
  ASSUME TypeOK, RunnerInv, [Next]_vars
  PROVE  [Board!Next]_(Board!vars)
<1> USE DEF Board!Next, Board!vars, TypeOK, row, runner, bounds
<1>1. ASSUME NEW p \in Processes, Boot(p) PROVE UNCHANGED Board!vars
  BY <1>1 DEF Boot
<1>2. ASSUME NEW p \in Processes, NEW out \in Outcomes, Reap(p, out)
      PROVE  [Board!Next]_(Board!vars)
  <2>1. CASE ~Applied(out)
    BY <1>2, <2>1 DEF Reap
  <2>2. CASE Applied(out)
    <3> DEFINE J == {j \in Jobs : state[j] \in Active}
               outcome == [j \in J |-> "failed"]
    <3>1. outcome \in [J -> Board!Terminal]
      BY DEF Board!Terminal
    <3>2. state' = [j \in Jobs |-> IF j \in J THEN outcome[j] ELSE state[j]]
      BY <1>2, <2>2 DEF Reap, Orphaned, Reaped
    <3>3. \E o \in [J -> Board!Terminal] :
            state' = [j \in Jobs |-> IF j \in J THEN o[j] ELSE state[j]]
      BY <3>1, <3>2
    <3>4. (\A j \in J : state[j] \in Board!Active) /\ UNCHANGED slot
      BY <1>2 DEF Reap, Board!Active, Active
    <3>5. J \in SUBSET Jobs /\ Board!Settle(J)
      BY <3>3, <3>4 DEF Board!Settle
    <3>6. QED
      BY <3>5
  <2>3. QED
    BY <2>1, <2>2
<1>3. ASSUME NEW p \in Processes, Stop(p) PROVE UNCHANGED Board!vars
  BY <1>3 DEF Stop
<1>4. ASSUME NEW p \in Processes, NEW j \in Jobs, NEW s \in Slots,
             NEW out \in Outcomes, Start(p, j, s, out)
      PROVE  Board!Accept(j, s)
  BY <1>4 DEF Start, SlotFree, Board!Accept, Board!Occupied, Board!Active, Active
<1>5. ASSUME NEW j \in Jobs, Run(j) PROVE [Board!Next]_(Board!vars)
  <2>1. ASSUME NEW out \in Outcomes, MarkRunning(j, out)
        PROVE  Board!Begin(j) \/ UNCHANGED Board!vars
    BY <2>1 DEF MarkRunning, Board!Begin
  <2>2. ASSUME NEW n \in 0..MaxItems, NEW out \in Outcomes, Select(j, n, out)
        PROVE  UNCHANGED Board!vars
    BY <2>2 DEF Select
  <2>3. CASE BodyFails(j)
    BY <2>3 DEF BodyFails
  <2>4. ASSUME NEW due \in BOOLEAN, NEW out \in Outcomes, ScanItem(j, due, out)
        PROVE  UNCHANGED Board!vars
    BY <2>4 DEF ScanItem
  <2>5. ASSUME NEW out \in Outcomes, PassItem(j, out) PROVE UNCHANGED Board!vars
    BY <2>5 DEF PassItem
  <2>6. ASSUME NEW out \in Outcomes, BodyEnds(j, out) PROVE UNCHANGED Board!vars
    BY <2>6 DEF BodyEnds
  <2>7. ASSUME NEW out \in Outcomes, Finish(j, out) PROVE [Board!Next]_(Board!vars)
    <3> DEFINE result == IF pc[j] = "succeeded" THEN "completed" ELSE "failed"
               outcome == [k \in {j} |-> result]
    <3>1. state[j] = "running"
      BY <2>7 DEF Finish, RunnerInv, RunnerMatchesRow, Live
    <3>2. outcome \in [{j} -> Board!Terminal]
      BY DEF Board!Terminal
    <3>3. CASE ~Applied(out)
      BY <2>7, <3>3 DEF Finish
    <3>4. CASE Applied(out)
      <4>1. state' = [k \in Jobs |-> IF k \in {j} THEN outcome[k] ELSE state[k]]
        BY <2>7, <3>4 DEF Finish
      <4>2. \E o \in [{j} -> Board!Terminal] :
              state' = [k \in Jobs |-> IF k \in {j} THEN o[k] ELSE state[k]]
        BY <3>2, <4>1
      <4>3. Board!Settle({j})
        BY <2>7, <3>1, <4>2 DEF Finish, Board!Settle, Board!Active
      <4>4. QED
        BY <4>3
    <3>5. QED
      BY <3>3, <3>4
  <2>8. QED
    BY <1>5, <2>1, <2>2, <2>3, <2>4, <2>5, <2>6, <2>7 DEF Run
<1>6. CASE UNCHANGED vars
  BY <1>6 DEF vars
<1>7. QED
  BY <1>1, <1>2, <1>3, <1>4, <1>5, <1>6 DEF Next

(***************************************************************************)
(* If processes do not overlap, the jobs machinery implements the board:   *)
(* crashes, reaps, lost answers and the unguarded Finish included.         *)
(***************************************************************************)
THEOREM JobsImplementBoard ==
  ASSUME ~Overlap
  PROVE  Spec => ImplementsBoard
<1>1. Init => Board!Init
  BY DEF Init, Board!Init
<1>2. TypeOK /\ RunnerInv /\ [Next]_vars => [Board!Next]_(Board!vars)
  BY StepMapsToBoard
<1>3. QED
  BY <1>1, <1>2, RunnerInvariant, TypeCorrect, PTL DEF Spec, ImplementsBoard, Board!Spec

(***************************************************************************)
(* If processes do not overlap, a recorded outcome is never replaced,      *)
(* although Finish does not look at the row it overwrites.                 *)
(***************************************************************************)
THEOREM OutcomesAreFinal ==
  ASSUME ~Overlap
  PROVE  Spec => OutcomeIsFinal
<1> DEFINE Kept == \A j \in Jobs : state[j] \in Terminal => state'[j] = state[j]
<1>1. TypeOK /\ RunnerInv /\ [Next]_vars => [Kept]_vars
  <2> SUFFICES ASSUME TypeOK, RunnerInv, [Next]_vars PROVE Kept
    OBVIOUS
  <2>1. [Board!Next]_(Board!vars)
    BY StepMapsToBoard
  <2>2. ASSUME NEW j \in Jobs, NEW s \in Slots, Board!Accept(j, s) PROVE Kept
    BY <2>2 DEF Board!Accept, TypeOK, Terminal
  <2>3. ASSUME NEW j \in Jobs, Board!Begin(j) PROVE Kept
    BY <2>3 DEF Board!Begin, TypeOK, Terminal
  <2>4. ASSUME NEW J \in SUBSET Jobs, Board!Settle(J) PROVE Kept
    BY <2>4 DEF Board!Settle, Board!Active, TypeOK, Terminal
  <2>5. CASE UNCHANGED Board!vars
    BY <2>5 DEF Board!vars
  <2>6. QED
    BY <2>1, <2>2, <2>3, <2>4, <2>5 DEF Board!Next
<1>2. QED
  BY <1>1, RunnerInvariant, TypeCorrect, PTL DEF Spec, OutcomeIsFinal

------------------------------------------------------------------------------

\* A scan whose body has succeeded has its last progress written.
SucceededScanIsCounted ==
  \A j \in Jobs : IsScan(j) /\ pc[j] = "succeeded" => current[j] = total[j]

CountedInv == SucceededScanIsCounted /\ CompletedScanIsComplete


\* Progress is written by a goroutine whose row is running, and only its last
\* write leaves it succeeded.
LEMMA CountedInvStep ==
  ASSUME TypeOK, RunnerInv, CountedInv, [Next]_vars
  PROVE  CountedInv'
<1> USE DEF CountedInv, SucceededScanIsCounted, CompletedScanIsComplete, TypeOK,
            row, runner, bounds, AfterError
<1>1. ASSUME NEW p \in Processes, Boot(p) PROVE CountedInv'
  BY <1>1 DEF Boot, IsScan
<1>2. ASSUME NEW p \in Processes, NEW out \in Outcomes, Reap(p, out) PROVE CountedInv'
  BY <1>2 DEF Reap, Reaped, IsScan
<1>3. ASSUME NEW p \in Processes, Stop(p) PROVE CountedInv'
  BY <1>3 DEF Stop, IsScan
<1>4. ASSUME NEW p \in Processes, NEW j \in Jobs, NEW s \in Slots,
             NEW out \in Outcomes, Start(p, j, s, out)
      PROVE CountedInv'
  BY <1>4 DEF Start, IsScan
<1>5. ASSUME NEW j \in Jobs, Run(j) PROVE CountedInv'
  <2>0. pc[j] \in Live \ {"spawned"} => state[j] = "running"
    BY DEF RunnerInv, RunnerMatchesRow
  <2>1. ASSUME NEW out \in Outcomes, MarkRunning(j, out) PROVE CountedInv'
    BY <2>1 DEF MarkRunning, IsScan
  <2>2. ASSUME NEW n \in 0..MaxItems, NEW out \in Outcomes, Select(j, n, out)
        PROVE CountedInv'
    BY <2>0, <2>2 DEF Select, Progress, NoProgress, IsScan, Live
  <2>3. CASE BodyFails(j)
    BY <2>3 DEF BodyFails, IsScan
  <2>4. ASSUME NEW due \in BOOLEAN, NEW out \in Outcomes, ScanItem(j, due, out)
        PROVE CountedInv'
    BY <2>0, <2>4 DEF ScanItem, Progress, NoProgress, IsScan, Live
  <2>5. ASSUME NEW out \in Outcomes, PassItem(j, out) PROVE CountedInv'
    BY <2>0, <2>5 DEF PassItem, Progress, IsScan, Live
  <2>6. ASSUME NEW out \in Outcomes, BodyEnds(j, out) PROVE CountedInv'
    BY <2>0, <2>6 DEF BodyEnds, Progress, NoProgress, AfterLastProgress, Applied, IsScan, Live
  <2>7. ASSUME NEW out \in Outcomes, Finish(j, out) PROVE CountedInv'
    BY <2>7 DEF Finish, IsScan
  <2>8. QED
    BY <1>5, <2>1, <2>2, <2>3, <2>4, <2>5, <2>6, <2>7 DEF Run
<1>6. CASE UNCHANGED vars
  BY <1>6 DEF vars, IsScan
<1>7. QED
  BY <1>1, <1>2, <1>3, <1>4, <1>5, <1>6 DEF Next

(***************************************************************************)
(* If processes do not overlap, a scan that is reported completed reports  *)
(* every discovered file as processed: its goroutine succeeds only once    *)
(* the final count is in a row that was still running.                     *)
(***************************************************************************)
THEOREM ScansAddUp ==
  ASSUME ~Overlap
  PROVE  Spec => []CompletedScanIsComplete
<1>1. Init => CountedInv
  BY DEF Init, CountedInv, SucceededScanIsCounted, CompletedScanIsComplete
<1>2. TypeOK /\ RunnerInv /\ CountedInv /\ [Next]_vars => CountedInv'
  BY CountedInvStep
<1>3. CountedInv => CompletedScanIsComplete
  BY DEF CountedInv
<1>4. QED
  BY <1>1, <1>2, <1>3, RunnerInvariant, TypeCorrect, PTL DEF Spec
=============================================================================
