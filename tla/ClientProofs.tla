---------------------------- MODULE ClientProofs ----------------------------
(***************************************************************************)
(* Proofs about what a client is promised: Playback, the row its reports   *)
(* write, for any playbacks, handlers, positions, runtimes and bounds; and *)
(* Browse, the lists and answers it reads, for any films, requests,        *)
(* profiles, probes and bounds.                                            *)
(***************************************************************************)
EXTENDS Playback, Browse, FiniteSetTheorems, SequenceTheorems, TLAPS

\* Evaluate is exact about the thresholds, whatever integers it is given: a
\* resume position is the position reported, and nothing is both to be resumed
\* and complete.
THEOREM EvaluateSound ==
  ASSUME NEW position \in Int, NEW length \in Nat
  PROVE  /\ Evaluate(position, length) \in [resume : Nat, completed : BOOLEAN]
         /\ Evaluate(position, length).resume \in {0, position}
         /\ Evaluate(position, length).resume > 0 =>
              /\ ~Evaluate(position, length).completed
              /\ length >= 300
              /\ 100 * position >= 5 * length /\ 100 * position <= 90 * length
         /\ length = 0 \/ position <= 0 => Evaluate(position, length) = Evaluate(0, 0)
<1> DEFINE e == Evaluate(position, length)
<1>1. e = [resume    |-> IF Resumable(position, length) THEN position ELSE 0,
           completed |-> Finished(position, length)]
  BY DEF Evaluate
<1>2. Finished(position, length) \in BOOLEAN
  BY DEF Finished, Judgeable
<1>3. Resumable(position, length) =>
        /\ ~Finished(position, length)
        /\ position > 0 /\ length >= 300
        /\ 100 * position >= 5 * length /\ 100 * position <= 90 * length
  BY DEF Resumable, Finished, Judgeable
<1>4. e.resume \in Nat /\ e.resume \in {0, position} /\ e.completed \in BOOLEAN
  BY <1>1, <1>2, <1>3
<1>5. e \in [resume : Nat, completed : BOOLEAN]
  BY <1>1, <1>4
<1>6. e.resume > 0 =>
        /\ ~e.completed
        /\ length >= 300
        /\ 100 * position >= 5 * length /\ 100 * position <= 90 * length
  BY <1>1, <1>3
<1>7. ASSUME length = 0 \/ position <= 0 PROVE e = Evaluate(0, 0)
  BY <1>7 DEF Evaluate, Resumable, Finished, Judgeable
<1>8. QED
  BY <1>4, <1>5, <1>6, <1>7

LEMMA ReportedIsInt ==
  ASSUME TypeOK, NEW h \in Handlers
  PROVE  report[h].position \in Int /\ runtime \in Nat
<1>1. report[h] \in [stopped : BOOLEAN, position : Positions \cup {0}] /\ runtime \in Runtimes
  BY DEF TypeOK
<1>2. report[h].position \in Positions \cup {0}
  BY <1>1
<1>3. QED
  <2>1. report[h].position \in Int
    <3>1. CASE report[h].position \in Positions
      BY <3>1, PositionsInt, Zenon
    <3>2. CASE report[h].position = 0
      BY <3>2
    <3>3. QED
      BY <1>2, <3>1, <3>2
  <2>2. runtime \in Nat
    BY <1>1, RuntimesNat
  <2>3. QED
    BY <2>1, <2>2

(***************************************************************************)
(* The type invariant, which includes the CHECKs of the table: no report   *)
(* makes a position or a count negative.                                   *)
(***************************************************************************)
THEOREM TypeCorrect == Spec => []TypeOK
<1> USE PositionsInt, RuntimesNat, Limits
<1>1. Init => TypeOK
  BY DEF Init, TypeOK, NoRow, NoReport, Row, Evaluate, Resumable, Finished, Judgeable
<1>2. TypeOK /\ [Next]_vars => TypeOK'
  <2> SUFFICES ASSUME TypeOK, [Next]_vars PROVE TypeOK'
    OBVIOUS
  <2> USE DEF TypeOK, counters, clients, handlers, times, history
  <2>1. ASSUME NEW p \in Playbacks, Started(p) \/ FailedStop(p) PROVE TypeOK'
    BY <2>1 DEF Started, FailedStop
  <2>2. ASSUME NEW h \in Handlers, NEW p \in Playbacks, NEW position \in Positions,
               Progress(h, p, position)
        PROVE TypeOK'
    BY <2>2 DEF Progress, Send
  <2>3. ASSUME NEW h \in Handlers, NEW p \in Playbacks, NEW position \in Positions,
               Stopped(h, p, position)
        PROVE TypeOK'
    BY <2>3 DEF Stopped, Send
  <2>4. ASSUME NEW h \in Handlers, NEW p \in Playbacks, StoppedAgain(h, p) PROVE TypeOK'
    BY <2>4 DEF StoppedAgain, Send
  <2>5. ASSUME NEW h \in Handlers, ReadRuntime(h) PROVE TypeOK'
    <3>1. report[h].position \in Int /\ runtime \in Nat
      BY ReportedIsInt
    <3>2. Evaluate(report[h].position, runtime) \in [resume : Nat, completed : BOOLEAN]
      BY <3>1, EvaluateSound
    <3>3. clock' \in Nat /\ dated' \in [Handlers -> Nat]
      BY <2>5 DEF ReadRuntime
    <3>4. QED
      BY <2>5, <3>2, <3>3 DEF ReadRuntime
  <2>6. ASSUME NEW h \in Handlers, Report(h) PROVE TypeOK'
    <3>1. report[h].position \in Nat /\ PlayCount(h) \in Nat /\ dated[h] \in Nat
      BY <2>6, ReportedIsInt DEF Report, Storable, PlayCount
    <3>2. \A r \in Row : Upserted(r, h) \in Row
      BY <3>1 DEF Upserted, Row, PlayedAfter
    <3>3. QED
      BY <2>6, <3>2 DEF Report
  <2>7. ASSUME NEW h \in Handlers, ReportRefused(h) \/ Abort(h) PROVE TypeOK'
    <3>1. phase' \in [Handlers -> {"idle", "read", "write"}] /\ aborts' \in Nat
      BY <2>7 DEF ReportRefused, Abort
    <3>2. final' = final \/ final' = {}
      BY <2>7 DEF ReportRefused, Abort
    <3>3. UNCHANGED <<runtime, row, clients, report, judged, dated, clock, shadow, ticks, retries, probes>>
      BY <2>7 DEF ReportRefused, Abort
    <3>4. QED
      BY <3>1, <3>2, <3>3
  <2>8. ASSUME NEW length \in Runtimes, Probe(length) PROVE TypeOK'
    BY <2>8 DEF Probe
  <2>9. CASE UNCHANGED vars
    BY <2>9 DEF vars
  <2>10. QED
    BY <2>1, <2>2, <2>3, <2>4, <2>5, <2>6, <2>7, <2>8, <2>9 DEF Next
<1>3. QED
  BY <1>1, <1>2, PTL DEF Spec

------------------------------------------------------------------------------

\* What the write of a report does to the row, or leaves there that it would
\* have done: all but the date.
LEMMA WriteOfReport ==
  ASSUME TypeOK, NEW h \in Handlers, Report(h)
  PROVE  /\ row'.exists = TRUE
         /\ row'.position = judged[h].resume
         /\ row'.raw = report[h].position
         /\ row'.played = PlayedAfter(row, h)
         /\ row'.count = row.count + PlayCount(h)
         /\ PlayCount(h) \in Nat
         /\ PlayCount(h) > 0 => judged[h].completed
<1>1. PlayCount(h) \in {0, 1} /\ (PlayCount(h) = 1 => judged[h].completed)
  BY DEF PlayCount
<1>2. CASE row.exists /\ ~Changes(row, h)
  <2>1. /\ row.exists = TRUE /\ row.raw = report[h].position
        /\ row.position = judged[h].resume /\ PlayCount(h) = 0
        /\ ~judged[h].completed \/ row.played
    BY <1>2 DEF Changes, TypeOK, Row
  <2>2. PlayedAfter(row, h) = row.played /\ row.count + PlayCount(h) = row.count
    BY <2>1 DEF PlayedAfter, TypeOK, Row
  <2>3. row' = row
    BY <1>2 DEF Report
  <2>4. QED
    BY <1>1, <2>1, <2>2, <2>3
<1>3. CASE ~(row.exists /\ ~Changes(row, h))
  BY <1>1, <1>3 DEF Report, Upserted
<1>4. QED
  BY <1>2, <1>3

(***************************************************************************)
(* The WHERE clause of Report suppresses only writes that lose nothing but *)
(* a date: of what the statement sets it compares all the rest, against    *)
(* the row as it is when it is written, whatever was read or written since *)
(* the report was judged.                                                  *)
(***************************************************************************)
THEOREM SuppressionIsSound == Spec => []SuppressionCostsOnlyDates
<1>1. Init => SuppressionCostsOnlyDates
  BY DEF Init, SuppressionCostsOnlyDates
<1>2. TypeOK /\ SuppressionCostsOnlyDates /\ [Next]_vars => SuppressionCostsOnlyDates'
  <2> SUFFICES ASSUME TypeOK, SuppressionCostsOnlyDates, [Next]_vars
               PROVE  SuppressionCostsOnlyDates'
    OBVIOUS
  <2>1. ASSUME NEW h \in Handlers, Report(h) PROVE SuppressionCostsOnlyDates'
    <3>1. shadow' = Upserted(shadow, h)
      BY <2>1 DEF Report
    <3>2. row.played = shadow.played /\ row.count = shadow.count
      BY DEF SuppressionCostsOnlyDates, AllButDate
    <3>3. PlayedAfter(row, h) = PlayedAfter(shadow, h)
      BY <3>2 DEF PlayedAfter
    <3>4. /\ shadow'.exists = TRUE /\ shadow'.position = judged[h].resume
          /\ shadow'.raw = report[h].position /\ shadow'.played = PlayedAfter(row, h)
          /\ shadow'.count = row.count + PlayCount(h)
      BY <3>1, <3>2, <3>3 DEF Upserted
    <3>5. QED
      BY <2>1, <3>4, WriteOfReport DEF SuppressionCostsOnlyDates, AllButDate
  <2>2. ASSUME UNCHANGED <<row, shadow>> PROVE SuppressionCostsOnlyDates'
    BY <2>2 DEF SuppressionCostsOnlyDates, AllButDate
  <2>3. QED
    BY <2>1, <2>2
    DEF Next, Started, Progress, Stopped, StoppedAgain, FailedStop, ReadRuntime,
        ReportRefused, Abort, Probe, history, vars
<1>3. QED
  BY <1>1, <1>2, TypeCorrect, PTL DEF Spec

------------------------------------------------------------------------------

\* What a handler judged is about the report it handles.
JudgedIsReported ==
  \A h \in Handlers : phase[h] = "write" => judged[h].resume \in {0, report[h].position}

(***************************************************************************)
(* A counted viewing is a watched item and the resume position is none or  *)
(* the last one reported: however two devices interleave, the row is never *)
(* a mixture of their reports.                                             *)
(***************************************************************************)
THEOREM RowIsCoherent == Spec => []RowCoherent
<1> DEFINE IInv == RowCoherent /\ JudgedIsReported
<1> USE PositionsInt, RuntimesNat
<1>1. Init => IInv
  BY DEF Init, RowCoherent, JudgedIsReported, NoRow
<1>2. TypeOK /\ IInv /\ [Next]_vars => IInv'
  <2> SUFFICES ASSUME TypeOK, IInv, [Next]_vars PROVE IInv'
    OBVIOUS
  <2> USE DEF TypeOK, RowCoherent, JudgedIsReported, handlers, clients, counters
  <2>1. ASSUME NEW h \in Handlers, NEW p \in Playbacks, NEW position \in Positions,
               Progress(h, p, position) \/ Stopped(h, p, position)
        PROVE IInv'
    BY <2>1 DEF Progress, Stopped, Send
  <2>2. ASSUME NEW h \in Handlers, NEW p \in Playbacks, StoppedAgain(h, p) PROVE IInv'
    BY <2>2 DEF StoppedAgain, Send
  <2>3. ASSUME NEW h \in Handlers, ReadRuntime(h) PROVE IInv'
    <3>1. report[h].position \in Int /\ runtime \in Nat
      BY ReportedIsInt
    <3>2. Evaluate(report[h].position, runtime).resume \in {0, report[h].position}
      BY <3>1, EvaluateSound
    <3>3. QED
      BY <2>3, <3>2 DEF ReadRuntime
  <2>4. ASSUME NEW h \in Handlers, Report(h) PROVE IInv'
    <3>1. JudgedIsReported'
      BY <2>4 DEF Report
    <3>2. row'.position = judged[h].resume /\ row'.raw = report[h].position
      BY <2>4, WriteOfReport
    <3>3. row'.count = row.count + PlayCount(h) /\ row'.played = PlayedAfter(row, h)
      BY <2>4, WriteOfReport
    <3>4. row'.position \in {0, row'.raw}
      BY <2>4, <3>2 DEF Report
    <3>5. row'.count > 0 => row.count > 0 \/ PlayCount(h) > 0
      <4>1. row.count \in Nat /\ PlayCount(h) \in Nat
        BY <2>4, WriteOfReport DEF Row
      <4>2. row'.count > 0 => row.count + PlayCount(h) > 0
        BY <3>3
      <4> HIDE DEF TypeOK, RowCoherent, JudgedIsReported
      <4>3. QED
        BY <4>1, <4>2
    <3>6. row'.count > 0 => row'.played
      BY <2>4, <3>3, <3>5, WriteOfReport DEF PlayedAfter
    <3>7. QED
      BY <3>1, <3>4, <3>6
  <2>5. ASSUME NEW h \in Handlers, ReportRefused(h) \/ Abort(h) PROVE IInv'
    BY <2>5 DEF ReportRefused, Abort
  <2>6. ASSUME UNCHANGED <<row, phase, report, judged>> PROVE IInv'
    BY <2>6
  <2>7. QED
    BY <2>1, <2>2, <2>3, <2>4, <2>5, <2>6 DEF Next, Started, FailedStop, Probe, vars
<1>3. QED
  BY <1>1, <1>2, TypeCorrect, PTL DEF Spec

(***************************************************************************)
(* Nothing un-marks a watched item or forgets a viewing, whatever a later  *)
(* report says.                                                            *)
(***************************************************************************)
THEOREM PlayedIsSticky == Spec => PlayedSticky
<1>1. TypeOK /\ [Next]_vars => (row.played => row'.played) /\ row.count <= row'.count
  <2> SUFFICES ASSUME TypeOK, [Next]_vars
               PROVE  (row.played => row'.played) /\ row.count <= row'.count
    OBVIOUS
  <2>1. ASSUME NEW h \in Handlers, Report(h)
        PROVE  (row.played => row'.played) /\ row.count <= row'.count
    <3>1. row'.count = row.count + PlayCount(h) /\ row'.played = PlayedAfter(row, h)
      BY <2>1, WriteOfReport
    <3>2. PlayCount(h) \in Nat /\ row.count \in Nat
      BY <2>1, WriteOfReport DEF TypeOK, Row
    <3>3. row.count <= row'.count
      BY <3>1, <3>2
    <3>4. row.played => row'.played
      BY <3>1 DEF PlayedAfter
    <3>5. QED
      BY <3>3, <3>4
  <2>2. ASSUME UNCHANGED row
        PROVE  (row.played => row'.played) /\ row.count <= row'.count
    BY <2>2 DEF TypeOK, Row
  <2>3. QED
    BY <2>1, <2>2
    DEF Next, Started, Progress, Stopped, StoppedAgain, FailedStop, ReadRuntime,
        ReportRefused, Abort, Probe, vars
<1>2. QED
  BY <1>1, TypeCorrect, PTL DEF Spec, PlayedSticky

------------------------------------------------------------------------------

\* What a handler judged holds of the runtime while that stands.
JudgedIsCurrent ==
  probes = 0 => \A h \in Handlers : phase[h] = "write" =>
    (judged[h].resume > 0 => Resumable(judged[h].resume, runtime))

\* The stored position is one Evaluate would resume at.
ResumeJudged ==
  probes = 0 /\ row.position > 0 => Resumable(row.position, runtime)

(***************************************************************************)
(* Until a scan changes the runtime, the resume position stored lies       *)
(* between the thresholds, whoever reported it and in whatever order.      *)
(***************************************************************************)
THEOREM ResumeIsResumable == Spec => []ResumeWithinThresholds
<1> DEFINE IInv == ResumeJudged /\ JudgedIsCurrent
<1>1. Init => IInv
  BY DEF Init, ResumeJudged, JudgedIsCurrent, NoRow
<1>2. TypeOK /\ IInv /\ [Next]_vars => IInv'
  <2> SUFFICES ASSUME TypeOK, IInv, [Next]_vars PROVE IInv'
    OBVIOUS
  <2> USE DEF TypeOK, ResumeJudged, JudgedIsCurrent, handlers, clients, counters
  <2>1. ASSUME NEW h \in Handlers, NEW p \in Playbacks, NEW position \in Positions,
               Progress(h, p, position) \/ Stopped(h, p, position)
        PROVE IInv'
    BY <2>1 DEF Progress, Stopped, Send
  <2>2. ASSUME NEW h \in Handlers, NEW p \in Playbacks, StoppedAgain(h, p) PROVE IInv'
    BY <2>2 DEF StoppedAgain, Send
  <2>3. ASSUME NEW h \in Handlers, ReadRuntime(h) PROVE IInv'
    <3>1. judged'[h] = Evaluate(report[h].position, runtime) /\ runtime' = runtime
      BY <2>3 DEF ReadRuntime
    <3>2. judged'[h].resume > 0 => Resumable(judged'[h].resume, runtime)
      BY <3>1 DEF Evaluate
    <3>3. QED
      BY <2>3, <3>1, <3>2 DEF ReadRuntime
  <2>4. ASSUME NEW h \in Handlers, Report(h) PROVE IInv'
    <3>1. row'.position = judged[h].resume
      BY <2>4, WriteOfReport
    <3>2. QED
      BY <2>4, <3>1 DEF Report
  <2>5. ASSUME NEW h \in Handlers, ReportRefused(h) \/ Abort(h) PROVE IInv'
    BY <2>5 DEF ReportRefused, Abort
  <2>6. ASSUME NEW length \in Runtimes, Probe(length) PROVE IInv'
    BY <2>6 DEF Probe
  <2>7. ASSUME UNCHANGED <<runtime, row, phase, report, judged, probes>> PROVE IInv'
    BY <2>7
  <2>8. QED
    BY <2>1, <2>2, <2>3, <2>4, <2>5, <2>6, <2>7 DEF Next, Started, FailedStop, vars
<1>3. TypeOK /\ IInv => ResumeWithinThresholds
  BY RuntimesNat DEF TypeOK, ResumeJudged, ResumeWithinThresholds, Row, Resumable, Finished,
                     Judgeable
<1>4. QED
  BY <1>1, <1>2, <1>3, TypeCorrect, PTL DEF Spec

------------------------------------------------------------------------------

\* The row holds what the stop at s says of the file.
Stored(s) ==
  s >= 0 =>
    /\ row.raw = s
    /\ probes = 0 => row.position = Evaluate(s, runtime).resume

\* The stop at s is the only report in flight, in the hands of h.
InHand(s, h) ==
  /\ phase[h] # "idle"
  /\ \A k \in Handlers : k # h => phase[k] = "idle"
  /\ report[h].position = s
  /\ phase[h] = "write" /\ probes = 0 => judged[h] = Evaluate(s, runtime)

\* A stop that decides is stored, or on its way with nothing beside it.
StopHeard ==
  \A s \in final : \/ Quiet /\ Stored(s)
                   \/ \E h \in Handlers : InHand(s, h)

\* A report just sent, to which no stop but itself is a stop that decides.
LEMMA SentAlone ==
  ASSUME TypeOK, NEW h \in Handlers, NEW position, NEW stopped \in BOOLEAN,
         Send(h, position, stopped)
  PROVE  StopHeard'
<1> SUFFICES ASSUME NEW s \in final' PROVE InHand(s, h)'
  BY DEF StopHeard
<1>1. Quiet /\ s = position
  BY DEF Send
<1>2. phase' = [phase EXCEPT ![h] = "read"] /\ phase \in [Handlers -> {"idle", "read", "write"}]
  BY DEF Send, TypeOK
<1>3. phase'[h] = "read" /\ \A k \in Handlers : k # h => phase'[k] = "idle"
  BY <1>1, <1>2 DEF Quiet
<1>4. report'[h].position = s
  BY <1>1 DEF Send, TypeOK
<1>5. QED
  BY <1>3, <1>4 DEF InHand

\* A step of a handler that is busy is a step of the one that has the stop.
LEMMA BusyHasIt ==
  ASSUME StopHeard, NEW h \in Handlers, phase[h] # "idle", NEW s \in final
  PROVE  InHand(s, h)
BY DEF StopHeard, InHand, Quiet

(***************************************************************************)
(* A stop sent when every report before it was answered decides what is    *)
(* stored, a position further back included, until the next report: no     *)
(* suppressed write and no earlier report speaks after it.                 *)
(***************************************************************************)
THEOREM StopIsLast == Spec => []StopDecides
<1>1. Init => StopHeard
  BY DEF Init, StopHeard
<1>2. TypeOK /\ StopHeard /\ [Next]_vars => StopHeard'
  <2> SUFFICES ASSUME TypeOK, StopHeard, [Next]_vars PROVE StopHeard'
    OBVIOUS
  <2>1. ASSUME NEW h \in Handlers, NEW position, NEW stopped \in BOOLEAN,
               Send(h, position, stopped)
        PROVE StopHeard'
    BY <2>1, SentAlone
  <2>2. ASSUME NEW h \in Handlers, ReadRuntime(h) PROVE StopHeard'
    <3> SUFFICES ASSUME NEW s \in final' PROVE InHand(s, h)'
      BY DEF StopHeard
    <3>1. s \in final /\ UNCHANGED <<runtime, report, probes>>
      BY <2>2 DEF ReadRuntime, history, counters
    <3>2. InHand(s, h)
      BY <2>2, <3>1, BusyHasIt DEF ReadRuntime
    <3>3. judged'[h] = Evaluate(s, runtime)
      BY <2>2, <3>2 DEF ReadRuntime, TypeOK, InHand
    <3>4. phase'[h] = "write" /\ \A k \in Handlers : k # h => phase'[k] = "idle"
      BY <2>2, <3>2 DEF ReadRuntime, TypeOK, InHand
    <3>5. Evaluate(s, runtime)' = Evaluate(s, runtime)
      BY <3>1 DEF Evaluate, Resumable, Finished, Judgeable
    <3>6. QED
      BY <3>1, <3>2, <3>3, <3>4, <3>5 DEF InHand
  <2>3. ASSUME NEW h \in Handlers, Report(h) PROVE StopHeard'
    <3> SUFFICES ASSUME NEW s \in final' PROVE Quiet' /\ Stored(s)'
      BY DEF StopHeard
    <3>1. s \in final /\ UNCHANGED <<runtime, probes>>
      BY <2>3 DEF Report, counters
    <3>2. InHand(s, h)
      BY <2>3, <3>1, BusyHasIt DEF Report
    <3>3. Quiet'
      BY <2>3, <3>2 DEF Report, TypeOK, InHand, Quiet
    <3>4. row'.raw = s /\ row'.position = judged[h].resume
      BY <2>3, <3>2, WriteOfReport DEF InHand
    <3>5. probes = 0 => judged[h] = Evaluate(s, runtime)
      BY <2>3, <3>2 DEF Report, InHand
    <3>6. Evaluate(s, runtime)' = Evaluate(s, runtime)
      BY <3>1 DEF Evaluate, Resumable, Finished, Judgeable
    <3>7. QED
      BY <3>1, <3>3, <3>4, <3>5, <3>6 DEF Stored
  <2>4. ASSUME NEW h \in Handlers, ReportRefused(h) PROVE StopHeard'
    <3> SUFFICES ASSUME NEW s \in final' PROVE Quiet' /\ Stored(s)'
      BY DEF StopHeard
    <3>1. s \in final
      BY <2>4 DEF ReportRefused, history
    <3>2. InHand(s, h)
      BY <2>4, <3>1, BusyHasIt DEF ReportRefused
    <3>3. Quiet'
      BY <2>4, <3>2 DEF ReportRefused, TypeOK, InHand, Quiet
    <3>4. ~(s >= 0)
      BY <2>4, <3>2 DEF ReportRefused, InHand, Storable
    <3>5. QED
      BY <3>3, <3>4 DEF Stored
  <2>5. ASSUME NEW h \in Handlers, Abort(h) PROVE StopHeard'
    BY <2>5 DEF Abort, StopHeard
  <2>6. ASSUME NEW length \in Runtimes, Probe(length) PROVE StopHeard'
    <3>1. probes' # 0 /\ UNCHANGED <<row, phase, report, judged, final>>
      BY <2>6 DEF Probe, TypeOK, handlers, history
    <3>2. ASSUME NEW s \in final PROVE Stored(s) => Stored(s)'
      BY <3>1 DEF Stored
    <3>3. ASSUME NEW s \in final, NEW h \in Handlers PROVE InHand(s, h) => InHand(s, h)'
      BY <3>1 DEF InHand
    <3>4. QED
      BY <3>1, <3>2, <3>3 DEF StopHeard, Quiet
  <2>7. ASSUME UNCHANGED <<runtime, row, handlers, final, probes>> PROVE StopHeard'
    BY <2>7 DEF StopHeard, Stored, InHand, Quiet, handlers, Evaluate, Resumable, Finished,
                Judgeable
  <2>8. QED
    BY <2>1, <2>2, <2>3, <2>4, <2>5, <2>6, <2>7
    DEF Next, Started, FailedStop, Progress, Stopped, StoppedAgain, history, counters, vars
<1>3. StopHeard => StopDecides
  BY DEF StopHeard, StopDecides, Stored, InHand, Quiet
<1>4. QED
  BY <1>1, <1>2, <1>3, TypeCorrect, PTL DEF Spec

------------------------------------------------------------------------------

\* The stops in flight that end a viewing and have yet to be counted.
Owing ==
  {h \in Handlers : /\ phase[h] # "idle"
                    /\ report[h].stopped
                    /\ Finished(report[h].position, runtime)}

\* What a handler judged of completion holds of the runtime while that stands.
CompletionIsCurrent ==
  probes = 0 => \A h \in Handlers : phase[h] = "write" =>
    judged[h].completed = Finished(report[h].position, runtime)

\* The books with the stops in flight entered: what is counted or yet to be
\* counted misses no more ends than were cut short, and exceeds them by no more
\* than were sent again.
Books ==
  probes = 0 =>
    /\ IsFiniteSet(Completed) /\ IsFiniteSet(Owing)
    /\ Cardinality(Completed) <= row.count + Cardinality(Owing) + aborts
    /\ row.count + Cardinality(Owing) <= Cardinality(Completed) + retries

\* What a set becomes that gains or loses at most one member.
LEMMA OneMore ==
  ASSUME NEW S, IsFiniteSet(S), NEW x, x \notin S, NEW joins \in BOOLEAN
  PROVE  LET T == S \cup IF joins THEN {x} ELSE {}
         IN  /\ IsFiniteSet(T)
             /\ Cardinality(S) \in Nat
             /\ Cardinality(T) = Cardinality(S) + IF joins THEN 1 ELSE 0
<1>1. Cardinality(S) \in Nat
  BY FS_CardinalityType
<1>2. IsFiniteSet(S \cup {x}) /\ Cardinality(S \cup {x}) = Cardinality(S) + 1
  BY FS_AddElement
<1>3. CASE joins = TRUE
  BY <1>1, <1>2, <1>3
<1>4. CASE joins = FALSE
  <2>1. S \cup {} = S
    OBVIOUS
  <2>2. QED
    BY <1>1, <1>4, <2>1
<1>5. QED
  BY <1>3, <1>4

LEMMA OneLess ==
  ASSUME NEW S, IsFiniteSet(S), NEW x
  PROVE  /\ IsFiniteSet(S \ {x})
         /\ Cardinality(S) \in Nat
         /\ Cardinality(S \ {x}) = Cardinality(S) - IF x \in S THEN 1 ELSE 0
         /\ x \in S => Cardinality(S) > 0
BY FS_RemoveElement, FS_CardinalityType, FS_EmptySet

\* A report sent owes a viewing exactly if it is a stop past the threshold.
LEMMA SendOwes ==
  ASSUME TypeOK, NEW h \in Handlers, NEW position \in Int, NEW stopped \in BOOLEAN,
         Send(h, position, stopped), UNCHANGED runtime
  PROVE  /\ h \notin Owing
         /\ Owing' = Owing \cup IF stopped /\ Finished(position, runtime) THEN {h} ELSE {}
<1>1. h \notin Owing
  BY DEF Owing, Send
<1>2. /\ phase'[h] = "read"
      /\ report'[h] = [stopped |-> stopped, position |-> position]
      /\ \A k \in Handlers : k # h => phase'[k] = phase[k] /\ report'[k] = report[k]
  BY DEF Send, TypeOK
<1>3. h \in Owing' <=> stopped /\ Finished(position, runtime)
  BY <1>2 DEF Owing, Finished, Judgeable
<1>4. \A k \in Handlers : k # h => (k \in Owing' <=> k \in Owing)
  BY <1>2 DEF Owing, Finished, Judgeable
<1>5. Owing' \subseteq Handlers /\ Owing \subseteq Handlers
  BY DEF Owing
<1>6. QED
  BY <1>1, <1>3, <1>4, <1>5

\* A handler that goes idle owes nothing more.
LEMMA IdleOwesNothing ==
  ASSUME TypeOK, NEW h \in Handlers, phase' = [phase EXCEPT ![h] = "idle"],
         UNCHANGED <<runtime, report>>
  PROVE  Owing' = Owing \ {h}
<1>1. phase'[h] = "idle" /\ \A k \in Handlers : k # h => phase'[k] = phase[k]
  BY DEF TypeOK
<1>2. h \notin Owing' /\ \A k \in Handlers : k # h => (k \in Owing' <=> k \in Owing)
  BY <1>1 DEF Owing, Finished, Judgeable
<1>3. Owing' \subseteq Handlers /\ Owing \subseteq Handlers
  BY DEF Owing
<1>4. QED
  BY <1>2, <1>3

\* Which playbacks ended complete changes only with them or the runtime.
LEMMA CompletedFrame ==
  ASSUME UNCHANGED <<playback, stopAt, runtime>>
  PROVE  Completed' = Completed
BY DEF Completed, Finished, Judgeable

(***************************************************************************)
(* While the runtime stands, a viewing that ended complete is counted      *)
(* once: a report cut short loses at most one, one sent again adds at most *)
(* one, and nothing else does, however the reports of two devices          *)
(* interleave.                                                             *)
(***************************************************************************)
THEOREM ViewingsAreCounted == Spec => []CountAccounted
<1> DEFINE IInv == CompletionIsCurrent /\ Books
<1>1. Init => IInv
  <2> SUFFICES ASSUME Init PROVE IInv
    OBVIOUS
  <2>1. Completed = {} /\ Owing = {}
    BY DEF Init, Completed, Owing
  <2>2. row.count = 0 /\ aborts = 0 /\ retries = 0 /\ CompletionIsCurrent
    BY DEF Init, NoRow, CompletionIsCurrent
  <2>3. QED
    BY <2>1, <2>2, FS_EmptySet DEF Books
<1>2. TypeOK /\ IInv /\ [Next]_vars => IInv'
  <2> SUFFICES ASSUME TypeOK, CompletionIsCurrent, Books, [Next]_vars, probes' = 0
               PROVE  IInv'
    BY DEF CompletionIsCurrent, Books
  <2>1. row.count \in Nat /\ retries \in Nat /\ aborts \in Nat /\ probes \in Nat
    BY DEF TypeOK, Row
  <2>2. probes = 0
    <3>1. probes' = probes \/ \E length \in Runtimes : Probe(length)
      BY DEF Next, Started, FailedStop, Progress, Stopped, StoppedAgain, ReadRuntime, Report,
             ReportRefused, Abort, counters, vars
    <3>2. ASSUME NEW length \in Runtimes, Probe(length) PROVE FALSE
      BY <2>1, <3>2 DEF Probe
    <3>3. QED
      BY <3>1, <3>2
  <2>3. /\ IsFiniteSet(Completed) /\ IsFiniteSet(Owing)
        /\ Cardinality(Completed) \in Nat /\ Cardinality(Owing) \in Nat
        /\ Cardinality(Completed) <= row.count + Cardinality(Owing) + aborts
        /\ row.count + Cardinality(Owing) <= Cardinality(Completed) + retries
    BY <2>2, FS_CardinalityType DEF Books
  <2>4. ASSUME NEW p \in Playbacks, Started(p) \/ FailedStop(p) PROVE IInv'
    <3>1. UNCHANGED <<runtime, row, phase, report, judged, retries, aborts, stopAt>>
      BY <2>4 DEF Started, FailedStop, handlers, counters
    <3>2. Completed' = Completed
      BY <2>4, <3>1 DEF Started, FailedStop, TypeOK, Completed, Finished, Judgeable
    <3>3. Owing' = Owing
      BY <3>1 DEF Owing, Finished, Judgeable
    <3>4. CompletionIsCurrent'
      BY <2>2, <3>1 DEF CompletionIsCurrent, Finished, Judgeable
    <3>5. QED
      BY <2>3, <3>1, <3>2, <3>3, <3>4 DEF Books
  <2>5. ASSUME NEW h \in Handlers, NEW position, NEW stopped \in BOOLEAN,
               Send(h, position, stopped), UNCHANGED <<runtime, judged>>
        PROVE CompletionIsCurrent'
    BY <2>2, <2>5 DEF Send, TypeOK, CompletionIsCurrent, Finished, Judgeable
  <2>6. ASSUME NEW h \in Handlers, NEW p \in Playbacks, NEW position \in Positions,
               Progress(h, p, position)
        PROVE IInv'
    <3>1. position \in Int
      BY PositionsInt
    <3>2. Send(h, position, FALSE) /\ UNCHANGED <<runtime, row, judged, retries, aborts>>
      BY <2>6 DEF Progress
    <3>3. Owing' = Owing
      BY <3>1, <3>2, SendOwes
    <3>4. Completed' = Completed
      BY <2>6, CompletedFrame DEF Progress, clients
    <3>5. QED
      BY <2>3, <2>5, <3>2, <3>3, <3>4 DEF Books
  <2>7. ASSUME NEW h \in Handlers, NEW p \in Playbacks, NEW position \in Positions,
               Stopped(h, p, position)
        PROVE IInv'
    <3> DEFINE ends == Finished(position, runtime)
    <3>1. position \in Int /\ ends \in BOOLEAN
      BY PositionsInt DEF Finished, Judgeable
    <3>2. Send(h, position, TRUE) /\ UNCHANGED <<runtime, row, judged, retries, aborts>>
      BY <2>7 DEF Stopped, counters
    <3>3. h \notin Owing /\ Owing' = Owing \cup IF ends THEN {h} ELSE {}
      BY <3>1, <3>2, SendOwes
    <3>4. p \notin Completed
      BY <2>7 DEF Stopped, Completed
    <3>5. /\ p \in Completed' <=> ends
          /\ \A q \in Playbacks : q # p => (q \in Completed' <=> q \in Completed)
      BY <2>7 DEF Stopped, Completed, TypeOK, Finished, Judgeable
    <3>6. Completed' = Completed \cup IF ends THEN {p} ELSE {}
      <4>1. Completed \subseteq Playbacks /\ Completed' \subseteq Playbacks
        BY DEF Completed
      <4>2. QED
        BY <3>4, <3>5, <4>1
    <3> HIDE DEF ends
    <3>7. /\ IsFiniteSet(Owing')
          /\ Cardinality(Owing') = Cardinality(Owing) + IF ends THEN 1 ELSE 0
      BY <2>3, <3>1, <3>3, OneMore
    <3>8. /\ IsFiniteSet(Completed')
          /\ Cardinality(Completed') = Cardinality(Completed) + IF ends THEN 1 ELSE 0
      BY <2>3, <3>1, <3>4, <3>6, OneMore
    <3>9. Books'
      BY <2>1, <2>3, <3>2, <3>7, <3>8 DEF Books
    <3>10. QED
      BY <2>5, <3>2, <3>9
  <2>8. ASSUME NEW h \in Handlers, NEW p \in Playbacks, StoppedAgain(h, p) PROVE IInv'
    <3> DEFINE ends == Finished(stopAt[p], runtime)
    <3>1. stopAt[p] \in Int /\ ends \in BOOLEAN
      <4>1. stopAt[p] \in Positions \cup {0}
        BY DEF TypeOK
      <4>2. Positions \cup {0} \subseteq Int
        <5>1. {0} \subseteq Int
          OBVIOUS
        <5>2. QED
          BY <5>1, PositionsInt, Zenon
      <4>3. stopAt[p] \in Int
        BY <4>1, <4>2, Zenon
      <4>4. QED
        BY <4>3 DEF Finished, Judgeable
    <3>2. /\ Send(h, stopAt[p], TRUE) /\ UNCHANGED <<runtime, row, judged, aborts>>
          /\ retries' = retries + 1
      BY <2>8 DEF StoppedAgain
    <3>3. h \notin Owing /\ Owing' = Owing \cup IF ends THEN {h} ELSE {}
      BY <3>1, <3>2, SendOwes
    <3>4. Completed' = Completed
      BY <2>8, CompletedFrame DEF StoppedAgain, clients
    <3> HIDE DEF ends
    <3>5. /\ IsFiniteSet(Owing')
          /\ Cardinality(Owing') = Cardinality(Owing) + IF ends THEN 1 ELSE 0
      BY <2>3, <3>1, <3>3, OneMore
    <3>6. Books'
      BY <2>1, <2>3, <3>2, <3>4, <3>5 DEF Books
    <3>7. QED
      BY <2>5, <3>2, <3>6
  <2>9. ASSUME NEW h \in Handlers, ReadRuntime(h) PROVE IInv'
    <3>1. UNCHANGED <<runtime, row, report, retries, aborts, playback, stopAt>>
      BY <2>9 DEF ReadRuntime, clients, counters
    <3>2. phase[h] = "read" /\ phase' = [phase EXCEPT ![h] = "write"]
      BY <2>9 DEF ReadRuntime
    <3>3. Owing' = Owing
      BY <3>1, <3>2 DEF Owing, TypeOK, Finished, Judgeable
    <3>4. CompletionIsCurrent'
      <4>1. judged'[h].completed = Finished(report[h].position, runtime)
        BY <2>9 DEF ReadRuntime, TypeOK, Evaluate
      <4>2. \A k \in Handlers : k # h => judged'[k] = judged[k] /\ phase'[k] = phase[k]
        BY <2>9 DEF ReadRuntime, TypeOK
      <4>3. QED
        BY <2>2, <3>1, <4>1, <4>2 DEF CompletionIsCurrent, Finished, Judgeable
    <3>5. Completed' = Completed
      BY <3>1, CompletedFrame
    <3>6. QED
      BY <2>3, <3>1, <3>3, <3>4, <3>5 DEF Books
  <2>10. ASSUME NEW h \in Handlers, phase' = [phase EXCEPT ![h] = "idle"],
                UNCHANGED <<runtime, report, judged>>
         PROVE CompletionIsCurrent'
    BY <2>2, <2>10 DEF TypeOK, CompletionIsCurrent, Finished, Judgeable
  <2>11. ASSUME NEW h \in Handlers, Report(h) PROVE IInv'
    <3>1. /\ phase' = [phase EXCEPT ![h] = "idle"]
          /\ UNCHANGED <<runtime, report, judged, retries, aborts, playback, stopAt>>
      BY <2>11 DEF Report, clients, counters
    <3>2. Owing' = Owing \ {h} /\ Completed' = Completed
      BY <3>1, IdleOwesNothing, CompletedFrame
    <3>3. h \in Owing <=> report[h].stopped /\ judged[h].completed
      BY <2>2, <2>11 DEF Report, Owing, CompletionIsCurrent
    <3>4. PlayCount(h) = IF h \in Owing THEN 1 ELSE 0
      BY <3>3 DEF PlayCount
    <3>5. row'.count = row.count + PlayCount(h)
      BY <2>11, WriteOfReport
    <3>6. /\ IsFiniteSet(Owing')
          /\ Cardinality(Owing') = Cardinality(Owing) - IF h \in Owing THEN 1 ELSE 0
      BY <2>3, <3>2, OneLess
    <3>7. Books'
      BY <2>1, <2>3, <3>1, <3>2, <3>4, <3>5, <3>6 DEF Books
    <3>8. QED
      BY <2>10, <3>1, <3>7
  <2>12. ASSUME NEW h \in Handlers, ReportRefused(h) PROVE IInv'
    <3>1. /\ phase' = [phase EXCEPT ![h] = "idle"]
          /\ UNCHANGED <<runtime, row, report, judged, retries, aborts, playback, stopAt>>
      BY <2>12 DEF ReportRefused, clients, counters
    <3>2. h \notin Owing
      BY <2>12, ReportedIsInt DEF ReportRefused, Storable, Owing, Finished, Judgeable
    <3>3. Owing' = Owing /\ Completed' = Completed
      BY <3>1, <3>2, IdleOwesNothing, CompletedFrame
    <3>4. QED
      BY <2>3, <2>10, <3>1, <3>3 DEF Books
  <2>13. ASSUME NEW h \in Handlers, Abort(h) PROVE IInv'
    <3>1. /\ phase' = [phase EXCEPT ![h] = "idle"] /\ aborts' = aborts + 1
          /\ UNCHANGED <<runtime, row, report, judged, retries, playback, stopAt>>
      BY <2>13 DEF Abort, clients
    <3>2. Owing' = Owing \ {h} /\ Completed' = Completed
      BY <3>1, IdleOwesNothing, CompletedFrame
    <3>3. /\ IsFiniteSet(Owing')
          /\ Cardinality(Owing') = Cardinality(Owing) - IF h \in Owing THEN 1 ELSE 0
      BY <2>3, <3>2, OneLess
    <3>4. Books'
      BY <2>1, <2>3, <3>1, <3>2, <3>3 DEF Books
    <3>5. QED
      BY <2>10, <3>1, <3>4
  <2>14. ASSUME NEW length \in Runtimes, Probe(length) PROVE FALSE
    BY <2>1, <2>14 DEF Probe
  <2>15. CASE UNCHANGED vars
    <3>1. UNCHANGED <<runtime, row, phase, report, judged, retries, aborts, playback, stopAt>>
      BY <2>15 DEF vars, handlers, clients, counters
    <3>2. Owing' = Owing /\ Completed' = Completed
      BY <3>1, CompletedFrame DEF Owing, Finished, Judgeable
    <3>3. CompletionIsCurrent'
      BY <2>2, <3>1 DEF CompletionIsCurrent, Finished, Judgeable
    <3>4. QED
      BY <2>3, <3>1, <3>2, <3>3 DEF Books
  <2>16. QED
    BY <2>4, <2>6, <2>7, <2>8, <2>9, <2>11, <2>12, <2>13, <2>14, <2>15 DEF Next
<1>3. TypeOK /\ IInv => CountAccounted
  <2> SUFFICES ASSUME TypeOK, Books, probes = 0, Quiet
               PROVE  /\ Cardinality(Completed) <= row.count + aborts
                      /\ row.count <= Cardinality(Completed) + retries
    BY DEF CountAccounted
  <2>1. Owing = {}
    BY DEF Owing, Quiet
  <2>2. Cardinality(Owing) = 0
    BY <2>1, FS_EmptySet
  <2>3. row.count \in Nat /\ aborts \in Nat
    BY DEF TypeOK, Row
  <2>4. QED
    BY <2>2, <2>3 DEF Books
<1>4. QED
  BY <1>1, <1>2, <1>3, TypeCorrect, PTL DEF Spec

------------------------------------------------------------------------------
(***************************************************************************)
(* Browse.  A film has a place in a listing: how many of those found come  *)
(* before it.  orderClause is a strict total order, so that every order    *)
(* the statement may answer puts a film at its place (PlaceInOrder), and   *)
(* pages of two statements continue each other; while nothing is written,  *)
(* the rows a client has are the first ones after those it skipped (Walk). *)
(* An answer about a film is what the row has for as long as its tag is    *)
(* current and the row the film's (ReadIsCurrent): whoever probes the row  *)
(* again, or writes back what it had read of it, writes the film it then   *)
(* belongs to.                                                             *)
(***************************************************************************)

------------------------------------------------------------------------------
(* The order of a listing.                                                 *)

\* The films a query finds are a finite set, no more of them than there are.
LEMMA FoundIsFinite ==
  ASSUME present \subseteq Films, NEW q
  PROVE  /\ Found(q) \subseteq Films
         /\ IsFiniteSet(Films) /\ IsFiniteSet(Found(q))
         /\ Cardinality(Films) \in Nat /\ Cardinality(Found(q)) \in 0..Cardinality(Films)
<1>1. IsFiniteSet(Films) /\ Found(q) \subseteq Films
  BY BrowseAssumption DEF Found
<1>2. /\ IsFiniteSet(Found(q))
      /\ Cardinality(Found(q)) <= Cardinality(Films)
  BY <1>1, FS_Subset
<1>3. Cardinality(Found(q)) \in Nat /\ Cardinality(Films) \in Nat
  BY <1>1, <1>2, FS_CardinalityType
<1>4. QED
  BY <1>1, <1>2, <1>3

\* A query is a listing's when what the statements do with its numbers is
\* defined.
IsQuery(q) ==
  /\ q.offset \in Nat /\ q.limit \in Nat \ {0}
  /\ q.desc \in BOOLEAN

\* orderClause is a strict total order of any films: the id decides what the
\* column leaves open.
LEMMA BeforeIsOrder ==
  ASSUME lastPlayed \in [Films -> Nat], NEW q, q.desc \in BOOLEAN
  PROVE  /\ \A f \in Films : ~ Before(f, f, q)
         /\ \A f, g \in Films : f # g => Before(f, g, q) \/ Before(g, f, q)
         /\ \A f, g, h \in Films : Before(f, g, q) /\ Before(g, h, q) => Before(f, h, q)
<1>1. \A f \in Films : Column(f, q) \in Nat /\ f \in Nat
  BY BrowseAssumption DEF Column
<1>2. \A f \in Films : ~ Before(f, f, q)
  BY <1>1 DEF Before, Null
<1>3. \A f, g \in Films : f # g => Before(f, g, q) \/ Before(g, f, q)
  BY <1>1 DEF Before, Null
<1>4. ASSUME NEW f \in Films, NEW g \in Films, NEW h \in Films,
             Before(f, g, q), Before(g, h, q)
      PROVE  Before(f, h, q)
  <2> DEFINE x == Column(f, q)  y == Column(g, q)  z == Column(h, q)
  <2>1. x \in Nat /\ y \in Nat /\ z \in Nat /\ f \in Nat /\ g \in Nat /\ h \in Nat
    BY <1>1
  <2>2. \/ x # 0 /\ y = 0
        \/ x # 0 /\ y # 0 /\ IF q.desc THEN x > y ELSE x < y
        \/ x = y /\ IF q.desc THEN f > g ELSE f < g
    BY <1>4 DEF Before, Null
  <2>3. \/ y # 0 /\ z = 0
        \/ y # 0 /\ z # 0 /\ IF q.desc THEN y > z ELSE y < z
        \/ y = z /\ IF q.desc THEN g > h ELSE g < h
    BY <1>4 DEF Before, Null
  <2> SUFFICES \/ x # 0 /\ z = 0
               \/ x # 0 /\ z # 0 /\ IF q.desc THEN x > z ELSE x < z
               \/ x = z /\ IF q.desc THEN f > h ELSE f < h
    BY DEF Before, Null
  <2> HIDE DEF x, y, z
  <2>4. CASE q.desc
    BY <2>1, <2>2, <2>3, <2>4
  <2>5. CASE ~ q.desc
    BY <2>1, <2>2, <2>3, <2>5
  <2>6. QED
    BY <2>4, <2>5
<1>5. QED
  BY <1>2, <1>3, <1>4

\* The place of a film among those found: how many come before it, and one.
Ahead(f, S, q) == {g \in S : Before(g, f, q)}
Rank(f, S, q) == Cardinality(Ahead(f, S, q)) + 1

\* Places are 1 to the number of films; who comes first has the lower place.
LEMMA RankOrders ==
  ASSUME lastPlayed \in [Films -> Nat], NEW S, S \subseteq Films, NEW q, q.desc \in BOOLEAN
  PROVE  /\ \A f \in S : Rank(f, S, q) \in 1..Cardinality(S)
         /\ \A f, g \in S : Before(f, g, q) <=> Rank(f, S, q) < Rank(g, S, q)
         /\ \A f, g \in S : f # g => Rank(f, S, q) # Rank(g, S, q)
<1>1. IsFiniteSet(S) /\ Cardinality(S) \in Nat
  BY BrowseAssumption, FS_Subset, FS_CardinalityType
<1>2. ASSUME NEW f \in S
      PROVE  /\ IsFiniteSet(Ahead(f, S, q)) /\ Cardinality(Ahead(f, S, q)) \in Nat
             /\ IsFiniteSet(Ahead(f, S, q) \cup {f})
             /\ Cardinality(Ahead(f, S, q) \cup {f}) = Rank(f, S, q)
  <2>1. Ahead(f, S, q) \in SUBSET S
    BY DEF Ahead
  <2>2. f \notin Ahead(f, S, q)
    BY BeforeIsOrder DEF Ahead
  <2>3. IsFiniteSet(Ahead(f, S, q))
    BY <1>1, <2>1, FS_Subset
  <2>4. QED
    BY <2>2, <2>3, FS_CardinalityType, FS_AddElement DEF Rank
<1>3. ASSUME NEW f \in S PROVE Rank(f, S, q) \in 1..Cardinality(S)
  <2>1. Ahead(f, S, q) \cup {f} \in SUBSET S
    BY DEF Ahead
  <2>2. Cardinality(Ahead(f, S, q) \cup {f}) <= Cardinality(S)
    BY <1>1, <2>1, FS_Subset
  <2>3. Rank(f, S, q) <= Cardinality(S)
    BY <1>2, <2>2
  <2>4. Rank(f, S, q) = Cardinality(Ahead(f, S, q)) + 1 /\ Cardinality(Ahead(f, S, q)) \in Nat
    BY <1>2 DEF Rank
  <2>5. QED
    BY <1>1, <2>3, <2>4
<1>4. ASSUME NEW f \in S, NEW g \in S, Before(f, g, q)
      PROVE  Rank(f, S, q) < Rank(g, S, q)
  <2>1. \A h \in S : Before(h, f, q) => Before(h, g, q)
    BY <1>4, BeforeIsOrder
  <2>2. Ahead(f, S, q) \cup {f} \in SUBSET Ahead(g, S, q)
    BY <1>4, <2>1 DEF Ahead
  <2>3. Cardinality(Ahead(f, S, q) \cup {f}) <= Cardinality(Ahead(g, S, q))
    BY <1>2, <2>2, FS_Subset
  <2>4. Rank(f, S, q) <= Cardinality(Ahead(g, S, q))
    BY <1>2, <2>3
  <2>5. Rank(g, S, q) = Cardinality(Ahead(g, S, q)) + 1 /\ Cardinality(Ahead(g, S, q)) \in Nat
    BY <1>2 DEF Rank
  <2>6. Rank(f, S, q) \in Int
    BY <1>1, <1>3
  <2>7. QED
    BY <2>4, <2>5, <2>6
<1>5. ASSUME NEW f \in S, NEW g \in S, f # g PROVE Before(f, g, q) \/ Before(g, f, q)
  BY <1>5, BeforeIsOrder
<1>6. ASSUME NEW f \in S, NEW g \in S
      PROVE  /\ Before(f, g, q) <=> Rank(f, S, q) < Rank(g, S, q)
             /\ f # g => Rank(f, S, q) # Rank(g, S, q)
  <2>1. Rank(f, S, q) \in Int /\ Rank(g, S, q) \in Int
    BY <1>1, <1>3
  <2>2. CASE f = g
    BY <2>1, <2>2, BeforeIsOrder
  <2>3. CASE f # g
    BY <1>4, <1>5, <2>1, <2>3
  <2>4. QED
    BY <2>2, <2>3
<1>7. QED
  BY <1>3, <1>6

\* In an order of what was found, the films stand at their places.
LEMMA PlaceInOrder ==
  ASSUME lastPlayed \in [Films -> Nat], NEW S, S \subseteq Films, NEW q, q.desc \in BOOLEAN,
         q.sort # "random", NEW order \in Orders(S, q), NEW i \in 1..Cardinality(S)
  PROVE  order[i] \in S /\ Rank(order[i], S, q) = i
<1> DEFINE n == Cardinality(S)
           first == [j \in 1..(i - 1) |-> order[j]]
<1>1. IsFiniteSet(S) /\ n \in Nat
  BY BrowseAssumption, FS_Subset, FS_CardinalityType
<1>2. order \in [1..n -> S]
  BY DEF Orders
<1>3. \A j, k \in 1..n : j < k => order[j] # order[k] /\ ~ Before(order[k], order[j], q)
  BY <1>2 DEF Orders
<1> HIDE DEF n
<1>4. order \in Surjection(1..n, S)
  <2>1. \A j, k \in 1..n : order[j] = order[k] => j = k
    <3>1. \A j, k \in 1..n : j \in Int /\ k \in Int
      BY <1>1
    <3>2. QED
      BY <1>3, <3>1
  <2>2. order \in Injection(1..n, S)
    BY <1>2, <2>1 DEF Injection, IsInjective
  <2>3. Cardinality(1..n) = n
    BY <1>1, FS_Interval
  <2>4. QED
    BY <1>1, <2>2, <2>3, FS_Injection DEF n
<1>5. ASSUME NEW g \in S
      PROVE  \E k \in 1..n : order[k] = g
  BY <1>4 DEF Surjection
<1>6. i \in 1..n /\ i \in Int
  BY <1>1 DEF n
<1>7. \A k \in 1..n : Before(order[k], order[i], q) <=> k < i
  <2>1. ASSUME NEW k \in 1..n PROVE Before(order[k], order[i], q) <=> k < i
    <3>1. order[k] \in Films /\ order[i] \in Films /\ k \in Int
      BY <1>1, <1>2, <1>6
    <3>2. CASE k < i
      BY <1>3, <1>6, <3>1, <3>2, BeforeIsOrder
    <3>3. CASE k = i
      BY <1>6, <3>1, <3>3, BeforeIsOrder
    <3>4. CASE i < k
      BY <1>3, <1>6, <3>1, <3>4
    <3>5. QED
      BY <1>6, <3>1, <3>2, <3>3, <3>4
  <2>2. QED
    BY <2>1
<1>8. \A j \in 1..(i - 1) : j \in 1..n /\ j < i
  BY <1>1, <1>6
<1>9. \A k \in 1..n : k < i => k \in 1..(i - 1)
  BY <1>1, <1>6
<1>10. first \in [1..(i - 1) -> Ahead(order[i], S, q)]
  BY <1>2, <1>7, <1>8 DEF Ahead
<1>11. \A a, b \in 1..(i - 1) : first[a] = first[b] => a = b
  <2>1. \A a, b \in 1..n : a \in Int /\ b \in Int
    BY <1>1
  <2>2. QED
    BY <1>3, <1>8, <2>1
<1>12. \A g \in Ahead(order[i], S, q) : \E a \in 1..(i - 1) : first[a] = g
  BY <1>5, <1>7, <1>9 DEF Ahead
<1> HIDE DEF first
<1>13. first \in Bijection(1..(i - 1), Ahead(order[i], S, q))
  <2>1. first \in Injection(1..(i - 1), Ahead(order[i], S, q))
    BY <1>10, <1>11 DEF Injection, IsInjective
  <2>2. first \in Surjection(1..(i - 1), Ahead(order[i], S, q))
    BY <1>10, <1>12 DEF Surjection
  <2>3. QED
    BY <2>1, <2>2 DEF Bijection
<1>14. IsFiniteSet(1..(i - 1)) /\ Cardinality(1..(i - 1)) = i - 1
  BY <1>1, <1>6, FS_Interval
<1>15. Cardinality(Ahead(order[i], S, q)) = i - 1
  <2>1. ExistsBijection(1..(i - 1), Ahead(order[i], S, q))
    BY <1>13 DEF ExistsBijection
  <2>2. QED
    BY <1>14, <2>1, FS_Bijection
<1>16. QED
  BY <1>2, <1>6, <1>15 DEF Rank

\* A page of an order of what was found: no longer than asked for, and the rows
\* after the offset.
PageLength(q, n) ==
  IF q.offset >= n THEN 0 ELSE IF q.offset + q.limit > n THEN n - q.offset ELSE q.limit

LEMMA PageOfOrder ==
  ASSUME NEW S, IsFiniteSet(S), NEW q, q.offset \in Nat, q.limit \in Nat \ {0},
         NEW order \in Orders(S, q)
  PROVE  /\ Page(order, q) \in Seq(S)
         /\ Len(Page(order, q)) = PageLength(q, Cardinality(S))
         /\ \A i \in 1..Len(Page(order, q)) : /\ q.offset + i \in 1..Cardinality(S)
                                              /\ Page(order, q)[i] = order[q.offset + i]
<1> DEFINE n == Cardinality(S)
           upto == IF q.offset + q.limit > n THEN n ELSE q.offset + q.limit
           page == Page(order, q)
<1>1. n \in Nat
  BY FS_CardinalityType
<1>2. order \in [1..n -> S]
  BY DEF Orders
<1>3. Len(order) = n
  BY <1>1, <1>2
<1>4. page = SubSeq(order, q.offset + 1, upto)
  BY <1>3 DEF Page
<1> HIDE DEF page, n
<1>5. upto \in Int /\ q.offset + 1 \in Int
  BY <1>1
<1>6. \A i \in q.offset + 1 .. upto : i \in 1..n
  BY <1>1
<1>7. \A i \in q.offset + 1 .. upto : order[i] \in S
  BY <1>2, <1>6
<1>8. /\ upto - (q.offset + 1) + 1 = upto - q.offset
      /\ \A i \in 1..(upto - q.offset) : /\ i \in Int /\ (q.offset + 1) + i - 1 = q.offset + i
                                         /\ q.offset + i \in q.offset + 1 .. upto
      /\ (IF q.offset + 1 <= upto THEN upto - q.offset ELSE 0) = PageLength(q, n)
      /\ \A i \in 1..PageLength(q, n) : i \in 1..(upto - q.offset)
  BY <1>1 DEF PageLength
<1> HIDE DEF upto
<1>9. /\ SubSeq(order, q.offset + 1, upto) \in Seq(S)
      /\ Len(SubSeq(order, q.offset + 1, upto)) =
           IF q.offset + 1 <= upto THEN upto - (q.offset + 1) + 1 ELSE 0
      /\ \A i \in 1 .. upto - (q.offset + 1) + 1 :
           SubSeq(order, q.offset + 1, upto)[i] = order[(q.offset + 1) + i - 1]
  BY <1>5, <1>7, SubSeqProperties
<1>10. /\ page \in Seq(S)
       /\ Len(page) = PageLength(q, n)
       /\ \A i \in 1..(upto - q.offset) : page[i] = order[(q.offset + 1) + i - 1]
  <2>1. page \in Seq(S)
    BY <1>4, <1>9
  <2>2. Len(page) = IF q.offset + 1 <= upto THEN upto - (q.offset + 1) + 1 ELSE 0
    BY <1>4, <1>9
  <2>3. Len(page) = PageLength(q, n)
    BY <1>8, <2>2
  <2>4. QED
    BY <1>4, <1>8, <1>9, <2>1, <2>3
<1>11. ASSUME NEW i \in 1..Len(page)
       PROVE  q.offset + i \in 1..n /\ page[i] = order[q.offset + i]
  <2>1. i \in 1..(upto - q.offset)
    BY <1>8, <1>10
  <2>2. page[i] = order[(q.offset + 1) + i - 1] /\ (q.offset + 1) + i - 1 = q.offset + i
    BY <1>8, <1>10, <2>1
  <2>3. q.offset + i \in 1..n
    BY <1>6, <1>8, <2>1
  <2>4. QED
    BY <2>2, <2>3
<1>12. QED
  BY <1>10, <1>11 DEF page, n

------------------------------------------------------------------------------
(* The types.                                                              *)

\* The tables: a row of a file belongs to a film that is there, and is probed;
\* its streams are from the probe of its columns or a later one.
Tables ==
  /\ present \subseteq Films
  /\ owner \in [Films -> Films \cup {0}]
  /\ fileProbe \in [Films -> 0..Len(Probed)] /\ streamProbe \in [Films -> 0..Len(Probed)]
  /\ \A r \in Films : /\ streamProbe[r] # 0 => owner[r] \in present
                      /\ owner[r] # 0 => fileProbe[r] # 0
                      /\ fileProbe[r] <= streamProbe[r]
  /\ played \cup resumable \subseteq {f \in present : lastPlayed[f] # 0}
  /\ lastPlayed \in [Films -> Nat] /\ updatedAt \in [Films -> Nat \ {0}]

\* The client's state is a record of these fields.
Shape ==
  client = [pc |-> client.pc, raw |-> client.raw, start |-> client.start,
            total |-> client.total, page |-> client.page,
            seen |-> client.seen, shown |-> client.shown, row |-> client.row,
            file |-> client.file, streams |-> client.streams, tag |-> client.tag,
            answer |-> client.answer, clean |-> client.clean]

Listing == client.pc \in {"count", "page", "answer", "listed"}
OnFilm == client.pc \in {"files", "streams", "decide", "decided"}

\* The activity of the client.
Activity ==
  /\ Shape
  /\ client.start \in Nat /\ client.total \in 0..Cardinality(Films)
  /\ client.page \in Seq(Films) /\ Len(client.page) <= MaxBrowseLimit
  /\ client.seen \in Seq(Films)
  /\ Listing => client.raw \in Requests
  /\ OnFilm => client.raw.id \in present /\ client.tag \in 1..updatedAt[client.raw.id]
  /\ client.row # 0 =>
       /\ client.pc \in {"streams", "decide", "decided"}
       /\ client.row \in Films /\ client.file \in 1..Len(Probed)

Fixed == Tables /\ Activity

LEMMA FixedIsTyped == Fixed => BrowseTypeOK
<1> SUFFICES ASSUME Fixed PROVE BrowseTypeOK
  OBVIOUS
<1>1. client.row # 0 => client.file # 0 /\ client.tag # 0
  <2>1. present \subseteq Films /\ updatedAt \in [Films -> Nat \ {0}]
    BY DEF Fixed, Tables
  <2> SUFFICES ASSUME client.row # 0 PROVE client.file # 0 /\ client.tag # 0
    OBVIOUS
  <2>2. client.file \in 1..Len(Probed) /\ client.tag \in 1..updatedAt[client.raw.id]
        /\ client.raw.id \in present
    BY DEF Fixed, Activity, OnFilm
  <2>3. QED
    BY <2>1, <2>2, BrowseAssumption
<1>2. QED
  BY <1>1 DEF Fixed, Tables, Activity, BrowseTypeOK, Null

\* The query of a request of a client: its numbers are what the statements
\* expect, and a page of it is no longer than the service allows.
LEMMA RequestsAreQueries ==
  ASSUME NEW raw \in Requests, NEW start \in Nat
  PROVE  IsQuery(Query(raw, start)) /\ Query(raw, start).limit <= MaxBrowseLimit
<1>1. raw.start \in Nat /\ raw.limit \in Nat /\ raw.maxYear \in Nat /\ MaxBrowseLimit \in Nat \ {0}
  BY BrowseAssumption
<1>2. Limit(raw) \in Nat \ {0} /\ Limit(raw) <= MaxBrowseLimit
  BY <1>1 DEF Limit
<1>3. Offset(raw, start) \in Nat
  BY DEF Offset
<1>4. QED
  BY <1>2, <1>3 DEF IsQuery, Query

LEMMA InitFixed == BrowseInit => Fixed
<1> SUFFICES ASSUME BrowseInit PROVE Fixed
  OBVIOUS
<1>1. present \subseteq Films
  BY BrowseAssumption DEF BrowseInit
<1>2. PICK f \in Takers \cap present :
        owner = [r \in Films |-> IF r \notin present THEN 0 ELSE IF r \in Takers THEN f ELSE r]
  BY DEF BrowseInit, Null
<1>3. Len(Probed) \in Nat \ {0} /\ \A r \in Films : r \in Nat \ {0}
  BY BrowseAssumption
<1>4. owner \in [Films -> Films \cup {0}]
  BY <1>1, <1>2
<1>5. fileProbe = [r \in Films |-> IF r \in present THEN 1 ELSE 0] /\ streamProbe = fileProbe
  BY DEF BrowseInit
<1>6. fileProbe \in [Films -> 0..Len(Probed)] /\ streamProbe \in [Films -> 0..Len(Probed)]
  BY <1>3, <1>5
<1>7. \A r \in Films : /\ streamProbe[r] # 0 => owner[r] \in present
                       /\ owner[r] # 0 => fileProbe[r] # 0
                       /\ fileProbe[r] <= streamProbe[r]
  BY <1>2, <1>5
<1>8. PICK h \in Histories :
        /\ played = h.played \cap present /\ resumable = h.resumable \cap present
        /\ lastPlayed = [g \in Films |-> IF g \in h.reported \cap present THEN 1 + (g % 2) ELSE 0]
  BY DEF BrowseInit, Null
<1>9. \A g \in Films : 1 + (g % 2) \in Nat \ {0}
  BY <1>3
<1>10. updatedAt \in [Films -> Nat \ {0}]
  BY DEF BrowseInit
<1>11. /\ lastPlayed \in [Films -> Nat]
       /\ played \cup resumable \subseteq {f1 \in present : lastPlayed[f1] # 0}
  <2>1. h.played \cup h.resumable \subseteq h.reported
    BY BrowseAssumption
  <2>2. lastPlayed \in [Films -> Nat]
    BY <1>8, <1>9
  <2>3. \A g \in h.reported \cap present : lastPlayed[g] # 0
    BY <1>1, <1>8, <1>9
  <2>4. QED
    BY <1>8, <2>1, <2>2, <2>3
<1>12. Tables
  BY <1>1, <1>4, <1>6, <1>7, <1>10, <1>11 DEF Tables
<1>13. client = Nothing
  BY DEF BrowseInit
<1>14. Shape
  BY <1>13 DEF Shape, Nothing
<1>15. /\ client.pc = "home" /\ client.start = 0 /\ client.total = 0 /\ client.page = <<>>
       /\ client.seen = <<>> /\ client.row = 0
  BY <1>13 DEF Nothing
<1>16. Cardinality(Films) \in Nat /\ 0 \in 0..Cardinality(Films)
  BY BrowseAssumption, FS_CardinalityType
<1>17. <<>> \in Seq(Films) /\ Len(<<>>) <= MaxBrowseLimit
  BY BrowseAssumption
<1>18. QED
  BY <1>12, <1>14, <1>15, <1>16, <1>17 DEF Fixed, Activity, Listing, OnFilm

\* What the writers do to the tables.
LEMMA TablesStay ==
  ASSUME Tables, [BrowseNext]_browseVars
  PROVE  Tables'
<1>1. CASE UNCHANGED tables
  BY <1>1 DEF Tables, tables, catalogue, playback_state
<1>2. CASE ScanFile
  <2>1. PICK r \in Films, f \in Films :
          /\ ProbesFile(r) \/ WritesBack(r)
          /\ present' = present \cup {f}
          /\ updatedAt' = [updatedAt EXCEPT ![f] = @ + 1]
          /\ owner' = [owner EXCEPT ![r] = f]
    BY <1>2 DEF ScanFile, Touched
  <2>2. UNCHANGED <<played, resumable, lastPlayed>>
    BY <1>2 DEF ScanFile, playback_state
  <2>3. Len(Probed) \in Nat /\ \A g \in Films : g \in Nat \ {0}
    BY BrowseAssumption
  <2>4. \A g \in Films : /\ fileProbe[g] \in 0..Len(Probed) /\ streamProbe[g] \in 0..Len(Probed)
                         /\ fileProbe[g] <= streamProbe[g] /\ updatedAt[g] \in Nat \ {0}
    BY DEF Tables
  <2>5. present' \subseteq Films
    BY <2>1 DEF Tables
  <2>6. updatedAt' \in [Films -> Nat \ {0}]
    BY <2>1, <2>4 DEF Tables
  <2>7. owner' \in [Films -> Films \cup {0}]
    BY <2>1 DEF Tables
  <2>8. PICK file \in 1..Len(Probed), streams \in 1..Len(Probed) :
          /\ fileProbe' = [fileProbe EXCEPT ![r] = file]
          /\ streamProbe' = [streamProbe EXCEPT ![r] = streams]
          /\ file <= streams
    <3>1. CASE ProbesFile(r)
      <4>1. /\ fileProbe' = [fileProbe EXCEPT ![r] = streamProbe[r] + 1]
            /\ streamProbe' = [streamProbe EXCEPT ![r] = streamProbe[r] + 1]
            /\ streamProbe[r] < Len(Probed)
        BY <3>1 DEF ProbesFile
      <4>2. streamProbe[r] + 1 \in 1..Len(Probed) /\ streamProbe[r] + 1 <= streamProbe[r] + 1
        BY <2>3, <2>4, <4>1
      <4>3. QED
        BY <4>1, <4>2
    <3>2. CASE WritesBack(r)
      <4>1. PICK read \in 1..streamProbe[r] : fileProbe' = [fileProbe EXCEPT ![r] = read]
        BY <3>2 DEF WritesBack
      <4>2. streamProbe' = [streamProbe EXCEPT ![r] = streamProbe[r]]
        BY <3>2 DEF WritesBack, Tables
      <4>3. read \in 1..Len(Probed) /\ streamProbe[r] \in 1..Len(Probed) /\ read <= streamProbe[r]
        BY <2>3, <2>4
      <4>4. QED
        BY <4>1, <4>2, <4>3
    <3>3. QED
      BY <2>1, <3>1, <3>2
  <2>9. fileProbe' \in [Films -> 0..Len(Probed)] /\ streamProbe' \in [Films -> 0..Len(Probed)]
    BY <2>3, <2>8 DEF Tables
  <2>10. \A g \in Films : /\ streamProbe'[g] # 0 => owner'[g] \in present'
                          /\ owner'[g] # 0 => fileProbe'[g] # 0
                          /\ fileProbe'[g] <= streamProbe'[g]
    BY <2>1, <2>3, <2>4, <2>8 DEF Tables
  <2>11. played' \cup resumable' \subseteq {g \in present' : lastPlayed'[g] # 0}
    BY <2>1, <2>2 DEF Tables
  <2>12. QED
    BY <2>2, <2>5, <2>6, <2>7, <2>9, <2>10, <2>11 DEF Tables
<1>3. CASE PlayerReport
  <2>1. PICK f \in present :
          /\ played' \subseteq played \cup {f} /\ resumable' \subseteq resumable \cup {f}
          /\ lastPlayed' = [lastPlayed EXCEPT ![f] = 3]
    BY <1>3 DEF PlayerReport
  <2>2. UNCHANGED <<present, updatedAt, owner, fileProbe, streamProbe>>
    BY <1>3 DEF PlayerReport, catalogue
  <2>3. lastPlayed' \in [Films -> Nat]
    BY <2>1 DEF Tables
  <2>4. played' \cup resumable' \subseteq {g \in present' : lastPlayed'[g] # 0}
    BY <2>1, <2>2 DEF Tables
  <2>5. QED
    BY <2>2, <2>3, <2>4 DEF Tables
<1>4. QED
  BY <1>1, <1>2, <1>3
  DEF BrowseNext, browseVars, OpenList, OpenViews, OpenView, OpenDetail, Handler, CountItems, ListItems,
      Views, GetItem, FindView, ListFilesByItem, ListStreams, Answer, Receive, StatementFails

\* A set of numbers has a least one.
LEMMA Least ==
  ASSUME NEW S, S \subseteq Nat, S # {}
  PROVE  \E m \in S : \A k \in S : m <= k
<1> DEFINE R == OpToRel(<, Nat)
<1>1. \E m \in S : \A k \in S : <<k, m>> \notin R
  <2>1. IsWellFoundedOn(R, Nat)
    BY NatLessThanWellFounded
  <2> HIDE DEF R
  <2>2. QED
    BY <2>1, WFMin, Zenon
<1>2. \A k, m \in Nat : k < m => <<k, m>> \in R
  BY DEF OpToRel
<1> HIDE DEF R
<1>3. PICK m \in S : \A k \in S : <<k, m>> \notin R
  BY <1>1
<1>4. ASSUME NEW k \in S PROVE m <= k
  <2>1. k \in Nat /\ m \in Nat
    OBVIOUS
  <2>2. ~(k < m)
    BY <1>2, <1>3, <2>1
  <2>3. QED
    BY <2>1, <2>2
<1>5. QED
  BY <1>4

\* The first file of a film is a row that belongs to it, if there is one.
LEMMA FirstFileIsOwn ==
  ASSUME NEW f
  PROVE  IF FilesOf(f) = {} THEN FirstFile(f) = 0
         ELSE FirstFile(f) \in Films /\ FirstFile(f) # 0 /\ owner[FirstFile(f)] = f
<1>1. CASE FilesOf(f) = {}
  BY <1>1 DEF FirstFile
<1>2. CASE FilesOf(f) # {}
  <2>1. FilesOf(f) \subseteq Nat
    BY BrowseAssumption DEF FilesOf
  <2>2. \E r \in FilesOf(f) : \A other \in FilesOf(f) : r <= other
    BY <1>2, <2>1, Least
  <2>3. FirstFile(f) \in FilesOf(f)
    BY <1>2, <2>2 DEF FirstFile
  <2>4. QED
    BY <1>2, <2>3, BrowseAssumption DEF FilesOf
<1>3. QED
  BY <1>1, <1>2

\* A write during an activity leaves no more than a mark on it.
LEMMA WriteMarks ==
  ASSUME Tables, ScanFile \/ PlayerReport
  PROVE  /\ client' = [client EXCEPT !.clean = FALSE]
         /\ present \subseteq present'
         /\ \A f \in Films : updatedAt[f] <= updatedAt'[f]
<1>1. \A f \in Films : updatedAt[f] \in Nat
  BY DEF Tables
<1>2. CASE ScanFile
  <2>1. client' = [client EXCEPT !.clean = FALSE]
    BY <1>2 DEF ScanFile, Write
  <2>2. PICK f \in Films : present' = present \cup {f} /\ updatedAt' = [updatedAt EXCEPT ![f] = @ + 1]
    BY <1>2 DEF ScanFile, Touched
  <2>3. \A g \in Films : updatedAt[g] <= updatedAt'[g]
    BY <1>1, <2>2 DEF Tables
  <2>4. QED
    BY <2>1, <2>2, <2>3
<1>3. CASE PlayerReport
  BY <1>1, <1>3 DEF PlayerReport, Write, catalogue
<1>4. QED
  BY <1>2, <1>3

\* The activity keeps its types.
LEMMA ActivityStays ==
  ASSUME Fixed, [BrowseNext]_browseVars
  PROVE  Activity'
<1> USE DEF At
<1>1. Tables /\ Activity /\ Shape
  BY DEF Fixed, Activity
<1>2. Cardinality(Films) \in Nat /\ 0 \in 0..Cardinality(Films)
  BY BrowseAssumption, FS_CardinalityType
<1>3. /\ <<>> \in Seq(Films) /\ Len(<<>>) <= MaxBrowseLimit
      /\ MaxBrowseLimit \in Nat
  BY BrowseAssumption
<1>4. /\ client.start \in Nat /\ client.total \in 0..Cardinality(Films)
      /\ client.page \in Seq(Films) /\ Len(client.page) <= MaxBrowseLimit
      /\ client.seen \in Seq(Films)
      /\ Listing => client.raw \in Requests
      /\ OnFilm => client.raw.id \in present /\ client.tag \in 1..updatedAt[client.raw.id]
      /\ client.row # 0 =>
           /\ client.pc \in {"streams", "decide", "decided"}
           /\ client.row \in Films /\ client.file \in 1..Len(Probed)
  BY <1>1 DEF Activity
<1>5. ASSUME UNCHANGED <<client, present, updatedAt>> PROVE Activity'
  BY <1>1, <1>5 DEF Activity, Shape, Listing, OnFilm
<1>6. CASE ScanFile \/ PlayerReport
  <2>1. client' = [client EXCEPT !.clean = FALSE] /\ present \subseteq present'
    BY <1>1, <1>6, WriteMarks
  <2>2. \A f \in Films : updatedAt[f] <= updatedAt'[f]
    BY <1>1, <1>6, WriteMarks
  <2>3. Shape'
    BY <1>1, <2>1 DEF Shape
  <2>4. /\ client'.pc = client.pc /\ client'.raw = client.raw /\ client'.start = client.start
        /\ client'.total = client.total /\ client'.page = client.page /\ client'.seen = client.seen
        /\ client'.row = client.row /\ client'.file = client.file /\ client'.tag = client.tag
    BY <1>1, <2>1 DEF Shape
  <2>5. OnFilm => client.raw.id \in present' /\ client.tag \in 1..updatedAt'[client.raw.id]
    <3>1. Tables'
      BY <1>1, TablesStay
    <3>2. present \subseteq Films
      BY <1>1 DEF Tables
    <3>3. \A f \in Films : updatedAt[f] \in Nat /\ updatedAt'[f] \in Nat
      BY <1>1, <3>1 DEF Tables
    <3>4. QED
      BY <1>4, <2>1, <2>2, <3>2, <3>3
  <2>6. QED
    BY <1>4, <2>3, <2>4, <2>5 DEF Activity, Listing, OnFilm
<1>7. CASE OpenList
  <2>1. PICK raw \in Requests :
          client' = [Nothing EXCEPT !.pc = IF MatchesNothing(raw) THEN "answer" ELSE "count",
                                    !.raw = raw, !.start = raw.start]
    BY <1>7 DEF OpenList
  <2>2. raw.start \in Nat
    BY BrowseAssumption
  <2>3. QED
    BY <1>2, <1>3, <2>1, <2>2 DEF Nothing, Activity, Shape, Listing, OnFilm
<1>8. CASE OpenViews
  <2>1. client' = [Nothing EXCEPT !.pc = "views"]
    BY <1>8 DEF OpenViews
  <2>2. QED
    BY <1>2, <1>3, <2>1 DEF Nothing, Activity, Shape, Listing, OnFilm
<1>9. CASE OpenView
  <2>1. PICK raw \in Requests :
          client' = [client EXCEPT !.pc = IF MatchesNothing(raw) THEN "answer" ELSE "count",
                                   !.raw = raw, !.start = raw.start]
    BY <1>9 DEF OpenView
  <2>2. raw.start \in Nat
    BY BrowseAssumption
  <2>3. client.row = 0
    BY <1>4, <1>9 DEF OpenView
  <2>4. QED
    BY <1>1, <1>4, <2>1, <2>2, <2>3 DEF Activity, Shape, Listing, OnFilm
<1>10. CASE OpenDetail
  <2>1. PICK raw : client' = [Nothing EXCEPT !.pc = "item", !.raw = raw]
    BY <1>10 DEF OpenDetail
  <2>2. QED
    BY <1>2, <1>3, <2>1 DEF Nothing, Activity, Shape, Listing, OnFilm
<1>11. CASE CountItems
  <2>1. PICK n : /\ n = Cardinality(Found(TheQuery))
                 /\ client' = [client EXCEPT !.total = n, !.page = <<>>,
                                             !.pc = IF n = 0 THEN "answer" ELSE "page"]
    BY <1>11 DEF CountItems
  <2>2. n \in 0..Cardinality(Films)
    BY <1>1, <2>1, FoundIsFinite DEF Tables
  <2>3. client.pc = "count"
    BY <1>11 DEF CountItems
  <2>4. QED
    BY <1>1, <1>3, <1>4, <2>1, <2>2, <2>3 DEF Activity, Shape, Listing, OnFilm
<1>12. CASE ListItems
  <2>1. PICK order \in Orders(Found(TheQuery), TheQuery) :
          client' = [client EXCEPT !.pc = "answer", !.page = Page(order, TheQuery)]
    BY <1>12 DEF ListItems
  <2>2. client.pc = "page"
    BY <1>12 DEF ListItems
  <2>3. IsQuery(TheQuery) /\ TheQuery.limit <= MaxBrowseLimit
    BY <1>4, <2>2, RequestsAreQueries DEF Listing, TheQuery
  <2>4. Found(TheQuery) \subseteq Films /\ IsFiniteSet(Found(TheQuery))
        /\ Cardinality(Found(TheQuery)) \in Nat
    BY <1>1, FoundIsFinite DEF Tables
  <2>5. /\ Page(order, TheQuery) \in Seq(Found(TheQuery))
        /\ Len(Page(order, TheQuery)) = PageLength(TheQuery, Cardinality(Found(TheQuery)))
    BY <2>3, <2>4, PageOfOrder DEF IsQuery
  <2>6. Page(order, TheQuery) \in Seq(Films)
    BY <2>4, <2>5, SeqMonotonic
  <2>7. Len(Page(order, TheQuery)) <= MaxBrowseLimit
    BY <1>3, <2>3, <2>4, <2>5 DEF PageLength, IsQuery
  <2>8. QED
    BY <1>1, <1>4, <2>1, <2>2, <2>6, <2>7 DEF Activity, Shape, Listing, OnFilm
<1>13. CASE Views
  <2>1. client' = [client EXCEPT !.pc = "viewed", !.shown = CountItemsByLibrary]
    BY <1>13 DEF Views
  <2>2. client.pc = "views"
    BY <1>13 DEF Views
  <2>3. QED
    BY <1>1, <1>4, <2>1, <2>2 DEF Activity, Shape, Listing, OnFilm
<1>14. CASE GetItem
  <2>1. client.pc = "item" /\ UNCHANGED <<present, updatedAt>>
    BY <1>14 DEF GetItem, tables, catalogue
  <2>2. CASE Id \in present
    <3>1. client' = [client EXCEPT !.pc = "files", !.tag = updatedAt[Id]]
      BY <1>14, <2>2 DEF GetItem
    <3>2. updatedAt[Id] \in Nat \ {0}
      BY <1>1, <2>2 DEF Tables
    <3>3. updatedAt[Id] \in 1..updatedAt[Id]
      BY <3>2
    <3>4. QED
      BY <1>1, <1>4, <2>1, <2>2, <3>1, <3>3 DEF Activity, Shape, Listing, OnFilm, Id
  <2>3. CASE Id \notin present
    <3>1. PICK pc \in {"isview", "notfound"} : client' = [client EXCEPT !.pc = pc]
      BY <1>14, <2>3 DEF GetItem
    <3>2. QED
      BY <1>1, <1>4, <2>1, <3>1 DEF Activity, Shape, Listing, OnFilm
  <2>4. QED
    BY <2>2, <2>3
<1>15. CASE FindView
  <2>1. PICK pc \in {"isaview", "notfound"} : client' = [client EXCEPT !.pc = pc]
    BY <1>15 DEF FindView
  <2>2. client.pc = "isview"
    BY <1>15 DEF FindView
  <2>3. QED
    BY <1>1, <1>4, <2>1, <2>2 DEF Activity, Shape, Listing, OnFilm
<1>16. CASE ListFilesByItem
  <2>1. client.pc = "files" /\ UNCHANGED <<present, updatedAt>>
    BY <1>16 DEF ListFilesByItem, tables, catalogue
  <2>2. CASE FirstFile(Id) = 0
    <3>1. client' = [client EXCEPT !.pc = "decide"]
      BY <1>16, <2>2 DEF ListFilesByItem
    <3>2. QED
      BY <1>1, <1>4, <2>1, <3>1 DEF Activity, Shape, Listing, OnFilm
  <2>3. CASE FirstFile(Id) # 0
    <3>1. client' = [client EXCEPT !.pc = "streams", !.row = FirstFile(Id), !.file = fileProbe[FirstFile(Id)]]
      BY <1>16, <2>3 DEF ListFilesByItem
    <3>2. FirstFile(Id) \in Films /\ owner[FirstFile(Id)] = Id /\ Id \in present
      BY <1>4, <2>1, <2>3, FirstFileIsOwn DEF OnFilm, Id
    <3>3. owner[FirstFile(Id)] # 0
      BY <1>1, <3>2, BrowseAssumption DEF Tables
    <3>4. fileProbe[FirstFile(Id)] \in 1..Len(Probed)
      BY <1>1, <3>2, <3>3, BrowseAssumption DEF Tables
    <3>5. QED
      BY <1>1, <1>4, <2>1, <3>1, <3>2, <3>4 DEF Activity, Shape, Listing, OnFilm
  <2>4. QED
    BY <2>2, <2>3
<1>17. CASE ListStreams
  <2>1. client.pc = "streams" /\ UNCHANGED <<present, updatedAt>>
        /\ client' = [client EXCEPT !.pc = "decide", !.streams = streamProbe[client.row]]
    BY <1>17 DEF ListStreams, tables, catalogue
  <2>2. QED
    BY <1>1, <1>4, <2>1 DEF Activity, Shape, Listing, OnFilm
<1>18. CASE Answer
  <2>1. client.pc = "decide" /\ UNCHANGED <<present, updatedAt>>
        /\ client' = [client EXCEPT !.pc = "decided", !.answer = MediaSource]
    BY <1>18 DEF Answer, tables, catalogue
  <2>2. QED
    BY <1>1, <1>4, <2>1 DEF Activity, Shape, Listing, OnFilm
<1>19. CASE Receive
  <2>1. PICK pc \in {"count", "listed"} :
          client' = [client EXCEPT !.pc = pc, !.seen = client.seen \o client.page,
                                   !.start = client.start + Len(client.page),
                                   !.page = <<>>]
    BY <1>19 DEF Receive
  <2>2. client.pc = "answer"
    BY <1>19 DEF Receive
  <2>3. client.seen \o client.page \in Seq(Films)
    BY <1>4, ConcatProperties
  <2>4. client.start + Len(client.page) \in Nat
    BY <1>4
  <2>5. QED
    BY <1>1, <1>3, <1>4, <2>1, <2>2, <2>3, <2>4 DEF Activity, Shape, Listing, OnFilm
<1>20. CASE StatementFails
  <2>1. client' = [client EXCEPT !.pc = "count", !.page = <<>>]
    BY <1>20 DEF StatementFails
  <2>2. client.pc = "page"
    BY <1>20 DEF StatementFails
  <2>3. QED
    BY <1>1, <1>3, <1>4, <2>1, <2>2 DEF Activity, Shape, Listing, OnFilm
<1>21. CASE UNCHANGED browseVars
  <2>1. UNCHANGED <<client, present, updatedAt>>
    BY <1>21 DEF browseVars, tables, catalogue
  <2>2. QED
    BY <1>5, <2>1
<1>22. QED
  BY <1>6, <1>7, <1>8, <1>9, <1>10, <1>11, <1>12, <1>13, <1>14, <1>15, <1>16, <1>17, <1>18,
     <1>19, <1>20, <1>21 DEF BrowseNext, Handler

THEOREM BrowseTypeCorrect == BrowseSpec => []BrowseTypeOK
<1>1. ASSUME Fixed, [BrowseNext]_browseVars PROVE Fixed'
  BY <1>1, TablesStay, ActivityStays DEF Fixed
<1>2. QED
  BY <1>1, InitFixed, FixedIsTyped, PTL DEF BrowseSpec

------------------------------------------------------------------------------
(* One film: what is answered of its row.                                  *)

\* What a container may be called in an answer.
NamedByProbe(container, p) ==
  LET names == Probed[p].container IN
  \/ names = <<>> /\ container = ""
  \/ container \in ToSet(names)
  \/ ToSet(names) = {"matroska", "webm"} /\ container = "mkv"

\* mediaSourceContainer never answers an extension the probe does not name.
LEMMA ContainerIsNamed ==
  ASSUME NEW p \in 1..Len(Probed)
  PROVE  NamedByProbe(SourceContainer(p), p)
<1> DEFINE names == Probed[p].container
           ext == Probed[p].ext
<1>1. names \in Seq(STRING)
  BY BrowseAssumption
<1>2. CASE names = <<>>
  <2>0. names # <<"matroska", "webm">>
    BY <1>2
  <2>1. SourceContainer(p) = ""
    BY <1>2, <2>0, Zenon DEF SourceContainer
  <2>2. QED
    BY <1>2, <2>1, Zenon DEF NamedByProbe
<1>3. CASE names = <<"matroska", "webm">>
  <2>1. names # <<>>
    BY <1>3
  <2>2. SourceContainer(p) = "mkv"
    BY <1>3, <2>1, Zenon DEF SourceContainer
  <2>3. ToSet(names) = {"matroska", "webm"}
    <3>1. DOMAIN <<"matroska", "webm">> = {1, 2}
      OBVIOUS
    <3>2. QED
      BY <1>3, <3>1 DEF ToSet
  <2>4. QED
    BY <2>2, <2>3, Zenon DEF NamedByProbe
<1>4. CASE names # <<>> /\ names # <<"matroska", "webm">>
  <2>1. SourceContainer(p) = IF ext \in ToSet(names) THEN ext ELSE Head(names)
    BY <1>4, Zenon DEF SourceContainer
  <2>2. Head(names) \in ToSet(names)
    BY <1>1, <1>4 DEF ToSet
  <2>3. SourceContainer(p) \in ToSet(names)
    BY <2>1, <2>2
  <2>4. QED
    BY <2>3, Zenon DEF NamedByProbe
<1>5. QED
  BY <1>2, <1>3, <1>4

\* The answer holds as long as nothing that would change it is written: while
\* the tag is the film's and the row its file, what was read of the row is
\* still what it has.
Current == client.tag = updatedAt[client.raw.id] /\ owner[client.row] = client.raw.id

ReadIsCurrent ==
  client.row # 0 =>
    /\ Current => client.file = fileProbe[client.row]
    /\ Current /\ client.pc # "streams" => client.streams = streamProbe[client.row]
    /\ client.pc = "decided" => client.answer.container = SourceContainer(client.file)

\* A row is looked at in few steps.
LEMMA RowsSeldomRead ==
  ASSUME Fixed, [BrowseNext]_browseVars, client'.row # 0
  PROVE  ScanFile \/ PlayerReport \/ ListFilesByItem \/ ListStreams \/ Answer
         \/ UNCHANGED <<client, updatedAt, owner, fileProbe, streamProbe>>
<1> USE DEF At
<1> SUFFICES ASSUME ~ (ScanFile \/ PlayerReport \/ ListFilesByItem \/ ListStreams \/ Answer)
             PROVE  UNCHANGED <<client, updatedAt, owner, fileProbe, streamProbe>>
  OBVIOUS
<1>1. Shape /\ (client.row # 0 => client.pc \in {"streams", "decide", "decided"})
  BY DEF Fixed, Activity
<1>2. ASSUME OpenList \/ OpenViews \/ OpenDetail PROVE FALSE
  <2>1. client'.row = Nothing.row
    BY <1>2 DEF OpenList, OpenViews, OpenDetail, Nothing
  <2>2. QED
    BY <2>1 DEF Nothing
<1>3. ASSUME OpenView \/ CountItems \/ ListItems \/ Views \/ Receive
      PROVE  FALSE
  <2>1. client.pc \notin {"streams", "decide", "decided"}
    BY <1>3 DEF OpenView, CountItems, ListItems, Views, Receive
  <2>2. client'.row = client.row
    BY <1>1, <1>3 DEF Shape, OpenView, CountItems, ListItems, Views, Receive
  <2>3. QED
    BY <1>1, <2>1, <2>2
<1>4. ASSUME GetItem \/ FindView \/ StatementFails PROVE FALSE
  <2>1. client.pc \notin {"streams", "decide", "decided"}
    BY <1>4 DEF GetItem, FindView, StatementFails
  <2>2. client'.row = client.row
    BY <1>1, <1>4 DEF Shape, GetItem, FindView, StatementFails
  <2>3. QED
    BY <1>1, <2>1, <2>2
<1>5. ASSUME UNCHANGED browseVars
      PROVE  UNCHANGED <<client, updatedAt, owner, fileProbe, streamProbe>>
  BY <1>5 DEF browseVars, tables, catalogue
<1>6. QED
  BY <1>2, <1>3, <1>4, <1>5 DEF BrowseNext, Handler

LEMMA CurrentStays ==
  ASSUME Fixed, ReadIsCurrent, [BrowseNext]_browseVars
  PROVE  ReadIsCurrent'
<1> SUFFICES ASSUME client'.row # 0 PROVE ReadIsCurrent'
  BY DEF ReadIsCurrent
<1> USE DEF At
<1>1. Tables /\ Shape
  BY DEF Fixed, Activity
<1>2. client.row # 0 =>
        /\ client.pc \in {"streams", "decide", "decided"}
        /\ client.row \in Films /\ client.file \in 1..Len(Probed)
        /\ client.raw.id \in Films /\ client.tag \in 1..updatedAt[client.raw.id]
  BY DEF Fixed, Tables, Activity, OnFilm
<1>3. CASE ScanFile
  <2>1. PICK r \in Films, f \in Films :
          /\ updatedAt' = [updatedAt EXCEPT ![f] = @ + 1]
          /\ owner' = [owner EXCEPT ![r] = f]
          /\ \A g \in Films \ {r} : fileProbe'[g] = fileProbe[g] /\ streamProbe'[g] = streamProbe[g]
    BY <1>1, <1>3 DEF ScanFile, Touched, ProbesFile, WritesBack, Tables
  <2>2. /\ client'.pc = client.pc /\ client'.raw = client.raw /\ client'.row = client.row
        /\ client'.file = client.file /\ client'.streams = client.streams
        /\ client'.tag = client.tag /\ client'.answer = client.answer
    BY <1>1, <1>3, WriteMarks DEF Shape
  <2>3. updatedAt[client.raw.id] \in Nat
    BY <1>1, <1>2, <2>2 DEF Tables
  <2>4. ASSUME Current'
        PROVE  /\ Current
               /\ fileProbe'[client.row] = fileProbe[client.row]
               /\ streamProbe'[client.row] = streamProbe[client.row]
    <3>1. client.raw.id # f
      BY <1>1, <1>2, <2>1, <2>2, <2>3, <2>4 DEF Current, Tables
    <3>2. client.row # r
      BY <1>1, <1>2, <2>1, <2>2, <2>4, <3>1 DEF Current, Tables
    <3>3. QED
      BY <1>1, <1>2, <2>1, <2>2, <2>4, <3>1, <3>2 DEF Current, Tables
  <2>5. QED
    BY <2>2, <2>4 DEF ReadIsCurrent
<1>4. CASE PlayerReport
  <2>1. /\ client'.pc = client.pc /\ client'.raw = client.raw /\ client'.row = client.row
        /\ client'.file = client.file /\ client'.streams = client.streams
        /\ client'.tag = client.tag /\ client'.answer = client.answer
    BY <1>1, <1>4, WriteMarks DEF Shape
  <2>2. UNCHANGED <<updatedAt, owner, fileProbe, streamProbe>>
    BY <1>4 DEF PlayerReport, catalogue
  <2>3. QED
    BY <2>1, <2>2 DEF ReadIsCurrent, Current
<1>5. CASE ListFilesByItem
  <2>1. client.pc = "files" /\ UNCHANGED <<updatedAt, owner, fileProbe, streamProbe>>
    BY <1>5 DEF ListFilesByItem, tables, catalogue
  <2>2. FirstFile(Id) # 0
    <3>1. client.row = 0
      BY <1>2, <2>1
    <3>2. FirstFile(Id) = 0 => client'.row = 0
      BY <1>1, <1>5, <3>1 DEF ListFilesByItem, Shape
    <3>3. QED
      BY <3>2
  <2>3. client' = [client EXCEPT !.pc = "streams", !.row = FirstFile(Id), !.file = fileProbe[FirstFile(Id)]]
    BY <1>5, <2>2 DEF ListFilesByItem
  <2>4. client'.pc = "streams" /\ client'.file = fileProbe[client'.row]
    BY <1>1, <2>3 DEF Shape
  <2>5. QED
    BY <2>1, <2>4 DEF ReadIsCurrent
<1>6. CASE ListStreams
  <2>1. client' = [client EXCEPT !.pc = "decide", !.streams = streamProbe[client.row]]
        /\ UNCHANGED <<updatedAt, owner, fileProbe, streamProbe>>
    BY <1>6 DEF ListStreams, tables, catalogue
  <2>2. /\ client'.pc = "decide" /\ client'.raw = client.raw /\ client'.row = client.row
        /\ client'.file = client.file /\ client'.streams = streamProbe[client.row]
        /\ client'.tag = client.tag
    BY <1>1, <2>1 DEF Shape
  <2>3. QED
    BY <2>1, <2>2 DEF ReadIsCurrent, Current
<1>7. CASE Answer
  <2>1. client' = [client EXCEPT !.pc = "decided", !.answer = MediaSource]
        /\ UNCHANGED <<updatedAt, owner, fileProbe, streamProbe>> /\ client.pc = "decide"
    BY <1>7 DEF Answer, tables, catalogue
  <2>2. /\ client'.pc = "decided" /\ client'.raw = client.raw /\ client'.row = client.row
        /\ client'.file = client.file /\ client'.streams = client.streams
        /\ client'.tag = client.tag /\ client'.answer = MediaSource
    BY <1>1, <2>1 DEF Shape
  <2>3. MediaSource.container = SourceContainer(client.file)
    BY <2>2 DEF MediaSource
  <2>4. QED
    BY <2>1, <2>2, <2>3 DEF ReadIsCurrent, Current
<1>8. CASE UNCHANGED <<client, updatedAt, owner, fileProbe, streamProbe>>
  BY <1>8 DEF ReadIsCurrent, Current
<1>9. QED
  BY <1>3, <1>4, <1>5, <1>6, <1>7, <1>8, RowsSeldomRead

LEMMA CurrentAnswers ==
  ASSUME Fixed, ReadIsCurrent
  PROVE  AnswerStaleOrTrue
<1> SUFFICES ASSUME client.pc = "decided", client.row # 0
             PROVE  /\ \/ client.tag # updatedAt[Id]
                       \/ FirstFile(Id) # client.row
                       \/ client.file = fileProbe[client.row] /\ client.streams = streamProbe[client.row]
                    /\ NamedByProbe(client.answer.container, client.file)
  BY Zenon DEF AnswerStaleOrTrue, NamedByProbe, At
<1>1. ASSUME client.tag = updatedAt[Id], FirstFile(Id) = client.row
      PROVE  client.file = fileProbe[client.row] /\ client.streams = streamProbe[client.row]
  <2>1. owner[client.row] = Id
    BY <1>1, FirstFileIsOwn
  <2>2. QED
    BY <1>1, <2>1 DEF ReadIsCurrent, Current, Id
<1>2. NamedByProbe(client.answer.container, client.file)
  <2>1. client.answer.container = SourceContainer(client.file)
    BY DEF ReadIsCurrent
  <2>2. client.file \in 1..Len(Probed)
    BY DEF Fixed, Activity
  <2>3. QED
    BY <2>1, <2>2, ContainerIsNamed
<1>3. QED
  BY <1>1, <1>2

THEOREM AnswersAreCurrent == BrowseSpec => []AnswerStaleOrTrue
<1>1. BrowseInit => Fixed /\ ReadIsCurrent
  <2>1. BrowseInit => client.row = 0
    BY DEF BrowseInit, Nothing
  <2>2. QED
    BY <2>1, InitFixed DEF ReadIsCurrent
<1>2. Fixed /\ ReadIsCurrent /\ [BrowseNext]_browseVars => (Fixed /\ ReadIsCurrent)'
  BY TablesStay, ActivityStays, CurrentStays DEF Fixed
<1>3. Fixed /\ ReadIsCurrent => AnswerStaleOrTrue
  BY CurrentAnswers
<1>4. QED
  BY <1>1, <1>2, <1>3, PTL DEF BrowseSpec

------------------------------------------------------------------------------
(* A listing: the places of the rows the client has.                       *)

\* All a request asks for, the place of each film in it, and the place before
\* its first row.
AllOf(raw) == Found(Query(raw, 0))
Place(f, raw) == Rank(f, AllOf(raw), Query(raw, 0))
Skipped(raw) == Offset(raw, raw.start)
Shuffled(raw) == Query(raw, 0).sort = "random"

\* The rows the client has are the first ones after those it skipped.
Seen(raw, seen) ==
  /\ Len(seen) = 0 \/ Skipped(raw) + Len(seen) <= Cardinality(AllOf(raw))
  /\ ~ Shuffled(raw) =>
       \A i \in 1..Len(seen) : seen[i] \in AllOf(raw) /\ Place(seen[i], raw) = Skipped(raw) + i

\* A page holds the rows after those the client has.
OnPage(raw, seen, page) ==
  /\ Len(page) = PageLength([offset |-> Skipped(raw) + Len(seen), limit |-> Limit(raw)],
                            Cardinality(AllOf(raw)))
  /\ ~ Shuffled(raw) =>
       \A i \in 1..Len(page) : /\ page[i] \in AllOf(raw)
                               /\ Place(page[i], raw) = Skipped(raw) + Len(seen) + i

\* Where a page begins changes neither what is found nor its order.
LEMMA StartChangesNothing ==
  ASSUME NEW raw, NEW start
  PROVE  /\ Found(Query(raw, start)) = AllOf(raw)
         /\ Query(raw, start).sort = Query(raw, 0).sort
         /\ \A f : Rank(f, AllOf(raw), Query(raw, start)) = Place(f, raw)
<1> DEFINE q == Query(raw, start)
           z == Query(raw, 0)
<1>1. /\ q.parent = z.parent /\ q.ids = z.ids /\ q.maxYear = z.maxYear
      /\ q.playedOnly = z.playedOnly /\ q.excludePlayed = z.excludePlayed
      /\ q.inProgress = z.inProgress /\ q.sort = z.sort /\ q.desc = z.desc
  BY DEF Query
<1> HIDE DEF q, z
<1>2. Found(q) = Found(z)
  BY <1>1 DEF Found, Matches, StateMatches
<1>3. \A f, g : Before(f, g, q) <=> Before(f, g, z)
  BY <1>1 DEF Before, Column
<1>4. ASSUME NEW f PROVE Rank(f, Found(z), q) = Rank(f, Found(z), z)
  <2>1. Ahead(f, Found(z), q) = Ahead(f, Found(z), z)
    BY <1>3 DEF Ahead
  <2>2. QED
    BY <2>1 DEF Rank
<1>5. QED
  BY <1>1, <1>2, <1>4 DEF AllOf, Place, q, z

\* Every page ListItems may answer holds the rows that follow.
LEMMA PageFollows ==
  ASSUME Tables, NEW raw \in Requests, NEW start \in Nat, NEW seen \in Seq(Films),
         Offset(raw, start) = Skipped(raw) + Len(seen),
         NEW order \in Orders(Found(Query(raw, start)), Query(raw, start))
  PROVE  OnPage(raw, seen, Page(order, Query(raw, start)))
<1> DEFINE q == Query(raw, start)
           S == Found(q)
           page == Page(order, q)
<1>1. IsQuery(q)
  BY RequestsAreQueries
<1>2. S \subseteq Films /\ IsFiniteSet(S) /\ Cardinality(S) \in Nat
  BY FoundIsFinite DEF Tables
<1>3. q.offset = Skipped(raw) + Len(seen) /\ q.limit = Limit(raw)
  BY DEF Query
<1>4. S = AllOf(raw) /\ q.sort = Query(raw, 0).sort
      /\ \A f : Rank(f, S, q) = Place(f, raw)
  BY StartChangesNothing
<1> HIDE DEF q, S
<1>5. order \in Orders(S, q)
  BY DEF S, q
<1>6. /\ Len(page) = PageLength(q, Cardinality(S))
      /\ \A i \in 1..Len(page) : q.offset + i \in 1..Cardinality(S) /\ page[i] = order[q.offset + i]
  BY <1>1, <1>2, <1>5, PageOfOrder DEF IsQuery
<1>7. Len(page) = PageLength([offset |-> Skipped(raw) + Len(seen), limit |-> Limit(raw)],
                             Cardinality(AllOf(raw)))
  BY <1>3, <1>4, <1>6 DEF PageLength
<1>8. ASSUME ~ Shuffled(raw), NEW i \in 1..Len(page)
      PROVE  page[i] \in AllOf(raw) /\ Place(page[i], raw) = Skipped(raw) + Len(seen) + i
  <2>1. q.offset + i \in 1..Cardinality(S) /\ page[i] = order[q.offset + i]
    BY <1>6
  <2>2. q.sort # "random"
    BY <1>4, <1>8 DEF Shuffled
  <2>3. lastPlayed \in [Films -> Nat] /\ q.desc \in BOOLEAN
    BY <1>1 DEF Tables, IsQuery
  <2>4. order[q.offset + i] \in S /\ Rank(order[q.offset + i], S, q) = q.offset + i
    BY <1>2, <1>5, <2>1, <2>2, <2>3, PlaceInOrder
  <2>5. QED
    BY <1>3, <1>4, <2>1, <2>4
<1>9. QED
  BY <1>7, <1>8 DEF OnPage, q

LEMMA RequestNumbers ==
  ASSUME Tables, NEW raw \in Requests
  PROVE  /\ AllOf(raw) \subseteq Films /\ IsFiniteSet(AllOf(raw)) /\ Cardinality(AllOf(raw)) \in Nat
         /\ Skipped(raw) \in Nat /\ Limit(raw) \in Nat \ {0} /\ raw.start \in Nat
         /\ \A f \in AllOf(raw) : Place(f, raw) \in 1..Cardinality(AllOf(raw))
         /\ \A f, g \in AllOf(raw) : /\ Before(f, g, Query(raw, 0)) <=> Place(f, raw) < Place(g, raw)
                                     /\ f # g => Place(f, raw) # Place(g, raw)
<1>1. AllOf(raw) \subseteq Films /\ IsFiniteSet(AllOf(raw)) /\ Cardinality(AllOf(raw)) \in Nat
  BY FoundIsFinite DEF Tables, AllOf
<1>2. raw.start \in Nat /\ IsQuery(Query(raw, 0))
  BY BrowseAssumption, RequestsAreQueries
<1>3. Skipped(raw) \in Nat /\ Limit(raw) \in Nat \ {0}
  <2>1. Query(raw, 0).limit = Limit(raw)
    BY DEF Query
  <2>2. QED
    BY <1>2, <2>1 DEF Skipped, Offset, IsQuery
<1>4. lastPlayed \in [Films -> Nat] /\ Query(raw, 0).desc \in BOOLEAN
  BY <1>2 DEF Tables, IsQuery
<1>5. QED
  BY <1>1, <1>2, <1>3, <1>4, RankOrders DEF Place

\* The page received continues the rows.
LEMMA SeenGrows ==
  ASSUME Tables, NEW raw \in Requests, NEW seen \in Seq(Films), NEW page \in Seq(Films),
         Seen(raw, seen), OnPage(raw, seen, page)
  PROVE  /\ Seen(raw, seen \o page)
         /\ page = <<>> => Skipped(raw) + Len(seen) >= Cardinality(AllOf(raw))
<1> DEFINE n == Cardinality(AllOf(raw))
           more == seen \o page
           skipped == Skipped(raw)
           limit == Limit(raw)
<1>1. n \in Nat /\ skipped \in Nat /\ limit \in Nat \ {0}
  BY RequestNumbers
<1>2. Len(seen) \in Nat /\ Len(page) \in Nat
  BY LenProperties
<1>3. Len(page) = IF skipped + Len(seen) >= n THEN 0
                  ELSE IF (skipped + Len(seen)) + limit > n THEN n - (skipped + Len(seen)) ELSE limit
  BY DEF OnPage, PageLength
<1>4. /\ Len(more) = Len(seen) + Len(page)
      /\ \A i \in 1..Len(seen) + Len(page) : more[i] = IF i <= Len(seen) THEN seen[i] ELSE page[i - Len(seen)]
  BY ConcatProperties
<1>5. Len(seen) = 0 \/ skipped + Len(seen) <= n
  BY DEF Seen
<1> HIDE DEF n, more, skipped, limit
<1>6. Len(more) = 0 \/ skipped + Len(more) <= n
  BY <1>1, <1>2, <1>3, <1>4, <1>5
<1>7. Len(page) = 0 => skipped + Len(seen) >= n
  BY <1>1, <1>2, <1>3
<1>8. ASSUME ~ Shuffled(raw), NEW i \in 1..Len(more)
      PROVE  more[i] \in AllOf(raw) /\ Place(more[i], raw) = skipped + i
  <2>1. CASE i <= Len(seen)
    <3>1. i \in 1..Len(seen) /\ more[i] = seen[i]
      BY <1>2, <1>4, <2>1
    <3>2. QED
      BY <1>8, <3>1 DEF Seen, skipped
  <2>2. CASE i > Len(seen)
    <3>1. i - Len(seen) \in 1..Len(page) /\ more[i] = page[i - Len(seen)]
      BY <1>2, <1>4, <2>2
    <3>2. more[i] \in AllOf(raw) /\ Place(more[i], raw) = skipped + Len(seen) + (i - Len(seen))
      BY <1>8, <3>1 DEF OnPage, skipped
    <3>3. QED
      BY <1>1, <1>2, <3>2
  <2>3. QED
    BY <1>2, <1>4, <2>1, <2>2
<1>9. QED
  BY <1>6, <1>7, <1>8 DEF Seen, n, more, skipped

\* What the filters find is what was asked for, unless the request can match
\* nothing, and then nothing was.
LEMMA FoundAsWanted ==
  ASSUME Tables, client.raw \in Requests
  PROVE  WantedFilms = IF MatchesNothing(client.raw) THEN {} ELSE AllOf(client.raw)
<1> DEFINE raw == client.raw
<1>1. raw \in Requests /\ raw.maxYear \in Nat /\ raw.start \in Nat
  BY BrowseAssumption
<1>2. \A f \in Films : LibraryOf[f] \in Libraries /\ Year[f] \in Nat
  BY BrowseAssumption
<1>3. 99 \notin Libraries /\ 99 \notin Films /\ 0 \notin Libraries
  BY BrowseAssumption
<1>4. present \subseteq Films
  BY DEF Tables
<1> HIDE DEF raw
<1>5. ASSUME MatchesNothing(raw), NEW f \in present PROVE ~ Wanted(f, raw)
  BY <1>2, <1>3, <1>4, <1>5 DEF MatchesNothing, Wanted, Junk, Null
<1>6. ASSUME ~ MatchesNothing(raw), NEW f \in present
      PROVE  Wanted(f, raw) <=> Matches(f, Query(raw, 0))
  <2> DEFINE q == Query(raw, 0)
  <2>1. /\ q.parent = raw.parent /\ q.ids = raw.ids \ {99} /\ q.maxYear = raw.maxYear
        /\ q.playedOnly <=> raw.isPlayed = "true"
        /\ q.excludePlayed <=> raw.isPlayed = "false" \/ raw.route = "latest"
        /\ q.inProgress <=> raw.route = "resume"
    BY DEF Query, Junk
  <2> HIDE DEF q
  <2>2. f # 99 /\ LibraryOf[f] \in Libraries /\ Year[f] \in Nat
    BY <1>2, <1>3, <1>4
  <2>3. (raw.parent \in {0, LibraryOf[f]}) <=> (q.parent # 0 => LibraryOf[f] = q.parent)
    BY <2>1
  <2>4. (raw.ids = {} \/ f \in raw.ids) <=> (q.ids # {} => f \in q.ids)
    <3>1. raw.ids # {99}
      BY <1>6 DEF MatchesNothing, Junk
    <3>2. q.ids = {} => raw.ids = {}
      BY <2>1, <3>1
    <3>3. f \in q.ids <=> f \in raw.ids
      BY <2>1, <2>2
    <3>4. raw.ids = {} => q.ids = {}
      BY <2>1
    <3>5. QED
      BY <3>2, <3>3, <3>4
  <2>5. (raw.maxYear = 0 \/ Year[f] \in 0..raw.maxYear) <=> (q.maxYear # 0 => Year[f] = 0 \/ Year[f] <= q.maxYear)
    BY <1>1, <2>1, <2>2
  <2>6. raw.types = {} \/ "Movie" \in raw.types
    BY <1>6 DEF MatchesNothing
  <2>7. (/\ raw.isPlayed = "true" => f \in played
         /\ raw.isPlayed = "false" => f \notin played
         /\ raw.route = "latest" => f \notin played
         /\ raw.route = "resume" => f \in resumable) <=> StateMatches(f, q)
    BY <2>1 DEF StateMatches
  <2>8. QED
    BY <2>3, <2>4, <2>5, <2>6, <2>7, Zenon DEF Wanted, Matches, Null, q
<1>7. QED
  BY <1>5, <1>6 DEF WantedFilms, AllOf, Found, raw

\* Before the first row that was left out stand the rows the client has.
LEMMA SeenIsPrefix ==
  ASSUME Tables, NEW raw \in Requests, NEW seen \in Seq(Films), Seen(raw, seen), ~ Shuffled(raw),
         Skipped(raw) = 0
  PROVE  /\ ToSet(seen) = {f \in AllOf(raw) : Place(f, raw) <= Len(seen)}
         /\ Len(seen) <= Cardinality(AllOf(raw))
<1> DEFINE n == Cardinality(AllOf(raw))
<1>1. n \in Nat /\ Len(seen) \in Nat /\ DOMAIN seen = 1..Len(seen)
  BY RequestNumbers, LenProperties
<1>2. \A i \in 1..Len(seen) : seen[i] \in AllOf(raw) /\ Place(seen[i], raw) = i
  <2>1. \A i \in 1..Len(seen) : seen[i] \in AllOf(raw) /\ Place(seen[i], raw) = Skipped(raw) + i
    BY DEF Seen
  <2>2. \A i \in 1..Len(seen) : 0 + i = i
    BY <1>1
  <2>3. QED
    BY <2>1, <2>2
<1>3. Len(seen) <= n
  <2>1. Len(seen) = 0 \/ 0 + Len(seen) <= n
    BY DEF Seen
  <2>2. QED
    BY <1>1, <2>1
<1> HIDE DEF n
<1>4. ASSUME NEW f \in ToSet(seen) PROVE f \in AllOf(raw) /\ Place(f, raw) <= Len(seen)
  <2>1. PICK i \in 1..Len(seen) : f = seen[i]
    BY <1>1 DEF ToSet
  <2>2. QED
    BY <1>1, <1>2, <2>1
<1>5. ASSUME NEW f \in AllOf(raw), Place(f, raw) <= Len(seen) PROVE f \in ToSet(seen)
  <2>1. Place(f, raw) \in 1..Len(seen)
    <3>1. Place(f, raw) \in 1..n
      BY RequestNumbers DEF n
    <3>2. QED
      BY <1>1, <1>5, <3>1
  <2>2. seen[Place(f, raw)] \in AllOf(raw) /\ Place(seen[Place(f, raw)], raw) = Place(f, raw)
    BY <1>2, <2>1
  <2>3. seen[Place(f, raw)] = f
    BY <2>2, RequestNumbers
  <2>4. QED
    BY <1>1, <2>1, <2>3 DEF ToSet
<1>6. QED
  BY <1>3, <1>4, <1>5 DEF n

\* The counts of the views are those of the listings they open.
LEMMA CountedPerLibrary ==
  ASSUME NEW l \in Libraries
  PROVE  CountItemsByLibrary[l] = Cardinality({f \in present : LibraryOf[f] = l})
<1> DEFINE counted == {LibraryOf[f] : f \in present}
           counts == [k \in counted |-> Cardinality({f \in present : LibraryOf[f] = k})]
<1>1. CountItemsByLibrary[l] = IF l \in DOMAIN counts THEN counts[l] ELSE 0
  BY DEF CountItemsByLibrary
<1>2. DOMAIN counts = counted
  OBVIOUS
<1>3. CASE l \in counted
  BY <1>1, <1>2, <1>3
<1>4. CASE l \notin counted
  <2>1. {f \in present : LibraryOf[f] = l} = {}
    BY <1>4
  <2>2. QED
    BY <1>1, <1>2, <1>4, <2>1, FS_EmptySet
<1>5. QED
  BY <1>3, <1>4

\* A walk over tables nobody writes: what the client was told is true, and what
\* it has are the first rows after those it skipped.
Walking ==
  LET raw == client.raw
      n == Cardinality(AllOf(raw))
  IN  /\ client.start = raw.start + Len(client.seen)
      /\ raw.route = "latest" /\ client.pc # "listed" => client.seen = <<>>
      /\ client.pc \in {"count", "page"} => client.page = <<>>
      /\ client.pc \in {"page", "answer"} => client.total = n
      /\ client.pc = "answer" => OnPage(raw, client.seen, client.page)
      /\ Seen(raw, client.seen)
      /\ client.pc = "listed" => raw.route = "latest" \/ Skipped(raw) + Len(client.seen) >= n

Hopeless ==
  client.pc \in {"answer", "listed"} /\ client.page = <<>> /\ client.seen = <<>>

Walk ==
  client.clean =>
    /\ client.shown # <<>> =>
         /\ client.shown = CountItemsByLibrary
         /\ Listing => client.raw.parent \in Libraries
    /\ client.pc \in {"views", "viewed"} => client.seen = <<>> /\ client.page = <<>>
    /\ Listing => IF MatchesNothing(client.raw) THEN Hopeless ELSE Walking

LEMMA WalkShows ==
  ASSUME Fixed, Walk
  PROVE  WalkComplete
<1> SUFFICES ASSUME client.pc = "listed", client.clean
             PROVE  EveryFilmOnce /\ UnknownLast /\ LatestAreNewest /\ ViewAsCounted
  BY DEF WalkComplete, At
<1> DEFINE raw == client.raw
           seen == client.seen
           n == Cardinality(AllOf(raw))
<1>1. Tables /\ raw \in Requests /\ seen \in Seq(Films)
  BY DEF Fixed, Activity, Listing
<1>2. IF MatchesNothing(raw) THEN Hopeless ELSE Walking
  BY DEF Walk, Listing
<1>3. WantedFilms = IF MatchesNothing(raw) THEN {} ELSE AllOf(raw)
  BY <1>1, FoundAsWanted
<1>4. n \in Nat /\ Len(seen) \in Nat /\ DOMAIN seen = 1..Len(seen) /\ Skipped(raw) \in Nat
  BY <1>1, RequestNumbers, LenProperties
<1>5. raw.route = "latest" \/ raw.start = 0 => Skipped(raw) = 0
  BY DEF Skipped, Offset
<1>6. ASSUME ~ MatchesNothing(raw)
      PROVE  /\ Seen(raw, seen)
             /\ raw.route = "latest" \/ Skipped(raw) + Len(seen) >= n
  BY <1>2, <1>6 DEF Walking
<1>7. MatchesNothing(raw) => seen = <<>>
  BY <1>2 DEF Hopeless
<1>8. EveryFilmOnce
  <2> SUFFICES ASSUME raw.route # "latest", raw.start = 0, SortOrder(raw.sortBy) # "random"
               PROVE  ToSet(seen) = WantedFilms /\ Len(seen) = Cardinality(WantedFilms)
    BY DEF EveryFilmOnce
  <2>1. CASE MatchesNothing(raw)
    <3>1. ToSet(seen) = {} /\ Len(seen) = 0
      BY <1>4, <1>7, <2>1 DEF ToSet
    <3>2. QED
      BY <1>3, <2>1, <3>1, FS_EmptySet
  <2>2. CASE ~ MatchesNothing(raw)
    <3>1. ~ Shuffled(raw)
      BY <1>1, BrowseAssumption DEF Shuffled, Query
    <3>2. /\ ToSet(seen) = {f \in AllOf(raw) : Place(f, raw) <= Len(seen)}
          /\ Len(seen) <= n
      BY <1>1, <1>5, <1>6, <2>2, <3>1, SeenIsPrefix
    <3>3. Len(seen) = n
      BY <1>4, <1>5, <1>6, <2>2, <3>2
    <3>4. \A f \in AllOf(raw) : Place(f, raw) <= Len(seen)
      <4>1. \A f \in AllOf(raw) : Place(f, raw) \in 1..n
        BY <1>1, RequestNumbers
      <4>2. QED
        BY <1>4, <3>3, <4>1
    <3>5. QED
      BY <1>3, <2>2, <3>2, <3>3, <3>4
  <2>3. QED
    BY <2>1, <2>2
<1>9. UnknownLast
  <2> SUFFICES ASSUME raw.route = "items", NEW i \in 1..Len(seen), NEW j \in 1..Len(seen),
                      i < j, Unknown(seen[i], raw)
               PROVE  Unknown(seen[j], raw)
    BY <1>4 DEF UnknownLast
  <2> DEFINE q == Query(raw, 0)
             f == seen[i]
             g == seen[j]
  <2>1. ~ MatchesNothing(raw)
    <3>1. MatchesNothing(raw) => Len(seen) = 0
      BY <1>7
    <3>2. QED
      BY <3>1
  <2>2. q.sort = SortOrder(raw.sortBy)
    BY DEF Query
  <2>3. \/ q.sort = "year" /\ Year[f] = 0
        \/ q.sort = "played" /\ lastPlayed[f] = 0
    BY <2>2 DEF Unknown, Null
  <2>4. ~ Shuffled(raw)
    BY <2>3 DEF Shuffled
  <2>5. /\ f \in AllOf(raw) /\ Place(f, raw) = Skipped(raw) + i
        /\ g \in AllOf(raw) /\ Place(g, raw) = Skipped(raw) + j
    BY <1>6, <2>1, <2>4 DEF Seen
  <2>6. Place(f, raw) < Place(g, raw)
    BY <1>4, <2>5
  <2>7. Before(f, g, q)
    BY <1>1, <2>5, <2>6, RequestNumbers
  <2>8. Column(f, q) = 0 => Column(g, q) = 0
    BY <2>7 DEF Before, Null
  <2> HIDE DEF q, f, g
  <2>9. CASE q.sort = "year" /\ Year[f] = 0
    <3>1. Column(f, q) = Year[f] /\ Column(g, q) = Year[g]
      BY <2>9 DEF Column
    <3>2. QED
      BY <2>2, <2>8, <2>9, <3>1 DEF Unknown, Null, g
  <2>10. CASE q.sort = "played" /\ lastPlayed[f] = 0
    <3>1. Column(f, q) = lastPlayed[f] /\ Column(g, q) = lastPlayed[g]
      BY <2>10 DEF Column
    <3>2. QED
      BY <2>2, <2>8, <2>10, <3>1 DEF Unknown, Null, g
  <2>11. QED
    BY <2>3, <2>9, <2>10
<1>10. LatestAreNewest
  <2> SUFFICES ASSUME raw.route = "latest"
               PROVE  /\ ToSet(seen) \subseteq WantedFilms
                      /\ \A f \in WantedFilms \ ToSet(seen), g \in ToSet(seen) : CreatedAt[f] <= CreatedAt[g]
    BY DEF LatestAreNewest
  <2>1. CASE MatchesNothing(raw)
    <3>1. ToSet(seen) = {}
      BY <1>4, <1>7, <2>1 DEF ToSet
    <3>2. QED
      BY <3>1
  <2>2. CASE ~ MatchesNothing(raw)
    <3> DEFINE q == Query(raw, 0)
    <3>1. q.sort = "created" /\ q.desc
      BY DEF Query
    <3>2. ~ Shuffled(raw)
      BY <3>1 DEF Shuffled
    <3>3. ToSet(seen) = {f \in AllOf(raw) : Place(f, raw) <= Len(seen)}
      BY <1>1, <1>5, <1>6, <2>2, <3>2, SeenIsPrefix
    <3>4. \A f \in AllOf(raw) : f \in Films /\ Place(f, raw) \in 1..n
      BY <1>1, RequestNumbers
    <3>5. ASSUME NEW f \in AllOf(raw) \ ToSet(seen), NEW g \in ToSet(seen)
          PROVE  CreatedAt[f] <= CreatedAt[g]
      <4>1. Place(g, raw) < Place(f, raw) /\ f \in Films /\ g \in Films
        BY <1>4, <3>3, <3>4
      <4>2. Before(g, f, q)
        BY <1>1, <3>3, <4>1, RequestNumbers
      <4>3. Column(f, q) = CreatedAt[f] /\ Column(g, q) = CreatedAt[g]
        BY <3>1 DEF Column
      <4>4. CreatedAt[f] \in Nat /\ CreatedAt[g] \in Nat
        BY <4>1, BrowseAssumption
      <4> HIDE DEF q
      <4>5. QED
        BY <3>1, <4>2, <4>3, <4>4 DEF Before, Null
    <3>6. QED
      BY <1>3, <2>2, <3>3, <3>5
  <2>3. QED
    BY <2>1, <2>2
<1>11. ViewAsCounted
  <2>1. ASSUME client.shown # <<>>, raw.route = "items", raw.start = 0, "Movie" \in raw.types,
               raw.ids = {}, raw.maxYear = 0, raw.isPlayed # "true", raw.isPlayed # "false"
        PROVE  Len(seen) = client.shown[raw.parent]
    <3>1. client.shown = CountItemsByLibrary /\ raw.parent \in Libraries
      BY <2>1 DEF Walk, Listing
    <3>2. raw.parent # 99 /\ raw.parent # 0
      BY <3>1, BrowseAssumption
    <3>3. ~ MatchesNothing(raw)
      <4>1. raw.ids # {99}
        BY <2>1
      <4>2. QED
        BY <2>1, <3>2, <4>1 DEF MatchesNothing, Junk
    <3>4. Len(seen) = n
      <4>1. Len(seen) = 0 \/ 0 + Len(seen) <= n
        BY <1>5, <1>6, <2>1, <3>3 DEF Seen
      <4>2. 0 + Len(seen) >= n
        BY <1>5, <1>6, <2>1, <3>3
      <4>3. QED
        BY <1>4, <4>1, <4>2
    <3>5. AllOf(raw) = {f \in present : LibraryOf[f] = raw.parent}
      <4>1. WantedFilms = AllOf(raw)
        BY <1>3, <3>3
      <4>2. ASSUME NEW f \in present PROVE Wanted(f, raw) <=> LibraryOf[f] = raw.parent
        BY <2>1, <3>2 DEF Wanted, Null
      <4>3. QED
        BY <4>1, <4>2 DEF WantedFilms
    <3>6. QED
      BY <3>1, <3>4, <3>5, CountedPerLibrary
  <2>2. "" # "true" /\ "" # "false"
    BY Zenon
  <2>3. QED
    BY <2>1, <2>2, Zenon DEF ViewAsCounted, Null
<1>12. QED
  BY <1>8, <1>9, <1>10, <1>11

\* While nothing is written, what a request asks for is what it was.
LEMMA SameTables ==
  ASSUME UNCHANGED <<present, played, resumable, lastPlayed>>
  PROVE  /\ CountItemsByLibrary' = CountItemsByLibrary
         /\ \A raw : AllOf(raw)' = AllOf(raw)
         /\ \A raw, seen : Seen(raw, seen)' = Seen(raw, seen)
         /\ \A raw, seen, page : OnPage(raw, seen, page)' = OnPage(raw, seen, page)
<1>1. \A q : Found(q)' = Found(q)
  BY DEF Found, Matches, StateMatches
<1>2. \A f, g, q : Before(f, g, q)' <=> Before(f, g, q)
  BY DEF Before, Column
<1>3. \A raw : AllOf(raw)' = AllOf(raw)
  BY <1>1 DEF AllOf
<1>4. ASSUME NEW f, NEW raw PROVE Place(f, raw)' = Place(f, raw)
  <2>1. Ahead(f, AllOf(raw), Query(raw, 0))' = Ahead(f, AllOf(raw), Query(raw, 0))
    BY <1>2, <1>3 DEF Ahead
  <2>2. QED
    BY <2>1 DEF Place, Rank
<1>5. CountItemsByLibrary' = CountItemsByLibrary
  BY DEF CountItemsByLibrary
<1>6. \A raw, seen : Seen(raw, seen)' = Seen(raw, seen)
  BY <1>3, <1>4 DEF Seen
<1>7. \A raw, seen, page : OnPage(raw, seen, page)' = OnPage(raw, seen, page)
  BY <1>3, <1>4 DEF OnPage
<1>8. QED
  BY <1>3, <1>5, <1>6, <1>7

LEMMA WalkStays ==
  ASSUME Fixed, Walk, [BrowseNext]_browseVars
  PROVE  Walk'
<1> USE DEF At
<1> SUFFICES ASSUME client'.clean PROVE Walk'
  BY DEF Walk
<1> DEFINE raw == client.raw
           n == Cardinality(AllOf(raw))
<1>1. Tables /\ Shape /\ client.start \in Nat /\ client.page \in Seq(Films) /\ client.seen \in Seq(Films)
  BY DEF Fixed, Activity
<1>2. Listing => raw \in Requests
  BY DEF Fixed, Activity
<1>3. <<>> \in Seq(Films) /\ Len(<<>>) = 0
  OBVIOUS
<1>4. ASSUME ScanFile \/ PlayerReport PROVE FALSE
  <2>1. client' = [client EXCEPT !.clean = FALSE]
    BY <1>1, <1>4, WriteMarks
  <2>2. client'.clean = FALSE
    BY <1>1, <2>1 DEF Shape
  <2>3. QED
    BY <2>2
<1>5. UNCHANGED <<present, played, resumable, lastPlayed>>
  BY <1>4
  DEF BrowseNext, browseVars, tables, catalogue, playback_state, OpenList, OpenViews, OpenView, OpenDetail, Handler, CountItems,
      ListItems, Views, GetItem, FindView, ListFilesByItem, ListStreams, Answer,
      Receive, StatementFails
<1>6. /\ CountItemsByLibrary' = CountItemsByLibrary
      /\ \A r : AllOf(r)' = AllOf(r)
      /\ \A r, seen : Seen(r, seen)' = Seen(r, seen)
      /\ \A r, seen, page : OnPage(r, seen, page)' = OnPage(r, seen, page)
  BY <1>5, SameTables
<1>7. ASSUME NEW r \in Requests PROVE Seen(r, <<>>)
  BY <1>3 DEF Seen
<1>8. ASSUME UNCHANGED client PROVE Walk'
  BY <1>6, <1>8 DEF Walk, Walking, Hopeless, Listing
<1>9. CASE OpenList
  <2>1. PICK r \in Requests :
          client' = [Nothing EXCEPT !.pc = IF MatchesNothing(r) THEN "answer" ELSE "count",
                                    !.raw = r, !.start = r.start]
    BY <1>9 DEF OpenList
  <2>2. /\ client'.pc = IF MatchesNothing(r) THEN "answer" ELSE "count"
        /\ client'.raw = r /\ client'.start = r.start
        /\ client'.page = <<>> /\ client'.seen = <<>> /\ client'.shown = <<>>
    BY <2>1 DEF Nothing
  <2>3. r.start \in Nat /\ Seen(r, <<>>)'
    BY <1>6, <1>7, BrowseAssumption
  <2>4. CASE MatchesNothing(r)
    BY <2>2, <2>4 DEF Walk, Hopeless
  <2>5. CASE ~ MatchesNothing(r)
    <3>1. client'.pc = "count" /\ r.start = r.start + Len(client'.seen)
      BY <1>3, <2>2, <2>3, <2>5
    <3>2. Walking'
      BY <2>2, <2>3, <3>1 DEF Walking
    <3>3. QED
      BY <2>2, <2>5, <3>1, <3>2 DEF Walk
  <2>6. QED
    BY <2>4, <2>5
<1>10. CASE OpenViews
  <2>1. client' = [Nothing EXCEPT !.pc = "views"]
    BY <1>10 DEF OpenViews
  <2>2. client'.pc = "views" /\ client'.page = <<>> /\ client'.seen = <<>> /\ client'.shown = <<>>
    BY <2>1 DEF Nothing
  <2>3. QED
    BY <2>2 DEF Walk, Listing
<1>11. CASE OpenView
  <2>1. PICK r \in Requests :
          /\ r.parent \in Libraries
          /\ client' = [client EXCEPT !.pc = IF MatchesNothing(r) THEN "answer" ELSE "count",
                                      !.raw = r, !.start = r.start]
    BY <1>11 DEF OpenView
  <2>2. client.pc = "viewed"
    BY <1>11 DEF OpenView
  <2>3. /\ client'.pc = IF MatchesNothing(r) THEN "answer" ELSE "count"
        /\ client'.raw = r /\ client'.start = r.start
        /\ client'.page = client.page /\ client'.seen = client.seen /\ client'.shown = client.shown
        /\ client'.clean = client.clean
    BY <1>1, <2>1 DEF Shape
  <2>4. /\ client.seen = <<>> /\ client.page = <<>>
        /\ client.shown # <<>> => client.shown = CountItemsByLibrary
    BY <2>2, <2>3 DEF Walk
  <2>5. r.start \in Nat /\ Seen(r, <<>>)'
    BY <1>6, <1>7, BrowseAssumption
  <2>6. client'.shown # <<>> => client'.shown = CountItemsByLibrary' /\ client'.raw.parent \in Libraries
    BY <1>6, <2>1, <2>3, <2>4
  <2>7. CASE MatchesNothing(r)
    BY <2>3, <2>4, <2>6, <2>7 DEF Walk, Hopeless
  <2>8. CASE ~ MatchesNothing(r)
    <3>1. client'.pc = "count" /\ r.start = r.start + Len(client'.seen)
      BY <1>3, <2>3, <2>4, <2>5, <2>8
    <3>2. Walking'
      BY <2>3, <2>4, <2>5, <3>1 DEF Walking
    <3>3. QED
      BY <2>3, <2>6, <2>8, <3>1, <3>2 DEF Walk
  <2>9. QED
    BY <2>7, <2>8
<1>12. CASE OpenDetail
  <2>1. PICK r : client' = [Nothing EXCEPT !.pc = "item", !.raw = r]
    BY <1>12 DEF OpenDetail
  <2>2. client'.pc = "item" /\ client'.shown = <<>>
    BY <2>1 DEF Nothing
  <2>3. QED
    BY <2>2 DEF Walk, Listing
<1>13. CASE CountItems
  <2>1. client.pc = "count" /\ Listing
    BY <1>13 DEF CountItems, Listing
  <2>2. Found(TheQuery) = AllOf(raw)
    BY StartChangesNothing DEF TheQuery
  <2>3. client' = [client EXCEPT !.total = n, !.page = <<>>,
                                 !.pc = IF n = 0 THEN "answer" ELSE "page"]
    BY <1>13, <2>2 DEF CountItems
  <2>4. /\ client'.pc = IF n = 0 THEN "answer" ELSE "page"
        /\ client'.raw = raw /\ client'.start = client.start /\ client'.total = n
        /\ client'.page = <<>> /\ client'.seen = client.seen /\ client'.shown = client.shown
        /\ client'.clean = client.clean
    BY <1>1, <2>3 DEF Shape
  <2>5. /\ client.shown # <<>> => client.shown = CountItemsByLibrary /\ raw.parent \in Libraries
        /\ ~ MatchesNothing(raw) /\ Walking
    BY <2>1, <2>4 DEF Walk, Hopeless
  <2>6. n = 0 => OnPage(raw, client.seen, <<>>)
    <3>1. Skipped(raw) + Len(client.seen) \in Nat
      BY <1>1, <1>2, <2>1, RequestNumbers
    <3>2. QED
      BY <1>3, <3>1 DEF OnPage, PageLength
  <2>7. Walking'
    <3>1. n' = n
      BY <1>6, <2>4
    <3>2. QED
      BY <1>6, <2>1, <2>4, <2>5, <2>6, <3>1 DEF Walking
  <2>8. QED
    BY <1>6, <2>4, <2>5, <2>7 DEF Walk
<1>14. CASE ListItems
  <2>1. client.pc = "page" /\ Listing
    BY <1>14 DEF ListItems, Listing
  <2>2. PICK order \in Orders(Found(TheQuery), TheQuery) :
          client' = [client EXCEPT !.pc = "answer", !.page = Page(order, TheQuery)]
    BY <1>14 DEF ListItems
  <2>3. /\ client'.pc = "answer" /\ client'.page = Page(order, TheQuery)
        /\ client'.raw = raw /\ client'.start = client.start /\ client'.total = client.total
        /\ client'.seen = client.seen /\ client'.shown = client.shown
        /\ client'.clean = client.clean
    BY <1>1, <2>2 DEF Shape
  <2>4. /\ client.shown # <<>> => client.shown = CountItemsByLibrary /\ raw.parent \in Libraries
        /\ ~ MatchesNothing(raw) /\ Walking
    BY <2>1, <2>3 DEF Walk, Hopeless
  <2>5. Offset(raw, client.start) = Skipped(raw) + Len(client.seen)
    <3>1. /\ client.start = raw.start + Len(client.seen)
          /\ raw.route = "latest" => client.seen = <<>>
      BY <2>1, <2>4 DEF Walking
    <3>2. QED
      BY <1>3, <3>1 DEF Offset, Skipped
  <2>6. OnPage(raw, client.seen, client'.page)
    BY <1>1, <1>2, <2>1, <2>2, <2>3, <2>5, PageFollows DEF TheQuery
  <2>7. Walking'
    <3>1. n' = n /\ OnPage(raw, client.seen, client.page)'
      BY <1>6, <2>3, <2>6
    <3>2. QED
      BY <1>6, <2>1, <2>3, <2>4, <2>6 DEF Walking
  <2>8. QED
    BY <1>6, <2>3, <2>4, <2>7 DEF Walk
<1>15. CASE Views
  <2>1. client.pc = "views"
    BY <1>15 DEF Views
  <2>2. client' = [client EXCEPT !.pc = "viewed", !.shown = CountItemsByLibrary]
    BY <1>15 DEF Views
  <2>3. /\ client'.pc = "viewed" /\ client'.page = client.page /\ client'.seen = client.seen
        /\ client'.shown = CountItemsByLibrary /\ client'.clean = client.clean
    BY <1>1, <2>2 DEF Shape
  <2>4. QED
    BY <1>6, <2>1, <2>3 DEF Walk, Listing
<1>16. ASSUME GetItem \/ FindView \/ ListFilesByItem \/ ListStreams \/ Answer
       PROVE  Walk'
  <2>1. /\ client'.pc \in {"files", "isview", "notfound", "isaview", "streams", "decide", "decided"}
        /\ client'.shown = client.shown /\ client'.clean = client.clean
    BY <1>1, <1>16 DEF Shape, GetItem, FindView, ListFilesByItem, ListStreams, Answer
  <2>2. QED
    BY <1>6, <2>1 DEF Walk, Listing
<1>17. CASE Receive
  <2>1. client.pc = "answer" /\ Listing
    BY <1>17 DEF Receive, Listing
  <2>2. PICK more \in BOOLEAN :
          /\ more <=> raw.route # "latest" /\ client.page # <<>> /\ Len(client.seen \o client.page) < client.total
          /\ client' = [client EXCEPT !.pc = IF more THEN "count" ELSE "listed",
                                      !.seen = client.seen \o client.page,
                                      !.start = client.start + Len(client.page),
                                      !.page = <<>>]
    BY <1>17 DEF Receive
  <2>3. /\ client'.pc = IF more THEN "count" ELSE "listed"
        /\ client'.raw = raw /\ client'.start = client.start + Len(client.page)
        /\ client'.page = <<>> /\ client'.seen = client.seen \o client.page
        /\ client'.shown = client.shown /\ client'.clean = client.clean
    BY <1>1, <2>2 DEF Shape
  <2>4. /\ client.shown # <<>> => client.shown = CountItemsByLibrary /\ raw.parent \in Libraries
        /\ IF MatchesNothing(raw) THEN Hopeless ELSE Walking
    BY <2>1, <2>3 DEF Walk
  <2>5. CASE MatchesNothing(raw)
    <3>1. client.page = <<>> /\ client.seen = <<>>
      BY <2>4, <2>5 DEF Hopeless
    <3>2. client'.seen = <<>> /\ client'.pc = "listed"
      BY <2>2, <2>3, <3>1
    <3>3. QED
      BY <1>6, <2>3, <2>4, <2>5, <3>2 DEF Walk, Hopeless
  <2>6. CASE ~ MatchesNothing(raw)
    <3>1. /\ client.start = raw.start + Len(client.seen) /\ client.total = n
          /\ OnPage(raw, client.seen, client.page) /\ Seen(raw, client.seen)
      BY <2>1, <2>4, <2>6 DEF Walking
    <3>2. /\ Seen(raw, client.seen \o client.page)
          /\ client.page = <<>> => Skipped(raw) + Len(client.seen) >= n
      BY <1>1, <1>2, <2>1, <3>1, SeenGrows
    <3>3. /\ Len(client.seen) \in Nat /\ Len(client.page) \in Nat
          /\ Len(client.seen \o client.page) = Len(client.seen) + Len(client.page)
      BY <1>1, ConcatProperties, LenProperties
    <3>4. raw.start \in Nat /\ n \in Nat /\ Skipped(raw) \in Nat
      BY <1>1, <1>2, <2>1, RequestNumbers
    <3>5. /\ Len(client'.seen) = Len(client.seen) + Len(client.page)
          /\ client'.start = raw.start + Len(client'.seen)
      <4>1. Len(client'.seen) = Len(client.seen) + Len(client.page)
        BY <2>3, <3>3
      <4>2. client'.start = (raw.start + Len(client.seen)) + Len(client.page)
        BY <2>3, <3>1
      <4>3. \A a, b, c \in Nat : (a + b) + c = a + (b + c)
        OBVIOUS
      <4>4. raw.start \in Nat /\ Len(client.seen) \in Nat /\ Len(client.page) \in Nat
        BY <3>3, <3>4
      <4>5. (raw.start + Len(client.seen)) + Len(client.page) = raw.start + (Len(client.seen) + Len(client.page))
        BY <4>3, <4>4, Zenon
      <4>6. QED
        BY <4>1, <4>2, <4>5, Zenon
    <3>6. more => client'.raw.route # "latest"
      BY <2>2, <2>3
    <3>7. ~ more => raw.route = "latest" \/ Skipped(raw) + Len(client'.seen) >= n
      <4> SUFFICES ASSUME ~ more, raw.route # "latest"
                   PROVE  Skipped(raw) + Len(client'.seen) >= n
        OBVIOUS
      <4>1. CASE client.page = <<>>
        <5>1. Len(client.page) = 0 /\ Skipped(raw) + Len(client.seen) >= n
          BY <1>3, <3>2, <4>1
        <5>2. \A b, c, k, m \in Nat : \A d : d = b + c /\ c = 0 /\ k + b >= m => k + d >= m
          OBVIOUS
        <5>3. QED
          BY <3>3, <3>4, <3>5, <5>1, <5>2, Zenon
      <4>2. CASE client.page # <<>>
        <5>1. ~ (Len(client.seen \o client.page) < n)
          BY <2>2, <3>1, <4>2
        <5>2. \A b, c, k, m \in Nat : \A d, l : l = b + c /\ d = b + c /\ ~ (l < m) => k + d >= m
          OBVIOUS
        <5>3. QED
          BY <3>3, <3>4, <3>5, <5>1, <5>2, Zenon
      <4>3. QED
        BY <4>1, <4>2
    <3>8. n' = n /\ Seen(raw, client.seen \o client.page)'
      BY <1>6, <2>3, <3>2
    <3>9. Walking'
      BY <1>6, <2>3, <3>2, <3>5, <3>6, <3>7 DEF Walking
    <3>10. QED
      BY <1>6, <2>3, <2>4, <2>6, <3>9 DEF Walk
  <2>7. QED
    BY <2>5, <2>6
<1>18. CASE StatementFails
  <2>1. client.pc = "page" /\ Listing
    BY <1>18 DEF StatementFails, Listing
  <2>2. client' = [client EXCEPT !.pc = "count", !.page = <<>>]
    BY <1>18 DEF StatementFails
  <2>3. /\ client'.pc = "count" /\ client'.page = <<>>
        /\ client'.raw = raw /\ client'.start = client.start
        /\ client'.seen = client.seen /\ client'.shown = client.shown
        /\ client'.clean = client.clean
    BY <1>1, <2>2 DEF Shape
  <2>4. /\ client.shown # <<>> => client.shown = CountItemsByLibrary /\ raw.parent \in Libraries
        /\ ~ MatchesNothing(raw) /\ Walking
    BY <2>1, <2>3 DEF Walk, Hopeless
  <2>5. Walking'
    BY <1>6, <2>1, <2>3, <2>4 DEF Walking
  <2>6. QED
    BY <1>6, <2>3, <2>4, <2>5 DEF Walk
<1>19. CASE UNCHANGED browseVars
  BY <1>8, <1>19 DEF browseVars
<1>20. QED
  BY <1>4, <1>9, <1>10, <1>11, <1>12, <1>13, <1>14, <1>15, <1>16, <1>17, <1>18, <1>19
  DEF BrowseNext, Handler

THEOREM WalksAreComplete == BrowseSpec => []WalkComplete
<1>1. BrowseInit => Fixed /\ Walk
  <2>1. BrowseInit => client.pc = "home" /\ client.shown = <<>>
    BY DEF BrowseInit, Nothing
  <2>2. QED
    BY <2>1, InitFixed DEF Walk, Listing
<1>2. Fixed /\ Walk /\ [BrowseNext]_browseVars => (Fixed /\ Walk)'
  BY TablesStay, ActivityStays, WalkStays DEF Fixed
<1>3. Fixed /\ Walk => WalkComplete
  BY WalkShows
<1>4. QED
  BY <1>1, <1>2, <1>3, PTL DEF BrowseSpec
=============================================================================
