------------------------------ MODULE Playback ------------------------------
(***************************************************************************)
(* How far one user is through one item: the playback_state row, written   *)
(* by the reports clients send while they play                             *)
(* (internal/compat/jellyfin/playback.go, internal/service/playback.go,    *)
(* internal/repository/playback.go).                                       *)
(*                                                                         *)
(* A report is handled in two round trips, one that reads the runtime the  *)
(* thresholds are judged against and one that writes, and the handlers of  *)
(* two reports may interleave: two devices play the same item, or a client *)
(* sends its next report before the last one was answered.  Positions and  *)
(* runtimes are whole seconds; a runtime of 0 is a file not yet probed.    *)
(* Time is the number of times the clock was read; a date of 0 is NULL.    *)
(***************************************************************************)
EXTENDS Integers, FiniteSets

CONSTANTS
  Playbacks,    \* playbacks, each on a device of its own
  Handlers,     \* reports that may be in flight at once
  Positions,    \* positions a client may report
  Runtimes,     \* what a probe may say of the file
  MaxTicks,     \* bound: progress reports
  MaxRetries,   \* bound: stop reports sent again
  MaxProbes,    \* bound: scans that change the runtime
  MaxAborts     \* bound: reports cut short between the two round trips

ASSUME PositionsInt == Positions \subseteq Int
ASSUME RuntimesNat == Runtimes \subseteq Nat
ASSUME Limits ==
  MaxTicks \in Nat /\ MaxRetries \in Nat /\ MaxProbes \in Nat /\ MaxAborts \in Nat

VARIABLES
  runtime,    \* media_files.duration_seconds
  row,        \* the playback_state row, a NoRow before the first report
  playback,   \* each playback: "new", "playing", "stopped" or "failed"
  stopAt,     \* the position each was stopped at
  phase,      \* each handler: "idle", "read" or "write"
  report,     \* the report it handles
  judged,     \* what Evaluate made of it
  dated,      \* the time it was judged at, its last_played_at
  clock,      \* the last time the clock was read
  shadow,     \* history: the row if no write were ever suppressed
  final,      \* history: {position} of a stop sent while no report was in
              \* flight, until another report is sent or this one is cut short
  ticks, retries, probes, aborts

clients == <<playback, stopAt>>
handlers == <<phase, report, judged, dated>>
times == <<dated, clock>>
counters == <<ticks, retries, probes, aborts>>
history == <<shadow, final>>
vars == <<runtime, row, clients, handlers, clock, history, counters>>

NoRow ==
  [exists |-> FALSE, position |-> 0, raw |-> 0, played |-> FALSE, count |-> 0, lastPlayed |-> 0]
NoReport == [stopped |-> FALSE, position |-> 0]

------------------------------------------------------------------------------
(* Evaluate. *)

\* resumeMaxFraction, resumeMinFraction and resumeMinRuntime.
Judgeable(position, length) == position > 0 /\ length > 0
Finished(position, length) ==
  Judgeable(position, length) /\ 100 * position > 90 * length

Resumable_Credits(position, length) ==
  Judgeable(position, length) /\ length >= 300 /\ 100 * position >= 5 * length
Resumable(position, length) ==
  /\ Judgeable(position, length)
  /\ ~Finished(position, length)
  /\ 100 * position >= 5 * length
  /\ length >= 300

Evaluate(position, length) ==
  [resume    |-> IF Resumable(position, length) THEN position ELSE 0,
   completed |-> Finished(position, length)]

------------------------------------------------------------------------------

Init ==
  /\ runtime \in Runtimes
  /\ row = NoRow
  /\ playback = [p \in Playbacks |-> "new"]
  /\ stopAt = [p \in Playbacks |-> 0]
  /\ phase = [h \in Handlers |-> "idle"]
  /\ report = [h \in Handlers |-> NoReport]
  /\ judged = [h \in Handlers |-> Evaluate(0, 0)]
  /\ dated = [h \in Handlers |-> 0]
  /\ clock = 0
  /\ shadow = NoRow
  /\ final = {}
  /\ ticks = 0 /\ retries = 0 /\ probes = 0 /\ aborts = 0

------------------------------------------------------------------------------
(* What clients send. *)

\* handlePlaybackStarted only logs.
Started(p) ==
  /\ playback[p] = "new"
  /\ playback' = [playback EXCEPT ![p] = "playing"]
  /\ UNCHANGED <<runtime, row, stopAt, handlers, clock, history, counters>>

\* No report is in flight.
Quiet == \A h \in Handlers : phase[h] = "idle"

Send(h, position, stopped) ==
  /\ phase[h] = "idle"
  /\ phase' = [phase EXCEPT ![h] = "read"]
  /\ report' = [report EXCEPT ![h] = [stopped |-> stopped, position |-> position]]
  /\ final' = IF stopped /\ Quiet THEN {position} ELSE {}

Progress(h, p, position) ==
  /\ playback[p] = "playing"
  /\ Send(h, position, FALSE)
  /\ ticks < MaxTicks
  /\ ticks' = ticks + 1
  /\ UNCHANGED <<runtime, row, clients, judged, times, shadow, retries, probes, aborts>>

Stopped(h, p, position) ==
  /\ playback[p] = "playing"
  /\ playback' = [playback EXCEPT ![p] = "stopped"]
  /\ stopAt' = [stopAt EXCEPT ![p] = position]
  /\ Send(h, position, TRUE)
  /\ UNCHANGED <<runtime, row, judged, times, shadow, counters>>

\* The answer got lost, and the client sends the same stop again.
StoppedAgain(h, p) ==
  /\ playback[p] = "stopped"
  /\ Send(h, stopAt[p], TRUE)
  /\ retries < MaxRetries
  /\ retries' = retries + 1
  /\ UNCHANGED <<runtime, row, clients, judged, times, shadow, ticks, probes, aborts>>

\* A report with Failed set records nothing.
FailedStop(p) ==
  /\ playback[p] = "playing"
  /\ playback' = [playback EXCEPT ![p] = "failed"]
  /\ UNCHANGED <<runtime, row, stopAt, handlers, clock, history, counters>>

------------------------------------------------------------------------------
(* Record. *)

\* The runtime is read, the report judged and dated; dates are therefore in the
\* order of the judgements, whatever the order of the writes.
ReadRuntime(h) ==
  /\ phase[h] = "read"
  /\ judged' = [judged EXCEPT ![h] = Evaluate(report[h].position, runtime)]
  /\ clock' = clock + 1
  /\ dated' = [dated EXCEPT ![h] = clock']
  /\ phase' = [phase EXCEPT ![h] = "write"]
  /\ UNCHANGED <<runtime, row, clients, report, history, counters>>

\* 1 for a stop that completes a viewing.
PlayCount_EveryReport(h) == IF judged[h].completed THEN 1 ELSE 0
PlayCount(h) == IF report[h].stopped /\ judged[h].completed THEN 1 ELSE 0

PlayedAfter(r, h) == r.played \/ judged[h].completed

\* The row an INSERT or an unsuppressed UPDATE of r leaves.
Upserted(r, h) ==
  [exists     |-> TRUE,
   position   |-> judged[h].resume,
   raw        |-> report[h].position,
   played     |-> PlayedAfter(r, h),
   count      |-> r.count + PlayCount(h),
   lastPlayed |-> dated[h]]

\* The WHERE clause: a report that changes nothing but the date writes nothing.
Changes_RawOnly(r, h) == r.raw # report[h].position
Changes_Forward(r, h) == report[h].position > r.raw \/ PlayCount(h) # 0
Changes(r, h) ==
  \/ r.raw # report[h].position
  \/ r.position # judged[h].resume
  \/ judged[h].completed /\ ~r.played
  \/ PlayCount(h) # 0

\* CHECK (raw_position_seconds >= 0).
Storable(position) == position >= 0

Report(h) ==
  /\ phase[h] = "write"
  /\ Storable(report[h].position)
  /\ row' = IF row.exists /\ ~Changes(row, h) THEN row ELSE Upserted(row, h)
  /\ shadow' = Upserted(shadow, h)
  /\ phase' = [phase EXCEPT ![h] = "idle"]
  /\ UNCHANGED <<runtime, clients, report, judged, times, final, counters>>

\* A negative position: the report is refused.
ReportRefused(h) ==
  /\ phase[h] = "write"
  /\ ~Storable(report[h].position)
  /\ phase' = [phase EXCEPT ![h] = "idle"]
  /\ UNCHANGED <<runtime, row, clients, report, judged, times, history, counters>>

\* The client hangs up or the process dies before the write.
Abort(h) ==
  /\ phase[h] # "idle"
  /\ aborts < MaxAborts
  /\ aborts' = aborts + 1
  /\ phase' = [phase EXCEPT ![h] = "idle"]
  /\ final' = {}
  /\ UNCHANGED <<runtime, row, clients, report, judged, times, shadow, ticks, retries, probes>>

\* A scan probes the file, or a replaced file, anew.
Probe(length) ==
  /\ length # runtime
  /\ probes < MaxProbes
  /\ probes' = probes + 1
  /\ runtime' = length
  /\ UNCHANGED <<row, clients, handlers, clock, history, ticks, retries, aborts>>

------------------------------------------------------------------------------

Next ==
  \/ \E p \in Playbacks : Started(p)
  \/ \E h \in Handlers, p \in Playbacks, position \in Positions : Progress(h, p, position)
  \/ \E h \in Handlers, p \in Playbacks, position \in Positions : Stopped(h, p, position)
  \/ \E h \in Handlers, p \in Playbacks : StoppedAgain(h, p)
  \/ \E p \in Playbacks : FailedStop(p)
  \/ \E h \in Handlers : ReadRuntime(h)
  \/ \E h \in Handlers : Report(h)
  \/ \E h \in Handlers : ReportRefused(h)
  \/ \E h \in Handlers : Abort(h)
  \/ \E length \in Runtimes : Probe(length)

Spec == Init /\ [][Next]_vars

------------------------------------------------------------------------------
(* Properties. *)

Row ==
  [exists : BOOLEAN, position : Nat, raw : Nat, played : BOOLEAN, count : Nat, lastPlayed : Nat]

\* Every variable stays in its type.
TypeOK ==
  /\ runtime \in Runtimes
  /\ row \in Row /\ shadow \in Row
  /\ playback \in [Playbacks -> {"new", "playing", "stopped", "failed"}]
  /\ stopAt \in [Playbacks -> Positions \cup {0}]
  /\ phase \in [Handlers -> {"idle", "read", "write"}]
  /\ report \in [Handlers ->
       [stopped : BOOLEAN, position : Positions \cup {0}]]
  /\ judged \in [Handlers -> [resume : Nat, completed : BOOLEAN]]
  /\ dated \in [Handlers -> Nat] /\ clock \in Nat
  /\ final \in SUBSET (Positions \cup {0})
  /\ ticks \in Nat /\ retries \in Nat /\ probes \in Nat /\ aborts \in Nat

Completed == {p \in Playbacks : playback[p] = "stopped" /\ Finished(stopAt[p], runtime)}

AllButDate(r) == <<r.exists, r.position, r.raw, r.played, r.count>>

\* Suppressing a write costs nothing but its date: under any interleaving the row
\* holds the positions, the mark and the count it would hold if every report were
\* written.  The date it keeps is older than the one a reader would have seen.
SuppressionCostsOnlyDates == AllButDate(row) = AllButDate(shadow)

\* Nothing un-marks a watched item or forgets a viewing.
PlayedSticky ==
  [][(row.played => row'.played) /\ row.count <= row'.count]_vars

\* A counted viewing is a watched item, and the resume position is either none
\* or the position last reported, even when the runtime changed in between.
RowCoherent ==
  /\ row.count > 0 => row.played
  /\ row.position \in {0, row.raw}

\* While the runtime stands, the resume position lies between five and ninety per
\* cent of an item of five minutes or more.
ResumeWithinThresholds ==
  probes = 0 /\ row.position > 0 =>
    /\ runtime >= 300
    /\ 100 * row.position \in 5 * runtime .. 90 * runtime

\* While the runtime stands, once no report is in flight the count is the number
\* of playbacks that ended complete, on however many devices at once: a report cut
\* short loses at most one of them, one sent again adds at most one.
CountAccounted ==
  probes = 0 /\ Quiet =>
    /\ Cardinality(Completed) <= row.count + aborts
    /\ row.count <= Cardinality(Completed) + retries

\* A stop sent when the reports before it were answered decides what is stored,
\* whatever they said, until the next report: also one that goes back.
StopDecides ==
  \A s \in final : Quiet /\ s >= 0 =>
    /\ row.raw = s
    /\ probes = 0 => row.position = Evaluate(s, runtime).resume
=============================================================================
