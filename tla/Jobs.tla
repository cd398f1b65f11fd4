-------------------------------- MODULE Jobs --------------------------------
(***************************************************************************)
(* Background jobs: the jobs table (internal/repository/job.go), the three *)
(* services that start a job and run it in a goroutine                     *)
(* (internal/service/{scan,identity,metadata}.go), and the process that    *)
(* hosts the goroutines, which reaps what an earlier process left behind   *)
(* before it listens (cmd/reelixd/main.go).                                *)
(*                                                                         *)
(* Every SQL statement commits on its own.  A statement can fail in two    *)
(* ways the caller cannot tell apart: it never ran ("unsent"), or it ran   *)
(* and the answer was lost ("lost"), because the connection or the         *)
(* request's context went away.                                            *)
(***************************************************************************)
EXTENDS Naturals

CONSTANTS
  Libraries,
  Jobs,        \* the job ids that may be created
  Processes,   \* reelixd processes sharing one database
  Overlap,     \* TRUE: a process may start while another still runs
  MaxItems,    \* bound: items one job works through
  MaxFaults,   \* bound: statements that fail
  MaxCrashes   \* bound: processes that stop

ASSUME OverlapBoolean == Overlap \in BOOLEAN
ASSUME BoundsNat == MaxItems \in Nat /\ MaxFaults \in Nat /\ MaxCrashes \in Nat

VARIABLES
  state,    \* jobs.state, "absent" before the row is inserted
  slot,     \* (jobs.library_id, jobs.kind)
  current,  \* jobs.progress_current
  total,    \* jobs.progress_total
  pc,       \* where the job's goroutine is
  host,     \* the process whose memory that goroutine lives in
  at,       \* the goroutine's loop index: items already handled
  of,       \* the goroutine's item count
  phase,    \* [Processes -> {"down", "starting", "serving"}]
  faults,   \* statements that have failed so far
  crashes   \* processes that have stopped so far

row    == <<state, slot, current, total>>
runner == <<pc, host, at, of>>
bounds == <<faults, crashes>>
vars   == <<state, slot, current, total, pc, host, at, of, phase, faults, crashes>>

Kinds == {"library_scan", "library_identify", "library_metadata"}
Slots == Libraries \X Kinds

\* The partial unique index covers exactly these states.
Active   == {"queued", "running"}
Terminal == {"completed", "failed"}

\* "none": no goroutine yet, or none ever.  "succeeded" and "erred" are a
\* goroutine whose body returned and whose Finish has not run.
PC   == {"none", "spawned", "selecting", "working", "succeeded", "erred", "gone"}
Live == {"spawned", "selecting", "working", "succeeded", "erred"}

Board == INSTANCE JobBoard WITH Jobs <- Jobs, Slots <- Slots, state <- state, slot <- slot

------------------------------------------------------------------------------

\* Outcomes of one statement; each failure spends the fault budget.
Outcomes == {"ok"} \cup (IF faults < MaxFaults THEN {"unsent", "lost"} ELSE {})
Spend(out) == faults' = IF out = "ok" THEN faults ELSE faults + 1
Applied(out) == out # "unsent"

IsScan(j) == slot[j][2] = "library_scan"

\* What the partial unique index allows in: one active row per slot.
SlotFree_RunningOnly(s) == \A k \in Jobs : state[k] = "running" => slot[k] # s
SlotFree_Unchecked(s) == TRUE
SlotFree(s) == \A k \in Jobs : state[k] \in Active => slot[k] # s

\* The rows FailOrphaned selects, and what it makes of them.
Orphaned(j) == state[j] \in Active
Reaped == "failed"

\* A request reaches Start only once the listener is up.
Listening(p) == phase[p] = "serving"

\* Where an error leaves the goroutine: on its way to Finish(failed).
AfterError_Return == "gone"
AfterError == "erred"

\* Where the final progress write leaves a scan.
AfterLastProgress_Ignored(out) == "succeeded"
AfterLastProgress(out) == IF out = "ok" THEN "succeeded" ELSE AfterError

Init ==
  /\ state = [j \in Jobs |-> "absent"]
  /\ slot \in {[j \in Jobs |-> s] : s \in Slots}
  /\ current = [j \in Jobs |-> 0]
  /\ total = [j \in Jobs |-> 0]
  /\ pc = [j \in Jobs |-> "none"]
  /\ host \in {[j \in Jobs |-> p] : p \in Processes}
  /\ at = [j \in Jobs |-> 0]
  /\ of = [j \in Jobs |-> 0]
  /\ phase = [p \in Processes |-> "down"]
  /\ faults = 0
  /\ crashes = 0

------------------------------------------------------------------------------
(* The process. *)

\* db.Open, Migrate and the ffprobe check, none of which touches a job.
Boot(p) ==
  /\ phase[p] = "down"
  /\ Overlap \/ \A q \in Processes : phase[q] = "down"
  /\ phase' = [phase EXCEPT ![p] = "starting"]
  /\ UNCHANGED <<row, runner, bounds>>

\* FailOrphaned, before the listener binds.  A failure ends the process.
Reap(p, out) ==
  /\ phase[p] = "starting"
  /\ state' = IF Applied(out)
              THEN [j \in Jobs |-> IF Orphaned(j) THEN Reaped ELSE state[j]]
              ELSE state
  /\ phase' = [phase EXCEPT ![p] = IF out = "ok" THEN "serving" ELSE "down"]
  /\ Spend(out)
  /\ UNCHANGED <<slot, current, total, runner, crashes>>

\* The process exits or dies; its goroutines go with it.  A graceful shutdown
\* ends the same way: it drains requests, never jobs.
Stop(p) ==
  /\ phase[p] # "down"
  /\ crashes < MaxCrashes
  /\ crashes' = crashes + 1
  /\ phase' = [phase EXCEPT ![p] = "down"]
  /\ pc' = [j \in Jobs |-> IF host[j] = p /\ pc[j] \in Live THEN "gone" ELSE pc[j]]
  /\ UNCHANGED <<row, host, at, of, faults>>

------------------------------------------------------------------------------
(* Start: the INSERT under the request's context, then the go statement.    *)

\* The unique index refuses a second active row for the slot (ErrConflict).
\* If the answer is lost the row is there and Start returns the error: no
\* goroutine is launched for it.
Start(p, j, s, out) ==
  /\ Listening(p)
  /\ state[j] = "absent"
  /\ SlotFree(s)
  /\ out # "unsent"
  /\ state' = [state EXCEPT ![j] = "queued"]
  /\ slot' = [slot EXCEPT ![j] = s]
  /\ pc' = [pc EXCEPT ![j] = IF out = "ok" THEN "spawned" ELSE "none"]
  /\ host' = [host EXCEPT ![j] = p]
  /\ Spend(out)
  /\ UNCHANGED <<current, total, at, of, phase, crashes>>

------------------------------------------------------------------------------
(* run: MarkRunning, the body, Finish.                                      *)

MarkRunning(j, out) ==
  /\ pc[j] = "spawned"
  /\ state' = IF state[j] = "queued" /\ Applied(out)
              THEN [state EXCEPT ![j] = "running"] ELSE state
  /\ pc' = [pc EXCEPT ![j] = IF state[j] = "queued" /\ out = "ok"
                             THEN "selecting" ELSE "gone"]
  /\ Spend(out)
  /\ UNCHANGED <<slot, current, total, host, at, of, phase, crashes>>

\* UpdateProgress writes only while the row is running.
Progress(j, c, t, out) ==
  LET hit == state[j] = "running" /\ Applied(out)
  IN  /\ current' = IF hit THEN [current EXCEPT ![j] = c] ELSE current
      /\ total' = IF hit THEN [total EXCEPT ![j] = t] ELSE total
      /\ Spend(out)

NoProgress == UNCHANGED <<current, total, faults>>

\* The body finds its items: a scan walks the roots and records the count, a
\* pass runs its selection query.  Either can fail and fail the job.
Select(j, n, out) ==
  /\ pc[j] = "selecting"
  /\ \/ /\ IsScan(j)
        /\ Progress(j, 0, n, out)
        /\ pc' = [pc EXCEPT ![j] = IF out = "ok" THEN "working" ELSE AfterError]
     \/ /\ ~IsScan(j)
        /\ out = "ok"
        /\ NoProgress
        /\ pc' = [pc EXCEPT ![j] = "working"]
  /\ at' = [at EXCEPT ![j] = 0]
  /\ of' = [of EXCEPT ![j] = n]
  /\ UNCHANGED <<state, slot, host, phase, crashes>>

\* Any error the body returns: the walk, the selection, or, once an item of a
\* pass has been counted, the last one too, a rate limit or a write.  A scan's
\* persist errors are counted and never returned.
BodyFails(j) ==
  /\ \/ pc[j] = "selecting"
     \/ pc[j] = "working" /\ ~IsScan(j) /\ at[j] > 0
  /\ pc' = [pc EXCEPT ![j] = AfterError]
  /\ UNCHANGED <<row, host, at, of, phase, bounds>>

\* One file of a scan; progress goes out on a timer and its failure is the
\* scan's failure.
ScanItem(j, due, out) ==
  /\ pc[j] = "working" /\ IsScan(j) /\ at[j] < of[j]
  /\ IF due THEN Progress(j, at[j], of[j], out) ELSE out = "ok" /\ NoProgress
  /\ IF out = "ok" THEN /\ at' = [at EXCEPT ![j] = @ + 1]
                        /\ UNCHANGED pc
                   ELSE /\ pc' = [pc EXCEPT ![j] = AfterError]
                        /\ UNCHANGED at
  /\ UNCHANGED <<state, slot, host, of, phase, crashes>>

\* One item of an identify or metadata pass; a failed progress write is only
\* logged.
PassItem(j, out) ==
  /\ pc[j] = "working" /\ ~IsScan(j) /\ at[j] < of[j]
  /\ Progress(j, at[j] + 1, of[j], out)
  /\ at' = [at EXCEPT ![j] = @ + 1]
  /\ UNCHANGED <<state, slot, pc, host, of, phase, crashes>>

\* The loop is over.  A scan records the final count and can fail on it.
BodyEnds(j, out) ==
  /\ pc[j] = "working" /\ at[j] = of[j]
  /\ IF IsScan(j) THEN Progress(j, of[j], of[j], out) ELSE out = "ok" /\ NoProgress
  /\ pc' = [pc EXCEPT ![j] = AfterLastProgress(out)]
  /\ UNCHANGED <<state, slot, host, at, of, phase, crashes>>

\* Finish names the row by id alone: it does not ask what state the row is in.
Finish(j, out) ==
  /\ pc[j] \in {"succeeded", "erred"}
  /\ state' = IF Applied(out)
              THEN [state EXCEPT ![j] = IF pc[j] = "succeeded" THEN "completed" ELSE "failed"]
              ELSE state
  /\ pc' = [pc EXCEPT ![j] = "gone"]
  /\ Spend(out)
  /\ UNCHANGED <<slot, current, total, host, at, of, phase, crashes>>

------------------------------------------------------------------------------

\* Everything the goroutine of job j may do next.
Run(j) ==
  \/ \E out \in Outcomes : MarkRunning(j, out)
  \/ \E n \in 0..MaxItems, out \in Outcomes : Select(j, n, out)
  \/ BodyFails(j)
  \/ \E due \in BOOLEAN, out \in Outcomes : ScanItem(j, due, out)
  \/ \E out \in Outcomes : PassItem(j, out)
  \/ \E out \in Outcomes : BodyEnds(j, out)
  \/ \E out \in Outcomes : Finish(j, out)

Next ==
  \/ \E p \in Processes : Boot(p)
  \/ \E p \in Processes, out \in Outcomes : Reap(p, out)
  \/ \E p \in Processes : Stop(p)
  \/ \E p \in Processes, j \in Jobs, s \in Slots, out \in Outcomes : Start(p, j, s, out)
  \/ \E j \in Jobs : Run(j)

Spec == Init /\ [][Next]_vars

\* The scheduler runs a runnable goroutine, the container runtime restarts a
\* stopped process (restart: unless-stopped), and starting up reaches Reap.
\* Requests carry no fairness: nobody has to ask for a job.
Fairness ==
  /\ \A j \in Jobs : WF_vars(Run(j))
  /\ WF_vars(\E p \in Processes : Boot(p))
  /\ WF_vars(\E p \in Processes, out \in Outcomes : Reap(p, out))

FairSpec == Spec /\ Fairness

------------------------------------------------------------------------------
(* Properties. *)

\* Every variable stays in its type.
TypeOK ==
  /\ state \in [Jobs -> {"absent"} \cup Active \cup Terminal]
  /\ slot \in [Jobs -> Slots]
  /\ current \in [Jobs -> Nat]
  /\ total \in [Jobs -> Nat]
  /\ pc \in [Jobs -> PC]
  /\ host \in [Jobs -> Processes]
  /\ at \in [Jobs -> Nat]
  /\ of \in [Jobs -> Nat]
  /\ phase \in [Processes -> {"down", "starting", "serving"}]
  /\ faults \in Nat
  /\ crashes \in Nat

\* Two goroutines never work on the same library for the same kind of job: the
\* index is on rows, so this needs every goroutine's row to stay active for as
\* long as the goroutine lives.
OneRunnerPerSlot ==
  \A j, k \in Jobs :
    j # k /\ pc[j] \in Live /\ pc[k] \in Live => slot[j] # slot[k]

\* What startup relies on when it reaps: no row it is about to fail has a
\* goroutine behind it.
ReapFindsOnlyOrphans ==
  \A p \in Processes :
    phase[p] = "starting" =>
      \A j \in Jobs : state[j] \in Active => pc[j] \notin Live

\* A scan reported completed reports every discovered file as processed.
CompletedScanIsComplete ==
  \A j \in Jobs :
    IsScan(j) /\ state[j] = "completed" => current[j] = total[j]

\* An outcome, once recorded, is never replaced: a job reported dead is not
\* later reported completed.
OutcomeIsFinal ==
  [][\A j \in Jobs : state[j] \in Terminal => state'[j] = state[j]]_vars

\* The jobs machinery implements the board the API shows.
ImplementsBoard == Board!Spec

\* As long as no statement fails, every accepted job gets an outcome, crashes
\* and restarts included.
JobsSettle ==
  \A j \in Jobs : state[j] = "queued" ~> state[j] \in Terminal \/ faults > 0
=============================================================================
