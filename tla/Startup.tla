------------------------------ MODULE Startup ------------------------------
(***************************************************************************)
(* Processes of several releases that start against one database           *)
(* (cmd/reelixd/main.go, internal/db/db.go, internal/db/migrate.go): each  *)
(* waits for the database within its budget, migrates the schema under the *)
(* session lock, checks ffprobe, reaps the jobs and is then ready to       *)
(* listen.  Any statement may fail, any process may be signalled or        *)
(* killed, at any point.                                                   *)
(*                                                                         *)
(* A migration is a record [version, sum].  The schema is the sequence of  *)
(* the migrations that were run on it, the ledger the rows of              *)
(* schema_migrations.                                                      *)
(***************************************************************************)
EXTENDS Naturals, Sequences, SequencesExt

CONSTANTS Procs,
          Fleets,       \* what each process may run: the migrations of its release
          Budget, InitialDelay, MaxDelay,   \* the retry policy
          PingTimeout,  \* connectTimeout of one attempt
          MaxBoots,     \* bound on how often a process starts
          MaxFaults     \* bound on kills and on statements that fail

ASSUME StartupAssumption ==
  /\ Procs # {} /\ Fleets # {}
  /\ \A fleet \in Fleets : fleet \in [Procs -> Seq([version : Nat, sum : STRING])]
  /\ {Budget, InitialDelay, MaxDelay, PingTimeout} \subseteq Nat
  /\ "free" \notin Procs

VARIABLES pc,        \* process -> where run() is; "off", "failed" and "exited" are ends
          binary,    \* process -> its release
          wait,      \* process -> the state of waitForDatabase
          applied,   \* process -> the rows it has loaded or added
          tx,        \* process -> its open transaction
          signalled, \* process -> its context is cancelled
          reason,    \* process -> why it failed
          db,        \* the server: "down", "up" or one that "refuses" the password
          lock,      \* the session that holds the advisory lock
          ledger, schema,
          boots, faults

local == <<pc, binary, wait, applied, tx, signalled, reason>>
store == <<lock, ledger, schema>>
startup == <<local, db, store, boots, faults>>

Free == "free"
NoTx == [body |-> <<>>, rows |-> {}]

(* readyAt is when the server came up, on the process's own clock.         *)
NoWait == [waited |-> 0, delay |-> InitialDelay, readyAt |-> 0]

StartupInit ==
  /\ pc = [p \in Procs |-> "off"]
  /\ binary \in Fleets
  /\ wait = [p \in Procs |-> NoWait]
  /\ applied = [p \in Procs |-> {}]
  /\ tx = [p \in Procs |-> NoTx]
  /\ signalled = [p \in Procs |-> FALSE]
  /\ reason = [p \in Procs |-> "none"]
  /\ db \in {"down", "up", "refuses"}
  /\ lock = Free /\ ledger = {} /\ schema = <<>>
  /\ boots = 0 /\ faults = 0

Ended == {"off", "failed", "exited"}

Goto(p, label) == pc' = [pc EXCEPT ![p] = label]

Fail(p, why) == Goto(p, "failed") /\ reason' = [reason EXCEPT ![p] = why]

(* The supervisor starts the container, again if it ended. *)
Boot(p) ==
  /\ pc[p] \in Ended /\ boots < MaxBoots
  /\ boots' = boots + 1
  /\ Goto(p, "ping")
  /\ wait' = [wait EXCEPT ![p] = NoWait]
  /\ signalled' = [signalled EXCEPT ![p] = FALSE]
  /\ reason' = [reason EXCEPT ![p] = "none"]
  /\ applied' = [applied EXCEPT ![p] = {}]
  /\ UNCHANGED <<binary, tx, db, store, faults>>

----------------------------------------------------------------------------
(* waitForDatabase.                                                        *)

Quiet == UNCHANGED <<binary, applied, tx, signalled, db, store, boots, faults>>

(* One attempt: a server that is up or refuses answers at once, also one   *)
(* that comes up while the attempt is under way.                           *)
Ping(p) ==
  /\ pc[p] = "ping" \/ (pc[p] = "dialling" /\ db = "up" /\ ~ signalled[p])
  /\ \/ db = "up" /\ ~ signalled[p] /\ Goto(p, "lock") /\ wait' = [wait EXCEPT ![p] = NoWait] /\ UNCHANGED reason
     \/ db = "refuses" /\ ~ signalled[p] /\ Fail(p, "refused") /\ UNCHANGED wait
     \/ (db = "down" \/ signalled[p]) /\ Goto(p, "dialling") /\ UNCHANGED <<wait, reason>>
  /\ Quiet

(* There is time left to sleep for the delay. *)

MaySleep(w) == w.waited + w.delay <= Budget

(* An attempt fails, after some of its time: give up, or sleep, which a    *)
(* signal cuts short.                                                      *)
PingFails(p) ==
  /\ pc[p] = "dialling"
  /\ \E t \in 0..PingTimeout :
       LET w == [wait[p] EXCEPT !.waited = @ + t] IN
       /\ wait' = [wait EXCEPT ![p] = w]
       /\ IF ~ MaySleep(w) THEN Fail(p, "budget")
          ELSE IF signalled[p] THEN Fail(p, "signal")
          ELSE Goto(p, "sleep") /\ UNCHANGED reason
  /\ Quiet

Doubled_Unbounded(delay) == delay * 2

Doubled(delay) == IF delay * 2 > MaxDelay THEN MaxDelay ELSE delay * 2

Sleep(p) ==
  /\ pc[p] = "sleep"
  /\ \/ signalled[p] /\ Fail(p, "signal") /\ UNCHANGED wait
     \/ /\ ~ signalled[p] /\ Goto(p, "ping") /\ UNCHANGED reason
        /\ wait' = [wait EXCEPT ![p].waited = @ + wait[p].delay, ![p].delay = Doubled(@)]
  /\ Quiet

(* The server starts to accept connections. *)
DatabaseUp ==
  /\ db = "down" /\ db' = "up"
  /\ wait' = [p \in Procs |-> [wait[p] EXCEPT !.readyAt = wait[p].waited]]
  /\ UNCHANGED <<pc, binary, applied, tx, signalled, reason, store, boots, faults>>

----------------------------------------------------------------------------
(* Migrate.                                                                *)

(* pg_advisory_lock waits for the session that has it. *)

LockFree(p) == lock = Free

Lock(p) ==
  /\ pc[p] = "lock" /\ ~ signalled[p]
  /\ LockFree(p)
  /\ lock' = p
  /\ Goto(p, "load")
  /\ UNCHANGED <<binary, wait, applied, tx, signalled, reason, db, ledger, schema, boots, faults>>

(* verifyChecksums: every row is a migration of this release, unchanged.   *)
Verified(rows, release) == rows \subseteq ToSet(release)

(* The ledger is created if need be and read. *)
LoadApplied(p) ==
  /\ pc[p] = "load" /\ ~ signalled[p]
  /\ applied' = [applied EXCEPT ![p] = ledger]
  /\ IF Verified(ledger, binary[p]) THEN Goto(p, "apply") /\ UNCHANGED reason
     ELSE Goto(p, "unlock") /\ reason' = [reason EXCEPT ![p] = "mismatch"]
  /\ UNCHANGED <<binary, wait, tx, signalled, db, store, boots, faults>>

Versions(rows) == {r.version : r \in rows}

Pending(p) == {i \in DOMAIN binary[p] : binary[p][i].version \notin Versions(applied[p])}

(* applyOne, its first statement: begin, and the migration's own SQL.      *)
RunMigration(p) ==
  /\ pc[p] = "apply" /\ ~ signalled[p]
  /\ IF Pending(p) = {} THEN Goto(p, "unlock") /\ UNCHANGED tx
     ELSE Goto(p, "record") /\ tx' = [tx EXCEPT ![p].body = <<binary[p][Min(Pending(p))]>>]
  /\ UNCHANGED <<binary, wait, applied, signalled, reason, db, store, boots, faults>>

(* The row, whose key waits for another transaction's and must be new.     *)
Record(p) ==
  /\ pc[p] = "record" /\ ~ signalled[p]
  /\ LET m == Head(tx[p].body) IN
     /\ \A q \in Procs \ {p} : m.version \notin Versions(tx[q].rows)
     /\ IF m.version \notin Versions(ledger)
        THEN Goto(p, "commit") /\ tx' = [tx EXCEPT ![p].rows = {m}] /\ UNCHANGED reason
        ELSE Goto(p, "unlock") /\ tx' = [tx EXCEPT ![p] = NoTx]
               /\ reason' = [reason EXCEPT ![p] = "conflict"]
  /\ UNCHANGED <<binary, wait, applied, signalled, db, store, boots, faults>>

(* What a transaction leaves when it ends; the ledger's row is in it.      *)
Committed_Unrecorded(t) == schema' = schema \o t.body /\ UNCHANGED ledger

Committed(t) == ledger' = ledger \cup t.rows /\ schema' = schema \o t.body

Commit(p) ==
  /\ pc[p] = "commit" /\ ~ signalled[p]
  /\ Committed(tx[p])
  /\ applied' = [applied EXCEPT ![p] = @ \cup tx[p].rows]
  /\ tx' = [tx EXCEPT ![p] = NoTx]
  /\ Goto(p, "apply")
  /\ UNCHANGED <<binary, wait, signalled, reason, db, lock, boots, faults>>

(* The commit happens and its answer is lost: the process gives up.        *)
CommitLost(p) ==
  /\ pc[p] = "commit" /\ faults < MaxFaults
  /\ faults' = faults + 1
  /\ Committed(tx[p])
  /\ tx' = [tx EXCEPT ![p] = NoTx]
  /\ Goto(p, "unlock") /\ reason' = [reason EXCEPT ![p] = "fault"]
  /\ UNCHANGED <<binary, wait, applied, signalled, db, lock, boots>>

(* The deferred unlock, which no signal stops; then on, or out.            *)

Unlocked(p) == Free

AfterUnlock_Ignored(p) == "probe"

AfterUnlock(p) == IF reason[p] = "none" THEN "probe" ELSE "failed"

Unlock(p) ==
  /\ pc[p] = "unlock"
  /\ lock' = Unlocked(p)
  /\ Goto(p, AfterUnlock(p))
  /\ UNCHANGED <<binary, wait, applied, tx, signalled, reason, db, ledger, schema, boots, faults>>

----------------------------------------------------------------------------
(* The rest of run.                                                        *)

(* ffprobe's version, then the reap of the jobs.                           *)
Prepare(p) ==
  /\ pc[p] \in {"probe", "reap"} /\ ~ signalled[p]
  /\ Goto(p, IF pc[p] = "probe" THEN "reap" ELSE "listen")
  /\ UNCHANGED <<binary, wait, applied, tx, signalled, reason, db, store, boots, faults>>

Why(p) == IF signalled[p] THEN "signal" ELSE "fault"

Holding == {"load", "apply", "record", "commit"}

(* A statement or ffprobe fails, of itself or because the context is       *)
(* cancelled: the transaction is rolled back, the lock released, and the   *)
(* process ends.                                                           *)
StatementFails(p) ==
  /\ pc[p] \in Holding \cup {"lock", "probe", "reap"}
  /\ \/ signalled[p] /\ UNCHANGED faults
     \/ faults < MaxFaults /\ faults' = faults + 1
  /\ tx' = [tx EXCEPT ![p] = NoTx]
  /\ Goto(p, IF pc[p] \in Holding THEN "unlock" ELSE "failed")
  /\ reason' = [reason EXCEPT ![p] = Why(p)]
  /\ UNCHANGED <<binary, wait, applied, signalled, db, store, boots>>

(* The first signal cancels the context.  Both signals stay registered     *)
(* until run returns, so that a further one changes nothing.               *)
Signal(p) ==
  /\ pc[p] \notin Ended /\ ~ signalled[p]
  /\ signalled' = [signalled EXCEPT ![p] = TRUE]
  /\ UNCHANGED <<pc, binary, wait, applied, tx, reason, db, store, boots, faults>>

(* The server ends the session of a process that is gone: its transaction  *)
(* and its lock with it.                                                   *)
Kill(p) ==
  /\ pc[p] \notin Ended /\ faults < MaxFaults
  /\ faults' = faults + 1
  /\ Goto(p, "off")
  /\ tx' = [tx EXCEPT ![p] = NoTx]
  /\ lock' = IF lock = p THEN Free ELSE lock
  /\ UNCHANGED <<binary, wait, applied, signalled, reason, db, ledger, schema, boots>>

(* The process's own steps. *)
Run(p) ==
  \/ Ping(p) \/ PingFails(p) \/ Sleep(p)
  \/ Lock(p) \/ LoadApplied(p) \/ RunMigration(p) \/ Record(p) \/ Commit(p) \/ Unlock(p)
  \/ Prepare(p) \/ StatementFails(p)

StartupNext ==
  \/ DatabaseUp
  \/ \E p \in Procs : Boot(p) \/ Run(p) \/ CommitLost(p) \/ Signal(p) \/ Kill(p)

StartupSpec == StartupInit /\ [][StartupNext]_startup

----------------------------------------------------------------------------
(* Properties.                                                             *)

(* The schema is at all times what one release would have produced: its    *)
(* migrations up to some version, in their order, each once, never a       *)
(* mixture of two that disagree; and the ledger says exactly that, after   *)
(* any kill, failed statement or lost answer of a commit.                  *)
LedgerIsSchema ==
  /\ ToSet(schema) = ledger
  /\ \A i, j \in DOMAIN schema : i # j => schema[i].version # schema[j].version
  /\ \E p \in Procs : IsPrefix(schema, binary[p])

(* Where a process is that has been through Migrate. *)
Migrated == {"probe", "reap", "listen", "serving", "draining", "closing"}

(* A process is past its migrations only with all of them applied, as its  *)
(* release has them, and stays so while it serves, however many other      *)
(* releases start: "serving requests against a half-migrated schema is     *)
(* worse than failing to start".                                           *)
ReadyMeansMigrated ==
  \A p \in Procs : pc[p] \in Migrated => ToSet(binary[p]) \subseteq ToSet(schema)

(* Starting together never makes a process fail: none finds a migration    *)
(* of its own recorded by another between reading the ledger and adding to *)
(* it, and none sees a mismatch when all are of one release.               *)
StartsDoNotCollide ==
  \A p \in Procs :
    /\ reason[p] # "conflict"
    /\ reason[p] = "mismatch" => \E q \in Procs : binary[q] # binary[p]

(* Whatever a process waits for the database, it is never past its budget  *)
(* by more than the one attempt that was under way.  And one that nobody   *)
(* signals gives up only when the server came up, if it did, too late for  *)
(* the attempt after it: within one pause and one attempt of the end of    *)
(* the budget.                                                             *)
PatienceIsBudget ==
  \A p \in Procs :
    /\ wait[p].waited <= Budget + PingTimeout
    /\ pc[p] = "failed" /\ reason[p] = "budget" /\ ~ signalled[p] /\ db = "up" =>
         wait[p].readyAt + MaxDelay + PingTimeout > Budget
=============================================================================
