--------------------------- MODULE ProcessProofs ---------------------------
(***************************************************************************)
(* Proofs about Process, and so about the migrations of Startup as they    *)
(* run under processes that also serve, drain and end: for any number of   *)
(* processes, releases, boots and faults.                                  *)
(*                                                                         *)
(* The argument.  The session lock is held from the load of the ledger to  *)
(* the unlock, so between the two nobody else changes ledger or schema;    *)
(* what was loaded is what there is, and was verified to be part of this   *)
(* release.  As the migrations of a release are numbered without a gap,    *)
(* part of it is its beginning, and the migration under way is the next.   *)
(*                                                                         *)
(* Two more arguments need nothing of the migrations.  How things end: a   *)
(* pinger lives as long as its handler, and a request is only cut where    *)
(* the drain has timed out.  How long a process waits: before an attempt   *)
(* it is within its budget, before a pause also at the pause's end; and    *)
(* an attempt under way began before the server was up.                    *)
(***************************************************************************)
EXTENDS Process, SequenceTheorems, TLAPS

(* The versions of every release are 1, 2, ..., as those of the repository *)
(* are (internal/db/migrations).  The loader asks only that they differ:   *)
(* with a gap that a later release fills, the schema would not be the      *)
(* beginning of any.                                                       *)
Numbered ==
  \A fleet \in Fleets : \A p \in Procs : \A i \in DOMAIN fleet[p] : fleet[p][i].version = i

Migrations == [version : Nat, sum : STRING]

Labels == Ended \cup Holding \cup Migrated \cup {"ping", "dialling", "sleep", "lock", "unlock"}

Reasons == {"none", "refused", "signal", "budget", "mismatch", "conflict", "fault", "timeout"}

Locked == Holding \cup {"unlock"}
Loaded == {"apply", "record", "commit"}

Types ==
  /\ binary \in Fleets
  /\ pc \in [Procs -> Labels]
  /\ tx \in [Procs -> [body : Seq(Migrations), rows : SUBSET Migrations]]
  /\ applied \in [Procs -> SUBSET Migrations]
  /\ reason \in [Procs -> Reasons]
  /\ lock \in Procs \cup {Free}
  /\ ledger \in SUBSET Migrations
  /\ schema \in Seq(Migrations)

(* The schema is the beginning of the release. *)
Begins(release) ==
  /\ Len(schema) <= Len(release)
  /\ \A i \in 1..Len(schema) : schema[i] = release[i]

NextOf(p) == binary[p][Len(schema) + 1]

Exclusive == \A p \in Procs : pc[p] \in Locked => lock = p

Recorded == ToSet(schema) = ledger

SomeRelease == \E p \in Procs : Begins(binary[p])

LoadedIsCurrent ==
  \A p \in Procs : pc[p] \in Loaded => applied[p] = ledger /\ Begins(binary[p])

NextUnderWay ==
  \A p \in Procs :
    /\ pc[p] \in {"record", "commit"} =>
         Len(schema) < Len(binary[p]) /\ tx[p].body = <<NextOf(p)>>
    /\ pc[p] = "commit" => tx[p].rows = {NextOf(p)}

Whole(p) == ToSet(binary[p]) \subseteq ledger

Finished ==
  \A p \in Procs : pc[p] \in Migrated \/ (pc[p] = "unlock" /\ reason[p] = "none") => Whole(p)

IInv ==
  /\ Types /\ Exclusive /\ Recorded /\ SomeRelease
  /\ LoadedIsCurrent /\ NextUnderWay /\ Finished /\ StartsDoNotCollide

LEMMA Releases ==
  ASSUME binary \in Fleets
  PROVE  \A p \in Procs : binary[p] \in Seq(Migrations)
BY StartupAssumption DEF Migrations

(* In a release without gaps, a schema that begins some release and whose  *)
(* migrations are all in this one begins this one.                         *)
LEMMA VerifiedBegins ==
  ASSUME Numbered, Types, Recorded, SomeRelease,
         NEW p \in Procs, Verified(ledger, binary[p])
  PROVE  Begins(binary[p])
<1>1. PICK q \in Procs : Begins(binary[q])
  BY DEF SomeRelease
<1>2. binary[p] \in Seq(Migrations) /\ binary[q] \in Seq(Migrations) /\ schema \in Seq(Migrations)
  BY Releases DEF Types
<1>3. ASSUME NEW i \in 1..Len(schema)
      PROVE  i \in 1..Len(binary[p]) /\ schema[i] = binary[p][i]
  <2>1. schema[i] = binary[q][i] /\ i \in DOMAIN binary[q] /\ i \in DOMAIN schema
    BY <1>1, <1>2, <1>3 DEF Begins
  <2>2. binary[q][i].version = i
    BY <2>1 DEF Numbered, Types
  <2>3. schema[i] \in ledger
    BY <2>1 DEF Recorded, ToSet
  <2>4. PICK j \in DOMAIN binary[p] : binary[p][j] = schema[i]
    BY <2>3 DEF Verified, ToSet
  <2>5. binary[p][j].version = j
    BY <2>4 DEF Numbered, Types
  <2> QED
    BY <2>1, <2>2, <2>4, <2>5, <1>2
<1>4. Len(schema) <= Len(binary[p])
  <2>1. CASE Len(schema) = 0
    BY <2>1, <1>2
  <2>2. CASE Len(schema) # 0
    <3>1. Len(schema) \in 1..Len(schema)
      BY <2>2, <1>2
    <3> QED BY <3>1, <1>3, <1>2
  <2> QED BY <2>1, <2>2
<1> QED BY <1>3, <1>4 DEF Begins

(* What is pending is what the schema lacks. *)
LEMMA PendingIsRest ==
  ASSUME Numbered, Types, Recorded,
         NEW p \in Procs, Begins(binary[p]), applied[p] = ledger
  PROVE  Pending(p) = (Len(schema) + 1)..Len(binary[p])
<1>1. binary[p] \in Seq(Migrations) /\ schema \in Seq(Migrations)
  BY Releases DEF Types
<1>2. \A i \in 1..Len(binary[p]) : binary[p][i].version = i
  BY <1>1 DEF Numbered, Types
<1>3. ASSUME NEW i \in 1..Len(binary[p])
      PROVE  i \in Versions(ledger) <=> i <= Len(schema)
  <2>1. ASSUME i <= Len(schema) PROVE i \in Versions(ledger)
    <3>1. i \in DOMAIN schema /\ schema[i] = binary[p][i]
      BY <2>1, <1>1 DEF Begins
    <3>2. schema[i] \in ledger
      BY <3>1 DEF Recorded, ToSet
    <3>3. schema[i].version = i
      BY <3>1, <1>2
    <3> QED BY <3>2, <3>3 DEF Versions
  <2>2. ASSUME i \in Versions(ledger) PROVE i <= Len(schema)
    <3>1. PICK r \in ledger : r.version = i
      BY <2>2 DEF Versions
    <3>2. PICK k \in DOMAIN schema : schema[k] = r
      BY <3>1 DEF Recorded, ToSet
    <3>3. k \in 1..Len(schema) /\ k \in 1..Len(binary[p]) /\ schema[k] = binary[p][k]
      BY <3>2, <1>1 DEF Begins
    <3> QED BY <3>1, <3>2, <3>3, <1>2
  <2> QED BY <2>1, <2>2
<1>4. DOMAIN binary[p] = 1..Len(binary[p])
  BY <1>1
<1>5. Pending(p) = {i \in 1..Len(binary[p]) : i \notin Versions(ledger)}
  BY <1>2, <1>4 DEF Pending
<1>6. Len(schema) \in Nat /\ Len(binary[p]) \in Nat
  BY <1>1
<1> QED BY <1>3, <1>5, <1>6

(* Steps that leave schema and ledger alone: all that matters is where     *)
(* they put a process.                                                     *)
LEMMA Calm ==
  ASSUME IInv, Types',
         UNCHANGED <<binary, ledger, schema>>,
         \A p \in Procs : pc'[p] \in Locked => lock' = p,
         \A p \in Procs : pc'[p] \in Loaded =>
           pc'[p] = pc[p] /\ applied'[p] = applied[p] /\ tx'[p] = tx[p],
         \A p \in Procs : pc'[p] = "unlock" /\ reason'[p] = "none" =>
           pc[p] = "unlock" /\ reason[p] = "none",
         \A p \in Procs : pc'[p] \in Migrated =>
           pc[p] \in Migrated \/ (pc[p] = "unlock" /\ reason[p] = "none"),
         \A p \in Procs : reason'[p] \in {"conflict", "mismatch"} => reason'[p] = reason[p]
  PROVE  IInv'
<1>1. Exclusive' /\ Recorded' /\ SomeRelease'
  BY DEF IInv, Exclusive, Recorded, SomeRelease, Begins
<1>2. LoadedIsCurrent'
  BY DEF IInv, LoadedIsCurrent, Begins
<1>3. NextUnderWay'
  BY DEF IInv, NextUnderWay, NextOf, Loaded
<1>4. Finished'
  BY DEF IInv, Finished, Whole
<1>5. StartsDoNotCollide'
  <2>1. \A p \in Procs : reason[p] # "conflict"
                       /\ (reason[p] = "mismatch" => \E q \in Procs : binary[q] # binary[p])
    BY DEF IInv, StartsDoNotCollide
  <2>2. binary' = binary
    OBVIOUS
  <2>3. ASSUME NEW p \in Procs PROVE reason'[p] # "conflict"
    BY <2>1
  <2>4. ASSUME NEW p \in Procs, reason'[p] = "mismatch"
        PROVE  \E q \in Procs : binary'[q] # binary'[p]
    <3>1. reason[p] = "mismatch"
      BY <2>4
    <3>2. PICK q \in Procs : binary[q] # binary[p]
      BY <2>1, <3>1
    <3> QED BY <2>2, <3>2
  <2> QED BY <2>3, <2>4 DEF StartsDoNotCollide
<1> QED BY <1>1, <1>2, <1>3, <1>4, <1>5 DEF IInv

----------------------------------------------------------------------------
(* The steps that touch what was loaded, or the schema.                    *)

(* The labels the steps below go to. *)
LEMMA LabelsAre ==
  {"load", "apply", "record", "commit", "unlock", "lock", "off", "failed"} \subseteq Labels
BY DEF Labels, Ended, Holding

(* The database as it was created. *)
LEMMA NothingYet ==
  /\ <<>> \in Seq(Migrations) /\ Len(<<>>) = 0 /\ ToSet(<<>>) = {}
  /\ \A s \in Seq(Migrations) : Len(<<>>) <= Len(s) /\ 1..Len(<<>>) = {}
<1>1. <<>> \in Seq(Migrations)
  OBVIOUS
<1>2. Len(<<>>) = 0
  BY <1>1, EmptySeq
<1>3. DOMAIN <<>> = 1..0
  BY <1>1, <1>2, LenProperties
<1>4. 1..0 = {}
  BY SMT
<1>5. ToSet(<<>>) = {}
  BY <1>3, <1>4 DEF ToSet
<1>6. \A s \in Seq(Migrations) : Len(s) \in Nat
  OBVIOUS
<1>7. \A s \in Seq(Migrations) : 0 <= Len(s)
  BY <1>6
<1> QED BY <1>1, <1>2, <1>4, <1>5, <1>7

LEMMA InitInv == ASSUME Numbered, Init PROVE IInv
<1> USE DEF Init, StartupInit
<1>1. Types
  <2>1. <<>> \in Seq(Migrations) /\ {} \in SUBSET Migrations
    BY NothingYet
  <2>2. NoTx \in [body : Seq(Migrations), rows : SUBSET Migrations]
    BY <2>1 DEF NoTx
  <2>3. pc \in [Procs -> Labels]
    BY LabelsAre
  <2>0. reason \in [Procs -> Reasons]
    BY DEF Reasons
  <2>4. applied \in [Procs -> SUBSET Migrations]
    BY <2>1
  <2>5. tx \in [Procs -> [body : Seq(Migrations), rows : SUBSET Migrations]]
    BY <2>2
  <2>6. binary \in Fleets /\ lock \in Procs \cup {Free} /\ ledger \in SUBSET Migrations
        /\ schema \in Seq(Migrations)
    BY <2>1
  <2> QED BY <2>0, <2>3, <2>4, <2>5, <2>6 DEF Types
<1>3. Recorded
  BY NothingYet DEF Recorded
<1>4. SomeRelease
  <2>1. PICK p \in Procs : TRUE
    BY StartupAssumption
  <2>2. schema = <<>> /\ binary[p] \in Seq(Migrations)
    BY Releases
  <2> HIDE DEF Init, StartupInit
  <2>3. Begins(binary[p])
    BY <2>2, NothingYet DEF Begins
  <2> QED BY <2>3 DEF SomeRelease
<1>5. Exclusive /\ LoadedIsCurrent /\ NextUnderWay /\ Finished /\ StartsDoNotCollide
  BY DEF Exclusive, Locked, Holding, LoadedIsCurrent, Loaded, NextUnderWay, Finished, Migrated,
         StartsDoNotCollide
<1> QED BY <1>1, <1>3, <1>4, <1>5 DEF IInv

LEMMA LoadStep ==
  ASSUME Numbered, IInv, NEW p \in Procs, LoadApplied(p)
  PROVE  IInv'
<1> USE DEF LoadApplied, Goto, store
<1>1. Types'
  <2>1. pc' \in [Procs -> Labels]
    BY LabelsAre DEF IInv, Types
  <2>3. reason' \in [Procs -> Reasons]
    BY DEF IInv, Types, Reasons
  <2>2. applied' \in [Procs -> SUBSET Migrations]
    BY DEF IInv, Types
  <2> QED BY <2>1, <2>2, <2>3 DEF IInv, Types
<1>2. Exclusive'
  BY DEF IInv, Types, Exclusive, Locked, Holding
<1>3. Recorded' /\ SomeRelease'
  BY DEF IInv, Recorded, SomeRelease, Begins
<1>4. LoadedIsCurrent'
  <2>1. pc'[p] = "apply" => Begins(binary[p])
    BY VerifiedBegins DEF IInv, Types
  <2> QED BY <2>1 DEF IInv, Types, LoadedIsCurrent, Loaded, Begins
<1>5. NextUnderWay'
  BY DEF IInv, Types, NextUnderWay, NextOf
<1>6. Finished'
  BY DEF IInv, Types, Finished, Migrated, Whole
<1>7. StartsDoNotCollide'
  <2>1. ASSUME ~ Verified(ledger, binary[p]) PROVE \E q \in Procs : binary[q] # binary[p]
    <3>1. PICK q \in Procs : Begins(binary[q])
      BY DEF IInv, SomeRelease
    <3>2. ledger \subseteq ToSet(binary[q])
      <4>1. binary[q] \in Seq(Migrations) /\ schema \in Seq(Migrations)
        BY Releases DEF IInv, Types
      <4>2. \A i \in DOMAIN schema : i \in DOMAIN binary[q] /\ schema[i] = binary[q][i]
        BY <3>1, <4>1 DEF Begins
      <4> QED BY <4>2 DEF IInv, Recorded, ToSet
    <3>3. binary[q] # binary[p]
      BY <2>1, <3>2 DEF Verified
    <3> QED BY <3>3
  <2>2. binary' = binary
    OBVIOUS
  <2>3. \A q \in Procs : reason[q] # "conflict"
                       /\ (reason[q] = "mismatch" => \E r \in Procs : binary[r] # binary[q])
    BY DEF IInv, StartsDoNotCollide
  <2>4. CASE Verified(ledger, binary[p])
    BY <2>2, <2>3, <2>4 DEF StartsDoNotCollide
  <2>5. CASE ~ Verified(ledger, binary[p])
    <3>1. reason' = [reason EXCEPT ![p] = "mismatch"]
      BY <2>5
    <3>2. \A q \in Procs : reason'[q] = IF q = p THEN "mismatch" ELSE reason[q]
      BY <3>1 DEF IInv, Types
    <3> QED BY <2>1, <2>2, <2>3, <2>5, <3>2 DEF StartsDoNotCollide
  <2> QED BY <2>4, <2>5
<1> QED BY <1>1, <1>2, <1>3, <1>4, <1>5, <1>6, <1>7 DEF IInv

LEMMA RunStep ==
  ASSUME Numbered, IInv, NEW p \in Procs, RunMigration(p)
  PROVE  IInv'
<1> USE DEF RunMigration, Goto, store
<1>1. Pending(p) = (Len(schema) + 1)..Len(binary[p])
  BY PendingIsRest DEF IInv, LoadedIsCurrent, Loaded
<1>2. schema \in Seq(Migrations) /\ binary[p] \in Seq(Migrations) /\ Begins(binary[p])
  BY Releases DEF IInv, Types, LoadedIsCurrent, Loaded
<1>3. Len(schema) \in Nat /\ Len(binary[p]) \in Nat
  BY <1>2
<1>4. CASE Pending(p) = {}
  <2>1. pc' = [pc EXCEPT ![p] = "unlock"] /\ UNCHANGED <<tx, binary, applied, reason, lock, ledger, schema>>
    BY <1>4
  <2>2. Types'
    <3>1. pc' \in [Procs -> Labels]
      BY <2>1, LabelsAre DEF IInv, Types
    <3> QED BY <2>1, <3>1 DEF IInv, Types
  <2>3. Len(schema) = Len(binary[p])
    <3>1. ~ Len(schema) + 1 <= Len(binary[p])
      <4>1. Len(schema) + 1 <= Len(binary[p]) => Len(binary[p]) \in Pending(p)
        BY <1>1, <1>3
      <4> QED BY <4>1, <1>4
    <3> QED BY <3>1, <1>2, <1>3 DEF Begins
  <2>4. Whole(p)
    <3>1. \A i \in DOMAIN binary[p] : i \in DOMAIN schema /\ schema[i] = binary[p][i]
      BY <2>3, <1>2 DEF Begins
    <3> QED BY <3>1 DEF Whole, ToSet, IInv, Recorded
  <2>5. Exclusive' /\ LoadedIsCurrent' /\ NextUnderWay'
    BY <2>1 DEF IInv, Types, Exclusive, Locked, Holding, LoadedIsCurrent, Loaded, Begins, NextUnderWay, NextOf
  <2>6. Finished'
    BY <2>1, <2>4 DEF IInv, Types, Finished, Migrated, Whole
  <2>7. Recorded' /\ SomeRelease' /\ StartsDoNotCollide'
    BY <2>1 DEF IInv, Recorded, SomeRelease, Begins, StartsDoNotCollide
  <2> QED BY <2>2, <2>5, <2>6, <2>7 DEF IInv
<1>5. CASE Pending(p) # {}
  <2>1. Len(schema) < Len(binary[p]) /\ Min(Pending(p)) = Len(schema) + 1
    <3>1. Len(schema) + 1 \in Pending(p)
      BY <1>1, <1>3, <1>5
    <3>2. \A y \in Pending(p) : Len(schema) + 1 <= y
      BY <1>1, <1>3
    <3>3. \A x \in Pending(p) : (\A y \in Pending(p) : x <= y) => x = Len(schema) + 1
      BY <3>1, <3>2, <1>1, <1>3
    <3>4. Min(Pending(p)) = Len(schema) + 1
      BY <3>1, <3>2, <3>3 DEF Min
    <3> QED BY <3>1, <3>4, <1>1, <1>3
  <2>2. /\ pc' = [pc EXCEPT ![p] = "record"]
        /\ tx' = [tx EXCEPT ![p].body = <<NextOf(p)>>]
        /\ UNCHANGED <<binary, applied, reason, lock, ledger, schema>>
    BY <1>5, <2>1 DEF NextOf
  <2>3. NextOf(p) \in Migrations
    BY <1>2, <1>3, <2>1 DEF NextOf
  <2>4. Types'
    <3>1. pc' \in [Procs -> Labels]
      BY <2>2, LabelsAre DEF IInv, Types
    <3>2. <<NextOf(p)>> \in Seq(Migrations)
      BY <2>3
    <3>3. tx' \in [Procs -> [body : Seq(Migrations), rows : SUBSET Migrations]]
      <4>1. tx \in [Procs -> [body : Seq(Migrations), rows : SUBSET Migrations]]
        BY DEF IInv, Types
      <4> QED BY <2>2, <3>2, <4>1
    <3>4. /\ binary \in Fleets /\ applied \in [Procs -> SUBSET Migrations] /\ reason \in [Procs -> Reasons]
          /\ lock \in Procs \cup {Free} /\ ledger \in SUBSET Migrations /\ schema \in Seq(Migrations)
      BY DEF IInv, Types
    <3>5. /\ binary' \in Fleets /\ applied' \in [Procs -> SUBSET Migrations] /\ reason' \in [Procs -> Reasons]
          /\ lock' \in Procs \cup {Free} /\ ledger' \in SUBSET Migrations /\ schema' \in Seq(Migrations)
      BY <2>2, <3>4
    <3> QED BY <3>1, <3>3, <3>5 DEF Types
  <2>5. Exclusive' /\ LoadedIsCurrent'
    BY <2>2 DEF IInv, Types, Exclusive, Locked, Holding, LoadedIsCurrent, Loaded, Begins
  <2>6. NextUnderWay'
    BY <2>1, <2>2 DEF IInv, Types, NextUnderWay, NextOf
  <2>7. Finished'
    BY <2>2 DEF IInv, Types, Finished, Migrated, Whole
  <2>8. Recorded' /\ SomeRelease' /\ StartsDoNotCollide'
    BY <2>2 DEF IInv, Recorded, SomeRelease, Begins, StartsDoNotCollide
  <2> QED BY <2>4, <2>5, <2>6, <2>7, <2>8 DEF IInv
<1> QED BY <1>4, <1>5
(* The next migration of a release that the schema begins is a new one.    *)
LEMMA NextIsNew ==
  ASSUME Numbered, Types, Recorded,
         NEW p \in Procs, Begins(binary[p]), Len(schema) < Len(binary[p])
  PROVE  /\ NextOf(p) \in Migrations /\ NextOf(p) \in ToSet(binary[p])
         /\ NextOf(p).version \notin Versions(ledger)
<1>1. binary[p] \in Seq(Migrations) /\ schema \in Seq(Migrations)
  BY Releases DEF Types
<1>2. \A i \in 1..Len(binary[p]) : binary[p][i].version = i
  BY <1>1 DEF Numbered, Types
<1>3. Len(schema) \in Nat /\ Len(binary[p]) \in Nat /\ Len(schema) + 1 \in DOMAIN binary[p]
  BY <1>1
<1>4. NextOf(p) \in Migrations /\ NextOf(p).version = Len(schema) + 1
  BY <1>1, <1>2, <1>3 DEF NextOf
<1>5. NextOf(p) \in ToSet(binary[p])
  BY <1>3 DEF NextOf, ToSet
<1>6. ASSUME NEW r \in ledger PROVE r.version # Len(schema) + 1
  <2>1. PICK k \in DOMAIN schema : schema[k] = r
    BY <1>6 DEF Recorded, ToSet
  <2>2. k \in 1..Len(schema) /\ k \in 1..Len(binary[p]) /\ schema[k] = binary[p][k]
    BY <2>1, <1>1 DEF Begins
  <2> QED BY <2>1, <2>2, <1>2, <1>3
<1> QED BY <1>4, <1>5, <1>6 DEF Versions

LEMMA RecordStep ==
  ASSUME Numbered, IInv, NEW p \in Procs, Record(p)
  PROVE  IInv'
<1> USE DEF Record, Goto, store
<1>1. Begins(binary[p]) /\ Len(schema) < Len(binary[p]) /\ tx[p].body = <<NextOf(p)>>
  BY DEF IInv, LoadedIsCurrent, Loaded, NextUnderWay
<1>2. NextOf(p) \in Migrations /\ NextOf(p).version \notin Versions(ledger)
  BY <1>1, NextIsNew DEF IInv
<1>3. Head(tx[p].body) = NextOf(p)
  BY <1>1
<1>4. /\ pc' = [pc EXCEPT ![p] = "commit"]
      /\ tx' = [tx EXCEPT ![p].rows = {NextOf(p)}]
      /\ UNCHANGED <<binary, applied, reason, lock, ledger, schema>>
  BY <1>2, <1>3
<1> HIDE DEF Record
<1>5. Types'
  <2>1. pc' \in [Procs -> Labels]
    BY <1>4, LabelsAre DEF IInv, Types
  <2>2. tx' \in [Procs -> [body : Seq(Migrations), rows : SUBSET Migrations]]
    BY <1>2, <1>4 DEF IInv, Types
  <2> QED BY <1>4, <2>1, <2>2 DEF IInv, Types
<1>6. pc[p] = "record"
  BY DEF Record
<1>7. Exclusive' /\ LoadedIsCurrent'
  BY <1>4, <1>6 DEF IInv, Types, Exclusive, Locked, Holding, LoadedIsCurrent, Loaded, Begins
<1>8. NextUnderWay'
  BY <1>1, <1>4 DEF IInv, Types, NextUnderWay, NextOf
<1>9. Finished'
  BY <1>4 DEF IInv, Types, Finished, Migrated, Whole
<1>10. Recorded' /\ SomeRelease' /\ StartsDoNotCollide'
  BY <1>4 DEF IInv, Recorded, SomeRelease, Begins, StartsDoNotCollide
<1> QED BY <1>5, <1>7, <1>8, <1>9, <1>10 DEF IInv

(* What a commit makes of schema and ledger, with its answer or without.   *)
LEMMA Grown ==
  ASSUME Numbered, IInv, NEW p \in Procs, pc[p] = "commit", Committed(tx[p]), binary' = binary
  PROVE  /\ ledger' = ledger \cup {NextOf(p)} /\ tx[p].rows = {NextOf(p)}
         /\ schema' \in Seq(Migrations) /\ ledger' \in SUBSET Migrations
         /\ Recorded' /\ Begins(binary[p])' /\ SomeRelease'
         /\ \A q \in Procs : q # p => pc[q] \notin Locked
<1>1. Begins(binary[p]) /\ Len(schema) < Len(binary[p])
      /\ tx[p].body = <<NextOf(p)>> /\ tx[p].rows = {NextOf(p)}
  BY DEF IInv, LoadedIsCurrent, Loaded, NextUnderWay
<1>2. NextOf(p) \in Migrations
  BY <1>1, NextIsNew DEF IInv
<1>3. schema \in Seq(Migrations) /\ binary[p] \in Seq(Migrations) /\ ledger \in SUBSET Migrations
  BY Releases DEF IInv, Types
<1>4. schema' = schema \o <<NextOf(p)>> /\ ledger' = ledger \cup {NextOf(p)}
  BY <1>1 DEF Committed
<1>5. /\ schema' \in Seq(Migrations) /\ Len(schema') = Len(schema) + 1
      /\ \A i \in 1..Len(schema) : schema'[i] = schema[i]
      /\ schema'[Len(schema) + 1] = NextOf(p)
  BY <1>2, <1>3, <1>4
<1>6. DOMAIN schema' = DOMAIN schema \cup {Len(schema) + 1} /\ DOMAIN schema = 1..Len(schema)
  <2>1. DOMAIN schema' = 1..(Len(schema) + 1) /\ DOMAIN schema = 1..Len(schema) /\ Len(schema) \in Nat
    BY <1>3, <1>5, LenProperties
  <2> QED BY <2>1
<1>7. Recorded'
  <2>1. \A i \in DOMAIN schema : schema[i] \in ledger
    BY DEF IInv, Recorded, ToSet
  <2>2. ToSet(schema') \subseteq ledger'
    BY <2>1, <1>4, <1>5, <1>6 DEF ToSet
  <2>3. ASSUME NEW r \in ledger' PROVE r \in ToSet(schema')
    <3>1. CASE r = NextOf(p)
      BY <3>1, <1>5, <1>6 DEF ToSet
    <3>2. CASE r \in ledger
      <4>1. PICK i \in DOMAIN schema : schema[i] = r
        BY <3>2 DEF IInv, Recorded, ToSet
      <4> QED BY <4>1, <1>5, <1>6 DEF ToSet
    <3> QED BY <3>1, <3>2, <1>4
  <2> QED BY <2>2, <2>3 DEF Recorded
<1>8. Begins(binary[p])'
  <2>1. Len(schema) \in Nat /\ Len(binary[p]) \in Nat
    BY <1>3
  <2>2. \A i \in 1..Len(schema') : schema'[i] = binary[p][i]
    BY <1>1, <1>5, <2>1 DEF Begins, NextOf
  <2>3. Len(schema') <= Len(binary[p])
    BY <1>1, <1>5, <2>1
  <2> QED BY <2>2, <2>3 DEF Begins
<1>9. SomeRelease'
  BY <1>8 DEF SomeRelease
<1>10. \A q \in Procs : q # p => pc[q] \notin Locked
  BY DEF IInv, Exclusive, Locked, Holding
<1> QED BY <1>1, <1>3, <1>2, <1>4, <1>5, <1>7, <1>8, <1>9, <1>10

LEMMA CommitStep ==
  ASSUME Numbered, IInv, NEW p \in Procs, Commit(p) \/ CommitLost(p)
  PROVE  IInv'
<1>1. pc[p] = "commit" /\ Committed(tx[p]) /\ UNCHANGED <<binary, lock>>
      /\ tx' = [tx EXCEPT ![p] = NoTx]
  BY DEF Commit, CommitLost
<1>2. /\ ledger' = ledger \cup {NextOf(p)} /\ tx[p].rows = {NextOf(p)}
      /\ schema' \in Seq(Migrations) /\ ledger' \in SUBSET Migrations
      /\ Recorded' /\ Begins(binary[p])' /\ SomeRelease'
      /\ \A q \in Procs : q # p => pc[q] \notin Locked
  BY <1>1, Grown
<1>3. \/ /\ applied' = [applied EXCEPT ![p] = @ \cup tx[p].rows]
         /\ pc' = [pc EXCEPT ![p] = "apply"] /\ reason' = reason
      \/ /\ applied' = applied
         /\ pc' = [pc EXCEPT ![p] = "unlock"] /\ reason' = [reason EXCEPT ![p] = "fault"]
  BY DEF Commit, CommitLost, Goto
<1>4. tx' \in [Procs -> [body : Seq(Migrations), rows : SUBSET Migrations]]
  <2>1. NoTx \in [body : Seq(Migrations), rows : SUBSET Migrations]
    BY NothingYet DEF NoTx
  <2> QED BY <2>1, <1>1 DEF IInv, Types
<1>5. Types'
  <2>1. pc' \in [Procs -> Labels]
    BY <1>3, LabelsAre DEF IInv, Types
  <2>2. reason' \in [Procs -> Reasons]
    BY <1>3 DEF IInv, Types, Reasons
  <2>3. applied' \in [Procs -> SUBSET Migrations]
    BY <1>2, <1>3 DEF IInv, Types
  <2> QED BY <1>1, <1>2, <1>4, <2>1, <2>2, <2>3 DEF IInv, Types
<1>6. \A q \in Procs : q # p => pc'[q] = pc[q] /\ reason'[q] = reason[q]
  BY <1>3 DEF IInv, Types
<1>7. pc'[p] = "apply" \/ (pc'[p] = "unlock" /\ reason'[p] = "fault")
  BY <1>3 DEF IInv, Types
<1>8. Exclusive'
  BY <1>1, <1>2, <1>6 DEF IInv, Exclusive, Locked, Holding
<1>9. LoadedIsCurrent'
  <2>1. \A q \in Procs : q # p => pc'[q] \notin Loaded
    BY <1>2, <1>6 DEF Locked, Holding, Loaded
  <2>2. applied[p] = ledger
    BY <1>1 DEF IInv, LoadedIsCurrent, Loaded
  <2>3. pc'[p] = "apply" => applied'[p] = ledger'
    <3>1. applied \in [Procs -> SUBSET Migrations] /\ pc \in [Procs -> Labels]
      BY DEF IInv, Types
    <3> QED BY <3>1, <1>2, <1>3, <2>2
  <2>4. pc'[p] \in Loaded => applied'[p] = ledger' /\ Begins(binary[p])'
    BY <1>2, <1>7, <2>3 DEF Loaded
  <2> QED BY <2>1, <2>4 DEF LoadedIsCurrent
<1>10. NextUnderWay'
  BY <1>2, <1>6, <1>7 DEF NextUnderWay, Locked, Holding
<1>11. Finished'
  BY <1>1, <1>2, <1>6, <1>7 DEF IInv, Finished, Whole, Migrated
<1>12. StartsDoNotCollide'
  <2>1. \A q \in Procs : reason[q] # "conflict"
                       /\ (reason[q] = "mismatch" => \E r \in Procs : binary[r] # binary[q])
    BY DEF IInv, StartsDoNotCollide
  <2>2. \A q \in Procs : reason'[q] = reason[q] \/ reason'[q] = "fault"
    BY <1>3 DEF IInv, Types
  <2>3. ASSUME NEW q \in Procs, reason'[q] = "mismatch"
        PROVE  \E r \in Procs : binary'[r] # binary'[q]
    <3>1. reason[q] = "mismatch"
      BY <2>2, <2>3
    <3>2. PICK r \in Procs : binary[r] # binary[q]
      BY <2>1, <3>1
    <3> QED BY <3>2, <1>1
  <2>4. \A q \in Procs : reason'[q] # "conflict"
    BY <2>1, <2>2
  <2> QED BY <2>3, <2>4 DEF StartsDoNotCollide
<1> QED BY <1>2, <1>5, <1>8, <1>9, <1>10, <1>11, <1>12 DEF IInv

----------------------------------------------------------------------------
(* Every other step puts one process somewhere else.                       *)
LEMMA Elsewhere ==
  ASSUME IInv, NEW p \in Procs, NEW l \in Labels, NEW why \in Reasons,
         pc' = [pc EXCEPT ![p] = l], reason' = [reason EXCEPT ![p] = why],
         UNCHANGED <<binary, ledger, schema>>,
         lock' \in Procs \cup {Free}, l \in Locked => lock' = p,
         \A q \in Procs \ {p} : lock = q => lock' = q,
         tx' \in {tx, [tx EXCEPT ![p] = NoTx]},
         applied' \in {applied, [applied EXCEPT ![p] = {}]},
         l \notin Loaded, l = "unlock" => why # "none",
         l \in Migrated => pc[p] \in Migrated \/ (pc[p] = "unlock" /\ reason[p] = "none"),
         why \in {"conflict", "mismatch"} => why = reason[p]
  PROVE  IInv'
<1>1. pc \in [Procs -> Labels] /\ reason \in [Procs -> Reasons]
      /\ applied \in [Procs -> SUBSET Migrations]
      /\ tx \in [Procs -> [body : Seq(Migrations), rows : SUBSET Migrations]]
  BY DEF IInv, Types
<1>2. \A q \in Procs \ {p} : /\ pc'[q] = pc[q] /\ reason'[q] = reason[q]
                           /\ applied'[q] = applied[q] /\ tx'[q] = tx[q]
  BY <1>1
<1>3. pc'[p] = l /\ reason'[p] = why
  BY <1>1
<1>4. Types'
  <2>1. pc' \in [Procs -> Labels] /\ reason' \in [Procs -> Reasons]
    BY <1>1
  <2>2. NoTx \in [body : Seq(Migrations), rows : SUBSET Migrations]
    BY NothingYet DEF NoTx
  <2>3. tx' \in [Procs -> [body : Seq(Migrations), rows : SUBSET Migrations]]
    BY <1>1, <2>2
  <2>4. applied' \in [Procs -> SUBSET Migrations]
    BY <1>1
  <2>5. binary \in Fleets /\ ledger \in SUBSET Migrations /\ schema \in Seq(Migrations)
    BY DEF IInv, Types
  <2>6. binary' \in Fleets /\ ledger' \in SUBSET Migrations /\ schema' \in Seq(Migrations)
    BY <2>5
  <2> QED BY <2>1, <2>3, <2>4, <2>6 DEF Types
<1>5. ASSUME NEW q \in Procs, pc'[q] \in Locked PROVE lock' = q
  <2>1. CASE q = p
    BY <1>3, <1>5, <2>1
  <2>2. CASE q # p
    <3>1. lock = q
      BY <1>2, <1>5, <2>2 DEF IInv, Exclusive
    <3> QED BY <2>2, <3>1
  <2> QED BY <2>1, <2>2
<1>6. \A q \in Procs : pc'[q] \in Loaded =>
        pc'[q] = pc[q] /\ applied'[q] = applied[q] /\ tx'[q] = tx[q]
  BY <1>2, <1>3
<1>7. \A q \in Procs : pc'[q] = "unlock" /\ reason'[q] = "none" =>
        pc[q] = "unlock" /\ reason[q] = "none"
  BY <1>2, <1>3
<1>8. \A q \in Procs : pc'[q] \in Migrated =>
        pc[q] \in Migrated \/ (pc[q] = "unlock" /\ reason[q] = "none")
  BY <1>2, <1>3
<1>9. \A q \in Procs : reason'[q] \in {"conflict", "mismatch"} => reason'[q] = reason[q]
  BY <1>2, <1>3
<1> QED BY <1>4, <1>5, <1>6, <1>7, <1>8, <1>9, Calm

(* Steps that move no process. *)
LEMMA NoMove ==
  ASSUME IInv, UNCHANGED <<pc, binary, applied, tx, reason, lock, ledger, schema>>
  PROVE  IInv'
<1>1. Types'
  BY DEF IInv, Types
<1> QED BY <1>1, Calm DEF IInv, Exclusive

(* What of the labels the steps below need to know. *)
LEMMA LabelFacts ==
  /\ {"ping", "dialling", "sleep", "lock", "off", "failed", "exited"} \subseteq Labels \ (Locked \cup Migrated)
  /\ Migrated \subseteq Labels \ Locked
  /\ "unlock" \in Labels /\ "unlock" \notin Migrated /\ Holding \subseteq Locked
  /\ Loaded \subseteq Locked
BY DEF Labels, Ended, Holding, Migrated, Locked, Loaded

LEMMA WaitStep ==
  ASSUME IInv, NEW p \in Procs, Boot(p) \/ Ping(p) \/ PingFails(p) \/ Sleep(p)
  PROVE  IInv'
<1>1. pc \in [Procs -> Labels] /\ reason \in [Procs -> Reasons] /\ lock \in Procs \cup {Free}
  BY DEF IInv, Types
<1>2. UNCHANGED <<binary, lock, ledger, schema, tx>>
  BY DEF Boot, Ping, PingFails, Sleep, Quiet, store
<1>3. applied' \in {applied, [applied EXCEPT ![p] = {}]}
  BY DEF Boot, Ping, PingFails, Sleep, Quiet
<1>4. PICK l \in {"ping", "dialling", "sleep", "lock", "failed"},
           why \in {"none", "refused", "budget", "signal", reason[p]} :
        pc' = [pc EXCEPT ![p] = l] /\ reason' = [reason EXCEPT ![p] = why]
  <2>1. reason = [reason EXCEPT ![p] = reason[p]]
    BY <1>1
  <2>2. CASE Boot(p)
    BY <2>2 DEF Boot, Goto
  <2>3. CASE Ping(p)
    BY <2>1, <2>3 DEF Ping, Fail, Goto
  <2>4. CASE PingFails(p)
    <3>1. \/ pc' = [pc EXCEPT ![p] = "failed"] /\ reason' = [reason EXCEPT ![p] = "budget"]
          \/ pc' = [pc EXCEPT ![p] = "failed"] /\ reason' = [reason EXCEPT ![p] = "signal"]
          \/ pc' = [pc EXCEPT ![p] = "sleep"] /\ reason' = reason
      BY <2>4 DEF PingFails, Fail, Goto
    <3> QED BY <2>1, <3>1
  <2>5. CASE Sleep(p)
    BY <2>1, <2>5 DEF Sleep, Fail, Goto
  <2> QED BY <2>2, <2>3, <2>4, <2>5
<1>5. l \in Labels /\ l \notin Locked /\ l \notin Migrated /\ l \notin Loaded /\ why \in Reasons /\ l # "unlock"
  <2>1. why \in Reasons
    BY <1>1 DEF Reasons
  <2>2. l \notin Loaded /\ l # "unlock"
    BY DEF Loaded
  <2> QED BY <2>1, <2>2, LabelFacts
<1>6. why \in {"conflict", "mismatch"} => why = reason[p]
  OBVIOUS
<1> QED BY <1>1, <1>2, <1>3, <1>4, <1>5, <1>6, Elsewhere

LEMMA LockStep ==
  ASSUME IInv, NEW p \in Procs, Lock(p) \/ Unlock(p)
  PROVE  IInv'
<1>1. pc \in [Procs -> Labels] /\ reason \in [Procs -> Reasons] /\ lock \in Procs \cup {Free}
      /\ Exclusive /\ Free \notin Procs
  BY StartupAssumption DEF IInv, Types, Free
<1>2. UNCHANGED <<binary, ledger, schema, tx, applied, reason>>
  BY DEF Lock, Unlock
<1>3. reason' = [reason EXCEPT ![p] = reason[p]]
  BY <1>1, <1>2
<1>4. CASE Lock(p)
  <2>1. pc' = [pc EXCEPT ![p] = "load"] /\ lock = Free /\ lock' = p
    BY <1>4 DEF Lock, Goto, LockFree
  <2>2. Types'
    <3>1. pc' \in [Procs -> Labels]
      BY <2>1, <1>1, LabelsAre
    <3> QED BY <1>2, <2>1, <3>1 DEF IInv, Types
  <2>3. \A q \in Procs : q # p => pc'[q] = pc[q] /\ pc[q] \notin Locked
    BY <1>1, <2>1 DEF Exclusive
  <2>4. pc'[p] = "load"
    BY <1>1, <2>1
  <2>5. \A q \in Procs : pc'[q] \in Locked => lock' = q
    BY <2>1, <2>3
  <2>6. \A q \in Procs : pc'[q] \notin Loaded
    BY <2>3, <2>4 DEF Locked, Holding, Loaded
  <2>7. \A q \in Procs : pc'[q] # "unlock" /\ (pc'[q] \in Migrated => pc[q] \in Migrated)
    BY <2>3, <2>4 DEF Locked, Holding, Migrated
  <2>8. \A q \in Procs : reason'[q] = reason[q]
    BY <1>2
  <2>9. \A q \in Procs : pc'[q] \in Loaded =>
          pc'[q] = pc[q] /\ applied'[q] = applied[q] /\ tx'[q] = tx[q]
    BY <2>6
  <2>10. \A q \in Procs : pc'[q] = "unlock" /\ reason'[q] = "none" => pc[q] = "unlock" /\ reason[q] = "none"
    BY <2>7
  <2>11. \A q \in Procs : pc'[q] \in Migrated =>
           pc[q] \in Migrated \/ (pc[q] = "unlock" /\ reason[q] = "none")
    BY <2>7
  <2>12. \A q \in Procs : reason'[q] \in {"conflict", "mismatch"} => reason'[q] = reason[q]
    BY <2>8
  <2> QED BY <1>2, <2>2, <2>5, <2>9, <2>10, <2>11, <2>12, Calm
<1>5. CASE Unlock(p)
  <2>1. PICK l \in {"probe", "failed"} :
          pc' = [pc EXCEPT ![p] = l] /\ (l = "probe" => reason[p] = "none")
    BY <1>5 DEF Unlock, Goto, AfterUnlock
  <2>2. lock' = Free /\ pc[p] = "unlock"
    BY <1>5 DEF Unlock, Unlocked
  <2>3. lock = p
    BY <1>1, <2>2 DEF Exclusive, Locked
  <2>4. l \in Labels /\ l \notin Locked /\ l \notin Loaded /\ l # "unlock"
        /\ (l \in Migrated => l = "probe")
    BY LabelFacts DEF Migrated
  <2>5. \A q \in Procs \ {p} : lock = q => lock' = q
    BY <2>3
  <2> QED BY <1>1, <1>2, <1>3, <2>1, <2>2, <2>4, <2>5, Elsewhere
<1> QED BY <1>4, <1>5

LEMMA FailStep ==
  ASSUME IInv, NEW p \in Procs, StatementFails(p)
  PROVE  IInv'
<1>1. pc \in [Procs -> Labels] /\ lock \in Procs \cup {Free} /\ Exclusive
  BY DEF IInv, Types
<1>2. PICK l \in {"unlock", "failed"}, why \in {"signal", "fault"} :
        /\ pc' = [pc EXCEPT ![p] = l] /\ reason' = [reason EXCEPT ![p] = why]
        /\ l = "unlock" => pc[p] \in Holding
  BY DEF StatementFails, Goto, Why
<1>3. UNCHANGED <<binary, lock, ledger, schema, applied>> /\ tx' = [tx EXCEPT ![p] = NoTx]
  BY DEF StatementFails, store
<1>4. l \in Locked => lock = p
  <2>1. pc[p] \in Holding => lock = p
    BY <1>1, LabelFacts DEF Exclusive
  <2>2. "failed" \notin Locked
    BY LabelFacts
  <2> QED BY <1>2, <2>1, <2>2
<1>5. l \in Labels /\ l \notin Migrated /\ l \notin Loaded /\ why \in Reasons /\ why # "none"
      /\ why \notin {"conflict", "mismatch"}
  BY LabelFacts DEF Reasons, Loaded
<1> QED BY <1>1, <1>2, <1>3, <1>4, <1>5, Elsewhere

LEMMA KillStep ==
  ASSUME IInv, NEW p \in Procs, Kill(p)
  PROVE  IInv'
<1>1. reason \in [Procs -> Reasons] /\ lock \in Procs \cup {Free}
  BY DEF IInv, Types
<1>2. pc' = [pc EXCEPT ![p] = "off"] /\ reason' = [reason EXCEPT ![p] = reason[p]]
  BY <1>1 DEF Kill, Goto
<1>3. UNCHANGED <<binary, ledger, schema, applied>> /\ tx' = [tx EXCEPT ![p] = NoTx]
  BY DEF Kill
<1>4. lock' \in Procs \cup {Free} /\ \A q \in Procs \ {p} : lock = q => lock' = q
  BY <1>1 DEF Kill
<1>5. "off" \in Labels /\ "off" \notin Locked /\ "off" \notin Migrated /\ "off" \notin Loaded
      /\ reason[p] \in Reasons
  BY <1>1, LabelFacts
<1> QED BY <1>2, <1>3, <1>4, <1>5, Elsewhere

LEMMA ServeStep ==
  ASSUME IInv, NEW p \in Procs,
         Prepare(p) \/ Listen(p) \/ ServeFails(p) \/ Drain(p) \/ ShutdownReturns(p) \/ ShutdownTimesOut(p) \/ Exit(p)
  PROVE  IInv'
<1>1. reason \in [Procs -> Reasons] /\ lock \in Procs \cup {Free}
  BY DEF IInv, Types
<1>2. UNCHANGED <<binary, lock, ledger, schema, applied, tx>>
  BY DEF Prepare, Listen, ServeFails, Drain, ShutdownReturns, ShutdownTimesOut, Exit, Rest, store
<1>3. pc[p] \in Migrated
  BY DEF Prepare, Listen, ServeFails, Drain, ShutdownReturns, ShutdownTimesOut, Exit, Migrated
<1>4. PICK l \in Migrated \cup {"exited", "failed"}, why \in {"fault", "timeout", reason[p]} :
        pc' = [pc EXCEPT ![p] = l] /\ reason' = [reason EXCEPT ![p] = why]
  <2>1. reason = [reason EXCEPT ![p] = reason[p]]
    BY <1>1
  <2>2. CASE Prepare(p) \/ Drain(p) \/ ShutdownReturns(p)
    BY <2>1, <2>2 DEF Prepare, Drain, ShutdownReturns, Goto, Migrated
  <2>3. CASE Listen(p) \/ ServeFails(p)
    BY <2>1, <2>3 DEF Listen, ServeFails, Goto, Fail, Migrated
  <2>4. CASE ShutdownTimesOut(p)
    BY <2>4 DEF ShutdownTimesOut, Goto, Migrated
  <2>5. CASE Exit(p)
    BY <2>1, <2>5 DEF Exit, Goto
  <2> QED BY <2>2, <2>3, <2>4, <2>5
<1>5. l \in Labels /\ l \notin Locked /\ l \notin Loaded
  BY LabelFacts
<1>6. l # "unlock"
  BY LabelFacts
<1>7. why \in Reasons /\ (why \in {"conflict", "mismatch"} => why = reason[p])
  BY <1>1 DEF Reasons
<1> QED BY <1>1, <1>2, <1>3, <1>4, <1>5, <1>6, <1>7, Elsewhere

LEMMA StepInv == ASSUME Numbered, IInv, [Next]_vars PROVE IInv'
<1>1. CASE UNCHANGED vars
  BY <1>1, NoMove DEF vars, startup, local, store
<1>2. CASE DatabaseUp
  BY <1>2, NoMove DEF DatabaseUp, store
<1>3. ASSUME NEW p \in Procs, Boot(p) \/ Run(p) PROVE IInv'
  BY <1>3, WaitStep, LockStep, LoadStep, RunStep, RecordStep, CommitStep, ServeStep, FailStep DEF Run
<1>4. ASSUME NEW p \in Procs, CommitLost(p) \/ Kill(p) PROVE IInv'
  BY <1>4, CommitStep, KillStep
<1>5. ASSUME NEW p \in Procs,
             Listen(p) \/ ServeFails(p) \/ Drain(p) \/ ShutdownReturns(p) \/ ShutdownTimesOut(p) \/ Exit(p)
      PROVE  IInv'
  BY <1>5, ServeStep
<1>6. ASSUME NEW p \in Procs, Signal(p) PROVE IInv'
  BY <1>6, NoMove DEF Signal, store
<1>7. ASSUME NEW p \in Procs,
             Reader(p) \/ Pinger(p) \/ RequestBegins(p) \/ RequestEnds(p) \/ SocketOpens(p) \/ PeerLeaves(p)
      PROVE  IInv'
  <2>1. UNCHANGED startup
    BY <1>7 DEF Reader, Pinger, ReadFails, HandlerReturns, Tick, Pong, PingLost, PingerStops,
                RequestBegins, RequestEnds, SocketOpens, PeerLeaves
  <2> QED BY <2>1, NoMove DEF startup, local, store
<1> QED BY <1>1, <1>2, <1>3, <1>4, <1>5, <1>6, <1>7 DEF Next, Advance

LEMMA AlwaysInv == ASSUME Numbered PROVE Spec => []IInv
BY InitInv, StepInv, PTL DEF Spec

----------------------------------------------------------------------------
(* The theorems.                                                           *)

(* No two processes are ever in Migrate at once: from the load of the      *)
(* ledger to the unlock the session lock is this process's (migrate.go,    *)
(* "two server processes starting at once").                               *)
THEOREM OneMigrates == ASSUME Numbered PROVE Spec => []Exclusive
BY AlwaysInv, PTL DEF IInv

(* The schema is always what one release would have made of it, and the    *)
(* ledger says exactly that, whatever was killed, failed or lost: a        *)
(* migration and its row commit together, and only the next one is run.    *)
THEOREM LedgerTrue == ASSUME Numbered PROVE Spec => []LedgerIsSchema
<1>1. ASSUME Numbered, IInv PROVE LedgerIsSchema
  <2>1. PICK p \in Procs : Begins(binary[p])
    BY <1>1 DEF IInv, SomeRelease
  <2>2. schema \in Seq(Migrations) /\ binary[p] \in Seq(Migrations)
    BY <1>1, Releases DEF IInv, Types
  <2>3. \A i \in DOMAIN schema : schema[i].version = i
    <3>1. \A i \in DOMAIN schema : i \in DOMAIN binary[p] /\ schema[i] = binary[p][i]
      BY <2>1, <2>2 DEF Begins
    <3>2. \A i \in DOMAIN binary[p] : binary[p][i].version = i
      BY <1>1 DEF Numbered, IInv, Types
    <3> QED BY <3>1, <3>2
  <2>4. IsPrefix(schema, binary[p])
    <3>1. Len(schema) <= Len(binary[p]) /\ Len(schema) \in Nat /\ Len(binary[p]) \in Nat
      BY <2>1, <2>2 DEF Begins
    <3>2. /\ SubSeq(schema, 1, Len(schema)) \in Seq(Migrations)
          /\ SubSeq(binary[p], 1, Len(schema)) \in Seq(Migrations)
      BY <2>2, <3>1
    <3>3. /\ Len(SubSeq(schema, 1, Len(schema))) = Len(schema)
          /\ Len(SubSeq(binary[p], 1, Len(schema))) = Len(schema)
      BY <2>2, <3>1
    <3>4. \A i \in 1..Len(schema) :
            SubSeq(schema, 1, Len(schema))[i] = SubSeq(binary[p], 1, Len(schema))[i]
      BY <2>1, <2>2, <3>1 DEF Begins
    <3>5. SubSeq(schema, 1, Len(schema)) = SubSeq(binary[p], 1, Len(schema))
      BY <3>2, <3>3, <3>4, SeqEqual
    <3> QED BY <3>1, <3>5 DEF IsPrefix
  <2> QED BY <1>1, <2>3, <2>4 DEF LedgerIsSchema, IInv, Recorded
<1> QED BY <1>1, AlwaysInv, PTL

(* A process serves only over a schema that has every migration of its     *)
(* own release, and others that start, drain or end do not change that.    *)
THEOREM ReadyOnlyMigrated == ASSUME Numbered PROVE Spec => []ReadyMeansMigrated
<1>1. IInv => ReadyMeansMigrated
  BY DEF IInv, Finished, Whole, ReadyMeansMigrated, Recorded
<1> QED BY <1>1, AlwaysInv, PTL

(* Processes that start together do not make each other fail: none meets   *)
(* its own migration recorded by another, and none of a fleet of one       *)
(* release finds a ledger it must refuse.                                  *)
THEOREM StartsAgree == ASSUME Numbered PROVE Spec => []StartsDoNotCollide
BY AlwaysInv, PTL DEF IInv

----------------------------------------------------------------------------
(* How requests, sockets and processes end.                                *)

EndTypes ==
  /\ pc \in [Procs -> Labels] /\ reason \in [Procs -> Reasons]
  /\ request \in [Procs -> {"none", "streaming", "querying", "cut"}]
  /\ conn \in [Procs -> {"none", "open", "closed"}]
  /\ handler \in [Procs -> {"none", "reading", "stopping", "done"}]
  /\ pinger \in [Procs -> {"none", "waiting", "pinging", "gone"}]
  /\ cutAny \in [Procs -> BOOLEAN]

(* A pinger is started with its handler, which outlives it. *)
Paired(h, g, c) ==
  /\ h = "none" => g = "none"
  /\ h = "done" => g = "gone" /\ c = "closed"

Goroutines == \A p \in Procs : Paired(handler[p], pinger[p], conn[p])

(* Requests are cut only where the drain has timed out, which is then the  *)
(* reason the process fails for; without it none is left when it closes.   *)
Told(cut, at, why, req) ==
  /\ cut => at \notin {"serving", "draining", "exited"}
  /\ cut /\ at = "closing" => why = "timeout"
  /\ at = "closing" /\ why = "none" => req = "none"
  /\ at = "exited" => why = "none"

CutsTold == \A p \in Procs : Told(cutAny[p], pc[p], reason[p], request[p])

EndInv == EndTypes /\ Goroutines /\ CutsTold

(* Where a process is that does not serve yet, or not any more. *)
Outside == {"off", "ping", "dialling", "sleep", "lock", "load", "apply", "record", "commit",
            "unlock", "probe", "reap", "listen", "failed"}

Whys == {"none", "refused", "signal", "budget", "mismatch", "conflict", "fault"}

LEMMA EndLabels ==
  /\ Outside \cup {"serving", "draining", "closing", "exited"} \subseteq Labels
  /\ Whys \cup {"timeout"} \subseteq Reasons
BY DEF Outside, Whys, Labels, Reasons, Ended, Holding, Migrated

LEMMA StartupMoves ==
  ASSUME EndTypes, NEW p \in Procs, Run(p) \/ CommitLost(p) \/ Boot(p) \/ Kill(p)
  PROVE  \E l \in Outside, why \in Whys \cup {reason[p]} :
           pc' = [pc EXCEPT ![p] = l] /\ reason' = [reason EXCEPT ![p] = why]
<1> USE DEF Goto, Outside, Whys
<1>1. reason = [reason EXCEPT ![p] = reason[p]]
  BY DEF EndTypes
<1>2. CASE Ping(p) \/ Sleep(p)
  BY <1>1, <1>2 DEF Ping, Sleep, Fail
<1>3. CASE PingFails(p)
  <2>1. \/ pc' = [pc EXCEPT ![p] = "failed"] /\ reason' = [reason EXCEPT ![p] = "budget"]
        \/ pc' = [pc EXCEPT ![p] = "failed"] /\ reason' = [reason EXCEPT ![p] = "signal"]
        \/ pc' = [pc EXCEPT ![p] = "sleep"] /\ reason' = reason
    BY <1>3 DEF PingFails, Fail
  <2> QED BY <1>1, <2>1
<1>4. CASE Lock(p) \/ LoadApplied(p) \/ RunMigration(p)
  BY <1>1, <1>4 DEF Lock, LoadApplied, RunMigration
<1>5. CASE Record(p)
  <2>1. \/ pc' = [pc EXCEPT ![p] = "commit"] /\ reason' = reason
        \/ pc' = [pc EXCEPT ![p] = "unlock"] /\ reason' = [reason EXCEPT ![p] = "conflict"]
    BY <1>5 DEF Record
  <2> QED BY <1>1, <2>1
<1>6. CASE Commit(p) \/ CommitLost(p) \/ Unlock(p)
  BY <1>1, <1>6 DEF Commit, CommitLost, Unlock, AfterUnlock
<1>7. CASE Prepare(p) \/ StatementFails(p)
  BY <1>1, <1>7 DEF Prepare, StatementFails, Why
<1>8. CASE Boot(p) \/ Kill(p)
  BY <1>1, <1>8 DEF Boot, Kill
<1> QED BY <1>2, <1>3, <1>4, <1>5, <1>6, <1>7, <1>8 DEF Run

(* A step of one process leaves the others as they are. *)
Apart(p) ==
  \A q \in Procs \ {p} :
    /\ pc'[q] = pc[q] /\ reason'[q] = reason[q] /\ cutAny'[q] = cutAny[q]
    /\ request'[q] = request[q]
    /\ handler'[q] = handler[q] /\ pinger'[q] = pinger[q] /\ conn'[q] = conn[q]

LEMMA OneEnds ==
  ASSUME EndInv, EndTypes', NEW p \in Procs, Apart(p),
         Paired(handler'[p], pinger'[p], conn'[p]),
         Told(cutAny'[p], pc'[p], reason'[p], request'[p])
  PROVE  EndInv'
<1>1. ASSUME NEW q \in Procs PROVE Paired(handler'[q], pinger'[q], conn'[q])
  BY DEF EndInv, Goroutines, Apart
<1>2. ASSUME NEW q \in Procs PROVE Told(cutAny'[q], pc'[q], reason'[q], request'[q])
  BY DEF EndInv, CutsTold, Apart
<1> QED BY <1>1, <1>2 DEF EndInv, Goroutines, CutsTold

(* Steps of a process that does not serve. *)
LEMMA OutsideKeeps ==
  ASSUME EndInv, NEW p \in Procs, NEW l \in Outside, NEW why \in Reasons,
         pc' = [pc EXCEPT ![p] = l], reason' = [reason EXCEPT ![p] = why],
         UNCHANGED serving \/ (Gone(p) /\ UNCHANGED cutAny)
  PROVE  EndInv'
<1>0. EndTypes /\ Paired(handler[p], pinger[p], conn[p])
  BY DEF EndInv, Goroutines
<1>1. EndTypes'
  BY <1>0, EndLabels DEF EndTypes, serving, Gone
<1>2. Apart(p)
  BY <1>0 DEF Apart, EndTypes, serving, Gone
<1>3. Paired(handler'[p], pinger'[p], conn'[p])
  BY <1>0 DEF EndTypes, Paired, serving, Gone
<1>4. Told(cutAny'[p], pc'[p], reason'[p], request'[p])
  <2>1. pc'[p] = l
    BY <1>0 DEF EndTypes
  <2> QED BY <2>1 DEF Told, Outside
<1> QED BY <1>1, <1>2, <1>3, <1>4, OneEnds

(* Steps of the server, from the listener to the end. *)
LEMMA ServerKeeps ==
  ASSUME EndInv, NEW p \in Procs,
         Listen(p) \/ ServeFails(p) \/ Drain(p) \/ ShutdownReturns(p) \/ ShutdownTimesOut(p) \/ Exit(p)
  PROVE  EndInv'
<1>0. /\ EndInv /\ EndTypes /\ Paired(handler[p], pinger[p], conn[p])
      /\ Told(cutAny[p], pc[p], reason[p], request[p])
  BY DEF EndInv, Goroutines, CutsTold
<1>9. /\ {"serving", "draining", "closing", "exited", "failed"} \subseteq Labels
       /\ {"fault", "timeout"} \subseteq Reasons
  BY EndLabels DEF Outside, Whys
<1>1. CASE Listen(p)
  <2>1. EndTypes'
    BY <1>0, <1>1, <1>9 DEF Listen, Fail, Goto, serving, EndTypes
  <2>2. Apart(p)
    BY <1>0, <1>1 DEF Listen, Fail, Goto, serving, EndTypes, Apart
  <2>3. Paired(handler'[p], pinger'[p], conn'[p])
    BY <1>0, <1>1 DEF Listen, Fail, Goto, serving, EndTypes, Paired
  <2>4. Told(cutAny'[p], pc'[p], reason'[p], request'[p])
    BY <1>0, <1>1 DEF Listen, Fail, Goto, serving, EndTypes, Told
  <2> QED BY <1>0, <2>1, <2>2, <2>3, <2>4, OneEnds
<1>2. CASE Drain(p)
  <2>1. EndTypes'
    BY <1>0, <1>2, <1>9 DEF Drain, Goto, serving, EndTypes
  <2>2. Apart(p)
    BY <1>0, <1>2 DEF Drain, Goto, serving, EndTypes, Apart
  <2>3. Paired(handler'[p], pinger'[p], conn'[p])
    BY <1>0, <1>2 DEF Drain, Goto, serving, EndTypes, Paired
  <2>4. Told(cutAny'[p], pc'[p], reason'[p], request'[p])
    BY <1>0, <1>2 DEF Drain, Goto, serving, EndTypes, Told
  <2> QED BY <1>0, <2>1, <2>2, <2>3, <2>4, OneEnds
<1>3. CASE ShutdownReturns(p)
  <2>1. EndTypes'
    BY <1>0, <1>3, <1>9 DEF ShutdownReturns, Drained, Goto, serving, EndTypes
  <2>2. Apart(p)
    BY <1>0, <1>3 DEF ShutdownReturns, Drained, Goto, serving, EndTypes, Apart
  <2>3. Paired(handler'[p], pinger'[p], conn'[p])
    BY <1>0, <1>3 DEF ShutdownReturns, Drained, Goto, serving, EndTypes, Paired
  <2>4. Told(cutAny'[p], pc'[p], reason'[p], request'[p])
    BY <1>0, <1>3 DEF ShutdownReturns, Drained, Goto, serving, EndTypes, Told
  <2> QED BY <1>0, <2>1, <2>2, <2>3, <2>4, OneEnds
<1>4. CASE ShutdownTimesOut(p)
  <2>1. EndTypes'
    BY <1>0, <1>4, <1>9 DEF ShutdownTimesOut, Goto, serving, EndTypes
  <2>2. Apart(p)
    BY <1>0, <1>4 DEF ShutdownTimesOut, Goto, serving, EndTypes, Apart
  <2>3. Paired(handler'[p], pinger'[p], conn'[p])
    BY <1>0, <1>4 DEF ShutdownTimesOut, Goto, serving, EndTypes, Paired
  <2>4. Told(cutAny'[p], pc'[p], reason'[p], request'[p])
    BY <1>0, <1>4 DEF ShutdownTimesOut, Goto, serving, EndTypes, Told
  <2> QED BY <1>0, <2>1, <2>2, <2>3, <2>4, OneEnds
<1>5. CASE ServeFails(p)
  <2>1. EndTypes'
    BY <1>0, <1>5, <1>9 DEF ServeFails, Goto, serving, EndTypes
  <2>2. Apart(p)
    BY <1>0, <1>5 DEF ServeFails, Goto, serving, EndTypes, Apart
  <2>3. Paired(handler'[p], pinger'[p], conn'[p])
    BY <1>0, <1>5 DEF ServeFails, Goto, serving, EndTypes, Paired
  <2>4. Told(cutAny'[p], pc'[p], reason'[p], request'[p])
    BY <1>0, <1>5 DEF ServeFails, Goto, serving, EndTypes, Told
  <2> QED BY <1>0, <2>1, <2>2, <2>3, <2>4, OneEnds
<1>6. CASE Exit(p)
  <2>1. EndTypes'
    BY <1>0, <1>6, <1>9 DEF Exit, Gone, Goto, serving, EndTypes
  <2>2. Apart(p)
    BY <1>0, <1>6 DEF Exit, Gone, Goto, serving, EndTypes, Apart
  <2>3. Paired(handler'[p], pinger'[p], conn'[p])
    BY <1>0, <1>6 DEF Exit, Gone, Goto, serving, EndTypes, Paired
  <2>4. Told(cutAny'[p], pc'[p], reason'[p], request'[p])
    BY <1>0, <1>6 DEF Exit, Gone, Goto, serving, EndTypes, Told
  <2> QED BY <1>0, <2>1, <2>2, <2>3, <2>4, OneEnds
<1> QED BY <1>1, <1>2, <1>3, <1>4, <1>5, <1>6

(* Steps of requests and of the two goroutines of a socket. *)
LEMMA ClientsKeep ==
  ASSUME EndInv, NEW p \in Procs,
         \/ RequestBegins(p) \/ RequestEnds(p) \/ SocketOpens(p) \/ PeerLeaves(p)
         \/ Reader(p) \/ Pinger(p)
  PROVE  EndInv'
<1>0. /\ EndInv /\ EndTypes /\ Paired(handler[p], pinger[p], conn[p])
      /\ Told(cutAny[p], pc[p], reason[p], request[p])
  BY DEF EndInv, Goroutines, CutsTold
<1>1. CASE RequestBegins(p)
  <2>1. EndTypes'
    BY <1>0, <1>1 DEF RequestBegins, Accepting, startup, local, EndTypes
  <2>2. Apart(p)
    BY <1>0, <1>1 DEF RequestBegins, Accepting, startup, local, EndTypes, Apart
  <2>3. Paired(handler'[p], pinger'[p], conn'[p])
    BY <1>0, <1>1 DEF RequestBegins, Accepting, startup, local, EndTypes, Paired
  <2>4. Told(cutAny'[p], pc'[p], reason'[p], request'[p])
    BY <1>0, <1>1 DEF RequestBegins, Accepting, startup, local, EndTypes, Told
  <2> QED BY <1>0, <2>1, <2>2, <2>3, <2>4, OneEnds
<1>2. CASE RequestEnds(p)
  <2>1. EndTypes'
    BY <1>0, <1>2 DEF RequestEnds, startup, local, EndTypes
  <2>2. Apart(p)
    BY <1>0, <1>2 DEF RequestEnds, startup, local, EndTypes, Apart
  <2>3. Paired(handler'[p], pinger'[p], conn'[p])
    BY <1>0, <1>2 DEF RequestEnds, startup, local, EndTypes, Paired
  <2>4. Told(cutAny'[p], pc'[p], reason'[p], request'[p])
    BY <1>0, <1>2 DEF RequestEnds, startup, local, EndTypes, Told
  <2> QED BY <1>0, <2>1, <2>2, <2>3, <2>4, OneEnds
<1>3. CASE SocketOpens(p) \/ PeerLeaves(p)
  <2>1. EndTypes'
    BY <1>0, <1>3 DEF SocketOpens, PeerLeaves, startup, local, EndTypes
  <2>2. Apart(p)
    BY <1>0, <1>3 DEF SocketOpens, PeerLeaves, startup, local, EndTypes, Apart
  <2>3. Paired(handler'[p], pinger'[p], conn'[p])
    BY <1>0, <1>3 DEF SocketOpens, PeerLeaves, startup, local, EndTypes, Paired
  <2>4. Told(cutAny'[p], pc'[p], reason'[p], request'[p])
    BY <1>0, <1>3 DEF SocketOpens, PeerLeaves, startup, local, EndTypes, Told
  <2> QED BY <1>0, <2>1, <2>2, <2>3, <2>4, OneEnds
<1>4. CASE Reader(p)
  <2>1. EndTypes'
    BY <1>0, <1>4 DEF Reader, ReadFails, HandlerReturns, PingsDone, startup, local, EndTypes
  <2>2. Apart(p)
    BY <1>0, <1>4 DEF Reader, ReadFails, HandlerReturns, PingsDone, startup, local, EndTypes, Apart
  <2>3. Paired(handler'[p], pinger'[p], conn'[p])
    BY <1>0, <1>4 DEF Reader, ReadFails, HandlerReturns, PingsDone, startup, local, EndTypes, Paired
  <2>4. Told(cutAny'[p], pc'[p], reason'[p], request'[p])
    BY <1>0, <1>4 DEF Reader, ReadFails, HandlerReturns, PingsDone, startup, local, EndTypes, Told
  <2> QED BY <1>0, <2>1, <2>2, <2>3, <2>4, OneEnds
<1>5. CASE Pinger(p)
  <2>1. EndTypes'
    BY <1>0, <1>5 DEF Pinger, Tick, Pong, PingLost, AfterPing, PingerStops, startup, local, EndTypes
  <2>2. Apart(p)
    BY <1>0, <1>5 DEF Pinger, Tick, Pong, PingLost, AfterPing, PingerStops, startup, local, EndTypes, Apart
  <2>3. Paired(handler'[p], pinger'[p], conn'[p])
    BY <1>0, <1>5 DEF Pinger, Tick, Pong, PingLost, AfterPing, PingerStops, startup, local, EndTypes, Paired
  <2>4. Told(cutAny'[p], pc'[p], reason'[p], request'[p])
    BY <1>0, <1>5 DEF Pinger, Tick, Pong, PingLost, AfterPing, PingerStops, startup, local, EndTypes, Told
  <2> QED BY <1>0, <2>1, <2>2, <2>3, <2>4, OneEnds
<1> QED BY <1>1, <1>2, <1>3, <1>4, <1>5

LEMMA EndsStep == ASSUME EndInv, [Next]_vars PROVE EndInv'
<1>1. CASE UNCHANGED <<pc, reason, request, conn, handler, pinger, cutAny>>
  BY <1>1 DEF EndInv, EndTypes, Goroutines, CutsTold
<1>2. ASSUME NEW p \in Procs,
             \/ (Run(p) \/ CommitLost(p) \/ Boot(p)) /\ UNCHANGED serving
             \/ Kill(p) /\ Gone(p) /\ UNCHANGED cutAny
      PROVE  EndInv'
  <2>1. PICK l \in Outside, why \in Whys \cup {reason[p]} :
          pc' = [pc EXCEPT ![p] = l] /\ reason' = [reason EXCEPT ![p] = why]
    BY <1>2, StartupMoves DEF EndInv
  <2>2. why \in Reasons
    BY DEF Whys, Reasons, EndInv, EndTypes
  <2> QED BY <1>2, <2>1, <2>2, OutsideKeeps
<1>3. CASE vars' = vars \/ (DatabaseUp /\ UNCHANGED serving)
           \/ \E p \in Procs : Signal(p) /\ UNCHANGED serving
  BY <1>1, <1>3 DEF vars, startup, local, serving, DatabaseUp, Signal
<1> QED BY <1>2, <1>3, ServerKeeps, ClientsKeep DEF Next, Advance

(* A socket's handler that has returned has left nothing behind, whoever   *)
(* of its two goroutines noticed first that the peer was gone; and a       *)
(* process that says it ended well has cut off nobody.                     *)
THEOREM CleanEnds == Spec => []EndsAreClean
<1>1. ASSUME Init PROVE EndInv
  <2>1. "off" \in Labels /\ "none" \in Reasons
    BY DEF Labels, Ended, Reasons
  <2>2. EndTypes
    BY <1>1, <2>1 DEF Init, StartupInit, EndTypes
  <2>3. Goroutines /\ CutsTold
    BY <1>1 DEF Init, StartupInit, Goroutines, CutsTold, Paired, Told
  <2> QED BY <2>2, <2>3 DEF EndInv
<1>2. EndInv => EndsAreClean
  BY DEF EndInv, Goroutines, CutsTold, Paired, Told, EndsAreClean
<1> QED BY <1>1, <1>2, EndsStep, PTL DEF Spec

----------------------------------------------------------------------------
(* How long a process waits for the database.                              *)

(* As the policies of db.go and of its tests have it: the first pause is   *)
(* no longer than the longest.                                             *)
PausesGrow == InitialDelay <= MaxDelay

Clocks == [waited : Nat, delay : Nat, readyAt : Nat]

WaitTypes ==
  /\ pc \in [Procs -> Labels] /\ reason \in [Procs -> Reasons]
  /\ wait \in [Procs -> Clocks] /\ signalled \in [Procs -> BOOLEAN]

(* Where a process is tells how much of its budget is left, and whether    *)
(* the server can have come up unnoticed; what gave up had no time for     *)
(* another pause.                                                          *)
Within(at, w) ==
  /\ w.delay <= MaxDelay
  /\ w.waited <= Budget + PingTimeout
  /\ at \in {"ping", "dialling"} => w.waited <= Budget
  /\ at = "sleep" => w.waited + w.delay <= Budget

TooLate(at, why, w) == why = "budget" => at = "failed" /\ w.waited + w.delay > Budget

Noticed(at, why, stopped, up, w) ==
  up /\ ~ stopped =>
    /\ at = "dialling" => w.waited <= w.readyAt
    /\ why = "budget" => w.readyAt + MaxDelay + PingTimeout > Budget

Waits ==
  \A p \in Procs :
    /\ Within(pc[p], wait[p]) /\ TooLate(pc[p], reason[p], wait[p])
    /\ Noticed(pc[p], reason[p], signalled[p], db = "up", wait[p])

WaitInv == WaitTypes /\ Waits

(* The labels of waitForDatabase. *)
Waiting == {"ping", "dialling", "sleep"}

(* Steps elsewhere: the clocks stand still, or are put back to nothing.    *)
LEMMA ElsewhereWaits ==
  ASSUME PausesGrow, WaitInv, WaitTypes', db' = db,
         \A p \in Procs : wait'[p] \in {wait[p], NoWait},
         \A p \in Procs : pc'[p] \in Waiting => pc'[p] = pc[p] \/ (pc'[p] = "ping" /\ wait'[p] = NoWait),
         \A p \in Procs : pc[p] \in Waiting /\ pc'[p] = pc[p] => wait'[p] = wait[p],
         \A p \in Procs : reason'[p] = "budget" =>
           reason[p] = "budget" /\ pc'[p] = pc[p] /\ wait'[p] = wait[p],
         \A p \in Procs : signalled[p] /\ (pc'[p] = "dialling" \/ reason'[p] = "budget") => signalled'[p]
  PROVE  WaitInv'
<1> SUFFICES ASSUME NEW p \in Procs
             PROVE  /\ Within(pc'[p], wait'[p]) /\ TooLate(pc'[p], reason'[p], wait'[p])
                    /\ Noticed(pc'[p], reason'[p], signalled'[p], db' = "up", wait'[p])
  BY DEF WaitInv, Waits
<1>1. /\ Within(pc[p], wait[p]) /\ TooLate(pc[p], reason[p], wait[p])
      /\ Noticed(pc[p], reason[p], signalled[p], db = "up", wait[p])
  BY DEF WaitInv, Waits
<1>2. Within(pc'[p], wait'[p])
  <2>1. ASSUME pc'[p] # "sleep" PROVE Within(pc'[p], NoWait)
    BY <2>1, StartupAssumption DEF PausesGrow, NoWait, Within
  <2>2. CASE wait'[p] = wait[p] /\ pc'[p] = pc[p]
    BY <1>1, <2>2
  <2>3. CASE wait'[p] = wait[p] /\ pc'[p] \notin Waiting
    <3>1. wait[p].delay <= MaxDelay /\ wait[p].waited <= Budget + PingTimeout
      BY <1>1 DEF Within
    <3>2. pc'[p] \notin {"ping", "dialling"} /\ pc'[p] # "sleep"
      BY <2>3 DEF Waiting
    <3> QED BY <2>3, <3>1, <3>2 DEF Within
  <2>4. CASE wait'[p] = NoWait /\ pc'[p] # "sleep"
    BY <2>1, <2>4
  <2>5. \/ wait'[p] = wait[p] /\ pc'[p] = pc[p]
        \/ wait'[p] = wait[p] /\ pc'[p] \notin Waiting
        \/ wait'[p] = NoWait /\ pc'[p] # "sleep"
    BY DEF Waiting
  <2> QED BY <2>2, <2>3, <2>4, <2>5
<1>3. TooLate(pc'[p], reason'[p], wait'[p])
  BY <1>1 DEF TooLate
<1>4. Noticed(pc'[p], reason'[p], signalled'[p], db' = "up", wait'[p])
  BY <1>1 DEF Noticed, Waiting
<1> QED BY <1>2, <1>3, <1>4

(* A failed attempt: what it took is within its timeout. *)
LEMMA AttemptFails ==
  ASSUME PausesGrow, WaitInv, NEW p \in Procs, PingFails(p)
  PROVE  WaitInv'
<1>1. pc[p] = "dialling" /\ wait[p] \in Clocks /\ wait \in [Procs -> Clocks]
  BY DEF PingFails, WaitInv, WaitTypes
<1>2. PICK t \in 0..PingTimeout :
        LET w == [wait[p] EXCEPT !.waited = @ + t]
        IN  /\ wait' = [wait EXCEPT ![p] = w]
            /\ IF ~ MaySleep(w) THEN Fail(p, "budget")
               ELSE IF signalled[p] THEN Fail(p, "signal")
               ELSE Goto(p, "sleep") /\ UNCHANGED reason
  BY DEF PingFails
<1>3. PICK w \in Clocks :
        /\ w.waited = wait[p].waited + t /\ w.delay = wait[p].delay /\ w.readyAt = wait[p].readyAt
        /\ wait' = [wait EXCEPT ![p] = w]
        /\ IF ~ MaySleep(w) THEN Fail(p, "budget")
           ELSE IF signalled[p] THEN Fail(p, "signal")
           ELSE Goto(p, "sleep") /\ UNCHANGED reason
  <2>1. /\ [wait[p] EXCEPT !.waited = @ + t] \in Clocks
        /\ [wait[p] EXCEPT !.waited = @ + t].waited = wait[p].waited + t
        /\ [wait[p] EXCEPT !.waited = @ + t].delay = wait[p].delay
        /\ [wait[p] EXCEPT !.waited = @ + t].readyAt = wait[p].readyAt
    <3>1. t \in Nat /\ wait[p].waited \in Nat
      BY <1>1, StartupAssumption DEF Clocks
    <3>2. wait[p].waited + t \in Nat
      BY <3>1
    <3> QED BY <1>1, <3>2 DEF Clocks
  <2> QED BY <1>2, <2>1
<1>4. /\ w.waited <= Budget + PingTimeout /\ w.delay <= MaxDelay
      /\ db = "up" /\ ~ signalled[p] => w.waited <= w.readyAt + PingTimeout
      /\ MaySleep(w) <=> w.waited + w.delay <= Budget
  <2>1. /\ wait[p].waited <= Budget /\ wait[p].delay <= MaxDelay
        /\ db = "up" /\ ~ signalled[p] => wait[p].waited <= wait[p].readyAt
    BY <1>1 DEF WaitInv, Waits, Within, Noticed
  <2> QED BY <1>1, <1>3, <2>1, StartupAssumption DEF Clocks, MaySleep
<1>5. PICK l \in {"failed", "sleep"}, why \in {"budget", "signal", reason[p]} :
        /\ pc' = [pc EXCEPT ![p] = l] /\ reason' = [reason EXCEPT ![p] = why]
        /\ l = "sleep" => MaySleep(w) /\ why = reason[p]
        /\ why = "budget" => (l = "failed" /\ ~ MaySleep(w)) \/ why = reason[p]
  <2>1. reason = [reason EXCEPT ![p] = reason[p]]
    BY DEF WaitInv, WaitTypes
  <2>2. CASE ~ MaySleep(w)
    BY <1>3, <2>2 DEF Fail, Goto
  <2>3. CASE MaySleep(w) /\ signalled[p]
    BY <1>3, <2>3 DEF Fail, Goto
  <2>4. CASE MaySleep(w) /\ ~ signalled[p]
    BY <1>3, <2>1, <2>4 DEF Goto
  <2> QED BY <2>2, <2>3, <2>4
<1>6. UNCHANGED <<signalled, db>>
  BY DEF PingFails, Quiet
<1>7. reason[p] # "budget"
  BY <1>1 DEF WaitInv, Waits, TooLate
<1>8. Within(l, w)
  BY <1>4, <1>5 DEF Within
<1>9. TooLate(l, why, w)
  <2>1. w.waited \in Nat /\ w.delay \in Nat /\ Budget \in Nat
    BY <1>3, StartupAssumption DEF Clocks
  <2> QED BY <1>4, <1>5, <1>7, <2>1 DEF TooLate
<1>10. Noticed(l, why, signalled[p], db = "up", w)
  <2>1. w.waited \in Nat /\ w.delay \in Nat /\ w.readyAt \in Nat /\ Budget \in Nat
        /\ MaxDelay \in Nat /\ PingTimeout \in Nat
    BY <1>3, StartupAssumption DEF Clocks
  <2>2. ~ MaySleep(w) /\ w.waited <= w.readyAt + PingTimeout => w.readyAt + MaxDelay + PingTimeout > Budget
    BY <1>4, <2>1
  <2> QED BY <1>4, <1>5, <1>7, <2>2 DEF Noticed
<1>11. WaitTypes'
  <2>1. l \in Labels /\ why \in Reasons
    BY EndLabels DEF Outside, Whys, WaitInv, WaitTypes
  <2> QED BY <1>3, <1>5, <1>6, <2>1 DEF WaitInv, WaitTypes
<1> QED BY <1>1, <1>3, <1>5, <1>6, <1>8, <1>9, <1>10, <1>11 DEF WaitInv, WaitTypes, Waits

(* A pause ends, or a signal cuts it short. *)
LEMMA SleepEnds ==
  ASSUME PausesGrow, WaitInv, NEW p \in Procs, Sleep(p)
  PROVE  WaitInv'
<1>1. pc[p] = "sleep" /\ wait[p] \in Clocks /\ wait \in [Procs -> Clocks] /\ reason[p] # "budget"
  BY DEF Sleep, WaitInv, WaitTypes, Waits, TooLate
<1>2. UNCHANGED <<signalled, db>>
  BY DEF Sleep, Quiet
<1>3. {"failed", "ping"} \subseteq Labels /\ "signal" \in Reasons
  BY EndLabels DEF Outside, Whys
<1>4. CASE signalled[p] /\ Fail(p, "signal") /\ UNCHANGED wait
  <2>1. WaitTypes'
    BY <1>2, <1>3, <1>4 DEF WaitInv, WaitTypes, Fail, Goto
  <2> QED BY <1>1, <1>2, <1>4, <2>1, ElsewhereWaits DEF Fail, Goto, WaitInv, WaitTypes, Waiting
<1>5. CASE /\ ~ signalled[p] /\ Goto(p, "ping") /\ UNCHANGED reason
           /\ wait' = [wait EXCEPT ![p].waited = @ + wait[p].delay, ![p].delay = Doubled(@)]
  <2>1. wait[p].waited \in Nat /\ wait[p].delay \in Nat /\ wait[p].readyAt \in Nat /\ MaxDelay \in Nat
        /\ Budget \in Nat /\ PingTimeout \in Nat
    BY <1>1, StartupAssumption DEF Clocks
  <2>2. Doubled(wait[p].delay) \in Nat /\ Doubled(wait[p].delay) <= MaxDelay
    BY <2>1 DEF Doubled
  <2>3. PICK w \in Clocks : /\ wait' = [wait EXCEPT ![p] = w]
                            /\ w.waited = wait[p].waited + wait[p].delay
                            /\ w.delay = Doubled(wait[p].delay)
    <3>1. wait[p].waited + wait[p].delay \in Nat
      BY <2>1
    <3>2. wait' = [wait EXCEPT ![p] = [wait[p] EXCEPT !.waited = wait[p].waited + wait[p].delay,
                                                      !.delay = Doubled(wait[p].delay)]]
      BY <1>1, <1>5
    <3>3. [wait[p] EXCEPT !.waited = wait[p].waited + wait[p].delay,
                          !.delay = Doubled(wait[p].delay)] \in Clocks
      BY <1>1, <2>2, <3>1 DEF Clocks
    <3> QED BY <1>1, <3>2, <3>3 DEF Clocks
  <2>4. w.waited <= Budget /\ w.delay <= MaxDelay /\ w.waited \in Nat
    BY <1>1, <2>1, <2>2, <2>3 DEF WaitInv, Waits, Within, Clocks
  <2>5. Within("ping", w)
    BY <2>1, <2>4 DEF Within
  <2>6. TooLate("ping", reason[p], w) /\ Noticed("ping", reason[p], signalled[p], db = "up", w)
    BY <1>1 DEF TooLate, Noticed
  <2>7. WaitTypes'
    BY <1>2, <1>3, <1>5, <2>3 DEF WaitInv, WaitTypes, Goto
  <2> QED BY <1>2, <1>5, <2>3, <2>5, <2>6, <2>7 DEF WaitInv, WaitTypes, Waits, Goto
<1> QED BY <1>4, <1>5 DEF Sleep

(* The server comes up, which every process's clock notes. *)
LEMMA UpNoted == ASSUME PausesGrow, WaitInv, DatabaseUp PROVE WaitInv'
<1>1. UNCHANGED <<pc, reason, signalled>> /\ wait' = [p \in Procs |-> [wait[p] EXCEPT !.readyAt = wait[p].waited]]
  BY DEF DatabaseUp
<1> SUFFICES ASSUME NEW p \in Procs
             PROVE  /\ wait'[p] \in Clocks
                    /\ Within(pc[p], wait'[p]) /\ TooLate(pc[p], reason[p], wait'[p])
                    /\ Noticed(pc[p], reason[p], signalled[p], db' = "up", wait'[p])
  <2>1. wait' = [p \in Procs |-> wait'[p]]
    BY <1>1
  <2> QED BY <1>1, <2>1 DEF WaitInv, WaitTypes, Waits
<1>2. wait[p] \in Clocks /\ wait[p].waited \in Nat /\ wait[p].delay \in Nat
  BY DEF WaitInv, WaitTypes, Clocks
<1>3. /\ wait'[p] \in Clocks /\ wait'[p].waited = wait[p].waited
      /\ wait'[p].delay = wait[p].delay /\ wait'[p].readyAt = wait[p].waited
  BY <1>1, <1>2 DEF Clocks
<1>4. Within(pc[p], wait[p]) /\ TooLate(pc[p], reason[p], wait[p])
  BY DEF WaitInv, Waits
<1>5. Within(pc[p], wait'[p]) /\ TooLate(pc[p], reason[p], wait'[p])
  BY <1>3, <1>4 DEF Within, TooLate
<1>6. Noticed(pc[p], reason[p], signalled[p], db' = "up", wait'[p])
  <2>1. Budget \in Nat /\ MaxDelay \in Nat /\ PingTimeout \in Nat
    BY StartupAssumption
  <2>2. wait[p].delay <= MaxDelay /\ (reason[p] = "budget" => wait[p].waited + wait[p].delay > Budget)
    BY <1>4 DEF Within, TooLate
  <2>3. reason[p] = "budget" => wait[p].waited + MaxDelay + PingTimeout > Budget
    BY <1>2, <2>1, <2>2
  <2> QED BY <1>2, <1>3, <2>3 DEF Noticed
<1> QED BY <1>3, <1>5, <1>6

(* An attempt begins or is answered. *)
LEMMA PingStep ==
  ASSUME PausesGrow, WaitInv, NEW p \in Procs, Ping(p)
  PROVE  WaitInv'
<1>1. /\ pc[p] \in {"ping", "dialling"} /\ pc \in [Procs -> Labels] /\ reason \in [Procs -> Reasons]
      /\ wait \in [Procs -> Clocks] /\ signalled \in [Procs -> BOOLEAN]
  BY DEF Ping, WaitInv, WaitTypes
<1>2. UNCHANGED <<signalled, db>>
  BY DEF Ping, Quiet
<1>3. {"lock", "failed", "dialling"} \subseteq Labels /\ "refused" \in Reasons /\ NoWait \in Clocks
  BY EndLabels, StartupAssumption DEF Outside, Whys, NoWait, Clocks
<1>4. CASE Goto(p, "lock") /\ wait' = [wait EXCEPT ![p] = NoWait] /\ UNCHANGED reason
  <2>1. WaitTypes'
    BY <1>1, <1>2, <1>3, <1>4 DEF WaitTypes, Goto
  <2>2. reason[p] # "budget"
    BY <1>1 DEF WaitInv, Waits, TooLate
  <2> QED BY <1>1, <1>2, <1>4, <2>1, <2>2, ElsewhereWaits DEF Goto, Waiting
<1>5. CASE Fail(p, "refused") /\ UNCHANGED wait
  <2>1. WaitTypes'
    BY <1>1, <1>2, <1>3, <1>5 DEF WaitTypes, Fail, Goto
  <2> QED BY <1>1, <1>2, <1>5, <2>1, ElsewhereWaits DEF Fail, Goto, Waiting
<1>6. CASE (db = "down" \/ signalled[p]) /\ Goto(p, "dialling") /\ UNCHANGED <<wait, reason>>
  <2>1. WaitTypes'
    BY <1>1, <1>2, <1>3, <1>6 DEF WaitTypes, Goto
  <2>2. Within("dialling", wait[p])
    BY <1>1 DEF WaitInv, Waits, Within
  <2>3. reason[p] # "budget"
    BY <1>1 DEF WaitInv, Waits, TooLate
  <2>4. TooLate("dialling", reason[p], wait[p]) /\ Noticed("dialling", reason[p], signalled[p], db = "up", wait[p])
    BY <1>6, <2>3 DEF TooLate, Noticed
  <2> QED BY <1>1, <1>2, <1>6, <2>1, <2>2, <2>4 DEF WaitInv, Waits, Goto
<1> QED BY <1>4, <1>5, <1>6 DEF Ping

(* All other steps. *)
LEMMA OtherWaits ==
  ASSUME PausesGrow, WaitInv, NEW p \in Procs, NEW l \in Labels \ Waiting, NEW why \in Reasons,
         pc' = [pc EXCEPT ![p] = l], reason' = [reason EXCEPT ![p] = why],
         why = "budget" => why = reason[p] /\ l = pc[p],
         UNCHANGED <<wait, signalled, db>>
  PROVE  WaitInv'
<1>1. WaitTypes'
  BY DEF WaitInv, WaitTypes
<1>2. pc \in [Procs -> Labels] /\ reason \in [Procs -> Reasons]
  BY DEF WaitInv, WaitTypes
<1> QED BY <1>1, <1>2, ElsewhereWaits DEF Waiting

LEMMA BootWaits ==
  ASSUME PausesGrow, WaitInv, NEW p \in Procs, Boot(p)
  PROVE  WaitInv'
<1>1. /\ pc[p] \in Ended /\ pc' = [pc EXCEPT ![p] = "ping"] /\ reason' = [reason EXCEPT ![p] = "none"]
      /\ wait' = [wait EXCEPT ![p] = NoWait] /\ signalled' = [signalled EXCEPT ![p] = FALSE]
      /\ db' = db
  BY DEF Boot, Goto
<1>2. /\ pc \in [Procs -> Labels] /\ reason \in [Procs -> Reasons]
      /\ wait \in [Procs -> Clocks] /\ signalled \in [Procs -> BOOLEAN]
  BY DEF WaitInv, WaitTypes
<1>3. "ping" \in Labels /\ "none" \in Reasons /\ NoWait \in Clocks
  BY EndLabels, StartupAssumption DEF Outside, Whys, NoWait, Clocks
<1>4. WaitTypes'
  BY <1>1, <1>2, <1>3 DEF WaitTypes
<1>5. pc[p] \notin Waiting
  BY <1>1 DEF Ended, Waiting
<1> QED BY <1>1, <1>2, <1>4, <1>5, ElsewhereWaits DEF Waiting

LEMMA SignalWaits ==
  ASSUME PausesGrow, WaitInv, NEW p \in Procs, Signal(p)
  PROVE  WaitInv'
<1>1. UNCHANGED <<pc, reason, wait, db>> /\ signalled' = [signalled EXCEPT ![p] = TRUE]
  BY DEF Signal
<1>2. WaitTypes'
  BY <1>1 DEF WaitInv, WaitTypes
<1>3. \A q \in Procs : signalled[q] => signalled'[q]
  BY <1>1 DEF WaitInv, WaitTypes
<1> QED BY <1>1, <1>2, <1>3, ElsewhereWaits

(* From the lock to the end: nobody waits for the database any more. *)
Onward == {"load", "apply", "record", "commit", "unlock", "probe", "reap", "listen", "serving",
           "draining", "closing", "off", "failed", "exited"}

LEMMA OnwardMoves ==
  ASSUME WaitInv, NEW p \in Procs,
         \/ Lock(p) \/ LoadApplied(p) \/ RunMigration(p) \/ Record(p) \/ Commit(p) \/ CommitLost(p)
         \/ Unlock(p) \/ Prepare(p) \/ StatementFails(p) \/ Kill(p)
         \/ Listen(p) \/ ServeFails(p) \/ Drain(p) \/ ShutdownReturns(p) \/ ShutdownTimesOut(p) \/ Exit(p)
  PROVE  \E l \in Onward, why \in {"mismatch", "conflict", "fault", "signal", "timeout", reason[p]} :
           pc' = [pc EXCEPT ![p] = l] /\ reason' = [reason EXCEPT ![p] = why]
<1> USE DEF Goto, Onward
<1>1. reason = [reason EXCEPT ![p] = reason[p]]
  BY DEF WaitInv, WaitTypes
<1>2. CASE Lock(p) \/ LoadApplied(p) \/ RunMigration(p)
  BY <1>1, <1>2 DEF Lock, LoadApplied, RunMigration
<1>3. CASE Record(p)
  <2>1. \/ pc' = [pc EXCEPT ![p] = "commit"] /\ reason' = reason
        \/ pc' = [pc EXCEPT ![p] = "unlock"] /\ reason' = [reason EXCEPT ![p] = "conflict"]
    BY <1>3 DEF Record
  <2> QED BY <1>1, <2>1
<1>4. CASE Commit(p) \/ CommitLost(p) \/ Unlock(p)
  BY <1>1, <1>4 DEF Commit, CommitLost, Unlock, AfterUnlock
<1>5. CASE Prepare(p) \/ StatementFails(p) \/ Kill(p)
  BY <1>1, <1>5 DEF Prepare, StatementFails, Why, Kill
<1>6. CASE Listen(p) \/ ServeFails(p) \/ Drain(p) \/ ShutdownReturns(p)
  BY <1>1, <1>6 DEF Listen, Fail, ServeFails, Drain, ShutdownReturns
<1>7. CASE ShutdownTimesOut(p) \/ Exit(p)
  BY <1>1, <1>7 DEF ShutdownTimesOut, Exit
<1> QED BY <1>2, <1>3, <1>4, <1>5, <1>6, <1>7

LEMMA OnwardWaits ==
  ASSUME PausesGrow, WaitInv, NEW p \in Procs,
         \/ Lock(p) \/ LoadApplied(p) \/ RunMigration(p) \/ Record(p) \/ Commit(p) \/ CommitLost(p)
         \/ Unlock(p) \/ Prepare(p) \/ StatementFails(p) \/ Kill(p)
         \/ Listen(p) \/ ServeFails(p) \/ Drain(p) \/ ShutdownReturns(p) \/ ShutdownTimesOut(p) \/ Exit(p)
  PROVE  WaitInv'
<1>1. PICK l \in Onward, why \in {"mismatch", "conflict", "fault", "signal", "timeout", reason[p]} :
        pc' = [pc EXCEPT ![p] = l] /\ reason' = [reason EXCEPT ![p] = why]
  BY OnwardMoves
<1>2. UNCHANGED <<wait, signalled, db>>
  BY DEF Lock, LoadApplied, RunMigration, Record, Commit, CommitLost, Unlock, Prepare, StatementFails,
         Kill, Listen, ServeFails, Drain, ShutdownReturns, ShutdownTimesOut, Exit, Rest
<1>3. pc[p] # "failed"
  BY DEF Lock, LoadApplied, RunMigration, Record, Commit, CommitLost, Unlock, Prepare, StatementFails,
         Kill, Ended, Holding, Listen, ServeFails, Drain, ShutdownReturns, ShutdownTimesOut, Exit
<1>4. reason[p] # "budget" /\ reason[p] \in Reasons
  BY <1>3 DEF WaitInv, WaitTypes, Waits, TooLate
<1>5. why # "budget" /\ why \in Reasons
  BY <1>4, EndLabels DEF Whys
<1>6. l \in Labels \ Waiting
  BY EndLabels DEF Onward, Outside, Waiting
<1> QED BY <1>1, <1>2, <1>5, <1>6, OtherWaits

LEMMA WaitsStep == ASSUME PausesGrow, WaitInv, [Next]_vars PROVE WaitInv'
<1>1. CASE UNCHANGED <<pc, reason, wait, signalled, db>>
  BY <1>1 DEF WaitInv, WaitTypes, Waits
<1>2. ASSUME NEW p \in Procs,
             \/ RequestBegins(p) \/ RequestEnds(p) \/ SocketOpens(p) \/ PeerLeaves(p)
             \/ Reader(p) \/ Pinger(p)
      PROVE  UNCHANGED <<pc, reason, wait, signalled, db>>
  BY <1>2 DEF RequestBegins, RequestEnds, SocketOpens, PeerLeaves, Reader, ReadFails, HandlerReturns,
              Pinger, Tick, Pong, PingLost, PingerStops, startup, local
<1>3. ASSUME vars' = vars PROVE UNCHANGED <<pc, reason, wait, signalled, db>>
  BY <1>3 DEF vars, startup, local
<1>4. ASSUME NEW p \in Procs, Run(p) \/ Boot(p) \/ CommitLost(p) \/ Signal(p) \/ Kill(p) PROVE WaitInv'
  BY <1>4, PingStep, AttemptFails, SleepEnds, OnwardWaits, BootWaits, SignalWaits DEF Run
<1> QED BY <1>1, <1>2, <1>3, <1>4, UpNoted, OnwardWaits DEF Next, Advance

(* No process waits for the database past its budget by more than the      *)
(* attempt under way; and one that gives up unsignalled has given a server *)
(* that did come up all the time there was.                                *)
THEOREM Patience == ASSUME PausesGrow PROVE Spec => []PatienceIsBudget
<1>1. ASSUME PausesGrow, Init PROVE WaitInv
  <2>1. "off" \in Labels /\ "none" \in Reasons /\ NoWait \in Clocks
    BY StartupAssumption DEF Labels, Ended, Reasons, NoWait, Clocks
  <2>2. WaitTypes
    BY <1>1, <2>1 DEF Init, StartupInit, WaitTypes
  <2>3. NoWait.delay <= MaxDelay /\ NoWait.waited <= Budget + PingTimeout
    BY <1>1, StartupAssumption DEF PausesGrow, NoWait
  <2>4. Waits
    BY <1>1, <2>3 DEF Init, StartupInit, Waits, Within, TooLate, Noticed
  <2> QED BY <2>2, <2>4 DEF WaitInv
<1>2. WaitInv => PatienceIsBudget
  BY DEF WaitInv, Waits, Within, Noticed, PatienceIsBudget
<1> QED BY <1>1, <1>2, WaitsStep, PTL DEF Spec
=============================================================================
