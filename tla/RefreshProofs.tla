---------------------------- MODULE RefreshProofs ----------------------------
(***************************************************************************)
(* Proofs about Refresh, for any items, libraries, images and bounds.      *)
(***************************************************************************)
EXTENDS Refresh, FiniteSetTheorems, TLAPS

LEMMA PathIsPath ==
  ASSUME NEW im \in Images, NEW v \in Versions
  PROVE  Path(im, v) \in Paths
BY DEF Path, Paths, Exts

(***************************************************************************)
(* The type invariant: in particular a stored row always names a version,  *)
(* and with it a path and a tag.                                           *)
(***************************************************************************)
THEOREM TypeCorrect == Spec => []TypeOK
<1> USE Limits
<1>1. Init => TypeOK
  <2> SUFFICES ASSUME Init PROVE TypeOK
    OBVIOUS
  <2>1. Absent \in Rows
    BY DEF Absent, Rows
  <2>2. at \in [Libraries -> Images]
    BY DEF Init
  <2>3. row \in [Images -> Rows] /\ image \in [Libraries -> Rows]
    BY <2>1 DEF Init
  <2>4. /\ disk \in [Paths -> Versions \cup {0}]
        /\ temp \in SUBSET Libraries /\ litter \in BOOLEAN
        /\ fields \in SUBSET Items /\ locked \in SUBSET Images
        /\ offer \in [Images -> Versions \cup {0}]
    BY DEF Init
  <2>5. /\ step \in [Libraries -> {"idle", "sweep", "reconcile", "items", "images", "rename",
                                    "claim", "row", "done"}]
        /\ all \in [Libraries -> BOOLEAN]
        /\ claims \in [Libraries -> SUBSET Images]
        /\ todo \in [Libraries -> SUBSET Items]
    BY DEF Init
  <2>6. /\ known \in [Libraries -> [Types -> Versions \cup {0}]]
        /\ types \in [Libraries -> SUBSET Types]
        /\ lost \in SUBSET Paths
        /\ over \in SUBSET Images
        /\ calm \in [Libraries -> BOOLEAN]
        /\ passes \in Nat /\ faults \in Nat /\ locks \in Nat /\ offers \in Nat
    BY DEF Init
  <2>7. QED
    BY <2>2, <2>3, <2>4, <2>5, <2>6 DEF TypeOK
<1>2. TypeOK /\ [Next]_vars => TypeOK'
  <2> SUFFICES ASSUME TypeOK, [Next]_vars PROVE TypeOK'
    OBVIOUS
  <2> USE DEF TypeOK, cache, tables, item, lists, pass, history, counters
  <2>1. ASSUME NEW l \in Libraries, NEW full \in BOOLEAN, StartRefresh(l, full)
        PROVE TypeOK'
    BY <2>1 DEF StartRefresh
  <2>2. ASSUME NEW l \in Libraries, Sweep(l) PROVE TypeOK'
    BY <2>2 DEF Sweep
  <2>3. ASSUME NEW l \in Libraries, NEW im \in Images, Reconcile(l, im) PROVE TypeOK'
    BY <2>3 DEF Reconcile, Rows, Absent
  <2>4. ASSUME NEW l \in Libraries, Select(l) PROVE TypeOK'
    <3>1. ItemsNeedingMetadata(l, ~all[l]) \in SUBSET Items
      BY DEF ItemsNeedingMetadata
    <3>2. QED
      BY <2>4, <3>1 DEF Select
  <2>5. ASSUME NEW l \in Libraries, NEW i \in Items, SkipItem(l, i) PROVE TypeOK'
    <3>1. faults' \in Nat /\ calm' \in [Libraries -> BOOLEAN]
      <4>1. CASE UNCHANGED <<faults, calm>>
        BY <4>1
      <4>2. CASE faults' = faults + 1 /\ calm' = [calm EXCEPT ![l] = FALSE]
        BY <4>2
      <4>3. QED
        BY <2>5, <4>1, <4>2 DEF SkipItem
    <3>2. todo' \in [Libraries -> SUBSET Items]
      BY <2>5 DEF SkipItem, NextItem
    <3>3. QED
      BY <2>5, <3>1, <3>2 DEF SkipItem
  <2>6. ASSUME NEW l \in Libraries, NEW i \in Items, FetchItem(l, i) PROVE TypeOK'
    <3>1. <<i, at[l][2]>> \in Images
      BY DEF Images
    <3>2. [t \in Types |-> offer[<<i, t>>]] \in [Types -> Versions \cup {0}]
      BY DEF Images
    <3>3. QED
      BY <2>6, <3>1, <3>2 DEF FetchItem, NextItem
  <2>7. ASSUME NEW l \in Libraries, NEW t \in Types, NextType(l, t)
        PROVE /\ types' \in [Libraries -> SUBSET Types]
              /\ at' \in [Libraries -> Images]
              /\ known[l][t] \in Versions \cup {0}
    <3>1. <<at[l][1], t>> \in Images
      BY DEF Images
    <3>2. QED
      BY <2>7, <3>1 DEF NextType
  <2>8. ASSUME NEW l \in Libraries, NEW t \in Types, SkipRecorded(l, t) PROVE TypeOK'
    BY <2>7, <2>8 DEF SkipRecorded
  <2>9. ASSUME NEW l \in Libraries, NEW t \in Types, NotOffered(l, t) PROVE TypeOK'
    BY <2>7, <2>9 DEF NotOffered, Rows, Negative
  <2>10. ASSUME NEW l \in Libraries, NEW t \in Types, OpenTemp(l, t) PROVE TypeOK'
    <3>1. Stored(known[l][t]) \in Rows
      BY <2>7, <2>10 DEF OpenTemp, Rows, Stored
    <3>2. QED
      BY <2>7, <2>10, <3>1 DEF OpenTemp
  <2>11. ASSUME NEW l \in Libraries, Rename(l) PROVE TypeOK'
    <3>1. image[l].version \in Versions \cup {0}
      BY DEF Rows
    <3>2. over' \in SUBSET Images
      BY <2>11 DEF Rename
    <3>3. /\ disk' \in [Paths -> Versions \cup {0}] /\ lost' \in SUBSET Paths
          /\ calm' \in [Libraries -> BOOLEAN]
      BY <2>11, <3>1 DEF Rename
    <3>4. /\ temp' \in SUBSET Libraries
          /\ step' \in [Libraries -> {"idle", "sweep", "reconcile", "items", "images",
                                      "rename", "claim", "row", "done"}]
      BY <2>11 DEF Rename, AfterRename
    <3>5. QED
      BY <2>11, <3>2, <3>3, <3>4 DEF Rename
  <2>12. ASSUME NEW l \in Libraries, DownloadFails(l) PROVE TypeOK'
    BY <2>12 DEF DownloadFails
  <2>13. ASSUME NEW l \in Libraries, Claim(l) PROVE TypeOK'
    BY <2>13 DEF Claim
  <2>14. ASSUME NEW l \in Libraries, WriteRow(l) PROVE TypeOK'
    BY <2>14 DEF WriteRow
  <2>15. ASSUME NEW l \in Libraries, ItemDone(l) \/ Complete(l) \/ Return(l) PROVE TypeOK'
    BY <2>15 DEF ItemDone, Complete, Return
  <2>16. ASSUME NEW l \in Libraries, Abandon(l) PROVE TypeOK'
    BY <2>16 DEF Abandon
  <2>17. CASE Crash
    BY <2>17 DEF Crash
  <2>18. CASE Wipe
    <3>1. disk' \in [Paths -> Versions \cup {0}]
      BY <2>18 DEF Wipe
    <3>2. calm' \in [Libraries -> BOOLEAN] /\ faults' \in Nat
      BY <2>18 DEF Wipe
    <3>3. temp' \in SUBSET Libraries /\ litter' \in BOOLEAN /\ lost' \in SUBSET Paths
      BY <2>18 DEF Wipe
    <3>4. QED
      BY <2>18, <3>1, <3>2, <3>3 DEF Wipe
  <2>19. ASSUME NEW im \in Images, NEW pinned \in BOOLEAN, SetLocked(im, pinned)
         PROVE TypeOK'
    BY <2>19 DEF SetLocked
  <2>20. ASSUME NEW im \in Images, NEW v \in Versions \cup {0}, Offer(im, v)
         PROVE TypeOK'
    BY <2>20 DEF Offer
  <2>21. CASE UNCHANGED vars
    BY <2>21 DEF vars
  <2>22. QED
    BY <2>1, <2>2, <2>3, <2>4, <2>5, <2>6, <2>8, <2>9, <2>10, <2>11, <2>12, <2>13, <2>14,
       <2>15, <2>16, <2>17, <2>18, <2>19, <2>20, <2>21, FullBoolean
    DEF Next
<1>3. QED
  BY <1>1, <1>2, PTL DEF Spec

------------------------------------------------------------------------------

\* Paths of different images differ.
LEMMA PathsApart ==
  ASSUME NEW im, NEW jm, NEW v, NEW w, Path(im, v) = Path(jm, w)
  PROVE  im = jm
BY DEF Path

LEMMA StoredHasVersion ==
  ASSUME NEW r \in Rows, r.kind = "stored"
  PROVE  r.version \in Versions /\ r.version # 0
BY VersionsPositive DEF Rows

\* A download under way is of an image to be stored.
RenameStores == \A l \in Libraries : step[l] = "rename" => image[l].kind = "stored"

\* What a pass is about to record is in place, unless it was wiped since.
PutInPlace ==
  \A l \in Libraries :
    step[l] \in {"claim", "row"} /\ image[l].kind = "stored" =>
      LET p == Path(at[l], image[l].version) IN p \notin lost => disk[p] # 0

\* A step that neither touches files and rows nor enters a download.
StepElsewhere ==
  /\ UNCHANGED <<disk, row, lost, at, image>>
  /\ \A l \in Libraries :
       \/ step'[l] = step[l]
       \/ step'[l] \notin {"rename", "claim", "row"}
       \/ step[l] = "claim" /\ step'[l] = "row"

LEMMA StepElsewhereKeepsFiles ==
  ASSUME RowHasFile, RenameStores, PutInPlace, StepElsewhere
  PROVE  RowHasFile' /\ RenameStores' /\ PutInPlace'
BY DEF StepElsewhere, RowHasFile, RenameStores, PutInPlace, FileExists

(***************************************************************************)
(* A row never promises bytes that were not put in place first: whatever   *)
(* crashes, failures and passes over other libraries, only the loss of the *)
(* file takes it from under its row.                                       *)
(***************************************************************************)
THEOREM RowsHaveFiles == Spec => []RowHasFile
<1> DEFINE IInv == RowHasFile /\ RenameStores /\ PutInPlace
<1>1. Init => IInv
  BY DEF Init, RowHasFile, RenameStores, PutInPlace, Absent
<1>2. TypeOK /\ IInv /\ [Next]_vars => IInv'
  <2> SUFFICES ASSUME TypeOK, IInv, [Next]_vars PROVE IInv'
    OBVIOUS
  <2> USE DEF cache, tables, item, lists, pass, history, counters
  <2>1. StepElsewhere => IInv'
    BY StepElsewhereKeepsFiles
  <2>2. ASSUME NEW l \in Libraries, NEW im \in Images, Reconcile(l, im) PROVE IInv'
    BY <2>2 DEF Reconcile, TypeOK, Absent, RowHasFile, RenameStores, PutInPlace, FileExists
  <2>3. ASSUME NEW l \in Libraries, NEW t \in Types,
               SkipRecorded(l, t) \/ NotOffered(l, t) \/ OpenTemp(l, t)
        PROVE IInv'
    <3>1. UNCHANGED <<disk, row, lost>> /\ RowHasFile'
      BY <2>3 DEF SkipRecorded, NotOffered, OpenTemp, RowHasFile, FileExists
    <3>2. step[l] = "images" /\ \A k \in Libraries : k # l => at'[k] = at[k]
      BY <2>3 DEF SkipRecorded, NotOffered, OpenTemp, NextType, TypeOK
    <3>3. CASE SkipRecorded(l, t)
      BY <3>1, <3>2, <3>3 DEF SkipRecorded, RenameStores, PutInPlace
    <3>4. CASE NotOffered(l, t)
      BY <3>1, <3>2, <3>4 DEF NotOffered, Negative, TypeOK, RenameStores, PutInPlace
    <3>5. CASE OpenTemp(l, t)
      BY <3>1, <3>2, <3>5 DEF OpenTemp, Stored, TypeOK, RenameStores, PutInPlace
    <3>6. QED
      BY <2>3, <3>3, <3>4, <3>5
  <2>4. ASSUME NEW l \in Libraries, NEW i \in Items, FetchItem(l, i) PROVE IInv'
    BY <2>4 DEF FetchItem, NextItem, TypeOK, RowHasFile, RenameStores, PutInPlace, FileExists
  <2>5. ASSUME NEW l \in Libraries, Rename(l) PROVE IInv'
    <3> DEFINE p == Path(at[l], image[l].version)
    <3>1. image[l].version \in Versions /\ image[l].version # 0 /\ at[l] \in Images
      BY <2>5, StoredHasVersion DEF Rename, RenameStores, TypeOK
    <3>2. p \in Paths
      BY <3>1, PathIsPath
    <3>3. CASE l \in temp
      <4>1. /\ disk' = [disk EXCEPT ![p] = image[l].version] /\ lost' = lost \ {p}
            /\ step' = [step EXCEPT ![l] = "claim"]
            /\ UNCHANGED <<row, at, image>>
        BY <2>5, <3>3 DEF Rename, AfterRename
      <4>2. disk'[p] # 0 /\ \A q \in Paths : q # p => disk'[q] = disk[q]
        BY <3>1, <3>2, <4>1 DEF TypeOK
      <4>3. \A q \in Paths : (q \notin lost => disk[q] # 0) => (q \notin lost' => disk'[q] # 0)
        BY <4>1, <4>2
      <4>4. RowHasFile'
        <5> SUFFICES ASSUME NEW im \in Images, row[im].kind = "stored"
                     PROVE  Path(im, row[im].version) \notin lost' =>
                              disk'[Path(im, row[im].version)] # 0
          BY <4>1 DEF RowHasFile, FileExists
        <5>1. Path(im, row[im].version) \in Paths
          BY StoredHasVersion, PathIsPath DEF TypeOK
        <5>2. QED
          BY <4>3, <5>1 DEF RowHasFile, FileExists
      <4>5. PutInPlace'
        <5> SUFFICES ASSUME NEW k \in Libraries, step'[k] \in {"claim", "row"},
                            image[k].kind = "stored"
                     PROVE  Path(at[k], image[k].version) \notin lost' =>
                              disk'[Path(at[k], image[k].version)] # 0
          BY <4>1 DEF PutInPlace
        <5>1. Path(at[k], image[k].version) \in Paths
          BY StoredHasVersion, PathIsPath DEF TypeOK
        <5>2. CASE k = l
          BY <4>2, <5>2
        <5>3. CASE k # l
          BY <4>1, <4>3, <5>1, <5>3 DEF PutInPlace, TypeOK
        <5>4. QED
          BY <5>2, <5>3
      <4>6. QED
        BY <4>1, <4>4, <4>5 DEF RenameStores, TypeOK
    <3>4. CASE l \notin temp
      <4>1. step' = [step EXCEPT ![l] = "images"] /\ UNCHANGED <<disk, row, lost, at, image>>
        BY <2>5, <3>4 DEF Rename, AfterRename
      <4>2. QED
        BY <2>1, <4>1 DEF TypeOK, StepElsewhere
    <3>5. QED
      BY <3>3, <3>4
  <2>6. ASSUME NEW l \in Libraries, WriteRow(l) PROVE IInv'
    BY <2>6 DEF WriteRow, TypeOK, RowHasFile, RenameStores, PutInPlace, FileExists
  <2>7. CASE Wipe
    <3>1. \A im \in Images : row[im].kind = "stored" => Path(im, row[im].version) \in Paths
      BY StoredHasVersion, PathIsPath DEF TypeOK
    <3>2. \A l \in Libraries :
            image[l].kind = "stored" => Path(at[l], image[l].version) \in Paths
      BY StoredHasVersion, PathIsPath DEF TypeOK
    <3>3. lost' = Paths /\ UNCHANGED <<row, step, at, image>>
      BY <2>7 DEF Wipe
    <3>4. QED
      BY <3>1, <3>2, <3>3 DEF RowHasFile, RenameStores, PutInPlace
  <2>8. ASSUME NEW l \in Libraries,
               \/ \E full \in Full : StartRefresh(l, full)
               \/ Sweep(l) \/ Select(l) \/ DownloadFails(l) \/ Claim(l)
               \/ ItemDone(l) \/ Complete(l) \/ Return(l) \/ Abandon(l)
        PROVE IInv'
    <3>1. UNCHANGED <<disk, row, lost, at, image>>
      BY <2>8 DEF StartRefresh, Sweep, Select, DownloadFails, Claim, ItemDone, Complete,
                  Return, Abandon
    <3>2. \A k \in Libraries : k # l => step'[k] = step[k]
      BY <2>8 DEF TypeOK, StartRefresh, Sweep, Select, DownloadFails, Claim, ItemDone,
                  Complete, Return, Abandon
    <3>3. step'[l] \notin {"rename", "claim", "row"} \/ (step[l] = "claim" /\ step'[l] = "row")
      BY <2>8 DEF TypeOK, StartRefresh, Sweep, Select, DownloadFails, Claim, ItemDone,
                  Complete, Return, Abandon
    <3>4. QED
      BY <2>1, <3>1, <3>2, <3>3 DEF StepElsewhere
  <2>9. CASE \/ \E l \in Libraries, i \in Items : SkipItem(l, i)
             \/ \E im \in Images, pinned \in BOOLEAN : SetLocked(im, pinned)
             \/ \E im \in Images, v \in Versions \cup {0} : Offer(im, v)
             \/ UNCHANGED vars
    BY <2>1, <2>9 DEF StepElsewhere, SkipItem, SetLocked, Offer, vars
  <2>10. CASE Crash
    BY <2>1, <2>10 DEF StepElsewhere, Crash
  <2>11. QED
    BY <2>2, <2>3, <2>4, <2>5, <2>6, <2>7, <2>8, <2>9, <2>10 DEF Next
<1>3. QED
  BY <1>1, <1>2, TypeCorrect, PTL DEF Spec

------------------------------------------------------------------------------
(* Tags and bytes. *)

\* A pass works on items of its own library.
OnOwn ==
  \A l \in Libraries :
    /\ \A i \in todo[l] : Home[i] = l
    /\ step[l] \in {"images", "rename", "claim", "row"} => Home[at[l][1]] = l

\* Unless it refetches everything, it downloads only for images without a row.
Fresh ==
  \A l \in Libraries :
    step[l] \in {"rename", "claim", "row"} => all[l] \/ row[at[l]].kind = "absent"

\* What it is about to record is what is on disk, or the file is gone.
Matches ==
  \A l \in Libraries :
    step[l] \in {"claim", "row"} /\ image[l].kind = "stored" =>
      disk[Path(at[l], image[l].version)] \in {0, image[l].version}

TagInv == OnOwn /\ Fresh /\ RenameStores /\ Matches /\ TagTruthful

\* One step of OnlyFullReplaces.
ReplacedByFull ==
  \A im \in Images :
    Served(im) # 0 /\ Served(im)' \notin {0, Served(im)} =>
      \E l \in Libraries : all[l] /\ at[l] = im /\ step[l] \in {"rename", "row"}

\* A step that leaves files, rows and requests alone, and enters an item's
\* images, a download or what follows it only from there.
StepApart ==
  /\ UNCHANGED <<disk, row, at, image, all, over>>
  /\ \A l \in Libraries :
       /\ \A i \in todo'[l] : Home[i] = l
       /\ \/ step'[l] = step[l]
          \/ step'[l] \notin {"images", "rename", "claim", "row"}
          \/ step'[l] = "images" /\ step[l] \in {"rename", "claim", "row"}
          \/ step'[l] = "row" /\ step[l] = "claim"

LEMMA StepApartKeepsTags ==
  ASSUME TagInv, StepApart
  PROVE  TagInv' /\ ReplacedByFull
<1>1. \A im \in Images : Served(im)' = Served(im)
  BY DEF StepApart, Served
<1>2. TagTruthful' /\ ReplacedByFull
  BY <1>1 DEF TagInv, StepApart, TagTruthful, ReplacedByFull
<1>3. OnOwn' /\ Fresh' /\ RenameStores' /\ Matches'
  BY DEF TagInv, StepApart, OnOwn, Fresh, RenameStores, Matches
<1>4. QED
  BY <1>2, <1>3 DEF TagInv

\* Every step of a pass, and of whatever happens around it.
LEMMA TagStep ==
  ASSUME TypeOK, TagInv, [Next]_vars
  PROVE  TagInv' /\ ReplacedByFull
<1> USE DEF cache, tables, item, lists, pass, history, counters
<1>1. StepApart => TagInv' /\ ReplacedByFull
  BY StepApartKeepsTags
<1>2. ASSUME NEW l \in Libraries, NEW full \in Full, StartRefresh(l, full)
      PROVE  TagInv' /\ ReplacedByFull
  <2>1. UNCHANGED <<disk, row, at, image, todo, over>>
    BY <1>2 DEF StartRefresh
  <2>2. \A k \in Libraries :
          (step'[k] = step[k] /\ all'[k] = all[k]) \/ step'[k] = "sweep"
    BY <1>2 DEF StartRefresh, TypeOK
  <2>3. \A im \in Images : Served(im)' = Served(im)
    BY <2>1 DEF Served
  <2>4. TagTruthful' /\ ReplacedByFull
    BY <2>1, <2>3 DEF TagInv, TagTruthful, ReplacedByFull
  <2>5. OnOwn' /\ Fresh' /\ RenameStores' /\ Matches'
    BY <2>1, <2>2 DEF TagInv, OnOwn, Fresh, RenameStores, Matches
  <2>6. QED
    BY <2>4, <2>5 DEF TagInv
<1>3. ASSUME NEW l \in Libraries, NEW im \in Images, Reconcile(l, im)
      PROVE  TagInv' /\ ReplacedByFull
  <2>1. UNCHANGED <<disk, step, all, todo, at, image>>
    BY <1>3 DEF Reconcile
  <2>2. \A jm \in Images : row'[jm] = row[jm] \/ row'[jm] = Absent
    BY <1>3 DEF Reconcile, TypeOK
  <2>3. \A jm \in Images :
          \/ row'[jm] = row[jm] /\ Served(jm)' = Served(jm)
          \/ row'[jm] = Absent /\ Served(jm)' = 0
    BY <2>1, <2>2 DEF Served, Absent
  <2>4. \A jm \in Images : jm \in over => jm \in over' \/ Served(jm)' = 0
    BY <1>3, <2>1 DEF Reconcile, Served, Absent, TypeOK
  <2>5. TagTruthful' /\ ReplacedByFull
    BY <2>3, <2>4 DEF TagInv, TagTruthful, ReplacedByFull
  <2>6. Fresh'
    <3> SUFFICES ASSUME NEW k \in Libraries, step'[k] \in {"rename", "claim", "row"}
                 PROVE  all[k] \/ row'[at[k]].kind = "absent"
      BY <2>1 DEF Fresh
    <3>1. /\ at[k] \in Images /\ Absent.kind = "absent"
          /\ all[k] \/ row[at[k]].kind = "absent"
      BY <2>1 DEF TagInv, Fresh, TypeOK, Absent
    <3>2. QED
      BY <2>2, <3>1
  <2>7. OnOwn' /\ RenameStores' /\ Matches'
    BY <2>1 DEF TagInv, OnOwn, RenameStores, Matches
  <2>8. QED
    BY <2>5, <2>6, <2>7 DEF TagInv
<1>4. ASSUME NEW l \in Libraries, NEW i \in Items, FetchItem(l, i)
      PROVE  TagInv' /\ ReplacedByFull
  <2>1. /\ UNCHANGED <<disk, row, image, all, over>>
        /\ todo' = [todo EXCEPT ![l] = @ \ {i}] /\ i \in todo[l]
        /\ step' = [step EXCEPT ![l] = "images"]
        /\ at' = [at EXCEPT ![l] = <<i, @[2]>>]
    BY <1>4 DEF FetchItem, NextItem
  <2>2. \A jm \in Images : Served(jm)' = Served(jm)
    BY <2>1 DEF Served
  <2>3. TagTruthful' /\ ReplacedByFull
    BY <2>1, <2>2 DEF TagInv, TagTruthful, ReplacedByFull
  <2>4. Home[at'[l][1]] = l /\ \A j \in todo'[l] : Home[j] = l
    BY <2>1 DEF TagInv, OnOwn, TypeOK
  <2>5. step'[l] = "images" /\ \A k \in Libraries : k # l =>
          at'[k] = at[k] /\ step'[k] = step[k] /\ todo'[k] = todo[k]
    BY <2>1 DEF TypeOK
  <2>6. OnOwn' /\ Fresh' /\ RenameStores' /\ Matches'
    BY <2>1, <2>4, <2>5 DEF TagInv, OnOwn, Fresh, RenameStores, Matches
  <2>7. QED
    BY <2>3, <2>6 DEF TagInv
<1>5. ASSUME NEW l \in Libraries, NEW t \in Types,
             SkipRecorded(l, t) \/ NotOffered(l, t) \/ OpenTemp(l, t)
      PROVE  TagInv' /\ ReplacedByFull
  <2>1. /\ UNCHANGED <<disk, row, todo, all, over>> /\ step[l] = "images"
        /\ at' = [at EXCEPT ![l] = <<at[l][1], t>>]
    BY <1>5 DEF SkipRecorded, NotOffered, OpenTemp, NextType
  <2>2. \A jm \in Images : Served(jm)' = Served(jm)
    BY <2>1 DEF Served
  <2>3. TagTruthful' /\ ReplacedByFull
    BY <2>1, <2>2 DEF TagInv, TagTruthful, ReplacedByFull
  <2>4. at'[l] = <<at[l][1], t>> /\ Home[at'[l][1]] = l
    BY <2>1 DEF TagInv, OnOwn, TypeOK
  <2>5. \A k \in Libraries : k # l =>
          at'[k] = at[k] /\ step'[k] = step[k] /\ image'[k] = image[k]
    BY <1>5, <2>1 DEF SkipRecorded, NotOffered, OpenTemp, TypeOK
  <2>6. \/ step'[l] = "images"
        \/ step'[l] = "claim" /\ image'[l].kind = "negative" /\ (all[l] \/ row[at'[l]].kind = "absent")
        \/ step'[l] = "rename" /\ image'[l].kind = "stored" /\ (all[l] \/ row[at'[l]].kind = "absent")
    <3>1. CASE SkipRecorded(l, t)
      BY <2>1, <3>1 DEF SkipRecorded
    <3>2. CASE NotOffered(l, t)
      BY <2>4, <3>2 DEF NotOffered, Recorded, Negative, TagInv, TypeOK
    <3>3. CASE OpenTemp(l, t)
      BY <2>4, <3>3 DEF OpenTemp, Recorded, Stored, TagInv, TypeOK
    <3>4. QED
      BY <1>5, <3>1, <3>2, <3>3
  <2>7. OnOwn' /\ Fresh' /\ RenameStores' /\ Matches'
    BY <2>1, <2>4, <2>5, <2>6 DEF TagInv, OnOwn, Fresh, RenameStores, Matches
  <2>8. QED
    BY <2>3, <2>7 DEF TagInv
<1>6. ASSUME NEW l \in Libraries, Rename(l) PROVE TagInv' /\ ReplacedByFull
  <2> DEFINE p == Path(at[l], image[l].version)
  <2>1. /\ UNCHANGED <<row, todo, all, at, image>> /\ step[l] = "rename"
        /\ step' = [step EXCEPT ![l] = AfterRename(l)]
    BY <1>6 DEF Rename
  <2>2. CASE l \notin temp
    BY <1>1, <1>6, <2>1, <2>2 DEF Rename, AfterRename, StepApart, TagInv, OnOwn, TypeOK
  <2>3. CASE l \in temp
    <3>1. disk' = [disk EXCEPT ![p] = image[l].version] /\ step' = [step EXCEPT ![l] = "claim"]
      BY <1>6, <2>3 DEF Rename, AfterRename
    <3>2. image[l].kind = "stored" /\ image[l].version \in Versions
      BY <2>1, StoredHasVersion DEF TagInv, RenameStores, TypeOK
    <3>3. p \in Paths
      BY <3>2, PathIsPath DEF TypeOK
    <3>4. disk'[p] = image[l].version
      BY <3>1, <3>3 DEF TypeOK
    <3>5. \A jm \in Images, v \in Versions :
            jm # at[l] => disk'[Path(jm, v)] = disk[Path(jm, v)]
      <4> SUFFICES ASSUME NEW jm \in Images, NEW v \in Versions, jm # at[l]
                   PROVE  disk'[Path(jm, v)] = disk[Path(jm, v)]
        OBVIOUS
      <4>1. Path(jm, v) # p
        BY PathsApart
      <4>2. QED
        BY <3>1, <4>1, PathIsPath DEF TypeOK
    <3>6. \A jm \in Images : jm # at[l] => Served(jm)' = Served(jm)
      BY <2>1, <3>5, StoredHasVersion DEF Served, TypeOK
    <3>7. /\ row[at[l]].kind = "stored" => all[l] /\ over' = over \cup {at[l]}
          /\ row[at[l]].kind # "stored" =>
               over' = over /\ Served(at[l]) = 0 /\ Served(at[l])' = 0
      BY <1>6, <2>1, <2>3 DEF Rename, TagInv, Fresh, Served
    <3>8. TagTruthful' /\ ReplacedByFull
      BY <2>1, <3>6, <3>7 DEF TagInv, TagTruthful, ReplacedByFull
    <3>9. OnOwn' /\ Fresh' /\ RenameStores'
      BY <2>1, <3>1 DEF TagInv, OnOwn, Fresh, RenameStores, TypeOK
    <3>10. Matches'
      <4> SUFFICES ASSUME NEW k \in Libraries, step'[k] \in {"claim", "row"},
                          image[k].kind = "stored"
                   PROVE  disk'[Path(at[k], image[k].version)] \in {0, image[k].version}
        BY <2>1 DEF Matches
      <4>1. CASE k = l
        BY <3>4, <4>1
      <4>2. CASE k # l
        <5>1. step[k] \in {"claim", "row"}
          BY <3>1, <4>2 DEF TypeOK
        <5>2. at[k] # at[l]
          BY <2>1, <4>2, <5>1 DEF TagInv, OnOwn
        <5>3. image[k].version \in Versions
          BY StoredHasVersion DEF TypeOK
        <5>4. disk[Path(at[k], image[k].version)] \in {0, image[k].version}
          BY <5>1 DEF TagInv, Matches
        <5>5. QED
          BY <3>5, <5>2, <5>3, <5>4 DEF TypeOK
      <4>3. QED
        BY <4>1, <4>2
    <3>11. QED
      BY <3>8, <3>9, <3>10 DEF TagInv
  <2>4. QED
    BY <2>2, <2>3
<1>7. ASSUME NEW l \in Libraries, WriteRow(l) PROVE TagInv' /\ ReplacedByFull
  <2>1. /\ UNCHANGED <<disk, todo, all, at, image>> /\ step[l] = "row"
        /\ row' = [row EXCEPT ![at[l]] = image[l]] /\ over' = over \ {at[l]}
        /\ step' = [step EXCEPT ![l] = "images"]
    BY <1>7 DEF WriteRow
  <2>2. /\ row'[at[l]] = image[l] /\ at[l] \in Images
        /\ all[l] \/ row[at[l]].kind = "absent"
    BY <2>1 DEF TagInv, Fresh, TypeOK
  <2>3. \A jm \in Images : jm # at[l] => row'[jm] = row[jm] /\ Served(jm)' = Served(jm)
    BY <2>1 DEF TypeOK, Served
  <2>4. Served(at[l])' \in {0, row'[at[l]].version}
    BY <2>1, <2>2 DEF TagInv, Matches, Served
  <2>5. Served(at[l]) = 0 \/ all[l]
    BY <2>2 DEF Served
  <2>6. TagTruthful' /\ ReplacedByFull
    BY <2>1, <2>2, <2>3, <2>4, <2>5 DEF TagInv, TagTruthful, ReplacedByFull
  <2>7. step'[l] = "images" /\ \A k \in Libraries : k # l => step'[k] = step[k]
    BY <2>1 DEF TypeOK
  <2>8. OnOwn' /\ RenameStores' /\ Matches'
    BY <2>1, <2>7 DEF TagInv, OnOwn, RenameStores, Matches
  <2>9. Fresh'
    <3> SUFFICES ASSUME NEW k \in Libraries, step'[k] \in {"rename", "claim", "row"}
                 PROVE  all[k] \/ row'[at[k]].kind = "absent"
      BY <2>1 DEF Fresh
    <3>1. k # l /\ step[k] = step'[k]
      BY <2>7
    <3>2. at[k] # at[l] /\ at[k] \in Images /\ (all[k] \/ row[at[k]].kind = "absent")
      BY <2>1, <3>1 DEF TagInv, OnOwn, Fresh, TypeOK
    <3>3. QED
      BY <2>3, <3>2
  <2>10. QED
    BY <2>6, <2>8, <2>9 DEF TagInv
<1>8. CASE Wipe
  <2>1. disk' = [p \in Paths |-> 0] /\ UNCHANGED <<row, step, todo, all, over, at, image>>
    BY <1>8 DEF Wipe
  <2>2. \A jm \in Images : Served(jm)' = 0
    BY <2>1, StoredHasVersion, PathIsPath DEF Served, TypeOK
  <2>3. TagTruthful' /\ ReplacedByFull
    BY <2>1, <2>2 DEF TagInv, TagTruthful, ReplacedByFull
  <2>4. OnOwn' /\ Fresh' /\ RenameStores'
    BY <2>1 DEF TagInv, OnOwn, Fresh, RenameStores
  <2>5. Matches'
    BY <2>1, StoredHasVersion, PathIsPath DEF Matches, TypeOK
  <2>6. QED
    BY <2>3, <2>4, <2>5 DEF TagInv
<1>9. ASSUME NEW l \in Libraries, Select(l) PROVE TagInv' /\ ReplacedByFull
  <2>1. /\ UNCHANGED <<disk, row, at, image, all, over>>
        /\ todo' = [todo EXCEPT ![l] = ItemsNeedingMetadata(l, ~all[l])]
        /\ step' = [step EXCEPT ![l] = "items"]
    BY <1>9 DEF Select
  <2>2. \A i \in ItemsNeedingMetadata(l, ~all[l]) : Home[i] = l
    BY DEF ItemsNeedingMetadata
  <2>3. \A k \in Libraries : \A i \in todo'[k] : Home[i] = k
    BY <2>1, <2>2 DEF TagInv, OnOwn, TypeOK
  <2>4. \A k \in Libraries : step'[k] = step[k] \/ step'[k] = "items"
    BY <2>1 DEF TypeOK
  <2>5. StepApart
    BY <2>1, <2>3, <2>4 DEF StepApart
  <2>6. QED
    BY <1>1, <2>5
<1>10. ASSUME NEW l \in Libraries, NEW i \in Items, SkipItem(l, i) PROVE TagInv' /\ ReplacedByFull
  <2>1. UNCHANGED <<disk, row, at, image, all, over, step>> /\ todo' = [todo EXCEPT ![l] = @ \ {i}]
    BY <1>10 DEF SkipItem, NextItem
  <2>2. \A k \in Libraries : todo'[k] \subseteq todo[k]
    BY <2>1 DEF TypeOK
  <2>3. QED
    BY <1>1, <2>1, <2>2 DEF StepApart, TagInv, OnOwn
<1>11. ASSUME NEW l \in Libraries,
              \/ Sweep(l) \/ DownloadFails(l) \/ Claim(l)
              \/ ItemDone(l) \/ Complete(l) \/ Return(l)
       PROVE  TagInv' /\ ReplacedByFull
  <2>1. UNCHANGED <<disk, row, at, image, all, over, todo>>
    BY <1>11 DEF Sweep, DownloadFails, Claim, ItemDone, Complete, Return
  <2>2. \A k \in Libraries : k # l => step'[k] = step[k]
    BY <1>11 DEF TypeOK, Sweep, DownloadFails, Claim, ItemDone, Complete, Return
  <2>3. \/ step'[l] \notin {"images", "rename", "claim", "row"}
        \/ (step'[l] = "images" /\ step[l] \in {"rename", "claim", "row"})
        \/ (step'[l] = "row" /\ step[l] = "claim")
    BY <1>11 DEF TypeOK, Sweep, DownloadFails, Claim, ItemDone, Complete, Return
  <2>4. StepApart
    BY <2>1, <2>2, <2>3 DEF StepApart, TagInv, OnOwn
  <2>5. QED
    BY <1>1, <2>4
<1>12. ASSUME NEW l \in Libraries, Abandon(l) PROVE TagInv' /\ ReplacedByFull
  <2>1. /\ UNCHANGED <<disk, row, at, image, all, over>>
        /\ todo' = [todo EXCEPT ![l] = {}] /\ step' = [step EXCEPT ![l] = "idle"]
    BY <1>12 DEF Abandon
  <2>2. \A k \in Libraries : todo'[k] \subseteq todo[k] /\ step'[k] \in {step[k], "idle"}
    BY <2>1 DEF TypeOK
  <2>3. QED
    BY <1>1, <2>1, <2>2 DEF StepApart, TagInv, OnOwn
<1>13. CASE Crash
  BY <1>1, <1>13 DEF Crash, StepApart
<1>14. CASE \/ \E im \in Images, pinned \in BOOLEAN : SetLocked(im, pinned)
            \/ \E im \in Images, v \in Versions \cup {0} : Offer(im, v)
            \/ UNCHANGED vars
  <2>1. UNCHANGED <<disk, row, at, image, all, over, step, todo>>
    BY <1>14 DEF SetLocked, Offer, vars
  <2>2. QED
    BY <1>1, <2>1 DEF StepApart, TagInv, OnOwn
<1>15. QED
  BY <1>2, <1>3, <1>4, <1>5, <1>6, <1>7, <1>8, <1>9, <1>10, <1>11, <1>12, <1>13, <1>14
  DEF Next

LEMMA TagStart == ASSUME Init PROVE TagInv
BY DEF Init, TagInv, OnOwn, Fresh, RenameStores, Matches, TagTruthful, Served, Absent

(***************************************************************************)
(* The tag of a row is the tag of the bytes served under it, in the middle *)
(* of a pass and after a crash too, but for an image whose file a full     *)
(* refresh has replaced and whose row it has not written.                  *)
(***************************************************************************)
THEOREM TagsAreTruthful == Spec => []TagTruthful
<1>1. Init => TagInv
  BY TagStart
<1>2. TypeOK /\ TagInv /\ [Next]_vars => TagInv'
  BY TagStep
<1>3. TagInv => TagTruthful
  BY DEF TagInv
<1>4. QED
  BY <1>1, <1>2, <1>3, TypeCorrect, PTL DEF Spec

(***************************************************************************)
(* An ordinary refresh puts no other bytes in the place of those served    *)
(* for an image: only a full one working on that image does.               *)
(***************************************************************************)
THEOREM OrdinaryPassesKeepBytes == Spec => OnlyFullReplaces
<1>1. Init => TagInv
  BY TagStart
<1>2. TypeOK /\ TagInv /\ [Next]_vars => TagInv'
  BY TagStep
<1>3. TypeOK /\ TagInv /\ [Next]_vars =>
        [\A im \in Images :
           Served(im) # 0 /\ Served(im)' \notin {0, Served(im)} =>
             \E l \in Libraries : all[l] /\ at[l] = im /\ step[l] \in {"rename", "row"}]_vars
  BY TagStep DEF ReplacedByFull
<1>4. QED
  BY <1>1, <1>2, <1>3, TypeCorrect, PTL DEF Spec, OnlyFullReplaces

------------------------------------------------------------------------------
(* What a pass leaves behind. *)

\* Rows to be checked against the disk are of the pass's own library.
ClaimsOwn == \A l \in Libraries : \A im \in claims[l] : Home[im[1]] = l

Mine(l) == {im \in Images : Home[im[1]] = l}

\* The bytes an image advertises are there.
OnDisk(im) == row[im].kind = "stored" => FileExists(im, row[im].version)

\* What the provider says of an item is recorded.
FieldsKept(i) == i \in Known => i \in fields
Answered(i) == FieldsKept(i) /\ \A t \in Types : row[<<i, t>>].kind # "absent"

\* The pass is on an item, and records an answer for every type it has left.
UnderWay(l, i) ==
  /\ step[l] \in {"images", "rename", "claim", "row"}
  /\ at[l][1] = i
  /\ FieldsKept(i)
  /\ \A t \in Types : \/ t \in types[l]
                      \/ step[l] # "images" /\ at[l][2] = t
                      \/ row[<<i, t>>].kind # "absent"

Downloading(l) == step[l] \in {"rename", "claim", "row"}
Reconciled(l) == step[l] \in {"items", "images", "rename", "claim", "row", "done"}
WithinBatch(l) == Cardinality({i \in Items : Home[i] = l}) <= Batch

\* The files behind the rows: checked, or still claimed; and what is about to be
\* recorded is there to be recorded.
FilesHeal(l) ==
  /\ locked = {}
  /\ step[l] = "reconcile" => \A im \in Mine(l) \ claims[l] : OnDisk(im)
  /\ Reconciled(l) => \A im \in Mine(l) : OnDisk(im)
  /\ Downloading(l) => image[l].kind # "absent"
  /\ step[l] \in {"claim", "row"} /\ image[l].kind = "stored" =>
       FileExists(at[l], image[l].version)

\* The items of a library no larger than the batch: to be fetched, under way, or
\* answered.
ItemsHeal(l) ==
  /\ Reconciled(l) /\ WithinBatch(l) =>
       \A i \in HasId \cap Items : Home[i] = l => i \in todo[l] \/ UnderWay(l, i) \/ Answered(i)
  /\ step[l] = "done" => todo[l] = {}

Healing(l) == step[l] # "idle" /\ calm[l] => FilesHeal(l) /\ ItemsHeal(l)
HealInv == ClaimsOwn /\ \A l \in Libraries : Healing(l)

\* A batch that holds the library leaves out only what is done.
LEMMA BatchHoldsLibrary ==
  ASSUME NEW l, WithinBatch(l), NEW missing \in BOOLEAN, NEW i \in Items, Home[i] = l,
         i \notin ItemsNeedingMetadata(l, missing)
  PROVE  Done(i)
<1> DEFINE mine == {k \in Items : Home[k] = l}
           found == {k \in Items : Home[k] = l /\ ~(missing /\ Done(k))}
           before == {k \in found : k < i}
<1>1. IsFiniteSet(mine) /\ Cardinality(mine) <= Batch
  BY ItemsFinite, FS_Subset DEF WithinBatch
<1>2. IsFiniteSet(mine \ {i}) /\ Cardinality(mine \ {i}) = Cardinality(mine) - 1
  BY <1>1, FS_RemoveElement
<1>3. before \subseteq mine \ {i}
  BY ItemsNat
<1>4. Cardinality(before) <= Cardinality(mine \ {i}) /\ IsFiniteSet(before)
  BY <1>2, <1>3, FS_Subset
<1>5. Cardinality(before) \in Nat /\ Cardinality(mine) \in Nat
  BY <1>1, <1>4, FS_CardinalityType
<1>6. Cardinality(before) < Batch
  BY <1>1, <1>2, <1>4, <1>5, BatchNat
<1>7. i \notin found
  BY <1>6 DEF ItemsNeedingMetadata
<1>8. QED
  BY <1>7

\* A step that takes no file away, leaves the rows of a library alone and is none
\* of the pass over it.
Apart(l) ==
  /\ step'[l] = step[l] /\ todo'[l] = todo[l] /\ types'[l] = types[l] /\ at'[l] = at[l]
  /\ claims'[l] = claims[l] /\ image'[l] = image[l] /\ calm'[l] = calm[l]
  /\ locked' = locked /\ fields \subseteq fields'
  /\ \A im \in Mine(l) : row'[im] = row[im]
  /\ \A im \in Images, v \in Versions : FileExists(im, v) => FileExists(im, v)'

LEMMA ApartHeals ==
  ASSUME TypeOK, OnOwn, NEW l \in Libraries, Healing(l), Apart(l)
  PROVE  Healing(l)'
<1> SUFFICES ASSUME step[l] # "idle", calm[l], FilesHeal(l), ItemsHeal(l)
             PROVE  FilesHeal(l)' /\ ItemsHeal(l)'
  BY DEF Healing, Apart
<1>1. Mine(l)' = Mine(l)
  BY DEF Mine
<1>2. \A im \in Mine(l) : OnDisk(im) => OnDisk(im)'
  <2> SUFFICES ASSUME NEW im \in Mine(l), OnDisk(im), row[im].kind = "stored"
               PROVE  FileExists(im, row[im].version)'
    BY DEF Apart, OnDisk
  <2>1. im \in Images /\ row[im].version \in Versions /\ row'[im] = row[im]
    BY StoredHasVersion DEF Mine, TypeOK, Apart
  <2>2. FileExists(im, row[im].version)
    BY DEF OnDisk
  <2>3. disk[Path(im, row[im].version)] # 0 => disk'[Path(im, row[im].version)] # 0
    BY <2>1 DEF Apart, FileExists
  <2>4. QED
    BY <2>1, <2>2, <2>3 DEF FileExists
<1>3. step[l] \in {"claim", "row"} /\ image[l].kind = "stored" =>
        FileExists(at[l], image[l].version)'
  <2> SUFFICES ASSUME step[l] \in {"claim", "row"}, image[l].kind = "stored"
               PROVE  FileExists(at[l], image[l].version)'
    OBVIOUS
  <2>1. at[l] \in Images /\ image[l].version \in Versions
    BY StoredHasVersion DEF TypeOK
  <2>2. FileExists(at[l], image[l].version)
    BY DEF FilesHeal
  <2>3. disk[Path(at[l], image[l].version)] # 0 => disk'[Path(at[l], image[l].version)] # 0
    BY <2>1 DEF Apart, FileExists
  <2>4. QED
    BY <2>2, <2>3 DEF FileExists, Apart
<1>4. FilesHeal(l)'
  BY <1>1, <1>2, <1>3 DEF FilesHeal, Reconciled, Downloading, Apart
<1>5. \A i \in Items : Home[i] = l =>
        /\ FieldsKept(i) => FieldsKept(i)'
        /\ \A t \in Types : row'[<<i, t>>] = row[<<i, t>>]
  BY DEF Apart, FieldsKept, Mine, Images
<1>6. \A i \in Items : Home[i] = l =>
        (Answered(i) => Answered(i)') /\ (UnderWay(l, i) => UnderWay(l, i)')
  BY <1>5 DEF Answered, UnderWay, Apart
<1>7. ItemsHeal(l)'
  BY <1>6 DEF ItemsHeal, Reconciled, WithinBatch, Apart
<1>8. QED
  BY <1>4, <1>7

\* Outside a pass, and in one that was disturbed, there is nothing to show.
LEMMA Excused ==
  ASSUME NEW l, step'[l] = "idle" \/ ~calm'[l]
  PROVE  Healing(l)'
BY DEF Healing

\* A file put in place takes none away, and is there.
LEMMA RenameKeepsFiles ==
  ASSUME TypeOK, RenameStores, NEW l \in Libraries, Rename(l)
  PROVE  /\ \A im \in Images, v \in Versions : FileExists(im, v) => FileExists(im, v)'
         /\ l \in temp => FileExists(at[l], image[l].version)'
<1> DEFINE p == Path(at[l], image[l].version)
<1>1. image[l].version \in Versions /\ image[l].version # 0 /\ at[l] \in Images
  BY StoredHasVersion DEF Rename, RenameStores, TypeOK
<1>2. p \in Paths
  BY <1>1, PathIsPath
<1>3. disk' = [disk EXCEPT ![p] = image[l].version] \/ (l \notin temp /\ disk' = disk)
  BY DEF Rename
<1>4. \A q \in Paths : disk[q] # 0 => disk'[q] # 0
  BY <1>1, <1>2, <1>3 DEF TypeOK
<1>5. l \in temp => disk'[p] # 0
  BY <1>1, <1>2, <1>3 DEF TypeOK
<1>6. UNCHANGED <<at, image>>
  BY DEF Rename, item
<1>7. QED
  BY <1>4, <1>5, <1>6, PathIsPath DEF FileExists

\* A step of one pass is apart from the pass over another library.
LEMMA PassesApart ==
  ASSUME TypeOK, OnOwn, RenameStores, ClaimsOwn,
         NEW l \in Libraries, NEW k \in Libraries, k # l,
         \/ \E full \in Full : StartRefresh(l, full)
         \/ Sweep(l) \/ (\E im \in Images : Reconcile(l, im)) \/ Select(l)
         \/ (\E i \in Items : SkipItem(l, i) \/ FetchItem(l, i))
         \/ (\E t \in Types : SkipRecorded(l, t) \/ NotOffered(l, t) \/ OpenTemp(l, t))
         \/ Rename(l) \/ DownloadFails(l) \/ Claim(l) \/ WriteRow(l)
         \/ ItemDone(l) \/ Complete(l) \/ Return(l) \/ Abandon(l)
  PROVE  Apart(k)
<1> USE DEF cache, tables, item, lists, pass, history, counters
<1> DEFINE files == \A im \in Images, v \in Versions : FileExists(im, v) => FileExists(im, v)'
           rows == \A im \in Mine(k) : row'[im] = row[im]
           own == /\ step'[k] = step[k] /\ todo'[k] = todo[k] /\ types'[k] = types[k]
                  /\ at'[k] = at[k] /\ claims'[k] = claims[k] /\ image'[k] = image[k]
                  /\ calm'[k] = calm[k]
           rest == locked' = locked /\ fields \subseteq fields'
<1>1. UNCHANGED disk => files
  BY DEF FileExists
<1>2. UNCHANGED row => rows
  OBVIOUS
<1>3. ASSUME \/ \E full \in Full : StartRefresh(l, full)
             \/ Sweep(l) \/ Select(l) \/ DownloadFails(l) \/ Claim(l)
             \/ ItemDone(l) \/ Complete(l) \/ Return(l) \/ Abandon(l)
      PROVE  Apart(k)
  <2>1. own
    BY <1>3 DEF StartRefresh, Sweep, Select, DownloadFails, Claim, ItemDone, Complete, Return,
                Abandon, TypeOK
  <2>2. UNCHANGED <<disk, row, locked, fields>>
    BY <1>3 DEF StartRefresh, Sweep, Select, DownloadFails, Claim, ItemDone, Complete, Return,
                Abandon
  <2>3. QED
    BY <1>1, <1>2, <2>1, <2>2 DEF Apart
<1>4. ASSUME NEW im \in Images, Reconcile(l, im) PROVE Apart(k)
  <2>1. own /\ rest /\ UNCHANGED disk
    BY <1>4 DEF Reconcile, TypeOK
  <2>2. Home[im[1]] = l
    BY <1>4 DEF Reconcile, ClaimsOwn
  <2>3. \A jm \in Images : jm # im => row'[jm] = row[jm]
    BY <1>4 DEF Reconcile, TypeOK
  <2>4. rows
    BY <2>2, <2>3 DEF Mine
  <2>5. QED
    BY <1>1, <2>1, <2>4 DEF Apart
<1>5. ASSUME NEW i \in Items, SkipItem(l, i) \/ FetchItem(l, i) PROVE Apart(k)
  <2>1. CASE SkipItem(l, i)
    <3>1. UNCHANGED <<step, types, at, claims, image, disk, row, locked, fields>>
      BY <2>1 DEF SkipItem
    <3>2. todo'[k] = todo[k]
      BY <2>1 DEF SkipItem, NextItem, TypeOK
    <3>3. calm'[k] = calm[k]
      BY <2>1 DEF SkipItem, TypeOK
    <3>4. QED
      BY <1>1, <1>2, <3>1, <3>2, <3>3 DEF Apart
  <2>2. CASE FetchItem(l, i)
    <3>1. UNCHANGED <<disk, row, locked>> /\ fields \subseteq fields'
      BY <2>2 DEF FetchItem
    <3>2. own
      BY <2>2 DEF FetchItem, NextItem, TypeOK
    <3>3. QED
      BY <1>1, <1>2, <3>1, <3>2 DEF Apart
  <2>3. QED
    BY <1>5, <2>1, <2>2
<1>6. ASSUME NEW t \in Types, SkipRecorded(l, t) \/ NotOffered(l, t) \/ OpenTemp(l, t)
      PROVE  Apart(k)
  <2>1. UNCHANGED <<disk, row, locked, fields>>
    BY <1>6 DEF SkipRecorded, NotOffered, OpenTemp
  <2>2. own
    BY <1>6 DEF SkipRecorded, NotOffered, OpenTemp, NextType, TypeOK
  <2>3. QED
    BY <1>1, <1>2, <2>1, <2>2 DEF Apart
<1>7. ASSUME Rename(l) PROVE Apart(k)
  <2>1. UNCHANGED <<row, locked, fields, todo, types, at, claims, image>>
    BY <1>7 DEF Rename
  <2>2. step'[k] = step[k] /\ calm'[k] = calm[k]
    BY <1>7 DEF Rename, TypeOK
  <2>3. files
    BY <1>7, RenameKeepsFiles
  <2>4. QED
    BY <1>2, <2>1, <2>2, <2>3 DEF Apart
<1>8. ASSUME WriteRow(l) PROVE Apart(k)
  <2>1. own /\ rest /\ UNCHANGED disk
    BY <1>8 DEF WriteRow, TypeOK
  <2>2. Home[at[l][1]] = l /\ \A jm \in Images : jm # at[l] => row'[jm] = row[jm]
    BY <1>8 DEF WriteRow, TypeOK, OnOwn
  <2>3. rows
    BY <2>2 DEF Mine
  <2>4. QED
    BY <1>1, <2>1, <2>3 DEF Apart
<1>9. QED
  BY <1>3, <1>4, <1>5, <1>6, <1>7, <1>8

\* Before the items.
LEMMA FirstStepsHeal ==
  ASSUME TypeOK, ClaimsOwn, NEW l \in Libraries, Healing(l),
         \/ \E full \in Full : StartRefresh(l, full)
         \/ Sweep(l) \/ (\E im \in Images : Reconcile(l, im)) \/ Select(l)
  PROVE  Healing(l)'
<1> USE DEF cache, tables, item, lists, pass, history, counters
<1>1. Mine(l)' = Mine(l)
  BY DEF Mine
<1>2. ASSUME NEW full \in Full, StartRefresh(l, full) PROVE Healing(l)'
  <2>1. step'[l] = "sweep" /\ calm'[l] = (locked = {}) /\ locked' = locked
    BY <1>2 DEF StartRefresh, TypeOK
  <2>2. QED
    BY <2>1 DEF Healing, FilesHeal, ItemsHeal, Reconciled, Downloading
<1>3. CASE Sweep(l)
  <2>1. /\ step[l] = "sweep" /\ step'[l] = "reconcile"
        /\ UNCHANGED <<disk, row, locked, calm>>
        /\ claims'[l] = {im \in Images : Home[im[1]] = l /\ row[im].kind = "stored"}
    BY <1>3 DEF Sweep, TypeOK
  <2>2. \A im \in Mine(l) \ claims'[l] : OnDisk(im)'
    BY <2>1 DEF Mine, OnDisk
  <2>3. QED
    BY <1>1, <2>1, <2>2 DEF Healing, FilesHeal, ItemsHeal, Reconciled, Downloading
<1>4. ASSUME NEW im \in Images, Reconcile(l, im) PROVE Healing(l)'
  <2>1. /\ step[l] = "reconcile" /\ UNCHANGED <<step, disk, locked, calm>>
        /\ claims'[l] = claims[l] \ {im}
    BY <1>4 DEF Reconcile, TypeOK
  <2>2. \A jm \in Images : jm # im => row'[jm] = row[jm]
    BY <1>4 DEF Reconcile, TypeOK
  <2>3. OnDisk(im)'
    <3>1. CASE Kept(im)
      BY <1>4, <2>1, <3>1 DEF Reconcile, OnDisk, Kept, FileExists
    <3>2. CASE ~Kept(im)
      BY <1>4, <2>1, <3>2 DEF Reconcile, OnDisk, Absent, TypeOK
    <3>3. QED
      BY <3>1, <3>2
  <2>4. \A jm \in Images : jm # im /\ OnDisk(jm) => OnDisk(jm)'
    BY <2>1, <2>2 DEF OnDisk, FileExists
  <2>5. ASSUME FilesHeal(l) PROVE \A jm \in Mine(l) \ claims'[l] : OnDisk(jm)'
    <3>1. \A jm \in Mine(l) \ claims[l] : OnDisk(jm)
      BY <2>1, <2>5 DEF FilesHeal
    <3>2. QED
      BY <2>1, <2>3, <2>4, <3>1 DEF Mine
  <2>6. QED
    BY <1>1, <2>1, <2>5 DEF Healing, FilesHeal, ItemsHeal, Reconciled, Downloading
<1>5. CASE Select(l)
  <2>1. /\ step[l] = "reconcile" /\ claims[l] = {} /\ step'[l] = "items"
        /\ UNCHANGED <<disk, row, fields, locked, calm, all>>
        /\ todo'[l] = ItemsNeedingMetadata(l, ~all[l])
    BY <1>5 DEF Select, TypeOK
  <2>2. \A im \in Images : OnDisk(im) => OnDisk(im)'
    BY <2>1 DEF OnDisk, FileExists
  <2>3. FilesHeal(l) => FilesHeal(l)'
    BY <1>1, <2>1, <2>2 DEF FilesHeal, Reconciled, Downloading, Mine
  <2>4. \A i \in Items : Done(i) => Answered(i)'
    BY <2>1 DEF Done, Answered, FieldsKept
  <2>5. \A i \in Items : WithinBatch(l) /\ Home[i] = l => i \in todo'[l] \/ Answered(i)'
    <3>1. (~all[l]) \in BOOLEAN
      OBVIOUS
    <3>2. QED
      BY <2>1, <2>4, <3>1, BatchHoldsLibrary
  <2>6. ItemsHeal(l)'
    BY <2>1, <2>5 DEF ItemsHeal, WithinBatch
  <2>7. QED
    BY <2>1, <2>3, <2>6 DEF Healing
<1>6. QED
  BY <1>2, <1>3, <1>4, <1>5

\* A step that leaves files and rows alone keeps the files as they should be.
LEMMA FilesStay ==
  ASSUME NEW l \in Libraries, FilesHeal(l), UNCHANGED <<disk, row, locked>>, Reconciled(l),
         step'[l] # "reconcile", Downloading(l)' => image'[l].kind # "absent",
         step'[l] \in {"claim", "row"} /\ image'[l].kind = "stored" =>
           at'[l] = at[l] /\ image'[l] = image[l] /\ step[l] \in {"claim", "row"}
  PROVE  FilesHeal(l)'
<1>1. \A im \in Mine(l)' : OnDisk(im)'
  BY DEF FilesHeal, Mine, OnDisk, FileExists
<1>2. step'[l] \in {"claim", "row"} /\ image'[l].kind = "stored" =>
        FileExists(at[l], image[l].version)'
  BY DEF FilesHeal, FileExists
<1>3. QED
  BY <1>1, <1>2 DEF FilesHeal

\* From one item to the next.
LEMMA ItemStepsHeal ==
  ASSUME TypeOK, NEW l \in Libraries, Healing(l),
         \/ \E i \in Items : SkipItem(l, i) \/ FetchItem(l, i)
         \/ ItemDone(l) \/ Complete(l) \/ Return(l) \/ Abandon(l)
  PROVE  Healing(l)'
<1> USE DEF cache, tables, item, lists, pass, history, counters
<1>1. ASSUME NEW i \in Items, SkipItem(l, i) PROVE Healing(l)'
  <2>1. /\ step[l] = "items" /\ todo'[l] = todo[l] \ {i}
        /\ UNCHANGED <<step, disk, row, fields, locked, types, at, image>>
    BY <1>1 DEF SkipItem, NextItem, TypeOK
  <2>2. calm'[l] => calm[l] /\ i \notin HasId
    BY <1>1 DEF SkipItem, TypeOK
  <2>3. FilesHeal(l) => FilesHeal(l)'
    BY <2>1, FilesStay DEF Reconciled, Downloading
  <2>4. \A j \in Items : Answered(j)' = Answered(j) /\ ~UnderWay(l, j)
    BY <2>1 DEF Answered, FieldsKept, UnderWay
  <2>5. ItemsHeal(l) /\ i \notin HasId => ItemsHeal(l)'
    BY <2>1, <2>4 DEF ItemsHeal, Reconciled, WithinBatch
  <2>6. QED
    BY <2>1, <2>2, <2>3, <2>5 DEF Healing
<1>2. ASSUME NEW i \in Items, FetchItem(l, i) PROVE Healing(l)'
  <2>1. /\ step[l] = "items" /\ step'[l] = "images" /\ todo'[l] = todo[l] \ {i}
        /\ UNCHANGED <<disk, row, locked, image, calm>>
        /\ at'[l] = <<i, at[l][2]>> /\ types'[l] = Types
        /\ fields' = IF i \in Known THEN fields \cup {i} ELSE fields
    BY <1>2 DEF FetchItem, NextItem, TypeOK
  <2>2. FilesHeal(l) => FilesHeal(l)'
    BY <2>1, FilesStay DEF Reconciled, Downloading
  <2>3. \A j \in Items : (Answered(j) => Answered(j)') /\ ~UnderWay(l, j)
    BY <2>1 DEF Answered, FieldsKept, UnderWay
  <2>4. UnderWay(l, i)'
    BY <2>1 DEF UnderWay, FieldsKept
  <2>5. ItemsHeal(l) => ItemsHeal(l)'
    BY <2>1, <2>3, <2>4 DEF ItemsHeal, Reconciled, WithinBatch
  <2>6. QED
    BY <2>1, <2>2, <2>5 DEF Healing
<1>3. CASE ItemDone(l)
  <2>1. /\ step[l] = "images" /\ step'[l] = "items" /\ types[l] = {}
        /\ UNCHANGED <<disk, row, fields, locked, image, at, calm, todo>>
    BY <1>3 DEF ItemDone, TypeOK
  <2>2. FilesHeal(l) => FilesHeal(l)'
    BY <2>1, FilesStay DEF Reconciled, Downloading
  <2>3. \A j \in Items : Answered(j) \/ UnderWay(l, j) => Answered(j)'
    BY <2>1 DEF Answered, FieldsKept, UnderWay
  <2>4. ItemsHeal(l) => ItemsHeal(l)'
    BY <2>1, <2>3 DEF ItemsHeal, Reconciled, WithinBatch
  <2>5. QED
    BY <2>1, <2>2, <2>4 DEF Healing
<1>4. CASE Complete(l)
  <2>1. /\ step[l] = "items" /\ step'[l] = "done" /\ todo[l] = {}
        /\ UNCHANGED <<disk, row, fields, locked, image, at, calm, todo>>
    BY <1>4 DEF Complete, TypeOK
  <2>2. FilesHeal(l) => FilesHeal(l)'
    BY <2>1, FilesStay DEF Reconciled, Downloading
  <2>3. \A j \in Items : (Answered(j) => Answered(j)') /\ ~UnderWay(l, j)
    BY <2>1 DEF Answered, FieldsKept, UnderWay
  <2>4. ItemsHeal(l) => ItemsHeal(l)'
    BY <2>1, <2>3 DEF ItemsHeal, Reconciled, WithinBatch
  <2>5. QED
    BY <2>1, <2>2, <2>4 DEF Healing
<1>5. CASE Return(l) \/ Abandon(l)
  <2>1. step'[l] = "idle"
    BY <1>5 DEF Return, Abandon, TypeOK
  <2>2. QED
    BY <2>1, Excused
<1>6. QED
  BY <1>1, <1>2, <1>3, <1>4, <1>5

\* A type is left behind only with a row, or with an answer to be recorded.
LEMMA TypeStepsHeal ==
  ASSUME TypeOK, NEW l \in Libraries, Healing(l), NEW t \in Types,
         SkipRecorded(l, t) \/ NotOffered(l, t) \/ OpenTemp(l, t)
  PROVE  Healing(l)'
<1> USE DEF cache, tables, item, lists, pass, history, counters
<1>1. /\ step[l] = "images" /\ types'[l] = types[l] \ {t} /\ at'[l] = <<at[l][1], t>>
      /\ UNCHANGED <<disk, row, fields, locked, calm, todo>>
  BY DEF SkipRecorded, NotOffered, OpenTemp, NextType, TypeOK
<1>2. \/ step'[l] = "images" /\ row[<<at[l][1], t>>].kind # "absent"
      \/ step'[l] = "claim" /\ image'[l].kind = "negative"
      \/ step'[l] = "rename" /\ image'[l].kind = "stored"
  <2>1. CASE SkipRecorded(l, t)
    BY <1>1, <2>1 DEF SkipRecorded, Recorded
  <2>2. CASE NotOffered(l, t)
    BY <2>2 DEF NotOffered, Negative, TypeOK
  <2>3. CASE OpenTemp(l, t)
    BY <2>3 DEF OpenTemp, Stored, TypeOK
  <2>4. QED
    BY <2>1, <2>2, <2>3
<1>3. FilesHeal(l) => FilesHeal(l)'
  BY <1>1, <1>2, FilesStay DEF Reconciled, Downloading
<1>4. ASSUME NEW i \in Items PROVE UnderWay(l, i) => UnderWay(l, i)'
  <2> SUFFICES ASSUME UnderWay(l, i) PROVE UnderWay(l, i)'
    OBVIOUS
  <2>1. at[l][1] = i /\ at'[l][1] = i /\ at'[l][2] = t /\ FieldsKept(i)'
    BY <1>1 DEF UnderWay, FieldsKept
  <2>2. \A u \in Types : u \in types[l] \/ row[<<i, u>>].kind # "absent"
    BY <1>1 DEF UnderWay
  <2>3. \A u \in Types : u # t => u \in types'[l] \/ row'[<<i, u>>].kind # "absent"
    BY <1>1, <2>2
  <2>4. step'[l] # "images" \/ row'[<<i, t>>].kind # "absent"
    BY <1>1, <1>2, <2>1
  <2>5. QED
    BY <1>2, <2>1, <2>3, <2>4 DEF UnderWay
<1>5. \A i \in Items : Answered(i) => Answered(i)'
  BY <1>1 DEF Answered, FieldsKept
<1>6. ItemsHeal(l) => ItemsHeal(l)'
  BY <1>1, <1>2, <1>4, <1>5 DEF ItemsHeal, Reconciled, WithinBatch
<1>7. QED
  BY <1>1, <1>3, <1>6 DEF Healing

\* An answer to be recorded is recorded, unless the pass was disturbed: nothing
\* is locked, and a download that failed or lost its file to another pass's
\* sweep is a disturbance.
LEMMA DownloadStepsHeal ==
  ASSUME TypeOK, RenameStores, NEW l \in Libraries, Healing(l),
         Rename(l) \/ DownloadFails(l) \/ Claim(l) \/ WriteRow(l)
  PROVE  Healing(l)'
<1> USE DEF cache, tables, item, lists, pass, history, counters
<1>1. CASE Rename(l)
  <2>1. CASE l \notin temp
    <3>1. ~calm'[l]
      BY <1>1, <2>1 DEF Rename, TypeOK
    <3>2. QED
      BY <3>1, Excused
  <2>2. CASE l \in temp
    <3>1. /\ step[l] = "rename" /\ step'[l] = "claim"
          /\ UNCHANGED <<row, fields, locked, at, image, types, calm, todo>>
      BY <1>1, <2>2 DEF Rename, AfterRename, TypeOK
    <3>2. \A im \in Images, v \in Versions : FileExists(im, v) => FileExists(im, v)'
      BY <1>1, RenameKeepsFiles
    <3>3. \A im \in Images : OnDisk(im) => OnDisk(im)'
      <4> SUFFICES ASSUME NEW im \in Images, OnDisk(im), row[im].kind = "stored"
                   PROVE  FileExists(im, row[im].version)'
        BY <3>1 DEF OnDisk
      <4>1. row[im].version \in Versions /\ row'[im] = row[im]
        BY <3>1, StoredHasVersion DEF TypeOK
      <4>2. disk[Path(im, row[im].version)] # 0 => disk'[Path(im, row[im].version)] # 0
        BY <3>2, <4>1 DEF FileExists
      <4>3. QED
        BY <4>1, <4>2 DEF OnDisk, FileExists
    <3>4. FileExists(at[l], image[l].version)'
      BY <1>1, <2>2, RenameKeepsFiles
    <3>5. FilesHeal(l) => FilesHeal(l)'
      <4> SUFFICES ASSUME FilesHeal(l) PROVE FilesHeal(l)'
        OBVIOUS
      <4>1. \A im \in Mine(l) : OnDisk(im)'
        BY <3>1, <3>3 DEF FilesHeal, Reconciled, Mine
      <4>2. locked' = {} /\ image[l].kind # "absent"
        BY <3>1 DEF FilesHeal, Downloading
      <4>3. QED
        BY <3>1, <3>4, <4>1, <4>2 DEF FilesHeal, Mine
    <3>6. \A i \in Items : Answered(i)' = Answered(i) /\ (UnderWay(l, i) => UnderWay(l, i)')
      BY <3>1 DEF Answered, FieldsKept, UnderWay
    <3>7. ItemsHeal(l) => ItemsHeal(l)'
      BY <3>1, <3>6 DEF ItemsHeal, Reconciled, WithinBatch
    <3>8. QED
      BY <3>1, <3>5, <3>7 DEF Healing
  <2>3. QED
    BY <2>1, <2>2
<1>2. CASE DownloadFails(l)
  <2>1. ~calm'[l]
    BY <1>2 DEF DownloadFails, TypeOK
  <2>2. QED
    BY <2>1, Excused
<1>3. CASE Claim(l)
  <2>1. /\ step[l] = "claim"
        /\ UNCHANGED <<disk, row, fields, locked, at, image, types, calm, todo>>
        /\ locked = {} => step'[l] = "row"
    BY <1>3 DEF Claim, Claimable, TypeOK
  <2>2. locked = {} => (FilesHeal(l) => FilesHeal(l)')
    BY <2>1, FilesStay DEF Reconciled, Downloading, FilesHeal
  <2>3. locked = {} =>
          \A i \in Items : Answered(i)' = Answered(i) /\ (UnderWay(l, i) => UnderWay(l, i)')
    BY <2>1 DEF Answered, FieldsKept, UnderWay
  <2>4. locked = {} => (ItemsHeal(l) => ItemsHeal(l)')
    BY <2>1, <2>3 DEF ItemsHeal, Reconciled, WithinBatch
  <2>5. FilesHeal(l) => locked = {}
    BY DEF FilesHeal
  <2>6. QED
    BY <2>1, <2>2, <2>4, <2>5 DEF Healing
<1>4. CASE WriteRow(l)
  <2>1. /\ step[l] = "row" /\ step'[l] = "images" /\ at[l] \in Images
        /\ UNCHANGED <<disk, fields, locked, at, image, types, calm, todo>>
        /\ row'[at[l]] = image[l]
        /\ \A im \in Images : im # at[l] => row'[im] = row[im]
    BY <1>4 DEF WriteRow, TypeOK
  <2>2. FilesHeal(l) => FilesHeal(l)'
    <3> SUFFICES ASSUME FilesHeal(l) PROVE FilesHeal(l)'
      OBVIOUS
    <3>1. image[l].kind = "stored" => FileExists(at[l], image[l].version)
      BY <2>1 DEF FilesHeal
    <3>2. OnDisk(at[l])'
      BY <2>1, <3>1 DEF OnDisk, FileExists
    <3>3. \A im \in Mine(l) : im # at[l] => OnDisk(im)'
      BY <2>1 DEF FilesHeal, Reconciled, Mine, OnDisk, FileExists
    <3>4. QED
      BY <2>1, <3>2, <3>3 DEF FilesHeal, Mine, Downloading
  <2>3. FilesHeal(l) => image[l].kind # "absent"
    BY <2>1 DEF FilesHeal, Downloading
  <2>4. ASSUME image[l].kind # "absent", NEW i \in Items
        PROVE  (Answered(i) => Answered(i)') /\ (UnderWay(l, i) => UnderWay(l, i)')
    <3>1. \A t \in Types : row[<<i, t>>].kind # "absent" => row'[<<i, t>>].kind # "absent"
      BY <2>1, <2>4 DEF Images
    <3>2. ASSUME at[l][1] = i, NEW t \in Types, at[l][2] = t
          PROVE  row'[<<i, t>>].kind # "absent"
      <4>1. at[l] = <<i, t>>
        BY <2>1, <3>2 DEF Images
      <4>2. QED
        BY <2>1, <2>4, <4>1
    <3>3. Answered(i) => Answered(i)'
      BY <2>1, <3>1 DEF Answered, FieldsKept
    <3>4. UnderWay(l, i) => UnderWay(l, i)'
      BY <2>1, <3>1, <3>2 DEF UnderWay, FieldsKept
    <3>5. QED
      BY <3>3, <3>4
  <2>5. image[l].kind # "absent" => (ItemsHeal(l) => ItemsHeal(l)')
    BY <2>1, <2>4 DEF ItemsHeal, Reconciled, WithinBatch
  <2>6. QED
    BY <2>1, <2>2, <2>3, <2>5 DEF Healing
<1>5. QED
  BY <1>1, <1>2, <1>3, <1>4

(***************************************************************************)
(* A pass that completes undisturbed over a library no larger than the     *)
(* batch heals it: every image it advertises has its bytes, every item it  *)
(* has an id for has an answer for every image type, and nothing of what   *)
(* the provider knows is left to fetch, while passes over other libraries  *)
(* sweep the same store.                                                   *)
(***************************************************************************)
THEOREM PassesHeal == Spec => []PassHeals
<1> USE DEF cache, tables, item, lists, pass, history, counters
<1>1. Init => HealInv /\ TagInv
  BY TagStart DEF Init, HealInv, ClaimsOwn, Healing
<1>2. TypeOK /\ TagInv /\ HealInv /\ [Next]_vars => HealInv' /\ TagInv'
  <2> SUFFICES ASSUME TypeOK, TagInv, HealInv, [Next]_vars PROVE HealInv'
    BY TagStep
  <2> USE DEF HealInv
  <2>1. OnOwn /\ RenameStores /\ ClaimsOwn
    BY DEF TagInv
  <2>2. ClaimsOwn'
    <3>1. ASSUME NEW l \in Libraries, Sweep(l) PROVE ClaimsOwn'
      BY <2>1, <3>1 DEF Sweep, ClaimsOwn, TypeOK
    <3>2. ASSUME NEW l \in Libraries, NEW im \in Images, Reconcile(l, im) PROVE ClaimsOwn'
      BY <2>1, <3>2 DEF Reconcile, ClaimsOwn, TypeOK
    <3>3. ASSUME NEW l \in Libraries, Abandon(l) PROVE ClaimsOwn'
      BY <2>1, <3>3 DEF Abandon, ClaimsOwn, TypeOK
    <3>4. CASE Crash
      BY <3>4 DEF Crash, ClaimsOwn
    <3>5. ASSUME UNCHANGED claims PROVE ClaimsOwn'
      BY <2>1, <3>5 DEF ClaimsOwn
    <3>6. QED
      BY <3>1, <3>2, <3>3, <3>4, <3>5
      DEF Next, StartRefresh, Select, SkipItem, FetchItem, SkipRecorded, NotOffered, OpenTemp,
          Rename, DownloadFails, Claim, WriteRow, ItemDone, Complete, Return, Wipe, SetLocked,
          Offer, vars
  <2>3. ASSUME NEW l \in Libraries,
               \/ \E full \in Full : StartRefresh(l, full)
               \/ Sweep(l) \/ (\E im \in Images : Reconcile(l, im)) \/ Select(l)
               \/ (\E i \in Items : SkipItem(l, i) \/ FetchItem(l, i))
               \/ (\E t \in Types : SkipRecorded(l, t) \/ NotOffered(l, t) \/ OpenTemp(l, t))
               \/ Rename(l) \/ DownloadFails(l) \/ Claim(l) \/ WriteRow(l)
               \/ ItemDone(l) \/ Complete(l) \/ Return(l) \/ Abandon(l),
               NEW k \in Libraries
        PROVE  Healing(k)'
    <3>1. CASE k = l
      BY <2>1, <2>3, <3>1, FirstStepsHeal, ItemStepsHeal, TypeStepsHeal, DownloadStepsHeal
    <3>2. CASE k # l
      <4>1. Apart(k)
        BY <2>1, <2>3, <3>2, PassesApart
      <4>2. QED
        BY <2>1, <4>1, ApartHeals
    <3>3. QED
      BY <3>1, <3>2
  <2>4. ASSUME NEW k \in Libraries,
               \/ Crash \/ Wipe
               \/ \E im \in Images, pinned \in BOOLEAN : SetLocked(im, pinned)
        PROVE  Healing(k)'
    <3>1. step'[k] = "idle" \/ ~calm'[k]
      BY <2>4 DEF Crash, Wipe, SetLocked
    <3>2. QED
      BY <3>1, Excused
  <2>5. ASSUME NEW k \in Libraries,
               \/ \E im \in Images, v \in Versions \cup {0} : Offer(im, v)
               \/ UNCHANGED vars
        PROVE  Healing(k)'
    <3>1. UNCHANGED <<disk, row, fields, locked, step, todo, types, at, claims, image, calm>>
      BY <2>5 DEF Offer, vars
    <3>2. Apart(k)
      BY <3>1 DEF Apart, FileExists
    <3>3. QED
      BY <2>1, <3>2, ApartHeals
  <2>6. QED
    BY <2>2, <2>3, <2>4, <2>5 DEF Next
<1>3. HealInv => PassHeals
  <2> SUFFICES ASSUME HealInv, NEW l \in Libraries, step[l] = "done", calm[l], WithinBatch(l)
               PROVE  /\ \A im \in Images : Home[im[1]] = l =>
                           /\ im[1] \in HasId => row[im].kind # "absent"
                           /\ row[im].kind = "stored" => FileExists(im, row[im].version)
                      /\ \A i \in HasId \cap Known :
                           Home[i] = l => i \notin ItemsNeedingMetadata(l, TRUE)
    BY DEF PassHeals, WithinBatch
  <2>1. FilesHeal(l) /\ ItemsHeal(l)
    BY DEF HealInv, Healing
  <2>2. \A im \in Mine(l) : OnDisk(im)
    BY <2>1 DEF FilesHeal, Reconciled
  <2>3. \A i \in HasId \cap Items : Home[i] = l => Answered(i)
    BY <2>1 DEF ItemsHeal, Reconciled, UnderWay
  <2>4. \A im \in Images : Home[im[1]] = l /\ im[1] \in HasId => row[im].kind # "absent"
    BY <2>3 DEF Images, Answered
  <2>5. \A i \in HasId \cap Known : Home[i] = l => i \notin ItemsNeedingMetadata(l, TRUE)
    BY <2>3 DEF ItemsNeedingMetadata, Answered, FieldsKept, Done
  <2>6. QED
    BY <2>2, <2>4, <2>5 DEF Mine, OnDisk
<1>4. QED
  BY <1>1, <1>2, <1>3, TypeCorrect, PTL DEF Spec
=============================================================================
