----------------------------- MODULE ScanProofs -----------------------------
(***************************************************************************)
(* Proofs about Scan: for any number of libraries, roots, files, contents  *)
(* and scans at once, with any failures and deaths.                        *)
(*                                                                         *)
(* The argument.  A row is never taken away, so the row a scan has read,   *)
(* however old, is a row the file once had: it names an item that is in    *)
(* the table and an earlier content, and its size is that of a content no  *)
(* later than the one probed, because a probe follows the walk that        *)
(* measured the size.  That is kept by every way a row can be written.     *)
(***************************************************************************)
EXTENDS Scan, TLAPS

(* One of the library's roots leads to the file, under the item's name.    *)
Reaches(i, f) ==
  \E root \in roots[i[1]] : root \in Above[f] /\ SourcePath(root, f) = i[2]

(* A size the file had by the time it had the content c.                   *)
SizeBy(size, c) == \E v \in Versions : v <= c /\ Size[v] = size

FoundEntry(l, e) ==
  /\ e \in [path : Files, source : Sources, size : Nat]
  /\ Reaches(<<l, e.source>>, e.path)
  /\ disk[e.path] # 0 /\ SizeBy(e.size, disk[e.path])
  /\ e.path \in calm[l] => e.size = Size[disk[e.path]]

(* A row that the file has, or had.                                        *)
ARow(r, f) ==
  /\ r \in [owner : Items, size : Nat, container : Versions, streams : Versions \cup {0}]
  /\ r.owner \in known /\ Reaches(r.owner, f)
  /\ r.container <= disk[f] /\ SizeBy(r.size, r.container)

Shape ==
  /\ roots \in [Libraries -> SUBSET Dirs]
  /\ disk \in [Files -> Versions \cup {0}]
  /\ known \in SUBSET Items
  /\ identity \in [Items -> {"none", "pending", "decided"}]
  /\ file \in [Files -> Rows]
  /\ pc \in [Libraries -> {"idle", "walk", "next", "probe"} \cup InTx \cup Done]
  /\ left \in [Libraries -> SUBSET Entries]
  /\ cur \in [Libraries -> Entries]
  /\ existing \in [Libraries -> Rows]
  /\ reading \in [Libraries -> Versions \cup {0}]
  /\ calm \in [Libraries -> SUBSET Files]
  /\ settled \in SUBSET Files
  /\ scans \in Nat /\ replaces \in Nat /\ decisions \in Nat /\ faults \in Nat

Welcomed == \A i \in Items : i \in known <=> identity[i] # "none"

RowsKept == \A f \in Files : file[f] = NoRow \/ ARow(file[f], f)

LeftOf(l) == \A e \in left[l] : FoundEntry(l, e)

At(l) == pc[l] \in InTx \cup {"probe"}

HandOf(l) ==
  At(l) =>
    /\ FoundEntry(l, cur[l])
    /\ existing[l] # NoRow => ARow(existing[l], cur[l].path) /\ file[cur[l].path] # NoRow
    /\ cur[l].path \in calm[l] => existing[l] = file[cur[l].path]

(* What a scan is about to write: of a probe, or of the row it read.       *)
WriteOf(l) ==
  pc[l] \in InTx =>
    /\ reading[l] = 0 => existing[l] # NoRow /\ existing[l].size = cur[l].size
    /\ reading[l] # 0 =>
         /\ reading[l] <= disk[cur[l].path] /\ SizeBy(cur[l].size, reading[l])
         /\ cur[l].path \in calm[l] => reading[l] = disk[cur[l].path]

ScansKept == \A l \in Libraries : LeftOf(l) /\ HandOf(l) /\ WriteOf(l)

ItemsReach == \A i \in known : \E f \in Files : file[f] # NoRow /\ Reaches(i, f)

OneProbe == \A f \in Files \ crossed : file[f].streams = file[f].container

Healed ==
  \A f \in settled :
    /\ file[f].size = Size[disk[f]]
    /\ file[f].container = disk[f] \/ Ambiguous(f)

IInv ==
  /\ Shape /\ Welcomed /\ RowsKept /\ ScansKept /\ ItemsReach /\ OneProbe /\ Healed

LEMMA Numbers ==
  /\ \A v \in Versions : v \in Nat /\ v # 0 /\ Size[v] \in Nat
  /\ 0 \notin Versions
BY VersionsNat, SizeType

LEMMA NoSuchItem == NoItem \notin Items
BY DEF Items, NoItem

LEMMA NoRowIs ==
  /\ NoRow \in Rows
  /\ \A r : r = NoRow => r.owner = NoItem /\ r.container = 0 /\ r.streams = 0 /\ r.size = 0
BY DEF NoRow, Rows

LEMMA NoEntryIs == NoEntry \in Entries
BY DEF NoEntry, Entries

LEMMA InitInv == Init => IInv
<1> SUFFICES ASSUME Init PROVE IInv
  OBVIOUS
<1> USE DEF Init
<1>1. Shape
  BY NoRowIs, NoEntryIs DEF Shape, InTx, Done
<1>2. Welcomed /\ RowsKept /\ ItemsReach
  BY DEF Welcomed, RowsKept, ItemsReach
<1>3. ScansKept
  BY DEF ScansKept, LeftOf, HandOf, WriteOf, At, InTx
<1>4. OneProbe /\ Healed
  BY NoRowIs DEF OneProbe, Healed
<1> QED BY <1>1, <1>2, <1>3, <1>4 DEF IInv

----------------------------------------------------------------------------
(* What time does to entries and rows: roots are given once, contents and  *)
(* items are only added, and calm is only lost.                            *)
Later ==
  /\ \A l \in Libraries : roots[l] = {} \/ roots'[l] = roots[l]
  /\ \A f \in Files : disk[f] <= disk'[f]
  /\ known \subseteq known'

Calmer(l) == calm'[l] \subseteq calm[l] /\ \A f \in calm'[l] : disk'[f] = disk[f]

LEMMA SizesLast ==
  ASSUME NEW size \in Nat, NEW c \in Nat, NEW d \in Nat, c <= d, SizeBy(size, c)
  PROVE  SizeBy(size, d)
BY Numbers DEF SizeBy

LEMMA ReachesLater ==
  ASSUME Later, NEW i \in Items, NEW f \in Files, Reaches(i, f)
  PROVE  Reaches(i, f)'
<1>1. i[1] \in Libraries
  BY DEF Items
<1>2. roots'[i[1]] = roots[i[1]]
  BY <1>1 DEF Later, Reaches
<1> QED BY <1>2 DEF Reaches

LEMMA EntryKept ==
  ASSUME Shape, Shape', Later, NEW l \in Libraries, Calmer(l), NEW e, FoundEntry(l, e)
  PROVE  FoundEntry(l, e)'
<1>1. e \in [path : Files, source : Sources, size : Nat] /\ <<l, e.source>> \in Items
  BY DEF FoundEntry, Items
<1>2. disk[e.path] \in Nat /\ disk'[e.path] \in Nat /\ disk[e.path] <= disk'[e.path]
  BY <1>1, Numbers DEF Shape, Later
<1>3. Reaches(<<l, e.source>>, e.path)'
  BY <1>1, ReachesLater DEF FoundEntry
<1>4. SizeBy(e.size, disk'[e.path]) /\ disk'[e.path] # 0
  BY <1>1, <1>2, SizesLast DEF FoundEntry
<1>5. e.path \in calm'[l] => e.size = Size[disk'[e.path]]
  BY DEF Calmer, FoundEntry
<1>6. SizeBy(e.size, disk[e.path])'
  BY <1>4 DEF SizeBy
<1> QED BY <1>1, <1>3, <1>4, <1>5, <1>6 DEF FoundEntry

LEMMA RowLater ==
  ASSUME Shape, Shape', Later, NEW f \in Files, NEW r, ARow(r, f)
  PROVE  ARow(r, f)'
<1>1. r \in [owner : Items, size : Nat, container : Versions, streams : Versions \cup {0}]
      /\ r.owner \in Items
  BY DEF ARow
<1>2. Reaches(r.owner, f)'
  BY <1>1, ReachesLater DEF ARow
<1>3. r.container <= disk'[f]
  <2>1. r.container \in Nat /\ disk[f] \in Nat /\ disk'[f] \in Nat
    BY <1>1, Numbers DEF Shape
  <2> QED BY <2>1 DEF ARow, Later
<1>4. SizeBy(r.size, r.container)'
  BY DEF ARow, SizeBy
<1> QED BY <1>1, <1>2, <1>3, <1>4 DEF ARow, Later

(* A scan that is where it was, with less left and less calm: it still      *)
(* holds what it held, whatever the others did to the tables and the disk. *)
LEMMA Others ==
  ASSUME IInv, Shape', Later, NEW o \in Libraries, Calmer(o), left'[o] \subseteq left[o],
         At(o)' => /\ At(o) /\ cur'[o] = cur[o] /\ existing'[o] = existing[o]
                   /\ reading'[o] = reading[o],
         pc'[o] \in InTx => pc[o] \in InTx,
         \A f \in Files : file[f] # NoRow => file'[f] # NoRow,
         At(o)' /\ cur[o].path \in calm'[o] => file'[cur[o].path] = file[cur[o].path]
  PROVE  LeftOf(o)' /\ HandOf(o)' /\ WriteOf(o)'
<1>1. Shape /\ LeftOf(o) /\ HandOf(o) /\ WriteOf(o)
  BY DEF IInv, ScansKept
<1>2. LeftOf(o)'
  BY <1>1, EntryKept DEF LeftOf
<1>3. ASSUME At(o)' PROVE HandOf(o)' /\ WriteOf(o)'
  <2>1. At(o) /\ cur'[o] = cur[o] /\ existing'[o] = existing[o] /\ reading'[o] = reading[o]
    BY <1>3
  <2>2. PICK e, r : e = cur[o] /\ e = cur'[o] /\ r = existing[o] /\ r = existing'[o]
    BY <2>1
  <2>3. FoundEntry(o, e)
    BY <1>1, <2>1, <2>2 DEF HandOf
  <2>4. e.path \in Files
    BY <2>3 DEF FoundEntry
  <2>5. FoundEntry(o, e)'
    BY <1>1, <2>3, EntryKept
  <2>6. r # NoRow => ARow(r, e.path)' /\ (file[e.path] # NoRow)'
    <3>1. r # NoRow => ARow(r, e.path) /\ file[e.path] # NoRow
      BY <1>1, <2>1, <2>2 DEF HandOf
    <3> QED BY <1>1, <2>4, <3>1, RowLater
  <2>7. e.path \in calm'[o] => r = file'[e.path]
    BY <1>1, <1>3, <2>1, <2>2 DEF HandOf, Calmer
  <2>8. FoundEntry(o, cur[o])'
    BY <2>2, <2>5 DEF FoundEntry, Reaches, SizeBy
  <2>9. (existing[o] # NoRow)' => ARow(existing[o], cur[o].path)' /\ (file[cur[o].path] # NoRow)'
    BY <2>2, <2>6 DEF ARow, Reaches, SizeBy
  <2>10. HandOf(o)'
    BY <2>2, <2>7, <2>8, <2>9 DEF HandOf
  <2>11. WriteOf(o)'
    <3> SUFFICES ASSUME pc'[o] \in InTx PROVE WriteOf(o)'
      BY DEF WriteOf
    <3>1. pc[o] \in InTx
      OBVIOUS
    <3>2. reading[o] \in Nat /\ disk[e.path] \in Nat /\ disk'[e.path] \in Nat
      BY <1>1, <2>4, Numbers DEF Shape
    <3>3. disk[e.path] <= disk'[e.path]
      BY <2>4 DEF Later
    <3>4. reading[o] = 0 => existing[o] # NoRow /\ existing[o].size = cur[o].size
      BY <1>1, <3>1 DEF WriteOf
    <3>5. reading[o] # 0 =>
            /\ reading[o] <= disk[e.path] /\ SizeBy(e.size, reading[o])
            /\ e.path \in calm[o] => reading[o] = disk[e.path]
      BY <1>1, <2>2, <3>1 DEF WriteOf
    <3>6. reading[o] # 0 => reading[o] <= disk'[e.path]
      BY <3>2, <3>3, <3>5
    <3>7. e.path \in calm'[o] => disk'[e.path] = disk[e.path] /\ e.path \in calm[o]
      BY DEF Calmer
    <3> QED BY <2>1, <2>2, <3>4, <3>5, <3>6, <3>7 DEF WriteOf, SizeBy
  <2> QED BY <2>10, <2>11
<1>4. ASSUME ~ At(o)' PROVE HandOf(o)' /\ WriteOf(o)'
  BY <1>4 DEF HandOf, WriteOf, At
<1> QED BY <1>2, <1>3, <1>4

(* Items keep the file that revealed them as long as no row goes.          *)
LEMMA ItemsLater ==
  ASSUME IInv, Later, NEW i \in known, \A f \in Files : file[f] # NoRow => file'[f] # NoRow
  PROVE  \E f \in Files : (file[f] # NoRow)' /\ Reaches(i, f)'
<1>1. i \in Items
  BY DEF IInv, Shape
<1>2. PICK f \in Files : file[f] # NoRow /\ Reaches(i, f)
  BY DEF IInv, ItemsReach
<1>3. Reaches(i, f)'
  BY <1>1, <1>2, ReachesLater
<1> QED BY <1>2, <1>3

(* Steps that write no table and touch no disk; a scan that goes on in     *)
(* them is as far as it was, or has left what it had in hand.              *)
LEMMA Quiet ==
  ASSUME IInv, Shape', Later, \A l \in Libraries : Calmer(l),
         UNCHANGED <<disk, tables, settled, crossed>>,
         \A l \in Libraries : left'[l] \subseteq left[l],
         \A l \in Libraries : pc'[l] \in InTx \cup {"probe"} =>
           /\ pc[l] \in InTx \cup {"probe"}
           /\ cur'[l] = cur[l] /\ existing'[l] = existing[l] /\ reading'[l] = reading[l],
         \A l \in Libraries : pc'[l] \in InTx => pc[l] \in InTx
  PROVE  IInv'
<1> USE DEF tables
<1>1. Welcomed' /\ OneProbe'
  BY DEF IInv, Welcomed, OneProbe
<1>2. RowsKept'
  BY RowLater DEF IInv, RowsKept
<1>3. ScansKept'
  BY Others DEF ScansKept, At
<1>4. ItemsReach'
  BY ItemsLater DEF ItemsReach
<1>5. Healed'
  BY DEF IInv, Healed, Ambiguous
<1> QED BY <1>1, <1>2, <1>3, <1>4, <1>5 DEF IInv

LEMMA ShapeFacts ==
  ASSUME Shape
  PROVE  /\ pc \in [Libraries -> {"idle", "walk", "next", "probe"} \cup InTx \cup Done]
         /\ left \in [Libraries -> SUBSET Entries] /\ cur \in [Libraries -> Entries]
         /\ existing \in [Libraries -> Rows] /\ reading \in [Libraries -> Versions \cup {0}]
         /\ calm \in [Libraries -> SUBSET Files]
         /\ \A f \in Files : disk[f] \in Nat /\ disk[f] <= disk[f]
BY Numbers DEF Shape

(* A scan that moves on by its program counter alone, to one of its labels. *)
LEMMA Moves ==
  ASSUME IInv, NEW l \in Libraries, NEW to \in {"idle", "walk", "next", "probe"} \cup InTx \cup Done,
         pc' = [pc EXCEPT ![l] = to], to = "probe" => pc[l] = "probe", to \in InTx => pc[l] \in InTx,
         UNCHANGED <<roots, disk, tables, settled, crossed>>,
         left' \in [Libraries -> SUBSET Entries], \A o \in Libraries : left'[o] \subseteq left[o],
         calm' \in [Libraries -> SUBSET Files], \A o \in Libraries : calm'[o] \subseteq calm[o],
         cur' \in [Libraries -> Entries], existing' \in [Libraries -> Rows],
         reading' \in [Libraries -> Versions \cup {0}],
         to \in InTx \cup {"probe"} => UNCHANGED <<cur, existing, reading>>,
         \A o \in Libraries \ {l} :
           cur'[o] = cur[o] /\ existing'[o] = existing[o] /\ reading'[o] = reading[o],
         scans' \in Nat, replaces' \in Nat, decisions' \in Nat, faults' \in Nat
  PROVE  IInv'
<1>1. Shape
  BY DEF IInv
<1>2. \A o \in Libraries : pc'[o] = IF o = l THEN to ELSE pc[o]
  BY <1>1 DEF Shape
<1>3. Shape'
  BY <1>1 DEF Shape, tables
<1>4. Later /\ \A o \in Libraries : Calmer(o)
  BY <1>1, ShapeFacts DEF Later, Calmer, tables
<1>5. \A o \in Libraries : pc'[o] \in InTx \cup {"probe"} =>
        /\ pc[o] \in InTx \cup {"probe"}
        /\ cur'[o] = cur[o] /\ existing'[o] = existing[o] /\ reading'[o] = reading[o]
  BY <1>2
<1>6. \A o \in Libraries : pc'[o] \in InTx => pc[o] \in InTx
  BY <1>2
<1> QED BY <1>3, <1>4, <1>5, <1>6, Quiet

LEMMA QuietStep ==
  ASSUME IInv, NEW l \in Libraries,
         \/ StartScan(l) \/ WalkFails(l) \/ UpsertItem(l) \/ UpsertFile(l) \/ ReplaceStreams(l)
         \/ Rollback(l) \/ Finish(l) \/ Fail(l)
  PROVE  IInv'
<1>1. Shape
  BY DEF IInv
<1>2. scans' \in Nat /\ replaces' \in Nat /\ decisions' \in Nat /\ faults' \in Nat
  BY <1>1 DEF Shape, StartScan, WalkFails, UpsertItem, UpsertFile, ReplaceStreams, Rollback,
              Finish, Fail, counters
<1>3. UNCHANGED <<roots, disk, tables, settled, crossed>>
  BY DEF StartScan, WalkFails, UpsertItem, UpsertFile, ReplaceStreams, Rollback, Finish, Fail, history
<1>4. left' \in [Libraries -> SUBSET Entries] /\ \A o \in Libraries : left'[o] \subseteq left[o]
  BY <1>1 DEF Shape, StartScan, WalkFails, UpsertItem, UpsertFile, ReplaceStreams, Rollback,
              Finish, Fail
<1>5. calm' \in [Libraries -> SUBSET Files] /\ \A o \in Libraries : calm'[o] \subseteq calm[o]
  BY <1>1 DEF Shape, StartScan, WalkFails, UpsertItem, UpsertFile, ReplaceStreams, Rollback,
              Finish, Fail, history
<1>6. CASE Rollback(l)
  <2>1. /\ cur' = [cur EXCEPT ![l] = NoEntry] /\ existing' = [existing EXCEPT ![l] = NoRow]
        /\ reading' = [reading EXCEPT ![l] = 0] /\ pc' = [pc EXCEPT ![l] = "next"]
    BY <1>6 DEF Rollback, Return, Go
  <2>2. /\ cur' \in [Libraries -> Entries] /\ existing' \in [Libraries -> Rows]
        /\ reading' \in [Libraries -> Versions \cup {0}]
    BY <1>1, <2>1, NoRowIs, NoEntryIs DEF Shape
  <2>3. \A o \in Libraries \ {l} :
          cur'[o] = cur[o] /\ existing'[o] = existing[o] /\ reading'[o] = reading[o]
    BY <1>1, <2>1 DEF Shape
  <2>4. "next" \notin InTx
    BY DEF InTx
  <2> QED BY <1>2, <1>3, <1>4, <1>5, <2>1, <2>2, <2>3, <2>4, Moves
<1>7. CASE ~ Rollback(l)
  <2>1. UNCHANGED <<cur, existing, reading>>
    BY <1>7 DEF StartScan, WalkFails, UpsertItem, UpsertFile, ReplaceStreams, Finish, Fail
  <2>2. /\ cur' \in [Libraries -> Entries] /\ existing' \in [Libraries -> Rows]
        /\ reading' \in [Libraries -> Versions \cup {0}]
    BY <1>1, <2>1 DEF Shape
  <2>3. PICK to \in {"walk"} \cup InTx \cup Done :
          pc' = [pc EXCEPT ![l] = to] /\ (to \in InTx => pc[l] \in InTx)
    BY <1>7 DEF StartScan, WalkFails, UpsertItem, UpsertFile, ReplaceStreams, Finish, Fail, Go,
                InTx, Done
  <2>4. to # "probe" /\ to \in {"idle", "walk", "next", "probe"} \cup InTx \cup Done
    BY DEF InTx, Done
  <2> QED BY <1>2, <1>3, <1>4, <1>5, <2>1, <2>2, <2>3, <2>4, Moves
<1> QED BY <1>6, <1>7

LEMMA CreateStep ==
  ASSUME IInv, NEW l \in Libraries, NEW R \in Roots[l], Create(l, R)
  PROVE  IInv'
<1>1. Shape /\ R \subseteq Dirs
  BY RootsType DEF IInv
<1>2. roots' = [roots EXCEPT ![l] = R] /\ roots[l] = {}
      /\ UNCHANGED <<disk, tables, scanners, history, counters>>
  BY DEF Create
<1>3. Shape'
  BY <1>1, <1>2 DEF Shape, tables, scanners, history, counters
<1>4. Later /\ \A o \in Libraries : Calmer(o)
  BY <1>1, <1>2, ShapeFacts DEF Later, Calmer, tables, history, Shape
<1> QED BY <1>2, <1>3, <1>4, Quiet DEF scanners, history

LEMMA DieStep == ASSUME IInv, Die PROVE IInv'
<1>1. Shape
  BY DEF IInv
<1>2. UNCHANGED <<roots, disk, tables, settled, crossed, scans, replaces, decisions>> /\ faults' = faults + 1
      /\ pc' = [l \in Libraries |-> IF pc[l] \in Done THEN pc[l] ELSE "idle"]
      /\ left' = [l \in Libraries |-> {}] /\ cur' = [l \in Libraries |-> NoEntry]
      /\ existing' = [l \in Libraries |-> NoRow] /\ reading' = [l \in Libraries |-> 0]
      /\ calm' = [l \in Libraries |-> {}]
  BY DEF Die
<1>3. Shape'
  BY <1>1, <1>2, NoRowIs, NoEntryIs DEF Shape, tables
<1>4. Later /\ \A o \in Libraries : Calmer(o)
  BY <1>1, <1>2, ShapeFacts DEF Later, Calmer, tables
<1>5. \A l \in Libraries : pc'[l] \notin InTx \cup {"probe"}
  BY <1>2 DEF InTx, Done
<1> QED BY <1>2, <1>3, <1>4, <1>5, Quiet

(* A step of one scan that writes no table: the others do not notice.      *)
LEMMA OneScan ==
  ASSUME IInv, NEW l \in Libraries, Shape', UNCHANGED <<roots, disk, tables, settled, crossed>>,
         \A o \in Libraries \ {l} :
           /\ pc'[o] = pc[o] /\ left'[o] = left[o] /\ cur'[o] = cur[o] /\ calm'[o] = calm[o]
           /\ existing'[o] = existing[o] /\ reading'[o] = reading[o],
         LeftOf(l)', HandOf(l)', WriteOf(l)'
  PROVE  IInv'
<1>1. Shape
  BY DEF IInv
<1>2. Later
  BY <1>1, ShapeFacts DEF Later, tables
<1>3. Welcomed' /\ OneProbe'
  BY DEF IInv, Welcomed, OneProbe, tables
<1>4. RowsKept'
  BY <1>1, <1>2, RowLater DEF IInv, RowsKept, tables
<1>5. ScansKept'
  <2>1. ASSUME NEW o \in Libraries \ {l} PROVE LeftOf(o)' /\ HandOf(o)' /\ WriteOf(o)'
    <3>1. Calmer(o)
      BY DEF Calmer
    <3> QED BY <1>2, <3>1, Others DEF At, tables
  <2> QED BY <2>1 DEF ScansKept
<1>6. ItemsReach'
  BY <1>2, ItemsLater DEF ItemsReach, tables
<1>7. Healed'
  BY DEF IInv, Healed, Ambiguous, tables
<1> QED BY <1>3, <1>4, <1>5, <1>6, <1>7 DEF IInv

(* What a walk finds is there, and is as long as the walk says.            *)
LEMMA WalkFinds ==
  ASSUME Shape, NEW l \in Libraries, NEW unlisted, NEW e \in Found(l, unlisted)
  PROVE  /\ e \in [path : Files, source : Sources, size : Nat] /\ e \in Entries
         /\ Reaches(<<l, e.source>>, e.path) /\ disk[e.path] # 0
         /\ e.size = Size[disk[e.path]] /\ SizeBy(e.size, disk[e.path])
<1>0. PICK root \in roots[l] : \E f \in FoundIn(root, unlisted) :
        e = [path |-> f, source |-> SourcePath(root, f), size |-> Size[disk[f]]]
  BY DEF Found
<1>1. PICK f \in FoundIn(root, unlisted) :
        e = [path |-> f, source |-> SourcePath(root, f), size |-> Size[disk[f]]]
  BY <1>0
<1>2. f \in Files /\ root \in Above[f] /\ disk[f] # 0
  BY DEF FoundIn
<1>3. disk[f] \in Versions /\ disk[f] \in Nat /\ Size[disk[f]] \in Nat
  BY <1>2, Numbers DEF Shape
<1>4. SourcePath(root, f) \in Sources
  BY <1>2, FilesInDirs DEF SourcePath, Sources
<1>5. e.path = f /\ e.source = SourcePath(root, f) /\ e.size = Size[disk[f]]
  BY <1>1
<1>6. e \in [path : Files, source : Sources, size : Nat] /\ e \in Entries
  BY <1>1, <1>2, <1>3, <1>4 DEF Entries
<1>7. Reaches(<<l, e.source>>, e.path)
  BY <1>2, <1>5 DEF Reaches
<1>8. SizeBy(e.size, disk[e.path])
  BY <1>3, <1>5 DEF SizeBy
<1> QED BY <1>2, <1>5, <1>6, <1>7, <1>8

LEMMA WalkStep ==
  ASSUME IInv, NEW l \in Libraries, NEW unlisted \in SUBSET Unlistable, Walk(l, unlisted)
  PROVE  IInv'
<1>1. Shape
  BY DEF IInv
<1>2. /\ left' = [left EXCEPT ![l] = Found(l, unlisted)]
      /\ calm' = [calm EXCEPT ![l] = Files] /\ pc' = [pc EXCEPT ![l] = "next"]
      /\ UNCHANGED <<roots, disk, tables, cur, existing, reading, settled, crossed, counters>>
  BY DEF Walk, Go
<1>3. Found(l, unlisted) \subseteq Entries
  BY <1>1, WalkFinds
<1>4. Shape'
  BY <1>1, <1>2, <1>3 DEF Shape, tables, counters
<1>5. \A o \in Libraries \ {l} :
        /\ pc'[o] = pc[o] /\ left'[o] = left[o] /\ cur'[o] = cur[o] /\ calm'[o] = calm[o]
        /\ existing'[o] = existing[o] /\ reading'[o] = reading[o]
  BY <1>1, <1>2 DEF Shape
<1>6. left'[l] = Found(l, unlisted) /\ pc'[l] = "next"
  BY <1>1, <1>2 DEF Shape
<1>7. LeftOf(l)'
  <2> SUFFICES ASSUME NEW e \in Found(l, unlisted) PROVE FoundEntry(l, e)'
    BY <1>6 DEF LeftOf
  <2>1. /\ e \in [path : Files, source : Sources, size : Nat]
        /\ Reaches(<<l, e.source>>, e.path) /\ disk[e.path] # 0
        /\ e.size = Size[disk[e.path]] /\ SizeBy(e.size, disk[e.path])
    BY <1>1, WalkFinds
  <2> QED BY <1>2, <2>1 DEF FoundEntry, Reaches, SizeBy
<1>8. HandOf(l)' /\ WriteOf(l)'
  BY <1>6 DEF HandOf, WriteOf, At, InTx
<1> QED BY <1>2, <1>4, <1>5, <1>7, <1>8, OneScan

LEMMA LookupStep ==
  ASSUME IInv, NEW l \in Libraries, Lookup(l) PROVE IInv'
<1>1. Shape /\ LeftOf(l)
  BY DEF IInv, ScansKept
<1>2. PICK e \in FirstIn(left[l]) :
        /\ cur' = [cur EXCEPT ![l] = e] /\ left' = [left EXCEPT ![l] = @ \ {e}]
        /\ existing' = [existing EXCEPT ![l] = file[e.path]]
        /\ pc' = [pc EXCEPT ![l] = IF NeedsProbe(file[e.path], e.size) THEN "probe" ELSE "item"]
  BY DEF Lookup, Go
<1>3. UNCHANGED <<roots, disk, tables, history, counters>> /\ reading' = [reading EXCEPT ![l] = 0]
  BY DEF Lookup
<1>4. e \in left[l] /\ FoundEntry(l, e) /\ e \in Entries /\ e.path \in Files /\ file[e.path] \in Rows
  <2>1. e \in left[l] /\ e \in Entries
    BY <1>1 DEF FirstIn, Shape
  <2>2. FoundEntry(l, e)
    BY <1>1, <2>1 DEF LeftOf
  <2> QED BY <1>1, <2>1, <2>2 DEF FoundEntry, Shape
<1>5. /\ cur'[l] = e /\ existing'[l] = file[e.path] /\ reading'[l] = 0
      /\ left'[l] = left[l] \ {e}
      /\ pc'[l] = IF NeedsProbe(file[e.path], e.size) THEN "probe" ELSE "item"
  BY <1>1, <1>2, <1>3 DEF Shape
<1>6. Shape'
  <2>1. cur' \in [Libraries -> Entries] /\ left' \in [Libraries -> SUBSET Entries]
        /\ existing' \in [Libraries -> Rows] /\ reading' \in [Libraries -> Versions \cup {0}]
    BY <1>1, <1>2, <1>3, <1>4 DEF Shape
  <2>2. pc' \in [Libraries -> {"idle", "walk", "next", "probe"} \cup InTx \cup Done]
    BY <1>1, <1>2 DEF Shape, InTx
  <2> QED BY <1>1, <1>3, <2>1, <2>2 DEF Shape, tables, history, counters
<1>7. \A o \in Libraries \ {l} :
        /\ pc'[o] = pc[o] /\ left'[o] = left[o] /\ cur'[o] = cur[o] /\ calm'[o] = calm[o]
        /\ existing'[o] = existing[o] /\ reading'[o] = reading[o]
  BY <1>1, <1>2, <1>3 DEF Shape, history
<1>8. Calmer(l) /\ Later
  BY <1>1, <1>3, ShapeFacts DEF Calmer, Later, history, tables
<1>9. LeftOf(l)'
  BY <1>1, <1>5, <1>6, <1>8, EntryKept DEF LeftOf
<1>10. HandOf(l)'
  <2>1. FoundEntry(l, e)'
    BY <1>1, <1>4, <1>6, <1>8, EntryKept
  <2>2. PICK r : r = file[e.path] /\ r = existing'[l] /\ r = file'[e.path]
    BY <1>3, <1>5 DEF tables
  <2>3. r # NoRow => ARow(r, e.path)'
    <3>1. r # NoRow => ARow(r, e.path)
      BY <1>4, <2>2 DEF IInv, RowsKept
    <3> QED BY <1>1, <1>4, <1>6, <1>8, <3>1, RowLater
  <2>4. FoundEntry(l, cur[l])'
    BY <1>5, <2>1 DEF FoundEntry, Reaches, SizeBy
  <2>5. (existing[l] # NoRow)' => ARow(existing[l], cur[l].path)' /\ (file[cur[l].path] # NoRow)'
    BY <1>5, <2>2, <2>3 DEF ARow, Reaches, SizeBy
  <2> QED BY <1>5, <2>2, <2>4, <2>5 DEF HandOf
<1>11. WriteOf(l)'
  <2> SUFFICES ASSUME pc'[l] \in InTx
               PROVE  existing'[l] # NoRow /\ existing'[l].size = cur'[l].size
    BY <1>5 DEF WriteOf
  <2>1. ~ NeedsProbe(file[e.path], e.size)
    BY <1>5 DEF InTx
  <2> QED BY <1>5, <2>1 DEF NeedsProbe
<1> QED BY <1>3, <1>6, <1>7, <1>9, <1>10, <1>11, OneScan DEF history

LEMMA ProbeStep ==
  ASSUME IInv, NEW l \in Libraries, Probe(l) PROVE IInv'
<1>1. Shape /\ LeftOf(l) /\ HandOf(l) /\ pc[l] = "probe"
  BY DEF IInv, ScansKept, Probe
<1>2. UNCHANGED <<roots, disk, tables, left, history, counters>>
  BY DEF Probe
<1>3. Calmer(l) /\ Later
  BY <1>1, <1>2, ShapeFacts DEF Calmer, Later, history, tables
<1>4. PICK e : e = cur[l]
  OBVIOUS
<1>5. FoundEntry(l, e) /\ e.path \in Files
  BY <1>1, <1>4 DEF HandOf, At, FoundEntry
<1>6. CASE Return(l)
  <2>1. /\ cur' = [cur EXCEPT ![l] = NoEntry] /\ existing' = [existing EXCEPT ![l] = NoRow]
        /\ reading' = [reading EXCEPT ![l] = 0] /\ pc' = [pc EXCEPT ![l] = "next"]
    BY <1>6 DEF Return, Go
  <2>2. Shape'
    BY <1>1, <1>2, <2>1, NoRowIs, NoEntryIs DEF Shape, tables, history, counters
  <2>3. \A o \in Libraries \ {l} :
          /\ pc'[o] = pc[o] /\ left'[o] = left[o] /\ cur'[o] = cur[o] /\ calm'[o] = calm[o]
          /\ existing'[o] = existing[o] /\ reading'[o] = reading[o]
    BY <1>1, <1>2, <2>1 DEF Shape, history
  <2>4. pc'[l] = "next"
    BY <1>1, <2>1 DEF Shape
  <2>5. LeftOf(l)'
    BY <1>1, <1>2, <1>3, <2>2, EntryKept DEF LeftOf
  <2>6. HandOf(l)' /\ WriteOf(l)'
    BY <2>4 DEF HandOf, WriteOf, At, InTx
  <2> QED BY <1>2, <2>2, <2>3, <2>5, <2>6, OneScan DEF history
<1>7. CASE ~ Return(l)
  <2>1. /\ disk[cur[l].path] # 0 /\ reading' = [reading EXCEPT ![l] = disk[cur[l].path]]
        /\ pc' = [pc EXCEPT ![l] = "item"] /\ UNCHANGED <<cur, existing>>
    BY <1>7 DEF Probe, Go
  <2>2. disk[e.path] \in Versions /\ disk[e.path] \in Nat
    BY <1>1, <1>4, <1>5, <2>1, Numbers DEF Shape
  <2>3. Shape'
    <3>1. reading' \in [Libraries -> Versions \cup {0}]
      BY <1>1, <1>4, <2>1, <2>2 DEF Shape
    <3>2. pc' \in [Libraries -> {"idle", "walk", "next", "probe"} \cup InTx \cup Done]
      BY <1>1, <2>1 DEF Shape, InTx
    <3> QED BY <1>1, <1>2, <2>1, <3>1, <3>2 DEF Shape, tables, history, counters
  <2>4. \A o \in Libraries \ {l} :
          /\ pc'[o] = pc[o] /\ left'[o] = left[o] /\ cur'[o] = cur[o] /\ calm'[o] = calm[o]
          /\ existing'[o] = existing[o] /\ reading'[o] = reading[o]
    BY <1>1, <1>2, <2>1 DEF Shape, history
  <2>5. pc'[l] = "item" /\ reading'[l] = disk[e.path]
    BY <1>1, <1>4, <2>1 DEF Shape
  <2>6. LeftOf(l)'
    BY <1>1, <1>2, <1>3, <2>3, EntryKept DEF LeftOf
  <2>7. FoundEntry(l, cur[l])'
    <3>1. FoundEntry(l, e)'
      BY <1>1, <1>3, <1>5, <2>3, EntryKept
    <3> QED BY <1>4, <2>1, <3>1 DEF FoundEntry, Reaches, SizeBy
  <2>8. HandOf(l)'
    <3>1. PICK r : r = existing[l] /\ r = existing'[l]
      BY <2>1
    <3>2. r # NoRow => ARow(r, e.path) /\ file[e.path] # NoRow
      BY <1>1, <1>4, <3>1 DEF HandOf, At
    <3>3. r # NoRow => ARow(r, e.path)'
      BY <1>1, <1>3, <1>5, <2>3, <3>2, RowLater
    <3>4. (existing[l] # NoRow)' => ARow(existing[l], cur[l].path)' /\ (file[cur[l].path] # NoRow)'
      BY <1>2, <1>4, <2>1, <3>1, <3>2, <3>3 DEF ARow, Reaches, SizeBy, tables
    <3>5. (cur[l].path \in calm[l])' => (existing[l] = file[cur[l].path])'
      BY <1>1, <1>2, <2>1 DEF HandOf, At, tables, history
    <3> QED BY <2>7, <3>4, <3>5 DEF HandOf
  <2>9. WriteOf(l)'
    <3>1. reading'[l] # 0 /\ reading'[l] = disk'[cur'[l].path]
      BY <1>2, <1>4, <2>1, <2>2, <2>5
    <3>2. SizeBy(cur[l].size, reading[l])'
      BY <1>4, <1>5, <2>1, <2>5 DEF FoundEntry, SizeBy
    <3>3. reading'[l] <= disk'[cur'[l].path]
      BY <2>2, <2>5, <3>1
    <3> QED BY <3>1, <3>2, <3>3 DEF WriteOf
  <2> QED BY <1>2, <2>3, <2>4, <2>6, <2>8, <2>9, OneScan DEF history
<1> QED BY <1>6, <1>7

LEMMA ReplaceStep ==
  ASSUME IInv, NEW f \in Files, Replace(f) PROVE IInv'
<1>1. Shape
  BY DEF IInv
<1>2. PICK v \in Versions : v > disk[f] /\ disk' = [disk EXCEPT ![f] = v]
  BY DEF Replace
<1>3. /\ calm' = [l \in Libraries |-> calm[l] \ {f}] /\ settled' = settled \ {f}
      /\ replaces' = replaces + 1
      /\ UNCHANGED <<roots, tables, scanners, crossed, scans, decisions, faults>>
  BY DEF Replace
<1>4. \A g \in Files : disk[g] \in Nat /\ disk'[g] = IF g = f THEN v ELSE disk[g]
  BY <1>1, <1>2, Numbers DEF Shape
<1>5. Shape'
  BY <1>1, <1>2, <1>3 DEF Shape, tables, scanners
<1>6. Later
  <2>1. \A g \in Files : disk[g] <= disk'[g]
    BY <1>2, <1>4, Numbers
  <2> QED BY <1>3, <2>1 DEF Later, tables
<1>7. \A o \in Libraries : Calmer(o)
  BY <1>1, <1>3, <1>4 DEF Calmer, Shape
<1>8. Welcomed' /\ OneProbe'
  BY <1>3 DEF IInv, Welcomed, OneProbe, tables
<1>9. RowsKept'
  BY <1>1, <1>3, <1>5, <1>6, RowLater DEF IInv, RowsKept, tables
<1>10. ScansKept'
  BY <1>3, <1>5, <1>6, <1>7, Others DEF ScansKept, tables, scanners, At
<1>11. ItemsReach'
  BY <1>3, <1>6, ItemsLater DEF ItemsReach, tables
<1>12. Healed'
  BY <1>1, <1>3, <1>4 DEF IInv, Healed, Ambiguous, tables, Shape
<1> QED BY <1>5, <1>8, <1>9, <1>10, <1>11, <1>12 DEF IInv

LEMMA DecideStep ==
  ASSUME IInv, NEW i \in Items, Decide(i) PROVE IInv'
<1>1. Shape
  BY DEF IInv
<1>2. /\ identity' = [identity EXCEPT ![i] = "decided"] /\ decisions' = decisions + 1
      /\ i \in known
      /\ UNCHANGED <<roots, disk, known, file, scanners, history, scans, replaces, faults>>
  BY DEF Decide
<1>3. Shape'
  BY <1>1, <1>2 DEF Shape, scanners, history
<1>4. Later /\ \A o \in Libraries : Calmer(o)
  BY <1>1, <1>2, ShapeFacts DEF Later, Calmer, history
<1>5. Welcomed'
  BY <1>1, <1>2 DEF IInv, Welcomed, Shape
<1>6. OneProbe' /\ Healed'
  BY <1>2 DEF IInv, OneProbe, Healed, Ambiguous, history
<1>7. RowsKept'
  BY <1>1, <1>2, <1>3, <1>4, RowLater DEF IInv, RowsKept
<1>8. ScansKept'
  BY <1>2, <1>3, <1>4, Others DEF ScansKept, scanners, At
<1>9. ItemsReach'
  BY <1>2, <1>4, ItemsLater DEF ItemsReach
<1> QED BY <1>3, <1>5, <1>6, <1>7, <1>8, <1>9 DEF IInv

----------------------------------------------------------------------------
(* The commit. *)

(* Its row is a row of the file: of a probe, whose content is no older     *)
(* than the size, or of the row it read, with another item's name.         *)
LEMMA WrittenIsARow ==
  ASSUME IInv, NEW l \in Libraries, pc[l] = "commit"
  PROVE  /\ cur[l].path \in Files /\ cur[l].source \in Sources
         /\ <<l, cur[l].source>> \in Items /\ Reaches(<<l, cur[l].source>>, cur[l].path)
         /\ Written(l) \in [owner : {<<l, cur[l].source>>}, size : {cur[l].size},
                             container : Versions, streams : Versions \cup {0}]
         /\ cur[l].size \in Nat
         /\ Written(l).container <= disk[cur[l].path]
         /\ SizeBy(cur[l].size, Written(l).container)
         /\ reading[l] = 0 => file[cur[l].path] # NoRow
<1>1. Shape /\ HandOf(l) /\ WriteOf(l) /\ At(l) /\ pc[l] \in InTx
  BY DEF IInv, ScansKept, At, InTx
<1>2. PICK e : e = cur[l]
  OBVIOUS
<1>3. FoundEntry(l, e)
  BY <1>1, <1>2 DEF HandOf
<1>4. e.path \in Files /\ e.source \in Sources /\ e.size \in Nat /\ <<l, e.source>> \in Items
      /\ Reaches(<<l, e.source>>, e.path)
  BY <1>3 DEF FoundEntry, Items
<1>5. file[e.path] \in Rows /\ file[e.path].streams \in Versions \cup {0}
  BY <1>1, <1>4 DEF Shape, Rows
<1>6. CASE reading[l] # 0
  <2>1. reading[l] \in Versions /\ reading[l] <= disk[e.path] /\ SizeBy(e.size, reading[l])
    BY <1>1, <1>2, <1>6 DEF Shape, WriteOf
  <2>2. Written(l) = [owner |-> <<l, e.source>>, size |-> e.size,
                      container |-> reading[l], streams |-> reading[l]]
    BY <1>2, <1>6 DEF Written
  <2> QED BY <1>2, <1>4, <1>6, <2>1, <2>2
<1>7. CASE reading[l] = 0
  <2>1. existing[l] # NoRow /\ existing[l].size = e.size
    BY <1>1, <1>2, <1>7 DEF WriteOf
  <2>2. ARow(existing[l], e.path) /\ file[e.path] # NoRow
    BY <1>1, <1>2, <2>1 DEF HandOf
  <2>3. /\ existing[l].container \in Versions /\ existing[l].container <= disk[e.path]
        /\ SizeBy(e.size, existing[l].container)
    BY <2>1, <2>2 DEF ARow
  <2>4. Written(l) = [owner |-> <<l, e.source>>, size |-> e.size,
                      container |-> existing[l].container, streams |-> file[e.path].streams]
    BY <1>2, <1>7 DEF Written
  <2> QED BY <1>2, <1>4, <1>5, <2>2, <2>3, <2>4
<1> QED BY <1>6, <1>7

LEMMA CommitStep ==
  ASSUME IInv, NEW l \in Libraries, Commit(l) PROVE IInv'
<1>1. Shape /\ pc[l] = "commit" /\ HandOf(l) /\ WriteOf(l) /\ LeftOf(l)
  BY DEF IInv, ScansKept, Commit
<1>2. PICK f, i, W, s : f = cur[l].path /\ s = cur[l].size /\ i = <<l, cur[l].source>> /\ W = Written(l)
  OBVIOUS
<1>3. /\ f \in Files /\ i \in Items /\ Reaches(i, f) /\ s \in Nat
      /\ W \in [owner : {i}, size : {s}, container : Versions, streams : Versions \cup {0}]
      /\ W.container <= disk[f] /\ SizeBy(s, W.container)
      /\ reading[l] = 0 => file[f] # NoRow
  BY <1>1, <1>2, WrittenIsARow
<1>4. /\ cur' = [cur EXCEPT ![l] = NoEntry] /\ existing' = [existing EXCEPT ![l] = NoRow]
      /\ reading' = [reading EXCEPT ![l] = 0] /\ pc' = [pc EXCEPT ![l] = "next"]
      /\ known' = known \cup {i} /\ identity' = Ensured(i)
      /\ file' = [file EXCEPT ![f] = W]
      /\ UNCHANGED <<roots, disk, left, counters>>
  BY <1>2 DEF Commit, Return, Go
<1>5. /\ settled' = IF f \in calm[l] THEN settled \cup {f} ELSE settled \ {f}
      /\ crossed' = IF reading[l] # 0 THEN crossed \ {f}
                    ELSE IF file[f] # existing[l] THEN crossed \cup {f} ELSE crossed
      /\ calm' = [o \in Libraries |->
                    IF o # l /\ cur[o].path = f /\ pc[o] \in InTx \cup {"probe"}
                      THEN calm[o] \ {f} ELSE calm[o]]
  BY <1>2 DEF Commit
<1>6. W \in Rows /\ W.owner = i /\ W.size = s /\ W.container \in Versions /\ W # NoRow
  <2>1. W \in Rows /\ W.owner = i /\ W.size = s /\ W.container \in Versions
    BY <1>3 DEF Rows
  <2> QED BY <1>3, <2>1, NoRowIs, NoSuchItem
<1>7. \A g \in Files : file'[g] = IF g = f THEN W ELSE file[g]
  BY <1>1, <1>3, <1>4 DEF Shape
<1>8. \A j \in Items :
        identity'[j] = IF j = i /\ identity[j] = "none" THEN "pending" ELSE identity[j]
  BY <1>1, <1>3, <1>4 DEF Shape, Ensured
<1>9. Shape'
  <2>1. known' \in SUBSET Items /\ file' \in [Files -> Rows]
    BY <1>1, <1>3, <1>4, <1>6 DEF Shape
  <2>2. identity' \in [Items -> {"none", "pending", "decided"}]
    BY <1>1, <1>4 DEF Shape, Ensured
  <2>3. calm' \in [Libraries -> SUBSET Files] /\ settled' \in SUBSET Files
    BY <1>1, <1>3, <1>5 DEF Shape
  <2>4. /\ cur' \in [Libraries -> Entries] /\ existing' \in [Libraries -> Rows]
        /\ reading' \in [Libraries -> Versions \cup {0}]
        /\ pc' \in [Libraries -> {"idle", "walk", "next", "probe"} \cup InTx \cup Done]
    BY <1>1, <1>4, NoRowIs, NoEntryIs DEF Shape
  <2> QED BY <1>1, <1>4, <2>1, <2>2, <2>3, <2>4 DEF Shape, counters
<1>10. Later
  BY <1>1, <1>4, ShapeFacts DEF Later
<1>11. \A o \in Libraries : Calmer(o)
  BY <1>1, <1>4, <1>5 DEF Calmer, Shape
<1>12. Welcomed'
  BY <1>3, <1>4, <1>8 DEF IInv, Welcomed
<1>13. RowsKept'
  <2>1. ARow(W, f)'
    <3>1. W \in [owner : Items, size : Nat, container : Versions, streams : Versions \cup {0}]
      BY <1>3
    <3>2. Reaches(i, f)'
      BY <1>3, <1>10, ReachesLater
    <3>3. i \in known' /\ W.container <= disk'[f]
      BY <1>3, <1>4
    <3>4. W.owner = i /\ W.size = s
      BY <1>6
    <3>5. Reaches(W.owner, f)' /\ SizeBy(W.size, W.container)'
      BY <1>3, <3>2, <3>4 DEF SizeBy
    <3> QED BY <3>1, <3>3, <3>4, <3>5 DEF ARow
  <2>2. ASSUME NEW g \in Files PROVE (file[g] = NoRow)' \/ ARow(file[g], g)'
    <3>1. PICK r : r = file'[g]
      OBVIOUS
    <3>2. CASE g = f
      BY <1>7, <2>1, <3>1, <3>2 DEF ARow, Reaches, SizeBy
    <3>3. CASE g # f
      <4>1. r = file[g]
        BY <1>7, <3>1, <3>3
      <4>2. r = NoRow \/ ARow(r, g)'
        BY <1>1, <1>9, <1>10, <4>1, RowLater DEF IInv, RowsKept
      <4> QED BY <3>1, <4>2 DEF ARow, Reaches, SizeBy
    <3> QED BY <3>2, <3>3
  <2> QED BY <2>2 DEF RowsKept
<1>14. \A g \in Files : file[g] # NoRow => file'[g] # NoRow
  BY <1>6, <1>7
<1>15. ScansKept'
  <2>1. ASSUME NEW o \in Libraries PROVE LeftOf(o)' /\ HandOf(o)' /\ WriteOf(o)'
    <3>1. CASE o = l
      <4>1. pc'[o] = "next" /\ left'[o] = left[o]
        BY <1>1, <1>4, <3>1 DEF Shape
      <4> QED BY <1>9, <1>10, <1>11, <1>14, <4>1, Others DEF At, InTx
    <3>2. CASE o # l
      <4>1. /\ pc'[o] = pc[o] /\ cur'[o] = cur[o] /\ existing'[o] = existing[o]
            /\ reading'[o] = reading[o] /\ left'[o] = left[o]
        BY <1>1, <1>4, <3>2 DEF Shape
      <4>2. At(o)' => At(o)
        BY <4>1 DEF At
      <4>3. ASSUME At(o)', cur[o].path \in calm'[o] PROVE file'[cur[o].path] = file[cur[o].path]
        <5>1. cur[o].path # f
          BY <1>5, <3>2, <4>1, <4>3 DEF At
        <5> QED BY <1>1, <1>4, <5>1 DEF Shape
      <4> QED BY <1>9, <1>10, <1>11, <1>14, <4>1, <4>2, <4>3, Others
    <3> QED BY <3>1, <3>2
  <2> QED BY <2>1 DEF ScansKept
<1>16. ItemsReach'
  <2> SUFFICES ASSUME NEW j \in known' PROVE \E g \in Files : (file[g] # NoRow)' /\ Reaches(j, g)'
    BY DEF ItemsReach
  <2>1. CASE j \in known
    BY <1>10, <1>14, <2>1, ItemsLater
  <2>2. CASE j = i
    <3>1. Reaches(i, f)'
      BY <1>3, <1>10, ReachesLater
    <3>2. file'[f] # NoRow
      BY <1>3, <1>6, <1>7
    <3>3. Reaches(j, f)'
      BY <2>2, <3>1 DEF Reaches
    <3> QED BY <1>3, <3>2, <3>3
  <2> QED BY <1>4, <2>1, <2>2
<1>17. OneProbe'
  <2> SUFFICES ASSUME NEW g \in Files \ crossed' PROVE file'[g].streams = file'[g].container
    BY DEF OneProbe
  <2>1. CASE g # f
    <3>1. g \notin crossed
      BY <1>5, <2>1
    <3> QED BY <1>7, <2>1, <3>1 DEF IInv, OneProbe
  <2>2. CASE g = f /\ reading[l] # 0
    BY <1>2, <1>3, <1>7, <2>2 DEF Written
  <2>3. CASE g = f /\ reading[l] = 0
    <3>1. g \notin crossed /\ file[f] = existing[l]
      BY <1>5, <2>3
    <3>2. file[f].streams = file[f].container
      BY <1>3, <2>3, <3>1 DEF IInv, OneProbe
    <3>3. W.streams = file[f].streams /\ W.container = existing[l].container
      BY <1>2, <2>3 DEF Written
    <3> QED BY <1>3, <1>7, <2>3, <3>1, <3>2, <3>3
  <2> QED BY <2>1, <2>2, <2>3
<1>18. Healed'
  <2> SUFFICES ASSUME NEW g \in settled'
               PROVE  /\ file'[g].size = Size[disk[g]]
                      /\ file'[g].container = disk[g] \/ Ambiguous(g)
    BY <1>4 DEF Healed, Ambiguous
  <2>1. CASE g # f
    <3>1. g \in settled /\ g \in Files
      BY <1>1, <1>5, <2>1 DEF Shape
    <3> QED BY <1>7, <2>1, <3>1 DEF IInv, Healed
  <2>2. CASE g = f
    <3>1. f \in calm[l]
      BY <1>5, <2>2
    <3>2. s = Size[disk[f]]
      BY <1>1, <1>2, <3>1 DEF HandOf, FoundEntry, At, InTx
    <3>3. CASE W.container = disk[f]
      BY <1>3, <1>6, <1>7, <2>2, <3>2, <3>3
    <3>4. CASE W.container # disk[f]
      <4>1. PICK v \in Versions : v <= W.container /\ Size[v] = s
        BY <1>3 DEF SizeBy
      <4>2. v < disk[f]
        BY <1>1, <1>3, <3>4, <4>1, Numbers, ShapeFacts
      <4>3. Ambiguous(f)
        BY <3>2, <4>1, <4>2 DEF Ambiguous
      <4> QED BY <1>3, <1>6, <1>7, <2>2, <3>2, <4>3
    <3> QED BY <3>3, <3>4
  <2> QED BY <2>1, <2>2
<1> QED BY <1>9, <1>12, <1>13, <1>15, <1>16, <1>17, <1>18 DEF IInv

----------------------------------------------------------------------------
LEMMA StepInv == IInv /\ [Next]_vars => IInv'
<1> SUFFICES ASSUME IInv, [Next]_vars PROVE IInv'
  OBVIOUS
<1>1. ASSUME NEW l \in Libraries, Advance(l) PROVE IInv'
  BY <1>1, QuietStep, WalkStep, LookupStep, ProbeStep, CommitStep DEF Advance
<1>2. ASSUME NEW l \in Libraries, StartScan(l) PROVE IInv'
  BY <1>2, QuietStep
<1>3. ASSUME NEW l \in Libraries, NEW R \in Roots[l], Create(l, R) PROVE IInv'
  BY <1>3, CreateStep
<1>4. ASSUME NEW f \in Files, Replace(f) PROVE IInv'
  BY <1>4, ReplaceStep
<1>5. ASSUME NEW i \in Items, Decide(i) PROVE IInv'
  BY <1>5, DecideStep
<1>6. CASE Die
  BY <1>6, DieStep
<1>7. CASE UNCHANGED vars
  <2>1. UNCHANGED <<roots, disk, tables, settled, crossed>> /\ UNCHANGED <<scanners, history, counters>>
    BY <1>7 DEF vars, history
  <2>2. Shape
    BY DEF IInv
  <2>3. Shape'
    BY <2>1, <2>2 DEF Shape, tables, scanners, history, counters
  <2>4. Later /\ \A o \in Libraries : Calmer(o)
    BY <2>1, <2>2, ShapeFacts DEF Later, Calmer, tables, history
  <2> QED BY <2>1, <2>3, <2>4, Quiet DEF scanners
<1> QED BY <1>1, <1>2, <1>3, <1>4, <1>5, <1>6, <1>7 DEF Next

LEMMA Inductive == Spec => []IInv
BY InitInv, StepInv, PTL DEF Spec

(* Every variable holds what the code can put there: an item is in the     *)
(* table exactly when its identity is, and files belong to such items.     *)
THEOREM WellTyped == Spec => []TypeOK
<1>1. IInv => TypeOK
  <2> SUFFICES ASSUME IInv PROVE TypeOK
    OBVIOUS
  <2>1. \A f \in Files : file[f].owner = NoItem \/ file[f].owner \in known
    BY NoRowIs DEF IInv, RowsKept, ARow
  <2> QED BY <2>1 DEF IInv, Shape, Welcomed, TypeOK
<1> QED BY <1>1, Inductive, PTL

(* A file written by a scan that nobody disturbed at it is described as it *)
(* is on disk, after any failures, deaths, retries and overlapping scans.  *)
(* The two ways out are named: a content as long as an earlier one, and a  *)
(* row that was read before another scan probed and written after it.      *)
THEOREM DescribedAsOnDisk == Spec => []ScanTruthful
<1>1. IInv => ScanTruthful
  <2> SUFFICES ASSUME IInv PROVE ScanTruthful
    OBVIOUS
  <2>1. ASSUME NEW f \in settled
        PROVE  /\ file[f].size = Size[disk[f]]
               /\ \/ file[f].container = disk[f] /\ file[f].streams = disk[f]
                  \/ Ambiguous(f)
                  \/ f \in crossed
    <3>1. f \in Files
      BY DEF IInv, Shape
    <3>2. f \in crossed \/ file[f].streams = file[f].container
      BY <3>1 DEF IInv, OneProbe
    <3> QED BY <2>1, <3>2 DEF IInv, Healed
  <2> QED BY <2>1 DEF IInv, OneProbe, ScanTruthful
<1> QED BY <1>1, Inductive, PTL

(* An item without a file lost it to an item of another library or root:   *)
(* the transaction of a file never leaves an item behind alone.            *)
THEOREM BareItemsWereRobbed == Spec => []BareItemWasRobbed
<1>1. IInv => BareItemWasRobbed
  <2> SUFFICES ASSUME IInv, NEW i \in known
               PROVE  \/ \E f \in Files : file[f].owner = i
                      \/ \E f \in Files :
                           /\ file[f].owner \notin {NoItem, i}
                           /\ \E root \in roots[i[1]] : root \in Above[f] /\ SourcePath(root, f) = i[2]
    BY DEF BareItemWasRobbed
  <2>1. PICK f \in Files : file[f] # NoRow /\ Reaches(i, f)
    BY DEF IInv, ItemsReach
  <2>2. file[f].owner \in Items
    BY <2>1 DEF IInv, RowsKept, ARow
  <2> QED BY <2>1, <2>2, NoSuchItem DEF Reaches
<1> QED BY <1>1, Inductive, PTL

----------------------------------------------------------------------------
(* The refinement. *)

LEMMA CommitIndexes ==
  ASSUME IInv, NEW l \in Libraries, Commit(l) PROVE Readers!Next
<1>1. Shape /\ pc[l] = "commit" /\ HandOf(l) /\ WriteOf(l)
  BY DEF IInv, ScansKept, Commit
<1>2. PICK f, i, W : f = cur[l].path /\ i = <<l, cur[l].source>> /\ W = Written(l)
  OBVIOUS
<1>3. f \in Files /\ i \in Items /\ W.owner = i /\ W.container \in Versions
  BY <1>1, <1>2, WrittenIsARow
<1>4. known' = known \cup {i} /\ identity' = Ensured(i) /\ file' = [file EXCEPT ![f] = W]
  BY <1>2 DEF Commit
<1>5. \A g \in Files : file'[g] = IF g = f THEN W ELSE file[g]
  BY <1>1, <1>3, <1>4 DEF Shape
<1>6. Readers!Welcome(i)
  BY <1>4 DEF Readers!Welcome, Ensured
<1>7. /\ [g \in Files |-> file[g].owner]' = [[g \in Files |-> file[g].owner] EXCEPT ![f] = i]
      /\ [g \in Files |-> file[g].container]' =
           [[g \in Files |-> file[g].container] EXCEPT ![f] = W.container]
      /\ [g \in Files |-> file[g].streams]' =
           [[g \in Files |-> file[g].streams] EXCEPT ![f] = W.streams]
  BY <1>3, <1>5
<1>8. CASE reading[l] # 0
  <2>1. W.streams = W.container
    BY <1>2, <1>8 DEF Written
  <2>2. Readers!Index(f, i, W.container)
    BY <1>6, <1>7, <2>1 DEF Readers!Index
  <2> QED BY <1>3, <2>2 DEF Readers!Next
<1>9. CASE reading[l] = 0
  <2>1. W.streams = file[f].streams
    BY <1>2, <1>9 DEF Written
  <2>2. file[f].owner # NoItem
    <3>1. file[f] # NoRow
      BY <1>1, <1>2, <1>9, WrittenIsARow
    <3> QED BY <1>3, <3>1, NoSuchItem DEF IInv, RowsKept, ARow
  <2>3. [g \in Files |-> file[g].streams]' = [g \in Files |-> file[g].streams]
    BY <1>5, <2>1
  <2>4. [g \in Files |-> file[g].owner][f] # Readers!NoItem
    BY <1>3, <2>2 DEF Readers!NoItem, NoItem
  <2>5. Readers!Revisit(f, i, W.container)
    BY <1>6, <1>7, <2>3, <2>4 DEF Readers!Revisit
  <2> QED BY <1>3, <2>5 DEF Readers!Next
<1> QED BY <1>8, <1>9

LEMMA TablesKept == ASSUME UNCHANGED tables PROVE UNCHANGED Readers!vars
BY DEF tables, Readers!vars

(* Scans implement the catalogue: whatever scans overlap, fail and die,    *)
(* readers see items appear with their identity and file, streams change   *)
(* with the container of the same probe, and no decision undone.           *)
THEOREM CatalogueImplemented == Spec => ImplementsCatalogue
<1>1. Init => Readers!Init
  <2> SUFFICES ASSUME Init PROVE Readers!Init
    OBVIOUS
  <2>1. \A f \in Files : file[f].owner = NoItem /\ file[f].container = 0 /\ file[f].streams = 0
    BY NoRowIs DEF Init
  <2> QED BY <2>1 DEF Init, Readers!Init, Readers!NoItem, Readers!NoReading, NoItem
<1>2. IInv /\ [Next]_vars => [Readers!Next]_Readers!vars
  <2> SUFFICES ASSUME IInv, [Next]_vars PROVE [Readers!Next]_Readers!vars
    OBVIOUS
  <2>1. ASSUME NEW l \in Libraries, Advance(l) PROVE [Readers!Next]_Readers!vars
    <3>1. CASE Commit(l)
      BY <3>1, CommitIndexes
    <3>2. CASE ~ Commit(l)
      <4>1. UNCHANGED tables
        BY <2>1, <3>2 DEF Advance, WalkFails, Walk, Lookup, Probe, UpsertItem, UpsertFile,
                          ReplaceStreams, Rollback, Finish, Fail
      <4> QED BY <4>1, TablesKept
    <3> QED BY <3>1, <3>2
  <2>2. ASSUME NEW i \in Items, Decide(i) PROVE [Readers!Next]_Readers!vars
    BY <2>2 DEF Decide, Readers!Decide, Readers!Next
  <2>3. ASSUME NEW l \in Libraries, StartScan(l) \/ \E R \in Roots[l] : Create(l, R)
        PROVE  [Readers!Next]_Readers!vars
    BY <2>3, TablesKept DEF StartScan, Create
  <2>4. ASSUME (\E f \in Files : Replace(f)) \/ Die PROVE [Readers!Next]_Readers!vars
    BY <2>4, TablesKept DEF Replace, Die
  <2>5. ASSUME UNCHANGED vars PROVE [Readers!Next]_Readers!vars
    BY <2>5, TablesKept DEF vars
  <2> QED BY <2>1, <2>2, <2>3, <2>4, <2>5 DEF Next
<1>3. Spec => []IInv
  BY Inductive
<1> QED BY <1>1, <1>2, <1>3, PTL DEF Spec, ImplementsCatalogue, Readers!Spec
=============================================================================
