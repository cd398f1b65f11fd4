-------------------------------- MODULE Scan --------------------------------
(***************************************************************************)
(* Library scans: the walk of a library's roots (internal/media/scan.go),  *)
(* what is stored of each file found (persistFile in                       *)
(* internal/service/scan.go, internal/repository/media.go), and the        *)
(* libraries they work for (internal/service/library.go).                  *)
(*                                                                         *)
(* The file's row is read before the probe and written after it, in a      *)
(* transaction whose statements are separate steps: other scans whose      *)
(* roots reach the same file, the owner of the disk and the death of the   *)
(* process come in between.  A path is unique over all libraries, so the   *)
(* transactions of two scans meet on the row of a file they share.         *)
(***************************************************************************)
EXTENDS Naturals, FiniteSets

CONSTANTS
  Libraries,
  Dirs,
  Files,       \* video files, numbered in the order of their paths
  Parent,      \* [Dirs \cup Files -> Dirs \cup {Top}]
  Top,         \* above every directory
  Skipped,     \* directories named like a sample, or with a leading dot
  Roots,       \* [Libraries -> the sets of roots it may be created with]
  Versions,    \* contents a file may have, in the order they are written
  Size,        \* [Versions -> bytes]
  Unlistable,  \* directories that may turn out not to be readable
  MaxScans,    \* bound: scans, of any library
  MaxReplaces, \* bound: files that appear or are replaced
  MaxDecisions,\* bound: items that are decided
  MaxFaults    \* bound: statements that fail, deaths of the process

ASSUME FilesNat == Files \subseteq Nat
ASSUME VersionsNat == Versions \subseteq Nat \ {0}
ASSUME SizeType == Size \in [Versions -> Nat]
ASSUME ParentType == Parent \in [Dirs \cup Files -> Dirs \cup {Top}]
ASSUME FilesInDirs == \A f \in Files : Parent[f] \in Dirs
ASSUME RootsType == Roots \in [Libraries -> SUBSET SUBSET Dirs]
ASSUME UnlistableDirs == Unlistable \subseteq Dirs
ASSUME BoundsNat ==
  /\ MaxScans \in Nat /\ MaxReplaces \in Nat /\ MaxDecisions \in Nat
  /\ MaxFaults \in Nat

\* A source path is a directory, or the file itself.
Sources == Dirs \cup Files
Items == Libraries \X Sources

VARIABLES
  roots,      \* library_paths; {} before the library is created
  disk,       \* [Files -> the version that is on disk, 0 if none]
  known,      \* media_items
  identity,   \* media_item_identity: "none", "pending" or "decided"
  file,       \* media_files and media_streams: a NoRow or a row
  pc,         \* where each library's scan is
  left,       \* the files it has found and not handled
  cur,        \* the one it is at
  existing,   \* the row it read for that one
  reading,    \* the version its probe saw, 0 if it was not probed
  calm,       \* history: files nobody else touched since they were found
  settled,    \* history: files whose last write was of a calm one
  crossed,    \* history: files last probed by one scan and then written by
              \* another that had read the row from before that probe
  scans, replaces, decisions, faults

tables == <<known, identity, file>>
scanners == <<pc, left, cur, existing, reading>>
history == <<calm, settled, crossed>>
counters == <<scans, replaces, decisions, faults>>
vars == <<roots, disk, tables, scanners, history, counters>>

NoItem == <<>>
NoRow == [owner |-> NoItem, size |-> 0, container |-> 0, streams |-> 0]
NoEntry == [path |-> 0, source |-> 0, size |-> 0]

\* Inside its transaction a scan has the pc of the statement it runs next.
InTx == {"item", "file", "streams", "commit"}
Done == {"completed", "failed"}

------------------------------------------------------------------------------
(* The walk. *)

\* The directories from a file or directory up to one of its ancestors.
Above[x \in Dirs \cup Files] ==
  IF Parent[x] = Top THEN {} ELSE {Parent[x]} \cup Above[Parent[x]]

\* The directories entered on the way from a root to a file, the root apart.
Between(root, f) == {d \in Above[f] : root \in Above[d]}

\* newDiscoveredFile: a file directly in a root stands alone, one below
\* belongs to the directory it is in.
SourcePath(root, f) == IF Parent[f] = root THEN f ELSE Parent[f]

\* scanRoot: nothing is found below a directory that is skipped by its name
\* or cannot be listed.  A root is never skipped by its name; one that cannot
\* be listed yields nothing, and no error.
FoundIn(root, unlisted) ==
  {f \in Files :
     /\ root \in Above[f]
     /\ disk[f] # 0
     /\ Between(root, f) \cap (Skipped \cup unlisted) = {}
     /\ root \notin unlisted}

\* A root nested in another finds a file a second time, under its own name
\* for the movie.
Found(l, unlisted) ==
  UNION {{[path |-> f, source |-> SourcePath(root, f), size |-> Size[disk[f]]] :
            f \in FoundIn(root, unlisted)} : root \in roots[l]}

\* The results are sorted by path; the two of one path in either order.
FirstIn(S) == {e \in S : \A o \in S : e.path <= o.path}

------------------------------------------------------------------------------
(* What is stored of a file. *)

NeedsProbe(row, size) == row = NoRow \/ row.size # size

\* Ensure: ON CONFLICT DO NOTHING.
Ensured_Reset(i) == [identity EXCEPT ![i] = "pending"]
Ensured_Later(i) == identity
Ensured(i) ==
  IF identity[i] = "none" THEN [identity EXCEPT ![i] = "pending"] ELSE identity

\* UpsertFile and ReplaceStreams.  A file that was not probed again keeps what
\* the scan read of its row and whatever streams are there.
Written(l) ==
  LET e == cur[l] IN
  [owner     |-> <<l, e.source>>,
   size      |-> e.size,
   container |-> IF reading[l] # 0 THEN reading[l] ELSE existing[l].container,
   streams   |-> IF reading[l] # 0 THEN reading[l] ELSE file[e.path].streams]

\* The transaction that holds a file's row, once it has upserted it.
Holds(l, f) == pc[l] \in {"streams", "commit"} /\ cur[l].path = f

------------------------------------------------------------------------------

Init ==
  /\ roots = [l \in Libraries |-> {}]
  /\ disk \in [Files -> Versions \cup {0}]
  /\ \A f \in Files : \A v \in Versions : disk[f] <= v
  /\ known = {}
  /\ identity = [i \in Items |-> "none"]
  /\ file = [f \in Files |-> NoRow]
  /\ pc = [l \in Libraries |-> "idle"]
  /\ left = [l \in Libraries |-> {}]
  /\ cur = [l \in Libraries |-> NoEntry]
  /\ existing = [l \in Libraries |-> NoRow]
  /\ reading = [l \in Libraries |-> 0]
  /\ calm = [l \in Libraries |-> {}]
  /\ settled = {}
  /\ crossed = {}
  /\ scans = 0 /\ replaces = 0 /\ decisions = 0 /\ faults = 0

Go(l, to) == pc' = [pc EXCEPT ![l] = to]

\* persistFile returns, and its variables with it.
Return(l) ==
  /\ Go(l, "next")
  /\ cur' = [cur EXCEPT ![l] = NoEntry]
  /\ existing' = [existing EXCEPT ![l] = NoRow]
  /\ reading' = [reading EXCEPT ![l] = 0]

\* LibraryService.Create: the library and its paths in one transaction, and
\* at least one path.
Create(l, R) ==
  /\ roots[l] = {}
  /\ R # {}
  /\ roots' = [roots EXCEPT ![l] = R]
  /\ UNCHANGED <<disk, tables, scanners, history, counters>>

\* Start; Jobs.tla has the row that keeps a second scan of the library out.
StartScan(l) ==
  /\ roots[l] # {}
  /\ pc[l] \in {"idle"} \cup Done
  /\ scans < MaxScans
  /\ scans' = scans + 1
  /\ Go(l, "walk")
  /\ UNCHANGED <<roots, disk, tables, left, cur, existing, reading, history, replaces, decisions, faults>>

\* A root that is not there, or is no directory, fails the scan.
WalkFails(l) ==
  /\ pc[l] = "walk"
  /\ Go(l, "failed")
  /\ UNCHANGED <<roots, disk, tables, left, cur, existing, reading, history, counters>>

Walk(l, unlisted) ==
  /\ pc[l] = "walk"
  /\ left' = [left EXCEPT ![l] = Found(l, unlisted)]
  /\ calm' = [calm EXCEPT ![l] = Files]
  /\ Go(l, "next")
  /\ UNCHANGED <<roots, disk, tables, cur, existing, reading, settled, crossed, counters>>

\* The loop takes the next file and reads its row.
Lookup(l) ==
  /\ pc[l] = "next"
  /\ \E e \in FirstIn(left[l]) :
       /\ cur' = [cur EXCEPT ![l] = e]
       /\ left' = [left EXCEPT ![l] = @ \ {e}]
       /\ existing' = [existing EXCEPT ![l] = file[e.path]]
       /\ Go(l, IF NeedsProbe(file[e.path], e.size) THEN "probe" ELSE "item")
  /\ reading' = [reading EXCEPT ![l] = 0]
  /\ UNCHANGED <<roots, disk, tables, history, counters>>

\* A file that will not probe is left as it is, and the scan goes on.
Probe(l) ==
  /\ pc[l] = "probe"
  /\ \/ /\ disk[cur[l].path] # 0
        /\ reading' = [reading EXCEPT ![l] = disk[cur[l].path]]
        /\ Go(l, "item")
        /\ UNCHANGED <<cur, existing>>
     \/ Return(l)
  /\ UNCHANGED <<roots, disk, tables, left, history, counters>>

\* UpsertItem and Ensure.
UpsertItem_OnPool(l) ==
  /\ pc[l] = "item"
  /\ Go(l, "file")
  /\ known' = known \cup {<<l, cur[l].source>>}
  /\ identity' = Ensured(<<l, cur[l].source>>)
  /\ UNCHANGED <<roots, disk, file, left, cur, existing, reading, history, counters>>
UpsertItem(l) ==
  /\ pc[l] = "item"
  /\ Go(l, "file")
  /\ UNCHANGED <<roots, disk, tables, left, cur, existing, reading, history, counters>>

\* UpsertFile waits for a transaction that has written the same path.
UpsertFile(l) ==
  /\ pc[l] = "file"
  /\ \A o \in Libraries \ {l} : ~Holds(o, cur[l].path)
  /\ Go(l, IF reading[l] # 0 THEN "streams" ELSE "commit")
  /\ UNCHANGED <<roots, disk, tables, left, cur, existing, reading, history, counters>>

ReplaceStreams_OnPool(l) ==
  /\ pc[l] = "streams"
  /\ Go(l, "commit")
  /\ file' = [file EXCEPT ![cur[l].path].streams =
                IF file[cur[l].path] = NoRow THEN 0 ELSE reading[l]]
  /\ UNCHANGED <<roots, disk, known, identity, left, cur, existing, reading, history, counters>>
ReplaceStreams(l) ==
  /\ pc[l] = "streams"
  /\ Go(l, "commit")
  /\ UNCHANGED <<roots, disk, tables, left, cur, existing, reading, history, counters>>

\* Everything the transaction wrote appears.
Commit(l) ==
  LET f == cur[l].path IN
  /\ pc[l] = "commit"
  /\ Return(l)
  /\ known' = known \cup {<<l, cur[l].source>>}
  /\ identity' = Ensured(<<l, cur[l].source>>)
  /\ file' = [file EXCEPT ![f] = Written(l)]
  /\ settled' = IF f \in calm[l] THEN settled \cup {f} ELSE settled \ {f}
  /\ crossed' = IF reading[l] # 0 THEN crossed \ {f}
                ELSE IF file[f] # existing[l] THEN crossed \cup {f} ELSE crossed
  /\ calm' = [o \in Libraries |->
                IF o # l /\ cur[o].path = f /\ pc[o] \in InTx \cup {"probe"}
                  THEN calm[o] \ {f} ELSE calm[o]]
  /\ UNCHANGED <<roots, disk, left, counters>>

\* InTx rolls back whatever it was that failed, and the scan goes on.
Rollback(l) ==
  /\ pc[l] \in InTx
  /\ faults < MaxFaults
  /\ faults' = faults + 1
  /\ Return(l)
  /\ UNCHANGED <<roots, disk, tables, left, history, scans, replaces, decisions>>

Finish(l) ==
  /\ pc[l] = "next"
  /\ left[l] = {}
  /\ Go(l, "completed")
  /\ calm' = [calm EXCEPT ![l] = {}]
  /\ UNCHANGED <<roots, disk, tables, left, cur, existing, reading, settled, crossed, counters>>

\* A statement outside the transactions fails the scan: UpdateProgress.
Fail(l) ==
  /\ pc[l] = "next"
  /\ faults < MaxFaults
  /\ faults' = faults + 1
  /\ Go(l, "failed")
  /\ left' = [left EXCEPT ![l] = {}]
  /\ calm' = [calm EXCEPT ![l] = {}]
  /\ UNCHANGED <<roots, disk, tables, cur, existing, reading, settled, crossed, scans, replaces, decisions>>

------------------------------------------------------------------------------
(* What is not the scan's. *)

\* A file appears, or is replaced by another.
Replace(f) ==
  /\ \E v \in Versions :
       /\ v > disk[f] /\ \A w \in Versions : w > disk[f] => v <= w
       /\ disk' = [disk EXCEPT ![f] = v]
  /\ calm' = [l \in Libraries |-> calm[l] \ {f}]
  /\ settled' = settled \ {f}
  /\ replaces < MaxReplaces
  /\ replaces' = replaces + 1
  /\ UNCHANGED <<roots, tables, scanners, crossed, scans, decisions, faults>>

\* A pass or a person decides what an item is; Identity.tla has the details.
Decide(i) ==
  /\ i \in known
  /\ identity[i] = "pending"
  /\ identity' = [identity EXCEPT ![i] = "decided"]
  /\ decisions < MaxDecisions
  /\ decisions' = decisions + 1
  /\ UNCHANGED <<roots, disk, known, file, scanners, history, scans, replaces, faults>>

\* The process dies with every scan in it; PostgreSQL rolls back.
Die ==
  /\ faults < MaxFaults
  /\ faults' = faults + 1
  /\ pc' = [l \in Libraries |-> IF pc[l] \in Done THEN pc[l] ELSE "idle"]
  /\ left' = [l \in Libraries |-> {}]
  /\ cur' = [l \in Libraries |-> NoEntry]
  /\ existing' = [l \in Libraries |-> NoRow]
  /\ reading' = [l \in Libraries |-> 0]
  /\ calm' = [l \in Libraries |-> {}]
  /\ UNCHANGED <<roots, disk, tables, settled, crossed, scans, replaces, decisions>>

Advance(l) ==
  \/ WalkFails(l)
  \/ \E unlisted \in SUBSET Unlistable : Walk(l, unlisted)
  \/ Lookup(l) \/ Probe(l)
  \/ UpsertItem(l) \/ UpsertFile(l) \/ ReplaceStreams(l) \/ Commit(l) \/ Rollback(l)
  \/ Finish(l) \/ Fail(l)

Next ==
  \/ \E l \in Libraries : StartScan(l) \/ Advance(l) \/ \E R \in Roots[l] : Create(l, R)
  \/ \E f \in Files : Replace(f)
  \/ \E i \in Items : Decide(i)
  \/ Die

Spec == Init /\ [][Next]_vars
------------------------------------------------------------------------------
(* Properties. *)

Entries == [path : Files \cup {0}, source : Sources \cup {0}, size : Nat]
Rows ==
  [owner : Items \cup {NoItem}, size : Nat,
   container : Versions \cup {0}, streams : Versions \cup {0}]

\* Every variable holds what the code can put there, an item in the table has a
\* place for identification to land, and the owner of a file is such an item.
TypeOK ==
  /\ \A i \in Items : i \in known <=> identity[i] # "none"
  /\ \A f \in Files : file[f].owner = NoItem \/ file[f].owner \in known
  /\ roots \in [Libraries -> SUBSET Dirs]
  /\ disk \in [Files -> Versions \cup {0}]
  /\ known \subseteq Items
  /\ identity \in [Items -> {"none", "pending", "decided"}]
  /\ file \in [Files -> Rows]
  /\ pc \in [Libraries -> {"idle", "walk", "next", "probe"} \cup InTx \cup Done]
  /\ left \in [Libraries -> SUBSET Entries]
  /\ cur \in [Libraries -> Entries]
  /\ existing \in [Libraries -> Rows]
  /\ reading \in [Libraries -> Versions \cup {0}]
  /\ calm \in [Libraries -> SUBSET Files]
  /\ settled \subseteq Files
  /\ \A n \in {scans, replaces, decisions, faults} : n \in Nat

\* What size cannot tell: an earlier content of the same length.
Ambiguous(f) == \E v \in Versions : v < disk[f] /\ Size[v] = Size[disk[f]]

\* The row and the streams of a file are of one probe, whatever died or failed
\* in between, unless two scans crossed at it.
\* A file written by a scan that nobody disturbed at it is described as it is
\* on disk, by its row and its streams alike, whatever was stored before: the
\* scan heals what replaced files, failures and deaths left behind.  What
\* escapes it is a content as long as an earlier one, and crossed scans.
ScanTruthful ==
  /\ \A f \in Files \ crossed : file[f].streams = file[f].container
  /\ \A f \in settled :
       /\ file[f].size = Size[disk[f]]
       /\ \/ file[f].container = disk[f] /\ file[f].streams = disk[f]
          \/ Ambiguous(f)
          \/ f \in crossed

\* An item without a file lost it to another item the file was found for:
\* no scan, however it ends, leaves an item behind that it found no file for.
BareItemWasRobbed ==
  \A i \in known :
    \/ \E f \in Files : file[f].owner = i
    \/ \E f \in Files :
         /\ file[f].owner \notin {NoItem, i}
         /\ \E root \in roots[i[1]] : root \in Above[f] /\ SourcePath(root, f) = i[2]

\* Readers see the media tables change as the catalogue does: an item with
\* its identity and file, streams with the container of the same probe.
Readers ==
  INSTANCE Catalogue WITH
    Readings <- Versions,
    owner <- [f \in Files |-> file[f].owner],
    container <- [f \in Files |-> file[f].container],
    streams <- [f \in Files |-> file[f].streams]
ImplementsCatalogue == Readers!Spec
=============================================================================
