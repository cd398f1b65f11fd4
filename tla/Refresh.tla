------------------------------ MODULE Refresh ------------------------------
(***************************************************************************)
(* The metadata refresh pass and the artwork it keeps                      *)
(* (internal/service/metadata.go and artwork.go, internal/repository/      *)
(* metadata.go and artwork.go, internal/media/artwork/artwork.go): image   *)
(* bytes in the cache directory, one row per item and image type in the    *)
(* database, and no transaction over the two.                              *)
(*                                                                         *)
(* A pass belongs to a library, and Jobs shows a library has one at a      *)
(* time; passes over different libraries share the process and the cache.  *)
(* How a field is written statement by statement is in Fields; here a      *)
(* fetch either leaves a metadata row or, when the provider knows no field *)
(* with a column, leaves none.  Bytes are identified by a version, 0 for   *)
(* none, and the tag of a row is the version it was computed from.         *)
(***************************************************************************)
EXTENDS Naturals, FiniteSets

CONSTANTS
  Items,        \* identified items, numbered in order of creation
  Libraries,
  Home,         \* Home[i]: the library item i is in
  HasId,        \* items with an id of the provider's
  Known,        \* items of which the provider knows a field with a column
  Types,        \* domain.ImageTypes, numbered in their order
  Versions,     \* versions of an image's bytes
  Ext,          \* Ext[v]: the extension version v is stored under
  Batch,        \* metadataBatch
  Full,         \* the values of all callers use
  MaxPasses, MaxFaults, MaxLocks, MaxOffers   \* bounds

ASSUME ItemsNat == Items \subseteq Nat
ASSUME ItemsFinite == IsFiniteSet(Items)
ASSUME TypesNat == Types \subseteq Nat
ASSUME VersionsPositive == Versions \subseteq Nat \ {0}
ASSUME HomeType == Home \in [Items -> Libraries]
ASSUME BatchNat == Batch \in Nat
ASSUME FullBoolean == Full \subseteq BOOLEAN
ASSUME Limits ==
  MaxPasses \in Nat /\ MaxFaults \in Nat /\ MaxLocks \in Nat /\ MaxOffers \in Nat

Exts == {Ext[v] : v \in Versions}
Images == Items \X Types
Paths == Images \X Exts
Path_PerType(im, v) == <<<<CHOOSE i \in Items : TRUE, im[2]>>, Ext[v]>>
Path(im, v) == <<im, Ext[v]>>

VARIABLES
  disk,      \* the version each final path holds
  temp,      \* passes whose temporary file is on disk
  litter,    \* temporary files that outlived their process
  row,       \* image rows: [kind, version]; path and tag follow the version
  fields,    \* items with a metadata row
  locked,    \* images whose provenance row is locked
  offer,     \* the version the provider has of each image
  step,      \* what each pass does next
  all,       \* the parameter of its request
  claims,    \* the rows it has still to check against the disk
  todo,      \* the items it has still to fetch
  known,     \* what it was told the provider has of the item it is on
  types,     \* the image types still to store of it
  at,        \* the item it is on, and the type
  image,     \* what that image is to be recorded as
  lost,      \* history: paths wiped since they were last renamed into place
  over,      \* history: images whose file was replaced under a row, until the row
             \* is written or cleared
  calm,      \* history: nothing went wrong or changed since it began
  passes, faults, locks, offers

cache == <<disk, temp, litter>>
tables == <<row, fields, locked>>
item == <<known, types, at, image>>
lists == <<claims, todo>>
pass == <<step, all, lists, item>>
history == <<lost, over, calm>>
counters == <<passes, faults, locks, offers>>
vars == <<cache, tables, offer, pass, history, counters>>

Absent == [kind |-> "absent", version |-> 0]
Negative == [kind |-> "negative", version |-> 0]
Stored(v) == [kind |-> "stored", version |-> v]

Init ==
  /\ disk = [p \in Paths |-> 0]
  /\ temp = {} /\ litter = FALSE
  /\ row = [im \in Images |-> Absent]
  /\ fields = {} /\ locked = {}
  /\ offer \in [Images -> Versions \cup {0}]
  /\ step = [l \in Libraries |-> "idle"]
  /\ all = [l \in Libraries |-> FALSE]
  /\ claims = [l \in Libraries |-> {}]
  /\ todo = [l \in Libraries |-> {}]
  /\ known = [l \in Libraries |-> [t \in Types |-> 0]]
  /\ types = [l \in Libraries |-> {}]
  /\ at \in {[l \in Libraries |-> im] : im \in Images}
  /\ image = [l \in Libraries |-> Absent]
  /\ lost = {}
  /\ over = {}
  /\ calm = [l \in Libraries |-> TRUE]
  /\ passes = 0 /\ faults = 0 /\ locks = 0 /\ offers = 0

------------------------------------------------------------------------------
(* The cache directory. *)

FileExists(im, v) == disk[Path(im, v)] # 0

\* Bytes a client is served for an image, 0 for none.
Served(im) == IF row[im].kind = "stored" THEN disk[Path(im, row[im].version)] ELSE 0

------------------------------------------------------------------------------
(* Before the items: sweep, reconcile, select. *)

StartRefresh(l, full) ==
  /\ step[l] = "idle"
  /\ passes < MaxPasses
  /\ passes' = passes + 1
  /\ step' = [step EXCEPT ![l] = "sweep"]
  /\ all' = [all EXCEPT ![l] = full]
  /\ calm' = [calm EXCEPT ![l] = locked = {}]
  /\ UNCHANGED <<cache, tables, offer, lists, item, lost, over, faults, locks, offers>>

\* Sweep walks the whole store, whatever library the pass is for; then the
\* rows that claim bytes are read.
Sweep(l) ==
  /\ step[l] = "sweep"
  /\ temp' = {} /\ litter' = FALSE
  /\ step' = [step EXCEPT ![l] = "reconcile"]
  /\ claims' = [claims EXCEPT ![l] =
                {im \in Images : Home[im[1]] = l /\ row[im].kind = "stored"}]
  /\ UNCHANGED <<disk, tables, offer, all, todo, item, history, counters>>

\* One row of them: cleared if its file has gone, locked or not.
Kept(im) == FileExists(im, row[im].version)

Reconcile(l, im) ==
  /\ step[l] = "reconcile"
  /\ im \in claims[l]
  /\ claims' = [claims EXCEPT ![l] = @ \ {im}]
  /\ row' = IF Kept(im) THEN row ELSE [row EXCEPT ![im] = Absent]
  /\ over' = IF Kept(im) THEN over ELSE over \ {im}
  /\ UNCHANGED <<cache, fields, locked, offer, step, all, todo, item, lost, calm, counters>>

\* An item is done when it has a metadata row and a row for every image type.
Done_FieldsOnly(i) == i \in fields
Done(i) == i \in fields /\ \A t \in Types : row[<<i, t>>].kind # "absent"

\* ItemsNeedingMetadata: the Batch oldest.
ItemsNeedingMetadata(l, onlyMissing) ==
  LET found == {i \in Items : Home[i] = l /\ ~(onlyMissing /\ Done(i))}
  IN  {i \in found : Cardinality({k \in found : k < i}) < Batch}

Select(l) ==
  /\ step[l] = "reconcile"
  /\ claims[l] = {}
  /\ todo' = [todo EXCEPT ![l] = ItemsNeedingMetadata(l, ~all[l])]
  /\ step' = [step EXCEPT ![l] = "items"]
  /\ UNCHANGED <<cache, tables, offer, all, claims, item, history, counters>>

------------------------------------------------------------------------------
(* One item. *)

NextItem(l, i) ==
  /\ step[l] = "items"
  /\ i \in todo[l]
  /\ \A k \in todo[l] : i <= k
  /\ todo' = [todo EXCEPT ![l] = @ \ {i}]

\* No id of this provider, or the provider could not be asked.
SkipItem(l, i) ==
  /\ NextItem(l, i)
  /\ \/ /\ i \notin HasId
        /\ UNCHANGED <<faults, calm>>
     \/ /\ i \in HasId
        /\ faults < MaxFaults
        /\ faults' = faults + 1
        /\ calm' = [calm EXCEPT ![l] = FALSE]
  /\ UNCHANGED <<cache, tables, offer, step, all, claims, item, lost, over,
                 passes, locks, offers>>

\* FetchMetadata and store.
FetchItem(l, i) ==
  /\ NextItem(l, i)
  /\ i \in HasId
  /\ fields' = IF i \in Known THEN fields \cup {i} ELSE fields
  /\ known' = [known EXCEPT ![l] = [t \in Types |-> offer[<<i, t>>]]]
  /\ at' = [at EXCEPT ![l] = <<i, @[2]>>]
  /\ types' = [types EXCEPT ![l] = Types]
  /\ step' = [step EXCEPT ![l] = "images"]
  /\ UNCHANGED <<cache, row, locked, offer, all, claims, image, history, counters>>

\* storeImages: a row of either kind is an answer already recorded.
Recorded(l, im) == row[im].kind # "absent" /\ ~all[l]

NextType(l, t) ==
  /\ step[l] = "images"
  /\ t \in types[l]
  /\ \A k \in types[l] : t <= k
  /\ types' = [types EXCEPT ![l] = @ \ {t}]
  /\ at' = [at EXCEPT ![l] = <<@[1], t>>]

SkipRecorded(l, t) ==
  /\ NextType(l, t)
  /\ Recorded(l, <<at[l][1], t>>)
  /\ UNCHANGED <<cache, tables, offer, step, all, lists, known, image, history, counters>>

\* The provider has none of this type.
NotOffered(l, t) ==
  /\ NextType(l, t)
  /\ ~Recorded(l, <<at[l][1], t>>)
  /\ known[l][t] = 0
  /\ image' = [image EXCEPT ![l] = Negative]
  /\ step' = [step EXCEPT ![l] = "claim"]
  /\ UNCHANGED <<cache, tables, offer, all, lists, known, history, counters>>

\* download: the body is open and its temporary file created.
OpenTemp(l, t) ==
  /\ NextType(l, t)
  /\ ~Recorded(l, <<at[l][1], t>>)
  /\ known[l][t] # 0
  /\ temp' = temp \cup {l}
  /\ image' = [image EXCEPT ![l] = Stored(known[l][t])]
  /\ step' = [step EXCEPT ![l] = "rename"]
  /\ UNCHANGED <<disk, litter, tables, offer, all, lists, known, history, counters>>

\* The bytes are written and flushed; Rename puts them in place, unless the
\* temporary file is gone.  Only then is there anything to record.
AfterRename_IgnoreError(l) == "claim"
AfterRename(l) == IF l \in temp THEN "claim" ELSE "images"

Rename(l) ==
  /\ step[l] = "rename"
  /\ LET p == Path(at[l], image[l].version) IN
       IF l \in temp
       THEN /\ disk' = [disk EXCEPT ![p] = image[l].version]
            /\ lost' = lost \ {p}
            /\ over' = IF row[at[l]].kind = "stored" THEN over \cup {at[l]} ELSE over
            /\ UNCHANGED calm
       ELSE /\ calm' = [calm EXCEPT ![l] = FALSE]
            /\ UNCHANGED <<disk, lost, over>>
  /\ temp' = temp \ {l}
  /\ step' = [step EXCEPT ![l] = AfterRename(l)]
  /\ UNCHANGED <<litter, tables, offer, all, lists, item, counters>>

\* The download or the write fails: the temporary file is removed, and nothing
\* recorded.
DownloadFails(l) ==
  /\ step[l] = "rename"
  /\ faults < MaxFaults
  /\ faults' = faults + 1
  /\ temp' = temp \ {l}
  /\ step' = [step EXCEPT ![l] = "images"]
  /\ calm' = [calm EXCEPT ![l] = FALSE]
  /\ UNCHANGED <<disk, litter, tables, offer, all, lists, item, lost, over,
                 passes, locks, offers>>

\* WriteImage, first statement: claimField.
Claimable(im) == im \notin locked

Claim(l) ==
  /\ step[l] = "claim"
  /\ step' = [step EXCEPT ![l] = IF Claimable(at[l]) THEN "row" ELSE "images"]
  /\ UNCHANGED <<cache, tables, offer, all, lists, item, history, counters>>

\* Second statement: the row.
WriteRow(l) ==
  /\ step[l] = "row"
  /\ row' = [row EXCEPT ![at[l]] = image[l]]
  /\ over' = over \ {at[l]}
  /\ step' = [step EXCEPT ![l] = "images"]
  /\ UNCHANGED <<cache, fields, locked, offer, all, lists, item, lost, calm, counters>>

ItemDone(l) ==
  /\ step[l] = "images"
  /\ types[l] = {}
  /\ step' = [step EXCEPT ![l] = "items"]
  /\ UNCHANGED <<cache, tables, offer, all, lists, item, history, counters>>

------------------------------------------------------------------------------
(* How a pass ends, and what else happens. *)

Complete(l) ==
  /\ step[l] = "items"
  /\ todo[l] = {}
  /\ step' = [step EXCEPT ![l] = "done"]
  /\ UNCHANGED <<cache, tables, offer, all, lists, item, history, counters>>

Return(l) ==
  /\ step[l] = "done"
  /\ step' = [step EXCEPT ![l] = "idle"]
  /\ UNCHANGED <<cache, tables, offer, all, lists, item, history, counters>>

\* The provider asks us to stop, or a statement fails: the pass is abandoned.
Abandon(l) ==
  /\ step[l] \in {"reconcile", "items", "images", "claim", "row"}
  /\ faults < MaxFaults
  /\ faults' = faults + 1
  /\ step' = [step EXCEPT ![l] = "idle"]
  /\ claims' = [claims EXCEPT ![l] = {}]
  /\ todo' = [todo EXCEPT ![l] = {}]
  /\ UNCHANGED <<cache, tables, offer, all, item, history, passes, locks, offers>>

\* The process dies, with every pass it was running.
Crash ==
  /\ faults < MaxFaults
  /\ faults' = faults + 1
  /\ step' = [l \in Libraries |-> "idle"]
  /\ claims' = [l \in Libraries |-> {}]
  /\ todo' = [l \in Libraries |-> {}]
  /\ litter' = (litter \/ temp # {})
  /\ temp' = {}
  /\ UNCHANGED <<disk, tables, offer, all, item, history, passes, locks, offers>>

\* Somebody empties the cache directory.
Wipe ==
  /\ faults < MaxFaults
  /\ faults' = faults + 1
  /\ disk' = [p \in Paths |-> 0]
  /\ temp' = {} /\ litter' = FALSE
  /\ lost' = Paths
  /\ calm' = [l \in Libraries |-> FALSE]
  /\ UNCHANGED <<tables, offer, pass, over, passes, locks, offers>>

\* SetLocked on an image field, by a request.
SetLocked(im, pinned) ==
  /\ locks < MaxLocks
  /\ locks' = locks + 1
  /\ locked' = IF pinned THEN locked \cup {im} ELSE locked \ {im}
  /\ calm' = [l \in Libraries |-> FALSE]
  /\ UNCHANGED <<cache, row, fields, offer, pass, lost, over, passes, faults, offers>>

\* The provider has another image, or none any more.
Offer(im, v) ==
  /\ offers < MaxOffers
  /\ offers' = offers + 1
  /\ offer' = [offer EXCEPT ![im] = v]
  /\ UNCHANGED <<cache, tables, pass, history, passes, faults, locks>>

------------------------------------------------------------------------------

Next ==
  \/ \E l \in Libraries, full \in Full : StartRefresh(l, full)
  \/ \E l \in Libraries : Sweep(l)
  \/ \E l \in Libraries, im \in Images : Reconcile(l, im)
  \/ \E l \in Libraries : Select(l)
  \/ \E l \in Libraries, i \in Items : SkipItem(l, i)
  \/ \E l \in Libraries, i \in Items : FetchItem(l, i)
  \/ \E l \in Libraries, t \in Types : SkipRecorded(l, t)
  \/ \E l \in Libraries, t \in Types : NotOffered(l, t)
  \/ \E l \in Libraries, t \in Types : OpenTemp(l, t)
  \/ \E l \in Libraries : Rename(l)
  \/ \E l \in Libraries : DownloadFails(l)
  \/ \E l \in Libraries : Claim(l)
  \/ \E l \in Libraries : WriteRow(l)
  \/ \E l \in Libraries : ItemDone(l)
  \/ \E l \in Libraries : Complete(l)
  \/ \E l \in Libraries : Return(l)
  \/ \E l \in Libraries : Abandon(l)
  \/ Crash
  \/ Wipe
  \/ \E im \in Images, pinned \in BOOLEAN : SetLocked(im, pinned)
  \/ \E im \in Images, v \in Versions \cup {0} : Offer(im, v)

Spec == Init /\ [][Next]_vars

------------------------------------------------------------------------------
(* Properties. *)

Rows == [kind : {"absent", "negative"}, version : {0}] \cup [kind : {"stored"}, version : Versions]

\* Every variable stays in its type.
TypeOK ==
  /\ disk \in [Paths -> Versions \cup {0}]
  /\ temp \in SUBSET Libraries /\ litter \in BOOLEAN
  /\ row \in [Images -> Rows]
  /\ fields \in SUBSET Items /\ locked \in SUBSET Images
  /\ offer \in [Images -> Versions \cup {0}]
  /\ step \in [Libraries -> {"idle", "sweep", "reconcile", "items", "images", "rename",
                              "claim", "row", "done"}]
  /\ all \in [Libraries -> BOOLEAN]
  /\ claims \in [Libraries -> SUBSET Images]
  /\ todo \in [Libraries -> SUBSET Items]
  /\ known \in [Libraries -> [Types -> Versions \cup {0}]]
  /\ types \in [Libraries -> SUBSET Types]
  /\ at \in [Libraries -> Images]
  /\ image \in [Libraries -> Rows]
  /\ lost \in SUBSET Paths
  /\ over \in SUBSET Images
  /\ calm \in [Libraries -> BOOLEAN]
  /\ passes \in Nat /\ faults \in Nat /\ locks \in Nat /\ offers \in Nat

\* A row never promises bytes that were not put on disk first: through crashes,
\* failed downloads and passes over other libraries, the file a row names is
\* there unless the cache was emptied after it was put there.
RowHasFile ==
  \A im \in Images :
    row[im].kind = "stored" /\ Path(im, row[im].version) \notin lost =>
      FileExists(im, row[im].version)

\* The tag of a row is the tag of the bytes served under it, in every state and
\* after every crash, except for an image whose file a full refresh replaced and
\* whose row it has not written: a row never goes stale in any other way.
TagTruthful == \A im \in Images \ over : Served(im) \in {0, row[im].version}

\* Only a full refresh puts other bytes in the place of those served for an
\* image, locked or not: an ordinary one takes the bytes of none away.
OnlyFullReplaces ==
  [][\A im \in Images :
       Served(im) # 0 /\ Served(im)' \notin {0, Served(im)} =>
         \E l \in Libraries : all[l] /\ at[l] = im /\ step[l] \in {"rename", "row"}]_vars

\* While an image is locked the bytes served for it do not change, other than
\* by the loss of the file.
LockedImageKept ==
  [][\A im \in locked \cap locked' : Served(im) # 0 => Served(im)' \in {0, Served(im)}]_vars

\* A pass that completes undisturbed over a library no larger than the batch
\* leaves in it, whatever the cache had lost before, the bytes of every image it
\* advertises and an answer for every image type of every item it has an id for;
\* and nothing to fetch of those of which the provider knows a field.
PassHeals ==
  \A l \in Libraries :
    /\ step[l] = "done" /\ calm[l]
    /\ Cardinality({i \in Items : Home[i] = l}) <= Batch
    => /\ \A im \in Images : Home[im[1]] = l =>
            /\ im[1] \in HasId => row[im].kind # "absent"
            /\ row[im].kind = "stored" => FileExists(im, row[im].version)
       /\ \A i \in HasId \cap Known :
            Home[i] = l => i \notin ItemsNeedingMetadata(l, TRUE)
=============================================================================
