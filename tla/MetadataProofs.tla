--------------------------- MODULE MetadataProofs ---------------------------
(***************************************************************************)
(* Proofs about Fields, for any fields, requests, values and bounds, and   *)
(* about Decide, for any titles, candidates, images and certifications.    *)
(***************************************************************************)
EXTENDS Fields, Decide, FiniteSetTheorems, SequenceTheorems, TLAPS

(***************************************************************************)
(* Fields                                                                  *)
(***************************************************************************)

\* An actor that is working has a field to work on.
HasField == \A a \in Actors : Working(a) => queue[a] # <<>>

LEMMA FieldIsManaged ==
  ASSUME TypeOK, HasField, NEW a \in Actors, Working(a)
  PROVE  Field(a) \in managed /\ Tail(queue[a]) \in Seq(managed)
BY DEF TypeOK, HasField, Field

\* Going from one field to the next keeps the types of step and queue.
LEMMA GoToType ==
  ASSUME TypeOK, HasField, NEW a \in Actors, NEW q \in Seq(managed), GoTo(a, q)
  PROVE  /\ queue' \in [Actors -> Seq(managed)]
         /\ step' \in [Actors -> {"idle", "unlock", "ensure", "claim", "write", "insert", "lock"}]
         /\ HasField' /\ mixed' \in SUBSET managed
<1>1. q # <<>> => Head(q) \in managed
  OBVIOUS
<1>2. mixed' \in SUBSET managed
  BY <1>1 DEF TypeOK, GoTo
<1>3. QED
  BY <1>2 DEF TypeOK, HasField, GoTo, Working, EntryStep, WriteStep

LEMMA AfterWriteType ==
  ASSUME TypeOK, HasField, NEW a \in Actors, Working(a), AfterWrite(a)
  PROVE  /\ queue' \in [Actors -> Seq(managed)]
         /\ step' \in [Actors -> {"idle", "unlock", "ensure", "claim", "write", "insert", "lock"}]
         /\ HasField' /\ mixed' \in SUBSET managed
<1>1. CASE a \in Users
  BY <1>1 DEF TypeOK, HasField, AfterWrite, Working
<1>2. CASE a \notin Users
  BY <1>2, FieldIsManaged, GoToType DEF AfterWrite
<1>3. QED
  BY <1>1, <1>2

\* TypeOK, and that an actor that is working has a field to work on.
TypeInv == TypeOK /\ HasField

LEMMA TypeInvHolds == Spec => []TypeInv
<1> USE Limits, RefreshIsNoUser, GenresIsNoScalar
<1>1. Init => TypeInv
  <2> SUFFICES ASSUME Init PROVE TypeInv
    OBVIOUS
  <2>1. HasField
    BY DEF Init, HasField, Working
  <2>2. asked \in [Actors -> [managed -> SUBSET Entries]]
    BY ValueType DEF Init
  <2>3. queue \in [Actors -> Seq(managed)]
    BY DEF Init
  <2>4. /\ row \in BOOLEAN
        /\ stored \in [managed -> SUBSET Entries]
        /\ source \in [managed -> {"none", "provider", "manual"}]
        /\ locked \in [managed -> BOOLEAN]
    BY DEF Init
  <2>5. /\ step \in [Actors -> {"idle", "unlock", "ensure", "claim", "write", "insert", "lock"}]
        /\ left \in [Actors -> SUBSET Entries]
    BY DEF Init
  <2>6. /\ wanted \in [managed -> SUBSET SUBSET Entries]
        /\ held \in [managed -> BOOLEAN] /\ open \in [managed -> BOOLEAN]
        /\ mixed \in SUBSET managed
        /\ passes \in Nat /\ requests \in Nat /\ aborts \in Nat
    BY DEF Init
  <2>7. QED
    BY <2>1, <2>2, <2>3, <2>4, <2>5, <2>6 DEF TypeInv, TypeOK
<1>2. TypeInv /\ [Next]_vars => TypeInv'
  <2> SUFFICES ASSUME TypeInv, [Next]_vars PROVE TypeInv'
    OBVIOUS
  <2> USE DEF TypeInv, counters, history, data
  <2>1. ASSUME NEW a \in Actors, Unlock(a) PROVE TypeInv'
    BY <2>1 DEF Unlock, Flagged, TypeOK, HasField, Working, WriteStep
  <2>2. ASSUME NEW a \in Actors, EnsureRow(a) PROVE TypeInv'
    BY <2>2 DEF EnsureRow, TypeOK, HasField, Working
  <2>3. ASSUME NEW a \in Actors, Claim(a) PROVE TypeInv'
    BY <2>3 DEF Claim, TypeOK, HasField, Working, SourceAfter, Label
  <2>4. ASSUME NEW a \in Actors, ClaimRefused(a) PROVE TypeInv'
    <3>1. Working(a) /\ AfterWrite(a)
      BY <2>4 DEF ClaimRefused, Working
    <3>2. QED
      BY <2>4, <3>1, AfterWriteType DEF ClaimRefused, TypeOK
  <2>5. ASSUME NEW a \in Actors, WriteScalar(a) PROVE TypeInv'
    <3>1. Working(a) /\ AfterWrite(a)
      BY <2>5 DEF WriteScalar, Working
    <3>2. asked[a][Field(a)] \in SUBSET Entries
      BY <3>1, FieldIsManaged DEF TypeOK
    <3>3. QED
      BY <2>5, <3>1, <3>2, AfterWriteType DEF WriteScalar, TypeOK
  <2>6. ASSUME NEW a \in Actors, ClearGenres(a) PROVE TypeInv'
    <3>1. Working(a) /\ asked[a][Genres] \in SUBSET Entries
      BY <2>6 DEF ClearGenres, Working, TypeOK, managed
    <3>2. CASE asked[a][Genres] = {}
      BY <2>6, <3>1, <3>2, AfterWriteType DEF ClearGenres, TypeOK
    <3>3. CASE asked[a][Genres] # {}
      BY <2>6, <3>1, <3>3 DEF ClearGenres, TypeOK, HasField, Working
    <3>4. QED
      BY <3>2, <3>3
  <2>7. ASSUME NEW a \in Actors, NEW g \in Entries, InsertGenre(a, g) PROVE TypeInv'
    <3>1. Working(a)
      BY <2>7 DEF InsertGenre, Working
    <3>2. stored' \in [managed -> SUBSET Entries] /\ left' \in [Actors -> SUBSET Entries]
      BY <2>7 DEF InsertGenre, TypeOK
    <3>3. CASE left[a] = {g}
      BY <2>7, <3>1, <3>2, <3>3, AfterWriteType DEF InsertGenre, TypeOK
    <3>4. CASE left[a] # {g}
      BY <2>7, <3>2, <3>4 DEF InsertGenre, TypeOK, HasField, Working
    <3>5. QED
      BY <3>3, <3>4
  <2>8. ASSUME NEW a \in Actors, LockField(a) PROVE TypeInv'
    <3>1. Working(a) /\ GoTo(a, Tail(queue[a]))
      BY <2>8 DEF LockField, Flagged, Working
    <3>2. asked[a][Field(a)] \in SUBSET Entries /\ Tail(queue[a]) \in Seq(managed)
      BY <3>1, FieldIsManaged DEF TypeOK
    <3>3. QED
      BY <2>8, <3>1, <3>2, GoToType DEF LockField, Flagged, TypeOK
  <2>9. ASSUME NEW F \in SUBSET managed, StartStore(F) PROVE TypeInv'
    <3>1. Visit[F] \in Seq(managed) /\ GoTo(Refresh, Visit[F]) /\ Refresh \in Actors
      BY <2>9, VisitType DEF StartStore, Actors
    <3>2. asked' \in [Actors -> [managed -> SUBSET Entries]]
      BY <2>9, ValueType DEF StartStore, TypeOK
    <3>3. open' \in [managed -> BOOLEAN] /\ passes' \in Nat
      BY <2>9 DEF StartStore, TypeOK
    <3>4. QED
      BY <2>9, <3>1, <3>2, <3>3, GoToType DEF StartStore, TypeOK
  <2>10. ASSUME NEW u \in Users, NEW F \in SUBSET managed, NEW C \in SUBSET F,
                StartSet(u, F, C)
         PROVE TypeInv'
    <3>1. Visit[F] \in Seq(managed) /\ GoTo(u, Visit[F]) /\ u \in Actors
      BY <2>10, VisitType DEF StartSet, Actors
    <3>2. asked' \in [Actors -> [managed -> SUBSET Entries]]
      <4>1. [f \in managed |-> IF f \in C THEN {} ELSE Value[u][f]]
              \in [managed -> SUBSET Entries]
        BY <3>1, ValueType
      <4>2. QED
        BY <2>10, <4>1 DEF StartSet, TypeOK
    <3>3. QED
      BY <2>10, <3>1, <3>2, GoToType DEF StartSet, TypeOK
  <2>11. ASSUME NEW u \in Users, NEW f \in managed, NEW pinned \in BOOLEAN,
                SetLocked(u, f, pinned)
         PROVE TypeInv'
    BY <2>11 DEF SetLocked, Flagged, TypeOK, HasField, Working
  <2>12. ASSUME NEW a \in Actors, Abort(a) PROVE TypeInv'
    <3>1. Field(a) \in managed
      BY <2>12, FieldIsManaged DEF Abort
    <3>2. mixed' \in SUBSET managed /\ held' \in [managed -> BOOLEAN]
      BY <2>12, <3>1 DEF Abort, TypeOK
    <3>3. QED
      BY <2>12, <3>2 DEF Abort, TypeOK, HasField, Working
  <2>13. CASE UNCHANGED vars
    BY <2>13 DEF vars, TypeOK, HasField, Working
  <2>14. QED
    BY <2>1, <2>2, <2>3, <2>4, <2>5, <2>6, <2>7, <2>8, <2>9, <2>10, <2>11, <2>12, <2>13
    DEF Next
<1>3. QED
  BY <1>1, <1>2, PTL DEF Spec

(***************************************************************************)
(* The type invariant: wherever an edit or a refresh is cut short, values, *)
(* locks and provenance keep their types.                                  *)
(***************************************************************************)
THEOREM TypeCorrect == Spec => []TypeOK
BY TypeInvHolds, PTL DEF TypeInv

------------------------------------------------------------------------------

(***************************************************************************)
(* While a completed edit stands its field is locked, whoever else writes: *)
(* every path that takes the lock off is somebody asking for it.           *)
(***************************************************************************)
THEOREM EditsAreLocked == Spec => []EditLeavesLock
<1>1. Init => EditLeavesLock
  BY DEF Init, EditLeavesLock
<1>2. TypeInv /\ EditLeavesLock /\ [Next]_vars => EditLeavesLock'
  <2> SUFFICES ASSUME TypeInv, EditLeavesLock, [Next]_vars PROVE EditLeavesLock'
    OBVIOUS
  <2> USE DEF TypeInv, TypeOK, EditLeavesLock
  <2>1. ASSUME NEW a \in Actors, Unlock(a) PROVE EditLeavesLock'
    BY <2>1 DEF Unlock, Flagged
  <2>2. ASSUME NEW a \in Actors, LockField(a) PROVE EditLeavesLock'
    BY <2>2 DEF LockField, Flagged
  <2>3. ASSUME NEW u \in Users, NEW f \in managed, NEW pinned \in BOOLEAN,
               SetLocked(u, f, pinned)
        PROVE EditLeavesLock'
    BY <2>3 DEF SetLocked, Flagged
  <2>4. ASSUME UNCHANGED <<locked, wanted>> PROVE EditLeavesLock'
    BY <2>4
  <2>5. QED
    BY <2>1, <2>2, <2>3, <2>4
    DEF Next, EnsureRow, Claim, ClaimRefused, WriteScalar, ClearGenres, InsertGenre,
        StartStore, StartSet, Abort, data, history, vars
<1>3. QED
  BY <1>1, <1>2, TypeInvHolds, PTL DEF Spec

------------------------------------------------------------------------------

\* A field that is unlocked has been so in this pass.
UnlockedIsOpen == \A f \in managed : ~locked[f] => open[f]

\* The refresh writes where it claimed.
LEMMA RefreshStep ==
  ASSUME TypeInv, UnlockedIsOpen, RefreshWritesOnlyOpen, NEW a \in Actors,
         \/ Unlock(a) \/ EnsureRow(a) \/ Claim(a) \/ ClaimRefused(a) \/ WriteScalar(a)
         \/ ClearGenres(a) \/ (\E g \in Entries : InsertGenre(a, g)) \/ LockField(a) \/ Abort(a)
  PROVE  RefreshWritesOnlyOpen'
<1> USE RefreshIsNoUser DEF TypeInv, TypeOK, RefreshWritesOnlyOpen, history, data, Actors
<1>1. CASE a # Refresh
  <2>1. step'[Refresh] = step[Refresh] /\ queue'[Refresh] = queue[Refresh]
    BY <1>1 DEF Unlock, Flagged, EnsureRow, Claim, ClaimRefused, WriteScalar, ClearGenres,
                InsertGenre, LockField, Abort, AfterWrite, GoTo
  <2>2. \A f \in managed : open[f] => open'[f]
    BY DEF Unlock, Flagged, EnsureRow, Claim, ClaimRefused, WriteScalar, ClearGenres,
           InsertGenre, LockField, Abort
  <2>3. step[Refresh] \in {"write", "insert"} => Field(Refresh) \in managed
    BY FieldIsManaged DEF Working
  <2>4. QED
    BY <2>1, <2>2, <2>3 DEF Field
<1>2. CASE a = Refresh
  <2>1. Working(a) /\ Field(a) \in managed
    BY FieldIsManaged DEF Unlock, Flagged, EnsureRow, Claim, ClaimRefused, WriteScalar, ClearGenres,
                          InsertGenre, LockField, Abort, Working
  <2>2. CASE Claim(a)
    BY <1>2, <2>1, <2>2 DEF Claim, Claimable, UnlockedIsOpen, Field
  <2>3. CASE Unlock(a) \/ EnsureRow(a) \/ LockField(a) \/ Abort(a)
    BY <1>2, <2>3 DEF Unlock, Flagged, EnsureRow, LockField, Abort, WriteStep, GoTo, EntryStep
  <2>4. CASE ClaimRefused(a) \/ WriteScalar(a)
    BY <1>2, <2>4 DEF ClaimRefused, WriteScalar, AfterWrite, GoTo, EntryStep, WriteStep
  <2>5. CASE ClearGenres(a)
    BY <1>2, <2>5 DEF ClearGenres, AfterWrite, GoTo, EntryStep, WriteStep, Field
  <2>6. ASSUME NEW g \in Entries, InsertGenre(a, g) PROVE RefreshWritesOnlyOpen'
    BY <1>2, <2>6 DEF InsertGenre, AfterWrite, GoTo, EntryStep, WriteStep, Field
  <2>7. QED
    BY <2>2, <2>3, <2>4, <2>5, <2>6
<1>3. QED
  BY <1>1, <1>2

(***************************************************************************)
(* A refresh writes only fields that were unlocked at some time in its     *)
(* pass, whatever edits, locks and failures run beside it: claimField is   *)
(* what gives it this, and all it gives.                                   *)
(***************************************************************************)
THEOREM RefreshRespectsStandingLocks == Spec => []RefreshWritesOnlyOpen
<1> DEFINE IInv == UnlockedIsOpen /\ RefreshWritesOnlyOpen
<1>1. Init => IInv
  BY DEF Init, UnlockedIsOpen, RefreshWritesOnlyOpen, Actors
<1>2. TypeInv /\ IInv /\ [Next]_vars => IInv'
  <2> SUFFICES ASSUME TypeInv, IInv, [Next]_vars PROVE IInv'
    OBVIOUS
  <2>1. UnlockedIsOpen'
    <3> USE DEF TypeInv, TypeOK, UnlockedIsOpen, history, data
    <3>1. ASSUME NEW a \in Actors, Unlock(a) PROVE UnlockedIsOpen'
      BY <3>1 DEF Unlock, Flagged
    <3>2. ASSUME NEW a \in Actors, LockField(a) PROVE UnlockedIsOpen'
      BY <3>2 DEF LockField, Flagged
    <3>3. ASSUME NEW F \in SUBSET managed, StartStore(F) PROVE UnlockedIsOpen'
      BY <3>3 DEF StartStore
    <3>4. ASSUME NEW u \in Users, NEW f \in managed, NEW pinned \in BOOLEAN,
                 SetLocked(u, f, pinned)
          PROVE UnlockedIsOpen'
      BY <3>4 DEF SetLocked, Flagged
    <3>5. ASSUME UNCHANGED <<locked, open>> PROVE UnlockedIsOpen'
      BY <3>5
    <3>6. QED
      BY <3>1, <3>2, <3>3, <3>4, <3>5
      DEF Next, EnsureRow, Claim, ClaimRefused, WriteScalar, ClearGenres, InsertGenre,
          StartSet, Abort, vars
  <2>2. RefreshWritesOnlyOpen'
    <3> USE RefreshIsNoUser DEF TypeInv, TypeOK, Actors, history, data
    <3>1. ASSUME NEW F \in SUBSET managed, StartStore(F) PROVE RefreshWritesOnlyOpen'
      BY <3>1 DEF StartStore, GoTo, EntryStep, WriteStep, RefreshWritesOnlyOpen
    <3>2. ASSUME NEW u \in Users, NEW F \in SUBSET managed, NEW C \in SUBSET F,
                 StartSet(u, F, C)
          PROVE RefreshWritesOnlyOpen'
      BY <3>2 DEF StartSet, GoTo, RefreshWritesOnlyOpen, Field
    <3>3. ASSUME NEW u \in Users, NEW f \in managed, NEW pinned \in BOOLEAN,
                 SetLocked(u, f, pinned)
          PROVE RefreshWritesOnlyOpen'
      <4>1. \A k \in managed : open[k] => open'[k]
        BY <3>3 DEF SetLocked, Flagged
      <4>2. step[Refresh] \in {"write", "insert"} => Field(Refresh) \in managed
        BY FieldIsManaged DEF Working
      <4>3. QED
        BY <3>3, <4>1, <4>2 DEF SetLocked, Flagged, RefreshWritesOnlyOpen, Field
    <3>4. CASE UNCHANGED vars
      BY <3>4 DEF vars, RefreshWritesOnlyOpen, Field
    <3>5. QED
      BY <3>1, <3>2, <3>3, <3>4, RefreshStep DEF Next
  <2>3. QED
    BY <2>1, <2>2
<1>3. QED
  BY <1>1, <1>2, TypeInvHolds, PTL DEF Spec

------------------------------------------------------------------------------

\* Only a hand edit takes locks off and puts them on.
OnlyEditsLock == \A a \in Actors : step[a] \in {"unlock", "lock"} => a \in Users

LEMMA OnlyEditsLockHolds == Spec => []OnlyEditsLock
<1>1. Init => OnlyEditsLock
  BY DEF Init, OnlyEditsLock
<1>2. TypeInv /\ OnlyEditsLock /\ [Next]_vars => OnlyEditsLock'
  <2> SUFFICES ASSUME TypeInv, OnlyEditsLock, [Next]_vars PROVE OnlyEditsLock'
    OBVIOUS
  <2>1. ASSUME NEW a \in Actors,
               \/ Unlock(a) \/ EnsureRow(a) \/ Claim(a) \/ ClaimRefused(a) \/ WriteScalar(a)
               \/ ClearGenres(a) \/ (\E g \in Entries : InsertGenre(a, g))
               \/ LockField(a) \/ Abort(a)
        PROVE OnlyEditsLock'
    BY <2>1 DEF Unlock, Flagged, EnsureRow, Claim, ClaimRefused, WriteScalar, ClearGenres,
                InsertGenre, LockField, Abort, TypeInv, TypeOK, OnlyEditsLock, Actors,
                EntryStep, WriteStep, GoTo, AfterWrite
  <2>2. ASSUME NEW F \in SUBSET managed, StartStore(F) PROVE OnlyEditsLock'
    BY <2>2, RefreshIsNoUser DEF StartStore, TypeInv, TypeOK, OnlyEditsLock, Actors,
                EntryStep, WriteStep, GoTo, AfterWrite
  <2>3. ASSUME NEW u \in Users, NEW F \in SUBSET managed, NEW C \in SUBSET F,
               StartSet(u, F, C)
        PROVE OnlyEditsLock'
    BY <2>3 DEF StartSet, TypeInv, TypeOK, OnlyEditsLock, Actors,
                EntryStep, WriteStep, GoTo, AfterWrite
  <2>4. ASSUME NEW u \in Users, NEW f \in managed, NEW pinned \in BOOLEAN,
               SetLocked(u, f, pinned)
        PROVE OnlyEditsLock'
    BY <2>4 DEF SetLocked, Flagged, OnlyEditsLock
  <2>5. CASE UNCHANGED vars
    BY <2>5 DEF vars, OnlyEditsLock
  <2>6. QED
    BY <2>1, <2>2, <2>3, <2>4, <2>5 DEF Next
<1>3. QED
  BY <1>1, <1>2, TypeInvHolds, PTL DEF Spec

\* A field whose lock is missing has an edit past its unlock, on its way to
\* putting it back.
LockIsComing ==
  \A f \in managed : held[f] =>
    locked[f] \/ \E u \in Users : Working(u) /\ step[u] # "unlock" /\ Field(u) = f

\* Only the end of an edit moves a request on to another field, and that is
\* where it has locked the one it leaves.
LEMMA EditStaysUntilLocked ==
  ASSUME TypeInv, NEW a \in Actors, AfterWrite(a), NEW u \in Users, Working(u)
  PROVE  /\ Working(u)' /\ Field(u)' = Field(u)
         /\ step[u] # "unlock" => step'[u] # "unlock"
BY DEF TypeInv, TypeOK, AfterWrite, GoTo, Working, Field, Actors

(***************************************************************************)
(* A field somebody locked is locked again once its edits are through,     *)
(* however edits, refreshes and lock requests interleave: Set's unlock     *)
(* leaks only where a failing statement cuts an edit of that field short.  *)
(***************************************************************************)
THEOREM LocksComeBack == Spec => []LockHolds
<1>1. Init => LockIsComing
  BY DEF Init, LockIsComing
<1>2. TypeInv /\ OnlyEditsLock /\ LockIsComing /\ [Next]_vars => LockIsComing'
  <2> SUFFICES ASSUME TypeInv, OnlyEditsLock, LockIsComing, [Next]_vars PROVE LockIsComing'
    OBVIOUS
  <2> USE DEF TypeInv, TypeOK, LockIsComing, Actors, history, data
  <2>1. ASSUME NEW a \in Actors, Unlock(a) PROVE LockIsComing'
    <3>1. CASE a \in Users
      BY <2>1, <3>1 DEF Unlock, Flagged, Working, Field, WriteStep
    <3>2. CASE a \notin Users
      BY <2>1, <3>2 DEF Unlock, Flagged, OnlyEditsLock
    <3>3. QED
      BY <3>1, <3>2
  <2>2. ASSUME NEW a \in Actors, EnsureRow(a) PROVE LockIsComing'
    BY <2>2 DEF EnsureRow, Working, Field
  <2>3. ASSUME NEW a \in Actors, Claim(a) PROVE LockIsComing'
    BY <2>3 DEF Claim, Working, Field
  <2>4. ASSUME NEW a \in Actors, ClaimRefused(a) \/ WriteScalar(a) PROVE LockIsComing'
    BY <2>4, EditStaysUntilLocked DEF ClaimRefused, WriteScalar
  <2>5. ASSUME NEW a \in Actors, ClearGenres(a) PROVE LockIsComing'
    <3>1. CASE asked[a][Genres] = {}
      BY <2>5, <3>1, EditStaysUntilLocked DEF ClearGenres
    <3>2. CASE asked[a][Genres] # {}
      BY <2>5, <3>2 DEF ClearGenres, Working, Field
    <3>3. QED
      BY <3>1, <3>2
  <2>6. ASSUME NEW a \in Actors, NEW g \in Entries, InsertGenre(a, g) PROVE LockIsComing'
    <3>1. CASE left[a] = {g}
      BY <2>6, <3>1, EditStaysUntilLocked DEF InsertGenre
    <3>2. CASE left[a] # {g}
      BY <2>6, <3>2 DEF InsertGenre, Working, Field
    <3>3. QED
      BY <3>1, <3>2
  <2>7. ASSUME NEW a \in Actors, LockField(a) PROVE LockIsComing'
    BY <2>7 DEF LockField, Flagged, GoTo, Working, Field
  <2>8. ASSUME NEW F \in SUBSET managed, StartStore(F) PROVE LockIsComing'
    BY <2>8, RefreshIsNoUser DEF StartStore, GoTo, Working, Field
  <2>9. ASSUME NEW u \in Users, NEW F \in SUBSET managed, NEW C \in SUBSET F,
               StartSet(u, F, C)
        PROVE LockIsComing'
    <3>1. locked' = locked /\ held' = held /\ step[u] = "idle"
      BY <2>9 DEF StartSet
    <3>2. \A v \in Users :
            Working(v) => Working(v)' /\ Field(v)' = Field(v) /\ step'[v] = step[v]
      BY <2>9, <3>1 DEF StartSet, GoTo, Working, Field
    <3>3. QED
      BY <3>1, <3>2
  <2>10. ASSUME NEW u \in Users, NEW f \in managed, NEW pinned \in BOOLEAN,
                SetLocked(u, f, pinned)
         PROVE LockIsComing'
    BY <2>10 DEF SetLocked, Flagged, Working, Field
  <2>11. ASSUME NEW a \in Actors, Abort(a) PROVE LockIsComing'
    <3>1. /\ locked' = locked /\ Working(a)
          /\ \A u \in Users \ {a} :
               Working(u)' = Working(u) /\ Field(u)' = Field(u) /\ step'[u] = step[u]
      BY <2>11 DEF Abort, Working, Field
    <3>2. CASE a \in Users /\ step[a] # "unlock"
      BY <2>11, <3>1, <3>2 DEF Abort
    <3>3. CASE a \notin Users \/ step[a] = "unlock"
      BY <2>11, <3>1, <3>3 DEF Abort
    <3>4. QED
      BY <3>2, <3>3
  <2>12. CASE UNCHANGED vars
    BY <2>12 DEF vars, Working, Field
  <2>13. QED
    BY <2>1, <2>2, <2>3, <2>4, <2>5, <2>6, <2>7, <2>8, <2>9, <2>10, <2>11, <2>12 DEF Next
<1>3. LockIsComing => LockHolds
  BY DEF LockIsComing, LockHolds, Quiet, Actors
<1>4. QED
  BY <1>1, <1>2, <1>3, TypeInvHolds, OnlyEditsLockHolds, PTL DEF Spec

------------------------------------------------------------------------------

\* Only in the genre list does anybody insert.
InsertsGenres == \A a \in Actors : step[a] = "insert" => Field(a) = Genres

LEMMA InsertsGenresHolds == Spec => []InsertsGenres
<1>1. Init => InsertsGenres
  BY DEF Init, InsertsGenres
<1>2. TypeInv /\ InsertsGenres /\ [Next]_vars => InsertsGenres'
  <2> SUFFICES ASSUME TypeInv, InsertsGenres, [Next]_vars PROVE InsertsGenres'
    OBVIOUS
  <2> USE DEF TypeInv, TypeOK, InsertsGenres
  <2>1. ASSUME NEW a \in Actors,
               \/ Unlock(a) \/ EnsureRow(a) \/ Claim(a) \/ LockField(a) \/ Abort(a)
        PROVE InsertsGenres'
    BY <2>1 DEF Unlock, Flagged, EnsureRow, Claim, LockField, Abort, EntryStep, WriteStep, GoTo, Field
  <2>2. ASSUME NEW a \in Actors, AfterWrite(a) PROVE InsertsGenres'
    BY <2>2 DEF AfterWrite, EntryStep, WriteStep, GoTo, Field
  <2>3. ASSUME NEW a \in Actors, ClearGenres(a) PROVE InsertsGenres'
    BY <2>2, <2>3 DEF ClearGenres, Field
  <2>4. ASSUME NEW a \in Actors, NEW g \in Entries, InsertGenre(a, g) PROVE InsertsGenres'
    BY <2>2, <2>4 DEF InsertGenre, Field
  <2>5. ASSUME NEW F \in SUBSET managed, StartStore(F) PROVE InsertsGenres'
    BY <2>5 DEF StartStore, GoTo, EntryStep, WriteStep, Field
  <2>6. ASSUME NEW u \in Users, NEW F \in SUBSET managed, NEW C \in SUBSET F,
               StartSet(u, F, C)
        PROVE InsertsGenres'
    BY <2>6 DEF StartSet, GoTo, EntryStep, WriteStep, Field
  <2>7. ASSUME UNCHANGED <<step, queue>> PROVE InsertsGenres'
    BY <2>7 DEF Field
  <2>8. QED
    BY <2>1, <2>2, <2>3, <2>4, <2>5, <2>6, <2>7
    DEF Next, ClaimRefused, WriteScalar, SetLocked, Flagged, vars
<1>3. QED
  BY <1>1, <1>2, TypeInvHolds, PTL DEF Spec

\* Outside mixed, one writer per field.
Apart ==
  \A a, b \in Actors :
    Working(a) /\ Working(b) /\ Field(a) = Field(b) /\ Field(a) \notin mixed => a = b

\* Where a writer alone is on its field: past its claim the field is unlocked,
\* what it has stored and what it has left make what it was asked for, and it
\* locks the field holding just that.
MidField(a) ==
  LET f == Field(a) IN
  /\ a \in Users /\ step[a] # "unlock" => ~locked[f]
  /\ step[a] \in {"write", "insert"} => ~locked[f]
  /\ step[a] = "insert" =>
       left[a] # {} /\ stored[f] \cup left[a] = asked[a][f]
  /\ step[a] = "lock" => stored[f] = asked[a][f]

\* The inductive strengthening of EditSurvives.
EditInv ==
  /\ EditSurvives
  /\ Apart
  /\ \A a \in Actors : Working(a) /\ Field(a) \notin mixed => MidField(a)

\* In this step only a moves, and only in field f, which counts as mixed if
\* anybody else is in it.
OnlyIn(a, f) ==
  /\ \A b \in Actors \ {a} :
       /\ step'[b] = step[b] /\ queue'[b] = queue[b]
       /\ left'[b] = left[b] /\ asked'[b] = asked[b]
  /\ \A k \in managed \ {f} : stored'[k] = stored[k] /\ locked'[k] = locked[k]
  /\ mixed \subseteq mixed' \cup {f}
  /\ Crowded(a, f) => f \in mixed'

\* Nor does a move into a field another is in without its counting as mixed.
Enters(a) ==
  Working(a)' /\ Crowded(a, Field(a)') => Field(a)' \in mixed'

\* Such a step keeps the invariant if it does for a itself.
LEMMA StepKeepsEditInv ==
  ASSUME TypeInv, EditInv, NEW a \in Actors, NEW f \in managed, OnlyIn(a, f), Enters(a),
         Working(a)' /\ Field(a)' \notin mixed' => MidField(a)',
         EditSurvives'
  PROVE  EditInv'
<1>1. \A b \in Actors \ {a} : (Working(b)' <=> Working(b)) /\ Field(b)' = Field(b)
  BY DEF OnlyIn, Working, Field
<1>2. \A b \in Actors \ {a} :
        Working(b) /\ Field(b) \notin mixed' => Field(b) # f /\ Field(b) \notin mixed
  BY DEF OnlyIn, Crowded
<1>3. ASSUME NEW b \in Actors \ {a}, Working(b)', Field(b)' \notin mixed'
      PROVE  MidField(b)'
  <2>1. Working(b) /\ Field(b) # f /\ Field(b) \notin mixed /\ Field(b)' = Field(b)
    BY <1>1, <1>2, <1>3
  <2>2. MidField(b) /\ Field(b) \in managed
    BY <2>1, FieldIsManaged DEF EditInv, TypeInv
  <2>3. /\ step'[b] = step[b] /\ left'[b] = left[b] /\ asked'[b] = asked[b]
        /\ stored'[Field(b)] = stored[Field(b)] /\ locked'[Field(b)] = locked[Field(b)]
    BY <2>1, <2>2 DEF OnlyIn
  <2>4. QED
    BY <2>1, <2>2, <2>3 DEF MidField
<1>4. Apart'
  <2> SUFFICES ASSUME NEW b \in Actors, NEW c \in Actors, Working(b)', Working(c)',
                      Field(b)' = Field(c)', Field(b)' \notin mixed'
               PROVE  b = c
    BY DEF Apart
  <2>1. CASE b # a /\ c # a
    BY <1>1, <1>2, <2>1 DEF EditInv, Apart
  <2>2. CASE b = a \/ c = a
    BY <1>1, <2>2 DEF Enters, Crowded
  <2>3. QED
    BY <2>1, <2>2
<1>5. QED
  BY <1>3, <1>4 DEF EditInv

\* Entering a field, or leaving the last, puts nobody part-way through one.
LEMMA GoToEnters ==
  ASSUME TypeInv, NEW a \in Actors, NEW q \in Seq(managed), GoTo(a, q)
  PROVE  /\ Enters(a) /\ (Working(a)' => MidField(a)')
         /\ mixed \subseteq mixed'
         /\ \A b \in Actors \ {a} : step'[b] = step[b] /\ queue'[b] = queue[b]
<1>1. queue'[a] = q /\ step'[a] = IF q = <<>> THEN "idle" ELSE EntryStep(a, Head(q))
  BY DEF GoTo, TypeInv, TypeOK
<1>2. Working(a)' => q # <<>> /\ Field(a)' = Head(q)
  BY <1>1 DEF Working, Field
<1>3. Enters(a)
  BY <1>2 DEF Enters, GoTo
<1>4. Working(a)' => MidField(a)'
  BY <1>1, <1>2, RefreshIsNoUser DEF MidField, EntryStep, WriteStep
<1>5. QED
  BY <1>3, <1>4 DEF GoTo, TypeInv, TypeOK

\* A write that is through, or was refused a refresh, leaves an edit about to
\* lock what the field now holds, or a refresh on its next field.
LEMMA AfterWriteKeepsEditInv ==
  ASSUME TypeInv, EditInv, NEW a \in Actors, Working(a), AfterWrite(a),
         \A k \in managed \ {Field(a)} : stored'[k] = stored[k],
         UNCHANGED <<locked, asked>>,
         \A b \in Actors \ {a} : left'[b] = left[b],
         Field(a) \notin mixed /\ a \in Users =>
           ~locked[Field(a)] /\ stored'[Field(a)] = asked[a][Field(a)],
         EditSurvives'
  PROVE  EditInv'
<1>1. Field(a) \in managed /\ Tail(queue[a]) \in Seq(managed)
  BY FieldIsManaged DEF TypeInv
<1>2. Crowded(a, Field(a)) => Field(a) \in mixed
  BY DEF EditInv, Apart, Crowded
<1>3. CASE a \in Users
  <2>1. /\ step' = [step EXCEPT ![a] = "lock"] /\ queue' = queue /\ mixed' = mixed
        /\ Field(a)' = Field(a)
    BY <1>3 DEF AfterWrite, Field
  <2>2. OnlyIn(a, Field(a))
    BY <1>2, <2>1 DEF OnlyIn, TypeInv, TypeOK
  <2>3. Enters(a)
    BY <1>2, <2>1 DEF Enters
  <2>4. Field(a)' \notin mixed' => MidField(a)'
    BY <1>3, <2>1 DEF MidField, TypeInv, TypeOK
  <2>5. QED
    BY <1>1, <2>2, <2>3, <2>4, StepKeepsEditInv
<1>4. CASE a \notin Users
  <2>1. GoTo(a, Tail(queue[a]))
    BY <1>4 DEF AfterWrite
  <2>2. /\ Enters(a) /\ (Working(a)' => MidField(a)') /\ mixed \subseteq mixed'
        /\ \A b \in Actors \ {a} : step'[b] = step[b] /\ queue'[b] = queue[b]
    BY <1>1, <2>1, GoToEnters
  <2>3. OnlyIn(a, Field(a))
    BY <1>2, <2>2 DEF OnlyIn
  <2>4. QED
    BY <1>1, <2>2, <2>3, StepKeepsEditInv
<1>5. QED
  BY <1>3, <1>4

\* Being through with a write forgets no overlap.
LEMMA MixedGrows ==
  ASSUME NEW a \in Actors, AfterWrite(a)
  PROVE  mixed \subseteq mixed'
BY DEF AfterWrite, GoTo

\* An actor that was idle disturbs nobody by starting.
LEMMA IdleStepKeepsEditInv ==
  ASSUME TypeInv, EditInv, NEW a \in Actors, step[a] = "idle", Enters(a),
         Working(a)' => MidField(a)', mixed \subseteq mixed',
         UNCHANGED <<stored, locked, left>>,
         \A b \in Actors \ {a} :
           step'[b] = step[b] /\ queue'[b] = queue[b] /\ asked'[b] = asked[b],
         EditSurvives'
  PROVE  EditInv'
<1>1. \A b \in Actors \ {a} : (Working(b)' <=> Working(b)) /\ Field(b)' = Field(b)
  BY DEF Working, Field
<1>2. ASSUME NEW b \in Actors \ {a}, Working(b)', Field(b)' \notin mixed'
      PROVE  MidField(b)'
  <2>1. MidField(b) /\ Field(b)' = Field(b) /\ step'[b] = step[b] /\ asked'[b] = asked[b]
    BY <1>1, <1>2 DEF EditInv
  <2>2. QED
    BY <2>1 DEF MidField
<1>3. Apart'
  BY <1>1 DEF EditInv, Apart, Enters, Crowded
<1>4. QED
  BY <1>2, <1>3 DEF EditInv

\* One step of proof per action: what it does to its own field, and that it is
\* the only one there or the field counts as mixed.
LEMMA EditInvHolds == Spec => []EditInv
<1>1. Init => EditInv
  BY DEF Init, EditInv, EditSurvives, Apart, Working
<1>2. TypeInv /\ EditLeavesLock /\ InsertsGenres /\ EditInv /\ [Next]_vars => EditInv'
  <2> SUFFICES ASSUME TypeInv, EditLeavesLock, InsertsGenres, EditInv, [Next]_vars
               PROVE  EditInv'
    OBVIOUS
  <2>0. ASSUME NEW a \in Actors, Working(a)
        PROVE  /\ Field(a) \in managed /\ Tail(queue[a]) \in Seq(managed)
               /\ Crowded(a, Field(a)) => Field(a) \in mixed
               /\ Field(a) \notin mixed => MidField(a)
    BY <2>0, FieldIsManaged DEF TypeInv, EditInv, Apart, Crowded
  <2>1. ASSUME NEW a \in Actors, Unlock(a) PROVE EditInv'
    <3>1. /\ Working(a) /\ queue' = queue /\ mixed' = mixed /\ Field(a)' = Field(a)
          /\ step' = [step EXCEPT ![a] = WriteStep(Field(a))]
      BY <2>1 DEF Unlock, Flagged, Working, Field
    <3>2. OnlyIn(a, Field(a)) /\ Enters(a)
      BY <2>0, <2>1, <3>1 DEF Unlock, Flagged, OnlyIn, Enters, TypeInv, TypeOK
    <3>3. MidField(a)'
      BY <2>0, <2>1, <3>1 DEF Unlock, Flagged, MidField, WriteStep, TypeInv, TypeOK
    <3>4. EditSurvives'
      BY <2>1 DEF Unlock, Flagged, EditInv, EditSurvives, TypeInv, TypeOK
    <3>5. QED
      BY <2>0, <3>1, <3>2, <3>3, <3>4, StepKeepsEditInv
  <2>2. ASSUME NEW a \in Actors, EnsureRow(a) PROVE EditInv'
    <3>1. /\ Working(a) /\ queue' = queue /\ mixed' = mixed /\ Field(a)' = Field(a)
          /\ step' = [step EXCEPT ![a] = "claim"] /\ step[a] = "ensure"
          /\ UNCHANGED <<stored, locked, asked, left, wanted>>
      BY <2>2 DEF EnsureRow, Working, Field, history
    <3>2. OnlyIn(a, Field(a)) /\ Enters(a)
      BY <2>0, <3>1 DEF OnlyIn, Enters, TypeInv, TypeOK
    <3>3. Field(a) \notin mixed => MidField(a)'
      BY <2>0, <3>1 DEF MidField, TypeInv, TypeOK
    <3>4. EditSurvives'
      BY <3>1 DEF EditInv, EditSurvives
    <3>5. QED
      BY <2>0, <3>1, <3>2, <3>3, <3>4, StepKeepsEditInv
  <2>3. ASSUME NEW a \in Actors, Claim(a) PROVE EditInv'
    <3>1. /\ Working(a) /\ queue' = queue /\ Field(a)' = Field(a)
          /\ mixed' = IF Crowded(a, Field(a)) THEN mixed ELSE mixed \ {Field(a)}
          /\ step' = [step EXCEPT ![a] = "write"] /\ ~locked[Field(a)]
          /\ UNCHANGED <<stored, locked, asked, left, wanted>>
      BY <2>3 DEF Claim, Claimable, Working, Field, history
    <3>2. OnlyIn(a, Field(a)) /\ Enters(a)
      BY <2>0, <3>1 DEF OnlyIn, Enters, TypeInv, TypeOK
    <3>3. MidField(a)'
      BY <3>1 DEF MidField, TypeInv, TypeOK
    <3>4. EditSurvives'
      BY <2>0, <3>1 DEF EditInv, EditSurvives, EditLeavesLock
    <3>5. QED
      BY <2>0, <3>1, <3>2, <3>3, <3>4, StepKeepsEditInv
  <2>4. ASSUME NEW a \in Actors, ClaimRefused(a) PROVE EditInv'
    <3>1. /\ Working(a) /\ AfterWrite(a) /\ step[a] = "claim" /\ locked[Field(a)]
          /\ UNCHANGED <<stored, locked, asked, left, wanted>>
      BY <2>4 DEF ClaimRefused, Claimable, Working, data, history
    <3>2. Field(a) \notin mixed => a \notin Users
      BY <2>0, <3>1 DEF MidField
    <3>3. EditSurvives'
      BY <3>1, MixedGrows DEF EditInv, EditSurvives
    <3>4. QED
      BY <3>1, <3>2, <3>3, AfterWriteKeepsEditInv
  <2>5. ASSUME NEW a \in Actors, WriteScalar(a) PROVE EditInv'
    <3>1. /\ Working(a) /\ AfterWrite(a) /\ step[a] = "write"
          /\ stored' = [stored EXCEPT ![Field(a)] = asked[a][Field(a)]]
          /\ UNCHANGED <<locked, asked, left, wanted>>
      BY <2>5 DEF WriteScalar, Working, history
    <3>2. Field(a) \notin mixed => ~locked[Field(a)]
      BY <2>0, <3>1 DEF MidField
    <3>3. EditSurvives'
      BY <2>0, <3>1, <3>2, MixedGrows
      DEF EditInv, EditSurvives, EditLeavesLock, TypeInv, TypeOK
    <3>4. stored'[Field(a)] = asked[a][Field(a)]
      BY <2>0, <3>1 DEF TypeInv, TypeOK
    <3>5. \A k \in managed \ {Field(a)} : stored'[k] = stored[k]
      BY <3>1 DEF TypeInv, TypeOK
    <3>6. QED
      BY <3>1, <3>2, <3>3, <3>4, <3>5, AfterWriteKeepsEditInv
  <2>6. ASSUME NEW a \in Actors, ClearGenres(a) PROVE EditInv'
    <3>1. /\ Working(a) /\ Field(a) = Genres /\ Genres \in managed /\ step[a] = "write"
          /\ stored' = [stored EXCEPT ![Genres] = {}]
          /\ left' = [left EXCEPT ![a] = asked[a][Genres]]
          /\ UNCHANGED <<locked, asked, wanted>>
      BY <2>6 DEF ClearGenres, Working, managed, history
    <3>2. Genres \notin mixed => ~locked[Genres]
      BY <2>0, <3>1 DEF MidField
    <3>3. mixed \subseteq mixed'
      BY <2>6, <3>1, MixedGrows DEF ClearGenres
    <3>4. EditSurvives'
      BY <3>1, <3>2, <3>3 DEF EditInv, EditSurvives, EditLeavesLock, TypeInv, TypeOK
    <3>5. /\ \A k \in managed \ {Genres} : stored'[k] = stored[k]
          /\ \A b \in Actors \ {a} : left'[b] = left[b]
      BY <3>1 DEF TypeInv, TypeOK
    <3>6. CASE asked[a][Genres] = {}
      <4>1. AfterWrite(a) /\ stored'[Genres] = asked[a][Genres]
        BY <2>6, <3>1, <3>6 DEF ClearGenres, TypeInv, TypeOK
      <4>2. QED
        BY <3>1, <3>2, <3>4, <3>5, <4>1, AfterWriteKeepsEditInv
    <3>7. CASE asked[a][Genres] # {}
      <4>1. /\ step' = [step EXCEPT ![a] = "insert"] /\ queue' = queue /\ mixed' = mixed
            /\ Field(a)' = Genres
        BY <2>6, <3>1, <3>7 DEF ClearGenres, Field
      <4>2. OnlyIn(a, Genres) /\ Enters(a)
        BY <2>0, <3>1, <3>5, <4>1 DEF OnlyIn, Enters, TypeInv, TypeOK
      <4>3. Genres \notin mixed => MidField(a)'
        BY <3>1, <3>2, <3>7, <4>1 DEF MidField, TypeInv, TypeOK
      <4>4. QED
        BY <3>1, <3>4, <4>1, <4>2, <4>3, StepKeepsEditInv
    <3>8. QED
      BY <3>6, <3>7
  <2>7. ASSUME NEW a \in Actors, NEW g \in Entries, InsertGenre(a, g) PROVE EditInv'
    <3>1. /\ Working(a) /\ Field(a) = Genres /\ Genres \in managed /\ step[a] = "insert"
          /\ g \in left[a]
          /\ stored' = [stored EXCEPT ![Genres] = @ \cup {g}]
          /\ left' = [left EXCEPT ![a] = @ \ {g}]
          /\ UNCHANGED <<locked, asked, wanted>>
      BY <2>7 DEF InsertsGenres, InsertGenre, Working, managed, history
    <3>2. Genres \notin mixed => ~locked[Genres] /\ stored[Genres] \cup left[a] = asked[a][Genres]
      BY <2>0, <3>1 DEF MidField
    <3>3. Genres \notin mixed => stored'[Genres] \cup left'[a] = asked[a][Genres]
      BY <3>1, <3>2 DEF TypeInv, TypeOK
    <3>4. mixed \subseteq mixed'
      BY <2>7, <3>1, MixedGrows DEF InsertGenre
    <3>5. EditSurvives'
      BY <3>1, <3>2, <3>4 DEF EditInv, EditSurvives, EditLeavesLock, TypeInv, TypeOK
    <3>6. /\ \A k \in managed \ {Genres} : stored'[k] = stored[k]
          /\ \A b \in Actors \ {a} : left'[b] = left[b]
      BY <3>1 DEF TypeInv, TypeOK
    <3>7. CASE left[a] = {g}
      <4>1. AfterWrite(a) /\ left'[a] = {}
        BY <2>7, <3>1, <3>7 DEF InsertGenre, TypeInv, TypeOK
      <4>2. Genres \notin mixed => stored'[Genres] = asked[a][Genres]
        BY <3>3, <4>1
      <4>3. QED
        BY <3>1, <3>2, <3>5, <3>6, <4>1, <4>2, AfterWriteKeepsEditInv
    <3>8. CASE left[a] # {g}
      <4>1. /\ step' = step /\ queue' = queue /\ mixed' = mixed /\ left'[a] # {}
            /\ Field(a)' = Genres
        BY <2>7, <3>1, <3>8 DEF InsertGenre, TypeInv, TypeOK, Field
      <4>2. OnlyIn(a, Genres) /\ Enters(a)
        BY <2>0, <3>1, <3>6, <4>1 DEF OnlyIn, Enters
      <4>3. Genres \notin mixed => MidField(a)'
        BY <3>1, <3>2, <3>3, <4>1 DEF MidField
      <4>4. QED
        BY <3>1, <3>5, <4>1, <4>2, <4>3, StepKeepsEditInv
    <3>9. QED
      BY <3>7, <3>8
  <2>8. ASSUME NEW a \in Actors, LockField(a) PROVE EditInv'
    <3>1. /\ Working(a) /\ GoTo(a, Tail(queue[a])) /\ step[a] = "lock"
          /\ locked' = [locked EXCEPT ![Field(a)] = TRUE]
          /\ wanted' = [wanted EXCEPT ![Field(a)] = {asked[a][Field(a)]}]
          /\ UNCHANGED <<stored, asked, left>>
      BY <2>8 DEF LockField, Flagged, Working
    <3>2. Field(a) \notin mixed => stored[Field(a)] = asked[a][Field(a)]
      BY <2>0, <3>1 DEF MidField
    <3>3. /\ Enters(a) /\ (Working(a)' => MidField(a)') /\ mixed \subseteq mixed'
          /\ \A b \in Actors \ {a} : step'[b] = step[b] /\ queue'[b] = queue[b]
      BY <2>0, <3>1, GoToEnters
    <3>4. EditSurvives'
      BY <2>0, <3>1, <3>2, <3>3 DEF EditInv, EditSurvives, TypeInv, TypeOK
    <3>5. OnlyIn(a, Field(a))
      BY <2>0, <3>1, <3>3 DEF OnlyIn, TypeInv, TypeOK
    <3>6. QED
      BY <2>0, <3>1, <3>3, <3>4, <3>5, StepKeepsEditInv
  <2>9. ASSUME NEW a \in Actors, NEW F \in SUBSET managed, GoTo(a, Visit[F]),
               step[a] = "idle", UNCHANGED <<stored, locked, left, wanted>>,
               \A b \in Actors \ {a} : asked'[b] = asked[b]
        PROVE  EditInv'
    <3>1. Visit[F] \in Seq(managed) /\ Genres \in managed
      BY VisitType DEF managed
    <3>2. /\ Enters(a) /\ (Working(a)' => MidField(a)') /\ mixed \subseteq mixed'
          /\ \A b \in Actors \ {a} : step'[b] = step[b] /\ queue'[b] = queue[b]
      BY <2>9, <3>1, GoToEnters
    <3>3. EditSurvives'
      BY <2>9, <3>2 DEF EditInv, EditSurvives
    <3>4. QED
      BY <2>9, <3>1, <3>2, <3>3, IdleStepKeepsEditInv
  <2>10. ASSUME NEW F \in SUBSET managed, StartStore(F) PROVE EditInv'
    BY <2>9, <2>10 DEF StartStore, data, Actors, TypeInv, TypeOK
  <2>11. ASSUME NEW u \in Users, NEW F \in SUBSET managed, NEW C \in SUBSET F,
                StartSet(u, F, C)
         PROVE EditInv'
    BY <2>9, <2>11 DEF StartSet, data, history, Actors, TypeInv, TypeOK
  <2>12. ASSUME NEW u \in Users, NEW f \in managed, NEW pinned \in BOOLEAN,
                SetLocked(u, f, pinned)
         PROVE EditInv'
    <3>1. u \in Actors /\ ~Working(u)' /\ mixed \subseteq mixed'
      BY <2>12 DEF SetLocked, Flagged, Actors, Working
    <3>2. OnlyIn(u, f) /\ Enters(u)
      BY <2>12, <3>1 DEF SetLocked, Flagged, OnlyIn, Enters, TypeInv, TypeOK
    <3>3. EditSurvives'
      BY <2>12, <3>1 DEF SetLocked, Flagged, EditInv, EditSurvives, TypeInv, TypeOK
    <3>4. QED
      BY <3>1, <3>2, <3>3, StepKeepsEditInv
  <2>13. ASSUME NEW a \in Actors, Abort(a) PROVE EditInv'
    <3>1. /\ Working(a) /\ ~Working(a)' /\ mixed \subseteq mixed'
          /\ \A b \in Actors \ {a} :
               step'[b] = step[b] /\ queue'[b] = queue[b] /\ left'[b] = left[b]
          /\ UNCHANGED <<stored, locked, asked, wanted>>
      BY <2>13 DEF Abort, Working, TypeInv, TypeOK, data
    <3>2. OnlyIn(a, Field(a)) /\ Enters(a)
      BY <2>0, <3>1 DEF OnlyIn, Enters
    <3>3. EditSurvives'
      BY <3>1 DEF EditInv, EditSurvives
    <3>4. QED
      BY <2>0, <3>1, <3>2, <3>3, StepKeepsEditInv
  <2>14. CASE UNCHANGED vars
    BY <2>14 DEF vars, EditInv, EditSurvives, Apart, Working, MidField, Field, data, history
  <2>15. QED
    BY <2>1, <2>2, <2>3, <2>4, <2>5, <2>6, <2>7, <2>8, <2>10, <2>11, <2>12, <2>13, <2>14
    DEF Next
<1>3. QED
  BY <1>1, <1>2, TypeInvHolds, EditsAreLocked, InsertsGenresHolds, PTL DEF Spec

(***************************************************************************)
(* A completed edit stays what the field holds until somebody edits or     *)
(* unlocks it: no refresh, refused edit or failed statement replaces it.   *)
(* Only writers that overlap in that very field may lose it, and the next  *)
(* claim made alone there ends that.                                       *)
(***************************************************************************)
THEOREM EditsSurviveRefreshes == Spec => []EditSurvives
<1>1. EditInv => EditSurvives
  BY DEF EditInv
<1>2. QED
  BY <1>1, EditInvHolds, PTL

------------------------------------------------------------------------------

\* What the field holds is its source's.
Truth(f) ==
  stored[f] # {} =>
    /\ source[f] = "provider" => stored[f] = Value[Refresh][f]
    /\ source[f] = "manual" => \E u \in Users : stored[f] = Value[u][f]
    /\ source[f] # "none"

\* Somebody has claimed the field and not yet written all of it.
Writing(a) == step[a] \in {"write", "insert"}
Midway(f) == \E a \in Actors : Writing(a) /\ Field(a) = f

AsksItsOwn == \A a \in Actors : \A f \in managed : asked[a][f] \in {Value[a][f], {}}

\* The inductive strengthening of SourceTellsTruth: a claim alone in a field names
\* the writer before the value is there.
TruthInv ==
  /\ \A f \in managed \ mixed : ~Midway(f) => Truth(f)
  /\ \A a \in Actors : Writing(a) /\ Field(a) \notin mixed => source[Field(a)] = Label(a)
  /\ AsksItsOwn

\* In this step only a moves, and writes in no field but f.
OnlyWrites(a, f) ==
  /\ \A b \in Actors \ {a} : step'[b] = step[b] /\ queue'[b] = queue[b]
  /\ \A k \in managed \ {f} : stored'[k] = stored[k] /\ source'[k] = source[k]
  /\ mixed \subseteq mixed' \cup {f}
  /\ Crowded(a, f) => f \in mixed'
  /\ Writing(a) => Field(a) = f
  /\ Writing(a)' => Field(a)' = f

\* Such a step keeps the invariant if it does for f.
LEMMA StepKeepsTruth ==
  ASSUME TypeInv, TruthInv, NEW a \in Actors, NEW f \in managed, OnlyWrites(a, f), AsksItsOwn',
         f \notin mixed' /\ Writing(a)' => source'[f] = Label(a),
         f \notin mixed' /\ ~Writing(a)' => Truth(f)'
  PROVE  TruthInv'
<1>1. \A b \in Actors \ {a} : (Writing(b)' <=> Writing(b)) /\ Field(b)' = Field(b)
  BY DEF OnlyWrites, Writing, Field
<1>2. \A b \in Actors \ {a} : Writing(b) /\ Field(b) = f => f \in mixed'
  BY DEF OnlyWrites, Crowded, Writing, Working
<1>3. ASSUME NEW k \in managed, k \notin mixed', ~Midway(k)' PROVE Truth(k)'
  <2>1. CASE k = f
    <3>1. ~Writing(a)'
      BY <1>3, <2>1 DEF Midway, OnlyWrites
    <3>2. QED
      BY <1>3, <2>1, <3>1
  <2>2. CASE k # f
    <3>1. ~Midway(k)
      BY <1>1, <1>3, <2>2 DEF Midway, OnlyWrites
    <3>2. Truth(k)
      BY <1>3, <2>2, <3>1 DEF TruthInv, OnlyWrites
    <3>3. stored'[k] = stored[k] /\ source'[k] = source[k]
      BY <2>2 DEF OnlyWrites
    <3>4. QED
      BY <3>2, <3>3 DEF Truth
  <2>3. QED
    BY <2>1, <2>2
<1>4. ASSUME NEW b \in Actors, Writing(b)', Field(b)' \notin mixed' PROVE source'[Field(b)'] = Label(b)
  <2>1. CASE b = a
    BY <1>4, <2>1 DEF OnlyWrites
  <2>2. CASE b # a
    <3>1. Writing(b) /\ Field(b)' = Field(b) /\ Field(b) # f /\ Field(b) \notin mixed
      BY <1>1, <1>2, <1>4, <2>2 DEF OnlyWrites
    <3>2. Field(b) \in managed
      BY <3>1, FieldIsManaged DEF TypeInv, Writing, Working
    <3>3. QED
      BY <3>1, <3>2 DEF OnlyWrites, TruthInv
  <2>3. QED
    BY <2>1, <2>2
<1>5. QED
  BY <1>3, <1>4 DEF TruthInv

\* Nobody is past a claim in the field he enters.
LEMMA EntersUnclaimed ==
  ASSUME TypeInv, NEW a \in Actors, NEW q \in Seq(managed), GoTo(a, q)
  PROVE  /\ ~Writing(a)' /\ mixed \subseteq mixed'
         /\ \A b \in Actors \ {a} : step'[b] = step[b] /\ queue'[b] = queue[b]
BY DEF GoTo, EntryStep, WriteStep, Writing, TypeInv, TypeOK

LEMMA WrittenIsLeft ==
  ASSUME TypeInv, NEW a \in Actors, Working(a), AfterWrite(a)
  PROVE  /\ ~Writing(a)' /\ mixed \subseteq mixed'
         /\ \A b \in Actors \ {a} : step'[b] = step[b] /\ queue'[b] = queue[b]
<1>1. CASE a \in Users
  BY <1>1 DEF AfterWrite, Writing, TypeInv, TypeOK
<1>2. CASE a \notin Users
  <2>1. Tail(queue[a]) \in Seq(managed) /\ GoTo(a, Tail(queue[a]))
    BY <1>2, FieldIsManaged DEF AfterWrite, TypeInv
  <2>2. QED
    BY <2>1, EntersUnclaimed
<1>3. QED
  BY <1>1, <1>2

\* What a claimed and wrote in full is true of it.
LEMMA WrittenIsTrue ==
  ASSUME AsksItsOwn, NEW a \in Actors, NEW f \in managed,
         source'[f] = Label(a), stored'[f] = asked[a][f]
  PROVE  Truth(f)'
<1>1. stored'[f] = {} \/ stored'[f] = Value[a][f]
  BY DEF AsksItsOwn
<1>2. CASE a = Refresh
  BY <1>1, <1>2 DEF Truth, Label
<1>3. CASE a # Refresh
  BY <1>1, <1>3 DEF Truth, Label, Actors
<1>4. QED
  BY <1>2, <1>3

(***************************************************************************)
(* Once nobody is writing it, a field that has a value has the value of    *)
(* the source its provenance row names: provenance is claimed before the   *)
(* value is written, and where only one writer at a time is in the field   *)
(* nothing comes between the two.                                          *)
(***************************************************************************)
THEOREM ProvenanceIsTrue == Spec => []SourceTellsTruth
<1>1. Init => TruthInv
  BY DEF Init, TruthInv, Truth, Writing, AsksItsOwn
<1>2. TypeInv /\ EditInv /\ InsertsGenres /\ TruthInv /\ [Next]_vars => TruthInv'
  <2> SUFFICES ASSUME TypeInv, EditInv, InsertsGenres, TruthInv, [Next]_vars
               PROVE  TruthInv'
    OBVIOUS
  <2>0. ASSUME NEW a \in Actors, Working(a)
        PROVE  /\ Field(a) \in managed /\ Tail(queue[a]) \in Seq(managed)
               /\ Crowded(a, Field(a)) => Field(a) \in mixed
               /\ Field(a) \notin mixed => MidField(a)
               /\ Field(a) \notin mixed /\ ~Writing(a) => Truth(Field(a))
    <3>1. Field(a) \in managed /\ Tail(queue[a]) \in Seq(managed)
      BY <2>0, FieldIsManaged DEF TypeInv
    <3>2. Field(a) \notin mixed => MidField(a) /\ ~Crowded(a, Field(a))
      BY <2>0, <3>1 DEF EditInv, Apart, Crowded
    <3>3. Field(a) \notin mixed /\ ~Writing(a) => ~Midway(Field(a))
      BY <3>2 DEF Midway, Crowded, Writing, Working
    <3>4. QED
      BY <3>1, <3>2, <3>3 DEF TruthInv
  <2>1. ASSUME NEW a \in Actors, Unlock(a) PROVE TruthInv'
    <3>1. /\ Working(a) /\ ~Writing(a) /\ ~Writing(a)' /\ queue' = queue /\ mixed' = mixed
          /\ \A b \in Actors \ {a} : step'[b] = step[b]
          /\ UNCHANGED <<stored, asked>>
      BY <2>1 DEF Unlock, Working, Writing, WriteStep, TypeInv, TypeOK
    <3>2. source' = [source EXCEPT ![Field(a)] = IF @ = "none" THEN "manual" ELSE @]
      BY <2>1 DEF Unlock
    <3>3. OnlyWrites(a, Field(a))
      BY <2>0, <3>1, <3>2 DEF OnlyWrites, TypeInv, TypeOK
    <3>4. Field(a) \notin mixed => Truth(Field(a))
      BY <2>0, <3>1
    <3>5. ASSUME NEW f \in managed, f = Field(a), Truth(f) PROVE Truth(f)'
      BY <3>1, <3>2, <3>5 DEF Truth, TypeInv, TypeOK
    <3>6. AsksItsOwn'
      BY <3>1 DEF TruthInv, AsksItsOwn
    <3>7. PICK f \in managed : f = Field(a)
      BY <2>0, <3>1
    <3>8. QED
      BY <3>1, <3>3, <3>4, <3>5, <3>6, <3>7, StepKeepsTruth
  <2>2. ASSUME NEW a \in Actors, EnsureRow(a) PROVE TruthInv'
    <3>1. /\ Working(a) /\ ~Writing(a) /\ ~Writing(a)' /\ queue' = queue /\ mixed' = mixed
          /\ \A b \in Actors \ {a} : step'[b] = step[b]
          /\ UNCHANGED <<stored, source, asked>>
      BY <2>2 DEF EnsureRow, Working, Writing, TypeInv, TypeOK
    <3>2. OnlyWrites(a, Field(a))
      BY <2>0, <3>1 DEF OnlyWrites
    <3>3. AsksItsOwn'
      BY <3>1 DEF TruthInv, AsksItsOwn
    <3>4. PICK f \in managed : f = Field(a)
      BY <2>0, <3>1
    <3>5. f \notin mixed' => Truth(f)'
      BY <2>0, <3>1, <3>4 DEF Truth
    <3>6. QED
      BY <3>1, <3>2, <3>3, <3>4, <3>5, StepKeepsTruth
  <2>3. ASSUME NEW a \in Actors, Claim(a) PROVE TruthInv'
    <3>1. /\ Working(a) /\ ~Writing(a) /\ Writing(a)' /\ queue' = queue /\ Field(a)' = Field(a)
          /\ mixed' = IF Crowded(a, Field(a)) THEN mixed ELSE mixed \ {Field(a)}
          /\ \A b \in Actors \ {a} : step'[b] = step[b]
          /\ source' = [source EXCEPT ![Field(a)] = Label(a)]
          /\ UNCHANGED <<stored, asked>>
      BY <2>3 DEF Claim, SourceAfter, Working, Writing, Field, TypeInv, TypeOK
    <3>2. OnlyWrites(a, Field(a))
      BY <2>0, <3>1 DEF OnlyWrites, TypeInv, TypeOK
    <3>3. AsksItsOwn'
      BY <3>1 DEF TruthInv, AsksItsOwn
    <3>4. PICK f \in managed : f = Field(a)
      BY <2>0, <3>1
    <3>5. source'[f] = Label(a)
      BY <3>1, <3>4 DEF TypeInv, TypeOK
    <3>6. QED
      BY <3>1, <3>2, <3>3, <3>4, <3>5, StepKeepsTruth
  <2>4. ASSUME NEW a \in Actors, ClaimRefused(a) PROVE TruthInv'
    <3>1. /\ Working(a) /\ ~Writing(a) /\ AfterWrite(a) /\ UNCHANGED <<stored, source, asked>>
      BY <2>4 DEF ClaimRefused, Working, Writing, data
    <3>2. /\ ~Writing(a)' /\ mixed \subseteq mixed'
          /\ \A b \in Actors \ {a} : step'[b] = step[b] /\ queue'[b] = queue[b]
      BY <3>1, WrittenIsLeft
    <3>3. OnlyWrites(a, Field(a))
      BY <2>0, <3>1, <3>2 DEF OnlyWrites
    <3>4. AsksItsOwn'
      BY <3>1 DEF TruthInv, AsksItsOwn
    <3>5. PICK f \in managed : f = Field(a)
      BY <2>0, <3>1
    <3>6. f \notin mixed' => Truth(f)'
      BY <2>0, <3>1, <3>2, <3>5 DEF Truth
    <3>7. QED
      BY <3>1, <3>2, <3>3, <3>4, <3>5, <3>6, StepKeepsTruth
  <2>5. ASSUME NEW a \in Actors, NEW f \in managed, f = Field(a), Writing(a), AfterWrite(a),
               \A k \in managed \ {f} : stored'[k] = stored[k],
               f \notin mixed => stored'[f] = asked[a][f],
               UNCHANGED <<source, asked>>
        PROVE  TruthInv'
    <3>1. Working(a)
      BY <2>5 DEF Writing, Working
    <3>2. /\ ~Writing(a)' /\ mixed \subseteq mixed'
          /\ \A b \in Actors \ {a} : step'[b] = step[b] /\ queue'[b] = queue[b]
      BY <2>5, <3>1, WrittenIsLeft
    <3>3. OnlyWrites(a, f)
      BY <2>0, <2>5, <3>1, <3>2 DEF OnlyWrites
    <3>4. AsksItsOwn' /\ AsksItsOwn
      BY <2>5 DEF TruthInv, AsksItsOwn
    <3>5. f \notin mixed => source'[f] = Label(a)
      BY <2>5 DEF TruthInv
    <3>6. f \notin mixed' => Truth(f)'
      BY <2>5, <3>2, <3>4, <3>5, WrittenIsTrue
    <3>7. QED
      BY <3>2, <3>3, <3>4, <3>6, StepKeepsTruth
  <2>6. ASSUME NEW a \in Actors, WriteScalar(a) PROVE TruthInv'
    <3>1. /\ Writing(a) /\ Working(a) /\ AfterWrite(a) /\ UNCHANGED <<source, asked>>
          /\ stored' = [stored EXCEPT ![Field(a)] = asked[a][Field(a)]]
      BY <2>6 DEF WriteScalar, Writing, Working
    <3>2. PICK f \in managed : f = Field(a)
      BY <2>0, <3>1
    <3>3. stored'[f] = asked[a][f] /\ \A k \in managed \ {f} : stored'[k] = stored[k]
      BY <3>1, <3>2 DEF TypeInv, TypeOK
    <3>4. QED
      BY <2>5, <3>1, <3>2, <3>3
  <2>7. ASSUME NEW a \in Actors, ClearGenres(a) PROVE TruthInv'
    <3>1. /\ Writing(a) /\ Working(a) /\ Field(a) = Genres /\ Genres \in managed
          /\ UNCHANGED <<source, asked>> /\ stored' = [stored EXCEPT ![Genres] = {}]
      BY <2>7 DEF ClearGenres, Writing, Working, managed
    <3>2. stored'[Genres] = {} /\ \A k \in managed \ {Genres} : stored'[k] = stored[k]
      BY <3>1 DEF TypeInv, TypeOK
    <3>3. CASE asked[a][Genres] = {}
      BY <2>5, <2>7, <3>1, <3>2, <3>3 DEF ClearGenres
    <3>4. CASE asked[a][Genres] # {}
      <4>1. /\ queue' = queue /\ mixed' = mixed /\ Writing(a)' /\ Field(a)' = Genres
            /\ \A b \in Actors \ {a} : step'[b] = step[b]
        BY <2>7, <3>1, <3>4 DEF ClearGenres, Writing, Field, TypeInv, TypeOK
      <4>2. OnlyWrites(a, Genres)
        BY <2>0, <3>1, <3>2, <4>1 DEF OnlyWrites
      <4>3. AsksItsOwn'
        BY <3>1 DEF TruthInv, AsksItsOwn
      <4>4. Genres \notin mixed' => source'[Genres] = Label(a)
        BY <3>1, <4>1 DEF TruthInv
      <4>5. QED
        BY <3>1, <4>1, <4>2, <4>3, <4>4, StepKeepsTruth
    <3>5. QED
      BY <3>3, <3>4
  <2>8. ASSUME NEW a \in Actors, NEW g \in Entries, InsertGenre(a, g) PROVE TruthInv'
    <3>1. /\ Writing(a) /\ Working(a) /\ Field(a) = Genres /\ Genres \in managed
          /\ step[a] = "insert" /\ g \in left[a] /\ UNCHANGED <<source, asked>>
          /\ stored' = [stored EXCEPT ![Genres] = @ \cup {g}]
      BY <2>8 DEF InsertsGenres, InsertGenre, Writing, Working, managed
    <3>2. /\ stored'[Genres] = stored[Genres] \cup {g}
          /\ \A k \in managed \ {Genres} : stored'[k] = stored[k]
      BY <3>1 DEF TypeInv, TypeOK
    <3>3. CASE left[a] = {g}
      <4>1. AfterWrite(a)
        BY <2>8, <3>3 DEF InsertGenre
      <4>2. Genres \notin mixed => stored'[Genres] = asked[a][Genres]
        BY <2>0, <3>1, <3>2, <3>3 DEF MidField
      <4>3. QED
        BY <2>5, <3>1, <3>2, <4>1, <4>2
    <3>4. CASE left[a] # {g}
      <4>1. step' = step /\ queue' = queue /\ mixed' = mixed
        BY <2>8, <3>4 DEF InsertGenre
      <4>2. Writing(a)' /\ Field(a)' = Genres
        BY <3>1, <4>1 DEF Writing, Field
      <4>3. OnlyWrites(a, Genres)
        BY <2>0, <3>1, <3>2, <4>1, <4>2 DEF OnlyWrites
      <4>4. AsksItsOwn' /\ (Genres \notin mixed' => source'[Genres] = Label(a))
        BY <3>1, <4>1 DEF TruthInv, AsksItsOwn
      <4>5. QED
        BY <3>1, <4>2, <4>3, <4>4, StepKeepsTruth
    <3>5. QED
      BY <3>3, <3>4
  <2>9. ASSUME NEW a \in Actors, LockField(a) PROVE TruthInv'
    <3>1. /\ Working(a) /\ ~Writing(a) /\ GoTo(a, Tail(queue[a]))
          /\ UNCHANGED <<stored, source, asked>>
      BY <2>9 DEF LockField, Working, Writing
    <3>2. /\ ~Writing(a)' /\ mixed \subseteq mixed'
          /\ \A b \in Actors \ {a} : step'[b] = step[b] /\ queue'[b] = queue[b]
      BY <2>0, <3>1, EntersUnclaimed
    <3>3. OnlyWrites(a, Field(a))
      BY <2>0, <3>1, <3>2 DEF OnlyWrites
    <3>4. AsksItsOwn'
      BY <3>1 DEF TruthInv, AsksItsOwn
    <3>5. PICK f \in managed : f = Field(a)
      BY <2>0, <3>1
    <3>6. f \notin mixed' => Truth(f)'
      BY <2>0, <3>1, <3>2, <3>5 DEF Truth
    <3>7. QED
      BY <3>1, <3>2, <3>3, <3>4, <3>5, <3>6, StepKeepsTruth
  <2>10. ASSUME NEW a \in Actors, NEW F \in SUBSET managed, GoTo(a, Visit[F]), step[a] = "idle",
                UNCHANGED <<stored, source>>, AsksItsOwn'
         PROVE  TruthInv'
    <3>1. Visit[F] \in Seq(managed) /\ Genres \in managed
      BY VisitType DEF managed
    <3>2. /\ ~Writing(a) /\ ~Writing(a)' /\ mixed \subseteq mixed'
          /\ \A b \in Actors \ {a} : step'[b] = step[b] /\ queue'[b] = queue[b]
      BY <2>10, <3>1, EntersUnclaimed DEF Writing
    <3>3. \A b \in Actors : (Writing(b)' <=> Writing(b)) /\ (b # a => Field(b)' = Field(b))
      BY <3>2 DEF Writing, Field
    <3>4. \A f \in managed : (Midway(f)' <=> Midway(f)) /\ (Truth(f)' <=> Truth(f))
      BY <2>10, <3>2, <3>3 DEF Midway, Truth
    <3>5. QED
      BY <2>10, <3>2, <3>3, <3>4 DEF TruthInv
  <2>11. ASSUME NEW F \in SUBSET managed, StartStore(F) PROVE TruthInv'
    <3>1. AsksItsOwn'
      BY <2>11 DEF StartStore, TruthInv, AsksItsOwn, TypeInv, TypeOK
    <3>2. QED
      BY <2>10, <2>11, <3>1 DEF StartStore, data, Actors
  <2>12. ASSUME NEW u \in Users, NEW F \in SUBSET managed, NEW C \in SUBSET F, StartSet(u, F, C)
         PROVE TruthInv'
    <3>1. AsksItsOwn'
      BY <2>12 DEF StartSet, TruthInv, AsksItsOwn, TypeInv, TypeOK
    <3>2. QED
      BY <2>10, <2>12, <3>1 DEF StartSet, data, Actors
  <2>13. ASSUME NEW u \in Users, NEW f \in managed, NEW pinned \in BOOLEAN, SetLocked(u, f, pinned)
         PROVE TruthInv'
    <3>1. /\ u \in Actors /\ ~Writing(u) /\ ~Writing(u)' /\ UNCHANGED <<stored, asked, step, queue>>
          /\ source' = [source EXCEPT ![f] = IF @ = "none" THEN "manual" ELSE @]
          /\ mixed' = IF Crowded(u, f) THEN mixed \cup {f} ELSE mixed
      BY <2>13 DEF SetLocked, Actors, Writing
    <3>2. OnlyWrites(u, f)
      BY <3>1 DEF OnlyWrites, TypeInv, TypeOK
    <3>3. AsksItsOwn'
      BY <3>1 DEF TruthInv, AsksItsOwn
    <3>4. f \notin mixed' => ~Midway(f)
      BY <3>1 DEF Midway, Crowded, Writing, Working
    <3>5. f \notin mixed' => Truth(f)
      BY <3>1, <3>4 DEF TruthInv
    <3>6. Truth(f) => Truth(f)'
      BY <3>1 DEF Truth, TypeInv, TypeOK
    <3>7. QED
      BY <3>1, <3>2, <3>3, <3>5, <3>6, StepKeepsTruth
  <2>14. ASSUME NEW a \in Actors, Abort(a) PROVE TruthInv'
    <3>1. /\ Working(a) /\ ~Writing(a)' /\ mixed \subseteq mixed'
          /\ Writing(a) => Field(a) \in mixed'
          /\ \A b \in Actors \ {a} : step'[b] = step[b] /\ queue'[b] = queue[b]
          /\ UNCHANGED <<stored, source, asked>>
      BY <2>14 DEF Abort, Working, Writing, TypeInv, TypeOK, data
    <3>2. OnlyWrites(a, Field(a))
      BY <2>0, <3>1 DEF OnlyWrites
    <3>3. AsksItsOwn'
      BY <3>1 DEF TruthInv, AsksItsOwn
    <3>4. PICK f \in managed : f = Field(a)
      BY <2>0, <3>1
    <3>5. f \notin mixed' => Truth(f)'
      BY <2>0, <3>1, <3>4 DEF Truth
    <3>6. QED
      BY <3>1, <3>2, <3>3, <3>4, <3>5, StepKeepsTruth
  <2>15. CASE UNCHANGED vars
    BY <2>15 DEF vars, data, TruthInv, Midway, Truth, Writing, Field, AsksItsOwn
  <2>16. QED
    BY <2>1, <2>2, <2>3, <2>4, <2>6, <2>7, <2>8, <2>9, <2>11, <2>12, <2>13, <2>14, <2>15
    DEF Next
<1>3. TruthInv => SourceTellsTruth
  BY DEF TruthInv, Midway, Truth, SourceTellsTruth, Quiet, Writing, Working
<1>4. QED
  BY <1>1, <1>2, <1>3, TypeInvHolds, EditInvHolds, InsertsGenresHolds, PTL DEF Spec

(***************************************************************************)
(* Decide                                                                  *)
(***************************************************************************)

\* A set of numbers has a least one.
LEMMA Least ==
  ASSUME NEW S, S \subseteq Nat, S # {}
  PROVE  \E m \in S : \A k \in S : m <= k
<1> DEFINE R == OpToRel(<, Nat)
<1>1. \E m \in S : \A k \in S : <<k, m>> \notin R
  <2>1. IsWellFoundedOn(R, Nat)
    BY NatLessThanWellFounded
  <2> HIDE DEF R
  <2>2. QED
    BY <2>1, WFMin, Zenon
<1>2. \A k, m \in Nat : k < m => <<k, m>> \in R
  BY DEF OpToRel
<1> HIDE DEF R
<1>3. PICK m \in S : \A k \in S : <<k, m>> \notin R
  BY <1>1
<1>4. ASSUME NEW k \in S PROVE m <= k
  <2>1. k \in Nat /\ m \in Nat
    OBVIOUS
  <2>2. ~(k < m)
    BY <1>2, <1>3, <2>1
  <2>3. QED
    BY <2>1, <2>2
<1>5. QED
  BY <1>4

------------------------------------------------------------------------------
(* The matcher.                                                            *)

\* A tier decides for the one that is in it alone.
LEMMA OnlyOfOne ==
  ASSUME NEW S, IsFiniteSet(S), NEW confidence
  PROVE  /\ \A m : S = {m} => OnlyOf(S, confidence) = Matched(m, confidence)
         /\ (\A m : S # {m}) => OnlyOf(S, confidence) = Declined("ambiguous")
<1>1. Cardinality(S) = 1 <=> \E m : S = {m}
  BY FS_Singleton
<1>2. ASSUME NEW m, S = {m} PROVE OnlyOf(S, confidence) = Matched(m, confidence)
  <2>1. (CHOOSE i \in S : TRUE) = m
    BY <1>2
  <2>2. QED
    BY <1>1, <1>2, <2>1 DEF OnlyOf
<1>3. ASSUME \A m : S # {m} PROVE OnlyOf(S, confidence) = Declined("ambiguous")
  BY <1>1, <1>3 DEF OnlyOf
<1>4. QED
  BY <1>2, <1>3

\* The numbers of a list of candidates.
LEMMA ListOfCandidates ==
  ASSUME NEW c \in Seq(Candidates)
  PROVE  /\ DOMAIN c = 1..Len(c) /\ Len(c) \in Nat /\ IsFiniteSet(DOMAIN c)
         /\ \A i \in DOMAIN c : i \in Nat \ {0} /\ c[i].year \in Int
         /\ c = <<>> <=> Len(c) = 0
<1>1. DOMAIN c = 1..Len(c) /\ Len(c) \in Nat
  OBVIOUS
<1>2. IsFiniteSet(DOMAIN c)
  BY <1>1, FS_Interval
<1>3. \A i \in DOMAIN c : c[i] \in Candidates
  OBVIOUS
<1>4. \A i \in DOMAIN c : i \in Nat \ {0} /\ c[i].year \in Int
  <2>1. \A r \in Candidates : r.year \in Years
    BY DEF Candidates
  <2>2. \A i \in 1..Len(c) : i \in Nat \ {0}
    BY <1>1
  <2>3. QED
    BY <1>1, <1>3, <2>1, <2>2, YearsType
<1>5. c = <<>> <=> Len(c) = 0
  BY EmptySeq
<1>6. QED
  BY <1>1, <1>2, <1>4, <1>5

\* The candidate m is the one the tiers leave, by that confidence.
Chosen(q, c, alt, m, confidence) ==
  LET S == Titled(q, c, alt)
  IN  /\ c # <<>> /\ q.title # Untitled /\ m \in S
      /\ \/ q.year = 0 /\ S = {m} /\ confidence = "title_only"
         \/ q.year # 0 /\ Exact(q, c, S) = {m} /\ confidence = "exact"
         \/ q.year # 0 /\ Exact(q, c, S) = {} /\ Near(q, c, S) = {m} /\ confidence = "year_near"

\* Match answers the candidate that is chosen, and declines when none is.
LEMMA MatchChooses ==
  ASSUME NEW c \in Seq(Candidates), NEW q, NEW alt
  PROVE  /\ \A m, confidence : Chosen(q, c, alt, m, confidence) => Match(q, c, alt) = Matched(m, confidence)
         /\ \/ \E m \in Titled(q, c, alt), confidence \in Confidences :
                 Chosen(q, c, alt, m, confidence) /\ Match(q, c, alt) = Matched(m, confidence)
            \/ \E kind \in Declines :
                 /\ Match(q, c, alt) = Declined(kind)
                 /\ kind = "no_title_match" => Titled(q, c, alt) = {}
<1> DEFINE S == Titled(q, c, alt)
           E == Exact(q, c, S)
           N == Near(q, c, S)
<1>1. IsFiniteSet(S) /\ IsFiniteSet(E) /\ IsFiniteSet(N)
  <2>1. IsFiniteSet(DOMAIN c)
    BY ListOfCandidates
  <2>2. S \subseteq DOMAIN c /\ E \subseteq DOMAIN c /\ N \subseteq DOMAIN c
    BY DEF Titled, Exact, Near
  <2>3. QED
    BY <2>1, <2>2, FS_Subset
<1>2. E \subseteq S /\ N \subseteq S
  BY DEF Exact, Near
<1> HIDE DEF S, E, N
<1>3. /\ \A m : S = {m} => OnlyOf(S, "title_only") = Matched(m, "title_only")
      /\ (\A m : S # {m}) => OnlyOf(S, "title_only") = Declined("ambiguous")
      /\ \A m : E = {m} => OnlyOf(E, "exact") = Matched(m, "exact")
      /\ (\A m : E # {m}) => OnlyOf(E, "exact") = Declined("ambiguous")
      /\ \A m : N = {m} => OnlyOf(N, "year_near") = Matched(m, "year_near")
      /\ (\A m : N # {m}) => OnlyOf(N, "year_near") = Declined("ambiguous")
  BY <1>1, OnlyOfOne
<1>4. ByTier(q, c, S) = CASE E # {} -> OnlyOf(E, "exact")
                          [] E = {} /\ N # {} -> OnlyOf(N, "year_near")
                          [] OTHER -> Declined("year_mismatch")
  BY DEF ByTier, E, N
<1>5. Match(q, c, alt) = CASE c = <<>> -> Declined("no_candidates")
                           [] c # <<>> /\ q.title = Untitled -> Declined("unusable_title")
                           [] c # <<>> /\ q.title # Untitled /\ S = {} -> Declined("no_title_match")
                           [] c # <<>> /\ q.title # Untitled /\ S # {} /\ q.year = 0 -> OnlyOf(S, "title_only")
                           [] OTHER -> ByTier(q, c, S)
  BY DEF Match, S
<1> DEFINE d == Match(q, c, alt)
<1> HIDE DEF d
<1>6. /\ c = <<>> => d = Declined("no_candidates")
      /\ c # <<>> /\ q.title = Untitled => d = Declined("unusable_title")
      /\ c # <<>> /\ q.title # Untitled /\ S = {} => d = Declined("no_title_match")
      /\ c # <<>> /\ q.title # Untitled /\ S # {} /\ q.year = 0 => d = OnlyOf(S, "title_only")
      /\ c # <<>> /\ q.title # Untitled /\ S # {} /\ q.year # 0 /\ E # {} => d = OnlyOf(E, "exact")
      /\ c # <<>> /\ q.title # Untitled /\ S # {} /\ q.year # 0 /\ E = {} /\ N # {} => d = OnlyOf(N, "year_near")
      /\ c # <<>> /\ q.title # Untitled /\ S # {} /\ q.year # 0 /\ E = {} /\ N = {} => d = Declined("year_mismatch")
  BY <1>4, <1>5 DEF d
<1>7. \A m, confidence : Chosen(q, c, alt, m, confidence) =>
        /\ c # <<>> /\ q.title # Untitled /\ m \in S
        /\ \/ q.year = 0 /\ S = {m} /\ confidence = "title_only"
           \/ q.year # 0 /\ E = {m} /\ confidence = "exact"
           \/ q.year # 0 /\ E = {} /\ N = {m} /\ confidence = "year_near"
  BY DEF Chosen, S, E, N
<1>8. ASSUME NEW m, NEW confidence, Chosen(q, c, alt, m, confidence)
      PROVE  d = Matched(m, confidence)
  <2>1. c # <<>> /\ q.title # Untitled /\ S # {}
    BY <1>7, <1>8
  <2>2. CASE q.year = 0 /\ S = {m} /\ confidence = "title_only"
    BY <1>3, <1>6, <2>1, <2>2
  <2>3. CASE q.year # 0 /\ E = {m} /\ confidence = "exact"
    BY <1>3, <1>6, <2>1, <2>3
  <2>4. CASE q.year # 0 /\ E = {} /\ N = {m} /\ confidence = "year_near"
    BY <1>3, <1>6, <2>1, <2>4
  <2>5. QED
    BY <1>7, <1>8, <2>2, <2>3, <2>4
<1> DEFINE Good == \E m \in S, confidence \in Confidences :
                     Chosen(q, c, alt, m, confidence) /\ d = Matched(m, confidence)
           Bad == \E kind \in Declines : d = Declined(kind) /\ (kind = "no_title_match" => S = {})
<1>9. ASSUME NEW kind \in Declines \ {"no_title_match"}, d = Declined(kind) PROVE Bad
  BY <1>9
<1>10. ASSUME NEW m \in S, NEW confidence \in Confidences, Chosen(q, c, alt, m, confidence) PROVE Good
  BY <1>8, <1>10
<1>11. Good \/ Bad
  <2>1. {"no_candidates", "unusable_title", "ambiguous", "year_mismatch"} \subseteq Declines \ {"no_title_match"}
    BY DEF Declines
  <2>2. "no_title_match" \in Declines
    BY DEF Declines
  <2>3. {"exact", "year_near", "title_only"} \subseteq Confidences
    BY DEF Confidences
  <2>4. CASE c = <<>> \/ q.title = Untitled
    BY <1>6, <1>9, <2>1, <2>4
  <2>5. CASE c # <<>> /\ q.title # Untitled /\ S = {}
    BY <1>6, <2>2, <2>5
  <2>6. CASE c # <<>> /\ q.title # Untitled /\ S # {} /\ q.year = 0
    <3>1. ASSUME NEW m, S = {m} PROVE Good
      <4>1. m \in S /\ Chosen(q, c, alt, m, "title_only")
        BY <2>6, <3>1 DEF Chosen, S
      <4>2. QED
        BY <1>10, <2>3, <4>1
    <3>2. QED
      BY <1>3, <1>6, <1>9, <2>1, <2>6, <3>1
  <2>7. CASE c # <<>> /\ q.title # Untitled /\ S # {} /\ q.year # 0 /\ E # {}
    <3>1. ASSUME NEW m, E = {m} PROVE Good
      <4>1. m \in S /\ Chosen(q, c, alt, m, "exact")
        BY <1>2, <2>7, <3>1 DEF Chosen, S, E
      <4>2. QED
        BY <1>10, <2>3, <4>1
    <3>2. QED
      BY <1>3, <1>6, <1>9, <2>1, <2>7, <3>1
  <2>8. CASE c # <<>> /\ q.title # Untitled /\ S # {} /\ q.year # 0 /\ E = {} /\ N # {}
    <3>1. ASSUME NEW m, N = {m} PROVE Good
      <4>1. m \in S /\ Chosen(q, c, alt, m, "year_near")
        BY <1>2, <2>8, <3>1 DEF Chosen, S, E, N
      <4>2. QED
        BY <1>10, <2>3, <4>1
    <3>2. QED
      BY <1>3, <1>6, <1>9, <2>1, <2>8, <3>1
  <2>9. CASE c # <<>> /\ q.title # Untitled /\ S # {} /\ q.year # 0 /\ E = {} /\ N = {}
    BY <1>6, <1>9, <2>1, <2>9
  <2>10. QED
    BY <2>4, <2>5, <2>6, <2>7, <2>8, <2>9
<1>12. QED
  BY <1>8, <1>11 DEF d, S

------------------------------------------------------------------------------
(* The decision.                                                           *)

\* What the provider publishes, and what the pass has of it.
Given ==
  /\ query \in Queries \cup {NoQuery} /\ query.year \in Int
  /\ found \in Seq(Candidates)
  /\ published \in [DOMAIN found -> SUBSET {query.title}]
  /\ attached \in [DOMAIN found -> SUBSET {query.title}]
  /\ \A i \in DOMAIN found : attached[i] \subseteq published[i]

Phases ==
  /\ pc \in {"search", "alternatives", "ids", "fetch", "done"}
  /\ todo \subseteq DOMAIN found /\ failed \subseteq DOMAIN found
  /\ decision \in [candidate : {0} \cup DOMAIN found, why : Confidences \cup Declines \cup {"none"}]
  /\ outcome \in {"none", "matched", "unmatched", "skip", "stop", "fetched"}
  /\ ids \subseteq {"own"} \cup OwnIds

\* Nobody's other titles are attached; everybody's that were worth it are, but
\* those that could not be had.
AtFirstSight == failed = {} /\ \A i \in DOMAIN found : attached[i] = {}
LookedAgain == \A i \in WorthAsking(query, found) : attached[i] = published[i] \/ i \in failed

\* The decision is the matcher's, on what is attached: a second look followed a
\* first that found nothing called that.
Judgement ==
  /\ decision = Match(query, found, attached)
  /\ \/ AtFirstSight /\ decision.why # "no_title_match"
     \/ LookedAgain

Judged ==
  /\ pc = "search" => AtFirstSight /\ decision.candidate = 0 /\ outcome = "none"
  /\ pc = "alternatives" =>
       /\ decision.candidate = 0 /\ outcome = "none"
       /\ \A i \in WorthAsking(query, found) : attached[i] = published[i] \/ i \in failed \cup todo
  /\ pc = "ids" => decision.candidate # 0
  /\ pc = "fetch" => decision.candidate = 0 /\ outcome = "none"
  /\ decision.candidate # 0 \/ outcome = "unmatched" => Judgement
  /\ outcome = "unmatched" => decision.candidate = 0

Course == Given /\ Phases /\ Judged

\* A decision is of its type, whatever is attached.
LEMMA MatchType ==
  ASSUME NEW c \in Seq(Candidates), NEW q, NEW alt
  PROVE  /\ Match(q, c, alt) \in [candidate : {0} \cup DOMAIN c, why : Confidences \cup Declines]
         /\ Match(q, c, alt).candidate = 0 => Match(q, c, alt).why \in Declines
<1> DEFINE d == Match(q, c, alt)
<1>1. CASE \E m \in Titled(q, c, alt), confidence \in Confidences : d = Matched(m, confidence)
  <2>1. PICK m \in Titled(q, c, alt), confidence \in Confidences : d = Matched(m, confidence)
    BY <1>1
  <2>2. m \in DOMAIN c /\ m # 0
    BY ListOfCandidates DEF Titled
  <2> HIDE DEF d
  <2>3. d.candidate # 0 /\ d \in [candidate : {0} \cup DOMAIN c, why : Confidences \cup Declines]
    BY <2>1, <2>2 DEF Matched
  <2>4. QED
    BY <2>3 DEF d
<1>2. CASE \E kind \in Declines : d = Declined(kind)
  <2>1. PICK kind \in Declines : d = Declined(kind)
    BY <1>2
  <2> HIDE DEF d
  <2>2. d.why \in Declines /\ d \in [candidate : {0} \cup DOMAIN c, why : Confidences \cup Declines]
    BY <2>1 DEF Declined
  <2>3. QED
    BY <2>2 DEF d
<1>3. QED
  BY <1>1, <1>2, MatchChooses

LEMMA InitCourse == DecideInit => Course
<1> SUFFICES ASSUME DecideInit PROVE Course
  OBVIOUS
<1>1. query \in Queries \cup {NoQuery} /\ query.year \in Int
  <2>1. \A q \in Queries : q.year \in Years
    BY DEF Queries
  <2>2. NoQuery.year = 0
    BY DEF NoQuery
  <2>3. query \in Queries \/ query = NoQuery
    BY DEF DecideInit
  <2>4. CASE query \in Queries
    <3>1. query.year \in Years
      BY <2>1, <2>4
    <3>2. QED
      BY <2>4, <3>1, YearsType
  <2>5. CASE query = NoQuery
    <3>1. query.year = 0
      BY <2>2, <2>5
    <3>2. QED
      BY <2>5, <3>1
  <2>6. QED
    BY <2>3, <2>4, <2>5
<1>2. found \in Seq(Candidates)
  <2>1. CASE found = <<>>
    BY <2>1
  <2>2. CASE found \in UpTo(MaxCandidates, Candidates)
    <3>1. PICK k \in 0..MaxCandidates : found \in [1..k -> Candidates]
      BY <2>2 DEF UpTo
    <3>2. k \in Nat
      BY DecideAssumption
    <3>3. QED
      BY <3>1, <3>2
  <2>3. QED
    BY <2>1, <2>2 DEF DecideInit
<1>3. /\ published \in [DOMAIN found -> SUBSET {query.title}]
      /\ attached = [i \in DOMAIN found |-> {}]
  BY DEF DecideInit
<1>4. Given
  BY <1>1, <1>2, <1>3 DEF Given
<1>5. /\ pc \in {"search", "fetch"} /\ todo = {} /\ failed = {} /\ outcome = "none" /\ ids = {}
      /\ decision = NoDecision
  BY DEF DecideInit
<1>6. decision.candidate = 0
      /\ decision \in [candidate : {0} \cup DOMAIN found, why : Confidences \cup Declines \cup {"none"}]
  BY <1>5 DEF NoDecision
<1>7. Phases
  BY <1>5, <1>6 DEF Phases
<1>8. Judged
  BY <1>3, <1>5, <1>6 DEF Judged, AtFirstSight
<1>9. QED
  BY <1>4, <1>7, <1>8 DEF Course

LEMMA CourseStays ==
  ASSUME Course, [DecideNext]_decideVars
  PROVE  Course'
<1>1. Given /\ Phases /\ Judged
  BY DEF Course
<1>2. found \in Seq(Candidates)
  BY <1>1 DEF Given
<1> DEFINE Kept == Match(query, found, attached) \in
                     [candidate : {0} \cup DOMAIN found, why : Confidences \cup Declines]
                   /\ (Match(query, found, attached).candidate = 0 =>
                         Match(query, found, attached).why \in Declines)
<1>3. Kept
  BY <1>2, MatchType
<1>4. ASSUME UNCHANGED <<world, attached, todo, decision, ids, failed>>, pc' = "done",
             outcome' \in {"skip", "stop"}, decision.candidate = 0
      PROVE  Course'
  <2>1. Given' /\ Phases'
    BY <1>1, <1>4 DEF Given, Phases, world
  <2>2. Judged'
    BY <1>4 DEF Judged, world
  <2>3. QED
    BY <2>1, <2>2 DEF Course
<1>5. ASSUME NEW answer, GiveUp(answer), pc # "ids", pc # "done" PROVE Course'
  <2>1. decision.candidate = 0
    BY <1>1, <1>5 DEF Judged, Phases
  <2>2. QED
    BY <1>4, <1>5, <2>1 DEF GiveUp
<1>6. ASSUME Conclude(Match(query, found, attached)), UNCHANGED <<world, attached, ids, failed, todo>>,
             \/ AtFirstSight /\ Match(query, found, attached).why # "no_title_match"
             \/ LookedAgain
      PROVE  Course'
  <2> DEFINE d == Match(query, found, attached)
  <2>1. Given'
    BY <1>1, <1>6 DEF Given, world
  <2>2. decision' = d /\ d' = d
    BY <1>6 DEF Conclude, world
  <2>3. pc' = (IF d.candidate # 0 THEN "ids" ELSE "done")
        /\ outcome' = (IF d.candidate # 0 THEN "matched" ELSE "unmatched")
    BY <1>6 DEF Conclude
  <2>4. Phases'
    BY <1>1, <1>3, <1>6, <2>2, <2>3 DEF Phases, world
  <2>5. Judgement'
    BY <1>6, <2>2 DEF Judgement, AtFirstSight, LookedAgain, world
  <2> HIDE DEF d
  <2>6. Judged'
    BY <2>2, <2>3, <2>5 DEF Judged
  <2>7. QED
    BY <2>1, <2>4, <2>6 DEF Course
<1>7. ASSUME NEW answer, Search(answer) PROVE Course'
  <2>1. pc = "search"
    BY <1>7 DEF Search
  <2>2. CASE GiveUp(answer)
    BY <1>5, <2>1, <2>2
  <2>3. CASE ~ GiveUp(answer)
    <3> DEFINE d == Match(query, found, attached)
    <3>1. UNCHANGED <<world, attached, ids, details, failed>>
      BY <1>7, <2>3 DEF Search
    <3>2. CASE SecondLook(d)
      <4>1. decision' = d /\ pc' = "alternatives" /\ todo' = WorthAsking(query, found) /\ outcome' = outcome
        BY <1>7, <2>3, <3>2 DEF Search
      <4>2. d.candidate = 0
        <5>1. d.why = "no_title_match"
          BY <3>2 DEF SecondLook
        <5>2. ASSUME NEW m, NEW confidence \in Confidences, d = Matched(m, confidence) PROVE FALSE
          BY <5>1, <5>2 DEF Matched, Confidences
        <5>3. PICK kind : d = Declined(kind)
          BY <1>2, <5>2, MatchChooses
        <5>4. QED
          BY <5>3 DEF Declined
      <4>3. Given'
        BY <1>1, <3>1 DEF Given, world
      <4>4. WorthAsking(query, found) \subseteq DOMAIN found
        BY DEF WorthAsking, InWindow
      <4>5. outcome = "none"
        BY <1>1, <2>1 DEF Judged
      <4>6. Phases'
        BY <1>1, <1>3, <3>1, <4>1, <4>4 DEF Phases, world
      <4>7. Judged'
        <5>1. decision'.candidate = 0 /\ pc' = "alternatives" /\ outcome' = "none"
          BY <4>1, <4>2, <4>5
        <5>2. WorthAsking(query, found)' = todo'
          BY <3>1, <4>1 DEF world
        <5>3. QED
          BY <5>1, <5>2 DEF Judged
      <4>8. QED
        BY <4>3, <4>6, <4>7 DEF Course
    <3>3. CASE ~ SecondLook(d)
      <4>1. Conclude(d) /\ UNCHANGED todo
        BY <1>7, <2>3, <3>3 DEF Search
      <4>2. AtFirstSight
        BY <1>1, <2>1 DEF Judged
      <4>3. QED
        BY <1>6, <3>1, <3>3, <4>1, <4>2 DEF SecondLook
    <3>4. QED
      BY <3>2, <3>3
  <2>4. QED
    BY <2>2, <2>3
<1>8. ASSUME NEW answer, Alternatives(answer) PROVE Course'
  <2>1. pc = "alternatives" /\ todo # {}
    BY <1>8 DEF Alternatives
  <2> DEFINE i == CHOOSE j \in todo : \A k \in todo : j <= k
  <2>2. i \in todo
    <3>1. todo \subseteq Nat
      BY <1>1, <1>2, ListOfCandidates DEF Phases
    <3>2. QED
      BY <2>1, <3>1, Least
  <2> HIDE DEF i
  <2>3. CASE answer = "limited" /\ GiveUp(answer)
    BY <1>5, <2>1, <2>3
  <2>4. CASE /\ answer = "failed"
             /\ todo' = todo \ {i}
             /\ failed' = failed \cup {i}
             /\ UNCHANGED <<world, attached, pc, decision, outcome, ids, details>>
    <3>1. Given'
      BY <1>1, <2>4 DEF Given, world
    <3>2. Phases'
      BY <1>1, <2>2, <2>4 DEF Phases, world
    <3>3. Judged'
      BY <1>1, <2>1, <2>4 DEF Judged, Phases, world
    <3>4. QED
      BY <3>1, <3>2, <3>3 DEF Course
  <2>5. CASE /\ answer = "ok"
             /\ todo' = todo \ {i}
             /\ attached' = [attached EXCEPT ![i] = published[i]]
             /\ UNCHANGED <<world, pc, decision, outcome, ids, details, failed>>
    <3>1. i \in DOMAIN found
      BY <1>1, <2>2 DEF Phases
    <3>2. Given'
      BY <1>1, <2>5, <3>1 DEF Given, world
    <3>3. Phases'
      BY <1>1, <2>2, <2>5 DEF Phases, world
    <3>4. \A j \in DOMAIN found : attached'[j] = (IF j = i THEN published[i] ELSE attached[j])
      BY <1>1, <2>5 DEF Given
    <3>5. WorthAsking(query, found) \subseteq DOMAIN found
      BY DEF WorthAsking, InWindow
    <3>6. Judged'
      BY <1>1, <2>1, <2>5, <3>4, <3>5 DEF Judged, Phases, world
    <3>7. QED
      BY <3>2, <3>3, <3>6 DEF Course
  <2>6. QED
    BY <1>8, <2>3, <2>4, <2>5 DEF Alternatives, i
<1>9. CASE Rematch
  <2>1. LookedAgain
    BY <1>1, <1>9 DEF Rematch, Judged, LookedAgain
  <2>2. QED
    BY <1>6, <1>9, <2>1 DEF Rematch
<1>10. ASSUME NEW answer, ResolveIDs(answer) PROVE Course'
  <2>1. PICK extra \in SUBSET OwnIds : ids' = IF answer = "ok" THEN {"own"} \cup extra ELSE {"own"}
    BY <1>10 DEF ResolveIDs
  <2>2. pc = "ids" /\ pc' = "done" /\ UNCHANGED <<world, attached, todo, decision, outcome, details, failed>>
    BY <1>10 DEF ResolveIDs
  <2>3. Given' /\ Phases'
    BY <1>1, <2>1, <2>2 DEF Given, Phases, world
  <2>4. Judged'
    BY <1>1, <2>2 DEF Judged, Judgement, AtFirstSight, LookedAgain, world
  <2>5. QED
    BY <2>3, <2>4 DEF Course
<1>11. ASSUME NEW answer, FetchMetadata(answer) PROVE Course'
  <2>1. pc = "fetch"
    BY <1>11 DEF FetchMetadata
  <2>2. CASE GiveUp(answer)
    BY <1>5, <2>1, <2>2
  <2>3. CASE ~ GiveUp(answer)
    <3>1. /\ outcome' = "fetched" /\ pc' = "done"
          /\ UNCHANGED <<world, attached, todo, decision, ids, failed>>
      BY <1>11, <2>3 DEF FetchMetadata
    <3>2. Given' /\ Phases'
      BY <1>1, <3>1 DEF Given, Phases, world
    <3>3. Judged'
      BY <1>1, <2>1, <3>1 DEF Judged, world
    <3>4. QED
      BY <3>2, <3>3 DEF Course
  <2>4. QED
    BY <2>2, <2>3
<1>12. CASE UNCHANGED decideVars
  BY <1>1, <1>12 DEF Course, Given, Phases, Judged, Judgement, AtFirstSight, LookedAgain, decideVars, world
<1>13. QED
  BY <1>7, <1>8, <1>9, <1>10, <1>11, <1>12 DEF DecideNext

\* A decline is the matcher's, on all that could be had.
THEOREM DeclinesJudged == DecideSpec => []DeclinesAreJudged
<1>1. ASSUME Course PROVE DeclinesAreJudged
  <2> SUFFICES ASSUME outcome = "unmatched" PROVE DeclinesAreJudged
    BY DEF DeclinesAreJudged
  <2>1. decision.candidate = 0 /\ Judgement /\ found \in Seq(Candidates)
    BY <1>1 DEF Course, Judged, Given
  <2>2. decision.why \in Declines
    BY <2>1, MatchType DEF Judgement
  <2>3. decision.why = "no_title_match" =>
          \A i \in WorthAsking(query, found) : attached[i] = published[i] \/ i \in failed
    BY <2>1 DEF Judgement, LookedAgain
  <2>4. QED
    BY <2>1, <2>2, <2>3 DEF DeclinesAreJudged
<1>2. QED
  BY <1>1, InitCourse, CourseStays, PTL DEF DecideSpec

\* The one the tiers leave is nearest of all that are called that.
LEMMA MatchedAlone ==
  ASSUME Course
  PROVE  NeverOneOfSeveral
<1> DEFINE m == decision.candidate
           S == Titled(query, found, attached)
<1> SUFFICES ASSUME m # 0 PROVE NeverOneOfSeveral
  BY DEF NeverOneOfSeveral
<1>1. found \in Seq(Candidates) /\ Judgement /\ query.year \in Int
  BY DEF Course, Judged, Given
<1>2. PICK confidence \in Confidences : Chosen(query, found, attached, m, confidence)
  <2>1. ASSUME NEW kind, Match(query, found, attached) = Declined(kind) PROVE FALSE
    BY <1>1, <2>1 DEF Judgement, Declined
  <2>2. \E k \in Titled(query, found, attached), confidence \in Confidences :
          Chosen(query, found, attached, k, confidence) /\ Match(query, found, attached) = Matched(k, confidence)
    <3>1. \/ \E k \in Titled(query, found, attached), confidence \in Confidences :
               Chosen(query, found, attached, k, confidence) /\ Match(query, found, attached) = Matched(k, confidence)
          \/ \E kind \in Declines :
               /\ Match(query, found, attached) = Declined(kind)
               /\ kind = "no_title_match" => Titled(query, found, attached) = {}
      BY <1>1, MatchChooses
    <3>2. QED
      BY <2>1, <3>1
  <2>3. PICK k \in Titled(query, found, attached), confidence \in Confidences :
          Chosen(query, found, attached, k, confidence) /\ Match(query, found, attached) = Matched(k, confidence)
    BY <2>2
  <2>4. m = k
    BY <1>1, <2>3 DEF Judgement, Matched
  <2>5. QED
    BY <2>3, <2>4
<1>3. /\ query.title # Untitled /\ m \in S /\ m \in DOMAIN found
      /\ \/ query.year = 0 /\ S = {m}
         \/ query.year # 0 /\ Exact(query, found, S) = {m}
         \/ query.year # 0 /\ Exact(query, found, S) = {} /\ Near(query, found, S) = {m}
  BY <1>2 DEF Chosen, Titled
<1> HIDE DEF m
<1>4. \A i \in DOMAIN found : found[i].year \in Int
  BY <1>1, ListOfCandidates
<1>5. S \subseteq DOMAIN found
  BY DEF Titled
<1>6. query.year # 0 =>
        /\ Distance(m) <= 1
        /\ \A i \in S \ {m} : Distance(i) > Distance(m)
        /\ \A i \in DOMAIN found : i \notin InWindow(query, found) => Distance(i) > Distance(m)
  <2> SUFFICES ASSUME query.year # 0
               PROVE  /\ Distance(m) <= 1
                      /\ \A i \in S \ {m} : Distance(i) > Distance(m)
                      /\ \A i \in DOMAIN found : i \notin InWindow(query, found) => Distance(i) > Distance(m)
    OBVIOUS
  <2>1. \A i \in DOMAIN found :
          /\ Distance(i) \in Nat
          /\ Distance(i) = 0 <=> found[i].year = query.year
          /\ Distance(i) = 1 <=> found[i].year - query.year \in {-1, 1}
          /\ Distance(i) <= 1 => i \in InWindow(query, found)
    <3> SUFFICES ASSUME NEW i \in DOMAIN found
                 PROVE  /\ Distance(i) \in Nat
                        /\ Distance(i) = 0 <=> found[i].year = query.year
                        /\ Distance(i) = 1 <=> found[i].year - query.year \in {-1, 1}
                        /\ Distance(i) <= 1 => i \in InWindow(query, found)
      OBVIOUS
    <3>1. found[i].year \in Int /\ query.year \in Int
      BY <1>1, <1>4
    <3>2. i \in InWindow(query, found) <=> found[i].year - query.year \in -1 .. 1
      BY DEF InWindow
    <3>3. Distance(i) = IF found[i].year >= query.year THEN found[i].year - query.year
                                                       ELSE query.year - found[i].year
      BY DEF Distance
    <3>4. QED
      BY <3>1, <3>2, <3>3
  <2>2. CASE Exact(query, found, S) = {m}
    <3>1. Distance(m) = 0
      BY <1>3, <2>1, <2>2 DEF Exact
    <3>2. \A i \in S \ {m} : Distance(i) # 0
      BY <1>5, <2>1, <2>2 DEF Exact
    <3> HIDE DEF S
    <3>3. QED
      BY <1>3, <1>5, <2>1, <3>1, <3>2
  <2>3. CASE Exact(query, found, S) = {} /\ Near(query, found, S) = {m}
    <3>1. Distance(m) = 1
      BY <1>3, <2>1, <2>3 DEF Near
    <3>2. \A i \in S \ {m} : Distance(i) # 0 /\ Distance(i) # 1
      BY <1>5, <2>1, <2>3 DEF Exact, Near
    <3> HIDE DEF S
    <3>3. QED
      BY <1>3, <1>5, <2>1, <3>1, <3>2
  <2>4. QED
    BY <1>3, <2>2, <2>3
<1>7. ASSUME NEW i \in DOMAIN found \ {m}, i \in S
      PROVE  query.year # 0 /\ Distance(i) > Distance(m)
  BY <1>3, <1>6, <1>7
<1>8. ASSUME NEW i \in DOMAIN found \ {m}, AllAsked, found[m].title # query.title, CalledThat(i)
      PROVE  query.year # 0 /\ Distance(i) > Distance(m)
  <2>1. query.year # 0
    BY <1>8 DEF AllAsked
  <2>2. CASE i \notin InWindow(query, found)
    BY <1>6, <2>1, <2>2
  <2>3. CASE i \in InWindow(query, found)
    <3>1. attached[m] # {}
      BY <1>3, <1>8 DEF Titled
    <3>2. LookedAgain
      BY <1>1, <1>3, <3>1 DEF Judgement, AtFirstSight
    <3>3. attached[i] = published[i]
      BY <1>8, <2>3, <3>2 DEF AllAsked, LookedAgain
    <3>4. i \in S
      BY <1>8, <3>3 DEF CalledThat, Titled
    <3>5. QED
      BY <1>7, <3>4
  <2>4. QED
    BY <2>2, <2>3
<1>9. \A i \in DOMAIN found : found[i].title = query.title \/ query.title \in attached[i] => i \in S
  BY DEF Titled
<1>10. QED
  <2> HIDE DEF S
  <2>1. /\ query.title # Untitled
        /\ query.year # 0 => Distance(m) <= 1
    BY <1>3, <1>6
  <2>2. ASSUME NEW i \in DOMAIN found \ {m},
               \/ found[i].title = query.title
               \/ query.title \in attached[i]
               \/ AllAsked /\ found[m].title # query.title /\ CalledThat(i)
        PROVE  query.year # 0 /\ Distance(i) > Distance(m)
    BY <1>7, <1>8, <1>9, <2>2
  <2>3. QED
    BY <2>1, <2>2 DEF NeverOneOfSeveral, m

\* A match agrees best of everything that was compared, and of everybody in the
\* window when they were all asked.
THEOREM MatchesStandAlone == DecideSpec => []NeverOneOfSeveral
  BY InitCourse, CourseStays, MatchedAlone, PTL DEF DecideSpec

\* Numbers taken the other way round.
LEMMA Mirrored ==
  ASSUME NEW n \in Nat, NEW A \in SUBSET (1..n), NEW B \in SUBSET (1..n),
         \A i \in 1..n : i \in B <=> n + 1 - i \in A
  PROVE  /\ A = {} => B = {}
         /\ \A k : A = {k} => B = {n + 1 - k}
<1>1. \A i \in 1..n : n + 1 - i \in 1..n /\ n + 1 - (n + 1 - i) = i
  OBVIOUS
<1>2. ASSUME A = {} PROVE B = {}
  BY <1>2
<1>3. ASSUME NEW k, A = {k} PROVE B = {n + 1 - k}
  <2>1. k \in 1..n
    BY <1>3
  <2>2. n + 1 - k \in B
    BY <1>1, <1>3, <2>1
  <2>3. ASSUME NEW i \in B PROVE i = n + 1 - k
    <3>1. i \in 1..n /\ n + 1 - i = k
      BY <1>3, <2>3
    <3>2. QED
      BY <2>1, <3>1
  <2>4. QED
    BY <2>2, <2>3
<1>4. QED
  BY <1>2, <1>3

LEMMA TurnedAlike ==
  ASSUME Course
  PROVE  RankingIrrelevant
<1> SUFFICES ASSUME pc = "ids" PROVE RankingIrrelevant
  BY DEF RankingIrrelevant
<1> DEFINE turned == [i \in DOMAIN found |-> found[Opposite(i)]]
           others == [i \in DOMAIN found |-> attached[Opposite(i)]]
           S == Titled(query, found, attached)
           T == Titled(query, turned, others)
           n == Len(found)
<1>1. found \in Seq(Candidates) /\ Judgement /\ decision.candidate # 0
  BY DEF Course, Judged, Given
<1>2. DOMAIN found = 1..n /\ n \in Nat
  BY <1>1
<1>3. \A i \in 1..n : Opposite(i) \in 1..n /\ Opposite(i) = n + 1 - i
  BY <1>2 DEF Opposite
<1>4. /\ turned \in Seq(Candidates)
      /\ DOMAIN turned = 1..n
      /\ \A i \in 1..n : turned[i] = found[n + 1 - i] /\ others[i] = attached[n + 1 - i]
  <2>1. /\ DOMAIN turned = 1..n
        /\ \A i \in 1..n : turned[i] = found[n + 1 - i] /\ others[i] = attached[n + 1 - i]
    BY <1>2, <1>3
  <2>2. \A i \in 1..n : found[i] \in Candidates
    BY <1>1, <1>2
  <2>3. turned \in [1..n -> Candidates]
    BY <1>2, <1>3, <2>2
  <2>4. QED
    BY <1>2, <2>1, <2>3
<1>5. PICK k \in S, confidence \in Confidences :
        Chosen(query, found, attached, k, confidence) /\ decision = Matched(k, confidence)
  <2>1. ASSUME NEW kind, Match(query, found, attached) = Declined(kind) PROVE FALSE
    BY <1>1, <2>1 DEF Judgement, Declined
  <2>2. \/ \E k \in Titled(query, found, attached), confidence \in Confidences :
             Chosen(query, found, attached, k, confidence) /\ Match(query, found, attached) = Matched(k, confidence)
        \/ \E kind \in Declines :
             /\ Match(query, found, attached) = Declined(kind)
             /\ kind = "no_title_match" => Titled(query, found, attached) = {}
    BY <1>1, MatchChooses
  <2>3. QED
    BY <1>1, <2>1, <2>2 DEF Judgement
<1>6. Chosen(query, turned, others, n + 1 - k, confidence)
  <2> HIDE DEF turned, others, n
  <2>1. S \subseteq 1..n /\ T \subseteq 1..n
    BY <1>2, <1>4 DEF Titled
  <2>2. \A i \in 1..n : i \in T <=> n + 1 - i \in S
    BY <1>2, <1>3, <1>4 DEF Titled
  <2>3. \A i \in 1..n : i \in Exact(query, turned, T) <=> n + 1 - i \in Exact(query, found, S)
    BY <1>4, <2>2 DEF Exact
  <2>4. \A i \in 1..n : i \in Near(query, turned, T) <=> n + 1 - i \in Near(query, found, S)
    BY <1>4, <2>2 DEF Near
  <2>5. /\ Exact(query, found, S) \subseteq 1..n /\ Exact(query, turned, T) \subseteq 1..n
        /\ Near(query, found, S) \subseteq 1..n /\ Near(query, turned, T) \subseteq 1..n
    BY <2>1 DEF Exact, Near
  <2>6. \A j : S = {j} => T = {n + 1 - j}
    BY <1>2, <2>1, <2>2, Mirrored
  <2>7. /\ Exact(query, found, S) = {} => Exact(query, turned, T) = {}
        /\ \A j : Exact(query, found, S) = {j} => Exact(query, turned, T) = {n + 1 - j}
    BY <1>2, <2>3, <2>5, Mirrored
  <2>8. \A j : Near(query, found, S) = {j} => Near(query, turned, T) = {n + 1 - j}
    BY <1>2, <2>4, <2>5, Mirrored
  <2>9. n + 1 - k \in T
    <3>1. k \in 1..n /\ n + 1 - (n + 1 - k) = k /\ n + 1 - k \in 1..n
      BY <1>2, <2>1
    <3>2. QED
      BY <2>2, <3>1
  <2>10. turned # <<>>
    <3>1. n + 1 - k \in DOMAIN turned
      BY <1>4, <2>1, <2>9
    <3>2. DOMAIN << >> = {}
      OBVIOUS
    <3>3. QED
      BY <3>1, <3>2
  <2>11. /\ query.title # Untitled
         /\ \/ query.year = 0 /\ S = {k} /\ confidence = "title_only"
            \/ query.year # 0 /\ Exact(query, found, S) = {k} /\ confidence = "exact"
            \/ /\ query.year # 0 /\ Exact(query, found, S) = {}
               /\ Near(query, found, S) = {k} /\ confidence = "year_near"
    BY <1>5 DEF Chosen
  <2>12. \/ query.year = 0 /\ T = {n + 1 - k} /\ confidence = "title_only"
         \/ query.year # 0 /\ Exact(query, turned, T) = {n + 1 - k} /\ confidence = "exact"
         \/ /\ query.year # 0 /\ Exact(query, turned, T) = {}
            /\ Near(query, turned, T) = {n + 1 - k} /\ confidence = "year_near"
    <3> HIDE DEF S, T
    <3>1. QED
      BY <2>6, <2>7, <2>8, <2>11
  <2>13. QED
    BY <2>9, <2>10, <2>11, <2>12 DEF Chosen
<1>7. Match(query, turned, others) = Matched(n + 1 - k, confidence)
  <2> HIDE DEF turned, others
  <2>1. turned \in Seq(Candidates)
    BY <1>4
  <2>2. QED
    BY <1>6, <2>1, MatchChooses
<1>8. k \in 1..n
  BY <1>2, <1>5 DEF Titled
<1> HIDE DEF turned, others
<1>9. Match(query, turned, others).why = decision.why
      /\ Match(query, turned, others).candidate = Opposite(decision.candidate)
  BY <1>5, <1>7 DEF Matched, Opposite
<1>10. QED
  BY <1>9 DEF RankingIrrelevant, turned, others

\* The provider's order decides nothing while everybody can be asked.
THEOREM RankingDecidesNothing == DecideSpec => []RankingIrrelevant
  BY InitCourse, CourseStays, TurnedAlike, PTL DEF DecideSpec

------------------------------------------------------------------------------
(* The picks.                                                              *)

\* The rules of images order them: no two files are alike.
LEMMA BetterOrders ==
  ASSUME NEW t
  PROVE  /\ \A a, b \in ImageCandidates : BetterImage(a, b, t) => ~BetterImage(b, a, t)
         /\ \A a, b, c \in ImageCandidates :
              BetterImage(a, b, t) /\ BetterImage(b, c, t) => BetterImage(a, c, t)
         /\ \A a, b \in ImageCandidates :
              a.path # b.path => BetterImage(a, b, t) \/ BetterImage(b, a, t)
<1>1. \A a : LanguageTier(a, t) \in 0..2
  BY DEF LanguageTier
<1>2. \A a \in ImageCandidates :
        a.path \in Nat /\ a.width \in Int /\ a.score \in Int /\ a.votes \in Int /\ MinImageVotes \in Int
  BY NumbersType DEF ImageCandidates
<1>3. \A a, b : BetterImage(a, b, t) <=>
        \/ LanguageTier(a, t) < LanguageTier(b, t)
        \/ /\ LanguageTier(a, t) = LanguageTier(b, t)
           /\ \/ Credible(a) /\ ~Credible(b)
              \/ Credible(a) /\ Credible(b) /\ a.score > b.score
              \/ /\ Credible(a) <=> Credible(b)
                 /\ Credible(a) => a.score = b.score
                 /\ a.width > b.width \/ (a.width = b.width /\ a.path < b.path)
  BY DEF BetterImage, Credible
<1>4. ASSUME NEW a \in ImageCandidates, NEW b \in ImageCandidates, BetterImage(a, b, t)
      PROVE  ~BetterImage(b, a, t)
  BY <1>1, <1>2, <1>3, <1>4
<1>5. ASSUME NEW a \in ImageCandidates, NEW b \in ImageCandidates, NEW c \in ImageCandidates,
             BetterImage(a, b, t), BetterImage(b, c, t)
      PROVE  BetterImage(a, c, t)
  BY <1>1, <1>2, <1>3, <1>5
<1>6. ASSUME NEW a \in ImageCandidates, NEW b \in ImageCandidates, a.path # b.path
      PROVE  BetterImage(a, b, t) \/ BetterImage(b, a, t)
  BY <1>1, <1>2, <1>3, <1>6
<1>7. QED
  BY <1>4, <1>5, <1>6

\* What a look along the list has in hand after n images, given what it had
\* in hand before.
InHand(c, t, g, n) ==
  IF n = 0 THEN NoImage
  ELSE IF c[n].path = NoPath THEN g[n - 1]
  ELSE IF g[n - 1] = NoImage \/ BetterImage(c[n], g[n - 1], t) THEN c[n]
  ELSE g[n - 1]

\* A list is looked along to its end.
LEMMA Looked ==
  ASSUME NEW c, Len(c) \in Nat, NEW t
  PROVE  \E f : /\ \A n \in 0..Len(c) : f[n] = InHand(c, t, f, n)
                /\ BestImage(c, t) = f[Len(c)]
<1> DEFINE Way(k) == \E g : g = [n \in 0..k |-> InHand(c, t, g, n)]
<1>1. ASSUME NEW k \in Nat, k # 0, Way(k - 1) PROVE Way(k)
  <2>1. PICK g : g = [n \in 0..k - 1 |-> InHand(c, t, g, n)]
    BY <1>1
  <2> DEFINE h == [n \in 0..k |-> IF n = k THEN InHand(c, t, g, k) ELSE g[n]]
  <2>2. \A n \in 0..k - 1 : h[n] = g[n] /\ g[n] = InHand(c, t, g, n)
    <3>1. \A n \in 0..k - 1 : n \in 0..k /\ n # k
      BY <1>1
    <3>2. \A n \in 0..k - 1 : h[n] = g[n]
      BY <3>1
    <3>3. \A n \in 0..k - 1 : [j \in 0..k - 1 |-> InHand(c, t, g, j)][n] = InHand(c, t, g, n)
      OBVIOUS
    <3>4. \A n \in 0..k - 1 : g[n] = InHand(c, t, g, n)
      BY <2>1, <3>3, Zenon
    <3>5. QED
      BY <3>2, <3>4
  <2>3. ASSUME NEW n \in 0..k PROVE h[n] = InHand(c, t, h, n)
    <3>1. CASE n = 0
      <4>1. h[0] = g[0] /\ g[0] = InHand(c, t, g, 0)
        <5>1. 0 \in 0..k - 1
          BY <1>1
        <5> HIDE DEF h
        <5>2. QED
          BY <2>2, <5>1
      <4>2. QED
        BY <3>1, <4>1 DEF InHand
    <3>2. CASE n # 0
      <4>1. n - 1 \in 0..k - 1 /\ h[n - 1] = g[n - 1]
        BY <1>1, <2>2, <3>2
      <4>2. h[n] = InHand(c, t, g, n)
        <5>1. CASE n = k
          BY <1>1, <5>1
        <5>2. CASE n # k
          <6>1. n \in 0..k - 1
            BY <1>1, <5>2
          <6>2. QED
            BY <2>2, <6>1
        <5>3. QED
          BY <5>1, <5>2
      <4>3. InHand(c, t, g, n) = InHand(c, t, h, n)
        <5> HIDE DEF h
        <5>1. QED
          BY <4>1 DEF InHand
      <4>4. QED
        BY <4>2, <4>3
    <3>3. QED
      BY <3>1, <3>2
  <2>4. DOMAIN h = 0..k /\ h = [n \in 0..k |-> h[n]]
    OBVIOUS
  <2> HIDE DEF h
  <2>5. h = [n \in 0..k |-> InHand(c, t, h, n)]
    BY <2>3, <2>4
  <2>6. QED
    BY <2>5
<1>2. Way(0)
  <2> DEFINE h == [n \in 0..0 |-> NoImage]
  <2>1. \A n \in 0..0 : InHand(c, t, h, n) = NoImage
    BY DEF InHand
  <2>2. h = [n \in 0..0 |-> InHand(c, t, h, n)]
    BY <2>1
  <2>3. QED
    BY <2>2
<1> HIDE DEF Way
<1>3. \A k \in Nat : Way(k)
  <2> DEFINE Lost == {k \in Nat : ~Way(k)}
  <2> SUFFICES ASSUME Lost # {} PROVE FALSE
    OBVIOUS
  <2>1. PICK k \in Lost : \A j \in Lost : k <= j
    BY Least
  <2>2. k # 0
    BY <1>2, <2>1
  <2>3. k - 1 \in Nat /\ k - 1 \notin Lost
    BY <2>1, <2>2
  <2>4. QED
    BY <1>1, <2>1, <2>2, <2>3
<1> DEFINE L == Len(c)
           f == CHOOSE g : g = [n \in 0..L |-> InHand(c, t, g, n)]
<1>4. f = [n \in 0..L |-> InHand(c, t, f, n)]
  BY <1>3 DEF Way
<1>5. BestImage(c, t) = f[L]
  BY DEF BestImage, InHand
<1> HIDE DEF f
<1>6. \A n \in 0..L : f[n] = InHand(c, t, f, n)
  BY <1>4
<1>7. QED
  BY <1>5, <1>6

\* The images of a list, no file twice.
Listing(c) ==
  /\ c \in Seq(ImageCandidates)
  /\ \A i, j \in DOMAIN c : i # j => c[i].path # c[j].path

\* The image of the list that is better than every other usable one.
Best(c, t, i) ==
  /\ i \in DOMAIN c /\ c[i].path # NoPath
  /\ \A j \in DOMAIN c \ {i} : c[j].path # NoPath => BetterImage(c[i], c[j], t)

\* The look along the list ends with the best there is, and with nothing only
\* where nothing is usable.
LEMMA BestIsBest ==
  ASSUME NEW c, Listing(c), NEW t
  PROVE  \/ BestImage(c, t) = NoImage /\ \A i \in DOMAIN c : c[i].path = NoPath
         \/ \E i : Best(c, t, i) /\ BestImage(c, t) = c[i]
<1> DEFINE L == Len(c)
<1>1. L \in Nat /\ DOMAIN c = 1..L /\ \A i \in 1..L : c[i] \in ImageCandidates
  BY DEF Listing
<1>2. PICK f : /\ \A n \in 0..L : f[n] = InHand(c, t, f, n)
               /\ BestImage(c, t) = f[L]
  BY <1>1, Looked
<1>3. NoImage.path = NoPath
  BY Zenon DEF NoImage
<1> DEFINE BestUpTo(n, i) == /\ i \in 1..n /\ c[i].path # NoPath
                             /\ \A j \in (1..n) \ {i} : c[j].path # NoPath => BetterImage(c[i], c[j], t)
           Right(n) == \/ f[n] = NoImage /\ \A i \in 1..n : c[i].path = NoPath
                       \/ \E i : BestUpTo(n, i) /\ f[n] = c[i]
<1>4. Right(0)
  BY <1>1, <1>2 DEF InHand
<1>5. ASSUME NEW n \in 1..L, Right(n - 1) PROVE Right(n)
  <2>1. f[n] = IF c[n].path = NoPath THEN f[n - 1]
               ELSE IF f[n - 1] = NoImage \/ BetterImage(c[n], f[n - 1], t) THEN c[n]
               ELSE f[n - 1]
    BY <1>1, <1>2 DEF InHand
  <2>2. n \in Nat /\ 1..n = (1..n - 1) \cup {n} /\ n \notin 1..n - 1 /\ 1..n \subseteq 1..L
    BY <1>1
  <2>3. CASE c[n].path = NoPath
    <3>1. f[n] = f[n - 1]
      BY <2>1, <2>3
    <3>2. \A i : BestUpTo(n - 1, i) => BestUpTo(n, i)
      BY <2>2, <2>3
    <3>3. (\A i \in 1..n - 1 : c[i].path = NoPath) => \A i \in 1..n : c[i].path = NoPath
      BY <2>2, <2>3
    <3> HIDE DEF BestUpTo
    <3>4. QED
      BY <1>5, <3>1, <3>2, <3>3
  <2>4. CASE c[n].path # NoPath /\ f[n - 1] = NoImage
    <3>1. f[n] = c[n]
      BY <2>1, <2>4
    <3>2. \A i \in 1..n - 1 : c[i].path = NoPath
      <4>1. ASSUME NEW i, BestUpTo(n - 1, i), f[n - 1] = c[i] PROVE FALSE
        BY <1>3, <2>4, <4>1
      <4> HIDE DEF BestUpTo
      <4>2. QED
        BY <1>5, <4>1
    <3>3. BestUpTo(n, n)
      BY <2>2, <2>4, <3>2
    <3>4. QED
      BY <3>1, <3>3
  <2>5. CASE c[n].path # NoPath /\ f[n - 1] # NoImage
    <3>1. PICK i : BestUpTo(n - 1, i) /\ f[n - 1] = c[i]
      <4> HIDE DEF BestUpTo
      <4>1. QED
        BY <1>5, <2>5
    <3>2. i \in 1..L /\ n \in 1..L /\ c[i] \in ImageCandidates /\ c[n] \in ImageCandidates
      BY <1>1, <2>2, <3>1
    <3>3. CASE BetterImage(c[n], c[i], t)
      <4>1. f[n] = c[n]
        BY <2>1, <2>5, <3>1, <3>3
      <4>2. ASSUME NEW j \in 1..n - 1, c[j].path # NoPath PROVE BetterImage(c[n], c[j], t)
        <5>1. CASE j = i
          BY <3>3, <5>1
        <5>2. CASE j # i
          <6>1. BetterImage(c[i], c[j], t) /\ c[j] \in ImageCandidates
            BY <1>1, <2>2, <3>1, <4>2, <5>2
          <6>2. QED
            BY <3>2, <3>3, <6>1, BetterOrders
        <5>3. QED
          BY <5>1, <5>2
      <4>3. BestUpTo(n, n)
        BY <2>2, <2>5, <4>2
      <4>4. QED
        BY <4>1, <4>3
    <3>4. CASE ~ BetterImage(c[n], c[i], t)
      <4>1. f[n] = c[i]
        BY <2>1, <2>5, <3>1, <3>4
      <4>2. BetterImage(c[i], c[n], t)
        <5>1. c[i].path # c[n].path
          <6>1. i # n /\ i \in DOMAIN c /\ n \in DOMAIN c
            BY <1>1, <2>2, <3>1
          <6>2. QED
            BY <6>1 DEF Listing
        <5>2. QED
          BY <3>2, <3>4, <5>1, BetterOrders
      <4>3. BestUpTo(n, i)
        BY <2>2, <3>1, <4>2
      <4>4. QED
        BY <4>1, <4>3
    <3>5. QED
      BY <3>3, <3>4
  <2>6. QED
    BY <2>3, <2>4, <2>5
<1> HIDE DEF Right
<1>6. \A n \in 0..L : Right(n)
  <2> DEFINE Wrong == {n \in 0..L : ~Right(n)}
  <2> SUFFICES ASSUME Wrong # {} PROVE FALSE
    OBVIOUS
  <2>1. PICK n \in Wrong : \A k \in Wrong : n <= k
    <3>1. Wrong \subseteq Nat
      BY <1>1
    <3>2. QED
      BY <3>1, Least
  <2>2. n # 0
    BY <1>4, <2>1
  <2>3. n - 1 \in 0..L /\ n - 1 \notin Wrong /\ n \in 1..L
    BY <1>1, <2>1, <2>2
  <2>4. QED
    BY <1>5, <2>1, <2>3
<1>7. Right(L)
  BY <1>1, <1>6
<1>8. \A i : BestUpTo(L, i) <=> Best(c, t, i)
  BY <1>1 DEF Best
<1> HIDE DEF BestUpTo
<1>9. QED
  BY <1>1, <1>2, <1>7, <1>8 DEF Right

\* There is one best of the images two lists share, in whatever order.
LEMMA OneBest ==
  ASSUME NEW c, Listing(c), NEW d, Listing(d), NEW t,
         \A i \in DOMAIN c : \E j \in DOMAIN d : d[j] = c[i],
         \A j \in DOMAIN d : \E i \in DOMAIN c : c[i] = d[j]
  PROVE  BestImage(c, t) = BestImage(d, t)
<1>1. \/ BestImage(c, t) = NoImage /\ \A i \in DOMAIN c : c[i].path = NoPath
      \/ \E i : Best(c, t, i) /\ BestImage(c, t) = c[i]
  BY BestIsBest
<1>2. \/ BestImage(d, t) = NoImage /\ \A i \in DOMAIN d : d[i].path = NoPath
      \/ \E i : Best(d, t, i) /\ BestImage(d, t) = d[i]
  BY BestIsBest
<1>3. /\ \A i \in DOMAIN c : c[i] \in ImageCandidates
      /\ \A i \in DOMAIN d : d[i] \in ImageCandidates
  BY DEF Listing
<1>4. ASSUME NEW i, Best(c, t, i), NEW j, Best(d, t, j) PROVE c[i] = d[j]
  <2> SUFFICES ASSUME c[i] # d[j] PROVE FALSE
    OBVIOUS
  <2>1. i \in DOMAIN c /\ j \in DOMAIN d /\ c[i].path # NoPath /\ d[j].path # NoPath
    BY <1>4 DEF Best
  <2>2. PICK k \in DOMAIN d : d[k] = c[i]
    BY <2>1
  <2>3. PICK l \in DOMAIN c : c[l] = d[j]
    BY <2>1
  <2>4. BetterImage(d[j], c[i], t)
    BY <1>4, <2>1, <2>2 DEF Best
  <2>5. BetterImage(c[i], d[j], t)
    BY <1>4, <2>1, <2>3 DEF Best
  <2>6. QED
    BY <1>3, <2>1, <2>4, <2>5, BetterOrders
<1>5. ASSUME NEW i, Best(c, t, i) PROVE ~ \A j \in DOMAIN d : d[j].path = NoPath
  BY <1>5 DEF Best
<1>6. ASSUME NEW j, Best(d, t, j) PROVE ~ \A i \in DOMAIN c : c[i].path = NoPath
  BY <1>6 DEF Best
<1>7. QED
  BY <1>1, <1>2, <1>4, <1>5, <1>6

\* What the details come to is what is in them.
Fetched ==
  /\ Listing(images) /\ releases \in Seq(Releases)
  /\ outcome = "fetched" =>
       /\ \A t \in ImageTypes : art[t] = BestImage(images, t)
       /\ rating = OfficialRating(releases, Region)
  /\ outcome # "fetched" =>
       /\ \A t \in ImageTypes : art[t] = NoImage
       /\ rating = NoRating

LEMMA InitFetched == DecideInit => Fetched
<1> SUFFICES ASSUME DecideInit PROVE Fetched
  OBVIOUS
<1>1. ASSUME NEW n \in Nat, NEW S, NEW c \in UpTo(n, S) PROVE c \in Seq(S)
  <2>1. PICK k \in 0..n : c \in [1..k -> S]
    BY <1>1 DEF UpTo
  <2>2. k \in Nat
    BY <1>1
  <2>3. QED
    BY <2>1, <2>2
<1>2. Listing(images)
  <2>1. CASE images = <<>>
    <3>1. images \in Seq(ImageCandidates) /\ DOMAIN images = {}
      BY <2>1
    <3>2. QED
      BY <3>1 DEF Listing
  <2>2. CASE images \in Listings
    <3>1. /\ images \in UpTo(MaxImages, ImageCandidates)
          /\ \A i, j \in DOMAIN images : i # j => images[i].path # images[j].path
      BY <2>2 DEF Listings
    <3>2. QED
      BY <1>1, <3>1, DecideAssumption DEF Listing
  <2>3. QED
    BY <2>1, <2>2 DEF DecideInit
<1>3. releases \in Seq(Releases)
  <2>1. CASE releases = <<>>
    BY <2>1
  <2>2. CASE releases \in UpTo(2, Releases)
    BY <1>1, <2>2
  <2>3. QED
    BY <2>1, <2>2 DEF DecideInit
<1>4. outcome = "none" /\ rating = NoRating /\ \A t \in ImageTypes : art[t] = NoImage
  BY DEF DecideInit
<1>5. QED
  BY <1>2, <1>3, <1>4 DEF Fetched

LEMMA FetchedStays ==
  ASSUME Course, Fetched, [DecideNext]_decideVars
  PROVE  Fetched'
<1>1. ASSUME UNCHANGED <<world, details>>, outcome # "fetched", outcome' # "fetched" PROVE Fetched'
  BY <1>1 DEF Fetched, world, details
<1>2. pc \in {"search", "alternatives", "fetch"} => outcome = "none"
  BY DEF Course, Judged
<1>3. ASSUME NEW answer, GiveUp(answer), pc \in {"search", "alternatives", "fetch"} PROVE Fetched'
  BY <1>1, <1>2, <1>3 DEF GiveUp
<1>4. ASSUME NEW answer, Search(answer) PROVE Fetched'
  <2>1. CASE GiveUp(answer)
    BY <1>3, <1>4, <2>1 DEF Search
  <2>2. CASE ~ GiveUp(answer)
    BY <1>1, <1>2, <1>4, <2>2 DEF Search, Conclude
  <2>3. QED
    BY <2>1, <2>2
<1>5. ASSUME NEW answer, Alternatives(answer) PROVE Fetched'
  <2>1. CASE GiveUp(answer)
    BY <1>3, <1>5, <2>1 DEF Alternatives
  <2>2. CASE ~ GiveUp(answer)
    BY <1>1, <1>2, <1>5, <2>2 DEF Alternatives
  <2>3. QED
    BY <2>1, <2>2
<1>6. CASE Rematch
  BY <1>1, <1>2, <1>6 DEF Rematch, Conclude
<1>7. ASSUME UNCHANGED <<world, details, outcome>> PROVE Fetched'
  BY <1>7 DEF Fetched, world, details
<1>8. ASSUME NEW answer, ResolveIDs(answer) PROVE Fetched'
  BY <1>7, <1>8 DEF ResolveIDs
<1>9. ASSUME NEW answer, FetchMetadata(answer) PROVE Fetched'
  <2>1. CASE GiveUp(answer)
    BY <1>3, <1>9, <2>1 DEF FetchMetadata
  <2>2. CASE ~ GiveUp(answer)
    <3>1. /\ art' = [t \in ImageTypes |-> BestImage(images, t)]
          /\ rating' = OfficialRating(releases, Region)
          /\ outcome' = "fetched"
          /\ UNCHANGED <<images, releases>>
      BY <1>9, <2>2 DEF FetchMetadata, world
    <3>2. \A t \in ImageTypes : art'[t] = BestImage(images', t)
      BY <3>1
    <3>3. rating' = OfficialRating(releases', Region)
      BY <3>1
    <3>4. Listing(images') /\ releases' \in Seq(Releases)
      BY <3>1 DEF Fetched
    <3>5. QED
      BY <3>1, <3>2, <3>3, <3>4 DEF Fetched
  <2>3. QED
    BY <2>1, <2>2
<1>10. CASE UNCHANGED decideVars
  BY <1>7, <1>10 DEF decideVars
<1>11. QED
  BY <1>4, <1>5, <1>6, <1>8, <1>9, <1>10 DEF DecideNext

\* Numbers given out one to one among themselves all go out.
LEMMA OrdersAreOnto ==
  ASSUME NEW n \in Nat, NEW p \in [1..n -> 1..n], \A i, j \in 1..n : p[i] = p[j] => i = j
  PROVE  \A j \in 1..n : \E i \in 1..n : p[i] = j
<1>1. p \in Injection(1..n, 1..n)
  BY DEF Injection, IsInjective
<1>2. IsFiniteSet(1..n)
  BY FS_Interval
<1>3. p \in Surjection(1..n, 1..n)
  BY <1>1, <1>2, FS_Injection
<1>4. QED
  BY <1>3 DEF Surjection

\* The images are kept whatever their order, and are the best.
LEMMA BestKept ==
  ASSUME Fetched
  PROVE  BestInAnyOrder
<1> SUFFICES ASSUME outcome = "fetched", NEW t \in ImageTypes
             PROVE  /\ \A p \in Orders : BestImage([i \in DOMAIN images |-> images[p[i]]], t) = art[t]
                    /\ \A i \in DOMAIN images : images[i].path # NoPath =>
                         /\ art[t] # NoImage
                         /\ LanguageTier(art[t], t) <= LanguageTier(images[i], t)
                         /\ LanguageTier(art[t], t) = LanguageTier(images[i], t) /\ Credible(images[i]) =>
                              Credible(art[t]) /\ art[t].score >= images[i].score
  BY DEF BestInAnyOrder
<1> DEFINE n == Len(images)
<1>1. Listing(images) /\ art[t] = BestImage(images, t)
  BY DEF Fetched
<1>2. n \in Nat /\ DOMAIN images = 1..n /\ \A i \in 1..n : images[i] \in ImageCandidates
  BY <1>1 DEF Listing
<1>3. ASSUME NEW p \in Orders
      PROVE  BestImage([i \in DOMAIN images |-> images[p[i]]], t) = art[t]
  <2> DEFINE d == [i \in DOMAIN images |-> images[p[i]]]
  <2>1. p \in [1..n -> 1..n] /\ \A i, j \in 1..n : p[i] = p[j] => i = j
    BY <1>2 DEF Orders
  <2>2. \A j \in 1..n : \E i \in 1..n : p[i] = j
    <3> HIDE DEF n
    <3>1. QED
      BY <1>2, <2>1, OrdersAreOnto
  <2>3. DOMAIN d = 1..n /\ \A i \in 1..n : p[i] \in 1..n /\ d[i] = images[p[i]]
    BY <1>2, <2>1
  <2>4. Listing(d)
    <3>1. d \in [1..n -> ImageCandidates]
      BY <1>2, <2>1
    <3>2. d \in Seq(ImageCandidates)
      BY <1>2, <3>1
    <3> HIDE DEF d
    <3>3. \A i, j \in 1..n : i # j => images[i].path # images[j].path
      BY <1>1, <1>2 DEF Listing
    <3>4. \A i, j \in 1..n : i # j => d[i].path # d[j].path
      BY <2>1, <2>3, <3>3
    <3>5. QED
      BY <2>3, <3>2, <3>4 DEF Listing
  <2> HIDE DEF d
  <2>5. /\ \A i \in DOMAIN d : \E j \in DOMAIN images : images[j] = d[i]
        /\ \A j \in DOMAIN images : \E i \in DOMAIN d : d[i] = images[j]
    <3> HIDE DEF n
    <3>1. \A i \in DOMAIN d : \E j \in DOMAIN images : images[j] = d[i]
      BY <1>2, <2>3, Zenon
    <3>2. \A j \in DOMAIN images : \E i \in DOMAIN d : d[i] = images[j]
      <4>1. ASSUME NEW j \in 1..n PROVE \E i \in 1..n : d[i] = images[j]
        <5>1. PICK i \in 1..n : p[i] = j
          BY <2>2
        <5>2. d[i] = images[j]
          BY <2>3, <5>1
        <5>3. QED
          BY <5>2
      <4>2. QED
        BY <1>2, <2>3, <4>1
    <3>3. QED
      BY <3>1, <3>2
  <2>6. BestImage(d, t) = BestImage(images, t)
    BY <1>1, <2>4, <2>5, OneBest
  <2>7. QED
    BY <1>1, <2>6 DEF d
<1>4. ASSUME NEW i \in DOMAIN images, images[i].path # NoPath
      PROVE  /\ art[t] # NoImage
             /\ LanguageTier(art[t], t) <= LanguageTier(images[i], t)
             /\ LanguageTier(art[t], t) = LanguageTier(images[i], t) /\ Credible(images[i]) =>
                  Credible(art[t]) /\ art[t].score >= images[i].score
  <2>1. PICK k : Best(images, t, k) /\ art[t] = images[k]
    BY <1>1, <1>4, BestIsBest
  <2>2. art[t] # NoImage
    <3>1. NoImage.path = NoPath
      BY Zenon DEF NoImage
    <3>2. QED
      BY <2>1, <3>1 DEF Best
  <2>3. images[i] = images[k] \/ BetterImage(images[k], images[i], t)
    BY <1>4, <2>1 DEF Best
  <2>4. \A a : LanguageTier(a, t) \in 0..2
    BY DEF LanguageTier
  <2>5. /\ images[i] \in ImageCandidates /\ images[k] \in ImageCandidates
    BY <1>2, <1>4, <2>1 DEF Best
  <2>6. \A a \in ImageCandidates : a.score \in Int /\ a.votes \in Int /\ MinImageVotes \in Int
    BY NumbersType DEF ImageCandidates
  <2>7. BetterImage(images[k], images[i], t) =>
          \/ LanguageTier(images[k], t) < LanguageTier(images[i], t)
          \/ /\ LanguageTier(images[k], t) = LanguageTier(images[i], t)
             /\ \/ Credible(images[k]) /\ ~Credible(images[i])
                \/ Credible(images[k]) /\ images[k].score > images[i].score
                \/ /\ Credible(images[k]) <=> Credible(images[i])
                   /\ Credible(images[k]) => images[k].score = images[i].score
    BY DEF BetterImage, Credible
  <2>8. QED
    BY <2>1, <2>2, <2>3, <2>4, <2>5, <2>6, <2>7
<1>5. QED
  BY <1>3, <1>4

\* The same details keep the same images, the best there are.
THEOREM ArtIsBest == DecideSpec => []BestInAnyOrder
  BY InitCourse, CourseStays, InitFetched, FetchedStays, BestKept, PTL DEF DecideSpec

\* A rating is the region's own.
LEMMA RatingOfRegion ==
  ASSUME NEW results \in Seq(Releases), NEW region,
         OfficialRating(results, region) # NoRating
  PROVE  \E r \in DOMAIN results :
           /\ results[r].region = region
           /\ OfficialRating(results, region) \in
                {results[r].certs[k] : k \in DOMAIN results[r].certs}
<1> DEFINE own == {r \in DOMAIN results : results[r].region = region}
           first == CHOOSE r \in own : \A s \in own : r <= s
           certs == results[first].certs
           given == {k \in DOMAIN certs : certs[k] # NoRating}
           least == CHOOSE k \in given : \A l \in given : k <= l
<1>1. own # {}
  BY DEF OfficialRating
<1>2. first \in own
  <2>1. own \subseteq Nat
    OBVIOUS
  <2>2. \E r \in own : \A s \in own : r <= s
    <3> HIDE DEF own
    <3>1. QED
      BY <1>1, <2>1, Least
  <2>3. QED
    BY <2>2
<1>3. certs \in Seq(STRING)
  <2>1. results[first] \in Releases
    BY <1>2
  <2>2. \A r \in Releases : r.certs \in Certs
    BY DEF Releases
  <2>3. QED
    BY <2>1, <2>2, DecideAssumption
<1>4. OfficialRating(results, region) = IF given = {} THEN NoRating ELSE certs[least]
  BY <1>1 DEF OfficialRating
<1>5. given # {}
  BY <1>4
<1>6. least \in given
  <2>1. given \subseteq Nat
    <3> HIDE DEF certs
    <3>1. DOMAIN certs = 1..Len(certs) /\ Len(certs) \in Nat
      BY <1>3
    <3>2. QED
      BY <3>1
  <2>2. \E k \in given : \A l \in given : k <= l
    <3> HIDE DEF given
    <3>1. QED
      BY <1>5, <2>1, Least
  <2>3. QED
    BY <2>2
<1>7. OfficialRating(results, region) = certs[least] /\ least \in DOMAIN certs
  BY <1>4, <1>5, <1>6
<1>8. first \in DOMAIN results /\ results[first].region = region
  BY <1>2
<1> HIDE DEF first, least
<1>9. QED
  BY <1>7, <1>8

\* Every variable holds what the code can put there.
THEOREM DecideTypeCorrect == DecideSpec => []DecideTypeOK
<1>1. ASSUME Course, Fetched PROVE DecideTypeOK
  <2>1. rating # NoRating =>
          \E r \in DOMAIN releases :
            releases[r].region = Region /\ rating \in {releases[r].certs[k] : k \in DOMAIN releases[r].certs}
    BY <1>1, RatingOfRegion DEF Fetched
  <2>2. query \in Queries \cup {NoQuery}
    BY <1>1 DEF Course, Given
  <2>3. \A i \in DOMAIN found : found[i] \in Candidates /\ attached[i] \subseteq published[i]
    BY <1>1 DEF Course, Given
  <2>4. \A t \in ImageTypes : art[t] \in {images[i] : i \in DOMAIN images} \cup {NoImage}
    <3> SUFFICES ASSUME NEW t \in ImageTypes
                 PROVE  art[t] \in {images[i] : i \in DOMAIN images} \cup {NoImage}
      OBVIOUS
    <3>1. CASE outcome # "fetched"
      BY <1>1, <3>1 DEF Fetched
    <3>2. CASE outcome = "fetched"
      <4>1. art[t] = BestImage(images, t) /\ Listing(images)
        BY <1>1, <3>2 DEF Fetched
      <4>2. QED
        BY <4>1, BestIsBest DEF Best
    <3>3. QED
      BY <3>1, <3>2
  <2>5. QED
    BY <1>1, <2>1, <2>2, <2>3, <2>4 DEF Course, Phases, DecideTypeOK
<1>2. QED
  BY <1>1, InitCourse, CourseStays, InitFetched, FetchedStays, PTL DEF DecideSpec
=============================================================================
