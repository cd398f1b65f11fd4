--------------------------- MODULE IdentityProofs ---------------------------
(***************************************************************************)
(* Proofs about Identity, for any items, providers and requests, any batch *)
(* and any bounds.                                                         *)
(***************************************************************************)
EXTENDS Identity, TLAPS

(***************************************************************************)
(* The type invariant: whatever statements interleave, fail or are cut     *)
(* short, status, ids and the pass's snapshot keep their types.            *)
(***************************************************************************)
THEOREM TypeCorrect == Spec => []TypeOK
<1> USE Limits, OwnProvider
<1>1. Init => TypeOK
  BY DEF Init, TypeOK, Actors
<1>2. TypeOK /\ [Next]_vars => TypeOK'
  <2> SUFFICES ASSUME TypeOK, [Next]_vars PROVE TypeOK'
    OBVIOUS
  <2> USE DEF TypeOK, Actors, counters, history
  <2>1. ASSUME NEW i \in Items, Ensure(i) PROVE TypeOK'
    BY <2>1 DEF Ensure, AfterEnsure
  <2>2. ASSUME NEW a \in Actors, ClearIds(a) PROVE TypeOK'
    BY <2>2 DEF ClearIds, Kept, Resume
  <2>3. ASSUME NEW a \in Actors, NEW p \in Providers, InsertId(a, p) PROVE TypeOK'
    <3>1. CASE \E w \in Actors : <<p, w>> \in ids[item[a]]
      BY <2>3, <3>1 DEF InsertId
    <3>2. CASE ~\E w \in Actors : <<p, w>> \in ids[item[a]]
      <4>1. ids' = [ids EXCEPT ![item[a]] = @ \cup {<<p, a>>}]
        BY <2>3, <3>2 DEF InsertId
      <4>2. ids[item[a]] \cup {<<p, a>>} \in SUBSET (Providers \X Actors)
        OBVIOUS
      <4>3. ids' \in [Items -> SUBSET (Providers \X Actors)]
        BY <4>1, <4>2
      <4>4. QED
        BY <2>3, <3>2, <4>3 DEF InsertId, Resume
    <3>3. QED
      BY <3>1, <3>2
  <2>4. ASSUME NEW a \in Actors, Abort(a) PROVE TypeOK'
    BY <2>4 DEF Abort
  <2>5. ASSUME NEW u \in Users, NEW i \in Items, NEW P \in SUBSET Providers,
               SetManual(u, i, P)
        PROVE TypeOK'
    BY <2>5 DEF SetManual, Request, Replace
  <2>6. ASSUME NEW u \in Users, NEW i \in Items, Reset(u, i) PROVE TypeOK'
    BY <2>6 DEF Reset, Request, Replace
  <2>7. CASE PassStart
    BY <2>7 DEF PassStart, Pending
  <2>8. ASSUME NEW i \in Items, NEW P \in SUBSET Providers, RecordMatch(i, P)
        PROVE TypeOK'
    BY <2>8 DEF RecordMatch, Ask, Replace
  <2>9. ASSUME NEW i \in Items, RecordUnmatched(i) PROVE TypeOK'
    BY <2>9 DEF RecordUnmatched, Ask
  <2>10. ASSUME NEW i \in Items, AskFails(i) PROVE TypeOK'
    BY <2>10 DEF AskFails, Ask
  <2>11. CASE PassEnd
    BY <2>11 DEF PassEnd
  <2>12. CASE UNCHANGED vars
    BY <2>12 DEF vars
  <2>13. QED
    BY <2>1, <2>2, <2>3, <2>4, <2>5, <2>6, <2>7, <2>8, <2>9, <2>10, <2>11, <2>12
    DEF Next
<1>3. QED
  BY <1>1, <1>2, PTL DEF Spec

------------------------------------------------------------------------------

\* What makes DecidedOnce inductive: an item that reads as undecided, in the
\* table or in the pass's snapshot, has no decision since it was last reset.
UndecidedHasNone ==
  \A i \in Items :
    i \in todo \/ status[i] \in {"absent", "pending"} => decided[i] = 0

(***************************************************************************)
(* Re-running the pass re-decides nothing: selecting pending items alone,  *)
(* and asking about each of the snapshot once, suffices, although the      *)
(* snapshot is stale by the time an item is reached.                       *)
(***************************************************************************)
THEOREM PassDecidesOnce == Spec => []DecidedOnce
<1> DEFINE IInv == DecidedOnce /\ UndecidedHasNone
<1>1. Init => IInv
  BY DEF Init, DecidedOnce, UndecidedHasNone
<1>2. TypeOK /\ IInv /\ [Next]_vars => IInv'
  <2> SUFFICES ASSUME TypeOK, IInv, [Next]_vars PROVE IInv'
    OBVIOUS
  <2> USE DEF TypeOK, DecidedOnce, UndecidedHasNone, counters, history
  <2>1. ASSUME NEW i \in Items, Ensure(i) PROVE IInv'
    BY <2>1 DEF Ensure, AfterEnsure
  <2>2. ASSUME NEW a \in Actors, ClearIds(a) PROVE IInv'
    BY <2>2 DEF ClearIds
  <2>3. ASSUME NEW a \in Actors, NEW p \in Providers, InsertId(a, p) PROVE IInv'
    BY <2>3 DEF InsertId
  <2>4. ASSUME NEW a \in Actors, Abort(a) PROVE IInv'
    BY <2>4 DEF Abort
  <2>5. ASSUME NEW u \in Users, NEW i \in Items, NEW P \in SUBSET Providers,
               SetManual(u, i, P)
        PROVE IInv'
    BY <2>5 DEF SetManual
  <2>6. ASSUME NEW u \in Users, NEW i \in Items, Reset(u, i) PROVE IInv'
    BY <2>6 DEF Reset
  <2>7. CASE PassStart
    BY <2>7 DEF PassStart, Pending, Undecided
  <2>8. ASSUME NEW i \in Items, NEW P \in SUBSET Providers, RecordMatch(i, P)
        PROVE IInv'
    BY <2>8 DEF RecordMatch, Ask, Writable
  <2>9. ASSUME NEW i \in Items, RecordUnmatched(i) PROVE IInv'
    BY <2>9 DEF RecordUnmatched, Ask, Writable
  <2>10. ASSUME NEW i \in Items, AskFails(i) PROVE IInv'
    BY <2>10 DEF AskFails, Ask
  <2>11. CASE PassEnd
    BY <2>11 DEF PassEnd
  <2>12. CASE UNCHANGED vars
    BY <2>12 DEF vars
  <2>13. QED
    BY <2>1, <2>2, <2>3, <2>4, <2>5, <2>6, <2>7, <2>8, <2>9, <2>10, <2>11, <2>12
    DEF Next
<1>3. QED
  BY <1>1, <1>2, TypeCorrect, PTL DEF Spec

------------------------------------------------------------------------------

\* One step's worth of ManualOutranksPass.
ManualStands ==
  \A i \in Items :
    status[i] = "manual" /\ status'[i] # "manual" =>
      \E u \in Users : item'[u] = i /\ step'[u] = "clear" /\ requests' = requests + 1

(***************************************************************************)
(* Only a reset takes a manual item out of a human's hands: the WHERE      *)
(* clause of RecordMatch and RecordUnmatched refuses the pass's write even *)
(* when the correction came after the pass read its snapshot.              *)
(***************************************************************************)
THEOREM PassYieldsToManual == Spec => ManualOutranksPass
<1>1. TypeOK /\ [Next]_vars => ManualStands
  <2> SUFFICES ASSUME TypeOK, [Next]_vars PROVE ManualStands
    OBVIOUS
  <2> USE DEF TypeOK, ManualStands, counters, history
  <2>1. ASSUME NEW u \in Users, NEW i \in Items, Reset(u, i) PROVE ManualStands
    BY <2>1 DEF Reset, Request, Replace, Actors
  <2>2. ASSUME NEW u \in Users, NEW i \in Items, NEW P \in SUBSET Providers,
               SetManual(u, i, P)
        PROVE ManualStands
    BY <2>2 DEF SetManual
  <2>3. ASSUME NEW i \in Items, NEW P \in SUBSET Providers, RecordMatch(i, P)
        PROVE ManualStands
    BY <2>3 DEF RecordMatch, Writable
  <2>4. ASSUME NEW i \in Items, RecordUnmatched(i) PROVE ManualStands
    BY <2>4 DEF RecordUnmatched, Writable
  <2>5. ASSUME NEW i \in Items, Ensure(i) PROVE ManualStands
    BY <2>5 DEF Ensure, AfterEnsure
  <2>6. ASSUME UNCHANGED status PROVE ManualStands
    BY <2>6
  <2>7. QED
    BY <2>1, <2>2, <2>3, <2>4, <2>5, <2>6
    DEF Next, ClearIds, InsertId, Abort, PassStart, AskFails, PassEnd, vars
<1>2. QED
  BY <1>1, TypeCorrect, PTL DEF Spec, ManualOutranksPass, ManualStands

------------------------------------------------------------------------------

\* One writer per item.
Apart ==
  \A a, b \in Actors :
    Busy(a) /\ Busy(b) /\ item[a] = item[b] /\ item[a] \notin mixed => a = b

\* What the pass has yet to ask about is undecided, or became manual.
SnapshotHolds == \A i \in todo : status[i] \in {"pending", "manual"}

\* Where a is between its status and its ids: what it has inserted is all there
\* is, and what the status needs is inserted or still to come.
Midway(a) ==
  LET i == item[a] IN
  /\ status[i] # "absent"
  /\ step[a] = "insert" => /\ left[a] # {}
                           /\ ids[i] \subseteq (Providers \ left[a]) \X {a}
  /\ status[i] = "matched" =>
       /\ a = Pass
       /\ Own \in left[a] \/ (step[a] = "insert" /\ <<Own, a>> \in ids[i])
  /\ status[i] = "manual" => a \in Users /\ left[a] # {}
  /\ status[i] \in {"pending", "unmatched"} => step[a] = "clear" /\ left[a] = {}

\* The inductive strengthening of Coherent.
CoherentInv ==
  /\ Coherent
  /\ Apart
  /\ SnapshotHolds
  /\ \A a \in Actors : Busy(a) /\ item[a] \notin mixed => Midway(a)

\* Deleting the old ids takes a from its status towards its ids.
LEMMA ClearKeepsCoherentInv ==
  ASSUME TypeOK, CoherentInv, NEW a \in Actors, ClearIds(a)
  PROVE  CoherentInv'
<1> DEFINE i == item[a]
<1> USE DEF TypeOK, counters, history
<1>1. /\ i \in Items /\ Busy(a)
      /\ status' = status /\ item' = item /\ left' = left /\ todo' = todo
      /\ mixed' = mixed
      /\ ids' = [ids EXCEPT ![i] = {}]
      /\ step' = [step EXCEPT ![a] = IF left[a] = {} THEN Resume(a) ELSE "insert"]
  BY DEF ClearIds, Busy, Kept
<1>2. i \notin mixed => Midway(a)
  BY <1>1 DEF CoherentInv
<1>3. \A b \in Actors : b # a => Busy(b)' = Busy(b)
  BY <1>1 DEF Busy
<1>4. i \notin mixed => \A b \in Actors : b # a /\ Busy(b) => item[b] # i
  BY <1>1 DEF CoherentInv, Apart
<1>5. Busy(a)' <=> left[a] # {}
  BY <1>1 DEF Busy, Resume
<1>6. Apart' /\ SnapshotHolds'
  BY <1>1, <1>3 DEF CoherentInv, Apart, SnapshotHolds
<1>7. ASSUME NEW b \in Actors, Busy(b)', item[b] \notin mixed PROVE Midway(b)'
  <2>1. CASE b = a
    <3>1. left[a] # {} /\ step'[a] = "insert" /\ step[a] = "clear"
      BY <1>1, <1>5, <1>7, <2>1 DEF ClearIds
    <3>2. ids'[i] = {}
      BY <1>1
    <3>3. status[i] \in {"matched", "manual"}
      BY <1>1, <1>2, <1>7, <2>1, <3>1 DEF Midway
    <3>4. QED
      BY <1>1, <1>2, <1>7, <2>1, <3>1, <3>2, <3>3 DEF Midway
  <2>2. CASE b # a
    <3>1. Busy(b) /\ Midway(b) /\ item[b] # i
      BY <1>3, <1>4, <1>7, <2>2 DEF CoherentInv
    <3>2. step'[b] = step[b] /\ ids'[item[b]] = ids[item[b]]
      BY <1>1, <2>2, <3>1
    <3>3. QED
      BY <1>1, <3>1, <3>2 DEF Midway
  <2>3. QED
    BY <2>1, <2>2
<1>8. ASSUME NEW k \in Items \ mixed, Quiet(k)'
      PROVE  /\ status'[k] = "matched" =>
                  <<Own, Pass>> \in ids'[k] /\ ids'[k] \subseteq Providers \X {Pass}
             /\ status'[k] = "manual" =>
                  \E u \in Users : ids'[k] # {} /\ ids'[k] \subseteq Providers \X {u}
             /\ status'[k] \in {"absent", "pending", "unmatched"} => ids'[k] = {}
  <2>1. CASE k = i
    <3>1. left[a] = {}
      BY <1>1, <1>5, <1>8, <2>1 DEF Quiet
    <3>2. status[i] \notin {"matched", "manual"}
      BY <1>2, <1>8, <2>1, <3>1 DEF Midway, ClearIds
    <3>3. QED
      BY <1>1, <2>1, <3>2
  <2>2. CASE k # i
    <3>1. Quiet(k)
      BY <1>1, <1>3, <1>8, <2>2 DEF Quiet
    <3>2. QED
      BY <1>1, <1>8, <2>2, <3>1 DEF CoherentInv, Coherent
  <2>3. QED
    BY <2>1, <2>2
<1>9. QED
  BY <1>1, <1>6, <1>7, <1>8 DEF CoherentInv, Coherent

\* Inserting an id does too: alone on its item, a never meets a row of another.
LEMMA InsertKeepsCoherentInv ==
  ASSUME TypeOK, CoherentInv, NEW a \in Actors, NEW p \in Providers, InsertId(a, p),
         item[a] \notin mixed
  PROVE  CoherentInv'
<1> DEFINE i == item[a]
<1> USE DEF TypeOK, counters, history
<1>1. i \in Items /\ Busy(a) /\ Midway(a) /\ step[a] = "insert" /\ p \in left[a]
  BY DEF InsertId, Busy, CoherentInv
<1>2. ids[i] \subseteq (Providers \ left[a]) \X {a}
  BY <1>1 DEF Midway
<1>3. ~\E w \in Actors : <<p, w>> \in ids[i]
  BY <1>1, <1>2
<1>4. /\ status' = status /\ item' = item /\ todo' = todo /\ mixed' = mixed
      /\ ids' = [ids EXCEPT ![i] = @ \cup {<<p, a>>}]
      /\ left' = [left EXCEPT ![a] = @ \ {p}]
      /\ step' = [step EXCEPT ![a] = IF left[a] = {p} THEN Resume(a) ELSE "insert"]
  BY <1>3 DEF InsertId
<1>5. ids'[i] = ids[i] \cup {<<p, a>>} /\ left'[a] = left[a] \ {p}
  BY <1>1, <1>4
<1>6. ids'[i] \subseteq (Providers \ left'[a]) \X {a}
  BY <1>1, <1>2, <1>5
<1>7. \A b \in Actors : b # a => Busy(b)' = Busy(b) /\ (Busy(b) => item[b] # i)
  BY <1>1, <1>4 DEF Busy, CoherentInv, Apart
<1>8. Busy(a)' <=> left[a] # {p}
  BY <1>1, <1>4 DEF Busy, Resume
<1>9. Apart' /\ SnapshotHolds'
  BY <1>1, <1>4, <1>7 DEF CoherentInv, Apart, SnapshotHolds
<1>10. status[i] \in {"matched", "manual"}
  BY <1>1 DEF Midway
<1>11. status[i] = "matched" => a = Pass /\ (Own \in left'[a] \/ <<Own, a>> \in ids'[i])
  BY <1>1, <1>5 DEF Midway
<1>12. status[i] = "manual" => a \in Users
  BY <1>1 DEF Midway
<1>13. ASSUME NEW b \in Actors, Busy(b)', item[b] \notin mixed PROVE Midway(b)'
  <2>1. CASE b = a
    <3>1. left'[a] # {} /\ step'[a] = "insert"
      BY <1>1, <1>4, <1>5, <1>8, <1>13, <2>1
    <3>2. QED
      BY <1>4, <1>6, <1>10, <1>11, <1>12, <2>1, <3>1 DEF Midway
  <2>2. CASE b # a
    <3>1. Busy(b) /\ Midway(b) /\ item[b] # i
      BY <1>7, <1>13, <2>2 DEF CoherentInv
    <3>2. step'[b] = step[b] /\ ids'[item[b]] = ids[item[b]] /\ left'[b] = left[b]
      BY <1>1, <1>4, <2>2, <3>1
    <3>3. QED
      BY <1>4, <3>1, <3>2 DEF Midway
  <2>3. QED
    BY <2>1, <2>2
<1>14. ASSUME NEW k \in Items \ mixed, Quiet(k)'
       PROVE  /\ status'[k] = "matched" =>
                   <<Own, Pass>> \in ids'[k] /\ ids'[k] \subseteq Providers \X {Pass}
              /\ status'[k] = "manual" =>
                   \E u \in Users : ids'[k] # {} /\ ids'[k] \subseteq Providers \X {u}
              /\ status'[k] \in {"absent", "pending", "unmatched"} => ids'[k] = {}
  <2>1. CASE k = i
    <3>1. left'[a] = {}
      BY <1>1, <1>4, <1>5, <1>8, <1>14, <2>1 DEF Quiet
    <3>2. ids'[i] \subseteq Providers \X {a} /\ ids'[i] # {}
      BY <1>5, <1>6
    <3>3. QED
      BY <1>4, <1>10, <1>11, <1>12, <2>1, <3>1, <3>2
  <2>2. CASE k # i
    <3>1. Quiet(k)
      BY <1>4, <1>7, <1>14, <2>2 DEF Quiet
    <3>2. QED
      BY <1>1, <1>4, <1>14, <2>2, <3>1 DEF CoherentInv, Coherent
  <2>3. QED
    BY <2>1, <2>2
<1>15. QED
  BY <1>4, <1>9, <1>13, <1>14 DEF CoherentInv, Coherent

\* What an actor does to an item already mixed up, or mixes up by doing it,
\* leaves the other items as they were.
LEMMA MixedKeepsCoherentInv ==
  ASSUME TypeOK, CoherentInv, NEW i \in Items, NEW a \in Actors,
         mixed' = mixed \cup {i}, todo' \subseteq todo,
         \A k \in Items \ {i} : status'[k] = status[k] /\ ids'[k] = ids[k],
         \A k \in todo' : status'[k] \in {"pending", "manual"},
         \A b \in Actors \ {a} : step'[b] = step[b] /\ item'[b] = item[b] /\ left'[b] = left[b],
         Busy(a) => item[a] = i,
         Busy(a)' => item'[a] = i
  PROVE  CoherentInv'
<1> USE DEF TypeOK
<1>1. \A b \in Actors \ {a} : Busy(b)' <=> Busy(b)
  BY DEF Busy
<1>2. Apart'
  BY <1>1 DEF CoherentInv, Apart
<1>3. SnapshotHolds'
  BY DEF CoherentInv, SnapshotHolds
<1>4. ASSUME NEW b \in Actors, Busy(b)', item'[b] \notin mixed' PROVE Midway(b)'
  <2>1. b # a /\ item[b] # i /\ Busy(b) /\ Midway(b)
    BY <1>1, <1>4 DEF CoherentInv
  <2>2. /\ step'[b] = step[b] /\ left'[b] = left[b] /\ item'[b] = item[b]
        /\ ids'[item[b]] = ids[item[b]] /\ status'[item[b]] = status[item[b]]
    BY <2>1
  <2>3. QED
    BY <2>1, <2>2 DEF Midway
<1>5. ASSUME NEW k \in Items \ mixed', Quiet(k)' PROVE k # i /\ Quiet(k)
  BY <1>1, <1>5 DEF Quiet
<1>6. Coherent'
  BY <1>5 DEF CoherentInv, Coherent
<1>7. QED
  BY <1>2, <1>3, <1>4, <1>6 DEF CoherentInv

\* Starting to replace the ids of an item nobody else is writing, with a status
\* that calls for the ids to come, begins a fresh whole write.
LEMMA ReplaceKeepsCoherentInv ==
  ASSUME TypeOK, CoherentInv, NEW a \in Actors, NEW i \in Items,
         NEW P \in SUBSET Providers, NEW s \in {"matched", "manual", "pending"},
         Replace(a, i, P), Quiet(i),
         ~Busy(a), ids' = ids,
         status' = [status EXCEPT ![i] = s],
         todo' \subseteq todo, s = "matched" => i \notin todo',
         s = "matched" => a = Pass /\ Own \in P,
         s = "manual" => a \in Users /\ P # {},
         s = "pending" => P = {}
  PROVE  CoherentInv'
<1> USE DEF TypeOK
<1>1. /\ step' = [step EXCEPT ![a] = "clear"]
      /\ item' = [item EXCEPT ![a] = i]
      /\ left' = [left EXCEPT ![a] = P]
      /\ mixed' = mixed \ {i}
  BY DEF Replace
<1>2. \A b \in Actors \ {a} :
        (Busy(b)' <=> Busy(b)) /\ item'[b] = item[b] /\ (Busy(b) => item[b] # i)
  BY <1>1 DEF Busy, Quiet
<1>3. Busy(a)' /\ item'[a] = i
  BY <1>1 DEF Busy
<1>4. Apart'
  BY <1>1, <1>2, <1>3 DEF CoherentInv, Apart
<1>5. SnapshotHolds'
  BY DEF CoherentInv, SnapshotHolds
<1>6. ASSUME NEW b \in Actors, Busy(b)', item'[b] \notin mixed' PROVE Midway(b)'
  <2>1. CASE b = a
    <3>1. step'[a] = "clear" /\ left'[a] = P /\ status'[i] = s
      BY <1>1
    <3>2. QED
      BY <1>3, <2>1, <3>1 DEF Midway
  <2>2. CASE b # a
    <3>1. Busy(b) /\ item[b] # i /\ item[b] \notin mixed /\ Midway(b)
      BY <1>1, <1>2, <1>6, <2>2 DEF CoherentInv
    <3>2. /\ step'[b] = step[b] /\ left'[b] = left[b] /\ item'[b] = item[b]
          /\ status'[item[b]] = status[item[b]]
      BY <1>1, <2>2, <3>1
    <3>3. QED
      BY <3>1, <3>2 DEF Midway
  <2>3. QED
    BY <2>1, <2>2
<1>7. ASSUME NEW k \in Items, Quiet(k)' PROVE k # i /\ Quiet(k)
  BY <1>2, <1>3, <1>7 DEF Quiet
<1>8. Coherent'
  BY <1>1, <1>7 DEF CoherentInv, Coherent
<1>9. QED
  BY <1>4, <1>5, <1>6, <1>8 DEF CoherentInv

\* Starting on an item another is part-way through marks it as mixed.
LEMMA OverlapKeepsCoherentInv ==
  ASSUME TypeOK, CoherentInv, NEW a \in Actors, NEW i \in Items,
         NEW P \in SUBSET Providers, NEW s \in {"matched", "manual", "pending"},
         Replace(a, i, P), ~Quiet(i),
         ~Busy(a), ids' = ids,
         status' = [status EXCEPT ![i] = s],
         todo' \subseteq todo, s = "matched" => i \notin todo'
  PROVE  CoherentInv'
<1> USE DEF TypeOK
<1>1. /\ mixed' = mixed \cup {i} /\ item'[a] = i
      /\ \A b \in Actors \ {a} : step'[b] = step[b] /\ item'[b] = item[b] /\ left'[b] = left[b]
      /\ \A k \in Items \ {i} : status'[k] = status[k]
  BY DEF Replace
<1>2. \A k \in todo' : status'[k] \in {"pending", "manual"}
  BY DEF CoherentInv, SnapshotHolds
<1>3. QED
  BY <1>1, <1>2, MixedKeepsCoherentInv

(***************************************************************************)
(* The status and the ids of an item agree whenever nobody is writing it   *)
(* and nobody overlapped on it or was cut short since its last whole write *)
(* began: the only way the separate statements of a status and its ids     *)
(* leave an item incoherent is by interleaving or being cut short on that  *)
(* same item, and the next undisturbed write repairs it.                   *)
(***************************************************************************)
THEOREM StatusAndIdsAgree == Spec => []Coherent
<1> USE PassIsNoUser
<1>1. Init => CoherentInv
  BY DEF Init, CoherentInv, Coherent, Apart, SnapshotHolds, Busy
<1>2. TypeOK /\ CoherentInv /\ [Next]_vars => CoherentInv'
  <2> SUFFICES ASSUME TypeOK, CoherentInv, [Next]_vars PROVE CoherentInv'
    OBVIOUS
  <2> USE DEF TypeOK, counters, history
  <2>1. ASSUME NEW i \in Items, Ensure(i) PROVE CoherentInv'
    BY <2>1 DEF Ensure, AfterEnsure, CoherentInv, Coherent, Quiet, Apart, SnapshotHolds,
                Midway, Busy
  <2>2. ASSUME NEW a \in Actors, ClearIds(a) PROVE CoherentInv'
    BY <2>2, ClearKeepsCoherentInv
  <2>3. ASSUME NEW a \in Actors, NEW p \in Providers, InsertId(a, p) PROVE CoherentInv'
    <3>1. CASE item[a] \notin mixed
      BY <2>3, <3>1, InsertKeepsCoherentInv
    <3>2. CASE item[a] \in mixed
      <4>1. /\ mixed' = mixed \cup {item[a]} /\ todo' = todo /\ status' = status
            /\ item' = item /\ Busy(a)
            /\ \A k \in Items \ {item[a]} : ids'[k] = ids[k]
            /\ \A b \in Actors \ {a} : step'[b] = step[b] /\ left'[b] = left[b]
        BY <2>3, <3>2 DEF InsertId, Busy
      <4>2. item[a] \in Items /\ \A k \in todo' : status'[k] \in {"pending", "manual"}
        BY <4>1 DEF CoherentInv, SnapshotHolds
      <4>3. QED
        BY <4>1, <4>2, MixedKeepsCoherentInv
    <3>3. QED
      BY <3>1, <3>2
  <2>4. ASSUME NEW a \in Actors, Abort(a) PROVE CoherentInv'
    <3>1. /\ status' = status /\ ids' = ids /\ todo' = todo /\ item' = item
          /\ step' = [step EXCEPT ![a] = "idle"] /\ left' = [left EXCEPT ![a] = {}]
          /\ mixed' = IF Busy(a) THEN mixed \cup {item[a]} ELSE mixed
      BY <2>4 DEF Abort
    <3>2. CASE Busy(a)
      <4>1. item[a] \in Items /\ mixed' = mixed \cup {item[a]}
        BY <3>1, <3>2
      <4>2. \A b \in Actors \ {a} : step'[b] = step[b] /\ left'[b] = left[b]
        BY <3>1
      <4>3. \A k \in todo' : status'[k] \in {"pending", "manual"}
        BY <3>1 DEF CoherentInv, SnapshotHolds
      <4>4. Busy(a)' => item'[a] = item[a]
        BY <3>1
      <4>5. QED
        BY <3>1, <4>1, <4>2, <4>3, <4>4, MixedKeepsCoherentInv
    <3>3. CASE ~Busy(a)
      <4>1. \A b \in Actors : Busy(b)' <=> Busy(b)
        BY <3>1, <3>3 DEF Busy
      <4>2. \A b \in Actors : Busy(b) => step'[b] = step[b] /\ left'[b] = left[b]
        BY <3>1, <3>3
      <4>3. mixed' = mixed
        BY <3>1, <3>3
      <4>4. \A b \in Actors : Busy(b) /\ Midway(b) => Midway(b)'
        BY <3>1, <4>2 DEF Midway
      <4>5. Apart' /\ SnapshotHolds' /\ Coherent'
        BY <3>1, <4>1, <4>3 DEF CoherentInv, Apart, SnapshotHolds, Coherent, Quiet
      <4>6. QED
        BY <3>1, <4>1, <4>3, <4>4, <4>5 DEF CoherentInv
    <3>4. QED
      BY <3>2, <3>3
  <2>5. ASSUME NEW u \in Users, NEW i \in Items, NEW P \in SUBSET Providers,
               SetManual(u, i, P)
        PROVE CoherentInv'
    <3>1. /\ u \in Actors /\ ~Busy(u) /\ Replace(u, i, P) /\ P # {} /\ ids' = ids
          /\ status' = [status EXCEPT ![i] = "manual"] /\ todo' = todo
      BY <2>5 DEF SetManual, Request, Busy, Actors
    <3>2. CASE Quiet(i)
      BY <3>1, <3>2, ReplaceKeepsCoherentInv
    <3>3. CASE ~Quiet(i)
      BY <3>1, <3>3, OverlapKeepsCoherentInv
    <3>4. QED
      BY <3>2, <3>3
  <2>6. ASSUME NEW u \in Users, NEW i \in Items, Reset(u, i) PROVE CoherentInv'
    <3>1. /\ u \in Actors /\ ~Busy(u) /\ Replace(u, i, {}) /\ ids' = ids
          /\ status' = [status EXCEPT ![i] = "pending"] /\ todo' = todo
      BY <2>6 DEF Reset, Request, Busy, Actors
    <3>2. CASE Quiet(i)
      BY <3>1, <3>2, ReplaceKeepsCoherentInv
    <3>3. CASE ~Quiet(i)
      BY <3>1, <3>3, OverlapKeepsCoherentInv
    <3>4. QED
      BY <3>2, <3>3
  <2>7. CASE PassStart
    BY <2>7 DEF PassStart, Pending, Undecided, CoherentInv, Coherent, Quiet, Apart,
                SnapshotHolds, Midway, Busy
  <2>8. ASSUME NEW i \in Items, NEW P \in SUBSET Providers, RecordMatch(i, P)
        PROVE CoherentInv'
    <3>1. CASE ~Writable(i)
      BY <2>8, <3>1 DEF RecordMatch, Ask, CoherentInv, Coherent, Quiet, Apart,
                        SnapshotHolds, Midway, Busy
    <3>2. CASE Writable(i)
      <4>1. /\ Pass \in Actors /\ ~Busy(Pass) /\ Replace(Pass, i, P) /\ ids' = ids
            /\ status' = [status EXCEPT ![i] = "matched"] /\ todo' = todo \ {i}
            /\ Own \in P
        BY <2>8, <3>2 DEF RecordMatch, Ask, Busy, Actors
      <4>2. CASE Quiet(i)
        BY <4>1, <4>2, ReplaceKeepsCoherentInv
      <4>3. CASE ~Quiet(i)
        BY <4>1, <4>3, OverlapKeepsCoherentInv
      <4>4. QED
        BY <4>2, <4>3
    <3>3. QED
      BY <3>1, <3>2
  <2>9. ASSUME NEW i \in Items, RecordUnmatched(i) PROVE CoherentInv'
    <3>1. /\ ids' = ids /\ step' = step /\ item' = item /\ left' = left
          /\ todo' = todo \ {i} /\ i \in todo
      BY <2>9 DEF RecordUnmatched, Ask
    <3>2. CASE status[i] = "manual"
      BY <2>9, <3>1, <3>2 DEF RecordUnmatched, Writable, CoherentInv, Coherent, Quiet,
                              Apart, SnapshotHolds, Midway, Busy
    <3>3. CASE status[i] # "manual" /\ Quiet(i)
      <4>1. /\ status' = [status EXCEPT ![i] = "unmatched"] /\ mixed' = mixed
            /\ status[i] = "pending"
        BY <2>9, <3>1, <3>3 DEF RecordUnmatched, Writable, CoherentInv, SnapshotHolds
      <4>2. \A b \in Actors : Busy(b) => item[b] # i
        BY <3>3 DEF Quiet
      <4>3. Apart' /\ SnapshotHolds'
        BY <3>1, <4>1 DEF CoherentInv, Apart, SnapshotHolds, Busy
      <4>4. \A b \in Actors : Busy(b) /\ Midway(b) => Midway(b)'
        BY <3>1, <4>1, <4>2 DEF Midway
      <4>5. Coherent'
        BY <3>1, <3>3, <4>1 DEF CoherentInv, Coherent, Quiet, Busy
      <4>6. QED
        BY <3>1, <4>1, <4>3, <4>4, <4>5 DEF CoherentInv, Busy
    <3>4. CASE status[i] # "manual" /\ ~Quiet(i)
      <4>1. status' = [status EXCEPT ![i] = "unmatched"] /\ mixed' = mixed \cup {i}
        BY <2>9, <3>1, <3>4 DEF RecordUnmatched, Writable
      <4>2. PICK a \in Actors : Busy(a) /\ item[a] = i
        BY <3>4 DEF Quiet
      <4>3. \A k \in todo' : status'[k] \in {"pending", "manual"}
        BY <3>1, <4>1 DEF CoherentInv, SnapshotHolds
      <4>4. \A k \in Items \ {i} : status'[k] = status[k] /\ ids'[k] = ids[k]
        BY <3>1, <4>1
      <4>5. QED
        BY <3>1, <4>1, <4>2, <4>3, <4>4, MixedKeepsCoherentInv
    <3>5. QED
      BY <3>2, <3>3, <3>4
  <2>10. ASSUME NEW i \in Items, AskFails(i) PROVE CoherentInv'
    BY <2>10 DEF AskFails, Ask, CoherentInv, Coherent, Quiet, Apart, SnapshotHolds,
                 Midway, Busy
  <2>11. CASE PassEnd
    BY <2>11 DEF PassEnd, CoherentInv, Coherent, Quiet, Apart, SnapshotHolds, Midway, Busy
  <2>12. CASE UNCHANGED vars
    BY <2>12 DEF vars, CoherentInv, Coherent, Quiet, Apart, SnapshotHolds, Midway, Busy
  <2>13. QED
    BY <2>1, <2>2, <2>3, <2>4, <2>5, <2>6, <2>7, <2>8, <2>9, <2>10, <2>11, <2>12
    DEF Next
<1>3. CoherentInv => Coherent
  BY DEF CoherentInv
<1>4. QED
  BY <1>1, <1>2, <1>3, TypeCorrect, PTL DEF Spec
=============================================================================
