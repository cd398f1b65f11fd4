------------------------------ MODULE Identity ------------------------------
(***************************************************************************)
(* Which film an item is: media_item_identity and media_item_external_ids  *)
(* (internal/repository/identity.go), written by the identify pass and by  *)
(* requests that correct or reset an item (internal/service/identity.go).  *)
(*                                                                         *)
(* The services hand the repository the pool, so every statement commits   *)
(* on its own: an UPDATE of the status, a DELETE of the ids, then one      *)
(* INSERT per id, and anybody's statements may fall between them.  An id   *)
(* is modelled by its provider and by who wrote it.                        *)
(*                                                                         *)
(* One library and one pass at a time: Jobs shows the jobs table allows no *)
(* second one.                                                             *)
(***************************************************************************)
EXTENDS Naturals, FiniteSets

CONSTANTS
  Items,        \* items, numbered in order of creation
  Providers,    \* external id providers
  Own,          \* the provider the pass asks ('tmdb')
  Users,        \* requests that may be in flight at once
  Pass,         \* the identify pass
  Batch,        \* identifyBatch
  MaxRequests,  \* bound: corrections and resets
  MaxPasses,    \* bound: identify passes
  MaxAborts     \* bound: actors cut short between two statements

ASSUME ItemsNat == Items \subseteq Nat
ASSUME OwnProvider == Own \in Providers
ASSUME PassIsNoUser == Pass \notin Users
ASSUME BatchNat == Batch \in Nat
ASSUME Limits == MaxRequests \in Nat /\ MaxPasses \in Nat /\ MaxAborts \in Nat

VARIABLES
  status,     \* media_item_identity.status, "absent" before the row exists
  ids,        \* media_item_external_ids: <<provider, who wrote it>>
  step,       \* what each actor does next
  item,       \* the item it is writing
  left,       \* the providers whose ids it has still to insert
  todo,       \* the pass's snapshot: items read as pending, not yet asked about
  decided,    \* history: decisions a pass recorded since the item was last reset
  mixed,      \* history: items somebody wrote while another was part-way through
              \* them or was cut short, until a whole write of their ids begins
  requests, passes, aborts

counters == <<requests, passes, aborts>>
history == <<decided, mixed>>
vars == <<status, ids, step, item, left, todo, history, counters>>

Actors == Users \cup {Pass}
Busy(a) == step[a] \in {"clear", "insert"}

\* Nobody is part-way through writing i.
Quiet(i) == \A a \in Actors : Busy(a) => item[a] # i

Init ==
  /\ status = [i \in Items |-> "absent"]
  /\ ids = [i \in Items |-> {}]
  /\ step = [a \in Actors |-> "idle"]
  /\ item \in {[a \in Actors |-> i] : i \in Items}
  /\ left = [a \in Actors |-> {}]
  /\ todo = {}
  /\ decided = [i \in Items |-> 0]
  /\ mixed = {}
  /\ requests = 0 /\ passes = 0 /\ aborts = 0

------------------------------------------------------------------------------
(* The scan. *)

\* INSERT ... ON CONFLICT DO NOTHING, each time a scan sees the item.
AfterEnsure(i) == IF status[i] = "absent" THEN "pending" ELSE status[i]

Ensure(i) ==
  /\ status' = [status EXCEPT ![i] = AfterEnsure(i)]
  /\ UNCHANGED <<ids, step, item, left, todo, history, counters>>

------------------------------------------------------------------------------
(* replaceExternalIDs, shared by every writer. *)

\* Where an actor goes when its ids are in: a request answers, the pass goes
\* on to its next item.
Resume(a) == IF a = Pass THEN "asking" ELSE "idle"

Kept_Merge(i) == ids[i]
Kept(i) == {}

ClearIds(a) ==
  /\ step[a] = "clear"
  /\ ids' = [ids EXCEPT ![item[a]] = Kept(item[a])]
  /\ step' = [step EXCEPT ![a] = IF left[a] = {} THEN Resume(a) ELSE "insert"]
  /\ UNCHANGED <<status, item, left, todo, history, counters>>

\* The primary key is (item, provider): a row somebody else inserted in the
\* meantime makes this INSERT fail, which ends the request or the pass.
InsertId(a, p) ==
  /\ step[a] = "insert"
  /\ p \in left[a]
  /\ IF \E w \in Actors : <<p, w>> \in ids[item[a]]
     THEN /\ step' = [step EXCEPT ![a] = "idle"]
          /\ left' = [left EXCEPT ![a] = {}]
          /\ UNCHANGED ids
     ELSE /\ ids' = [ids EXCEPT ![item[a]] = @ \cup {<<p, a>>}]
          /\ left' = [left EXCEPT ![a] = @ \ {p}]
          /\ step' = [step EXCEPT ![a] = IF left[a] = {p} THEN Resume(a) ELSE "insert"]
  /\ UNCHANGED <<status, item, todo, history, counters>>

\* a, having updated the row of i, goes on to replace its ids by those of P.
Replace(a, i, P) ==
  /\ step' = [step EXCEPT ![a] = "clear"]
  /\ item' = [item EXCEPT ![a] = i]
  /\ left' = [left EXCEPT ![a] = P]
  /\ mixed' = IF Quiet(i) THEN mixed \ {i} ELSE mixed \cup {i}

\* The client hangs up, the connection breaks or the process dies: nothing
\* after the last statement happens.
Abort(a) ==
  /\ step[a] # "idle"
  /\ aborts < MaxAborts
  /\ aborts' = aborts + 1
  /\ step' = [step EXCEPT ![a] = "idle"]
  /\ left' = [left EXCEPT ![a] = {}]
  /\ mixed' = IF Busy(a) THEN mixed \cup {item[a]} ELSE mixed
  /\ UNCHANGED <<status, ids, item, todo, decided, requests, passes>>

------------------------------------------------------------------------------
(* Requests. *)

Request(u, i) ==
  /\ step[u] = "idle"
  /\ status[i] # "absent"
  /\ requests < MaxRequests
  /\ requests' = requests + 1

\* SetManual: an unguarded UPDATE, then the human's ids.
SetManual(u, i, P) ==
  /\ Request(u, i)
  /\ P # {}
  /\ status' = [status EXCEPT ![i] = "manual"]
  /\ Replace(u, i, P)
  /\ UNCHANGED <<ids, todo, decided, passes, aborts>>

Reset(u, i) ==
  /\ Request(u, i)
  /\ status' = [status EXCEPT ![i] = "pending"]
  /\ decided' = [decided EXCEPT ![i] = 0]
  /\ Replace(u, i, {})
  /\ UNCHANGED <<ids, todo, passes, aborts>>

------------------------------------------------------------------------------
(* The identify pass. *)

\* Only pending items are asked about.
Undecided_RetryUnmatched(i) == status[i] \in {"pending", "unmatched"}
Undecided(i) == status[i] = "pending"

\* Pending: the Batch oldest, read once at the start.
Pending ==
  LET found == {i \in Items : Undecided(i)}
  IN  {i \in found : Cardinality({k \in found : k < i}) < Batch}

PassStart ==
  /\ step[Pass] = "idle"
  /\ passes < MaxPasses
  /\ passes' = passes + 1
  /\ todo' = Pending
  /\ step' = [step EXCEPT ![Pass] = "asking"]
  /\ UNCHANGED <<status, ids, item, left, history, requests, aborts>>

\* The pass has asked the provider about i, the oldest item left.
Ask(i) ==
  /\ step[Pass] = "asking"
  /\ i \in todo
  /\ \A k \in todo : i <= k
  /\ todo' = todo \ {i}

\* The WHERE clause: a manual row is not written.
Writable_Always(i) == TRUE
Writable(i) == status[i] # "manual"

\* RecordMatch.  ExternalIDs may fail, leaving the pass's own id alone.
RecordMatch(i, P) ==
  /\ Ask(i)
  /\ Own \in P
  /\ IF Writable(i)
     THEN /\ status' = [status EXCEPT ![i] = "matched"]
          /\ decided' = [decided EXCEPT ![i] = @ + 1]
          /\ Replace(Pass, i, P)
     ELSE UNCHANGED <<status, history, step, item, left>>
  /\ UNCHANGED <<ids, counters>>

\* RecordUnmatched leaves the ids alone.
RecordUnmatched(i) ==
  /\ Ask(i)
  /\ IF Writable(i)
     THEN /\ status' = [status EXCEPT ![i] = "unmatched"]
          /\ decided' = [decided EXCEPT ![i] = @ + 1]
          /\ mixed' = IF Quiet(i) THEN mixed ELSE mixed \cup {i}
     ELSE UNCHANGED <<status, history>>
  /\ UNCHANGED <<ids, step, item, left, counters>>

\* The provider could not be asked about this item: it stays as it is.
AskFails(i) ==
  /\ Ask(i)
  /\ UNCHANGED <<status, ids, step, item, left, history, counters>>

\* Nothing left, or the provider asked us to stop.
PassEnd ==
  /\ step[Pass] = "asking"
  /\ step' = [step EXCEPT ![Pass] = "idle"]
  /\ todo' = {}
  /\ UNCHANGED <<status, ids, item, left, history, counters>>

------------------------------------------------------------------------------

Next ==
  \/ \E i \in Items : Ensure(i)
  \/ \E a \in Actors : ClearIds(a)
  \/ \E a \in Actors, p \in Providers : InsertId(a, p)
  \/ \E a \in Actors : Abort(a)
  \/ \E u \in Users, i \in Items, P \in SUBSET Providers : SetManual(u, i, P)
  \/ \E u \in Users, i \in Items : Reset(u, i)
  \/ PassStart
  \/ \E i \in Items, P \in SUBSET Providers : RecordMatch(i, P)
  \/ \E i \in Items : RecordUnmatched(i)
  \/ \E i \in Items : AskFails(i)
  \/ PassEnd

Spec == Init /\ [][Next]_vars

------------------------------------------------------------------------------
(* Properties. *)

\* Every variable stays in its type.
TypeOK ==
  /\ status \in [Items -> {"absent", "pending", "matched", "unmatched", "manual"}]
  /\ ids \in [Items -> SUBSET (Providers \X Actors)]
  /\ step \in [Actors -> {"idle", "asking", "clear", "insert"}]
  /\ item \in [Actors -> Items]
  /\ left \in [Actors -> SUBSET Providers]
  /\ todo \in SUBSET Items
  /\ decided \in [Items -> Nat] /\ mixed \in SUBSET Items
  /\ requests \in Nat /\ passes \in Nat /\ aborts \in Nat

\* No pass takes an item out of a human's hands: whatever a pass read at its
\* start, the status of a manual item changes only when a request resets it.
ManualOutranksPass ==
  [][\A i \in Items :
       status[i] = "manual" /\ status'[i] # "manual" =>
         \E u \in Users : item'[u] = i /\ step'[u] = "clear" /\ requests' = requests + 1]_vars

\* Running the pass again re-decides nothing: between two resets of an item at
\* most one pass records a decision about it.
DecidedOnce == \A i \in Items : decided[i] <= 1

\* Unless writers overlapped on it or one was cut short since, status and ids of
\* an item nobody is writing tell one story: a match carries the pass's id and
\* nothing of a human's, a correction carries one human's ids, anything else
\* carries none.  A whole write that nobody disturbs repairs what others left.
Coherent ==
  \A i \in Items \ mixed : Quiet(i) =>
    /\ status[i] = "matched" => <<Own, Pass>> \in ids[i] /\ ids[i] \subseteq Providers \X {Pass}
    /\ status[i] = "manual"  => \E u \in Users : ids[i] # {} /\ ids[i] \subseteq Providers \X {u}
    /\ status[i] \in {"absent", "pending", "unmatched"} => ids[i] = {}
=============================================================================
