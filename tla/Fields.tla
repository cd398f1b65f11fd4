------------------------------- MODULE Fields -------------------------------
(***************************************************************************)
(* The managed metadata fields of one item: the value, its source and its  *)
(* lock (internal/repository/metadata.go), written by a metadata refresh   *)
(* and by hand edits (internal/service/metadata.go).                       *)
(*                                                                         *)
(* Each statement commits on its own, so a write of a scalar field is      *)
(* three steps (ensure the row, claim the provenance, update the column),  *)
(* a write of the genre list is a claim, a DELETE and an INSERT per genre, *)
(* and a hand edit puts an unlock before them and a lock after them.       *)
(*                                                                         *)
(* A value is a set of entries: one for a scalar, one per genre, none when *)
(* the field has no value.                                                 *)
(***************************************************************************)
EXTENDS Naturals, Sequences

CONSTANTS
  Scalars,      \* the fields with a column of their own
  Genres,       \* the list field
  Visit,        \* Visit[F]: the fields of F in the order store and Set visit them
  Users,        \* requests that may be in flight at once
  Refresh,      \* the refresh job, one at a time
  Entries,      \* what values are made of
  Value,        \* Value[a][f]: the value actor a has for field f
  MaxPasses,    \* bound: times the refresh reaches the item
  MaxRequests,  \* bound: edits, locks and unlocks
  MaxAborts     \* bound: actors cut short between two statements

managed == Scalars \cup {Genres}
Actors == Users \cup {Refresh}

ASSUME GenresIsNoScalar == Genres \notin Scalars
ASSUME RefreshIsNoUser == Refresh \notin Users
ASSUME VisitType == Visit \in [SUBSET managed -> Seq(managed)]
ASSUME ValueType == Value \in [Actors -> [managed -> SUBSET Entries]]
ASSUME Limits == MaxPasses \in Nat /\ MaxRequests \in Nat /\ MaxAborts \in Nat

VARIABLES
  row,        \* the item has a media_item_metadata row
  stored,     \* the value each field has
  source,     \* its provenance row: "none", "provider" or "manual"
  locked,     \* and its lock
  step,       \* what each actor does next
  queue,      \* the fields it has still to write, the current one first
  asked,      \* the value it writes in each
  left,       \* the genres it has still to insert
  wanted,     \* history: {v} while a completed edit to v stands, {} otherwise
  held,       \* history: somebody locked the field, and since then nobody asked to
              \* unlock it and no edit of it was cut short
  open,       \* history: the field was unlocked at some time in this pass
  mixed,      \* history: fields two writers were in at once, or one was cut short
              \* in, until somebody alone in the field claims it
  passes, requests, aborts

data == <<row, stored, source, locked>>
history == <<wanted, held, open>>
counters == <<passes, requests, aborts>>
vars == <<data, step, queue, asked, left, history, mixed, counters>>

Label(a) == IF a = Refresh THEN "provider" ELSE "manual"
Working(a) == step[a] # "idle"
Field(a) == Head(queue[a])

\* Somebody other than a is part-way through field f.
Crowded(a, f) == \E b \in Actors \ {a} : Working(b) /\ Field(b) = f

Init ==
  /\ row = FALSE
  /\ stored = [f \in managed |-> {}]
  /\ source = [f \in managed |-> "none"]
  /\ locked = [f \in managed |-> FALSE]
  /\ step = [a \in Actors |-> "idle"]
  /\ queue = [a \in Actors |-> <<>>]
  /\ asked = Value
  /\ left = [a \in Actors |-> {}]
  /\ wanted = [f \in managed |-> {}]
  /\ held = [f \in managed |-> FALSE]
  /\ open = [f \in managed |-> TRUE]
  /\ mixed = {}
  /\ passes = 0 /\ requests = 0 /\ aborts = 0

------------------------------------------------------------------------------
(* From one field to the next. *)

\* An edit first takes the field's own lock off; a refresh goes straight to
\* WriteField or WriteGenres.
WriteStep(f) == IF f = Genres THEN "claim" ELSE "ensure"
EntryStep(a, f) == IF a \in Users THEN "unlock" ELSE WriteStep(f)

GoTo(a, q) ==
  /\ queue' = [queue EXCEPT ![a] = q]
  /\ step' = [step EXCEPT ![a] = IF q = <<>> THEN "idle" ELSE EntryStep(a, Head(q))]
  /\ mixed' = IF q # <<>> /\ Crowded(a, Head(q)) THEN mixed \cup {Head(q)} ELSE mixed

\* a is through with writing its field, or was refused: an edit locks it next.
AfterWrite_NoRelock(a) == GoTo(a, Tail(queue[a]))
AfterWrite(a) ==
  IF a \in Users
  THEN step' = [step EXCEPT ![a] = "lock"] /\ UNCHANGED <<queue, mixed>>
  ELSE GoTo(a, Tail(queue[a]))

------------------------------------------------------------------------------
(* The statements. *)

\* SetLocked: the upsert overwrites the flag of a provenance row that is there.
Flagged(f, pinned) == pinned

Unlock(a) ==
  /\ step[a] = "unlock"
  /\ LET f == Field(a) IN
       /\ locked' = [locked EXCEPT ![f] = Flagged(f, FALSE)]
       /\ source' = [source EXCEPT ![f] = IF @ = "none" THEN "manual" ELSE @]
       /\ wanted' = [wanted EXCEPT ![f] = {}]
       /\ open' = [open EXCEPT ![f] = TRUE]
       /\ step' = [step EXCEPT ![a] = WriteStep(f)]
  /\ UNCHANGED <<row, stored, queue, asked, left, held, mixed, counters>>

EnsureRow(a) ==
  /\ step[a] = "ensure"
  /\ row' = TRUE
  /\ step' = [step EXCEPT ![a] = "claim"]
  /\ UNCHANGED <<stored, source, locked, queue, asked, left, history, mixed, counters>>

\* claimField: the upsert touches an existing provenance row only if unlocked.
Claimable_Always(f) == TRUE
Claimable(f) == ~locked[f]

SourceAfter_Forgotten(a, f) == IF source[f] = "none" THEN Label(a) ELSE source[f]
SourceAfter(a, f) == Label(a)

Claim(a) ==
  /\ step[a] = "claim"
  /\ Claimable(Field(a))
  /\ source' = [source EXCEPT ![Field(a)] = SourceAfter(a, Field(a))]
  /\ step' = [step EXCEPT ![a] = "write"]
  /\ mixed' = IF Crowded(a, Field(a)) THEN mixed ELSE mixed \ {Field(a)}
  /\ UNCHANGED <<row, stored, locked, queue, asked, left, history, counters>>

ClaimRefused(a) ==
  /\ step[a] = "claim"
  /\ ~Claimable(Field(a))
  /\ AfterWrite(a)
  /\ UNCHANGED <<data, asked, left, history, counters>>

\* UPDATE of the column.
WriteScalar(a) ==
  /\ step[a] = "write"
  /\ Field(a) # Genres
  /\ stored' = [stored EXCEPT ![Field(a)] = asked[a][Field(a)]]
  /\ AfterWrite(a)
  /\ UNCHANGED <<row, source, locked, asked, left, history, counters>>

\* DELETE of the list.
ClearGenres(a) ==
  /\ step[a] = "write"
  /\ Field(a) = Genres
  /\ stored' = [stored EXCEPT ![Genres] = {}]
  /\ left' = [left EXCEPT ![a] = asked[a][Genres]]
  /\ IF asked[a][Genres] = {}
     THEN AfterWrite(a)
     ELSE step' = [step EXCEPT ![a] = "insert"] /\ UNCHANGED <<queue, mixed>>
  /\ UNCHANGED <<row, source, locked, asked, history, counters>>

\* INSERT ... ON CONFLICT DO NOTHING.
InsertGenre(a, g) ==
  /\ step[a] = "insert"
  /\ g \in left[a]
  /\ stored' = [stored EXCEPT ![Genres] = @ \cup {g}]
  /\ left' = [left EXCEPT ![a] = @ \ {g}]
  /\ IF left[a] = {g} THEN AfterWrite(a) ELSE UNCHANGED <<step, queue, mixed>>
  /\ UNCHANGED <<row, source, locked, asked, history, counters>>

\* The end of an edit of one field.
LockField(a) ==
  /\ step[a] = "lock"
  /\ LET f == Field(a) IN
       /\ locked' = [locked EXCEPT ![f] = Flagged(f, TRUE)]
       /\ wanted' = [wanted EXCEPT ![f] = {asked[a][f]}]
       /\ held' = [held EXCEPT ![f] = TRUE]
  /\ GoTo(a, Tail(queue[a]))
  /\ UNCHANGED <<row, stored, source, asked, left, open, counters>>

------------------------------------------------------------------------------
(* What starts them, and what cuts them short. *)

\* store: the fields the provider has a value for, in order.
StartStore(F) ==
  /\ step[Refresh] = "idle"
  /\ passes < MaxPasses
  /\ passes' = passes + 1
  /\ asked' = [asked EXCEPT ![Refresh] = Value[Refresh]]
  /\ open' = [f \in managed |-> ~locked[f]]
  /\ GoTo(Refresh, Visit[F])
  /\ UNCHANGED <<data, left, wanted, held, requests, aborts>>

\* Set: the fields of F are edited, those of C cleared.
StartSet(u, F, C) ==
  /\ step[u] = "idle"
  /\ requests < MaxRequests
  /\ requests' = requests + 1
  /\ F # {}
  /\ asked' = [asked EXCEPT ![u] =
                 [f \in managed |-> IF f \in C THEN {} ELSE Value[u][f]]]
  /\ GoTo(u, Visit[F])
  /\ UNCHANGED <<data, left, history, passes, aborts>>

\* SetLocked by a request of its own.
SetLocked(u, f, pinned) ==
  /\ step[u] = "idle"
  /\ requests < MaxRequests
  /\ requests' = requests + 1
  /\ locked' = [locked EXCEPT ![f] = Flagged(f, pinned)]
  /\ source' = [source EXCEPT ![f] = IF @ = "none" THEN "manual" ELSE @]
  /\ held' = [held EXCEPT ![f] = pinned]
  /\ wanted' = IF pinned THEN wanted ELSE [wanted EXCEPT ![f] = {}]
  /\ open' = IF pinned THEN open ELSE [open EXCEPT ![f] = TRUE]
  /\ mixed' = IF Crowded(u, f) THEN mixed \cup {f} ELSE mixed
  /\ UNCHANGED <<row, stored, step, queue, asked, left, passes, aborts>>

\* A statement fails (the value violates a CHECK, the client has gone, the
\* connection or the process dies): what was written stays, the rest is not.
Abort(a) ==
  /\ Working(a)
  /\ aborts < MaxAborts
  /\ aborts' = aborts + 1
  /\ step' = [step EXCEPT ![a] = "idle"]
  /\ queue' = [queue EXCEPT ![a] = <<>>]
  /\ left' = [left EXCEPT ![a] = {}]
  /\ held' = IF a \in Users /\ step[a] # "unlock"
             THEN [held EXCEPT ![Field(a)] = FALSE] ELSE held
  /\ mixed' = IF step[a] \in {"write", "insert"} THEN mixed \cup {Field(a)} ELSE mixed
  /\ UNCHANGED <<data, asked, wanted, open, passes, requests>>

------------------------------------------------------------------------------

Next ==
  \/ \E a \in Actors : Unlock(a)
  \/ \E a \in Actors : EnsureRow(a)
  \/ \E a \in Actors : Claim(a)
  \/ \E a \in Actors : ClaimRefused(a)
  \/ \E a \in Actors : WriteScalar(a)
  \/ \E a \in Actors : ClearGenres(a)
  \/ \E a \in Actors, g \in Entries : InsertGenre(a, g)
  \/ \E a \in Actors : LockField(a)
  \/ \E F \in SUBSET managed : StartStore(F)
  \/ \E u \in Users, F \in SUBSET managed : \E C \in SUBSET F : StartSet(u, F, C)
  \/ \E u \in Users, f \in managed, pinned \in BOOLEAN : SetLocked(u, f, pinned)
  \/ \E a \in Actors : Abort(a)

Spec == Init /\ [][Next]_vars

------------------------------------------------------------------------------
(* Properties. *)

\* Every variable stays in its type.
TypeOK ==
  /\ row \in BOOLEAN
  /\ stored \in [managed -> SUBSET Entries]
  /\ source \in [managed -> {"none", "provider", "manual"}]
  /\ locked \in [managed -> BOOLEAN]
  /\ step \in [Actors -> {"idle", "unlock", "ensure", "claim", "write", "insert", "lock"}]
  /\ queue \in [Actors -> Seq(managed)]
  /\ asked \in [Actors -> [managed -> SUBSET Entries]]
  /\ left \in [Actors -> SUBSET Entries]
  /\ wanted \in [managed -> SUBSET SUBSET Entries]
  /\ held \in [managed -> BOOLEAN]
  /\ open \in [managed -> BOOLEAN] /\ mixed \in SUBSET managed
  /\ passes \in Nat /\ requests \in Nat /\ aborts \in Nat

\* Nobody is part-way through writing f.
Quiet(f) == \A a \in Actors : Working(a) => Field(a) # f

\* A completed edit stays what the field holds until somebody edits or unlocks
\* the field: no refresh replaces it.  Where writers overlapped in a field, or one
\* was cut short, this is asked again from the next claim made alone in it.
EditSurvives == \A f \in managed \ mixed : \A v \in wanted[f] : stored[f] = v

\* A field somebody locked is locked, once nobody is writing it, until somebody
\* asks for it to be unlocked or an edit of it is cut short, however edits,
\* lock requests and refreshes overlap.
LockHolds == \A f \in managed : held[f] /\ Quiet(f) => locked[f]

\* Once nobody is writing it, a field that has a value has the value of the
\* source its provenance names, on the same terms as EditSurvives.
SourceTellsTruth ==
  \A f \in managed \ mixed : Quiet(f) /\ stored[f] # {} =>
    /\ source[f] = "provider" => stored[f] = Value[Refresh][f]
    /\ source[f] = "manual" => \E u \in Users : stored[f] = Value[u][f]
    /\ source[f] # "none"

\* A refresh writes only fields that were unlocked at some time in its pass: a
\* lock taken before the pass reached the item, and kept, is never overridden,
\* whatever edits, locks and failures run beside it.
RefreshWritesOnlyOpen ==
  step[Refresh] \in {"write", "insert"} => open[Field(Refresh)]

\* While a completed edit stands its field is locked, whoever else is writing.
EditLeavesLock == \A f \in managed : wanted[f] # {} => locked[f]
=============================================================================
