------------------------------ MODULE Matcher -------------------------------
(***************************************************************************)
(* Which of a provider's candidates a film is (internal/metadata/match.go).*)
(*                                                                         *)
(* A title stands for the class of spellings normaliseTitle makes equal;   *)
(* Untitled is the class of those it leaves nothing of.  Candidates are a  *)
(* sequence, in the order the provider ranks them; a candidate is its      *)
(* primary title and year, and alt holds the other titles attached to it.  *)
(***************************************************************************)
EXTENDS Integers, FiniteSets, Sequences

CONSTANTS
  Titles,     \* classes of titles
  Untitled,   \* the class of titles with nothing left of them
  Years,      \* release years, 0 for none
  AltLimit    \* altTitleLookupLimit

ASSUME TitlesType == Untitled \in Titles
ASSUME YearsType == Years \subseteq Int
ASSUME AltLimitType == AltLimit \in Nat \ {0}

Queries == [title : Titles, year : Years]
Candidates == [title : Titles, year : Years]

\* A Decision: the candidate's place in the list or 0, and why.
Confidences == {"exact", "year_near", "title_only"}
Declines ==
  {"no_candidates", "unusable_title", "no_title_match", "ambiguous", "year_mismatch"}
Matched(i, confidence) == [candidate |-> i, why |-> confidence]
Declined(kind) == [candidate |-> 0, why |-> kind]

\* The candidates a title agrees with, by their primary title or another.
Titled(q, c, alt) == {i \in DOMAIN c : c[i].title = q.title \/ q.title \in alt[i]}

Exact(q, c, S) == {i \in S : c[i].year = q.year}

Near(q, c, S) == {i \in S : c[i].year - q.year \in {-1, 1}}

\* The only one of a tier, or too many for anybody to say.
OnlyOf_First(S, confidence) ==
  Matched(CHOOSE i \in S : \A j \in S : i <= j, confidence)
OnlyOf(S, confidence) ==
  IF Cardinality(S) = 1
    THEN Matched(CHOOSE i \in S : TRUE, confidence)
    ELSE Declined("ambiguous")

\* The tiers in order; one that has anybody in it ends the decision.
ByTier_Fallthrough(q, c, S) ==
  CASE Cardinality(Exact(q, c, S)) = 1 -> OnlyOf(Exact(q, c, S), "exact")
    [] Cardinality(Near(q, c, S)) = 1 -> OnlyOf(Near(q, c, S), "year_near")
    [] OTHER -> Declined("year_mismatch")
ByTier(q, c, S) ==
  CASE Exact(q, c, S) # {} -> OnlyOf(Exact(q, c, S), "exact")
    [] Exact(q, c, S) = {} /\ Near(q, c, S) # {} -> OnlyOf(Near(q, c, S), "year_near")
    [] OTHER -> Declined("year_mismatch")

Match(q, c, alt) ==
  LET S == Titled(q, c, alt) IN
  CASE c = <<>> -> Declined("no_candidates")
    [] c # <<>> /\ q.title = Untitled -> Declined("unusable_title")
    [] c # <<>> /\ q.title # Untitled /\ S = {} -> Declined("no_title_match")
    [] c # <<>> /\ q.title # Untitled /\ S # {} /\ q.year = 0 -> OnlyOf(S, "title_only")
    [] OTHER -> ByTier(q, c, S)

\* AlternativeTitleCandidates: the candidates whose other titles are worth a
\* request, at most AltLimit of them, in the provider's order.
InWindow(q, c) == {i \in DOMAIN c : q.year = 0 \/ c[i].year - q.year \in -1 .. 1}
WorthAsking(q, c) ==
  {i \in InWindow(q, c) : Cardinality({j \in InWindow(q, c) : j < i}) < AltLimit}
=============================================================================
