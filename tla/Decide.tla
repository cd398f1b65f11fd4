------------------------------- MODULE Decide -------------------------------
(***************************************************************************)
(* What the passes ask the provider about one item, and what they make of  *)
(* answers that may not come: the identify pass's decision (decide,        *)
(* withAlternativeTitles and resolveIDs in internal/service/identity.go)   *)
(* and the refresh pass's details (FetchMetadata), by way of               *)
(* internal/metadata/tmdb/tmdb.go.                                         *)
(*                                                                         *)
(* What the provider publishes does not change while an item is decided.   *)
(* A request is answered, fails, or is refused with 429.  The decision is  *)
(* made twice at most: on the titles a search returns, and once more with  *)
(* the other titles of the candidates that could still match.  The details *)
(* of a film are one request.                                              *)
(***************************************************************************)
EXTENDS Matcher, Picks

CONSTANTS
  MaxCandidates,  \* bound: candidates a search returns
  OwnIds,         \* the ids the provider may know of other providers
  MaxImages,      \* bound: images of a type in the details
  Regions,        \* regions with certifications
  Region,         \* the one the operator configured
  Certs           \* the lists of certifications a region's results hold

ASSUME DecideAssumption ==
  /\ MaxCandidates \in Nat /\ MaxImages \in Nat
  /\ Certs \subseteq Seq(STRING)

VARIABLES
  query,      \* what the scan made of the item's name
  found,      \* the candidates a search returns, ranked by the provider
  published,  \* the other titles the provider publishes of each
  images,     \* the images the details list, in the provider's order
  releases,   \* the certifications the details list, by region
  attached,   \* those the pass has attached
  pc,         \* "search", "alternatives", "ids", "fetch" or "done"
  todo,       \* candidates still to be asked about
  decision,   \* the decision, a NoDecision before the first
  outcome,    \* what the pass does: "matched", "unmatched", "skip" or "stop"
  ids,        \* the providers whose ids are stored with a match
  art,        \* the image of each type the details came to
  rating,     \* the rating they came to
  failed      \* history: candidates whose other titles could not be had

world == <<query, found, published, images, releases>>
details == <<art, rating>>
decideVars == <<world, attached, pc, todo, decision, outcome, ids, details, failed>>

NoQuery == [title |-> Untitled, year |-> 0]
NoDecision == [candidate |-> 0, why |-> "none"]

------------------------------------------------------------------------------
(* Client.get. *)

Statuses == {200, 401, 404, 429, 500}

Answer(status) ==
  CASE status = 200 -> "ok" [] status = 429 -> "limited" [] OTHER -> "failed"

------------------------------------------------------------------------------
(* What the provider may list. *)

UpTo(n, S) == UNION {[1 .. k -> S] : k \in 0 .. n}
Releases == [region : Regions, certs : Certs]
Listings ==
  {c \in UpTo(MaxImages, ImageCandidates) :
     \A i, j \in DOMAIN c : i # j => c[i].path # c[j].path}

DecideInit ==
  /\ \/ /\ pc = "search"
        /\ query \in Queries
        /\ found \in UpTo(MaxCandidates, Candidates)
        /\ images = <<>>
        /\ releases = <<>>
     \/ /\ pc = "fetch"
        /\ query = NoQuery
        /\ found = <<>>
        /\ images \in Listings
        /\ releases \in UpTo(2, Releases)
  /\ published \in [DOMAIN found -> SUBSET {query.title}]
  /\ attached = [i \in DOMAIN found |-> {}]
  /\ todo = {}
  /\ decision = NoDecision
  /\ outcome = "none"
  /\ ids = {}
  /\ art = [t \in ImageTypes |-> NoImage]
  /\ rating = NoRating
  /\ failed = {}

Conclude(d) ==
  /\ decision' = d
  /\ pc' = IF d.candidate # 0 THEN "ids" ELSE "done"
  /\ outcome' = IF d.candidate # 0 THEN "matched" ELSE "unmatched"

\* A refusal stops the pass; any other failure leaves the item as it is.
GiveUp_Decline(answer) ==
  /\ answer # "ok"
  /\ outcome' = IF answer = "limited" THEN "stop" ELSE "unmatched"
  /\ pc' = "done"
  /\ UNCHANGED <<world, attached, todo, decision, ids, details, failed>>
GiveUp(answer) ==
  /\ answer # "ok"
  /\ outcome' = IF answer = "limited" THEN "stop" ELSE "skip"
  /\ pc' = "done"
  /\ UNCHANGED <<world, attached, todo, decision, ids, details, failed>>

\* Only nothing being called that is worth a second look.
SecondLook(d) == d.why = "no_title_match"

Search(answer) ==
  /\ pc = "search"
  /\ \/ GiveUp(answer)
     \/ /\ answer = "ok"
        /\ LET d == Match(query, found, attached) IN
           IF SecondLook(d)
             THEN /\ decision' = d
                  /\ pc' = "alternatives"
                  /\ todo' = WorthAsking(query, found)
                  /\ UNCHANGED outcome
             ELSE Conclude(d) /\ UNCHANGED todo
        /\ UNCHANGED <<world, attached, ids, details, failed>>

\* One candidate that cannot be asked about does not end the decision.
Alternatives(answer) ==
  /\ pc = "alternatives"
  /\ todo # {}
  /\ LET i == CHOOSE j \in todo : \A k \in todo : j <= k IN
     \/ answer = "limited" /\ GiveUp(answer)
     \/ /\ answer = "failed"
        /\ todo' = todo \ {i}
        /\ failed' = failed \cup {i}
        /\ UNCHANGED <<world, attached, pc, decision, outcome, ids, details>>
     \/ /\ answer = "ok"
        /\ todo' = todo \ {i}
        /\ attached' = [attached EXCEPT ![i] = published[i]]
        /\ UNCHANGED <<world, pc, decision, outcome, ids, details, failed>>

Rematch ==
  /\ pc = "alternatives"
  /\ todo = {}
  /\ Conclude(Match(query, found, attached))
  /\ UNCHANGED <<world, attached, todo, ids, details, failed>>

\* The provider's own id is the identity; the others are stored if they come.
ResolveIDs(answer) ==
  /\ pc = "ids"
  /\ \E extra \in SUBSET OwnIds :
       ids' = IF answer = "ok" THEN {"own"} \cup extra ELSE {"own"}
  /\ pc' = "done"
  /\ UNCHANGED <<world, attached, todo, decision, outcome, details, failed>>

\* One request for everything; a refusal stops this pass as well.
FetchMetadata(answer) ==
  /\ pc = "fetch"
  /\ \/ GiveUp(answer)
     \/ /\ answer = "ok"
        /\ art' = [t \in ImageTypes |-> BestImage(images, t)]
        /\ rating' = OfficialRating(releases, Region)
        /\ outcome' = "fetched"
        /\ pc' = "done"
        /\ UNCHANGED <<world, attached, todo, decision, ids, failed>>

DecideNext ==
  \/ \E status \in Statuses :
       \/ Search(Answer(status))
       \/ Alternatives(Answer(status))
       \/ ResolveIDs(Answer(status))
       \/ FetchMetadata(Answer(status))
  \/ Rematch

DecideSpec == DecideInit /\ [][DecideNext]_decideVars

------------------------------------------------------------------------------
(* Properties. *)

\* Every variable holds what the code can put there; the rating in particular is
\* one that the configured region gave, for an operator cannot tell another's
\* from it.
DecideTypeOK ==
  /\ rating # NoRating =>
       \E r \in DOMAIN releases :
         releases[r].region = Region /\ rating \in {releases[r].certs[k] : k \in DOMAIN releases[r].certs}
  /\ query \in Queries \cup {NoQuery}
  /\ \A i \in DOMAIN found : found[i] \in Candidates /\ attached[i] \subseteq published[i]
  /\ pc \in {"search", "alternatives", "ids", "fetch", "done"}
  /\ todo \subseteq DOMAIN found /\ failed \subseteq DOMAIN found
  /\ decision \in
       [candidate : {0} \cup DOMAIN found, why : Confidences \cup Declines \cup {"none"}]
  /\ outcome \in {"none", "matched", "unmatched", "skip", "stop", "fetched"}
  /\ \A t \in ImageTypes : art[t] \in {images[i] : i \in DOMAIN images} \cup {NoImage}
  /\ ids \subseteq {"own"} \cup OwnIds

\* What a person with everything the provider publishes would say the film can
\* be: it is called that, by one name or another, and the year does not speak
\* against it.
Distance(i) == IF found[i].year >= query.year THEN found[i].year - query.year
                                              ELSE query.year - found[i].year
CalledThat(i) == found[i].title = query.title \/ query.title \in published[i]

\* Every candidate that could have been asked about was.
AllAsked ==
  query.year # 0 /\ failed = {} /\ InWindow(query, found) = WorthAsking(query, found)

\* A match is the film that agrees best of everything that was compared: no
\* other candidate that is known to be called that is as near in its year.  And
\* the year window and the second look lose nothing: a match made by another
\* title, when everybody in the window was asked, is the nearest in its year of
\* all that are called that.  The wrong film is worse than none.
NeverOneOfSeveral ==
  LET m == decision.candidate
      Farther(i) == query.year # 0 /\ Distance(i) > Distance(m)
  IN m # 0 =>
       /\ query.title # Untitled
       /\ query.year # 0 => Distance(m) <= 1
       /\ \A i \in DOMAIN found \ {m} :
            \/ found[i].title = query.title
            \/ query.title \in attached[i]
            \/ AllAsked /\ found[m].title # query.title /\ CalledThat(i)
            => Farther(i)

\* A decline is a judgement somebody made: the provider answered every
\* question that stopped the decision, and a refusal stops the pass.
DeclinesAreJudged ==
  outcome = "unmatched" =>
    /\ decision.candidate = 0 /\ decision.why \in Declines
    /\ decision.why = "no_title_match" =>
         \A i \in WorthAsking(query, found) : attached[i] = published[i] \/ i \in failed

\* The provider's ranking decides nothing while everybody can be asked: the
\* same candidates in the opposite order end in the same match.
Opposite(i) == Len(found) + 1 - i
RankingIrrelevant ==
  LET turned == [i \in DOMAIN found |-> found[Opposite(i)]]
      d == Match(query, turned, [i \in DOMAIN found |-> attached[Opposite(i)]])
  IN pc = "ids" => d.why = decision.why /\ d.candidate = Opposite(decision.candidate)

\* A pass that runs again over the same details keeps the same images, in
\* whatever order the provider lists them that day: it downloads nothing.
\* The image is the best there is by the rules of its type: nobody listed is in
\* a better language, and none in the same language has a score to believe when
\* the chosen one has not.  There is none only when nothing usable is listed.
Orders == {p \in [DOMAIN images -> DOMAIN images] :
             \A i, j \in DOMAIN images : p[i] = p[j] => i = j}
BestInAnyOrder ==
  outcome = "fetched" =>
    \A t \in ImageTypes :
      /\ \A p \in Orders : BestImage([i \in DOMAIN images |-> images[p[i]]], t) = art[t]
      /\ \A i \in DOMAIN images : images[i].path # NoPath =>
           /\ art[t] # NoImage
           /\ LanguageTier(art[t], t) <= LanguageTier(images[i], t)
           /\ LanguageTier(art[t], t) = LanguageTier(images[i], t) /\ Credible(images[i]) =>
                Credible(art[t]) /\ art[t].score >= images[i].score
=============================================================================
