------------------------------- MODULE Picks -------------------------------
(***************************************************************************)
(* What the refresh pass keeps of a film's details: one image of a type    *)
(* and the certification of one region (addImage, bestImage, betterImage,  *)
(* languageTier and officialRating in internal/metadata/tmdb/tmdb.go).     *)
(*                                                                         *)
(* An image is a record; NoPath is the empty file path.  File paths are    *)
(* numbers, in their order as strings.                                     *)
(***************************************************************************)
EXTENDS Integers, Sequences

CONSTANTS
  ImagePaths,    \* file paths, 0 for the empty one
  Languages,     \* languages of artwork, "" for neutral
  Widths,        \* widths in pixels
  Scores,        \* vote_average
  Votes,         \* vote_count
  MinImageVotes  \* minImageVotes

ASSUME NumbersType ==
  /\ ImagePaths \subseteq Nat /\ Widths \subseteq Int /\ Scores \subseteq Int
  /\ Votes \subseteq Int /\ MinImageVotes \in Int

NoPath == 0
ImageCandidates ==
  [path : ImagePaths, lang : Languages, width : Widths, score : Scores, votes : Votes]
NoImage == [path |-> NoPath, lang |-> "", width |-> 0, score |-> 0, votes |-> 0]

ImageTypes == {"Primary", "Logo", "Backdrop"}
LanguagePreference ==
  [t \in ImageTypes |-> IF t = "Backdrop" THEN <<"", "en">> ELSE <<"en", "">>]

LanguageTier(a, t) ==
  CASE a.lang = LanguagePreference[t][1] -> 0
    [] a.lang = LanguagePreference[t][2] -> 1
    [] OTHER -> 2

Credible(a) == a.votes >= MinImageVotes

BetterImage_NoPath(a, b, t) ==
  \/ LanguageTier(a, t) < LanguageTier(b, t)
  \/ LanguageTier(a, t) = LanguageTier(b, t) /\ a.width > b.width
BetterImage(a, b, t) ==
  \/ LanguageTier(a, t) < LanguageTier(b, t)
  \/ /\ LanguageTier(a, t) = LanguageTier(b, t)
     /\ \/ Credible(a) /\ ~Credible(b)
        \/ Credible(a) /\ Credible(b) /\ a.score > b.score
        \/ /\ Credible(a) = Credible(b)
           /\ Credible(a) => a.score = b.score
           /\ a.width > b.width \/ (a.width = b.width /\ a.path < b.path)

\* One look along the list, keeping the best so far.
BestImage(c, t) ==
  LET f[n \in 0 .. Len(c)] ==
        IF n = 0 THEN NoImage
        ELSE IF c[n].path = NoPath THEN f[n - 1]
        ELSE IF f[n - 1] = NoImage \/ BetterImage(c[n], f[n - 1], t) THEN c[n]
        ELSE f[n - 1]
  IN f[Len(c)]

\* The first certification there is among the first results of the region: a
\* region without one has no rating.
NoRating == ""
OfficialRating_Fallback(results, region) ==
  LET all == {r \in DOMAIN results : \E k \in DOMAIN results[r].certs :
                                        results[r].certs[k] # NoRating} IN
  IF all = {} THEN NoRating
  ELSE LET r == CHOOSE r \in all : results[r].region = region \/
                                     \A s \in all : results[s].region # region
           given == {k \in DOMAIN results[r].certs : results[r].certs[k] # NoRating}
       IN results[r].certs[CHOOSE k \in given : \A l \in given : k <= l]
OfficialRating(results, region) ==
  LET own == {r \in DOMAIN results : results[r].region = region} IN
  IF own = {} THEN NoRating
  ELSE LET certs == results[CHOOSE r \in own : \A s \in own : r <= s].certs
           given == {k \in DOMAIN certs : certs[k] # NoRating}
       IN IF given = {} THEN NoRating
          ELSE certs[CHOOSE k \in given : \A l \in given : k <= l]
=============================================================================
