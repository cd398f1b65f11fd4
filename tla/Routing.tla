------------------------------ MODULE Routing ------------------------------
(***************************************************************************)
(* How a request path reaches a handler: the three mounts of the server    *)
(* (internal/server/server.go), the legacy spellings of the Jellyfin       *)
(* surface (internal/compat/jellyfin/routes.go), the trie that folds the   *)
(* casing of literal segments (routefold.go), the registered patterns      *)
(* (api.go, routes.go) and the matching of net/http's mux (external).      *)
(*                                                                         *)
(* A segment is a record: the word it spells without regard to case,       *)
(* whether it is spelled as registered, and the extension behind the word  *)
(* ("none", "one", or "odd" for an empty or a double one).  Two segments   *)
(* are the same bytes exactly when the records are equal.  A path is its   *)
(* segments and whether a slash follows the last.  Empty inner segments,   *)
(* which the mux redirects away, are left out.                             *)
(***************************************************************************)
EXTENDS Naturals, Sequences, FiniteSets, SequencesExt

Spelled(w) == [word |-> w, form |-> "canon", ext |-> "none"]

\* The variable segments of a pattern, which it names in braces.
Variables == {"userId", "id", "type", "index", "prefsId"}

(* One registration: the method, the pattern, and what stands behind it. *)
Route(method, pattern, guard, handler) ==
  [method |-> method, pattern |-> pattern, guard |-> guard, handler |-> handler]

Open(method, pattern, handler)   == Route(method, pattern, "open", handler)
Authed(method, pattern, handler) == Route(method, pattern, "token", handler)
UserScoped(rest, handler)        == Route("GET", <<"Users", "userId">> \o rest, "user", handler)

OpenRoutes ==
  { Open("GET", <<"System", "Info", "Public">>, "settings"),
    Open("GET", <<"Users", "Public">>, "static"),
    Open("GET", <<"Branding", "Configuration">>, "static"),
    Open("GET", <<"QuickConnect", "Enabled">>, "static"),
    Open("POST", <<"QuickConnect", "Initiate">>, "refused"),
    Open("POST", <<"Users", "AuthenticateByName">>, "login"),
    Open("GET", <<"Items", "id", "Images", "type">>, "image"),
    Open("GET", <<"Items", "id", "Images", "type", "index">>, "image"),
    Open("GET", <<"Videos", "id", "stream">>, "stream") }

TokenRoutes ==
  { Authed("GET", <<"System", "Info">>, "settings"),
    Authed("GET", <<"Users", "Me">>, "settings"),
    Authed("POST", <<"Sessions", "Capabilities">>, "capabilities"),
    Authed("POST", <<"Sessions", "Capabilities", "Full">>, "capabilities"),
    Authed("GET", <<"socket">>, "socket"),
    Authed("GET", <<"DisplayPreferences", "prefsId">>, "static"),
    Authed("GET", <<"UserImage">>, "static"),
    Authed("GET", <<"System", "Endpoint">>, "static"),
    Authed("GET", <<"Playback", "BitrateTest">>, "static"),
    Authed("GET", <<"UserItems", "Resume">>, "browse"),
    Authed("GET", <<"Items", "Latest">>, "browse"),
    Authed("GET", <<"Shows", "NextUp">>, "static"),
    Authed("GET", <<"LiveTv", "Recordings", "Folders">>, "static"),
    Authed("GET", <<"UserViews">>, "browse"),
    Authed("GET", <<"Items">>, "browse"),
    Authed("GET", <<"Items", "id">>, "browse"),
    Authed("GET", <<"Items", "id", "Intros">>, "static"),
    Authed("GET", <<"Items", "id", "Similar">>, "static"),
    Authed("GET", <<"Items", "id", "SpecialFeatures">>, "static"),
    Authed("GET", <<"Items", "id", "ThemeSongs">>, "static"),
    Authed("GET", <<"MediaSegments", "id">>, "static"),
    Authed("POST", <<"Items", "id", "PlaybackInfo">>, "playbackinfo"),
    Authed("POST", <<"Sessions", "Playing">>, "playing"),
    Authed("POST", <<"Sessions", "Playing", "Progress">>, "playing"),
    Authed("POST", <<"Sessions", "Playing", "Stopped">>, "playing") }

UserScopedRoutes ==
  { UserScoped(<<>>, "settings"),
    UserScoped(<<"Items">>, "browse"),
    UserScoped(<<"Items", "Resume">>, "browse"),
    UserScoped(<<"Items", "Latest">>, "browse"),
    UserScoped(<<"Views">>, "browse"),
    UserScoped(<<"Items", "id">>, "browse"),
    UserScoped(<<"Items", "id", "Intros">>, "static"),
    UserScoped(<<"Items", "id", "SpecialFeatures">>, "static") }

Routes == OpenRoutes \cup TokenRoutes \cup UserScopedRoutes

----------------------------------------------------------------------------
(* normalizeLegacyPath: one alias segment off the front, the slash off the *)
(* back, and the container off a stream.                                   *)

IsLegacyPrefix(seg) == seg.ext = "none" /\ seg.word \in {"emby", "mediabrowser"}

CutLegacyPrefix(segs) ==
  IF segs # <<>> /\ IsLegacyPrefix(segs[1]) THEN Tail(segs) ELSE segs

NormalizeStreamSpelling(segs) ==
  IF /\ Len(segs) >= 2
     /\ segs[1].word = "Videos" /\ segs[1].ext = "none"
     /\ Last(segs).word = "stream" /\ Last(segs).ext = "one"
  THEN Append(Front(segs), Spelled("stream"))
  ELSE segs

NormalizeLegacyPath(path) ==
  [segs |-> NormalizeStreamSpelling(CutLegacyPrefix(path.segs)), slash |-> FALSE]

----------------------------------------------------------------------------
(* The trie.  A node is the shape of the patterns that lead to it, every   *)
(* parameter being the one wildcard child.                                 *)

Wild == "/"

\* What clients send: no segment has a slash in it, so none is the wildcard.
Segments == [word : STRING \ {Wild}, form : {"canon", "other"}, ext : {"none", "one", "odd"}]

Shape(pattern) ==
  [i \in DOMAIN pattern |-> IF pattern[i] \in Variables THEN Wild ELSE pattern[i]]

Terminals == {Shape(r.pattern) : r \in Routes}
Nodes     == UNION { {SubSeq(t, 1, n) : n \in 0..Len(t)} : t \in Terminals }

NoWay == [ok |-> FALSE, segs |-> <<>>]

(* walk: the literal child first, the wildcard child when that fails, each *)
(* answering the spelling of the segments below it.  A node is as deep as  *)
(* the segments that led to it.                                            *)
Walk_LiteralOnly(segs) ==
  LET from[node \in Nodes] ==
        IF Len(node) >= Len(segs)
        THEN [ok |-> Len(node) = Len(segs) /\ node \in Terminals, segs |-> <<>>]
        ELSE LET seg == segs[Len(node) + 1]
                 down(child, head) ==
                   IF child \in Nodes /\ from[child].ok
                   THEN [ok |-> TRUE, segs |-> <<head>> \o from[child].segs] ELSE NoWay
             IN  IF Append(node, seg.word) \in Nodes
                 THEN down(Append(node, seg.word), Spelled(seg.word))
                 ELSE down(Append(node, Wild), seg)
  IN  from[<<>>]

Walk(segs) ==
  LET from[node \in Nodes] ==
        IF Len(node) >= Len(segs)
        THEN [ok |-> Len(node) = Len(segs) /\ node \in Terminals, segs |-> <<>>]
        ELSE LET seg == segs[Len(node) + 1]
                 down(child, head) ==
                   IF child \in Nodes /\ from[child].ok
                   THEN [ok |-> TRUE, segs |-> <<head>> \o from[child].segs] ELSE NoWay
                 literal == IF seg.ext = "none"
                            THEN down(Append(node, seg.word), Spelled(seg.word)) ELSE NoWay
             IN  IF literal.ok THEN literal ELSE down(Append(node, Wild), seg)
  IN  from[<<>>]

Fold(path) ==
  LET way == Walk(path.segs)
  IN  IF path.segs # <<>> /\ way.ok
      THEN [segs |-> way.segs, slash |-> FALSE]
      ELSE path

----------------------------------------------------------------------------
(* net/http's mux: literals byte for byte, a wildcard any one segment, the *)
(* pattern with more literals in front of one with fewer, and 405 when     *)
(* only another method has the path.                                       *)

Instance(segs, pattern, Same(_, _)) ==
  /\ Len(segs) = Len(pattern)
  /\ \A i \in DOMAIN pattern :
       pattern[i] \in Variables \/ Same(segs[i], pattern[i])

Literals(pattern) == {i \in DOMAIN pattern : pattern[i] \notin Variables}

Exactly(seg, lit) == seg = Spelled(lit)

MostSpecific(routes) ==
  CHOOSE r \in routes :
    \A other \in routes : Literals(other.pattern) \subseteq Literals(r.pattern)

(* A pattern registered for GET serves HEAD as well. *)
Serves(r, method) == r.method = method \/ (r.method = "GET" /\ method = "HEAD")

MuxMatch(method, path) ==
  LET here == {r \in Routes : ~ path.slash /\ Instance(path.segs, r.pattern, Exactly)}
      mine == {r \in here : Serves(r, method)}
  IN  IF mine # {} THEN [status |-> "handler", route |-> MostSpecific(mine)]
      ELSE [status |-> IF here # {} THEN "405" ELSE "404",
            route  |-> Open(method, <<>>, "none")]

(* The segments the handler reads with PathValue. *)
PathValues(segs, pattern) ==
  [v \in {pattern[i] : i \in DOMAIN pattern \ Literals(pattern)} |->
     segs[CHOOSE i \in DOMAIN pattern : pattern[i] = v]]

----------------------------------------------------------------------------
(* The server's own mux in front of it: /health, /api/v1/ and the rest.    *)

Mount(method, path) ==
  CASE method \in {"GET", "HEAD"} /\ path = [segs |-> <<Spelled("health")>>, slash |-> FALSE] ->
         "health"
    [] Len(path.segs) >= 2 /\ path.segs[1] = Spelled("api")
                           /\ path.segs[2] = Spelled("v1") -> "native"
    [] OTHER -> "compat"

(* What withLegacyPaths hands to the mux, and what the mux makes of it. *)
Canonical(path) == Fold(NormalizeLegacyPath(path))

Reached(method, path) ==
  LET canonical == Canonical(path)
      match     == MuxMatch(method, canonical)
  IN  [status |-> match.status, handler |-> match.route.handler,
       guard  |-> match.route.guard, pattern |-> match.route.pattern,
       values |-> PathValues(canonical.segs, match.route.pattern)]
=============================================================================
