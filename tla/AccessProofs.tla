---------------------------- MODULE AccessProofs ----------------------------
(***************************************************************************)
(* Proofs about Access: for any devices, requests in flight, tokens and    *)
(* paths.                                                                  *)
(*                                                                         *)
(* The argument.  What a handler may count on is fixed by the route it was *)
(* entered by, so the routing comes first: the mux always finds a most     *)
(* specific route, because all patterns of one length agree on which       *)
(* segments are literal, but for one segment.  For the same reason the     *)
(* walk of the trie, which prefers the literal child, ends in the shape    *)
(* with the literals of all others that a path spells, and the path folded *)
(* to it matches the patterns it spelled.  Then every request is one       *)
(* of a few shapes by where it is (ReqOk), and the tables answer for the   *)
(* tokens: a device's last token is in its session's row, as logins        *)
(* replace it in place and nothing removes the row.                        *)
(***************************************************************************)
EXTENDS Access, SequenceTheorems, FiniteSetTheorems, TLAPS

----------------------------------------------------------------------------
(* The routing.                                                            *)

(* Where a pattern of a length may have a literal and where a variable.    *)
Formed(p) ==
  /\ Len(p) \in 1..5 /\ DOMAIN p = 1..Len(p)
  /\ p[1] \notin Variables
  /\ Len(p) >= 3 => p[3] \notin Variables
  /\ Len(p) >= 4 => p[2] \in Variables
  /\ Len(p) = 5 => p[4] \in Variables
  /\ \A i \in 1..Len(p) : p[i] # Wild

LEMMA OpenFormed == ASSUME NEW r \in OpenRoutes PROVE Formed(r.pattern)
<1>1. /\ Formed(<<"System", "Info", "Public">>) /\ Formed(<<"Users", "Public">>)
      /\ Formed(<<"Branding", "Configuration">>) /\ Formed(<<"QuickConnect", "Enabled">>)
      /\ Formed(<<"QuickConnect", "Initiate">>) /\ Formed(<<"Users", "AuthenticateByName">>)
      /\ Formed(<<"Items", "id", "Images", "type">>) /\ Formed(<<"Items", "id", "Images", "type", "index">>)
      /\ Formed(<<"Videos", "id", "stream">>)
  BY DEF Formed, Variables, Wild
<1>2. r.pattern \in {<<"System", "Info", "Public">>, <<"Users", "Public">>,
      <<"Branding", "Configuration">>, <<"QuickConnect", "Enabled">>,
      <<"QuickConnect", "Initiate">>, <<"Users", "AuthenticateByName">>,
      <<"Items", "id", "Images", "type">>,
      <<"Items", "id", "Images", "type", "index">>,
      <<"Videos", "id", "stream">>}
  BY DEF OpenRoutes, Open, Route
<1> QED BY <1>1, <1>2, Zenon

LEMMA TokenFormed == ASSUME NEW r \in TokenRoutes PROVE Formed(r.pattern)
<1>1. /\ Formed(<<"System", "Info">>) /\ Formed(<<"Users", "Me">>)
      /\ Formed(<<"Sessions", "Capabilities">>) /\ Formed(<<"Sessions", "Capabilities", "Full">>)
      /\ Formed(<<"socket">>) /\ Formed(<<"DisplayPreferences", "prefsId">>)
      /\ Formed(<<"UserImage">>) /\ Formed(<<"System", "Endpoint">>)
      /\ Formed(<<"Playback", "BitrateTest">>) /\ Formed(<<"UserItems", "Resume">>)
      /\ Formed(<<"Items", "Latest">>) /\ Formed(<<"Shows", "NextUp">>)
      /\ Formed(<<"LiveTv", "Recordings", "Folders">>) /\ Formed(<<"UserViews">>)
      /\ Formed(<<"Items">>) /\ Formed(<<"Items", "id">>)
      /\ Formed(<<"Items", "id", "Intros">>) /\ Formed(<<"Items", "id", "Similar">>)
      /\ Formed(<<"Items", "id", "SpecialFeatures">>) /\ Formed(<<"Items", "id", "ThemeSongs">>)
      /\ Formed(<<"MediaSegments", "id">>) /\ Formed(<<"Items", "id", "PlaybackInfo">>)
      /\ Formed(<<"Sessions", "Playing">>) /\ Formed(<<"Sessions", "Playing", "Progress">>)
      /\ Formed(<<"Sessions", "Playing", "Stopped">>)
  BY DEF Formed, Variables, Wild
<1>2. r.pattern \in {<<"System", "Info">>, <<"Users", "Me">>,
      <<"Sessions", "Capabilities">>, <<"Sessions", "Capabilities", "Full">>,
      <<"socket">>, <<"DisplayPreferences", "prefsId">>, <<"UserImage">>,
      <<"System", "Endpoint">>, <<"Playback", "BitrateTest">>,
      <<"UserItems", "Resume">>, <<"Items", "Latest">>, <<"Shows", "NextUp">>,
      <<"LiveTv", "Recordings", "Folders">>, <<"UserViews">>, <<"Items">>,
      <<"Items", "id">>, <<"Items", "id", "Intros">>,
      <<"Items", "id", "Similar">>, <<"Items", "id", "SpecialFeatures">>,
      <<"Items", "id", "ThemeSongs">>, <<"MediaSegments", "id">>,
      <<"Items", "id", "PlaybackInfo">>, <<"Sessions", "Playing">>,
      <<"Sessions", "Playing", "Progress">>,
      <<"Sessions", "Playing", "Stopped">>}
  BY DEF TokenRoutes, Authed, Route
<1> QED BY <1>1, <1>2, Zenon

LEMMA UserScopedFormed == ASSUME NEW r \in UserScopedRoutes PROVE Formed(r.pattern)
<1>1. /\ Formed(<<"Users", "userId">>) /\ Formed(<<"Users", "userId", "Items">>)
      /\ Formed(<<"Users", "userId", "Views">>) /\ Formed(<<"Users", "userId", "Items", "Resume">>)
      /\ Formed(<<"Users", "userId", "Items", "Latest">>) /\ Formed(<<"Users", "userId", "Items", "id">>)
      /\ Formed(<<"Users", "userId", "Items", "id", "Intros">>)
      /\ Formed(<<"Users", "userId", "Items", "id", "SpecialFeatures">>)
  BY DEF Formed, Variables, Wild
<1>2. r.pattern \in {<<"Users", "userId">>, <<"Users", "userId", "Items">>,
      <<"Users", "userId", "Views">>,
      <<"Users", "userId", "Items", "Resume">>,
      <<"Users", "userId", "Items", "Latest">>,
      <<"Users", "userId", "Items", "id">>,
      <<"Users", "userId", "Items", "id", "Intros">>,
      <<"Users", "userId", "Items", "id", "SpecialFeatures">>}
  BY DEF UserScopedRoutes, UserScoped, Route
<1> QED BY <1>1, <1>2, Zenon

LEMMA PatternsFormed == \A r \in Routes : Formed(r.pattern)
BY OpenFormed, TokenFormed, UserScopedFormed DEF Routes

(* So of several routes that one path matches, one has the literals of all *)
(* others: the one with a literal at the segment where they may differ.    *)
LEMMA MostSpecificExists ==
  ASSUME NEW n, NEW S, S # {}, \A r \in S : r \in Routes /\ Len(r.pattern) = n
  PROVE  \E r \in S : \A other \in S : Literals(other.pattern) \subseteq Literals(r.pattern)
<1>1. \A r \in S : Formed(r.pattern) /\ Len(r.pattern) = n
  BY PatternsFormed
<1> DEFINE k == IF n <= 3 THEN 2 ELSE n
<1>2. n \in 1..5
  BY <1>1 DEF Formed
<1>3. ASSUME NEW r \in S, NEW other \in S, k \in Literals(r.pattern) \/ k \notin Literals(other.pattern)
      PROVE  Literals(other.pattern) \subseteq Literals(r.pattern)
  <2> SUFFICES ASSUME NEW i \in Literals(other.pattern) PROVE i \in Literals(r.pattern)
    OBVIOUS
  <2>1. i \in 1..n /\ other.pattern[i] \notin Variables
    BY <1>1 DEF Formed, Literals
  <2>2. DOMAIN r.pattern = 1..n
    BY <1>1 DEF Formed
  <2>3. i # k => r.pattern[i] \notin Variables
    <3>1. i = 1 \/ i = 2 \/ i = 3 \/ i = 4 \/ i = 5
      BY <1>2, <2>1
    <3>2. i = 2 => n <= 3
      BY <1>1, <1>2, <2>1 DEF Formed
    <3>3. i = 4 => n # 5
      BY <1>1, <2>1 DEF Formed
    <3>4. i # k => i = 1 \/ (i = 3 /\ n >= 3)
      BY <1>2, <2>1, <3>1, <3>2, <3>3
    <3> QED BY <1>1, <3>4 DEF Formed
  <2> QED BY <1>3, <2>1, <2>2, <2>3 DEF Literals
<1>4. CASE \E r \in S : k \in Literals(r.pattern)
  BY <1>3, <1>4
<1>5. CASE \A r \in S : k \notin Literals(r.pattern)
  BY <1>3, <1>5
<1> QED BY <1>4, <1>5

(* The mux never has to choose between routes of which none is the most    *)
(* specific: its choice is one of those the path matches.                  *)
THEOREM MostSpecificIsOne ==
  ASSUME NEW n, NEW S, S # {}, \A r \in S : r \in Routes /\ Len(r.pattern) = n
  PROVE  MostSpecific(S) \in S
<1>1. \E r \in S : \A other \in S : Literals(other.pattern) \subseteq Literals(r.pattern)
  BY MostSpecificExists
<1> QED BY <1>1, Zenon DEF MostSpecific

----------------------------------------------------------------------------
(* The trie.                                                               *)

Words == UNION {{t[i] : i \in DOMAIN t} : t \in Terminals}

LEMMA TerminalIs ==
  ASSUME NEW t \in Terminals
  PROVE  t \in Seq(Words) /\ Len(t) \in 1..5 /\ DOMAIN t = 1..Len(t)
<1>1. PICK r \in Routes : t = Shape(r.pattern)
  BY DEF Terminals
<1>2. DOMAIN r.pattern = 1..Len(r.pattern) /\ Len(r.pattern) \in 1..5
  BY PatternsFormed DEF Formed
<1>3. PICK m \in Nat : m \in 1..5 /\ DOMAIN t = 1..m
  <2> DEFINE n == Len(r.pattern)
  <2>1. DOMAIN t = 1..n /\ n \in 1..5 /\ n \in Nat
    BY <1>1, <1>2 DEF Shape
  <2> HIDE DEF n
  <2> QED BY <2>1
<1>4. t = [i \in 1..m |-> t[i]]
  BY <1>1, <1>3 DEF Shape
<1>5. t \in [1..m -> Words]
  BY <1>3, <1>4 DEF Words
<1> QED BY <1>3, <1>5

LEMMA ShapeIs ==
  ASSUME NEW r \in Routes
  PROVE  /\ Shape(r.pattern) \in Terminals /\ Len(Shape(r.pattern)) = Len(r.pattern)
         /\ DOMAIN r.pattern = 1..Len(r.pattern) /\ Len(r.pattern) \in 1..5
         /\ \A i \in 1..Len(r.pattern) :
              /\ r.pattern[i] # Wild
              /\ Shape(r.pattern)[i] = IF r.pattern[i] \in Variables THEN Wild ELSE r.pattern[i]
<1>1. /\ DOMAIN r.pattern = 1..Len(r.pattern) /\ Len(r.pattern) \in 1..5
      /\ \A i \in 1..Len(r.pattern) : r.pattern[i] # Wild
  BY PatternsFormed DEF Formed
<1>2. Shape(r.pattern) \in Terminals
  BY DEF Terminals
<1>3. /\ DOMAIN Shape(r.pattern) = 1..Len(r.pattern)
      /\ \A i \in 1..Len(r.pattern) :
           Shape(r.pattern)[i] = IF r.pattern[i] \in Variables THEN Wild ELSE r.pattern[i]
  BY <1>1 DEF Shape
<1>4. Len(Shape(r.pattern)) = Len(r.pattern)
  <2>1. \A a, b \in Nat : 1..a = 1..b => a = b
    <3> SUFFICES ASSUME NEW a \in Nat, NEW b \in Nat, 1..a = 1..b PROVE a = b
      OBVIOUS
    <3>1. (a >= 1 => a \in 1..b) /\ (b >= 1 => b \in 1..a)
      OBVIOUS
    <3> QED BY <3>1
  <2>2. Len(Shape(r.pattern)) \in Nat /\ DOMAIN Shape(r.pattern) = 1..Len(Shape(r.pattern))
    BY <1>2, TerminalIs
  <2> QED BY <1>1, <1>3, <2>1, <2>2
<1> QED BY <1>1, <1>2, <1>3, <1>4

(* A node is the beginning of a terminal.                                  *)
Under(node, t) ==
  t \in Terminals /\ Len(node) <= Len(t) /\ \A k \in 1..Len(node) : t[k] = node[k]

LEMMA NodeIs ==
  ASSUME NEW node \in Nodes
  PROVE  node \in Seq(Words) /\ Len(node) \in Nat /\ \E t \in Terminals : Under(node, t)
<1>1. PICK t \in Terminals : \E n \in 0..Len(t) : node = SubSeq(t, 1, n)
  BY DEF Nodes
<1>0. PICK n \in 0..Len(t) : node = SubSeq(t, 1, n)
  BY <1>1
<1>2. t \in Seq(Words) /\ Len(t) \in Nat
  BY TerminalIs
<1>3. Len(node) = n /\ node \in Seq(Words) /\ \A k \in 1..n : node[k] = t[k]
  <2>1. n \in Nat /\ n <= Len(t)
    BY <1>0, <1>2
  <2>2. node = [k \in 1..n |-> t[k]]
    <3>1. SubSeq(t, 1, n) = [k \in 1..(1 + n - 1) |-> t[1 + k - 1]]
      BY <1>2, <2>1
    <3>2. 1..(1 + n - 1) = 1..n /\ \A k \in 1..n : 1 + k - 1 = k
      BY <2>1
    <3> QED BY <1>0, <3>1, <3>2
  <2>3. \A k \in 1..n : t[k] \in Words
    BY <1>2, <2>1
  <2>4. node \in [1..n -> Words]
    BY <2>2, <2>3
  <2> QED BY <2>1, <2>2, <2>4
<1>4. Under(node, t)
  BY <1>0, <1>2, <1>3 DEF Under
<1> QED BY <1>2, <1>3, <1>4

LEMMA BeginningIsNode ==
  ASSUME NEW W, NEW s \in Seq(W), NEW t \in Terminals, Under(s, t)
  PROVE  s \in Nodes
<1>1. t \in Terminals /\ t \in Seq(Words) /\ Len(t) \in Nat /\ Len(s) \in Nat /\ Len(s) <= Len(t)
  BY TerminalIs DEF Under
<1>2. s = SubSeq(t, 1, Len(s))
  <2>1. SubSeq(t, 1, Len(s)) = [k \in 1..Len(s) |-> t[k]]
    <3>1. SubSeq(t, 1, Len(s)) = [k \in 1..(1 + Len(s) - 1) |-> t[1 + k - 1]]
      BY <1>1
    <3>2. 1..(1 + Len(s) - 1) = 1..Len(s) /\ \A k \in 1..Len(s) : 1 + k - 1 = k
      BY <1>1
    <3> QED BY <3>1, <3>2
  <2>2. s = [k \in 1..Len(s) |-> s[k]]
    OBVIOUS
  <2>3. \A k \in 1..Len(s) : s[k] = t[k]
    BY DEF Under
  <2> QED BY <2>1, <2>2, <2>3
<1>3. Len(s) \in 0..Len(t)
  BY <1>1
<1>4. s \in {SubSeq(t, 1, n) : n \in 0..Len(t)}
  BY <1>2, <1>3
<1> QED BY <1>4, Zenon DEF Nodes

(* A node has a child where a terminal goes on.                            *)
LEMMA ChildIs ==
  ASSUME NEW node \in Nodes, NEW x
  PROVE  /\ Len(Append(node, x)) = Len(node) + 1
         /\ \A t \in Terminals : Under(Append(node, x), t) <=> Under(node, t) /\ Len(node) < Len(t) /\ t[Len(node) + 1] = x
         /\ (\E t \in Terminals : Under(Append(node, x), t)) => Append(node, x) \in Nodes
<1> DEFINE W == Words \cup {x}
           child == Append(node, x)
<1>1. node \in Seq(W) /\ Len(node) \in Nat
  BY NodeIs
<1>2. /\ child \in Seq(W) /\ Len(child) = Len(node) + 1 /\ child[Len(node) + 1] = x
      /\ \A k \in 1..Len(node) : child[k] = node[k]
  BY <1>1, AppendProperties
<1> HIDE DEF child, W
<1>3. ASSUME NEW t \in Terminals
      PROVE  Under(child, t) <=> Under(node, t) /\ Len(node) < Len(t) /\ t[Len(node) + 1] = x
  <2>1. Len(t) \in Nat
    BY TerminalIs
  <2>2. Len(child) <= Len(t) <=> Len(node) < Len(t)
    BY <1>1, <1>2, <2>1
  <2>3. (\A k \in 1..Len(child) : t[k] = child[k]) <=>
          (\A k \in 1..Len(node) : t[k] = node[k]) /\ t[Len(node) + 1] = x
    <3>1. \A k : k \in 1..Len(child) <=> k \in 1..Len(node) \/ k = Len(node) + 1
      BY <1>1, <1>2
    <3> QED BY <1>2, <3>1
  <2>4. Len(node) < Len(t) => Len(node) <= Len(t)
    BY <1>1, <2>1
  <2> QED BY <2>2, <2>3, <2>4 DEF Under
<1>4. \A t \in Terminals : Under(child, t) <=> Under(node, t) /\ Len(node) < Len(t) /\ t[Len(node) + 1] = x
  BY <1>3 DEF Under
<1>5. ASSUME NEW t \in Terminals, Under(child, t) PROVE child \in Nodes
  BY <1>2, <1>5, BeginningIsNode
<1> QED BY <1>2, <1>4, <1>5 DEF child

LEMMA RootIsNode == <<>> \in Nodes /\ Len(<<>>) = 0 /\ \A t \in Terminals : Under(<<>>, t)
<1>1. Len(<<>>) = 0 /\ << >> \in Seq(Words)
  OBVIOUS
<1>2. \A t \in Terminals : Under(<<>>, t)
  <2> SUFFICES ASSUME NEW t \in Terminals PROVE Under(<<>>, t)
    OBVIOUS
  <2>1. Len(t) \in Nat /\ 0 <= Len(t)
    BY TerminalIs
  <2>2. \A k \in 1..0 : FALSE
    OBVIOUS
  <2> QED BY <1>1, <2>1, <2>2 DEF Under
<1>3. \E t : t \in Terminals
  <2>1. Open("GET", <<"Users", "Public">>, "static") \in Routes
    BY DEF Routes, OpenRoutes
  <2> QED BY <2>1 DEF Terminals
<1> QED BY <1>1, <1>2, <1>3, BeginningIsNode

(* Where the shapes of one length differ, the one with the literal has all *)
(* literals of the other.                                                  *)
Covers(t, u) == \A k \in 1..Len(u) : u[k] # Wild => t[k] # Wild

LEMMA ShapeFormed ==
  ASSUME NEW t \in Terminals
  PROVE  /\ t[1] # Wild
         /\ Len(t) >= 3 => t[3] # Wild
         /\ Len(t) >= 4 => t[2] = Wild
         /\ Len(t) = 5 => t[4] = Wild
<1>1. PICK r \in Routes : t = Shape(r.pattern)
  BY DEF Terminals
<1>2. /\ Len(t) = Len(r.pattern) /\ Len(t) \in 1..5
      /\ \A i \in 1..Len(t) : t[i] = Wild <=> r.pattern[i] \in Variables
  BY <1>1, ShapeIs
<1>3. Formed(r.pattern)
  BY PatternsFormed
<1> QED BY <1>2, <1>3 DEF Formed

LEMMA Nested ==
  ASSUME NEW t \in Terminals, NEW u \in Terminals, Len(t) = Len(u),
         NEW k \in 1..Len(t), t[k] # Wild, u[k] = Wild
  PROVE  Covers(t, u)
<1> SUFFICES ASSUME NEW i \in 1..Len(u), u[i] # Wild PROVE t[i] # Wild
  BY DEF Covers
<1>1. Len(t) \in 1..5
  BY TerminalIs
<1>2. /\ t[1] # Wild /\ (Len(t) >= 3 => t[3] # Wild) /\ (Len(t) >= 4 => t[2] = Wild)
      /\ (Len(t) = 5 => t[4] = Wild)
      /\ u[1] # Wild /\ (Len(t) >= 3 => u[3] # Wild) /\ (Len(t) >= 4 => u[2] = Wild)
      /\ (Len(t) = 5 => u[4] = Wild)
  BY ShapeFormed
<1> DEFINE n == Len(t)
<1>3. n \in 1..5 /\ k \in 1..n /\ i \in 1..n
  BY <1>1
<1> HIDE DEF n
<1>4. /\ (n >= 3 => u[3] # Wild) /\ (n >= 4 => t[2] = Wild /\ u[2] = Wild)
      /\ (n >= 3 => t[3] # Wild) /\ (n = 5 => t[4] = Wild /\ u[4] = Wild)
  BY <1>2 DEF n
<1>5. (k = 2 /\ n <= 3) \/ (k = 4 /\ n = 4) \/ (k = 5 /\ n = 5)
  <2>1. k = 1 \/ k = 2 \/ k = 3 \/ k = 4 \/ k = 5
    BY <1>3
  <2>2. k # 1 /\ (n >= 3 => k # 3) /\ (n >= 4 => k # 2) /\ (n = 5 => k # 4)
    BY <1>2, <1>4
  <2> QED BY <1>3, <2>1, <2>2
<1>6. i = k \/ i = 1 \/ (i = 3 /\ n >= 3)
  <2>1. i = 1 \/ i = 2 \/ i = 3 \/ i = 4 \/ i = 5
    BY <1>3
  <2>2. (n >= 4 => i # 2) /\ (n = 5 => i # 4)
    BY <1>4
  <2>3. n \in Nat /\ i <= n
    BY <1>3
  <2>4. CASE i = 2
    BY <1>5, <2>2, <2>3, <2>4
  <2>5. CASE i = 4
    BY <1>5, <2>2, <2>3, <2>5
  <2>6. CASE i = 5
    BY <1>5, <2>2, <2>3, <2>6
  <2> QED BY <2>1, <2>3, <2>4, <2>5, <2>6
<1> QED BY <1>2, <1>4, <1>6

(* One step of the walk, from a node, with g for the answers below it.     *)
Onward(g, child, head) ==
  IF child \in Nodes /\ g[child].ok
  THEN [ok |-> TRUE, segs |-> <<head>> \o g[child].segs] ELSE NoWay

Folded(g, node, seg) ==
  IF seg.ext = "none" THEN Onward(g, Append(node, seg.word), Spelled(seg.word)) ELSE NoWay

OneStep(g, node, segs) ==
  IF Len(node) >= Len(segs)
  THEN [ok |-> Len(node) = Len(segs) /\ node \in Terminals, segs |-> <<>>]
  ELSE IF Folded(g, node, segs[Len(node) + 1]).ok THEN Folded(g, node, segs[Len(node) + 1])
  ELSE Onward(g, Append(node, Wild), segs[Len(node) + 1])

Depth == 5  \* of the trie

LEMMA Shallow == \A node \in Nodes : Len(node) \in 0..Depth
<1> SUFFICES ASSUME NEW node \in Nodes PROVE Len(node) \in 0..Depth
  OBVIOUS
<1>1. PICK t \in Terminals : Under(node, t)
  BY NodeIs
<1>2. Len(t) \in 1..5 /\ Len(node) <= Len(t) /\ Len(node) \in Nat
  BY <1>1, NodeIs, TerminalIs DEF Under
<1>3. \A a \in Nat, b \in 1..5 : a <= b => a \in 0..5
  OBVIOUS
<1> QED BY <1>2, <1>3 DEF Depth

LEMMA SameBelow ==
  ASSUME NEW g, NEW h, NEW node \in Nodes, NEW segs,
         \A child \in Nodes : Len(child) = Len(node) + 1 => g[child] = h[child]
  PROVE  OneStep(g, node, segs) = OneStep(h, node, segs)
<1>1. \A x, head : Onward(g, Append(node, x), head) = Onward(h, Append(node, x), head)
  <2> SUFFICES ASSUME NEW x, NEW head, Append(node, x) \in Nodes
               PROVE g[Append(node, x)] = h[Append(node, x)]
    BY DEF Onward
  <2>1. Len(Append(node, x)) = Len(node) + 1
    BY ChildIs
  <2> QED BY <2>1
<1>2. \A seg : Folded(g, node, seg) = Folded(h, node, seg)
  BY <1>1 DEF Folded
<1>3. CASE Len(node) >= Len(segs)
  BY <1>3 DEF OneStep
<1>4. CASE ~ (Len(node) >= Len(segs))
  <2> DEFINE seg == segs[Len(node) + 1]
  <2>1. \A e : OneStep(e, node, segs) = IF Folded(e, node, seg).ok THEN Folded(e, node, seg)
                                        ELSE Onward(e, Append(node, Wild), seg)
    BY <1>4 DEF OneStep
  <2> HIDE DEF seg
  <2> QED BY <1>1, <1>2, <2>1
<1> QED BY <1>3, <1>4

(* The walk is what one step makes of the walks below it.                  *)
LEMMA Walked ==
  ASSUME NEW segs
  PROVE  \E f : /\ \A node \in Nodes : f[node] = OneStep(f, node, segs)
                /\ Walk(segs) = f[<<>>]
<1> DEFINE Upward(g, j) == \A node \in Nodes : Len(node) + j > Depth => g[node] = OneStep(g, node, segs)
           More(g, j) == [node \in Nodes |-> IF Len(node) + j > Depth THEN g[node]
                                             ELSE OneStep(g, node, segs)]
<1>1. ASSUME NEW j \in Nat, NEW g, Upward(g, j) PROVE Upward(More(g, j), j + 1)
  <2> DEFINE h == More(g, j)
  <2>1. \A node \in Nodes : h[node] = IF Len(node) + j > Depth THEN g[node] ELSE OneStep(g, node, segs)
    OBVIOUS
  <2> HIDE DEF h, More
  <2>2. SUFFICES ASSUME NEW node \in Nodes, Len(node) + (j + 1) > Depth
                 PROVE  h[node] = OneStep(h, node, segs)
    BY DEF h
  <2>3. Len(node) \in Nat /\ Depth \in Nat
    BY Shallow DEF Depth
  <2>4. \A child \in Nodes : Len(child) = Len(node) + 1 => g[child] = h[child]
    BY <2>1, <2>2, <2>3
  <2>5. OneStep(g, node, segs) = OneStep(h, node, segs)
    BY <2>4, SameBelow
  <2>6. h[node] = OneStep(g, node, segs)
    BY <1>1, <2>1
  <2> QED BY <2>5, <2>6
<1>2. \A g : Upward(g, 0)
  <2>1. ASSUME NEW node \in Nodes PROVE ~ (Len(node) + 0 > Depth)
    <3>1. \A a \in 0..5 : ~ (a + 0 > 5)
      OBVIOUS
    <3> QED BY <3>1, Shallow DEF Depth
  <2> QED BY <2>1, Zenon
<1> HIDE DEF Upward, More
<1>3. (\E g : Upward(g, 0)) /\ (\E g : Upward(g, 1)) /\ (\E g : Upward(g, 2)) /\ (\E g : Upward(g, 3))
  <2>1. (\E g : Upward(g, 0)) /\ 0 \in Nat /\ 1 \in Nat /\ 2 \in Nat /\ 0 + 1 = 1 /\ 1 + 1 = 2 /\ 2 + 1 = 3
    BY <1>2
  <2>2. \E g : Upward(g, 1)
    BY <1>1, <2>1
  <2>3. \E g : Upward(g, 2)
    BY <1>1, <2>1, <2>2
  <2>4. \E g : Upward(g, 3)
    BY <1>1, <2>1, <2>3
  <2> QED BY <2>1, <2>2, <2>3, <2>4
<1>4. \E g : Upward(g, 6)
  <2>1. 3 \in Nat /\ 4 \in Nat /\ 5 \in Nat /\ 3 + 1 = 4 /\ 4 + 1 = 5 /\ 5 + 1 = 6
    OBVIOUS
  <2>2. \E g : Upward(g, 4)
    BY <1>1, <1>3, <2>1
  <2>3. \E g : Upward(g, 5)
    BY <1>1, <2>1, <2>2
  <2> QED BY <1>1, <2>1, <2>3
<1>5. PICK g : \A node \in Nodes : g[node] = OneStep(g, node, segs)
  <2>1. PICK g : Upward(g, 6)
    BY <1>4
  <2>2. \A node \in Nodes : Len(node) + 6 > Depth
    BY Shallow DEF Depth
  <2> QED BY <2>1, <2>2 DEF Upward
<1> DEFINE h == [node \in Nodes |-> g[node]]
           f == CHOOSE e : e = [node \in Nodes |-> OneStep(e, node, segs)]
<1>6. h = [node \in Nodes |-> OneStep(h, node, segs)]
  <2>1. \A node \in Nodes : h[node] = g[node]
    OBVIOUS
  <2>2. DOMAIN h = Nodes /\ h = [node \in Nodes |-> h[node]]
    OBVIOUS
  <2> HIDE DEF h
  <2>3. \A node \in Nodes : OneStep(h, node, segs) = OneStep(g, node, segs)
    BY <2>1, SameBelow
  <2>4. \A node \in Nodes : h[node] = OneStep(h, node, segs)
    BY <1>5, <2>1, <2>3
  <2> QED BY <2>2, <2>4
<1> HIDE DEF h
<1>7. f = [node \in Nodes |-> OneStep(f, node, segs)]
  BY <1>6
<1>8. Walk(segs) = f[<<>>]
  BY DEF Walk, OneStep, Folded, Onward
<1> HIDE DEF f
<1>9. \A node \in Nodes : f[node] = OneStep(f, node, segs)
  <2> SUFFICES ASSUME NEW node \in Nodes PROVE f[node] = OneStep(f, node, segs)
    OBVIOUS
  <2>1. [n \in Nodes |-> OneStep(f, n, segs)][node] = OneStep(f, node, segs)
    OBVIOUS
  <2> QED BY <1>7, <2>1, Zenon
<1> QED BY <1>8, <1>9

(* What the segments below a node spell, and what the walk says of it.     *)
Spells(segs, t, k) == t[k] = Wild \/ Alike(segs[k], t[k])
Told(segs, t, k)   == IF t[k] = Wild THEN segs[k] ELSE Spelled(t[k])
Tellings(segs)     == {segs[k] : k \in DOMAIN segs} \cup {Spelled(w) : w \in Words}

Below(node, segs) == Len(node) + 1 .. Len(segs)

Fits(node, segs, t) ==
  /\ Under(node, t) /\ Len(t) = Len(segs)
  /\ \A k \in Below(node, segs) : Spells(segs, t, k)

Tells(answer, node, segs, t) ==
  /\ answer \in Seq(Tellings(segs)) /\ Len(answer) = Len(segs) - Len(node)
  /\ \A k \in Below(node, segs) : answer[k - Len(node)] = Told(segs, t, k)

Right(f, node, segs) ==
  IF f[node].ok
  THEN \E t \in Terminals : /\ Fits(node, segs, t) /\ Tells(f[node].segs, node, segs, t)
                            /\ \A u \in Terminals : Fits(node, segs, u) => Covers(t, u)
  ELSE \A t \in Terminals : ~ Fits(node, segs, t)

(* What fits below a child fits below the node, and the other way round    *)
(* when the child's segment is spelled.                                    *)
LEMMA FitsChild ==
  ASSUME NEW segs \in Seq(Segments), NEW node \in Nodes, Len(node) < Len(segs),
         NEW x, NEW t \in Terminals
  PROVE  Fits(Append(node, x), segs, t) /\ Spells(segs, t, Len(node) + 1)
           <=> Fits(node, segs, t) /\ t[Len(node) + 1] = x
<1> DEFINE m == Len(node) + 1
           child == Append(node, x)
<1>1. Len(node) \in Nat /\ Len(segs) \in Nat
  BY NodeIs
<1>2. Len(child) = m
  BY ChildIs
<1>3. Len(t) = Len(segs) => (Under(child, t) <=> Under(node, t) /\ t[m] = x)
  BY ChildIs
<1>4. \A k : k \in Below(node, segs) <=> k = m \/ k \in Below(child, segs)
  <2> HIDE DEF child
  <2> QED BY <1>1, <1>2 DEF Below
<1> HIDE DEF m, child
<1>5. (\A k \in Below(node, segs) : Spells(segs, t, k)) <=>
        Spells(segs, t, m) /\ \A k \in Below(child, segs) : Spells(segs, t, k)
  BY <1>4
<1>6. Fits(child, segs, t) /\ Spells(segs, t, m) <=> Fits(node, segs, t) /\ t[m] = x
  BY <1>3, <1>5 DEF Fits
<1> QED BY <1>6 DEF m, child

LEMMA TellsMore ==
  ASSUME NEW segs \in Seq(Segments), NEW node \in Nodes, Len(node) < Len(segs),
         NEW x, NEW t \in Terminals, Len(t) = Len(segs), NEW rest,
         Tells(rest, Append(node, x), segs, t)
  PROVE  Tells(<<Told(segs, t, Len(node) + 1)>> \o rest, node, segs, t)
<1> DEFINE m == Len(node) + 1
           child == Append(node, x)
           head == Told(segs, t, m)
           S == Tellings(segs)
<1>1. Len(node) \in Nat /\ Len(segs) \in Nat /\ m \in 1..Len(segs) /\ m \in Nat
  BY NodeIs
<1>2. Len(child) = m
  BY ChildIs
<1>3. head \in S
  <2>1. t[m] \in Words /\ m \in DOMAIN segs
    BY <1>1, TerminalIs
  <2> HIDE DEF m
  <2> QED BY <2>1 DEF Told, Tellings
<1>4. rest \in Seq(S) /\ Len(rest) = Len(segs) - m
      /\ \A k \in Below(child, segs) : rest[k - m] = Told(segs, t, k)
  BY <1>2 DEF Tells
<1> HIDE DEF S, head
<1>5. <<head>> \in Seq(S) /\ Len(<<head>>) = 1 /\ <<head>>[1] = head
  BY <1>3
<1>6. /\ <<head>> \o rest \in Seq(S) /\ Len(<<head>> \o rest) = 1 + Len(rest)
      /\ (<<head>> \o rest)[1] = head
      /\ \A i \in 1..Len(rest) : (<<head>> \o rest)[1 + i] = rest[i]
  BY <1>4, <1>5
<1> DEFINE all == <<head>> \o rest
<1> HIDE DEF all
<1>7. Len(all) = Len(segs) - Len(node)
  BY <1>1, <1>4, <1>6 DEF all, m
<1>8. ASSUME NEW k \in Below(node, segs) PROVE all[k - Len(node)] = Told(segs, t, k)
  <2>1. CASE k = m
    BY <1>1, <1>6, <2>1 DEF all, m, head
  <2>2. CASE k # m
    <3>1. k \in Below(child, segs)
      <4> HIDE DEF child
      <4> QED BY <1>1, <1>2, <1>8, <2>2 DEF Below, m
    <3>2. k - m \in 1..Len(rest) /\ k - Len(node) = 1 + (k - m)
      <4> HIDE DEF child
      <4>1. k \in m + 1 .. Len(segs)
        BY <1>2, <3>1 DEF Below
      <4> QED BY <1>1, <1>4, <4>1 DEF m
    <3> QED BY <1>4, <1>6, <3>1, <3>2 DEF all
  <2> QED BY <2>1, <2>2
<1> QED BY <1>6, <1>7, <1>8 DEF Tells, all, m, head, S

(* One way down says all there is to say of the terminals that go that way. *)
Ways(answer, node, segs, x) ==
  IF answer.ok
  THEN \E t \in Terminals :
         /\ Fits(node, segs, t) /\ t[Len(node) + 1] = x /\ Tells(answer.segs, node, segs, t)
         /\ \A u \in Terminals : Fits(node, segs, u) /\ u[Len(node) + 1] = x => Covers(t, u)
  ELSE \A t \in Terminals : ~ (Fits(node, segs, t) /\ t[Len(node) + 1] = x)

LEMMA OnwardRight ==
  ASSUME NEW segs \in Seq(Segments), NEW node \in Nodes, Len(node) < Len(segs), NEW f, NEW x, NEW head,
         Append(node, x) \in Nodes => Right(f, Append(node, x), segs),
         \A t \in Terminals : t[Len(node) + 1] = x =>
           Spells(segs, t, Len(node) + 1) /\ Told(segs, t, Len(node) + 1) = head
  PROVE  Ways(Onward(f, Append(node, x), head), node, segs, x)
<1> DEFINE m == Len(node) + 1
           child == Append(node, x)
           answer == Onward(f, child, head)
<1>1. \A t \in Terminals : Fits(child, segs, t) /\ Spells(segs, t, m) <=> Fits(node, segs, t) /\ t[m] = x
  BY FitsChild
<1>2. \A t \in Terminals : Fits(child, segs, t) => child \in Nodes /\ t[m] = x
  BY ChildIs DEF Fits
<1>3. \A t \in Terminals : t[m] = x => Spells(segs, t, m) /\ Told(segs, t, m) = head
  OBVIOUS
<1>4. \A t \in Terminals : Fits(child, segs, t) <=> Fits(node, segs, t) /\ t[m] = x
  <2> HIDE DEF child, m
  <2> QED BY <1>1, <1>2, <1>3
<1>5. CASE answer.ok
  <2>1. child \in Nodes /\ f[child].ok /\ answer.segs = <<head>> \o f[child].segs
    BY <1>5, Zenon DEF Onward, NoWay
  <2>2. PICK t \in Terminals : /\ Fits(child, segs, t) /\ Tells(f[child].segs, child, segs, t)
                               /\ \A u \in Terminals : Fits(child, segs, u) => Covers(t, u)
    BY <2>1 DEF Right
  <2>3. Fits(node, segs, t) /\ t[m] = x /\ Told(segs, t, m) = head /\ Len(t) = Len(segs)
    BY <1>3, <1>4, <2>2 DEF Fits
  <2>4. Tells(<<Told(segs, t, m)>> \o f[child].segs, node, segs, t)
    BY <2>2, <2>3, TellsMore
  <2> HIDE DEF child, m, answer
  <2>5. Tells(answer.segs, node, segs, t)
    BY <2>1, <2>3, <2>4
  <2>6. \A u \in Terminals : Fits(node, segs, u) /\ u[m] = x => Covers(t, u)
    BY <1>4, <2>2
  <2> QED BY <1>5, <2>3, <2>5, <2>6 DEF Ways, m, answer, child
<1>6. CASE ~ answer.ok
  <2>1. ~ (child \in Nodes /\ f[child].ok)
    BY <1>6, Zenon DEF Onward
  <2>2. \A t \in Terminals : ~ Fits(child, segs, t)
    BY <1>2, <2>1 DEF Right
  <2> HIDE DEF child, m, answer
  <2> QED BY <1>4, <1>6, <2>2 DEF Ways, m, answer, child
<1> QED BY <1>5, <1>6

LEMMA StepRight ==
  ASSUME NEW segs \in Seq(Segments), NEW node \in Nodes, Len(node) < Len(segs), NEW f,
         f[node] = OneStep(f, node, segs),
         \A child \in Nodes : Len(child) = Len(node) + 1 => Right(f, child, segs)
  PROVE  Right(f, node, segs)
<1> DEFINE m == Len(node) + 1
           seg == segs[m]
           literal == Onward(f, Append(node, seg.word), Spelled(seg.word))
           any == Onward(f, Append(node, Wild), seg)
<1>1. Len(node) \in Nat /\ Len(segs) \in Nat /\ m \in 1..Len(segs) /\ seg \in Segments
  <2>1. Len(node) \in Nat /\ Len(segs) \in Nat
    BY NodeIs
  <2>2. m \in 1..Len(segs)
    BY <2>1
  <2> QED BY <2>1, <2>2, ElementOfSeq
<1>2. seg.word # Wild
  BY <1>1 DEF Segments
<1>3. \A x : Append(node, x) \in Nodes => Right(f, Append(node, x), segs)
  BY ChildIs
<1>4. \A t \in Terminals : t[m] = Wild => Spells(segs, t, m) /\ Told(segs, t, m) = seg
  BY DEF Spells, Told
<1>5. Ways(any, node, segs, Wild)
  BY <1>3, <1>4, OnwardRight
<1>6. ASSUME seg.ext = "none" PROVE Ways(literal, node, segs, seg.word)
  <2>1. \A t \in Terminals : t[m] = seg.word => Spells(segs, t, m) /\ Told(segs, t, m) = Spelled(seg.word)
    BY <1>2, <1>6 DEF Spells, Told, Alike
  <2> QED BY <1>3, <2>1, OnwardRight
<1>7. ASSUME NEW t \in Terminals, Fits(node, segs, t)
      PROVE  /\ t[m] = Wild \/ (t[m] = seg.word /\ seg.ext = "none")
             /\ Len(t) = Len(segs)
  <2>1. m \in Below(node, segs)
    BY <1>1 DEF Below
  <2> QED BY <1>7, <2>1 DEF Fits, Spells, Alike
<1>8. f[node] = IF seg.ext = "none" /\ literal.ok THEN literal ELSE any
  <2>1. ~ (Len(node) >= Len(segs)) /\ ~ NoWay.ok
    BY <1>1 DEF NoWay
  <2>2. OneStep(f, node, segs) = IF Folded(f, node, seg).ok THEN Folded(f, node, seg) ELSE any
    BY <2>1 DEF OneStep
  <2>3. Folded(f, node, seg) = IF seg.ext = "none" THEN literal ELSE NoWay
    BY DEF Folded
  <2> HIDE DEF literal, any, seg
  <2> QED BY <2>1, <2>2, <2>3
<1> HIDE DEF literal, any, seg
<1>9. CASE seg.ext = "none" /\ literal.ok
  <2>1. PICK t \in Terminals :
          /\ Fits(node, segs, t) /\ t[m] = seg.word /\ Tells(literal.segs, node, segs, t)
          /\ \A u \in Terminals : Fits(node, segs, u) /\ u[m] = seg.word => Covers(t, u)
    BY <1>6, <1>9 DEF Ways
  <2>2. ASSUME NEW u \in Terminals, Fits(node, segs, u) PROVE Covers(t, u)
    <3>1. CASE u[m] = seg.word
      BY <2>1, <2>2, <3>1
    <3>2. CASE u[m] = Wild
      <4>1. Len(t) = Len(u) /\ m \in 1..Len(t) /\ t[m] # Wild
        BY <1>1, <1>2, <1>7, <2>1, <2>2
      <4> HIDE DEF m
      <4> QED BY <3>2, <4>1, Nested
    <3> QED BY <1>7, <2>2, <3>1, <3>2
  <2> QED BY <1>8, <1>9, <2>1, <2>2 DEF Right
<1>10. CASE ~ (seg.ext = "none" /\ literal.ok)
  <2>1. f[node] = any
    BY <1>8, <1>10
  <2>2. \A t \in Terminals : Fits(node, segs, t) => t[m] = Wild
    <3>1. \A t \in Terminals : seg.ext = "none" => ~ (Fits(node, segs, t) /\ t[m] = seg.word)
      BY <1>6, <1>10 DEF Ways
    <3> QED BY <1>7, <3>1
  <2>3. CASE any.ok
    <3>1. PICK t \in Terminals :
            /\ Fits(node, segs, t) /\ t[m] = Wild /\ Tells(any.segs, node, segs, t)
            /\ \A u \in Terminals : Fits(node, segs, u) /\ u[m] = Wild => Covers(t, u)
      BY <1>5, <2>3 DEF Ways
    <3> QED BY <2>1, <2>2, <2>3, <3>1 DEF Right
  <2>4. CASE ~ any.ok
    <3>1. \A t \in Terminals : ~ (Fits(node, segs, t) /\ t[m] = Wild)
      BY <1>5, <2>4 DEF Ways
    <3> QED BY <2>1, <2>2, <2>4, <3>1 DEF Right
  <2> QED BY <2>3, <2>4
<1> QED BY <1>9, <1>10

LEMMA WalkRight ==
  ASSUME NEW segs \in Seq(Segments)
  PROVE  \E f : Walk(segs) = f[<<>>] /\ Right(f, <<>>, segs)
<1>1. PICK f : (\A node \in Nodes : f[node] = OneStep(f, node, segs)) /\ Walk(segs) = f[<<>>]
  BY Walked
<1>2. Len(segs) \in Nat
  OBVIOUS
<1> DEFINE Sound(j) == \A node \in Nodes :
                         Len(node) + j > Depth /\ Len(node) <= Len(segs) => Right(f, node, segs)
<1>3. ASSUME NEW node \in Nodes, Len(node) = Len(segs) PROVE Right(f, node, segs)
  <2>1. f[node].segs = <<>> /\ (f[node].ok <=> node \in Terminals)
    <3>1. Len(node) >= Len(segs)
      BY <1>2, <1>3
    <3>2. f[node] = [ok |-> node \in Terminals, segs |-> <<>>]
      BY <1>1, <1>3, <3>1 DEF OneStep
    <3>3. ASSUME NEW b, f[node] = [ok |-> b, segs |-> <<>>]
          PROVE  f[node].segs = <<>> /\ f[node].ok = b
      BY <3>3
    <3>4. f[node].segs = <<>> /\ f[node].ok = (node \in Terminals)
      BY <3>2, <3>3, Zenon
    <3> QED BY <3>4
  <2>2. node \in Seq(Words)
    BY NodeIs
  <2>3. Below(node, segs) = {}
    BY <1>2, <1>3 DEF Below
  <2>4. ASSUME NEW t \in Terminals, Fits(node, segs, t) PROVE t = node
    <3>1. t \in Seq(Words) /\ Len(t) = Len(node) /\ \A k \in 1..Len(node) : t[k] = node[k]
      BY <1>3, <2>4, TerminalIs DEF Fits, Under
    <3> QED BY <2>2, <3>1, SeqEqual
  <2>5. CASE node \in Terminals
    <3>1. Fits(node, segs, node)
      <4>1. Len(node) <= Len(node)
        BY <1>2, <1>3
      <4> QED BY <1>3, <2>3, <2>5, <4>1 DEF Fits, Under
    <3>2. Tells(<<>>, node, segs, node)
      <4>1. <<>> \in Seq(Tellings(segs)) /\ Len(<<>>) = 0 /\ Len(segs) - Len(node) = 0
        BY <1>2, <1>3
      <4> QED BY <2>3, <4>1 DEF Tells
    <3>3. \A u \in Terminals : Fits(node, segs, u) => Covers(node, u)
      BY <2>4 DEF Covers
    <3> QED BY <2>1, <2>5, <3>1, <3>2, <3>3, Zenon DEF Right
  <2>6. CASE node \notin Terminals
    BY <2>1, <2>4, <2>6 DEF Right
  <2> QED BY <2>5, <2>6
<1>4. ASSUME NEW j \in Nat, Sound(j) PROVE Sound(j + 1)
  <2> SUFFICES ASSUME NEW node \in Nodes, Len(node) + (j + 1) > Depth, Len(node) <= Len(segs)
               PROVE  Right(f, node, segs)
    BY DEF Sound
  <2>1. CASE Len(node) = Len(segs)
    BY <1>3, <2>1
  <2>2. CASE Len(node) # Len(segs)
    <3>1. Len(node) \in Nat
      BY NodeIs
    <3>2. \A child \in Nodes : Len(child) = Len(node) + 1 => Right(f, child, segs)
      BY <1>2, <1>4, <2>2, <3>1 DEF Depth
    <3>3. Len(node) < Len(segs)
      BY <1>2, <2>2, <3>1
    <3> HIDE DEF Sound
    <3> QED BY <1>1, <3>2, <3>3, StepRight
  <2> QED BY <2>1, <2>2
<1>5. Sound(0)
  <2>1. ASSUME NEW node \in Nodes PROVE ~ (Len(node) + 0 > Depth)
    <3>1. \A a \in 0..5 : ~ (a + 0 > 5)
      OBVIOUS
    <3> QED BY <3>1, Shallow DEF Depth
  <2> QED BY <2>1, Zenon
<1> HIDE DEF Sound
<1>6. Sound(3)
  <2>1. 0 \in Nat /\ 1 \in Nat /\ 2 \in Nat /\ 0 + 1 = 1 /\ 1 + 1 = 2 /\ 2 + 1 = 3
    OBVIOUS
  <2>2. Sound(1)
    BY <1>4, <1>5, <2>1
  <2>3. Sound(2)
    BY <1>4, <2>1, <2>2
  <2> QED BY <1>4, <2>1, <2>3
<1>7. Sound(6)
  <2>1. 3 \in Nat /\ 4 \in Nat /\ 5 \in Nat /\ 3 + 1 = 4 /\ 4 + 1 = 5 /\ 5 + 1 = 6
    OBVIOUS
  <2>2. Sound(4)
    BY <1>4, <1>6, <2>1
  <2>3. Sound(5)
    BY <1>4, <2>1, <2>2
  <2> QED BY <1>4, <2>1, <2>3
<1>8. <<>> \in Nodes /\ Len(<<>>) + 6 > Depth /\ Len(<<>>) <= Len(segs)
  BY <1>2, RootIsNode DEF Depth
<1>9. Right(f, <<>>, segs)
  BY <1>7, <1>8 DEF Sound
<1> QED BY <1>1, <1>9

(* What the fold makes of a path matches, byte for byte, the patterns that *)
(* the path spells in any casing, and no others.                           *)
LEMMA SpelledIs ==
  ASSUME NEW segs \in Seq(Segments), NEW r \in Routes
  PROVE  Instance(segs, r.pattern, Alike) <=> Fits(<<>>, segs, Shape(r.pattern))
<1> DEFINE t == Shape(r.pattern)
           p == r.pattern
           n == Len(p)
<1>1. /\ t \in Terminals /\ Len(t) = n /\ DOMAIN p = 1..n /\ n \in 1..5
      /\ \A i \in 1..n : p[i] # Wild /\ t[i] = IF p[i] \in Variables THEN Wild ELSE p[i]
  BY ShapeIs
<1>2. Under(<<>>, t) /\ Len(<<>>) = 0
  BY <1>1, RootIsNode
<1> HIDE DEF t, p, n
<1>3. Len(segs) = n => Below(<<>>, segs) = 1..n
  BY <1>2 DEF Below
<1>4. \A i \in 1..n : p[i] \in Variables \/ Alike(segs[i], p[i]) <=> Spells(segs, t, i)
  BY <1>1 DEF Spells
<1>5. Instance(segs, p, Alike) <=> Len(segs) = n /\ \A i \in 1..n : p[i] \in Variables \/ Alike(segs[i], p[i])
  BY <1>1 DEF Instance, n
<1>6. Fits(<<>>, segs, t) <=> Len(segs) = n /\ \A i \in 1..n : Spells(segs, t, i)
  BY <1>1, <1>2, <1>3 DEF Fits
<1>7. Instance(segs, p, Alike) <=> Fits(<<>>, segs, t)
  BY <1>4, <1>5, <1>6
<1> QED BY <1>7 DEF t, p

LEMMA FoldedIs ==
  ASSUME NEW segs \in Seq(Segments)
  PROVE  LET folded == Fold([segs |-> segs, slash |-> FALSE])
         IN  /\ folded.slash = FALSE
             /\ \A r \in Routes : Instance(folded.segs, r.pattern, Exactly) <=> Instance(segs, r.pattern, Alike)
<1> DEFINE way == Walk(segs)
           path == [segs |-> segs, slash |-> FALSE]
           folded == Fold(path)
<1>1. folded = IF segs # <<>> /\ way.ok THEN [segs |-> way.segs, slash |-> FALSE] ELSE path
  BY DEF Fold
<1>2. IF way.ok
      THEN \E t \in Terminals : /\ Fits(<<>>, segs, t) /\ Tells(way.segs, <<>>, segs, t)
                                /\ \A u \in Terminals : Fits(<<>>, segs, u) => Covers(t, u)
      ELSE \A t \in Terminals : ~ Fits(<<>>, segs, t)
  <2>1. PICK f : way = f[<<>>] /\ Right(f, <<>>, segs)
    BY WalkRight
  <2> HIDE DEF way
  <2> QED BY <2>1, Zenon DEF Right
<1> HIDE DEF way, folded
<1>3. Len(segs) \in Nat /\ Len(<<>>) = 0
  OBVIOUS
<1>4. CASE segs # <<>> /\ way.ok
  <2>1. folded.slash = FALSE /\ folded.segs = way.segs
    BY <1>1, <1>4
  <2>2. PICK t \in Terminals :
          /\ Fits(<<>>, segs, t) /\ Tells(way.segs, <<>>, segs, t)
          /\ \A u \in Terminals : Fits(<<>>, segs, u) => Covers(t, u)
    BY <1>2, <1>4
  <2> DEFINE n == Len(segs)
             c == folded.segs
  <2>3. Below(<<>>, segs) = 1..n
    BY <1>3 DEF Below
  <2>4. Len(t) = n /\ \A k \in 1..n : Spells(segs, t, k)
    BY <2>2, <2>3 DEF Fits
  <2>5. Len(c) = n /\ \A k \in 1..n : c[k] = Told(segs, t, k)
    <3>1. \A k \in 1..n : k - 0 = k
      BY <1>3
    <3> QED BY <1>3, <2>1, <2>2, <2>3, <3>1 DEF Tells
  <2> HIDE DEF n, c
  <2>6. ASSUME NEW r \in Routes
        PROVE  Instance(c, r.pattern, Exactly) <=> Instance(segs, r.pattern, Alike)
    <3> DEFINE p == r.pattern
               u == Shape(p)
    <3>1. /\ u \in Terminals /\ Len(u) = Len(p) /\ DOMAIN p = 1..Len(p)
          /\ \A i \in 1..Len(p) : p[i] # Wild /\ u[i] = IF p[i] \in Variables THEN Wild ELSE p[i]
      BY ShapeIs
    <3>2. Instance(segs, p, Alike) <=> Fits(<<>>, segs, u)
      BY SpelledIs
    <3> HIDE DEF p, u
    <3>3. Instance(segs, p, Alike) <=>
            n = Len(p) /\ \A i \in 1..n : p[i] \in Variables \/ Alike(segs[i], p[i])
      BY <3>1 DEF Instance, n
    <3>4. Instance(c, p, Exactly) <=>
            n = Len(p) /\ \A i \in 1..n : p[i] \in Variables \/ Exactly(c[i], p[i])
      BY <2>5, <3>1 DEF Instance
    <3>5. ASSUME Instance(segs, p, Alike), NEW i \in 1..n, p[i] \notin Variables
          PROVE  Exactly(c[i], p[i])
      <4>1. Covers(t, u)
        BY <2>2, <3>1, <3>2, <3>5
      <4>2. n = Len(p) /\ u[i] = p[i] /\ u[i] # Wild /\ Alike(segs[i], p[i])
        BY <3>1, <3>3, <3>5
      <4>3. t[i] # Wild
        BY <3>1, <4>1, <4>2 DEF Covers
      <4>4. Alike(segs[i], t[i]) /\ c[i] = Spelled(t[i])
        BY <2>4, <2>5, <4>3 DEF Spells, Told
      <4> QED BY <4>2, <4>4 DEF Alike, Exactly
    <3>6. ASSUME Instance(c, p, Exactly), NEW i \in 1..n, p[i] \notin Variables
          PROVE  Alike(segs[i], p[i])
      <4>1. c[i] = Spelled(p[i]) /\ c[i] = Told(segs, t, i) /\ Spells(segs, t, i)
        BY <2>4, <2>5, <3>4, <3>6 DEF Exactly
      <4>2. CASE t[i] = Wild
        BY <4>1, <4>2 DEF Told, Spelled, Alike
      <4>3. CASE t[i] # Wild
        BY <4>1, <4>3 DEF Told, Spelled, Spells, Alike
      <4> QED BY <4>2, <4>3
    <3>7. Instance(c, p, Exactly) <=> Instance(segs, p, Alike)
      BY <3>3, <3>4, <3>5, <3>6
    <3> QED BY <3>7 DEF p
  <2> QED BY <2>1, <2>6 DEF c, folded
<1>5. CASE ~ (segs # <<>> /\ way.ok)
  <2>1. folded.slash = FALSE /\ folded.segs = segs
    BY <1>1, <1>5
  <2>2. \A t \in Terminals : ~ Fits(<<>>, segs, t)
    <3>1. CASE segs = <<>>
      BY <1>3, <3>1, TerminalIs DEF Fits
    <3>2. CASE ~ way.ok
      BY <1>2, <3>2
    <3> QED BY <1>5, <3>1, <3>2
  <2>3. ASSUME NEW r \in Routes
        PROVE  ~ Instance(segs, r.pattern, Alike) /\ ~ Instance(segs, r.pattern, Exactly)
    <3>1. ~ Instance(segs, r.pattern, Alike)
      BY <2>2, ShapeIs, SpelledIs
    <3>2. Instance(segs, r.pattern, Exactly) => Instance(segs, r.pattern, Alike)
      <4>1. \A seg, lit : Exactly(seg, lit) => Alike(seg, lit)
        BY DEF Exactly, Spelled, Alike
      <4> QED BY <4>1, Zenon DEF Instance
    <3> QED BY <3>1, <3>2
  <2> QED BY <2>1, <2>3 DEF folded
<1> QED BY <1>4, <1>5

(* The one route a container may be cut off for.                           *)
LEMMA StreamRoute ==
  ASSUME NEW r \in Routes, r.handler = "stream" \/ r.pattern[1] = "Videos"
  PROVE  r.handler = "stream" /\ r.pattern = <<"Videos", "id", "stream">>
<1>1. CASE r \in OpenRoutes
  BY <1>1 DEF OpenRoutes, Open, Route
<1>2. CASE r \in TokenRoutes
  <2>1. r.handler # "stream"
    BY <1>2 DEF TokenRoutes, Authed, Route
  <2>2. r.pattern[1] # "Videos"
    BY <1>2 DEF TokenRoutes, Authed, Route
  <2> QED BY <2>1, <2>2
<1>3. CASE r \in UserScopedRoutes
  <2>1. r.handler # "stream"
    BY <1>3 DEF UserScopedRoutes, UserScoped, Route
  <2>2. r.pattern[1] # "Videos"
    BY <1>3 DEF UserScopedRoutes, UserScoped, Route
  <2> QED BY <2>1, <2>2
<1> QED BY <1>1, <1>2, <1>3 DEF Routes

Streaming(cut, r) ==
  /\ r.handler = "stream" /\ Len(cut) = 3 /\ cut[3].ext = "one"
  /\ Alike(cut[1], "Videos") /\ cut[3].word = "stream"

LEMMA CutIs ==
  ASSUME NEW segs \in Seq(Segments)
  PROVE  CutOnce(segs) = CutLegacyPrefix(segs) /\ CutLegacyPrefix(segs) \in Seq(Segments)
<1>1. segs # <<>> => Head(segs) = segs[1] /\ Tail(segs) \in Seq(Segments)
  OBVIOUS
<1> QED BY <1>1 DEF CutOnce, CutLegacyPrefix

LEMMA NormalizedIs ==
  ASSUME NEW cut \in Seq(Segments)
  PROVE  LET spelled == NormalizeStreamSpelling(cut)
         IN  /\ spelled \in Seq(Segments)
             /\ \A r \in Routes : Instance(spelled, r.pattern, Alike)
                                    <=> Instance(cut, r.pattern, Alike) \/ Streaming(cut, r)
<1> DEFINE n == Len(cut)
           stream == Spelled("stream")
           spelled == NormalizeStreamSpelling(cut)
           inStream == /\ n >= 2 /\ cut[1].word = "Videos" /\ cut[1].ext = "none"
                       /\ Last(cut).word = "stream" /\ Last(cut).ext = "one"
<1>1. n \in Nat
  OBVIOUS
<1>2. n >= 1 => Last(cut) = cut[n]
  BY <1>1 DEF Last
<1>3. CASE ~ inStream
  <2>1. spelled = cut
    BY <1>3 DEF NormalizeStreamSpelling
  <2>2. \A r : ~ Streaming(cut, r)
    <3> SUFFICES ASSUME NEW r, Streaming(cut, r) PROVE FALSE
      OBVIOUS
    <3>1. n = 3 /\ Last(cut) = cut[3]
      BY <1>2 DEF Streaming
    <3> QED BY <1>3, <3>1 DEF Streaming, Alike
  <2> HIDE DEF spelled
  <2> QED BY <2>1, <2>2 DEF spelled
<1>4. CASE inStream
  <2>1. spelled = Append(Front(cut), stream)
    BY <1>4 DEF NormalizeStreamSpelling
  <2>a. stream \in Segments
    <3>1. Last(cut) \in Segments
      BY <1>1, <1>2, <1>4
    <3>2. "stream" \in STRING \ {Wild}
      BY <1>4, <3>1 DEF Segments
    <3>3. \A w \in STRING \ {Wild} : Spelled(w) \in Segments
      BY DEF Spelled, Segments
    <3> QED BY <3>2, <3>3
  <2>2. Front(cut) \in Seq(Segments) /\ Len(Front(cut)) = n - 1
        /\ \A i \in 1..n - 1 : Front(cut)[i] = cut[i]
    <3>1. Front(cut) = [i \in 1..n - 1 |-> cut[i]]
      BY <1>1, <1>4 DEF Front
    <3>2. \A i \in 1..n - 1 : cut[i] \in Segments
      BY <1>1
    <3>3. n - 1 \in Nat
      BY <1>1, <1>4
    <3> HIDE DEF n
    <3> QED BY <3>1, <3>2, <3>3
  <2>3. spelled \in Seq(Segments) /\ Len(spelled) = n /\ spelled[n] = stream
        /\ \A i \in 1..n - 1 : spelled[i] = cut[i]
    <3> HIDE DEF spelled, stream, n
    <3> QED BY <1>1, <2>a, <2>1, <2>2, AppendProperties
  <2>4. n >= 2 /\ cut[1].word = "Videos" /\ cut[1].ext = "none" /\ cut[n].word = "stream" /\ cut[n].ext = "one"
    BY <1>1, <1>2, <1>4
  <2> HIDE DEF n, spelled, inStream
  <2>5. spelled[1] = cut[1]
    <3>1. 1 \in 1..n - 1
      BY <1>1, <2>4
    <3> QED BY <2>3, <3>1
  <2>6. ASSUME NEW r \in Routes,
               Instance(spelled, r.pattern, Alike) \/ Instance(cut, r.pattern, Alike)
        PROVE  r.handler = "stream" /\ r.pattern = <<"Videos", "id", "stream">> /\ n = 3
    <3>1. DOMAIN r.pattern = 1..Len(r.pattern) /\ Len(r.pattern) \in 1..5 /\ r.pattern[1] \notin Variables
      BY PatternsFormed DEF Formed
    <3>2. Alike(cut[1], r.pattern[1]) /\ n = Len(r.pattern)
      <4>1. 1 \in DOMAIN r.pattern
        BY <3>1
      <4> QED BY <2>3, <2>5, <2>6, <3>1, <4>1 DEF Instance, n
    <3>3. r.pattern[1] = "Videos"
      BY <2>4, <3>2 DEF Alike
    <3>4. r.handler = "stream" /\ r.pattern = <<"Videos", "id", "stream">>
      BY <3>3, StreamRoute
    <3> QED BY <3>2, <3>4
  <2>7. ASSUME NEW r \in Routes PROVE ~ Instance(cut, r.pattern, Alike)
    <3> SUFFICES ASSUME Instance(cut, r.pattern, Alike) PROVE FALSE
      OBVIOUS
    <3>1. r.pattern = <<"Videos", "id", "stream">> /\ n = 3
      BY <2>6
    <3>2. Instance(cut, <<"Videos", "id", "stream">>, Alike)
      BY <3>1
    <3>3. Alike(cut[3], "stream")
      BY <3>2 DEF Instance, Variables
    <3> QED BY <2>4, <3>1, <3>3 DEF Alike
  <2>8. ASSUME NEW r \in Routes, Instance(spelled, r.pattern, Alike) PROVE Streaming(cut, r)
    <3>1. r.handler = "stream" /\ n = 3
      BY <2>6, <2>8
    <3> QED BY <2>4, <3>1 DEF Streaming, Alike, n
  <2>9. ASSUME NEW r \in Routes, Streaming(cut, r) PROVE Instance(spelled, r.pattern, Alike)
    <3>1. n = 3 /\ r.pattern = <<"Videos", "id", "stream">>
      BY <2>9, StreamRoute DEF Streaming, n
    <3>2. Alike(spelled[1], "Videos") /\ Alike(spelled[3], "stream")
      BY <2>3, <2>4, <2>5, <3>1 DEF Alike, Spelled
    <3>3. Instance(spelled, <<"Videos", "id", "stream">>, Alike)
      BY <2>3, <3>1, <3>2 DEF Instance, Variables
    <3> QED BY <3>1, <3>3
  <2> QED BY <2>3, <2>7, <2>8, <2>9 DEF spelled
<1> QED BY <1>3, <1>4

(* Whatever is sent, in any casing, under one alias prefix, with a slash   *)
(* at the end or a container on a stream, the mux finds the routes that    *)
(* it spells and takes the most specific of them; what spells none is      *)
(* answered 404 or 405.                                                    *)
THEOREM ReachedAsSpelled ==
  ASSUME NEW sent, sent.path.segs \in Seq(Segments)
  PROVE  LET way  == Reached(sent.method, sent.path)
             hits == Candidates(sent)
         IN  IF hits = {} THEN way.status \in {"404", "405"}
             ELSE /\ way.status = "handler"
                  /\ \E r \in hits :
                       /\ \A other \in hits : Literals(other.pattern) \subseteq Literals(r.pattern)
                       /\ way.guard = r.guard /\ way.handler = r.handler
                       /\ DOMAIN way.values = {r.pattern[i] : i \in DOMAIN r.pattern \ Literals(r.pattern)}
<1> DEFINE way == Reached(sent.method, sent.path)
           hits == Candidates(sent)
           cut == CutLegacyPrefix(sent.path.segs)
           spelled == NormalizeStreamSpelling(cut)
           canonical == Canonical(sent.path)
           here == {r \in Routes : ~ canonical.slash /\ Instance(canonical.segs, r.pattern, Exactly)}
           mine == {r \in here : Serves(r, sent.method)}
           match == MuxMatch(sent.method, canonical)
<1>1. cut \in Seq(Segments) /\ CutOnce(sent.path.segs) = cut
  BY CutIs
<1>0. \A r \in Routes : r.method \in Asks(sent.method) <=> Serves(r, sent.method)
  BY DEF Asks, Serves
<1>2. hits = {r \in Routes : Serves(r, sent.method) /\ (Instance(cut, r.pattern, Alike) \/ Streaming(cut, r))}
  <2>1. hits = {r \in Routes : r.method \in Asks(sent.method) /\ (Instance(cut, r.pattern, Alike) \/ Streaming(cut, r))}
    BY <1>1, Zenon DEF Candidates, Streaming
  <2> HIDE DEF hits
  <2> QED BY <1>0, <2>1
<1>3. /\ way.status = match.status /\ way.handler = match.route.handler /\ way.guard = match.route.guard
      /\ way.values = PathValues(canonical.segs, match.route.pattern)
  BY DEF Reached
<1>4. match = IF mine # {} THEN [status |-> "handler", route |-> MostSpecific(mine)]
              ELSE [status |-> IF here # {} THEN "405" ELSE "404",
                    route  |-> Open(sent.method, <<>>, "none")]
  BY DEF MuxMatch
<1>5. canonical = Fold([segs |-> spelled, slash |-> FALSE])
  BY DEF Canonical, NormalizeLegacyPath
<1> HIDE DEF cut
<1>6. /\ spelled \in Seq(Segments)
      /\ \A r \in Routes : Instance(spelled, r.pattern, Alike) <=> Instance(cut, r.pattern, Alike) \/ Streaming(cut, r)
  BY <1>1, NormalizedIs
<1> HIDE DEF spelled, canonical
<1>7. /\ canonical.slash = FALSE
      /\ \A r \in Routes : Instance(canonical.segs, r.pattern, Exactly) <=> Instance(spelled, r.pattern, Alike)
  BY <1>5, <1>6, FoldedIs
<1>8. mine = hits
  <2>1. \A r : r \in mine <=> r \in Routes /\ Instance(canonical.segs, r.pattern, Exactly) /\ Serves(r, sent.method)
    BY <1>7, Zenon
  <2>2. \A r : r \in hits <=> r \in Routes /\ Serves(r, sent.method) /\ (Instance(cut, r.pattern, Alike) \/ Streaming(cut, r))
    BY <1>2, Zenon
  <2> HIDE DEF mine, hits
  <2>3. \A r : r \in mine <=> r \in hits
    BY <1>6, <1>7, <2>1, <2>2, Zenon
  <2> QED BY <2>3
<1>9. \A r \in mine : r \in Routes /\ Len(r.pattern) = Len(canonical.segs)
  BY Zenon DEF Instance
<1> HIDE DEF way, hits, mine, here, match
<1>10. CASE mine = {}
  BY <1>3, <1>4, <1>8, <1>10 DEF way, hits
<1>11. CASE mine # {}
  <2> DEFINE r == MostSpecific(mine)
  <2>1. r \in mine /\ \A other \in mine : Literals(other.pattern) \subseteq Literals(r.pattern)
    <3>1. \E best \in mine : \A other \in mine : Literals(other.pattern) \subseteq Literals(best.pattern)
      BY <1>9, <1>11, MostSpecificExists
    <3> QED BY <3>1, Zenon DEF MostSpecific
  <2>2. match.status = "handler" /\ match.route = r
    BY <1>4, <1>11
  <2> HIDE DEF r
  <2>3. way.values = PathValues(canonical.segs, r.pattern)
    BY <1>3, <2>2
  <2>4. DOMAIN way.values = {r.pattern[i] : i \in DOMAIN r.pattern \ Literals(r.pattern)}
    BY <2>3 DEF PathValues
  <2>5. way.status = "handler" /\ way.guard = r.guard /\ way.handler = r.handler
    BY <1>3, <2>2
  <2> QED BY <1>8, <1>11, <2>1, <2>4, <2>5 DEF way, hits
<1> QED BY <1>10, <1>11

(* Whatever the request, the mux answers 404 or 405, or enters a handler   *)
(* that was registered, through the guard it was registered with.          *)
THEOREM ReachedRegistered ==
  ASSUME NEW method, NEW path
  PROVE  LET way == Reached(method, path)
         IN  \/ way.status \in {"404", "405"} /\ way.handler = "none"
             \/ /\ way.status = "handler"
                /\ \E r \in Routes : way.handler = r.handler /\ way.guard = r.guard
<1> DEFINE canonical == Canonical(path)
           here == {r \in Routes : ~ canonical.slash /\ Instance(canonical.segs, r.pattern, Exactly)}
           mine == {r \in here : Serves(r, method)}
           match == MuxMatch(method, canonical)
           way == Reached(method, path)
<1>1. way.status = match.status /\ way.handler = match.route.handler /\ way.guard = match.route.guard
  BY DEF Reached
<1>2. match = IF mine # {} THEN [status |-> "handler", route |-> MostSpecific(mine)]
              ELSE [status |-> IF here # {} THEN "405" ELSE "404",
                    route  |-> Open(method, <<>>, "none")]
  BY DEF MuxMatch
<1> HIDE DEF canonical, match, way
<1>3. CASE mine = {}
  BY <1>1, <1>2, <1>3 DEF Open, Route, way
<1>4. CASE mine # {}
  <2>1. \A r \in mine : r \in Routes /\ Len(r.pattern) = Len(canonical.segs)
    BY DEF Instance
  <2>2. MostSpecific(mine) \in mine
    BY <1>4, <2>1, MostSpecificIsOne
  <2> QED BY <1>1, <1>2, <1>4, <2>1, <2>2 DEF way
<1> QED BY <1>3, <1>4

(* What stands behind the routes.                                          *)
LEMMA Registered ==
  ASSUME NEW r \in Routes
  PROVE  /\ r.guard \in {"open", "token", "user"}
         /\ r.guard = "open" => r.handler \in {"settings", "static", "refused", "login", "image", "stream"}
         /\ r.guard = "token" => r.handler \in {"settings", "static", "browse", "capabilities", "socket",
                                              "playbackinfo", "playing"}
         /\ r.guard = "user" => r.handler \in {"settings", "static", "browse"}
<1>1. CASE r \in OpenRoutes
  BY <1>1 DEF OpenRoutes, Open, Route
<1>2. CASE r \in TokenRoutes
  BY <1>2 DEF TokenRoutes, Authed, Route
<1>3. CASE r \in UserScopedRoutes
  BY <1>3 DEF UserScopedRoutes, UserScoped, Route
<1> QED BY <1>1, <1>2, <1>3 DEF Routes

----------------------------------------------------------------------------
(* The invariant.                                                          *)

(* A request is at one of these, and what its record says depends on it.   *)
Served   == {"static", "browse", "image", "playing", "socket"}
Doors    == Served \cup {"settings", "refused", "login", "capabilities", "playbackinfo", "stream"}
Beyond   == {"upsert", "loginsettings", "streamtoken", "open"}
Native   == {"setup", "count", "create", "nativelogin", "me"}

IsRequest(r) ==
  r = [pc |-> r.pc, dev |-> r.dev, raw |-> r.raw, token |-> r.token, tag |-> r.tag,
       guard |-> r.guard, values |-> r.values, sid |-> r.sid, got |-> r.got,
       status |-> r.status, failed |-> r.failed]

Through(guard, handler) == \E r \in Routes : r.guard = guard /\ r.handler = handler

Senders == Devices \cup {None}

(* The tokens minted and the versions of the film there have been so far.  *)
Ever     == 1..Len(minted)
Versions == 1..updatedAt
Past(v)  == v < updatedAt

Credentials(r) ==
  /\ r.token \in Ever \cup {0} /\ r.tag \in Versions \cup {0}
  /\ r.dev \in Senders
  /\ r.dev # None /\ r.token # 0 => minted[r.token] = r.dev
  /\ r.tag # 0 => r.token = 0 /\ r.pc \in {"arrived", "stream", "open", "answer"}

Place(r) ==
  /\ r.pc \in {"idle", "arrived", "auth", "answer"} \cup Doors \cup Beyond \cup Native
  /\ r.pc # "answer" => r.status = None /\ ~ r.failed
  /\ r.got # 0 => r.pc \in {"answer", "loginsettings"}
  /\ r.pc = "idle" => r = Idle
  /\ r.pc = "arrived" =>
       /\ r.dev \in Devices /\ r.raw \in Sent /\ r.guard = None /\ r.sid = <<>>
       /\ r.tag # 0 => Way[r.raw].handler = "stream"
  /\ r.pc = "auth" => r.dev \in Devices /\ r.guard # "open" /\ Through(r.guard, r.raw) /\ r.sid = <<>>
  /\ r.pc \in Doors \cup Beyond => r.dev \in Devices
  /\ r.pc \in Doors => Through(r.guard, r.pc)
  /\ r.pc \in Beyond => r.guard = "open"
  /\ r.pc \in Native => r.guard = None /\ r.dev = None
  /\ r.pc \in {"setup", "count", "create"} => r.raw \in Names
  /\ r.pc = "capabilities" =>
       r.sid \in DOMAIN sessions /\ r.token # 0 /\ minted[r.token] = r.sid[1]
  /\ r.pc = "loginsettings" => r.got \in Ever /\ minted[r.got] = r.dev

Outcome(r) ==
  r.pc = "answer" =>
    /\ r.status \in Statuses
    /\ r.got # 0 =>
         /\ r.status = "200"
         /\ r.guard = "token" => r.dev \in Devices /\ r.got \in Versions
         /\ r.guard # "token" => r.got \in Ever /\ (r.dev # None => minted[r.got] = r.dev)
    /\ r.status = "401" /\ ~ r.failed =>
         /\ r.guard \in {"token", "user"} /\ r.token # 0 => ~ Usable(r.token)
         /\ r.guard = "open" /\ r.tag # 0 => Past(r.tag)

ReqOk(r) == IsRequest(r) /\ Credentials(r) /\ Place(r) /\ Outcome(r)

Typed ==
  /\ accounts \subseteq Names /\ (accounts # {} => \E n \in Names : accounts = {n})
  /\ setupLock \in Slots \cup {"free"}
  /\ minted \in Seq(Devices \cup {"native"}) /\ Len(minted) <= MaxTokens
  /\ bearers \subseteq Ever /\ expired \subseteq bearers
  /\ updatedAt \in 1..MaxUpdates
  /\ held \in [Devices -> Ever \cup {0}] /\ bearer \in Ever \cup {0}
  /\ tag \in [Devices -> Versions \cup {0}]
  /\ \A d \in Devices : held[d] # 0 => minted[held[d]] = d

(* A session is stored under the device its token was minted for, holds    *)
(* the last token of that device, and what that device reported.           *)
RowOk(k) ==
  /\ sessions[k] = [token |-> sessions[k].token, caps |-> sessions[k].caps]
  /\ sessions[k].token \in Ever /\ sessions[k].caps \in Ever \cup {0}
  /\ minted[sessions[k].token] \in Devices
  /\ k = DeviceKey(minted[sessions[k].token], sessions[k].token)
  /\ Usable(sessions[k].token)
  /\ sessions[k].caps # 0 => minted[sessions[k].caps] = k[1]

RowsOk == \A k \in DOMAIN sessions : RowOk(k)

UsableHaveRows ==
  \A t \in Ever : minted[t] \in Devices /\ Usable(t) => Rows(t) # {}

Requests == DOMAIN req = Slots /\ \A p \in Slots : ReqOk(req[p])

SetupInv ==
  /\ \A p \in Slots : req[p].pc \in {"count", "create"} <=> setupLock = p
  /\ \A p \in Slots : req[p].pc = "create" => accounts = {}
  /\ \A p \in Slots : req[p].status \in {"201", "409"} => accounts # {}

IInv == Typed /\ RowsOk /\ UsableHaveRows /\ Requests /\ SetupInv

LEMMA Bounds == MaxTokens \in Nat /\ MaxUpdates \in Nat /\ MaxUpdates >= 1
BY AccessAssumption

LEMMA Apart == None \notin Devices /\ "native" \notin Devices /\ "free" \notin Slots
BY AccessAssumption

LEMMA NoneIsNothing == None \notin {"200", "201", "401", "409", "token", "user", "open"}
BY DEF None

(* What the arithmetic of the proofs needs of the tables.                  *)
Numbered ==
  /\ Len(minted) \in Nat /\ DOMAIN minted = 1..Len(minted)
  /\ \A t \in 1..Len(minted) : minted[t] \in Devices \cup {"native"}
  /\ updatedAt \in Nat

LEMMA MintedIs == Typed => Numbered
<1> SUFFICES ASSUME Typed PROVE Numbered
  OBVIOUS
<1>1. minted \in Seq(Devices \cup {"native"})
  BY DEF Typed
<1>2. Len(minted) \in Nat /\ DOMAIN minted = 1..Len(minted)
  BY <1>1, LenProperties
<1>3. \A t \in 1..Len(minted) : minted[t] \in Devices \cup {"native"}
  BY <1>1, ElementOfSeq
<1>4. updatedAt \in Nat
  <2>1. updatedAt \in 1..MaxUpdates
    BY DEF Typed
  <2> QED BY <2>1, Bounds
<1> QED BY <1>2, <1>3, <1>4 DEF Numbered

LEMMA MintedIsNext == Typed' => Numbered'
BY MintedIs, PTL

LEMMA IdleOk == ReqOk(Idle)
<1>1. /\ Idle.pc = "idle" /\ Idle.status = None /\ ~ Idle.failed /\ Idle.got = 0
      /\ Idle.token = 0 /\ Idle.tag = 0 /\ Idle.dev = None /\ Idle.raw = <<>> /\ Idle.guard = None
      /\ Idle.values = <<>> /\ Idle.sid = <<>>
  BY DEF Idle
<1>a. IsRequest(Idle)
  BY <1>1 DEF IsRequest, Idle
<1>2. Credentials(Idle)
  BY <1>1 DEF Credentials, Senders
<1>3. Place(Idle)
  BY <1>1 DEF Place, Doors, Served, Beyond, Native
<1> QED BY <1>1, <1>a, <1>2, <1>3 DEF ReqOk, Outcome

LEMMA InitInv == Init => IInv
<1> SUFFICES ASSUME Init PROVE IInv
  OBVIOUS
<1>1. Typed
  <2>1. minted \in Seq(Devices \cup {"native"}) /\ Len(minted) = 0
    BY EmptySeq DEF Init
  <2>2. updatedAt \in 1..MaxUpdates
    <3>1. updatedAt = 1
      BY DEF Init
    <3> QED BY <3>1, Bounds
  <2>3. Len(minted) <= MaxTokens
    BY <2>1, <2>2, Bounds
  <2>4. held \in [Devices -> Ever \cup {0}] /\ tag \in [Devices -> Versions \cup {0}]
        /\ \A d \in Devices : held[d] = 0
    BY <2>3 DEF Init
  <2> QED BY <2>1, <2>2, <2>3, <2>4 DEF Init, Typed
<1>2. RowsOk /\ UsableHaveRows
  <2>1. DOMAIN sessions = {} /\ Ever = {}
    BY DEF Init, Ever
  <2> QED BY <2>1 DEF RowsOk, UsableHaveRows
<1>3. Requests
  BY <1>1, IdleOk DEF Init, Requests
<1>4. SetupInv
  BY Apart, NoneIsNothing DEF Init, SetupInv, Idle
<1> QED BY <1>1, <1>2, <1>3, <1>4 DEF IInv

(* What only grows: tokens, the film's versions and the devices known.     *)
Grown ==
  /\ Len(minted) <= Len(minted') /\ \A t \in Ever : minted'[t] = minted[t]
  /\ updatedAt <= updatedAt'
  /\ DOMAIN sessions \subseteq DOMAIN sessions'

LEMMA MoreEver ==
  ASSUME Typed, Typed', Grown
  PROVE  /\ Ever \subseteq Ever' /\ Versions \subseteq Versions'
         /\ \A v \in Versions : Past(v) => Past(v)'
         /\ \A t \in Ever : minted'[t] = minted[t]
<1>1. Len(minted) \in Nat /\ Len(minted') \in Nat /\ updatedAt \in Nat /\ updatedAt' \in Nat
  BY MintedIs, MintedIsNext DEF Numbered
<1> QED BY <1>1 DEF Grown, Ever, Versions, Past

LEMMA DeadStaysDead ==
  ASSUME Typed, Typed', Grown
  PROVE  \A t \in Ever : ~ Usable(t) => ~ Usable(t)'
<1> SUFFICES ASSUME NEW t \in Ever, ~ Usable(t) PROVE ~ Usable(t)'
  OBVIOUS
<1>1. minted[t] # Anonymous /\ \E u \in Ever : u > t /\ minted[u] = minted[t]
  BY MintedIs DEF Numbered, Usable, Newest, Ever
<1>2. Ever' = DOMAIN minted'
  BY MintedIsNext DEF Numbered, Ever
<1> QED BY <1>1, <1>2, MoreEver DEF Usable, Newest

LEMMA RequestLater ==
  ASSUME Typed, Typed', Grown, NEW r, ReqOk(r)
  PROVE  ReqOk(r)'
<1>1. IsRequest(r)'
  BY DEF ReqOk, IsRequest
<1>2. Credentials(r)'
  BY MoreEver DEF ReqOk, Credentials
<1>3. Place(r)'
  BY MoreEver DEF ReqOk, Place, Credentials, Grown
<1>4. Outcome(r)'
  BY MoreEver, DeadStaysDead DEF ReqOk, Outcome, Credentials
<1> QED BY <1>1, <1>2, <1>3, <1>4 DEF ReqOk

LEMMA OkOfSlot ==
  ASSUME NEW q, NEW s, s = req'[q], ReqOk(s)'
  PROVE  ReqOk(req[q])'
<1>1. IsRequest(s)' /\ Credentials(s)' /\ Place(s)' /\ Outcome(s)'
  BY DEF ReqOk
<1>2. IsRequest(req[q])'
  BY <1>1 DEF IsRequest
<1>3. Credentials(req[q])'
  BY <1>1 DEF Credentials
<1>4. Place(req[q])'
  BY <1>1 DEF Place
<1>5. Outcome(req[q])'
  BY <1>1 DEF Outcome, Usable, Newest, Past
<1> QED BY <1>2, <1>3, <1>4, <1>5 DEF ReqOk

LEMMA RequestsStep ==
  ASSUME IInv, Typed', Grown, NEW p \in Slots, NEW r, req' = [req EXCEPT ![p] = r], ReqOk(r)'
  PROVE  Requests'
<1>1. Typed /\ Requests
  BY DEF IInv
<1>2. \A q \in Slots : req'[q] = IF q = p THEN r ELSE req[q]
  BY <1>1 DEF Requests
<1>3. ASSUME NEW q \in Slots PROVE ReqOk(req[q])'
  <2>1. PICK s : s = req'[q]
    OBVIOUS
  <2>2. ReqOk(s)'
    <3>1. CASE q = p
      BY <1>2, <2>1, <3>1
    <3>2. CASE q # p
      <4>1. ReqOk(s)
        BY <1>1, <1>2, <2>1, <3>2 DEF Requests
      <4> QED BY <1>1, <4>1, RequestLater
    <3> QED BY <3>1, <3>2
  <2> QED BY <2>1, <2>2, OkOfSlot
<1> QED BY <1>1, <1>3 DEF Requests

(* A request that moves on, outside the setup transaction.                 *)
LEMMA Tabled ==
  ASSUME IInv, Typed', RowsOk', UsableHaveRows', Grown, UNCHANGED <<accounts, setupLock>>,
         NEW p \in Slots, NEW r, req' = [req EXCEPT ![p] = r], ReqOk(r)',
         r.pc \notin {"count", "create"}, req[p].pc \notin {"count", "create"},
         r.status \notin {"201", "409"}
  PROVE  IInv'
<1>1. \A q \in Slots : req'[q] = IF q = p THEN r ELSE req[q]
  BY DEF IInv, Requests
<1>2. SetupInv'
  BY <1>1 DEF IInv, SetupInv
<1> QED BY <1>2, RequestsStep DEF IInv

(* The same while the tables stay.                                         *)
LEMMA Moves ==
  ASSUME IInv, NEW p \in Slots, NEW r, UNCHANGED <<database, updatedAt, clients>>,
         req' = [req EXCEPT ![p] = r], ReqOk(r),
         r.pc \notin {"count", "create"}, req[p].pc \notin {"count", "create"},
         r.status \notin {"201", "409"}
  PROVE  IInv'
<1>1. Typed
  BY DEF IInv
<1>2. Typed'
  BY <1>1 DEF Typed, Ever, Versions, database, clients
<1>3. RowsOk' /\ UsableHaveRows'
  BY DEF IInv, RowsOk, RowOk, UsableHaveRows, Usable, Newest, Rows, Ever, database
<1>4. Grown
  BY <1>1, MintedIs DEF Numbered, Grown, database
<1>5. ReqOk(r)'
  BY <1>1, <1>2, <1>4, RequestLater
<1> QED BY <1>2, <1>3, <1>4, <1>5, Tabled DEF database

(* The forms in which a handler leaves a request.                          *)
LeftWith(p, code, given, r) ==
  \/ r = Answered(p, code, given)
  \/ r = [Answered(p, code, given) EXCEPT !.failed = TRUE]

LEMMA AnsweredIs ==
  ASSUME NEW p, NEW code, NEW given, NEW r, LeftWith(p, code, given, r)
  PROVE  IsRequest(r) /\ r.pc = "answer" /\ r.status = code /\ r.got = given
BY DEF LeftWith, Answered, Idle, IsRequest

LEMMA AnsweredGives ==
  ASSUME NEW p, NEW code, NEW given, given # 0, NEW r, LeftWith(p, code, given, r)
  PROVE  r.dev = req[p].dev /\ r.guard = req[p].guard /\ r.token = 0 /\ r.tag = 0
BY DEF LeftWith, Answered, Idle

LEMMA AnsweredKeeps ==
  ASSUME NEW p, NEW r, LeftWith(p, "401", 0, r)
  PROVE  r.dev = None /\ r.guard = req[p].guard /\ r.token = req[p].token /\ r.tag = req[p].tag
BY DEF LeftWith, Answered, Idle

LEMMA AnsweredForgets ==
  ASSUME NEW p, NEW code, code # "401", NEW r, LeftWith(p, code, 0, r)
  PROVE  r.dev = None /\ r.guard = None /\ r.token = 0 /\ r.tag = 0
BY DEF LeftWith, Answered, Idle

(* What a request answered 401, with every statement answered, has to show. *)
Refusable(q) ==
  /\ q.guard \in {"token", "user"} /\ q.token # 0 => ~ Usable(q.token)
  /\ q.guard = "open" /\ q.tag # 0 => Past(q.tag)

LEMMA AnswerOk ==
  ASSUME Typed, NEW p, ReqOk(req[p]), NEW code \in Statuses,
         NEW r, LeftWith(p, code, 0, r), code = "401" /\ ~ r.failed => Refusable(req[p])
  PROVE  ReqOk(r) /\ r.pc = "answer" /\ r.status = code
<1>1. /\ IsRequest(r) /\ r.pc = "answer" /\ r.status = code /\ r.got = 0
      /\ r.dev = None
      /\ code = "401" => r.guard = req[p].guard /\ r.token = req[p].token /\ r.tag = req[p].tag
      /\ code # "401" => r.guard = None /\ r.token = 0 /\ r.tag = 0
  <2>1. IsRequest(r) /\ r.pc = "answer" /\ r.status = code /\ r.got = 0
    BY AnsweredIs
  <2>2. CASE code = "401"
    BY <2>1, <2>2, AnsweredKeeps
  <2>3. CASE code # "401"
    BY <2>1, <2>3, AnsweredForgets
  <2> QED BY <2>2, <2>3
<1>2. Credentials(r)
  BY <1>1 DEF ReqOk, Credentials, Senders
<1>3. Place(r)
  BY <1>1 DEF Place, Doors, Served, Beyond, Native
<1>4. Outcome(r)
  BY <1>1 DEF Outcome, Refusable
<1> QED BY <1>1, <1>2, <1>3, <1>4 DEF ReqOk

LEMMA Replies ==
  ASSUME IInv, NEW p \in Slots, UNCHANGED <<database, updatedAt, clients>>,
         NEW code \in Statuses \ {"201", "409"}, Reply(p, code),
         code = "401" => Refusable(req[p]),
         req[p].pc \notin {"count", "create"}
  PROVE  IInv'
<1>1. PICK r : r = Answered(p, code, 0)
  OBVIOUS
<1>0. LeftWith(p, code, 0, r)
  BY <1>1 DEF LeftWith
<1>2. ReqOk(r) /\ r.pc = "answer" /\ r.status = code
  <2>1. Typed /\ ReqOk(req[p]) /\ code \in Statuses
    BY DEF IInv, Requests
  <2> QED BY <1>0, <2>1, AnswerOk
<1>3. req' = [req EXCEPT ![p] = r]
  BY <1>1 DEF Reply
<1> QED BY <1>2, <1>3, Moves

LEMMA Fails ==
  ASSUME IInv, NEW p \in Slots, UNCHANGED <<database, updatedAt, clients>>,
         NEW code \in Statuses \ {"201", "409"}, Failed(p, code),
         req[p].pc \notin {"count", "create"}
  PROVE  IInv'
<1>1. PICK r : r = [Answered(p, code, 0) EXCEPT !.failed = TRUE]
  OBVIOUS
<1>0. LeftWith(p, code, 0, r) /\ r.failed
  BY <1>1 DEF LeftWith, Answered, Idle
<1>2. ReqOk(r) /\ r.pc = "answer" /\ r.status = code
  <2>1. Typed /\ ReqOk(req[p]) /\ code \in Statuses
    BY DEF IInv, Requests
  <2> QED BY <1>0, <2>1, AnswerOk
<1>3. req' = [req EXCEPT ![p] = r]
  BY <1>1 DEF Failed
<1> QED BY <1>2, <1>3, Moves

(* The token or the tag a handler hands out.                               *)
LEMMA ReturnOk ==
  ASSUME NEW p, NEW given, given # 0, req[p].dev \in Senders,
         req[p].guard = "token" => req[p].dev \in Devices /\ given \in Versions,
         req[p].guard # "token" => given \in Ever /\ (req[p].dev # None => minted[given] = req[p].dev),
         NEW r, r = Answered(p, "200", given)
  PROVE  ReqOk(r) /\ r.pc = "answer" /\ r.status = "200"
<1>1. /\ IsRequest(r) /\ r.pc = "answer" /\ r.status = "200" /\ r.got = given
      /\ r.dev = req[p].dev /\ r.guard = req[p].guard /\ r.token = 0 /\ r.tag = 0
  <2>1. LeftWith(p, "200", given, r)
    BY DEF LeftWith
  <2>2. IsRequest(r) /\ r.pc = "answer" /\ r.status = "200" /\ r.got = given
    BY <2>1, AnsweredIs
  <2>3. r.dev = req[p].dev /\ r.guard = req[p].guard /\ r.token = 0 /\ r.tag = 0
    BY <2>1, AnsweredGives
  <2> QED BY <2>2, <2>3
<1>2. Credentials(r)
  BY <1>1 DEF Credentials, Senders
<1>3. Place(r)
  BY <1>1 DEF Place, Doors, Served, Beyond, Native
<1>4. Outcome(r)
  BY <1>1 DEF Outcome, Statuses
<1> QED BY <1>1, <1>2, <1>3, <1>4 DEF ReqOk

LEMMA Returns ==
  ASSUME IInv, NEW p \in Slots, UNCHANGED <<database, updatedAt, clients>>,
         NEW given, given # 0, Return(p, given), req[p].dev \in Senders,
         req[p].guard = "token" => req[p].dev \in Devices /\ given \in Versions,
         req[p].guard # "token" => given \in Ever /\ (req[p].dev # None => minted[given] = req[p].dev),
         req[p].pc \notin {"count", "create"}
  PROVE  IInv'
<1>1. PICK r : r = Answered(p, "200", given)
  OBVIOUS
<1>2. ReqOk(r) /\ r.pc = "answer" /\ r.status = "200"
  BY <1>1, ReturnOk
<1>3. req' = [req EXCEPT ![p] = r]
  BY <1>1 DEF Return
<1> QED BY <1>2, <1>3, Moves

(* A request that only goes on to its next statement.                      *)
LEMMA Goes ==
  ASSUME IInv, NEW p \in Slots, UNCHANGED <<database, updatedAt, clients>>,
         NEW pc \in Beyond, Goto(p, pc), req[p].pc \in Doors \cup Beyond, req[p].guard = "open",
         pc # "loginsettings", req[p].got = 0, pc = "open" \/ req[p].tag = 0
  PROVE  IInv'
<1>1. PICK r : r = [req[p] EXCEPT !.pc = pc]
  OBVIOUS
<1>2. ReqOk(req[p])
  BY DEF IInv, Requests
<1>3. /\ IsRequest(r) /\ r.pc = pc /\ r.dev = req[p].dev /\ r.token = req[p].token /\ r.tag = req[p].tag
      /\ r.guard = req[p].guard /\ r.got = req[p].got /\ r.status = req[p].status
      /\ r.failed = req[p].failed
  BY <1>1, <1>2 DEF ReqOk, IsRequest
<1>4. Credentials(r)
  BY <1>2, <1>3 DEF ReqOk, Credentials
<1>5. Place(r)
  BY <1>2, <1>3 DEF ReqOk, Place, Doors, Served, Beyond, Native
<1>6. Outcome(r)
  BY <1>3 DEF Outcome, Beyond
<1>7. r.status \notin {"201", "409"} /\ r.pc \notin {"count", "create"} /\ req[p].pc \notin {"count", "create"}
  BY <1>2, <1>3, NoneIsNothing DEF ReqOk, Place, Doors, Served, Beyond
<1>8. req' = [req EXCEPT ![p] = r]
  BY <1>1 DEF Goto
<1>9. ReqOk(r)
  BY <1>3, <1>4, <1>5, <1>6 DEF ReqOk
<1> QED BY <1>7, <1>8, <1>9, Moves

----------------------------------------------------------------------------
(* The handlers that only answer or go on.                                 *)

(* What a request is, by where it is.                                      *)
LEMMA Here ==
  ASSUME IInv, NEW p \in Slots
  PROVE  Typed /\ ReqOk(req[p]) /\ IsRequest(req[p]) /\ Credentials(req[p]) /\ Place(req[p])
BY DEF IInv, Requests, ReqOk

LEMMA GuardOf ==
  ASSUME NEW guard, NEW handler, Through(guard, handler)
  PROVE  /\ guard \in {"open", "token", "user"} /\ handler \in Doors
         /\ handler \in {"refused", "login", "image", "stream"} => guard = "open"
         /\ handler \in {"capabilities", "playbackinfo", "playing", "socket"} => guard = "token"
<1>1. PICK r \in Routes : r.guard = guard /\ r.handler = handler
  BY DEF Through
<1> QED BY <1>1, Registered DEF Doors, Served

LEMMA WayIs ==
  ASSUME NEW raw \in Sent
  PROVE  \/ Way[raw].status \in {"404", "405"} /\ Way[raw].handler = "none"
         \/ Way[raw].status = "handler" /\ Through(Way[raw].guard, Way[raw].handler)
<1>1. Way[raw] = Reached(raw.method, raw.path)
  BY DEF Way
<1> QED BY <1>1, ReachedRegistered DEF Through

LEMMA DispatchInv == ASSUME IInv, NEW p \in Slots, Dispatch(p) PROVE IInv'
<1> DEFINE hit == Way[req[p].raw]
<1>1. /\ IsRequest(req[p]) /\ Credentials(req[p]) /\ req[p].pc = "arrived" /\ req[p].dev \in Devices
      /\ req[p].raw \in Sent /\ req[p].guard = None /\ req[p].sid = <<>> /\ req[p].status = None
      /\ ~ req[p].failed /\ req[p].got = 0 /\ (req[p].tag # 0 => hit.handler = "stream")
  BY Here DEF Dispatch, At, Place
<1>2. UNCHANGED <<database, updatedAt, clients>>
  BY DEF Dispatch
<1>3. CASE Mounted[req[p].raw] # "compat"
  <2>1. Reply(p, "200")
    BY <1>3 DEF Dispatch
  <2> QED BY <1>1, <1>2, <2>1, Replies DEF Statuses
<1>4. CASE Mounted[req[p].raw] = "compat" /\ hit.status # "handler"
  <2>1. Reply(p, hit.status)
    BY <1>4 DEF Dispatch
  <2>2. hit.status \in {"404", "405"}
    BY <1>1, <1>4, WayIs
  <2> QED BY <1>1, <1>2, <2>1, <2>2, Replies DEF Statuses
<1>5. CASE Mounted[req[p].raw] = "compat" /\ hit.status = "handler"
  <2>1. Through(hit.guard, hit.handler)
    BY <1>1, <1>5, WayIs
  <2>2. PICK r : r = [req[p] EXCEPT !.pc = IF hit.guard = "open" THEN hit.handler ELSE "auth",
                                    !.guard = hit.guard, !.values = hit.values,
                                    !.raw = IF hit.guard = "open" THEN <<>> ELSE hit.handler]
    OBVIOUS
  <2>3. req' = [req EXCEPT ![p] = r]
    BY <1>5, <2>2 DEF Dispatch
  <2>4. /\ IsRequest(r) /\ r.dev = req[p].dev /\ r.token = req[p].token /\ r.tag = req[p].tag
        /\ r.guard = hit.guard /\ r.sid = <<>> /\ r.got = 0 /\ r.status = None /\ ~ r.failed
    BY <1>1, <2>2 DEF IsRequest
  <2>5. /\ hit.guard = "open" => r.pc = hit.handler
        /\ hit.guard # "open" => r.pc = "auth" /\ r.raw = hit.handler
    BY <1>1, <2>2 DEF IsRequest
  <2>6. r.pc \in Doors \cup {"auth"} /\ (r.pc = "auth" => hit.guard # "open")
    BY <2>1, <2>5, GuardOf DEF Doors, Served
  <2>7. Credentials(r)
    BY <1>1, <2>1, <2>4, <2>5, GuardOf DEF Credentials
  <2>8. Place(r)
    BY <1>1, <2>1, <2>4, <2>5, <2>6, GuardOf DEF Place, Doors, Served, Beyond, Native
  <2>9. r.pc \notin {"answer", "count", "create"} /\ r.status \notin {"201", "409"}
    BY <2>4, <2>6, NoneIsNothing DEF Doors, Served
  <2>10. ReqOk(r)
    BY <2>4, <2>7, <2>8, <2>9 DEF ReqOk, Outcome
  <2> QED BY <1>1, <1>2, <2>3, <2>9, <2>10, Moves
<1> QED BY <1>3, <1>4, <1>5

(* A live token has its row, so a token without one is dead.               *)
LEMMA NoRowDead ==
  ASSUME IInv, NEW t \in Ever, minted[t] \in Devices, Rows(t) = {}
  PROVE  ~ Usable(t)
BY DEF IInv, UsableHaveRows

LEMMA RowsOfToken ==
  ASSUME IInv, NEW t, NEW k \in Rows(t)
  PROVE  k \in DOMAIN sessions /\ t \in Ever /\ minted[t] \in Devices /\ minted[t] = k[1] /\ Usable(t)
<1>1. k \in DOMAIN sessions /\ sessions[k].token = t /\ RowOk(k)
  BY DEF IInv, RowsOk, Rows
<1>2. t \in Ever /\ minted[t] \in Devices /\ Usable(t) /\ k = DeviceKey(minted[t], t)
  BY <1>1 DEF RowOk
<1> QED BY <1>1, <1>2 DEF DeviceKey

LEMMA AuthenticateInv == ASSUME IInv, NEW p \in Slots, Authenticate(p) PROVE IInv'
<1>1. /\ IsRequest(req[p]) /\ Credentials(req[p]) /\ req[p].pc = "auth" /\ req[p].dev \in Devices
      /\ req[p].guard # "open" /\ Through(req[p].guard, req[p].raw) /\ req[p].sid = <<>>
      /\ req[p].status = None /\ ~ req[p].failed /\ req[p].got = 0
  BY Here DEF Authenticate, At, Place
<1>2. UNCHANGED <<database, updatedAt, clients>>
  BY DEF Authenticate
<1>3. CASE req[p].token = 0 \/ Rows(req[p].token) = {}
  <2>1. Reply(p, "401")
    BY <1>3 DEF Authenticate
  <2>2. req[p].token # 0 => ~ Usable(req[p].token)
    BY <1>1, <1>3, NoRowDead, Apart DEF Credentials, Senders
  <2>3. Refusable(req[p])
    BY <1>1, <2>2 DEF Refusable
  <2> QED BY <1>1, <1>2, <2>1, <2>3, Replies DEF Statuses
<1>4. CASE ~ (req[p].token = 0 \/ Rows(req[p].token) = {}) /\ UserPath(p) # "ok"
  <2>1. Reply(p, UserPath(p)) /\ UserPath(p) \in {"400", "403"}
    BY <1>4 DEF Authenticate, UserPath
  <2> QED BY <1>1, <1>2, <2>1, Replies DEF Statuses
<1>5. CASE ~ (req[p].token = 0 \/ Rows(req[p].token) = {}) /\ UserPath(p) = "ok"
  <2>1. PICK k : k = CHOOSE s \in Rows(req[p].token) : TRUE
    OBVIOUS
  <2>2. k \in Rows(req[p].token)
    BY <1>5, <2>1
  <2>3. k \in DOMAIN sessions /\ minted[req[p].token] = k[1] /\ req[p].token # 0
    BY <1>5, <2>2, RowsOfToken
  <2>4. PICK r : r = [req[p] EXCEPT !.pc = req[p].raw, !.raw = <<>>, !.sid = k]
    OBVIOUS
  <2>5. req' = [req EXCEPT ![p] = r]
    BY <1>5, <2>1, <2>4 DEF Authenticate
  <2>6. /\ IsRequest(r) /\ r.dev = req[p].dev /\ r.token = req[p].token /\ r.tag = req[p].tag
        /\ r.guard = req[p].guard /\ r.sid = k /\ r.got = 0 /\ r.status = None /\ ~ r.failed
        /\ r.pc = req[p].raw
    BY <1>1, <2>4 DEF IsRequest
  <2>7. r.pc \in Doors /\ Through(r.guard, r.pc)
    BY <1>1, <2>6, GuardOf
  <2>8. Credentials(r)
    BY <1>1, <2>3, <2>6 DEF Credentials
  <2>9. Place(r)
    BY <1>1, <2>3, <2>6, <2>7 DEF Place, Doors, Served, Beyond, Native
  <2>10. r.pc \notin {"answer", "count", "create"} /\ r.status \notin {"201", "409"}
    BY <2>6, <2>7, NoneIsNothing DEF Doors, Served
  <2>11. ReqOk(r)
    BY <2>6, <2>8, <2>9, <2>10 DEF ReqOk, Outcome
  <2> QED BY <1>1, <1>2, <2>5, <2>10, <2>11, Moves
<1> QED BY <1>3, <1>4, <1>5

LEMMA AuthenticateFailsInv == ASSUME IInv, NEW p \in Slots, AuthenticateFails(p) PROVE IInv'
BY Fails DEF AuthenticateFails, At, Statuses

LEMMA ServeInv == ASSUME IInv, NEW p \in Slots, Serve(p) PROVE IInv'
BY Replies DEF Serve, At, Statuses

(* The handlers entered without a token, and the tag they were sent.       *)
LEMMA OpenDoor ==
  ASSUME IInv, NEW p \in Slots, req[p].pc \in {"refused", "login", "stream"}
  PROVE  /\ req[p].guard = "open" /\ req[p].dev \in Devices /\ req[p].got = 0
         /\ req[p].pc # "stream" => req[p].tag = 0
<1>1. /\ Credentials(req[p]) /\ req[p].got = 0 /\ req[p].dev \in Devices
      /\ Through(req[p].guard, req[p].pc)
  BY Here DEF Place, Doors
<1> QED BY <1>1, GuardOf DEF Credentials

LEMMA QuickConnectInv == ASSUME IInv, NEW p \in Slots, QuickConnectInitiate(p) PROVE IInv'
<1>1. req[p].pc = "refused" /\ Reply(p, "401") /\ UNCHANGED <<database, updatedAt, clients>>
  BY DEF QuickConnectInitiate, At
<1>2. Refusable(req[p])
  BY <1>1, OpenDoor DEF Refusable
<1> QED BY <1>1, <1>2, Replies DEF Statuses

LEMMA ServerSettingsInv == ASSUME IInv, NEW p \in Slots, ServerSettings(p) PROVE IInv'
BY Replies, Fails DEF ServerSettings, At, Statuses

LEMMA LoginVerifyInv == ASSUME IInv, NEW p \in Slots, LoginVerify(p) PROVE IInv'
<1>1. req[p].pc = "login" /\ UNCHANGED <<database, updatedAt, clients>>
  BY DEF LoginVerify, At
<1>2. Refusable(req[p]) /\ req[p].guard = "open" /\ req[p].got = 0 /\ req[p].tag = 0
  BY <1>1, OpenDoor DEF Refusable
<1>3. CASE Goto(p, "upsert")
  BY <1>1, <1>2, <1>3, Goes DEF Doors, Beyond
<1>4. CASE \E verdict \in Verdicts : Reply(p, Denied(verdict))
  <2>1. PICK verdict \in Verdicts : Reply(p, Denied(verdict))
    BY <1>4
  <2>2. Denied(verdict) \in {"401", "500"}
    BY DEF Denied
  <2> QED BY <1>1, <1>2, <2>1, <2>2, Replies DEF Statuses
<1>5. CASE Reply(p, "400")
  BY <1>1, <1>5, Replies DEF Statuses
<1>6. CASE Failed(p, "500")
  BY <1>1, <1>6, Fails DEF Statuses
<1> QED BY <1>3, <1>4, <1>5, <1>6 DEF LoginVerify

LEMMA LoginSettingsInv == ASSUME IInv, NEW p \in Slots, LoginSettings(p) PROVE IInv'
<1>1. req[p].pc = "loginsettings" /\ UNCHANGED <<database, updatedAt, clients>>
  BY DEF LoginSettings, At
<1>2. /\ req[p].got \in Ever /\ minted[req[p].got] = req[p].dev /\ req[p].dev \in Devices
      /\ req[p].guard = "open"
  BY <1>1, Here DEF Place, Beyond
<1>3. req[p].got # 0 /\ req[p].dev \in Senders
  BY <1>2 DEF Ever, Senders
<1>4. CASE Return(p, req[p].got)
  BY <1>1, <1>2, <1>3, <1>4, Returns
<1>5. CASE Failed(p, "500")
  BY <1>1, <1>5, Fails DEF Statuses
<1> QED BY <1>4, <1>5 DEF LoginSettings

LEMMA PlaybackInfoInv == ASSUME IInv, NEW p \in Slots, PlaybackInfo(p) PROVE IInv'
<1>1. req[p].pc = "playbackinfo" /\ UNCHANGED <<database, updatedAt, clients>>
  BY DEF PlaybackInfo, At
<1>2. req[p].guard = "token" /\ req[p].dev \in Devices
  BY <1>1, Here, GuardOf DEF Place, Doors
<1>3. updatedAt # 0 /\ updatedAt \in Versions /\ req[p].dev \in Senders
  BY <1>2, Here, Bounds DEF Typed, Versions, Senders
<1>4. CASE Return(p, updatedAt)
  BY <1>1, <1>2, <1>3, <1>4, Returns
<1>5. CASE Failed(p, "500")
  BY <1>1, <1>5, Fails DEF Statuses
<1>6. CASE Reply(p, "400") \/ Reply(p, "404")
  BY <1>1, <1>6, Replies DEF Statuses
<1> QED BY <1>4, <1>5, <1>6 DEF PlaybackInfo

LEMMA StreamLocateInv == ASSUME IInv, NEW p \in Slots, StreamLocate(p) PROVE IInv'
<1>1. req[p].pc = "stream" /\ UNCHANGED <<database, updatedAt, clients>>
  BY DEF StreamLocate, At
<1>2. req[p].guard = "open" /\ req[p].got = 0
  BY <1>1, OpenDoor
<1>3. req[p].tag \in Versions \cup {0} /\ (req[p].tag # 0 => req[p].token = 0) /\ updatedAt \in Nat
  BY Here, MintedIs DEF Credentials, Numbered
<1>4. CASE Reply(p, "404")
  BY <1>1, <1>4, Replies DEF Statuses
<1>5. CASE Failed(p, "500")
  BY <1>1, <1>5, Fails DEF Statuses
<1>6. CASE Goto(p, "open")
  BY <1>1, <1>2, <1>6, Goes DEF Doors, Beyond
<1>7. CASE ~ TagOpens(p) /\ Reply(p, "401")
  <2>1. req[p].tag # 0 => Past(req[p].tag)
    BY <1>3, <1>7 DEF TagOpens, Versions, Past
  <2>2. Refusable(req[p])
    BY <1>2, <2>1 DEF Refusable
  <2> QED BY <1>1, <1>7, <2>2, Replies DEF Statuses
<1>8. CASE req[p].token # 0 /\ Goto(p, "streamtoken")
  BY <1>1, <1>2, <1>3, <1>8, Goes DEF Doors, Beyond
<1> QED BY <1>4, <1>5, <1>6, <1>7, <1>8 DEF StreamLocate

LEMMA StreamTokenInv == ASSUME IInv, NEW p \in Slots, StreamToken(p) PROVE IInv'
<1>1. req[p].pc = "streamtoken" /\ UNCHANGED <<database, updatedAt, clients>>
  BY DEF StreamToken, At
<1>2. req[p].guard = "open" /\ req[p].got = 0 /\ req[p].tag = 0
  BY <1>1, Here DEF Place, Beyond, Credentials
<1>3. CASE Goto(p, "open")
  BY <1>1, <1>2, <1>3, Goes DEF Doors, Beyond
<1>4. CASE Reply(p, "401")
  <2>1. Refusable(req[p])
    BY <1>2 DEF Refusable
  <2> QED BY <1>1, <1>4, <2>1, Replies DEF Statuses
<1>5. CASE Failed(p, "401")
  BY <1>1, <1>5, Fails DEF Statuses
<1> QED BY <1>3, <1>4, <1>5 DEF StreamToken

LEMMA StreamOpenInv == ASSUME IInv, NEW p \in Slots, StreamOpen(p) PROVE IInv'
<1>1. req[p].pc = "open" /\ UNCHANGED <<database, updatedAt, clients>>
  BY DEF StreamOpen, At
<1>2. PICK found \in {"inside", "outside", "gone", "directory", "unreadable"} : Reply(p, OpenStatus(found))
  BY DEF StreamOpen
<1>3. OpenStatus(found) \in {"200", "403", "404", "500"}
  BY DEF OpenStatus
<1> QED BY <1>1, <1>2, <1>3, Replies DEF Statuses

LEMMA BearerInv == ASSUME IInv, NEW p \in Slots, Bearer(p) PROVE IInv'
<1>1. req[p].pc = "me" /\ UNCHANGED <<database, updatedAt, clients>>
  BY DEF Bearer, At
<1>2. req[p].guard = None
  BY <1>1, Here DEF Place, Native
<1>3. Refusable(req[p])
  BY <1>2, NoneIsNothing DEF Refusable
<1>4. CASE Reply(p, "200") \/ Reply(p, "401")
  BY <1>1, <1>3, <1>4, Replies DEF Statuses
<1>5. CASE Failed(p, "500")
  BY <1>1, <1>5, Fails DEF Statuses
<1> QED BY <1>4, <1>5 DEF Bearer

----------------------------------------------------------------------------
(* What clients send, and the steps that write the tables.                 *)

LEMMA SendInv == ASSUME IInv, NEW p \in Slots, NEW d \in Devices, Send(p, d) PROVE IInv'
<1>1. /\ req[p].pc = "idle" /\ UNCHANGED <<database, updatedAt, clients>>
      /\ held[d] \in Ever \cup {0} /\ (held[d] # 0 => minted[held[d]] = d)
      /\ tag[d] \in Versions \cup {0} /\ d # None
  BY Here, Apart DEF Send, At, Typed
<1>2. PICK raw \in RawRequests[d] :
        \/ \E h \in Headers(held[d]) :
             req' = [req EXCEPT ![p] = [Idle EXCEPT !.pc = "arrived", !.dev = d, !.raw = raw,
                                                    !.token = ParseAuthorization(h)]]
        \/ /\ tag[d] # 0 /\ Way[raw].handler = "stream"
           /\ req' = [req EXCEPT ![p] = [Idle EXCEPT !.pc = "arrived", !.dev = d, !.raw = raw,
                                                     !.tag = tag[d]]]
  BY DEF Send
<1>3. raw \in Sent
  BY DEF Sent
<1>4. \A h \in Headers(held[d]) : ParseAuthorization(h) = held[d]
  BY DEF Headers, ParseAuthorization, NoAuth
<1>5. CASE \E h \in Headers(held[d]) :
             req' = [req EXCEPT ![p] = [Idle EXCEPT !.pc = "arrived", !.dev = d, !.raw = raw,
                                                    !.token = ParseAuthorization(h)]]
  <2>1. PICK r : r = [Idle EXCEPT !.pc = "arrived", !.dev = d, !.raw = raw, !.token = held[d]]
    OBVIOUS
  <2>2. req' = [req EXCEPT ![p] = r]
    BY <1>4, <1>5, <2>1
  <2>3. /\ IsRequest(r) /\ r.pc = "arrived" /\ r.dev = d /\ r.raw = raw /\ r.token = held[d] /\ r.tag = 0
        /\ r.guard = None /\ r.sid = <<>> /\ r.got = 0 /\ r.status = None /\ ~ r.failed
    BY <2>1 DEF IsRequest, Idle
  <2>4. Credentials(r)
    BY <1>1, <2>3 DEF Credentials, Senders
  <2>5. Place(r)
    BY <1>3, <2>3 DEF Place, Doors, Served, Beyond, Native
  <2>6. ReqOk(r) /\ r.status \notin {"201", "409"}
    BY <2>3, <2>4, <2>5, NoneIsNothing DEF ReqOk, Outcome
  <2> QED BY <1>1, <2>2, <2>3, <2>6, Moves
<1>6. CASE /\ tag[d] # 0 /\ Way[raw].handler = "stream"
           /\ req' = [req EXCEPT ![p] = [Idle EXCEPT !.pc = "arrived", !.dev = d, !.raw = raw,
                                                     !.tag = tag[d]]]
  <2>1. PICK r : r = [Idle EXCEPT !.pc = "arrived", !.dev = d, !.raw = raw, !.tag = tag[d]]
    OBVIOUS
  <2>2. req' = [req EXCEPT ![p] = r]
    BY <1>6, <2>1
  <2>3. /\ IsRequest(r) /\ r.pc = "arrived" /\ r.dev = d /\ r.raw = raw /\ r.token = 0 /\ r.tag = tag[d]
        /\ r.guard = None /\ r.sid = <<>> /\ r.got = 0 /\ r.status = None /\ ~ r.failed
    BY <2>1 DEF IsRequest, Idle
  <2>4. Credentials(r)
    BY <1>1, <2>3 DEF Credentials, Senders
  <2>5. Place(r)
    BY <1>3, <1>6, <2>3 DEF Place, Doors, Served, Beyond, Native
  <2>6. ReqOk(r) /\ r.status \notin {"201", "409"}
    BY <2>3, <2>4, <2>5, NoneIsNothing DEF ReqOk, Outcome
  <2> QED BY <1>1, <2>2, <2>3, <2>6, Moves
<1> QED BY <1>2, <1>5, <1>6

LEMMA NativeSendInv == ASSUME IInv, NEW p \in Slots, NativeSend(p) PROVE IInv'
<1>1. /\ req[p].pc = "idle" /\ UNCHANGED <<database, updatedAt, clients>> /\ bearer \in Ever \cup {0}
  BY Here DEF NativeSend, At, Typed
<1>2. ASSUME NEW r, IsRequest(r), r.pc \in {"setup", "nativelogin", "me"},
             r.pc = "setup" => r.raw \in Names, r.token \in Ever \cup {0}, r.dev = None, r.tag = 0,
             r.guard = None, r.got = 0, r.status = None, ~ r.failed,
             req' = [req EXCEPT ![p] = r]
      PROVE  IInv'
  <2>1. Credentials(r)
    BY <1>2 DEF Credentials, Senders
  <2>2. Place(r)
    BY <1>2 DEF Place, Doors, Served, Beyond, Native
  <2>3. ReqOk(r) /\ r.status \notin {"201", "409"} /\ r.pc \notin {"count", "create"}
    BY <1>2, <2>1, <2>2, NoneIsNothing DEF ReqOk, Outcome
  <2> QED BY <1>1, <1>2, <2>3, Moves
<1>3. ASSUME NEW name \in Names, req' = [req EXCEPT ![p] = [Idle EXCEPT !.pc = "setup", !.raw = name]]
      PROVE  IInv'
  <2>1. PICK r : r = [Idle EXCEPT !.pc = "setup", !.raw = name]
    OBVIOUS
  <2>2. /\ IsRequest(r) /\ r.pc = "setup" /\ r.raw = name /\ r.token = 0 /\ r.dev = None /\ r.tag = 0
        /\ r.guard = None /\ r.got = 0 /\ r.status = None /\ ~ r.failed
    BY <2>1 DEF IsRequest, Idle
  <2> QED BY <1>2, <1>3, <2>1, <2>2
<1>4. CASE req' = [req EXCEPT ![p] = [Idle EXCEPT !.pc = "nativelogin"]]
  <2>1. PICK r : r = [Idle EXCEPT !.pc = "nativelogin"]
    OBVIOUS
  <2>2. /\ IsRequest(r) /\ r.pc = "nativelogin" /\ r.token = 0 /\ r.dev = None /\ r.tag = 0
        /\ r.guard = None /\ r.got = 0 /\ r.status = None /\ ~ r.failed
    BY <2>1 DEF IsRequest, Idle
  <2> QED BY <1>2, <1>4, <2>1, <2>2
<1>5. CASE req' = [req EXCEPT ![p] = [Idle EXCEPT !.pc = "me", !.token = bearer]]
  <2>1. PICK r : r = [Idle EXCEPT !.pc = "me", !.token = bearer]
    OBVIOUS
  <2>2. /\ IsRequest(r) /\ r.pc = "me" /\ r.token = bearer /\ r.dev = None /\ r.tag = 0
        /\ r.guard = None /\ r.got = 0 /\ r.status = None /\ ~ r.failed
    BY <2>1 DEF IsRequest, Idle
  <2> QED BY <1>1, <1>2, <1>5, <2>1, <2>2
<1> QED BY <1>3, <1>4, <1>5 DEF NativeSend

(* The client reads its answer: what it keeps was handed out to it.        *)
LEMMA ReceiveInv == ASSUME IInv, NEW p \in Slots, Receive(p) PROVE IInv'
<1> DEFINE q == req[p]
           login == q.got # 0 /\ q.guard # "token"
<1>1. /\ Typed /\ q.pc = "answer" /\ UNCHANGED <<database, updatedAt>> /\ req' = [req EXCEPT ![p] = Idle]
      /\ Outcome(q) /\ q.dev \in Senders
  BY Here DEF Receive, At, ReqOk, Credentials
<1>2. /\ login => q.got \in Ever /\ (q.dev # None => minted[q.got] = q.dev)
      /\ q.got # 0 /\ ~ login => q.dev \in Devices /\ q.got \in Versions
  BY <1>1 DEF Outcome
<1>3. /\ held' \in [Devices -> Ever \cup {0}] /\ \A d \in Devices : held'[d] # 0 => minted[held'[d]] = d
      /\ bearer' \in Ever \cup {0} /\ tag' \in [Devices -> Versions \cup {0}]
  <2>1. CASE UNCHANGED clients
    BY <1>1, <2>1 DEF Typed, clients
  <2>2. CASE /\ held' = IF login /\ q.dev # None THEN [held EXCEPT ![q.dev] = q.got] ELSE held
             /\ bearer' = IF login /\ q.dev = None THEN q.got ELSE bearer
             /\ tag' = IF q.got # 0 /\ ~ login THEN [tag EXCEPT ![q.dev] = q.got] ELSE tag
    <3>1. held' \in [Devices -> Ever \cup {0}]
      BY <1>1, <1>2, <2>2 DEF Typed
    <3>2. \A d \in Devices : held'[d] # 0 => minted[held'[d]] = d
      BY <1>1, <1>2, <2>2 DEF Typed
    <3>3. bearer' \in Ever \cup {0}
      BY <1>1, <1>2, <2>2 DEF Typed
    <3>4. tag' \in [Devices -> Versions \cup {0}]
      BY <1>1, <1>2, <2>2 DEF Typed
    <3> QED BY <3>1, <3>2, <3>3, <3>4
  <2> QED BY <2>1, <2>2 DEF Receive
<1>4. Typed'
  BY <1>1, <1>3 DEF Typed, Ever, Versions, database
<1>5. RowsOk' /\ UsableHaveRows'
  BY <1>1 DEF IInv, RowsOk, RowOk, UsableHaveRows, Usable, Newest, Rows, Ever, database
<1>6. Grown
  BY <1>1, MintedIs DEF Numbered, Grown, database
<1>7. PICK r : r = Idle
  OBVIOUS
<1>8. ReqOk(r)'
  BY <1>1, <1>4, <1>6, <1>7, IdleOk, RequestLater
<1>9. r.pc = "idle" /\ r.status = None
  BY <1>7 DEF Idle
<1> QED BY <1>1, <1>4, <1>5, <1>6, <1>7, <1>8, <1>9, NoneIsNothing, Tabled DEF database

(* Nobody's request moves.                                                 *)
LEMMA RequestsStay ==
  ASSUME IInv, Typed', Grown, UNCHANGED <<accounts, setupLock, req>>
  PROVE  Requests' /\ SetupInv'
<1>1. Requests'
  <2>1. ASSUME NEW q \in Slots PROVE ReqOk(req[q])'
    <3>1. PICK s : s = req[q]
      OBVIOUS
    <3>2. ReqOk(s)'
      BY <3>1, RequestLater DEF IInv, Requests
    <3> QED BY <3>1, <3>2, OkOfSlot
  <2> QED BY <2>1 DEF IInv, Requests
<1> QED BY <1>1 DEF IInv, SetupInv

LEMMA RescanInv == ASSUME IInv, Rescan PROVE IInv'
<1>1. Typed /\ updatedAt \in 1..MaxUpdates /\ updatedAt < MaxUpdates /\ updatedAt' = updatedAt + 1
      /\ UNCHANGED <<database, clients, req>>
  BY DEF IInv, Typed, Rescan
<1>2. updatedAt' \in 1..MaxUpdates /\ updatedAt <= updatedAt' /\ Versions \subseteq Versions'
  BY <1>1, Bounds DEF Versions
<1>3. Typed'
  BY <1>1, <1>2 DEF Typed, Ever, database, clients
<1>4. Grown
  BY <1>1, <1>2, MintedIs DEF Numbered, Grown, database
<1>5. RowsOk' /\ UsableHaveRows'
  BY <1>1 DEF IInv, RowsOk, RowOk, UsableHaveRows, Usable, Newest, Rows, Ever, database
<1> QED BY <1>1, <1>3, <1>4, <1>5, RequestsStay DEF IInv, database

LEMMA ExpireInv == ASSUME IInv, Expire PROVE IInv'
<1>1. /\ Typed /\ expired' \subseteq bearers
      /\ UNCHANGED <<accounts, setupLock, sessions, bearers, minted, updatedAt, clients, req>>
  BY DEF IInv, Typed, Expire
<1>2. Typed'
  BY <1>1 DEF Typed, Ever, Versions, clients
<1>3. Grown
  BY <1>1, MintedIs DEF Numbered, Grown
<1>4. RowsOk' /\ UsableHaveRows'
  BY <1>1 DEF IInv, RowsOk, RowOk, UsableHaveRows, Usable, Newest, Rows, Ever
<1> QED BY <1>1, <1>2, <1>3, <1>4, RequestsStay DEF IInv

(* A token is minted, for a device or for a native client.                 *)
LEMMA Minting ==
  ASSUME Typed, NEW w \in Devices \cup {"native"}, NEW t, t = Len(minted) + 1, t <= MaxTokens,
         minted' = Append(minted, w)
  PROVE  /\ minted' \in Seq(Devices \cup {"native"}) /\ Len(minted') = t
         /\ Ever' = Ever \cup {t} /\ t \notin Ever /\ t # 0 /\ t \in Nat
         /\ minted'[t] = w /\ (\A u \in Ever : minted'[u] = minted[u])
         /\ Usable(t)'
         /\ \A u \in Ever : Usable(u)' <=> Usable(u) /\ (minted[u] = w => w = Anonymous)
<1>1. minted \in Seq(Devices \cup {"native"}) /\ Len(minted) \in Nat /\ DOMAIN minted = 1..Len(minted)
  BY MintedIs DEF Typed, Numbered
<1>2. /\ minted' \in Seq(Devices \cup {"native"}) /\ Len(minted') = t
      /\ minted'[t] = w /\ \A u \in 1..Len(minted) : minted'[u] = minted[u]
  BY <1>1, AppendProperties
<1>3. /\ Ever' = Ever \cup {t} /\ t \notin Ever /\ t # 0 /\ t \in Nat /\ DOMAIN minted' = 1..t
      /\ \A u \in Ever : u \in Nat /\ u < t
  BY <1>1, <1>2, LenProperties DEF Ever
<1>4. \A u \in Ever : minted'[u] = minted[u]
  BY <1>2 DEF Ever
<1>5. Usable(t)'
  <2>1. \A u \in 1..t : ~ (u > t)
    BY <1>3
  <2> QED BY <1>3, <2>1 DEF Usable, Newest
<1>6. ASSUME NEW u \in Ever
      PROVE  Usable(u)' <=> Usable(u) /\ (minted[u] = w => w = Anonymous)
  <2>1. Newest(u) <=> \A v \in Ever : v > u => minted[v] # minted[u]
    BY <1>1 DEF Newest, Ever
  <2>2. Newest(u)' <=> \A v \in Ever \cup {t} : v > u => minted'[v] # minted'[u]
    <3>1. DOMAIN minted' = Ever \cup {t}
      BY <1>2, <1>3 DEF Ever
    <3> QED BY <3>1 DEF Newest
  <2>3. t > u
    BY <1>3
  <2>4. Newest(u)' <=> Newest(u) /\ minted[u] # w
    BY <1>2, <1>4, <2>1, <2>2, <2>3
  <2> QED BY <1>4, <2>4 DEF Usable
<1> QED BY <1>2, <1>3, <1>4, <1>5, <1>6

LEMMA MintingTyped ==
  ASSUME Typed, NEW w \in Devices \cup {"native"}, NEW t, t = Len(minted) + 1, t <= MaxTokens,
         minted' = Append(minted, w), bearers' \subseteq Ever', expired' \subseteq bearers',
         UNCHANGED <<accounts, setupLock, updatedAt, clients>>
  PROVE  Typed'
<1>1. /\ minted' \in Seq(Devices \cup {"native"}) /\ Len(minted') = t /\ Ever \subseteq Ever'
      /\ \A u \in Ever : minted'[u] = minted[u]
  BY Minting
<1>2. held' \in [Devices -> Ever' \cup {0}] /\ bearer' \in Ever' \cup {0}
  BY <1>1 DEF Typed, clients
<1>3. \A d \in Devices : held'[d] # 0 => minted'[held'[d]] = d
  BY <1>1 DEF Typed, clients
<1>4. updatedAt' \in 1..MaxUpdates /\ tag' \in [Devices -> Versions' \cup {0}]
  BY DEF Typed, clients, Versions
<1>5. /\ accounts' \subseteq Names /\ (accounts' # {} => \E n \in Names : accounts' = {n})
      /\ setupLock' \in Slots \cup {"free"}
  BY DEF Typed
<1> QED BY <1>1, <1>2, <1>3, <1>4, <1>5 DEF Typed

(* Two devices share no row, and two logins without a device share none.   *)
LEMMA KeysApart ==
  ASSUME NEW d, NEW e, NEW t, NEW u, DeviceKey(d, t) = DeviceKey(e, u)
  PROVE  d = e /\ (d = Anonymous => t = u)
<1>1. /\ Len(<<d>>) = 1 /\ Len(<<e>>) = 1 /\ Len(<<d, t>>) = 2 /\ Len(<<e, u>>) = 2
      /\ <<d>>[1] = d /\ <<e>>[1] = e /\ <<d, t>>[1] = d /\ <<e, u>>[1] = e
      /\ <<d, t>>[2] = t /\ <<e, u>>[2] = u
  OBVIOUS
<1>2. CASE d = Anonymous /\ e = Anonymous
  BY <1>1, <1>2 DEF DeviceKey
<1>3. CASE d = Anonymous /\ e # Anonymous
  <2>1. <<d, t>> = <<e>>
    BY <1>3 DEF DeviceKey
  <2> QED BY <1>1, <2>1
<1>4. CASE d # Anonymous /\ e = Anonymous
  <2>1. <<d>> = <<e, u>>
    BY <1>4 DEF DeviceKey
  <2> QED BY <1>1, <2>1
<1>5. CASE d # Anonymous /\ e # Anonymous
  BY <1>1, <1>5 DEF DeviceKey
<1> QED BY <1>2, <1>3, <1>4, <1>5

LEMMA DeviceKeyFirst == ASSUME NEW d, NEW t PROVE DeviceKey(d, t)[1] = d
BY DEF DeviceKey

LEMMA LoginUpsertInv == ASSUME IInv, NEW p \in Slots, LoginUpsert(p) PROVE IInv'
<1>1. /\ Typed /\ IsRequest(req[p]) /\ Credentials(req[p]) /\ req[p].pc = "upsert" /\ req[p].dev \in Devices
      /\ req[p].guard = "open" /\ req[p].tag = 0 /\ req[p].status = None /\ ~ req[p].failed
      /\ UNCHANGED <<accounts, setupLock, bearers, expired, updatedAt, clients>>
  BY Here DEF LoginUpsert, At, Place, Beyond, Credentials
<1>2. CASE Failed(p, "500") /\ UNCHANGED <<minted, sessions>>
  <2>1. UNCHANGED <<database, updatedAt, clients>>
    BY <1>1, <1>2 DEF database
  <2> QED BY <1>1, <1>2, <2>1, Fails DEF Statuses
<1>3. ASSUME NEW t, t = Len(minted) + 1, t <= MaxTokens, minted' = Append(minted, req[p].dev),
             sessions' = Upsert(DeviceKey(req[p].dev, t), t),
             req' = [req EXCEPT ![p].pc = "loginsettings", ![p].got = t]
      PROVE  IInv'
  <2>a. PICK d : d = req[p].dev
    OBVIOUS
  <2>b. PICK key : key = DeviceKey(d, t)
    OBVIOUS
  <2>1. /\ Ever' = Ever \cup {t} /\ t \notin Ever /\ t # 0 /\ t \in Nat /\ Len(minted') = t
        /\ minted'[t] = d /\ (\A u \in Ever : minted'[u] = minted[u]) /\ Usable(t)'
        /\ \A u \in Ever : Usable(u)' <=> Usable(u) /\ (minted[u] = d => d = Anonymous)
    BY <1>1, <1>3, <2>a, Minting
  <2>2. Typed'
    <3>1. bearers' \subseteq Ever' /\ expired' \subseteq bearers'
      BY <1>1, <2>1 DEF Typed
    <3> QED BY <1>1, <1>3, <3>1, MintingTyped
  <2>3. /\ DOMAIN sessions' = DOMAIN sessions \cup {key}
        /\ \A k \in DOMAIN sessions : k # key => sessions'[k] = sessions[k]
        /\ sessions'[key] = [token |-> t, caps |-> IF key \in DOMAIN sessions THEN sessions[key].caps ELSE 0]
    BY <1>3, <2>a, <2>b DEF Upsert
  <2>4. Grown
    <3>1. Len(minted) <= Len(minted') /\ updatedAt <= updatedAt'
      BY <1>1, <1>3, <2>1, MintedIs DEF Numbered
    <3> QED BY <2>1, <2>3, <3>1 DEF Grown
  <2>5. ASSUME NEW k \in DOMAIN sessions', k # key
        PROVE  RowOk(k)'
    <3>1. k \in DOMAIN sessions /\ sessions'[k] = sessions[k] /\ RowOk(k)
      BY <2>3, <2>5 DEF IInv, RowsOk
    <3>a. PICK u : u = sessions[k].token
      OBVIOUS
    <3>2. u \in Ever /\ minted[u] \in Devices /\ k = DeviceKey(minted[u], u) /\ Usable(u)
      BY <3>1, <3>a DEF RowOk
    <3>3. minted[u] = d => d = Anonymous
      BY <2>5, <2>b, <3>2 DEF DeviceKey
    <3>4. Usable(u)'
      BY <2>1, <3>2, <3>3
    <3>5. sessions'[k].token = u /\ sessions'[k].caps = sessions[k].caps
      BY <3>1, <3>a
    <3>6. Usable(sessions[k].token)'
      BY <3>4, <3>5 DEF Usable, Newest
    <3> QED BY <2>1, <3>1, <3>2, <3>5, <3>6 DEF RowOk
  <2>6. RowOk(key)'
    <3>1. sessions'[key].token = t /\ sessions'[key].caps = IF key \in DOMAIN sessions THEN sessions[key].caps ELSE 0
      BY <2>3
    <3>2. sessions'[key] = [token |-> sessions'[key].token, caps |-> sessions'[key].caps]
      BY <2>3
    <3>3. sessions'[key].caps \in Ever' \cup {0} /\ (sessions'[key].caps # 0 => minted'[sessions'[key].caps] = key[1])
      <4>1. CASE key \in DOMAIN sessions
        <5>1. RowOk(key)
          BY <4>1 DEF IInv, RowsOk
        <5> QED BY <2>1, <3>1, <4>1, <5>1 DEF RowOk
      <4>2. CASE key \notin DOMAIN sessions
        BY <3>1, <4>2
      <4> QED BY <4>1, <4>2
    <3>4. key = DeviceKey(minted'[t], t) /\ minted'[t] \in Devices /\ t \in Ever'
      BY <1>1, <2>1, <2>a, <2>b
    <3>5. Usable(t)' /\ minted'[sessions'[key].token] = d
      BY <2>1, <3>1
    <3>6. Usable(sessions[key].token)'
      BY <3>1, <3>5 DEF Usable, Newest
    <3> QED BY <3>1, <3>2, <3>3, <3>4, <3>6 DEF RowOk
  <2>7. RowsOk'
    BY <2>3, <2>5, <2>6 DEF RowsOk
  <2>8. UsableHaveRows'
    <3> SUFFICES ASSUME NEW u \in Ever', minted'[u] \in Devices, Usable(u)' PROVE Rows(u)' # {}
      BY DEF UsableHaveRows
    <3>1. CASE u = t
      BY <2>3, <3>1 DEF Rows
    <3>2. CASE u # t
      <4>1. u \in Ever /\ Usable(u) /\ minted[u] \in Devices /\ (minted[u] = d => d = Anonymous)
        BY <2>1, <3>2
      <4>2. PICK k \in Rows(u) : TRUE
        BY <4>1 DEF IInv, UsableHaveRows
      <4>3. k \in DOMAIN sessions /\ sessions[k].token = u /\ k = DeviceKey(minted[u], u)
        BY <4>2 DEF IInv, RowsOk, RowOk, Rows
      <4>4. k # key
        BY <3>2, <2>b, <4>1, <4>3, KeysApart
      <4>5. k \in DOMAIN sessions' /\ sessions'[k].token = u
        BY <2>3, <4>3, <4>4
      <4> QED BY <4>5 DEF Rows
    <3> QED BY <3>1, <3>2
  <2>9. PICK r : r = [req[p] EXCEPT !.pc = "loginsettings", !.got = t]
    OBVIOUS
  <2>10. req' = [req EXCEPT ![p] = r]
    BY <1>3, <2>9
  <2>11. /\ IsRequest(r) /\ r.pc = "loginsettings" /\ r.got = t /\ r.dev = d /\ r.token = req[p].token
         /\ r.tag = 0 /\ r.guard = "open" /\ r.status = None /\ ~ r.failed
    BY <1>1, <2>9, <2>a DEF IsRequest
  <2>12. Credentials(r)'
    BY <1>1, <2>1, <2>11, <2>a DEF Credentials, Senders
  <2>13. Place(r)'
    BY <1>1, <2>1, <2>11, <2>a DEF Place, Doors, Served, Beyond, Native
  <2>14. ReqOk(r)' /\ r.status \notin {"201", "409"}
    BY <2>11, <2>12, <2>13, NoneIsNothing DEF ReqOk, Outcome, IsRequest
  <2> QED BY <1>1, <2>2, <2>4, <2>7, <2>8, <2>10, <2>11, <2>14, Tabled
<1> QED BY <1>2, <1>3 DEF LoginUpsert

LEMMA CapabilitiesInv == ASSUME IInv, NEW p \in Slots, Capabilities(p) PROVE IInv'
<1>1. /\ Typed /\ ReqOk(req[p]) /\ req[p].pc = "capabilities" /\ req[p].sid \in DOMAIN sessions
      /\ req[p].token \in Ever /\ minted[req[p].token] = req[p].sid[1]
      /\ UNCHANGED <<accounts, setupLock, bearers, expired, minted, updatedAt, clients>>
  BY Here DEF Capabilities, At, Place, Credentials
<1>2. CASE Failed(p, "500") /\ UNCHANGED sessions
  BY <1>1, <1>2, Fails DEF Statuses, database
<1>3. CASE (Reply(p, "500") \/ Reply(p, "400")) /\ UNCHANGED sessions
  BY <1>1, <1>3, Replies DEF Statuses, database
<1>4. CASE /\ sessions' = [k \in DOMAIN sessions |->
                             IF k \in CapabilitiesTarget(p)
                             THEN [sessions[k] EXCEPT !.caps = req[p].token] ELSE sessions[k]]
           /\ Reply(p, "204")
  <2>1. PICK s : s = req[p].sid
    OBVIOUS
  <2>2. PICK t : t = req[p].token
    OBVIOUS
  <2>3. /\ DOMAIN sessions' = DOMAIN sessions
        /\ \A k \in DOMAIN sessions : k # s => sessions'[k] = sessions[k]
        /\ sessions'[s] = [sessions[s] EXCEPT !.caps = t]
    BY <1>1, <1>4, <2>1, <2>2 DEF CapabilitiesTarget
  <2>4. Typed'
    BY <1>1 DEF Typed, Ever, Versions, clients
  <2>5. Grown
    BY <1>1, <2>3, MintedIs DEF Numbered, Grown
  <2>6. ASSUME NEW k \in DOMAIN sessions PROVE RowOk(k)'
    <3>1. RowOk(k)
      BY DEF IInv, RowsOk
    <3>2. CASE k # s
      BY <1>1, <2>3, <3>1, <3>2 DEF RowOk, Usable, Newest, Ever
    <3>3. CASE k = s
      <4>1. sessions'[k] = [token |-> sessions[k].token, caps |-> t]
        BY <2>3, <3>1, <3>3 DEF RowOk
      <4>2. t \in Ever /\ minted[t] = k[1]
        BY <1>1, <2>1, <2>2, <3>3
      <4> QED BY <1>1, <3>1, <4>1, <4>2 DEF RowOk, Usable, Newest, Ever
    <3> QED BY <3>2, <3>3
  <2>7. RowsOk'
    BY <2>3, <2>6 DEF RowsOk
  <2>8. UsableHaveRows'
    <3>1. \A k \in DOMAIN sessions : sessions'[k].token = sessions[k].token
      <4> SUFFICES ASSUME NEW k \in DOMAIN sessions PROVE sessions'[k].token = sessions[k].token
        OBVIOUS
      <4>1. RowOk(k)
        BY DEF IInv, RowsOk
      <4> QED BY <2>3, <4>1 DEF RowOk
    <3> QED BY <1>1, <2>3, <3>1 DEF IInv, UsableHaveRows, Rows, Usable, Newest, Ever
  <2>9. PICK r : r = Answered(p, "204", 0)
    OBVIOUS
  <2>10. LeftWith(p, "204", 0, r) /\ req' = [req EXCEPT ![p] = r]
    BY <1>4, <2>9 DEF LeftWith, Reply
  <2>11. ReqOk(r) /\ r.pc = "answer" /\ r.status = "204"
    <3>1. "204" \in Statuses /\ "204" # "401"
      BY DEF Statuses
    <3> QED BY <1>1, <2>10, <3>1, AnswerOk
  <2>12. ReqOk(r)'
    BY <1>1, <2>4, <2>5, <2>11, RequestLater
  <2> QED BY <1>1, <2>4, <2>5, <2>7, <2>8, <2>10, <2>11, <2>12, Tabled
<1> QED BY <1>2, <1>3, <1>4 DEF Capabilities

LEMMA NativeLoginInv == ASSUME IInv, NEW p \in Slots, NativeLogin(p) PROVE IInv'
<1>1. /\ Typed /\ req[p].pc = "nativelogin" /\ req[p].guard = None /\ req[p].dev = None
      /\ UNCHANGED <<accounts, setupLock, sessions, expired, updatedAt, clients>>
  BY Here DEF NativeLogin, At, Place, Native
<1>2. CASE Failed(p, "500") /\ UNCHANGED <<minted, bearers>>
  BY <1>1, <1>2, Fails DEF Statuses, database
<1>3. CASE (\E verdict \in Verdicts \ {"match"} : Reply(p, Denied(verdict))) /\ UNCHANGED <<minted, bearers>>
  <2>1. PICK verdict : Reply(p, Denied(verdict))
    BY <1>3
  <2>2. Denied(verdict) \in {"401", "500"}
    BY DEF Denied
  <2>3. Refusable(req[p])
    BY <1>1, NoneIsNothing DEF Refusable
  <2> QED BY <1>1, <1>3, <2>1, <2>2, <2>3, Replies DEF Statuses, database
<1>4. ASSUME NEW t, t = Len(minted) + 1, t <= MaxTokens, minted' = Append(minted, "native"),
             bearers' = bearers \cup {t}, Return(p, t)
      PROVE  IInv'
  <2>1. PICK w : w = "native"
    OBVIOUS
  <2>2. w \in Devices \cup {"native"} /\ w \notin Devices /\ minted' = Append(minted, w)
    BY <1>4, <2>1, Apart
  <2>3. /\ Ever' = Ever \cup {t} /\ t \notin Ever /\ t # 0 /\ Len(minted') = t
        /\ minted'[t] = w /\ (\A u \in Ever : minted'[u] = minted[u])
        /\ \A u \in Ever : Usable(u)' <=> Usable(u) /\ (minted[u] = w => w = Anonymous)
    BY <1>1, <1>4, <2>2, Minting
  <2>4. Typed'
    <3>1. bearers' \subseteq Ever' /\ expired' \subseteq bearers'
      BY <1>1, <1>4, <2>3 DEF Typed
    <3> QED BY <1>1, <1>4, <2>2, <3>1, MintingTyped
  <2>5. Grown
    <3>1. Len(minted) <= Len(minted') /\ updatedAt <= updatedAt'
      BY <1>1, <1>4, <2>3, MintedIs DEF Numbered
    <3> QED BY <1>1, <2>3, <3>1 DEF Grown
  <2>6. RowsOk'
    <3> SUFFICES ASSUME NEW k \in DOMAIN sessions PROVE RowOk(k)'
      BY <1>1 DEF RowsOk
    <3>1. RowOk(k)
      BY DEF IInv, RowsOk
    <3>2. PICK u : u = sessions[k].token
      OBVIOUS
    <3>3. u \in Ever /\ minted[u] # w /\ Usable(u)
      BY <2>2, <3>1, <3>2 DEF RowOk
    <3>4. Usable(u)'
      BY <2>3, <3>3
    <3>5. Usable(sessions[k].token)'
      BY <1>1, <3>2, <3>4 DEF Usable, Newest
    <3> QED BY <1>1, <2>3, <3>1, <3>5 DEF RowOk
  <2>7. UsableHaveRows'
    <3> SUFFICES ASSUME NEW u \in Ever', minted'[u] \in Devices, Usable(u)' PROVE Rows(u)' # {}
      BY DEF UsableHaveRows
    <3>1. u \in Ever /\ Usable(u) /\ minted[u] \in Devices
      BY <2>2, <2>3
    <3> QED BY <1>1, <3>1 DEF IInv, UsableHaveRows, Rows
  <2>8. PICK r : r = Answered(p, "200", t)
    OBVIOUS
  <2>9. LeftWith(p, "200", t, r) /\ req' = [req EXCEPT ![p] = r]
    BY <1>4, <2>8 DEF LeftWith, Return
  <2>10. /\ IsRequest(r) /\ r.pc = "answer" /\ r.status = "200" /\ r.got = t
         /\ r.dev = None /\ r.guard = None /\ r.token = 0 /\ r.tag = 0
    BY <1>1, <2>3, <2>9, AnsweredIs, AnsweredGives
  <2>11. Credentials(r)'
    BY <2>10 DEF Credentials, Senders
  <2>12. Place(r)'
    BY <2>10 DEF Place, Doors, Served, Beyond, Native
  <2>13. Outcome(r)'
    BY <2>3, <2>10, NoneIsNothing DEF Outcome, Statuses
  <2>14. ReqOk(r)'
    BY <2>10, <2>11, <2>12, <2>13 DEF ReqOk, IsRequest
  <2> QED BY <1>1, <2>4, <2>5, <2>6, <2>7, <2>9, <2>10, <2>14, Tabled
<1> QED BY <1>2, <1>3, <1>4 DEF NativeLogin

(* The setup transaction, from the lock to its end.                        *)
LEMMA SetupStep ==
  ASSUME IInv, NEW p \in Slots, NEW r, req' = [req EXCEPT ![p] = r], ReqOk(r),
         UNCHANGED <<sessions, bearers, expired, minted, updatedAt, clients>>,
         accounts' \subseteq Names, accounts' # {} => \E n \in Names : accounts' = {n},
         accounts \subseteq accounts',
         setupLock' \in {setupLock, p, "free"}, setupLock' = setupLock \/ setupLock \in {p, "free"},
         r.pc \in {"count", "create"} <=> setupLock' = p,
         r.pc = "create" => accounts' = {},
         accounts' = accounts \/ setupLock = p,
         r.status \in {"201", "409"} => accounts' # {}
  PROVE  IInv'
<1>1. Typed /\ SetupInv
  BY DEF IInv
<1>2. Typed'
  BY <1>1 DEF Typed, Ever, Versions, clients
<1>3. Grown
  BY <1>1, MintedIs DEF Numbered, Grown
<1>4. RowsOk' /\ UsableHaveRows'
  BY DEF IInv, RowsOk, RowOk, UsableHaveRows, Usable, Newest, Rows, Ever
<1>5. Requests'
  <2>1. ReqOk(r)'
    BY <1>1, <1>2, <1>3, RequestLater
  <2> QED BY <1>2, <1>3, <2>1, RequestsStep
<1>6. SetupInv'
  <2>1. \A q \in Slots : req'[q] = IF q = p THEN r ELSE req[q]
    BY DEF IInv, Requests
  <2>2. \A q \in Slots : q # p => (req[q].pc \in {"count", "create"} <=> setupLock' = q)
    BY <1>1, Apart DEF SetupInv
  <2>3. \A q \in Slots : q # p /\ req[q].pc = "create" => accounts' = {}
    BY <1>1 DEF SetupInv
  <2>4. \A q \in Slots : req[q].status \in {"201", "409"} => accounts' # {}
    BY <1>1 DEF SetupInv
  <2>5. \A q \in Slots : req'[q].pc \in {"count", "create"} <=> setupLock' = q
    BY <2>1, <2>2
  <2>6. \A q \in Slots : req'[q].pc = "create" => accounts' = {}
    BY <2>1, <2>3
  <2>7. \A q \in Slots : req'[q].status \in {"201", "409"} => accounts' # {}
    BY <2>1, <2>4
  <2> QED BY <2>5, <2>6, <2>7 DEF SetupInv
<1> QED BY <1>2, <1>4, <1>5, <1>6 DEF IInv

(* Where a setup is, and that it holds the lock from its count on.         *)
LEMMA SetupHere ==
  ASSUME IInv, NEW p \in Slots, req[p].pc \in {"setup", "count", "create"}
  PROVE  /\ Typed /\ IsRequest(req[p]) /\ Credentials(req[p]) /\ req[p].raw \in Names
         /\ req[p].guard = None /\ req[p].dev = None /\ req[p].tag = 0 /\ req[p].got = 0
         /\ req[p].status = None /\ ~ req[p].failed /\ p # "free"
         /\ req[p].pc \in {"count", "create"} <=> setupLock = p
         /\ req[p].pc = "create" => accounts = {}
<1>1. req[p].guard = None /\ req[p].dev = None /\ req[p].raw \in Names
  BY Here DEF Place, Native
<1>2. req[p].tag = 0 /\ req[p].got = 0 /\ req[p].status = None /\ ~ req[p].failed
  BY Here DEF Place, Credentials
<1> QED BY <1>1, <1>2, Here, Apart DEF IInv, SetupInv

LEMMA SetupGoes ==
  ASSUME IInv, NEW p \in Slots, req[p].pc \in {"setup", "count"}, NEW pc \in {"count", "create"},
         NEW r, r = [req[p] EXCEPT !.pc = pc]
  PROVE  ReqOk(r) /\ r.pc = pc /\ r.status = None
<1>0. /\ IsRequest(req[p]) /\ Credentials(req[p]) /\ req[p].raw \in Names
      /\ req[p].guard = None /\ req[p].dev = None /\ req[p].tag = 0 /\ req[p].got = 0
      /\ req[p].status = None /\ ~ req[p].failed
  BY SetupHere
<1>1. /\ IsRequest(r) /\ r.pc = pc /\ r.raw \in Names /\ r.guard = None /\ r.dev = None /\ r.tag = 0
      /\ r.got = 0 /\ r.status = None /\ ~ r.failed /\ r.token = req[p].token
  BY <1>0 DEF IsRequest
<1>2. Credentials(r)
  BY <1>0, <1>1 DEF Credentials, Senders
<1>3. Place(r)
  BY <1>1 DEF Place, Doors, Served, Beyond, Native
<1> QED BY <1>1, <1>2, <1>3 DEF ReqOk, Outcome

LEMMA SetupAnswers ==
  ASSUME IInv, NEW p \in Slots, NEW code \in Statuses \ {"401"},
         NEW r, LeftWith(p, code, 0, r)
  PROVE  ReqOk(r) /\ r.pc = "answer" /\ r.status = code
BY Here, AnswerOk

LEMMA SetupBeginInv == ASSUME IInv, NEW p \in Slots, SetupBegin(p) PROVE IInv'
<1>1. /\ req[p].pc = "setup"
      /\ UNCHANGED <<accounts, sessions, bearers, expired, minted, updatedAt, clients>>
  BY DEF SetupBegin, At
<1>2. CASE Reply(p, "400") /\ UNCHANGED setupLock
  BY <1>1, <1>2, Replies DEF Statuses, database
<1>3. CASE Failed(p, "500") /\ UNCHANGED setupLock
  BY <1>1, <1>3, Fails DEF Statuses, database
<1>4. CASE SetupLock(p) /\ Goto(p, "count")
  <2>1. setupLock = "free" /\ setupLock' = p
    BY <1>4 DEF SetupLock
  <2>2. PICK r : r = [req[p] EXCEPT !.pc = "count"]
    OBVIOUS
  <2>3. req' = [req EXCEPT ![p] = r]
    BY <1>4, <2>2 DEF Goto
  <2>4. ReqOk(r) /\ r.pc = "count" /\ r.status = None
    BY <1>1, <2>2, SetupGoes
  <2>5. accounts' \subseteq Names /\ (accounts' # {} => \E n \in Names : accounts' = {n})
    BY <1>1 DEF IInv, Typed
  <2> QED BY <1>1, <2>1, <2>3, <2>4, <2>5, NoneIsNothing, SetupStep
<1> QED BY <1>2, <1>3, <1>4 DEF SetupBegin

LEMMA SetupCountInv == ASSUME IInv, NEW p \in Slots, SetupCount(p) PROVE IInv'
<1>1. /\ req[p].pc = "count" /\ setupLock = p /\ p # "free"
      /\ UNCHANGED <<accounts, sessions, bearers, expired, minted, updatedAt, clients>>
      /\ accounts' \subseteq Names /\ (accounts' # {} => \E n \in Names : accounts' = {n})
  BY SetupHere DEF SetupCount, At, Typed
<1>2. CASE accounts = {} /\ Goto(p, "create") /\ UNCHANGED setupLock
  <2>1. PICK r : r = [req[p] EXCEPT !.pc = "create"]
    OBVIOUS
  <2>2. req' = [req EXCEPT ![p] = r]
    BY <1>2, <2>1 DEF Goto
  <2>3. ReqOk(r) /\ r.pc = "create" /\ r.status = None
    BY <1>1, <2>1, SetupGoes
  <2> QED BY <1>1, <1>2, <2>2, <2>3, NoneIsNothing, SetupStep
<1>3. CASE accounts # {} /\ Reply(p, "409") /\ Unlock(p)
  <2>1. setupLock' = "free"
    BY <1>1, <1>3 DEF Unlock
  <2>2. PICK r : r = Answered(p, "409", 0)
    OBVIOUS
  <2>3. req' = [req EXCEPT ![p] = r] /\ LeftWith(p, "409", 0, r)
    BY <1>3, <2>2 DEF Reply, LeftWith
  <2>4. ReqOk(r) /\ r.pc = "answer"
    BY <2>3, SetupAnswers DEF Statuses
  <2> QED BY <1>1, <1>3, <2>1, <2>3, <2>4, SetupStep
<1>4. CASE Failed(p, "500") /\ Unlock(p)
  <2>1. setupLock' = "free"
    BY <1>1, <1>4 DEF Unlock
  <2>2. PICK r : r = [Answered(p, "500", 0) EXCEPT !.failed = TRUE]
    OBVIOUS
  <2>3. req' = [req EXCEPT ![p] = r] /\ LeftWith(p, "500", 0, r)
    BY <1>4, <2>2 DEF Failed, LeftWith
  <2>4. ReqOk(r) /\ r.pc = "answer" /\ r.status = "500"
    BY <2>3, SetupAnswers DEF Statuses
  <2> QED BY <1>1, <2>1, <2>3, <2>4, SetupStep
<1> QED BY <1>2, <1>3, <1>4 DEF SetupCount

LEMMA SetupCommitInv == ASSUME IInv, NEW p \in Slots, SetupCommit(p) PROVE IInv'
<1>1. /\ setupLock = p /\ p # "free" /\ accounts = {} /\ req[p].raw \in Names
      /\ UNCHANGED <<sessions, bearers, expired, minted, updatedAt, clients>>
      /\ setupLock' = "free"
  BY SetupHere DEF SetupCommit, At, Unlock
<1>2. accounts' = {req[p].raw} \/ accounts' = {}
  BY <1>1 DEF SetupCommit
<1>3. accounts' \subseteq Names /\ (accounts' # {} => \E n \in Names : accounts' = {n})
  BY <1>1, <1>2
<1>4. CASE Reply(p, "201") /\ accounts' = {req[p].raw}
  <2>1. PICK r : r = Answered(p, "201", 0)
    OBVIOUS
  <2>2. req' = [req EXCEPT ![p] = r] /\ LeftWith(p, "201", 0, r)
    BY <1>4, <2>1 DEF Reply, LeftWith
  <2>3. ReqOk(r) /\ r.pc = "answer"
    BY <2>2, SetupAnswers DEF Statuses
  <2> QED BY <1>1, <1>3, <1>4, <2>2, <2>3, SetupStep
<1>5. CASE Failed(p, "500")
  <2>1. PICK r : r = [Answered(p, "500", 0) EXCEPT !.failed = TRUE]
    OBVIOUS
  <2>2. req' = [req EXCEPT ![p] = r] /\ LeftWith(p, "500", 0, r)
    BY <1>5, <2>1 DEF Failed, LeftWith
  <2>3. ReqOk(r) /\ r.pc = "answer" /\ r.status = "500"
    BY <2>2, SetupAnswers DEF Statuses
  <2> QED BY <1>1, <1>3, <2>2, <2>3, SetupStep
<1> QED BY <1>1, <1>4, <1>5 DEF SetupCommit

----------------------------------------------------------------------------
(* The theorems.                                                           *)

LEMMA StutterInv == ASSUME IInv, UNCHANGED vars PROVE IInv'
<1>1. UNCHANGED <<accounts, setupLock, sessions, bearers, expired, minted, updatedAt, held, bearer, tag, req>>
  BY DEF vars
<1>2. Typed'
  BY <1>1 DEF IInv, Typed, Ever, Versions
<1>3. Grown
  BY <1>1, MintedIs DEF IInv, Numbered, Grown
<1>4. RowsOk' /\ UsableHaveRows'
  BY <1>1 DEF IInv, RowsOk, RowOk, UsableHaveRows, Usable, Newest, Rows, Ever
<1> QED BY <1>1, <1>2, <1>3, <1>4, RequestsStay DEF IInv

LEMMA HandlerInv == ASSUME IInv, NEW p \in Slots, Handler(p) PROVE IInv'
BY DispatchInv, AuthenticateInv, AuthenticateFailsInv, ServeInv, QuickConnectInv, ServerSettingsInv,
   LoginVerifyInv, LoginUpsertInv, LoginSettingsInv, CapabilitiesInv, PlaybackInfoInv,
   StreamLocateInv, StreamTokenInv, StreamOpenInv, SetupBeginInv, SetupCountInv, SetupCommitInv,
   NativeLoginInv, BearerInv, ReceiveInv DEF Handler

LEMMA StepInv == IInv /\ [Next]_vars => IInv'
<1> SUFFICES ASSUME IInv, [Next]_vars PROVE IInv'
  OBVIOUS
<1>1. CASE UNCHANGED vars
  BY <1>1, StutterInv
<1>2. ASSUME NEW p \in Slots, Handler(p) PROVE IInv'
  BY <1>2, HandlerInv
<1>3. ASSUME NEW p \in Slots, NativeSend(p) PROVE IInv'
  BY <1>3, NativeSendInv
<1>4. ASSUME NEW p \in Slots, NEW d \in Devices, Send(p, d) PROVE IInv'
  BY <1>4, SendInv
<1>5. CASE Rescan
  BY <1>5, RescanInv
<1>6. CASE Expire
  BY <1>6, ExpireInv
<1> QED BY <1>1, <1>2, <1>3, <1>4, <1>5, <1>6 DEF Next

(* The inductive invariant holds of every reachable state.                 *)
THEOREM Invariant == Spec => []IInv
BY InitInv, StepInv, PTL DEF Spec

LEMMA TypeOKFrom == IInv => TypeOK
<1> SUFFICES ASSUME IInv PROVE TypeOK
  OBVIOUS
<1>1. Typed /\ Len(minted) \in Nat /\ MaxTokens \in Nat /\ Len(minted) <= MaxTokens
      /\ minted \in Seq(Devices \cup {"native"})
  BY MintedIs, Bounds DEF IInv, Typed, Numbered
<1>2. Ever \subseteq Tokens /\ Ever \cup {0} \subseteq 0..MaxTokens
  BY <1>1 DEF Ever, Tokens
<1>3. Versions \cup {0} \subseteq 0..MaxUpdates /\ updatedAt \in 1..MaxUpdates
  BY Bounds DEF IInv, Typed, Versions
<1>4. minted \in BoundedSeq(Devices \cup {"native"}, MaxTokens)
  <2>1. minted \in [1..Len(minted) -> Devices \cup {"native"}] /\ Len(minted) \in 0..MaxTokens
    BY <1>1, LenProperties
  <2>2. PICK n : n = Len(minted)
    OBVIOUS
  <2>3. [1..n -> Devices \cup {"native"}] \in {[1..m -> Devices \cup {"native"}] : m \in 0..MaxTokens}
    BY <2>1, <2>2
  <2> QED BY <2>1, <2>2, <2>3, Zenon DEF BoundedSeq, SeqOf
<1>5. \A k \in DOMAIN sessions : sessions[k].token \in Tokens /\ sessions[k].caps \in 0..MaxTokens
  BY <1>2 DEF IInv, RowsOk, RowOk
<1>6. \A p \in Slots : req[p].status \in Statuses /\ req[p].token \in 0..MaxTokens
  <2> SUFFICES ASSUME NEW p \in Slots PROVE req[p].status \in Statuses /\ req[p].token \in 0..MaxTokens
    OBVIOUS
  <2>1. ReqOk(req[p])
    BY Here
  <2> QED BY <1>2, <2>1 DEF ReqOk, Place, Outcome, Statuses, Credentials
<1>7. accounts \subseteq Names /\ setupLock \in Slots \cup {"free"} /\ expired \subseteq bearers
  BY <1>1 DEF Typed
<1>8. bearers \subseteq Tokens /\ bearer \in 0..MaxTokens
  BY <1>1, <1>2 DEF Typed
<1>9. held \in [Devices -> 0..MaxTokens] /\ tag \in [Devices -> 0..MaxUpdates]
  BY <1>1, <1>2, <1>3 DEF Typed
<1> QED BY <1>3, <1>4, <1>5, <1>6, <1>7, <1>8, <1>9 DEF TypeOK

(* Type correctness.                                                       *)
THEOREM AccessTypeOK == Spec => []TypeOK
BY Invariant, TypeOKFrom, PTL

LEMMA SetupOnceFrom == IInv => SetupOnce
<1> SUFFICES ASSUME IInv PROVE SetupOnce
  OBVIOUS
<1>1. Cardinality(accounts) <= 1
  <2>1. CASE accounts = {}
    BY <2>1, FS_EmptySet
  <2>2. CASE accounts # {}
    <3>1. PICK n : accounts = {n}
      BY <2>2 DEF IInv, Typed
    <3> QED BY <3>1, FS_Singleton
  <2> QED BY <2>1, <2>2
<1>2. setupLock # "free" => At(setupLock, "count") \/ At(setupLock, "create")
  BY DEF IInv, Typed, SetupInv, At
<1>3. \A p \in Slots : req[p].status \in {"201", "409"} => accounts # {}
  BY DEF IInv, SetupInv
<1> QED BY <1>1, <1>2, <1>3 DEF SetupOnce

(* However many setups race, fail or lose their answer, one account is     *)
(* created, the answers tell the truth, and the lock is not left behind.   *)
THEOREM OneAdministrator == Spec => []SetupOnce
BY Invariant, SetupOnceFrom, PTL

LEMMA CapabilitiesFrom == IInv => CapabilitiesOfDevice
BY Here DEF IInv, RowsOk, RowOk, CapabilitiesOfDevice, Place, At

(* A report of capabilities lands in the session of the device that made   *)
(* it, and finds it.                                                       *)
THEOREM ReportsLandAtHome == Spec => []CapabilitiesOfDevice
BY Invariant, CapabilitiesFrom, PTL

LEMMA LiveFrom == IInv => LiveCredentialAccepted
<1> SUFFICES ASSUME IInv, NEW p \in Slots, TurnedAway(p)
             PROVE  /\ req[p].guard \in {"token", "user"} /\ req[p].token # 0 => ~ Usable(req[p].token)
                    /\ req[p].guard = "open" /\ req[p].tag # 0 => req[p].tag < updatedAt
  BY DEF LiveCredentialAccepted
<1>1. Outcome(req[p])
  BY Here DEF ReqOk
<1> QED BY <1>1 DEF TurnedAway, At, Outcome, Past

(* A token nobody replaced, and a tag of the film as it is, are turned     *)
(* away only when a statement fails.                                       *)
THEOREM LiveAccepted == Spec => []LiveCredentialAccepted
BY Invariant, LiveFrom, PTL

(* A step of one request leaves the others where they are.                 *)
LEMMA OthersStay ==
  ASSUME NEW q, NEW p, p # q, Requests, p \in Slots,
         Handler(q) \/ NativeSend(q) \/ \E d \in Devices : Send(q, d)
  PROVE  req'[p] = req[p]
<1> USE DEF Requests, Reply, Failed, Return, Goto
<1>1. CASE \E d \in Devices : Send(q, d)
  BY <1>1 DEF Send
<1>2. CASE NativeSend(q)
  BY <1>2 DEF NativeSend
<1>3. CASE Dispatch(q) \/ Authenticate(q) \/ AuthenticateFails(q)
  BY <1>3 DEF Dispatch, Authenticate, AuthenticateFails
<1>4. CASE Serve(q) \/ QuickConnectInitiate(q) \/ ServerSettings(q)
  BY <1>4 DEF Serve, QuickConnectInitiate, ServerSettings
<1>5. CASE LoginVerify(q) \/ LoginUpsert(q) \/ LoginSettings(q)
  BY <1>5 DEF LoginVerify, LoginUpsert, LoginSettings
<1>6. CASE Capabilities(q) \/ PlaybackInfo(q)
  BY <1>6 DEF Capabilities, PlaybackInfo
<1>7. CASE StreamLocate(q) \/ StreamToken(q) \/ StreamOpen(q)
  BY <1>7 DEF StreamLocate, StreamToken, StreamOpen
<1>8. CASE SetupBegin(q) \/ SetupCount(q) \/ SetupCommit(q)
  BY <1>8 DEF SetupBegin, SetupCount, SetupCommit
<1>9. CASE NativeLogin(q) \/ Bearer(q) \/ Receive(q)
  BY <1>9 DEF NativeLogin, Bearer, Receive
<1> QED BY <1>1, <1>2, <1>3, <1>4, <1>5, <1>6, <1>7, <1>8, <1>9 DEF Handler

LEMMA EntersAlive ==
  IInv /\ [Next]_vars =>
    [\A p \in Slots :
       /\ At(p, "auth") /\ req'[p].sid # <<>> => Usable(req[p].token)
       /\ At(p, "me") /\ req'[p].status = "200" => req[p].token \in bearers \ expired]_vars
<1> SUFFICES ASSUME IInv, Next, NEW p \in Slots
             PROVE  /\ At(p, "auth") /\ req'[p].sid # <<>> => Usable(req[p].token)
                    /\ At(p, "me") /\ req'[p].status = "200" => req[p].token \in bearers \ expired
  OBVIOUS
<1>1. /\ At(p, "auth") => req[p].sid = <<>>
      /\ At(p, "me") => req[p].status # "200"
      /\ IsRequest(req[p])
  BY Here, NoneIsNothing DEF Place, At
<1>2. CASE req'[p] = req[p]
  BY <1>1, <1>2
<1>3. CASE Rescan \/ Expire
  BY <1>2, <1>3 DEF Rescan, Expire
<1>4. CASE NativeSend(p) \/ \E d \in Devices : Send(p, d)
  BY <1>4 DEF NativeSend, Send, At
<1>5. ASSUME Handler(p), At(p, "auth") PROVE req'[p].sid # <<>> => Usable(req[p].token)
  <2>1. Authenticate(p) \/ AuthenticateFails(p)
    BY <1>5 DEF Handler, At, Dispatch, Serve, QuickConnectInitiate, ServerSettings, LoginVerify,
                LoginUpsert, LoginSettings, Capabilities, PlaybackInfo, StreamLocate, StreamToken,
                StreamOpen, SetupBegin, SetupCount, SetupCommit, NativeLogin, Bearer, Receive
  <2>2. CASE Rows(req[p].token) # {}
    BY <2>2, RowsOfToken
  <2>3. CASE \E code : Reply(p, code) \/ Failed(p, code)
    <3>1. PICK code : Reply(p, code) \/ Failed(p, code)
      BY <2>3
    <3>2. PICK r : r = req'[p]
      OBVIOUS
    <3>3. LeftWith(p, code, 0, r)
      BY <3>1, <3>2 DEF IInv, Requests, Reply, Failed, LeftWith
    <3>4. r.sid = <<>>
      BY <3>3 DEF LeftWith, Answered, Idle
    <3> QED BY <3>2, <3>4
  <2> QED BY <2>1, <2>2, <2>3 DEF Authenticate, AuthenticateFails
<1>6. ASSUME Handler(p), At(p, "me") PROVE req'[p].status = "200" => req[p].token \in bearers \ expired
  <2>1. Bearer(p)
    BY <1>6 DEF Handler, At, Dispatch, Serve, QuickConnectInitiate, ServerSettings, LoginVerify,
                LoginUpsert, LoginSettings, Capabilities, PlaybackInfo, StreamLocate, StreamToken,
                StreamOpen, SetupBegin, SetupCount, SetupCommit, NativeLogin, Bearer, Receive,
                Authenticate, AuthenticateFails
  <2>2. CASE Accepts(req[p].token)
    BY <2>2 DEF Accepts
  <2>3. CASE ~ Accepts(req[p].token)
    <3>1. PICK code \in {"401", "500"} : Reply(p, code) \/ Failed(p, code)
      BY <2>1, <2>3 DEF Bearer
    <3>2. PICK r : r = req'[p]
      OBVIOUS
    <3>3. LeftWith(p, code, 0, r)
      BY <3>1, <3>2 DEF IInv, Requests, Reply, Failed, LeftWith
    <3>4. r.status = code
      BY <3>3, AnsweredIs
    <3> QED BY <3>1, <3>2, <3>4
  <2> QED BY <2>2, <2>3
<1>7. CASE \E q \in Slots : q # p /\ (Handler(q) \/ NativeSend(q) \/ \E d \in Devices : Send(q, d))
  BY <1>2, <1>7, OthersStay DEF IInv
<1> QED BY <1>3, <1>4, <1>5, <1>6, <1>7 DEF Next, At

(* Whatever is in flight, no handler is entered with the token of a        *)
(* session that was replaced, nor a native one past its expiry.            *)
THEOREM NoDeadToken == Spec => DeadTokenNeverEnters
BY Invariant, EntersAlive, PTL DEF Spec, DeadTokenNeverEnters

LEMMA RoutesAsSpelled ==
  IInv /\ [Next]_vars =>
    [\A p \in Slots :
       At(p, "arrived") /\ Mounted[req[p].raw] = "compat" /\ ~ At(p, "arrived")' =>
         LET hits == Hits[req[p].raw]
         IN  IF hits = {} THEN req'[p].status \in {"404", "405"}
             ELSE \E r \in hits :
                    /\ \A other \in hits : Literals(other.pattern) \subseteq Literals(r.pattern)
                    /\ req'[p].guard = r.guard
                    /\ r.handler \in {req'[p].pc, req'[p].raw}
                    /\ DOMAIN req'[p].values = {r.pattern[i] : i \in DOMAIN r.pattern \ Literals(r.pattern)}]_vars
<1> DEFINE Led(p, hits) ==
             IF hits = {} THEN req'[p].status \in {"404", "405"}
             ELSE \E r \in hits :
                    /\ \A other \in hits : Literals(other.pattern) \subseteq Literals(r.pattern)
                    /\ req'[p].guard = r.guard
                    /\ r.handler \in {req'[p].pc, req'[p].raw}
                    /\ DOMAIN req'[p].values = {r.pattern[i] : i \in DOMAIN r.pattern \ Literals(r.pattern)}
<1> SUFFICES ASSUME IInv, Next, NEW p \in Slots, req[p].pc = "arrived", req'[p].pc # "arrived",
                    Mounted[req[p].raw] = "compat"
             PROVE  Led(p, Hits[req[p].raw])
  BY DEF At
<1> DEFINE sent == req[p].raw
           hit  == Way[sent]
<1>1. IsRequest(req[p]) /\ sent \in Sent /\ DOMAIN req = Slots
  BY Here DEF Place, IInv, Requests
<1>2. Dispatch(p)
  <2>1. CASE Rescan \/ Expire
    BY <2>1 DEF Rescan, Expire
  <2>2. CASE NativeSend(p) \/ \E d \in Devices : Send(p, d)
    BY <2>2 DEF NativeSend, Send, At
  <2>3. CASE \E q \in Slots : q # p /\ (Handler(q) \/ NativeSend(q) \/ \E d \in Devices : Send(q, d))
    BY <2>3, OthersStay DEF IInv
  <2>4. CASE Handler(p)
    BY <2>4 DEF Handler, At, Serve, QuickConnectInitiate, ServerSettings, LoginVerify,
                LoginUpsert, LoginSettings, Capabilities, PlaybackInfo, StreamLocate, StreamToken,
                StreamOpen, SetupBegin, SetupCount, SetupCommit, NativeLogin, Bearer, Receive,
                Authenticate, AuthenticateFails
  <2> QED BY <2>1, <2>2, <2>3, <2>4 DEF Next
<1>3. sent.path.segs \in Seq(Segments)
  BY <1>1, AccessAssumption DEF Sent
<1>4. hit = Reached(sent.method, sent.path) /\ Hits[sent] = Candidates(sent)
  BY <1>1 DEF Way, Hits
<1> HIDE DEF sent, hit
<1>5. IF Candidates(sent) = {} THEN hit.status \in {"404", "405"}
      ELSE /\ hit.status = "handler"
           /\ \E r \in Candidates(sent) :
                /\ \A other \in Candidates(sent) : Literals(other.pattern) \subseteq Literals(r.pattern)
                /\ hit.guard = r.guard /\ hit.handler = r.handler
                /\ DOMAIN hit.values = {r.pattern[i] : i \in DOMAIN r.pattern \ Literals(r.pattern)}
  BY <1>3, <1>4, ReachedAsSpelled
<1>6. /\ hit.status # "handler" => Reply(p, hit.status)
      /\ hit.status = "handler" =>
           req' = [req EXCEPT ![p].pc = IF hit.guard = "open" THEN hit.handler ELSE "auth",
                              ![p].guard = hit.guard, ![p].values = hit.values,
                              ![p].raw = IF hit.guard = "open" THEN <<>> ELSE hit.handler]
  BY <1>2 DEF Dispatch, sent, hit
<1>7. CASE Candidates(sent) = {}
  <2>1. hit.status \in {"404", "405"} /\ Reply(p, hit.status)
    BY <1>5, <1>6, <1>7
  <2>2. req'[p].status = hit.status
    <3>1. req'[p] = Answered(p, hit.status, 0)
      BY <1>1, <2>1 DEF Reply
    <3> QED BY <2>1, <3>1 DEF Answered, Idle
  <2> QED BY <1>4, <1>7, <2>1, <2>2 DEF sent
<1>8. CASE Candidates(sent) # {}
  <2>1. PICK r \in Candidates(sent) :
          /\ \A other \in Candidates(sent) : Literals(other.pattern) \subseteq Literals(r.pattern)
          /\ hit.guard = r.guard /\ hit.handler = r.handler
          /\ DOMAIN hit.values = {r.pattern[i] : i \in DOMAIN r.pattern \ Literals(r.pattern)}
    BY <1>5, <1>8
  <2>2. /\ req'[p].guard = hit.guard /\ req'[p].values = hit.values
        /\ hit.handler \in {req'[p].pc, req'[p].raw}
    <3>1. req'[p] = [req[p] EXCEPT !.pc = IF hit.guard = "open" THEN hit.handler ELSE "auth",
                                   !.guard = hit.guard, !.values = hit.values,
                                   !.raw = IF hit.guard = "open" THEN <<>> ELSE hit.handler]
      BY <1>1, <1>5, <1>6, <1>8
    <3>2. /\ req'[p].guard = hit.guard /\ req'[p].values = hit.values
          /\ req'[p].pc = IF hit.guard = "open" THEN hit.handler ELSE "auth"
          /\ req'[p].raw = IF hit.guard = "open" THEN <<>> ELSE hit.handler
      BY <1>1, <3>1 DEF IsRequest
    <3> QED BY <3>2
  <2> QED BY <1>4, <1>8, <2>1, <2>2 DEF sent
<1> QED BY <1>7, <1>8

(* Routing neither loses a request nor invents one: from the mount the     *)
(* handler is entered that the most specific route spelled stands for,     *)
(* through its guard and with its variables, and what spells no route is   *)
(* answered 404 or 405.                                                    *)
THEOREM RoutingAsSpelled == Spec => RoutedAsSpelled
BY Invariant, RoutesAsSpelled, PTL DEF Spec, RoutedAsSpelled
=============================================================================
