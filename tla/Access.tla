------------------------------- MODULE Access -------------------------------
(***************************************************************************)
(* Who may do what: the first administrator (service/auth.go), the native  *)
(* bearer tokens (auth.go, repository/token.go, api/v1/middleware.go), the *)
(* Jellyfin sessions (service/session.go, repository/session.go,           *)
(* compat/jellyfin/handlers.go, api.go, authheader.go) and the capability  *)
(* tag a player streams with (compat/jellyfin/playback.go), for requests   *)
(* in flight at the same time.  Each database statement is a step, and any *)
(* of them may fail.  What a path reaches is module Routing.               *)
(*                                                                         *)
(* Tokens are numbered in the order they are minted; 0 is no token.  A     *)
(* token is minted in the step that stores it: until then nobody but the   *)
(* handler has it.  The modification time of the one film is a number, and *)
(* its capability tag is that number.                                      *)
(***************************************************************************)
EXTENDS Routing

CONSTANTS Slots,        \* requests in flight at the same time
          Devices,      \* the client applications, one of which names no device
          Anonymous,    \* the device that sends no DeviceId
          Names,        \* user names sent to the setup endpoint
          RawRequests,  \* device -> the [method, path] it sends
          MaxTokens,    \* bound on the tokens minted
          MaxUpdates    \* bound on the modification times of the film

None == ""  \* no device, no guard, no status yet

ASSUME AccessAssumption ==
  /\ Anonymous \in Devices /\ MaxTokens \in Nat /\ MaxUpdates \in Nat /\ MaxUpdates >= 1
  /\ Devices \cap {None, "native"} = {} /\ "free" \notin Slots
  /\ \A d \in Devices : \A sent \in RawRequests[d] : sent.path.segs \in Seq(Segments)

VARIABLES accounts,   \* the users table: the committed administrators
          setupLock,  \* holder of the advisory transaction lock, or "free"
          sessions,   \* the sessions table: device key -> row
          bearers,    \* the api_tokens table: native tokens, the expired ones included
          expired,    \* those whose expires_at has passed
          minted,     \* [1..n -> device or "native"]: for whom each token was minted
          updatedAt,  \* modification time of the film
          held,       \* device -> token its last answered login returned
          bearer,     \* the native token the operator holds
          tag,        \* device -> capability tag of its last PlaybackInfo
          req         \* slot -> the request and how far its handler is

vars == <<accounts, setupLock, sessions, bearers, expired, minted, updatedAt, held, bearer,
          tag, req>>

database == <<accounts, setupLock, sessions, bearers, expired, minted>>
clients  == <<held, bearer, tag>>

Me == "U1"     \* the account's id in paths
Film == "F1"   \* the film's id in paths

Idle == [pc |-> "idle", dev |-> None, raw |-> <<>>, token |-> 0, tag |-> 0,
         guard |-> None, values |-> <<>>, sid |-> <<>>, got |-> 0, status |-> None, failed |-> FALSE]

Init ==
  /\ accounts = {} /\ setupLock = "free" /\ sessions = <<>> /\ minted = <<>>
  /\ bearers = {} /\ expired = {}
  /\ updatedAt = 1
  /\ held = [d \in Devices |-> 0] /\ bearer = 0 /\ tag = [d \in Devices |-> 0]
  /\ req = [p \in Slots |-> Idle]

At(p, pc) == req[p].pc = pc

Goto(p, pc) == req' = [req EXCEPT ![p].pc = pc]

(* The handler is done: what its answer hands out, and what it refused. *)
Answered(p, status, got) ==
  IF got # 0 THEN [Idle EXCEPT !.pc = "answer", !.dev = req[p].dev, !.guard = req[p].guard,
                               !.status = status, !.got = got]
  ELSE IF status # "401" THEN [Idle EXCEPT !.pc = "answer", !.status = status]
  ELSE [Idle EXCEPT !.pc = "answer", !.status = status, !.guard = req[p].guard,
                    !.token = req[p].token, !.tag = req[p].tag]

Reply(p, status)  == req' = [req EXCEPT ![p] = Answered(p, status, 0)]
Return(p, got)    == req' = [req EXCEPT ![p] = Answered(p, "200", got)]
Failed(p, status) == req' = [req EXCEPT ![p] = [Answered(p, status, 0) EXCEPT !.failed = TRUE]]

----------------------------------------------------------------------------
(* Headers and the routing.                                                *)

(* ParseAuthorization: the standard header unless it parses to nothing,    *)
(* then Emby's; the token header over both.                                *)
ParseAuthorization(h) ==
  LET auth == IF h.authorization.scheme = "MediaBrowser" THEN h.authorization
              ELSE h.emby
  IN  IF h.token # 0 THEN h.token ELSE auth.token

NoAuth == [scheme |-> None, token |-> 0]

(* The ways clients spell a credential. *)
Headers(t) ==
  { [authorization |-> [scheme |-> "MediaBrowser", token |-> t], emby |-> NoAuth, token |-> 0],
    [authorization |-> [scheme |-> "Bearer", token |-> 0],
     emby |-> [scheme |-> "MediaBrowser", token |-> t], token |-> 0],
    [authorization |-> [scheme |-> "MediaBrowser", token |-> 0], emby |-> NoAuth, token |-> t] }

(* What the routing makes of each request that is sent, whoever sends it.  *)
Sent    == UNION {RawRequests[d] : d \in Devices}
Mounted == [raw \in Sent |-> Mount(raw.method, raw.path)]
Way     == [raw \in Sent |-> Reached(raw.method, raw.path)]

(* A device sends a request; its player sends the tag and no token. *)
Send(p, d) ==
  /\ At(p, "idle")
  /\ \E raw \in RawRequests[d] :
       \/ \E h \in Headers(held[d]) :
            req' = [req EXCEPT ![p] = [Idle EXCEPT !.pc = "arrived", !.dev = d, !.raw = raw,
                                                   !.token = ParseAuthorization(h)]]
       \/ /\ tag[d] # 0 /\ Way[raw].handler = "stream"
          /\ req' = [req EXCEPT ![p] = [Idle EXCEPT !.pc = "arrived", !.dev = d, !.raw = raw,
                                                    !.tag = tag[d]]]
  /\ UNCHANGED <<database, updatedAt, clients>>

(* withLegacyPaths, the mux, and the wrapper the route was registered in. *)
Dispatch(p) ==
  /\ At(p, "arrived")
  /\ LET hit == Way[req[p].raw]
     IN  IF Mounted[req[p].raw] # "compat" THEN Reply(p, "200")
         ELSE IF hit.status # "handler" THEN Reply(p, hit.status)
         ELSE req' = [req EXCEPT ![p].pc = IF hit.guard = "open" THEN hit.handler ELSE "auth",
                                 ![p].guard = hit.guard, ![p].values = hit.values,
                                 ![p].raw = IF hit.guard = "open" THEN <<>> ELSE hit.handler]
  /\ UNCHANGED <<database, updatedAt, clients>>

----------------------------------------------------------------------------
(* requireAuth and requireUserPath.                                        *)

(* ByTokenHash. *)
Rows(t) == {k \in DOMAIN sessions : sessions[k].token = t}

ParseId(seg) == IF seg.ext = "none" /\ seg.word \in {Me, "U2", Film} THEN seg.word ELSE "malformed"

UserPath(p) ==
  IF req[p].guard # "user" THEN "ok"
  ELSE LET id == ParseId(req[p].values["userId"])
       IN  IF id = "malformed" THEN "400" ELSE IF id # Me THEN "403" ELSE "ok"

Authenticate(p) ==
  /\ At(p, "auth")
  /\ IF req[p].token = 0 \/ Rows(req[p].token) = {} THEN Reply(p, "401")
     ELSE IF UserPath(p) # "ok" THEN Reply(p, UserPath(p))
     ELSE req' = [req EXCEPT ![p].pc = req[p].raw, ![p].raw = <<>>,
                             ![p].sid = CHOOSE k \in Rows(req[p].token) : TRUE]
  /\ UNCHANGED <<database, updatedAt, clients>>

(* Any error of Resolve is answered like an unknown token. *)
AuthenticateFails(p) ==
  /\ At(p, "auth") /\ req[p].token # 0
  /\ Failed(p, "401")
  /\ UNCHANGED <<database, updatedAt, clients>>

----------------------------------------------------------------------------
(* The Jellyfin handlers.                                                  *)

(* Handlers whose answer this module does not look into. *)
Serve(p) ==
  /\ \E pc \in {"static", "browse", "image", "playing", "socket"} : At(p, pc)
  /\ Reply(p, "200")
  /\ UNCHANGED <<database, updatedAt, clients>>

QuickConnectInitiate(p) ==
  /\ At(p, "refused")
  /\ Reply(p, "401")
  /\ UNCHANGED <<database, updatedAt, clients>>

(* The handlers that read server_settings. *)
ServerSettings(p) ==
  /\ At(p, "settings")
  /\ Reply(p, "200") \/ Failed(p, "500")
  /\ UNCHANGED <<database, updatedAt, clients>>

(* What the stored hash says of a password; DummyVerify for an unknown name. *)
Verdicts == IF accounts = {} THEN {"unknown"} ELSE {"match", "mismatch", "invalid hash"}

(* A hash nobody could have produced is the server's fault, not a wrong password. *)
Denied(verdict) == IF verdict = "invalid hash" THEN "500" ELSE "401"

(* SessionService.Authenticate up to the verified password. *)
LoginVerify(p) ==
  /\ At(p, "login")
  /\ \/ \E verdict \in Verdicts :
          IF verdict = "match" THEN Goto(p, "upsert") ELSE Reply(p, Denied(verdict))
     \/ Reply(p, "400")                        \* unreadable body
     \/ Failed(p, "500")
  /\ UNCHANGED <<database, updatedAt, clients>>

(* The device a session is stored under. *)
DeviceKey_Collapsed(d, t) == <<d>>

DeviceKey(d, t) == IF d = Anonymous THEN <<d, t>> ELSE <<d>>

(* Upsert: a row of its own, or the token of the device's row replaced. *)

Upsert_Appended(key, t) == sessions @@ (Append(key, t) :> [token |-> t, caps |-> 0])

Upsert_Blank(key, t) == (key :> [token |-> 0, caps |-> 0]) @@ sessions

Upsert(key, t) ==
  [k \in DOMAIN sessions \cup {key} |->
     IF k # key THEN sessions[k]
     ELSE [token |-> t, caps |-> IF key \in DOMAIN sessions THEN sessions[key].caps ELSE 0]]

LoginUpsert(p) ==
  /\ At(p, "upsert")
  /\ \/ LET t == Len(minted) + 1 IN
          /\ t <= MaxTokens
          /\ minted' = Append(minted, req[p].dev)
          /\ sessions' = Upsert(DeviceKey(req[p].dev, t), t)
          /\ req' = [req EXCEPT ![p].pc = "loginsettings", ![p].got = t]
     \/ Failed(p, "500") /\ UNCHANGED <<minted, sessions>>
  /\ UNCHANGED <<accounts, setupLock, bearers, expired, updatedAt, clients>>

(* The settings are read after the session was replaced. *)
LoginSettings(p) ==
  /\ At(p, "loginsettings")
  /\ Return(p, req[p].got) \/ Failed(p, "500")
  /\ UNCHANGED <<database, updatedAt, clients>>

(* UpdateCapabilities, by the id of the session requireAuth found. *)
CapabilitiesTarget_OfUser(p) == DOMAIN sessions

CapabilitiesTarget(p) == {req[p].sid} \cap DOMAIN sessions

Capabilities(p) ==
  /\ At(p, "capabilities")
  /\ \/ /\ CapabilitiesTarget(p) # {}
        /\ sessions' = [k \in DOMAIN sessions |->
                          IF k \in CapabilitiesTarget(p)
                          THEN [sessions[k] EXCEPT !.caps = req[p].token] ELSE sessions[k]]
        /\ Reply(p, "204")
     \/ CapabilitiesTarget(p) = {} /\ Reply(p, "500") /\ UNCHANGED sessions
     \/ Failed(p, "500") /\ UNCHANGED sessions
     \/ Reply(p, "400") /\ UNCHANGED sessions      \* the body of /Full
  /\ UNCHANGED <<accounts, setupLock, bearers, expired, minted, updatedAt, clients>>

(* PlaybackInfo hands out the tag of the film as it is now. *)
PlaybackInfo(p) ==
  /\ At(p, "playbackinfo")
  /\ \/ Failed(p, "500")
     \/ Reply(p, "400")
     \/ IF ParseId(req[p].values["id"]) = Film THEN Return(p, updatedAt) ELSE Reply(p, "404")
  /\ UNCHANGED <<database, updatedAt, clients>>

(* authorizeStream, its first half: a request whose tag is the film's as   *)
(* it is now needs no token.                                               *)

TagOpens(p) == req[p].tag = updatedAt

(* handleVideoStream up to the tag: nothing is opened before it is allowed. *)
StreamLocate(p) ==
  /\ At(p, "stream")
  /\ IF ParseId(req[p].values["id"]) # Film THEN Reply(p, "404")
     ELSE \/ Failed(p, "500")
          \/ IF TagOpens(p) THEN Goto(p, "open")
             ELSE IF req[p].token = 0 THEN Reply(p, "401") ELSE Goto(p, "streamtoken")
  /\ UNCHANGED <<database, updatedAt, clients>>

StreamToken(p) ==
  /\ At(p, "streamtoken")
  /\ \/ IF Rows(req[p].token) # {} THEN Goto(p, "open") ELSE Reply(p, "401")
     \/ Failed(p, "401")
  /\ UNCHANGED <<database, updatedAt, clients>>

(* What the disk has at the recorded path, and failStream's status for it. *)
OpenStatus(found) ==
  CASE found = "inside"  -> "200"
    [] found = "outside" -> "403"
    [] found \in {"gone", "directory"} -> "404"
    [] found = "unreadable" -> "500"

StreamOpen(p) ==
  /\ At(p, "open")
  /\ \E found \in {"inside", "outside", "gone", "directory", "unreadable"} :
       Reply(p, OpenStatus(found))
  /\ UNCHANGED <<database, updatedAt, clients>>

(* A scan that probes the film again writes its row. *)
Rescan ==
  /\ updatedAt < MaxUpdates
  /\ updatedAt' = updatedAt + 1
  /\ UNCHANGED <<database, clients, req>>

----------------------------------------------------------------------------
(* The native surface: setup, login, and a request with a bearer token.    *)

NativeSend(p) ==
  /\ At(p, "idle")
  /\ \/ \E name \in Names : req' = [req EXCEPT ![p] = [Idle EXCEPT !.pc = "setup", !.raw = name]]
     \/ req' = [req EXCEPT ![p] = [Idle EXCEPT !.pc = "nativelogin"]]
     \/ req' = [req EXCEPT ![p] = [Idle EXCEPT !.pc = "me", !.token = bearer]]
  /\ UNCHANGED <<database, updatedAt, clients>>

(* CreateFirstAdmin: validate, lock, count, insert, commit. *)
SetupLock_Skipped(p) == UNCHANGED setupLock

SetupLock(p) == setupLock = "free" /\ setupLock' = p

SetupBegin(p) ==
  /\ At(p, "setup")
  /\ \/ Reply(p, "400") /\ UNCHANGED setupLock     \* name or password refused
     \/ Failed(p, "500") /\ UNCHANGED setupLock
     \/ SetupLock(p) /\ Goto(p, "count")
  /\ UNCHANGED <<accounts, sessions, bearers, expired, minted, updatedAt, clients>>

(* The transaction ends and with it the lock, however it ends. *)

Unlock(p) == setupLock' = IF setupLock = p THEN "free" ELSE setupLock

SetupCount(p) ==
  /\ At(p, "count")
  /\ \/ accounts = {} /\ Goto(p, "create") /\ UNCHANGED setupLock
     \/ accounts # {} /\ Reply(p, "409") /\ Unlock(p)
     \/ Failed(p, "500") /\ Unlock(p)
  /\ UNCHANGED <<accounts, sessions, bearers, expired, minted, updatedAt, clients>>

(* The insert and its commit.  A commit whose answer is lost is reported   *)
(* as a failure of a setup that happened.                                  *)
SetupCommit(p) ==
  /\ At(p, "create")
  /\ \/ /\ accounts' = accounts \cup {req[p].raw}
        /\ Reply(p, "201") \/ Failed(p, "500")
     \/ Failed(p, "500") /\ UNCHANGED accounts
  /\ Unlock(p)
  /\ UNCHANGED <<sessions, bearers, expired, minted, updatedAt, clients>>

NativeLogin(p) ==
  /\ At(p, "nativelogin")
  /\ \/ LET t == Len(minted) + 1 IN
          /\ "match" \in Verdicts /\ t <= MaxTokens
          /\ minted' = Append(minted, "native")
          /\ bearers' = bearers \cup {t}
          /\ Return(p, t)
     \/ /\ \E verdict \in Verdicts \ {"match"} : Reply(p, Denied(verdict))
        /\ UNCHANGED <<minted, bearers>>
     \/ Failed(p, "500") /\ UNCHANGED <<minted, bearers>>
  /\ UNCHANGED <<accounts, setupLock, sessions, expired, updatedAt, clients>>

Expire ==
  /\ \E t \in bearers \ expired : expired' = expired \cup {t}
  /\ UNCHANGED <<accounts, setupLock, sessions, bearers, minted, updatedAt, clients, req>>

(* UserByTokenHash: nothing deletes an expired row, the query leaves it out. *)

Accepts(t) == t \in bearers \ expired

Bearer(p) ==
  /\ At(p, "me")
  /\ \/ Reply(p, IF Accepts(req[p].token) THEN "200" ELSE "401")
     \/ req[p].token # 0 /\ Failed(p, "500")
  /\ UNCHANGED <<database, updatedAt, clients>>

----------------------------------------------------------------------------
(* The client reads the answer, or is gone. *)
Receive(p) ==
  /\ At(p, "answer")
  /\ LET r == req[p]
         login == r.got # 0 /\ r.guard # "token"
     IN  \/ /\ held' = IF login /\ r.dev # None THEN [held EXCEPT ![r.dev] = r.got] ELSE held
            /\ bearer' = IF login /\ r.dev = None THEN r.got ELSE bearer
            /\ tag' = IF r.got # 0 /\ ~ login THEN [tag EXCEPT ![r.dev] = r.got] ELSE tag
         \/ UNCHANGED clients
  /\ req' = [req EXCEPT ![p] = Idle]
  /\ UNCHANGED <<database, updatedAt>>

Handler(p) ==
  \/ Dispatch(p) \/ Authenticate(p) \/ AuthenticateFails(p)
  \/ Serve(p) \/ QuickConnectInitiate(p) \/ ServerSettings(p)
  \/ LoginVerify(p) \/ LoginUpsert(p) \/ LoginSettings(p)
  \/ Capabilities(p) \/ PlaybackInfo(p) \/ StreamLocate(p)
  \/ StreamToken(p) \/ StreamOpen(p)
  \/ SetupBegin(p) \/ SetupCount(p) \/ SetupCommit(p)
  \/ NativeLogin(p) \/ Bearer(p)
  \/ Receive(p)

Next ==
  \/ \E p \in Slots : Handler(p) \/ NativeSend(p) \/ \E d \in Devices : Send(p, d)
  \/ Rescan \/ Expire

Spec == Init /\ [][Next]_vars

----------------------------------------------------------------------------
(* Properties.                                                             *)

Tokens == 1..MaxTokens

Statuses == {None, "200", "201", "204", "400", "401", "403", "404", "405", "409", "500"}

(* Every variable stays within its type. *)
TypeOK ==
  /\ accounts \subseteq Names /\ setupLock \in Slots \cup {"free"}
  /\ \A k \in DOMAIN sessions : sessions[k].token \in Tokens /\ sessions[k].caps \in 0..MaxTokens
  /\ expired \subseteq bearers /\ bearers \subseteq Tokens
  /\ minted \in BoundedSeq(Devices \cup {"native"}, MaxTokens)
  /\ updatedAt \in 1..MaxUpdates
  /\ held \in [Devices -> 0..MaxTokens] /\ bearer \in 0..MaxTokens
  /\ tag \in [Devices -> 0..MaxUpdates]
  /\ \A p \in Slots : req[p].status \in Statuses /\ req[p].token \in 0..MaxTokens

(* However many setups race, fail half way or lose the answer to their     *)
(* commit, one account is ever created; a setup answered 201 created it,   *)
(* and one answered 409 was turned away by an account that exists.  Nor is *)
(* the setup lock ever left behind: whoever holds it is between its count  *)
(* and its commit, so an aborted setup cannot shut out the others.         *)
SetupOnce ==
  /\ Cardinality(accounts) <= 1
  /\ setupLock # "free" => At(setupLock, "count") \/ At(setupLock, "create")
  /\ \A p \in Slots : req[p].status \in {"201", "409"} => accounts # {}

(* The token a device would have to present: the last one minted for it.   *)
Newest(t) == \A u \in DOMAIN minted : u > t => minted[u] # minted[t]

Usable(t) == minted[t] = Anonymous \/ Newest(t)

(* Logging in again ends the device's previous token and no other: behind  *)
(* requireAuth, whatever was in flight, a handler is only entered with the *)
(* token of a session nobody had replaced when the token was looked up;    *)
(* and a native token past its expiry opens nothing, though its row stays. *)
DeadTokenNeverEnters ==
  [][\A p \in Slots :
       /\ At(p, "auth") /\ req'[p].sid # <<>> => Usable(req[p].token)
       /\ At(p, "me") /\ req'[p].status = "200" => req[p].token \in bearers \ expired]_vars

(* A request that was turned away, though every statement answered.        *)
TurnedAway(p) == At(p, "answer") /\ req[p].status = "401" /\ ~ req[p].failed

(* A token that still is its device's last one, or that a device without   *)
(* an id obtained, is turned away only when the database failed: neither   *)
(* another device's login nor another anonymous client's ends a session.   *)
(* The tag a player streams with stops working only because a scan wrote   *)
(* the film again after the tag was handed out.                            *)
LiveCredentialAccepted ==
  \A p \in Slots : TurnedAway(p) =>
    /\ req[p].guard \in {"token", "user"} /\ req[p].token # 0 => ~ Usable(req[p].token)
    /\ req[p].guard = "open" /\ req[p].tag # 0 => req[p].tag < updatedAt

(* What a session says its client can do was reported by that device: a    *)
(* report that was authorised by one session never lands in another one,   *)
(* though the device logs in again while the report is in flight; and a    *)
(* report that requireAuth let through finds its session, which no login   *)
(* removes.                                                                *)
CapabilitiesOfDevice ==
  /\ \A k \in DOMAIN sessions :
       sessions[k].caps # 0 => minted[sessions[k].caps] = k[1]
  /\ \A p \in Slots : At(p, "capabilities") => req[p].sid \in DOMAIN sessions

(* Without regard to case, one alias prefix, a slash at the end and the    *)
(* container of a stream.                                                  *)
Alike(seg, lit) == seg.word = lit /\ seg.ext = "none"

CutOnce(segs) == IF segs # <<>> /\ IsLegacyPrefix(Head(segs)) THEN Tail(segs) ELSE segs

(* HEAD asks for what GET would answer. *)
Asks(method) == {method} \cup {m \in {"GET"} : method = "HEAD"}

Candidates(raw) ==
  LET cut == CutOnce(raw.path.segs)
      streaming(r) == /\ r.handler = "stream" /\ Len(cut) = 3 /\ cut[3].ext = "one"
                      /\ Alike(cut[1], "Videos") /\ cut[3].word = "stream"
  IN  {r \in Routes : r.method \in Asks(raw.method) /\ (Instance(cut, r.pattern, Alike) \/ streaming(r))}

Hits == [raw \in Sent |-> Candidates(raw)]

(* Routing neither loses a request nor invents one: what a client sent     *)
(* reaches the most specific of the routes it spells in any casing, and a  *)
(* request that spells none is answered 404 or 405, never authenticated.   *)
RoutedAsSpelled ==
  [][\A p \in Slots :
       At(p, "arrived") /\ Mounted[req[p].raw] = "compat" /\ ~ At(p, "arrived")' =>
         LET hits == Hits[req[p].raw]
         IN  IF hits = {} THEN req'[p].status \in {"404", "405"}
             ELSE \E r \in hits :
                    /\ \A other \in hits : Literals(other.pattern) \subseteq Literals(r.pattern)
                    /\ req'[p].guard = r.guard
                    /\ r.handler \in {req'[p].pc, req'[p].raw}
                    /\ DOMAIN req'[p].values = {r.pattern[i] : i \in DOMAIN r.pattern \ Literals(r.pattern)}]_vars
=============================================================================
