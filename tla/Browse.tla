------------------------------- MODULE Browse -------------------------------
(***************************************************************************)
(* What a client sees of the catalogue: a listing walked page by page, the *)
(* views of the home screen, and one film's detail with the answer whether *)
(* the device can play it (internal/compat/jellyfin/items.go, polled.go,   *)
(* itemdto.go, playback.go; service/media.go, service/playback.go;         *)
(* repository/media.go), while scans and a player write between the        *)
(* statements of one answer.                                               *)
(*                                                                         *)
(* Films are numbers, ordered as their ids.  A column that is NULL is 0.   *)
(* A statement's ORDER BY allows every order it does not rule out.         *)
(***************************************************************************)
EXTENDS Naturals, Sequences, FiniteSets, SequencesExt

CONSTANTS Films,          \* numbers, in the order of their ids
          Libraries,      \* numbers as well
          LibraryOf,
          Title, Year, CreatedAt,   \* columns of media_items, a number per film
          Scanned,        \* sets of films there may be at first
          Takers,         \* films of which one has the files of all
          Histories,      \* what may have been reported of the films by then
          Requests,       \* the query strings of listings clients send
          Profiles,       \* the device profiles clients send
          Probed,         \* what the first, second, ... probe of a file finds
          MaxBrowseLimit, \* most rows of a page
          MaxWrites,      \* bound on the writes during one activity
          MaxFaults       \* bound on the statements that fail

ASSUME BrowseAssumption ==
  /\ MaxBrowseLimit \in Nat \ {0}
  /\ IsFiniteSet(Films) /\ Films \cup Libraries \subseteq Nat \ {0, 99} /\ Films \cap Libraries = {}
  /\ LibraryOf \in [Films -> Libraries]
  /\ Title \in [Films -> Nat] /\ Year \in [Films -> Nat] /\ CreatedAt \in [Films -> Nat]
  /\ Scanned \subseteq SUBSET Films
  /\ \A h \in Histories : h.played \cup h.resumable \subseteq h.reported
  /\ \A raw \in Requests : /\ raw.route \in {"items", "latest", "resume"}
                           /\ raw.start \in Nat /\ raw.limit \in Nat /\ raw.maxYear \in Nat
  /\ Len(Probed) \in Nat \ {0}
  /\ \A p \in 1..Len(Probed) : Probed[p].container \in Seq(STRING)

VARIABLES present,     \* films in media_items
          updatedAt,   \* film -> how often its row was written
          owner,       \* row of media_files -> film it belongs to, 0 while there is no row
          fileProbe,   \* row of media_files -> probe its columns are from
          streamProbe, \* row of media_files -> probe its media_streams are from
          played,      \* films whose row of playback_state says played
          resumable,   \* films whose row has position_seconds > 0
          lastPlayed,  \* film -> time of its last report, NULL without a row
          client,      \* the activity of the client and its request's handler
          writes, faults

catalogue == <<present, updatedAt, owner, fileProbe, streamProbe>>
playback_state == <<played, resumable, lastPlayed>>
tables == <<catalogue, playback_state>>
browseVars == <<tables, client, writes, faults>>

Null == 0

(* raw to seen are a listing's, shown the views', row to answer a film's.  *)
(* clean says that nothing was written since the activity began.           *)
Nothing == [pc |-> "home", raw |-> <<>>, start |-> 0, total |-> 0, page |-> <<>>,
            seen |-> <<>>, shown |-> <<>>, row |-> 0, file |-> 0,
            streams |-> 0, tag |-> 0, answer |-> <<>>, clean |-> TRUE]

(* The file of a path has the number of the film the path is named after;  *)
(* one may have been taken over by another film, under overlapping roots.  *)
BrowseInit ==
  /\ present \in Scanned
  /\ \E f \in Takers \cap present :
       owner = [r \in Films |-> IF r \notin present THEN Null ELSE IF r \in Takers THEN f ELSE r]
  /\ fileProbe = [r \in Films |-> IF r \in present THEN 1 ELSE 0]
  /\ streamProbe = fileProbe
  /\ updatedAt = [f \in Films |-> 1]
  /\ \E h \in Histories :
       /\ played = h.played \cap present /\ resumable = h.resumable \cap present
       /\ lastPlayed = [f \in Films |-> IF f \in h.reported \cap present THEN 1 + (f % 2) ELSE Null]
  /\ client = Nothing /\ writes = 0 /\ faults = 0

At(pc) == client.pc = pc

----------------------------------------------------------------------------
(* browseQuery: from the query string to the filters.                      *)

Junk == 99   \* an id that does not parse

(* The request can match nothing: types the server has none of, or ids     *)
(* none of which is one.                                                   *)
MatchesNothing(raw) ==
  \/ raw.types # {} /\ "Movie" \notin raw.types
  \/ raw.parent = Junk
  \/ raw.ids = {Junk}

SortColumns == [ SortName |-> "title", Name |-> "title", DateCreated |-> "created",
                 Random |-> "random", DatePlayed |-> "played",
                 PremiereDate |-> "year", ProductionYear |-> "year" ]

(* sortOrder: the first name of the list that is a column. *)
SortOrder(names) ==
  LET known == SelectSeq(names, LAMBDA n : n \in DOMAIN SortColumns)
  IN  IF known = <<>> THEN "title" ELSE SortColumns[Head(known)]

(* The latest films are the first of the order whatever offset is sent.    *)

Offset(raw, start) == IF raw.route = "latest" THEN 0 ELSE start

Limit_Unbounded(raw) == IF raw.limit = 0 THEN MaxBrowseLimit ELSE raw.limit

Limit(raw) == IF raw.limit = 0 \/ raw.limit > MaxBrowseLimit THEN MaxBrowseLimit ELSE raw.limit

(* The query of a listing, with what the route itself decides: the latest  *)
(* films are the newest unfinished ones, the films to resume the last      *)
(* played ones that are not at their start.                                *)
Query(raw, start) ==
  [ parent  |-> raw.parent, ids |-> raw.ids \ {Junk}, maxYear |-> raw.maxYear,
    playedOnly    |-> raw.isPlayed = "true",
    excludePlayed |-> raw.isPlayed = "false" \/ raw.route = "latest",
    inProgress    |-> raw.route = "resume",
    sort |-> CASE raw.route = "latest" -> "created" [] raw.route = "resume" -> "played"
               [] OTHER -> SortOrder(raw.sortBy),
    desc |-> raw.desc \/ raw.route # "items",
    offset |-> Offset(raw, start), limit |-> Limit(raw) ]

----------------------------------------------------------------------------
(* The two statements of ListItems.                                        *)

(* playbackJoin is a LEFT JOIN: ps.played of a film nobody has played is   *)
(* NULL, which COALESCE makes false; ps.position_seconds > 0 is then NULL, *)
(* and the row is left out.                                                *)
StateMatches(f, q) ==
  /\ q.inProgress => f \in resumable
  /\ q.excludePlayed => f \notin played
  /\ q.playedOnly => f \in played

Matches(f, q) ==
  /\ q.parent # Null => LibraryOf[f] = q.parent
  /\ q.ids # {} => f \in q.ids
  /\ q.maxYear # Null => Year[f] = Null \/ Year[f] <= q.maxYear
  /\ StateMatches(f, q)

Found(q) == {f \in present : Matches(f, q)}

Column(f, q) ==
  CASE q.sort = "created" -> CreatedAt[f]
    [] q.sort = "year"    -> Year[f]
    [] q.sort = "played"  -> lastPlayed[f]
    [] OTHER              -> Title[f]

(* orderClause: NULLS LAST in both directions, then the id. *)
Before_ByColumn(f, g, q) ==
  LET x == Column(f, q)  y == Column(g, q) IN
  \/ x # Null /\ y = Null
  \/ x # Null /\ y # Null /\ IF q.desc THEN x > y ELSE x < y

Before(f, g, q) ==
  LET x == Column(f, q)  y == Column(g, q) IN
  \/ x # Null /\ y = Null
  \/ x # Null /\ y # Null /\ IF q.desc THEN x > y ELSE x < y
  \/ x = y /\ IF q.desc THEN f > g ELSE f < g

Orders(films, q) ==
  {s \in [1..Cardinality(films) -> films] :
     \A i, j \in DOMAIN s : i < j => s[i] # s[j] /\ (q.sort # "random" => ~ Before(s[j], s[i], q))}

Page(order, q) ==
  LET last == q.offset + q.limit
  IN  SubSeq(order, q.offset + 1, IF last > Len(order) THEN Len(order) ELSE last)

----------------------------------------------------------------------------
(* A listing.                                                              *)

(* A client opens a list; it asks for the following pages until it has as  *)
(* many rows as the total it was told.                                     *)
OpenList ==
  /\ At("home")
  /\ \E raw \in Requests :
       client' = [Nothing EXCEPT !.pc = IF MatchesNothing(raw) THEN "answer" ELSE "count",
                                 !.raw = raw, !.start = raw.start]
  /\ UNCHANGED <<tables, writes, faults>>

TheQuery == Query(client.raw, client.start)

(* countItems; nothing found is answered without the second statement. *)
CountItems ==
  /\ At("count")
  /\ LET n == Cardinality(Found(TheQuery)) IN
       client' = [client EXCEPT !.total = n, !.page = <<>>,
                                !.pc = IF n = 0 THEN "answer" ELSE "page"]
  /\ UNCHANGED <<tables, writes, faults>>

ListItems ==
  /\ At("page")
  /\ \E order \in Orders(Found(TheQuery), TheQuery) :
       client' = [client EXCEPT !.pc = "answer", !.page = Page(order, TheQuery)]
  /\ UNCHANGED <<tables, writes, faults>>

(* The next page begins after the rows the client has. *)
Receive ==
  /\ At("answer")
  /\ LET seen == client.seen \o client.page
         more == client.raw.route # "latest" /\ client.page # <<>> /\ Len(seen) < client.total
     IN  client' = [client EXCEPT !.pc = IF more THEN "count" ELSE "listed",
                                  !.seen = seen, !.start = client.start + Len(client.page),
                                  !.page = <<>>]
  /\ UNCHANGED <<tables, writes, faults>>

(* A statement fails, that of the page or one for what goes with its rows: *)
(* 500, and the client asks again for the same page.                       *)
StatementFails ==
  /\ faults < MaxFaults /\ At("page")
  /\ faults' = faults + 1
  /\ client' = [client EXCEPT !.pc = "count", !.page = <<>>]
  /\ UNCHANGED <<tables, writes>>

----------------------------------------------------------------------------
(* The views: the libraries, then one grouped count.                       *)

OpenViews ==
  /\ At("home")
  /\ client' = [Nothing EXCEPT !.pc = "views"]
  /\ UNCHANGED <<tables, writes, faults>>

(* A library without films is absent from the grouped count, and 0. *)

CountItemsByLibrary ==
  LET counts == [l \in {LibraryOf[f] : f \in present} |->
                   Cardinality({f \in present : LibraryOf[f] = l})]
  IN  [l \in Libraries |-> IF l \in DOMAIN counts THEN counts[l] ELSE 0]

Views ==
  /\ At("views")
  /\ client' = [client EXCEPT !.pc = "viewed", !.shown = CountItemsByLibrary]
  /\ UNCHANGED <<tables, writes, faults>>

(* Opening a view lists it by its id, as OpenList does. *)
OpenView ==
  /\ At("viewed")
  /\ \E raw \in Requests :
       /\ raw.parent \in Libraries
       /\ client' = [client EXCEPT !.pc = IF MatchesNothing(raw) THEN "answer" ELSE "count",
                                   !.raw = raw, !.start = raw.start]
  /\ UNCHANGED <<tables, writes, faults>>

----------------------------------------------------------------------------
(* One film: six statements, of which the item, the file and the streams   *)
(* are looked at here, and Decide.                                         *)

(* A client opens what it has an id of, a view's too, or asks to play it.  *)
OpenDetail ==
  /\ At("home")
  /\ \/ \E id \in Films \cup Libraries :
          client' = [Nothing EXCEPT !.pc = "item", !.raw = [route |-> "item", id |-> id]]
     \/ \E f \in Films, device \in Profiles :
          client' = [Nothing EXCEPT !.pc = "item",
                                    !.raw = [route |-> "info", id |-> f, device |-> device]]
  /\ UNCHANGED <<tables, writes, faults>>

Id == client.raw.id

GetItem ==
  /\ At("item")
  /\ client' =
       IF Id \in present THEN [client EXCEPT !.pc = "files", !.tag = updatedAt[Id]]
       ELSE [client EXCEPT !.pc = IF client.raw.route = "item" THEN "isview" ELSE "notfound"]
  /\ UNCHANGED <<tables, writes, faults>>

(* handleItem of an id that is no film: a view, or nothing. *)

IsView(id) == id \in Libraries

FindView ==
  /\ At("isview")
  /\ client' = [client EXCEPT !.pc = IF IsView(Id) THEN "isaview" ELSE "notfound"]
  /\ UNCHANGED <<tables, writes, faults>>

FilesOf(f) == {r \in Films : owner[r] = f}

FirstFile(f) == IF FilesOf(f) = {} THEN 0 ELSE CHOOSE r \in FilesOf(f) : \A other \in FilesOf(f) : r <= other

ListFilesByItem ==
  /\ At("files")
  /\ LET r == FirstFile(Id) IN
       client' = IF r = 0 THEN [client EXCEPT !.pc = "decide"]
                 ELSE [client EXCEPT !.pc = "streams", !.row = r, !.file = fileProbe[r]]
  /\ UNCHANGED <<tables, writes, faults>>

(* The streams are those of the row's id, whoever owns it by now. *)
ListStreams ==
  /\ At("streams")
  /\ client' = [client EXCEPT !.pc = "decide", !.streams = streamProbe[client.row]]
  /\ UNCHANGED <<tables, writes, faults>>

(* capabilities: the entries for video, flattened. *)
Flattened(device, list) == UNION {e[list] : e \in {e \in device : e.type = "Video"}}

Unstated(names) == names = {}

ContainerSupported(container, names) ==
  Unstated(names) \/ container = <<>> \/ ToSet(container) \cap names # {}

CodecSupported(codec, names) == Unstated(names) \/ codec = "" \/ codec \in names

(* Decide, for the file of one probe and the streams of another. *)
Decide(device, file, streams) ==
  /\ ContainerSupported(Probed[file].container, Flattened(device, "containers"))
  /\ \A s \in Probed[streams].streams :
       s.kind \in {"video", "audio"} => CodecSupported(s.codec, Flattened(device, s.kind))

(* mediaSourceContainer: the extension when the probe names it, the first  *)
(* name otherwise.                                                         *)

SourceContainer(p) ==
  LET names == Probed[p].container IN
  CASE names = <<>> -> ""
    [] names = <<"matroska", "webm">> -> "mkv"
    [] OTHER -> IF Probed[p].ext \in ToSet(names) THEN Probed[p].ext ELSE Head(names)

(* The media source of the answer: none without a file. *)
MediaSource ==
  IF client.row = 0 THEN <<>>
  ELSE [ container  |-> SourceContainer(client.file),
         directPlay |-> client.raw.route = "info" =>
                          Decide(client.raw.device, client.file, client.streams) ]

Answer ==
  /\ At("decide")
  /\ client' = [client EXCEPT !.pc = "decided", !.answer = MediaSource]
  /\ UNCHANGED <<tables, writes, faults>>

----------------------------------------------------------------------------
(* The writers.                                                            *)

Write ==
  /\ writes < MaxWrites /\ ~ At("home")
  /\ writes' = writes + 1
  /\ client' = [client EXCEPT !.clean = FALSE]
  /\ UNCHANGED faults

(* UpsertItem writes the row of a film it finds again, too. *)
Touched_NewFilms(f) == IF f \in present THEN updatedAt ELSE [updatedAt EXCEPT ![f] = @ + 1]

Touched(f) == [updatedAt EXCEPT ![f] = @ + 1]

(* A file that looks unprobed or changed is probed: row and streams are of *)
(* one probe.  Probes are numbered as they are committed.                  *)
ProbesFile(r) ==
  /\ streamProbe[r] < Len(Probed)
  /\ streamProbe' = [streamProbe EXCEPT ![r] = @ + 1]
  /\ fileProbe' = [fileProbe EXCEPT ![r] = streamProbe[r] + 1]

(* Otherwise the scan writes back the columns it read before its           *)
(* transaction, from the row as it was at any earlier time: what another   *)
(* scan has probed since is overwritten, and that scan's streams stay.     *)
WritesBack(r) ==
  /\ owner[r] # Null
  /\ \E read \in 1..streamProbe[r] : fileProbe' = [fileProbe EXCEPT ![r] = read]
  /\ UNCHANGED streamProbe

(* A scan finds the file of a path, of its own film or, under another root *)
(* or library, of another, which takes the row over.  Item, file and       *)
(* streams are one transaction.                                            *)
ScanFile ==
  /\ Write
  /\ \E r, f \in Films :
       /\ ProbesFile(r) \/ WritesBack(r)
       /\ present' = present \cup {f}
       /\ updatedAt' = Touched(f)
       /\ owner' = [owner EXCEPT ![r] = f]
  /\ UNCHANGED playback_state

(* A report of a player: the film is to be resumed, completed or neither.  *)
(* Watched stays watched, and the position is that of the last report.     *)
PlayerReport ==
  /\ Write
  /\ \E f \in present, judged \in {"resume", "completed", "neither"} :
       /\ played' = IF judged = "completed" THEN played \cup {f} ELSE played
       /\ resumable' = IF judged = "resume" THEN resumable \cup {f} ELSE resumable \ {f}
       /\ lastPlayed' = [lastPlayed EXCEPT ![f] = 3]
  /\ UNCHANGED catalogue

Handler ==
  \/ CountItems \/ ListItems \/ Views
  \/ GetItem \/ FindView \/ ListFilesByItem \/ ListStreams \/ Answer

BrowseNext ==
  \/ OpenList \/ OpenViews \/ OpenView \/ OpenDetail
  \/ Handler \/ Receive \/ StatementFails
  \/ ScanFile \/ PlayerReport

BrowseSpec == BrowseInit /\ [][BrowseNext]_browseVars

----------------------------------------------------------------------------
(* Properties.                                                             *)

(* Every variable stays within its type, a row of a file that a probe      *)
(* described belongs to a film that is there, and its columns are never    *)
(* from a later probe than its streams.                                    *)
BrowseTypeOK ==
  /\ present \subseteq Films
  /\ owner \in [Films -> Films \cup {Null}]
  /\ fileProbe \in [Films -> 0..Len(Probed)] /\ streamProbe \in [Films -> 0..Len(Probed)]
  /\ \A r \in Films : /\ streamProbe[r] # 0 => owner[r] \in present
                       /\ fileProbe[r] <= streamProbe[r]
  /\ played \cup resumable \subseteq {f \in present : lastPlayed[f] # Null}
  /\ client.start \in Nat /\ client.total \in 0..Cardinality(Films)
  /\ client.page \in Seq(Films) /\ Len(client.page) <= MaxBrowseLimit
  /\ client.row # 0 => client.file # 0 /\ client.tag # 0

(* What a client may expect of a list, said of the films and not of the    *)
(* statements.                                                             *)
Wanted(f, raw) ==
  /\ raw.types = {} \/ "Movie" \in raw.types
  /\ raw.parent \in {Null, LibraryOf[f]}
  /\ raw.ids = {} \/ f \in raw.ids
  /\ raw.maxYear = Null \/ Year[f] \in 0..raw.maxYear
  /\ raw.isPlayed = "true" => f \in played
  /\ raw.isPlayed = "false" => f \notin played
  /\ raw.route = "latest" => f \notin played
  /\ raw.route = "resume" => f \in resumable

WantedFilms == {f \in present : Wanted(f, client.raw)}

(* The column a listing is sorted by has no value for the film.            *)
Unknown(f, raw) ==
  \/ SortOrder(raw.sortBy) = "year" /\ Year[f] = Null
  \/ SortOrder(raw.sortBy) = "played" /\ lastPlayed[f] = Null

(* A list shows every film the client asked for exactly once: films that   *)
(* tie in the sort column neither swap places between two pages nor fall   *)
(* between them, and a film that was never played counts as not played.    *)
EveryFilmOnce ==
  client.raw.route # "latest" /\ client.raw.start = 0 /\ SortOrder(client.raw.sortBy) # "random" =>
    ToSet(client.seen) = WantedFilms /\ Len(client.seen) = Cardinality(WantedFilms)

(* Films without a value in the sort column come last, in either           *)
(* direction, over all the pages.                                          *)
UnknownLast ==
  client.raw.route = "items" =>
    \A i, j \in DOMAIN client.seen :
      i < j /\ Unknown(client.seen[i], client.raw) => Unknown(client.seen[j], client.raw)

(* Of the latest films none is left out for an older one, whatever offset  *)
(* the client sends.                                                       *)
LatestAreNewest ==
  client.raw.route = "latest" =>
    /\ ToSet(client.seen) \subseteq WantedFilms
    /\ \A f \in WantedFilms \ ToSet(client.seen), g \in ToSet(client.seen) :
         CreatedAt[f] <= CreatedAt[g]

(* A view opened shows as many films as it was counted with.               *)
ViewAsCounted ==
  client.shown # <<>> /\ client.raw.route = "items" /\ client.raw.start = 0
    /\ "Movie" \in client.raw.types /\ client.raw.ids = {} /\ client.raw.maxYear = Null
    /\ client.raw.isPlayed = "" =>
    Len(client.seen) = client.shown[client.raw.parent]

(* What a client has once it has walked a list from its first row to the   *)
(* total it was told, if nothing was written meanwhile.                    *)
WalkComplete ==
  At("listed") /\ client.clean =>
    EveryFilmOnce /\ UnknownLast /\ LatestAreNewest /\ ViewAsCounted

(* A client holds an answer about a film for as long as it likes.  Either  *)
(* the tag in it has gone out of date, so that it opens no stream, or the  *)
(* film has another file or none, or the container it names and the        *)
(* streams it was decided on are those the film's row has now, whatever    *)
(* scans commit between the statements and after them.  An answer under a  *)
(* current tag is therefore over one probe, unless the row itself is not:  *)
(* a scan has written back what it read before another one probed.  The    *)
(* container it builds its stream URL from is one of the names the probe   *)
(* found, or mkv for matroska, whatever the file is called.                *)
AnswerStaleOrTrue ==
  At("decided") /\ client.row # 0 =>
    /\ \/ client.tag # updatedAt[Id]
       \/ FirstFile(Id) # client.row
       \/ client.file = fileProbe[client.row] /\ client.streams = streamProbe[client.row]
    /\ LET names == Probed[client.file].container IN
       \/ names = <<>> /\ client.answer.container = ""
       \/ client.answer.container \in ToSet(names)
       \/ ToSet(names) = {"matroska", "webm"} /\ client.answer.container = "mkv"

(* An entry of a device profile accepts a file on its own. *)
Accepts(e, p, s) ==
  /\ e.containers = {} \/ Probed[p].container = <<>> \/ ToSet(Probed[p].container) \cap e.containers # {}
  /\ \A t \in Probed[s].streams :
       t.kind \in {"video", "audio"} => e[t.kind] = {} \/ t.codec \in e[t.kind] \cup {""}

Answered == At("decided") /\ client.raw.route = "info" /\ client.row # 0

(* "An empty list means 'no constraint stated', not 'nothing supported'":  *)
(* a file that some entry of the profile accepts is never refused.         *)
NoFalseRefusal ==
  Answered /\ (\E e \in client.raw.device : e.type = "Video" /\ Accepts(e, client.file, client.streams)) =>
    client.answer.directPlay
=============================================================================
