# Reelix: specifications, model checking and proofs

TLA+ modules for the parts of Reelix whose correctness depends on the order in
which statements, requests, goroutines and processes take their turns. Every
definition is translated from the Go source and the SQL migrations under `src/`;
paths below are relative to it. `PROJECT.json` maps each definition to the lines it
stands for.

Contents: [the system](#the-system), [the modules](#the-modules),
[the runs](#the-runs), [what is proved](#what-is-proved),
[behaviour to know about](#behaviour-to-know-about),
[what is not modelled](#what-is-not-modelled), [plan](#plan).

To repeat everything: `tlasany M.tla`, `tlc -config R.cfg MCx.tla` for each run
below, `tlapm XProofs.tla` for each proof module.
Modules that are extended side by side keep their names apart: `BrowseInit`, `BrowseSpec`,
`BrowseTypeOK`, `DecideSpec`, `StartupNext` and so on are what the others call `Init`, `Spec`,
`TypeOK` and `Next`.

## The system

`reelixd` is one Go process in front of PostgreSQL, a media directory it only
reads and a cache directory it owns. It serves a native HTTP API
(`internal/api/v1`) and a Jellyfin-compatible one (`internal/compat/jellyfin`).
There is no in-memory state worth the name: what the process knows is in the
database and the cache directory. What makes it hard is that

* almost every SQL statement commits on its own. The services hand the
  repositories the pool, not a transaction; only the persisting of one scanned
  file, the creation of a library, the first administrator and a migration are
  transactions. Whatever takes two statements can be interleaved with anything
  else, and can stop half-way;
* long work runs in goroutines that outlive the request that started them and
  die with the process (`internal/service/{scan,identity,metadata}.go`);
* clients are several, retry, and send reports in no guaranteed order;
* the cache directory and the tables that describe it are kept together by
  discipline only.

### Inventory

| component | state | operations | interacts with |
|---|---|---|---|
| process lifecycle (`cmd/reelixd/main.go`, `internal/server`) | how far `run` is; requests in flight | wait, migrate, check ffprobe, reap, listen; drain and exit; be signalled, die | database, jobs (reaps them, hosts their goroutines), sockets |
| database connection, migrations (`internal/db`) | attempts; ledger and schema | waitForDatabase with backoff; Migrate under a session lock | process start |
| jobs (`repository/job.go`, the `Start`/`run` of three services) | `jobs` rows: state, (library, kind), progress; one goroutine per job | Create, MarkRunning, UpdateProgress, Finish, FailOrphaned, Get | partial unique index on active rows |
| libraries (`service/library.go`, `repository/library.go`) | `libraries`, `library_paths` | Create | scan |
| library scan (`service/scan.go`, `media/{scan,name,probe}.go`, `repository/media.go`) | `media_items`, `media_files`, `media_streams` | walk, persist a file, probe again | identity (Ensure), playback (runtime), listings |
| identification (`service/identity.go`, `repository/identity.go`) | `media_item_identity.status`, `media_item_external_ids` | Ensure, Pending, RecordMatch, RecordUnmatched, SetManual, Reset | provider, jobs, metadata refresh |
| matcher (`metadata/match.go`) and the decision around it | none | Match over a list of candidates, a second look at their other titles | identification, provider |
| metadata fields (`service/metadata.go`, `repository/metadata.go`) | `media_item_metadata`, `media_item_genres`, provenance and locks | store, Set, SetLocked | refresh, requests |
| refresh and artwork (`service/{metadata,artwork}.go`, `repository/artwork.go`, `media/artwork/artwork.go`) | image files, temporary files, `media_item_images` | Sweep, reconcile, select, fetch, download, rename, WriteImage | provider, cache directory, image serving |
| TMDB provider (`metadata/tmdb/tmdb.go`) | none that lasts | search, other titles, details; the choice of images and certificate | matcher, refresh |
| playback (`service/playback.go`, `repository/playback.go`, `compat/jellyfin/playback.go`) | `playback_state` | started, progress and stopped reports | scan (runtime), listings |
| sessions, tokens, users (`service/{session,auth}.go` and repositories) | `sessions`, `api_tokens`, `users` | setup, login, Authenticate, SetCapabilities | every request |
| Jellyfin routing (`routefold.go`, `routes.go`) | the trie of registered patterns | strip a prefix, fold the case of a path, match | every Jellyfin request |
| browsing (`service/media.go`, `repository/media.go`, `items.go`, `playback.go`) | none | list, page, filter, one film, playback info | scan, refresh, playback write under it |
| Jellyfin socket (`socket.go`) | read loop and ping goroutine per connection | open, read, ping, tear down | process |
| configuration, logging, DTO shapes, capture tools | none that lasts | parsing, translation | |

### What correctness means, per component

* **Process and jobs.** One goroutine per library and kind of job. A row that says
  queued or running has somebody working on it, or is failed at the next start. An
  outcome is never replaced. A scan that says completed handled every file.
* **Identification.** A human's decision outranks the pass, whenever it lands. A
  status is backed by the ids that go with it. A rerun re-decides nothing.
* **Fields.** A hand edit and a lock survive refreshes. Provenance names the source
  the value came from.
* **Refresh and artwork.** A row never promises bytes that are not there. The tag a
  client caches under is the tag of the bytes it gets. A pass repairs what was lost.
* **Playback.** One viewing counts once. Watched stays watched. The last stop
  decides. A suppressed write costs the row its date and nothing else.
* **Scan.** A file's row and streams tell of one probe, and a quiet scan leaves them
  telling of what is on disk. An item appears together with a file.
* **Matcher.** Never one of several equally good candidates. A decline was judged.
* **Provider.** What a pass keeps of an answer does not depend on the order of it.
* **Sessions and setup.** One first administrator. A login ends the device's previous
  token and no other; a credential that is still good is not turned away.
* **Routing.** A path in any casing reaches the route it spells, and no other.
* **Browsing.** A list walked in peace shows everything once. An answer a client holds is
  out of date in a way the server will notice, or is what the film's row says.
* **Start and end.** Each migration applied once, ledger and schema agree, whatever dies;
  nobody serves over less than its schema; patience is the budget; a clean exit cut
  nothing off; nothing is waited for without a limit.

## The modules

| module | models | composed of |
|---|---|---|
| `JobBoard` | what the jobs table promises: accept into a free slot, begin once, settle once | |
| `Jobs` | jobs table, goroutines, processes | refines `JobBoard` |
| `Catalogue` | what scans promise the readers of the media tables | |
| `Scan` | libraries, the walk, what is persisted of a file, several scans at once | refines `Catalogue` |
| `Identity` | status and external ids of items | |
| `Matcher` | the tiers of `match.go`, as operators | |
| `Picks` | images and certificate of a film's details, as operators | |
| `Decide` | one decision and one fetch against answers that may not come | extends `Matcher`, `Picks` |
| `Fields` | the managed fields of one item | |
| `Refresh` | refresh passes, cache directory, image rows | |
| `Playback` | one user's progress through one item | |
| `Routing` | mounts, prefixes, the folding trie, the mux, as operators | |
| `Access` | accounts, sessions, tokens, capability tags, requests in flight | extends `Routing` |
| `Browse` | listings, views and one film, between the commits of writers | |
| `Startup` | waiting for the database and migrating it, several processes and releases | |
| `Process` | serving, sockets, drain and exit | extends `Startup` |
| `MCJobs` ... `MCProcess` | the constants of the runs | extend the module they name |
| `JobsProofs`, `IdentityProofs`, `RefreshProofs`, `ScanProofs`, `AccessProofs`, `ProcessProofs` | theorems | extend the module they name |
| `MetadataProofs` | theorems about `Fields` and `Decide` | extends both |
| `ClientProofs` | theorems about `Playback` and `Browse` | extends both |

The components meet at seams, and each is an assumption of one module that another
one establishes, or a choice that another one explains. `Identity` and `Fields` have one
pass at a time, and `Refresh` and `Scan` one per library, because `Jobs` shows that a
slot has one goroutine (`OneRunnerPerSlot`, a theorem when processes do not overlap).
`Refresh` writes a metadata row in one step because `Fields` takes that write apart.
What the pass decides is a choice in `Identity` and computed in `Decide`. `Scan` decides
items in one step because `Identity` takes that apart; `Browse` lets a scan write item,
file and streams in one step because `Scan` shows that they reach readers in one. What
that step may leave is the code's and not the catalogue's alone: a visit that does not
probe writes back the columns it read before its transaction, so where two scans cross at
a file its row and its streams may be of two probes (`crossed` in `Scan`,
`Catalogue.Revisit`). `Browse` takes that step as it is (`WritesBack`).

### Jobs and JobBoard

`state`, `slot`, `current`, `total` are the columns of `jobs`; `pc`, `host`, `at`,
`of` belong to the goroutine; `phase` to each process. One action per statement:
`Start` (INSERT, then `go`), `MarkRunning`, `Progress`, `Finish`, and between them
the branches of the three bodies (`Select`, `ScanItem`, `PassItem`, `BodyFails`,
`BodyEnds`). `Boot`, `Reap` and `Stop` are the process. A statement can fail in the
two ways a caller cannot tell apart, never sent or answer lost (`Outcomes`). The
three bodies differ where the code does: a scan fails on a failed progress write, a
pass only logs it; a scan counts failed files and returns no error for them; an item
that ends a pass does so after its progress was written.

### Identity

`status` and `ids` are the two tables; `step`, `item`, `left` say which statement of
`RecordMatch`, `SetManual` or `Reset` an actor is at. An id is its provider and who
wrote it: all the properties tell apart. `todo` is the pass's snapshot. The match
decision is left to the environment. History: `decided` counts decisions since the
last reset; `mixed` are items that two writers were in at once, or one was cut short
in, until a whole write begins with nobody else in the item.

### Fields

One item. `stored`, `source`, `locked`, `row` are the tables; `step` and `queue` the
program counter of each writer over the fields it visits. The path of an edit is
unlock, (ensure row,) claim, write, lock; that of a refresh is the same without the
ends. A value is a set of entries, so that the genre list's DELETE and one-by-one
INSERTs are what they are. History: `wanted` is the value of the edit that stands,
`held` says that a lock taken is still owed, `open` that a field was unlocked at some
time in the current pass, `mixed` as above, per field.

### Refresh

`disk` maps final paths to versions of bytes, `temp` and `litter` are temporary files
with and without a living owner, `row` the image rows. A path is the image's own and
depends on the version only through its extension, as in `artwork.go`, so a new
version of the same format lands on the old one. `step` walks each library's pass
through sweep, reconcile, items, images, rename, claim, row. Faults: a download
fails, a pass is abandoned, the process dies, the cache directory is emptied.
History: `lost` are paths wiped since they were put in place, `over` images whose
file was replaced under a row, until the row is written or cleared, `calm` passes
that nothing disturbed.

### Playback

`row` is the `playback_state` row, `Evaluate` the thresholds, `Changes` the WHERE clause
that suppresses writes. A report is two steps, `ReadRuntime`, which also dates it, and
`Report`, and the handlers of several interleave; clients start, report, stop, fail and
send a stop again. Positions are whole seconds and the thresholds are compared as
integers (100 * position against 90 * length); the code computes the same fractions in
floating point, which could only differ within rounding of a threshold that is not a
whole number of seconds. Time is how often the clock was read. History: `shadow` is the
row had no write been suppressed, `final` the position of a stop sent while no report
was in flight.

### Scan and Catalogue

`known`, `identity`, `file` are the tables, `disk` what the owner has put there. A scan
is a program counter per library: walk, then for each found file the read of its row,
the probe and the statements of one transaction, which reach the tables at `Commit`; a
transaction waits for another one that has upserted the same path. A file's content is a
version, and two versions may have the same size. What the walk finds depends on the
roots, on nesting and on what cannot be listed (`FoundIn`, `SourcePath`). History:
`calm` and `settled` are files at which a scan met nobody else, `crossed` files probed
by one scan and then written by another that had read the row from before.

`Catalogue` has the same tables and none of this: a file is indexed with item, identity
and streams at once, or seen again with its streams left alone.

### Matcher, Picks and Decide

A title is the class of the spellings `normaliseTitle` makes equal; a candidate a title
and a year. `Match` is the tiers in the order of the code, with the year window and the
ambiguity test of each. `Decide` draws the candidates, the other titles the provider
has for each, and for every request an HTTP status: a search, then at most `AltLimit`
requests for other titles, then the second and last `Match`, then the ids; or the
details of a film with its images and certifications, of which `Picks` keeps one each.

### Routing and Access

A segment is a record: the word it spells without regard to case, whether it is spelled
as registered, its extension. `Walk` is the trie's descent with its return from a literal
to a parameter, `Way` the whole path from mount to handler. Each slot of `Access` is a
request: it is routed, authenticated by one of the three guards, and its handler runs
statement by statement, any of which may fail. The mux serves HEAD by the patterns of
GET (`Serves`). Tokens are numbered as they are minted,
the film's modification time is its capability tag. Routes are a selection of the table
in `api.go` in which every shape of pattern occurs, and every handler that changes state.

### Browse

`Query` is what the handlers make of a query string, `Matches` and `Before` the WHERE
and ORDER BY clauses with their NULLs, `Orders` every order the clause allows. A listing
is two statements; a client asks for pages until it has the total it was told. What a
row of `playback_state` says is three columns that listings filter and sort by, each by
itself: `played`, which stays, `resumable` (a position above 0) and `lastPlayed`; a
report may set them, and `Histories` is what was reported before. One film is the item,
its first file and that file's streams, read one after the other; playback info flattens
the device profile and judges. Between any two of them a scan or a player commits. The
columns of a file's row and its streams each have the number of the probe they are from:
`ProbesFile` writes both, `WritesBack` leaves the streams and puts back columns of an
earlier time.

### Startup and Process

`pc` is where `run` is. The wait has its own clock (`waited`), on which an attempt takes
any time up to its timeout and a pause its delay. The schema is the sequence of the
migrations run on it, `ledger` the rows of `schema_migrations`, `tx` what a transaction
will leave. A signal cancels the context: the next statement fails, the deferred unlock
does not. `Process` adds one request and one socket per process, whose handler and
pinger are separate goroutines with a connection between them, and a listener that may
fail by itself (`ServeFails`), upon which `Run` waits for nobody. A signal after the
first changes nothing, and is no action.

## The runs

All with `tlc -workers 2`; times are of a small machine.

| run | instance | checks | distinct states, time |
|---|---|---|---|
| `Jobs_one` | 1 library with its three kinds, 2 jobs, up to 2 items, 2 failed statements, 2 stops | `OneRunnerPerSlot`, `CompletedScanIsComplete`, `ImplementsBoard`, `JobsSettle` | 165 000, 30 s |
| `Identity_race` | 2 items, 2 providers, 2 users, batch of 1, 2 requests, 2 passes, 1 abort | `Coherent`, `DecidedOnce`, `ManualOutranksPass` | 2.5 million, 80 s |
| `Fields_race` | a scalar and the genre list, 2 users, 2 requests, 1 pass, 1 abort | `EditSurvives`, `LockHolds`, `SourceTellsTruth` | 860 000, 30 s |
| `Playback_race` | 2 playbacks, 2 handlers, 6 positions around the thresholds, 3 runtimes, 1 progress report, retry, probe, abort each | `SuppressionCostsOnlyDates`, `ResumeWithinThresholds`, `CountAccounted`, `StopDecides` | 2.8 million, 75 s |
| `Refresh_shared` | 2 libraries of one item (one of them without an answer from the provider), 3 versions in 2 formats, 2 passes, 1 fault, lock and new offer each | `RowHasFile`, `TagTruthful`, `PassHeals` | 3.9 million, 95 s |
| `Scan_overlap` | 2 libraries with nested and shared roots, 3 versions of which two have one size, 3 scans, 2 replacements, 1 fault | `TypeOK`, `ScanTruthful`, `BareItemWasRobbed`, `ImplementsCatalogue` | 1.1 million, 95 s |
| `Decide_all` | every search of up to 3 candidates over 3 titles and 4 years, every answer; every list of up to 2 images, 2 regions | `DecideTypeOK`, `NeverOneOfSeveral`, `DeclinesAreJudged`, `RankingIrrelevant`, `BestInAnyOrder` | 1.8 million, 30 s |
| `Access_gate` | 2 requests in flight from a device, an anonymous client, a stranger and two operators, 2 tokens, 2 times of the film, 21 requests | `TypeOK`, `SetupOnce`, `LiveCredentialAccepted`, `CapabilitiesOfDevice`, `DeadTokenNeverEnters`, `RoutedAsSpelled` | 1.6 million, 85 s |
| `Browse_walk` | 3 films of which two tie and one has no year, 2 libraries, pages of at most 2, 24 requests, 5 profiles, 2 writes, 1 failed statement | `BrowseTypeOK`, `WalkComplete`, `AnswerStaleOrTrue` | 5.1 million, 130 s |
| `Process_life` | 2 processes, three fleets (two releases; one; one that edited a migration), a budget of a few pauses, 2 boots, 1 fault | `LedgerIsSchema`, `ReadyMeansMigrated`, `PatienceIsBudget`, `EndsAreClean`, `NothingWaitsForEver` | 360 000, 190 s |
| `Refresh_locked` | 1 image, 2 passes, no fault | `LockedImageKept` | violated |
| `Browse_refused` | as `Browse_walk`, 1 write | `NoFalseRefusal` | violated |

The type invariants of `Jobs`, `Identity`, `Fields`, `Refresh` and `Playback` are proved
and not run.

### What the passing runs say

* **Jobs_one.** However the process stops, however statements fail, the goroutines
  of one slot exclude each other, as long as processes do not overlap, and a completed
  scan has counters that agree.
  `ImplementsBoard` sums it up: with the goroutines, processes and failures hidden,
  the table is a job board. `JobsSettle`: without a failed statement every accepted
  job reaches an outcome, through stops and restarts.
* **Identity_race.** Under every interleaving and abort, the pass never changes a
  manual status and decides an item at most once between resets; and status and ids
  agree wherever writers did not overlap. `Coherent` does hold in states where others
  did overlap earlier: it takes one undisturbed write to repair an item.
* **Fields_race.** `LockHolds` has no such exception for overlaps, only for an edit cut
  short after its unlock: it is all the claim in `claimField` gives under interleaving. `EditSurvives` and `SourceTellsTruth` need
  that nobody overlapped in that field.
* **Playback_race.** `SuppressionCostsOnlyDates` compares, in every state, with a row that
  is always written, in all but its date. `CountAccounted` bounds the count from both sides by the
  playbacks that ended complete, up to reports cut short and sent again. `StopDecides`
  holds for a stop sent once earlier reports were answered.
* **Refresh_shared.** Rows are written after the bytes are in place, so through
  everything that can go wrong a row names a file that is there, or was wiped; tags
  are right except half-way through a full refresh; and a pass that is not disturbed
  answers every image type of every item it has an id for, and has the bytes of every
  image it advertises, whatever was lost before.
* **Scan_overlap.** Whatever dies in between, what readers see moves like the
  catalogue. A scan that met nobody at a file leaves it described as it is on disk,
  unless its new content is as long as an earlier one; row and streams are of one probe
  unless two scans crossed there; and an item without a file lost it to another one.
* **Decide_all.** A match is better than every candidate that was compared, and loses to
  nobody in the year window when everybody was asked; a decline is never a failed
  request; the order in which the provider ranks candidates or lists images decides
  nothing; a certificate is never another region's.
* **Access_gate.** Behind `requireAuth`, a handler is entered only with a session that
  stood when its token was looked up; a credential that is still good is turned away
  only when the database failed; a report lands in the session it was authorised by;
  one account comes of any number of racing setups. Every path sent is answered by
  the most specific route it spells, or by nothing.
* **Browse_walk.** A list that nobody wrote to while it was walked shows every film once,
  with ties, NULLs, page ends and the count of its view agreeing; an answer about a
  film is what the film's row has, file and streams, unless its tag already tells that it
  is old. Of one probe it is where the row is: a row that crossing scans have left with
  two is answered as it stands, under a current tag.
* **Process_life.** Releases that start together leave the schema of one of them, and
  nobody serves over less than its own; waiting ends within the budget and one attempt,
  and does not end earlier than it must; a handler that returned left no goroutine; a
  start, a signal and a vanished peer all come to an end.

### Why these bounds

Two of everything that competes (jobs, users, handlers, libraries, playbacks, requests,
processes), since every property is about a pair or about one actor and what was there
before; two passes or stops, so that the second meets what the first left; one fault
more than the property can bear by itself; batch sizes at, below and above the number of
items. Positions are those on both sides of both thresholds, 0, and -1; runtimes are 0
(unknown), one too short to resume and one that is not. Positions, runtimes and versions
are not arithmetic progressions: more values would repeat the same comparisons. Three
candidates are the one chosen, its rival and one that is beyond the limit of the second
look; three films are the two that tie and one that does not, three versions of a file
two that size cannot tell apart and one it can. Each bound (`MaxFaults`, `MaxRequests`,
...) is a guard, named in the module that has it. For the safety properties listed below
the proofs then lift the bounds.

`CHECK_DEADLOCK FALSE` is in every configuration but `Access_gate`, where a client can
always send something: elsewhere the system really may stop when nobody sends another
request, and in a bounded instance it also stops when requests, ids and passes run out.

Symmetry: users in `Identity` and `Fields`, playbacks and handlers in `Playback`,
requests in `Access`; never with a liveness property.

### Fairness

`JobsSettle` and `NothingWaitsForEver` need some; no other property does, and no other
run states any.

`Jobs`: `WF(Run(j))`, as the Go scheduler runs a runnable goroutine, which runs under a
context nobody cancels. It takes for granted that each call in it returns: provider calls
and probes have timeouts, statements rely on PostgreSQL to answer or to break the
connection. `WF(Boot)`: the container is `restart: unless-stopped`
(`docker-compose.yml`). `WF(Reap)`: starting up reaches it, as nothing before it waits
without a limit. Requests are not fair, stops are bounded but not prevented, and a job
whose own statement failed is exempt.

`Process`: for each process `WF` of its own steps, of a statement that is under way, of
the socket's reader and of its pinger, which are four goroutines (or the server's
answer). An attempt to connect ends by its timeout and a pause by its timer, so weak
fairness is enough for them; the lock is waited for under weak fairness too, which
suffices because starts are bounded and whoever holds it gives it up. Not fair: clients,
their streams, peers, signals, kills, boots, a listener that fails, and the database, which
may stay down. Reader, pinger and statement are named for the processes clients talk to
(`Visited`); the others have no request and no socket.

### What the failing runs say

Each one checks what a comment of the repository says against what the code does;
`PROJECT.json` quotes the line.

* `Refresh_locked`: a full refresh renames new bytes over a locked image's file before
  it asks for the lock (`service/artwork.go:110`).
* `Browse_refused`: the entries of a device profile are flattened into three lists, so
  that what one entry leaves open is taken to be constrained by another entry's list,
  and a film that the device plays is refused (`compat/jellyfin/playback.go:160`).

## What is proved

By TLAPS, for every value of the constants that satisfies the named assumptions in the
modules. These give the constants their types: bounds are naturals, the pass is no user,
`Own` is a provider, years and scores are integers, `Untitled` is a title, the device
without an id is a device and none is called `native`, a provider's certifications are
lists of strings, no segment of a path that a client sends has a slash in it, and the
like. None of the theorems assumes how many items, users, libraries, processes, films or
images there are. That they are finitely many is assumed where a sum or a count would
have no meaning otherwise: the films of `Browse` (`BrowseAssumption`) and the items of
`Refresh` (`ItemsFinite`).

Three hypotheses are not assumptions of a module but stand in the theorems that need them:

* those of `ProcessProofs` about the schema assume `Numbered`: the migrations of a release
  are numbered 1, 2, and so on, as those in `internal/db/migrations` are. The loader asks
  only for different positive numbers; with a gap that a later release fills, the schema
  would be the beginning of no release;
* `Patience` assumes `PausesGrow`, that the first pause is no longer than the longest, as
  in `defaultRetryPolicy` and in the policies of the tests;
* those of `JobsProofs` but the first two are about processes that do not overlap
  (`~Overlap`), see the rolling restart below.

| module | theorems |
|---|---|
| `JobsProofs` | `TypeCorrect`, `ActiveRowsUnique`, `RunnersExclude`, `ReapIsSafe`, `OutcomesAreFinal`, `JobsImplementBoard`, `ScansAddUp` |
| `IdentityProofs` | `TypeCorrect`, `PassDecidesOnce`, `PassYieldsToManual`, `StatusAndIdsAgree` |
| `MetadataProofs`, of `Fields` | `TypeCorrect`, `EditsAreLocked`, `RefreshRespectsStandingLocks`, `LocksComeBack`, `EditsSurviveRefreshes`, `ProvenanceIsTrue` |
| `MetadataProofs`, of `Decide` | `DecideTypeCorrect`, `MatchesStandAlone`, `DeclinesJudged`, `RankingDecidesNothing`, `ArtIsBest` |
| `ClientProofs`, of `Playback` | `TypeCorrect`, `EvaluateSound`, `SuppressionIsSound`, `RowIsCoherent`, `PlayedIsSticky`, `ResumeIsResumable`, `StopIsLast`, `ViewingsAreCounted` |
| `ClientProofs`, of `Browse` | `BrowseTypeCorrect`, `WalksAreComplete`, `AnswersAreCurrent` |
| `RefreshProofs` | `TypeCorrect`, `RowsHaveFiles`, `TagsAreTruthful`, `OrdinaryPassesKeepBytes`, `PassesHeal` |
| `ScanProofs` | `WellTyped`, `DescribedAsOnDisk`, `BareItemsWereRobbed`, `CatalogueImplemented` |
| `AccessProofs` | `MostSpecificIsOne`, `ReachedRegistered`, `AccessTypeOK`, `OneAdministrator`, `LiveAccepted`, `ReportsLandAtHome`, `NoDeadToken`, `ReachedAsSpelled`, `RoutingAsSpelled` |
| `ProcessProofs` | `OneMigrates`, `LedgerTrue`, `ReadyOnlyMigrated`, `StartsAgree`, `Patience`, `CleanEnds` |

So every safety property that a passing run checks is a theorem. Some theorems state
what no run repeats, because a run would cost more than it adds once the theorem is
there: the type invariants of `Jobs`, `Identity`, `Fields`, `Refresh` and `Playback`,
`ReapFindsOnlyOrphans`, `OutcomeIsFinal`, `RefreshWritesOnlyOpen`, `EditLeavesLock`,
`RowCoherent`, `PlayedSticky`, `OnlyFullReplaces`, `StartsDoNotCollide`.

The arguments:

* **Jobs.** The unique index gives `ActiveRowsUnique`. It is about rows; to say
  something about goroutines one needs that a living goroutine's row is active, which
  holds because everything that ends a row (`Finish`, `FailOrphaned`) ends the
  goroutine with it, or finds it dead. That needs processes that do not overlap:
  see the rolling restart below. From the same invariant each step maps to a step
  of `JobBoard` or a stutter. `ScansAddUp`: a scan's row has the counters its goroutine
  last wrote (`SucceededScanIsCounted`), and the goroutine only comes to its `Finish` once
  it has been through every file it found.
* **Identity.** `DecidedOnce`: what is left of the snapshot has no decision recorded
  since its last reset, as only the pass records one and takes the item out as it does. `Coherent`:
  `CoherentInv` adds what ids may be there while a writer is between its statements
  (`Midway`), that in an unmixed item there is at most one such writer (`Apart`), and
  that what is left of the pass's snapshot is still pending, or became manual
  (`SnapshotHolds`).
* **Fields.** `LockHolds`: a held field is locked, or an edit is past its unlock and on
  its way to the lock (`LockIsComing`). `EditSurvives`: in an unmixed field a standing edit is locked, so a claim
  is refused, and nobody else is past a claim (`Apart`, `MidField`). `SourceTellsTruth` (`TruthInv`):
  whoever claims a field alone and is past its write has left there what it asked for, under
  the name it claimed with, and whoever only claimed has changed nothing yet.
* **Decide.** A decision is `Match` of what is attached, made once at first sight or again
  when everybody worth asking had been asked or was out of reach (`Judgement`).
  `MatchChooses` says which candidate the tiers leave; the one left is nearest of those
  called that, because whoever is as near is in the same tier, and whoever is outside the
  year window is farther. The opposite order is an involution of the places, under which
  each tier is the image of itself. For the images, `BetterImage` orders what is listed
  strictly and totally, as no file is listed twice (`BetterOrders`); the look along the list
  keeps the best so far (`BestIsBest`), and there is only one best.
* **Playback.** The suppressed write is compared case by case with the one it
  replaces, in all columns but the date; the pending judgement of each handler is shown to be `Evaluate` of its
  report. `StopDecides` (`StopHeard`): a stop sent into quiet is in the hands of the one
  handler there is, or stored as it was sent. `CountAccounted`: the books of what was
  counted, what is still owed by stops under way (`Owing`) and what was lost with a cut
  report balance in every step.
* **Browse.** The ORDER BY clause of each sort is a strict total order of the films a
  statement returns, so a film has a place in it, the number of those that come before, and
  whatever order the statement may return has it in that place (`PlaceInOrder`). Pages
  asked for one after the other therefore continue each other, over statements that know
  nothing of one another (`Walk`), and the last one ends where the count said. For
  `AnswerStaleOrTrue` (`ReadIsCurrent`), what a request has read of a film while the tag is
  current is what the row has still, as each write to the row of one of the film's files
  moves the film's tag, or takes the row away from it.
* **Refresh.** `RowHasFile` follows from `PutInPlace`: what a pass is about to record
  was renamed into place before. `TagTruthful` and `OnlyFullReplaces` come from one
  invariant, `TagInv`: passes stay on their own library's images (`OnOwn`), so paths
  are disjoint; a pass that is not full only downloads for images without a row
  (`Fresh`); what it will record is what is on disk (`Matches`). `PassHeals` (`HealInv`): a
  calm pass has, behind it, every item it went through with its bytes and its answers
  (`FilesHeal`, `ItemsHeal`), and nobody else works on its library's images (`ClaimsOwn`).
* **Scan.** `IInv`: a row is never taken away, so the row a scan read, however old, is
  one the file had (`ARow`): its item is in the table, its container is of a content no
  later than the one on disk, and its size is that of a content no later than the
  container, because a probe follows the walk that measured the size. Both ways to write
  a row keep that (`WrittenIsARow`). While the file is calm, what a scan holds is what is
  on disk and in the table (`HandOf`, `WriteOf`), which gives the second half of
  `ScanTruthful`. A commit then is `Index` or `Revisit` of the catalogue, and the latter's
  guard is that a transaction without a reading has a row to go over.
* **Access.** Any set of routes that one path matches has a most specific one, because
  patterns of one length differ in one segment at most in where they have literals. `IInv`
  says of every row that its token was minted for its device (`RowsOk`), of every device
  that its last token still is in its row (`UsableHaveRows`), of every request what it holds
  where it is (`Requests`), and of the setup that whoever is past the count of accounts holds
  the lock and there is none (`SetupInv`). Sessions are only ever replaced in place by a
  login of the same device, which is what `CapabilitiesOfDevice` and `LiveCredentialAccepted`
  come down to.
* **Routing.** The walk of the trie is a function of the node it is at (`Walked`), and from
  each node it finds, of the shapes below that the rest of the path spells, one that has
  the literals of all others, or there is none (`Right`, from the deepest nodes up:
  `StepRight`, `WalkRight`). A literal child that succeeds may be preferred because of two
  shapes of one length that differ, the one with the literal covers the other (`Nested`).
  Folded to that shape, a path matches byte for byte exactly the patterns it spelled in any
  casing (`FoldedIs`): their literals are among those that were rewritten, and what was
  left alone is a parameter of the best of them. Cutting the container off concerns one
  route (`NormalizedIs`). So the mux chooses among the routes that were spelled
  (`ReachedAsSpelled`), and `RoutedAsSpelled` follows for each request that is dispatched.
* **Process.** `IInv`: the lock is held from the load of the ledger to the unlock
  (`Exclusive`), so what was loaded is what there is (`LoadedIsCurrent`); ledger and
  schema agree (`Recorded`) and the schema begins some release (`SomeRelease`). A ledger
  that is part of this release then is its beginning (`VerifiedBegins`), what is pending
  is the rest (`PendingIsRest`), and the migration under way is the next one
  (`NextUnderWay`). Serving, draining, sockets and kills leave all of it alone. `PatienceIsBudget`
  (`WaitInv`): an attempt begins within the budget, and the pause after it is the shorter of
  its delay and what is left. `EndsAreClean` (`EndInv`): a handler waits for its goroutines,
  and a process past its drain has cut off nobody it has not told.

Only model-checked: liveness, `JobsSettle` and `NothingWaitsForEver`. What weak fairness
brings about is beyond the prover.

## Behaviour to know about

Met while modelling, described rather than run, because the code contradicts nothing
it says of itself in that place, because a property names the exception, or because no
interleaving is needed to see it.

Jobs and process
* A rolling restart: the new process's reap fails every active row, also those of a
  process that still runs (`cmd/reelixd/main.go:107`), and the freed slot admits a second
  goroutine. `migrate.go:28` provides for processes that start at once; `Jobs` has
  `Overlap` to show what then still holds (`ActiveRowsUnique`).
* A `Finish` that fails leaves the row active until the next start.
* An old process goes on serving over the schema of a newer one that started beside it;
  it finds out at its next start.
* A signal while the process waits for the database is reported as having given up.
* Signals after the first are swallowed until `run` returns, as they stay registered until
  the deferred `stop` (`cmd/reelixd/main.go:64`). The comment above says that a second one
  forces an exit. The drain has its timeout, and a kill is not caught.
* When the listener fails by itself, `Run` returns at once and requests are cut off; the
  exit is an error, so `EndsAreClean` allows it.

Identification
* A correction between a match's UPDATE and its ids leaves a manual item with the pass's
  ids (`repository/identity.go:138`); a reset that deletes the ids after a match has
  written them leaves a matched item without ids (`:189`). `Coherent` excludes both
  through `mixed`.
* When a request for a candidate's other titles fails, or the candidate is beyond the
  limit, an ambiguity goes unseen and another candidate is matched, although
  `service/identity.go` calls a decline the worst that can come of it.
  `NeverOneOfSeveral` is about those that were asked.

Fields and refresh
* A lock taken between a refresh's claim and its UPDATE does not save the value
  (`repository/metadata.go:106`). `EditSurvives` excludes it through `mixed`.
* An edit of the genre list that overlaps a refresh leaves a mixture of both lists
  (`repository/metadata.go:142`).
* An edit that fails after its own unlock leaves a formerly locked field unlocked
  (`service/metadata.go:108`); `held` ends there. One refused because somebody locked the
  field after its unlock is answered as done (`:118`).
* A crash between the rename and the row of a full refresh leaves the old tag on new
  bytes; that image stays in `over` until a full refresh reaches it.
* A pass sweeps away the temporary file of another library's live download
  (`media/artwork/artwork.go:281`); the download fails and the next pass repairs it.
* A new image of another format is stored under another extension, and the file of the
  old one stays (`media/artwork/artwork.go:151`).
* A full refresh covers one batch, always the oldest items (`service/metadata.go:237`).
  An item of which the provider knows no field with a column never gets a metadata row
  and is fetched by every pass (`repository/metadata.go:226`); enough of them keep newer
  items waiting. `PassHeals` is about libraries that fit.

Scan
* A root that exists and cannot be listed yields nothing and no error, though
  `media/scan.go` speaks of one.
* Two scans that cross at a file leave the row of one probe over the streams of another
  until its size changes (`crossed`). Playback info is then decided on those streams and
  that container, under a current tag, until the file is probed again (`Browse.WritesBack`).
  A file replaced by one of the same length is not
  probed again, as the comment there says.
* With nested roots, or two libraries over one directory, a file moves between items
  with every scan, and its former item is left without one.

Playback
* A stop delivered twice counts two viewings (`repository/playback.go:46`).
* A progress report that overtakes a stop reopens the resume position.
* A suppressed report leaves the date, and so the place in Continue Watching, of the last
  one that was written (`repository/media.go:604`): a film that is paused for an hour is
  as old there as the pause. `repository/playback.go:33-35` calls the write that is saved
  one of identical contents; it would have had a later `last_played_at` (`:47`), which is
  why `SuppressionCostsOnlyDates` leaves that column out.
* Of two reports in flight the one dated first may be written last
  (`service/playback.go:223`); the date of the row then goes back.

Access, routing, browsing
* A token that could not be looked up because the database failed is answered 401
  (`compat/jellyfin/api.go:205`), which clients take for the end of their session.
* A login that fails after the session was written (`compat/jellyfin/handlers.go:148`)
  has ended the previous token all the same.
* The fold does not know the method: in `GET /users/authenticatebyname` the value of a
  parameter is rewritten to the casing of the literal of another method's route.
* A device that lists only "mkv" is refused a matroska file whose probe says
  "matroska,webm", though the server itself names the container mkv.
* `maxPremiereDate` compares the year in the file's name (`items.go:419`), the answer
  shows the provider's.
* Offsets shift under writes: a list walked while films come and go can repeat or miss
  some.

## What is not modelled

* Configuration, logging, type declarations: no state, no order of events.
* Shapes of DTOs, track labels, provider id names, the editor's table of fields, the
  native API's decoding and its mapping of errors to statuses: translation.
* The HTTP client of the provider, the output of ffprobe, the text rules that parse file
  names and normalise titles, password hashing and token arithmetic: their outcomes,
  success, failure, any value, are choices of the actions that call them.
* What a metadata refresh stores, as listings show it beside their rows: it orders and
  selects nothing there. How it is stored is in `Fields` and `Refresh`.
* HTTP caching headers, range requests and the copying of bytes.
* The web client's files, capture tools, container files.
* Deleting a library: the repository can, and nothing calls it.

## Plan

Modelled is what the repository has of concurrency, failure and order, and proved is what
the runs check of safety. What is left:

1. `Startup` as a refinement of a plain ledger, as `Jobs` is of `JobBoard`.
2. What of liveness is safety in disguise: that there always is a step left to take, for
   jobs and for starts.
