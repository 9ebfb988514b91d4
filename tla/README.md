# mafw-tracker-source in TLA+

`mafw-tracker-source` is a plugin of the Multimedia Application FrameWork
(MAFW). It shows the music, videos and playlists that the Tracker indexer has
found as one tree of objects (`localtagfs::music/artists/...`) that can be
browsed, asked for metadata, updated and deleted. This directory holds TLA+
models of its C code (`src/libmafw-tracker-source/`), TLC configurations that
check them on small instances, and proofs that TLAPS checks for every size.

## 1. The system

Everything runs in one thread, in callbacks of the GLib main loop. A request
allocates a closure, sends a query to Tracker and returns; the answer comes as
a callback, which may send another query, start another request of the same
source, or install an idle source that hands the results over one per
dispatch. What makes the code hard is therefore not data races but *what can
happen between two callbacks that share a closure*: other requests, a
cancellation, answers in any order, an error half way.

| Component (file) | State | Operations | Interacts with |
|---|---|---|---|
| Browse operations (`mafw-tracker-source-browse.c`) | a closure per operation: results, counters, `cancelled`; the list `pending_browse_ops`; `browse_id_counter` | `browse`, `cancel_browse`, one callback per kind of query, the emission idle, the durations idle, the error idle | Tracker queries; `get_metadata(s)` for playlists, the root and music; itself, to compute playlist durations |
| Metadata (`mafw-tracker-source-metadata.c`) | a closure shared by all requests of one call (`remaining`, `error`, `metadatas`) and a closure for each request | `get_metadata`, `get_metadatas`, the answers of groups and single ids, the emission idle, `set_metadata` and its idle | Tracker queries; browse, for playlist durations |
| Source object (`mafw-tracker-source.c`) | closures of `destroy_object` (files to delete, how far it is), last progress | `destroy_object` and its idles, `get_update_progress`, plugin set-up | Tracker queries, the file system |
| Queries to Tracker (`tracker-iface.c`) | a closure per query; for metadata, rows collected chunk by chunk | `ti_get_*`, their answers, `ti_set_metadata`, notifications of the miner | Tracker (SPARQL over D-Bus), the cache |
| Cache (`tracker-cache.c`) | per query: the keys asked, the column of each, the rows | adding keys, building metadata from rows, aggregation | key mapping, album art |
| SPARQL builder, key mapping, utilities | none between calls | query text, tables of keys, parsing object ids | |
| Album art (`album-art.c`) | none | names of picture files | the file system |

Hard behaviours, component by component (the full list, at their lines, is
under `hazards` in `PROJECT.json`):

* **browse**: cancellation between any two callbacks; the pending list is a
  list of raw pointers; an unsigned count of remaining results; children that
  answer in any order; nested browses that write to their parent's closure;
  error paths that install nothing.
* **metadata**: up to three group queries, single queries and nested browses
  share one counter; a group may be answered with an error or with fewer rows
  than ids; rows are paired with ids by position.
* **Tracker queries**: a query of many keys is split in chunks whose rows are
  matched by position while the database may change; existence check and
  update are two requests; the same object is described along two different
  paths, as a row of a listing and by itself.
* **Cache**: which column of the answer a key is read from is settled when keys
  are added, and again, independently, when the statement is written: places
  skipped, keys added late and keys that Tracker does not have must not set the
  two apart. Aggregates go into arrays of fixed sizes.
* **SPARQL builder**: filters become text without parentheses, with numbered
  values and variables.
* **destroy**: deletions spread over dispatches from a list made at the start.

## 2. The modules

| Module | What it is |
|---|---|
| `BrowseContract` | what a caller of `browse()` is promised: one error, or a countdown of results; nothing after the last or after a cancellation |
| `Browse` | the browse operations; implements `BrowseContract` |
| `BrowseProofs` | safety of `Browse` for every number of requests and rows: counters, callbacks, the pending list |
| `BrowseResultsProofs` | what `Browse` delivers, and that it implements `BrowseContract` |
| `MetadatasContract` | what a caller of `get_metadatas()` is promised: one callback, with all metadata or an error, not before everything is answered or refused |
| `Metadatas` | one `get_metadatas()` call and its fan-out; implements `MetadatasContract` |
| `MetadatasProofs` | the shared count and closure, and the contract, for every number of object ids |
| `Lists`, `ListsProofs` | parts of lists, defined without recursion, and what they return |
| `Chunks` | one metadata query to Tracker, asked in chunks |
| `ChunksProofs` | chunks make one answer, for every number of files, uris and properties |
| `TrackerCache` | the cache of a query: adding keys, columns, building metadata; the tables of keys |
| `SparqlBuilder` | the statements, filters included, and what Tracker answers to them |
| `Catalog` | one query from the object id to the metadata it tells: composes the three above |
| `MCCatalog` | the libraries, filters and queries to check `Catalog` with |
| `QueryProofs` | adding keys in any number and order keeps columns and keys paired, the columns few and the entries well-formed; a statement asks for what it was made from, filters of any depth included |
| `CatalogProofs` | keys are read from the columns they were asked in, aggregates fit their arrays, chunks make one answer, listings have the rows asked for, containers are told as their files and children are: for every query |
| `Changes` | `destroy_object()` and `set_metadata()`, with other programs at work on the same files |
| `ChangesProofs` | what `destroy_object()` and `set_metadata()` report, and who wins, for every number of files, keys and calls |

### Browse

`op[c]` is the closure of the `c`-th call of `browse()`, user or nested. Its
`phase` says what is to happen to it next: which Tracker callback is on its
way, which idle source is installed, or that nothing is (`failed`, `unparsed`,
`freed`). Users call `Browse` and `CancelBrowse`; each other action is one
callback of the main loop:

| Action | Code |
|---|---|
| `QueryAnswer` | `_browse_tracker_cb` |
| `SongsAnswer` | `_browse_enqueue_videos_cb` (the recursive root: songs, then videos) |
| `ChildAnswer` | `_consolidate_metadata_cb` (the children of the root and of music) |
| `PlaylistsAnswer` | `_browse_playlists_tracker_cb` |
| `AskDuration`, `SkipDuration` | `_add_playlist_duration_idle` |
| `EntriesAnswer`, `EntriesLost` | `_browse_playlist_tracker_cb`, called by `get_metadatas()` or never |
| `EmitResult`, `EmitLast`, `DropCancelled` | `_emit_browse_results_idle`, with the free that follows the last dispatch |
| `SendError` | `_send_error_idle` |

`Heard` is the callback of a nested browse (`_get_playlist_duration_cb`): it is
run by whichever action of the child makes a callback with remaining count 0,
and moves the parent on. It also sends the total to Tracker
(`ti_set_playlist_duration`, `mafw-tracker-source-browse.c:1504-1509`), which is
left out, here and for the durations of `Metadatas`: the update is asynchronous,
its outcome goes nowhere, no operation waits for it, and what Tracker knows
about durations is a free choice whenever it is asked. `log` records the
callbacks each call received; it is what the properties are about. A playlist
file is parsed synchronously by the Totem parser, an external library:
`ParsedPlaylists` lists what it may find.

A result is abstracted to the row it came from (`<<"song", 2>>`, the second
song there is). `offset` and `count` are the window asked for; the recursive
root applies the same `offset` to songs and to videos. Sorting, filters and
metadata values are left out. `get_metadata(s)` is seen
from outside here: it answers, or, for two or more local entries of which
Tracker does not know all, it may not (`EntriesLost`, only when the constant
`UntrackedEntries` is TRUE); `Metadatas` shows why.

`remaining_count` is unsigned: `Decremented` wraps from 0 to `G_MAXUINT`. It does
so in every operation that emits its last result: `_emit_browse_results_idle`
decrements it behind the last result too (`EmitLast`), just before the closure is
freed. `RemainingCountExact` says that the count is exact until then, and that
no callback ever carries the wrapped value.

### Metadatas

`lookups` and `groups` hold the closures that wait for Tracker (or for a nested
browse). `Collect` is `_get_metadata_tracker_cb`, `GroupAnswer` and
`GroupFails` are `_get_metadatas_tracker_cb` and
`_get_metadatas_tracker_from_playlist_cb`. A metadata is the number of the
object it describes, so that a wrong attribution shows. `Found` and `Paired`
say which rows an answer has and how the code pairs them with object ids:
Tracker leaves out what it does not know, and pairing is by position. Once the
common closure is freed, handlers that still refer to it would use freed
memory; the model stops there, and `FreedByTheLast` says when it happens.
`failed` and `lost` are history variables for the properties.

`MetadatasContract` is the call from outside, as `Browse` sees it: its `Succeed`
and `Fail` are what `ChildAnswer` and `EntriesAnswer` of `Browse` receive, and
an object that is `lost` is `EntriesLost`. That an object asked for alone is not
lost unless its duration is to be computed is why `EntriesLost` needs two or
more local entries: entries are songs, whose durations Tracker knows.

### Chunks

One closure of `_do_tracker_get_metadata` (`GetMetadata`) until it is freed.
`ChunkAnswer` is `_tracker_sparql_metadata_cb` without an error, all of it:
`Appended` is `_append_sparql_tracker_result`, `Answered` the step that puts
the rows in the order of the uris, and the statement that asks the next chunk
is told by `columns`. `ChunkOverrun` is the same handler when a later chunk has
more rows than the first and the array of rows is read beyond its end.
`ChunkFails` is an error answer, `EmptyAnswer` the idle for a query that has no
property to ask. `Index` is the indexer, between any two chunks.

A value is the pair of its file and property, so that one in the wrong row or
column shows. Statements have no ORDER BY: the order of the rows is Tracker's
and is taken to be the same each time (with an order that varies the rows would
be mixed up even if nothing changes). One row per file is assumed, as in the
code, which says "our query returns distinct results" (`tracker-iface.c:443`)
and aborts otherwise (line 367). `odd` flips with every answer: without it the
same chunk asked again would be a step that changes nothing, and asking without
end would pass for standing still.

### TrackerCache

A cache is a record: `entries` says of each key where its value is to come from
(`kind`: a column of the answer, precomputed, derived from another key, the
thumbnailer, or nowhere), `last` counts the columns. The operators are the
functions of `tracker-cache.c`: `KeyAdd`, `KeyAddUnique`, `KeyAddConcat`,
`KeyAddPrecomputed`, `KeyAddDerived`; `KeysGetTracker` is the array of keys by
columns, in which an unused place is a NULL (`Hole`) and `KeysFrom` what a loop
over it sees; `ValueGet`, `BuildMetadata` and `BuildAggregated` make metadata
from rows. A value is a cell, the set of its texts or numbers: `{}` is NULL,
`{""}` the empty text, and several texts are what the code keeps as "a|b" and
tells as "Various". The tables of `key-mapping.c` are sets of keys.

### SparqlBuilder

A statement is a record of clauses (optional and mandatory patterns, with the
numbers of the variables they bind), terms of the FILTER and the values bound
to them. The expression of a FILTER is written without parentheses round its
parts; the model keeps what such a text means, alternatives of conjunctions
(`Joined`, `Negated`), so that nesting is lost in the model as it is in the
code. `Translation` makes the text of a filter of those of its parts (`Translated`);
`Depth` says how deeply a filter is nested, so that there is an end to it. `Translation` also says which filters are not translated (`failed`) and
which make the translation loop for ever (`endless`). `Accepts`, `Aggregated`
and `Rows` are Tracker, an external service: unbound variables, three-valued
conditions, GROUP BY, sums, counts and concatenations. `Judged` and `Satisfied`
are what a filter means taken at its word, and `Sound` the filters whose text
means that; they are what the listings are compared with, not code.

### Catalog

`Ask` is the call: `CategoryInfo` (`util_extract_category_info`) and `PlanOf`
(the branches of browse and the switch of get_metadatas) lead to a plan, which
is what one function of `tracker-iface.c` does with its arguments: what it
lists or groups by, how deep childcounts go, what it concatenates, how large its
arrays are, whether it makes a builder of its own. `AddKey` adds the user's keys
one at a time, `Send` and `SendClips` send the statement, `TrackerAnswers`,
`TrackerFails`, `NothingAsked` and, for clips, the actions of `Chunks` are the
answers. `Result` and `Ids` are what the callbacks tell. Object ids are
sequences of texts. `Outcome` computes in one go what another query would tell
of the same library, for the properties that compare two queries.

### Changes

`op[r]` is the closure of the `r`-th call. A destroy goes from `querying` (only
for an artist or album) to `deleting`, one `DeleteFile` per dispatch of
`_destroy_object_idle`, to `DestroyEnds`; `DestroyRefused` are the object ids
that may not be destroyed. `gone` is history: the files that this call has
removed. A set is `updating` while its idle source is installed. That dispatch
blocks on Tracker twice, so it is two steps, `ObjectExists` and `UpdateKeys`
(or `UpdateError`), with `busy` keeping every other handler and every call out
in between, but not the other programs: `Touch` makes or removes a file, `Mine`
is Tracker's miner catching up. A file may not be deletable although it is
there; Tracker may answer with an error at any point.

`KeysArray` is `keys_array` up to its first NULL. What key is writable, which
keys Tracker has for songs and for videos and that `last-played` of a song must
be a long are the tables and tests of the code. `stored` has the call whose
value Tracker holds. Handlers run in any order, except that `set_metadata()`
idles run in the order they were installed (`Turn`), which GLib guarantees for
sources of one priority. That the update finds its object by `nie:isStoredAs
'uri'` where the check uses `nie:isStoredAs/nie:url` is taken to be the same.

## 3. What is checked

| Run | Instance | Shows |
|---|---|---|
| `browse_pair` | 2 user calls of any kind that does not nest, up to 2 rows, from the first or the second on | no callback after a cancellation or after the last one; the pending list is exactly the closures allocated and not freed; `remaining_count` is exact as long as anything depends on it; results complete, in order, within `item_count`; pages do not overlap |
| `browse_nested` | 1 user call of any kind, up to 3 rows, so up to 3 nested browses | a parent waits for just the child it started; each missing duration is asked for once; every call is answered and settles; callbacks are those of the contract (refinement) |
| `metadatas_fan` | up to 3 object ids of every kind, with and without durations | `remaining` is exact; the closure is freed by its last user unless a group failed; an answer without an error is complete and correctly attributed; the call is answered unless a row was missing; callbacks are those of the contract (refinement) |
| `catalog_all` | 3 files in 4 libraries; queries of every kind of container and listing, with and without filters, and of clips; keys of every kind alone, in pairs, and all aggregates at once; one change of Tracker's data | each key is read from the column it was asked in and the aggregates fit their arrays; metadata of containers and clips are those of the files in Tracker; a listing tells of an object what get_metadata tells of it; childcounts count what a browse lists; a listing has the rows it should have; chunks put together the answer of a single statement while Tracker does not change; the query ends |
| `changes_both` | 2 calls on 2 songs and a video, lists of 2 of 3 keys, 1 file made or removed by others | a destroy tries each file once and reports an error exactly if one was not deleted by it; an answered set has set what it does not report; the signal follows a change; the later set wins; one callback each |
| `browse_leak` | violation | an operation that failed stays pending for ever |
| `browse_lost` | violation | a playlist with some untracked entries is never answered |
| `browse_order` | violation | a playlist of remote entries only comes out backwards |
| `metadatas_fail` | violation | an error for the playlists of a mixed request emits and frees the closure under the other requests |
| `catalog_filter` | violation | the negation of a compound filter negates its first comparison only |
| `chunks_endless` | violation | a file that leaves Tracker between two chunks makes the query ask for the same chunk for ever |
| `changes_silent` | violation | setting `play-count` or `last-played` of a video sets nothing and reports success |

The seven violations are disagreements between the code and its own comments
and tests; `findings` in `PROJECT.json` quotes them.

**What the properties leave out.** Answers that lack a row: `RemainingExact`
counts their objects as not answered and `EveryGetAnswered` excuses them, and
the contract has no such answers, so that a call which is never answered shows
in `browse_lost` only. Answers with an error: `CompleteOrError` is about those
without, so it says neither what the metadata beside an error are worth (with a
row missing they can be another object's) nor that the root has the durations
of its music as well as of its videos. The names of keys: `SetHonest` takes a
failed key for the same whatever it is called, though after a failed update the
code reports keys under their Tracker names (`tracker-iface.c:2074`); and it
leaves out the file that goes from Tracker between check and update.

**Bounds.** `Requests` bounds the user's calls, `MaxRows` the rows of an answer
and the entries of a playlist, `MaxIds` the object ids of a call. `G_MAXUINT`,
2^32 - 1 in the code, is 15: above the length of any list there is
(`MaxUintAssumption`), so that a wrapped count is never taken for another.
Operations share only the pending list, the id counter and, for nested ones, the
parent's closure: two operations exhibit every sharing of the first two, and one
parent with three children that of the third (first, middle and last child).
Three rows distinguish first, middle and last result. Three object ids fill all
three groups at once, or one group with a row missing in the middle. Five
properties in chunks of two make two full chunks and a short one, and fewer make
every kind of end (none, one short, one full, two). Skipping one row or none
makes windows that overlap, touch and coincide. Three songs are enough for two
that share an album but not the artist, two that share the artist but not the
album, and one of another genre, which is what tells the levels of childcounts
apart (`shared`); the other libraries have unknown values and an album called
like an artist (`unknown`), properties missing (`missing`), and one file of each
type (`mixed`). Every place of the arrays of aggregates is filled by the query
for all aggregates at once, which names one of them twice. `MaxKeys` bounds the
columns of a query about clips; the lists of keys of clips need no more. Two
calls suffice for what operations of `Changes` can do to each other, since each
touches only the disk, Tracker and its own closure; of the keys one is not
writable, one may have a value of the wrong type or be unknown to Tracker, and
one is always fine, and two of them in a list, in either order, put each before
and behind each. `Disks` are the files there at first: none, all, and one song
of the two. `Calls` is large enough for all nested browses, so `AskDuration` is
never blocked by the bound. Nested browses are left out of `browse_pair` to keep
it small; they are in `browse_nested`, and the proofs cover both together for
any number.

Deadlock checking is off: once its requests are answered the source is at
rest, and the bound on user calls makes that final.

**Fairness.** Weak fairness of the handlers only. Tracker answers every query,
if only with an error (the D-Bus call fails when it dies); the main loop
dispatches every idle source in the end, since equal-priority sources take
turns. In `Catalog` the cache is filled in one go, within the call. In
`Changes` the idle that sets metadata does block, but on two requests
that Tracker answers. Nothing obliges the user to call or to
cancel. `EntriesLost` is a handler like the others: it stands for answers that
never come because `remaining` never reaches 0, not for a lost message.

## 4. What is proved

Each theorem holds for every value of the constants that satisfies the named
assumptions of its module (`ASSUME`), and assumes nothing else. An assumption
says of what kind a constant is (a number, a set of files) or, for filters and
queries, what a caller can pass: `FiltersAssumption` and `QueriesAssumption`
(only `browse()` takes a filter);
each file has a uri and a path of its own (`UriAssumption`), and an album without
a name has no cover (`PicturesAssumption`: `_get_value_album_art` returns before
it looks for one). The parts of a filter are filters, and less deep than it is
(`FiltersAssumption`, `DepthAssumption`: filters are finite trees, which is what
the constant `Depth` says). A file has one value of a property, durations are
numbers, genres, artists and albums texts, and `Complete` names the libraries
that lack nothing rows are made of (`LibrariesAssumption`: it restricts the
libraries that are modelled, see section 7).
TLC evaluates all of them in the runs.

**Browse.** `BrowseProofs` proves, for every `Requests`, `MaxRows`, set of
`Targets`, value of `UntrackedEntries` and `G_MAXUINT` above the length of the
lists (`MaxUintAssumption`):

* `TypeCorrect`: `TypeOK`; for the unsigned `count` this means that it never
  goes below 0, since no answer has more songs than were asked for;
* `PendingListExact`: `PendingExact`;
* `ParentsWait`: `ParentWaits`;
* `NothingComesAfterCancel`, `NothingComesAfterLast`: the action properties.

None of these is inductive. The invariant `IInv` (theorem `Invariance`) adds:
the counters of an emitting closure agree with its list (`LocalOK`); what has
been called back agrees with where the closure is, in particular nothing has
before emission, and an operation with nothing left to happen is finished or
cancelled (`LogOK`); calls to come have left no trace (`FreshOK`); only
operations whose id a user got are cancelled, and nested ones never are
(`CancelOK`); a live nested browse has its parent waiting at its row and no
live sibling (`ParentOK`, `OnlyChild`). Without the last two a child's callback
might advance a parent that has been freed, and `PendingExact` and `LogOK`
would break. Without `CancelOK` a cancelled child would leave its parent
waiting. The actions fall into few kinds, each with its lemma: a closure moves
on without a callback (`StepKeepsIInv`), has its last callback
(`EndKeepsIInv`), emits and goes on (`EmitKeepsIInv`), is dropped
(`DropKeepsIInv`), is cancelled, is opened (`OpenKeepsIInv`); a lemma for each
action then shows which kind it is.

`BrowseResultsProofs` goes on from there to what is delivered:

* `ResultsInOrder`, `EverythingDelivered`, `NoMoreThanAsked`, `PagesAreDisjoint`,
  `DurationsAreAsked`: the five invariants about results;
* `RemainingCountsExact`: `RemainingCountExact`, from the counters of `LocalOK`
  and the bound on the lists;
* `ContractKept`: `ImplementsContract`, that every step of `Browse` is a step of
  `BrowseContract` for one of the calls, or none.

`IInv` speaks of numbers of results only. `RInv` (theorem `ResultsInvariance`)
adds which items the list of a closure may hold at each stage, a window of rows
in ascending order (`ListOK`), that the log is this list as far as it has been
emitted, item by item (`ToldOK`), which playlists have no duration yet
(`UntimedOK`), and that nested calls correspond one to one to the rows passed
so far (`NestedExact`). For the refinement each kind of step that the lemmas of
`BrowseProofs` tell apart is mapped to its step of the contract; nested calls
are calls of the contract as the user's are.

**Metadatas.** `MetadatasProofs` proves, for every `MaxIds`: `RemainingIsExact`,
`TheLastFrees`, `CompleteUnlessError` and `MetadatasTypeCorrect`. The count is
exact only because every object id has one place to be in: no closure waits for
an id whose group waits, failed or lost it, and no two closures wait for one id
(`LookupsOK`, `GroupsOK`). That the last answer frees needs the idle sources to
follow the count (`IdleOK`). That metadata are attributed correctly needs rows
to be paired with their own ids when no row is missing (`PairedWithItself`),
which holds of equal lists only: pairing is by position.

`ContractKept` proves `ImplementsContract`, step by step: `Collect` counts one
object as told, `GroupAnswer` tells of some and loses the others, `GroupFails`
refuses a group, and `Emit` is the callback. It needs to know besides (`SeenOK`)
that requests and metadata are about objects of the call, that durations are
computed only if the duration was asked for, and that groups have members: then
an answer about a single object always has its row (`OneIsHeard`).

**Chunks.** `ChunksProofs` proves, for every number of files, uris, properties
and changes, and every `MAX_SPARQL_OPTIONALS`: `RowsAreTheirOwn`,
`ChunksActAsOne` and `ChunksTypeCorrect`. The code reads off the first row how
much it has received, so the invariant `CInv` says that this is so (`Received`);
and it files values by position, so that as long as Tracker does not change each
statement must be answered for the same files (`Steady`). `ListsProofs` has what
these proofs need to know of parts of lists; `Lists` defines them by places
because nothing can be proved here of a `RECURSIVE` operator, such as those that
`SelectSeq` rests on. Of a recursive *function* on a set whose members have a
depth there can: `RecursionByDepth` has the function's equation, and
`EverythingByDepth` is induction over the depth with a set in place of the
operator parameter.

**Cache, statements and catalog.** `QueryProofs` and `CatalogProofs` prove, for every
library, filter and query, and lists of keys of any length:

* `ColumnsAlign`: `ColumnsOwnKeys`;
* `AggregatesHaveRoom`: `AggregatesFit`;
* `ClipRowsAreTheirOwn`, `ClipChunksActAsOne`: `RowsOwnValues` and `AsIfAtOnce` of
  the queries of the catalog;
* `CatalogTypeCorrect`: `CatalogTypeOK`;
* `ClipsToldExactly`: `ClipsExact`;
* `RowsAreAsked`: `RowsAreThoseAsked`;
* `ContainersAreExact`: `ContainersExact`;
* `ChildcountsAreCounts`: `ChildcountCounts`.

The first five rest on what `tracker_cache_key_add` keeps, whatever the key and whatever
it needs to be added before it:

* `CacheOK` (`KeyAddKeepsOK`): columns are used once each and, but for the first
  one of queries that group rows, all of them, and the keys in them are ones
  Tracker may be asked for. So no place of the array of keys is NULL behind the
  first (`KeysFromAll`). The key that is concatenated is added when all others
  are, and is one that Tracker is not asked for otherwise: with it the last part
  of `CacheOK` is lost, and `PairingInv` keeps only the pairing of columns and
  keys from there on. That every plan concatenates at most one key, never the
  one rows are grouped by, is `PlanOfOK`.
* `Bounded` (`KeyAddKeepsBounded`): of rows that are grouped nothing is asked
  but the duration, childcounts up to the level that is let in, and what is
  concatenated. With columns used once each this bounds their number
  (`BoundedColumns`), however often and in whatever order keys are named;
  `PlanOfOK` compares the bound with the sizes of the arrays on each path, and
  the levels with what there is to count (`BoundInv`).
* `EntriesOK` (`KeyAddKeepsEntries`): an entry is of one of the kinds that
  `ValueGet` knows.

`Catalog` is about clips what `Chunks` is, with other handlers between: the
invariant of `ChunksProofs` is carried over (`ClipsInvariance`), since the other
actions leave the variables of `Chunks` alone and only `SendClips` starts a
query, once.

`ClipsToldExactly` puts these together: `ClipsExact`, what is told of each clip
is what Tracker says of it. `ClipCache` says which entry each key must have,
known beforehand, in a column, derived or void, whoever asked for it and when,
and that the keys its value is found with are there too (a cover needs the
album, a title and a thumbnail the uri); `KeyAddKeepsClip` shows that adding a
key, those it needs first, keeps all this, and that a key stays the user's when
another one needs it. `ToldInv` carries it through a query: those for the user
are of the keys asked for, and `Chunks` has been given as many properties as
there are columns. With `ClipChunksActAsOne` the columns of a row hold the
properties of its clip (`RowsOfClips`), and key by key the value told is the one
to be told (`ValueOfClip`).

`RowsAreAsked` says that a listing has the rows asked for. It needs three steps:

* What a filter's text says. The text has no parentheses and is read as
  alternatives of conjunctions. `SaysSo` is the induction hypothesis: the text is
  well-formed (`Whole`), and for each truth value some alternative reaches it
  exactly if the filter, taken at its word, does (`AtLeast`); a text of one
  alternative can stand in an AND, one of one comparison behind a "!".
  `SoundSaysSo` proves it for every filter of the kinds that are translated
  faithfully (`Soundness`), by induction over `Depth`, with errors as a truth
  value of their own.
* What a statement asks. Variables of the user's filter, of the category, of the
  fields and of the aggregates come from one builder: each clause that binds a
  variable has one of its own (`OwnVariables`), so that a variable holds its
  clause's property and nothing else. `StatementAsks` follows: the solutions
  are the songs of the category that satisfy the filter and have what is added
  up, and the variables of the fields hold the fields. It is what
  `ti_get_albums`, with its second builder, does not keep; the property
  leaves out that path with a filter.
* What the rows become. `ListingInv` carries through a query what the cache and
  the statement of a listing are: the first column of the rows is the uri or the
  key that rows are grouped by. The rows are then those of the files of the
  category (`FoundFiles`), and object ids are made of them one to one, by path
  for clips (`AnswerOfList`) and by value for groups (`AnswerOfGroups`), which
  have the unknown value once if at all (`IdsDistinct`).

`ContainersAreExact` says that `get_metadata` tells of a container what its files
say. Its invariant, `ContainerInv`, has four parts.

* The plan (`ContainerPlan`, proved of every object id by `PlanOfContainer`): the
  levels that childcounts may have are those left of the branch, the n-th counts
  the n-th level below the path, and rows are grouped by the first level of the
  branch or by one that the path gives, so that each group has one value of it.
* The cache (`ContainerCache`, kept by `KeyAddKeepsContainer` and
  `LastCacheContainer`): which entry each key has, known beforehand, asked for
  as a number, concatenated or void, with the keys that covers are found with.
* The user's keys: those of the list that the container has levels for.
* The rows: the answer to the statement, or none when there is nothing to ask.

The files of the container fall into groups, one for each row (`IsGrouped`), and
the column of a key has what its aggregate makes of the group (`IsAnswered`,
from `AnswerOfGroups`). What is told is added up over the rows. `ListsProofs` has
sums over finite sets (`Total`, with `SumInAnyOrder`, since the community
modules choose an order) and what they come to when a set is divided into
classes: the durations of the groups add up to that of all files
(`TotalOfClasses`, `DurationTold`), and values counted in each group are the pairs
of a group and a value (`PairsOfClasses`, `ChildcountTold`). In a container whose
path gives an artist or an album there is a single group (`OneGroup`), so what
the first row concatenates is all there is (`ConcatTold`); that fails for
containers of all artists or albums, and the property leaves those keys out.

`ChildcountsAreCounts` compares queries: what `get_metadata` tells of a container
with what a browse of it lists, and with what `get_metadata` tells of each object
in that list. The query in question is that of the machine, the others are
`Outcome`, which puts the same operators together for a query asked at the same
moment. `RowsAreAsked` and `ContainersAreExact` are about the machine, so the
lemmas under them are stated of any plan, cache and answer (`FilesListed`,
`ValuesListed`, `RowsOfContainer`) and serve both. The proof goes

* from the object id to the two plans: a browse of the container is about the
  files that `get_metadata` adds up, and lists them or the values of the next
  level (`BrowseOfContainer`), so there is one child for each (`HasChildren`,
  `ChildrenListed`), which is what the first childcount counts
  (`NumberOfChildren`: the pairs it counts have one first part);
* from a container to its children: the id of a child is that of the container
  and one text more, its branch and levels are the same, and its files are those
  of the container with that value (`ChildOfContainer`, by `MembersOfChild`);
* from the children back: each file is a file of one child (`ClassesOfCells`), so
  the first childcounts of the children add up to the files, or to the pairs of
  values that the second childcount counts (`CountsOfChildren`). That takes the
  level below the children to be the last or the container to give no level. What
  is left out is a genre (`TwoLevelsBelow`), where an album of several artists
  is a child of each.

Besides `ContainerInv` the invariant says that the plan of a query about a
container is that of its object id (`PlanOfQuery`).

**Changes.** `ChangesProofs` proves, for every `Requests` and `Touches`, any finite
sets of `Songs` and `Videos` and any `Disks`:

* `DestroysAreHonest`: `DestroyHonest`, by the invariant of `CallsInvariant`;
* `SignalsMeanChanges`, `TheLastSetWins`, `SetsAreHonest`, `ChangesTypeCorrect`.

`DestroyHonest` needs three facts more to be inductive (`CallOK`): the list is
free of repetitions, or a file that failed could be deleted when tried again
and leave an error behind that no file explains; a call that waits for its list
has noted nothing; and calls answered without a list (refused, or failed before
they got one) have none. As in `Browse` there are few kinds of step: a call
takes a closure of its own (`CallKeepsIInv`), a handler replaces one
(`HandlerKeepsIInv`), a closure is freed and its call answered
(`FreeingKeepsIInv`). The heart is `TryingOK`, the step of one deletion.
`LastSetWins` needs more (`SInv`, theorem `SetsInvariant`): a set that was made
before another is not waiting when the other is past its check or answered
(`InTurn`: the idle sources run in the order they were installed, and each runs
to its end); values in Tracker are those of calls that were told, and a file
that Tracker lost has none (`StoredOK`); and what a call that is over has
reported and signalled is settled (`Settled`).

**Only model-checked.** Liveness (`EveryCallAnswered`, `EveryOperationSettles`,
`EveryGetAnswered`, `QueryIsAnswered`, `EveryCallAnswered` of `Changes`): TLAPS
does not handle fairness. And `RowIsItsMetadata`, which compares two queries for
the same list of keys: the second one is the fold of `KeyAdd` over a list of any
length, of which no theorem about a run of the machine speaks.
(`ChildcountCounts` asks the second query for one key or for none.) That each of
the two is right by itself, the listing in its rows, `get_metadata` and
`get_metadatas` in their values, is in the theorems above. None of the modules
declares a `RECURSIVE` operator.

## 5. What the models showed besides

Things the code does that no doc, comment or test of the repository speaks
about, so that no run is about them; the properties leave them out by name or
the model does as the code does.

* Two or more clips asked only for keys that take no column (`childcount(1)`, or
  keys Tracker does not have for them) get one metadata (`tracker-cache.c:1070`):
  the call is never answered. Titles of several playlists are not told, that of
  one is its file's name.
* A filter that is not supported is ignored, with a warning; within an AND or OR
  its translation never returns (`mafw-tracker-source-sparql-builder.c:664`).
* `ti_get_albums` drops the builder that the filter was translated with
  (`tracker-iface.c:1323`): the values of the filter are missing, or those of the
  category are taken for them.
* Fields are optional, aggregated ones mandatory
  (`mafw-tracker-source-sparql-builder.c:530`): asked for the duration, a
  listing loses the songs that have none, and counts lose them too.
* The recursive root skips `skip_count` songs and then `skip_count` videos:
  turning the pages, a client never sees the first videos.
* `childcount(2)` of a genre counts each album once, its tree once for each
  artist. A listing of genres tells their artists, `get_metadata` of a genre
  does not. Metadata of the containers of all albums, artists or genres have
  the first album, artist or genre in them if something had to be asked.
* A value that contains "|" is told as "Various" (`tracker-cache.c:53`).

## 6. Plan

Done: the inventory, `BrowseContract`, `Browse` with windows, `Metadatas` with
`MetadatasContract`, `Chunks`, `Changes`, `TrackerCache`, `SparqlBuilder`, `Catalog`, and the proofs
of section 4, which state every safety property of the passing runs but one
(`RowIsItsMetadata`).

## 7. Not modelled

* The order of rows, and so sort criteria; the types and dates of values; the
  escaping of object ids and uris; the text of statements beyond what it means.
* A filter by a key that Tracker does not have, and properties with several
  values for one file.
* The fallback of `_get_title` to a path list: nothing that reaches it has one.
* Album art: the names of picture files and whether they exist; `Pictures` says
  which do.
* The plugin, the set-up of the source, and the notifications of the miner
  (`updating`, `container-changed`): handlers that store two numbers or none,
  emit a signal and share nothing with any other; there is one source.
* Memory management, beyond whether a closure is still allocated and who refers
  to it. Logging.
