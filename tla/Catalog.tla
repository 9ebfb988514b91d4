------------------------------ MODULE Catalog ------------------------------
(***************************************************************************)
(* One query of the catalog, from the call of browse() or get_metadata()   *)
(* to the metadata that its answer makes: which query of tracker-iface.c   *)
(* an object id and its place lead to, how the cache of that query is      *)
(* filled, the statement it sends, what Tracker finds and what is built    *)
(* from it.  It composes TrackerCache, SparqlBuilder and, for queries      *)
(* about clips, Chunks.                                                    *)
(*                                                                         *)
(* Object ids are sequences of texts; "" is an unknown genre, artist or    *)
(* album.  Root, /music and the insides of playlists are put together from *)
(* such queries: Browse and Metadatas have that.  Windows of a listing     *)
(* (offset and count) are in Browse, the order of its rows is not modelled.*)
(***************************************************************************)
EXTENDS Chunks, TrackerCache, SparqlBuilder

CONSTANTS
  Libraries,  \* by name, what each file is: its type, and its properties
  Complete,   \* names of the libraries that lack nothing rows are made of
  Queries,    \* bound: the queries asked
  Uri,        \* of each file
  Pathname    \* of each file, its id

VARIABLES
  library,    \* the name of the library
  query,      \* the query
  plan,       \* what kind of query to Tracker it takes
  cache,      \* its cache
  todo,       \* the keys that have still to go into the cache
  stage,      \* of the query
  rows        \* what Tracker answered, unless the query is about clips

catalogVars == <<library, query, plan, cache, todo, stage, rows>>
catalogVarsButStage == <<library, query, plan, cache, todo, rows>>
allVars == <<vars, catalogVars>>

Stages ==
  {"idle",
   "keys",      \* filling the cache, nothing runs in between
   "asked",     \* one statement sent
   "unasked",   \* nothing to ask, an idle is to answer
   "clips",     \* Chunks has it
   "answered", "failed",
   "rejected",  \* the object id is not one, or not for this
   "endless"}   \* the translation of the filter does not return

-----------------------------------------------------------------------------
(* Object ids.                                                             *)

Property(file, key) ==
  IF key = "uri" THEN {Uri[file]} ELSE Libraries[library].has[file][key]

Song(file) == [key \in MetadataKeys |-> Property(file, key)]
TypeOf(file) == Libraries[library].types[file]
Have(type) == Sorted({f \in known : TypeOf(f) = type})

\* The levels of each branch of /music.
Levels(branch) ==
  CASE branch = "albums" -> <<"album">>
    [] branch = "artists" -> <<"artist", "album">>
    [] branch = "genres" -> <<"genre", "artist", "album">>
    [] OTHER -> << >>

\* util_extract_category_info
CategoryInfo(path) ==
  LET n == Len(path)
      branch == IF n > 1 /\ path[1] = "music" THEN path[2] ELSE Hole
      levels == Levels(branch)
      start == IF branch = Hole THEN 1 ELSE 2
      error == \/ n > 0 /\ path[1] \notin {"music", "videos"}
               \/ n > 1 /\ path[1] = "music"
                  /\ branch \notin {"songs", "playlists", "albums", "artists", "genres"}
               \/ n > start + Len(levels) + 1
      given(key) == IF \E i \in DOMAIN levels : levels[i] = key /\ i + 2 <= n
                    THEN {path[2 + CHOOSE i \in DOMAIN levels : levels[i] = key]}
                    ELSE Nothing
  IN [category |-> CASE error -> "error"
                     [] ~error /\ n = 0 -> "root"
                     [] ~error /\ n > 0 /\ branch = Hole -> path[1]
                     [] ~error /\ branch # Hole -> branch,
      genre |-> given("genre"), artist |-> given("artist"), album |-> given("album"),
      clip |-> IF ~error /\ n = start + Len(levels) + 1 /\ n > 1
               THEN {path[n]} ELSE Nothing]

\* The queries are those that take one query to Tracker; only browse() has a
\* filter.
ASSUME QueriesAssumption ==
  \A q \in Queries :
    LET info == CategoryInfo(q.path)
    IN  /\ q.op \in {"browse", "get_metadata", "get_metadatas"}
        /\ q.path \in Seq(STRING)
        /\ q.recursive \in BOOLEAN
        /\ q.keys \in Seq(STRING)
        /\ q.filter \in Filters \cup {NoFilter}
        /\ q.op # "browse" => q.filter = NoFilter
        /\ q.clips \in Seq(File)
        /\ info.category # "root"
        /\ info.category = "music" => q.op = "browse" /\ q.recursive
        /\ info.clip # Nothing => q.op = "browse" /\ info.category # "playlists"

ASSUME UriAssumption ==
  /\ \A f \in File : Uri[f] # ""
  /\ \A f, g \in File : Uri[f] = Uri[g] \/ Pathname[f] = Pathname[g] => f = g

\* A property of a file has one value at most, a duration is a number, a genre,
\* an artist and an album are texts, and a library that is complete has all four.
ASSUME LibrariesAssumption ==
  /\ \A name \in DOMAIN Libraries : \A f \in File : \A key \in MetadataKeys \ {"uri"} :
       \A v, w \in Libraries[name].has[f][key] : v = w
  /\ \A name \in DOMAIN Libraries : \A f \in File :
       Libraries[name].has[f]["duration"] \subseteq Nat
  /\ \A name \in DOMAIN Libraries : \A f \in File : \A key \in {"genre", "artist", "album"} :
       Libraries[name].has[f][key] \subseteq STRING
  /\ \A name \in Complete : \A f \in File : \A key \in {"genre", "artist", "album", "duration"} :
       Libraries[name].has[f][key] # {}

\* The category without what a function is called with NULL for.
Only(info, levels) ==
  [key \in {"genre", "artist", "album"} |-> IF key \in levels THEN info[key] ELSE Nothing]
Everything == Only([genre |-> Nothing, artist |-> Nothing, album |-> Nothing], {})

-----------------------------------------------------------------------------
(* The kinds of queries.                                                   *)

\* "list" and "clips" have a row for each file; "unique" lists the values of
\* a key, and "container" adds such rows up.  The arrays for the aggregates
\* have a fixed size, with the NULL that ends them.
Plan(kind, type, category, prefix) ==
  [kind |-> kind, type |-> type, category |-> category, prefix |-> prefix,
   unique |-> Hole, title |-> Nothing, max |-> 1, concat |-> {}, counts |-> << >>,
   size |-> 0, rows |-> FALSE, fresh |-> FALSE]

NoPlan == Plan("none", "music", Everything, << >>)

\* What childcounts count, from a level of the hierarchy on.
CountKeys(level) == SubSeq(<<"genre", "artist", "album", "*">>, level, 4)

\* Mutant: the children of a value are looked for at its own level.
OfValueShifted(level) == CountKeys(level)

\* The children of a value are of the next level.
OfValue(level) == CountKeys(level + 1)

\* ti_get_videos, ti_get_songs and ti_get_playlists
GetList(type, category, prefix) == Plan("list", type, category, prefix)

\* ti_get_genres, ti_get_artists and ti_get_albums.  The last one makes a
\* builder of its own.
GetUnique(key, category, prefix) ==
  LET level == CHOOSE i \in 1 .. 3 : Hierarchy[i] = key
  IN [Plan("unique", "music", category, prefix) EXCEPT
        !.unique = key,
        !.max = 4 - level,
        !.counts = OfValue(level),
        !.concat = CASE key = "genre" -> {"artist"}
                     [] key = "artist" -> {"album"}
                     [] key = "album" ->
                          IF category.artist = Nothing THEN {"artist"} ELSE {},
        !.size = 7 - level,
        !.fresh = (key = "album")]

\* _do_tracker_get_metadata_from_service
GetService(type, title) ==
  [Plan("container", type, Everything, << >>) EXCEPT
     !.unique = "mime", !.title = {title}, !.counts = <<"*">>, !.size = 3]

\* ti_get_metadata_from_category: the innermost level given is the container;
\* without any, the values of the default key are its children.
GetCategory(default, title, category) ==
  LET given == {i \in 1 .. 3 : category[Hierarchy[i]] # Nothing}
      level == IF given # {} THEN Max(given)
               ELSE CHOOSE i \in 1 .. 3 : Hierarchy[i] = default
  IN [Plan("container", "music", category, << >>) EXCEPT
        !.unique = Hierarchy[level],
        !.title = IF given # {} THEN category[Hierarchy[level]] ELSE {title},
        !.max = IF given # {} THEN 4 - level ELSE 5 - level,
        !.counts = IF given # {} THEN OfValue(level) ELSE CountKeys(level),
        !.concat = CASE category.artist # Nothing /\ category.album = Nothing -> {"album"}
                     [] category.artist = Nothing /\ category.album # Nothing -> {"artist"}
                     [] OTHER -> {},
        !.size = 7,
        !.rows = (given = {})]

-----------------------------------------------------------------------------
(* Which query an object id takes.                                         *)

Songs == <<"music", "songs">>

\* The branches of mafw_tracker_source_browse.  A recursive browse of /music
\* or of anything in it but playlists lists songs.
BrowsePlan(path, recursive) ==
  LET info == CategoryInfo(path)
      c == info.category
      songs(levels, prefix) == GetList("music", Only(info, levels), prefix)
      \* The first level of the branch that is not given is listed.
      missing == {i \in DOMAIN Levels(c) : info[Levels(c)[i]] = Nothing}
  IN CASE c = "error" \/ (info.clip # Nothing /\ c # "playlists") -> NoPlan
       [] c = "videos" /\ info.clip = Nothing -> GetList("video", Everything, path)
       [] c = "playlists" /\ info.clip = Nothing -> GetList("playlist", Everything, path)
       [] c = "songs" /\ info.clip = Nothing -> GetList("music", Everything, Songs)
       [] c = "music" /\ info.clip = Nothing /\ recursive ->
            GetList("music", Everything, Songs)
       [] c \in {"albums", "artists", "genres"} /\ info.clip = Nothing ->
            IF recursive THEN songs({"genre", "artist", "album"}, Songs)
            ELSE IF missing = {} THEN songs({"genre", "artist", "album"}, path)
            ELSE GetUnique(Levels(c)[Min(missing)], Only(info, {"genre", "artist"}), path)

\* The switch of mafw_tracker_source_get_metadatas, for containers.
MetadataPlan(path) ==
  LET info == CategoryInfo(path)
      category == Only(info, {"genre", "artist", "album"})
      c == info.category
  IN CASE c = "videos" -> GetService("video", "Videos")
       [] c = "songs" -> GetService("music", "Songs")
       [] c = "playlists" -> GetService("playlist", "Playlists")
       [] c = "artists" -> GetCategory("artist", "Artists", category)
       [] c = "albums" -> GetCategory("album", "Albums", category)
       [] c = "genres" -> GetCategory("genre", "Genres", category)
       [] c = "error" -> NoPlan

\* ti_get_metadata_from_audioclip and its like.
ClipsPlan(path) ==
  LET c == CategoryInfo(path).category
  IN  IF c = "error" THEN NoPlan
      ELSE Plan("clips", CASE c = "videos" -> "video"
                           [] c = "playlists" -> "playlist"
                           [] OTHER -> "music", Everything, path)

PlanOf(q) ==
  CASE q.op = "browse" -> BrowsePlan(q.path, q.recursive)
    [] q.op = "get_metadata" -> MetadataPlan(q.path)
    [] q.op = "get_metadatas" -> ClipsPlan(q.path)

-----------------------------------------------------------------------------
(* The cache of a query.                                                   *)

Preset(c, key, value) ==
  IF value = Nothing THEN c ELSE KeyAddPrecomputed(c, key, FALSE, value)

\* Before the keys of the user.
FirstCache(p, clips) ==
  LET result == CASE p.kind \in {"unique", "container"} -> "unique"
                  [] p.kind = "clips" -> "get_metadata"
                  [] p.kind \in {"list", "none"} -> "query"
      new == NewCache(p.type, result)
      genre == Preset(new, "genre", p.category.genre)
      artist == Preset(genre, "artist", p.category.artist)
      album == Preset(artist, "album", p.category.album)
  IN CASE p.kind = "clips" ->
            Preset(new, "uri", IF Len(clips) = 1 THEN {Uri[clips[1]]} ELSE Nothing)
       [] p.kind = "list" -> KeyAdd(album, "uri", 1, FALSE)
       [] p.kind = "unique" ->
            KeyAddUnique(KeyAddDerived(album, "title", FALSE, p.unique), p.unique)
       [] p.kind = "container" ->
            KeyAddUnique(Preset(album, "title", p.title), p.unique)
       [] p.kind = "none" -> new

\* After them.  At most one key is to be concatenated.
LastCache(p, c) ==
  IF \E key \in p.concat : KeyExists(c, key)
  THEN KeyAddConcat(c, CHOOSE key \in p.concat : TRUE)
  ELSE c

\* keymap_mafw_keys_to_tracker_keys leaves out what Tracker does not have.
Fields(p, c) ==
  LET asked == KeysFrom(c, 1)
  IN  Selected(asked, {i \in DOMAIN asked : TrackerHas(p.type, asked[i])})

\* One aggregate for each column behind the first.
Aggregates(p, c) ==
  LET asked == KeysFrom(c, 2)
  IN [i \in DOMAIN asked |->
        CASE asked[i] = "duration" -> Aggregate("sum", "duration")
          [] asked[i] \in ChildcountKeys ->
               Aggregate("count", p.counts[Level(asked[i])])
          [] OTHER -> Aggregate("concat", asked[i])]

\* The statement of a query that has a single one.
Statement(p, c, filter) ==
  LET user == UserFilter(filter)
      used == IF user.outcome = "ok" THEN user ELSE UserFilter(NoFilter)
      category == FilterFromCategory(IF p.fresh THEN NewBuilder ELSE used.builder,
                                     p.category)
      unique == p.kind \in {"unique", "container"}
  IN  Create(category.builder, p.type, unique,
             IF unique THEN <<p.unique>> ELSE Fields(p, c),
             IF unique THEN Aggregates(p, c) ELSE << >>,
             category.clauses, used)

Answer(s) == Rows(s, [i \in DOMAIN Have(s.type) |-> Song(Have(s.type)[i])])

\* A column for each property asked, of the files answered for.
ClipRows(p, c, files) ==
  [i \in DOMAIN files |->
     [k \in DOMAIN Fields(p, c) |-> Property(files[i], Fields(p, c)[k])]]

\* The metadata told, and the ids of what is listed.
Built(p, c, answered) ==
  IF p.kind = "container"
  THEN <<BuildAggregated(c, answered, p.rows)>>
  ELSE BuildMetadata(c, answered)

\* _build_objectids_from_pathname and _build_objectids_from_unique_key
Ids(p, c, answered) ==
  [i \in DOMAIN answered |->
     LET key == IF p.kind = "list" THEN "uri" ELSE p.unique
         value == CHOOSE v \in ValueGet(c, answered, i, key) : TRUE
     IN  Append(p.prefix,
                IF p.kind = "list"
                THEN Pathname[CHOOSE f \in File : Uri[f] = value]
                ELSE value)]

-----------------------------------------------------------------------------
(* The machine.                                                            *)

NoQuery == [op |-> "none", path |-> << >>, recursive |-> FALSE, keys |-> << >>,
            filter |-> NoFilter, clips |-> << >>]

\* The call.  Object ids are looked at first, then the filter.
Ask(q) ==
  /\ stage = "idle"
  /\ query' = q
  /\ plan' = PlanOf(q)
  /\ cache' = FirstCache(plan', q.clips)
  /\ todo' = q.keys
  /\ stage' = CASE plan'.kind = "none" -> "rejected"
                [] plan'.kind # "none" /\ UserFilter(q.filter).outcome = "endless" ->
                     "endless"
                [] OTHER -> "keys"
  /\ UNCHANGED <<vars, library, rows>>

\* tracker_cache_key_add_several, one key.
AddKey ==
  /\ stage = "keys"
  /\ todo # << >>
  /\ cache' = KeyAdd(cache, Head(todo), plan.max, TRUE)
  /\ todo' = Tail(todo)
  /\ UNCHANGED <<vars, library, query, plan, stage, rows>>

\* The statement is sent.  Containers that need no aggregate ask nothing.
Send ==
  /\ stage = "keys"
  /\ todo = << >>
  /\ plan.kind # "clips"
  /\ cache' = LastCache(plan, cache)
  /\ stage' = IF plan.kind = "container" /\ Aggregates(plan, cache') = << >>
              THEN "unasked" ELSE "asked"
  /\ UNCHANGED <<vars, library, query, plan, todo, rows>>

\* _do_tracker_get_metadata
SendClips ==
  /\ stage = "keys"
  /\ todo = << >>
  /\ plan.kind = "clips"
  /\ GetMetadata(query.clips, Len(Fields(plan, cache)))
  /\ stage' = "clips"
  /\ UNCHANGED catalogVarsButStage

\* _tracker_sparql_query_cb, _tracker_sparql_unique_values_cb and
\* _tracker_sparql_metadata_from_container_cb
TrackerAnswers ==
  /\ stage = "asked"
  /\ LET s == Statement(plan, cache, query.filter)
     IN  ~Refused(s) /\ rows' = Answer(s)
  /\ stage' = "answered"
  /\ UNCHANGED <<vars, library, query, plan, cache, todo>>

\* The same, with an error.
TrackerFails ==
  /\ stage = "asked"
  /\ stage' = "failed"
  /\ UNCHANGED <<vars, catalogVarsButStage>>

\* _run_tracker_metadata_from_container_cb
NothingAsked ==
  /\ stage = "unasked"
  /\ rows' = << >>
  /\ stage' = "answered"
  /\ UNCHANGED <<vars, library, query, plan, cache, todo>>

\* Chunks goes on.
ClipsHandler ==
  /\ stage = "clips"
  /\ Handler
  /\ stage' = IF phase' \in {"answered", "failed"} THEN phase' ELSE "clips"
  /\ UNCHANGED catalogVarsButStage

\* The indexer, while there may be several statements to a query.
Indexer ==
  /\ stage = "clips"
  /\ \E f \in File : Index(f)
  /\ UNCHANGED catalogVars

CatalogInit ==
  /\ Init
  /\ library \in DOMAIN Libraries
  /\ query = NoQuery
  /\ plan = NoPlan
  /\ cache = FirstCache(NoPlan, << >>)
  /\ todo = << >>
  /\ stage = "idle"
  /\ rows = << >>

CatalogHandler ==
  \/ AddKey \/ Send \/ SendClips
  \/ NothingAsked \/ TrackerFails \/ TrackerAnswers
  \/ ClipsHandler

CatalogNext == (\E q \in Queries : Ask(q)) \/ Indexer \/ CatalogHandler

CatalogSpec == CatalogInit /\ [][CatalogNext]_allVars

\* The cache is filled in one go and Tracker answers every statement.
CatalogFairSpec == CatalogSpec /\ WF_allVars(CatalogHandler)

-----------------------------------------------------------------------------
(* What a query should tell.                                               *)

\* The rows that metadata are built from.
AnsweredRows ==
  IF plan.kind # "clips" THEN rows
  ELSE [i \in DOMAIN answer |->
          [k \in DOMAIN answer[i].cells |->
             Property(answer[i].cells[k][1],
                      Fields(plan, cache)[answer[i].cells[k][2]])]]

Result == Built(plan, cache, AnsweredRows)

\* What another query would tell now, step by step.
Filled(p, asked, clips) ==
  LastCache(p, FoldLeft(LAMBDA c, key : KeyAdd(c, key, p.max, TRUE),
                        FirstCache(p, clips), asked))

RowsFor(p, c, clips) ==
  CASE p.kind = "clips" -> ClipRows(p, c, clips)
    [] p.kind = "container" /\ Aggregates(p, c) = << >> -> << >>
    [] OTHER -> Answer(Statement(p, c, NoFilter))

WithRows(p, c, answered) ==
  [metadata |-> Built(p, c, answered),
   ids |-> IF p.kind \in {"list", "unique"} THEN Ids(p, c, answered) ELSE << >>]

WithCache(p, c, clips) == WithRows(p, c, RowsFor(p, c, clips))
WithPlan(p, asked, clips) == WithCache(p, Filled(p, asked, clips), clips)

Outcome(op, path, asked, clips) ==
  WithPlan(PlanOf([NoQuery EXCEPT !.op = op, !.path = path]), asked, clips)

\* What is told of an object.
ToldOf(id, asked) ==
  LET clip == CategoryInfo(id).clip
      branch == SubSeq(id, 1, IF id[1] = "videos" THEN 1 ELSE 2)
  IN Outcome(IF clip = Nothing THEN "get_metadata" ELSE "get_metadatas",
             IF clip = Nothing THEN id ELSE branch,
             asked,
             IF clip = Nothing THEN << >>
             ELSE <<CHOOSE f \in File : Pathname[f] \in clip>>).metadata[1]

\* Two metadata are the same for keys other than some.
AgreeBut(but, told, expected) ==
  Restrict(told, DOMAIN told \ but) = Restrict(expected, DOMAIN expected \ but)

\* The files in Tracker that are in a category.
Unknown(cell) == cell \in {Nothing, Empty}
InCategory(file, category) ==
  \A key \in DOMAIN category :
    \/ category[key] = Nothing
    \/ Property(file, key) = category[key]
    \/ Unknown(Property(file, key)) /\ Unknown(category[key])
Members(p) ==
  {f \in known : TypeOf(f) = p.type /\ InCategory(f, p.category)}

TextIn(cell) == CHOOSE text \in cell : TRUE
ValuesOf(files, key) == UNION {Property(f, key) : f \in files}
Sum(files, key) == MapThenSumSet(LAMBDA f : TextIn(Property(f, key)), files)

\* The levels of the branch that a path is in, and how many of them it gives.
LevelsOf(path) == Levels(IF Len(path) > 1 THEN path[2] ELSE Hole)
Given(path) == Max({0, Len(path) - 2})

\* Childcounts count the values of a level, or the files, apart for each value
\* of the first level of the branch.
ChildcountOf(path, files, n) ==
  LET levels == LevelsOf(path)
      at == n + Given(path)
  IN IF at > Len(levels) THEN Cardinality(files)
     ELSE Cardinality({<<Property(f, levels[1]), Property(f, levels[at])>> : f \in files})

Cover(albums) ==
  IF albums \cap Pictures = {} THEN Nothing ELSE {TextIn(albums \cap Pictures)}

\* What is to be told of a container, and of a clip.
ContainerValue(path, p, key) ==
  LET files == Members(p)
      category == p.category
      depth == Len(LevelsOf(path)) + 1
      albums == IF category.album # Nothing THEN category.album
                ELSE IF category.artist # Nothing THEN ValuesOf(files, "album")
                ELSE {}
  IN CASE key = "title" -> IF Len(path) > 2 THEN {Last(path)} ELSE p.title
       [] key = "mime" -> MimeContainer
       [] key = "duration" -> {Sum(files, key)}
       [] key \in ChildcountKeys ->
            IF Level(key) > depth - Given(path) THEN Nothing
            ELSE {ChildcountOf(path, files, Level(key))}
       [] key = "genre" -> category.genre
       [] key = "album" -> albums
       [] key = "artist" ->
            IF category.artist = Nothing /\ category.album # Nothing
            THEN ValuesOf(files, "artist") ELSE category.artist
       [] key \in ArtKeys -> Cover(albums)
       [] OTHER -> Nothing

ClipValue(file, type, key) ==
  LET value == Converted(key, Property(file, key))
  IN CASE key = "title" ->
            IF value = Empty \/ ~TrackerHas(type, key) THEN {FileName[Uri[file]]}
            ELSE value
       [] key = "mime" /\ type = "playlist" -> MimeContainer
       [] key \in ChildcountKeys ->
            IF Level(key) > 1 THEN Nothing
            ELSE IF type = "playlist" THEN value ELSE {0}
       [] key \in ArtKeys ->
            IF type = "music" THEN Cover(Property(file, "album")) ELSE Nothing
       [] key \in ThumbnailKeys -> {Uri[file]} \cap Pictures
       [] OTHER -> IF TrackerHas(type, key) THEN value ELSE Nothing

Expected(asked, Value(_)) ==
  [key \in {k \in Range(asked) \cap MetadataKeys : Allowed(k, Value(k))} |->
     Told(Value(key))]

-----------------------------------------------------------------------------
(* Properties.                                                             *)

\* The type invariant.
CatalogTypeOK ==
  /\ TypeOK
  /\ library \in DOMAIN Libraries
  /\ query.op \in {"none", "browse", "get_metadata", "get_metadatas"}
  /\ todo = SubSeq(query.keys, Len(query.keys) - Len(todo) + 1, Len(query.keys))
  /\ stage \in Stages
  /\ cache.type \in Types
  /\ cache.result \in Results
  /\ cache.last \in Nat
  /\ DOMAIN cache.entries \subseteq MetadataKeys
  /\ \A key \in DOMAIN cache.entries :
       /\ cache.entries[key].kind \in
            {"computed", "derived", "thumbnailer", "void", "tracker"}
       /\ cache.entries[key].user \in BOOLEAN
  /\ stage \notin {"clips", "answered", "failed"} => phase = "idle"
  /\ plan.kind # "clips" => phase = "idle"

\* The keys by the columns of the answer, before keys that Tracker does not
\* have are left out.
Columns(p, c) ==
  IF p.unique # Hole THEN <<p.unique>> \o KeysFrom(c, 2) ELSE KeysFrom(c, 1)

\* The column that a key is read from is the one in which the statement asks
\* for it: neither a skipped place nor a key that turns into a concatenation
\* ends the list of keys early or moves one, and no key is left out of the
\* statement for being one Tracker does not have, which would move the rest.
ColumnsOwnKeys ==
  \A key \in InTracker(cache) :
    LET column == cache.entries[key].at + 1
    IN  /\ column \in DOMAIN Columns(plan, cache)
        /\ Columns(plan, cache)[column] = key
        /\ plan.unique = Hole => TrackerHas(plan.type, key)

\* Whatever keys are asked, the aggregates fit the arrays they are put in,
\* with the NULL behind them, and childcounts the array of what they count.
AggregatesFit ==
  plan.kind \in {"unique", "container"} /\ stage # "keys" =>
    /\ Len(KeysFrom(cache, 2)) < plan.size
    /\ \A key \in InTracker(cache) \cap ChildcountKeys :
         Level(key) <= Len(plan.counts)

\* What get_metadata tells of a container, of a library that lacks nothing, is
\* what the files in Tracker say.  (A container of all values of a key is told
\* the first of them for that key, and its cover, if something has to be asked
\* for another key: these are left out.)
ContainersExact ==
  stage = "answered" /\ plan.kind = "container" /\ library \in Complete =>
    AgreeBut(IF ~plan.rows THEN {}
             ELSE {plan.unique} \cup IF plan.unique = "album" THEN ArtKeys ELSE {},
             Result[1],
             Expected(query.keys, LAMBDA key : ContainerValue(query.path, plan, key)))

\* What get_metadatas tells of each of several clips, of any library, is what
\* Tracker says of this clip, by way of columns, chunks, keys that others need
\* and keys known beforehand, unless Tracker changes meanwhile.  (Several clips
\* asked for nothing that Tracker has get one metadata, and titles of playlists
\* depend on how many are asked about: these are left out.)
ClipsExact ==
  stage = "answered" /\ plan.kind = "clips" /\ ~disturbed
    /\ (answer # << >> \/ (keys = 0 /\ Len(query.clips) = 1)) =>
      \A i \in 1 .. Max({1, Len(answer)}) :
        LET file == IF answer = << >> THEN query.clips[i] ELSE answer[i].uri
        IN AgreeBut(IF plan.type = "playlist" THEN {"title"} ELSE {}, Result[i],
             Expected(query.keys, LAMBDA key : ClipValue(file, plan.type, key)))

\* What a listing tells of an object is what get_metadata tells of it, asked
\* for the same keys.  (But a listing of genres concatenates their artists.)
RowIsItsMetadata ==
  stage = "answered" /\ plan.kind \in {"list", "unique"}
    /\ (query.filter = NoFilter \/ plan.kind = "list") =>
      LET ids == Ids(plan, cache, rows)
      IN \A i \in DOMAIN ids :
           AgreeBut(IF plan.unique = "genre" THEN {"artist"} ELSE {},
                    Result[i], ToldOf(ids[i], query.keys))

\* The childcounts told of a container with such children.
ChildcountsCount(told, children) ==
  /\ "childcount(1)" \in DOMAIN told => told["childcount(1)"] = {Len(children)}
  /\ "childcount(2)" \in DOMAIN told
       /\ (plan.category.genre = Nothing \/ plan.category.artist # Nothing) =>
         LET count(id) == TextIn(ToldOf(id, <<"childcount(1)">>)["childcount(1)"])
         IN told["childcount(2)"] =
              {MapThenSumSet(LAMBDA i : count(children[i]), DOMAIN children)}

\* childcount(1) is how many children a browse of the container lists, and
\* childcount(2) the sum of their childcount(1); but of a genre the latter
\* counts an album of several artists once.
ChildcountCounts ==
  stage = "answered" /\ plan.kind = "container" /\ library \in Complete =>
    ChildcountsCount(Result[1], Outcome("browse", query.path, << >>, << >>).ids)

\* The ids that a listing should have.
Asked ==
  LET files == {f \in Members(plan) : Satisfied(query.filter, Song(f))}
  IN {Append(plan.prefix, text) : text \in
        IF plan.kind = "list" THEN {Pathname[f] : f \in files}
        ELSE {TextIn(Converted(plan.unique, Property(f, plan.unique))) : f \in files}}

ListsAsked ==
  LET ids == Ids(plan, cache, rows)
  IN  Range(ids) = Asked /\ Len(ids) = Cardinality(Asked)

\* A listing has one row for each object of the category that holds a file
\* which satisfies the filter, and no other row; for filters that are not of the
\* kinds the translation garbles, and unless properties that are added up are
\* missing.
RowsAreThoseAsked ==
  stage = "answered" /\ plan.kind \in {"list", "unique"}
    /\ Sound(query.filter)
    /\ (plan.fresh => query.filter = NoFilter)
    /\ (plan.kind = "unique" => library \in Complete) => ListsAsked

\* A listing of songs has those that satisfy the filter, of whatever kind it is
\* (check-mafwtrackersource.c tries the "not" of a filter and expects all other
\* songs).
FilterIsRespected ==
  stage = "answered" /\ plan.kind = "list" => ListsAsked

\* Every query is answered or fails, unless Tracker changes meanwhile.
QueryIsAnswered == stage = "keys" ~> stage \in {"answered", "failed"} \/ disturbed
=============================================================================
