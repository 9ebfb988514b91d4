--------------------------- MODULE CatalogProofs ---------------------------
(***************************************************************************)
(* A query of the catalog, for every library, every set of queries and     *)
(* every list of keys, of any length.                                      *)
(*                                                                         *)
(* Keys and columns stay paired while keys are added (CacheOK).  The key   *)
(* that is concatenated in the end is added last, and CacheOK is lost with *)
(* it; what is left says no more than that columns are paired with keys.   *)
(* What the cache asks of grouped rows is few enough for the arrays of     *)
(* each plan (BoundInv), and a query about clips is one of Chunks          *)
(* (ClipsInv), about the keys the user asked for (ToldInv), so that what   *)
(* is told of a clip is read from its own row.  A listing has a row for    *)
(* each file or value that its statement finds (ListingInv); those of a    *)
(* container are added up, and since a file is in one of them (IsGrouped)  *)
(* what they add up to is what its files are told for (ContainerInv).      *)
(***************************************************************************)
EXTENDS Catalog, QueryProofs, ChunksProofs

PlanKinds == {"none", "list", "clips", "unique", "container"}

\* The most aggregates there can be.
Slots(p) == p.max + 1 + IF p.concat = {} THEN 0 ELSE 1

\* What the cache needs of a plan: keys that are concatenated have no column of
\* their own, and only queries that group rows concatenate any; these have room
\* for a duration, as many childcounts as are let in, one concatenation and the
\* NULL behind them, and something to count for each childcount.  A clip has at
\* most children.
PlanOK(p) ==
  /\ p.kind \in PlanKinds
  /\ p.type \in Types
  /\ p.max \in Int
  /\ p.unique \in {Hole, "genre", "artist", "album", "mime"}
  /\ p.unique # Hole <=> p.kind \in {"unique", "container"}
  /\ p.concat \subseteq {"artist", "album"} \ {p.unique}
  /\ p.unique = Hole => p.concat = {}
  /\ p.kind = "clips" => p.max = 1
  /\ p.unique # Hole =>
       /\ p.max \in Nat /\ p.size \in Nat
       /\ p.max <= Len(p.counts)
       /\ Slots(p) < p.size

\* A plan, and a cache in which keys and columns are paired for it.
Paired(p, c) ==
  /\ PlanOK(p)
  /\ c.type = p.type
  /\ ColumnsOK(c, p.unique)
  /\ InTracker(c) \subseteq MetadataKeys
  /\ p.unique = Hole => InTracker(c) \subseteq Askable(c, Hole)

PairingInv ==
  /\ Paired(plan, cache)
  /\ stage = "keys" => CacheOK(cache, plan.unique)

-----------------------------------------------------------------------------
(* Plans.                                                                  *)

LEMMA PlanFields ==
  ASSUME NEW kind, NEW type, NEW category, NEW prefix
  PROVE  LET p == Plan(kind, type, category, prefix)
         IN  /\ p.kind = kind /\ p.type = type
             /\ p.unique = Hole /\ p.max = 1 /\ p.concat = {}
  BY DEF Plan

LEMMA TypeNames == {"music", "video", "playlist"} \subseteq Types
  BY DEF Types

\* There is something to count for each level.
LEMMA CountKeysLen ==
  ASSUME NEW level \in 1 .. 4
  PROVE  Len(CountKeys(level)) = 5 - level
<1> DEFINE s == <<"genre", "artist", "album", "*">>
<1>1. s \in Seq({"genre", "artist", "album", "*"})
  OBVIOUS
<1>2. Len(s) = 4
  OBVIOUS
<1> HIDE DEF s
<1>3. Len(SubSeq(s, level, 4)) = IF level <= 4 THEN 4 - level + 1 ELSE 0
  BY <1>1, <1>2, SubSeqProperties
<1> QED  BY <1>3 DEF CountKeys, s

LEMMA SimplePlanOK ==
  ASSUME NEW kind \in {"none", "list", "clips"}, NEW type \in Types,
         NEW category, NEW prefix
  PROVE  PlanOK(Plan(kind, type, category, prefix))
<1> DEFINE p == Plan(kind, type, category, prefix)
<1>1. p.kind = kind /\ p.type = type /\ p.unique = Hole /\ p.max = 1 /\ p.concat = {}
  BY PlanFields
<1> HIDE DEF p
<1>2. p.kind \in PlanKinds \ {"unique", "container"}
  BY <1>1 DEF PlanKinds
<1>3. p.max \in Int /\ p.concat \subseteq {"artist", "album"} \ {p.unique}
  BY <1>1
<1>4. PlanOK(p)
  BY <1>1, <1>2, <1>3 DEF PlanOK
<1> QED  BY <1>4 DEF p

LEMMA GetServiceOK ==
  ASSUME NEW type \in Types, NEW title
  PROVE  PlanOK(GetService(type, title))
<1> DEFINE p == GetService(type, title)
<1>1. /\ p.kind = "container" /\ p.type = type
      /\ p.unique = "mime" /\ p.max = 1 /\ p.concat = {}
      /\ p.size = 3 /\ p.counts = <<"*">>
  BY DEF GetService, Plan
<1> HIDE DEF p
<1>2. Slots(p) = 2 /\ Len(p.counts) = 1
  BY <1>1 DEF Slots
<1>3. PlanOK(p)
  BY <1>1, <1>2 DEF PlanOK, PlanKinds, Hole
<1> QED  BY <1>3 DEF p

LEMMA Levels123 ==
  /\ Hierarchy[1] = "genre" /\ Hierarchy[2] = "artist" /\ Hierarchy[3] = "album"
  /\ \A i \in 1 .. 3 : i = 1 \/ i = 2 \/ i = 3
  /\ \A key \in {"genre", "artist", "album"} :
       /\ (CHOOSE i \in 1 .. 3 : Hierarchy[i] = key) \in 1 .. 3
       /\ Hierarchy[CHOOSE i \in 1 .. 3 : Hierarchy[i] = key] = key
<1>1. Hierarchy[1] = "genre" /\ Hierarchy[2] = "artist" /\ Hierarchy[3] = "album"
  BY DEF Hierarchy
<1>2. \A i \in 1 .. 3 : i = 1 \/ i = 2 \/ i = 3
  OBVIOUS
<1>3. ASSUME NEW key \in {"genre", "artist", "album"}
      PROVE  \E i \in 1 .. 3 : Hierarchy[i] = key
  BY <1>1
<1> QED  BY <1>1, <1>2, <1>3

LEMMA GetUniqueOK ==
  ASSUME NEW key \in {"genre", "artist", "album"}, NEW category, NEW prefix
  PROVE  PlanOK(GetUnique(key, category, prefix))
<1> DEFINE p == GetUnique(key, category, prefix)
           level == CHOOSE i \in 1 .. 3 : Hierarchy[i] = key
<1>1. /\ p.kind = "unique" /\ p.type = "music" /\ p.unique = key
      /\ p.max = 4 - level /\ p.size = 7 - level /\ p.counts = OfValue(level)
      /\ p.concat = CASE key = "genre" -> {"artist"}
                      [] key = "artist" -> {"album"}
                      [] key = "album" ->
                           IF category.artist = Nothing THEN {"artist"} ELSE {}
  BY DEF GetUnique, Plan
<1>2. level \in 1 .. 3
  BY Levels123
<1> HIDE DEF p, level
<1>3. p.concat \subseteq {"artist", "album"} \ {key}
  BY <1>1
<1>4. p.kind = "unique" /\ p.unique = key /\ p.max \in Nat /\ p.size \in Nat
  BY <1>1, <1>2
<1>5. Len(p.counts) = 4 - level
  <2>1. level + 1 \in 1 .. 4
    BY <1>2
  <2>2. Len(CountKeys(level + 1)) = 5 - (level + 1)
    BY <2>1, CountKeysLen
  <2> QED  BY <1>1, <1>2, <2>2 DEF OfValue
<1>6. Slots(p) < p.size /\ p.max <= Len(p.counts)
  BY <1>1, <1>2, <1>5 DEF Slots
<1>7. p.type \in Types /\ p.kind \in PlanKinds /\ p.max \in Int
  BY <1>1, <1>4, TypeNames DEF PlanKinds
<1>8. PlanOK(p)
  BY <1>3, <1>4, <1>6, <1>7 DEF PlanOK, Hole
<1> QED  BY <1>8 DEF p

LEMMA GetCategoryOK ==
  ASSUME NEW default \in {"genre", "artist", "album"}, NEW title, NEW category
  PROVE  PlanOK(GetCategory(default, title, category))
<1> DEFINE p == GetCategory(default, title, category)
           given == {i \in 1 .. 3 : category[Hierarchy[i]] # Nothing}
           level == IF given # {} THEN Max(given)
                    ELSE CHOOSE i \in 1 .. 3 : Hierarchy[i] = default
<1>1. /\ p.kind = "container" /\ p.type = "music" /\ p.unique = Hierarchy[level]
      /\ p.max = IF given # {} THEN 4 - level ELSE 5 - level
      /\ p.size = 7
      /\ p.counts = IF given # {} THEN OfValue(level) ELSE CountKeys(level)
      /\ p.concat = CASE category.artist # Nothing /\ category.album = Nothing -> {"album"}
                      [] category.artist = Nothing /\ category.album # Nothing -> {"artist"}
                      [] OTHER -> {}
  BY DEF GetCategory, Plan
<1>2. /\ level \in 1 .. 3
      /\ category.album # Nothing => level = 3
      /\ category.artist # Nothing /\ category.album = Nothing => level = 2
  <2>1. CASE given = {}
    BY <2>1, Levels123
  <2>2. CASE given # {}
    <3>1. given \subseteq 1 .. 3
      OBVIOUS
    <3>2. /\ 3 \in given <=> category.album # Nothing
          /\ 2 \in given <=> category.artist # Nothing
      BY Levels123
    <3> HIDE DEF given
    <3>3. \E i \in given : \A j \in given : i >= j
      <4>1. CASE 3 \in given  BY <3>1, <4>1
      <4>2. CASE 3 \notin given /\ 2 \in given  BY <3>1, <4>2
      <4>3. CASE given = {1}  BY <4>3
      <4> QED  BY <2>2, <3>1, <4>1, <4>2, <4>3, Levels123
    <3>4. level \in given /\ \A j \in given : level >= j
      BY <2>2, <3>3 DEF Max
    <3> HIDE DEF level
    <3> QED  BY <3>1, <3>2, <3>4
  <2> QED  BY <2>1, <2>2
<1> HIDE DEF p, given, level
<1>3. p.max \in 1 .. 4 /\ p.size \in Nat
  BY <1>1, <1>2
<1>4. p.unique \in {"genre", "artist", "album"}
  BY <1>1, <1>2, Levels123
<1>5. p.concat \subseteq {"artist", "album"} \ {p.unique}
  BY <1>1, <1>2, Levels123
<1>6. p.max = Len(p.counts)
  <2>1. level \in 1 .. 4 /\ level + 1 \in 1 .. 4
    BY <1>2
  <2>2. Len(CountKeys(level)) = 5 - level
    BY <2>1, CountKeysLen
  <2>3. Len(CountKeys(level + 1)) = 5 - (level + 1)
    BY <2>1, CountKeysLen
  <2> QED  BY <1>1, <1>2, <2>2, <2>3 DEF OfValue
<1>7. Slots(p) < p.size
  BY <1>1, <1>3 DEF Slots
<1>8. p.max \in Nat /\ p.max \in Int /\ p.max <= Len(p.counts)
  BY <1>3, <1>6
<1>9. PlanOK(p)
  BY <1>1, <1>3, <1>4, <1>5, <1>7, <1>8, TypeNames DEF PlanOK, PlanKinds, Hole
<1> QED  BY <1>9 DEF p

-----------------------------------------------------------------------------
(* Which plan a query takes.                                               *)

Categories ==
  {"error", "root", "music", "videos", "songs", "playlists", "albums", "artists",
   "genres"}

LEMMA CategoryIsKnown ==
  ASSUME NEW path \in Seq(STRING)
  PROVE  CategoryInfo(path).category \in Categories
<1> DEFINE n == Len(path)
           branch == IF n > 1 /\ path[1] = "music" THEN path[2] ELSE Hole
           levels == Levels(branch)
           start == IF branch = Hole THEN 1 ELSE 2
           error == \/ n > 0 /\ path[1] \notin {"music", "videos"}
                    \/ n > 1 /\ path[1] = "music"
                       /\ branch \notin {"songs", "playlists", "albums", "artists", "genres"}
                    \/ n > start + Len(levels) + 1
           category == CASE error -> "error"
                         [] ~error /\ n = 0 -> "root"
                         [] ~error /\ n > 0 /\ branch = Hole -> path[1]
                         [] ~error /\ branch # Hole -> branch
<1>1. CategoryInfo(path).category = category
  BY DEF CategoryInfo
<1>2. n \in Nat
  OBVIOUS
<1>3. category \in Categories
  <2>1. CASE error
    BY <2>1 DEF Categories
  <2>2. CASE ~error /\ n = 0
    BY <2>2 DEF Categories
  <2>3. CASE ~error /\ n > 0 /\ branch = Hole
    <3>1. path[1] \in {"music", "videos"}
      BY <2>3
    <3> HIDE DEF error, branch
    <3> QED  BY <2>3, <3>1, <1>2 DEF Categories
  <2>4. CASE ~error /\ n > 0 /\ branch # Hole
    <3>1. branch \in {"songs", "playlists", "albums", "artists", "genres"}
      BY <2>4
    <3> HIDE DEF error, branch
    <3> QED  BY <2>4, <3>1, <1>2 DEF Categories
  <2> QED  BY <1>2, <2>1, <2>2, <2>3, <2>4
<1> QED  BY <1>1, <1>3

LEMMA LevelNames ==
  ASSUME NEW branch \in {"albums", "artists", "genres"}
  PROVE  \A i \in DOMAIN Levels(branch) :
           /\ i \in 1 .. 3
           /\ Levels(branch)[i] \in {"genre", "artist", "album"}
<1>1. CASE branch = "albums"
  BY <1>1 DEF Levels
<1>2. CASE branch = "artists"
  BY <1>2 DEF Levels
<1>3. CASE branch = "genres"
  BY <1>3 DEF Levels
<1> QED  BY <1>1, <1>2, <1>3

LEMMA MinOfSmall ==
  ASSUME NEW S \in SUBSET (1 .. 3), S # {}
  PROVE  Min(S) \in S
<1>1. \E i \in S : \A j \in S : i =< j
  <2>1. CASE 1 \in S  BY <2>1
  <2>2. CASE 1 \notin S /\ 2 \in S  BY <2>2
  <2>3. CASE S = {3}  BY <2>3
  <2>4. \A i \in S : i = 1 \/ i = 2 \/ i = 3
    OBVIOUS
  <2>5. 1 \in S \/ 2 \in S \/ S = {3}
    BY <2>4
  <2> QED  BY <2>1, <2>2, <2>3, <2>5
<1> QED  BY <1>1 DEF Min

LEMMA BrowsePlanOK ==
  ASSUME NEW path \in Seq(STRING), NEW recursive \in BOOLEAN,
         LET info == CategoryInfo(path)
         IN  /\ info.category # "root"
             /\ info.category = "music" => recursive
             /\ info.clip # Nothing => info.category # "playlists"
  PROVE  PlanOK(BrowsePlan(path, recursive))
<1> DEFINE info == CategoryInfo(path)
           c == info.category
           missing == {i \in DOMAIN Levels(c) : info[Levels(c)[i]] = Nothing}
           p == BrowsePlan(path, recursive)
<1>1. c \in Categories \ {"root"}
  BY CategoryIsKnown
<1>2. \A type \in {"music", "video", "playlist"} :
        \A category, prefix : PlanOK(GetList(type, category, prefix))
  BY SimplePlanOK, TypeNames DEF GetList
<1>3. PlanOK(NoPlan)
  BY SimplePlanOK, TypeNames DEF NoPlan
<1>4. CASE c \in {"albums", "artists", "genres"} /\ info.clip = Nothing
  <2>1. missing \in SUBSET (1 .. 3)
    BY <1>4, LevelNames
  <2>2. ASSUME missing # {}
        PROVE  Levels(c)[Min(missing)] \in {"genre", "artist", "album"}
    <3>1. Min(missing) \in missing
      BY <2>1, <2>2, MinOfSmall
    <3> QED  BY <1>4, <3>1, LevelNames
  <2>3. \A category, prefix :
          missing # {} => PlanOK(GetUnique(Levels(c)[Min(missing)], category, prefix))
    BY <2>2, GetUniqueOK
  <2>4. p = IF recursive
            THEN GetList("music", Only(info, {"genre", "artist", "album"}), Songs)
            ELSE IF missing = {}
            THEN GetList("music", Only(info, {"genre", "artist", "album"}), path)
            ELSE GetUnique(Levels(c)[Min(missing)], Only(info, {"genre", "artist"}), path)
    BY <1>4 DEF BrowsePlan
  <2> HIDE DEF p, missing, c
  <2> QED  BY <1>2, <2>3, <2>4 DEF p
<1>5. CASE c = "error" \/ info.clip # Nothing
  <2>1. c = "error" \/ (info.clip # Nothing /\ c # "playlists")
    BY <1>5
  <2>2. p = NoPlan
    BY ONLY <2>1 DEF BrowsePlan
  <2> QED  BY <1>3, <2>2
<1>6. CASE c \in {"videos", "playlists", "songs", "music"} /\ info.clip = Nothing
  <2>1. \/ p = GetList("video", Everything, path)
        \/ p = GetList("playlist", Everything, path)
        \/ p = GetList("music", Everything, Songs)
    BY <1>6 DEF BrowsePlan
  <2> QED  BY <1>2, <2>1
<1> QED  BY <1>1, <1>4, <1>5, <1>6 DEF Categories

LEMMA MetadataPlanOK ==
  ASSUME NEW path \in Seq(STRING),
         CategoryInfo(path).category \notin {"root", "music"}
  PROVE  PlanOK(MetadataPlan(path))
<1> DEFINE info == CategoryInfo(path)
           category == Only(info, {"genre", "artist", "album"})
           p == MetadataPlan(path)
<1>1. info.category \in Categories \ {"root", "music"}
  BY CategoryIsKnown
<1>2. \/ p = GetService("video", "Videos")
      \/ p = GetService("music", "Songs")
      \/ p = GetService("playlist", "Playlists")
      \/ p = GetCategory("artist", "Artists", category)
      \/ p = GetCategory("album", "Albums", category)
      \/ p = GetCategory("genre", "Genres", category)
      \/ p = NoPlan
  BY <1>1 DEF MetadataPlan, Categories
<1>3. PlanOK(NoPlan)
  BY SimplePlanOK, TypeNames DEF NoPlan
<1> QED  BY <1>2, <1>3, GetServiceOK, GetCategoryOK, TypeNames

LEMMA ClipsPlanOK ==
  ASSUME NEW path
  PROVE  PlanOK(ClipsPlan(path))
<1> DEFINE c == CategoryInfo(path).category
<1>1. PlanOK(NoPlan)
  BY SimplePlanOK, TypeNames DEF NoPlan
<1>2. \A type \in {"music", "video", "playlist"} :
        PlanOK(Plan("clips", type, Everything, path))
  BY SimplePlanOK, TypeNames
<1> HIDE DEF c
<1>3. CASE c = "error"
  <2>1. ClipsPlan(path) = NoPlan
    BY <1>3 DEF ClipsPlan, c
  <2> QED  BY <1>1, <2>1
<1>4. CASE c # "error"
  <2>1. \E type \in {"music", "video", "playlist"} :
          ClipsPlan(path) = Plan("clips", type, Everything, path)
    BY <1>4 DEF ClipsPlan, c
  <2> QED  BY <1>2, <2>1
<1> QED  BY <1>3, <1>4

LEMMA PlanOfOK ==
  ASSUME NEW q \in Queries
  PROVE  PlanOK(PlanOf(q))
<1>1. /\ q.op \in {"browse", "get_metadata", "get_metadatas"}
      /\ q.path \in Seq(STRING)
      /\ q.recursive \in BOOLEAN
      /\ CategoryInfo(q.path).category # "root"
      /\ CategoryInfo(q.path).category = "music" => q.op # "get_metadata" /\ q.recursive
      /\ CategoryInfo(q.path).clip # Nothing => CategoryInfo(q.path).category # "playlists"
  BY QueriesAssumption
<1>2. CASE q.op = "browse"
  BY <1>1, <1>2, BrowsePlanOK DEF PlanOf
<1>3. CASE q.op = "get_metadata"
  BY <1>1, <1>3, MetadataPlanOK DEF PlanOf
<1>4. CASE q.op = "get_metadatas"
  BY <1>4, ClipsPlanOK DEF PlanOf
<1> QED  BY <1>1, <1>2, <1>3, <1>4

-----------------------------------------------------------------------------
(* The cache before and after the keys of the user.                        *)

LEMMA PresetStaysFresh ==
  ASSUME NEW c, Fresh(c), NEW key, NEW value
  PROVE  /\ Fresh(Preset(c, key, value))
         /\ Preset(c, key, value).type = c.type
         /\ Preset(c, key, value).result = c.result
<1> DEFINE entry == Entry("computed", 0, value, Hole, FALSE)
<1>1. entry.kind # "tracker"
  BY DEF Entry
<1>2. Preset(c, key, value) \in {c, Inserted(c, key, entry, 0)}
  BY DEF Preset, KeyAddPrecomputed
<1> HIDE DEF entry
<1> QED  BY <1>1, <1>2, FreshStays

LEMMA DerivedStaysFresh ==
  ASSUME NEW c, Fresh(c), NEW key, NEW source
  PROVE  LET q == KeyAddDerived(c, key, FALSE, source)
         IN  Fresh(q) /\ q.type = c.type /\ q.result = c.result
<1> DEFINE entry == Entry("derived", 0, Nothing, source, FALSE)
           q == KeyAddDerived(c, key, FALSE, source)
<1>1. entry.kind # "tracker"
  BY DEF Entry
<1>2. q \in {c, Inserted(c, key, entry, 0)}
  BY DEF KeyAddDerived
<1> HIDE DEF entry, q
<1>3. Fresh(q) /\ q.type = c.type /\ q.result = c.result
  BY <1>1, <1>2, FreshStays
<1> QED  BY <1>3 DEF q

LEMMA FirstCacheOK ==
  ASSUME NEW p, PlanOK(p), NEW clips
  PROVE  /\ CacheOK(FirstCache(p, clips), p.unique)
         /\ FirstCache(p, clips).type = p.type
<1> DEFINE result == CASE p.kind \in {"unique", "container"} -> "unique"
                       [] p.kind = "clips" -> "get_metadata"
                       [] p.kind \in {"list", "none"} -> "query"
           new == NewCache(p.type, result)
           genre == Preset(new, "genre", p.category.genre)
           artist == Preset(genre, "artist", p.category.artist)
           album == Preset(artist, "album", p.category.album)
           uri == IF Len(clips) = 1 THEN {Uri[clips[1]]} ELSE Nothing
           titled == KeyAddDerived(album, "title", FALSE, p.unique)
           called == Preset(album, "title", p.title)
           first == FirstCache(p, clips)
<1>1. Fresh(new) /\ new.type = p.type /\ new.result = result
  <2> HIDE DEF result
  <2> QED  BY NewCacheIsFresh
<1> HIDE DEF new
<1>2. Fresh(genre) /\ genre.type = p.type /\ genre.result = result
  BY <1>1, PresetStaysFresh, ZenonT(40)
<1> HIDE DEF genre
<1>3. Fresh(artist) /\ artist.type = p.type /\ artist.result = result
  BY <1>2, PresetStaysFresh, ZenonT(40)
<1> HIDE DEF artist
<1>4. Fresh(album) /\ album.type = p.type /\ album.result = result
  BY <1>3, PresetStaysFresh, ZenonT(40)
<1> HIDE DEF album
<1>5. p.unique # Hole <=> p.kind \in {"unique", "container"}
  BY DEF PlanOK
<1>6. CASE p.kind = "clips"
  <2>1. first = Preset(new, "uri", uri)
    BY <1>6 DEF FirstCache, new
  <2>2. result # "unique" /\ p.unique = Hole
    BY <1>5, <1>6
  <2> HIDE DEF result, uri, first
  <2>3. Fresh(first) /\ first.type = p.type /\ first.result = result
    BY <1>1, <2>1, PresetStaysFresh
  <2> QED  BY <2>2, <2>3, FreshIsOK DEF first
<1>7. CASE p.kind = "list"
  <2>1. first = KeyAdd(album, "uri", 1, FALSE)
    BY <1>7 DEF FirstCache, new, genre, artist, album
  <2>2. result # "unique" /\ p.unique = Hole
    BY <1>5, <1>7
  <2> HIDE DEF result, first
  <2>3. CacheOK(album, Hole)
    BY <1>4, <2>2, FreshIsOK
  <2>4. \A user : CacheOK(KeyAdd(album, "uri", 1, user), Hole)
    BY <2>3, KeyAddKeepsOK
  <2>5. \A user : KeyAdd(album, "uri", 1, user).type = album.type
    BY KeyAddKeepsType
  <2> QED  BY <1>4, <2>1, <2>2, <2>4, <2>5 DEF first
<1>8. CASE p.kind = "unique"
  <2>1. first = KeyAddUnique(titled, p.unique)
    BY <1>8 DEF FirstCache, new, genre, artist, album
  <2>2. result = "unique" /\ p.unique # Hole
    BY <1>5, <1>8
  <2> HIDE DEF result, first
  <2>3. Fresh(titled) /\ titled.type = p.type /\ titled.result = result
    BY <1>4, DerivedStaysFresh, ZenonT(40)
  <2> HIDE DEF titled
  <2> QED  BY <2>1, <2>2, <2>3, KeyAddUniqueMakesOK DEF first
<1>9. CASE p.kind = "container"
  <2>1. first = KeyAddUnique(called, p.unique)
    BY <1>9 DEF FirstCache, new, genre, artist, album
  <2>2. result = "unique" /\ p.unique # Hole
    BY <1>5, <1>9
  <2> HIDE DEF result, first
  <2>3. Fresh(called) /\ called.type = p.type /\ called.result = result
    BY <1>4, PresetStaysFresh
  <2> HIDE DEF called
  <2> QED  BY <2>1, <2>2, <2>3, KeyAddUniqueMakesOK DEF first
<1>10. CASE p.kind = "none"
  <2>1. first = new
    BY <1>10 DEF FirstCache, new
  <2>2. result # "unique" /\ p.unique = Hole
    BY <1>5, <1>10
  <2> HIDE DEF result, first
  <2> QED  BY <1>1, <2>1, <2>2, FreshIsOK DEF first
<1> QED  BY <1>6, <1>7, <1>8, <1>9, <1>10 DEF PlanOK, PlanKinds

\* What is left of CacheOK when the last key is in.
LEMMA LastCacheOK ==
  ASSUME NEW p, PlanOK(p), NEW c, CacheOK(c, p.unique)
  PROVE  /\ ColumnsOK(LastCache(p, c), p.unique)
         /\ InTracker(LastCache(p, c)) \subseteq InTracker(c) \cup {"artist", "album"}
         /\ LastCache(p, c).type = c.type
         /\ p.unique = Hole => LastCache(p, c) = c
<1>1. CASE \E key \in p.concat : KeyExists(c, key)
  <2> DEFINE k == CHOOSE key \in p.concat : TRUE
  <2>1. k \in p.concat
    BY <1>1
  <2>2. LastCache(p, c) = KeyAddConcat(c, k)
    BY <1>1 DEF LastCache
  <2> HIDE DEF k
  <2>3. k \in {"artist", "album"} /\ k # p.unique /\ p.unique # Hole
    BY <2>1 DEF PlanOK
  <2>4. k \notin Askable(c, p.unique)
    BY <2>3, ChildcountNames DEF Askable
  <2> QED  BY <2>2, <2>3, <2>4, KeyAddConcatKeepsColumns
<1>2. CASE ~\E key \in p.concat : KeyExists(c, key)
  <2>1. LastCache(p, c) = c
    BY <1>2 DEF LastCache
  <2> QED  BY <2>1 DEF CacheOK
<1> QED  BY <1>1, <1>2

-----------------------------------------------------------------------------
(* Every step keeps keys and columns paired.                               *)

LEMMA AskableAreKeys ==
  ASSUME NEW c, NEW p, PlanOK(p)
  PROVE  Askable(c, p.unique) \subseteq MetadataKeys
<1>1. {"duration", "genre", "artist", "album", "mime"} \subseteq MetadataKeys
  BY DEF MetadataKeys, CommonKeys, MusicKeys
<1> QED  BY <1>1 DEF Askable, MetadataKeys, PlanOK

\* A cache that is still being filled.
LEMMA FillingOK ==
  ASSUME NEW p, PlanOK(p), NEW c, CacheOK(c, p.unique)
  PROVE  /\ ColumnsOK(c, p.unique)
         /\ InTracker(c) \subseteq MetadataKeys
         /\ p.unique = Hole => InTracker(c) \subseteq Askable(c, Hole)
  BY AskableAreKeys DEF CacheOK

LEMMA InitPairs == CatalogInit => PairingInv
<1> SUFFICES ASSUME CatalogInit PROVE PairingInv
  OBVIOUS
<1>1. plan = NoPlan /\ cache = FirstCache(NoPlan, << >>)
  BY DEF CatalogInit
<1>2. PlanOK(NoPlan)
  BY SimplePlanOK, TypeNames DEF NoPlan
<1>3. CacheOK(cache, plan.unique) /\ cache.type = plan.type
  BY <1>1, <1>2, FirstCacheOK
<1> QED  BY <1>1, <1>2, <1>3, FillingOK DEF PairingInv, Paired

LEMMA StepPairs == PairingInv /\ [CatalogNext]_allVars => PairingInv'
<1> SUFFICES ASSUME PairingInv, [CatalogNext]_allVars PROVE PairingInv'
  OBVIOUS
\* Most steps neither touch the cache nor begin to fill it.
<1>1. ASSUME UNCHANGED <<plan, cache>>, stage' = "keys" => stage = "keys"
      PROVE  PairingInv'
  BY <1>1 DEF PairingInv, Paired
<1>2. ASSUME NEW q \in Queries, Ask(q)
      PROVE  PairingInv'
  <2>1. plan' = PlanOf(q) /\ cache' = FirstCache(plan', q.clips)
    BY <1>2 DEF Ask
  <2>2. PlanOK(plan')
    BY <2>1, PlanOfOK
  <2>3. CacheOK(cache', plan'.unique) /\ cache'.type = plan'.type
    BY <2>1, <2>2, FirstCacheOK
  <2> QED  BY <2>2, <2>3, FillingOK DEF PairingInv, Paired
<1>3. CASE AddKey
  <2>1. /\ cache' = KeyAdd(cache, Head(todo), plan.max, TRUE)
        /\ plan' = plan
        /\ stage = "keys"
    BY <1>3 DEF AddKey
  <2>2. PlanOK(plan) /\ CacheOK(cache, plan.unique) /\ plan.max \in Int
    BY <2>1 DEF PairingInv, Paired, PlanOK
  <2>3. CacheOK(cache', plan.unique) /\ cache'.type = cache.type
    BY <2>1, <2>2, KeyAddKeepsOK, KeyAddKeepsType
  <2> QED  BY <2>1, <2>2, <2>3, FillingOK DEF PairingInv, Paired
<1>4. CASE Send
  <2>1. /\ cache' = LastCache(plan, cache)
        /\ plan' = plan
        /\ stage = "keys"
        /\ stage' # "keys"
    BY <1>4 DEF Send
  <2>2. PlanOK(plan) /\ CacheOK(cache, plan.unique)
    BY <2>1 DEF PairingInv, Paired
  <2>3. /\ ColumnsOK(cache', plan.unique)
        /\ InTracker(cache') \subseteq InTracker(cache) \cup {"artist", "album"}
        /\ cache'.type = cache.type
        /\ plan.unique = Hole => cache' = cache
    BY <2>1, <2>2, LastCacheOK
  <2>4. {"artist", "album"} \subseteq MetadataKeys
    BY DEF MetadataKeys, MusicKeys
  <2> QED  BY <2>1, <2>2, <2>3, <2>4 DEF PairingInv, Paired
<1>5. CASE SendClips
  BY <1>1, <1>5 DEF SendClips, catalogVarsButStage
<1>6. CASE TrackerAnswers
  BY <1>1, <1>6 DEF TrackerAnswers
<1>7. CASE TrackerFails
  BY <1>1, <1>7 DEF TrackerFails, catalogVarsButStage
<1>8. CASE NothingAsked
  BY <1>1, <1>8 DEF NothingAsked
<1>9. CASE ClipsHandler
  BY <1>1, <1>9 DEF ClipsHandler, catalogVarsButStage
<1>10. CASE Indexer
  BY <1>1, <1>10 DEF Indexer, catalogVars
<1>11. CASE UNCHANGED allVars
  BY <1>1, <1>11 DEF allVars, catalogVars
<1> QED
  BY <1>2, <1>3, <1>4, <1>5, <1>6, <1>7, <1>8, <1>9, <1>10, <1>11
  DEF CatalogNext, CatalogHandler

LEMMA PairedColumns == PairingInv => ColumnsOwnKeys
<1> SUFFICES ASSUME PairingInv, NEW key \in InTracker(cache)
             PROVE  LET column == cache.entries[key].at + 1
                    IN  /\ column \in DOMAIN Columns(plan, cache)
                        /\ Columns(plan, cache)[column] = key
                        /\ plan.unique = Hole => TrackerHas(plan.type, key)
  BY DEF ColumnsOwnKeys
<1> DEFINE at == cache.entries[key].at
           first == FirstUsed(plan.unique)
           asked == KeysFrom(cache, first + 1)
<1>1. ColumnsOK(cache, plan.unique) /\ InTracker(cache) \subseteq MetadataKeys
  BY DEF PairingInv, Paired
<1>2. /\ asked \in Seq(InTracker(cache))
      /\ Len(asked) = cache.last - first
      /\ at >= first => asked[at + 1 - first] = key
  BY <1>1, KeysFromAll
<1>3. at \in 0 .. cache.last - 1 /\ cache.last \in Nat
  BY <1>1 DEF ColumnsOK
<1>4. CASE plan.unique = Hole
  <2>1. first = 0 /\ Columns(plan, cache) = asked
    BY <1>4 DEF FirstUsed, Columns
  <2>2. TrackerHas(plan.type, key)
    BY <1>4 DEF PairingInv, Paired, Askable
  <2> HIDE DEF first, asked, at
  <2>3. at + 1 \in 1 .. Len(asked) /\ asked[at + 1] = key
    BY <1>2, <1>3, <2>1
  <2>4. at + 1 \in DOMAIN asked
    BY <1>2, <2>3
  <2> QED  BY <2>1, <2>2, <2>3, <2>4 DEF at
<1>5. CASE plan.unique # Hole
  <2>1. first = 1 /\ Columns(plan, cache) = <<plan.unique>> \o asked
    BY <1>5 DEF FirstUsed, Columns
  <2>2. at = 0 => key = plan.unique
    BY <1>1, <1>5 DEF ColumnsOK
  <2> DEFINE S == InTracker(cache) \cup {plan.unique}
             whole == <<plan.unique>> \o asked
  <2> HIDE DEF first, asked, at
  <2>3. asked \in Seq(S) /\ <<plan.unique>> \in Seq(S) /\ Len(<<plan.unique>>) = 1
    BY <1>2
  <2>4. /\ whole \in Seq(S)
        /\ Len(whole) = 1 + Len(asked)
        /\ \A i \in 1 .. 1 + Len(asked) :
             whole[i] = IF i <= 1 THEN <<plan.unique>>[i] ELSE asked[i - 1]
    BY <2>3, ConcatProperties
  <2>5. at + 1 \in 1 .. 1 + Len(asked)
    BY <1>2, <1>3, <2>1
  <2>6. whole[at + 1] = key
    <3>1. CASE at = 0
      BY <2>2, <2>4, <2>5, <3>1
    <3>2. CASE at # 0
      <4>1. at \in Nat /\ at >= 1
        BY <1>3, <3>2
      <4>2. asked[at] = key
        BY <1>2, <2>1, <4>1
      <4>3. \A j \in Nat : j >= 1 /\ j + 1 \in 1 .. 1 + Len(asked) => whole[j + 1] = asked[j]
        <5> HIDE DEF whole
        <5> QED  BY <2>4
      <4>4. whole[at + 1] = asked[at]
        <5> HIDE DEF whole
        <5> QED  BY <2>5, <4>1, <4>3
      <4> QED  BY <4>2, <4>4
    <3> QED  BY <3>1, <3>2
  <2>7. at + 1 \in DOMAIN whole
    BY <2>4, <2>5
  <2> QED  BY <1>5, <2>1, <2>6, <2>7 DEF at
<1> QED  BY <1>4, <1>5

\* Each key is read from the column that the statement asks for it in.
THEOREM ColumnsAlign == CatalogSpec => []ColumnsOwnKeys
<1>1. CatalogInit => PairingInv
  BY InitPairs
<1>2. PairingInv /\ [CatalogNext]_allVars => PairingInv'
  BY StepPairs
<1>3. PairingInv => ColumnsOwnKeys
  BY PairedColumns
<1> QED  BY <1>1, <1>2, <1>3, PTL DEF CatalogSpec

-----------------------------------------------------------------------------
(* Queries about clips do what Chunks does.                                *)

ClipsInv ==
  /\ query \in Queries \cup {NoQuery}
  /\ CInv

LEMMA QueryFacts ==
  ASSUME query \in Queries \cup {NoQuery}
  PROVE  /\ query.clips \in Seq(File)
         /\ query.keys \in Seq(STRING)
         /\ query.op \in {"none", "browse", "get_metadata", "get_metadatas"}
<1>1. CASE query \in Queries
  BY <1>1, QueriesAssumption
<1>2. CASE query = NoQuery
  BY <1>2 DEF NoQuery
<1> QED  BY <1>1, <1>2

\* A statement about clips asks for a number of properties.
LEMMA FieldsLen ==
  ASSUME PairingInv, plan.kind = "clips"
  PROVE  Len(Fields(plan, cache)) \in Nat
<1> DEFINE asked == KeysFrom(cache, 1)
           I == {i \in DOMAIN asked : TrackerHas(plan.type, asked[i])}
<1>1. /\ plan.unique = Hole
      /\ ColumnsOK(cache, plan.unique) /\ InTracker(cache) \subseteq MetadataKeys
  BY DEF PairingInv, Paired, PlanOK
<1>2. FirstUsed(plan.unique) + 1 = 1
  BY <1>1 DEF FirstUsed
<1>3. asked \in Seq(InTracker(cache))
  <2> DEFINE first == FirstUsed(plan.unique)
  <2>1. KeysFrom(cache, first + 1) \in Seq(InTracker(cache))
    BY <1>1, KeysFromAll
  <2> HIDE DEF first
  <2> QED  BY <1>2, <2>1 DEF first
<1>4. Fields(plan, cache) = Selected(asked, I)
  BY DEF Fields
<1>5. I \in SUBSET DOMAIN asked
  OBVIOUS
<1> HIDE DEF asked, I
<1>6. Len(Selected(asked, I)) \in Nat
  <2>1. Len(Selected(asked, I)) = Cardinality(I) /\ Cardinality(I) \in Nat
    BY <1>3, <1>5, SelectedFacts
  <2> QED  BY <2>1
<1> QED  BY <1>4, <1>6

LEMMA InitClips == CatalogInit => ClipsInv
  BY InitCInv DEF CatalogInit, ClipsInv

LEMMA StepClips ==
  PairingInv /\ ClipsInv /\ [CatalogNext]_allVars => ClipsInv'
<1> SUFFICES ASSUME PairingInv, ClipsInv, [CatalogNext]_allVars PROVE ClipsInv'
  OBVIOUS
<1>1. CInv /\ query \in Queries \cup {NoQuery}
  BY DEF ClipsInv
\* Most steps have nothing to do with chunks.
<1>2. ASSUME UNCHANGED vars, query' \in Queries \cup {query}
      PROVE  ClipsInv'
  BY <1>1, <1>2, StutterKeepsCInv DEF ClipsInv
<1>3. ASSUME NEW q \in Queries, Ask(q)
      PROVE  ClipsInv'
  BY <1>2, <1>3 DEF Ask
<1>4. CASE AddKey
  BY <1>2, <1>4 DEF AddKey
<1>5. CASE Send
  BY <1>2, <1>5 DEF Send
<1>6. CASE SendClips
  <2>1. query' = query /\ plan.kind = "clips"
    BY <1>6 DEF SendClips, catalogVarsButStage
  <2>2. PICK u, n : u = query.clips /\ n = Len(Fields(plan, cache))
    OBVIOUS
  <2>3. u \in Seq(File) /\ n \in Nat /\ GetMetadata(u, n)
    BY <1>1, <1>6, <2>1, <2>2, QueryFacts, FieldsLen DEF SendClips
  <2>4. CInv'
    BY <1>1, <2>3, GetMetadataKeepsCInv
  <2> QED  BY <1>1, <2>1, <2>4 DEF ClipsInv
<1>7. CASE TrackerAnswers
  BY <1>2, <1>7 DEF TrackerAnswers
<1>8. CASE TrackerFails
  BY <1>2, <1>8 DEF TrackerFails, catalogVarsButStage
<1>9. CASE NothingAsked
  BY <1>2, <1>9 DEF NothingAsked
<1>10. CASE ClipsHandler
  <2>1. Handler /\ query' = query
    BY <1>10 DEF ClipsHandler, catalogVarsButStage
  <2> QED  BY <1>1, <2>1, StepKeepsCInv DEF ClipsInv
<1>11. CASE Indexer
  <2>1. (\E f \in File : Index(f)) /\ query' = query
    BY <1>11 DEF Indexer, catalogVars
  <2> QED  BY <1>1, <2>1, StepKeepsCInv DEF ClipsInv
<1>12. CASE UNCHANGED allVars
  BY <1>2, <1>12 DEF allVars, catalogVars
<1> QED
  BY <1>3, <1>4, <1>5, <1>6, <1>7, <1>8, <1>9, <1>10, <1>11, <1>12
  DEF CatalogNext, CatalogHandler

\* The invariant of a metadata query holds of every query of the catalog.
THEOREM ClipsInvariance == CatalogSpec => []ClipsInv
<1>1. CatalogInit => PairingInv /\ ClipsInv
  BY InitPairs, InitClips
<1>2. PairingInv /\ ClipsInv /\ [CatalogNext]_allVars => (PairingInv /\ ClipsInv)'
  BY StepPairs, StepClips
<1> QED  BY <1>1, <1>2, PTL DEF CatalogSpec

\* Whatever clips and keys are asked about, the rows of the query hold their
\* own values (Chunks!RowsOwnValues).
THEOREM ClipRowsAreTheirOwn == CatalogSpec => []RowsOwnValues
<1>1. ClipsInv => RowsOwnValues
  BY RowsOwn DEF ClipsInv
<1> QED  BY <1>1, ClipsInvariance, PTL

\* And asking in chunks gives the answer that one statement would have given
\* (Chunks!AsIfAtOnce).
THEOREM ClipChunksActAsOne == CatalogSpec => []AsIfAtOnce
<1>1. ClipsInv => AsIfAtOnce
  BY AtOnce DEF ClipsInv
<1> QED  BY <1>1, ClipsInvariance, PTL

-----------------------------------------------------------------------------
(* The aggregates of a statement have room.                                *)

\* What is asked of rows that are grouped, while the cache is filled and when
\* the last key is in.
BoundedInTheEnd(p, c) ==
  \E more \in {{}} \cup {{key} : key \in p.concat} : Bounded(c, p.unique, p.max, more)

BoundInv ==
  plan.unique # Hole =>
    /\ stage = "keys" => Bounded(cache, plan.unique, plan.max, {})
    /\ BoundedInTheEnd(plan, cache)

\* A plan and a cache that a statement can be made of.
CacheFits(p, c) ==
  /\ Paired(p, c)
  /\ p.unique # Hole => BoundedInTheEnd(p, c)

LEMMA FirstCacheBounded ==
  ASSUME NEW p, PlanOK(p), p.unique # Hole, NEW clips
  PROVE  Bounded(FirstCache(p, clips), p.unique, p.max, {})
<1> DEFINE new == NewCache(p.type, "unique")
           genre == Preset(new, "genre", p.category.genre)
           artist == Preset(genre, "artist", p.category.artist)
           album == Preset(artist, "album", p.category.album)
           titled == KeyAddDerived(album, "title", FALSE, p.unique)
           called == Preset(album, "title", p.title)
<1>1. p.kind \in {"unique", "container"} /\ p.max \in Int
  BY DEF PlanOK
<1>2. /\ p.kind = "unique" => FirstCache(p, clips) = KeyAddUnique(titled, p.unique)
      /\ p.kind = "container" => FirstCache(p, clips) = KeyAddUnique(called, p.unique)
  BY <1>1 DEF FirstCache
<1>3. Fresh(new) /\ new.result = "unique"
  BY NewCacheIsFresh
<1> HIDE DEF new
<1>4. Fresh(genre) /\ genre.result = "unique"
  BY <1>3, PresetStaysFresh
<1> HIDE DEF genre
<1>5. Fresh(artist) /\ artist.result = "unique"
  BY <1>4, PresetStaysFresh
<1> HIDE DEF artist
<1>6. Fresh(album) /\ album.result = "unique"
  BY <1>5, PresetStaysFresh
<1> HIDE DEF album
<1>7. Fresh(titled) /\ titled.result = "unique"
  BY <1>6, DerivedStaysFresh
<1>8. Fresh(called) /\ called.result = "unique"
  BY <1>6, PresetStaysFresh
<1> HIDE DEF titled, called
<1> QED  BY <1>1, <1>2, <1>7, <1>8, KeyAddUniqueMakesBounded

LEMMA LastCacheBounded ==
  ASSUME NEW p, PlanOK(p), p.unique # Hole, NEW c, Bounded(c, p.unique, p.max, {})
  PROVE  \E more \in {{}} \cup {{key} : key \in p.concat} :
           Bounded(LastCache(p, c), p.unique, p.max, more)
<1>1. CASE \E key \in p.concat : KeyExists(c, key)
  <2> DEFINE k == CHOOSE key \in p.concat : TRUE
  <2>1. k \in p.concat
    BY <1>1
  <2>2. LastCache(p, c) = KeyAddConcat(c, k)
    BY <1>1 DEF LastCache
  <2> HIDE DEF k
  <2>3. k # p.unique /\ p.max \in Int
    BY <2>1 DEF PlanOK
  <2>4. Bounded(KeyAddConcat(c, k), p.unique, p.max, {k})
    BY <2>3, KeyAddConcatKeepsBounded
  <2> QED  BY <2>1, <2>2, <2>4
<1>2. CASE ~\E key \in p.concat : KeyExists(c, key)
  <2>1. LastCache(p, c) = c
    BY <1>2 DEF LastCache
  <2> QED  BY <2>1
<1> QED  BY <1>1, <1>2

LEMMA InitBounds == CatalogInit => BoundInv
<1> SUFFICES ASSUME CatalogInit PROVE plan.unique = Hole
  BY DEF BoundInv, BoundedInTheEnd
<1> QED  BY PlanFields DEF CatalogInit, NoPlan

LEMMA StepBounds ==
  PairingInv /\ BoundInv /\ [CatalogNext]_allVars => BoundInv'
<1> SUFFICES ASSUME PairingInv, BoundInv, [CatalogNext]_allVars PROVE BoundInv'
  OBVIOUS
<1>1. PlanOK(plan)
  BY DEF PairingInv, Paired
\* Most steps neither touch the cache nor begin to fill it.
<1>2. ASSUME UNCHANGED <<plan, cache>>, stage' = "keys" => stage = "keys"
      PROVE  BoundInv'
  BY <1>2 DEF BoundInv, BoundedInTheEnd
<1>3. ASSUME NEW q \in Queries, Ask(q)
      PROVE  BoundInv'
  <2>1. plan' = PlanOf(q) /\ cache' = FirstCache(plan', q.clips)
    BY <1>3 DEF Ask
  <2>2. PlanOK(plan')
    BY <2>1, PlanOfOK
  <2>3. plan'.unique # Hole => Bounded(cache', plan'.unique, plan'.max, {})
    BY <2>1, <2>2, FirstCacheBounded
  <2> QED  BY <2>3 DEF BoundInv, BoundedInTheEnd
<1>4. CASE AddKey
  <2>1. /\ cache' = KeyAdd(cache, Head(todo), plan.max, TRUE)
        /\ plan' = plan
        /\ stage = "keys"
    BY <1>4 DEF AddKey
  <2>2. plan.max \in Int
    BY <1>1 DEF PlanOK
  <2>3. plan.unique # Hole => Bounded(cache', plan.unique, plan.max, {})
    BY <2>1, <2>2, KeyAddKeepsBounded DEF BoundInv, BoundedInTheEnd
  <2> QED  BY <2>1, <2>3 DEF BoundInv, BoundedInTheEnd
<1>5. CASE Send
  <2>1. /\ cache' = LastCache(plan, cache)
        /\ plan' = plan
        /\ stage = "keys"
        /\ stage' # "keys"
    BY <1>5 DEF Send
  <2>2. plan.unique # Hole =>
          \E more \in {{}} \cup {{key} : key \in plan.concat} :
            Bounded(cache', plan.unique, plan.max, more)
    BY <1>1, <2>1, LastCacheBounded DEF BoundInv, BoundedInTheEnd
  <2> QED  BY <2>1, <2>2 DEF BoundInv, BoundedInTheEnd
<1>6. CASE SendClips
  BY <1>2, <1>6 DEF SendClips, catalogVarsButStage
<1>7. CASE TrackerAnswers
  BY <1>2, <1>7 DEF TrackerAnswers
<1>8. CASE TrackerFails
  BY <1>2, <1>8 DEF TrackerFails, catalogVarsButStage
<1>9. CASE NothingAsked
  BY <1>2, <1>9 DEF NothingAsked
<1>10. CASE ClipsHandler
  BY <1>2, <1>10 DEF ClipsHandler, catalogVarsButStage
<1>11. CASE Indexer
  BY <1>2, <1>11 DEF Indexer, catalogVars
<1>12. CASE UNCHANGED allVars
  BY <1>2, <1>12 DEF allVars, catalogVars
<1> QED
  BY <1>3, <1>4, <1>5, <1>6, <1>7, <1>8, <1>9, <1>10, <1>11, <1>12
  DEF CatalogNext, CatalogHandler

LEMMA CacheIsFit == PairingInv /\ BoundInv => CacheFits(plan, cache)
  BY DEF PairingInv, BoundInv, CacheFits

LEMMA RoomForAggregates ==
  ASSUME NEW p, NEW c, CacheFits(p, c), p.kind \in {"unique", "container"}
  PROVE  /\ Len(KeysFrom(c, 2)) < p.size
         /\ \A key \in InTracker(c) \cap ChildcountKeys : Level(key) <= Len(p.counts)
<1>1. /\ p.unique \in {"genre", "artist", "album", "mime"} /\ p.unique # Hole
      /\ p.concat \subseteq {"artist", "album"}
      /\ p.max \in Nat /\ p.size \in Nat /\ p.max <= Len(p.counts)
      /\ Slots(p) < p.size
      /\ ColumnsOK(c, p.unique) /\ InTracker(c) \subseteq MetadataKeys
  BY DEF CacheFits, Paired, PlanOK
<1>2. PICK more \in {{}} \cup {{key} : key \in p.concat} :
        Bounded(c, p.unique, p.max, more)
  BY <1>1 DEF CacheFits, BoundedInTheEnd
<1>3. /\ more = {} \/ \E m \in {"artist", "album"} : more = {m}
      /\ more # {} => p.concat # {}
  BY <1>1
<1>4. Len(KeysFrom(c, 2)) = c.last - 1 /\ c.last \in Nat
  <2>1. FirstUsed(p.unique) = 1
    BY <1>1 DEF FirstUsed
  <2> DEFINE first == FirstUsed(p.unique)
  <2>2. Len(KeysFrom(c, first + 1)) = c.last - first
    BY <1>1, KeysFromAll
  <2> HIDE DEF first
  <2>3. first = 1
    BY <2>1 DEF first
  <2> QED  BY <1>1, <2>2, <2>3 DEF ColumnsOK
<1>5. c.last - 1 <= p.max + 1 + IF more = {} THEN 0 ELSE 1
  BY <1>1, <1>2, <1>3, BoundedColumns
<1>6. Len(KeysFrom(c, 2)) < p.size
  BY <1>1, <1>3, <1>4, <1>5 DEF Slots
<1>7. ASSUME NEW key \in InTracker(c) \cap ChildcountKeys
      PROVE  Level(key) <= Len(p.counts)
  <2>1. key \notin {"duration", "artist", "album", "genre", "mime"} /\ Level(key) \in Nat
    BY ChildcountNames
  <2>2. Level(key) <= p.max
    BY <1>1, <1>2, <1>3, <2>1 DEF Bounded
  <2> QED  BY <1>1, <2>1, <2>2
<1> QED  BY <1>6, <1>7

LEMMA BoundsFit == PairingInv /\ BoundInv => AggregatesFit
  BY CacheIsFit, RoomForAggregates DEF AggregatesFit

\* Whatever keys are asked for, and however many, the arrays that the aggregates
\* of a statement are put in are large enough, and each childcount has something
\* to count (Catalog!AggregatesFit).
THEOREM AggregatesHaveRoom == CatalogSpec => []AggregatesFit
<1>1. CatalogInit => PairingInv /\ BoundInv
  BY InitPairs, InitBounds
<1>2. PairingInv /\ BoundInv /\ [CatalogNext]_allVars => (PairingInv /\ BoundInv)'
  BY StepPairs, StepBounds
<1>3. PairingInv /\ BoundInv => AggregatesFit
  BY BoundsFit
<1> QED  BY <1>1, <1>2, <1>3, PTL DEF CatalogSpec

-----------------------------------------------------------------------------
(* Types.                                                                  *)

\* The keys still to be added are the last of those asked for; and only queries
\* about clips are put to Chunks, one at a time.
TypeInv ==
  /\ library \in DOMAIN Libraries
  /\ \E n \in 0 .. Len(query.keys) :
       todo = SubSeq(query.keys, n + 1, Len(query.keys))
  /\ stage \in Stages
  /\ EntriesOK(cache)
  /\ stage \notin {"clips", "answered", "failed"} => phase = "idle"
  /\ plan.kind # "clips" => phase = "idle"

LEMMA RestOf ==
  ASSUME NEW T, NEW s \in Seq(T), NEW n \in 0 .. Len(s)
  PROVE  LET rest == SubSeq(s, n + 1, Len(s))
         IN  /\ rest = SubSeq(s, Len(s) - Len(rest) + 1, Len(s))
             /\ rest # << >> =>
                  n + 1 \in 0 .. Len(s) /\ Tail(rest) = SubSeq(s, n + 1 + 1, Len(s))
<1> DEFINE rest == SubSeq(s, n + 1, Len(s))
<1>1. Len(s) \in Nat /\ n \in Nat /\ n <= Len(s)
  OBVIOUS
<1>2. /\ Len(rest) = IF n + 1 <= Len(s) THEN Len(s) - (n + 1) + 1 ELSE 0
      /\ rest \in Seq(T)
  BY <1>1, SubSeqProperties
<1>3. Len(s) - Len(rest) + 1 = n + 1
  <2>0. PICK l \in Nat : l = Len(s)
    BY <1>1
  <2>1. PICK k : l = Len(s) /\ k = Len(rest)
    BY <2>0
  <2>2. k = IF n + 1 <= l THEN l - (n + 1) + 1 ELSE 0
    BY <1>2, <2>1
  <2>3. l - k + 1 = n + 1
    <3>1. n \in Nat /\ n <= l
      BY <1>1, <2>1
    <3>2. CASE n + 1 <= l
      <4>1. k = l - (n + 1) + 1
        BY <2>2, <3>2
      <4> QED  BY <3>1, <4>1
    <3>3. CASE ~(n + 1 <= l)
      <4>1. k = 0 /\ n = l
        BY <2>2, <3>1, <3>3
      <4> QED  BY <4>1
    <3> QED  BY <3>2, <3>3
  <2> QED  BY <2>1, <2>3
<1>4. ASSUME rest # << >>
      PROVE  n + 1 \in 0 .. Len(s) /\ Tail(rest) = SubSeq(s, n + 1 + 1, Len(s))
  <2>1. n + 1 \in 1 .. Len(s)
    <3>1. CASE n + 1 <= Len(s)
      BY <1>1, <3>1
    <3>2. CASE ~(n + 1 <= Len(s))
      <4>1. rest = << >>
        BY <1>1, <3>2, SubSeqEmpty
      <4> QED  BY <1>4, <4>1
    <3> QED  BY <3>1, <3>2
  <2>2. PICK m, l : /\ m \in 1 .. Len(s) /\ l \in m .. Len(s)
                    /\ m = n + 1 /\ l = Len(s)
    BY <1>1, <2>1
  <2>3. Tail(SubSeq(s, m, l)) = SubSeq(s, m + 1, l)
    BY <2>2, HeadTailOfSubSeq
  <2>4. n + 1 \in 0 .. Len(s)
    BY <1>1, <2>1
  <2> QED  BY <2>2, <2>3, <2>4
<1>5. rest = SubSeq(s, Len(s) - Len(rest) + 1, Len(s))
  <2>1. PICK m : m = Len(s) - Len(rest) + 1
    OBVIOUS
  <2>2. m = n + 1
    BY <1>3, <2>1
  <2> QED  BY <2>1, <2>2
<1> HIDE DEF rest
<1> QED  BY <1>4, <1>5 DEF rest

\* A cache is made of keys that there are metadata for.
LEMMA KeysOfCaches ==
  {"genre", "artist", "album", "title", "uri", "mime"} \subseteq MetadataKeys
  BY DEF MetadataKeys, CommonKeys, MusicKeys

LEMMA PresetKeepsEntries ==
  ASSUME NEW c, EntriesOK(c), NEW k \in MetadataKeys, NEW value
  PROVE  EntriesOK(Preset(c, k, value))
  BY PrecomputedKeepsEntries DEF Preset

LEMMA FirstCacheEntries ==
  ASSUME NEW p, PlanOK(p), NEW clips
  PROVE  EntriesOK(FirstCache(p, clips))
<1> DEFINE result == CASE p.kind \in {"unique", "container"} -> "unique"
                       [] p.kind = "clips" -> "get_metadata"
                       [] p.kind \in {"list", "none"} -> "query"
           new == NewCache(p.type, result)
           genre == Preset(new, "genre", p.category.genre)
           artist == Preset(genre, "artist", p.category.artist)
           album == Preset(artist, "album", p.category.album)
           uri == IF Len(clips) = 1 THEN {Uri[clips[1]]} ELSE Nothing
           titled == KeyAddDerived(album, "title", FALSE, p.unique)
           called == Preset(album, "title", p.title)
           first == FirstCache(p, clips)
<1>1. result \in Results
  BY DEF PlanOK, PlanKinds, Results
<1>2. /\ p.kind = "clips" => first = Preset(new, "uri", uri)
      /\ p.kind = "list" => first = KeyAdd(album, "uri", 1, FALSE)
      /\ p.kind = "unique" => first = KeyAddUnique(titled, p.unique)
      /\ p.kind = "container" => first = KeyAddUnique(called, p.unique)
      /\ p.kind = "none" => first = new
  BY DEF FirstCache
<1>3. p.kind \in {"unique", "container"} => p.unique \in MetadataKeys
  BY KeysOfCaches DEF PlanOK
<1> HIDE DEF result, uri, first
<1>4. EntriesOK(new)
  BY <1>1, NewCacheEntries
<1> HIDE DEF new
<1>5. EntriesOK(genre)
  BY <1>4, KeysOfCaches, PresetKeepsEntries
<1> HIDE DEF genre
<1>6. EntriesOK(artist)
  BY <1>5, KeysOfCaches, PresetKeepsEntries
<1> HIDE DEF artist
<1>7. EntriesOK(album)
  BY <1>6, KeysOfCaches, PresetKeepsEntries
<1> HIDE DEF album
<1>8. EntriesOK(titled) /\ EntriesOK(called)
  BY <1>7, KeysOfCaches, PresetKeepsEntries, DerivedKeepsEntries
<1> HIDE DEF titled, called
<1>9. /\ EntriesOK(Preset(new, "uri", uri))
      /\ EntriesOK(KeyAdd(album, "uri", 1, FALSE))
  <2>1. EntriesOK(Preset(new, "uri", uri))
    BY <1>4, KeysOfCaches, PresetKeepsEntries
  <2>2. \A k, user : user \in BOOLEAN => EntriesOK(KeyAdd(album, k, 1, user))
    BY <1>7, KeyAddKeepsEntries
  <2> QED  BY <2>1, <2>2
<1>10. CASE p.kind = "clips"
  BY <1>2, <1>9, <1>10 DEF first
<1>11. CASE p.kind = "list"
  BY <1>2, <1>9, <1>11 DEF first
<1>12. CASE p.kind = "unique"
  BY <1>2, <1>3, <1>8, <1>12, KeyAddUniqueKeepsEntries DEF first
<1>13. CASE p.kind = "container"
  BY <1>2, <1>3, <1>8, <1>13, KeyAddUniqueKeepsEntries DEF first
<1>14. CASE p.kind = "none"
  BY <1>2, <1>4, <1>14 DEF first
<1> QED  BY <1>10, <1>11, <1>12, <1>13, <1>14 DEF PlanOK, PlanKinds

LEMMA LastCacheEntries ==
  ASSUME NEW p, PlanOK(p), NEW c, EntriesOK(c)
  PROVE  EntriesOK(LastCache(p, c))
<1>1. CASE \E key \in p.concat : KeyExists(c, key)
  <2> DEFINE k == CHOOSE key \in p.concat : TRUE
  <2>1. k \in p.concat
    BY <1>1
  <2>2. LastCache(p, c) = KeyAddConcat(c, k)
    BY <1>1 DEF LastCache
  <2> HIDE DEF k
  <2>3. k \in MetadataKeys
    BY <2>1, KeysOfCaches DEF PlanOK
  <2> QED  BY <2>2, <2>3, KeyAddConcatKeepsEntries
<1>2. CASE ~\E key \in p.concat : KeyExists(c, key)
  BY <1>2 DEF LastCache
<1> QED  BY <1>1, <1>2

LEMMA InitTypes == CatalogInit => TypeInv
<1> SUFFICES ASSUME CatalogInit PROVE TypeInv
  OBVIOUS
<1>1. /\ library \in DOMAIN Libraries /\ stage = "idle" /\ phase = "idle"
      /\ query = NoQuery /\ todo = << >> /\ cache = FirstCache(NoPlan, << >>)
  BY DEF CatalogInit, Init
<1>2. EntriesOK(cache)
  <2>1. PlanOK(NoPlan)
    BY SimplePlanOK, TypeNames DEF NoPlan
  <2> QED  BY <1>1, <2>1, FirstCacheEntries
<1>3. \E n \in 0 .. Len(query.keys) : todo = SubSeq(query.keys, n + 1, Len(query.keys))
  <2>1. query.keys = << >> /\ Len(query.keys) = 0
    BY <1>1, EmptySeq DEF NoQuery
  <2>2. SubSeq(query.keys, 0 + 1, 0) = << >>
    BY SubSeqEmpty
  <2> QED  BY <1>1, <2>1, <2>2
<1> QED  BY <1>1, <1>2, <1>3 DEF TypeInv, Stages

\* A query that Chunks has begins and ends where it does.
LEMMA HandlerPhases ==
  ASSUME CInv, Handler
  PROVE  phase # "idle" /\ phase' \in Phases \ {"idle"}
<1>1. phase \in {"asked", "unasked"} /\ phase' \in {"asked", "answered", "failed", "overrun"}
  BY DEF Handler, EmptyAnswer, ChunkFails, ChunkAnswer, ChunkOverrun
<1> QED  BY <1>1 DEF Phases

LEMMA StepTypes ==
  PairingInv /\ ClipsInv /\ TypeInv /\ [CatalogNext]_allVars => TypeInv'
<1> SUFFICES ASSUME PairingInv, ClipsInv, TypeInv, [CatalogNext]_allVars
             PROVE  TypeInv'
  OBVIOUS
<1>1. PlanOK(plan) /\ CInv /\ query \in Queries \cup {NoQuery}
  BY DEF PairingInv, Paired, ClipsInv
<1>2. query.keys \in Seq(STRING)
  BY <1>1, QueryFacts
\* Steps in which neither Chunks nor the cache has a part.
<1>3. ASSUME UNCHANGED <<vars, library, query, plan, cache, todo>>,
             stage' \in Stages \ {"idle"}, stage \notin {"clips", "answered", "failed"}
      PROVE  TypeInv'
  <2>1. phase' = phase /\ phase = "idle"
    BY <1>3 DEF TypeInv, vars
  <2> QED  BY <1>3, <2>1 DEF TypeInv
<1>4. ASSUME NEW q \in Queries, Ask(q)
      PROVE  TypeInv'
  <2>1. /\ stage = "idle" /\ query' = q /\ todo' = q.keys /\ library' = library
        /\ stage' \in {"rejected", "endless", "keys"} /\ phase' = phase
        /\ plan' = PlanOf(q) /\ cache' = FirstCache(plan', q.clips)
    BY <1>4 DEF Ask, vars
  <2>2. EntriesOK(cache')
    BY <2>1, PlanOfOK, FirstCacheEntries
  <2>3. \E n \in 0 .. Len(query'.keys) :
          todo' = SubSeq(query'.keys, n + 1, Len(query'.keys))
    <3> DEFINE s == q.keys
    <3>1. s \in Seq(STRING)
      BY QueriesAssumption
    <3> HIDE DEF s
    <3>2. s = SubSeq(s, 0 + 1, Len(s)) /\ 0 \in 0 .. Len(s)
      BY <3>1
    <3>3. query'.keys = s /\ todo' = s
      BY <2>1 DEF s
    <3> QED  BY <3>2, <3>3
  <2>4. phase' = "idle"
    BY <2>1 DEF TypeInv
  <2> QED  BY <2>1, <2>2, <2>3, <2>4 DEF TypeInv, Stages
<1>5. CASE AddKey
  <2>1. /\ cache' = KeyAdd(cache, Head(todo), plan.max, TRUE)
        /\ todo # << >> /\ todo' = Tail(todo)
        /\ library' = library /\ query' = query /\ plan' = plan
        /\ stage = "keys" /\ stage' = stage /\ phase' = phase
    BY <1>5 DEF AddKey, vars
  <2>2. EntriesOK(cache')
    <3>1. plan.max \in Int /\ TRUE \in BOOLEAN /\ EntriesOK(cache)
      BY <1>1 DEF PlanOK, TypeInv
    <3> QED  BY <2>1, <3>1, KeyAddKeepsEntries
  <2>3. \E n \in 0 .. Len(query.keys) :
          todo' = SubSeq(query.keys, n + 1, Len(query.keys))
    <3>1. PICK n \in 0 .. Len(query.keys) :
            todo = SubSeq(query.keys, n + 1, Len(query.keys))
      BY DEF TypeInv
    <3>2. PICK s \in Seq(STRING) : s = query.keys
      BY <1>2
    <3>3. /\ SubSeq(s, n + 1, Len(s)) # << >>
          /\ todo' = Tail(SubSeq(s, n + 1, Len(s)))
          /\ n \in 0 .. Len(s)
      BY <2>1, <3>1, <3>2
    <3>4. n + 1 \in 0 .. Len(s) /\ todo' = SubSeq(s, n + 1 + 1, Len(s))
      BY <3>3, RestOf
    <3> QED  BY <3>2, <3>4
  <2> QED  BY <2>1, <2>2, <2>3 DEF TypeInv
<1>6. CASE Send
  <2>1. /\ cache' = LastCache(plan, cache)
        /\ library' = library /\ query' = query /\ plan' = plan /\ todo' = todo
        /\ stage = "keys" /\ stage' \in {"asked", "unasked"} /\ phase' = phase
    BY <1>6 DEF Send, vars
  <2>2. EntriesOK(cache')
    BY <1>1, <2>1, LastCacheEntries DEF TypeInv
  <2> QED  BY <2>1, <2>2 DEF TypeInv, Stages
<1>7. CASE SendClips
  <2>1. /\ plan.kind = "clips" /\ stage' = "clips"
        /\ library' = library /\ query' = query /\ plan' = plan /\ todo' = todo
        /\ cache' = cache
    BY <1>7 DEF SendClips, catalogVarsButStage
  <2> QED  BY <2>1 DEF TypeInv, Stages
<1>8. CASE TrackerAnswers
  BY <1>3, <1>8 DEF TrackerAnswers, Stages
<1>9. CASE TrackerFails
  BY <1>3, <1>9 DEF TrackerFails, catalogVarsButStage, Stages
<1>10. CASE NothingAsked
  BY <1>3, <1>10 DEF NothingAsked, Stages
<1>11. CASE ClipsHandler
  <2>1. /\ Handler /\ stage' \in {"clips", "answered", "failed"}
        /\ library' = library /\ query' = query /\ plan' = plan /\ todo' = todo
        /\ cache' = cache
    BY <1>11 DEF ClipsHandler, catalogVarsButStage
  <2>2. plan.kind = "clips"
    BY <1>1, <2>1, HandlerPhases DEF TypeInv
  <2> QED  BY <2>1, <2>2 DEF TypeInv, Stages
<1>12. CASE Indexer
  <2>1. /\ stage' = stage /\ library' = library /\ query' = query /\ plan' = plan
        /\ todo' = todo /\ cache' = cache /\ phase' = phase
    BY <1>12 DEF Indexer, Index, catalogVars
  <2> QED  BY <2>1 DEF TypeInv
<1>13. CASE UNCHANGED allVars
  <2>1. /\ stage' = stage /\ library' = library /\ query' = query /\ plan' = plan
        /\ todo' = todo /\ cache' = cache /\ phase' = phase
    BY <1>13 DEF allVars, vars, catalogVars
  <2> QED  BY <2>1 DEF TypeInv
<1> QED
  BY <1>4, <1>5, <1>6, <1>7, <1>8, <1>9, <1>10, <1>11, <1>12, <1>13
  DEF CatalogNext, CatalogHandler

LEMMA TypesFollow == PairingInv /\ ClipsInv /\ TypeInv => CatalogTypeOK
<1> SUFFICES ASSUME PairingInv, ClipsInv, TypeInv PROVE CatalogTypeOK
  OBVIOUS
<1>1. /\ TypeOK
      /\ query.op \in {"none", "browse", "get_metadata", "get_metadatas"}
      /\ query.keys \in Seq(STRING)
  BY QueryFacts DEF ClipsInv, CInv
<1>2. cache.type \in Types /\ cache.last \in Nat
  BY DEF PairingInv, Paired, PlanOK, ColumnsOK
<1>3. todo = SubSeq(query.keys, Len(query.keys) - Len(todo) + 1, Len(query.keys))
  <2>1. PICK n \in 0 .. Len(query.keys) :
          todo = SubSeq(query.keys, n + 1, Len(query.keys))
    BY DEF TypeInv
  <2>2. PICK s \in Seq(STRING) : s = query.keys
    BY <1>1
  <2>3. todo = SubSeq(s, n + 1, Len(s)) /\ n \in 0 .. Len(s)
    BY <2>1, <2>2
  <2>4. PICK rest : rest = SubSeq(s, n + 1, Len(s))
    OBVIOUS
  <2>5. rest = SubSeq(s, Len(s) - Len(rest) + 1, Len(s))
    BY <2>3, <2>4, RestOf
  <2> QED  BY <2>2, <2>3, <2>4, <2>5
<1>4. /\ cache.result \in Results
      /\ DOMAIN cache.entries \subseteq MetadataKeys
      /\ \A key \in DOMAIN cache.entries :
           /\ cache.entries[key].kind \in
                {"computed", "derived", "thumbnailer", "void", "tracker"}
           /\ cache.entries[key].user \in BOOLEAN
  BY DEF TypeInv, EntriesOK, Kinds
<1> QED  BY <1>1, <1>2, <1>3, <1>4 DEF TypeInv, CatalogTypeOK

\* Every variable of a query of the catalog has its type: only keys that there
\* are metadata for get into its cache, each once, the keys are added in the
\* order they were asked for, and only queries about clips are put to Chunks
\* (Catalog!CatalogTypeOK).
THEOREM CatalogTypeCorrect == CatalogSpec => []CatalogTypeOK
<1>1. CatalogInit => PairingInv /\ ClipsInv /\ TypeInv
  BY InitPairs, InitClips, InitTypes
<1>2. PairingInv /\ ClipsInv /\ TypeInv /\ [CatalogNext]_allVars
        => (PairingInv /\ ClipsInv /\ TypeInv)'
  BY StepPairs, StepClips, StepTypes
<1>3. PairingInv /\ ClipsInv /\ TypeInv => CatalogTypeOK
  BY TypesFollow
<1> QED  BY <1>1, <1>2, <1>3, PTL DEF CatalogSpec

-----------------------------------------------------------------------------
(* What is told of clips.                                                  *)

\* A row of a file has its properties in the columns that keys are read from,
\* and its uri may be known beforehand.
RowOf(c, type, uri, answered, n, file) ==
  /\ file \in File
  /\ uri \in {Nothing, {Uri[file]}}
  /\ ClipCache(c, type, uri)
  /\ \A k \in InTracker(c) :
       /\ n \in DOMAIN answered
       /\ answered[n][c.entries[k].at + 1] = Property(file, k)

\* What is known of a key, or what Tracker has, or nothing.
PlainOf(file, type, uri, k) ==
  IF KnownBefore(type, uri, k) # Nothing THEN KnownBefore(type, uri, k)
  ELSE IF TrackerHas(type, k) THEN Converted(k, Property(file, k)) ELSE Nothing

\* A key that has a value of its own.
LEMMA PlainValueOfClip ==
  ASSUME NEW file, NEW c, NEW type, NEW uri, NEW answered, NEW n,
         RowOf(c, type, uri, answered, n, file),
         NEW k \in DOMAIN c.entries, k \notin ArtKeys \cup ThumbnailKeys
  PROVE  /\ PlainValue(c, answered, n, k) = PlainOf(file, type, uri, k)
         /\ ValueGet(c, answered, n, k) = PlainOf(file, type, uri, k)
<1> DEFINE entry == c.entries[k]
           before == KnownBefore(type, uri, k)
<1>1. KeyExists(c, k)
  BY DEF KeyExists
<1>2. /\ before # Nothing => entry.kind = "computed" /\ entry.value = before
      /\ before = Nothing =>
           entry.kind = IF TrackerHas(type, k) THEN "tracker" ELSE "void"
  BY DEF RowOf, ClipCache, ClipEntry
<1>3. ValueGet(c, answered, n, k) = PlainValue(c, answered, n, k)
  <2>1. entry.kind \in {"computed", "tracker", "void"}
    BY <1>2
  <2> QED  BY <1>1, <2>1 DEF ValueGet
<1>4. CASE before # Nothing
  <2>1. PlainValue(c, answered, n, k) = before
    BY <1>1, <1>2, <1>4 DEF PlainValue
  <2> QED  BY <1>3, <1>4, <2>1 DEF PlainOf
<1>5. CASE before = Nothing /\ TrackerHas(type, k)
  <2>1. entry.kind = "tracker" /\ k \in InTracker(c)
    BY <1>2, <1>5 DEF InTracker
  <2>2. n \in DOMAIN answered /\ answered[n][entry.at + 1] = Property(file, k)
    BY <2>1 DEF RowOf
  <2>3. PlainValue(c, answered, n, k) = Converted(k, Property(file, k))
    BY <1>1, <2>1, <2>2 DEF PlainValue
  <2> QED  BY <1>3, <1>5, <2>3 DEF PlainOf
<1>6. CASE before = Nothing /\ ~TrackerHas(type, k)
  <2>1. entry.kind = "void"
    BY <1>2, <1>6
  <2>2. PlainValue(c, answered, n, k) = Nothing
    BY <1>1, <2>1 DEF PlainValue
  <2> QED  BY <1>3, <1>6, <2>2 DEF PlainOf
<1> QED  BY <1>4, <1>5, <1>6

\* The uri is known beforehand or in the row.
LEMMA UriOfClip ==
  ASSUME NEW file, NEW c, NEW type, NEW uri, NEW answered, NEW n,
         RowOf(c, type, uri, answered, n, file),
         "uri" \in DOMAIN c.entries
  PROVE  /\ PlainValue(c, answered, n, "uri") = {Uri[file]}
         /\ ValueGet(c, answered, n, "uri") = {Uri[file]}
<1>1. "uri" \notin ArtKeys \cup ThumbnailKeys /\ TrackerHas(type, "uri")
  BY DEF ArtKeys, SizedArtKeys, ThumbnailKeys, TrackerHas, CommonKeys
<1>2. KnownBefore(type, uri, "uri") = uri
  BY ChildcountNames DEF KnownBefore
<1>3. Converted("uri", Property(file, "uri")) = {Uri[file]}
  BY DEF Converted, Property
<1>4. /\ PlainValue(c, answered, n, "uri") = PlainOf(file, type, uri, "uri")
      /\ ValueGet(c, answered, n, "uri") = PlainOf(file, type, uri, "uri")
  BY <1>1, PlainValueOfClip
<1>5. PlainOf(file, type, uri, "uri") = {Uri[file]}
  BY <1>1, <1>2, <1>3 DEF PlainOf, RowOf, Nothing
<1> QED  BY <1>4, <1>5

\* The cover of a clip's album.
ClipCover(file, type) ==
  IF type = "music" THEN Cover(Property(file, "album")) ELSE Nothing

LEMMA CoverOfClip ==
  ASSUME NEW file, NEW c, NEW type, NEW uri, NEW answered, NEW n,
         RowOf(c, type, uri, answered, n, file), type \in Types,
         "album" \in DOMAIN c.entries
  PROVE  AlbumArt(c, answered, n) = ClipCover(file, type)
<1>1. PICK cell : cell = Property(file, "album")
  OBVIOUS
<1>2. /\ "album" \notin ArtKeys \cup ThumbnailKeys
      /\ "album" \notin ChildcountKeys /\ "album" \in TextKeys
  BY ChildcountNames DEF ArtKeys, SizedArtKeys, ThumbnailKeys, TextKeys
<1>3. KnownBefore(type, uri, "album") = Nothing
  BY <1>2 DEF KnownBefore
<1>4. TrackerHas(type, "album") <=> type = "music"
  BY ChildcountNames DEF TrackerHas, Types, CommonKeys, MusicKeys, VideoKeys, PlaylistKeys
<1>5. PlainValue(c, answered, n, "album")
        = IF type = "music" THEN Converted("album", cell) ELSE Nothing
  <2>1. PlainValue(c, answered, n, "album") = PlainOf(file, type, uri, "album")
    BY <1>2, PlainValueOfClip
  <2> QED  BY <1>1, <1>3, <1>4, <2>1 DEF PlainOf
<1>6. Converted("album", cell) \cap Pictures = cell \cap Pictures
  <2>1. CASE cell = {}
    <3>1. Converted("album", cell) = {""}
      BY <1>2, <2>1 DEF Converted, Empty
    <3> QED  BY <2>1, <3>1, PicturesAssumption
  <2>2. CASE cell # {}
    BY <2>2 DEF Converted
  <2> QED  BY <2>1, <2>2
<1>7. AlbumArt(c, answered, n)
        = IF type = "music" THEN Cover(cell) ELSE Nothing
  <2>1. CASE type = "music"
    <3>1. PlainValue(c, answered, n, "album") \cap Pictures = cell \cap Pictures
      BY <1>5, <1>6, <2>1
    <3> QED  BY <2>1, <3>1 DEF AlbumArt, Cover, TextIn
  <2>2. CASE type # "music"
    <3>1. PlainValue(c, answered, n, "album") \cap Pictures = {}
      BY <1>5, <2>2 DEF Nothing
    <3> QED  BY <2>2, <3>1 DEF AlbumArt
  <2> QED  BY <2>1, <2>2
<1> QED  BY <1>1, <1>7 DEF ClipCover

\* The keys of each kind.
LEMMA KindsOfNames ==
  /\ "title" \notin ArtKeys \cup ThumbnailKeys \cup ChildcountKeys \cup {"mime", "uri"}
  /\ "mime" \notin ArtKeys \cup ThumbnailKeys \cup ChildcountKeys
  /\ "uri" \notin ArtKeys \cup ThumbnailKeys \cup ChildcountKeys
  /\ "title" \in TextKeys
  /\ ArtKeys \cap ThumbnailKeys = {}
  /\ "mime" \in CommonKeys /\ "uri" \in CommonKeys
BY ChildcountNames
DEF ArtKeys, SizedArtKeys, ThumbnailKeys, CommonKeys, TextKeys

\* What is told of a clip for a key, before values that are not allowed are
\* left out.
ClipTold(c, answered, n, k) ==
  IF k = "title" THEN Title(c, answered, n) ELSE ValueGet(c, answered, n, k)

LEMMA TitleOfClip ==
  ASSUME NEW file, NEW c, NEW type \in {"music", "video"}, NEW uri, NEW answered, NEW n,
         RowOf(c, type, uri, answered, n, file),
         "title" \in DOMAIN c.entries
  PROVE  Title(c, answered, n) = ClipValue(file, type, "title")
<1>1. PICK value : value = Converted("title", Property(file, "title"))
  OBVIOUS
<1>2. TrackerHas(type, "title")
  BY DEF TrackerHas, MusicKeys, VideoKeys
<1>3. value # Nothing
  BY <1>1, KindsOfNames DEF Converted, Nothing, Empty
<1>4. ValueGet(c, answered, n, "title") = value
  <2>1. KnownBefore(type, uri, "title") = Nothing
    BY KindsOfNames DEF KnownBefore
  <2>2. ValueGet(c, answered, n, "title") = PlainOf(file, type, uri, "title")
    BY KindsOfNames, PlainValueOfClip
  <2> QED  BY <1>1, <1>2, <2>1, <2>2 DEF PlainOf
<1>5. ValueGet(c, answered, n, "uri") = {Uri[file]}
  <2>1. NeededBy(type, "title") = {"uri"}
    BY <1>2, KindsOfNames DEF NeededBy, ArtKeys
  <2>2. "uri" \in DOMAIN c.entries
    BY <2>1 DEF RowOf, ClipCache
  <2> QED  BY <2>2, UriOfClip
<1>6. {Uri[file]} \notin {Nothing, Empty} /\ (CHOOSE u \in {Uri[file]} : TRUE) = Uri[file]
  BY UriAssumption DEF RowOf, Nothing, Empty
<1>7. c.result # "unique"
  BY DEF RowOf, ClipCache
<1>8. Title(c, answered, n)
        = IF value = Empty THEN {FileName[Uri[file]]} ELSE value
  BY <1>3, <1>4, <1>5, <1>6, <1>7 DEF Title
<1>9. ClipValue(file, type, "title")
        = IF value = Empty THEN {FileName[Uri[file]]} ELSE value
  BY <1>1, <1>2, KindsOfNames DEF ClipValue
<1> QED  BY <1>8, <1>9

LEMMA PictureOfClip ==
  ASSUME NEW file, NEW c, NEW type \in Types, NEW uri, NEW answered, NEW n,
         RowOf(c, type, uri, answered, n, file),
         NEW k \in DOMAIN c.entries, k \in ArtKeys \cup ThumbnailKeys
  PROVE  ValueGet(c, answered, n, k) = ClipValue(file, type, k)
<1>1. KeyExists(c, k) /\ c.entries[k].kind = "thumbnailer"
  BY DEF RowOf, KeyExists, ClipCache, ClipEntry
<1>2. ValueGet(c, answered, n, k)
        = IF k = "album-art-uri" THEN AlbumArt(c, answered, n)
          ELSE Thumbnail(c, answered, n, k)
  BY <1>1 DEF ValueGet
<1>3. k \notin ChildcountKeys \cup {"title", "mime"}
  BY KindsOfNames, KindsOfKeys
<1>4. NeededBy(type, k) \subseteq DOMAIN c.entries
  BY DEF RowOf, ClipCache
<1>5. CASE k \in ArtKeys
  <2>1. PICK cover : cover = ClipCover(file, type)
    OBVIOUS
  <2>2. "album" \in DOMAIN c.entries
        /\ (k \in SizedArtKeys => "album-art-uri" \in DOMAIN c.entries)
    <3>1. CASE k \in SizedArtKeys
      <4>1. NeededBy(type, k) = {"album", "album-art-uri"}
        BY <3>1 DEF NeededBy, SizedArtKeys, ThumbnailKeys
      <4> QED  BY <1>4, <4>1
    <3>2. CASE k = "album-art-uri"
      <4>1. NeededBy(type, k) = {"album"} /\ k \notin SizedArtKeys
        BY <3>2 DEF NeededBy, SizedArtKeys, ThumbnailKeys
      <4> QED  BY <1>4, <4>1
    <3> QED  BY <1>5, <3>1, <3>2 DEF ArtKeys
  <2>3. AlbumArt(c, answered, n) = cover
    <3>1. AlbumArt(c, answered, n) = ClipCover(file, type)
      BY <2>2, CoverOfClip
    <3> QED  BY <2>1, <3>1
  <2>4. cover \cap Pictures = cover
    BY <2>1 DEF ClipCover, Cover, TextIn, Nothing
  <2>5. ValueGet(c, answered, n, k) = cover
    <3>1. CASE k = "album-art-uri"
      BY <1>2, <2>3, <3>1
    <3>2. CASE k # "album-art-uri"
      <4>1. Thumbnail(c, answered, n, k) = cover
        BY <1>5, <2>2, <2>3, <2>4, <3>2, KindsOfNames DEF Thumbnail, ArtKeys, KeyExists
      <4> QED  BY <1>2, <3>2, <4>1
    <3> QED  BY <3>1, <3>2
  <2>6. ClipValue(file, type, k) = cover
    BY <1>3, <1>5, <2>1, KindsOfNames DEF ClipValue, ClipCover
  <2> QED  BY <2>5, <2>6
<1>6. CASE k \in ThumbnailKeys
  <2>1. k \notin ArtKeys
    BY <1>6, KindsOfNames
  <2>2. "uri" \in DOMAIN c.entries
    BY <1>4, <1>6, <2>1 DEF NeededBy, ArtKeys
  <2>3. PlainValue(c, answered, n, "uri") = {Uri[file]}
    BY <2>2, UriOfClip
  <2>4. Thumbnail(c, answered, n, k) = {Uri[file]} \cap Pictures
    BY <1>6, <2>1, <2>3 DEF Thumbnail, ArtKeys, SizedArtKeys
  <2>5. ClipValue(file, type, k) = {Uri[file]} \cap Pictures
    BY <1>3, <1>6, <2>1 DEF ClipValue
  <2> QED  BY <1>2, <2>1, <2>4, <2>5 DEF ArtKeys
<1> QED  BY <1>5, <1>6

\* Each key of a clip has the value it should have.
LEMMA ValueOfClip ==
  ASSUME NEW file, NEW c, NEW type \in Types, NEW uri, NEW answered, NEW n,
         RowOf(c, type, uri, answered, n, file),
         NEW k \in DOMAIN c.entries, k = "title" => type # "playlist"
  PROVE  ClipTold(c, answered, n, k) = ClipValue(file, type, k)
<1>1. CASE k = "title"
  <2>1. type \in {"music", "video"}
    BY <1>1 DEF Types
  <2>2. "title" \in DOMAIN c.entries
    BY <1>1
  <2>3. Title(c, answered, n) = ClipValue(file, type, "title")
    BY <2>1, <2>2, TitleOfClip
  <2> QED  BY <1>1, <2>3 DEF ClipTold
<1>2. CASE k \in ArtKeys \cup ThumbnailKeys
  <2>1. k # "title"
    BY <1>2, KindsOfNames
  <2> QED  BY <1>2, <2>1, PictureOfClip DEF ClipTold
<1>3. CASE k # "title" /\ k \notin ArtKeys \cup ThumbnailKeys
  <2>1. ClipTold(c, answered, n, k) = PlainOf(file, type, uri, k)
    <3>1. ValueGet(c, answered, n, k) = PlainOf(file, type, uri, k)
      BY <1>3, PlainValueOfClip
    <3> QED  BY <1>3, <3>1 DEF ClipTold
  <2>2. CASE k = "uri"
    <3>1. ClipTold(c, answered, n, k) = {Uri[file]}
      BY <1>3, <2>2, UriOfClip DEF ClipTold
    <3>2. ClipValue(file, type, k) = {Uri[file]}
      BY <2>2, KindsOfNames DEF ClipValue, TrackerHas, Converted, Property
    <3> QED  BY <3>1, <3>2
  <2>3. CASE k = "mime" /\ type = "playlist"
    <3>1. ClipValue(file, type, k) = MimeContainer
      BY <2>3, KindsOfNames DEF ClipValue
    <3>2. KnownBefore(type, uri, k) = MimeContainer
      BY <2>3 DEF KnownBefore
    <3> QED  BY <2>1, <3>1, <3>2 DEF PlainOf, MimeContainer, Nothing
  <2>4. CASE k \in ChildcountKeys
    <3>1. ~(Level(k) > 1) /\ k \notin {"title", "mime", "uri"}
      BY <2>4, KindsOfNames DEF RowOf, ClipCache, Tellable
    <3>2. CASE type = "playlist"
      <4>1. TrackerHas(type, k) /\ KnownBefore(type, uri, k) = Nothing
        BY <2>4, <3>1, <3>2 DEF TrackerHas, PlaylistKeys, KnownBefore
      <4> QED  BY <1>3, <2>1, <2>4, <3>1, <3>2, <4>1 DEF PlainOf, ClipValue
    <3>3. CASE type # "playlist"
      <4>1. KnownBefore(type, uri, k) = {0}
        BY <2>4, <3>1, <3>3 DEF KnownBefore
      <4> QED  BY <1>3, <2>1, <2>4, <3>1, <3>3, <4>1 DEF PlainOf, ClipValue, Nothing
    <3> QED  BY <3>2, <3>3
  <2>5. CASE k # "uri" /\ ~(k = "mime" /\ type = "playlist") /\ k \notin ChildcountKeys
    <3>1. KnownBefore(type, uri, k) = Nothing
      BY <2>5 DEF KnownBefore
    <3> QED  BY <1>3, <2>1, <2>5, <3>1 DEF PlainOf, ClipValue
  <2> QED  BY <2>2, <2>3, <2>4, <2>5
<1> QED  BY <1>1, <1>2, <1>3

\* A clip has no grandchildren to tell of.
LEMMA NothingUntellable ==
  ASSUME NEW file, NEW type, NEW k \in MetadataKeys \ Tellable
  PROVE  ClipValue(file, type, k) = Nothing
<1>1. k \in ChildcountKeys /\ Level(k) > 1
  BY DEF Tellable
<1>2. k \notin {"title", "mime"} \cup ArtKeys \cup ThumbnailKeys
  BY <1>1, KindsOfNames, KindsOfKeys
<1> QED  BY <1>1, <1>2 DEF ClipValue

\* What is told of a clip, what should be told of it, and for which keys.
ClipMetadata(c, answered, n) ==
  Metadata(c, LAMBDA k : IF k = "title" THEN Title(c, answered, n)
                         ELSE ValueGet(c, answered, n, k))
ClipExpected(asked, file, type) ==
  Expected(asked, LAMBDA key : ClipValue(file, type, key))
ButTitles(type) == IF type = "playlist" THEN {"title"} ELSE {}

\* The metadata of a row are those of its clip.
LEMMA MetadataOfClip ==
  ASSUME NEW file, NEW c, NEW type, NEW uri, NEW answered, NEW n,
         RowOf(c, type, uri, answered, n, file), type \in Types, NEW asked,
         KeysGetUser(c) = Range(asked) \cap Tellable
  PROVE  AgreeBut(ButTitles(type), ClipMetadata(c, answered, n),
                  ClipExpected(asked, file, type))
<1> DEFINE A == {u \in KeysGetUser(c) : Allowed(u, ClipTold(c, answered, n, u))}
           B == {k \in Range(asked) \cap MetadataKeys : Allowed(k, ClipValue(file, type, k))}
           told == [k \in A |-> Told(ClipTold(c, answered, n, k))]
           expected == [k \in B |-> Told(ClipValue(file, type, k))]
           but == ButTitles(type)
<1>1. ClipMetadata(c, answered, n) = told
  BY DEF ClipMetadata, Metadata, ClipTold
<1>2. ClipExpected(asked, file, type) = expected
  BY DEF ClipExpected, Expected
<1>3. \A k \in (Range(asked) \cap Tellable) \ but :
        ClipTold(c, answered, n, k) = ClipValue(file, type, k)
  <2> SUFFICES ASSUME NEW k \in (Range(asked) \cap Tellable) \ but
               PROVE  ClipTold(c, answered, n, k) = ClipValue(file, type, k)
    OBVIOUS
  <2>1. k \in DOMAIN c.entries
    BY DEF KeysGetUser
  <2>2. k = "title" => type # "playlist"
    BY DEF ButTitles
  <2> QED  BY <2>1, <2>2, ValueOfClip
<1>4. Tellable \subseteq MetadataKeys
  BY DEF Tellable
<1>5. \A k \in MetadataKeys \ Tellable : ~Allowed(k, ClipValue(file, type, k))
  BY NothingUntellable DEF Allowed
<1>6. A \ but = B \ but
  BY <1>3, <1>4, <1>5
<1>7. \A k \in A \ but : told[k] = expected[k]
  BY <1>3, <1>6
<1>8. DOMAIN told = A /\ DOMAIN expected = B
  OBVIOUS
<1> HIDE DEF A, B, told, expected, but
<1>9. Restrict(told, DOMAIN told \ but) = Restrict(expected, DOMAIN expected \ but)
  BY <1>6, <1>7, <1>8 DEF Restrict
<1>10. AgreeBut(but, told, expected)
  BY <1>9 DEF AgreeBut
<1> QED  BY <1>1, <1>2, <1>10 DEF but

\* A statement that does not group rows asks for every key that has a column, in it.
LEMMA FieldsAreAll ==
  ASSUME NEW p, NEW c, Paired(p, c), p.unique = Hole
  PROVE  /\ c.last \in Nat
         /\ Fields(p, c) \in Seq(InTracker(c))
         /\ Len(Fields(p, c)) = c.last
         /\ \A k \in InTracker(c) :
              /\ c.entries[k].at + 1 \in 1 .. c.last
              /\ Fields(p, c)[c.entries[k].at + 1] = k
<1>1. /\ ColumnsOK(c, Hole) /\ InTracker(c) \subseteq MetadataKeys
      /\ \A k \in InTracker(c) : TrackerHas(p.type, k)
  BY DEF Paired, PlanOK, Askable
<1>2. PICK asked : asked = KeysFrom(c, 1)
  OBVIOUS
<1>3. /\ asked \in Seq(InTracker(c))
      /\ Len(asked) = c.last
      /\ \A k \in InTracker(c) :
           c.entries[k].at >= 0 => asked[c.entries[k].at + 1] = k
  <2> DEFINE first == FirstUsed(Hole)
  <2>1. /\ KeysFrom(c, first + 1) \in Seq(InTracker(c))
        /\ Len(KeysFrom(c, first + 1)) = c.last - first
        /\ \A k \in InTracker(c) :
             c.entries[k].at >= first =>
               KeysFrom(c, first + 1)[c.entries[k].at + 1 - first] = k
    BY <1>1, KeysFromAll
  <2>2. first = 0
    BY DEF FirstUsed
  <2>3. KeysFrom(c, first + 1) = asked
    BY <1>2, <2>2
  <2>4. c.last \in Nat /\ \A k \in InTracker(c) : c.entries[k].at \in Nat
    BY <1>1 DEF ColumnsOK
  <2> HIDE DEF first
  <2> QED  BY <2>1, <2>2, <2>3, <2>4
<1>4. Fields(p, c) = asked
  <2>1. {i \in DOMAIN asked : TrackerHas(p.type, asked[i])} = DOMAIN asked
    <3>1. \A i \in DOMAIN asked : asked[i] \in InTracker(c)
      BY <1>3, ElementOfSeq
    <3> QED  BY <1>1, <3>1
  <2>2. Fields(p, c) = Selected(asked, DOMAIN asked)
    BY <1>2, <2>1 DEF Fields
  <2> QED  BY <1>3, <2>2, SelectedAll
<1>5. /\ c.last \in Nat
      /\ \A k \in InTracker(c) : c.entries[k].at \in 0 .. c.last - 1
  BY <1>1 DEF ColumnsOK
<1>6. \A k \in InTracker(c) : /\ c.entries[k].at + 1 \in 1 .. c.last
                                  /\ c.entries[k].at >= 0
  BY <1>5
<1> QED  BY <1>3, <1>4, <1>5, <1>6

LEMMA FieldsAreColumns ==
  ASSUME PairingInv, plan.kind = "clips"
  PROVE  /\ cache.last \in Nat
         /\ Len(Fields(plan, cache)) = cache.last
         /\ \A k \in InTracker(cache) :
              /\ cache.entries[k].at + 1 \in 1 .. cache.last
              /\ Fields(plan, cache)[cache.entries[k].at + 1] = k
<1>1. plan.unique = Hole
  BY DEF PairingInv, Paired, PlanOK
<1> QED  BY <1>1, FieldsAreAll DEF PairingInv

\* What is known of the uri of the clips of a query.
KnownUri(clips) == IF Len(clips) = 1 THEN {Uri[clips[1]]} ELSE Nothing

LEMMA FirstCacheClips ==
  ASSUME NEW p, p.kind = "clips", NEW clips
  PROVE  /\ ClipCache(FirstCache(p, clips), p.type, KnownUri(clips))
         /\ KeysGetUser(FirstCache(p, clips)) = {}
<1> DEFINE new == NewCache(p.type, "get_metadata")
           entry == Entry("computed", 0, KnownUri(clips), Hole, FALSE)
           first == FirstCache(p, clips)
<1>1. first = Preset(new, "uri", KnownUri(clips))
  BY DEF FirstCache, KnownUri
<1>2. new.type = p.type /\ new.result = "get_metadata" /\ DOMAIN new.entries = {}
  BY DEF NewCache
<1>3. ~KeyExists(new, "uri") /\ KeysGetUser(new) = {}
  BY <1>2 DEF KeyExists, KeysGetUser
<1>4. CASE KnownUri(clips) = Nothing
  <2>1. first = new
    BY <1>1, <1>4 DEF Preset
  <2> HIDE DEF first, new
  <2> QED  BY <1>2, <1>3, <1>4, <2>1 DEF ClipCache, first
<1>5. CASE KnownUri(clips) # Nothing
  <2>1. first = Inserted(new, "uri", entry, 0)
    BY <1>1, <1>3, <1>5 DEF Preset, KeyAddPrecomputed
  <2>2. entry.kind = "computed" /\ entry.value = KnownUri(clips) /\ ~entry.user
    BY DEF Entry
  <2> HIDE DEF first, new, entry
  <2>3. /\ first.type = p.type
        /\ first.result = "get_metadata"
        /\ DOMAIN first.entries = {"uri"}
        /\ first.entries["uri"] = entry
    BY <1>2, <2>1, InsertedFields
  <2>4. KeysGetUser(first) = {}
    BY <2>2, <2>3 DEF KeysGetUser
  <2>5. KnownBefore(p.type, KnownUri(clips), "uri") = KnownUri(clips)
    BY KindsOfNames DEF KnownBefore
  <2>6. ClipEntry(p.type, KnownUri(clips), "uri", entry)
    BY <1>5, <2>2, <2>5, KindsOfNames DEF ClipEntry
  <2>7. NeededBy(p.type, "uri") = {}
    BY KindsOfNames DEF NeededBy, ArtKeys
  <2>8. "uri" \in Tellable
    BY KindsOfNames DEF Tellable, MetadataKeys
  <2>9. ClipCache(first, p.type, KnownUri(clips))
    BY <2>3, <2>6, <2>7, <2>8 DEF ClipCache
  <2> QED  BY <2>4, <2>9 DEF first
<1> QED  BY <1>4, <1>5

-----------------------------------------------------------------------------
(* A query about clips, from the call to its answer.                       *)

\* The cache has the entries it should have, and those for the user are of the
\* keys asked for, as far as they have been added; Chunks has been given the
\* clips and the number of columns.
ToldInv ==
  /\ keys = 0 => answer = << >>
  /\ plan.kind = "clips" =>
       /\ ClipCache(cache, plan.type, KnownUri(query.clips))
       /\ KeysGetUser(cache) \cup (Range(todo) \cap Tellable)
            = Range(query.keys) \cap Tellable
       /\ stage \notin {"asked", "unasked"}
       /\ stage \in {"clips", "answered", "failed"} =>
            /\ todo = << >>
            /\ uris = query.clips
            /\ keys = Len(Fields(plan, cache))
       /\ stage = "answered" => phase = "answered"

LEMMA InitTold == CatalogInit => ToldInv
  BY DEF CatalogInit, Init, NoPlan, Plan, ToldInv

LEMMA RangeOfTail ==
  ASSUME NEW T, NEW s \in Seq(T), s # << >>
  PROVE  Range(s) = {Head(s)} \cup Range(Tail(s))
<1>1. /\ Len(s) \in Nat /\ DOMAIN s = 1 .. Len(s) /\ Len(s) >= 1
      /\ Head(s) = s[1]
  OBVIOUS
<1>2. /\ DOMAIN Tail(s) = 1 .. Len(s) - 1
      /\ \A i \in 1 .. Len(s) - 1 : Tail(s)[i] = s[i + 1]
  OBVIOUS
<1>3. Range(s) \subseteq {Head(s)} \cup Range(Tail(s))
  <2> SUFFICES ASSUME NEW i \in DOMAIN s, i # 1
               PROVE  s[i] \in Range(Tail(s))
    BY <1>1 DEF Range
  <2>1. i - 1 \in 1 .. Len(s) - 1 /\ (i - 1) + 1 = i
    BY <1>1
  <2>2. Tail(s)[i - 1] = s[i] /\ i - 1 \in DOMAIN Tail(s)
    BY <1>2, <2>1
  <2> QED  BY <2>2 DEF Range
<1>4. {Head(s)} \cup Range(Tail(s)) \subseteq Range(s)
  <2>1. Head(s) \in Range(s)
    BY <1>1 DEF Range
  <2>2. ASSUME NEW i \in DOMAIN Tail(s)
        PROVE  Tail(s)[i] \in Range(s)
    <3>1. i + 1 \in DOMAIN s /\ Tail(s)[i] = s[i + 1]
      BY <1>1, <1>2
    <3> QED  BY <3>1 DEF Range
  <2> QED  BY <2>1, <2>2 DEF Range
<1> QED  BY <1>3, <1>4

\* The keys still to be added are a list.
LEMMA TodoIsList ==
  ASSUME TypeInv, ClipsInv
  PROVE  todo \in Seq(STRING)
<1>1. PICK s \in Seq(STRING) : s = query.keys
  BY QueryFacts DEF ClipsInv
<1>2. PICK n \in 0 .. Len(s) : todo = SubSeq(s, n + 1, Len(s))
  BY <1>1 DEF TypeInv
<1>3. Len(s) \in Nat /\ n \in Nat
  OBVIOUS
<1> QED  BY <1>2, <1>3, SubSeqProperties

LEMMA StepTold ==
  PairingInv /\ ClipsInv /\ TypeInv /\ ToldInv /\ [CatalogNext]_allVars => ToldInv'
<1> SUFFICES ASSUME PairingInv, ClipsInv, TypeInv, ToldInv, [CatalogNext]_allVars
             PROVE  ToldInv'
  OBVIOUS
<1>1. PlanOK(plan) /\ CInv /\ query \in Queries \cup {NoQuery}
  BY DEF PairingInv, Paired, ClipsInv
\* Steps that have nothing to do with clips.
<1>2. ASSUME UNCHANGED <<keys, answer>>, plan'.kind # "clips"
      PROVE  ToldInv'
  BY <1>2 DEF ToldInv
\* Steps that have nothing to do with the cache.
<1>3. ASSUME UNCHANGED <<query, plan, cache, todo>>, UNCHANGED <<keys, uris>>,
             stage \in {"clips", "answered", "failed"},
             stage' \in {"clips", "answered", "failed"},
             stage' = "answered" => phase' = "answered",
             keys = 0 => answer' = << >>
      PROVE  ToldInv'
  BY <1>3 DEF ToldInv
<1>4. ASSUME NEW q \in Queries, Ask(q)
      PROVE  ToldInv'
  <2>1. /\ plan' = PlanOf(q) /\ cache' = FirstCache(plan', q.clips)
        /\ query' = q /\ todo' = q.keys /\ stage' \in {"rejected", "endless", "keys"}
        /\ keys' = keys /\ answer' = answer
    BY <1>4 DEF Ask, vars
  <2>2. CASE plan'.kind = "clips"
    <3>1. PICK p : p = plan'
      OBVIOUS
    <3>2. /\ ClipCache(FirstCache(p, q.clips), p.type, KnownUri(q.clips))
          /\ KeysGetUser(FirstCache(p, q.clips)) = {}
      BY <2>2, <3>1, FirstCacheClips
    <3>3. /\ ClipCache(cache', plan'.type, KnownUri(query'.clips))
          /\ KeysGetUser(cache') = {}
      BY <2>1, <3>1, <3>2
    <3>4. todo' = query'.keys
      BY <2>1
    <3> QED  BY <2>1, <3>3, <3>4 DEF ToldInv
  <2> QED  BY <1>2, <2>1, <2>2
<1>5. CASE AddKey
  <2>1. /\ cache' = KeyAdd(cache, Head(todo), plan.max, TRUE)
        /\ todo # << >> /\ todo' = Tail(todo)
        /\ query' = query /\ plan' = plan
        /\ stage = "keys" /\ stage' = stage
        /\ keys' = keys /\ answer' = answer
    BY <1>5 DEF AddKey, vars
  <2>2. CASE plan.kind = "clips"
    <3>1. plan.max = 1 /\ plan.type \in Types
      BY <1>1, <2>2 DEF PlanOK
    <3>2. PICK uri, k : uri = KnownUri(query.clips) /\ k = Head(todo)
      OBVIOUS
    <3>3. ClipCache(cache, plan.type, uri)
      BY <2>2, <3>2 DEF ToldInv
    <3>4. LET q == KeyAdd(cache, k, 1, TRUE)
          IN  /\ ClipCache(q, plan.type, uri)
              /\ KeysGetUser(q)
                   = KeysGetUser(cache) \cup (IF TRUE THEN {k} \cap Tellable ELSE {})
      BY <3>1, <3>3, KeyAddKeepsClip
    <3>5. /\ ClipCache(cache', plan.type, uri)
          /\ KeysGetUser(cache') = KeysGetUser(cache) \cup ({k} \cap Tellable)
      BY <2>1, <3>1, <3>2, <3>4
    <3>6. Range(todo) = {k} \cup Range(todo')
      BY <2>1, <3>2, TodoIsList, RangeOfTail
    <3>7. KeysGetUser(cache) \cup (Range(todo) \cap Tellable)
            = Range(query.keys) \cap Tellable
      BY <2>2 DEF ToldInv
    <3>8. KeysGetUser(cache') \cup (Range(todo') \cap Tellable)
            = Range(query.keys) \cap Tellable
      BY <3>5, <3>6, <3>7
    <3> QED  BY <2>1, <2>2, <3>2, <3>5, <3>8 DEF ToldInv
  <2> QED  BY <1>2, <2>1, <2>2
<1>6. CASE Send
  BY <1>2, <1>6 DEF Send, vars
<1>7. CASE SendClips
  <2>1. /\ plan.kind = "clips" /\ stage = "keys" /\ stage' = "clips" /\ todo = << >>
        /\ query' = query /\ plan' = plan /\ todo' = todo /\ cache' = cache
        /\ phase = "idle" /\ answer' = answer
        /\ uris' = query.clips /\ keys' = Len(Fields(plan, cache))
    BY <1>7 DEF SendClips, catalogVarsButStage, GetMetadata
  <2>2. answer = << >>
    BY <1>1, <2>1 DEF CInv, Received
  <2> QED  BY <2>1, <2>2 DEF ToldInv
<1>8. CASE TrackerAnswers
  BY <1>2, <1>8 DEF TrackerAnswers, ToldInv, vars
<1>9. CASE TrackerFails
  BY <1>2, <1>9 DEF TrackerFails, ToldInv, catalogVarsButStage, vars
<1>10. CASE NothingAsked
  BY <1>2, <1>10 DEF NothingAsked, ToldInv, vars
<1>11. CASE ClipsHandler
  <2>1. /\ Handler /\ stage = "clips" /\ stage' \in {"clips", "answered", "failed"}
        /\ stage' = "answered" => phase' = "answered"
        /\ query' = query /\ plan' = plan /\ todo' = todo /\ cache' = cache
    BY <1>11 DEF ClipsHandler, catalogVarsButStage
  <2>2. keys' = keys /\ uris' = uris
    BY <2>1 DEF Handler, EmptyAnswer, ChunkFails, ChunkAnswer, ChunkOverrun
  <2>3. keys = 0 => answer' = << >>
    <3>1. CASE answer' = answer
      BY <3>1 DEF ToldInv
    <3>2. CASE ChunkAnswer
      <4>1. columns < keys /\ columns \in Nat
        BY <1>1, <3>2 DEF ChunkAnswer, CInv, Received, TypeOK
      <4> QED  BY <4>1
    <3> QED  BY <2>1, <3>1, <3>2 DEF Handler, EmptyAnswer, ChunkFails, ChunkOverrun
  <2> QED  BY <1>3, <2>1, <2>2, <2>3
<1>12. CASE Indexer
  <2>1. /\ stage = "clips" /\ stage' = "clips"
        /\ query' = query /\ plan' = plan /\ todo' = todo /\ cache' = cache
        /\ keys' = keys /\ uris' = uris /\ answer' = answer
    BY <1>12 DEF Indexer, Index, catalogVars
  <2>2. keys = 0 => answer' = << >>
    BY <2>1 DEF ToldInv
  <2> QED  BY <1>3, <2>1, <2>2
<1>13. CASE UNCHANGED allVars
  BY <1>13 DEF allVars, vars, catalogVars, ToldInv
<1> QED
  BY <1>4, <1>5, <1>6, <1>7, <1>8, <1>9, <1>10, <1>11, <1>12, <1>13
  DEF CatalogNext, CatalogHandler

LEMMA MaxWithOne ==
  ASSUME NEW n \in Nat
  PROVE  Max({1, n}) = IF n = 0 THEN 1 ELSE n
<1>1. CASE n = 0
  <2>1. \E x \in {1, n} : \A y \in {1, n} : x >= y
    BY <1>1
  <2>2. Max({1, n}) \in {1, n} /\ \A y \in {1, n} : Max({1, n}) >= y
    BY <2>1 DEF Max
  <2> QED  BY <1>1, <2>2
<1>2. CASE n # 0
  <2>1. n >= 1
    BY <1>2
  <2>2. \E x \in {1, n} : \A y \in {1, n} : x >= y
    BY <2>1
  <2>3. Max({1, n}) \in {1, n} /\ \A y \in {1, n} : Max({1, n}) >= y
    BY <2>2 DEF Max
  <2> QED  BY <2>1, <2>3
<1> QED  BY <1>1, <1>2

\* The rows that metadata are built from are those of the files answered for.
LEMMA RowsOfClips ==
  ASSUME PairingInv, ClipsInv, ToldInv, stage = "answered", plan.kind = "clips",
         ~disturbed, answer # << >>
  PROVE  /\ Len(AnsweredRows) = Len(answer) /\ Len(answer) \in Nat \ {0}
         /\ \A n \in 1 .. Len(answer) :
              RowOf(cache, plan.type, KnownUri(query.clips), AnsweredRows, n,
                    answer[n].uri)
<1>1. /\ ClipCache(cache, plan.type, KnownUri(query.clips))
      /\ uris = query.clips /\ keys = Len(Fields(plan, cache))
      /\ phase = "answered" /\ keys # 0
  BY DEF ToldInv
<1>2. CInv /\ TypeOK /\ keys \in Nat /\ keys > 0 /\ answer \in Seq(Row) /\ uris \in Seq(File)
  BY <1>1 DEF ClipsInv, CInv, TypeOK
<1>3. Len(answer) \in Nat \ {0} /\ DOMAIN answer = 1 .. Len(answer)
  BY <1>2
<1> DEFINE I == {i \in DOMAIN uris : uris[i] \in known}
<1>4. PICK found : found = Selected(uris, I)
  OBVIOUS
<1>5. answer = [n \in DOMAIN found |-> FullRow(found[n], keys)]
  BY <1>1, <1>2, <1>4, AtOnce DEF AsIfAtOnce
<1>6. \A n \in DOMAIN found : \E i \in DOMAIN uris : found[n] = uris[i]
  <2>1. I \in SUBSET DOMAIN uris
    OBVIOUS
  <2> HIDE DEF I
  <2>2. \A n \in DOMAIN Selected(uris, I) : \E i \in I : Selected(uris, I)[n] = uris[i]
    BY <1>2, <2>1, SelectedFacts
  <2> QED  BY <1>4, <2>1, <2>2
<1> HIDE DEF I
<1>7. ASSUME NEW n \in DOMAIN answer
      PROVE  /\ n \in DOMAIN found /\ answer[n].uri = found[n]
             /\ answer[n].cells = [k \in 1 .. keys |-> <<found[n], k>>]
  BY <1>5 DEF FullRow
<1>8. AnsweredRows = [n \in DOMAIN answer |->
                        [k \in DOMAIN answer[n].cells |->
                           Property(answer[n].cells[k][1],
                                    Fields(plan, cache)[answer[n].cells[k][2]])]]
  BY DEF AnsweredRows
<1>9. ASSUME NEW n \in DOMAIN answer, NEW k \in 1 .. keys
      PROVE  AnsweredRows[n][k] = Property(answer[n].uri, Fields(plan, cache)[k])
  <2>1. k \in DOMAIN answer[n].cells /\ answer[n].cells[k] = <<found[n], k>>
    BY <1>7
  <2>2. AnsweredRows[n][k] = Property(answer[n].cells[k][1],
                                      Fields(plan, cache)[answer[n].cells[k][2]])
    BY <1>8, <2>1
  <2>3. answer[n].cells[k][1] = answer[n].uri /\ answer[n].cells[k][2] = k
    <3>1. answer[n].uri = found[n]
      BY <1>7
    <3>2. PICK cell : cell = answer[n].cells[k]
      OBVIOUS
    <3>3. cell[1] = found[n] /\ cell[2] = k
      BY <2>1, <3>2
    <3> QED  BY <3>1, <3>2, <3>3
  <2> QED  BY <2>2, <2>3
<1>10. DOMAIN AnsweredRows = 1 .. Len(answer) /\ Len(AnsweredRows) = Len(answer)
  BY <1>3, <1>8
<1>11. ASSUME NEW n \in 1 .. Len(answer)
       PROVE  RowOf(cache, plan.type, KnownUri(query.clips), AnsweredRows, n, answer[n].uri)
  <2>1. n \in DOMAIN answer
    BY <1>3
  <2>2. PICK i \in DOMAIN uris : answer[n].uri = uris[i]
    <3>1. n \in DOMAIN found /\ answer[n].uri = found[n]
      BY <1>7, <2>1
    <3> QED  BY <1>6, <3>1
  <2>3. answer[n].uri \in File
    BY <1>2, <2>2
  <2>4. KnownUri(query.clips) \in {Nothing, {Uri[answer[n].uri]}}
    <3>1. CASE Len(uris) = 1
      <4>1. i = 1
        BY <1>2, <2>2, <3>1
      <4> QED  BY <1>1, <2>2, <3>1, <4>1 DEF KnownUri
    <3>2. CASE Len(uris) # 1
      BY <1>1, <3>2 DEF KnownUri
    <3> QED  BY <3>1, <3>2
  <2>5. ASSUME NEW k \in InTracker(cache)
        PROVE  /\ n \in DOMAIN AnsweredRows
               /\ AnsweredRows[n][cache.entries[k].at + 1] = Property(answer[n].uri, k)
    <3>1. PICK column : column = cache.entries[k].at + 1
      OBVIOUS
    <3>2. column \in 1 .. keys /\ Fields(plan, cache)[column] = k
      BY <1>1, <3>1, FieldsAreColumns
    <3>3. AnsweredRows[n][column] = Property(answer[n].uri, k)
      BY <1>9, <2>1, <3>2
    <3> QED  BY <1>10, <3>1, <3>3
  <2> QED  BY <1>1, <2>3, <2>4, <2>5 DEF RowOf
<1> QED  BY <1>3, <1>10, <1>11

LEMMA ToldExactly ==
  PairingInv /\ ClipsInv /\ ToldInv => ClipsExact
<1> DEFINE fileOf(i) == IF answer = << >> THEN query.clips[i] ELSE answer[i].uri
<1> SUFFICES ASSUME PairingInv, ClipsInv, ToldInv,
                    stage = "answered", plan.kind = "clips", ~disturbed,
                    answer # << >> \/ (keys = 0 /\ Len(query.clips) = 1),
                    NEW i \in 1 .. Max({1, Len(answer)})
             PROVE  AgreeBut(ButTitles(plan.type), Result[i],
                             ClipExpected(query.keys, fileOf(i), plan.type))
  BY DEF ClipsExact, ButTitles, ClipExpected
<1>1. PICK answered : answered = AnsweredRows
  OBVIOUS
<1>2. PICK file : file = fileOf(i)
  OBVIOUS
<1>3. PICK uri : uri = KnownUri(query.clips)
  OBVIOUS
<1>4. /\ ClipCache(cache, plan.type, uri)
      /\ KeysGetUser(cache) = Range(query.keys) \cap Tellable
      /\ keys = Len(Fields(plan, cache))
  <2>1. /\ todo = << >>
        /\ KeysGetUser(cache) \cup (Range(todo) \cap Tellable)
             = Range(query.keys) \cap Tellable
    BY DEF ToldInv
  <2>2. Range(todo) = {}
    BY <2>1 DEF Range
  <2> QED  BY <1>3, <2>1, <2>2 DEF ToldInv
<1>5. /\ i \in 1 .. Max({1, Len(answered)})
      /\ RowOf(cache, plan.type, uri, answered, i, file)
  <2>1. CASE answer # << >>
    <3>1. /\ Len(answered) = Len(answer) /\ Len(answer) \in Nat \ {0}
          /\ \A n \in 1 .. Len(answer) :
               RowOf(cache, plan.type, uri, answered, n, answer[n].uri)
      BY <1>1, <1>3, <2>1, RowsOfClips
    <3>2. i \in 1 .. Len(answer)
      BY <3>1, MaxWithOne
    <3> QED  BY <1>2, <2>1, <3>1, <3>2
  <2>2. CASE answer = << >>
    <3>1. keys = 0 /\ Len(query.clips) = 1 /\ query.clips \in Seq(File)
      BY <2>2, QueryFacts DEF ClipsInv
    <3>2. answered = << >> /\ Len(answered) = 0 /\ Len(answer) = 0
      <4>1. DOMAIN answer = {}
        BY <2>2
      <4> QED  BY <1>1, <2>2, <4>1 DEF AnsweredRows
    <3>3. i = 1
      BY <3>2, MaxWithOne
    <3>4. file = query.clips[1] /\ file \in File
      BY <1>2, <2>2, <3>1, <3>3
    <3>5. uri = {Uri[file]}
      BY <1>3, <3>1, <3>4 DEF KnownUri
    <3>6. InTracker(cache) = {}
      <4>1. cache.last = 0
        BY <1>4, <3>1, FieldsAreColumns
      <4>2. \A k \in InTracker(cache) : cache.entries[k].at + 1 \in 1 .. cache.last
        BY FieldsAreColumns
      <4> QED  BY <4>1, <4>2
    <3>7. i \in 1 .. Max({1, Len(answered)})
      BY <3>2
    <3> QED  BY <1>4, <3>4, <3>5, <3>6, <3>7 DEF RowOf
  <2> QED  BY <2>1, <2>2
<1>6. plan.type \in Types
  BY DEF PairingInv, Paired, PlanOK
<1>7. Result[i] = ClipMetadata(cache, answered, i)
  BY <1>1, <1>5 DEF Result, Built, BuildMetadata, ClipMetadata
<1>8. AgreeBut(ButTitles(plan.type), ClipMetadata(cache, answered, i),
               ClipExpected(query.keys, file, plan.type))
  <2>1. PICK c, type, asked : c = cache /\ type = plan.type /\ asked = query.keys
    OBVIOUS
  <2>2. /\ RowOf(c, type, uri, answered, i, file) /\ type \in Types
        /\ KeysGetUser(c) = Range(asked) \cap Tellable
    BY <1>4, <1>5, <1>6, <2>1
  <2>3. AgreeBut(ButTitles(type), ClipMetadata(c, answered, i),
                 ClipExpected(asked, file, type))
    BY <2>2, MetadataOfClip
  <2> QED  BY <2>1, <2>3
<1> QED  BY <1>2, <1>7, <1>8

\* What get_metadatas tells of each of several clips is what Tracker says of
\* this clip, whatever clips, keys and libraries there are and in however many
\* chunks Tracker is asked, unless Tracker changes meanwhile
\* (Catalog!ClipsExact).
THEOREM ClipsToldExactly == CatalogSpec => []ClipsExact
<1>1. CatalogInit => PairingInv /\ ClipsInv /\ TypeInv /\ ToldInv
  BY InitPairs, InitClips, InitTypes, InitTold
<1>2. PairingInv /\ ClipsInv /\ TypeInv /\ ToldInv /\ [CatalogNext]_allVars
        => (PairingInv /\ ClipsInv /\ TypeInv /\ ToldInv)'
  BY StepPairs, StepClips, StepTypes, StepTold
<1>3. PairingInv /\ ClipsInv /\ ToldInv => ClipsExact
  BY ToldExactly
<1> QED  BY <1>1, <1>2, <1>3, PTL DEF CatalogSpec

-----------------------------------------------------------------------------
(* Listings have the rows that were asked for.                             *)

\* What the key is that ids of a listing are made from.
ListingKey(p) == IF p.kind = "list" THEN "uri" ELSE p.unique

IsList(s) == \E T : s \in Seq(T)

\* The plan of a listing: unless it lists a level there is only a category, and
\* that does not say anything about the level that is listed.
ListingOK(p) ==
  /\ IsList(p.prefix)
  /\ p.category = [key \in {"genre", "artist", "album"} |-> p.category[key]]
  /\ \A key \in {"genre", "artist", "album"} : \A u, v \in p.category[key] : u = v
  /\ p.kind = "unique" =>
       /\ p.unique \in {"genre", "artist", "album"}
       /\ p.category[p.unique] = Nothing
       /\ p.counts \in Seq({"genre", "artist", "album", "*"})

LEMMA OnlyFacts ==
  ASSUME NEW path, NEW levels
  PROVE  LET only == Only(CategoryInfo(path), levels)
         IN  /\ only = [key \in {"genre", "artist", "album"} |-> only[key]]
             /\ \A key \in {"genre", "artist", "album"} : \A u, v \in only[key] : u = v
             /\ \A key \in {"genre", "artist", "album"} :
                  key \notin levels \/ CategoryInfo(path)[key] = Nothing => only[key] = Nothing
<1> DEFINE info == CategoryInfo(path)
           only == Only(info, levels)
           three == {"genre", "artist", "album"}
           n == Len(path)
           branch == IF n > 1 /\ path[1] = "music" THEN path[2] ELSE Hole
           lv == Levels(branch)
           given(key) == IF \E i \in DOMAIN lv : lv[i] = key /\ i + 2 <= n
                         THEN {path[2 + CHOOSE i \in DOMAIN lv : lv[i] = key]}
                         ELSE Nothing
<1>1. only = [key \in three |-> IF key \in levels THEN info[key] ELSE Nothing]
  BY DEF Only
<1>2. info.genre = given("genre") /\ info.artist = given("artist") /\ info.album = given("album")
  BY DEF CategoryInfo
<1>3. \A key : \A u, v \in given(key) : u = v
  BY DEF Nothing
<1> HIDE DEF info, given, only
<1>4. \A key \in three : info[key] = given(key)
  BY <1>2
<1>5. \A key \in three : \A u, v \in info[key] : u = v
  BY <1>3, <1>4
<1>6. \A key \in three : only[key] = IF key \in levels THEN info[key] ELSE Nothing
  BY <1>1
<1>7. \A key \in three : \A u, v \in only[key] : u = v
  BY <1>5, <1>6 DEF Nothing
<1>8. only = [key \in three |-> only[key]]
  BY <1>1
<1>9. \A key \in three : key \notin levels \/ info[key] = Nothing => only[key] = Nothing
  BY <1>6
<1> QED  BY <1>7, <1>8, <1>9 DEF only, info

LEMMA EverythingFacts ==
  /\ Everything = [key \in {"genre", "artist", "album"} |-> Everything[key]]
  /\ \A key \in {"genre", "artist", "album"} : Everything[key] = Nothing
  BY DEF Everything, Only

LEMMA TextPair ==
  ASSUME NEW S, NEW a \in S, NEW b \in S
  PROVE  <<a, b>> \in Seq(S)
  OBVIOUS

LEMMA CountKeysAre ==
  ASSUME NEW level \in 1 .. 4
  PROVE  CountKeys(level) \in Seq({"genre", "artist", "album", "*"})
<1> DEFINE s == <<"genre", "artist", "album", "*">>
<1>1. s \in Seq({"genre", "artist", "album", "*"}) /\ Len(s) = 4
  OBVIOUS
<1> HIDE DEF s
<1>2. SubSeq(s, level, 4) \in Seq({"genre", "artist", "album", "*"})
  BY <1>1, SubSeqProperties
<1> QED  BY <1>2 DEF CountKeys, s

LEMMA GetListListing ==
  ASSUME NEW type, NEW category, NEW prefix, IsList(prefix),
         category = [key \in {"genre", "artist", "album"} |-> category[key]],
         \A key \in {"genre", "artist", "album"} : \A u, v \in category[key] : u = v
  PROVE  ListingOK(GetList(type, category, prefix))
<1> DEFINE p == GetList(type, category, prefix)
<1>1. p.kind = "list" /\ p.prefix = prefix /\ p.category = category
  BY DEF GetList, Plan
<1> HIDE DEF p
<1>2. ListingOK(p)
  BY <1>1 DEF ListingOK
<1> QED  BY <1>2 DEF p

LEMMA GetUniqueListing ==
  ASSUME NEW key \in {"genre", "artist", "album"}, NEW category, NEW prefix, IsList(prefix),
         category = [k \in {"genre", "artist", "album"} |-> category[k]],
         \A k \in {"genre", "artist", "album"} : \A u, v \in category[k] : u = v,
         category[key] = Nothing
  PROVE  ListingOK(GetUnique(key, category, prefix))
<1> DEFINE p == GetUnique(key, category, prefix)
           level == CHOOSE i \in 1 .. 3 : Hierarchy[i] = key
<1>1. /\ p.kind = "unique" /\ p.unique = key /\ p.prefix = prefix /\ p.category = category
      /\ p.counts = OfValue(level)
  BY DEF GetUnique, Plan
<1>2. level \in 1 .. 3
  BY Levels123
<1> HIDE DEF p, level
<1>3. p.counts \in Seq({"genre", "artist", "album", "*"})
  <2>1. level + 1 \in 1 .. 4
    BY <1>2
  <2>2. CountKeys(level + 1) \in Seq({"genre", "artist", "album", "*"})
    BY <2>1, CountKeysAre
  <2> QED  BY <1>1, <2>2 DEF OfValue
<1>4. ListingOK(p)
  BY <1>1, <1>3 DEF ListingOK
<1> QED  BY <1>4 DEF p

LEMMA BrowsePlanListing ==
  ASSUME NEW path \in Seq(STRING), NEW recursive \in BOOLEAN,
         LET info == CategoryInfo(path)
         IN  /\ info.category # "root"
             /\ info.category = "music" => recursive
             /\ info.clip # Nothing => info.category # "playlists",
         BrowsePlan(path, recursive).kind \in {"list", "unique"}
  PROVE  ListingOK(BrowsePlan(path, recursive))
<1> DEFINE info == CategoryInfo(path)
           c == info.category
           missing == {i \in DOMAIN Levels(c) : info[Levels(c)[i]] = Nothing}
           p == BrowsePlan(path, recursive)
<1>1. c \in Categories \ {"root"}
  BY CategoryIsKnown
<1>2. IsList(Songs) /\ IsList(path)
  <2>1. PICK T, a, b : a = "music" /\ b = "songs" /\ T = {a, b}
    OBVIOUS
  <2>2. <<a, b>> \in Seq(T)
    BY <2>1, TextPair
  <2> QED  BY <2>1, <2>2 DEF Songs, IsList
<1>3. CASE c \in {"albums", "artists", "genres"} /\ info.clip = Nothing
  <2>1. missing \in SUBSET (1 .. 3)
    BY <1>3, LevelNames
  <2>2. PICK three, two : three = Only(info, {"genre", "artist", "album"})
                          /\ two = Only(info, {"genre", "artist"})
    OBVIOUS
  <2>3. /\ three = [key \in {"genre", "artist", "album"} |-> three[key]]
        /\ \A key \in {"genre", "artist", "album"} : \A u, v \in three[key] : u = v
    BY <2>2, OnlyFacts
  <2>4. /\ two = [key \in {"genre", "artist", "album"} |-> two[key]]
        /\ \A key \in {"genre", "artist", "album"} : \A u, v \in two[key] : u = v
        /\ \A key \in {"genre", "artist", "album"} : info[key] = Nothing => two[key] = Nothing
    BY <2>2, OnlyFacts
  <2>5. p = IF recursive THEN GetList("music", three, Songs)
            ELSE IF missing = {} THEN GetList("music", three, path)
            ELSE GetUnique(Levels(c)[Min(missing)], two, path)
    BY <1>3, <2>2 DEF BrowsePlan
  <2>6. ListingOK(GetList("music", three, Songs)) /\ ListingOK(GetList("music", three, path))
    BY <1>2, <2>3, GetListListing
  <2>7. ASSUME missing # {}
        PROVE  ListingOK(GetUnique(Levels(c)[Min(missing)], two, path))
    <3>1. PICK i : i = Min(missing)
      OBVIOUS
    <3>2. i \in missing
      <4> HIDE DEF missing
      <4> QED  BY <2>1, <2>7, <3>1, MinOfSmall
    <3>3. PICK key : key = Levels(c)[i]
      OBVIOUS
    <3>4. key \in {"genre", "artist", "album"} /\ info[key] = Nothing
      BY <1>3, <3>2, <3>3, LevelNames
    <3>5. two[key] = Nothing
      BY <2>4, <3>4
    <3>6. ListingOK(GetUnique(key, two, path))
      BY <1>2, <2>4, <3>4, <3>5, GetUniqueListing
    <3> QED  BY <3>1, <3>3, <3>6
  <2> HIDE DEF p, missing, c
  <2> QED  BY <2>5, <2>6, <2>7 DEF p
<1>4. CASE c = "error" \/ info.clip # Nothing
  <2>1. c = "error" \/ (info.clip # Nothing /\ c # "playlists")
    BY <1>4
  <2>2. p = NoPlan
    BY ONLY <2>1 DEF BrowsePlan
  <2>3. NoPlan.kind = "none"
    BY DEF NoPlan, Plan
  <2> QED  BY <2>2, <2>3
<1>5. CASE c \in {"videos", "playlists", "songs", "music"} /\ info.clip = Nothing
  <2>1. \/ p = GetList("video", Everything, path)
        \/ p = GetList("playlist", Everything, path)
        \/ p = GetList("music", Everything, Songs)
    BY <1>5 DEF BrowsePlan
  <2>2. \A key \in {"genre", "artist", "album"} : \A u, v \in Everything[key] : u = v
    BY EverythingFacts DEF Nothing
  <2>3. \A type : /\ ListingOK(GetList(type, Everything, path))
                  /\ ListingOK(GetList(type, Everything, Songs))
    BY <1>2, <2>2, EverythingFacts, GetListListing
  <2> QED  BY <2>1, <2>3
<1> QED  BY <1>1, <1>3, <1>4, <1>5 DEF Categories

\* Only browse() lists anything.
LEMMA PlanOfListing ==
  ASSUME NEW q \in Queries, PlanOf(q).kind \in {"list", "unique"}
  PROVE  ListingOK(PlanOf(q))
<1>1. /\ q.op \in {"browse", "get_metadata", "get_metadatas"}
      /\ q.path \in Seq(STRING)
      /\ q.recursive \in BOOLEAN
      /\ CategoryInfo(q.path).category # "root"
      /\ CategoryInfo(q.path).category = "music" => q.op # "get_metadata" /\ q.recursive
      /\ CategoryInfo(q.path).clip # Nothing => CategoryInfo(q.path).category # "playlists"
  BY QueriesAssumption
<1>2. CASE q.op = "browse"
  <2>1. PlanOf(q) = BrowsePlan(q.path, q.recursive)
    BY <1>2 DEF PlanOf
  <2> QED  BY <1>1, <2>1, BrowsePlanListing
<1>3. CASE q.op = "get_metadata"
  <2>1. PlanOf(q) = MetadataPlan(q.path)
    BY <1>3 DEF PlanOf
  <2>2. \A type, title : GetService(type, title).kind = "container"
    BY DEF GetService, Plan
  <2>3. \A default, title, category : GetCategory(default, title, category).kind = "container"
    BY DEF GetCategory, Plan
  <2>4. NoPlan.kind = "none"
    BY DEF NoPlan, Plan
  <2>5. CategoryInfo(q.path).category \in Categories \ {"root", "music"}
    BY <1>1, <1>3, CategoryIsKnown
  <2>6. MetadataPlan(q.path).kind \in {"container", "none"}
    BY <2>2, <2>3, <2>4, <2>5 DEF MetadataPlan, Categories
  <2> QED  BY <2>1, <2>6
<1>4. CASE q.op = "get_metadatas"
  <2>1. PlanOf(q) = ClipsPlan(q.path)
    BY <1>4 DEF PlanOf
  <2>2. \A type : Plan("clips", type, Everything, q.path).kind = "clips"
    BY DEF Plan
  <2>3. NoPlan.kind = "none"
    BY DEF NoPlan, Plan
  <2>4. ClipsPlan(q.path).kind \in {"clips", "none"}
    BY <2>2, <2>3 DEF ClipsPlan
  <2> QED  BY <2>1, <2>4
<1> QED  BY <1>1, <1>2, <1>3, <1>4

-----------------------------------------------------------------------------
(* The key that ids are made from has a column.                            *)

LEMMA InsertedGrows ==
  ASSUME NEW c, NEW k, NEW entry, NEW width,
         k \notin InTracker(c) \/ entry.kind = "tracker"
  PROVE  InTracker(c) \subseteq InTracker(Inserted(c, k, entry, width))
  BY InsertedInTracker

LEMMA InColumnGrows ==
  ASSUME NEW c, NEW k, NEW user
  PROVE  InTracker(InColumn(c, k, user)) = InTracker(c) \cup {k}
<1>1. PICK entry : entry = Entry("tracker", c.last, Nothing, Hole, user)
  OBVIOUS
<1>2. entry.kind = "tracker"
  BY <1>1, EntryFields
<1>3. InColumn(c, k, user) = Inserted(c, k, entry, 1)
  BY <1>1 DEF InColumn
<1> QED  BY <1>2, <1>3, InsertedInTracker

LEMMA AddedGrows ==
  ASSUME NEW c, NEW k, NEW max \in Int, NEW user
  PROVE  InTracker(c) \subseteq InTracker(Added(c, k, max, user))
<1>1. CASE KeyExists(c, k)
  <2>1. PICK old : old = c.entries[k]
    OBVIOUS
  <2>2. PICK entry : entry = Entry(old.kind, old.at, old.value, old.from, old.user \/ user)
    OBVIOUS
  <2>3. entry.kind = old.kind
    BY <2>2, EntryFields
  <2>4. Added(c, k, max, user) = Inserted(c, k, entry, 0)
    BY <1>1, <2>1, <2>2 DEF Added, Requested
  <2>5. k \notin InTracker(c) \/ entry.kind = "tracker"
    BY <2>1, <2>3 DEF InTracker
  <2> QED  BY <2>4, <2>5, InsertedGrows
<1>2. CASE ~KeyExists(c, k) /\ k \in MetadataKeys
  <2>1. k \notin InTracker(c)
    BY <1>2 DEF KeyExists, InTracker
  <2>2. \A entry, width :
          InTracker(c) \subseteq InTracker(Inserted(c, k, entry, width))
    BY <2>1, InsertedGrows
  <2>3. InTracker(c) \subseteq InTracker(InColumn(c, k, user))
    BY InColumnGrows
  <2>4. \A value : InTracker(c) \subseteq InTracker(KeyAddPrecomputed(c, k, user, value))
    BY <2>2 DEF KeyAddPrecomputed
  <2>5. InTracker(c) \subseteq InTracker(NewKey(c, k, max, user))
    <3>1. CASE k \in ArtKeys \cup ThumbnailKeys
      BY <2>2, <3>1, KindsOfKeys DEF NewKey
    <3>2. CASE k \in ChildcountKeys
      <4>1. Level(k) > max \/ Level(k) <= max
        BY <3>2, ChildcountNames
      <4> QED  BY <2>3, <2>4, <3>2, <4>1, KindsOfKeys DEF NewKey
    <3>3. CASE k \in CommonKeys \cup MusicKeys \cup VideoKeys
      <4>1. k \notin ArtKeys \cup ThumbnailKeys \cup ChildcountKeys
        BY <3>3, KindsOfKeys
      <4> QED  BY <2>2, <2>3, <2>4, <3>3, <4>1 DEF NewKey
    <3> QED  BY <1>2, <3>1, <3>2, <3>3 DEF MetadataKeys
  <2> QED  BY <1>2, <2>5 DEF Added
<1>3. CASE ~KeyExists(c, k) /\ k \notin MetadataKeys
  BY <1>3 DEF Added
<1> QED  BY <1>1, <1>2, <1>3

LEMMA KeyAddGrows ==
  ASSUME NEW c, NEW k, NEW max \in Int, NEW user
  PROVE  InTracker(c) \subseteq InTracker(KeyAdd(c, k, max, user))
<1> DEFINE needs == IF KeyExists(c, k) THEN << >> ELSE Needs(c, k)
           one == IF Len(needs) > 0 THEN Added(c, needs[1], max, FALSE) ELSE c
           two == IF Len(needs) > 1 THEN Added(one, needs[2], max, FALSE) ELSE one
<1>1. InTracker(c) \subseteq InTracker(one)
  BY AddedGrows
<1>2. InTracker(one) \subseteq InTracker(two)
  <2> HIDE DEF one
  <2> QED  BY AddedGrows
<1>3. InTracker(two) \subseteq InTracker(Added(two, k, max, user))
  <2> HIDE DEF two
  <2> QED  BY AddedGrows
<1>4. KeyAdd(c, k, max, user) = Added(two, k, max, user)
  BY DEF KeyAdd
<1> HIDE DEF one, two
<1> QED  BY <1>1, <1>2, <1>3, <1>4

LEMMA LastCacheGrows ==
  ASSUME NEW p, NEW c
  PROVE  InTracker(c) \subseteq InTracker(LastCache(p, c))
<1>1. \A k : InTracker(c) \subseteq InTracker(KeyAddConcat(c, k))
  BY InColumnGrows DEF KeyAddConcat
<1> QED  BY <1>1 DEF LastCache

LEMMA KeyAddAlone ==
  ASSUME NEW c, NEW k, Needs(c, k) = << >>, NEW max, NEW user
  PROVE  KeyAdd(c, k, max, user) = Added(c, k, max, user)
<1> DEFINE needs == IF KeyExists(c, k) THEN << >> ELSE Needs(c, k)
           one == IF Len(needs) > 0 THEN Added(c, needs[1], max, FALSE) ELSE c
           two == IF Len(needs) > 1 THEN Added(one, needs[2], max, FALSE) ELSE one
<1>1. needs = << >>
  OBVIOUS
<1>2. Len(needs) = 0
  <2> HIDE DEF needs
  <2> QED  BY <1>1
<1> HIDE DEF needs
<1>3. one = c /\ two = one
  BY <1>2
<1> QED  BY <1>3 DEF KeyAdd, needs

LEMMA PresetEntries ==
  ASSUME NEW c, NEW key, NEW value
  PROVE  /\ DOMAIN Preset(c, key, value).entries \subseteq DOMAIN c.entries \cup {key}
         /\ value = Nothing => Preset(c, key, value) = c
<1>1. \A entry, width :
        DOMAIN Inserted(c, key, entry, width).entries = DOMAIN c.entries \cup {key}
  BY InsertedFields
<1> QED  BY <1>1 DEF Preset, KeyAddPrecomputed

\* Nothing that the first cache has beforehand is in the way of the key.
LEMMA FirstCacheListing ==
  ASSUME NEW p, PlanOK(p), p.kind \in {"list", "unique"}, ListingOK(p), NEW clips
  PROVE  ListingKey(p) \in InTracker(FirstCache(p, clips))
<1> DEFINE result == IF p.kind = "unique" THEN "unique" ELSE "query"
<1>1. PICK new : new = NewCache(p.type, result)
  OBVIOUS
<1>2. PICK genre : genre = Preset(new, "genre", p.category.genre)
  OBVIOUS
<1>3. PICK artist : artist = Preset(genre, "artist", p.category.artist)
  OBVIOUS
<1>4. PICK album : album = Preset(artist, "album", p.category.album)
  OBVIOUS
<1>5. DOMAIN new.entries = {}
  BY <1>1 DEF NewCache
<1>6. /\ DOMAIN genre.entries \subseteq {"genre"}
      /\ p.category.genre = Nothing => DOMAIN genre.entries = {}
  BY <1>2, <1>5, PresetEntries
<1>7. /\ DOMAIN artist.entries \subseteq DOMAIN genre.entries \cup {"artist"}
      /\ p.category.artist = Nothing => artist = genre
  BY <1>3, PresetEntries
<1>8. /\ DOMAIN album.entries \subseteq DOMAIN artist.entries \cup {"album"}
      /\ p.category.album = Nothing => album = artist
  BY <1>4, PresetEntries
<1>9. CASE p.kind = "list"
  <2>1. FirstCache(p, clips) = KeyAdd(album, "uri", 1, FALSE)
    BY <1>1, <1>2, <1>3, <1>4, <1>9 DEF FirstCache
  <2>2. "uri" \notin DOMAIN album.entries
    BY <1>6, <1>7, <1>8
  <2>3. Needs(album, "uri") = << >>
    BY DEF Needs, SizedArtKeys, ThumbnailKeys
  <2>4. KeyAdd(album, "uri", 1, FALSE) = Added(album, "uri", 1, FALSE)
    <3>1. PICK user : user = FALSE
      OBVIOUS
    <3>2. KeyAdd(album, "uri", 1, user) = Added(album, "uri", 1, user)
      BY <2>3, KeyAddAlone
    <3> QED  BY <3>1, <3>2
  <2>5. /\ "uri" \in MetadataKeys /\ "uri" \in CommonKeys /\ TrackerHas(album.type, "uri")
        /\ "uri" \notin ArtKeys \cup ThumbnailKeys \cup ChildcountKeys
    BY KindsOfNames DEF MetadataKeys, TrackerHas
  <2>6. album.result # "unique"
    <3>1. Fresh(new) /\ new.result = "query"
      BY <1>1, <1>9, NewCacheIsFresh
    <3>2. Fresh(genre) /\ genre.result = "query"
      BY <1>2, <3>1, PresetStaysFresh
    <3>3. Fresh(artist) /\ artist.result = "query"
      BY <1>3, <3>2, PresetStaysFresh
    <3>4. Fresh(album) /\ album.result = "query"
      BY <1>4, <3>3, PresetStaysFresh
    <3> QED  BY <3>4
  <2>7. NewKey(album, "uri", 1, FALSE) = InColumn(album, "uri", FALSE)
    BY <2>5, <2>6 DEF NewKey
  <2>8. Added(album, "uri", 1, FALSE) = InColumn(album, "uri", FALSE)
    BY <2>2, <2>5, <2>7 DEF Added, KeyExists
  <2>9. "uri" \in InTracker(InColumn(album, "uri", FALSE))
    <3>1. \A user : "uri" \in InTracker(InColumn(album, "uri", user))
      BY InColumnGrows
    <3> QED  BY <3>1
  <2> QED  BY <1>9, <2>1, <2>4, <2>8, <2>9 DEF ListingKey
<1>10. CASE p.kind = "unique"
  <2>1. PICK titled : titled = KeyAddDerived(album, "title", FALSE, p.unique)
    OBVIOUS
  <2>2. FirstCache(p, clips) = KeyAddUnique(titled, p.unique)
    BY <1>1, <1>2, <1>3, <1>4, <1>10, <2>1 DEF FirstCache
  <2>3. p.unique \in {"genre", "artist", "album"} /\ p.category[p.unique] = Nothing
    BY <1>10 DEF ListingOK
  <2>4. p.unique \notin DOMAIN album.entries
    <3>1. CASE p.unique = "genre"
      BY <1>6, <1>7, <1>8, <2>3, <3>1
    <3>2. CASE p.unique = "artist"
      BY <1>6, <1>7, <1>8, <2>3, <3>2
    <3>3. CASE p.unique = "album"
      BY <1>6, <1>7, <1>8, <2>3, <3>3
    <3> QED  BY <2>3, <3>1, <3>2, <3>3
  <2>5. DOMAIN titled.entries \subseteq DOMAIN album.entries \cup {"title"}
    <3>1. \A entry, width :
            DOMAIN Inserted(album, "title", entry, width).entries
              = DOMAIN album.entries \cup {"title"}
      BY InsertedFields
    <3> QED  BY <2>1, <3>1 DEF KeyAddDerived
  <2>6. ~KeyExists(titled, p.unique) /\ p.unique # "mime"
    BY <2>3, <2>4, <2>5 DEF KeyExists
  <2>7. KeyAddUnique(titled, p.unique) = InColumn(titled, p.unique, FALSE)
    BY <2>6 DEF KeyAddUnique
  <2>8. p.unique \in InTracker(InColumn(titled, p.unique, FALSE))
    <3>1. \A key, user : key \in InTracker(InColumn(titled, key, user))
      BY InColumnGrows
    <3> QED  BY <3>1
  <2> QED  BY <1>10, <2>2, <2>7, <2>8 DEF ListingKey
<1> QED  BY <1>9, <1>10

-----------------------------------------------------------------------------
(* Every step of a listing.                                                *)

\* The plan of a listing is as above, the key its ids are made from has a
\* column, and there is an answer to its statement in the end.
ListingInv ==
  plan.kind \in {"list", "unique"} =>
    /\ ListingOK(plan)
    /\ ListingKey(plan) \in InTracker(cache)
    /\ stage \notin {"clips", "unasked"}
    /\ stage = "answered" => rows = Answer(Statement(plan, cache, query.filter))

LEMMA InitLists == CatalogInit => ListingInv
<1> SUFFICES ASSUME CatalogInit PROVE plan.kind = "none"
  BY DEF ListingInv
<1> QED  BY PlanFields DEF CatalogInit, NoPlan

LEMMA StepLists == PairingInv /\ ListingInv /\ [CatalogNext]_allVars => ListingInv'
<1> SUFFICES ASSUME PairingInv, ListingInv, [CatalogNext]_allVars,
                    plan'.kind \in {"list", "unique"}
             PROVE  /\ ListingOK(plan')
                    /\ ListingKey(plan') \in InTracker(cache')
                    /\ stage' \notin {"clips", "unasked"}
                    /\ stage' = "answered" =>
                         rows' = Answer(Statement(plan, cache, query.filter))'
  BY DEF ListingInv
<1>1. PlanOK(plan)
  BY DEF PairingInv, Paired
<1>2. ASSUME NEW q \in Queries, Ask(q)
      PROVE  ListingInv'
  <2>1. /\ plan' = PlanOf(q) /\ cache' = FirstCache(plan', q.clips)
        /\ stage' \in {"rejected", "endless", "keys"}
    BY <1>2 DEF Ask
  <2>2. PlanOK(plan') /\ ListingOK(plan')
    BY <2>1, PlanOfOK, PlanOfListing
  <2>3. ListingKey(plan') \in InTracker(cache')
    BY <2>1, <2>2, FirstCacheListing
  <2> QED  BY <2>1, <2>2, <2>3 DEF ListingInv
<1>3. CASE AddKey
  <2>1. /\ cache' = KeyAdd(cache, Head(todo), plan.max, TRUE)
        /\ plan' = plan
        /\ stage = "keys" /\ stage' = stage
    BY <1>3 DEF AddKey
  <2>2. InTracker(cache) \subseteq InTracker(cache')
    <3>1. plan.max \in Int
      BY <1>1 DEF PlanOK
    <3>2. \A user : InTracker(cache) \subseteq InTracker(KeyAdd(cache, Head(todo), plan.max, user))
      BY <3>1, KeyAddGrows
    <3> QED  BY <2>1, <3>2
  <2> QED  BY <2>1, <2>2 DEF ListingInv
<1>4. CASE Send
  <2>1. /\ cache' = LastCache(plan, cache)
        /\ plan' = plan
        /\ stage' \in {"asked", "unasked"}
        /\ stage' = "unasked" => plan.kind = "container"
    BY <1>4 DEF Send
  <2>2. InTracker(cache) \subseteq InTracker(cache')
    BY <2>1, LastCacheGrows
  <2> QED  BY <2>1, <2>2 DEF ListingInv
<1>5. CASE SendClips
  BY <1>5 DEF SendClips, catalogVarsButStage
<1>6. CASE TrackerAnswers
  <2>1. /\ plan' = plan /\ cache' = cache /\ query' = query /\ library' = library
        /\ known' = known /\ stage' = "answered"
        /\ rows' = Answer(Statement(plan, cache, query.filter))
    BY <1>6 DEF TrackerAnswers, vars
  <2>2. PICK s : s = Statement(plan, cache, query.filter)
    OBVIOUS
  <2>3. s = Statement(plan', cache', query'.filter)
    BY <2>1, <2>2
  <2>4. rows' = Answer(Statement(plan, cache, query.filter))'
    BY <2>1, <2>2, <2>3 DEF Answer, Have, TypeOf, Song, Property
  <2> QED  BY <2>1, <2>4 DEF ListingInv
<1>7. CASE TrackerFails
  BY <1>7 DEF TrackerFails, catalogVarsButStage, ListingInv
<1>8. CASE NothingAsked
  BY <1>8 DEF NothingAsked, ListingInv
<1>9. CASE ClipsHandler
  BY <1>9 DEF ClipsHandler, catalogVarsButStage, ListingInv
<1>10. CASE Indexer
  BY <1>10 DEF Indexer, catalogVars, ListingInv
<1>11. CASE UNCHANGED allVars
  <2>1. /\ plan' = plan /\ cache' = cache /\ query' = query /\ library' = library
        /\ known' = known /\ stage' = stage /\ rows' = rows
    BY <1>11 DEF allVars, vars, catalogVars
  <2>2. PICK s : s = Statement(plan, cache, query.filter)
    OBVIOUS
  <2>3. s = Statement(plan', cache', query'.filter)
    BY <2>1, <2>2
  <2>4. Answer(s)' = Answer(s)
    BY <2>1 DEF Answer, Have, TypeOf, Song, Property
  <2> QED  BY <2>1, <2>2, <2>3, <2>4 DEF ListingInv
<1> QED
  BY <1>2, <1>3, <1>4, <1>5, <1>6, <1>7, <1>8, <1>9, <1>10, <1>11
  DEF CatalogNext, CatalogHandler, ListingInv

-----------------------------------------------------------------------------
(* The statement of a listing.                                             *)

LEMMA ListOfItsOwn ==
  ASSUME NEW s, IsList(s)
  PROVE  s \in Seq({s[i] : i \in DOMAIN s})
<1>1. PICK T : s \in Seq(T)
  BY DEF IsList
<1>2. Len(s) \in Nat /\ DOMAIN s = 1 .. Len(s) /\ s = [i \in 1 .. Len(s) |-> s[i]]
  BY <1>1
<1>3. PICK n : n = Len(s)
  OBVIOUS
<1>4. s \in [1 .. n -> {s[i] : i \in DOMAIN s}] /\ n \in Nat
  BY <1>2, <1>3
<1> QED  BY <1>4

\* A category that says one thing about a level, if anything.
OnceEach(category) ==
  /\ category = [key \in {"genre", "artist", "album"} |-> category[key]]
  /\ \A key \in {"genre", "artist", "album"} : \A u, v \in category[key] : u = v

LEMMA StatementFacts ==
  ASSUME NEW p, NEW c, p.kind \in {"list", "unique", "container"}, OnceEach(p.category),
         NEW fields, IsList(fields),
         fields = IF p.kind = "list" THEN Fields(p, c) ELSE <<p.unique>>,
         NEW aggregates, IsList(aggregates),
         aggregates = IF p.kind = "list" THEN << >> ELSE Aggregates(p, c),
         NEW filter \in Filters \cup {NoFilter}, Sound(filter),
         p.fresh => filter = NoFilter
  PROVE  Asks(Statement(p, c, filter), p.type, fields, aggregates, p.category, filter)
<1>1. PICK A : A = {aggregates[i] : i \in DOMAIN aggregates}
  OBVIOUS
<1>2. PICK K : K = {"genre", "artist", "album"} \cup {f.key : f \in Filters}
                     \cup {a.key : a \in A} \cup {fields[i] : i \in DOMAIN fields}
  OBVIOUS
<1>3. PICK V : V = {f.value : f \in Filters}
                     \cup UNION {p.category[key] : key \in {"genre", "artist", "album"}}
  OBVIOUS
<1>4. /\ {"genre", "artist", "album"} \subseteq K /\ \A a \in A : a.key \in K
      /\ \A f \in Filters : f.key \in K /\ f.value \in V
  BY <1>2, <1>3
<1>5. aggregates \in Seq(A)
  BY <1>1, ListOfItsOwn
<1>6. fields \in Seq(K)
  <2>1. PICK F : F = {fields[i] : i \in DOMAIN fields}
    OBVIOUS
  <2>2. fields \in Seq(F) /\ F \subseteq K
    BY <1>2, <2>1, ListOfItsOwn
  <2> QED  BY <2>2
<1>7. PICK category, type : category = p.category /\ type = p.type
  OBVIOUS
<1>8. CategoryOK(category, V)
  BY <1>3, <1>7 DEF CategoryOK, OnceEach
<1>9. PICK user : user = UserFilter(filter)
  OBVIOUS
<1>10. PICK narrowed : narrowed = FilterFromCategory(user.builder, category)
  OBVIOUS
<1>11. \A unique, s : s = Create(narrowed.builder, type, unique, fields, aggregates,
                                narrowed.clauses, user) =>
         user.outcome = "ok" /\ Asks(s, type, fields, aggregates, category, filter)
  BY <1>4, <1>5, <1>6, <1>8, <1>9, <1>10, StatementAsks
<1>12. user.outcome = "ok"
  BY <1>11
<1>13. (IF p.fresh THEN NewBuilder ELSE user.builder) = user.builder
  <2>1. ASSUME p.fresh
        PROVE  user.builder = NewBuilder
    <3>1. user.builder.vars = 0 /\ user.builder.values = << >>
      BY <1>9, <2>1 DEF UserFilter, Written
    <3>2. user.builder = [vars |-> user.builder.vars, values |-> user.builder.values]
      BY <1>9 DEF UserFilter
    <3> QED  BY <3>1, <3>2 DEF NewBuilder
  <2> QED  BY <2>1
<1>14. Statement(p, c, filter) =
         Create(narrowed.builder, type, p.kind \in {"unique", "container"}, fields, aggregates,
                narrowed.clauses, user)
  <2>1. CASE p.kind = "list"
    BY <1>7, <1>9, <1>10, <1>12, <1>13, <2>1 DEF Statement
  <2>2. CASE p.kind \in {"unique", "container"}
    BY <1>7, <1>9, <1>10, <1>12, <1>13, <2>2 DEF Statement
  <2> QED  BY <2>1, <2>2
<1> QED  BY <1>7, <1>11, <1>14

-----------------------------------------------------------------------------
(* What a listing finds.                                                   *)

\* The songs that are tried, and those of them that are found.
Tried(s) == [i \in DOMAIN Have(s.type) |-> Song(Have(s.type)[i])]
Found(s, songs) == Selected(songs, {i \in DOMAIN songs : Accepts(s, songs[i])})

\* The files found, each of them once.
IsFound(n, file, s) ==
  /\ n \in Nat /\ DOMAIN file = 1 .. n
  /\ \A i \in 1 .. n : file[i] \in known /\ TypeOf(file[i]) = s.type /\ Accepts(s, Song(file[i]))
  /\ \A f \in known : TypeOf(f) = s.type /\ Accepts(s, Song(f)) => \E i \in 1 .. n : file[i] = f
  /\ \A i, j \in 1 .. n : file[i] = file[j] => i = j

LEMMA FoundFiles ==
  ASSUME known \in SUBSET File, NEW s
  PROVE  \E n, file : /\ IsFound(n, file, s)
                      /\ Found(s, Tried(s)) = [i \in 1 .. n |-> Song(file[i])]
<1>1. PICK S : S = {f \in known : TypeOf(f) = s.type}
  OBVIOUS
<1>2. S \in SUBSET Nat /\ IsFiniteSet(S)
  <2>1. S \in SUBSET (1 .. Files)
    BY <1>1 DEF File
  <2>2. Files \in Int
    BY FilesAssumption
  <2>3. IsFiniteSet(1 .. Files)
    BY <2>2, FS_Interval
  <2>4. IsFiniteSet(S)
    BY <2>1, <2>3, FS_Subset
  <2> QED  BY <2>1, <2>4, FilesAssumption
<1>3. PICK have, m : have = Sorted(S) /\ m = Cardinality(S)
  OBVIOUS
<1>4. /\ m \in Nat /\ have \in [1 .. m -> S]
      /\ \A f \in S : \E k \in 1 .. m : have[k] = f
      /\ \A j, k \in 1 .. m : j < k => have[j] < have[k]
  BY <1>2, <1>3, SortedFacts
<1>5. \A j, k \in 1 .. m : have[j] = have[k] => j = k
  <2>1. \A k \in 1 .. m : have[k] \in Nat
    BY <1>2, <1>4
  <2> SUFFICES ASSUME NEW j \in 1 .. m, NEW k \in 1 .. m, j # k
               PROVE  have[j] # have[k]
    OBVIOUS
  <2>2. CASE j < k
    BY <1>4, <2>1, <2>2
  <2>3. CASE k < j
    BY <1>4, <2>1, <2>3
  <2> QED  BY <2>2, <2>3
<1>6. PICK songs : songs = Tried(s)
  OBVIOUS
<1>7. songs = [k \in 1 .. m |-> Song(have[k])]
  BY <1>1, <1>3, <1>4, <1>6 DEF Tried, Have
<1>8. PICK I : I = {k \in DOMAIN songs : Accepts(s, songs[k])}
  OBVIOUS
<1>9. PICK T : T = {songs[k] : k \in 1 .. m}
  OBVIOUS
<1>10. songs \in Seq(T)
  <2>1. songs \in [1 .. m -> T]
    BY <1>7, <1>9
  <2> QED  BY <1>4, <2>1
<1>11. I \in SUBSET DOMAIN songs
  BY <1>8
<1>12. I \in SUBSET Nat /\ IsFiniteSet(I)
  BY <1>10, <1>11, PlacesFinite
<1>13. PICK at, n : at = Sorted(I) /\ n = Cardinality(I)
  OBVIOUS
<1>14. /\ n \in Nat /\ at \in [1 .. n -> I]
       /\ \A i \in I : \E k \in 1 .. n : at[k] = i
       /\ \A j, k \in 1 .. n : j < k => at[j] < at[k]
  BY <1>12, <1>13, SortedFacts
<1>15. \A j, k \in 1 .. n : at[j] = at[k] => j = k
  <2>1. \A k \in 1 .. n : at[k] \in Nat
    BY <1>12, <1>14
  <2> SUFFICES ASSUME NEW j \in 1 .. n, NEW k \in 1 .. n, j # k
               PROVE  at[j] # at[k]
    OBVIOUS
  <2>2. CASE j < k
    BY <1>14, <2>1, <2>2
  <2>3. CASE k < j
    BY <1>14, <2>1, <2>3
  <2> QED  BY <2>2, <2>3
<1>16. PICK file : file = [i \in 1 .. n |-> have[at[i]]]
  OBVIOUS
<1>17. \A i \in 1 .. n : at[i] \in 1 .. m /\ at[i] \in I
  BY <1>7, <1>11, <1>14
<1>18. Found(s, songs) = [i \in 1 .. n |-> Song(file[i])]
  <2>1. Found(s, songs) = [i \in 1 .. n |-> songs[at[i]]]
    BY <1>8, <1>13 DEF Found, Selected
  <2>2. \A i \in 1 .. n : songs[at[i]] = Song(file[i])
    BY <1>7, <1>16, <1>17
  <2> QED  BY <2>1, <2>2
<1>19. \A k \in 1 .. m : have[k] \in known /\ TypeOf(have[k]) = s.type
  BY <1>1, <1>4
<1>20. \A i \in 1 .. n : Accepts(s, Song(file[i]))
  BY <1>7, <1>8, <1>16, <1>17
<1>21. ASSUME NEW f \in known, TypeOf(f) = s.type, Accepts(s, Song(f))
       PROVE  \E i \in 1 .. n : file[i] = f
  <2>1. PICK k \in 1 .. m : have[k] = f
    BY <1>1, <1>4, <1>21
  <2>2. k \in I
    BY <1>7, <1>8, <1>21, <2>1
  <2>3. PICK i \in 1 .. n : at[i] = k
    BY <1>14, <2>2
  <2> QED  BY <1>16, <2>1, <2>3
<1>22. \A i, j \in 1 .. n : file[i] = file[j] => i = j
  BY <1>5, <1>15, <1>16, <1>17
<1>23. IsFound(n, file, s)
  BY <1>14, <1>16, <1>17, <1>19, <1>20, <1>21, <1>22 DEF IsFound
<1> QED  BY <1>6, <1>18, <1>23

\* Ids are told apart by what is put behind the prefix.
LEMMA AppendSame ==
  ASSUME NEW s, IsList(s), NEW a, NEW b, Append(s, a) = Append(s, b)
  PROVE  a = b
<1>1. PICK T : s \in Seq(T)
  BY DEF IsList
<1>2. PICK U : U = T \cup {a, b}
  OBVIOUS
<1>3. s \in Seq(U) /\ a \in U /\ b \in U
  BY <1>1, <1>2
<1>4. Append(s, a)[Len(s) + 1] = a /\ Append(s, b)[Len(s) + 1] = b
  BY <1>3
<1> QED  BY <1>4

IdsOf(n, prefix, text) == [i \in 1 .. n |-> Append(prefix, text[i])]
IdSet(n, prefix, text) == {Append(prefix, text[i]) : i \in 1 .. n}

LEMMA IdsDistinct ==
  ASSUME NEW n \in Nat, NEW prefix, IsList(prefix), NEW text,
         \A i, j \in 1 .. n : text[i] = text[j] => i = j
  PROVE  /\ Range(IdsOf(n, prefix, text)) = IdSet(n, prefix, text)
         /\ Len(IdsOf(n, prefix, text)) = Cardinality(IdSet(n, prefix, text))
<1>0. PICK ids, S : ids = IdsOf(n, prefix, text) /\ S = IdSet(n, prefix, text)
  OBVIOUS
<1>1. /\ DOMAIN ids = 1 .. n /\ \A i \in 1 .. n : ids[i] = Append(prefix, text[i])
      /\ S = {ids[i] : i \in 1 .. n}
  BY <1>0 DEF IdsOf, IdSet
<1>2. Range(ids) = S
  BY <1>1 DEF Range
<1>3. ids \in [1 .. n -> S]
  BY <1>0, <1>1 DEF IdsOf
<1>4. \A i, j \in 1 .. n : ids[i] = ids[j] => i = j
  BY <1>1, AppendSame
<1>5. \A t \in S : \E i \in 1 .. n : ids[i] = t
  BY <1>1
<1>6. ids \in Bijection(1 .. n, S)
  BY <1>3, <1>4, <1>5 DEF Bijection, Injection, Surjection, IsInjective
<1>7. ExistsBijection(1 .. n, S)
  BY <1>6 DEF ExistsBijection
<1>8. Cardinality(S) = n
  BY <1>7, FS_CountingElements
<1>9. Len(ids) = n
  BY <1>3
<1> QED  BY <1>0, <1>2, <1>8, <1>9

LEMMA ValueInColumn ==
  ASSUME NEW c, NEW k \in InTracker(c), NEW answered, NEW i \in DOMAIN answered,
         NEW cell, cell # {}, answered[i][c.entries[k].at + 1] = cell
  PROVE  ValueGet(c, answered, i, k) = cell
<1>1. KeyExists(c, k) /\ c.entries[k].kind = "tracker"
  BY DEF KeyExists, InTracker
<1>2. PlainValue(c, answered, i, k) = Converted(k, cell)
  BY <1>1 DEF PlainValue
<1>3. Converted(k, cell) = cell
  BY DEF Converted
<1> QED  BY <1>1, <1>2, <1>3 DEF ValueGet

\* The category of files and that of songs are the same.
LEMMA MembersFit ==
  ASSUME NEW p, NEW f,
         p.category = [key \in {"genre", "artist", "album"} |-> p.category[key]]
  PROVE  f \in Members(p) <=> f \in known /\ TypeOf(f) = p.type /\ CategoryFits(Song(f), p.category)
<1>1. PICK category : category = p.category
  OBVIOUS
<1>2. DOMAIN category = {"genre", "artist", "album"}
  BY <1>1
<1>3. \A key \in {"genre", "artist", "album"} : Song(f)[key] = Property(f, key)
  BY DEF Song, MetadataKeys, MusicKeys
<1>4. \A key \in {"genre", "artist", "album"} :
        CellFits(Song(f), key, category[key]) <=>
          \/ category[key] = Nothing
          \/ Property(f, key) = category[key]
          \/ Unknown(Property(f, key)) /\ Unknown(category[key])
  BY <1>3 DEF CellFits, Unknown, Nothing, Empty
<1>5. InCategory(f, category) <=> CategoryFits(Song(f), category)
  BY <1>2, <1>4 DEF InCategory, CategoryFits
<1> QED  BY <1>1, <1>5 DEF Members

\* What Tracker answers to a statement that does not group what it finds.
LEMMA AnswerOfList ==
  ASSUME NEW s, ~s.unique, NEW n, NEW file, Found(s, Tried(s)) = [i \in 1 .. n |-> Song(file[i])]
  PROVE  Answer(s) = [i \in 1 .. n |->
           [k \in DOMAIN s.fields |-> ValueOf(s, Song(file[i]), s.first + k - 1)]]
<1>1. PICK songs, found : songs = Tried(s) /\ found = Found(s, songs)
  OBVIOUS
<1>2. Answer(s) = Rows(s, songs)
  BY <1>1 DEF Answer, Tried
<1>3. Rows(s, songs) = [i \in DOMAIN found |->
        [k \in DOMAIN s.fields |-> ValueOf(s, found[i], s.first + k - 1)]]
  BY <1>1 DEF Rows, Found
<1>4. DOMAIN found = 1 .. n /\ \A i \in 1 .. n : found[i] = Song(file[i])
  BY <1>1
<1> QED  BY <1>2, <1>3, <1>4

LEMMA NotGrouped ==
  ASSUME NEW p, NEW c, NEW filter
  PROVE  /\ p.kind = "list" => ~Statement(p, c, filter).unique
         /\ p.kind \in {"unique", "container"} => Statement(p, c, filter).unique
  BY DEF Statement, Create

-----------------------------------------------------------------------------
(* Listings of files.                                                      *)

\* The statement of a listing is about a filter that is understood.
LEMMA FilterOfQuery ==
  ASSUME ClipsInv
  PROVE  query.filter \in Filters \cup {NoFilter}
<1>1. CASE query \in Queries
  BY <1>1, QueriesAssumption
<1>2. CASE query = NoQuery
  BY <1>2 DEF NoQuery
<1> QED  BY <1>1, <1>2 DEF ClipsInv

LEMMA KnownFiles ==
  ASSUME ClipsInv
  PROVE  known \in SUBSET File
  BY DEF ClipsInv, CInv, TypeOK

\* The files that a listing is about.
FilesAsked(p, filter) == {f \in Members(p) : Satisfied(filter, Song(f))}

\* A listing has an id for each of some files.
ListsFiles(ids, p, n, file, files) ==
  /\ n \in Nat /\ Matches(file, 1 .. n, files)
  /\ ids = IdsOf(n, p.prefix, [i \in 1 .. n |-> Pathname[file[i]]])

LEMMA FilesListed ==
  ASSUME known \in SUBSET File, NEW p, NEW c, Paired(p, c), ListingOK(p), p.kind = "list",
         "uri" \in InTracker(c), NEW filter \in Filters \cup {NoFilter}, Sound(filter),
         p.fresh => filter = NoFilter,
         NEW answered, answered = Answer(Statement(p, c, filter))
  PROVE  \E n, file : ListsFiles(Ids(p, c, answered), p, n, file, FilesAsked(p, filter))
<1>1. PICK fields : fields = Fields(p, c)
  OBVIOUS
<1>2. PICK s : s = Statement(p, c, filter)
  OBVIOUS
<1>3. answered = Answer(s)
  BY <1>2
<1>4. p.unique = Hole
  BY DEF Paired, PlanOK
<1>5. /\ fields \in Seq(InTracker(c))
      /\ \A k \in InTracker(c) : /\ c.entries[k].at + 1 \in 1 .. Len(fields)
                                 /\ fields[c.entries[k].at + 1] = k
  BY <1>1, <1>4, FieldsAreAll
<1>6. IsList(fields)
  BY <1>5 DEF IsList
<1>7. PICK none : none = << >>
  OBVIOUS
<1>8. IsList(none)
  <2>1. none \in Seq({})
    BY <1>7
  <2> QED  BY <2>1 DEF IsList
<1>10. /\ p.kind \in {"list", "unique", "container"} /\ OnceEach(p.category)
       /\ fields = IF p.kind = "list" THEN Fields(p, c) ELSE <<p.unique>>
       /\ none = IF p.kind = "list" THEN << >> ELSE Aggregates(p, c)
  BY <1>1, <1>7 DEF ListingOK, OnceEach
<1>11. Asks(s, p.type, fields, none, p.category, filter)
  BY <1>2, <1>6, <1>8, <1>10, StatementFacts
<1>12. /\ s.type = p.type /\ s.fields = fields
       /\ \A song : /\ Accepts(s, song) <=> /\ CategoryFits(song, p.category)
                                            /\ Satisfied(filter, song)
                    /\ \A k \in 1 .. Len(fields) :
                         ValueOf(s, song, s.first + k - 1) = song[fields[k]]
  BY <1>7, <1>11 DEF Asks, Aggregating
<1>14. PICK n, file : /\ IsFound(n, file, s)
                      /\ Found(s, Tried(s)) = [i \in 1 .. n |-> Song(file[i])]
  BY FoundFiles
<1>15. PICK at : at = c.entries["uri"].at
  OBVIOUS
<1>13. "uri" \in InTracker(c)
  OBVIOUS
<1>16. at + 1 \in 1 .. Len(fields) /\ fields[at + 1] = "uri"
  BY <1>5, <1>15
<1>17. answered = [i \in 1 .. n |->
         [k \in DOMAIN fields |-> ValueOf(s, Song(file[i]), s.first + k - 1)]]
  <2>1. ~s.unique
    BY <1>2, NotGrouped
  <2>2. Answer(s) = [i \in 1 .. n |->
          [k \in DOMAIN s.fields |-> ValueOf(s, Song(file[i]), s.first + k - 1)]]
    BY <1>14, <2>1, AnswerOfList
  <2> QED  BY <1>3, <1>12, <2>2
<1>18. /\ n \in Nat
       /\ \A i \in 1 .. n : file[i] \in known /\ file[i] \in File
       /\ \A i, j \in 1 .. n : file[i] = file[j] => i = j
  BY <1>14 DEF IsFound
<1>21. ASSUME NEW i \in 1 .. n
       PROVE  ValueGet(c, answered, i, "uri") = {Uri[file[i]]}
  <2>1. PICK song, cell : song = Song(file[i]) /\ cell = {Uri[file[i]]}
    OBVIOUS
  <2>2. song["uri"] = cell
    BY <2>1 DEF Song, Property, MetadataKeys, CommonKeys
  <2>3. ValueOf(s, song, s.first + (at + 1) - 1) = song["uri"]
    BY <1>12, <1>16
  <2>4. i \in DOMAIN answered /\ answered[i][at + 1] = cell
    BY <1>5, <1>16, <1>17, <2>1, <2>2, <2>3
  <2>5. cell # {}
    BY <2>1
  <2>6. ValueGet(c, answered, i, "uri") = cell
    BY ONLY <1>13, <1>15, <2>4, <2>5, ValueInColumn
  <2> QED  BY <2>1, <2>6
<1>22. PICK ids, prefix, text : /\ ids = Ids(p, c, answered) /\ prefix = p.prefix
                                /\ text = [i \in 1 .. n |-> Pathname[file[i]]]
  OBVIOUS
<1>23. ids = IdsOf(n, prefix, text)
  <2>1. DOMAIN answered = 1 .. n
    BY <1>17
  <2> DEFINE value(i) == CHOOSE v \in ValueGet(c, answered, i, "uri") : TRUE
             of(v) == CHOOSE f \in File : Uri[f] = v
  <2>2. ids = [i \in 1 .. n |-> Append(prefix, Pathname[of(value(i))])]
    BY <1>22, <2>1 DEF Ids
  <2>3. ASSUME NEW i \in 1 .. n
        PROVE  Pathname[of(value(i))] = text[i]
    <3>1. value(i) = Uri[file[i]]
      BY <1>21
    <3>2. \A v : v = Uri[file[i]] => of(v) = file[i]
      BY <1>18, UriAssumption
    <3> HIDE DEF value, of
    <3> QED  BY <1>22, <3>1, <3>2
  <2> HIDE DEF value, of
  <2> QED  BY <2>2, <2>3 DEF IdsOf
<1>24. PICK files : files = FilesAsked(p, filter)
  OBVIOUS
<1>25. Matches(file, 1 .. n, files)
  <2>1. p.category = [key \in {"genre", "artist", "album"} |-> p.category[key]]
    BY DEF ListingOK
  <2>2. \A f : f \in files <=> f \in known /\ TypeOf(f) = s.type /\ Accepts(s, Song(f))
    BY <1>12, <1>24, <2>1, MembersFit DEF FilesAsked
  <2>3. \A f : f \in files <=> \E i \in 1 .. n : file[i] = f
    BY <1>14, <2>2 DEF IsFound
  <2>4. files = {file[i] : i \in 1 .. n}
    BY <2>3
  <2> QED  BY <1>18, <2>4 DEF Matches
<1>26. ListsFiles(ids, p, n, file, files)
  BY <1>18, <1>22, <1>23, <1>25 DEF ListsFiles
<1> QED  BY <1>22, <1>24, <1>26

LEMMA ListedFiles ==
  ASSUME PairingInv, ListingInv, ClipsInv, stage = "answered", plan.kind = "list",
         Sound(query.filter), plan.fresh => query.filter = NoFilter
  PROVE  ListsAsked
<1>1. PICK p, c, answered, filter :
        p = plan /\ c = cache /\ answered = rows /\ filter = query.filter
  OBVIOUS
<1>2. /\ Paired(p, c) /\ ListingOK(p) /\ "uri" \in InTracker(c)
      /\ answered = Answer(Statement(p, c, filter))
  BY <1>1 DEF PairingInv, ListingInv, ListingKey
<1>3. filter \in Filters \cup {NoFilter} /\ known \in SUBSET File
  BY <1>1, FilterOfQuery, KnownFiles
<1>4. PICK n, file : ListsFiles(Ids(p, c, answered), p, n, file, FilesAsked(p, filter))
  BY <1>1, <1>2, <1>3, FilesListed
<1>5. PICK ids, files : ids = Ids(p, c, answered) /\ files = FilesAsked(p, filter)
  OBVIOUS
<1>6. PICK prefix, text : prefix = p.prefix /\ text = [i \in 1 .. n |-> Pathname[file[i]]]
  OBVIOUS
<1>7. /\ n \in Nat /\ ids = IdsOf(n, prefix, text)
      /\ files = {file[i] : i \in 1 .. n}
      /\ \A i, j \in 1 .. n : file[i] = file[j] => i = j
  BY <1>4, <1>5, <1>6 DEF ListsFiles, Matches
<1>8. \A i, j \in 1 .. n : text[i] = text[j] => i = j
  <2>1. \A i \in 1 .. n : file[i] \in File
    BY <1>3, <1>5, <1>7 DEF FilesAsked, Members
  <2> QED  BY <1>6, <1>7, <2>1, UriAssumption
<1>9. PICK S : S = IdSet(n, prefix, text)
  OBVIOUS
<1>10. IsList(prefix)
  BY <1>2, <1>6 DEF ListingOK
<1>11. Range(ids) = S /\ Len(ids) = Cardinality(S)
  BY <1>7, <1>8, <1>9, <1>10, IdsDistinct
<1>12. S = Asked
  <2>1. {text[i] : i \in 1 .. n} = {Pathname[f] : f \in files}
    BY <1>6, <1>7
  <2>2. Asked = {Append(prefix, t) : t \in {Pathname[f] : f \in files}}
    BY <1>1, <1>5, <1>6 DEF Asked, FilesAsked
  <2>3. S = {Append(prefix, t) : t \in {text[i] : i \in 1 .. n}}
    BY <1>9 DEF IdSet
  <2> QED  BY <2>1, <2>2, <2>3
<1> QED  BY <1>1, <1>5, <1>11, <1>12 DEF ListsAsked

-----------------------------------------------------------------------------
(* Listings of values.                                                     *)

LEMMA FirstOfRow ==
  ASSUME NEW x, NEW l \in Nat, NEW r, r = [a \in 1 .. l |-> r[a]]
  PROVE  /\ (<<x>> \o r)[1] = x
         /\ \A a \in 1 .. l : (<<x>> \o r)[a + 1] = r[a]
<1>1. PICK T : T = {x} \cup {r[a] : a \in 1 .. l}
  OBVIOUS
<1>2. r \in [1 .. l -> T]
  BY <1>1
<1>3. r \in Seq(T) /\ <<x>> \in Seq(T) /\ Len(<<x>>) = 1
  BY <1>1, <1>2
<1>4. Behind(<<x>> \o r, <<x>>, r)
  BY <1>3, BehindFacts
<1>5. Len(r) = l
  BY <1>2
<1> QED  BY <1>3, <1>4, <1>5 DEF Behind

\* The first of each group, in a list of what things are grouped by.
IsLeaders(m, leaders, n, group) ==
  /\ m \in Nat /\ DOMAIN leaders = 1 .. m
  /\ \A k \in 1 .. m : leaders[k] \in 1 .. n
  /\ \A j, k \in 1 .. m : group[leaders[j]] = group[leaders[k]] => j = k
  /\ \A i \in 1 .. n : \E k \in 1 .. m : group[leaders[k]] = group[i]

Leading(n, group) == {i \in 1 .. n : \A j \in 1 .. i - 1 : group[j] # group[i]}

LEMMA LeadersFacts ==
  ASSUME NEW n \in Nat, NEW group
  PROVE  IsLeaders(Cardinality(Leading(n, group)), Sorted(Leading(n, group)), n, group)
<1>0. PICK L : L = Leading(n, group)
  OBVIOUS
<1>1. L \in SUBSET Nat /\ IsFiniteSet(L) /\ L \in SUBSET (1 .. n)
  <2>1. L \in SUBSET (1 .. n)
    BY <1>0 DEF Leading
  <2>2. IsFiniteSet(1 .. n)
    BY FS_Interval
  <2>3. IsFiniteSet(L)
    BY <2>1, <2>2, FS_Subset
  <2> QED  BY <2>1, <2>3
<1>2. PICK m, leaders : m = Cardinality(L) /\ leaders = Sorted(L)
  OBVIOUS
<1>3. /\ m \in Nat /\ leaders \in [1 .. m -> L]
      /\ \A i \in L : \E k \in 1 .. m : leaders[k] = i
      /\ \A j, k \in 1 .. m : j < k => leaders[j] < leaders[k]
  BY <1>1, <1>2, SortedFacts
<1>4. \A k \in 1 .. m : leaders[k] \in 1 .. n /\ leaders[k] \in L
  BY <1>1, <1>3
<1>5. ASSUME NEW j \in 1 .. m, NEW k \in 1 .. m, j < k
      PROVE  group[leaders[j]] # group[leaders[k]]
  <2>1. leaders[j] \in 1 .. leaders[k] - 1
    BY <1>3, <1>4, <1>5
  <2> QED  BY <1>0, <1>4, <2>1 DEF Leading
<1>6. \A j, k \in 1 .. m : group[leaders[j]] = group[leaders[k]] => j = k
  <2> SUFFICES ASSUME NEW j \in 1 .. m, NEW k \in 1 .. m, j # k
               PROVE  group[leaders[j]] # group[leaders[k]]
    OBVIOUS
  <2>1. j < k \/ k < j
    BY <1>3
  <2> QED  BY <1>5, <2>1
<1>7. ASSUME NEW i \in 1 .. n
      PROVE  \E k \in 1 .. m : group[leaders[k]] = group[i]
  <2>1. PICK T : T = {j \in 1 .. n : group[j] = group[i]}
    OBVIOUS
  <2>2. T \subseteq Nat /\ T # {}
    BY <2>1
  <2>3. PICK x \in T : \A y \in T : x <= y
    BY <2>2, LeastNumber
  <2>4. x \in L
    <3> SUFFICES ASSUME NEW j \in 1 .. x - 1 PROVE group[j] # group[x]
      BY <1>0, <2>1 DEF Leading
    <3>1. j \in 1 .. n /\ ~(x <= j)
      BY <2>1
    <3> QED  BY <2>1, <2>3, <3>1
  <2>5. PICK k \in 1 .. m : leaders[k] = x
    BY <1>3, <2>4
  <2> QED  BY <2>1, <2>5
<1> QED  BY <1>0, <1>2, <1>3, <1>4, <1>6, <1>7 DEF IsLeaders

\* The value of the first field for each of some files.
FirstFields(s, n, file, group) ==
  \A i \in 1 .. n : ValueOf(s, Song(file[i]), s.first + 1 - 1) = group[i]

\* A row for each group.
HasRowsOf(answered, m, leaders, n, group) ==
  /\ IsLeaders(m, leaders, n, group)
  /\ DOMAIN answered = 1 .. m
  /\ \A k \in 1 .. m : answered[k][1] = group[leaders[k]]

\* With the aggregates of the group.
HasAggregatesOf(answered, aggregates, file, m, leaders, n, group) ==
  \A k \in 1 .. m : \A a \in DOMAIN aggregates :
    answered[k][a + 1] =
      Aggregated(aggregates[a],
                 Selected([i \in 1 .. n |-> Song(file[i])],
                          {j \in 1 .. n : group[j] = group[leaders[k]]}))

\* What Tracker answers to a statement that groups what it finds by its first
\* field.
LEMMA AnswerOfGroups ==
  ASSUME NEW s, s.unique, NEW l \in Nat, DOMAIN s.aggregates = 1 .. l,
         NEW n \in Nat, NEW file, Found(s, Tried(s)) = [i \in 1 .. n |-> Song(file[i])],
         NEW group, FirstFields(s, n, file, group)
  PROVE  \E m, leaders :
           /\ HasRowsOf(Answer(s), m, leaders, n, group)
           /\ HasAggregatesOf(Answer(s), s.aggregates, file, m, leaders, n, group)
<1>1. PICK songs, found : songs = Tried(s) /\ found = Found(s, songs)
  OBVIOUS
<1>2. DOMAIN found = 1 .. n /\ \A i \in 1 .. n : found[i] = Song(file[i])
  BY <1>1
<1> DEFINE first(i) == ValueOf(s, found[i], s.first + 1 - 1)
           firsts == {i \in DOMAIN found : \A j \in 1 .. i - 1 : first(j) # first(i)}
           leaders == Sorted(firsts)
           members(i) == Selected(found, {j \in DOMAIN found : first(j) = first(i)})
           rest(k) == [a \in DOMAIN s.aggregates |->
                         Aggregated(s.aggregates[a], members(leaders[k]))]
<1>3. Rows(s, songs) = [k \in DOMAIN leaders |-> <<first(leaders[k])>> \o rest(k)]
  BY <1>1 DEF Rows, Found
<1>4. \A k : /\ rest(k) = [a \in 1 .. l |-> rest(k)[a]]
             /\ \A a \in 1 .. l :
                  rest(k)[a] = Aggregated(s.aggregates[a], members(leaders[k]))
  OBVIOUS
<1> HIDE DEF rest
<1>5. \A i \in 1 .. n : first(i) = group[i]
  BY <1>2 DEF FirstFields
<1>15. ASSUME NEW i \in 1 .. n
       PROVE  members(i) = Selected([j \in 1 .. n |-> Song(file[j])],
                                    {j \in 1 .. n : group[j] = group[i]})
  <2>1. {j \in DOMAIN found : first(j) = first(i)} = {j \in 1 .. n : group[j] = group[i]}
    <3> HIDE DEF first
    <3> QED  BY <1>2, <1>5, <1>15
  <2>2. found = [j \in 1 .. n |-> Song(file[j])]
    BY <1>1
  <2> QED  BY <2>1, <2>2
<1> HIDE DEF members
<1> HIDE DEF first
<1>6. firsts = Leading(n, group)
  <2>1. \A i \in 1 .. n : \A j \in 1 .. i - 1 : j \in 1 .. n
    OBVIOUS
  <2> QED  BY <1>2, <1>5, <2>1 DEF Leading
<1>7. PICK L, m : L = firsts /\ m = Cardinality(L)
  OBVIOUS
<1>8. IsLeaders(m, Sorted(L), n, group)
  BY <1>6, <1>7, LeadersFacts
<1>9. leaders = Sorted(L)
  BY <1>7
<1> HIDE DEF leaders
<1>10. IsLeaders(m, leaders, n, group)
  BY <1>8, <1>9
<1>11. Answer(s) = Rows(s, songs)
  BY <1>1 DEF Answer, Tried
<1>12. DOMAIN Answer(s) = 1 .. m
  BY <1>3, <1>10, <1>11 DEF IsLeaders
<1>13. ASSUME NEW k \in 1 .. m
       PROVE  Answer(s)[k][1] = group[leaders[k]]
  <2>1. PICK x, r : x = first(leaders[k]) /\ r = rest(k)
    OBVIOUS
  <2>2. Answer(s)[k] = <<x>> \o r
    BY <1>3, <1>11, <1>12, <2>1
  <2>3. r = [a \in 1 .. l |-> r[a]]
    BY <1>4, <2>1
  <2>4. (<<x>> \o r)[1] = x
    BY <2>3, FirstOfRow
  <2>5. x = group[leaders[k]]
    BY <1>5, <1>10, <2>1 DEF IsLeaders
  <2> QED  BY <2>2, <2>4, <2>5
<1>14. HasRowsOf(Answer(s), m, leaders, n, group)
  BY <1>10, <1>12, <1>13 DEF HasRowsOf
<1>16. ASSUME NEW k \in 1 .. m, NEW a \in 1 .. l
       PROVE  Answer(s)[k][a + 1] =
                Aggregated(s.aggregates[a],
                           Selected([i \in 1 .. n |-> Song(file[i])],
                                    {j \in 1 .. n : group[j] = group[leaders[k]]}))
  <2>1. PICK x, r, i : x = first(leaders[k]) /\ r = rest(k) /\ i = leaders[k]
    OBVIOUS
  <2>2. Answer(s)[k] = <<x>> \o r
    BY <1>3, <1>11, <1>12, <2>1
  <2>3. r = [b \in 1 .. l |-> r[b]] /\ r[a] = Aggregated(s.aggregates[a], members(i))
    BY <1>4, <2>1
  <2>4. (<<x>> \o r)[a + 1] = r[a]
    BY <2>3, FirstOfRow
  <2>5. i \in 1 .. n
    BY <1>10, <2>1 DEF IsLeaders
  <2> QED  BY <1>15, <2>1, <2>2, <2>3, <2>4, <2>5
<1>17. HasAggregatesOf(Answer(s), s.aggregates, file, m, leaders, n, group)
  BY <1>16 DEF HasAggregatesOf
<1> QED  BY <1>14, <1>17

Added4 == {"genre", "artist", "album", "duration"}

\* What is made of the files of a group for a key.
AggregateFor(p, key) ==
  CASE key = "duration" -> Aggregate("sum", "duration")
    [] key \in ChildcountKeys -> Aggregate("count", p.counts[Level(key)])
    [] OTHER -> Aggregate("concat", key)

\* What a statement adds up are files, or properties that no file lacks in a
\* library that is complete.
LEMMA AggregatesOfGroups ==
  ASSUME NEW p, NEW c, CacheFits(p, c), p.kind \in {"unique", "container"},
         p.counts \in Seq({"genre", "artist", "album", "*"}),
         p.unique \in InTracker(c) => p.unique \in Added4
  PROVE  LET asked == KeysFrom(c, 2)
             aggregates == Aggregates(p, c)
         IN  /\ DOMAIN aggregates = 1 .. Len(asked) /\ Len(asked) \in Nat
             /\ IsList(aggregates)
             /\ \A i \in 1 .. Len(asked) :
                  /\ aggregates[i] = AggregateFor(p, asked[i])
                  /\ asked[i] \in InTracker(c)
             /\ \A i \in Aggregating(aggregates) : aggregates[i].key \in Added4
<1>2. p.unique # Hole
  BY DEF CacheFits, Paired, PlanOK
<1>3. PICK asked : asked = KeysFrom(c, 2)
  OBVIOUS
<1>4. asked \in Seq(InTracker(c))
  <2> DEFINE first == FirstUsed(p.unique)
  <2>1. KeysFrom(c, first + 1) \in Seq(InTracker(c))
    BY KeysFromAll DEF CacheFits, Paired
  <2>2. first + 1 = 2
    BY <1>2 DEF FirstUsed
  <2> HIDE DEF first
  <2> QED  BY <1>3, <2>1, <2>2
<1>5. \A key \in InTracker(c) \cap ChildcountKeys : Level(key) <= Len(p.counts)
  BY RoomForAggregates
<1>6. PICK more \in {{}} \cup {{key} : key \in p.concat} : Bounded(c, p.unique, p.max, more)
  BY <1>2 DEF CacheFits, BoundedInTheEnd
<1>7. p.concat \subseteq {"artist", "album"}
  BY DEF CacheFits, Paired, PlanOK
<1>8. \A key \in InTracker(c) : key \in Added4 \cup ChildcountKeys
  BY <1>6, <1>7 DEF Bounded, Added4
<1>9. PICK l : l = Len(asked)
  OBVIOUS
<1>10. l \in Nat /\ DOMAIN asked = 1 .. l /\ \A i \in 1 .. l : asked[i] \in InTracker(c)
  BY <1>4, <1>9
<1>11. PICK aggregates : aggregates = Aggregates(p, c)
  OBVIOUS
<1>12. aggregates = [i \in 1 .. l |-> AggregateFor(p, asked[i])]
  BY <1>3, <1>10, <1>11 DEF Aggregates, AggregateFor
<1>13. ASSUME NEW i \in 1 .. l, aggregates[i] # Aggregate("count", "*")
       PROVE  aggregates[i].key \in Added4
  <2>1. PICK key : key = asked[i]
    OBVIOUS
  <2>2. key \in InTracker(c) /\ key \in Added4 \cup ChildcountKeys
    BY <1>8, <1>10, <2>1
  <2>3. CASE key = "duration"
    <3>1. key \notin ChildcountKeys
      BY <2>3, ChildcountNames
    <3>2. aggregates[i] = Aggregate("sum", "duration")
      BY <1>12, <2>1, <2>3, <3>1 DEF AggregateFor
    <3> QED  BY <3>2 DEF Aggregate, Added4
  <2>4. CASE key \in ChildcountKeys
    <3>1. key # "duration"
      BY <2>4, ChildcountNames
    <3>2. PICK n, text : n = Level(key) /\ text = p.counts[n]
      OBVIOUS
    <3>3. n \in 1 .. Len(p.counts)
      BY <1>5, <2>2, <2>4, <3>2, ChildcountNames
    <3>4. text \in {"genre", "artist", "album", "*"}
      BY <3>2, <3>3
    <3>5. aggregates[i] = Aggregate("count", text)
      BY <1>12, <2>1, <2>4, <3>1, <3>2 DEF AggregateFor
    <3>6. text # "*"
      BY <1>13, <3>5
    <3> QED  BY <3>4, <3>5, <3>6 DEF Aggregate, Added4
  <2>5. CASE key # "duration" /\ key \notin ChildcountKeys
    <3>1. aggregates[i] = Aggregate("concat", key)
      BY <1>12, <2>1, <2>5 DEF AggregateFor
    <3> QED  BY <2>2, <2>5, <3>1 DEF Aggregate
  <2> QED  BY <2>3, <2>4, <2>5
<1>14. DOMAIN aggregates = 1 .. l
  BY <1>12
<1>15. IsList(aggregates)
  <2>1. PICK T : T = {aggregates[i] : i \in 1 .. l}
    OBVIOUS
  <2>2. aggregates \in [1 .. l -> T]
    BY <1>12, <1>14, <2>1
  <2>3. aggregates \in Seq(T)
    BY <1>10, <2>2
  <2> QED  BY <2>3 DEF IsList
<1>16. \A i \in 1 .. l : aggregates[i] = AggregateFor(p, asked[i])
  BY <1>12
<1>17. \A i \in Aggregating(aggregates) : aggregates[i].key \in Added4
  BY <1>13, <1>14 DEF Aggregating
<1> QED  BY <1>3, <1>9, <1>10, <1>11, <1>14, <1>15, <1>16, <1>17

\* The files of a library that is complete have one value of each of these.
LEMMA NothingLacking ==
  ASSUME library \in Complete, library \in DOMAIN Libraries, NEW f \in File, NEW key \in Added4
  PROVE  /\ Song(f)[key] = Property(f, key) /\ Property(f, key) # {}
         /\ \A v, w \in Property(f, key) : v = w
<1>1. key \in MetadataKeys /\ key # "uri"
  BY DEF Added4, MetadataKeys, MusicKeys
<1>2. /\ Song(f)[key] = Libraries[library].has[f][key]
      /\ Property(f, key) = Libraries[library].has[f][key]
  BY <1>1 DEF Song, Property
<1>3. Libraries[library].has[f][key] # {}
  BY LibrariesAssumption DEF Added4
<1>4. \A v, w \in Libraries[library].has[f][key] : v = w
  BY <1>1, LibrariesAssumption
<1> QED  BY <1>2, <1>3, <1>4

\* A cell with one value is told by it.
LEMMA OneText ==
  ASSUME NEW a, NEW b, a # {}, b # {}, \A v, w \in a : v = w, \A v, w \in b : v = w,
         TextIn(a) = TextIn(b)
  PROVE  a = b
<1>1. TextIn(a) \in a /\ TextIn(b) \in b
  BY DEF TextIn
<1>2. a = {TextIn(a)} /\ b = {TextIn(b)}
  BY <1>1
<1> QED  BY <1>2

\* A listing has an id for each group of some files.
ListsGroups(ids, p, n, file, m, leaders, group, files) ==
  /\ n \in Nat /\ Matches(file, 1 .. n, files)
  /\ group = [i \in 1 .. n |-> Property(file[i], p.unique)]
  /\ IsLeaders(m, leaders, n, group)
  /\ ids = IdsOf(m, p.prefix, [k \in 1 .. m |-> TextIn(group[leaders[k]])])

LEMMA ValuesListed ==
  ASSUME known \in SUBSET File, library \in Complete, library \in DOMAIN Libraries,
         NEW p, NEW c, CacheFits(p, c), ListingOK(p), p.kind = "unique",
         p.unique \in InTracker(c), NEW filter \in Filters \cup {NoFilter}, Sound(filter),
         p.fresh => filter = NoFilter,
         NEW answered, answered = Answer(Statement(p, c, filter))
  PROVE  \E n, file, m, leaders, group :
           ListsGroups(Ids(p, c, answered), p, n, file, m, leaders, group, FilesAsked(p, filter))
<1>1. PICK key, fields, aggregates :
        key = p.unique /\ fields = <<p.unique>> /\ aggregates = Aggregates(p, c)
  OBVIOUS
<1>2. PICK s : s = Statement(p, c, filter)
  OBVIOUS
<1>3. /\ key \in InTracker(c) /\ answered = Answer(s)
      /\ key \in {"genre", "artist", "album"} /\ key # Hole
  BY <1>1, <1>2 DEF ListingOK, Hole
<1>4. c.entries[key].at = 0
  <2>1. \E more : Bounded(c, key, p.max, more)
    BY <1>1, <1>3 DEF CacheFits, BoundedInTheEnd
  <2> QED  BY <1>3, <2>1 DEF Bounded
<1>5. IsList(fields) /\ Len(fields) = 1 /\ fields[1] = key
  <2>1. fields \in Seq({key})
    BY <1>1
  <2> QED  BY <1>1, <2>1 DEF IsList
<1>6. /\ \E l \in Nat : DOMAIN aggregates = 1 .. l
      /\ IsList(aggregates)
      /\ \A i \in Aggregating(aggregates) : aggregates[i].key \in Added4
  <2>1. p.unique \in Added4 /\ p.counts \in Seq({"genre", "artist", "album", "*"})
    BY DEF ListingOK, Added4
  <2> QED  BY <1>1, <2>1, AggregatesOfGroups
<1>8. /\ p.kind \in {"list", "unique", "container"} /\ OnceEach(p.category)
      /\ fields = IF p.kind = "list" THEN Fields(p, c) ELSE <<p.unique>>
      /\ aggregates = IF p.kind = "list" THEN << >> ELSE Aggregates(p, c)
  BY <1>1 DEF ListingOK, OnceEach
<1>9. Asks(s, p.type, fields, aggregates, p.category, filter)
  BY <1>2, <1>5, <1>6, <1>8, StatementFacts
<1>11. \A f \in known : \A k \in Added4 :
         /\ Song(f)[k] = Property(f, k) /\ Property(f, k) # {}
         /\ \A v, w \in Property(f, k) : v = w
  BY NothingLacking
<1>12. s.type = p.type /\ s.aggregates = aggregates
  BY <1>9 DEF Asks
<1>13. \A f \in known : Accepts(s, Song(f)) <=> CategoryFits(Song(f), p.category)
                                                 /\ Satisfied(filter, Song(f))
  <2> SUFFICES ASSUME NEW f \in known
               PROVE  Accepts(s, Song(f)) <=> CategoryFits(Song(f), p.category)
                                                /\ Satisfied(filter, Song(f))
    OBVIOUS
  <2>1. PICK song : song = Song(f)
    OBVIOUS
  <2>2. \A i \in Aggregating(aggregates) : song[aggregates[i].key] # {}
    BY <1>6, <1>11, <2>1
  <2> QED  BY <1>9, <2>1, <2>2 DEF Asks
<1>14. \A song : ValueOf(s, song, s.first + 1 - 1) = song[key]
  <2>1. 1 \in 1 .. Len(fields)
    BY <1>5
  <2> QED  BY <1>5, <1>9, <2>1 DEF Asks
<1>15. PICK n, file : /\ IsFound(n, file, s)
                      /\ Found(s, Tried(s)) = [i \in 1 .. n |-> Song(file[i])]
  BY FoundFiles
<1>16. n \in Nat /\ \A i \in 1 .. n : file[i] \in known
  BY <1>15 DEF IsFound
<1>17. PICK group : group = [i \in 1 .. n |-> Property(file[i], key)]
  OBVIOUS
<1>18. key \in Added4
  BY <1>3 DEF Added4
<1>19. \A i \in 1 .. n : ValueOf(s, Song(file[i]), s.first + 1 - 1) = group[i] /\ group[i] # {}
  BY <1>11, <1>14, <1>16, <1>17, <1>18
<1>20. s.unique
  BY <1>2, NotGrouped
<1>22. PICK m, leaders : /\ IsLeaders(m, leaders, n, group)
                         /\ DOMAIN answered = 1 .. m
                         /\ \A k \in 1 .. m : answered[k][1] = group[leaders[k]]
  <2>1. PICK l \in Nat : DOMAIN s.aggregates = 1 .. l
    BY <1>6, <1>12
  <2>2. FirstFields(s, n, file, group)
    BY <1>19 DEF FirstFields
  <2>3. \E m, leaders : HasRowsOf(Answer(s), m, leaders, n, group)
    BY <1>15, <1>16, <1>20, <2>1, <2>2, AnswerOfGroups
  <2> QED  BY <1>3, <2>3 DEF HasRowsOf
<1>23. \A k \in 1 .. m : leaders[k] \in 1 .. n
  BY <1>22 DEF IsLeaders
<1>24. PICK ids, prefix, text : /\ ids = Ids(p, c, answered) /\ prefix = p.prefix
                                /\ text = [k \in 1 .. m |-> TextIn(group[leaders[k]])]
  OBVIOUS
<1>25. ASSUME NEW k \in 1 .. m
       PROVE  ValueGet(c, answered, k, key) = group[leaders[k]]
  <2>1. PICK cell : cell = group[leaders[k]]
    OBVIOUS
  <2>2. cell # {} /\ k \in DOMAIN answered /\ answered[k][0 + 1] = cell
    BY <1>19, <1>22, <1>23, <2>1
  <2>3. ValueGet(c, answered, k, key) = cell
    BY ONLY <1>3, <1>4, <2>2, ValueInColumn
  <2> QED  BY <2>1, <2>3
<1>26. ids = IdsOf(m, prefix, text)
  <2> DEFINE value(k) == CHOOSE v \in ValueGet(c, answered, k, key) : TRUE
  <2>1. ids = [k \in 1 .. m |-> Append(prefix, value(k))]
    BY <1>1, <1>22, <1>24 DEF Ids
  <2>2. \A k \in 1 .. m : value(k) = text[k]
    BY <1>24, <1>25 DEF TextIn
  <2> HIDE DEF value
  <2> QED  BY <2>1, <2>2 DEF IdsOf
<1>27. PICK files : files = FilesAsked(p, filter)
  OBVIOUS
<1>28. Matches(file, 1 .. n, files)
  <2>1. p.category = [k \in {"genre", "artist", "album"} |-> p.category[k]]
    BY DEF ListingOK
  <2>2. \A f : f \in Members(p) <=>
                 f \in known /\ TypeOf(f) = p.type /\ CategoryFits(Song(f), p.category)
    BY <2>1, MembersFit
  <2>3. \A f : f \in files <=> f \in known /\ TypeOf(f) = s.type /\ Accepts(s, Song(f))
    BY <1>12, <1>13, <1>27, <2>2 DEF FilesAsked
  <2>4. files = {file[i] : i \in 1 .. n}
    BY <1>15, <2>3 DEF IsFound
  <2> QED  BY <1>15, <2>4 DEF IsFound, Matches
<1>29. ListsGroups(ids, p, n, file, m, leaders, group, files)
  BY <1>1, <1>16, <1>17, <1>22, <1>24, <1>26, <1>28 DEF ListsGroups
<1> QED  BY <1>24, <1>27, <1>29

LEMMA ListedValues ==
  ASSUME PairingInv, BoundInv, ListingInv, ClipsInv, TypeInv,
         stage = "answered", plan.kind = "unique", library \in Complete,
         Sound(query.filter), plan.fresh => query.filter = NoFilter
  PROVE  ListsAsked
<1>1. PICK p, c, answered, filter :
        p = plan /\ c = cache /\ answered = rows /\ filter = query.filter
  OBVIOUS
<1>2. /\ CacheFits(p, c) /\ ListingOK(p) /\ p.unique \in InTracker(c)
      /\ answered = Answer(Statement(p, c, filter))
  BY <1>1, CacheIsFit DEF ListingInv, ListingKey
<1>3. /\ filter \in Filters \cup {NoFilter} /\ known \in SUBSET File
      /\ library \in DOMAIN Libraries
  BY <1>1, FilterOfQuery, KnownFiles DEF TypeInv
<1>4. PICK n, file, m, leaders, group :
        ListsGroups(Ids(p, c, answered), p, n, file, m, leaders, group, FilesAsked(p, filter))
  BY <1>1, <1>2, <1>3, ValuesListed
<1>5. PICK ids, files, key : /\ ids = Ids(p, c, answered) /\ files = FilesAsked(p, filter)
                             /\ key = p.unique
  OBVIOUS
<1>6. PICK prefix, text : /\ prefix = p.prefix
                          /\ text = [k \in 1 .. m |-> TextIn(group[leaders[k]])]
  OBVIOUS
<1>7. /\ n \in Nat /\ ids = IdsOf(m, prefix, text)
      /\ files = {file[i] : i \in 1 .. n}
      /\ group = [i \in 1 .. n |-> Property(file[i], key)]
      /\ m \in Nat /\ \A k \in 1 .. m : leaders[k] \in 1 .. n
      /\ \A j, k \in 1 .. m : group[leaders[j]] = group[leaders[k]] => j = k
      /\ \A i \in 1 .. n : \E k \in 1 .. m : group[leaders[k]] = group[i]
  BY <1>4, <1>5, <1>6 DEF ListsGroups, Matches, IsLeaders
<1>8. \A i \in 1 .. n : group[i] # {} /\ \A v, w \in group[i] : v = w
  <2>1. \A i \in 1 .. n : file[i] \in File
    BY <1>3, <1>5, <1>7 DEF FilesAsked, Members
  <2>2. key \in Added4
    BY <1>1, <1>2, <1>5 DEF ListingOK, Added4
  <2> QED  BY <1>3, <1>7, <2>1, <2>2, NothingLacking
<1>9. \A j, k \in 1 .. m : text[j] = text[k] => j = k
  <2> SUFFICES ASSUME NEW j \in 1 .. m, NEW k \in 1 .. m, text[j] = text[k]
               PROVE  group[leaders[j]] = group[leaders[k]]
    BY <1>7
  <2>0. PICK x, y : x = leaders[j] /\ y = leaders[k]
    OBVIOUS
  <2>1. PICK a, b : a = group[x] /\ b = group[y]
    OBVIOUS
  <2>2. TextIn(a) = TextIn(b)
    BY <1>6, <2>0, <2>1
  <2>3. a # {} /\ b # {} /\ (\A v, w \in a : v = w) /\ \A v, w \in b : v = w
    <3>1. x \in 1 .. n /\ y \in 1 .. n
      BY <1>7, <2>0
    <3> QED  BY ONLY <1>8, <2>1, <3>1
  <2> QED  BY <2>0, <2>1, <2>2, <2>3, OneText
<1>10. IsList(prefix)
  BY <1>2, <1>6 DEF ListingOK
<1>11. PICK S : S = IdSet(m, prefix, text)
  OBVIOUS
<1>12. Range(ids) = S /\ Len(ids) = Cardinality(S)
  BY <1>7, <1>9, <1>10, <1>11, IdsDistinct
<1>13. {text[k] : k \in 1 .. m} = {TextIn(Converted(key, Property(f, key))) : f \in files}
  <2>1. ASSUME NEW i \in 1 .. n
        PROVE  TextIn(Converted(key, Property(file[i], key))) = TextIn(group[i])
    BY <1>7, <1>8 DEF Converted
  <2>2. \A k \in 1 .. m : \E f \in files :
          text[k] = TextIn(Converted(key, Property(f, key)))
    BY <1>6, <1>7, <2>1
  <2>3. \A f \in files : \E k \in 1 .. m :
          text[k] = TextIn(Converted(key, Property(f, key)))
    BY <1>6, <1>7, <2>1
  <2> QED  BY <2>2, <2>3
<1>14. S = Asked
  <2>1. Asked = {Append(prefix, t) : t \in
                   {TextIn(Converted(key, Property(f, key))) : f \in files}}
    BY <1>1, <1>5, <1>6 DEF Asked, FilesAsked
  <2>2. S = {Append(prefix, t) : t \in {text[k] : k \in 1 .. m}}
    BY <1>11 DEF IdSet
  <2> QED  BY <1>13, <2>1, <2>2
<1> QED  BY <1>1, <1>5, <1>12, <1>14 DEF ListsAsked

\* A listing has a row for each object that holds a file which was asked for,
\* and no other (Catalog!RowsAreThoseAsked).
THEOREM RowsAreAsked == CatalogSpec => []RowsAreThoseAsked
<1>1. CatalogInit => PairingInv /\ BoundInv /\ ListingInv /\ ClipsInv /\ TypeInv
  BY InitPairs, InitBounds, InitLists, InitClips, InitTypes
<1>2. PairingInv /\ BoundInv /\ ListingInv /\ ClipsInv /\ TypeInv /\ [CatalogNext]_allVars
        => (PairingInv /\ BoundInv /\ ListingInv /\ ClipsInv /\ TypeInv)'
  BY StepPairs, StepBounds, StepLists, StepClips, StepTypes
<1>3. PairingInv /\ BoundInv /\ ListingInv /\ ClipsInv /\ TypeInv => RowsAreThoseAsked
  BY ListedFiles, ListedValues DEF RowsAreThoseAsked
<1> QED  BY <1>1, <1>2, <1>3, PTL DEF CatalogSpec

-----------------------------------------------------------------------------
(* The cache of a query about a container.                                 *)

\* The keys that a container has metadata for: it has max levels below it.
TellableTo(max) == MetadataKeys \ {k \in ChildcountKeys : Level(k) > max}

\* What is known of a key of a container beforehand.
KnownOf(p, k) ==
  CASE k = "title" -> p.title
    [] k = "mime" -> MimeContainer
    [] k \in {"genre", "artist", "album"} -> p.category[k]
    [] k \notin {"title", "mime", "genre", "artist", "album"} -> Nothing

\* Where the value of a key is to come from, with more keys concatenated.
ContainerEntry(p, more, k, entry) ==
  IF k \in ArtKeys \cup ThumbnailKeys THEN entry.kind = "thumbnailer"
  ELSE IF KnownOf(p, k) # Nothing
  THEN entry.kind = "computed" /\ entry.value = KnownOf(p, k)
  ELSE entry.kind = IF k \in {p.unique, "duration"} \cup ChildcountKeys \cup more
                    THEN "tracker" ELSE "void"

\* The keys that the value of a key is found with.
NeededByArt(k) ==
  CASE k \in SizedArtKeys -> {"album", "album-art-uri"}
    [] k = "album-art-uri" -> {"album"}
    [] k \notin ArtKeys -> {}

\* Every key has the entry it should have, and those it needs have one too.
ContainerEntries(c, p, more) ==
  /\ c.type = p.type
  /\ c.result = "unique"
  /\ DOMAIN c.entries \subseteq TellableTo(p.max)
  /\ \A k \in DOMAIN c.entries :
       /\ ContainerEntry(p, more, k, c.entries[k])
       /\ NeededByArt(k) \subseteq DOMAIN c.entries

\* What is known before any key is added is there already, and so is the key
\* that rows are grouped by.
ContainerCache(c, p, more) ==
  /\ ContainerEntries(c, p, more)
  /\ p.unique \in DOMAIN c.entries
  /\ \A k \in {"title", "genre", "artist", "album"} :
       KnownOf(p, k) # Nothing => k \in DOMAIN c.entries

\* The plan of a container, as far as the cache goes.
ContainerKeys(p) ==
  /\ p.type \in Types /\ p.max \in Int
  /\ p.unique \in {"genre", "artist", "album", "mime"}
  /\ p.title # Nothing

LEMMA TellableNames ==
  ASSUME NEW max
  PROVE  /\ {"genre", "artist", "album", "title", "uri", "mime", "duration", "album-art-uri"}
              \subseteq TellableTo(max)
         /\ MetadataKeys \ ChildcountKeys \subseteq TellableTo(max)
         /\ TellableTo(max) \subseteq MetadataKeys
<1>1. /\ {"genre", "artist", "album", "title", "uri", "mime", "duration", "album-art-uri"}
           \subseteq MetadataKeys
      /\ {"genre", "artist", "album", "title", "uri", "mime", "duration", "album-art-uri"}
           \cap ChildcountKeys = {}
  BY ChildcountNames DEF MetadataKeys, CommonKeys, MusicKeys, ArtKeys
<1> QED  BY <1>1 DEF TellableTo

\* The keys of each kind again.
LEMMA KindsForContainers ==
  /\ {"genre", "artist", "album", "title", "uri", "mime", "duration"}
       \cap (ArtKeys \cup ThumbnailKeys \cup ChildcountKeys) = {}
  /\ SizedArtKeys \cap ThumbnailKeys = {} /\ SizedArtKeys \subseteq ArtKeys
  /\ "album-art-uri" \in ArtKeys /\ "album-art-uri" \notin SizedArtKeys \cup ThumbnailKeys
  /\ ArtKeys = {"album-art-uri"} \cup SizedArtKeys
  /\ ArtKeys \cap ThumbnailKeys = {}
  /\ \A type \in Types : TrackerHas(type, "duration") /\ TrackerHas(type, "mime")
  /\ {"duration", "mime"} \subseteq CommonKeys \cup MusicKeys \cup VideoKeys
<1>1. {"genre", "artist", "album", "title", "uri", "mime", "duration"}
       \cap (ArtKeys \cup ThumbnailKeys \cup ChildcountKeys) = {}
  BY ChildcountNames DEF ArtKeys, SizedArtKeys, ThumbnailKeys
<1>2. /\ SizedArtKeys \cap ThumbnailKeys = {} /\ SizedArtKeys \subseteq ArtKeys
      /\ "album-art-uri" \in ArtKeys /\ "album-art-uri" \notin SizedArtKeys \cup ThumbnailKeys
      /\ ArtKeys = {"album-art-uri"} \cup SizedArtKeys
      /\ ArtKeys \cap ThumbnailKeys = {}
  BY DEF ArtKeys, SizedArtKeys, ThumbnailKeys
<1>3. \A type \in Types : TrackerHas(type, "duration") /\ TrackerHas(type, "mime")
  BY DEF Types, TrackerHas, CommonKeys, MusicKeys, VideoKeys, PlaylistKeys
<1>4. {"duration", "mime"} \subseteq CommonKeys \cup MusicKeys \cup VideoKeys
  BY DEF CommonKeys, MusicKeys, VideoKeys
<1> QED  BY <1>1, <1>2, <1>3, <1>4

LEMMA InsertedKeepsContainer ==
  ASSUME NEW c, NEW p, NEW more, ContainerEntries(c, p, more), NEW k \in TellableTo(p.max),
         NEW entry, ContainerEntry(p, more, k, entry),
         NEW width, NeededByArt(k) \subseteq DOMAIN c.entries
  PROVE  LET q == Inserted(c, k, entry, width)
         IN  /\ ContainerEntries(q, p, more)
             /\ DOMAIN q.entries = DOMAIN c.entries \cup {k}
             /\ KeysGetUser(q) = IF entry.user THEN KeysGetUser(c) \cup {k}
                                 ELSE KeysGetUser(c) \ {k}
<1> DEFINE q == Inserted(c, k, entry, width)
<1>1. /\ q.type = c.type
      /\ q.result = c.result
      /\ DOMAIN q.entries = DOMAIN c.entries \cup {k}
      /\ q.entries[k] = entry
      /\ \A x \in DOMAIN c.entries : x # k => q.entries[x] = c.entries[x]
  BY InsertedFields
<1>2. KeysGetUser(q) = IF entry.user THEN KeysGetUser(c) \cup {k}
                       ELSE KeysGetUser(c) \ {k}
  BY UserOfInserted
<1> HIDE DEF q
<1>3. ASSUME NEW x \in DOMAIN q.entries
      PROVE  /\ ContainerEntry(p, more, x, q.entries[x])
             /\ NeededByArt(x) \subseteq DOMAIN q.entries
  BY <1>1 DEF ContainerEntries
<1>4. ContainerEntries(q, p, more)
  BY <1>1, <1>3 DEF ContainerEntries
<1>5. DOMAIN q.entries = DOMAIN c.entries \cup {k}
  BY <1>1
<1> QED  BY <1>2, <1>4, <1>5 DEF q

\* What adding a key to the cache of a container comes to.
AddsTo(c, q, p, k, user) ==
  /\ ContainerEntries(q, p, {})
  /\ DOMAIN q.entries = DOMAIN c.entries \cup ({k} \cap TellableTo(p.max))
  /\ KeysGetUser(q) = KeysGetUser(c) \cup (IF user THEN {k} \cap TellableTo(p.max) ELSE {})

\* The entry that a new key gets.
LEMMA NewKeyKeepsContainer ==
  ASSUME NEW c, NEW p, ContainerKeys(p), ContainerCache(c, p, {}),
         NEW k \in MetadataKeys, ~KeyExists(c, k),
         NeededByArt(k) \subseteq DOMAIN c.entries, NEW user \in BOOLEAN
  PROVE  AddsTo(c, NewKey(c, k, p.max, user), p, k, user)
<1>1. /\ c.type = p.type /\ c.result = "unique" /\ ContainerEntries(c, p, {})
      /\ p.type \in Types /\ p.max \in Int
  BY DEF ContainerCache, ContainerEntries, ContainerKeys
<1>2. k \notin KeysGetUser(c) /\ k \notin DOMAIN c.entries
  BY DEF KeyExists, KeysGetUser
<1>3. k # p.unique /\ KnownOf(p, k) = IF k = "mime" THEN MimeContainer ELSE Nothing
  BY <1>2 DEF ContainerCache, KnownOf
\* An entry that is right for a key.
<1>4. ASSUME k \in TellableTo(p.max), NEW kind, NEW at, NEW value, NEW width,
             ContainerEntry(p, {}, k, Entry(kind, at, value, Hole, user))
      PROVE  AddsTo(c, Inserted(c, k, Entry(kind, at, value, Hole, user), width), p, k, user)
  <2> DEFINE entry == Entry(kind, at, value, Hole, user)
             q == Inserted(c, k, entry, width)
  <2>1. entry.user = user
    BY DEF Entry
  <2> HIDE DEF entry
  <2>2. /\ ContainerEntries(q, p, {})
        /\ DOMAIN q.entries = DOMAIN c.entries \cup {k}
        /\ KeysGetUser(q) = IF entry.user THEN KeysGetUser(c) \cup {k}
                            ELSE KeysGetUser(c) \ {k}
    BY <1>1, <1>4, InsertedKeepsContainer DEF entry
  <2>3. {k} \cap TellableTo(p.max) = {k}
    BY <1>4
  <2> HIDE DEF q
  <2>4. KeysGetUser(q)
          = KeysGetUser(c) \cup (IF user THEN {k} \cap TellableTo(p.max) ELSE {})
    BY <1>2, <2>1, <2>2, <2>3
  <2>5. AddsTo(c, q, p, k, user)
    BY <2>2, <2>3, <2>4 DEF AddsTo
  <2> QED  BY <2>5 DEF entry, q
<1>5. \A kind, at, value : /\ Entry(kind, at, value, Hole, user).kind = kind
                           /\ Entry(kind, at, value, Hole, user).value = value
  BY DEF Entry
<1>6. CASE k \in ArtKeys \cup ThumbnailKeys
  <2>1. k \in TellableTo(p.max)
    BY <1>6, KindsOfKeys DEF TellableTo
  <2>2. ContainerEntry(p, {}, k, Entry("thumbnailer", 0, Nothing, Hole, user))
    BY <1>5, <1>6 DEF ContainerEntry
  <2>3. NewKey(c, k, p.max, user)
          = Inserted(c, k, Entry("thumbnailer", 0, Nothing, Hole, user), 0)
    BY <1>6, KindsOfKeys DEF NewKey
  <2> QED  BY <1>4, <2>1, <2>2, <2>3
<1>7. CASE k \in ChildcountKeys /\ Level(k) > p.max
  <2>1. {k} \cap TellableTo(p.max) = {}
    BY <1>7 DEF TellableTo
  <2>2. NewKey(c, k, p.max, user) = c
    BY <1>1, <1>7, ChildcountNames, KindsOfKeys DEF NewKey
  <2> QED  BY <1>1, <2>1, <2>2 DEF AddsTo
<1>8. CASE k \in ChildcountKeys /\ ~(Level(k) > p.max)
  <2>1. k \in TellableTo(p.max) /\ k \notin ArtKeys \cup ThumbnailKeys /\ Level(k) <= p.max
    BY <1>1, <1>8, ChildcountNames, KindsOfKeys DEF TellableTo
  <2>2. KnownOf(p, k) = Nothing
    BY <1>3, <1>8, KindsForContainers
  <2>3. ContainerEntry(p, {}, k, Entry("tracker", c.last, Nothing, Hole, user))
    BY <1>5, <1>8, <2>1, <2>2 DEF ContainerEntry
  <2>4. NewKey(c, k, p.max, user)
          = Inserted(c, k, Entry("tracker", c.last, Nothing, Hole, user), 1)
    BY <1>1, <1>8, <2>1, KindsOfKeys DEF NewKey, InColumn
  <2> QED  BY <1>4, <2>1, <2>3, <2>4
<1>9. CASE k \in CommonKeys \cup MusicKeys \cup VideoKeys
  <2>1. k \notin ArtKeys \cup ThumbnailKeys \cup ChildcountKeys
    BY <1>9, KindsOfKeys
  <2>2. k \in TellableTo(p.max)
    BY <2>1 DEF TellableTo
  <2>3. CASE k = "mime"
    <3>1. MimeContainer # Nothing /\ TrackerHas(c.type, k)
      BY <1>1, <2>3, KindsForContainers DEF MimeContainer, Nothing
    <3>2. ContainerEntry(p, {}, k, Entry("computed", 0, MimeContainer, Hole, user))
      BY <1>3, <1>5, <2>1, <2>3, <3>1 DEF ContainerEntry
    <3>3. NewKey(c, k, p.max, user)
            = Inserted(c, k, Entry("computed", 0, MimeContainer, Hole, user), 0)
      BY <1>1, <1>2, <1>9, <2>1, <2>3, <3>1 DEF NewKey, KeyAddPrecomputed, KeyExists
    <3> QED  BY <1>4, <2>2, <3>2, <3>3
  <2>4. CASE k = "duration"
    <3>1. TrackerHas(c.type, k) /\ k # "mime"
      BY <1>1, <2>4, KindsForContainers
    <3>2. ContainerEntry(p, {}, k, Entry("tracker", c.last, Nothing, Hole, user))
      BY <1>3, <1>5, <2>1, <2>4, <3>1 DEF ContainerEntry
    <3>3. NewKey(c, k, p.max, user)
            = Inserted(c, k, Entry("tracker", c.last, Nothing, Hole, user), 1)
      BY <1>1, <1>9, <2>1, <2>4, <3>1 DEF NewKey, InColumn
    <3> QED  BY <1>4, <2>2, <3>2, <3>3
  <2>5. CASE k \notin {"mime", "duration"}
    <3>1. ContainerEntry(p, {}, k, Entry("void", 0, Nothing, Hole, user))
      BY <1>3, <1>5, <2>1, <2>5 DEF ContainerEntry
    <3>2. NewKey(c, k, p.max, user) = Inserted(c, k, Entry("void", 0, Nothing, Hole, user), 0)
      BY <1>1, <1>9, <2>1, <2>5 DEF NewKey
    <3> QED  BY <1>4, <2>2, <3>1, <3>2
  <2> QED  BY <2>3, <2>4, <2>5
<1> QED  BY <1>6, <1>7, <1>8, <1>9 DEF MetadataKeys

LEMMA AddedKeepsContainer ==
  ASSUME NEW c, NEW p, ContainerKeys(p), ContainerCache(c, p, {}), NEW k,
         NeededByArt(k) \subseteq DOMAIN c.entries, NEW user \in BOOLEAN
  PROVE  AddsTo(c, Added(c, k, p.max, user), p, k, user)
<1>0. ContainerEntries(c, p, {})
  BY DEF ContainerCache
<1>1. CASE KeyExists(c, k)
  <2> DEFINE old == c.entries[k]
             entry == Entry(old.kind, old.at, old.value, old.from, old.user \/ user)
             q == Inserted(c, k, entry, 0)
  <2>1. k \in TellableTo(p.max) /\ k \in DOMAIN c.entries
    BY <1>0, <1>1 DEF ContainerEntries, KeyExists
  <2>2. /\ entry.kind = old.kind /\ entry.value = old.value
        /\ entry.user = (old.user \/ user)
    BY DEF Entry
  <2> HIDE DEF entry
  <2>3. ContainerEntry(p, {}, k, entry)
    <3>1. ContainerEntry(p, {}, k, old)
      BY <1>0, <2>1 DEF ContainerEntries
    <3> HIDE DEF old
    <3> QED  BY <2>2, <3>1 DEF ContainerEntry
  <2>4. /\ ContainerEntries(q, p, {})
        /\ DOMAIN q.entries = DOMAIN c.entries \cup {k}
        /\ KeysGetUser(q) = IF entry.user THEN KeysGetUser(c) \cup {k}
                            ELSE KeysGetUser(c) \ {k}
    BY <1>0, <2>1, <2>3, InsertedKeepsContainer
  <2>5. k \in KeysGetUser(c) <=> old.user
    BY <2>1 DEF KeysGetUser
  <2>6. q = Added(c, k, p.max, user)
    BY <1>1 DEF q, entry, Added, Requested
  <2>7. {k} \cap TellableTo(p.max) = {k}
    BY <2>1
  <2> HIDE DEF q, old
  <2>8. KeysGetUser(q)
          = KeysGetUser(c) \cup (IF user THEN {k} \cap TellableTo(p.max) ELSE {})
    BY <2>2, <2>4, <2>5, <2>7
  <2> QED  BY <2>4, <2>6, <2>7, <2>8 DEF AddsTo
<1>2. CASE ~KeyExists(c, k) /\ k \in MetadataKeys
  <2>1. Added(c, k, p.max, user) = NewKey(c, k, p.max, user)
    BY <1>2 DEF Added
  <2> QED  BY <1>2, <2>1, NewKeyKeepsContainer
<1>3. CASE ~KeyExists(c, k) /\ k \notin MetadataKeys
  <2>1. Added(c, k, p.max, user) = c
    BY <1>3 DEF Added
  <2>2. {k} \cap TellableTo(p.max) = {}
    BY <1>3 DEF TellableTo
  <2> QED  BY <1>0, <2>1, <2>2 DEF AddsTo
<1> QED  BY <1>1, <1>2, <1>3

\* Nothing is lost by adding a key.
LEMMA AddsToCache ==
  ASSUME NEW c, NEW q, NEW p, ContainerCache(c, p, {}), NEW k, NEW user, AddsTo(c, q, p, k, user)
  PROVE  ContainerCache(q, p, {})
<1>1. DOMAIN c.entries \subseteq DOMAIN q.entries /\ ContainerEntries(q, p, {})
  BY DEF AddsTo
<1> QED  BY <1>1 DEF ContainerCache

\* What is needed is there, or added before the key.
LEMMA NeedsKeepContainer ==
  ASSUME NEW c, NEW p, ContainerKeys(p), ContainerCache(c, p, {}), NEW k, ~KeyExists(c, k)
  PROVE  LET needs == Needs(c, k)
             one == IF Len(needs) > 0 THEN Added(c, needs[1], p.max, FALSE) ELSE c
             two == IF Len(needs) > 1 THEN Added(one, needs[2], p.max, FALSE) ELSE one
         IN  /\ ContainerCache(two, p, {})
             /\ NeededByArt(k) \subseteq DOMAIN two.entries
             /\ DOMAIN c.entries \subseteq DOMAIN two.entries
             /\ KeysGetUser(two) = KeysGetUser(c)
<1> DEFINE needs == Needs(c, k)
           one == IF Len(needs) > 0 THEN Added(c, needs[1], p.max, FALSE) ELSE c
           two == IF Len(needs) > 1 THEN Added(one, needs[2], p.max, FALSE) ELSE one
           Good(q) == /\ ContainerCache(q, p, {})
                      /\ DOMAIN c.entries \subseteq DOMAIN q.entries
                      /\ KeysGetUser(q) = KeysGetUser(c)
<1>1. c.result = "unique"
  BY DEF ContainerCache, ContainerEntries
<1>2. /\ NeededByArt("album") = {} /\ NeededByArt("uri") = {}
      /\ NeededByArt("album-art-uri") = {"album"}
      /\ \A x : x \notin ArtKeys => NeededByArt(x) = {}
  BY KindsForContainers DEF NeededByArt
\* A key that needs nothing that is not there is added.
<1>3. ASSUME NEW q, Good(q), NEW x \in {"album", "album-art-uri", "uri"},
             NeededByArt(x) \subseteq DOMAIN q.entries
      PROVE  /\ Good(Added(q, x, p.max, FALSE))
             /\ DOMAIN Added(q, x, p.max, FALSE).entries = DOMAIN q.entries \cup {x}
  <2>1. {x} \cap TellableTo(p.max) = {x}
    BY <1>3, TellableNames
  <2>2. PICK user \in BOOLEAN : user = FALSE
    OBVIOUS
  <2>3. PICK a : a = Added(q, x, p.max, user)
    OBVIOUS
  <2>4. AddsTo(q, a, p, x, user)
    BY <1>3, <2>3, AddedKeepsContainer
  <2>5. ContainerCache(a, p, {})
    BY <1>3, <2>4, AddsToCache
  <2> QED  BY <1>3, <2>1, <2>2, <2>3, <2>4, <2>5 DEF AddsTo
<1>4. Good(c)
  OBVIOUS
<1> HIDE DEF Good
<1>5. CASE k \in SizedArtKeys
  <2>1. needs = <<"album", "album-art-uri">> /\ NeededByArt(k) = {"album", "album-art-uri"}
    BY <1>5, KindsForContainers DEF Needs, NeededByArt
  <2>2. Len(needs) = 2 /\ needs[1] = "album" /\ needs[2] = "album-art-uri"
    BY <2>1
  <2> HIDE DEF needs
  <2>3. one = Added(c, "album", p.max, FALSE)
    BY <2>2
  <2>4. Good(one) /\ DOMAIN one.entries = DOMAIN c.entries \cup {"album"}
    <3>1. NeededByArt("album") \subseteq DOMAIN c.entries
      BY <1>2
    <3> QED  BY <1>3, <1>4, <2>3, <3>1
  <2> HIDE DEF one
  <2>5. two = Added(one, "album-art-uri", p.max, FALSE)
    BY <2>2
  <2>6. Good(two) /\ DOMAIN two.entries = DOMAIN one.entries \cup {"album-art-uri"}
    <3>1. NeededByArt("album-art-uri") \subseteq DOMAIN one.entries
      BY <1>2, <2>4
    <3> QED  BY <1>3, <2>4, <2>5, <3>1
  <2> HIDE DEF two
  <2>7. Good(two) /\ NeededByArt(k) \subseteq DOMAIN two.entries
    BY <2>1, <2>4, <2>6
  <2> QED  BY <2>7 DEF Good, two, one, needs
<1>6. ASSUME NEW x \in {"album", "uri"}, needs = <<x>>, NeededByArt(k) \subseteq {x}
      PROVE  Good(two) /\ NeededByArt(k) \subseteq DOMAIN two.entries
  <2>1. Len(needs) = 1 /\ needs[1] = x
    BY <1>6
  <2> HIDE DEF needs
  <2>2. one = Added(c, x, p.max, FALSE) /\ two = one
    BY <2>1
  <2>3. NeededByArt(x) \subseteq DOMAIN c.entries
    BY <1>2, <1>6
  <2>4. Good(one) /\ DOMAIN one.entries = DOMAIN c.entries \cup {x}
    BY <1>3, <1>4, <1>6, <2>2, <2>3
  <2> HIDE DEF one, two
  <2> QED  BY <1>6, <2>2, <2>4
<1>7. CASE k = "album-art-uri"
  <2>1. needs = <<"album">> /\ NeededByArt(k) = {"album"}
    BY <1>2, <1>7, KindsForContainers DEF Needs
  <2> QED  BY <1>6, <2>1 DEF Good
<1>8. CASE k \in ThumbnailKeys
  <2>1. needs = <<"uri">> /\ NeededByArt(k) = {}
    BY <1>2, <1>8, KindsForContainers DEF Needs
  <2> QED  BY <1>6, <2>1 DEF Good
<1>9. CASE k \notin ArtKeys \cup ThumbnailKeys
  <2>1. needs = << >> /\ NeededByArt(k) = {}
    BY <1>1, <1>2, <1>9, KindsForContainers DEF Needs
  <2>2. Len(needs) = 0
    BY <2>1
  <2> HIDE DEF needs
  <2>3. two = c
    BY <2>2
  <2> HIDE DEF two
  <2>4. Good(two) /\ NeededByArt(k) \subseteq DOMAIN two.entries
    BY <1>4, <2>1, <2>3
  <2> QED  BY <2>4 DEF Good, two, one, needs
<1> QED  BY <1>5, <1>7, <1>8, <1>9, KindsForContainers

\* tracker_cache_key_add keeps the cache of a container as it should be, with
\* any key; and the keys that metadata are made for are those the user asked
\* for.
LEMMA KeyAddKeepsContainer ==
  ASSUME NEW c, NEW p, ContainerKeys(p), ContainerCache(c, p, {}), NEW k, NEW user \in BOOLEAN
  PROVE  LET q == KeyAdd(c, k, p.max, user)
         IN  /\ ContainerCache(q, p, {})
             /\ KeysGetUser(q)
                  = KeysGetUser(c) \cup (IF user THEN {k} \cap TellableTo(p.max) ELSE {})
<1> DEFINE needs == IF KeyExists(c, k) THEN << >> ELSE Needs(c, k)
           one == IF Len(needs) > 0 THEN Added(c, needs[1], p.max, FALSE) ELSE c
           two == IF Len(needs) > 1 THEN Added(one, needs[2], p.max, FALSE) ELSE one
<1>1. KeyAdd(c, k, p.max, user) = Added(two, k, p.max, user)
  BY DEF KeyAdd
<1>2. /\ ContainerCache(two, p, {})
      /\ NeededByArt(k) \subseteq DOMAIN two.entries
      /\ KeysGetUser(two) = KeysGetUser(c)
  <2>1. CASE KeyExists(c, k)
    <3>1. needs = << >> /\ Len(needs) = 0
      BY <2>1
    <3> HIDE DEF needs
    <3>2. two = c
      BY <3>1
    <3>3. NeededByArt(k) \subseteq DOMAIN c.entries
      BY <2>1 DEF ContainerCache, ContainerEntries, KeyExists
    <3> HIDE DEF two
    <3> QED  BY <3>2, <3>3
  <2>2. CASE ~KeyExists(c, k)
    <3>1. needs = Needs(c, k)
      BY <2>2
    <3> HIDE DEF needs
    <3> QED  BY <2>2, <3>1, NeedsKeepContainer
  <2> QED  BY <2>1, <2>2
<1> HIDE DEF two
<1>3. PICK q : q = Added(two, k, p.max, user)
  OBVIOUS
<1>4. AddsTo(two, q, p, k, user)
  BY <1>2, <1>3, AddedKeepsContainer
<1>5. ContainerCache(q, p, {})
  BY <1>2, <1>4, AddsToCache
<1> QED  BY <1>1, <1>2, <1>3, <1>4, <1>5 DEF AddsTo

-----------------------------------------------------------------------------
(* The cache of a container, before and after its keys are added.          *)

LEMMA PresetKeepsContainer ==
  ASSUME NEW c, NEW p, ContainerEntries(c, p, {}), KeysGetUser(c) = {},
         NEW key \in {"title", "genre", "artist", "album"}, NEW value, value = KnownOf(p, key)
  PROVE  LET q == Preset(c, key, value)
         IN  /\ ContainerEntries(q, p, {}) /\ KeysGetUser(q) = {}
             /\ DOMAIN c.entries \subseteq DOMAIN q.entries
             /\ value # Nothing => key \in DOMAIN q.entries
<1> DEFINE entry == Entry("computed", 0, value, Hole, FALSE)
           q == Inserted(c, key, entry, 0)
<1>1. CASE value = Nothing \/ KeyExists(c, key)
  <2>1. Preset(c, key, value) = c
    BY <1>1 DEF Preset, KeyAddPrecomputed
  <2> QED  BY <1>1, <2>1 DEF KeyExists
<1>2. CASE value # Nothing /\ ~KeyExists(c, key)
  <2>1. Preset(c, key, value) = q
    BY <1>2 DEF Preset, KeyAddPrecomputed
  <2>2. entry.kind = "computed" /\ entry.value = value /\ ~entry.user
    BY DEF Entry
  <2> HIDE DEF entry
  <2>3. /\ key \in TellableTo(p.max)
        /\ key \notin ArtKeys \cup ThumbnailKeys
    BY TellableNames, KindsForContainers
  <2>4. NeededByArt(key) = {}
    BY <2>3 DEF NeededByArt, ArtKeys
  <2>5. ContainerEntry(p, {}, key, entry)
    BY <1>2, <2>2, <2>3 DEF ContainerEntry
  <2>6. /\ ContainerEntries(q, p, {})
        /\ DOMAIN q.entries = DOMAIN c.entries \cup {key}
        /\ KeysGetUser(q) = IF entry.user THEN KeysGetUser(c) \cup {key}
                            ELSE KeysGetUser(c) \ {key}
    BY <2>3, <2>4, <2>5, InsertedKeepsContainer
  <2> HIDE DEF q
  <2> QED  BY <2>1, <2>2, <2>6
<1> QED  BY <1>1, <1>2

\* The key that rows are grouped by.
LEMMA KeyAddUniqueOfContainer ==
  ASSUME NEW c, NEW p, ContainerKeys(p), ContainerEntries(c, p, {}), KeysGetUser(c) = {},
         \A k \in {"title", "genre", "artist", "album"} :
           KnownOf(p, k) # Nothing => k \in DOMAIN c.entries
  PROVE  /\ ContainerCache(KeyAddUnique(c, p.unique), p, {})
         /\ KeysGetUser(KeyAddUnique(c, p.unique)) = {}
<1> DEFINE k == p.unique
<1>1. /\ k \in {"genre", "artist", "album", "mime"}
      /\ k \in TellableTo(p.max)
      /\ k \notin ArtKeys \cup ThumbnailKeys
  BY TellableNames, KindsForContainers DEF ContainerKeys
<1>2. NeededByArt(k) = {}
  BY <1>1 DEF NeededByArt, ArtKeys
\* An entry that is right for it.
<1>3. ASSUME NEW entry, ~entry.user, ContainerEntry(p, {}, k, entry), NEW width
      PROVE  /\ ContainerCache(Inserted(c, k, entry, width), p, {})
             /\ KeysGetUser(Inserted(c, k, entry, width)) = {}
  <2> DEFINE q == Inserted(c, k, entry, width)
  <2>1. /\ ContainerEntries(q, p, {})
        /\ DOMAIN q.entries = DOMAIN c.entries \cup {k}
        /\ KeysGetUser(q) = IF entry.user THEN KeysGetUser(c) \cup {k}
                            ELSE KeysGetUser(c) \ {k}
    BY <1>1, <1>2, <1>3, InsertedKeepsContainer
  <2> HIDE DEF q
  <2>2. KeysGetUser(q) = {}
    BY <1>3, <2>1
  <2>3. ContainerCache(q, p, {})
    BY <2>1 DEF ContainerCache
  <2> QED  BY <2>2, <2>3 DEF q
<1>4. CASE KeyExists(c, k)
  <2>1. PICK entry : entry = c.entries[k]
    OBVIOUS
  <2>2. ~entry.user
    BY <1>4, <2>1 DEF KeyExists, KeysGetUser
  <2>3. ContainerEntry(p, {}, k, entry)
    BY <1>4, <2>1 DEF KeyExists, ContainerEntries
  <2>4. KeyAddUnique(c, k) = Inserted(c, k, entry, 1)
    BY <1>4, <2>1 DEF KeyAddUnique
  <2> QED  BY <1>3, <2>2, <2>3, <2>4
<1>5. CASE ~KeyExists(c, k) /\ k = "mime"
  <2>1. PICK entry : entry = Entry("computed", 0, MimeContainer, Hole, FALSE)
    OBVIOUS
  <2>2. entry.kind = "computed" /\ entry.value = MimeContainer /\ ~entry.user
    BY <2>1 DEF Entry
  <2>3. KnownOf(p, k) = MimeContainer
    BY <1>5 DEF KnownOf
  <2>4. ContainerEntry(p, {}, k, entry)
    BY <1>1, <2>2, <2>3 DEF ContainerEntry, MimeContainer, Nothing
  <2>5. KeyAddUnique(c, k) = Inserted(c, k, entry, 1)
    BY <1>5, <2>1 DEF KeyAddUnique
  <2> QED  BY <1>3, <2>2, <2>4, <2>5
<1>6. CASE ~KeyExists(c, k) /\ k # "mime"
  <2>1. PICK entry : entry = Entry("tracker", c.last, Nothing, Hole, FALSE)
    OBVIOUS
  <2>2. entry.kind = "tracker" /\ ~entry.user
    BY <2>1 DEF Entry
  <2>3. KnownOf(p, k) = Nothing
    BY <1>1, <1>6 DEF KeyExists
  <2>4. ContainerEntry(p, {}, k, entry)
    BY <1>1, <2>2, <2>3 DEF ContainerEntry
  <2>5. KeyAddUnique(c, k) = Inserted(c, k, entry, 1)
    BY <1>6, <2>1 DEF KeyAddUnique, InColumn
  <2> QED  BY <1>3, <2>2, <2>4, <2>5
<1> QED  BY <1>4, <1>5, <1>6

LEMMA FirstCacheContainer ==
  ASSUME NEW p, p.kind = "container", ContainerKeys(p), NEW clips
  PROVE  /\ ContainerCache(FirstCache(p, clips), p, {})
         /\ KeysGetUser(FirstCache(p, clips)) = {}
<1>1. PICK new : new = NewCache(p.type, "unique")
  OBVIOUS
<1>2. PICK genre : genre = Preset(new, "genre", p.category.genre)
  OBVIOUS
<1>3. PICK artist : artist = Preset(genre, "artist", p.category.artist)
  OBVIOUS
<1>4. PICK album : album = Preset(artist, "album", p.category.album)
  OBVIOUS
<1>5. PICK titled : titled = Preset(album, "title", p.title)
  OBVIOUS
<1>6. FirstCache(p, clips) = KeyAddUnique(titled, p.unique)
  BY <1>1, <1>2, <1>3, <1>4, <1>5 DEF FirstCache
<1>7. ContainerEntries(new, p, {}) /\ KeysGetUser(new) = {}
  BY <1>1 DEF NewCache, ContainerEntries, KeysGetUser
<1>8. /\ KnownOf(p, "genre") = p.category.genre /\ KnownOf(p, "artist") = p.category.artist
      /\ KnownOf(p, "album") = p.category.album /\ KnownOf(p, "title") = p.title
  BY DEF KnownOf
<1>9. /\ ContainerEntries(genre, p, {}) /\ KeysGetUser(genre) = {}
      /\ p.category.genre # Nothing => "genre" \in DOMAIN genre.entries
  BY <1>2, <1>7, <1>8, PresetKeepsContainer
<1>10. /\ ContainerEntries(artist, p, {}) /\ KeysGetUser(artist) = {}
       /\ DOMAIN genre.entries \subseteq DOMAIN artist.entries
       /\ p.category.artist # Nothing => "artist" \in DOMAIN artist.entries
  BY <1>3, <1>8, <1>9, PresetKeepsContainer
<1>11. /\ ContainerEntries(album, p, {}) /\ KeysGetUser(album) = {}
       /\ DOMAIN artist.entries \subseteq DOMAIN album.entries
       /\ p.category.album # Nothing => "album" \in DOMAIN album.entries
  BY <1>4, <1>8, <1>10, PresetKeepsContainer
<1>12. /\ ContainerEntries(titled, p, {}) /\ KeysGetUser(titled) = {}
       /\ DOMAIN album.entries \subseteq DOMAIN titled.entries
       /\ p.title # Nothing => "title" \in DOMAIN titled.entries
  BY <1>5, <1>8, <1>11, PresetKeepsContainer
<1>13. \A k \in {"title", "genre", "artist", "album"} :
         KnownOf(p, k) # Nothing => k \in DOMAIN titled.entries
  BY <1>8, <1>9, <1>10, <1>11, <1>12
<1> QED  BY <1>6, <1>12, <1>13, KeyAddUniqueOfContainer

\* The keys that a container has concatenated: at most one.
ContainerConcat(p) ==
  \/ p.concat = {}
  \/ \E key \in {"artist", "album"} \ {p.unique} : p.concat = {key} /\ p.category[key] = Nothing

\* What is asked for in the end.
LEMMA LastCacheContainer ==
  ASSUME NEW p, ContainerKeys(p), ContainerConcat(p), NEW c, ContainerCache(c, p, {})
  PROVE  /\ ContainerCache(LastCache(p, c), p, p.concat)
         /\ KeysGetUser(LastCache(p, c)) = KeysGetUser(c)
<1>1. /\ ContainerEntries(c, p, {}) /\ p.unique \in DOMAIN c.entries
      /\ \A k \in {"title", "genre", "artist", "album"} :
           KnownOf(p, k) # Nothing => k \in DOMAIN c.entries
  BY DEF ContainerCache
<1>2. CASE \E key \in p.concat : KeyExists(c, key)
  <2>1. PICK key \in {"artist", "album"} \ {p.unique} :
          p.concat = {key} /\ p.category[key] = Nothing
    BY <1>2 DEF ContainerConcat
  <2>2. KeyExists(c, key)
    BY <1>2, <2>1
  <2>3. LastCache(p, c) = KeyAddConcat(c, key)
    <3>1. \A x : x \in {key} <=> x = key
      OBVIOUS
    <3>2. (CHOOSE x \in {key} : TRUE) = key
      BY <3>1
    <3> QED  BY <1>2, <2>1, <3>2 DEF LastCache
  <2>4. PICK user : user = c.entries[key].user
    OBVIOUS
  <2>5. PICK entry : entry = Entry("tracker", c.last, Nothing, Hole,
                                   KeyExists(c, key) /\ c.entries[key].user)
    OBVIOUS
  <2>6. entry.kind = "tracker" /\ (entry.user <=> user)
    BY <2>2, <2>4, <2>5 DEF Entry
  <2>7. PICK q : q = Inserted(c, key, entry, 1)
    OBVIOUS
  <2>8. LastCache(p, c) = q
    BY <2>3, <2>5, <2>7 DEF KeyAddConcat, InColumn
  <2>9. /\ q.type = c.type
        /\ q.result = c.result
        /\ DOMAIN q.entries = DOMAIN c.entries \cup {key}
        /\ q.entries[key] = entry
        /\ \A x \in DOMAIN c.entries : x # key => q.entries[x] = c.entries[x]
    BY <2>7, InsertedFields
  <2>10. DOMAIN q.entries = DOMAIN c.entries
    BY <2>2, <2>9 DEF KeyExists
  <2>11. KeysGetUser(q) = KeysGetUser(c)
    BY <2>4, <2>6, <2>9, <2>10 DEF KeysGetUser
  <2>12. ASSUME NEW x \in DOMAIN q.entries
         PROVE  ContainerEntry(p, p.concat, x, q.entries[x])
    <3>1. CASE x = key
      <4>1. key \notin ArtKeys \cup ThumbnailKeys
        BY KindsForContainers
      <4>2. KnownOf(p, key) = Nothing
        BY <2>1 DEF KnownOf
      <4> QED  BY <2>1, <2>6, <2>9, <3>1, <4>1, <4>2 DEF ContainerEntry
    <3>2. CASE x # key
      <4>1. ContainerEntry(p, {}, x, c.entries[x]) /\ q.entries[x] = c.entries[x]
        BY <1>1, <2>9, <2>10, <3>2 DEF ContainerEntries
      <4> QED  BY <2>1, <3>2, <4>1 DEF ContainerEntry
    <3> QED  BY <3>1, <3>2
  <2>13. ContainerEntries(q, p, p.concat)
    BY <1>1, <2>9, <2>10, <2>12 DEF ContainerEntries
  <2>14. ContainerCache(q, p, p.concat)
    BY <1>1, <2>10, <2>13 DEF ContainerCache
  <2> QED  BY <2>8, <2>11, <2>14
<1>3. CASE ~\E key \in p.concat : KeyExists(c, key)
  <2>1. LastCache(p, c) = c
    BY <1>3 DEF LastCache
  <2>2. ASSUME NEW x \in DOMAIN c.entries
        PROVE  ContainerEntry(p, p.concat, x, c.entries[x])
    <3>1. x \notin p.concat
      BY <1>3 DEF KeyExists
    <3>2. ContainerEntry(p, {}, x, c.entries[x])
      BY <1>1 DEF ContainerEntries
    <3> QED  BY <3>1, <3>2 DEF ContainerEntry
  <2>3. ContainerEntries(c, p, p.concat)
    BY <1>1, <2>2 DEF ContainerEntries
  <2>4. ContainerCache(c, p, p.concat)
    BY <1>1, <2>3 DEF ContainerCache
  <2> QED  BY <2>1, <2>4
<1> QED  BY <1>2, <1>3

-----------------------------------------------------------------------------
(* The plan of a container.                                                *)

\* What childcounts of a container count, and why the values of a level can be
\* counted apart for each group of files: the first level of the branch is what
\* they are grouped by, or is given and so is what they are grouped by.
CountsChildren(p, path) ==
  \A n \in 1 .. p.max :
    LET at == n + Given(path)
        levels == LevelsOf(path)
    IN  IF at > Len(levels) THEN p.counts[n] = "*"
        ELSE /\ p.counts[n] = levels[at]
             /\ 1 \in DOMAIN levels /\ at \in DOMAIN levels
             /\ levels[1] \in {"genre", "artist", "album"}
             /\ levels[at] \in {"genre", "artist", "album"}
             /\ IF p.rows THEN levels[1] = p.unique
                ELSE p.category[levels[1]] # Nothing

\* The keys that are concatenated, and the key that rows are grouped by.
GroupsByCategory(p) ==
  LET artist == p.category.artist
      album == p.category.album
  IN /\ p.concat = CASE artist # Nothing /\ album = Nothing -> {"album"}
                     [] artist = Nothing /\ album # Nothing -> {"artist"}
                     [] OTHER -> {}
     /\ p.unique \in {"genre", "artist", "album"} =>
          (p.rows <=> p.category[p.unique] = Nothing)
     /\ p.unique = "mime" => /\ ~p.rows
                             /\ \A key \in {"genre", "artist", "album"} :
                                  p.category[key] = Nothing
     /\ p.rows => \A key \in {"genre", "artist", "album"} : p.category[key] = Nothing

ContainerPlan(p, path) ==
  /\ p.kind = "container"
  /\ ContainerKeys(p) /\ ContainerConcat(p)
  /\ p.category = [key \in {"genre", "artist", "album"} |-> p.category[key]]
  /\ \A key \in {"genre", "artist", "album"} : \A u, v \in p.category[key] : u = v
  /\ p.counts \in Seq({"genre", "artist", "album", "*"})
  /\ p.max = (Len(LevelsOf(path)) + 1) - Given(path)
  /\ p.max <= Len(p.counts)
  /\ p.rows => p.max > 1 /\ Given(path) = 0
  /\ Len(path) > 2 => p.title = {Last(path)}
  /\ CountsChildren(p, path)
  /\ GroupsByCategory(p)

LEMMA MaxWithZero ==
  ASSUME NEW n \in Int
  PROVE  Max({0, n}) = IF n > 0 THEN n ELSE 0
<1> DEFINE S == {0, n}
           m == IF n > 0 THEN n ELSE 0
<1>1. m \in S /\ \A j \in S : m >= j
  OBVIOUS
<1>2. \A x \in S : (\A j \in S : x >= j) => x = m
  OBVIOUS
<1> HIDE DEF S, m
<1> QED  BY <1>1, <1>2 DEF Max, S, m

\* What a path says of the level that is the i-th of its branch.
GivenBy(path, levels, key) ==
  IF \E i \in DOMAIN levels : levels[i] = key /\ i + 2 <= Len(path)
  THEN {path[2 + CHOOSE i \in DOMAIN levels : levels[i] = key]}
  ELSE Nothing

LEMMA LevelsAre ==
  /\ Levels("albums") = <<"album">>
  /\ Levels("artists") = <<"artist", "album">>
  /\ Levels("genres") = <<"genre", "artist", "album">>
  /\ \A branch : branch \notin {"albums", "artists", "genres"} => Levels(branch) = << >>
  BY DEF Levels

LEMMA LevelsShort ==
  ASSUME NEW branch
  PROVE  Len(Levels(branch)) \in 0 .. 3
<1>1. CASE branch = "albums"
  BY <1>1, LevelsAre
<1>2. CASE branch = "artists"
  BY <1>2, LevelsAre
<1>3. CASE branch = "genres"
  BY <1>3, LevelsAre
<1>4. CASE branch \notin {"albums", "artists", "genres"}
  BY <1>4, LevelsAre
<1> QED  BY <1>1, <1>2, <1>3, <1>4

\* The path of a container: that of all videos, or one in a branch of /music.
LEMMA PathOfContainer ==
  ASSUME NEW path \in Seq(STRING), CategoryInfo(path).clip = Nothing,
         CategoryInfo(path).category \notin {"error", "root", "music"}
  PROVE  LET c == CategoryInfo(path).category
         IN  /\ c = "videos" => Len(path) = 1
             /\ c # "videos" =>
                  /\ c \in {"songs", "playlists", "albums", "artists", "genres"}
                  /\ Len(path) >= 2 /\ path[2] = c
                  /\ Len(path) <= 2 + Len(Levels(c))
                  /\ \A key \in {"genre", "artist", "album"} :
                       CategoryInfo(path)[key] = GivenBy(path, Levels(c), key)
<1> DEFINE n == Len(path)
           branch == IF n > 1 /\ path[1] = "music" THEN path[2] ELSE Hole
           levels == Levels(branch)
           start == IF branch = Hole THEN 1 ELSE 2
           error == \/ n > 0 /\ path[1] \notin {"music", "videos"}
                    \/ n > 1 /\ path[1] = "music"
                       /\ branch \notin {"songs", "playlists", "albums", "artists", "genres"}
                    \/ n > start + Len(levels) + 1
           category == CASE error -> "error"
                         [] ~error /\ n = 0 -> "root"
                         [] ~error /\ n > 0 /\ branch = Hole -> path[1]
                         [] ~error /\ branch # Hole -> branch
           clip == IF ~error /\ n = start + Len(levels) + 1 /\ n > 1 THEN {path[n]} ELSE Nothing
           info == CategoryInfo(path)
<1>1. info.category = category /\ info.clip = clip
  BY DEF CategoryInfo
<1>2. /\ info.genre = GivenBy(path, levels, "genre")
      /\ info.artist = GivenBy(path, levels, "artist")
      /\ info.album = GivenBy(path, levels, "album")
  BY DEF CategoryInfo, GivenBy
<1>3. n \in Nat
  OBVIOUS
<1>4. ~error /\ n # 0
  BY <1>1, <1>3
<1>5. clip = Nothing => n # start + Len(levels) + 1 \/ n <= 1
  BY <1>3, <1>4 DEF Nothing
<1>6. n <= start + Len(levels) + 1
  <2>1. Len(levels) \in Nat
    BY LevelsShort
  <2> QED  BY <1>3, <1>4, <2>1
<1> HIDE DEF info, clip
<1>7. CASE branch = Hole
  <2>1. category = path[1] /\ path[1] \in {"music", "videos"} /\ start = 1
    BY <1>3, <1>4, <1>7
  <2>2. Len(levels) = 0
    <3>1. Levels(Hole) = << >>
      BY LevelsAre DEF Hole
    <3> HIDE DEF branch
    <3> QED  BY <1>7, <3>1
  <2> HIDE DEF levels, category, error, start, n
  <2>3. info.category = "videos"
    BY <1>1, <2>1 DEF info
  <2>4. clip = Nothing
    BY <1>1 DEF info
  <2>5. n <= 2 /\ n # 2
    BY <1>3, <1>4, <1>5, <1>6, <2>1, <2>2, <2>4
  <2>6. n = 1
    BY <1>3, <1>4, <2>5
  <2> QED  BY <2>3, <2>6 DEF info, n
<1>8. CASE branch # Hole
  <2>1. /\ category = branch /\ start = 2 /\ n > 1 /\ path[2] = branch
        /\ branch \in {"songs", "playlists", "albums", "artists", "genres"}
    BY <1>3, <1>4, <1>8
  <2>2. Len(levels) \in Nat
    BY LevelsShort
  <2>3. info.category = branch
    BY <1>1, <2>1
  <2>4. n <= 2 + Len(levels)
    <3> HIDE DEF levels, category, error, start
    <3> QED  BY <1>1, <1>3, <1>5, <1>6, <2>1, <2>2 DEF info
  <2>5. \A key \in {"genre", "artist", "album"} : info[key] = GivenBy(path, levels, key)
    <3> HIDE DEF levels
    <3> QED  BY <1>2
  <2> HIDE DEF branch, error, category, start
  <2> QED  BY <1>3, <2>1, <2>3, <2>4, <2>5 DEF info
<1> QED  BY <1>7, <1>8

\* The branch whose first level is the s-th of the hierarchy.
BranchAt(s) == CASE s = 1 -> "genres" [] s = 2 -> "artists" [] s = 3 -> "albums"

\* Its levels, and what a path in it gives.
LEMMA BranchFacts ==
  ASSUME NEW s \in 1 .. 3, NEW path \in Seq(STRING)
  PROVE  /\ Len(Levels(BranchAt(s))) = 4 - s
         /\ \A i \in 1 .. 4 - s : Levels(BranchAt(s))[i] = Hierarchy[s + i - 1]
         /\ \A i \in 1 .. 3 :
              GivenBy(path, Levels(BranchAt(s)), Hierarchy[i])
                = IF i >= s /\ i - s + 3 <= Len(path) THEN {path[i - s + 3]} ELSE Nothing
<1> DEFINE levels == Levels(BranchAt(s))
<1> DEFINE LevelSays(i) ==
             GivenBy(path, levels, Hierarchy[i])
               = IF i >= s /\ i - s + 3 <= Len(path) THEN {path[i - s + 3]} ELSE Nothing
<1>1. Hierarchy[1] = "genre" /\ Hierarchy[2] = "artist" /\ Hierarchy[3] = "album"
  BY DEF Hierarchy
<1>2. Len(path) \in Nat
  OBVIOUS
\* What a path says of a level that there is, and of one that there is not.
<1>3. ASSUME NEW key, NEW j \in DOMAIN levels, levels[j] = key,
             \A i \in DOMAIN levels : levels[i] = key => i = j
      PROVE  GivenBy(path, levels, key) = IF j + 2 <= Len(path) THEN {path[2 + j]} ELSE Nothing
  <2>1. (CHOOSE i \in DOMAIN levels : levels[i] = key) = j
    BY <1>3
  <2>2. (\E i \in DOMAIN levels : levels[i] = key /\ i + 2 <= Len(path)) <=> j + 2 <= Len(path)
    BY <1>3
  <2> HIDE DEF levels
  <2> QED  BY <2>1, <2>2 DEF GivenBy
<1>4. ASSUME NEW key, \A i \in DOMAIN levels : levels[i] # key
      PROVE  GivenBy(path, levels, key) = Nothing
  <2> HIDE DEF levels
  <2> QED  BY <1>4 DEF GivenBy
<1>5. CASE s = 1
  <2>1. levels = <<"genre", "artist", "album">>
    BY <1>5, LevelsAre DEF BranchAt
  <2> HIDE DEF levels
  <2>2. /\ DOMAIN levels = 1 .. 3 /\ Len(levels) = 3
        /\ levels[1] = "genre" /\ levels[2] = "artist" /\ levels[3] = "album"
    BY <2>1
  <2>3. GivenBy(path, levels, "genre") = IF 1 + 2 <= Len(path) THEN {path[2 + 1]} ELSE Nothing
    BY <1>3, <2>2
  <2>4. GivenBy(path, levels, "artist") = IF 2 + 2 <= Len(path) THEN {path[2 + 2]} ELSE Nothing
    BY <1>3, <2>2
  <2>5. GivenBy(path, levels, "album") = IF 3 + 2 <= Len(path) THEN {path[2 + 3]} ELSE Nothing
    BY <1>3, <2>2
  <2>6. \A i \in 1 .. 4 - s : levels[i] = Hierarchy[s + i - 1]
    BY <1>1, <1>5, <2>2
  <2>7. LevelSays(1)
    BY <1>1, <1>2, <1>5, <2>3
  <2>8. LevelSays(2)
    BY <1>1, <1>2, <1>5, <2>4
  <2>9. LevelSays(3)
    BY <1>1, <1>2, <1>5, <2>5
  <2> HIDE DEF LevelSays
  <2>10. \A i \in 1 .. 3 : LevelSays(i)
    BY <2>7, <2>8, <2>9
  <2> QED  BY <1>5, <2>2, <2>6, <2>10 DEF levels, LevelSays
<1>6. CASE s = 2
  <2>1. levels = <<"artist", "album">>
    BY <1>6, LevelsAre DEF BranchAt
  <2> HIDE DEF levels
  <2>2. /\ DOMAIN levels = 1 .. 2 /\ Len(levels) = 2
        /\ levels[1] = "artist" /\ levels[2] = "album"
    BY <2>1
  <2>3. GivenBy(path, levels, "genre") = Nothing
    BY <1>4, <2>2
  <2>4. GivenBy(path, levels, "artist") = IF 1 + 2 <= Len(path) THEN {path[2 + 1]} ELSE Nothing
    BY <1>3, <2>2
  <2>5. GivenBy(path, levels, "album") = IF 2 + 2 <= Len(path) THEN {path[2 + 2]} ELSE Nothing
    BY <1>3, <2>2
  <2>6. \A i \in 1 .. 4 - s : levels[i] = Hierarchy[s + i - 1]
    BY <1>1, <1>6, <2>2
  <2>7. LevelSays(1)
    BY <1>1, <1>2, <1>6, <2>3
  <2>8. LevelSays(2)
    BY <1>1, <1>2, <1>6, <2>4
  <2>9. LevelSays(3)
    BY <1>1, <1>2, <1>6, <2>5
  <2> HIDE DEF LevelSays
  <2>10. \A i \in 1 .. 3 : LevelSays(i)
    BY <2>7, <2>8, <2>9
  <2> QED  BY <1>6, <2>2, <2>6, <2>10 DEF levels, LevelSays
<1>7. CASE s = 3
  <2>1. levels = <<"album">>
    BY <1>7, LevelsAre DEF BranchAt
  <2> HIDE DEF levels
  <2>2. DOMAIN levels = 1 .. 1 /\ Len(levels) = 1 /\ levels[1] = "album"
    BY <2>1
  <2>3. GivenBy(path, levels, "genre") = Nothing
    BY <1>4, <2>2
  <2>4. GivenBy(path, levels, "artist") = Nothing
    BY <1>4, <2>2
  <2>5. GivenBy(path, levels, "album") = IF 1 + 2 <= Len(path) THEN {path[2 + 1]} ELSE Nothing
    BY <1>3, <2>2
  <2>6. \A i \in 1 .. 4 - s : levels[i] = Hierarchy[s + i - 1]
    BY <1>1, <1>7, <2>2
  <2>7. LevelSays(1)
    BY <1>1, <1>2, <1>7, <2>3
  <2>8. LevelSays(2)
    BY <1>1, <1>2, <1>7, <2>4
  <2>9. LevelSays(3)
    BY <1>1, <1>2, <1>7, <2>5
  <2> HIDE DEF LevelSays
  <2>10. \A i \in 1 .. 3 : LevelSays(i)
    BY <2>7, <2>8, <2>9
  <2> QED  BY <1>7, <2>2, <2>6, <2>10 DEF levels, LevelSays
<1> QED  BY <1>5, <1>6, <1>7

\* What is counted, from the s-th level on.
LEMMA CountKeysFacts ==
  ASSUME NEW level \in 1 .. 4
  PROVE  /\ Len(CountKeys(level)) = 5 - level
         /\ \A n \in 1 .. 5 - level :
              CountKeys(level)[n] = IF n + level - 1 = 4 THEN "*" ELSE Hierarchy[n + level - 1]
<1>1. PICK all : all = <<"genre", "artist", "album", "*">>
  OBVIOUS
<1>2. /\ all \in Seq({"genre", "artist", "album", "*"}) /\ Len(all) = 4
      /\ all[1] = "genre" /\ all[2] = "artist" /\ all[3] = "album" /\ all[4] = "*"
  BY <1>1
<1>3. CountKeys(level) = SubSeq(all, level, 4)
  BY <1>1 DEF CountKeys
<1>4. \A n \in 1 .. 5 - level : CountKeys(level)[n] = all[level + n - 1]
  <2>1. \A i \in 1 .. 4 - level + 1 : SubSeq(all, level, 4)[i] = all[level + i - 1]
    BY <1>2, SubSeqProperties
  <2> QED  BY <1>3, <2>1
<1>5. \A n \in 1 .. 5 - level :
        all[level + n - 1] = IF n + level - 1 = 4 THEN "*" ELSE Hierarchy[n + level - 1]
  BY <1>2 DEF Hierarchy
<1> QED  BY <1>4, <1>5, CountKeysLen

LEMMA ServicePlan ==
  ASSUME NEW type \in Types, NEW title, NEW path \in Seq(STRING),
         LevelsOf(path) = << >>, Len(path) <= 2
  PROVE  ContainerPlan(GetService(type, title), path)
<1> DEFINE p == GetService(type, title)
<1>1. /\ p.kind = "container" /\ p.type = type /\ p.unique = "mime" /\ p.max = 1
      /\ p.title = {title} /\ p.counts = <<"*">> /\ p.concat = {} /\ p.rows = FALSE
      /\ p.category = Everything
  BY DEF GetService, Plan
<1> HIDE DEF p
<1>2. Given(path) = 0
  <2>1. Len(path) \in Nat
    OBVIOUS
  <2>2. Len(path) - 2 \in Int /\ ~(Len(path) - 2 > 0)
    BY <2>1
  <2> QED  BY <2>2, MaxWithZero DEF Given
<1>3. p.counts \in Seq({"genre", "artist", "album", "*"}) /\ Len(p.counts) = 1
      /\ p.counts[1] = "*"
  BY <1>1
<1>4. Len(LevelsOf(path)) = 0 /\ p.max = (Len(LevelsOf(path)) + 1) - Given(path)
  BY <1>1, <1>2
<1>5. CountsChildren(p, path)
  <2> SUFFICES ASSUME NEW n \in 1 .. p.max
               PROVE  n + Given(path) > Len(LevelsOf(path)) /\ p.counts[n] = "*"
    BY DEF CountsChildren
  <2>1. n = 1
    BY <1>1
  <2> QED  BY <1>2, <1>3, <1>4, <2>1
<1>6. \A key \in {"genre", "artist", "album"} : p.category[key] = Nothing
  BY <1>1, EverythingFacts
<1>7. GroupsByCategory(p)
  <2>1. p.category.artist = Nothing /\ p.category.album = Nothing
    BY <1>6
  <2>2. p.unique \notin {"genre", "artist", "album"}
    BY <1>1
  <2> QED  BY <1>1, <1>6, <2>1, <2>2 DEF GroupsByCategory
<1>8. ContainerKeys(p) /\ ContainerConcat(p)
  BY <1>1 DEF ContainerKeys, ContainerConcat, Nothing
<1>9. p.category = [key \in {"genre", "artist", "album"} |-> p.category[key]]
  BY <1>1, EverythingFacts
<1>10. p.max <= Len(p.counts)
  BY <1>1, <1>3
<1>11. ~(Len(path) > 2)
  BY Len(path) \in Nat
<1>12. \A key \in {"genre", "artist", "album"} : \A u, v \in p.category[key] : u = v
  BY <1>6 DEF Nothing
<1> QED
  BY <1>1, <1>3, <1>4, <1>5, <1>7, <1>8, <1>9, <1>10, <1>11, <1>12 DEF ContainerPlan, p

\* A category that has what a path gives from the s-th level on.
Gives(category, path, s) ==
  /\ category = [key \in {"genre", "artist", "album"} |-> category[key]]
  /\ \A i \in 1 .. 3 :
       category[Hierarchy[i]]
         = IF i >= s /\ i - s + 3 <= Len(path) THEN {path[i - s + 3]} ELSE Nothing

LEMMA CategoryPlan ==
  ASSUME NEW s \in 1 .. 3, NEW path \in Seq(STRING), NEW title, NEW category,
         LevelsOf(path) = Levels(BranchAt(s)), Len(path) >= 2, Len(path) <= 6 - s,
         Gives(category, path, s)
  PROVE  ContainerPlan(GetCategory(Hierarchy[s], title, category), path)
<1> DEFINE default == Hierarchy[s]
           given == {i \in 1 .. 3 : category[Hierarchy[i]] # Nothing}
           level == IF given # {} THEN Max(given)
                    ELSE CHOOSE i \in 1 .. 3 : Hierarchy[i] = default
           p == GetCategory(default, title, category)
<1>1. /\ p.kind = "container" /\ p.type = "music" /\ p.category = category
      /\ p.unique = Hierarchy[level]
      /\ p.title = IF given # {} THEN category[Hierarchy[level]] ELSE {title}
      /\ p.max = IF given # {} THEN 4 - level ELSE 5 - level
      /\ p.counts = IF given # {} THEN CountKeys(level + 1) ELSE CountKeys(level)
      /\ p.concat = CASE category.artist # Nothing /\ category.album = Nothing -> {"album"}
                      [] category.artist = Nothing /\ category.album # Nothing -> {"artist"}
                      [] OTHER -> {}
      /\ p.rows <=> given = {}
  BY DEF GetCategory, Plan, OfValue
<1>2. PICK g : g = Len(path) - 2
  OBVIOUS
<1>3. g \in 0 .. 4 - s /\ Len(path) = g + 2
  <2>1. Len(path) \in Nat
    OBVIOUS
  <2> QED  BY <1>2, <2>1
<1>4. given = s .. s + g - 1
  <2>1. \A i \in 1 .. 3 : i \in given <=> i >= s /\ i - s + 3 <= Len(path)
    BY DEF Gives, Nothing
  <2>2. \A i \in 1 .. 3 : i \in given <=> i \in s .. s + g - 1
    BY <1>3, <2>1
  <2>3. s .. s + g - 1 \subseteq 1 .. 3 /\ given \subseteq 1 .. 3
    BY <1>3
  <2> HIDE DEF given
  <2> QED  BY <2>2, <2>3
<1>5. g = 0 => given = {} /\ level = s
  <2>1. g = 0 => given = {}
    BY <1>3, <1>4
  <2>2. \A i \in 1 .. 3 : Hierarchy[i] = Hierarchy[s] => i = s
    BY DEF Hierarchy
  <2> HIDE DEF given
  <2> QED  BY <2>1, <2>2
<1>6. g > 0 => given # {} /\ level = s + g - 1
  <2> SUFFICES ASSUME g > 0 PROVE given # {} /\ level = s + g - 1
    OBVIOUS
  <2>1. PICK last : last = s + g - 1
    OBVIOUS
  <2>2. /\ last \in given
        /\ \A j \in given : last >= j
        /\ \A i \in given : (\A j \in given : i >= j) => i = last
    BY <1>3, <1>4, <2>1
  <2> HIDE DEF given
  <2>3. Max(given) = last
    BY <2>2 DEF Max
  <2> QED  BY <2>1, <2>2, <2>3
<1> HIDE DEF given, level, default, p
<1>7. /\ level \in 1 .. 3
      /\ p.max = 5 - s - g /\ p.counts = CountKeys(s + g) /\ s + g \in 1 .. 4
      /\ p.rows <=> g = 0
  <2>1. CASE g = 0
    BY <1>1, <1>3, <1>5, <2>1
  <2>2. CASE g > 0
    <3>1. level \in 1 .. 3 /\ level + 1 = s + g /\ 4 - level = 5 - s - g
      BY <1>3, <1>6, <2>2
    <3> QED  BY <1>1, <1>3, <1>6, <2>2, <3>1
  <2> QED  BY <1>3, <2>1, <2>2
<1>8. /\ Len(LevelsOf(path)) = 4 - s
      /\ \A i \in 1 .. 4 - s : LevelsOf(path)[i] = Hierarchy[s + i - 1]
  BY BranchFacts
<1>9. Given(path) = g
  BY <1>2, <1>3, MaxWithZero DEF Given
<1>10. /\ Len(p.counts) = 5 - (s + g)
       /\ \A n \in 1 .. 5 - (s + g) :
            p.counts[n] = IF n + (s + g) - 1 = 4 THEN "*" ELSE Hierarchy[n + (s + g) - 1]
  BY <1>7, CountKeysFacts
<1>11. \A i \in 1 .. 3 : Hierarchy[i] \in {"genre", "artist", "album"}
  BY DEF Hierarchy
<1>12. ASSUME NEW n \in 1 .. p.max
       PROVE  LET at == n + Given(path)
                  levels == LevelsOf(path)
              IN  IF at > Len(levels) THEN p.counts[n] = "*"
                  ELSE /\ p.counts[n] = levels[at]
                       /\ 1 \in DOMAIN levels /\ at \in DOMAIN levels
                       /\ levels[1] \in {"genre", "artist", "album"}
                       /\ levels[at] \in {"genre", "artist", "album"}
                       /\ IF p.rows THEN levels[1] = p.unique
                          ELSE p.category[levels[1]] # Nothing
  <2>1. n \in 1 .. 5 - s - g /\ n \in 1 .. 5 - (s + g)
    BY <1>3, <1>7
  <2>2. CASE n + g > 4 - s
    <3>1. n + (s + g) - 1 = 4
      BY <1>3, <2>1, <2>2
    <3>2. p.counts[n] = "*"
      BY <1>10, <2>1, <3>1
    <3> QED  BY <1>8, <1>9, <2>2, <3>2
  <2>3. CASE ~(n + g > 4 - s)
    <3>1. n + g \in 1 .. 4 - s /\ 1 \in 1 .. 4 - s /\ s + (n + g) - 1 \in 1 .. 3
          /\ n + (s + g) - 1 = s + (n + g) - 1
      BY <1>3, <2>1, <2>3
    <3>2. p.counts[n] = Hierarchy[s + (n + g) - 1]
      BY <1>10, <2>1, <3>1
    <3>3. LevelsOf(path)[n + g] = Hierarchy[s + (n + g) - 1]
      BY <1>8, <3>1
    <3>4. LevelsOf(path)[1] = Hierarchy[s]
      BY <1>8, <3>1
    <3>5. DOMAIN LevelsOf(path) = 1 .. 4 - s
      <4>1. LevelsOf(path) \in Seq({"genre", "artist", "album"})
        <5>1. CASE s = 1
          <6>1. Levels(BranchAt(s)) = <<"genre", "artist", "album">>
            BY <5>1, LevelsAre DEF BranchAt
          <6> QED  BY <6>1
        <5>2. CASE s = 2
          <6>1. Levels(BranchAt(s)) = <<"artist", "album">>
            BY <5>2, LevelsAre DEF BranchAt
          <6> QED  BY <6>1
        <5>3. CASE s = 3
          <6>1. Levels(BranchAt(s)) = <<"album">>
            BY <5>3, LevelsAre DEF BranchAt
          <6> QED  BY <6>1
        <5> QED  BY <5>1, <5>2, <5>3
      <4> QED  BY <1>8, <4>1
    <3>6. p.rows => Hierarchy[s] = p.unique
      BY <1>1, <1>5, <1>7
    <3>7. ~p.rows => p.category[Hierarchy[s]] # Nothing
      <4>1. ~p.rows => s \in given
        BY <1>3, <1>4, <1>7
      <4> QED  BY <1>1, <4>1 DEF given
    <3> QED  BY <1>8, <1>9, <1>11, <2>3, <3>1, <3>2, <3>3, <3>4, <3>5, <3>6, <3>7
  <2> QED  BY <2>2, <2>3
<1>13. CountsChildren(p, path)
  BY <1>12 DEF CountsChildren
<1>14. /\ p.unique \in {"genre", "artist", "album"}
       /\ p.rows <=> p.category[p.unique] = Nothing
  <2>1. p.unique \in {"genre", "artist", "album"}
    BY <1>1, <1>7, <1>11
  <2>2. CASE g = 0
    <3>1. level \notin given
      BY <1>5, <2>2
    <3> QED  BY <1>1, <1>7, <2>1, <2>2, <3>1 DEF given
  <2>3. CASE g > 0
    <3>1. level \in given
      BY <1>3, <1>4, <1>6, <2>3
    <3> QED  BY <1>1, <1>7, <2>1, <2>3, <3>1 DEF given
  <2> QED  BY <1>3, <2>1, <2>2, <2>3
<1>15. p.rows => \A key \in {"genre", "artist", "album"} : p.category[key] = Nothing
  <2> SUFFICES ASSUME p.rows, NEW key \in {"genre", "artist", "album"}
               PROVE  p.category[key] = Nothing
    OBVIOUS
  <2>1. given = {}
    BY <1>1
  <2>2. PICK i \in 1 .. 3 : key = Hierarchy[i]
    BY DEF Hierarchy
  <2> QED  BY <1>1, <2>1, <2>2 DEF given
<1>16. GroupsByCategory(p)
  <2>1. p.unique # "mime"
    BY <1>14
  <2> QED  BY <1>1, <1>14, <1>15, <2>1 DEF GroupsByCategory
<1>17. p.title # Nothing /\ (Len(path) > 2 => p.title = {Last(path)})
  <2>1. CASE g = 0
    <3>1. p.title = {title}
      BY <1>1, <1>5, <2>1
    <3>2. ~(Len(path) > 2)
      BY <1>3, <2>1
    <3> QED  BY <3>1, <3>2 DEF Nothing
  <2>2. CASE g > 0
    <3>1. level >= s /\ level - s + 3 <= Len(path) /\ level - s + 3 = Len(path)
      BY <1>3, <1>6, <2>2
    <3>2. p.title = {path[Len(path)]}
      BY <1>1, <1>6, <1>7, <2>2, <3>1 DEF Gives
    <3> QED  BY <3>2 DEF Last, Nothing
  <2> QED  BY <1>3, <2>1, <2>2
<1>18. ContainerKeys(p)
  BY <1>1, <1>3, <1>7, <1>14, <1>17, TypeNames DEF ContainerKeys
<1>19. ContainerConcat(p)
  <2>1. CASE category.artist # Nothing /\ category.album = Nothing
    <3>1. p.concat = {"album"}
      BY <1>1, <2>1
    <3>2. p.unique # "album"
      <4>1. ~p.rows
        BY <1>1, <1>15, <2>1
      <4> QED  BY <1>1, <1>14, <2>1, <4>1
    <3> QED  BY <1>1, <2>1, <3>1, <3>2 DEF ContainerConcat
  <2>2. CASE category.artist = Nothing /\ category.album # Nothing
    <3>1. p.concat = {"artist"}
      BY <1>1, <2>2
    <3>2. p.unique # "artist"
      <4>1. ~p.rows
        BY <1>1, <1>15, <2>2
      <4> QED  BY <1>1, <1>14, <2>2, <4>1
    <3> QED  BY <1>1, <2>2, <3>1, <3>2 DEF ContainerConcat
  <2>3. CASE (category.artist # Nothing) <=> (category.album # Nothing)
    <3>1. p.concat = {}
      BY <1>1, <2>3
    <3> QED  BY <3>1 DEF ContainerConcat
  <2> QED  BY <2>1, <2>2, <2>3
<1>20. /\ p.category = [key \in {"genre", "artist", "album"} |-> p.category[key]]
       /\ \A key \in {"genre", "artist", "album"} : \A u, v \in p.category[key] : u = v
  <2>1. p.category = [key \in {"genre", "artist", "album"} |-> p.category[key]]
    BY <1>1 DEF Gives
  <2>2. \A i \in 1 .. 3 : \A u, v \in category[Hierarchy[i]] : u = v
    BY DEF Gives, Nothing
  <2>3. \A key \in {"genre", "artist", "album"} : \E i \in 1 .. 3 : key = Hierarchy[i]
    BY DEF Hierarchy
  <2>4. ASSUME NEW key \in {"genre", "artist", "album"}
        PROVE  \A u, v \in category[key] : u = v
    <3>1. PICK i \in 1 .. 3 : key = Hierarchy[i]
      BY <2>3
    <3> QED  BY <2>2, <3>1
  <2>5. p.category = category
    BY <1>1
  <2> QED  BY <2>1, <2>4, <2>5
<1>21. p.counts \in Seq({"genre", "artist", "album", "*"})
  BY <1>7, CountKeysAre
<1>22. /\ p.max = (Len(LevelsOf(path)) + 1) - Given(path)
       /\ p.max <= Len(p.counts)
       /\ p.rows => p.max > 1 /\ Given(path) = 0
  BY <1>3, <1>7, <1>8, <1>9, <1>10
<1> QED
  BY <1>1, <1>13, <1>16, <1>17, <1>18, <1>19, <1>20, <1>21, <1>22 DEF ContainerPlan, p, default

\* The plan of any container.
LEMMA MetadataPlanOfContainer ==
  ASSUME NEW path \in Seq(STRING), CategoryInfo(path).clip = Nothing,
         CategoryInfo(path).category \notin {"error", "root", "music"}
  PROVE  ContainerPlan(MetadataPlan(path), path)
<1>1. PICK info, c : info = CategoryInfo(path) /\ c = info.category
  OBVIOUS
<1>2. c \in Categories \ {"root", "music", "error"}
  BY <1>1, CategoryIsKnown
<1>3. /\ c = "videos" => Len(path) = 1
      /\ c # "videos" =>
           /\ c \in {"songs", "playlists", "albums", "artists", "genres"}
           /\ Len(path) >= 2 /\ path[2] = c
           /\ Len(path) <= 2 + Len(Levels(c))
           /\ \A key \in {"genre", "artist", "album"} :
                info[key] = GivenBy(path, Levels(c), key)
  BY <1>1, <1>2, PathOfContainer
<1>4. Len(path) \in Nat
  OBVIOUS
<1>5. ContainerPlan(MetadataPlan(path), path)
  <2>1. CASE c = "videos"
    <3>0. Len(path) = 1
      BY ONLY <1>3, <2>1
    <3>1. LevelsOf(path) = << >>
      <4>1. PICK branch : branch = IF Len(path) > 1 THEN path[2] ELSE Hole
        OBVIOUS
      <4>2. branch \notin {"albums", "artists", "genres"}
        <5>1. ~(Len(path) > 1)
          BY <3>0
        <5>2. branch = Hole
          BY <4>1, <5>1
        <5> QED  BY <5>2 DEF Hole
      <4>3. LevelsOf(path) = Levels(branch)
        BY <4>1 DEF LevelsOf
      <4> QED  BY <4>2, <4>3, LevelsAre
    <3>2. MetadataPlan(path) = GetService("video", "Videos")
      BY <1>1, <2>1 DEF MetadataPlan
    <3>3. "video" \in Types /\ Len(path) <= 2
      BY <3>0, TypeNames
    <3>4. PICK type, title : type = "video" /\ title = "Videos"
      OBVIOUS
    <3>5. ContainerPlan(GetService(type, title), path)
      BY <3>1, <3>3, <3>4, ServicePlan
    <3> QED  BY <3>2, <3>4, <3>5
  <2>2. CASE c \in {"songs", "playlists"}
    <3>1. LevelsOf(path) = << >> /\ Levels(c) = << >>
      BY <1>3, <1>4, <2>2, LevelsAre DEF LevelsOf
    <3>2. Len(path) <= 2
      BY <1>3, <1>4, <2>2, <3>1
    <3>3. MetadataPlan(path) \in {GetService("music", "Songs"), GetService("playlist", "Playlists")}
      BY <1>1, <2>2 DEF MetadataPlan
    <3> QED  BY <3>1, <3>2, <3>3, ServicePlan, TypeNames
  <2>3. ASSUME NEW s \in 1 .. 3, c = BranchAt(s)
        PROVE  ContainerPlan(MetadataPlan(path), path)
    <3>1. c \in {"albums", "artists", "genres"}
      BY <2>3 DEF BranchAt
    <3>2. LevelsOf(path) = Levels(BranchAt(s))
      BY <1>3, <1>4, <2>3, <3>1 DEF LevelsOf
    <3>3. Len(path) >= 2 /\ Len(path) <= 6 - s
      <4>1. Len(Levels(BranchAt(s))) = 4 - s
        BY BranchFacts
      <4> QED  BY <1>3, <1>4, <2>3, <3>1, <4>1
    <3>4. PICK category : category = Only(info, {"genre", "artist", "album"})
      OBVIOUS
    <3>5. PICK title \in {"Artists", "Albums", "Genres"} :
            MetadataPlan(path) = GetCategory(Hierarchy[s], title, category)
      <4>1. CASE s = 1  BY <1>1, <2>3, <3>4, <4>1 DEF MetadataPlan, BranchAt, Hierarchy
      <4>2. CASE s = 2  BY <1>1, <2>3, <3>4, <4>2 DEF MetadataPlan, BranchAt, Hierarchy
      <4>3. CASE s = 3  BY <1>1, <2>3, <3>4, <4>3 DEF MetadataPlan, BranchAt, Hierarchy
      <4> QED  BY <4>1, <4>2, <4>3
    <3>6. Gives(category, path, s)
      <4>1. category = [key \in {"genre", "artist", "album"} |-> info[key]]
        BY <3>4 DEF Only
      <4>2. category = [key \in {"genre", "artist", "album"} |-> category[key]]
        BY <4>1
      <4>3. ASSUME NEW i \in 1 .. 3
            PROVE  category[Hierarchy[i]]
                     = IF i >= s /\ i - s + 3 <= Len(path) THEN {path[i - s + 3]} ELSE Nothing
        <5>1. Hierarchy[i] \in {"genre", "artist", "album"}
          BY DEF Hierarchy
        <5>2. category[Hierarchy[i]] = GivenBy(path, Levels(BranchAt(s)), Hierarchy[i])
          BY <1>3, <2>3, <3>1, <4>1, <5>1
        <5> QED  BY <5>2, BranchFacts
      <4> QED  BY <4>2, <4>3 DEF Gives
    <3> QED  BY <3>2, <3>3, <3>5, <3>6, CategoryPlan
  <2>4. c \in {"albums", "artists", "genres"} => \E s \in 1 .. 3 : c = BranchAt(s)
    <3>1. BranchAt(1) = "genres" /\ BranchAt(2) = "artists" /\ BranchAt(3) = "albums"
      BY DEF BranchAt
    <3> QED  BY <3>1
  <2> QED  BY <1>2, <2>1, <2>2, <2>3, <2>4 DEF Categories
<1> QED  BY <1>5

\* Only get_metadata() asks about containers, and it has no filter.
LEMMA QueryOfContainer ==
  ASSUME NEW q \in Queries, PlanOf(q).kind = "container"
  PROVE  /\ PlanOf(q) = MetadataPlan(q.path) /\ q.filter = NoFilter
         /\ q.path \in Seq(STRING) /\ CategoryInfo(q.path).clip = Nothing
         /\ CategoryInfo(q.path).category \notin {"error", "root", "music"}
<1>1. /\ q.op \in {"browse", "get_metadata", "get_metadatas"}
      /\ q.op # "browse" => q.filter = NoFilter
      /\ q.path \in Seq(STRING)
      /\ q.recursive \in BOOLEAN
      /\ CategoryInfo(q.path).category # "root"
      /\ CategoryInfo(q.path).category = "music" => q.op = "browse" /\ q.recursive
      /\ CategoryInfo(q.path).clip # Nothing => q.op = "browse"
      /\ CategoryInfo(q.path).clip # Nothing => CategoryInfo(q.path).category # "playlists"
  BY QueriesAssumption
<1>2. PICK path, info, c : /\ path = q.path /\ info = CategoryInfo(path)
                           /\ c = info.category
  OBVIOUS
<1>3. q.op # "browse"
  <2> SUFFICES ASSUME q.op = "browse" PROVE FALSE
    OBVIOUS
  <2>1. PlanOf(q) = BrowsePlan(q.path, q.recursive)
    BY DEF PlanOf
  <2>2. \A type, category, prefix : GetList(type, category, prefix).kind = "list"
    BY DEF GetList, Plan
  <2>3. \A key, category, prefix : GetUnique(key, category, prefix).kind = "unique"
    BY DEF GetUnique, Plan
  <2>4. NoPlan.kind = "none"
    BY DEF NoPlan, Plan
  <2>5. BrowsePlan(q.path, q.recursive).kind \in {"list", "unique", "none"}
    <3>1. c \in Categories \ {"root"} /\ (c = "music" => q.recursive)
          /\ (info.clip # Nothing => c # "playlists")
      BY <1>1, <1>2, CategoryIsKnown
    <3>2. CASE c = "error" \/ info.clip # Nothing
      <4>1. c = "error" \/ (info.clip # Nothing /\ c # "playlists")
        BY <3>1, <3>2
      <4>2. BrowsePlan(path, q.recursive) = NoPlan
        BY ONLY <1>2, <4>1 DEF BrowsePlan
      <4> QED  BY <1>2, <2>4, <4>2
    <3>3. CASE c \in {"albums", "artists", "genres"} /\ info.clip = Nothing
      <4>1. PICK missing : missing = {i \in DOMAIN Levels(c) : info[Levels(c)[i]] = Nothing}
        OBVIOUS
      <4>2. BrowsePlan(path, q.recursive) =
              IF q.recursive
              THEN GetList("music", Only(info, {"genre", "artist", "album"}), Songs)
              ELSE IF missing = {}
              THEN GetList("music", Only(info, {"genre", "artist", "album"}), path)
              ELSE GetUnique(Levels(c)[Min(missing)], Only(info, {"genre", "artist"}), path)
        BY <1>2, <3>3, <4>1 DEF BrowsePlan
      <4> QED  BY <1>2, <2>2, <2>3, <4>2
    <3>4. CASE c \in {"videos", "playlists", "songs", "music"} /\ info.clip = Nothing
      <4>1. \/ BrowsePlan(path, q.recursive) = GetList("video", Everything, path)
            \/ BrowsePlan(path, q.recursive) = GetList("playlist", Everything, path)
            \/ BrowsePlan(path, q.recursive) = GetList("music", Everything, Songs)
        BY <1>2, <3>1, <3>4 DEF BrowsePlan
      <4> QED  BY <1>2, <2>2, <4>1
    <3> QED  BY <3>1, <3>2, <3>3, <3>4 DEF Categories
  <2> QED  BY <2>1, <2>5
<1>4. q.op = "get_metadata"
  <2> SUFFICES ASSUME q.op = "get_metadatas" PROVE FALSE
    BY <1>1, <1>3
  <2>1. PlanOf(q) = ClipsPlan(q.path)
    BY DEF PlanOf
  <2>2. \A type : Plan("clips", type, Everything, q.path).kind = "clips"
    BY DEF Plan
  <2>3. NoPlan.kind = "none"
    BY DEF NoPlan, Plan
  <2>4. ClipsPlan(q.path).kind \in {"clips", "none"}
    BY <2>2, <2>3 DEF ClipsPlan
  <2> QED  BY <2>1, <2>4
<1>5. PlanOf(q) = MetadataPlan(path) /\ path \in Seq(STRING) /\ info.clip = Nothing
  BY <1>1, <1>2, <1>4 DEF PlanOf
<1>6. c \in Categories \ {"root", "music", "error"}
  <2>1. c \in Categories \ {"root", "music"}
    BY <1>1, <1>2, <1>4, CategoryIsKnown
  <2>2. c # "error"
    <3>1. NoPlan.kind = "none"
      BY DEF NoPlan, Plan
    <3>2. c = "error" => MetadataPlan(path) = NoPlan
      BY <1>2 DEF MetadataPlan
    <3> QED  BY <1>5, <3>1, <3>2
  <2> QED  BY <2>1, <2>2
<1> QED  BY <1>1, <1>2, <1>3, <1>5, <1>6

LEMMA PlanOfContainer ==
  ASSUME NEW q \in Queries, PlanOf(q).kind = "container"
  PROVE  ContainerPlan(PlanOf(q), q.path) /\ q.filter = NoFilter
<1>1. PICK path : path = q.path
  OBVIOUS
<1>2. /\ PlanOf(q) = MetadataPlan(path) /\ q.filter = NoFilter
      /\ path \in Seq(STRING) /\ CategoryInfo(path).clip = Nothing
      /\ CategoryInfo(path).category \notin {"error", "root", "music"}
  BY <1>1, QueryOfContainer
<1>3. ContainerPlan(MetadataPlan(path), path)
  BY <1>2, MetadataPlanOfContainer
<1> QED  BY <1>1, <1>2, <1>3

-----------------------------------------------------------------------------
(* What is added up.                                                       *)

LEMMA SumOfFiles ==
  ASSUME NEW S, NEW key, NEW g, g = [f \in S |-> TextIn(Property(f, key))], Numbers(g, S)
  PROVE  Sum(S, key) = Total(g, S)
<1> DEFINE step(h) == [T \in SUBSET S |->
                         IF T = {} THEN 0
                         ELSE TextIn(Property(CHOOSE f \in T : TRUE, key))
                                + h[T \ {CHOOSE f \in T : TRUE}]]
<1>1. Sum(S, key) = (CHOOSE h : h = step(h))[S]
  BY DEF Sum, MapThenSumSet, MapThenFoldSet
<1>2. \A h : step(h) = Summing(S, g, h)
  <2> SUFFICES ASSUME NEW h, NEW T \in SUBSET S, T # {}
               PROVE  TextIn(Property(CHOOSE f \in T : TRUE, key)) = g[Pick(T)]
    BY DEF Summing, Pick
  <2>1. Pick(T) \in S
    BY PickFacts
  <2> QED  BY <2>1 DEF Pick
<1> HIDE DEF step
<1>3. PICK sum : sum = CHOOSE h : h = step(h)
  OBVIOUS
<1>4. \E h : h = step(h)
  BY <1>2, SummingFacts
<1>5. sum = step(sum)
  BY <1>3, <1>4
<1>6. sum = Summing(S, g, sum)
  BY <1>2, <1>5
<1>7. sum[S] = Total(g, S)
  BY <1>6, SummingFacts
<1> QED  BY <1>1, <1>3, <1>7

\* _aggregate_key adds up the numbers that the rows have.
LEMMA SumOfRows ==
  ASSUME NEW c, NEW answered, IsFiniteSet(DOMAIN answered), NEW k, NEW g,
         \A n \in DOMAIN answered : g[n] \in Int /\ ValueGet(c, answered, n, k) = {g[n]},
         NEW counted, counted => k # "childcount(1)"
  PROVE  AggregateKey(c, answered, k, counted) = Total(g, DOMAIN answered)
<1> DEFINE S == DOMAIN answered
           number(n) == CHOOSE x \in ValueGet(c, answered, n, k) \cup {0} :
                          ValueGet(c, answered, n, k) \subseteq {x}
           step(h) == [T \in SUBSET S |->
                         IF T = {} THEN 0
                         ELSE number(CHOOSE n \in T : TRUE)
                                + h[T \ {CHOOSE n \in T : TRUE}]]
<1>1. AggregateKey(c, answered, k, counted) = (CHOOSE h : h = step(h))[S]
  BY DEF AggregateKey, MapThenSumSet, MapThenFoldSet
<1>2. \A n \in S : number(n) = g[n]
  <2> SUFFICES ASSUME NEW n \in S PROVE number(n) = g[n]
    OBVIOUS
  <2>1. PICK cell, v : cell = ValueGet(c, answered, n, k) /\ v = g[n]
    OBVIOUS
  <2>2. cell = {v}
    BY <2>1
  <2>3. number(n) = CHOOSE x \in cell \cup {0} : cell \subseteq {x}
    BY <2>1
  <2>4. (CHOOSE x \in cell \cup {0} : cell \subseteq {x}) = v
    BY <2>2
  <2> QED  BY <2>1, <2>3, <2>4
<1> HIDE DEF number
<1>3. \A h : step(h) = Summing(S, g, h)
  <2> SUFFICES ASSUME NEW h, NEW T \in SUBSET S, T # {}
               PROVE  number(CHOOSE n \in T : TRUE) = g[Pick(T)]
    BY DEF Summing, Pick
  <2>1. Pick(T) \in S
    BY PickFacts
  <2> QED  BY <1>2, <2>1 DEF Pick
<1>4. Numbers(g, S)
  BY DEF Numbers
<1> HIDE DEF step, S
<1>5. PICK sum : sum = CHOOSE h : h = step(h)
  OBVIOUS
<1>6. \E h : h = step(h)
  BY <1>3, <1>4, SummingFacts
<1>7. sum = step(sum)
  BY <1>5, <1>6
<1>8. sum = Summing(S, g, sum)
  BY <1>3, <1>7
<1>9. sum[S] = Total(g, S)
  BY <1>4, <1>8, SummingFacts
<1> QED  BY <1>1, <1>5, <1>9 DEF S

\* What one aggregate makes of the files of a group.
AggregateOf(a, file, J) ==
  CASE a = Aggregate("count", "*") -> {Cardinality(J)}
    [] a.type = "count" /\ a.key # "*" -> {Cardinality(UNION {Song(file[j])[a.key] : j \in J})}
    [] a.type = "concat" -> UNION {Song(file[j])[a.key] : j \in J}
    [] a.type = "sum" -> {Total([j \in J |-> TextIn(Song(file[j])[a.key])], J)}

LEMMA AggregatedFiles ==
  ASSUME NEW n \in Nat, NEW file, NEW J \in SUBSET (1 .. n), NEW songs,
         songs = Selected([i \in 1 .. n |-> Song(file[i])], J), NEW a,
         a = Aggregate(a.type, a.key), a.type \in {"count", "concat", "sum"},
         a.type = "sum" => \A j \in J : TextIn(Song(file[j])[a.key]) \in Int
  PROVE  Aggregated(a, songs) = AggregateOf(a, file, J)
<1>1. J \in SUBSET Nat /\ IsFiniteSet(J)
  <2>1. IsFiniteSet(1 .. n)
    BY FS_Interval
  <2>2. 1 .. n \subseteq Nat
    OBVIOUS
  <2> QED  BY <2>1, <2>2, FS_Subset
<1>2. PICK at, m : at = Sorted(J) /\ m = Cardinality(J)
  OBVIOUS
<1>3. /\ m \in Nat /\ at \in [1 .. m -> J]
      /\ \A j \in J : \E k \in 1 .. m : at[k] = j
      /\ \A j, k \in 1 .. m : j < k => at[j] < at[k]
  BY <1>1, <1>2, SortedFacts
<1>4. \A j, k \in 1 .. m : at[j] = at[k] => j = k
  <2>1. \A k \in 1 .. m : at[k] \in Nat
    BY <1>1, <1>3
  <2> SUFFICES ASSUME NEW j \in 1 .. m, NEW k \in 1 .. m, j # k PROVE at[j] # at[k]
    OBVIOUS
  <2>2. CASE j < k  BY <1>3, <2>1, <2>2
  <2>3. CASE k < j  BY <1>3, <2>1, <2>3
  <2> QED  BY <2>2, <2>3
<1>5. Matches(at, 1 .. m, J)
  <2>1. J = {at[k] : k \in 1 .. m}
    BY <1>3
  <2> QED  BY <1>4, <2>1 DEF Matches
<1>6. songs = [k \in 1 .. m |-> Song(file[at[k]])]
  BY <1>2, <1>3 DEF Selected
<1>7. DOMAIN songs = 1 .. m /\ \A k \in 1 .. m : songs[k] = Song(file[at[k]])
  BY <1>6
<1>8. Len(songs) = m
  BY <1>3, <1>6
<1>9. {songs[k][a.key] : k \in DOMAIN songs} = {Song(file[j])[a.key] : j \in J}
  <2> DEFINE A == {songs[k][a.key] : k \in DOMAIN songs}
             B == {Song(file[j])[a.key] : j \in J}
  <2>1. ASSUME NEW k \in DOMAIN songs PROVE songs[k][a.key] \in B
    <3>1. k \in 1 .. m /\ at[k] \in J
      BY <1>3, <1>7
    <3>2. songs[k][a.key] = Song(file[at[k]])[a.key]
      BY <1>7, <3>1
    <3> QED  BY <3>1, <3>2
  <2>2. ASSUME NEW j \in J PROVE Song(file[j])[a.key] \in A
    <3>1. PICK k \in 1 .. m : at[k] = j
      BY <1>3
    <3> QED  BY <1>7, <3>1
  <2> QED  BY <2>1, <2>2
<1>10. CASE a = Aggregate("count", "*")
  <2>1. a.type = "count" /\ a.key = "*"
    BY <1>10 DEF Aggregate
  <2>2. Aggregated(a, songs) = {Len(songs)}
    BY <1>10, <2>1 DEF Aggregated
  <2>3. AggregateOf(a, file, J) = {Cardinality(J)}
    BY <1>10, <2>1 DEF AggregateOf
  <2> QED  BY <1>2, <1>8, <2>2, <2>3
<1>11. CASE a # Aggregate("count", "*") /\ a.type = "count" /\ a.key # "*"
  <2>1. PICK cells : cells = UNION {songs[k][a.key] : k \in DOMAIN songs}
    OBVIOUS
  <2>2. Aggregated(a, songs) = {Cardinality(cells)}
    BY <1>11, <2>1 DEF Aggregated
  <2> QED  BY <1>9, <1>11, <2>1, <2>2 DEF AggregateOf
<1>12. CASE a.type = "concat"
  <2>1. a # Aggregate("count", "*")
    BY <1>12 DEF Aggregate
  <2> QED  BY <1>9, <1>12, <2>1 DEF Aggregated, AggregateOf
<1>13. CASE a.type = "sum"
  <2>1. a # Aggregate("count", "*")
    BY <1>13 DEF Aggregate
  <2>0. PICK S : S = DOMAIN songs
    OBVIOUS
  <2> DEFINE number(k) == CHOOSE x \in songs[k][a.key] : TRUE
             step(h) == [T \in SUBSET S |->
                           IF T = {} THEN 0
                           ELSE number(CHOOSE k \in T : TRUE)
                                  + h[T \ {CHOOSE k \in T : TRUE}]]
  <2>2. Aggregated(a, songs) = {(CHOOSE h : h = step(h))[S]}
    BY <1>13, <2>0, <2>1 DEF Aggregated, MapThenSumSet, MapThenFoldSet
  <2>3. PICK g : g = [k \in 1 .. m |-> TextIn(songs[k][a.key])]
    OBVIOUS
  <2>4. PICK total : total = [j \in J |-> TextIn(Song(file[j])[a.key])]
    OBVIOUS
  <2>5. \A k \in 1 .. m : g[k] = total[at[k]] /\ g[k] \in Int
    BY <1>3, <1>7, <1>13, <2>3, <2>4
  <2>6. Numbers(g, 1 .. m)
    <3>1. IsFiniteSet(1 .. m)
      <4>1. m \in Int /\ 1 \in Int
        BY <1>3
      <4> QED  BY <4>1, FS_Interval
    <3> QED  BY <2>5, <3>1 DEF Numbers
  <2>7. \A h : step(h) = Summing(S, g, h)
    <3>1. \A k \in S : number(k) = g[k]
      <4> SUFFICES ASSUME NEW k \in S PROVE number(k) = g[k]
        OBVIOUS
      <4>1. k \in 1 .. m
        BY <1>7, <2>0
      <4>2. g[k] = TextIn(songs[k][a.key])
        BY <2>3, <4>1
      <4> QED  BY <4>2 DEF TextIn
    <3> HIDE DEF number
    <3> SUFFICES ASSUME NEW h, NEW T \in SUBSET S, T # {}
                 PROVE  number(CHOOSE k \in T : TRUE) = g[Pick(T)]
      BY DEF Summing, Pick
    <3>2. Pick(T) \in S
      BY PickFacts
    <3> QED  BY <3>1, <3>2 DEF Pick
  <2> HIDE DEF step
  <2>8. S = 1 .. m
    BY <1>7, <2>0
  <2>9. PICK sum : sum = CHOOSE h : h = step(h)
    OBVIOUS
  <2>10. \E h : h = step(h)
    BY <2>6, <2>7, <2>8, SummingFacts
  <2>11. sum = step(sum)
    BY <2>9, <2>10
  <2>12. sum = Summing(S, g, sum)
    BY <2>7, <2>11
  <2>13. sum[S] = Total(g, S)
    BY <2>6, <2>8, <2>12, SummingFacts
  <2>14. Total(g, 1 .. m) = Total(total, J)
    <3>1. \A k \in 1 .. m : g[k] = total[at[k]]
      BY <2>5
    <3>2. PICK M : M = 1 .. m
      OBVIOUS
    <3>3. Numbers(g, M) /\ Matches(at, M, J) /\ \A k \in M : g[k] = total[at[k]]
      BY <1>5, <2>6, <3>1, <3>2
    <3>4. Total(g, M) = Total(total, J)
      BY <3>3, TotalMoved
    <3> QED  BY <3>2, <3>4
  <2>15. Aggregated(a, songs) = {Total(total, J)}
    BY <2>2, <2>8, <2>9, <2>13, <2>14
  <2> QED  BY <1>13, <2>1, <2>4, <2>15 DEF AggregateOf
<1> QED
  <2>1. a = Aggregate("count", "*") <=> a.type = "count" /\ a.key = "*"
    BY DEF Aggregate
  <2> QED  BY <1>10, <1>11, <1>12, <1>13, <2>1

-----------------------------------------------------------------------------
(* What Tracker answers about a container.                                 *)

\* The files of a container, each of them once, and what they are grouped by.
IsGrouped(p, n, file, m, leaders, group) ==
  /\ n \in Nat /\ Matches(file, 1 .. n, Members(p))
  /\ \A i \in 1 .. n : file[i] \in known
  /\ group = [i \in 1 .. n |-> Property(file[i], p.unique)]
  /\ IsLeaders(m, leaders, n, group)

GroupOf(n, leaders, group, k) == {j \in 1 .. n : group[j] = group[leaders[k]]}

\* A row for each group, with what each key makes of the files of the group in
\* the column of the key.
IsAnswered(p, c, answered, n, file, m, leaders, group) ==
  /\ DOMAIN answered = 1 .. m /\ Len(answered) = m
  /\ \A key \in InTracker(c) \ {p.unique} : \A k \in 1 .. m :
       answered[k][c.entries[key].at + 1] =
         AggregateOf(AggregateFor(p, key), file, GroupOf(n, leaders, group, k))

LEMMA ColumnOfKey ==
  ASSUME NEW p, NEW c, Paired(p, c), p.unique # Hole,
         NEW key \in InTracker(c), key # p.unique
  PROVE  LET asked == KeysFrom(c, 2)
         IN  c.entries[key].at \in 1 .. Len(asked) /\ asked[c.entries[key].at] = key
<1>2. PICK first, at, asked : /\ first = FirstUsed(p.unique) /\ at = c.entries[key].at
                              /\ asked = KeysFrom(c, first + 1)
  OBVIOUS
<1>3. first = 1
  BY <1>2 DEF FirstUsed
<1>4. ColumnsOK(c, p.unique) /\ InTracker(c) \subseteq MetadataKeys
  BY DEF Paired
<1>5. /\ Len(asked) = c.last - first
      /\ at >= first => asked[at + 1 - first] = key
  BY <1>2, <1>4, KeysFromAll
<1>6. at \in 0 .. c.last - 1 /\ c.last \in Nat /\ at # 0
  BY <1>2, <1>4 DEF ColumnsOK
<1>7. at \in 1 .. Len(asked) /\ asked[at] = key
  BY <1>3, <1>5, <1>6
<1>8. asked = KeysFrom(c, 2)
  BY <1>2, <1>3
<1> QED  BY <1>2, <1>7, <1>8

LEMMA AnswerIsList ==
  ASSUME NEW s, s.unique, NEW m \in Nat, DOMAIN Answer(s) = 1 .. m
  PROVE  Len(Answer(s)) = m
<1>1. PICK answered : answered = Answer(s)
  OBVIOUS
<1>2. answered = [k \in DOMAIN answered |-> answered[k]]
  BY <1>1 DEF Answer, Rows
<1>3. answered \in [1 .. m -> {answered[k] : k \in 1 .. m}]
  BY <1>1, <1>2
<1> QED  BY <1>1, <1>3

LEMMA ContainerAnswers ==
  ASSUME known \in SUBSET File, library \in Complete, library \in DOMAIN Libraries,
         NEW p, NEW path, ContainerPlan(p, path),
         NEW c, CacheFits(p, c), ContainerCache(c, p, p.concat),
         NEW answered, answered = Answer(Statement(p, c, NoFilter))
  PROVE  \E n, file, m, leaders, group :
           /\ IsGrouped(p, n, file, m, leaders, group)
           /\ IsAnswered(p, c, answered, n, file, m, leaders, group)
<1>1. PICK key, fields, aggregates, asked :
        /\ key = p.unique
        /\ fields = <<p.unique>> /\ aggregates = Aggregates(p, c)
        /\ asked = KeysFrom(c, 2)
  OBVIOUS
<1>2. PICK s : s = Statement(p, c, NoFilter)
  OBVIOUS
<1>3. /\ p.kind = "container" /\ p.unique \in {"genre", "artist", "album", "mime"}
      /\ p.category = [k \in {"genre", "artist", "album"} |-> p.category[k]]
      /\ \A k \in {"genre", "artist", "album"} : \A u, v \in p.category[k] : u = v
      /\ p.counts \in Seq({"genre", "artist", "album", "*"})
  BY DEF ContainerPlan, ContainerKeys
<1>4. IsList(fields) /\ Len(fields) = 1 /\ fields[1] = key
  <2>1. fields \in Seq({key})
    BY <1>1
  <2> QED  BY <1>1, <2>1 DEF IsList
<1>5. key \in InTracker(c) => key \in Added4
  <2>1. KnownOf(p, "mime") # Nothing
    BY DEF KnownOf, MimeContainer, Nothing
  <2>2. key = "mime" => key \notin InTracker(c)
    <3> SUFFICES ASSUME "mime" \in InTracker(c) PROVE FALSE
      BY <1>1
    <3>1. ContainerEntry(p, p.concat, "mime", c.entries["mime"])
      BY <1>1 DEF ContainerCache, ContainerEntries, InTracker
    <3>2. c.entries["mime"].kind = "computed"
      BY <2>1, <3>1, KindsForContainers DEF ContainerEntry
    <3> QED  BY <3>2 DEF InTracker
  <2> QED  BY <1>1, <1>3, <2>2 DEF Added4
<1>6. /\ DOMAIN aggregates = 1 .. Len(asked) /\ Len(asked) \in Nat
      /\ IsList(aggregates)
      /\ \A i \in 1 .. Len(asked) : /\ aggregates[i] = AggregateFor(p, asked[i])
                                    /\ asked[i] \in InTracker(c)
      /\ \A i \in Aggregating(aggregates) : aggregates[i].key \in Added4
  BY <1>1, <1>3, <1>5, AggregatesOfGroups
<1>7. /\ p.kind \in {"list", "unique", "container"} /\ OnceEach(p.category)
      /\ fields = IF p.kind = "list" THEN Fields(p, c) ELSE <<p.unique>>
      /\ aggregates = IF p.kind = "list" THEN << >> ELSE Aggregates(p, c)
      /\ p.fresh => NoFilter = NoFilter
  BY <1>1, <1>3 DEF OnceEach
<1>8. Sound(NoFilter) /\ NoFilter \in Filters \cup {NoFilter}
  BY DEF Sound
<1>9. Asks(s, p.type, fields, aggregates, p.category, NoFilter)
  BY <1>2, <1>4, <1>6, <1>7, <1>8, StatementFacts
<1>11. \A f \in known : \A k \in Added4 : Song(f)[k] = Property(f, k) /\ Property(f, k) # {}
  BY NothingLacking
<1>12. s.type = p.type /\ s.aggregates = aggregates
  BY <1>9 DEF Asks
<1>13. \A f \in known : Accepts(s, Song(f)) <=> CategoryFits(Song(f), p.category)
  <2> SUFFICES ASSUME NEW f \in known
               PROVE  Accepts(s, Song(f)) <=> CategoryFits(Song(f), p.category)
    OBVIOUS
  <2>1. PICK song : song = Song(f)
    OBVIOUS
  <2>2. \A i \in Aggregating(aggregates) : song[aggregates[i].key] # {}
    BY <1>6, <1>11, <2>1
  <2>3. Satisfied(NoFilter, song)
    BY DEF Satisfied
  <2> QED  BY <1>9, <2>1, <2>2, <2>3 DEF Asks
<1>14. \A song : ValueOf(s, song, s.first + 1 - 1) = song[key]
  <2>1. 1 \in 1 .. Len(fields)
    BY <1>4
  <2> QED  BY <1>4, <1>9, <2>1 DEF Asks
<1>15. PICK n, file : /\ IsFound(n, file, s)
                      /\ Found(s, Tried(s)) = [i \in 1 .. n |-> Song(file[i])]
  BY FoundFiles
<1>16. n \in Nat /\ \A i \in 1 .. n : file[i] \in known
  BY <1>15 DEF IsFound
<1>17. PICK group : group = [i \in 1 .. n |-> Property(file[i], key)]
  OBVIOUS
<1>18. FirstFields(s, n, file, group)
  <2>1. \A f : Song(f)[key] = Property(f, key)
    BY <1>1, <1>3 DEF Song, MetadataKeys, CommonKeys, MusicKeys
  <2> QED  BY <1>14, <1>17, <2>1 DEF FirstFields
<1>19. s.unique
  BY <1>1, <1>2, <1>3, NotGrouped
<1>21. PICK m, leaders :
         /\ HasRowsOf(answered, m, leaders, n, group)
         /\ HasAggregatesOf(answered, aggregates, file, m, leaders, n, group)
  <2>1. PICK l \in Nat : DOMAIN s.aggregates = 1 .. l
    BY <1>6, <1>12
  <2>2. Answer(s) = answered
    BY <1>2
  <2>3. \E m, leaders : /\ HasRowsOf(Answer(s), m, leaders, n, group)
                        /\ HasAggregatesOf(Answer(s), s.aggregates, file, m, leaders, n, group)
    BY <1>15, <1>16, <1>18, <1>19, <2>1, AnswerOfGroups
  <2> QED  BY <1>12, <2>2, <2>3
<1>22. Matches(file, 1 .. n, Members(p))
  <2>1. \A f : f \in Members(p) <=>
                 f \in known /\ TypeOf(f) = p.type /\ CategoryFits(Song(f), p.category)
    BY <1>3, MembersFit
  <2>2. \A f : f \in Members(p) <=> f \in known /\ TypeOf(f) = s.type /\ Accepts(s, Song(f))
    BY <1>12, <1>13, <2>1
  <2>3. \A f : f \in Members(p) <=> \E i \in 1 .. n : file[i] = f
    BY <1>15, <2>2 DEF IsFound
  <2>4. Members(p) = {file[i] : i \in 1 .. n}
    BY <2>3
  <2> QED  BY <1>15, <2>4 DEF IsFound, Matches
<1>23. IsGrouped(p, n, file, m, leaders, group)
  BY <1>1, <1>16, <1>17, <1>21, <1>22 DEF IsGrouped, HasRowsOf
<1>24. ASSUME NEW k \in InTracker(c) \ {p.unique}, NEW r \in 1 .. m
       PROVE  answered[r][c.entries[k].at + 1] =
                AggregateOf(AggregateFor(p, k), file, GroupOf(n, leaders, group, r))
  <2>1. PICK at : at = c.entries[k].at
    OBVIOUS
  <2>2. at \in 1 .. Len(asked) /\ asked[at] = k
    <3>1. Paired(p, c) /\ p.unique # Hole
      BY <1>3 DEF CacheFits, Hole
    <3> QED  BY <1>1, <2>1, <3>1, ColumnOfKey
  <2>3. PICK a, J, songs : /\ a = AggregateFor(p, k) /\ J = GroupOf(n, leaders, group, r)
                           /\ songs = Selected([i \in 1 .. n |-> Song(file[i])], J)
    OBVIOUS
  <2>4. aggregates[at] = a
    BY <1>6, <2>2, <2>3
  <2>5. answered[r][at + 1] = Aggregated(a, songs)
    <3>1. J = {j \in 1 .. n : group[j] = group[leaders[r]]}
      BY <2>3 DEF GroupOf
    <3>2. at \in DOMAIN aggregates
      BY <1>6, <2>2
    <3>3. answered[r][at + 1] =
            Aggregated(aggregates[at],
                       Selected([i \in 1 .. n |-> Song(file[i])],
                                {j \in 1 .. n : group[j] = group[leaders[r]]}))
      BY <1>21, <3>2 DEF HasAggregatesOf
    <3> QED  BY <2>3, <2>4, <3>1, <3>3
  <2>6. J \in SUBSET (1 .. n)
    BY <2>3 DEF GroupOf
  <2>7. /\ a = Aggregate(a.type, a.key) /\ a.type \in {"count", "concat", "sum"}
        /\ a.type = "sum" => a.key = "duration"
    BY <2>3 DEF AggregateFor, Aggregate
  <2>8. ASSUME NEW j \in J
        PROVE  TextIn(Song(file[j])["duration"]) \in Int
    <3>1. PICK f : f = file[j] /\ f \in known /\ f \in File
      BY <1>16, <2>6
    <3>2. PICK cell : cell = Song(f)["duration"]
      OBVIOUS
    <3>3. cell = Property(f, "duration") /\ cell # {}
      BY <1>11, <3>1, <3>2 DEF Added4
    <3>4. Property(f, "duration") \subseteq Nat
      BY <3>1, LibrariesAssumption DEF Property
    <3>5. TextIn(cell) \in Nat
      BY <3>3, <3>4 DEF TextIn
    <3> QED  BY <3>1, <3>2, <3>5
  <2>9. a.type = "sum" => \A j \in J : TextIn(Song(file[j])[a.key]) \in Int
    BY <2>7, <2>8
  <2>10. Aggregated(a, songs) = AggregateOf(a, file, J)
    BY <1>16, <2>3, <2>6, <2>7, <2>9, AggregatedFiles
  <2> QED  BY <2>1, <2>3, <2>5, <2>10
<1>25. DOMAIN answered = 1 .. m /\ m \in Nat
  BY <1>21 DEF HasRowsOf, IsLeaders
<1>26. Len(answered) = m
  <2>1. Answer(s) = answered
    BY <1>2
  <2> QED  BY <1>19, <1>25, <2>1, AnswerIsList
<1>27. IsAnswered(p, c, answered, n, file, m, leaders, group)
  BY <1>24, <1>25, <1>26 DEF IsAnswered
<1> QED  BY <1>23, <1>27

-----------------------------------------------------------------------------
(* What is told of a container, key by key.                                *)

\* The class of each file is the row of its group.
IsClasses(class, n, m, leaders, group) ==
  /\ \A x \in 1 .. n : class[x] \in 1 .. m
  /\ \A x, y \in 1 .. n : class[x] = class[y] <=> group[x] = group[y]
  /\ \A r \in 1 .. m : GroupOf(n, leaders, group, r) = {x \in 1 .. n : class[x] = r}

LEMMA ClassesExist ==
  ASSUME NEW n \in Nat, NEW m, NEW leaders, NEW group, IsLeaders(m, leaders, n, group)
  PROVE  \E class : IsClasses(class, n, m, leaders, group)
<1>1. PICK class : class = [x \in 1 .. n |-> CHOOSE k \in 1 .. m : group[leaders[k]] = group[x]]
  OBVIOUS
<1>2. \A x \in 1 .. n : class[x] \in 1 .. m /\ group[leaders[class[x]]] = group[x]
  <2> SUFFICES ASSUME NEW x \in 1 .. n
               PROVE  class[x] \in 1 .. m /\ group[leaders[class[x]]] = group[x]
    OBVIOUS
  <2>1. \E k \in 1 .. m : group[leaders[k]] = group[x]
    BY DEF IsLeaders
  <2>2. class[x] = CHOOSE k \in 1 .. m : group[leaders[k]] = group[x]
    BY <1>1
  <2> QED  BY <2>1, <2>2
<1>3. \A j, k \in 1 .. m : group[leaders[j]] = group[leaders[k]] => j = k
  BY DEF IsLeaders
<1>4. \A x, y \in 1 .. n : class[x] = class[y] <=> group[x] = group[y]
  BY <1>2, <1>3
<1>5. \A r \in 1 .. m : \A x \in 1 .. n : group[x] = group[leaders[r]] <=> class[x] = r
  BY <1>2, <1>3
<1>6. \A r \in 1 .. m : GroupOf(n, leaders, group, r) = {x \in 1 .. n : class[x] = r}
  BY <1>5 DEF GroupOf
<1> QED  BY <1>2, <1>4, <1>6 DEF IsClasses

\* In a library that is complete, a file of a category has its genre, its artist
\* and its album.
LEMMA HasCategory ==
  ASSUME known \in SUBSET File, library \in Complete, library \in DOMAIN Libraries,
         NEW p, p.category = [k \in {"genre", "artist", "album"} |-> p.category[k]],
         NEW f \in Members(p), NEW key \in {"genre", "artist", "album"},
         p.category[key] # Nothing
  PROVE  Property(f, key) = p.category[key]
<1>1. f \in File /\ InCategory(f, p.category)
  BY DEF Members
<1>2. Property(f, key) # {}
  BY <1>1, NothingLacking DEF Added4
<1>3. PICK category, cell : category = p.category /\ cell = Property(f, key)
  OBVIOUS
<1>4. key \in DOMAIN category
  BY <1>3
<1>5. cell = category[key] \/ (Unknown(cell) /\ Unknown(category[key]))
  BY <1>1, <1>3, <1>4 DEF InCategory
<1> QED  BY <1>2, <1>3, <1>5 DEF Unknown, Nothing

\* Unless it lists its children, a container has one group of files at most, or
\* it is one of all files of a type.
LEMMA OneGroup ==
  ASSUME known \in SUBSET File, library \in Complete, library \in DOMAIN Libraries,
         NEW p, NEW path, ContainerPlan(p, path), ~p.rows,
         NEW n, NEW file, NEW m, NEW leaders, NEW group, IsGrouped(p, n, file, m, leaders, group),
         p.unique \in {"genre", "artist", "album"}
  PROVE  /\ \A x, y \in 1 .. n : group[x] = group[y]
         /\ \/ m = 0 /\ n = 0
            \/ m = 1 /\ n > 0 /\ GroupOf(n, leaders, group, 1) = 1 .. n
<1>1. /\ n \in Nat /\ Members(p) = {file[i] : i \in 1 .. n}
      /\ group = [i \in 1 .. n |-> Property(file[i], p.unique)]
      /\ IsLeaders(m, leaders, n, group)
  BY DEF IsGrouped, Matches
<1>2. p.category[p.unique] # Nothing
  BY DEF ContainerPlan, GroupsByCategory
<1>3. \A x \in 1 .. n : group[x] = p.category[p.unique]
  BY <1>1, <1>2, HasCategory DEF ContainerPlan
<1>4. \A x, y \in 1 .. n : group[x] = group[y]
  BY <1>3
<1>5. \A k \in 1 .. m : leaders[k] \in 1 .. n
  BY <1>1 DEF IsLeaders
<1>6. m \in Nat /\ \A j, k \in 1 .. m : j = k
  BY <1>1, <1>4, <1>5 DEF IsLeaders
<1>7. CASE n = 0
  <2>1. ~(1 \in 1 .. m)
    BY <1>5, <1>7
  <2>2. m = 0
    BY <1>6, <2>1
  <2> QED  BY <1>4, <1>7, <2>2
<1>8. CASE n # 0
  <2>1. 1 \in 1 .. n
    BY <1>1, <1>8
  <2>2. \E k \in 1 .. m : group[leaders[k]] = group[1]
    BY <1>1, <2>1 DEF IsLeaders
  <2>3. m >= 1
    BY <1>6, <2>2
  <2>4. m = 1
    <3> SUFFICES ASSUME m # 1 PROVE FALSE
      OBVIOUS
    <3>1. 1 \in 1 .. m /\ 2 \in 1 .. m
      BY <1>6, <2>3
    <3> QED  BY <1>6, <3>1
  <2>5. GroupOf(n, leaders, group, 1) = 1 .. n
    BY <1>4, <1>5, <2>4 DEF GroupOf
  <2> QED  BY <1>1, <1>4, <1>8, <2>4, <2>5
<1> QED  BY <1>7, <1>8

\* The same numbers of files, for each group of them, and for all.
LEMMA SumOfGroups ==
  ASSUME NEW n \in Nat, NEW m, NEW leaders, NEW group, IsLeaders(m, leaders, n, group),
         NEW g, \A x \in 1 .. n : g[x] \in Int,
         NEW h, \A r \in 1 .. m : h[r] = Total(g, GroupOf(n, leaders, group, r))
  PROVE  Total(h, 1 .. m) = Total(g, 1 .. n)
<1>1. PICK class : IsClasses(class, n, m, leaders, group)
  BY ClassesExist
<1>2. m \in Nat
  BY DEF IsLeaders
<1>3. PICK S, R : S = 1 .. n /\ R = 1 .. m
  OBVIOUS
<1>4. IsFiniteSet(S) /\ IsFiniteSet(R)
  <2>1. n \in Int /\ m \in Int /\ 1 \in Int
    BY <1>2
  <2> QED  BY <1>3, <2>1, FS_Interval
<1>5. Numbers(g, S)
  BY <1>3, <1>4 DEF Numbers
<1>6. \A x \in S : class[x] \in R
  BY <1>1, <1>3 DEF IsClasses
<1>7. ByClass(h, R, g, S, class)
  BY <1>1, <1>3 DEF ByClass, IsClasses
<1>8. Total(h, R) = Total(g, S)
  BY <1>4, <1>5, <1>6, <1>7, TotalOfClasses
<1> QED  BY <1>3, <1>8

\* What a row says of a key.
LEMMA ToldByRow ==
  ASSUME NEW p, NEW c, NEW answered, NEW n, NEW file, NEW m, NEW leaders, NEW group,
         IsAnswered(p, c, answered, n, file, m, leaders, group),
         NEW key \in InTracker(c), key # p.unique, NEW r \in 1 .. m,
         NEW cell, cell = AggregateOf(AggregateFor(p, key), file, GroupOf(n, leaders, group, r)),
         cell # {}
  PROVE  r \in DOMAIN answered /\ ValueGet(c, answered, r, key) = cell
<1>1. r \in DOMAIN answered
  BY DEF IsAnswered
<1>2. answered[r][c.entries[key].at + 1] = cell
  BY DEF IsAnswered
<1>3. ValueGet(c, answered, r, key) = cell
  BY <1>1, <1>2, ValueInColumn
<1> QED  BY <1>1, <1>3

\* Numbers told by the rows are added up.
LEMMA AddedUpRows ==
  ASSUME NEW p, NEW c, NEW answered, NEW n, NEW file, NEW m \in Nat, NEW leaders, NEW group,
         IsAnswered(p, c, answered, n, file, m, leaders, group),
         NEW key \in InTracker(c), key # p.unique, NEW counted, counted => key # "childcount(1)",
         NEW h, \A r \in 1 .. m :
                  /\ h[r] \in Int
                  /\ AggregateOf(AggregateFor(p, key), file, GroupOf(n, leaders, group, r)) = {h[r]}
  PROVE  AggregateKey(c, answered, key, counted) = Total(h, 1 .. m)
<1>1. DOMAIN answered = 1 .. m
  BY DEF IsAnswered
<1>2. IsFiniteSet(DOMAIN answered)
  <2>1. m \in Int /\ 1 \in Int
    OBVIOUS
  <2> QED  BY <1>1, <2>1, FS_Interval
<1>3. \A r \in DOMAIN answered : h[r] \in Int /\ ValueGet(c, answered, r, key) = {h[r]}
  <2> SUFFICES ASSUME NEW r \in DOMAIN answered
               PROVE  h[r] \in Int /\ ValueGet(c, answered, r, key) = {h[r]}
    OBVIOUS
  <2>1. PICK cell : cell = {h[r]}
    OBVIOUS
  <2>2. cell = AggregateOf(AggregateFor(p, key), file, GroupOf(n, leaders, group, r)) /\ cell # {}
    BY <1>1, <2>1
  <2>3. ValueGet(c, answered, r, key) = cell
    BY <1>1, <2>2, ToldByRow
  <2> QED  BY <1>1, <2>1, <2>3
<1>4. AggregateKey(c, answered, key, counted) = Total(h, DOMAIN answered)
  BY <1>2, <1>3, SumOfRows
<1> QED  BY <1>1, <1>4

\* How long a container is.
LEMMA DurationTold ==
  ASSUME known \in SUBSET File, library \in Complete, library \in DOMAIN Libraries,
         NEW p, p.unique # "duration", NEW c, NEW answered,
         NEW n, NEW file, NEW m, NEW leaders, NEW group,
         IsGrouped(p, n, file, m, leaders, group),
         IsAnswered(p, c, answered, n, file, m, leaders, group),
         "duration" \in InTracker(c), NEW counted
  PROVE  AggregateKey(c, answered, "duration", counted) = Sum(Members(p), "duration")
<1>1. /\ n \in Nat /\ Matches(file, 1 .. n, Members(p)) /\ \A x \in 1 .. n : file[x] \in known
      /\ IsLeaders(m, leaders, n, group)
  BY DEF IsGrouped
<1>2. m \in Nat
  BY <1>1 DEF IsLeaders
<1>3. PICK g : g = [x \in 1 .. n |-> TextIn(Song(file[x])["duration"])]
  OBVIOUS
<1>4. \A f \in known : /\ Song(f)["duration"] = Property(f, "duration")
                       /\ TextIn(Property(f, "duration")) \in Int
  <2> SUFFICES ASSUME NEW f \in known
               PROVE  /\ Song(f)["duration"] = Property(f, "duration")
                      /\ TextIn(Property(f, "duration")) \in Int
    OBVIOUS
  <2>1. PICK cell : cell = Property(f, "duration")
    OBVIOUS
  <2>2. f \in File
    OBVIOUS
  <2>3. cell \subseteq Nat
    BY <2>1, <2>2, LibrariesAssumption DEF Property
  <2>4. cell # {} /\ Song(f)["duration"] = cell
    BY <2>1, <2>2, NothingLacking DEF Added4
  <2>5. TextIn(cell) \in cell
    BY <2>4 DEF TextIn
  <2> QED  BY <2>1, <2>3, <2>4, <2>5
<1>5. \A x \in 1 .. n : g[x] \in Int /\ g[x] = TextIn(Property(file[x], "duration"))
  BY <1>1, <1>3, <1>4
<1>6. PICK h : h = [r \in 1 .. m |-> Total(g, GroupOf(n, leaders, group, r))]
  OBVIOUS
<1>7. Numbers(g, 1 .. n)
  <2>1. n \in Int /\ 1 \in Int
    BY <1>1
  <2> QED  BY <1>5, <2>1, FS_Interval DEF Numbers
<1>8. ASSUME NEW r \in 1 .. m
      PROVE  /\ h[r] \in Int
             /\ AggregateOf(AggregateFor(p, "duration"), file, GroupOf(n, leaders, group, r)) = {h[r]}
  <2>1. PICK J : J = GroupOf(n, leaders, group, r)
    OBVIOUS
  <2>2. J \in SUBSET (1 .. n)
    BY <2>1 DEF GroupOf
  <2>3. Numbers(g, J)
    BY <1>7, <2>2, NumbersOfPart
  <2>4. PICK part : part = [j \in J |-> TextIn(Song(file[j])["duration"])]
    OBVIOUS
  <2>5. \A j \in J : g[j] = part[j]
    BY <1>3, <2>2, <2>4
  <2>6. Total(g, J) = Total(part, J)
    BY <2>3, <2>5, TotalSame
  <2>7. AggregateFor(p, "duration") = Aggregate("sum", "duration")
    BY KindsForContainers DEF AggregateFor
  <2>8. AggregateOf(Aggregate("sum", "duration"), file, J) = {Total(part, J)}
    BY <2>4 DEF AggregateOf, Aggregate
  <2>9. Total(g, J) \in Int
    BY <2>3, TotalFacts
  <2> QED  BY <1>6, <2>1, <2>6, <2>7, <2>8, <2>9
<1>9. AggregateKey(c, answered, "duration", counted) = Total(h, 1 .. m)
  BY <1>2, <1>8, AddedUpRows
<1>10. Total(h, 1 .. m) = Total(g, 1 .. n)
  <2>1. \A x \in 1 .. n : g[x] \in Int
    BY <1>5
  <2>2. \A r \in 1 .. m : h[r] = Total(g, GroupOf(n, leaders, group, r))
    BY <1>6
  <2> QED  BY <1>1, <2>1, <2>2, SumOfGroups
<1>11. PICK of : of = [f \in Members(p) |-> TextIn(Property(f, "duration"))]
  OBVIOUS
<1>12. \A x \in 1 .. n : file[x] \in Members(p) /\ g[x] = of[file[x]]
  BY <1>1, <1>5, <1>11 DEF Matches
<1>13. Total(g, 1 .. n) = Total(of, Members(p))
  <2>1. PICK S, U : S = 1 .. n /\ U = Members(p)
    OBVIOUS
  <2>2. Numbers(g, S) /\ Matches(file, S, U) /\ \A x \in S : g[x] = of[file[x]]
    BY <1>1, <1>7, <1>12, <2>1
  <2>3. Total(g, S) = Total(of, U)
    BY <2>2, TotalMoved
  <2> QED  BY <2>1, <2>3
<1>14. Numbers(of, Members(p))
  <2>1. IsFiniteSet(1 .. n)
    BY <1>7 DEF Numbers
  <2>2. IsFiniteSet(Members(p))
    BY <1>1, <2>1, MatchesSize
  <2>3. \A f \in Members(p) : of[f] \in Int
    BY <1>4, <1>11 DEF Members
  <2> QED  BY <2>2, <2>3 DEF Numbers
<1>15. Sum(Members(p), "duration") = Total(of, Members(p))
  BY <1>11, <1>14, SumOfFiles
<1> QED  BY <1>9, <1>10, <1>13, <1>15

\* Cells with one value each are as many as the values.
LEMMA ValuesOfCells ==
  ASSUME NEW C, IsFiniteSet(C), \A a \in C : a # {} /\ \A v, w \in a : v = w
  PROVE  Cardinality(UNION C) = Cardinality(C)
<1>1. PICK b : b = [a \in C |-> TextIn(a)]
  OBVIOUS
<1>2. \A a \in C : a = {b[a]}
  <2> SUFFICES ASSUME NEW a \in C PROVE a = {b[a]}
    OBVIOUS
  <2>1. TextIn(a) \in a
    BY DEF TextIn
  <2> QED  BY <1>1, <2>1
<1>3. UNION C = {b[a] : a \in C}
  BY <1>2
<1>4. Matches(b, C, UNION C)
  BY <1>2, <1>3 DEF Matches
<1> QED  BY <1>4, MatchesSize

\* Groups are finite, as all files are.
LEMMA GroupsFinite ==
  ASSUME NEW n \in Nat, NEW m, NEW leaders, NEW group, IsLeaders(m, leaders, n, group)
  PROVE  /\ IsFiniteSet(1 .. n) /\ IsFiniteSet(1 .. m) /\ m \in Nat
         /\ \A r : /\ GroupOf(n, leaders, group, r) \in SUBSET (1 .. n)
                   /\ IsFiniteSet(GroupOf(n, leaders, group, r))
<1>1. m \in Nat
  BY DEF IsLeaders
<1>2. IsFiniteSet(1 .. n) /\ IsFiniteSet(1 .. m)
  <2>1. n \in Int /\ m \in Int /\ 1 \in Int
    BY <1>1
  <2> QED  BY <2>1, FS_Interval
<1>3. ASSUME NEW r
      PROVE  /\ GroupOf(n, leaders, group, r) \in SUBSET (1 .. n)
             /\ IsFiniteSet(GroupOf(n, leaders, group, r))
  <2>1. PICK J, S : J = GroupOf(n, leaders, group, r) /\ S = 1 .. n
    OBVIOUS
  <2>2. J \in SUBSET S
    BY <2>1 DEF GroupOf
  <2>3. IsFiniteSet(J)
    BY <1>2, <2>1, <2>2, FS_Subset
  <2> QED  BY <2>1, <2>2, <2>3
<1> QED  BY <1>1, <1>2, <1>3

\* The files of a container, counted group by group.
LEMMA FilesCounted ==
  ASSUME NEW p, NEW c, NEW answered, NEW n, NEW file, NEW m, NEW leaders, NEW group,
         IsGrouped(p, n, file, m, leaders, group),
         IsAnswered(p, c, answered, n, file, m, leaders, group),
         NEW key \in InTracker(c), key # p.unique, NEW counted, counted => key # "childcount(1)",
         AggregateFor(p, key) = Aggregate("count", "*")
  PROVE  AggregateKey(c, answered, key, counted) = Cardinality(Members(p))
<1>1. /\ n \in Nat /\ Matches(file, 1 .. n, Members(p))
      /\ IsLeaders(m, leaders, n, group)
  BY DEF IsGrouped
<1>2. /\ IsFiniteSet(1 .. n) /\ m \in Nat
      /\ \A r : /\ GroupOf(n, leaders, group, r) \in SUBSET (1 .. n)
                /\ IsFiniteSet(GroupOf(n, leaders, group, r))
  BY <1>1, GroupsFinite
<1>3. PICK g : g = [x \in 1 .. n |-> 1]
  OBVIOUS
<1>4. PICK h : h = [r \in 1 .. m |-> Cardinality(GroupOf(n, leaders, group, r))]
  OBVIOUS
<1>5. ASSUME NEW r \in 1 .. m
      PROVE  /\ h[r] \in Int
             /\ AggregateOf(AggregateFor(p, key), file, GroupOf(n, leaders, group, r)) = {h[r]}
             /\ h[r] = Total(g, GroupOf(n, leaders, group, r))
  <2>1. PICK J : J = GroupOf(n, leaders, group, r)
    OBVIOUS
  <2>2. J \in SUBSET (1 .. n) /\ IsFiniteSet(J)
    BY <1>2, <2>1
  <2>3. \A j \in J : g[j] = 1
    BY <1>3, <2>2
  <2>4. Total(g, J) = Cardinality(J)
    BY <2>2, <2>3, TotalOfOnes
  <2>5. Cardinality(J) \in Nat
    BY <2>2, FS_CardinalityType
  <2>6. AggregateOf(Aggregate("count", "*"), file, J) = {Cardinality(J)}
    BY DEF AggregateOf, Aggregate
  <2> QED  BY <1>4, <2>1, <2>4, <2>5, <2>6
<1>6. AggregateKey(c, answered, key, counted) = Total(h, 1 .. m)
  BY <1>2, <1>5, AddedUpRows
<1>7. Total(h, 1 .. m) = Total(g, 1 .. n)
  <2>1. \A x \in 1 .. n : g[x] \in Int
    BY <1>3
  <2>2. \A r \in 1 .. m : h[r] = Total(g, GroupOf(n, leaders, group, r))
    BY <1>5
  <2> QED  BY <1>1, <2>1, <2>2, SumOfGroups
<1>8. Total(g, 1 .. n) = Cardinality(1 .. n)
  <2>1. PICK S : S = 1 .. n
    OBVIOUS
  <2>2. IsFiniteSet(S) /\ \A x \in S : g[x] = 1
    BY <1>2, <1>3, <2>1
  <2>3. Total(g, S) = Cardinality(S)
    BY <2>2, TotalOfOnes
  <2> QED  BY <2>1, <2>3
<1>9. Cardinality(Members(p)) = Cardinality(1 .. n)
  BY <1>1, <1>2, MatchesSize
<1> QED  BY <1>6, <1>7, <1>8, <1>9

\* Two keys of the files of a container, as pairs.
PairsOf(files, first, second) == {<<Property(f, first), Property(f, second)>> : f \in files}

\* What files are grouped by tells them apart as a key does.
GroupedLike(n, file, group, first) ==
  \A x, y \in 1 .. n : group[x] = group[y] <=> Property(file[x], first) = Property(file[y], first)

\* h counts the values of a key for each group.
CellsByGroup(h, n, file, m, leaders, group, second) ==
  \A r \in 1 .. m : h[r] = Cardinality({Property(file[j], second) :
                                          j \in GroupOf(n, leaders, group, r)})

LEMMA PairsOfGroups ==
  ASSUME NEW p, NEW n, NEW file, NEW m, NEW leaders, NEW group,
         IsGrouped(p, n, file, m, leaders, group),
         NEW first, GroupedLike(n, file, group, first), NEW second,
         NEW h, CellsByGroup(h, n, file, m, leaders, group, second)
  PROVE  Total(h, 1 .. m) = Cardinality(PairsOf(Members(p), first, second))
<1>1. /\ n \in Nat /\ Members(p) = {file[x] : x \in 1 .. n}
      /\ IsLeaders(m, leaders, n, group)
  BY DEF IsGrouped, Matches
<1>2. PICK class : IsClasses(class, n, m, leaders, group)
  BY <1>1, ClassesExist
<1>3. PICK S, R : S = 1 .. n /\ R = 1 .. m
  OBVIOUS
<1>4. IsFiniteSet(S) /\ IsFiniteSet(R)
  BY <1>1, <1>3, GroupsFinite
<1>5. PICK a, b : a = [x \in S |-> Property(file[x], first)] /\ b = [x \in S |-> Property(file[x], second)]
  OBVIOUS
<1>6. \A x \in S : class[x] \in R
  BY <1>2, <1>3 DEF IsClasses
<1>7. \A x, y \in S : class[x] = class[y] <=> a[x] = a[y]
  BY <1>2, <1>3, <1>5 DEF IsClasses, GroupedLike
<1>8. ASSUME NEW r \in R
      PROVE  h[r] = Cardinality({b[x] : x \in {y \in S : class[y] = r}})
  <2>1. PICK J : J = GroupOf(n, leaders, group, r)
    OBVIOUS
  <2>2. J = {y \in S : class[y] = r}
    BY <1>2, <1>3, <2>1 DEF IsClasses
  <2>3. {Property(file[j], second) : j \in J} = {b[x] : x \in J}
    BY <1>5, <2>2
  <2>4. h[r] = Cardinality({Property(file[j], second) : j \in J})
    BY <1>3, <2>1 DEF CellsByGroup
  <2> QED  BY <2>2, <2>3, <2>4
<1>9. Total(h, R) = Cardinality({<<a[x], b[x]>> : x \in S})
  <2>1. SecondsByClass(h, R, S, class, b)
    BY <1>8 DEF SecondsByClass
  <2> QED  BY <1>4, <1>6, <1>7, <2>1, PairsOfClasses
<1>10. {<<a[x], b[x]>> : x \in S} = PairsOf(Members(p), first, second)
  <2>1. {<<a[x], b[x]>> : x \in S} = {<<Property(file[x], first), Property(file[x], second)>> : x \in S}
    BY <1>5
  <2> QED  BY <1>1, <1>3, <2>1 DEF PairsOf
<1> QED  BY <1>3, <1>9, <1>10

\* The values of a level, counted group by group.
LEMMA ValuesCounted ==
  ASSUME known \in SUBSET File, library \in Complete, library \in DOMAIN Libraries,
         NEW p, NEW c, NEW answered, NEW n, NEW file, NEW m, NEW leaders, NEW group,
         IsGrouped(p, n, file, m, leaders, group),
         IsAnswered(p, c, answered, n, file, m, leaders, group),
         NEW key \in InTracker(c), key # p.unique, NEW counted, counted => key # "childcount(1)",
         NEW second \in {"genre", "artist", "album"},
         AggregateFor(p, key) = Aggregate("count", second),
         NEW first, GroupedLike(n, file, group, first)
  PROVE  AggregateKey(c, answered, key, counted) = Cardinality(PairsOf(Members(p), first, second))
<1>1. /\ n \in Nat /\ \A x \in 1 .. n : file[x] \in known
      /\ IsLeaders(m, leaders, n, group)
  BY DEF IsGrouped
<1>2. /\ m \in Nat
      /\ \A r : /\ GroupOf(n, leaders, group, r) \in SUBSET (1 .. n)
                /\ IsFiniteSet(GroupOf(n, leaders, group, r))
  BY <1>1, GroupsFinite
<1>3. PICK h : h = [r \in 1 .. m |-> Cardinality({Property(file[j], second) :
                                                    j \in GroupOf(n, leaders, group, r)})]
  OBVIOUS
<1>4. ASSUME NEW r \in 1 .. m
      PROVE  /\ h[r] \in Int
             /\ AggregateOf(AggregateFor(p, key), file, GroupOf(n, leaders, group, r)) = {h[r]}
  <2>1. PICK J : J = GroupOf(n, leaders, group, r)
    OBVIOUS
  <2>2. J \in SUBSET (1 .. n) /\ IsFiniteSet(J)
    BY <1>2, <2>1
  <2>3. PICK C : C = {Property(file[j], second) : j \in J}
    OBVIOUS
  <2>4. IsFiniteSet(C)
    <3>1. PICK f : f = [j \in J |-> Property(file[j], second)]
      OBVIOUS
    <3>2. f \in Surjection(J, C)
      BY <2>3, <3>1 DEF Surjection
    <3> QED  BY <2>2, <3>2, FS_Surjection
  <2>5. \A j \in J : /\ Song(file[j])[second] = Property(file[j], second)
                     /\ Property(file[j], second) # {}
                     /\ \A v, w \in Property(file[j], second) : v = w
    <3>1. \A j \in J : file[j] \in File
      BY <1>1, <2>2
    <3>2. second \in Added4
      BY DEF Added4
    <3> QED  BY <3>1, <3>2, NothingLacking
  <2>6. Cardinality(UNION C) = Cardinality(C) /\ Cardinality(C) \in Nat
    <3>1. \A a \in C : a # {} /\ \A v, w \in a : v = w
      BY <2>3, <2>5
    <3> QED  BY <2>4, <3>1, ValuesOfCells, FS_CardinalityType
  <2>7. {Song(file[j])[second] : j \in J} = C
    BY <2>3, <2>5
  <2>8. AggregateOf(Aggregate("count", second), file, J) = {Cardinality(UNION C)}
    <3>1. PICK a : a = Aggregate("count", second)
      OBVIOUS
    <3>2. a.type = "count" /\ a.key = second /\ second # "*" /\ a # Aggregate("count", "*")
      BY <3>1 DEF Aggregate
    <3>3. AggregateOf(a, file, J) = {Cardinality(UNION {Song(file[j])[second] : j \in J})}
      BY <3>2 DEF AggregateOf
    <3> QED  BY <2>7, <3>1, <3>3
  <2> QED  BY <1>3, <2>1, <2>3, <2>6, <2>8
<1>5. AggregateKey(c, answered, key, counted) = Total(h, 1 .. m)
  BY <1>2, <1>4, AddedUpRows
<1>6. Total(h, 1 .. m) = Cardinality(PairsOf(Members(p), first, second))
  <2>1. CellsByGroup(h, n, file, m, leaders, group, second)
    BY <1>3 DEF CellsByGroup
  <2> QED  BY <2>1, PairsOfGroups
<1> QED  BY <1>5, <1>6

\* The rows themselves, counted.
LEMMA RowsCounted ==
  ASSUME NEW p, NEW c, NEW answered, NEW n, NEW file, NEW m, NEW leaders, NEW group,
         IsGrouped(p, n, file, m, leaders, group),
         IsAnswered(p, c, answered, n, file, m, leaders, group)
  PROVE  AggregateKey(c, answered, "childcount(1)", TRUE)
           = Cardinality(PairsOf(Members(p), p.unique, p.unique))
<1>1. /\ n \in Nat /\ group = [x \in 1 .. n |-> Property(file[x], p.unique)]
      /\ IsLeaders(m, leaders, n, group)
  BY DEF IsGrouped
<1>2. m \in Nat /\ IsFiniteSet(1 .. m)
  BY <1>1, GroupsFinite
<1>3. PICK first : first = p.unique
  OBVIOUS
<1>4. GroupedLike(n, file, group, first)
  BY <1>1, <1>3 DEF GroupedLike
<1>5. PICK h : h = [r \in 1 .. m |-> 1]
  OBVIOUS
<1>6. \A r \in 1 .. m : h[r] = Cardinality({Property(file[j], first) :
                                              j \in GroupOf(n, leaders, group, r)})
  <2> SUFFICES ASSUME NEW r \in 1 .. m
               PROVE  1 = Cardinality({Property(file[j], first) :
                                         j \in GroupOf(n, leaders, group, r)})
    BY <1>5
  <2>1. leaders[r] \in 1 .. n
    BY <1>1 DEF IsLeaders
  <2>2. PICK x, J : x = group[leaders[r]] /\ J = GroupOf(n, leaders, group, r)
    OBVIOUS
  <2>3. leaders[r] \in J /\ \A j \in J : Property(file[j], first) = x
    BY <1>1, <1>3, <2>1, <2>2 DEF GroupOf
  <2>4. {Property(file[j], first) : j \in J} = {x}
    BY <2>3
  <2> QED  BY <2>2, <2>4, FS_Singleton
<1>7. Total(h, 1 .. m) = Cardinality(PairsOf(Members(p), first, first))
  <2>1. CellsByGroup(h, n, file, m, leaders, group, first)
    BY <1>6 DEF CellsByGroup
  <2> QED  BY <1>4, <2>1, PairsOfGroups
<1>8. Total(h, 1 .. m) = m
  <2>1. PICK R : R = 1 .. m
    OBVIOUS
  <2>2. \A r \in R : h[r] = 1
    BY <1>5, <2>1
  <2>3. Total(h, R) = Cardinality(R)
    BY <1>2, <2>1, <2>2, TotalOfOnes
  <2>4. Cardinality(1 .. m) = m
    BY <1>2, FS_Interval
  <2> QED  BY <2>1, <2>3, <2>4
<1>9. AggregateKey(c, answered, "childcount(1)", TRUE) = m
  BY DEF AggregateKey, IsAnswered
<1> QED  BY <1>3, <1>7, <1>8, <1>9

\* The children of a container, of its children and so on.
LEMMA ChildcountTold ==
  ASSUME known \in SUBSET File, library \in Complete, library \in DOMAIN Libraries,
         NEW p, NEW path, ContainerPlan(p, path), NEW c, NEW answered,
         NEW n, NEW file, NEW m, NEW leaders, NEW group,
         IsGrouped(p, n, file, m, leaders, group),
         IsAnswered(p, c, answered, n, file, m, leaders, group),
         NEW key \in InTracker(c), key \in ChildcountKeys, Level(key) <= p.max
  PROVE  AggregateKey(c, answered, key, p.rows) = ChildcountOf(path, Members(p), Level(key))
<1>1. PICK level, levels, at, K : /\ level = Level(key) /\ levels = LevelsOf(path)
                                  /\ at = level + Given(path) /\ K = p.counts[level]
  OBVIOUS
<1>2. level \in 1 .. p.max /\ Childcounts[level] = key
  <2>1. level \in 1 .. 4 /\ p.max \in Int /\ level <= p.max
    BY <1>1, ChildcountNames DEF ContainerPlan, ContainerKeys
  <2> QED  BY <1>1, <2>1, ChildcountNames
<1>3. IF at > Len(levels) THEN K = "*"
      ELSE /\ K = levels[at]
           /\ levels[1] \in {"genre", "artist", "album"}
           /\ levels[at] \in {"genre", "artist", "album"}
           /\ IF p.rows THEN levels[1] = p.unique
              ELSE p.category[levels[1]] # Nothing
  BY <1>1, <1>2 DEF ContainerPlan, CountsChildren
<1>4. AggregateFor(p, key) = Aggregate("count", K)
  <2>1. key # "duration"
    BY ChildcountNames
  <2> QED  BY <1>1, <2>1 DEF AggregateFor
<1>5. key # p.unique
  BY KindsForContainers DEF ContainerPlan, ContainerKeys
<1>6. ChildcountOf(path, Members(p), level) =
        IF at > Len(levels) THEN Cardinality(Members(p))
        ELSE Cardinality(PairsOf(Members(p), levels[1], levels[at]))
  BY <1>1 DEF ChildcountOf, LevelsOf, Given, PairsOf
<1>7. p.rows => 1 <= Len(levels) /\ Given(path) = 0
  <2>1. LevelsOf(path) = levels /\ Len(levels) \in Int
    BY <1>1, LevelsShort DEF LevelsOf
  <2> QED  BY <2>1 DEF ContainerPlan
<1>8. group = [x \in 1 .. n |-> Property(file[x], p.unique)]
  BY DEF IsGrouped
<1>9. CASE p.rows /\ key = "childcount(1)"
  <2>1. level = 1
    <3>1. Childcounts[1] = key
      BY <1>9 DEF Childcounts
    <3>2. Level(key) \in 1 .. 4 /\ Childcounts[Level(key)] = key
      BY ChildcountNames
    <3>3. \A i \in 1 .. 4 : Childcounts[i] = "childcount(1)" => i = 1
      BY DEF Childcounts
    <3> QED  BY <1>1, <1>9, <3>2, <3>3
  <2>2. at = 1 /\ ~(at > Len(levels))
    <3>1. Len(levels) \in Int
      BY <1>1, LevelsShort DEF LevelsOf
    <3> QED  BY <1>1, <1>7, <1>9, <2>1, <3>1
  <2>3. levels[1] = p.unique
    BY <1>3, <1>9, <2>2
  <2>4. AggregateKey(c, answered, "childcount(1)", TRUE)
          = Cardinality(PairsOf(Members(p), p.unique, p.unique))
    BY RowsCounted
  <2>5. ChildcountOf(path, Members(p), level) = Cardinality(PairsOf(Members(p), p.unique, p.unique))
    BY <1>6, <2>2, <2>3
  <2>6. AggregateKey(c, answered, key, p.rows) = AggregateKey(c, answered, "childcount(1)", TRUE)
    BY <1>9 DEF AggregateKey
  <2> QED  BY <1>1, <2>4, <2>5, <2>6
<1>10. CASE ~(p.rows /\ key = "childcount(1)") /\ at > Len(levels)
  <2>1. PICK counted : counted = p.rows
    OBVIOUS
  <2>2. AggregateFor(p, key) = Aggregate("count", "*")
    BY <1>3, <1>4, <1>10
  <2>3. AggregateKey(c, answered, key, counted) = Cardinality(Members(p))
    BY <1>5, <1>10, <2>1, <2>2, FilesCounted
  <2> QED  BY <1>1, <1>6, <1>10, <2>1, <2>3
<1>11. CASE ~(p.rows /\ key = "childcount(1)") /\ ~(at > Len(levels))
  <2>1. PICK counted, first : counted = p.rows /\ first = levels[1]
    OBVIOUS
  <2>2. K \in {"genre", "artist", "album"} /\ levels[at] = K
    BY <1>3, <1>11
  <2>3. GroupedLike(n, file, group, first)
    <3>1. CASE p.rows
      <4>1. first = p.unique
        BY <1>3, <1>11, <2>1, <3>1
      <4> QED  BY <1>8, <4>1 DEF GroupedLike
    <3>2. CASE ~p.rows
      <4>1. first \in {"genre", "artist", "album"} /\ p.category[first] # Nothing
        BY <1>3, <1>11, <2>1, <3>2
      <4>2. p.unique \in {"genre", "artist", "album"}
        BY <4>1 DEF ContainerPlan, ContainerKeys, GroupsByCategory
      <4>3. \A x, y \in 1 .. n : group[x] = group[y]
        BY <3>2, <4>2, OneGroup
      <4>4. \A x \in 1 .. n : Property(file[x], first) = p.category[first]
        <5>1. \A x \in 1 .. n : file[x] \in Members(p)
          BY DEF IsGrouped, Matches
        <5>2. p.category = [k \in {"genre", "artist", "album"} |-> p.category[k]]
          BY DEF ContainerPlan
        <5> QED  BY <4>1, <5>1, <5>2, HasCategory
      <4> QED  BY <4>3, <4>4 DEF GroupedLike
    <3> QED  BY <3>1, <3>2
  <2>4. AggregateKey(c, answered, key, counted) = Cardinality(PairsOf(Members(p), first, K))
    BY <1>4, <1>5, <1>11, <2>1, <2>2, <2>3, ValuesCounted
  <2> QED  BY <1>1, <1>6, <1>11, <2>1, <2>2, <2>4
<1> QED  BY <1>9, <1>10, <1>11

\* What there is to tell from: a row for each group, or nothing asked at all.
RowsTold(p, c, answered) ==
  \/ answered = << >> /\ InTracker(c) \subseteq {p.unique}
  \/ \E n, file, m, leaders, group :
       /\ IsGrouped(p, n, file, m, leaders, group)
       /\ IsAnswered(p, c, answered, n, file, m, leaders, group)

\* The values that are concatenated.
LEMMA ConcatTold ==
  ASSUME known \in SUBSET File, library \in Complete, library \in DOMAIN Libraries,
         NEW p, NEW path, ContainerPlan(p, path), NEW c, NEW answered,
         RowsTold(p, c, answered), NEW key \in InTracker(c) \cap p.concat
  PROVE  PlainValue(c, answered, 1, key) = ValuesOf(Members(p), key)
<1>1. /\ key \in {"artist", "album"} /\ key # p.unique
      /\ ~p.rows /\ p.unique \in {"genre", "artist", "album"}
  <2>1. key \in {"artist", "album"} /\ key # p.unique
    BY DEF ContainerPlan, ContainerConcat
  <2>2. p.category.artist # Nothing \/ p.category.album # Nothing
    BY DEF ContainerPlan, GroupsByCategory
  <2>3. ~p.rows
    BY <2>2 DEF ContainerPlan, GroupsByCategory
  <2>4. p.unique # "mime"
    BY <2>2 DEF ContainerPlan, GroupsByCategory
  <2> QED  BY <2>1, <2>3, <2>4 DEF ContainerPlan, ContainerKeys
<1>2. PICK n, file, m, leaders, group :
        /\ IsGrouped(p, n, file, m, leaders, group)
        /\ IsAnswered(p, c, answered, n, file, m, leaders, group)
  BY <1>1 DEF RowsTold
<1>3. \/ m = 0 /\ n = 0
      \/ m = 1 /\ n > 0 /\ GroupOf(n, leaders, group, 1) = 1 .. n
  BY <1>1, <1>2, OneGroup
<1>4. /\ n \in Nat /\ Members(p) = {file[x] : x \in 1 .. n}
      /\ \A x \in 1 .. n : file[x] \in known
  BY <1>2 DEF IsGrouped, Matches
<1>5. key \in DOMAIN c.entries /\ c.entries[key].kind = "tracker"
  BY DEF InTracker
<1>6. CASE m = 0 /\ n = 0
  <2>1. 1 \notin DOMAIN answered
    BY <1>2, <1>6 DEF IsAnswered
  <2>2. PlainValue(c, answered, 1, key) = Nothing
    BY <1>5, <2>1 DEF PlainValue
  <2>3. Members(p) = {}
    BY <1>4, <1>6
  <2>4. ValuesOf(Members(p), key) = {}
    BY <2>3 DEF ValuesOf
  <2> QED  BY <2>2, <2>4 DEF Nothing
<1>7. CASE m = 1 /\ n > 0 /\ GroupOf(n, leaders, group, 1) = 1 .. n
  <2>1. PICK J, cell : J = 1 .. n /\ cell = UNION {Song(file[j])[key] : j \in J}
    OBVIOUS
  <2>2. AggregateFor(p, key) = Aggregate("concat", key)
    BY <1>1, KindsForContainers DEF AggregateFor
  <2>3. AggregateOf(AggregateFor(p, key), file, GroupOf(n, leaders, group, 1)) = cell
    <3>1. PICK a : a = Aggregate("concat", key)
      OBVIOUS
    <3>2. a.type = "concat" /\ a.key = key /\ a # Aggregate("count", "*")
      BY <3>1 DEF Aggregate
    <3>3. AggregateOf(a, file, J) = UNION {Song(file[j])[key] : j \in J}
      BY <3>2 DEF AggregateOf
    <3> QED  BY <1>7, <2>1, <2>2, <3>1, <3>3
  <2>4. \A j \in J : Song(file[j])[key] = Property(file[j], key) /\ Property(file[j], key) # {}
    <3>1. \A j \in J : file[j] \in File
      BY <1>4, <2>1
    <3>2. key \in Added4
      BY <1>1 DEF Added4
    <3> QED  BY <3>1, <3>2, NothingLacking
  <2>5. cell = ValuesOf(Members(p), key)
    BY <1>4, <2>1, <2>4 DEF ValuesOf
  <2>6. cell # {}
    <3>1. 1 \in J
      BY <1>4, <1>7, <2>1
    <3>2. Song(file[1])[key] # {} /\ Song(file[1])[key] \subseteq cell
      BY <2>1, <2>4, <3>1
    <3> QED  BY <3>2
  <2>7. 1 \in 1 .. m
    BY <1>7
  <2>8. 1 \in DOMAIN answered /\ ValueGet(c, answered, 1, key) = cell
    BY <1>1, <1>2, <2>3, <2>6, <2>7, ToldByRow
  <2>9. ValueGet(c, answered, 1, key) = PlainValue(c, answered, 1, key)
    BY <1>5 DEF ValueGet, KeyExists
  <2> QED  BY <2>5, <2>8, <2>9
<1> QED  BY <1>3, <1>6, <1>7

\* What is told for one of the keys of the category.
NameTold(p, k) ==
  IF p.category[k] # Nothing THEN p.category[k]
  ELSE IF k \in p.concat THEN ValuesOf(Members(p), k) ELSE Nothing

LEMMA NamesTold ==
  ASSUME known \in SUBSET File, library \in Complete, library \in DOMAIN Libraries,
         NEW p, NEW path, ContainerPlan(p, path), NEW c, ContainerCache(c, p, p.concat),
         NEW answered, RowsTold(p, c, answered),
         NEW k \in {"genre", "artist", "album"}, k \in DOMAIN c.entries,
         p.rows => k # p.unique
  PROVE  /\ PlainValue(c, answered, 1, k) = NameTold(p, k)
         /\ ValueGet(c, answered, 1, k) = PlainValue(c, answered, 1, k)
<1>1. ContainerEntry(p, p.concat, k, c.entries[k])
  BY DEF ContainerCache, ContainerEntries
<1>2. k \notin ArtKeys \cup ThumbnailKeys \cup ChildcountKeys /\ k # "duration"
  BY KindsForContainers
<1>3. KnownOf(p, k) = p.category[k]
  BY DEF KnownOf
<1>4. KeyExists(c, k)
  BY DEF KeyExists
<1>5. CASE p.category[k] # Nothing
  <2>1. c.entries[k].kind = "computed" /\ c.entries[k].value = p.category[k]
    BY <1>1, <1>2, <1>3, <1>5 DEF ContainerEntry
  <2>2. PlainValue(c, answered, 1, k) = p.category[k]
    BY <1>4, <2>1 DEF PlainValue
  <2>3. ValueGet(c, answered, 1, k) = PlainValue(c, answered, 1, k)
    BY <1>4, <2>1 DEF ValueGet
  <2> QED  BY <1>5, <2>2, <2>3 DEF NameTold
<1>6. CASE p.category[k] = Nothing /\ k \in p.concat
  <2>1. c.entries[k].kind = "tracker"
    BY <1>1, <1>2, <1>3, <1>6 DEF ContainerEntry
  <2>2. k \in InTracker(c) \cap p.concat
    BY <1>6, <2>1 DEF InTracker
  <2>3. PlainValue(c, answered, 1, k) = ValuesOf(Members(p), k)
    BY <2>2, ConcatTold
  <2>4. ValueGet(c, answered, 1, k) = PlainValue(c, answered, 1, k)
    BY <1>4, <2>1 DEF ValueGet
  <2> QED  BY <1>6, <2>3, <2>4 DEF NameTold
<1>7. CASE p.category[k] = Nothing /\ k \notin p.concat
  <2>1. k # p.unique
    BY <1>7 DEF ContainerPlan, GroupsByCategory
  <2>2. c.entries[k].kind = "void"
    BY <1>1, <1>2, <1>3, <1>7, <2>1 DEF ContainerEntry
  <2>3. PlainValue(c, answered, 1, k) = Nothing
    BY <1>4, <2>2 DEF PlainValue
  <2>4. ValueGet(c, answered, 1, k) = PlainValue(c, answered, 1, k)
    BY <1>4, <2>2 DEF ValueGet
  <2> QED  BY <1>7, <2>3, <2>4 DEF NameTold
<1> QED  BY <1>5, <1>6, <1>7

\* The albums whose covers a container may have.
AlbumsOf(p) ==
  IF p.category.album # Nothing THEN p.category.album
  ELSE IF p.category.artist # Nothing THEN ValuesOf(Members(p), "album") ELSE {}

LEMMA NamesAsExpected ==
  ASSUME NEW p, NEW path, ContainerPlan(p, path)
  PROVE  /\ NameTold(p, "genre") = p.category.genre
         /\ NameTold(p, "album") = AlbumsOf(p)
         /\ NameTold(p, "artist") =
              IF p.category.artist = Nothing /\ p.category.album # Nothing
              THEN ValuesOf(Members(p), "artist") ELSE p.category.artist
<1>1. PICK artist, album, genre : /\ artist = p.category.artist /\ album = p.category.album
                                  /\ genre = p.category.genre
  OBVIOUS
<1>2. p.concat = CASE artist # Nothing /\ album = Nothing -> {"album"}
                   [] artist = Nothing /\ album # Nothing -> {"artist"}
                   [] OTHER -> {}
  BY <1>1 DEF ContainerPlan, GroupsByCategory
<1>3. "genre" \notin p.concat
  BY <1>2
<1>4. "album" \in p.concat <=> artist # Nothing /\ album = Nothing
  BY <1>2
<1>5. "artist" \in p.concat <=> artist = Nothing /\ album # Nothing
  BY <1>2
<1> QED  BY <1>1, <1>3, <1>4, <1>5 DEF NameTold, AlbumsOf, Nothing

-----------------------------------------------------------------------------
(* What is told of a container.                                            *)

\* What is told for a key, before values that are not allowed are left out.
ContainerTold(p, c, answered, k) ==
  IF k \in ChildcountKeys \cup {"duration"} THEN {AggregateKey(c, answered, k, p.rows)}
  ELSE ValueGet(c, answered, 1, k)

\* The keys that are left out.
ContainerBut(p) ==
  IF ~p.rows THEN {} ELSE {p.unique} \cup IF p.unique = "album" THEN ArtKeys ELSE {}

\* A container that is told of, with all that its metadata are made from.
IsContainer(p, path, c, answered) ==
  /\ known \in SUBSET File /\ library \in Complete /\ library \in DOMAIN Libraries
  /\ ContainerPlan(p, path)
  /\ ContainerCache(c, p, p.concat)
  /\ RowsTold(p, c, answered)

\* What a container should say of a key, one kind of keys after another.
LEMMA ContainerValues ==
  ASSUME NEW p, NEW path, NEW k
  PROVE  /\ k = "title" =>
              ContainerValue(path, p, k) = IF Len(path) > 2 THEN {Last(path)} ELSE p.title
         /\ k = "mime" => ContainerValue(path, p, k) = MimeContainer
         /\ k = "duration" => ContainerValue(path, p, k) = {Sum(Members(p), k)}
         /\ k \in ChildcountKeys =>
              ContainerValue(path, p, k)
                = IF Level(k) > (Len(LevelsOf(path)) + 1) - Given(path) THEN Nothing
                  ELSE {ChildcountOf(path, Members(p), Level(k))}
         /\ k = "genre" => ContainerValue(path, p, k) = p.category.genre
         /\ k = "album" => ContainerValue(path, p, k) = AlbumsOf(p)
         /\ k = "artist" =>
              ContainerValue(path, p, k)
                = IF p.category.artist = Nothing /\ p.category.album # Nothing
                  THEN ValuesOf(Members(p), "artist") ELSE p.category.artist
         /\ k \in ArtKeys => ContainerValue(path, p, k) = Cover(AlbumsOf(p))
         /\ k \notin {"title", "mime", "duration", "genre", "album", "artist"}
              /\ k \notin ChildcountKeys \cup ArtKeys => ContainerValue(path, p, k) = Nothing
<1> DEFINE others == {"title", "mime", "duration", "genre", "album", "artist"} \ {k}
<1>1. /\ {"title", "mime", "duration", "genre", "album", "artist"}
           \cap (ArtKeys \cup ThumbnailKeys \cup ChildcountKeys) = {}
      /\ ArtKeys \cap ChildcountKeys = {}
  BY KindsForContainers, KindsOfKeys
<1>2. ASSUME k \in {"title", "mime", "duration", "genre", "album", "artist"}
      PROVE  k \notin others \cup ChildcountKeys \cup ArtKeys
  BY <1>1, <1>2
<1>3. ASSUME k = "title"
      PROVE  ContainerValue(path, p, k) = IF Len(path) > 2 THEN {Last(path)} ELSE p.title
  BY <1>2, <1>3 DEF ContainerValue
<1>4. ASSUME k = "mime"
      PROVE  ContainerValue(path, p, k) = MimeContainer
  BY <1>2, <1>4 DEF ContainerValue
<1>5. ASSUME k = "duration"
      PROVE  ContainerValue(path, p, k) = {Sum(Members(p), k)}
  BY <1>2, <1>5 DEF ContainerValue
<1>6. ASSUME k = "genre"
      PROVE  ContainerValue(path, p, k) = p.category.genre
  BY <1>2, <1>6 DEF ContainerValue
<1>7. ASSUME k = "album"
      PROVE  ContainerValue(path, p, k) = AlbumsOf(p)
  BY <1>2, <1>7 DEF ContainerValue, AlbumsOf
<1>8. ASSUME k = "artist"
      PROVE  ContainerValue(path, p, k)
               = IF p.category.artist = Nothing /\ p.category.album # Nothing
                 THEN ValuesOf(Members(p), "artist") ELSE p.category.artist
  BY <1>2, <1>8 DEF ContainerValue
<1>9. ASSUME k \in ChildcountKeys
      PROVE  ContainerValue(path, p, k)
               = IF Level(k) > (Len(LevelsOf(path)) + 1) - Given(path) THEN Nothing
                 ELSE {ChildcountOf(path, Members(p), Level(k))}
  <2>1. k \notin {"title", "mime", "duration", "genre", "album", "artist"} \cup ArtKeys
    BY <1>1, <1>9
  <2> QED  BY <1>9, <2>1 DEF ContainerValue
<1>10. ASSUME k \in ArtKeys
       PROVE  ContainerValue(path, p, k) = Cover(AlbumsOf(p))
  <2>1. k \notin {"title", "mime", "duration", "genre", "album", "artist"} \cup ChildcountKeys
    BY <1>1, <1>10
  <2> QED  BY <1>10, <2>1 DEF ContainerValue, AlbumsOf
<1>11. ASSUME k \notin {"title", "mime", "duration", "genre", "album", "artist"},
              k \notin ChildcountKeys \cup ArtKeys
       PROVE  ContainerValue(path, p, k) = Nothing
  BY <1>11 DEF ContainerValue
<1> QED
  BY <1>3, <1>4, <1>5, <1>6, <1>7, <1>8, <1>9, <1>10, <1>11

\* Where the value of a key comes from.
LEMMA EntryOfContainer ==
  ASSUME NEW p, NEW path, NEW c, NEW answered, IsContainer(p, path, c, answered),
         NEW k \in DOMAIN c.entries
  PROVE  /\ ContainerEntry(p, p.concat, k, c.entries[k])
         /\ k \in TellableTo(p.max)
         /\ NeededByArt(k) \subseteq DOMAIN c.entries
  BY DEF IsContainer, ContainerCache, ContainerEntries

\* Keys that a container says nothing of.
LEMMA VoidOfContainer ==
  ASSUME NEW p, NEW path, NEW c, NEW answered, IsContainer(p, path, c, answered),
         NEW k, k \notin {"title", "mime", "genre", "artist", "album", "duration"},
         k \notin ArtKeys \cup ThumbnailKeys \cup ChildcountKeys
  PROVE  /\ PlainValue(c, answered, 1, k) = Nothing
         /\ ValueGet(c, answered, 1, k) = Nothing
<1>1. CASE k \notin DOMAIN c.entries
  BY <1>1 DEF PlainValue, ValueGet, KeyExists
<1>2. CASE k \in DOMAIN c.entries
  <2>1. ContainerEntry(p, p.concat, k, c.entries[k])
    BY <1>2, EntryOfContainer
  <2>2. p.unique \in {"genre", "artist", "album", "mime"} /\ p.concat \subseteq {"artist", "album"}
    BY DEF IsContainer, ContainerPlan, ContainerKeys, ContainerConcat
  <2>3. KnownOf(p, k) = Nothing
    BY DEF KnownOf
  <2>4. c.entries[k].kind = "void"
    BY <2>1, <2>2, <2>3 DEF ContainerEntry
  <2> QED  BY <2>4 DEF PlainValue, ValueGet
<1> QED  BY <1>1, <1>2

\* The cover of a container.
LEMMA CoverOfContainer ==
  ASSUME NEW p, NEW path, NEW c, NEW answered, IsContainer(p, path, c, answered),
         "album" \in DOMAIN c.entries, p.rows => p.unique # "album"
  PROVE  AlbumArt(c, answered, 1) = Cover(AlbumsOf(p))
<1>1. PlainValue(c, answered, 1, "album") = NameTold(p, "album")
  <2>1. /\ known \in SUBSET File /\ library \in Complete /\ library \in DOMAIN Libraries
        /\ ContainerPlan(p, path) /\ ContainerCache(c, p, p.concat) /\ RowsTold(p, c, answered)
    BY DEF IsContainer
  <2>2. PICK k \in {"genre", "artist", "album"} : k = "album"
    OBVIOUS
  <2>3. k \in DOMAIN c.entries /\ (p.rows => k # p.unique)
    BY <2>2
  <2>4. PlainValue(c, answered, 1, k) = NameTold(p, k)
    BY <2>1, <2>3, NamesTold
  <2> QED  BY <2>2, <2>4
<1>2. NameTold(p, "album") = AlbumsOf(p)
  BY NamesAsExpected DEF IsContainer
<1> QED  BY <1>1, <1>2 DEF AlbumArt, Cover, TextIn

LEMMA PictureOfContainer ==
  ASSUME NEW p, NEW path, NEW c, NEW answered, IsContainer(p, path, c, answered),
         NEW k \in DOMAIN c.entries, k \in ArtKeys \cup ThumbnailKeys,
         k \notin ContainerBut(p)
  PROVE  ContainerTold(p, c, answered, k) = ContainerValue(path, p, k)
<1>1. KeyExists(c, k) /\ c.entries[k].kind = "thumbnailer"
  BY EntryOfContainer DEF KeyExists, ContainerEntry
<1>2. ValueGet(c, answered, 1, k)
        = IF k = "album-art-uri" THEN AlbumArt(c, answered, 1)
          ELSE Thumbnail(c, answered, 1, k)
  BY <1>1 DEF ValueGet
<1>3. k \notin {"title", "mime", "genre", "artist", "album", "duration"} \cup ChildcountKeys
  BY KindsOfNames, KindsOfKeys, KindsForContainers
<1>4. ContainerTold(p, c, answered, k) = ValueGet(c, answered, 1, k)
  BY <1>3 DEF ContainerTold
<1>5. CASE k \in ArtKeys
  <2>1. PICK cover : cover = Cover(AlbumsOf(p))
    OBVIOUS
  <2>2. /\ "album" \in DOMAIN c.entries
        /\ k \in SizedArtKeys => "album-art-uri" \in DOMAIN c.entries
    BY <1>5, EntryOfContainer, KindsForContainers DEF NeededByArt
  <2>3. p.rows => p.unique # "album"
    BY <1>5 DEF ContainerBut
  <2>4. AlbumArt(c, answered, 1) = cover
    BY <2>1, <2>2, <2>3, CoverOfContainer
  <2>5. cover \cap Pictures = cover
    BY <2>1 DEF Cover, TextIn, Nothing
  <2>6. ValueGet(c, answered, 1, k) = cover
    <3>1. CASE k = "album-art-uri"
      BY <1>2, <2>4, <3>1
    <3>2. CASE k # "album-art-uri"
      <4>1. k \in SizedArtKeys /\ k \notin ThumbnailKeys
        BY <1>5, <3>2, KindsForContainers
      <4>2. Thumbnail(c, answered, 1, k) = cover
        BY <2>2, <2>4, <2>5, <4>1 DEF Thumbnail, KeyExists
      <4> QED  BY <1>2, <3>2, <4>2
    <3> QED  BY <3>1, <3>2
  <2>7. ContainerValue(path, p, k) = cover
    BY <1>5, <2>1, ContainerValues
  <2> QED  BY <1>4, <2>6, <2>7
<1>6. CASE k \in ThumbnailKeys
  <2>1. k \notin ArtKeys
    BY <1>6, KindsForContainers
  <2>2. PlainValue(c, answered, 1, "uri") = Nothing
    BY VoidOfContainer, KindsForContainers
  <2>3. Thumbnail(c, answered, 1, k) = Nothing
    BY <1>6, <2>1, <2>2 DEF Thumbnail, ArtKeys, SizedArtKeys, Nothing
  <2>4. ContainerValue(path, p, k) = Nothing
    BY <1>3, <2>1, ContainerValues
  <2> QED  BY <1>2, <1>4, <2>1, <2>3, <2>4 DEF ArtKeys
<1> QED  BY <1>5, <1>6

\* A childcount beyond the levels of a container is not told.
LEMMA ChildcountValue ==
  ASSUME NEW p, NEW path, ContainerPlan(p, path), NEW k \in ChildcountKeys
  PROVE  ContainerValue(path, p, k)
           = IF Level(k) > p.max THEN Nothing
             ELSE {ChildcountOf(path, Members(p), Level(k))}
<1>1. p.max = (Len(LevelsOf(path)) + 1) - Given(path)
  BY DEF ContainerPlan
<1> QED  BY <1>1, ContainerValues

\* What Tracker was asked for is told by rows.
LEMMA AskedByRows ==
  ASSUME NEW p, NEW path, NEW c, NEW answered, IsContainer(p, path, c, answered),
         NEW k \in DOMAIN c.entries, k \in ChildcountKeys \cup {"duration"}
  PROVE  /\ k \in InTracker(c) /\ k # p.unique
         /\ \E n, file, m, leaders, group :
              /\ IsGrouped(p, n, file, m, leaders, group)
              /\ IsAnswered(p, c, answered, n, file, m, leaders, group)
<1>1. k \notin {"title", "mime", "genre", "artist", "album"} \cup ArtKeys \cup ThumbnailKeys
  BY KindsForContainers, KindsOfKeys
<1>2. KnownOf(p, k) = Nothing
  BY <1>1 DEF KnownOf
<1>3. c.entries[k].kind = "tracker"
  <2>1. ContainerEntry(p, p.concat, k, c.entries[k])
    BY EntryOfContainer
  <2> QED  BY <1>1, <1>2, <2>1 DEF ContainerEntry
<1>4. k \in InTracker(c)
  BY <1>3 DEF InTracker
<1>5. k # p.unique
  BY <1>1 DEF IsContainer, ContainerPlan, ContainerKeys
<1> QED  BY <1>4, <1>5 DEF IsContainer, RowsTold

LEMMA NumberOfContainer ==
  ASSUME NEW p, NEW path, NEW c, NEW answered, IsContainer(p, path, c, answered),
         NEW k \in DOMAIN c.entries, k \in ChildcountKeys \cup {"duration"}
  PROVE  ContainerTold(p, c, answered, k) = ContainerValue(path, p, k)
<1>1. /\ known \in SUBSET File /\ library \in Complete /\ library \in DOMAIN Libraries
      /\ ContainerPlan(p, path)
  BY DEF IsContainer
<1>2. k \in InTracker(c) /\ k # p.unique
  BY AskedByRows
<1>3. PICK n, file, m, leaders, group :
        /\ IsGrouped(p, n, file, m, leaders, group)
        /\ IsAnswered(p, c, answered, n, file, m, leaders, group)
  BY AskedByRows
<1>4. ContainerTold(p, c, answered, k) = {AggregateKey(c, answered, k, p.rows)}
  BY DEF ContainerTold
<1>5. CASE k = "duration"
  <2>1. PICK counted : counted = p.rows
    OBVIOUS
  <2>2. p.unique # "duration" /\ "duration" \in InTracker(c)
    BY <1>2, <1>5
  <2>3. AggregateKey(c, answered, "duration", counted) = Sum(Members(p), "duration")
    BY <1>1, <1>3, <2>2, DurationTold
  <2>4. ContainerValue(path, p, k) = {Sum(Members(p), "duration")}
    BY <1>5, ContainerValues
  <2> QED  BY <1>4, <1>5, <2>1, <2>3, <2>4
<1>6. CASE k \in ChildcountKeys
  <2>1. Level(k) <= p.max
    <3>1. k \in TellableTo(p.max)
      BY EntryOfContainer
    <3>2. ~(Level(k) > p.max)
      BY <1>6, <3>1 DEF TellableTo
    <3>3. Level(k) \in Int /\ p.max \in Int
      BY <1>1, <1>6, ChildcountNames DEF ContainerPlan, ContainerKeys
    <3> QED  BY <3>2, <3>3
  <2>2. AggregateKey(c, answered, k, p.rows) = ChildcountOf(path, Members(p), Level(k))
    BY <1>1, <1>2, <1>3, <1>6, <2>1, ChildcountTold
  <2>3. ~(Level(k) > p.max)
    <3>1. Level(k) \in Int /\ p.max \in Int
      BY <1>1, <1>6, ChildcountNames DEF ContainerPlan, ContainerKeys
    <3> QED  BY <2>1, <3>1
  <2> QED  BY <1>1, <1>4, <1>6, <2>2, <2>3, ChildcountValue
<1> QED  BY <1>5, <1>6

LEMMA NameOfContainer ==
  ASSUME NEW p, NEW path, NEW c, NEW answered, IsContainer(p, path, c, answered),
         NEW k \in DOMAIN c.entries, k \in {"genre", "artist", "album"},
         k \notin ContainerBut(p)
  PROVE  ContainerTold(p, c, answered, k) = ContainerValue(path, p, k)
<1>1. /\ known \in SUBSET File /\ library \in Complete /\ library \in DOMAIN Libraries
      /\ ContainerPlan(p, path) /\ ContainerCache(c, p, p.concat) /\ RowsTold(p, c, answered)
  BY DEF IsContainer
<1>2. p.rows => k # p.unique
  BY DEF ContainerBut
<1>3. k \notin ChildcountKeys \cup {"duration", "title", "mime"}
  BY KindsForContainers
<1>4. ContainerTold(p, c, answered, k) = NameTold(p, k)
  <2>1. ValueGet(c, answered, 1, k) = NameTold(p, k)
    BY <1>1, <1>2, NamesTold
  <2> QED  BY <1>3, <2>1 DEF ContainerTold
<1>5. NameTold(p, k) = ContainerValue(path, p, k)
  <2>1. /\ NameTold(p, "genre") = p.category.genre
        /\ NameTold(p, "album") = AlbumsOf(p)
        /\ NameTold(p, "artist") =
             IF p.category.artist = Nothing /\ p.category.album # Nothing
             THEN ValuesOf(Members(p), "artist") ELSE p.category.artist
    BY <1>1, NamesAsExpected
  <2>2. CASE k = "genre"
    BY <2>1, <2>2, ContainerValues
  <2>3. CASE k = "artist"
    BY <2>1, <2>3, ContainerValues
  <2>4. CASE k = "album"
    BY <2>1, <2>4, ContainerValues
  <2> QED  BY <2>2, <2>3, <2>4
<1> QED  BY <1>4, <1>5

\* Each key of a container has the value it should have.
LEMMA ValueOfContainer ==
  ASSUME NEW p, NEW path, NEW c, NEW answered, IsContainer(p, path, c, answered),
         NEW k \in DOMAIN c.entries, k \notin ContainerBut(p)
  PROVE  ContainerTold(p, c, answered, k) = ContainerValue(path, p, k)
<1>1. CASE k \in ArtKeys \cup ThumbnailKeys
  BY <1>1, PictureOfContainer
<1>2. CASE k \in ChildcountKeys \cup {"duration"}
  BY <1>2, NumberOfContainer
<1>3. CASE k \in {"genre", "artist", "album"}
  BY <1>3, NameOfContainer
<1>4. CASE k \in {"title", "mime"}
  <2>1. k \notin ChildcountKeys \cup ArtKeys \cup ThumbnailKeys \cup {"duration"}
    BY <1>4, KindsForContainers
  <2>2. ContainerEntry(p, p.concat, k, c.entries[k])
    BY EntryOfContainer
  <2>3. p.title # Nothing /\ (Len(path) > 2 => p.title = {Last(path)})
    BY DEF IsContainer, ContainerPlan, ContainerKeys
  <2>4. KnownOf(p, k) = IF k = "title" THEN p.title ELSE MimeContainer
    BY <1>4 DEF KnownOf
  <2>5. c.entries[k].kind = "computed" /\ c.entries[k].value = KnownOf(p, k)
    BY <2>1, <2>2, <2>3, <2>4 DEF ContainerEntry, MimeContainer, Nothing
  <2>6. ContainerTold(p, c, answered, k) = KnownOf(p, k)
    BY <2>1, <2>5 DEF ContainerTold, ValueGet, PlainValue, KeyExists
  <2>7. ContainerValue(path, p, k) = KnownOf(p, k)
    <3>1. CASE k = "title"
      <4>1. ContainerValue(path, p, k) = IF Len(path) > 2 THEN {Last(path)} ELSE p.title
        BY <3>1, ContainerValues
      <4> QED  BY <2>3, <2>4, <3>1, <4>1
    <3>2. CASE k = "mime"
      <4>1. ContainerValue(path, p, k) = MimeContainer
        BY <3>2, ContainerValues
      <4> QED  BY <2>4, <3>2, <4>1
    <3> QED  BY <1>4, <3>1, <3>2
  <2> QED  BY <2>6, <2>7
<1>5. CASE /\ k \notin {"title", "mime", "genre", "artist", "album", "duration"}
           /\ k \notin ArtKeys \cup ThumbnailKeys \cup ChildcountKeys
  <2>1. ContainerTold(p, c, answered, k) = Nothing
    BY <1>5, VoidOfContainer DEF ContainerTold
  <2>2. ContainerValue(path, p, k) = Nothing
    BY <1>5, ContainerValues
  <2> QED  BY <2>1, <2>2
<1> QED  BY <1>1, <1>2, <1>3, <1>4, <1>5

\* A container has nothing to tell of levels that it does not have.
LEMMA NothingBelow ==
  ASSUME NEW p, NEW path, ContainerPlan(p, path), NEW k \in MetadataKeys \ TellableTo(p.max)
  PROVE  ContainerValue(path, p, k) = Nothing
<1>1. k \in ChildcountKeys /\ Level(k) > p.max
  BY DEF TellableTo
<1> QED  BY <1>1, ChildcountValue

\* What should be told of a container, and for which keys.
ContainerExpected(asked, path, p) ==
  Expected(asked, LAMBDA key : ContainerValue(path, p, key))

\* The metadata of a container are those it should have.
LEMMA MetadataOfContainer ==
  ASSUME NEW p, NEW path, NEW c, NEW answered, IsContainer(p, path, c, answered), NEW asked,
         KeysGetUser(c) = Range(asked) \cap TellableTo(p.max)
  PROVE  AgreeBut(ContainerBut(p), BuildAggregated(c, answered, p.rows),
                  ContainerExpected(asked, path, p))
<1> DEFINE A == {u \in KeysGetUser(c) : Allowed(u, ContainerTold(p, c, answered, u))}
           B == {k \in Range(asked) \cap MetadataKeys : Allowed(k, ContainerValue(path, p, k))}
           told == [k \in A |-> Told(ContainerTold(p, c, answered, k))]
           expected == [k \in B |-> Told(ContainerValue(path, p, k))]
           but == ContainerBut(p)
<1>1. BuildAggregated(c, answered, p.rows) = told
  BY DEF BuildAggregated, Metadata, ContainerTold
<1>2. ContainerExpected(asked, path, p) = expected
  BY DEF ContainerExpected, Expected
<1>3. \A k \in (Range(asked) \cap TellableTo(p.max)) \ but :
        ContainerTold(p, c, answered, k) = ContainerValue(path, p, k)
  <2> SUFFICES ASSUME NEW k \in (Range(asked) \cap TellableTo(p.max)) \ but
               PROVE  ContainerTold(p, c, answered, k) = ContainerValue(path, p, k)
    OBVIOUS
  <2>1. k \in DOMAIN c.entries
    BY DEF KeysGetUser
  <2> QED  BY <2>1, ValueOfContainer
<1>4. TellableTo(p.max) \subseteq MetadataKeys
  BY DEF TellableTo
<1>5. \A k \in MetadataKeys \ TellableTo(p.max) : ~Allowed(k, ContainerValue(path, p, k))
  <2>1. ContainerPlan(p, path)
    BY DEF IsContainer
  <2> QED  BY <2>1, NothingBelow DEF Allowed
<1>6. A \ but = B \ but
  BY <1>3, <1>4, <1>5
<1>7. \A k \in A \ but : told[k] = expected[k]
  BY <1>3, <1>6
<1>8. DOMAIN told = A /\ DOMAIN expected = B
  OBVIOUS
<1> HIDE DEF A, B, told, expected, but
<1>9. Restrict(told, DOMAIN told \ but) = Restrict(expected, DOMAIN expected \ but)
  BY <1>6, <1>7, <1>8 DEF Restrict
<1>10. AgreeBut(but, told, expected)
  BY <1>9 DEF AgreeBut
<1> QED  BY <1>1, <1>2, <1>10 DEF but

-----------------------------------------------------------------------------
(* A query about a container, from the call to its answer.                 *)

\* The keys that are concatenated so far.
ConcatSoFar == IF stage = "keys" THEN {} ELSE plan.concat

\* The plan is the one of the path, the cache has the entries it should have,
\* those for the user are of the keys asked for, as far as they have been added,
\* and there is an answer to the statement in the end, unless there was nothing
\* to ask.
ContainerInv ==
  plan.kind = "container" =>
    /\ ContainerPlan(plan, query.path)
    /\ query.filter = NoFilter
    /\ ContainerCache(cache, plan, ConcatSoFar)
    /\ KeysGetUser(cache) \cup (Range(todo) \cap TellableTo(plan.max))
         = Range(query.keys) \cap TellableTo(plan.max)
    /\ stage # "clips"
    /\ stage # "keys" => todo = << >>
    /\ stage = "unasked" => Aggregates(plan, cache) = << >>
    /\ stage = "answered" =>
         \/ rows = Answer(Statement(plan, cache, NoFilter))
         \/ rows = << >> /\ Aggregates(plan, cache) = << >>

LEMMA InitContainers == CatalogInit => ContainerInv
<1> SUFFICES ASSUME CatalogInit PROVE plan.kind = "none"
  BY DEF ContainerInv
<1> QED  BY PlanFields DEF CatalogInit, NoPlan

LEMMA StepContainers ==
  PairingInv /\ ClipsInv /\ TypeInv /\ ContainerInv /\ [CatalogNext]_allVars => ContainerInv'
<1> SUFFICES ASSUME PairingInv, ClipsInv, TypeInv, ContainerInv, [CatalogNext]_allVars,
                    plan'.kind = "container"
             PROVE  ContainerInv'
  BY DEF ContainerInv
\* Steps once the statement is sent.
<1>1. ASSUME UNCHANGED <<query, plan, cache, todo>>, stage \notin {"keys", "clips"},
             stage' \in {"answered", "failed"},
             stage' = "answered" =>
               \/ rows' = Answer(Statement(plan, cache, NoFilter))'
               \/ rows' = << >> /\ Aggregates(plan, cache) = << >>
      PROVE  ContainerInv'
  <2>1. /\ ContainerPlan(plan, query.path) /\ query.filter = NoFilter
        /\ ContainerCache(cache, plan, plan.concat)
        /\ KeysGetUser(cache) \cup (Range(todo) \cap TellableTo(plan.max))
             = Range(query.keys) \cap TellableTo(plan.max)
        /\ todo = << >>
    BY <1>1 DEF ContainerInv, ConcatSoFar
  <2> QED  BY <1>1, <2>1 DEF ContainerInv, ConcatSoFar
<1>2. ASSUME NEW q \in Queries, Ask(q)
      PROVE  ContainerInv'
  <2>1. /\ plan' = PlanOf(q) /\ cache' = FirstCache(plan', q.clips)
        /\ query' = q /\ todo' = q.keys
        /\ stage' = CASE plan'.kind = "none" -> "rejected"
                      [] plan'.kind # "none" /\ UserFilter(q.filter).outcome = "endless" ->
                           "endless"
                      [] OTHER -> "keys"
    BY <1>2 DEF Ask
  <2>2. ContainerPlan(plan', q.path) /\ q.filter = NoFilter
    BY <2>1, PlanOfContainer
  <2>3. stage' = "keys"
    <3>1. UserFilter(q.filter).outcome = "ok"
      BY <2>2 DEF UserFilter, Written
    <3> QED  BY <2>1, <3>1
  <2>4. /\ ContainerCache(cache', plan', {})
        /\ KeysGetUser(cache') = {}
    <3>1. PICK p : p = plan'
      OBVIOUS
    <3>2. ContainerKeys(p) /\ p.kind = "container"
      BY <2>2, <3>1 DEF ContainerPlan
    <3>3. /\ ContainerCache(FirstCache(p, q.clips), p, {})
          /\ KeysGetUser(FirstCache(p, q.clips)) = {}
      BY <3>2, FirstCacheContainer
    <3> QED  BY <2>1, <3>1, <3>3
  <2> QED  BY <2>1, <2>2, <2>3, <2>4 DEF ContainerInv, ConcatSoFar
<1>3. CASE AddKey
  <2>1. /\ cache' = KeyAdd(cache, Head(todo), plan.max, TRUE)
        /\ todo # << >> /\ todo' = Tail(todo)
        /\ query' = query /\ plan' = plan
        /\ stage = "keys" /\ stage' = stage
    BY <1>3 DEF AddKey
  <2>2. /\ ContainerPlan(plan, query.path) /\ query.filter = NoFilter
        /\ ContainerCache(cache, plan, {}) /\ ContainerKeys(plan)
        /\ KeysGetUser(cache) \cup (Range(todo) \cap TellableTo(plan.max))
             = Range(query.keys) \cap TellableTo(plan.max)
    BY <2>1 DEF ContainerInv, ConcatSoFar, ContainerPlan
  <2>3. PICK k : k = Head(todo)
    OBVIOUS
  <2>4. LET q == KeyAdd(cache, k, plan.max, TRUE)
        IN  /\ ContainerCache(q, plan, {})
            /\ KeysGetUser(q) = KeysGetUser(cache)
                                  \cup (IF TRUE THEN {k} \cap TellableTo(plan.max) ELSE {})
    BY <2>2, KeyAddKeepsContainer
  <2>5. /\ ContainerCache(cache', plan, {})
        /\ KeysGetUser(cache') = KeysGetUser(cache) \cup ({k} \cap TellableTo(plan.max))
    BY <2>1, <2>3, <2>4
  <2>6. Range(todo) = {k} \cup Range(todo')
    BY <2>1, <2>3, TodoIsList, RangeOfTail
  <2>7. KeysGetUser(cache') \cup (Range(todo') \cap TellableTo(plan.max))
          = Range(query.keys) \cap TellableTo(plan.max)
    BY <2>2, <2>5, <2>6
  <2> QED  BY <2>1, <2>2, <2>5, <2>7 DEF ContainerInv, ConcatSoFar
<1>4. CASE Send
  <2>1. /\ cache' = LastCache(plan, cache)
        /\ query' = query /\ plan' = plan /\ todo' = todo
        /\ stage = "keys" /\ todo = << >>
        /\ stage' = IF plan.kind = "container" /\ Aggregates(plan, cache') = << >>
                    THEN "unasked" ELSE "asked"
    BY <1>4 DEF Send
  <2>2. /\ ContainerPlan(plan, query.path) /\ query.filter = NoFilter
        /\ ContainerCache(cache, plan, {})
        /\ KeysGetUser(cache) \cup (Range(todo) \cap TellableTo(plan.max))
             = Range(query.keys) \cap TellableTo(plan.max)
    BY <2>1 DEF ContainerInv, ConcatSoFar
  <2>3. ContainerKeys(plan) /\ ContainerConcat(plan)
    BY <2>2 DEF ContainerPlan
  <2>4. /\ ContainerCache(LastCache(plan, cache), plan, plan.concat)
        /\ KeysGetUser(LastCache(plan, cache)) = KeysGetUser(cache)
    BY <2>2, <2>3, LastCacheContainer
  <2> QED  BY <2>1, <2>2, <2>4 DEF ContainerInv, ConcatSoFar
<1>5. CASE SendClips
  BY <1>5 DEF SendClips, catalogVarsButStage
<1>6. CASE TrackerAnswers
  <2>1. /\ plan' = plan /\ cache' = cache /\ query' = query /\ todo' = todo
        /\ library' = library /\ known' = known
        /\ stage = "asked" /\ stage' = "answered"
        /\ rows' = Answer(Statement(plan, cache, query.filter))
    BY <1>6 DEF TrackerAnswers, vars
  <2>2. query.filter = NoFilter
    BY <2>1 DEF ContainerInv
  <2>3. PICK s : s = Statement(plan, cache, NoFilter)
    OBVIOUS
  <2>4. s = Statement(plan', cache', NoFilter)
    BY <2>1, <2>3
  <2>5. rows' = Answer(Statement(plan, cache, NoFilter))'
    BY <2>1, <2>2, <2>3, <2>4 DEF Answer, Have, TypeOf, Song, Property
  <2> QED  BY <1>1, <2>1, <2>5
<1>7. CASE TrackerFails
  BY <1>1, <1>7 DEF TrackerFails, catalogVarsButStage
<1>8. CASE NothingAsked
  <2>1. /\ plan' = plan /\ cache' = cache /\ query' = query /\ todo' = todo
        /\ stage = "unasked" /\ stage' = "answered" /\ rows' = << >>
    BY <1>8 DEF NothingAsked
  <2>2. Aggregates(plan, cache) = << >>
    BY <2>1 DEF ContainerInv
  <2> QED  BY <1>1, <2>1, <2>2
<1>9. CASE ClipsHandler
  BY <1>9 DEF ClipsHandler, catalogVarsButStage, ContainerInv
<1>10. CASE Indexer
  BY <1>10 DEF Indexer, catalogVars, ContainerInv
<1>11. CASE UNCHANGED allVars
  <2>1. /\ plan' = plan /\ cache' = cache /\ query' = query /\ library' = library
        /\ known' = known /\ stage' = stage /\ rows' = rows /\ todo' = todo
    BY <1>11 DEF allVars, vars, catalogVars
  <2>2. PICK s : s = Statement(plan, cache, NoFilter)
    OBVIOUS
  <2>3. s = Statement(plan', cache', NoFilter)
    BY <2>1, <2>2
  <2>4. Answer(s)' = Answer(s)
    BY <2>1 DEF Answer, Have, TypeOf, Song, Property
  <2> QED  BY <2>1, <2>2, <2>3, <2>4 DEF ContainerInv, ConcatSoFar
<1> QED
  BY <1>2, <1>3, <1>4, <1>5, <1>6, <1>7, <1>8, <1>9, <1>10, <1>11
  DEF CatalogNext, CatalogHandler

\* There are rows for what was asked, and there is nothing to tell of what was
\* not.
LEMMA RowsOfContainer ==
  ASSUME known \in SUBSET File, library \in Complete, library \in DOMAIN Libraries,
         NEW p, NEW path, ContainerPlan(p, path),
         NEW c, CacheFits(p, c), ContainerCache(c, p, p.concat), NEW answered,
         \/ answered = Answer(Statement(p, c, NoFilter))
         \/ answered = << >> /\ Aggregates(p, c) = << >>
  PROVE  IsContainer(p, path, c, answered)
<1>1. RowsTold(p, c, answered)
  <2>1. CASE answered = Answer(Statement(p, c, NoFilter))
    BY <2>1, ContainerAnswers DEF RowsTold
  <2>2. CASE answered = << >> /\ Aggregates(p, c) = << >>
    <3>1. PICK asked : asked = KeysFrom(c, 2)
      OBVIOUS
    <3>2. DOMAIN asked = {}
      <4>1. DOMAIN Aggregates(p, c) = DOMAIN asked
        BY <3>1 DEF Aggregates
      <4> QED  BY <2>2, <4>1
    <3>3. Paired(p, c) /\ p.unique # Hole
      BY DEF CacheFits, ContainerPlan, ContainerKeys, Hole
    <3>4. ASSUME NEW key \in InTracker(c), key # p.unique
          PROVE  FALSE
      <4>1. c.entries[key].at \in 1 .. Len(asked)
        BY <3>1, <3>3, <3>4, ColumnOfKey
      <4>2. DOMAIN asked = 1 .. Len(asked)
        <5>1. PICK first, s : first = FirstUsed(p.unique) /\ s = KeysFrom(c, first + 1)
          OBVIOUS
        <5>2. ColumnsOK(c, p.unique) /\ InTracker(c) \subseteq MetadataKeys
          BY <3>3 DEF Paired
        <5>3. s \in Seq(InTracker(c))
          BY <5>1, <5>2, KeysFromAll
        <5>4. first = 1 /\ s = asked
          BY <3>1, <3>3, <5>1 DEF FirstUsed
        <5> QED  BY <5>3, <5>4
      <4> QED  BY <3>2, <4>1, <4>2
    <3> QED  BY <2>2, <3>4 DEF RowsTold
  <2> QED  BY <2>1, <2>2
<1> QED  BY <1>1 DEF IsContainer

LEMMA ContainersTold ==
  PairingInv /\ BoundInv /\ ClipsInv /\ TypeInv /\ ContainerInv => ContainersExact
<1> SUFFICES ASSUME PairingInv, BoundInv, ClipsInv, TypeInv, ContainerInv,
                    stage = "answered", plan.kind = "container", library \in Complete
             PROVE  AgreeBut(ContainerBut(plan), Result[1],
                             ContainerExpected(query.keys, query.path, plan))
  BY DEF ContainersExact, ContainerBut, ContainerExpected
<1>1. /\ ContainerPlan(plan, query.path) /\ ContainerCache(cache, plan, plan.concat)
      /\ todo = << >>
      /\ KeysGetUser(cache) \cup (Range(todo) \cap TellableTo(plan.max))
           = Range(query.keys) \cap TellableTo(plan.max)
      /\ \/ rows = Answer(Statement(plan, cache, NoFilter))
         \/ rows = << >> /\ Aggregates(plan, cache) = << >>
  BY DEF ContainerInv, ConcatSoFar
<1>3. IsContainer(plan, query.path, cache, rows)
  BY <1>1, RowsOfContainer, CacheIsFit, KnownFiles DEF TypeInv
<1>4. KeysGetUser(cache) = Range(query.keys) \cap TellableTo(plan.max)
  <2>1. Range(todo) = {}
    BY <1>1 DEF Range
  <2> QED  BY <1>1, <2>1
<1>5. Result[1] = BuildAggregated(cache, rows, plan.rows)
  BY DEF Result, Built, AnsweredRows
<1>6. PICK p, path, c, answered, asked :
        /\ p = plan /\ path = query.path /\ c = cache /\ answered = rows /\ asked = query.keys
  OBVIOUS
<1>7. /\ IsContainer(p, path, c, answered)
      /\ KeysGetUser(c) = Range(asked) \cap TellableTo(p.max)
  BY <1>3, <1>4, <1>6
<1>8. AgreeBut(ContainerBut(p), BuildAggregated(c, answered, p.rows),
               ContainerExpected(asked, path, p))
  BY <1>7, MetadataOfContainer
<1> QED  BY <1>5, <1>6, <1>8

\* What get_metadata tells of a container, of a library that lacks nothing, is
\* what the files in Tracker say: the number of its children and of theirs, how
\* long they all last, its title, artist, album, genre and cover, whatever keys
\* are asked, in whatever order and for whatever container
\* (Catalog!ContainersExact).
THEOREM ContainersAreExact == CatalogSpec => []ContainersExact
<1>1. CatalogInit => PairingInv /\ BoundInv /\ ClipsInv /\ TypeInv /\ ContainerInv
  BY InitPairs, InitBounds, InitClips, InitTypes, InitContainers
<1>2. PairingInv /\ BoundInv /\ ClipsInv /\ TypeInv /\ ContainerInv /\ [CatalogNext]_allVars
        => (PairingInv /\ BoundInv /\ ClipsInv /\ TypeInv /\ ContainerInv)'
  BY StepPairs, StepBounds, StepClips, StepTypes, StepContainers
<1>3. PairingInv /\ BoundInv /\ ClipsInv /\ TypeInv /\ ContainerInv => ContainersExact
  BY ContainersTold
<1> QED  BY <1>1, <1>2, <1>3, PTL DEF CatalogSpec

-----------------------------------------------------------------------------
(* What a browse of a container lists.                                     *)

\* The cache of a query that asks for no key, and for one.
LEMMA FilledNothing ==
  ASSUME NEW p
  PROVE  Filled(p, << >>, << >>) = LastCache(p, FirstCache(p, << >>))
<1> DEFINE base == FirstCache(p, << >>)
           seq == << >>
           step(h) == [s \in SUBSET DOMAIN seq |->
                         IF s = {} THEN base
                         ELSE KeyAdd(h[s \ {Max(s)}], seq[Max(s)], p.max, TRUE)]
           fold == (CHOOSE h : h = step(h))[DOMAIN seq]
<1>1. Filled(p, << >>, << >>) = LastCache(p, fold)
  BY DEF Filled, FoldLeft, MapThenFoldSet
<1>2. DOMAIN seq = {}
  OBVIOUS
<1>3. PICK h : h = [s \in SUBSET DOMAIN seq |-> base]
  OBVIOUS
<1> HIDE DEF base
<1>4. h = step(h)
  BY <1>2, <1>3
<1>5. PICK g : g = CHOOSE x : x = step(x)
  OBVIOUS
<1>6. g = step(g)
  BY <1>4, <1>5
<1>7. g[{}] = base
  BY <1>2, <1>6
<1> QED  BY <1>1, <1>2, <1>5, <1>7 DEF base

LEMMA FilledWithOne ==
  ASSUME NEW p, NEW k
  PROVE  Filled(p, <<k>>, << >>) = LastCache(p, KeyAdd(FirstCache(p, << >>), k, p.max, TRUE))
<1> DEFINE base == FirstCache(p, << >>)
           seq == <<k>>
           step(h) == [s \in SUBSET DOMAIN seq |->
                         IF s = {} THEN base
                         ELSE KeyAdd(h[s \ {Max(s)}], seq[Max(s)], p.max, TRUE)]
           fold == (CHOOSE h : h = step(h))[DOMAIN seq]
<1>1. Filled(p, <<k>>, << >>) = LastCache(p, fold)
  BY DEF Filled, FoldLeft, MapThenFoldSet
<1>2. DOMAIN seq = {1} /\ seq[1] = k
  OBVIOUS
<1>3. Max({1}) = 1
  BY DEF Max
<1> HIDE DEF seq
<1>4. PICK one : one = KeyAdd(base, k, p.max, TRUE)
  OBVIOUS
<1>5. \A s \in SUBSET DOMAIN seq : s = {} \/ s = {1}
  BY <1>2
<1>6. {1} \ {1} = {} /\ {1} # {} /\ {} \in SUBSET DOMAIN seq /\ {1} \in SUBSET DOMAIN seq
  BY <1>2
<1>7. PICK h : h = [s \in SUBSET DOMAIN seq |-> IF s = {} THEN base ELSE one]
  OBVIOUS
<1> HIDE DEF base
<1>8. h = step(h)
  <2>1. h[{}] = base
    BY <1>6, <1>7
  <2>2. ASSUME NEW s \in SUBSET DOMAIN seq, s # {}
        PROVE  one = KeyAdd(h[s \ {Max(s)}], seq[Max(s)], p.max, TRUE)
    <3>1. s = {1}
      BY <1>5, <2>2
    <3>2. Max(s) = 1 /\ s \ {Max(s)} = {}
      BY <1>3, <1>6, <3>1
    <3>3. seq[Max(s)] = k /\ h[s \ {Max(s)}] = base
      BY <1>2, <2>1, <3>2
    <3> QED  BY <1>4, <3>3
  <2> QED  BY <1>7, <2>2
<1>9. PICK g : g = CHOOSE x : x = step(x)
  OBVIOUS
<1>10. g = step(g)
  BY <1>8, <1>9
<1>11. g[{}] = base
  BY <1>6, <1>10
<1>12. g[{1}] = KeyAdd(g[{1} \ {Max({1})}], seq[Max({1})], p.max, TRUE)
  BY <1>6, <1>10
<1>13. g[{1}] = one
  BY <1>2, <1>3, <1>4, <1>6, <1>11, <1>12
<1>14. fold = one
  BY <1>2, <1>9, <1>13
<1> QED  BY <1>1, <1>4, <1>14 DEF base, seq

\* The browse of a container lists the files of the container, or the values of
\* the level below it.
BrowsesLike(b, p, path) ==
  LET levels == LevelsOf(path)
      next == 1 + Given(path)
  IN /\ PlanOK(b) /\ ListingOK(b) /\ b.kind \in {"list", "unique"}
     /\ b.type = p.type /\ b.category = p.category
     /\ b.kind = "list" => next > Len(levels)
     /\ b.kind = "unique" =>
          /\ next \in DOMAIN levels /\ b.unique = levels[next] /\ b.prefix = path

\* Videos, songs and playlists have no levels.
LEMMA NoLevels ==
  ASSUME NEW path \in Seq(STRING), CategoryInfo(path).clip = Nothing,
         CategoryInfo(path).category \in {"videos", "songs", "playlists"}
  PROVE  Len(LevelsOf(path)) = 0
<1>1. PICK c : c = CategoryInfo(path).category
  OBVIOUS
<1>2. Len(path) \in Nat
  OBVIOUS
<1>3. /\ c = "videos" => Len(path) = 1
      /\ c # "videos" => Len(path) >= 2 /\ path[2] = c
  BY <1>1, PathOfContainer
<1>4. PICK branch : branch = IF Len(path) > 1 THEN path[2] ELSE Hole
  OBVIOUS
<1>5. branch \notin {"albums", "artists", "genres"}
  <2>1. CASE c = "videos"
    <3>1. Len(path) = 1
      BY <1>3, <2>1, Zenon
    <3>2. ~(Len(path) > 1)
      BY ONLY <3>1
    <3>3. branch = Hole
      BY <1>4, <3>2
    <3>4. Hole \notin {"albums", "artists", "genres"}
      BY DEF Hole
    <3> QED  BY ONLY <3>3, <3>4
  <2>2. CASE c # "videos"
    <3>1. Len(path) > 1 /\ path[2] = c
      BY <1>2, <1>3, <2>2
    <3>2. branch = c
      BY <1>4, <3>1
    <3> QED  BY <1>1, <3>2
  <2> QED  BY <2>1, <2>2
<1>6. LevelsOf(path) = Levels(branch)
  BY <1>4 DEF LevelsOf
<1> QED  BY <1>5, <1>6, LevelsAre

LEMMA BrowseOfContainer ==
  ASSUME NEW path \in Seq(STRING), CategoryInfo(path).clip = Nothing,
         CategoryInfo(path).category \notin {"error", "root", "music"}
  PROVE  BrowsesLike(BrowsePlan(path, FALSE), MetadataPlan(path), path)
<1>1. PICK info, c : info = CategoryInfo(path) /\ c = info.category
  OBVIOUS
<1>2. c \in Categories \ {"root", "music", "error"} /\ info.clip = Nothing
  BY <1>1, CategoryIsKnown
<1>3. /\ c = "videos" => Len(path) = 1
      /\ c # "videos" =>
           /\ c \in {"songs", "playlists", "albums", "artists", "genres"}
           /\ Len(path) >= 2 /\ path[2] = c
           /\ Len(path) <= 2 + Len(Levels(c))
           /\ \A key \in {"genre", "artist", "album"} :
                info[key] = GivenBy(path, Levels(c), key)
  BY <1>1, <1>2, PathOfContainer
<1>4. Len(path) \in Nat
  OBVIOUS
<1>5. PICK b, p : b = BrowsePlan(path, FALSE) /\ p = MetadataPlan(path)
  OBVIOUS
<1>6. PlanOK(b) /\ (b.kind \in {"list", "unique"} => ListingOK(b))
  BY <1>1, <1>2, <1>5, BrowsePlanOK, BrowsePlanListing
<1>7. \A type, category, prefix :
        LET l == GetList(type, category, prefix)
        IN  l.kind = "list" /\ l.type = type /\ l.category = category
  BY DEF GetList, Plan
<1>8. CASE c \in {"videos", "songs", "playlists"}
  <2>1. \E type, title, prefix : b = GetList(type, Everything, prefix) /\ p = GetService(type, title)
    <3>1. CASE c = "videos"
      <4>1. b = GetList("video", Everything, path)
        BY <1>1, <1>2, <1>5, <3>1 DEF BrowsePlan
      <4>2. p = GetService("video", "Videos")
        BY <1>1, <1>5, <3>1 DEF MetadataPlan
      <4> QED  BY <4>1, <4>2
    <3>2. CASE c = "songs"
      <4>1. b = GetList("music", Everything, Songs)
        BY <1>1, <1>2, <1>5, <3>2 DEF BrowsePlan
      <4>2. p = GetService("music", "Songs")
        BY <1>1, <1>5, <3>2 DEF MetadataPlan
      <4> QED  BY <4>1, <4>2
    <3>3. CASE c = "playlists"
      <4>1. b = GetList("playlist", Everything, path)
        BY <1>1, <1>2, <1>5, <3>3 DEF BrowsePlan
      <4>2. p = GetService("playlist", "Playlists")
        BY <1>1, <1>5, <3>3 DEF MetadataPlan
      <4> QED  BY <4>1, <4>2
    <3> QED  BY <1>8, <3>1, <3>2, <3>3
  <2>2. b.kind = "list" /\ b.type = p.type /\ b.category = p.category
    <3>1. \A type, title : GetService(type, title).type = type
                           /\ GetService(type, title).category = Everything
      BY DEF GetService, Plan
    <3> QED  BY <1>7, <2>1, <3>1
  <2>3. Len(LevelsOf(path)) = 0
    BY <1>1, <1>8, NoLevels
  <2>4. Given(path) \in Nat
    <3>1. Len(path) - 2 \in Int
      BY <1>4
    <3>2. Given(path) = IF Len(path) - 2 > 0 THEN Len(path) - 2 ELSE 0
      BY <3>1, MaxWithZero DEF Given
    <3> QED  BY <1>4, <3>2
  <2>5. 1 + Given(path) > Len(LevelsOf(path))
    BY <2>3, <2>4
  <2>6. PlanOK(b) /\ ListingOK(b)
    BY <1>6, <2>2
  <2>7. BrowsesLike(b, p, path)
    BY <2>2, <2>5, <2>6 DEF BrowsesLike
  <2> QED  BY <1>5, <2>7
<1>9. ASSUME NEW s \in 1 .. 3, c = BranchAt(s)
      PROVE  BrowsesLike(b, p, path)
  <2>0. PICK levels, n : levels = Levels(BranchAt(s)) /\ n = Len(path)
    OBVIOUS
  <2>1. c \in {"albums", "artists", "genres"}
    BY <1>9 DEF BranchAt
  <2>2. LevelsOf(path) = levels
    BY <1>3, <1>4, <1>9, <2>0, <2>1 DEF LevelsOf
  <2>3. /\ Len(levels) = 4 - s
        /\ \A i \in 1 .. 4 - s : levels[i] = Hierarchy[s + i - 1]
        /\ \A i \in 1 .. 3 : GivenBy(path, levels, Hierarchy[i])
                               = IF i >= s /\ i - s + 3 <= n THEN {path[i - s + 3]} ELSE Nothing
    BY <2>0, BranchFacts
  <2>4. DOMAIN levels = 1 .. 4 - s
    <3>1. CASE s = 1  BY <2>0, <3>1, LevelsAre DEF BranchAt
    <3>2. CASE s = 2  BY <2>0, <3>2, LevelsAre DEF BranchAt
    <3>3. CASE s = 3  BY <2>0, <3>3, LevelsAre DEF BranchAt
    <3> QED  BY <3>1, <3>2, <3>3
  <2>5. n \in 2 .. 6 - s /\ Given(path) = n - 2
    <3>1. n >= 2 /\ n <= 2 + Len(levels)
      BY <1>3, <1>9, <2>0, <2>1
    <3>2. n - 2 \in Int
      BY <1>4, <2>0
    <3> QED  BY <1>4, <2>0, <2>3, <3>1, <3>2, MaxWithZero DEF Given
  <2>6. \A i \in 1 .. 3 : info[Hierarchy[i]] = Nothing <=> ~(i >= s /\ i - s + 3 <= n)
    <3>1. \A i \in 1 .. 3 : info[Hierarchy[i]] = GivenBy(path, levels, Hierarchy[i])
      BY <1>3, <1>9, <2>0, <2>1 DEF Hierarchy
    <3>2. \A x : {x} # Nothing
      BY DEF Nothing
    <3> QED  BY <2>3, <3>1, <3>2
  <2>7. PICK missing : missing = {i \in DOMAIN Levels(c) : info[Levels(c)[i]] = Nothing}
    OBVIOUS
  <2>8. missing = {i \in 1 .. 4 - s : i + 2 > n}
    <3>1. ASSUME NEW i \in 1 .. 4 - s
          PROVE  info[levels[i]] = Nothing <=> i + 2 > n
      <4>1. PICK j : j = s + i - 1
        OBVIOUS
      <4>2. j \in 1 .. 3 /\ j >= s /\ j - s + 3 = i + 2 /\ levels[i] = Hierarchy[j]
        <5>1. j \in 1 .. 3 /\ j >= s /\ j - s + 3 = i + 2
          BY ONLY s \in 1 .. 3, i \in 1 .. 4 - s, <4>1
        <5>2. levels[i] = Hierarchy[s + i - 1]
          BY ONLY i \in 1 .. 4 - s, <2>3
        <5> QED  BY ONLY <4>1, <5>1, <5>2
      <4>3. info[Hierarchy[j]] = Nothing <=> ~(j >= s /\ j - s + 3 <= n)
        BY ONLY <2>6, <4>2
      <4>4. i \in Int /\ n \in Int
        BY <2>5
      <4>5. j - s + 3 <= n <=> ~(i + 2 > n)
        BY ONLY <4>2, <4>4
      <4> QED  BY ONLY <4>2, <4>3, <4>5
    <3> QED  BY <1>9, <2>0, <2>4, <2>7, <3>1
  <2>9. PICK three, two : /\ three = Only(info, {"genre", "artist", "album"})
                          /\ two = Only(info, {"genre", "artist"})
    OBVIOUS
  <2>10. b = IF missing = {} THEN GetList("music", three, path)
             ELSE GetUnique(Levels(c)[Min(missing)], two, path)
    BY <1>1, <1>2, <1>5, <2>1, <2>7, <2>9 DEF BrowsePlan
  <2>11. p.type = "music" /\ p.category = three
    <3>1. \A default, title, category :
            LET g == GetCategory(default, title, category)
            IN  g.type = "music" /\ g.category = category
      BY DEF GetCategory, Plan
    <3>2. \E default, title : p = GetCategory(default, title, three)
      BY <1>1, <1>5, <2>1, <2>9 DEF MetadataPlan
    <3> QED  BY <3>1, <3>2
  <2>12. CASE missing = {}
    <3>1. b.kind = "list" /\ b.type = "music" /\ b.category = three
      BY <1>7, <2>10, <2>12
    <3>2. n = 6 - s
      <4>1. ~(4 - s \in missing) /\ 4 - s \in 1 .. 4 - s
        BY <2>12
      <4> QED  BY <2>5, <2>8, <4>1
    <3>3. 1 + Given(path) > Len(LevelsOf(path))
      BY <2>2, <2>3, <2>5, <3>2
    <3>4. PlanOK(b) /\ ListingOK(b)
      BY <1>6, <3>1
    <3> QED  BY <2>11, <3>1, <3>3, <3>4 DEF BrowsesLike
  <2>13. CASE missing # {}
    <3>1. n < 6 - s
      BY <2>5, <2>8, <2>13
    <3>2. n - 1 \in missing /\ \A i \in missing : n - 1 <= i
      BY <2>5, <2>8, <3>1
    <3>3. Min(missing) = n - 1
      <4>1. \A x \in missing : (\A i \in missing : x =< i) => x = n - 1
        BY <2>5, <2>8, <3>2
      <4> QED  BY <3>2, <4>1 DEF Min
    <3>4. PICK key : key = levels[n - 1]
      OBVIOUS
    <3>5. b = GetUnique(key, two, path)
      BY <1>9, <2>0, <2>10, <2>13, <3>3, <3>4
    <3>6. b.kind = "unique" /\ b.type = "music" /\ b.category = two /\ b.unique = key
          /\ b.prefix = path
      BY <3>5 DEF GetUnique, Plan
    <3>7. two = three
      <4>1. info["album"] = Nothing
        BY <2>5, <2>6, <3>1 DEF Hierarchy
      <4> QED  BY <2>9, <4>1 DEF Only
    <3>8. 1 + Given(path) = n - 1 /\ n - 1 \in DOMAIN levels
      BY <2>4, <2>5, <3>1
    <3> QED  BY <1>6, <2>2, <2>11, <3>4, <3>6, <3>7, <3>8 DEF BrowsesLike
  <2> QED  BY <2>12, <2>13
<1>10. c \in {"albums", "artists", "genres"} => \E s \in 1 .. 3 : c = BranchAt(s)
  <2>1. BranchAt(1) = "genres" /\ BranchAt(2) = "artists" /\ BranchAt(3) = "albums"
    BY DEF BranchAt
  <2> QED  BY <2>1
<1> QED  BY <1>2, <1>5, <1>8, <1>9, <1>10 DEF Categories

\* What a statement can be made of, with no key asked for, or one.
LEMMA LastCacheFits ==
  ASSUME NEW p, PlanOK(p), NEW c, CacheOK(c, p.unique), c.type = p.type,
         p.unique # Hole => Bounded(c, p.unique, p.max, {})
  PROVE  CacheFits(p, LastCache(p, c))
<1>1. PICK d : d = LastCache(p, c)
  OBVIOUS
<1>2. /\ ColumnsOK(d, p.unique) /\ d.type = c.type
      /\ InTracker(d) \subseteq InTracker(c) \cup {"artist", "album"}
      /\ p.unique = Hole => d = c
  BY <1>1, LastCacheOK
<1>3. InTracker(c) \subseteq MetadataKeys /\ (p.unique = Hole => InTracker(c) \subseteq Askable(c, Hole))
  BY FillingOK
<1>4. {"artist", "album"} \subseteq MetadataKeys
  BY DEF MetadataKeys, MusicKeys
<1>5. Paired(p, d)
  BY <1>2, <1>3, <1>4 DEF Paired
<1>6. p.unique # Hole => BoundedInTheEnd(p, d)
  BY <1>1, LastCacheBounded DEF BoundedInTheEnd
<1> QED  BY <1>1, <1>5, <1>6 DEF CacheFits

\* Such a cache fits its query.
LEMMA FilledFits ==
  ASSUME NEW p, PlanOK(p)
  PROVE  /\ CacheFits(p, Filled(p, << >>, << >>))
         /\ \A k : CacheFits(p, Filled(p, <<k>>, << >>))
<1>1. PICK c : c = FirstCache(p, << >>)
  OBVIOUS
<1>2. /\ CacheOK(c, p.unique) /\ c.type = p.type
      /\ p.unique # Hole => Bounded(c, p.unique, p.max, {})
  BY <1>1, FirstCacheOK, FirstCacheBounded
<1>3. CacheFits(p, LastCache(p, c))
  BY <1>2, LastCacheFits
<1>4. ASSUME NEW k
      PROVE  CacheFits(p, Filled(p, <<k>>, << >>))
  <2>1. PICK d : d = KeyAdd(c, k, p.max, TRUE)
    OBVIOUS
  <2>2. p.max \in Int
    BY DEF PlanOK
  <2>3. /\ CacheOK(d, p.unique) /\ d.type = p.type
        /\ p.unique # Hole => Bounded(d, p.unique, p.max, {})
    BY <1>2, <2>1, <2>2, KeyAddKeepsOK, KeyAddKeepsType, KeyAddKeepsBounded
  <2>4. CacheFits(p, LastCache(p, d))
    BY <2>3, LastCacheFits
  <2> QED  BY <1>1, <2>1, <2>4, FilledWithOne
<1> QED  BY <1>1, <1>3, <1>4, FilledNothing

\* The ids that a browse lists.
ListedIds(b) ==
  LET c == Filled(b, << >>, << >>)
  IN  Ids(b, c, Answer(Statement(b, c, NoFilter)))

\* What a browse of a container lists.
Children(path) == Outcome("browse", path, << >>, << >>).ids

LEMMA IdsOfBrowse ==
  ASSUME NEW path, NEW b, b = BrowsePlan(path, FALSE), b.kind \in {"list", "unique"}
  PROVE  Children(path) = ListedIds(b)
<1>1. PICK q : q = [NoQuery EXCEPT !.op = "browse", !.path = path]
  OBVIOUS
<1>2. q.op = "browse" /\ q.path = path /\ q.recursive = FALSE
  BY <1>1 DEF NoQuery
<1>3. PICK c : c = Filled(b, << >>, << >>)
  OBVIOUS
<1>4. PlanOf(q) = b
  BY <1>2 DEF PlanOf
<1>5. Outcome("browse", path, << >>, << >>) = WithCache(b, c, << >>)
  BY <1>1, <1>3, <1>4 DEF Outcome, WithPlan
<1>6. RowsFor(b, c, << >>) = Answer(Statement(b, c, NoFilter))
  BY <1>3 DEF RowsFor
<1>7. WithCache(b, c, << >>).ids = Ids(b, c, Answer(Statement(b, c, NoFilter)))
  BY <1>3, <1>6 DEF WithCache, WithRows
<1> QED  BY <1>3, <1>5, <1>7 DEF ListedIds, Children

-----------------------------------------------------------------------------
(* The children of a container.                                            *)

\* The values of a key that files have.
CellsOf(files, key) == {Property(f, key) : f \in files}

\* The children of a container: its files, or the values of the level below it.
HasChildren(ids, p, path) ==
  LET files == Members(p)
      levels == LevelsOf(path)
      next == 1 + Given(path)
  IN /\ IsFiniteSet(files)
     /\ Len(ids) \in Nat /\ DOMAIN ids = 1 .. Len(ids)
     /\ next > Len(levels) => Len(ids) = Cardinality(files)
     /\ next <= Len(levels) =>
          \E cells : /\ Matches(cells, 1 .. Len(ids), CellsOf(files, levels[next]))
                     /\ \A i \in 1 .. Len(ids) : ids[i] = Append(path, TextIn(cells[i]))

LEMMA LenOfIds ==
  ASSUME NEW n \in Nat, NEW prefix, NEW text
  PROVE  /\ Len(IdsOf(n, prefix, text)) = n /\ DOMAIN IdsOf(n, prefix, text) = 1 .. n
         /\ \A i \in 1 .. n : IdsOf(n, prefix, text)[i] = Append(prefix, text[i])
<1>1. PICK ids : ids = IdsOf(n, prefix, text)
  OBVIOUS
<1>2. DOMAIN ids = 1 .. n /\ \A i \in 1 .. n : ids[i] = Append(prefix, text[i])
  BY <1>1 DEF IdsOf
<1>3. ids \in [1 .. n -> {ids[i] : i \in 1 .. n}]
  BY <1>1, <1>2 DEF IdsOf
<1>4. Len(ids) = n
  BY <1>3
<1> QED  BY <1>1, <1>2, <1>4

LEMMA ChildrenListed ==
  ASSUME known \in SUBSET File, library \in Complete, library \in DOMAIN Libraries,
         NEW b, NEW p, NEW path, BrowsesLike(b, p, path)
  PROVE  HasChildren(ListedIds(b), p, path)
<1>1. PICK c, answered, ids : /\ c = Filled(b, << >>, << >>)
                              /\ answered = Answer(Statement(b, c, NoFilter))
                              /\ ids = ListedIds(b)
  OBVIOUS
<1>2. ids = Ids(b, c, answered)
  BY <1>1 DEF ListedIds
<1>3. PICK files, levels, next : files = Members(p) /\ levels = LevelsOf(path) /\ next = 1 + Given(path)
  OBVIOUS
<1>4. /\ PlanOK(b) /\ ListingOK(b) /\ b.kind \in {"list", "unique"}
      /\ b.kind = "list" => next > Len(levels)
      /\ b.kind = "unique" =>
           /\ next \in DOMAIN levels /\ b.unique = levels[next] /\ b.prefix = path
  BY <1>3 DEF BrowsesLike
<1>5. CacheFits(b, c) /\ Paired(b, c)
  BY <1>1, <1>4, FilledFits DEF CacheFits
<1>6. ListingKey(b) \in InTracker(c)
  BY <1>1, <1>4, FilledNothing, FirstCacheListing, LastCacheGrows
<1>7. Sound(NoFilter) /\ NoFilter \in Filters \cup {NoFilter}
  BY DEF Sound
<1>8. FilesAsked(b, NoFilter) = files
  <2>1. Members(b) = Members(p)
    BY DEF Members, BrowsesLike
  <2>2. \A song : Satisfied(NoFilter, song)
    BY DEF Satisfied
  <2> QED  BY <1>3, <2>1, <2>2 DEF FilesAsked
<1>9. CASE b.kind = "list"
  <2>1. "uri" \in InTracker(c)
    BY <1>6, <1>9 DEF ListingKey
  <2>2. PICK n, file : ListsFiles(ids, b, n, file, files)
    BY <1>1, <1>2, <1>4, <1>5, <1>7, <1>8, <1>9, <2>1, FilesListed
  <2>3. n \in Nat /\ Matches(file, 1 .. n, files) /\ Len(ids) = n /\ DOMAIN ids = 1 .. n
    BY <2>2, LenOfIds DEF ListsFiles
  <2>4. IsFiniteSet(1 .. n) /\ Cardinality(1 .. n) = n
    BY <2>3, FS_Interval
  <2>5. IsFiniteSet(files) /\ Cardinality(files) = n
    BY <2>3, <2>4, MatchesSize
  <2>6. ~(next <= Len(levels))
    BY <1>3, <1>4, <1>9, LevelsShort DEF LevelsOf
  <2> QED  BY <1>1, <1>3, <2>3, <2>5, <2>6 DEF HasChildren
<1>10. CASE b.kind = "unique"
  <2>1. b.unique \in InTracker(c)
    BY <1>6, <1>10 DEF ListingKey
  <2>2. PICK n, file, m, leaders, group : ListsGroups(ids, b, n, file, m, leaders, group, files)
    BY <1>1, <1>2, <1>4, <1>5, <1>7, <1>8, <1>10, <2>1, ValuesListed
  <2>3. PICK key : key = b.unique
    OBVIOUS
  <2>4. PICK text, cells : /\ text = [k \in 1 .. m |-> TextIn(group[leaders[k]])]
                           /\ cells = [k \in 1 .. m |-> group[leaders[k]]]
    OBVIOUS
  <2>5. /\ n \in Nat /\ Matches(file, 1 .. n, files)
        /\ group = [i \in 1 .. n |-> Property(file[i], key)]
        /\ IsLeaders(m, leaders, n, group)
        /\ ids = IdsOf(m, path, text)
    BY <1>4, <1>10, <2>2, <2>3, <2>4 DEF ListsGroups
  <2>6. m \in Nat
    <3>1. IsLeaders(m, leaders, n, group)
      BY <2>5
    <3> QED  BY ONLY <3>1 DEF IsLeaders
  <2>7. Len(ids) = m /\ DOMAIN ids = 1 .. m /\ \A i \in 1 .. m : ids[i] = Append(path, TextIn(cells[i]))
    <3>1. /\ Len(IdsOf(m, path, text)) = m /\ DOMAIN IdsOf(m, path, text) = 1 .. m
          /\ \A i \in 1 .. m : IdsOf(m, path, text)[i] = Append(path, text[i])
      BY ONLY <2>6, LenOfIds
    <3>2. \A i \in 1 .. m : text[i] = TextIn(cells[i])
      BY <2>4
    <3> QED  BY ONLY <2>5, <3>1, <3>2
  <2>8. Matches(cells, 1 .. m, CellsOf(files, key))
    <3>1. \A j, k \in 1 .. m : cells[j] = cells[k] => j = k
      BY <2>4, <2>5 DEF IsLeaders
    <3>2. files = {file[i] : i \in 1 .. n}
      BY <2>5 DEF Matches
    <3>3. \A k \in 1 .. m : cells[k] \in CellsOf(files, key)
      <4> SUFFICES ASSUME NEW k \in 1 .. m PROVE cells[k] \in CellsOf(files, key)
        OBVIOUS
      <4>1. PICK i : i = leaders[k]
        OBVIOUS
      <4>2. i \in 1 .. n /\ cells[k] = Property(file[i], key)
        BY <2>4, <2>5, <4>1 DEF IsLeaders
      <4> QED  BY <3>2, <4>2 DEF CellsOf
    <3>4. \A x \in CellsOf(files, key) : \E k \in 1 .. m : cells[k] = x
      <4> SUFFICES ASSUME NEW f \in files PROVE \E k \in 1 .. m : cells[k] = Property(f, key)
        BY DEF CellsOf
      <4>1. PICK i \in 1 .. n : file[i] = f
        BY <3>2
      <4>2. PICK k \in 1 .. m : group[leaders[k]] = group[i]
        BY <2>5 DEF IsLeaders
      <4> QED  BY <2>4, <2>5, <4>1, <4>2
    <3> QED  BY <3>1, <3>3, <3>4 DEF Matches
  <2>9. IsFiniteSet(files)
    <3>1. IsFiniteSet(1 .. n)
      BY <2>5, FS_Interval
    <3> QED  BY <2>5, <3>1, MatchesSize
  <2>10. next <= Len(levels)
    <3>1. Len(levels) \in Nat /\ DOMAIN levels = 1 .. Len(levels)
      <4>1. PICK branch : levels = Levels(branch)
        BY <1>3 DEF LevelsOf
      <4>2. levels \in {<< >>, <<"album">>, <<"artist", "album">>, <<"genre", "artist", "album">>}
        BY <4>1 DEF Levels
      <4> QED  BY <4>2
    <3> QED  BY <1>4, <1>10, <3>1
  <2>11. ~(next > Len(levels)) /\ key = levels[next]
    BY <1>3, <1>4, <1>10, <2>3, <2>10, LevelsShort DEF LevelsOf
  <2> QED  BY <1>1, <1>3, <2>6, <2>7, <2>8, <2>9, <2>11 DEF HasChildren
<1> QED  BY <1>4, <1>9, <1>10

\* Two keys of files are as many pairs as the second has values, if the first
\* does not tell more files apart.
LEMMA SizeOfPairs ==
  ASSUME NEW files, IsFiniteSet(files), NEW first, NEW second,
         first = second \/ \A f, g \in files : Property(f, first) = Property(g, first)
  PROVE  /\ IsFiniteSet(CellsOf(files, second))
         /\ Cardinality(PairsOf(files, first, second)) = Cardinality(CellsOf(files, second))
<1>1. PICK C, P : C = CellsOf(files, second) /\ P = PairsOf(files, first, second)
  OBVIOUS
<1>2. PICK s : s = [f \in files |-> Property(f, second)]
  OBVIOUS
<1>3. C = {s[f] : f \in files}
  BY <1>1, <1>2 DEF CellsOf
<1>4. IsFiniteSet(C)
  <2>1. s \in Surjection(files, C)
    BY <1>2, <1>3 DEF Surjection
  <2> QED  BY <2>1, FS_Surjection
<1>5. \E b : Matches(b, C, P)
  <2>1. CASE first = second
    <3>1. PICK b : b = [x \in C |-> <<x, x>>]
      OBVIOUS
    <3>2. P = {b[x] : x \in C}
      BY <1>1, <2>1, <3>1 DEF CellsOf, PairsOf
    <3>3. \A x, y \in C : b[x] = b[y] => x = y
      BY <3>1
    <3> QED  BY <3>2, <3>3 DEF Matches
  <2>2. CASE \A f, g \in files : Property(f, first) = Property(g, first)
    <3>1. PICK cell : \A f \in files : Property(f, first) = cell
      BY <2>2
    <3>2. PICK b : b = [x \in C |-> <<cell, x>>]
      OBVIOUS
    <3>3. P = {b[x] : x \in C}
      BY <1>1, <3>1, <3>2 DEF CellsOf, PairsOf
    <3>4. \A x, y \in C : b[x] = b[y] => x = y
      BY <3>2
    <3> QED  BY <3>3, <3>4 DEF Matches
  <2> QED  BY <2>1, <2>2
<1> QED  BY <1>1, <1>4, <1>5, MatchesSize

\* The level below a container, if it has one, for the files of the container.
LEMMA LevelBelow ==
  ASSUME known \in SUBSET File, library \in Complete, library \in DOMAIN Libraries,
         NEW p, NEW path, ContainerPlan(p, path),
         NEW n \in 1 .. p.max, n + Given(path) <= Len(LevelsOf(path))
  PROVE  LET levels == LevelsOf(path)
         IN  /\ {1, n + Given(path)} \subseteq DOMAIN levels
             /\ {levels[1], levels[n + Given(path)]} \subseteq {"genre", "artist", "album"}
             /\ IF p.rows THEN Given(path) = 0
                ELSE \A f, g \in Members(p) : Property(f, levels[1]) = Property(g, levels[1])
<1>1. PICK levels, at : levels = LevelsOf(path) /\ at = n + Given(path)
  OBVIOUS
<1>2. ~(at > Len(levels))
  BY <1>1, LevelsShort DEF LevelsOf, ContainerPlan
<1>3. /\ 1 \in DOMAIN levels /\ at \in DOMAIN levels
      /\ levels[1] \in {"genre", "artist", "album"}
      /\ levels[at] \in {"genre", "artist", "album"}
      /\ IF p.rows THEN levels[1] = p.unique
         ELSE p.category[levels[1]] # Nothing
  BY <1>1, <1>2 DEF ContainerPlan, CountsChildren
<1>4. p.rows => Given(path) = 0
  BY DEF ContainerPlan
<1>5. ASSUME ~p.rows, NEW f \in Members(p)
      PROVE  Property(f, levels[1]) = p.category[levels[1]]
  <2>1. PICK key : key = levels[1]
    OBVIOUS
  <2>2. key \in {"genre", "artist", "album"} /\ p.category[key] # Nothing
    BY <1>3, <1>5, <2>1
  <2>3. p.category = [k \in {"genre", "artist", "album"} |-> p.category[k]]
    BY DEF ContainerPlan
  <2>4. Property(f, key) = p.category[key]
    BY <2>2, <2>3, HasCategory
  <2> QED  BY <2>1, <2>4
<1> QED  BY <1>1, <1>3, <1>4, <1>5

\* A childcount of a container, by the pairs of values that it counts.
LEMMA ChildcountByPairs ==
  ASSUME NEW path, NEW files, NEW n
  PROVE  LET levels == LevelsOf(path)
             at == n + Given(path)
         IN  ChildcountOf(path, files, n)
               = IF at > Len(levels) THEN Cardinality(files)
                 ELSE Cardinality(PairsOf(files, levels[1], levels[at]))
  BY DEF ChildcountOf, PairsOf

\* childcount(1) of a container is how many children it has.
LEMMA NumberOfChildren ==
  ASSUME known \in SUBSET File, library \in Complete, library \in DOMAIN Libraries,
         NEW p, NEW path, path \in Seq(STRING), ContainerPlan(p, path),
         NEW ids, HasChildren(ids, p, path)
  PROVE  ChildcountOf(path, Members(p), 1) = Len(ids)
<1>1. PICK files, levels, next, count :
        /\ files = Members(p) /\ levels = LevelsOf(path) /\ next = 1 + Given(path)
        /\ count = ChildcountOf(path, Members(p), 1)
  OBVIOUS
<1>2. Len(levels) \in 0 .. 3 /\ Given(path) \in Nat
  <2>1. Len(path) \in Nat /\ Len(path) - 2 \in Int
    OBVIOUS
  <2> QED  BY <1>1, <2>1, LevelsShort, MaxWithZero DEF LevelsOf, Given
<1>3. CASE next > Len(levels)
  <2>1. Len(ids) = Cardinality(files)
    BY <1>1, <1>3 DEF HasChildren
  <2>2. count = Cardinality(files)
    BY <1>1, <1>3, ChildcountByPairs
  <2> QED  BY <1>1, <2>1, <2>2
<1>4. CASE next <= Len(levels)
  <2>1. PICK first, second : first = levels[1] /\ second = levels[next]
    OBVIOUS
  <2>2. ~(next > Len(levels))
    BY <1>1, <1>2, <1>4
  <2>3. count = Cardinality(PairsOf(files, first, second))
    <3>1. LET some == LevelsOf(path)
              at == 1 + Given(path)
          IN  ChildcountOf(path, files, 1)
                = IF at > Len(some) THEN Cardinality(files)
                  ELSE Cardinality(PairsOf(files, some[1], some[at]))
      BY ChildcountByPairs
    <3> QED  BY <1>1, <2>1, <2>2, <3>1
  <2>4. 1 \in 1 .. p.max
    <3>1. p.max = (Len(levels) + 1) - Given(path)
      BY <1>1 DEF ContainerPlan
    <3> QED  BY <1>1, <1>2, <1>4, <3>1
  <2>5. first = second \/ \A f, g \in files : Property(f, first) = Property(g, first)
    <3>1. IF p.rows THEN Given(path) = 0
          ELSE \A f, g \in files : Property(f, first) = Property(g, first)
      BY <1>1, <1>4, <2>1, <2>4, LevelBelow
    <3>2. Given(path) = 0 => first = second
      BY <1>1, <2>1
    <3> QED  BY <3>1, <3>2
  <2>6. PICK C : C = CellsOf(files, second)
    OBVIOUS
  <2>7. IsFiniteSet(files)
    BY <1>1 DEF HasChildren
  <2>8. count = Cardinality(C)
    BY <2>3, <2>5, <2>6, <2>7, SizeOfPairs
  <2>9. PICK m : m = Len(ids) /\ m \in Nat
    BY DEF HasChildren
  <2>10. PICK cells : Matches(cells, 1 .. m, C)
    BY <1>1, <1>4, <2>1, <2>6, <2>9 DEF HasChildren
  <2>11. IsFiniteSet(1 .. m) /\ Cardinality(1 .. m) = m
    <3>1. m \in Int /\ 1 \in Int /\ (IF 1 > m THEN 0 ELSE m - 1 + 1) = m
      BY <2>9
    <3>2. /\ IsFiniteSet(1 .. m)
          /\ Cardinality(1 .. m) = IF 1 > m THEN 0 ELSE m - 1 + 1
      BY ONLY <3>1, FS_Interval
    <3> QED  BY <3>1, <3>2
  <2>12. Cardinality(C) = Len(ids)
    <3>1. PICK S : S = 1 .. m
      OBVIOUS
    <3>2. Cardinality(C) = Cardinality(S)
      BY <2>10, <2>11, <3>1, MatchesSize
    <3> QED  BY <2>9, <2>11, <3>1, <3>2
  <2> QED  BY <1>1, <2>8, <2>12
<1> QED  BY <1>1, <1>2, <1>3, <1>4

\* How many levels a branch has, and a path gives, are numbers.
LEMMA PathNumbers ==
  ASSUME NEW path \in Seq(STRING)
  PROVE  Given(path) \in Nat /\ Len(LevelsOf(path)) \in Nat
<1>1. PICK n : n = Len(path)
  OBVIOUS
<1>2. n \in Nat /\ n - 2 \in Int
  BY <1>1
<1>3. Given(path) = IF n - 2 > 0 THEN n - 2 ELSE 0
  BY <1>1, <1>2, MaxWithZero DEF Given
<1>4. Given(path) \in Nat
  BY <1>2, <1>3
<1>5. PICK branch : LevelsOf(path) = Levels(branch)
  BY DEF LevelsOf
<1>6. Len(Levels(branch)) \in 0 .. 3
  BY LevelsShort
<1> QED  BY <1>4, <1>5, <1>6

-----------------------------------------------------------------------------
(* Childcounts, as they are told.                                          *)

\* The childcounts that are told of a container: those that were asked for, as
\* far as it has levels.
TellsChildcount(told, asked, path, p, k) ==
  /\ k \in DOMAIN told <=> k \in Range(asked) /\ Level(k) <= p.max
  /\ k \in DOMAIN told => told[k] = {ChildcountOf(path, Members(p), Level(k))}

LEMMA ChildcountsOfContainer ==
  ASSUME NEW p, NEW path, NEW c, NEW answered, IsContainer(p, path, c, answered), NEW asked,
         KeysGetUser(c) = Range(asked) \cap TellableTo(p.max),
         NEW k \in ChildcountKeys, NEW told, told = BuildAggregated(c, answered, p.rows)
  PROVE  TellsChildcount(told, asked, path, p, k)
<1> SUFFICES /\ k \in DOMAIN told <=> k \in Range(asked) /\ Level(k) <= p.max
             /\ k \in DOMAIN told => told[k] = {ChildcountOf(path, Members(p), Level(k))}
  BY DEF TellsChildcount
<1>1. PICK but, expected : but = ContainerBut(p) /\ expected = ContainerExpected(asked, path, p)
  OBVIOUS
<1>2. AgreeBut(but, told, expected)
  BY <1>1, MetadataOfContainer
<1>3. k \notin but
  <2>1. p.unique \in {"genre", "artist", "album", "mime"}
    BY DEF IsContainer, ContainerPlan, ContainerKeys
  <2>2. ArtKeys \cap ChildcountKeys = {}
    BY KindsOfKeys
  <2> QED  BY <1>1, <2>1, <2>2, ChildcountNames DEF ContainerBut
<1>4. PICK S, T : S = DOMAIN told \ but /\ T = DOMAIN expected \ but
  OBVIOUS
<1>5. [x \in S |-> told[x]] = [x \in T |-> expected[x]]
  BY <1>2, <1>4 DEF AgreeBut, Restrict
<1>6. S = T
  <2>1. DOMAIN [x \in S |-> told[x]] = DOMAIN [x \in T |-> expected[x]]
    BY <1>5
  <2> QED  BY <2>1
<1>7. k \in S => told[k] = expected[k]
  <2> SUFFICES ASSUME k \in S PROVE told[k] = expected[k]
    OBVIOUS
  <2>1. [x \in S |-> told[x]][k] = [x \in T |-> expected[x]][k]
    BY <1>5
  <2> QED  BY <1>6, <2>1
<1>8. PICK value : value = ContainerValue(path, p, k)
  OBVIOUS
<1>9. /\ k \in DOMAIN expected <=> k \in Range(asked) \cap MetadataKeys /\ Allowed(k, value)
      /\ k \in DOMAIN expected => expected[k] = Told(value)
  BY <1>1, <1>8 DEF ContainerExpected, Expected
<1>10. value = IF Level(k) > p.max THEN Nothing ELSE {ChildcountOf(path, Members(p), Level(k))}
  BY <1>8, ChildcountValue DEF IsContainer
<1>11. k \in MetadataKeys /\ k \in AllowedEmpty
  BY DEF MetadataKeys, AllowedEmpty
<1>12. Level(k) \in Int /\ p.max \in Int
  BY ChildcountNames DEF IsContainer, ContainerPlan, ContainerKeys
<1>13. ASSUME NEW x
       PROVE  Allowed(k, {x}) /\ Told({x}) = {x}
  <2>1. Cardinality({x}) = 1
    BY FS_Singleton
  <2> QED  BY <1>11, <2>1 DEF Allowed, Told, Nothing
<1>14. ~Allowed(k, Nothing)
  BY DEF Allowed
<1>15. k \in DOMAIN told <=> k \in DOMAIN expected
  BY <1>3, <1>4, <1>6
<1>16. CASE Level(k) > p.max
  <2>1. k \notin DOMAIN told
    BY <1>9, <1>10, <1>14, <1>15, <1>16
  <2> QED  BY <1>12, <1>16, <2>1
<1>17. CASE ~(Level(k) > p.max)
  <2>1. k \in DOMAIN told <=> k \in Range(asked)
    BY <1>9, <1>10, <1>11, <1>13, <1>15, <1>17
  <2>2. k \in DOMAIN told => told[k] = {ChildcountOf(path, Members(p), Level(k))}
    BY <1>3, <1>4, <1>7, <1>9, <1>10, <1>13, <1>15, <1>17
  <2> QED  BY <1>12, <1>17, <2>1, <2>2
<1> QED  BY <1>16, <1>17

\* What get_metadata tells of a container asked only for its children.
LEMMA CountOfContainer ==
  ASSUME known \in SUBSET File, library \in Complete, library \in DOMAIN Libraries,
         NEW id, id \in Seq(STRING), CategoryInfo(id).clip = Nothing,
         CategoryInfo(id).category \notin {"error", "root", "music"},
         Given(id) <= Len(LevelsOf(id))
  PROVE  ToldOf(id, <<"childcount(1)">>)["childcount(1)"]
           = {ChildcountOf(id, Members(MetadataPlan(id)), 1)}
<1>1. PICK k, asked : k = "childcount(1)" /\ asked = <<k>>
  OBVIOUS
<1>2. PICK p, c : p = MetadataPlan(id) /\ c = Filled(p, asked, << >>)
  OBVIOUS
<1>3. PlanOK(p) /\ ContainerPlan(p, id)
  BY <1>2, MetadataPlanOK, MetadataPlanOfContainer
<1>4. CacheFits(p, c)
  BY <1>1, <1>2, <1>3, FilledFits
<1>5. ContainerKeys(p) /\ ContainerConcat(p) /\ p.kind = "container"
  BY <1>3 DEF ContainerPlan
<1>6. /\ ContainerCache(c, p, p.concat)
      /\ KeysGetUser(c) = {k} \cap TellableTo(p.max)
  <2>1. PICK first : first = FirstCache(p, << >>)
    OBVIOUS
  <2>2. ContainerCache(first, p, {}) /\ KeysGetUser(first) = {}
    BY <1>5, <2>1, FirstCacheContainer
  <2>3. LET some == KeyAdd(first, k, p.max, TRUE)
        IN  /\ ContainerCache(some, p, {})
            /\ KeysGetUser(some)
                 = KeysGetUser(first) \cup (IF TRUE THEN {k} \cap TellableTo(p.max) ELSE {})
    <3>1. ContainerKeys(p)
      BY <1>5
    <3>2. ContainerCache(first, p, {})
      BY <2>2
    <3> QED  BY ONLY <3>1, <3>2, KeyAddKeepsContainer
  <2>4. PICK q : q = KeyAdd(first, k, p.max, TRUE)
    OBVIOUS
  <2>5. /\ ContainerCache(q, p, {})
        /\ KeysGetUser(q) = {k} \cap TellableTo(p.max)
    BY <2>2, <2>3, <2>4
  <2>6. c = LastCache(p, q)
    BY <1>1, <1>2, <2>1, <2>4, FilledWithOne
  <2>7. /\ ContainerCache(LastCache(p, q), p, p.concat)
        /\ KeysGetUser(LastCache(p, q)) = KeysGetUser(q)
    BY <1>5, <2>5, LastCacheContainer
  <2> QED  BY <2>5, <2>6, <2>7
<1>7. PICK answered : answered = RowsFor(p, c, << >>)
  OBVIOUS
<1>8. \/ answered = Answer(Statement(p, c, NoFilter))
      \/ answered = << >> /\ Aggregates(p, c) = << >>
  BY <1>5, <1>7 DEF RowsFor
<1>9. IsContainer(p, id, c, answered)
  BY <1>3, <1>4, <1>6, <1>8, RowsOfContainer
<1>10. PICK told : told = BuildAggregated(c, answered, p.rows)
  OBVIOUS
<1>11. ToldOf(id, asked) = told
  <2>1. PICK q : q = [NoQuery EXCEPT !.op = "get_metadata", !.path = id]
    OBVIOUS
  <2>2. q.op = "get_metadata" /\ q.path = id
    BY <2>1 DEF NoQuery
  <2>3. PlanOf(q) = p
    BY <1>2, <2>2 DEF PlanOf
  <2>4. Outcome("get_metadata", id, asked, << >>) = WithCache(p, c, << >>)
    BY <1>2, <2>1, <2>3 DEF Outcome, WithPlan
  <2>5. WithCache(p, c, << >>).metadata = Built(p, c, answered)
    BY <1>7 DEF WithCache, WithRows
  <2>6. Built(p, c, answered) = <<told>>
    BY <1>5, <1>10 DEF Built
  <2>7. ToldOf(id, asked) = Outcome("get_metadata", id, asked, << >>).metadata[1]
    BY DEF ToldOf
  <2> QED  BY <2>4, <2>5, <2>6, <2>7
<1>12. k \in ChildcountKeys /\ Level(k) = 1
  <2>1. k \in ChildcountKeys
    BY <1>1, ChildcountNames
  <2>2. Level(k) \in 1 .. 4 /\ Childcounts[Level(k)] = k
    BY <2>1, ChildcountNames
  <2>3. \A i \in 1 .. 4 : Childcounts[i] = "childcount(1)" => i = 1
    BY DEF Childcounts
  <2> QED  BY <1>1, <2>1, <2>2, <2>3
<1>13. Range(asked) = {k}
  BY <1>1 DEF Range
<1>14. Level(k) <= p.max
  <2>1. p.max = (Len(LevelsOf(id)) + 1) - Given(id)
    BY <1>3 DEF ContainerPlan
  <2>2. Len(LevelsOf(id)) \in Int /\ Given(id) \in Int
    <3>1. Len(id) \in Nat /\ Len(id) - 2 \in Int
      OBVIOUS
    <3> QED  BY <3>1, LevelsShort, MaxWithZero DEF LevelsOf, Given
  <2> QED  BY <1>12, <2>1, <2>2
<1>15. KeysGetUser(c) = Range(asked) \cap TellableTo(p.max)
  BY <1>6, <1>13
<1>16. told[k] = {ChildcountOf(id, Members(p), Level(k))}
  <2>1. TellsChildcount(told, asked, id, p, k)
    BY ONLY <1>9, <1>10, <1>12, <1>15, ChildcountsOfContainer
  <2>2. k \in DOMAIN told
    BY <1>13, <1>14, <2>1 DEF TellsChildcount
  <2> QED  BY <2>1, <2>2 DEF TellsChildcount
<1> QED  BY <1>1, <1>2, <1>11, <1>12, <1>16

-----------------------------------------------------------------------------
(* Containers in containers.                                               *)

\* Where a path leads to that begins like one of the branches with levels.
BranchPath(path, s) ==
  /\ path \in Seq(STRING)
  /\ path[1] = "music" /\ path[2] = BranchAt(s)
  /\ Len(path) >= 2 /\ Len(path) <= 6 - s

LEMMA PathInBranch ==
  ASSUME NEW s \in 1 .. 3, NEW path, BranchPath(path, s)
  PROVE  /\ CategoryInfo(path).clip = Nothing
         /\ CategoryInfo(path).category = BranchAt(s)
         /\ LevelsOf(path) = Levels(BranchAt(s))
         /\ MetadataPlan(path).type = "music"
         /\ Gives(MetadataPlan(path).category, path, s)
<1> DEFINE n == Len(path)
           branch == IF n > 1 /\ path[1] = "music" THEN path[2] ELSE Hole
           levels == Levels(branch)
           start == IF branch = Hole THEN 1 ELSE 2
           error == \/ n > 0 /\ path[1] \notin {"music", "videos"}
                    \/ n > 1 /\ path[1] = "music"
                       /\ branch \notin {"songs", "playlists", "albums", "artists", "genres"}
                    \/ n > start + Len(levels) + 1
           category == CASE error -> "error"
                         [] ~error /\ n = 0 -> "root"
                         [] ~error /\ n > 0 /\ branch = Hole -> path[1]
                         [] ~error /\ branch # Hole -> branch
           clip == IF ~error /\ n = start + Len(levels) + 1 /\ n > 1 THEN {path[n]} ELSE Nothing
           info == CategoryInfo(path)
<1>0. path \in Seq(STRING) /\ path[1] = "music" /\ path[2] = BranchAt(s)
      /\ n >= 2 /\ n <= 6 - s /\ n \in Nat
  BY DEF BranchPath
<1>1. info.category = category /\ info.clip = clip
  BY DEF CategoryInfo
<1>2. /\ info.genre = GivenBy(path, levels, "genre")
      /\ info.artist = GivenBy(path, levels, "artist")
      /\ info.album = GivenBy(path, levels, "album")
  BY DEF CategoryInfo, GivenBy
<1>3. BranchAt(s) \in {"albums", "artists", "genres"} /\ BranchAt(s) # Hole
  <2>1. BranchAt(1) = "genres" /\ BranchAt(2) = "artists" /\ BranchAt(3) = "albums"
    BY DEF BranchAt
  <2>2. BranchAt(s) \in {"albums", "artists", "genres"}
    BY <2>1
  <2>3. Hole \notin {"albums", "artists", "genres"}
    BY DEF Hole
  <2> QED  BY ONLY <2>2, <2>3
<1>4. branch = BranchAt(s) /\ start = 2
  BY <1>0, <1>3
<1>5. levels = Levels(BranchAt(s)) /\ Len(levels) = 4 - s
  <2> HIDE DEF branch
  <2> QED  BY <1>0, <1>4, BranchFacts
<1>6. ~error /\ n # start + Len(levels) + 1
  <2> HIDE DEF levels
  <2> QED  BY <1>0, <1>3, <1>4, <1>5
<1>7. category = BranchAt(s) /\ clip = Nothing
  <2> HIDE DEF levels, error, start
  <2> QED  BY <1>0, <1>3, <1>4, <1>6
<1>8. LevelsOf(path) = levels
  BY <1>0, <1>4 DEF LevelsOf
<1> HIDE DEF info, category, clip, error, start
<1>9. PICK of : of = Only(info, {"genre", "artist", "album"})
  OBVIOUS
<1>10. PICK title \in {"Artists", "Albums", "Genres"} :
         MetadataPlan(path) = GetCategory(Hierarchy[s], title, of)
  <2>0. info.category = BranchAt(s)
    BY <1>1, <1>7
  <2>1. CASE s = 1  BY <2>0, <1>9, <2>1 DEF MetadataPlan, BranchAt, Hierarchy, info
  <2>2. CASE s = 2  BY <2>0, <1>9, <2>2 DEF MetadataPlan, BranchAt, Hierarchy, info
  <2>3. CASE s = 3  BY <2>0, <1>9, <2>3 DEF MetadataPlan, BranchAt, Hierarchy, info
  <2> QED  BY <2>1, <2>2, <2>3
<1>11. MetadataPlan(path).type = "music" /\ MetadataPlan(path).category = of
  BY <1>10 DEF GetCategory, Plan
<1>12. Gives(of, path, s)
  <2>1. of = [key \in {"genre", "artist", "album"} |-> info[key]]
    BY <1>9 DEF Only
  <2>2. of = [key \in {"genre", "artist", "album"} |-> of[key]]
    BY <2>1
  <2>3. ASSUME NEW i \in 1 .. 3
        PROVE  of[Hierarchy[i]]
                 = IF i >= s /\ i - s + 3 <= Len(path) THEN {path[i - s + 3]} ELSE Nothing
    <3>1. Hierarchy[i] \in {"genre", "artist", "album"}
      BY DEF Hierarchy
    <3>2. of[Hierarchy[i]] = GivenBy(path, levels, Hierarchy[i])
      <4> HIDE DEF levels
      <4> QED  BY <1>2, <2>1, <3>1
    <3>3. GivenBy(path, Levels(BranchAt(s)), Hierarchy[i])
            = IF i >= s /\ i - s + 3 <= Len(path) THEN {path[i - s + 3]} ELSE Nothing
      BY ONLY <1>0, s \in 1 .. 3, i \in 1 .. 3, BranchFacts
    <3> QED  BY <1>5, <3>2, <3>3
  <2> QED  BY <2>2, <2>3 DEF Gives
<1> QED  BY <1>1, <1>5, <1>7, <1>8, <1>11, <1>12 DEF info

\* A container that has levels is in one of the branches.
LEMMA BranchOfPath ==
  ASSUME NEW path \in Seq(STRING), CategoryInfo(path).clip = Nothing,
         CategoryInfo(path).category \in {"albums", "artists", "genres"}
  PROVE  \E s \in 1 .. 3 : BranchPath(path, s) /\ CategoryInfo(path).category = BranchAt(s)
<1> DEFINE n == Len(path)
           branch == IF n > 1 /\ path[1] = "music" THEN path[2] ELSE Hole
           levels == Levels(branch)
           start == IF branch = Hole THEN 1 ELSE 2
           error == \/ n > 0 /\ path[1] \notin {"music", "videos"}
                    \/ n > 1 /\ path[1] = "music"
                       /\ branch \notin {"songs", "playlists", "albums", "artists", "genres"}
                    \/ n > start + Len(levels) + 1
           category == CASE error -> "error"
                         [] ~error /\ n = 0 -> "root"
                         [] ~error /\ n > 0 /\ branch = Hole -> path[1]
                         [] ~error /\ branch # Hole -> branch
<1>1. PICK c : c = CategoryInfo(path).category
  OBVIOUS
<1>2. /\ Len(path) >= 2 /\ path[2] = c /\ Len(path) <= 2 + Len(Levels(c))
  BY <1>1, PathOfContainer
<1>3. PICK s \in 1 .. 3 : c = BranchAt(s)
  <2>1. BranchAt(1) = "genres" /\ BranchAt(2) = "artists" /\ BranchAt(3) = "albums"
    BY DEF BranchAt
  <2> QED  BY <1>1, <2>1
<1>4. Len(Levels(c)) = 4 - s
  BY <1>3, BranchFacts
<1>5. path[1] = "music"
  <2> SUFFICES ASSUME path[1] # "music" PROVE FALSE
    OBVIOUS
  <2>1. c = category
    BY <1>1 DEF CategoryInfo
  <2>2. branch = Hole /\ n \in Nat /\ n >= 2
    BY <1>2
  <2>3. CASE error
    <3> HIDE DEF error
    <3>1. c = "error"
      BY <2>1, <2>3
    <3> QED  BY <1>1, <3>1
  <2>4. CASE ~error
    <3>1. path[1] \in {"music", "videos"}
      BY <2>2, <2>4
    <3> HIDE DEF error, branch
    <3>2. c = path[1]
      BY <2>1, <2>2, <2>4
    <3>3. c = "videos"
      BY <3>1, <3>2
    <3> QED  BY <1>1, <3>3
  <2> QED  BY <2>3, <2>4
<1>6. Len(path) \in Nat /\ Len(path) <= 6 - s
  BY <1>2, <1>4
<1> QED  BY <1>1, <1>2, <1>3, <1>5, <1>6 DEF BranchPath

\* The files of a container in a branch have what its path gives.
HasPath(f, path, s) ==
  \A i \in 1 .. 3 : i >= s /\ i - s + 3 <= Len(path) =>
                       Property(f, Hierarchy[i]) = {path[i - s + 3]}

LEMMA MembersByPath ==
  ASSUME known \in SUBSET File, library \in Complete, library \in DOMAIN Libraries,
         NEW s \in 1 .. 3, NEW path, NEW p, p.type = "music", Gives(p.category, path, s), NEW f
  PROVE  f \in Members(p) <=> f \in known /\ TypeOf(f) = "music" /\ HasPath(f, path, s)
<1>1. PICK category : category = p.category
  OBVIOUS
<1>2. /\ category = [key \in {"genre", "artist", "album"} |-> category[key]]
      /\ \A i \in 1 .. 3 :
           category[Hierarchy[i]]
             = IF i >= s /\ i - s + 3 <= Len(path) THEN {path[i - s + 3]} ELSE Nothing
  BY <1>1 DEF Gives
<1>3. DOMAIN category = {"genre", "artist", "album"}
  BY <1>2
<1>4. /\ \A i \in 1 .. 3 : Hierarchy[i] \in {"genre", "artist", "album"}
      /\ \A key \in {"genre", "artist", "album"} : \E i \in 1 .. 3 : Hierarchy[i] = key
  BY DEF Hierarchy
<1>5. ASSUME f \in Members(p), NEW i \in 1 .. 3, i >= s, i - s + 3 <= Len(path)
      PROVE  Property(f, Hierarchy[i]) = {path[i - s + 3]}
  <2>1. PICK key : key = Hierarchy[i]
    OBVIOUS
  <2>2. key \in {"genre", "artist", "album"} /\ category[key] = {path[i - s + 3]}
    BY <1>2, <1>4, <1>5, <2>1
  <2>3. p.category[key] # Nothing
    BY <1>1, <2>2 DEF Nothing
  <2>4. Property(f, key) = p.category[key]
    BY <1>1, <1>2, <1>5, <2>2, <2>3, HasCategory
  <2> QED  BY <1>1, <2>1, <2>2, <2>4
<1>6. ASSUME \A i \in 1 .. 3 : i >= s /\ i - s + 3 <= Len(path) =>
                                 Property(f, Hierarchy[i]) = {path[i - s + 3]}
      PROVE  InCategory(f, category)
  <2> SUFFICES ASSUME NEW key \in {"genre", "artist", "album"}
               PROVE  category[key] = Nothing \/ Property(f, key) = category[key]
    BY <1>3 DEF InCategory
  <2>1. PICK i \in 1 .. 3 : Hierarchy[i] = key
    BY <1>4
  <2>2. CASE i >= s /\ i - s + 3 <= Len(path)
    <3>1. category[key] = {path[i - s + 3]} /\ Property(f, key) = {path[i - s + 3]}
      BY <1>2, <1>6, <2>1, <2>2
    <3> QED  BY <3>1
  <2>3. CASE ~(i >= s /\ i - s + 3 <= Len(path))
    <3>1. category[key] = Nothing
      BY <1>2, <2>1, <2>3
    <3> QED  BY <3>1
  <2> QED  BY <2>2, <2>3
<1>7. f \in Members(p) <=> f \in known /\ TypeOf(f) = "music" /\ InCategory(f, category)
  BY <1>1 DEF Members
<1>8. f \in Members(p) => HasPath(f, path, s)
  BY <1>5 DEF HasPath
<1>9. HasPath(f, path, s) => InCategory(f, category)
  BY <1>6 DEF HasPath
<1> QED  BY <1>7, <1>8, <1>9

\* One level further down.
Below(id, path, s, key, text) ==
  /\ BranchPath(path, s) /\ Len(path) < 6 - s
  /\ text \in STRING /\ id = Append(path, text)
  /\ key = Hierarchy[(Len(path) + s) - 2]

LEMMA MembersOfChild ==
  ASSUME known \in SUBSET File, library \in Complete, library \in DOMAIN Libraries,
         NEW s \in 1 .. 3, NEW path, NEW id, NEW key, NEW text, Below(id, path, s, key, text)
  PROVE  /\ BranchPath(id, s) /\ Len(id) = Len(path) + 1
         /\ Members(MetadataPlan(id))
              = {f \in Members(MetadataPlan(path)) : Property(f, key) = {text}}
<1>1. PICK n : n = Len(path)
  OBVIOUS
<1>2. /\ path \in Seq(STRING) /\ n \in Nat /\ n >= 2 /\ n < 6 - s
      /\ path[1] = "music" /\ path[2] = BranchAt(s) /\ BranchPath(path, s)
      /\ text \in STRING /\ id = Append(path, text) /\ key = Hierarchy[(n + s) - 2]
  BY <1>1 DEF BranchPath, Below
<1>3. id \in Seq(STRING) /\ Len(id) = n + 1 /\ id[n + 1] = text /\ \A i \in 1 .. n : id[i] = path[i]
  BY <1>1, <1>2
<1>4. BranchPath(id, s)
  <2>1. id[1] = path[1] /\ id[2] = path[2]
    BY <1>2, <1>3
  <2>2. Len(id) >= 2 /\ Len(id) <= 6 - s
    BY <1>2, <1>3
  <2> QED  BY <1>2, <1>3, <2>1, <2>2 DEF BranchPath
<1>5. PICK p, q : p = MetadataPlan(path) /\ q = MetadataPlan(id)
  OBVIOUS
<1>6. p.type = "music" /\ Gives(p.category, path, s)
  BY <1>2, <1>5, PathInBranch
<1>7. q.type = "music" /\ Gives(q.category, id, s)
  BY <1>4, <1>5, PathInBranch
<1>8. PICK at : at = (n + s) - 2
  OBVIOUS
<1>9. at \in 1 .. 3 /\ at >= s /\ at - s + 3 = n + 1 /\ Hierarchy[at] = key
  BY <1>1, <1>2, <1>8
<1>12. ASSUME NEW i \in 1 .. 3, i >= s
       PROVE  /\ i - s + 3 <= n + 1 <=> i - s + 3 <= n \/ i = at
              /\ i - s + 3 <= n => i - s + 3 \in 1 .. n
  <2>1. n \in Int /\ at = (n + s) - 2 /\ i \in Int /\ s \in Int /\ i >= s
    BY <1>2, <1>8, <1>12
  <2> QED  BY ONLY <2>1
<1>10. ASSUME NEW f
       PROVE  f \in Members(q) <=> f \in Members(p) /\ Property(f, key) = {text}
  <2>1. f \in Members(p) <=> f \in known /\ TypeOf(f) = "music" /\ HasPath(f, path, s)
    BY <1>6, MembersByPath
  <2>2. f \in Members(q) <=> f \in known /\ TypeOf(f) = "music" /\ HasPath(f, id, s)
    BY ONLY known \in SUBSET File, library \in Complete, library \in DOMAIN Libraries,
            s \in 1 .. 3, <1>7, MembersByPath
  <2>3. f \in Members(q) => f \in Members(p) /\ Property(f, key) = {text}
    <3> SUFFICES ASSUME f \in Members(q) PROVE f \in Members(p) /\ Property(f, key) = {text}
      OBVIOUS
    <3>1. Property(f, key) = {text}
      <4>1. at \in 1 .. 3 /\ at >= s /\ at - s + 3 <= Len(id)
        BY <1>2, <1>3, <1>9
      <4>2. Property(f, Hierarchy[at]) = {id[at - s + 3]}
        BY <2>2, <4>1 DEF HasPath
      <4> QED  BY <1>3, <1>9, <4>2
    <3>2. ASSUME NEW i \in 1 .. 3, i >= s, i - s + 3 <= n
          PROVE  Property(f, Hierarchy[i]) = {path[i - s + 3]}
      <4>1. Property(f, Hierarchy[i]) = {id[i - s + 3]}
        BY <1>3, <2>2, <1>12, <3>2 DEF HasPath
      <4> QED  BY <1>3, <1>12, <3>2, <4>1
    <3>3. HasPath(f, path, s)
      BY <1>1, <3>2 DEF HasPath
    <3> QED  BY <2>1, <2>2, <3>1, <3>3
  <2>4. f \in Members(p) /\ Property(f, key) = {text} => f \in Members(q)
    <3> SUFFICES ASSUME f \in Members(p), Property(f, key) = {text} PROVE f \in Members(q)
      OBVIOUS
    <3>1. ASSUME NEW i \in 1 .. 3, i >= s, i - s + 3 <= n + 1
          PROVE  Property(f, Hierarchy[i]) = {id[i - s + 3]}
      <4>1. CASE i = at
        BY <1>3, <1>9, <4>1
      <4>2. CASE i - s + 3 <= n
        BY <1>1, <1>3, <2>1, <1>12, <3>1, <4>2 DEF HasPath
      <4> QED  BY <1>12, <3>1, <4>1, <4>2
    <3>2. HasPath(f, id, s)
      BY <1>3, <3>1 DEF HasPath
    <3> QED  BY <2>1, <2>2, <3>2
  <2> QED  BY <2>3, <2>4
<1> QED  BY <1>1, <1>3, <1>4, <1>5, <1>10

\* The genre, artist and album of a file are one text each.
LEMMA CellsAreTexts ==
  ASSUME known \in SUBSET File, library \in Complete, library \in DOMAIN Libraries,
         NEW f \in known, NEW key \in {"genre", "artist", "album"}
  PROVE  Property(f, key) = {TextIn(Property(f, key))} /\ TextIn(Property(f, key)) \in STRING
<1>1. f \in File /\ key \in Added4 /\ key \in MetadataKeys /\ key # "uri"
  BY DEF Added4, MetadataKeys, MusicKeys
<1>2. PICK cell : cell = Property(f, key)
  OBVIOUS
<1>3. cell # {} /\ \A v, w \in cell : v = w
  BY <1>1, <1>2, NothingLacking
<1>4. cell = Libraries[library].has[f][key]
  BY <1>1, <1>2 DEF Property
<1>5. cell \subseteq STRING
  BY <1>1, <1>4, LibrariesAssumption
<1>6. PICK text : text \in cell
  BY <1>3
<1>7. cell = {text} /\ TextIn({text}) = text
  BY <1>3, <1>6 DEF TextIn
<1> QED  BY <1>2, <1>5, <1>6, <1>7

\* A child of a container that has a level below it: a container of its own,
\* with the files that have one value of that level.
ChildContainer(id, path, cell) ==
  /\ id \in Seq(STRING)
  /\ CategoryInfo(id).clip = Nothing
  /\ CategoryInfo(id).category \notin {"error", "root", "music"}
  /\ LevelsOf(id) = LevelsOf(path)
  /\ Given(id) = 1 + Given(path)
  /\ Members(MetadataPlan(id))
       = {f \in Members(MetadataPlan(path)) :
            Property(f, LevelsOf(path)[1 + Given(path)]) = cell}

LEMMA ChildOfContainer ==
  ASSUME known \in SUBSET File, library \in Complete, library \in DOMAIN Libraries,
         NEW path \in Seq(STRING), CategoryInfo(path).clip = Nothing,
         CategoryInfo(path).category \notin {"error", "root", "music"},
         1 + Given(path) <= Len(LevelsOf(path)),
         NEW cell \in CellsOf(Members(MetadataPlan(path)), LevelsOf(path)[1 + Given(path)]),
         NEW id, id = Append(path, TextIn(cell))
  PROVE  ChildContainer(id, path, cell)
<1>1. PICK c : c = CategoryInfo(path).category
  OBVIOUS
<1>2. Len(path) \in Nat /\ Len(path) - 2 \in Int
  OBVIOUS
<1>3. Given(path) = IF Len(path) - 2 > 0 THEN Len(path) - 2 ELSE 0
  BY <1>2, MaxWithZero DEF Given
<1>4. c \in {"albums", "artists", "genres"}
  <2>1. c \in Categories \ {"root", "music", "error"}
    BY <1>1, CategoryIsKnown
  <2>2. c \notin {"videos", "songs", "playlists"}
    <3> SUFFICES ASSUME c \in {"videos", "songs", "playlists"} PROVE FALSE
      OBVIOUS
    <3>1. Len(LevelsOf(path)) = 0
      BY <1>1, NoLevels
    <3> QED  BY <1>2, <1>3, <3>1
  <2> QED  BY <2>1, <2>2 DEF Categories
<1>5. PICK s \in 1 .. 3 : BranchPath(path, s)
  BY <1>1, <1>4, BranchOfPath
<1>6. PICK levels, n : levels = LevelsOf(path) /\ n = Len(path)
  OBVIOUS
<1>7. levels = Levels(BranchAt(s))
  BY <1>5, <1>6, PathInBranch
<1>8. n \in Nat /\ n >= 2 /\ n <= 6 - s /\ Given(path) = n - 2
  BY <1>2, <1>3, <1>5, <1>6 DEF BranchPath
<1>9. Len(levels) = 4 - s /\ \A i \in 1 .. 4 - s : levels[i] = Hierarchy[s + i - 1]
  BY <1>7, BranchFacts
<1>10. n < 6 - s
  BY <1>6, <1>8, <1>9
<1>11. PICK key : key = Hierarchy[(n + s) - 2]
  OBVIOUS
<1>12. levels[1 + Given(path)] = key
  <2>1. n - 1 \in 1 .. 4 - s /\ 1 + Given(path) = n - 1 /\ s + (n - 1) - 1 = (n + s) - 2
    BY <1>8, <1>10
  <2> QED  BY <1>9, <1>11, <2>1
<1>13. key \in {"genre", "artist", "album"}
  <2>1. (n + s) - 2 \in 1 .. 3
    BY <1>8, <1>10
  <2>2. \A i \in 1 .. 3 : Hierarchy[i] \in {"genre", "artist", "album"}
    BY DEF Hierarchy
  <2> QED  BY <1>11, <2>1, <2>2
<1>14. PICK files : files = Members(MetadataPlan(path))
  OBVIOUS
<1>15. PICK g \in files : cell = Property(g, key)
  BY <1>6, <1>12, <1>14 DEF CellsOf
<1>16. g \in known
  BY <1>14, <1>15 DEF Members
<1>17. PICK text : text = TextIn(cell)
  OBVIOUS
<1>18. cell = {text} /\ text \in STRING
  BY <1>13, <1>15, <1>16, <1>17, CellsAreTexts
<1>19. /\ BranchPath(id, s) /\ Len(id) = n + 1
       /\ Members(MetadataPlan(id)) = {f \in files : Property(f, key) = {text}}
  <2>1. Below(id, path, s, key, text)
    BY <1>5, <1>6, <1>10, <1>11, <1>17, <1>18 DEF Below
  <2>2. /\ BranchPath(id, s) /\ Len(id) = Len(path) + 1
        /\ Members(MetadataPlan(id))
             = {f \in Members(MetadataPlan(path)) : Property(f, key) = {text}}
    BY <2>1, MembersOfChild
  <2> QED  BY <1>6, <1>14, <2>2
<1>20. /\ CategoryInfo(id).clip = Nothing
       /\ CategoryInfo(id).category = BranchAt(s)
       /\ LevelsOf(id) = Levels(BranchAt(s))
  BY <1>19, PathInBranch
<1>21. BranchAt(s) \notin {"error", "root", "music"}
  <2>1. BranchAt(1) = "genres" /\ BranchAt(2) = "artists" /\ BranchAt(3) = "albums"
    BY DEF BranchAt
  <2> QED  BY <2>1
<1>22. Given(id) = 1 + Given(path)
  <2>1. Len(id) - 2 = n - 1 /\ n - 1 \in Int
    BY <1>8, <1>19
  <2>2. Given(id) = IF n - 1 > 0 THEN n - 1 ELSE 0
    BY <2>1, MaxWithZero DEF Given
  <2> QED  BY <1>8, <2>2
<1>23. Members(MetadataPlan(id)) = {f \in files : Property(f, key) = cell}
  BY <1>18, <1>19
<1>24. id \in Seq(STRING)
  BY <1>19 DEF BranchPath
<1> QED  BY <1>6, <1>7, <1>12, <1>14, <1>20, <1>21, <1>22, <1>23, <1>24 DEF ChildContainer

\* The children of a container that has a level below it.
LEMMA ChildrenOfContainer ==
  ASSUME known \in SUBSET File, library \in Complete, library \in DOMAIN Libraries,
         NEW path \in Seq(STRING), CategoryInfo(path).clip = Nothing,
         CategoryInfo(path).category \notin {"error", "root", "music"},
         1 + Given(path) <= Len(LevelsOf(path)),
         NEW p, p = MetadataPlan(path), NEW ids, HasChildren(ids, p, path),
         NEW key, key = LevelsOf(path)[1 + Given(path)]
  PROVE  \E cells : /\ Matches(cells, 1 .. Len(ids), CellsOf(Members(p), key))
                    /\ \A i \in 1 .. Len(ids) : ChildContainer(ids[i], path, cells[i])
<1>1. PICK cells : /\ Matches(cells, 1 .. Len(ids), CellsOf(Members(p), key))
                   /\ \A i \in 1 .. Len(ids) : ids[i] = Append(path, TextIn(cells[i]))
  BY DEF HasChildren
<1>2. ASSUME NEW i \in 1 .. Len(ids)
      PROVE  ChildContainer(ids[i], path, cells[i])
  <2>1. PICK id, cell : id = ids[i] /\ cell = cells[i]
    OBVIOUS
  <2>2. id = Append(path, TextIn(cell))
    BY <1>1, <2>1
  <2>3. cell \in CellsOf(Members(MetadataPlan(path)), LevelsOf(path)[1 + Given(path)])
    BY <1>1, <2>1 DEF Matches
  <2>4. ChildContainer(id, path, cell)
    BY <2>2, <2>3, ChildOfContainer
  <2> QED  BY <2>1, <2>4
<1> QED  BY <1>1, <1>2

-----------------------------------------------------------------------------
(* Childcounts of the children of a container.                             *)

\* Each file is a file of one child.
IsClass(class, files, m, key, cells) ==
  /\ \A f \in files : class[f] \in 1 .. m
  /\ \A f, g \in files : class[f] = class[g] <=> Property(f, key) = Property(g, key)
  /\ \A i \in 1 .. m : {f \in files : class[f] = i} = {f \in files : Property(f, key) = cells[i]}

LEMMA ClassesOfCells ==
  ASSUME NEW files, NEW m, NEW key, NEW cells, Matches(cells, 1 .. m, CellsOf(files, key))
  PROVE  \E class : IsClass(class, files, m, key, cells)
<1>1. PICK class : class = [f \in files |-> CHOOSE i \in 1 .. m : cells[i] = Property(f, key)]
  OBVIOUS
<1>2. PICK R : R = 1 .. m
  OBVIOUS
<1>3. \A x, y \in R : cells[x] = cells[y] => x = y
  BY <1>2 DEF Matches
<1>4. ASSUME NEW f \in files
      PROVE  class[f] \in R /\ cells[class[f]] = Property(f, key)
  <2>1. \E i \in R : cells[i] = Property(f, key)
    BY <1>2 DEF Matches, CellsOf
  <2> QED  BY <1>1, <1>2, <2>1
<1>5. \A f, g \in files : class[f] = class[g] <=> Property(f, key) = Property(g, key)
  BY <1>3, <1>4
<1>6. \A i \in R : {f \in files : class[f] = i} = {f \in files : Property(f, key) = cells[i]}
  BY <1>3, <1>4
<1> QED  BY <1>2, <1>4, <1>5, <1>6 DEF IsClass

\* h has childcount(1) of each child.
CountsEach(h, m, ids, levels, next, files, cells) ==
  \A i \in 1 .. m :
    /\ LevelsOf(ids[i]) = levels /\ Given(ids[i]) = next
    /\ h[i] = ChildcountOf(ids[i], {f \in files : Property(f, levels[next]) = cells[i]}, 1)

\* childcount(2) is the sum of the childcount(1) of the children, unless files
\* are told apart by two levels below the first.
LEMMA CountsOfChildren ==
  ASSUME NEW files, IsFiniteSet(files), NEW path \in Seq(STRING),
         NEW levels, levels = LevelsOf(path), NEW next, next = 1 + Given(path),
         next <= Len(levels), 1 + next > Len(levels) \/ Given(path) = 0,
         NEW m \in Nat, NEW cells, Matches(cells, 1 .. m, CellsOf(files, levels[next])),
         NEW ids, NEW h, CountsEach(h, m, ids, levels, next, files, cells)
  PROVE  Total(h, 1 .. m) = ChildcountOf(path, files, 2)
<1>1. PICK R : R = 1 .. m
  OBVIOUS
<1>2. IsFiniteSet(R)
  <2>1. m \in Int /\ 1 \in Int
    OBVIOUS
  <2>2. IsFiniteSet(1 .. m)
    BY ONLY <2>1, FS_Interval
  <2> QED  BY <1>1, <2>2
<1>3. PICK key : key = levels[next]
  OBVIOUS
<1>4. PICK class : IsClass(class, files, m, key, cells)
  BY <1>3, ClassesOfCells
<1>5. PICK of : of = [i \in R |-> {f \in files : class[f] = i}]
  OBVIOUS
<1>6. /\ \A f \in files : class[f] \in R
      /\ \A f, g \in files : class[f] = class[g] <=> Property(f, key) = Property(g, key)
      /\ \A i \in R : of[i] = {f \in files : Property(f, key) = cells[i]}
  BY <1>1, <1>4, <1>5 DEF IsClass
<1>7. \A i \in R : h[i] = ChildcountOf(ids[i], of[i], 1)
  <2>1. ASSUME NEW i \in R
        PROVE  h[i] = ChildcountOf(ids[i], {f \in files : Property(f, key) = cells[i]}, 1)
    BY <1>1, <1>3 DEF CountsEach
  <2> QED  BY <1>6, <2>1
<1>8. Given(path) \in Nat /\ Len(levels) \in Nat
  BY PathNumbers
<1>9. PICK at : at = 1 + next
  OBVIOUS
<1>10. /\ at = 2 + Given(path)
       /\ \A i \in R : at = 1 + Given(ids[i]) /\ LevelsOf(ids[i]) = levels
  <2>1. at = 2 + Given(path)
    BY <1>8, <1>9
  <2>2. \A i \in R : Given(ids[i]) = next /\ LevelsOf(ids[i]) = levels
    BY <1>1 DEF CountsEach
  <2> QED  BY <1>8, <1>9, <2>1, <2>2
<1>11. CASE at > Len(levels)
  <2>1. ChildcountOf(path, files, 2) = Cardinality(files)
    BY <1>10, <1>11 DEF ChildcountOf
  <2>2. \A i \in R : h[i] = Cardinality(of[i])
    BY <1>7, <1>10, <1>11 DEF ChildcountOf
  <2>3. PICK ones : ones = [f \in files |-> 1]
    OBVIOUS
  <2>4. Numbers(ones, files) /\ Total(ones, files) = Cardinality(files)
    BY <2>3, TotalOfOnes DEF Numbers
  <2>5. ASSUME NEW i \in R
        PROVE  h[i] = Total(ones, {f \in files : class[f] = i})
    <3>1. PICK T : T = {f \in files : class[f] = i}
      OBVIOUS
    <3>2. T \subseteq files /\ of[i] = T
      BY <1>5, <3>1
    <3>3. IsFiniteSet(T)
      BY <3>2, FS_Subset
    <3>4. Total(ones, T) = Cardinality(T)
      BY <2>3, <3>2, <3>3, TotalOfOnes
    <3> QED  BY <2>2, <3>1, <3>2, <3>4
  <2>6. ByClass(h, R, ones, files, class)
    BY <2>5 DEF ByClass
  <2>7. Total(h, R) = Total(ones, files)
    BY <1>2, <1>6, <2>4, <2>6, TotalOfClasses
  <2> QED  BY <1>1, <2>1, <2>4, <2>7
<1>12. CASE ~(at > Len(levels))
  <2>1. Given(path) = 0 /\ next = 1 /\ key = levels[1]
    BY <1>3, <1>8, <1>9, <1>12
  <2>2. PICK under : under = levels[at]
    OBVIOUS
  <2>3. PICK first, second : /\ first = [f \in files |-> Property(f, key)]
                             /\ second = [f \in files |-> Property(f, under)]
    OBVIOUS
  <2>4. ChildcountOf(path, files, 2) = Cardinality(PairsOf(files, key, under))
    BY <1>10, <1>12, <2>1, <2>2 DEF ChildcountOf, PairsOf
  <2>5. PairsOf(files, key, under) = {<<first[f], second[f]>> : f \in files}
    BY <2>3 DEF PairsOf
  <2>6. ASSUME NEW i \in R
        PROVE  h[i] = Cardinality({second[f] : f \in {g \in files : class[g] = i}})
    <3>1. PICK T : T = {g \in files : class[g] = i}
      OBVIOUS
    <3>2. T \subseteq files /\ of[i] = T
      BY <1>5, <3>1
    <3>3. IsFiniteSet(T)
      BY <3>2, FS_Subset
    <3>4. h[i] = Cardinality(PairsOf(T, key, under))
      <4>1. PICK id : id = ids[i]
        OBVIOUS
      <4>2. LevelsOf(id) = levels /\ 1 + Given(id) = at /\ h[i] = ChildcountOf(id, T, 1)
        BY <1>7, <1>10, <3>2, <4>1
      <4>3. LET some == LevelsOf(id)
                place == 1 + Given(id)
            IN  ChildcountOf(id, T, 1)
                  = IF place > Len(some) THEN Cardinality(T)
                    ELSE Cardinality(PairsOf(T, some[1], some[place]))
        BY ChildcountByPairs
      <4> QED  BY <1>12, <2>1, <2>2, <4>2, <4>3
    <3>5. \A f, g \in T : Property(f, key) = Property(g, key)
      BY <1>6, <3>1
    <3>6. Cardinality(PairsOf(T, key, under)) = Cardinality(CellsOf(T, under))
      BY <3>3, <3>5, SizeOfPairs
    <3>7. CellsOf(T, under) = {second[f] : f \in T}
      BY <2>3, <3>2 DEF CellsOf
    <3> QED  BY <3>1, <3>4, <3>6, <3>7
  <2>7. SecondsByClass(h, R, files, class, second)
    BY <2>6 DEF SecondsByClass
  <2>8. \A f, g \in files : class[f] = class[g] <=> first[f] = first[g]
    BY <1>6, <2>3
  <2>9. Total(h, R) = Cardinality({<<first[f], second[f]>> : f \in files})
    BY <1>2, <1>6, <2>7, <2>8, PairsOfClasses
  <2> QED  BY <1>1, <2>4, <2>5, <2>9
<1> QED  BY <1>11, <1>12

\* Childcounts are numbers.
LEMMA ChildcountIsNumber ==
  ASSUME NEW files, IsFiniteSet(files), NEW path, NEW n
  PROVE  ChildcountOf(path, files, n) \in Nat
<1>1. PICK levels, at : levels = LevelsOf(path) /\ at = n + Given(path)
  OBVIOUS
<1>2. PICK P : P = PairsOf(files, levels[1], levels[at])
  OBVIOUS
<1>3. PICK pair : pair = [f \in files |-> <<Property(f, levels[1]), Property(f, levels[at])>>]
  OBVIOUS
<1>4. pair \in Surjection(files, P)
  BY <1>2, <1>3 DEF Surjection, PairsOf
<1>5. IsFiniteSet(P)
  BY <1>4, FS_Surjection
<1>6. Cardinality(P) \in Nat /\ Cardinality(files) \in Nat
  BY <1>5, FS_CardinalityType
<1>7. ChildcountOf(path, files, n) \in {Cardinality(P), Cardinality(files)}
  BY <1>1, <1>2 DEF ChildcountOf, PairsOf
<1> QED  BY <1>6, <1>7

\* What childcount(2) leaves out are the artists of a genre.
LEMMA TwoLevelsBelow ==
  ASSUME NEW path \in Seq(STRING), CategoryInfo(path).clip = Nothing,
         CategoryInfo(path).category \notin {"error", "root", "music"},
         1 + Given(path) <= Len(LevelsOf(path)),
         NEW category, category = MetadataPlan(path).category,
         category["genre"] = Nothing \/ category["artist"] # Nothing
  PROVE  2 + Given(path) > Len(LevelsOf(path)) \/ Given(path) = 0
<1>1. PICK c : c = CategoryInfo(path).category
  OBVIOUS
<1>2. Len(path) \in Nat /\ Len(path) - 2 \in Int
  OBVIOUS
<1>3. Given(path) = IF Len(path) - 2 > 0 THEN Len(path) - 2 ELSE 0
  BY <1>2, MaxWithZero DEF Given
<1>4. c \in {"albums", "artists", "genres"}
  <2>1. c \in Categories \ {"root", "music", "error"}
    BY <1>1, CategoryIsKnown
  <2>2. c \notin {"videos", "songs", "playlists"}
    <3> SUFFICES ASSUME c \in {"videos", "songs", "playlists"} PROVE FALSE
      OBVIOUS
    <3>1. Len(LevelsOf(path)) = 0
      BY <1>1, NoLevels
    <3> QED  BY <1>2, <1>3, <3>1
  <2> QED  BY <2>1, <2>2 DEF Categories
<1>5. PICK s \in 1 .. 3 : BranchPath(path, s)
  BY <1>1, <1>4, BranchOfPath
<1>6. PICK size, n : size = Len(LevelsOf(path)) /\ n = Len(path)
  OBVIOUS
<1>7. size = 4 - s
  BY <1>5, <1>6, PathInBranch, BranchFacts
<1>8. n \in Nat /\ n >= 2 /\ n <= 6 - s /\ Given(path) = n - 2
  BY <1>2, <1>3, <1>5, <1>6 DEF BranchPath
<1>9. s = 1 => /\ n >= 3 => category["genre"] = {path[3]}
               /\ n < 4 => category["artist"] = Nothing
  <2> SUFFICES ASSUME s = 1
               PROVE  /\ n >= 3 => category["genre"] = {path[3]}
                      /\ n < 4 => category["artist"] = Nothing
    OBVIOUS
  <2>1. \A i \in 1 .. 3 :
          category[Hierarchy[i]]
            = IF i >= s /\ i - s + 3 <= Len(path) THEN {path[i - s + 3]} ELSE Nothing
    <3>1. Gives(category, path, s)
      BY <1>5, PathInBranch
    <3> QED  BY <3>1 DEF Gives
  <2>2. Hierarchy[1] = "genre" /\ Hierarchy[2] = "artist"
    BY DEF Hierarchy
  <2>3. category[Hierarchy[1]] = IF 3 <= n THEN {path[3]} ELSE Nothing
    BY <1>6, <2>1
  <2>4. category[Hierarchy[2]] = IF 4 <= n THEN {path[4]} ELSE Nothing
    BY <1>6, <2>1
  <2> QED  BY <1>8, <2>2, <2>3, <2>4
<1>10. s = 1 => n # 3
  <2> SUFFICES ASSUME s = 1, n = 3 PROVE FALSE
    OBVIOUS
  <2>1. category["genre"] = {path[3]} /\ category["artist"] = Nothing
    BY <1>9
  <2> QED  BY <2>1 DEF Nothing
<1> QED  BY <1>6, <1>7, <1>8, <1>10

\* childcount(1) of an object as get_metadata tells it, and the sum for some.
ToldCount(id) == TextIn(ToldOf(id, <<"childcount(1)">>)["childcount(1)"])
SumTold(ids) == MapThenSumSet(LAMBDA i : ToldCount(ids[i]), DOMAIN ids)

LEMMA SumOfCounts ==
  ASSUME NEW S, NEW ids, NEW g, \A i \in S : ToldCount(ids[i]) = g[i], Numbers(g, S)
  PROVE  MapThenSumSet(LAMBDA i : ToldCount(ids[i]), S) = Total(g, S)
<1> DEFINE step(h) == [T \in SUBSET S |->
                         IF T = {} THEN 0
                         ELSE ToldCount(ids[CHOOSE i \in T : TRUE])
                                + h[T \ {CHOOSE i \in T : TRUE}]]
<1>1. MapThenSumSet(LAMBDA i : ToldCount(ids[i]), S) = (CHOOSE h : h = step(h))[S]
  BY DEF MapThenSumSet, MapThenFoldSet
<1>2. \A h : step(h) = Summing(S, g, h)
  <2> SUFFICES ASSUME NEW h, NEW T \in SUBSET S, T # {}
               PROVE  ToldCount(ids[CHOOSE i \in T : TRUE]) = g[Pick(T)]
    BY DEF Summing, Pick
  <2>1. Pick(T) \in S
    BY PickFacts
  <2> QED  BY <2>1 DEF Pick
<1> HIDE DEF step
<1>3. PICK sum : sum = CHOOSE h : h = step(h)
  OBVIOUS
<1>4. \E h : h = step(h)
  BY <1>2, SummingFacts
<1>5. sum = step(sum)
  BY <1>3, <1>4
<1>6. sum = Summing(S, g, sum)
  BY <1>2, <1>5
<1>7. sum[S] = Total(g, S)
  BY <1>6, SummingFacts
<1> QED  BY <1>1, <1>3, <1>7

\* The levels that childcount(1) and childcount(2) count.
LEMMA LevelsOfCounts ==
  /\ "childcount(1)" \in ChildcountKeys /\ Level("childcount(1)") = 1
  /\ "childcount(2)" \in ChildcountKeys /\ Level("childcount(2)") = 2
<1>1. \A k \in ChildcountKeys : Level(k) \in 1 .. 4 /\ Childcounts[Level(k)] = k
  BY ChildcountNames
<1>2. "childcount(1)" \in ChildcountKeys /\ "childcount(2)" \in ChildcountKeys
  BY ChildcountNames
<1>3. \A i \in 1 .. 4 : /\ Childcounts[i] = "childcount(1)" => i = 1
                        /\ Childcounts[i] = "childcount(2)" => i = 2
  BY DEF Childcounts
<1> QED  BY <1>1, <1>2, <1>3

\* What get_metadata tells of the children of a container adds up to its second
\* childcount.
LEMMA CountsAddUp ==
  ASSUME known \in SUBSET File, library \in Complete, library \in DOMAIN Libraries,
         NEW path \in Seq(STRING), CategoryInfo(path).clip = Nothing,
         CategoryInfo(path).category \notin {"error", "root", "music"},
         1 + Given(path) <= Len(LevelsOf(path)),
         NEW p, p = MetadataPlan(path), NEW ids, HasChildren(ids, p, path),
         p.category["genre"] = Nothing \/ p.category["artist"] # Nothing
  PROVE  SumTold(ids) = ChildcountOf(path, Members(p), 2)
<1>1. PICK levels, next, files, m : /\ levels = LevelsOf(path) /\ next = 1 + Given(path)
                                    /\ files = Members(p) /\ m = Len(ids)
  OBVIOUS
<1>2. m \in Nat /\ DOMAIN ids = 1 .. m /\ IsFiniteSet(files)
  BY <1>1 DEF HasChildren
<1>3. PICK key : key = levels[next]
  OBVIOUS
<1>4. PICK cells : /\ Matches(cells, 1 .. m, CellsOf(files, key))
                   /\ \A i \in 1 .. m : ChildContainer(ids[i], path, cells[i])
  BY <1>1, <1>3, ChildrenOfContainer
<1>5. PICK of, h : /\ of = [i \in 1 .. m |-> {f \in files : Property(f, key) = cells[i]}]
                   /\ h = [i \in 1 .. m |-> ChildcountOf(ids[i], of[i], 1)]
  OBVIOUS
<1>6. ASSUME NEW i \in 1 .. m
      PROVE  /\ LevelsOf(ids[i]) = levels /\ Given(ids[i]) = next
             /\ ToldCount(ids[i]) = h[i] /\ h[i] \in Nat
  <2>1. PICK id : id = ids[i]
    OBVIOUS
  <2>2. ChildContainer(id, path, cells[i])
    BY <1>4, <2>1
  <2>3. /\ id \in Seq(STRING) /\ CategoryInfo(id).clip = Nothing
        /\ CategoryInfo(id).category \notin {"error", "root", "music"}
        /\ LevelsOf(id) = levels /\ Given(id) = next
    BY <1>1, <2>2 DEF ChildContainer
  <2>4. Members(MetadataPlan(id)) = of[i]
    BY <1>1, <1>3, <1>5, <2>2 DEF ChildContainer
  <2>5. Given(id) <= Len(LevelsOf(id))
    BY <1>1, <2>3
  <2>6. ToldOf(id, <<"childcount(1)">>)["childcount(1)"]
          = {ChildcountOf(id, Members(MetadataPlan(id)), 1)}
    BY <2>3, <2>5, CountOfContainer
  <2>7. ToldCount(id) = ChildcountOf(id, of[i], 1)
    BY <2>4, <2>6 DEF ToldCount, TextIn
  <2>8. of[i] \subseteq files
    BY <1>5
  <2>9. ChildcountOf(id, of[i], 1) \in Nat
    BY <1>2, <2>8, FS_Subset, ChildcountIsNumber
  <2> QED  BY <1>5, <2>1, <2>3, <2>7, <2>9
<1>7. Numbers(h, 1 .. m)
  <2>1. m \in Int /\ 1 \in Int
    BY <1>2
  <2>2. IsFiniteSet(1 .. m)
    BY ONLY <2>1, FS_Interval
  <2> QED  BY <1>6, <2>2 DEF Numbers
<1>8. MapThenSumSet(LAMBDA i : ToldCount(ids[i]), 1 .. m) = Total(h, 1 .. m)
  BY <1>6, <1>7, SumOfCounts
<1>9. 2 + Given(path) > Len(levels) \/ Given(path) = 0
  BY <1>1, TwoLevelsBelow
<1>10. Total(h, 1 .. m) = ChildcountOf(path, files, 2)
  <2>1. Given(path) \in Nat
    BY PathNumbers
  <2>2. next <= Len(levels) /\ (1 + next > Len(levels) \/ Given(path) = 0)
    <3>1. PICK size, given : size = Len(levels) /\ given = Given(path)
      OBVIOUS
    <3>2. size \in Int
      BY <1>1, <3>1, LevelsShort DEF LevelsOf
    <3>3. 1 + given <= size
      BY <1>1, <3>1
    <3>5. given \in Nat /\ next = 1 + given /\ (2 + given > size \/ given = 0)
      BY <1>1, <1>9, <2>1, <3>1
    <3>4. next <= size /\ (1 + next > size \/ given = 0)
      BY ONLY <3>2, <3>3, <3>5
    <3> QED  BY <3>1, <3>4
  <2>3. \A i \in 1 .. m :
          h[i] = ChildcountOf(ids[i], {f \in files : Property(f, levels[next]) = cells[i]}, 1)
    BY <1>3, <1>5
  <2>4. Matches(cells, 1 .. m, CellsOf(files, levels[next]))
    BY <1>3, <1>4
  <2>5. CountsEach(h, m, ids, levels, next, files, cells)
    BY <1>6, <2>3 DEF CountsEach
  <2> QED  BY ONLY path \in Seq(STRING), <1>1, <1>2, <2>2, <2>4, <2>5, CountsOfChildren
<1>11. SumTold(ids) = Total(h, 1 .. m)
  BY <1>2, <1>8 DEF SumTold
<1> QED  BY <1>1, <1>10, <1>11

-----------------------------------------------------------------------------
(* A query about a container counts its children.                          *)

\* What is told of a container counts its children.
TellsCounts(told, ids, category) ==
  /\ "childcount(1)" \in DOMAIN told => told["childcount(1)"] = {Len(ids)}
  /\ "childcount(2)" \in DOMAIN told
       /\ (category["genre"] = Nothing \/ category["artist"] # Nothing) =>
     told["childcount(2)"] = {SumTold(ids)}

LEMMA CountsTold ==
  ASSUME NEW p, NEW path \in Seq(STRING), p = MetadataPlan(path),
         CategoryInfo(path).clip = Nothing,
         CategoryInfo(path).category \notin {"error", "root", "music"},
         NEW c, NEW answered, IsContainer(p, path, c, answered),
         NEW asked, KeysGetUser(c) = Range(asked) \cap TellableTo(p.max),
         NEW told, told = BuildAggregated(c, answered, p.rows),
         NEW ids, HasChildren(ids, p, path)
  PROVE  TellsCounts(told, ids, p.category)
<1>1. /\ known \in SUBSET File /\ library \in Complete /\ library \in DOMAIN Libraries
      /\ ContainerPlan(p, path)
  BY DEF IsContainer
<1>2. ASSUME NEW k \in ChildcountKeys, k \in DOMAIN told
      PROVE  Level(k) <= p.max /\ told[k] = {ChildcountOf(path, Members(p), Level(k))}
  <2>1. TellsChildcount(told, asked, path, p, k)
    BY ONLY IsContainer(p, path, c, answered), KeysGetUser(c) = Range(asked) \cap TellableTo(p.max),
            told = BuildAggregated(c, answered, p.rows), k \in ChildcountKeys,
            ChildcountsOfContainer
  <2> QED  BY <1>2, <2>1 DEF TellsChildcount
<1>3. "childcount(1)" \in DOMAIN told => told["childcount(1)"] = {Len(ids)}
  <2> SUFFICES ASSUME "childcount(1)" \in DOMAIN told
               PROVE  told["childcount(1)"] = {Len(ids)}
    OBVIOUS
  <2>1. told["childcount(1)"] = {ChildcountOf(path, Members(p), 1)}
    BY <1>2, LevelsOfCounts
  <2>2. ChildcountOf(path, Members(p), 1) = Len(ids)
    BY <1>1, NumberOfChildren
  <2> QED  BY <2>1, <2>2
<1>4. ASSUME "childcount(2)" \in DOMAIN told,
             p.category["genre"] = Nothing \/ p.category["artist"] # Nothing
      PROVE  told["childcount(2)"] = {SumTold(ids)}
  <2>1. 2 <= p.max /\ told["childcount(2)"] = {ChildcountOf(path, Members(p), 2)}
    BY <1>2, <1>4, LevelsOfCounts
  <2>2. 1 + Given(path) <= Len(LevelsOf(path))
    <3>1. p.max = (Len(LevelsOf(path)) + 1) - Given(path)
      BY <1>1 DEF ContainerPlan
    <3>2. Given(path) \in Nat /\ Len(LevelsOf(path)) \in Nat
      BY PathNumbers
    <3> QED  BY <2>1, <3>1, <3>2
  <2>3. SumTold(ids) = ChildcountOf(path, Members(p), 2)
    BY <1>1, <1>4, <2>2, CountsAddUp
  <2> QED  BY <2>1, <2>3
<1> QED  BY <1>3, <1>4 DEF TellsCounts

\* The query to Tracker about a container is the one its query takes.
PlanOfQuery == plan.kind = "container" => query \in Queries /\ plan = PlanOf(query)

LEMMA InitPlanOfQuery == CatalogInit => PlanOfQuery
<1> SUFFICES ASSUME CatalogInit PROVE plan.kind = "none"
  BY DEF PlanOfQuery
<1> QED  BY PlanFields DEF CatalogInit, NoPlan

\* No step but a call changes it.
LEMMA StepPlanOfQuery == PlanOfQuery /\ [CatalogNext]_allVars => PlanOfQuery'
<1> SUFFICES ASSUME PlanOfQuery, [CatalogNext]_allVars PROVE PlanOfQuery'
  OBVIOUS
<1>1. ASSUME query' = query, plan' = plan
      PROVE  PlanOfQuery'
  <2>1. PlanOf(query)' = PlanOf(query)
    BY <1>1 DEF PlanOf, MetadataPlan, BrowsePlan, ClipsPlan
  <2> QED  BY <1>1, <2>1 DEF PlanOfQuery
<1>2. ASSUME NEW q \in Queries, Ask(q)
      PROVE  PlanOfQuery'
  <2>1. query' = q /\ plan' = PlanOf(q)
    BY <1>2 DEF Ask
  <2> QED  BY <2>1 DEF PlanOfQuery
<1>3. CASE CatalogHandler
  <2>1. query' = query /\ plan' = plan
    BY <1>3 DEF CatalogHandler, AddKey, Send, SendClips, NothingAsked, TrackerFails,
                TrackerAnswers, ClipsHandler, catalogVars, catalogVarsButStage
  <2> QED  BY <1>1, <2>1
<1>4. CASE Indexer
  <2>1. query' = query /\ plan' = plan
    BY <1>4 DEF Indexer, catalogVars
  <2> QED  BY <1>1, <2>1
<1>5. CASE UNCHANGED allVars
  <2>1. query' = query /\ plan' = plan
    BY <1>5 DEF allVars, catalogVars
  <2> QED  BY <1>1, <2>1
<1> QED  BY <1>2, <1>3, <1>4, <1>5 DEF CatalogNext

\* So the invariants of a query about a container say what its childcounts are.
LEMMA ChildcountsTold ==
  PairingInv /\ BoundInv /\ ClipsInv /\ TypeInv /\ ContainerInv /\ PlanOfQuery => ChildcountCounts
<1> SUFFICES ASSUME PairingInv, BoundInv, ClipsInv, TypeInv, ContainerInv, PlanOfQuery,
                    stage = "answered", plan.kind = "container", library \in Complete
             PROVE  ChildcountsCount(Result[1], Children(query.path))
  BY DEF ChildcountCounts, Children
<1>1. /\ ContainerPlan(plan, query.path) /\ ContainerCache(cache, plan, plan.concat)
      /\ todo = << >>
      /\ KeysGetUser(cache) \cup (Range(todo) \cap TellableTo(plan.max))
           = Range(query.keys) \cap TellableTo(plan.max)
      /\ \/ rows = Answer(Statement(plan, cache, NoFilter))
         \/ rows = << >> /\ Aggregates(plan, cache) = << >>
  BY DEF ContainerInv, ConcatSoFar
<1>2. IsContainer(plan, query.path, cache, rows)
  BY <1>1, RowsOfContainer, CacheIsFit, KnownFiles DEF TypeInv
<1>3. KeysGetUser(cache) = Range(query.keys) \cap TellableTo(plan.max)
  <2>1. Range(todo) = {}
    BY <1>1 DEF Range
  <2> QED  BY <1>1, <2>1
<1>4. Result[1] = BuildAggregated(cache, rows, plan.rows)
  BY DEF Result, Built, AnsweredRows
<1>5. /\ plan = MetadataPlan(query.path) /\ query.path \in Seq(STRING)
      /\ CategoryInfo(query.path).clip = Nothing
      /\ CategoryInfo(query.path).category \notin {"error", "root", "music"}
  <2>1. PICK q \in Queries : q = query /\ plan = PlanOf(q)
    BY DEF PlanOfQuery
  <2>2. PlanOf(q).kind = "container"
    BY <2>1
  <2>3. /\ PlanOf(q) = MetadataPlan(q.path)
        /\ q.path \in Seq(STRING) /\ CategoryInfo(q.path).clip = Nothing
        /\ CategoryInfo(q.path).category \notin {"error", "root", "music"}
    BY <2>2, QueryOfContainer
  <2> QED  BY <2>1, <2>3
<1>6. PICK p, path, c, answered, asked, told, ids :
        /\ p = plan /\ path = query.path /\ c = cache /\ answered = rows /\ asked = query.keys
        /\ told = Result[1] /\ ids = Children(path)
  OBVIOUS
<1>7. /\ IsContainer(p, path, c, answered)
      /\ KeysGetUser(c) = Range(asked) \cap TellableTo(p.max)
      /\ told = BuildAggregated(c, answered, p.rows)
      /\ p = MetadataPlan(path) /\ path \in Seq(STRING)
      /\ CategoryInfo(path).clip = Nothing
      /\ CategoryInfo(path).category \notin {"error", "root", "music"}
  BY <1>2, <1>3, <1>4, <1>5, <1>6
<1>8. HasChildren(ids, p, path)
  <2>1. PICK b : b = BrowsePlan(path, FALSE)
    OBVIOUS
  <2>2. BrowsesLike(b, p, path)
    BY <1>7, <2>1, BrowseOfContainer
  <2>3. b.kind \in {"list", "unique"}
    BY <2>2 DEF BrowsesLike
  <2>4. ids = ListedIds(b)
    <3>1. Children(path) = ListedIds(b)
      BY ONLY <2>1, <2>3, IdsOfBrowse
    <3> QED  BY <1>6, <3>1
  <2>5. known \in SUBSET File /\ library \in Complete /\ library \in DOMAIN Libraries
    BY <1>7 DEF IsContainer
  <2> QED  BY <2>2, <2>4, <2>5, ChildrenListed
<1>9. TellsCounts(told, ids, p.category)
  BY ONLY <1>7, <1>8, CountsTold
<1>10. ChildcountsCount(told, ids)
  BY <1>6, <1>9 DEF ChildcountsCount, TellsCounts, SumTold, ToldCount
<1> QED  BY <1>6, <1>10

\* What get_metadata tells of how many children a container has, of a library
\* that lacks nothing, is how many a browse of the container lists, and what it
\* tells of how many those have is the sum of what it tells of each of them, but
\* for the artists of a genre (Catalog!ChildcountCounts).
THEOREM ChildcountsAreCounts == CatalogSpec => []ChildcountCounts
<1>1. CatalogInit => PairingInv /\ BoundInv /\ ClipsInv /\ TypeInv /\ ContainerInv /\ PlanOfQuery
  BY InitPairs, InitBounds, InitClips, InitTypes, InitContainers, InitPlanOfQuery
<1>2. PairingInv /\ BoundInv /\ ClipsInv /\ TypeInv /\ ContainerInv /\ PlanOfQuery
        /\ [CatalogNext]_allVars
        => (PairingInv /\ BoundInv /\ ClipsInv /\ TypeInv /\ ContainerInv /\ PlanOfQuery)'
  BY StepPairs, StepBounds, StepClips, StepTypes, StepContainers, StepPlanOfQuery
<1>3. PairingInv /\ BoundInv /\ ClipsInv /\ TypeInv /\ ContainerInv /\ PlanOfQuery => ChildcountCounts
  BY ChildcountsTold
<1> QED  BY <1>1, <1>2, <1>3, PTL DEF CatalogSpec
=============================================================================
