---------------------------- MODULE TrackerCache ----------------------------
(***************************************************************************)
(* The cache of one query to Tracker: tracker-cache.c, with the tables of  *)
(* key-mapping.c that it consults.                                         *)
(*                                                                         *)
(* A cache says of each key where its value is to come from.  Keys that    *)
(* Tracker is asked for get the next column of the answer; what is known   *)
(* beforehand, or makes no sense for the kind of query, gets none.  Once   *)
(* there are rows, metadata are built from the columns.                    *)
(*                                                                         *)
(* A value is a cell: a set with one text or number, {} if there is none,  *)
(* and with several texts if Tracker concatenated them ("a|b" in the code).*)
(***************************************************************************)
EXTENDS Integers, Sequences, FiniteSets, FiniteSetsExt

CONSTANTS
  FileName,   \* the name of a file without its extension, by uri
  Pictures    \* albums with a cover, and uris and covers with a thumbnail

Types == {"music", "video", "playlist"}
Results == {"query", "unique", "get_metadata"}

\* A column that no key uses: NULL in an array of keys.
Hole == ""
Nothing == {}
Empty == {""}
MimeContainer == {"x-mafw/container"}
VariousValues == {"Various"}

\* An album without a name has no cover.
ASSUME PicturesAssumption == "" \notin Pictures

-----------------------------------------------------------------------------
(* The tables of keys.                                                     *)

Childcounts == <<"childcount(1)", "childcount(2)", "childcount(3)", "childcount(4)">>
ChildcountKeys == {Childcounts[n] : n \in 1 .. 4}
Level(k) == CHOOSE n \in 1 .. 4 : Childcounts[n] = k

CommonKeys ==
  {"uri", "mime", "added", "modified", "filename", "filesize", "copyright",
   "res-x", "res-y", "video-source", "paused-thumbnail-uri", "paused-position"}
MusicKeys ==
  {"title", "duration", "artist", "album", "genre", "track", "year", "bitrate",
   "last-played", "play-count"}
VideoKeys == {"title", "duration", "video-framerate"}
PlaylistKeys == {"duration"} \cup ChildcountKeys

\* Whether Tracker has a property for a key, of files of a type.
TrackerHas(type, k) ==
  \/ k \in CommonKeys
  \/ type = "music" /\ k \in MusicKeys
  \/ type = "video" /\ k \in VideoKeys
  \/ type = "playlist" /\ k \in PlaylistKeys

SizedArtKeys == {"album-art-small-uri", "album-art-medium-uri", "album-art-large-uri"}
ArtKeys == {"album-art-uri"} \cup SizedArtKeys
ThumbnailKeys ==
  {"thumbnail-uri", "thumbnail-small-uri", "thumbnail-medium-uri", "thumbnail-large-uri"}

\* The keys there are metadata for; any other is not supported.
MetadataKeys ==
  CommonKeys \cup MusicKeys \cup VideoKeys \cup ChildcountKeys \cup ArtKeys
    \cup ThumbnailKeys

TextKeys ==
  {"uri", "mime", "filename", "copyright", "video-source", "paused-thumbnail-uri",
   "title", "artist", "album", "genre"} \cup ArtKeys \cup ThumbnailKeys

\* Keys whose value is told even if it is empty or 0.
AllowedEmpty == ChildcountKeys \cup {"title", "play-count"}

\* The keys that the value of a key is found with, the first needed first.
Needs(c, k) ==
  CASE k \in SizedArtKeys -> <<"album", "album-art-uri">>
    [] k = "album-art-uri" -> <<"album">>
    [] k \in ThumbnailKeys -> <<"uri">>
    [] k = "title" /\ c.result # "unique" /\ TrackerHas(c.type, k) -> <<"uri">>
    [] OTHER -> << >>

-----------------------------------------------------------------------------
(* Adding keys.                                                            *)

NewCache(type, result) ==
  [type |-> type, result |-> result, last |-> 0, entries |-> << >>]

Entry(kind, at, value, from, user) ==
  [kind |-> kind, at |-> at, value |-> value, from |-> from, user |-> user]

KeyExists(c, k) == k \in DOMAIN c.entries

\* An entry made or replaced, and columns used up.
Inserted(c, k, entry, columns) ==
  [type |-> c.type, result |-> c.result, last |-> c.last + columns,
   entries |-> [x \in DOMAIN c.entries \cup {k} |->
                  IF x = k THEN entry ELSE c.entries[x]]]

InColumn(c, k, user) ==
  Inserted(c, k, Entry("tracker", c.last, Nothing, Hole, user), 1)

KeyAddPrecomputed(c, k, user, value) ==
  IF KeyExists(c, k) THEN c
  ELSE Inserted(c, k, Entry("computed", 0, value, Hole, user), 0)

KeyAddDerived(c, k, user, source) ==
  IF KeyExists(c, k) THEN c
  ELSE Inserted(c, k, Entry("derived", 0, Nothing, source, user), 0)

\* Mutant: a key that another one needs is no longer the user's.
RequestedLast(c, k, user) ==
  LET entry == c.entries[k]
  IN  Inserted(c, k, Entry(entry.kind, entry.at, entry.value, entry.from, user), 0)

\* The key is there already; the user may now be asking for it.
Requested(c, k, user) ==
  LET entry == c.entries[k]
  IN  Inserted(c, k, Entry(entry.kind, entry.at, entry.value, entry.from,
                           entry.user \/ user), 0)

\* Mutant: containers ask Tracker for their type too.
NewKeyAsks(c, k, max, user) ==
  LET unique == c.result = "unique"
      void == Inserted(c, k, Entry("void", 0, Nothing, Hole, user), 0)
  IN CASE k \in ArtKeys \cup ThumbnailKeys ->
            Inserted(c, k, Entry("thumbnailer", 0, Nothing, Hole, user), 0)
       [] k \in ChildcountKeys /\ Level(k) > max -> c
       [] k \notin ChildcountKeys \cup ArtKeys \cup ThumbnailKeys
            /\ ~TrackerHas(c.type, k) -> void
       [] k \in ChildcountKeys /\ Level(k) <= max /\ ~unique
            /\ c.type # "playlist" -> KeyAddPrecomputed(c, k, user, {0})
       [] OTHER -> InColumn(c, k, user)

\* A key that is new, once what it needs is there.  Queries for unique values
\* can only sum, count and concatenate; a clip has no children; a container
\* has one type.
NewKey(c, k, max, user) ==
  LET unique == c.result = "unique"
      void == Inserted(c, k, Entry("void", 0, Nothing, Hole, user), 0)
  IN CASE k \in ArtKeys \cup ThumbnailKeys ->
            Inserted(c, k, Entry("thumbnailer", 0, Nothing, Hole, user), 0)
       [] k \in ChildcountKeys /\ Level(k) > max -> c
       [] k \in ChildcountKeys /\ Level(k) <= max ->
            IF unique \/ c.type = "playlist" THEN InColumn(c, k, user)
            ELSE KeyAddPrecomputed(c, k, user, {0})
       [] k \in CommonKeys \cup MusicKeys \cup VideoKeys ->
            IF ~TrackerHas(c.type, k) \/ (unique /\ k \notin {"duration", "mime"})
            THEN void
            ELSE IF k = "mime" /\ (unique \/ c.type = "playlist")
            THEN KeyAddPrecomputed(c, k, user, MimeContainer)
            ELSE InColumn(c, k, user)

Added(c, k, max, user) ==
  IF KeyExists(c, k) THEN Requested(c, k, user)
  ELSE IF k \in MetadataKeys THEN NewKey(c, k, max, user) ELSE c

\* tracker_cache_key_add: what a key needs is added before it, but not for
\* the user.
KeyAdd(c, k, max, user) ==
  LET needs == IF KeyExists(c, k) THEN << >> ELSE Needs(c, k)
      one == IF Len(needs) > 0 THEN Added(c, needs[1], max, FALSE) ELSE c
      two == IF Len(needs) > 1 THEN Added(one, needs[2], max, FALSE) ELSE one
  IN  Added(two, k, max, user)

\* Mutant: a place is only skipped for a key that uses it.
KeyAddUniqueTight(c, k) ==
  IF KeyExists(c, k) THEN c
  ELSE IF k = "mime"
  THEN KeyAddPrecomputed(c, k, FALSE, MimeContainer)
  ELSE InColumn(c, k, FALSE)

\* The key that rows are grouped by comes first in them, used or not.
KeyAddUnique(c, k) ==
  IF KeyExists(c, k) THEN Inserted(c, k, c.entries[k], 1)
  ELSE IF k = "mime"
  THEN Inserted(c, k, Entry("computed", 0, MimeContainer, Hole, FALSE), 1)
  ELSE InColumn(c, k, FALSE)

\* Whatever the key was, its values are now asked for and concatenated.
KeyAddConcat(c, k) == InColumn(c, k, KeyExists(c, k) /\ c.entries[k].user)

-----------------------------------------------------------------------------
(* What to ask Tracker for.                                                *)

InTracker(c) == {k \in DOMAIN c.entries : c.entries[k].kind = "tracker"}

\* tracker_cache_keys_get_tracker: the keys by their columns.
KeysGetTracker(c) ==
  [n \in 1 .. c.last |->
     IF \E k \in InTracker(c) : c.entries[k].at = n - 1
     THEN CHOOSE k \in InTracker(c) : c.entries[k].at = n - 1
     ELSE Hole]

\* Callers go through that array up to its first NULL, and those that group
\* rows start behind the first place whatever is in it.
KeysFrom(c, first) ==
  LET keys == KeysGetTracker(c)
      stop == Min({n \in first .. c.last : keys[n] = Hole} \cup {c.last + 1})
  IN  SubSeq(keys, first, stop - 1)

KeysGetUser(c) == {k \in DOMAIN c.entries : c.entries[k].user}

-----------------------------------------------------------------------------
(* Building metadata.                                                      *)

\* A cell as a value of the key's type; Tracker's unbound is "" to the code.
Converted(k, cell) ==
  IF cell # {} THEN cell ELSE IF k \in TextKeys THEN Empty ELSE {0}

\* A value that was known beforehand, or is in the row; Nothing without one.
PlainValue(c, rows, n, k) ==
  IF ~KeyExists(c, k) THEN Nothing
  ELSE LET entry == c.entries[k]
       IN CASE entry.kind = "computed" -> entry.value
            [] entry.kind = "tracker" /\ n \in DOMAIN rows ->
                 Converted(k, rows[n][entry.at + 1])
            [] OTHER -> Nothing

\* _get_value_album_art: the first cover there is of the albums.
AlbumArt(c, rows, n) ==
  LET covers == PlainValue(c, rows, n, "album") \cap Pictures
  IN  IF covers = {} THEN Nothing ELSE {CHOOSE a \in covers : TRUE}

\* _get_value_thumbnail
Thumbnail(c, rows, n, k) ==
  IF k = "album-art-large-uri" THEN AlbumArt(c, rows, n)
  ELSE LET of == IF k \in ThumbnailKeys THEN PlainValue(c, rows, n, "uri")
                 ELSE IF KeyExists(c, "album-art-uri") THEN AlbumArt(c, rows, n)
                 ELSE Nothing
       IN  of \cap Pictures

\* tracker_cache_value_get
ValueGet(c, rows, n, k) ==
  IF ~KeyExists(c, k) THEN Nothing
  ELSE CASE c.entries[k].kind = "derived" ->
              PlainValue(c, rows, n, c.entries[k].from)
         [] c.entries[k].kind = "thumbnailer" ->
              IF k = "album-art-uri" THEN AlbumArt(c, rows, n)
              ELSE Thumbnail(c, rows, n, k)
         [] OTHER -> PlainValue(c, rows, n, k)

\* _get_title: a clip without a title is called by its file's name.
Title(c, rows, n) ==
  LET title == ValueGet(c, rows, n, "title")
      uri == ValueGet(c, rows, n, "uri")
  IN  IF title \in {Nothing, Empty} /\ c.result # "unique"
         /\ uri \notin {Nothing, Empty}
      THEN {FileName[CHOOSE u \in uri : TRUE]}
      ELSE title

\* _value_is_allowed
Allowed(k, value) ==
  value # Nothing /\ (k \in AllowedEmpty \/ value # Converted(k, Nothing))

\* Of several values only that they are several is told.
Told(value) == IF Cardinality(value) > 1 THEN VariousValues ELSE value

\* The metadata that the user's keys make with the values given.
Metadata(c, Value(_)) ==
  [k \in {u \in KeysGetUser(c) : Allowed(u, Value(u))} |-> Told(Value(k))]

\* Mutant: the title is that of the first row.
BuildMetadataFirst(c, rows) ==
  [n \in 1 .. Max({1, Len(rows)}) |->
     Metadata(c, LAMBDA k : IF k = "title" THEN Title(c, rows, 1)
                            ELSE ValueGet(c, rows, n, k))]

\* tracker_cache_build_metadata: one for each row, but one without rows too.
BuildMetadata(c, rows) ==
  [n \in 1 .. Max({1, Len(rows)}) |->
     Metadata(c, LAMBDA k : IF k = "title" THEN Title(c, rows, n)
                            ELSE ValueGet(c, rows, n, k))]

\* Mutant: every childcount is the number of rows.
AggregateKeyCounts(c, rows, k, count_childcount) ==
  IF count_childcount /\ k \in ChildcountKeys THEN Len(rows)
  ELSE LET number(n) == CHOOSE x \in ValueGet(c, rows, n, k) \cup {0} :
                          ValueGet(c, rows, n, k) \subseteq {x}
       IN  MapThenSumSet(number, DOMAIN rows)

\* _aggregate_key: the sum over all rows, or their number.
AggregateKey(c, rows, k, count_childcount) ==
  IF count_childcount /\ k = "childcount(1)" THEN Len(rows)
  ELSE LET number(n) == CHOOSE x \in ValueGet(c, rows, n, k) \cup {0} :
                          ValueGet(c, rows, n, k) \subseteq {x}
       IN  MapThenSumSet(number, DOMAIN rows)

\* tracker_cache_build_metadata_aggregated: one for all rows.
BuildAggregated(c, rows, count_childcount) ==
  Metadata(c, LAMBDA k : IF k \in ChildcountKeys \cup {"duration"}
                         THEN {AggregateKey(c, rows, k, count_childcount)}
                         ELSE ValueGet(c, rows, 1, k))
=============================================================================
