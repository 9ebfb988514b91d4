----------------------------- MODULE MCCatalog -----------------------------
(***************************************************************************)
(* Small libraries and queries to check Catalog with.                      *)
(***************************************************************************)
EXTENDS Catalog

MCUri == [f \in 1 .. 3 |-> <<"uri1", "uri2", "uri3">>[f]]
MCPathname == [f \in 1 .. 3 |-> <<"path1", "path2", "path3">>[f]]
MCFileName == [u \in {"uri1", "uri2", "uri3"} |->
                 CASE u = "uri1" -> "name1" [] u = "uri2" -> "name2" [] u = "uri3" -> "name3"]

\* One album has a cover, with a thumbnail; two files have thumbnails.
MCPictures == {"A", "uri1", "uri3"}

\* A file with the properties that matter here; its others have one value.
FileOf(genre, artist, album, title, duration) ==
  [key \in MetadataKeys \ {"uri"} |->
     CASE key = "genre" -> genre
       [] key = "artist" -> artist
       [] key = "album" -> album
       [] key = "title" -> title
       [] key = "duration" -> duration
       [] key = "mime" -> {"audio"}
       [] key \in ChildcountKeys -> {7}
       [] key = "filename" -> {"file"}
       [] OTHER -> IF key \in TextKeys THEN {} ELSE {0}]

Music == [f \in 1 .. 3 |-> "music"]
Mixed == <<"music", "video", "playlist">>

\* Three songs that share albums across artists and genres; with an album
\* called like an artist and an unknown genre; with properties missing; and one
\* file of each type.
MCLibraries ==
  [name \in {"shared", "unknown", "missing", "mixed"} |->
     CASE name = "shared" ->
            [types |-> Music,
             has |-> <<FileOf({"G"}, {"X"}, {"A"}, {"t"}, {1}),
                       FileOf({"G"}, {"Y"}, {"A"}, {"u"}, {2}),
                       FileOf({"H"}, {"X"}, {"B"}, {"t"}, {4})>>]
       [] name = "unknown" ->
            [types |-> Music,
             has |-> <<FileOf({""}, {"A"}, {"A"}, {""}, {1}),
                       FileOf({"G"}, {"A"}, {"B"}, {"t"}, {2}),
                       FileOf({""}, {"X"}, {"A"}, {"t"}, {4})>>]
       [] name = "missing" ->
            [types |-> Music,
             has |-> <<FileOf({"G"}, {}, {"A"}, {}, {1}),
                       FileOf({}, {"X"}, {}, {"t"}, {2}),
                       FileOf({"G"}, {"X"}, {"A"}, {"t"}, {})>>]
       [] name = "mixed" ->
            [types |-> Mixed,
             has |-> <<FileOf({"G"}, {"X"}, {"A"}, {"t"}, {1}),
                       FileOf({}, {}, {}, {"t"}, {2}),
                       FileOf({}, {}, {}, {}, {4})>>]]

MCComplete == {"shared", "unknown"}

-----------------------------------------------------------------------------
Is(key, value) == [type |-> "eq", key |-> key, value |-> value, parts |-> << >>]
Has(key, value) == [type |-> "approx", key |-> key, value |-> value, parts |-> << >>]
Both(f, g) == [type |-> "and", key |-> "", value |-> "", parts |-> <<f, g>>]
Either(f, g) == [type |-> "or", key |-> "", value |-> "", parts |-> <<f, g>>]
Not(f) == [type |-> "not", key |-> "", value |-> "", parts |-> <<f>>]
Exists(key) == [type |-> "exists", key |-> key, value |-> "", parts |-> << >>]

MCComparisons == {<<"approx", "t", "t">>, <<"approx", "A", "A">>}

Plain == {Is("album", "A"), Is("artist", "X"), Is("genre", ""), Has("title", "t")}
Paired == {Both(Is("album", "A"), Is("artist", "X")), Either(Is("album", "A"), Is("artist", "X")),
           Both(Is("genre", ""), Not(Is("artist", "X")))}
Nested == {Either(Both(Is("album", "A"), Is("artist", "X")), Has("title", "t")),
           Both(Either(Is("album", "A"), Has("title", "t")), Is("artist", "X")),
           Not(Both(Is("album", "A"), Is("artist", "X")))}
Unsupported == {Exists("album"), Not(Exists("album")), Both(Is("album", "A"), Exists("album"))}

MCFilters ==
  Plain \cup {Not(f) : f \in Plain} \cup Paired \cup Nested \cup Unsupported
               \cup {Either(Is("album", "A"), Has("title", "t"))}

MCDepth[f \in MCFilters] ==
  IF f.parts = << >> THEN 0
  ELSE 1 + Max({MCDepth[f.parts[i]] : i \in DOMAIN f.parts})

-----------------------------------------------------------------------------
Query(op, path, recursive, asked, filter, clips) ==
  [op |-> op, path |-> path, recursive |-> recursive, keys |-> asked,
   filter |-> filter, clips |-> clips]

Branches == {<<"music", "songs">>, <<"music", "playlists">>, <<"music", "albums">>,
             <<"music", "artists">>, <<"music", "genres">>, <<"videos">>}
Containers ==
  Branches
    \cup {<<"music", "albums", a>> : a \in {"A", "B", ""}}
    \cup {<<"music", "artists", x>> : x \in {"X", "A", ""}}
    \cup {<<"music", "artists", x, a>> : x \in {"X", ""}, a \in {"A", ""}}
    \cup {<<"music", "genres", g>> : g \in {"G", ""}}
    \cup {<<"music", "genres", g, x>> : g \in {"G", ""}, x \in {"X", "A"}}
    \cup {<<"music", "genres", "G", "X", "A">>}

Wrong == {<<"pictures">>, <<"music", "composers">>, <<"videos", "a", "b">>}

\* Keys of every kind, alone and in pairs, and as many aggregates as there are.
OneKey == {<<k>> : k \in {"title", "mime", "duration", "genre", "artist", "album",
                          "childcount(1)", "childcount(2)", "childcount(3)", "uri",
                          "album-art-small-uri", "thumbnail-uri", "no-such-key"}}
TwoKeys == {<<"album", "artist">>, <<"artist", "album">>, <<"duration", "childcount(1)">>,
            <<"album-art-uri", "duration">>, <<"title", "genre">>,
            <<"childcount(2)", "artist">>}
ManyKeys == {<<"duration", "artist", "childcount(4)", "album", "childcount(3)",
               "childcount(2)", "mime", "childcount(1)", "title", "duration">>}
KeyLists == {<< >>} \cup OneKey \cup TwoKeys \cup ManyKeys

\* Keys for clips, from none to five columns.
ClipKeyLists ==
  {<<"childcount(1)">>, <<"mime">>, <<"album-art-large-uri", "genre">>,
   <<"uri", "duration", "title">>, <<"title", "artist", "album", "genre">>,
   <<"genre", "title", "album", "artist", "duration">>}
Clips ==
  [1 .. 1 -> 1 .. 3] \cup [1 .. 2 -> 1 .. 3]
    \cup {<<1, 2, 3>>, <<3, 1, 2>>, <<2, 1, 2>>, <<3, 3, 1>>, <<1, 2, 2>>}

Listings ==
  {Query("browse", path, FALSE, asked, NoFilter, << >>) :
     path \in Containers \cup Wrong, asked \in KeyLists}
    \cup {Query("browse", path, TRUE, asked, NoFilter, << >>) :
            path \in Containers \cup Wrong \cup {<<"music">>},
            asked \in {<<"album", "artist">>} \cup ManyKeys}
Filtered ==
  {Query("browse", path, r, <<"childcount(1)">>, f, << >>) :
     path \in {<<"videos">>, <<"music", "songs">>, <<"music", "albums">>,
               <<"music", "artists">>, <<"music", "genres">>, <<"music", "genres", "">>,
               <<"music", "artists", "X">>},
     r \in BOOLEAN, f \in MCFilters}
OfContainers ==
  {Query("get_metadata", path, FALSE, asked, NoFilter, << >>) :
     path \in Containers \cup Wrong, asked \in KeyLists}
OfClips ==
  {Query("get_metadatas", <<"music", "songs">>, FALSE, asked, NoFilter, clips) :
     asked \in ClipKeyLists, clips \in Clips}
    \cup {Query("get_metadatas", path, FALSE, asked, NoFilter, <<clip>>) :
            path \in {<<"videos">>, <<"music", "playlists">>},
            asked \in ClipKeyLists, clip \in 1 .. 3}

MCQueries == Listings \cup Filtered \cup OfContainers \cup OfClips
FilterQueries ==
  {Query("browse", <<"music", "songs">>, FALSE, <<"title">>, f, << >>) :
     f \in {Not(Is("album", "A")), Not(Both(Is("album", "A"), Is("artist", "X")))}}
=============================================================================
