---------------------------- MODULE QueryProofs -----------------------------
(***************************************************************************)
(* What a query keeps and what it asks: its cache and its statement.       *)
(*                                                                         *)
(* Adding keys to a cache, in any order, keeps columns and keys paired:    *)
(* columns are used once each and, but for the first one when rows are     *)
(* grouped, all of them; and the keys in them are ones that Tracker has,   *)
(* or, when rows are grouped, sums and counts (CacheOK).  Bounded says     *)
(* what may be asked of rows that are grouped, and so how many columns     *)
(* there can be; EntriesOK, of which kinds entries are; and ClipCache,     *)
(* what the entries of a query about clips are.                            *)
(*                                                                         *)
(* The text of a filter says what the filter means, for every sound filter *)
(* (SaysSo), by induction over the depth of its parts.  Each clause of a   *)
(* statement that binds a variable has one of its own (OwnVariables), so   *)
(* that a statement asks for what it was made from (Asks).                 *)
(***************************************************************************)
EXTENDS TrackerCache, SparqlBuilder, ListsProofs, SequenceTheorems,
        FiniteSetTheorems, TLAPS

\* The first column that has to be used; unique is the key that rows are
\* grouped by, or Hole.
FirstUsed(unique) == IF unique = Hole THEN 0 ELSE 1

ColumnsOK(c, unique) ==
  /\ c.last \in Nat
  /\ FirstUsed(unique) <= c.last
  /\ \A k \in InTracker(c) : c.entries[k].at \in 0 .. c.last - 1
  /\ \A j, k \in InTracker(c) : c.entries[j].at = c.entries[k].at => j = k
  /\ \A n \in FirstUsed(unique) .. c.last - 1 :
       \E k \in InTracker(c) : c.entries[k].at = n
  /\ unique # Hole => \A k \in InTracker(c) : c.entries[k].at = 0 => k = unique

\* The keys that may be asked of Tracker.
Askable(c, unique) ==
  IF unique = Hole THEN {k \in MetadataKeys : TrackerHas(c.type, k)}
  ELSE {"duration", unique} \cup ChildcountKeys

CacheOK(c, unique) ==
  /\ ColumnsOK(c, unique)
  /\ c.result = "unique" <=> unique # Hole
  /\ InTracker(c) \subseteq Askable(c, unique)

-----------------------------------------------------------------------------
(* Entries.                                                                *)

LEMMA EntryFields ==
  ASSUME NEW kind, NEW at, NEW value, NEW from, NEW user
  PROVE  /\ Entry(kind, at, value, from, user).kind = kind
         /\ Entry(kind, at, value, from, user).at = at
  BY DEF Entry

LEMMA InsertedFields ==
  ASSUME NEW c, NEW k, NEW entry, NEW columns
  PROVE  LET q == Inserted(c, k, entry, columns)
         IN  /\ q.type = c.type
             /\ q.result = c.result
             /\ q.last = c.last + columns
             /\ DOMAIN q.entries = DOMAIN c.entries \cup {k}
             /\ q.entries[k] = entry
             /\ \A x \in DOMAIN c.entries : x # k => q.entries[x] = c.entries[x]
  BY DEF Inserted

LEMMA InsertedInTracker ==
  ASSUME NEW c, NEW k, NEW entry, NEW columns
  PROVE  InTracker(Inserted(c, k, entry, columns))
           = IF entry.kind = "tracker" THEN InTracker(c) \cup {k}
             ELSE InTracker(c) \ {k}
<1> DEFINE q == Inserted(c, k, entry, columns)
<1>1. /\ DOMAIN q.entries = DOMAIN c.entries \cup {k}
      /\ q.entries[k] = entry
      /\ \A x \in DOMAIN c.entries : x # k => q.entries[x] = c.entries[x]
  BY InsertedFields
<1> HIDE DEF q
<1>2. InTracker(q) = IF entry.kind = "tracker" THEN InTracker(c) \cup {k}
                     ELSE InTracker(c) \ {k}
  BY <1>1 DEF InTracker
<1> QED  BY <1>2 DEF q

\* An entry for a key that has no column, and gets none, changes no column.
LEMMA OutsideKeepsOK ==
  ASSUME NEW c, NEW unique, CacheOK(c, unique),
         NEW k, k \notin InTracker(c),
         NEW entry, entry.kind # "tracker"
  PROVE  CacheOK(Inserted(c, k, entry, 0), unique)
<1> DEFINE q == Inserted(c, k, entry, 0)
<1>1. /\ q.type = c.type
      /\ q.result = c.result
      /\ q.last = c.last + 0
      /\ \A x \in DOMAIN c.entries : x # k => q.entries[x] = c.entries[x]
  BY InsertedFields
<1>2. InTracker(q) = InTracker(c)
  BY InsertedInTracker
<1>3. q.last = c.last
  BY <1>1 DEF CacheOK, ColumnsOK
<1>4. \A x \in InTracker(c) : q.entries[x] = c.entries[x]
  BY <1>1 DEF InTracker
<1> HIDE DEF q
<1>5. ColumnsOK(q, unique)
  BY <1>2, <1>3, <1>4 DEF CacheOK, ColumnsOK
<1>6. InTracker(q) \subseteq Askable(q, unique)
  BY <1>1, <1>2 DEF CacheOK, Askable
<1>7. CacheOK(q, unique)
  BY <1>1, <1>5, <1>6 DEF CacheOK
<1> QED  BY <1>7 DEF q

\* A key that has no column gets the next one.
LEMMA InColumnKeepsColumns ==
  ASSUME NEW c, NEW unique, ColumnsOK(c, unique),
         NEW k, k \notin InTracker(c), NEW user
  PROVE  /\ ColumnsOK(InColumn(c, k, user), unique)
         /\ InTracker(InColumn(c, k, user)) = InTracker(c) \cup {k}
         /\ InColumn(c, k, user).type = c.type
         /\ InColumn(c, k, user).result = c.result
<1> DEFINE entry == Entry("tracker", c.last, Nothing, Hole, user)
           q == Inserted(c, k, entry, 1)
<1>1. entry.kind = "tracker" /\ entry.at = c.last
  BY EntryFields
<1> HIDE DEF entry
<1>2. /\ q.type = c.type
      /\ q.result = c.result
      /\ q.last = c.last + 1
      /\ q.entries[k] = entry
      /\ \A x \in DOMAIN c.entries : x # k => q.entries[x] = c.entries[x]
  BY InsertedFields
<1>3. InTracker(q) = InTracker(c) \cup {k}
  BY <1>1, InsertedInTracker
<1>4. \A x \in InTracker(c) : q.entries[x] = c.entries[x]
  BY <1>2 DEF InTracker
<1>5. q.entries[k].at = c.last
  BY <1>1, <1>2
<1> HIDE DEF q
<1>6. ColumnsOK(q, unique)
  <2>1. c.last \in Nat /\ FirstUsed(unique) \in {0, 1} /\ FirstUsed(unique) <= c.last
    BY DEF ColumnsOK, FirstUsed
  <2>2. \A x \in InTracker(q) : q.entries[x].at \in 0 .. q.last - 1
    BY <1>2, <1>3, <1>4, <1>5, <2>1 DEF ColumnsOK
  <2>3. \A i, j \in InTracker(q) : q.entries[i].at = q.entries[j].at => i = j
    <3>1. \A i \in InTracker(c) : q.entries[i].at # c.last
      BY <1>4, <2>1 DEF ColumnsOK
    <3> QED  BY <1>3, <1>4, <1>5, <3>1 DEF ColumnsOK
  <2>4. \A n \in FirstUsed(unique) .. q.last - 1 :
          \E x \in InTracker(q) : q.entries[x].at = n
    <3> SUFFICES ASSUME NEW n \in FirstUsed(unique) .. q.last - 1
                 PROVE  \E x \in InTracker(q) : q.entries[x].at = n
      OBVIOUS
    <3>1. n = c.last \/ n \in FirstUsed(unique) .. c.last - 1
      BY <1>2, <2>1
    <3> QED  BY <1>3, <1>4, <1>5, <3>1 DEF ColumnsOK
  <2>5. unique # Hole => \A x \in InTracker(q) : q.entries[x].at = 0 => x = unique
    BY <1>3, <1>4, <1>5, <2>1 DEF ColumnsOK, FirstUsed
  <2> QED  BY <1>2, <2>1, <2>2, <2>3, <2>4, <2>5 DEF ColumnsOK
<1>7. q = InColumn(c, k, user)
  BY DEF q, entry, InColumn
<1> QED  BY <1>2, <1>3, <1>6, <1>7

\* Whether the user asks for a key changes no column.
LEMMA RequestedKeepsOK ==
  ASSUME NEW c, NEW unique, CacheOK(c, unique),
         NEW k, KeyExists(c, k), NEW user
  PROVE  CacheOK(Requested(c, k, user), unique)
<1> DEFINE old == c.entries[k]
           entry == Entry(old.kind, old.at, old.value, old.from, old.user \/ user)
           q == Inserted(c, k, entry, 0)
<1>1. entry.kind = old.kind /\ entry.at = old.at
  BY EntryFields
<1> HIDE DEF entry
<1>2. /\ q.type = c.type
      /\ q.result = c.result
      /\ q.last = c.last + 0
      /\ q.entries[k] = entry
      /\ \A x \in DOMAIN c.entries : x # k => q.entries[x] = c.entries[x]
  BY InsertedFields
<1>3. InTracker(q) = InTracker(c)
  <2>1. InTracker(q) = IF entry.kind = "tracker" THEN InTracker(c) \cup {k}
                       ELSE InTracker(c) \ {k}
    BY InsertedInTracker
  <2>2. k \in InTracker(c) <=> entry.kind = "tracker"
    BY <1>1 DEF InTracker, KeyExists
  <2> QED  BY <2>1, <2>2
<1>4. q.last = c.last
  BY <1>2 DEF CacheOK, ColumnsOK
<1>5. \A x \in InTracker(c) : q.entries[x].at = c.entries[x].at
  BY <1>1, <1>2 DEF InTracker
<1>6. q = Requested(c, k, user)
  BY DEF q, entry, Requested
<1> HIDE DEF q
<1>7. ColumnsOK(q, unique)
  BY <1>3, <1>4, <1>5 DEF CacheOK, ColumnsOK
<1>8. CacheOK(q, unique)
  BY <1>2, <1>3, <1>7 DEF CacheOK, Askable
<1> QED  BY <1>6, <1>8

-----------------------------------------------------------------------------
(* Adding keys.                                                            *)

LEMMA ChildcountNames ==
  /\ ChildcountKeys = {"childcount(1)", "childcount(2)", "childcount(3)", "childcount(4)"}
  /\ \A k \in ChildcountKeys : Level(k) \in 1 .. 4 /\ Childcounts[Level(k)] = k
<1>1. \A n \in 1 .. 4 : n = 1 \/ n = 2 \/ n = 3 \/ n = 4
  OBVIOUS
<1>2. /\ Childcounts[1] = "childcount(1)"
      /\ Childcounts[2] = "childcount(2)"
      /\ Childcounts[3] = "childcount(3)"
      /\ Childcounts[4] = "childcount(4)"
  BY DEF Childcounts
<1> QED  BY <1>1, <1>2 DEF ChildcountKeys, Level

LEMMA KindsOfKeys ==
  /\ ChildcountKeys \cap (ArtKeys \cup ThumbnailKeys) = {}
  /\ (CommonKeys \cup MusicKeys \cup VideoKeys)
       \cap (ArtKeys \cup ThumbnailKeys \cup ChildcountKeys) = {}
  /\ Hole \notin MetadataKeys
<1>1. /\ ChildcountKeys \cap (ArtKeys \cup ThumbnailKeys) = {}
      /\ Hole \notin ChildcountKeys \cup ArtKeys \cup ThumbnailKeys
  BY ChildcountNames DEF ArtKeys, SizedArtKeys, ThumbnailKeys, Hole
<1>2. /\ CommonKeys \cap (ArtKeys \cup ThumbnailKeys \cup ChildcountKeys) = {}
      /\ Hole \notin CommonKeys
  BY ChildcountNames DEF CommonKeys, ArtKeys, SizedArtKeys, ThumbnailKeys, Hole
<1>3. /\ MusicKeys \cap (ArtKeys \cup ThumbnailKeys \cup ChildcountKeys) = {}
      /\ Hole \notin MusicKeys
  BY ChildcountNames DEF MusicKeys, ArtKeys, SizedArtKeys, ThumbnailKeys, Hole
<1>4. /\ VideoKeys \cap (ArtKeys \cup ThumbnailKeys \cup ChildcountKeys) = {}
      /\ Hole \notin VideoKeys
  BY ChildcountNames DEF VideoKeys, ArtKeys, SizedArtKeys, ThumbnailKeys, Hole
<1> QED  BY <1>1, <1>2, <1>3, <1>4 DEF MetadataKeys

LEMMA InColumnKeepsOK ==
  ASSUME NEW c, NEW unique, CacheOK(c, unique),
         NEW k \in Askable(c, unique), k \notin InTracker(c), NEW user
  PROVE  CacheOK(InColumn(c, k, user), unique)
  BY InColumnKeepsColumns DEF CacheOK, Askable

LEMMA NewKeyKeepsOK ==
  ASSUME NEW c, NEW unique, CacheOK(c, unique),
         NEW k \in MetadataKeys, ~KeyExists(c, k), NEW max \in Int, NEW user
  PROVE  CacheOK(NewKey(c, k, max, user), unique)
<1>1. k \notin InTracker(c)
  BY DEF KeyExists, InTracker
<1>2. ASSUME NEW kind, NEW value, kind # "tracker"
      PROVE  CacheOK(Inserted(c, k, Entry(kind, 0, value, Hole, user), 0), unique)
  BY <1>1, <1>2, EntryFields, OutsideKeepsOK
<1>3. k \in Askable(c, unique) => CacheOK(InColumn(c, k, user), unique)
  BY <1>1, InColumnKeepsOK
<1>4. \A value : CacheOK(KeyAddPrecomputed(c, k, user, value), unique)
  BY <1>2 DEF KeyAddPrecomputed
<1>5. CASE k \in ArtKeys \cup ThumbnailKeys
  BY <1>2, <1>5, KindsOfKeys DEF NewKey
<1>6. CASE k \in ChildcountKeys
  <2>1. Level(k) > max \/ Level(k) <= max
    BY <1>6, ChildcountNames
  <2>2. c.result = "unique" \/ c.type = "playlist" => k \in Askable(c, unique)
    BY <1>6 DEF CacheOK, Askable, TrackerHas, PlaylistKeys
  <2> QED  BY <1>3, <1>4, <1>6, <2>1, <2>2, KindsOfKeys DEF NewKey
<1>7. CASE k \in CommonKeys \cup MusicKeys \cup VideoKeys
  <2>1. k \notin ArtKeys \cup ThumbnailKeys \cup ChildcountKeys
    BY <1>7, KindsOfKeys
  <2>2. CASE ~TrackerHas(c.type, k) \/ (c.result = "unique" /\ k \notin {"duration", "mime"})
    BY <1>2, <1>7, <2>1, <2>2 DEF NewKey
  <2>3. CASE /\ TrackerHas(c.type, k)
             /\ c.result = "unique" => k \in {"duration", "mime"}
    <3>1. CASE k = "mime" /\ (c.result = "unique" \/ c.type = "playlist")
      BY <1>4, <1>7, <2>1, <2>3, <3>1 DEF NewKey
    <3>2. CASE ~(k = "mime" /\ (c.result = "unique" \/ c.type = "playlist"))
      <4>1. k \in Askable(c, unique)
        BY <2>3, <3>2 DEF CacheOK, Askable
      <4> QED  BY <1>3, <1>7, <2>1, <2>3, <3>2, <4>1 DEF NewKey
    <3> QED  BY <3>1, <3>2
  <2> QED  BY <2>2, <2>3
<1> QED  BY <1>5, <1>6, <1>7 DEF MetadataKeys

LEMMA AddedKeepsOK ==
  ASSUME NEW c, NEW unique, CacheOK(c, unique), NEW k, NEW max \in Int, NEW user
  PROVE  CacheOK(Added(c, k, max, user), unique)
<1>1. CASE KeyExists(c, k)
  BY <1>1, RequestedKeepsOK DEF Added
<1>2. CASE ~KeyExists(c, k) /\ k \in MetadataKeys
  BY <1>2, NewKeyKeepsOK DEF Added
<1>3. CASE ~KeyExists(c, k) /\ k \notin MetadataKeys
  BY <1>3 DEF Added
<1> QED  BY <1>1, <1>2, <1>3

\* tracker_cache_key_add keeps columns and keys paired, with any key.
THEOREM KeyAddKeepsOK ==
  ASSUME NEW c, NEW unique, CacheOK(c, unique), NEW k, NEW max \in Int, NEW user
  PROVE  CacheOK(KeyAdd(c, k, max, user), unique)
<1> DEFINE needs == IF KeyExists(c, k) THEN << >> ELSE Needs(c, k)
           one == IF Len(needs) > 0 THEN Added(c, needs[1], max, FALSE) ELSE c
           two == IF Len(needs) > 1 THEN Added(one, needs[2], max, FALSE) ELSE one
<1>1. CacheOK(one, unique)
  BY AddedKeepsOK
<1>2. CacheOK(two, unique)
  <2> HIDE DEF one
  <2> QED  BY <1>1, AddedKeepsOK
<1>3. CacheOK(Added(two, k, max, user), unique)
  <2> HIDE DEF two
  <2> QED  BY <1>2, AddedKeepsOK
<1> QED  BY <1>3 DEF KeyAdd

LEMMA NewKeyKeepsType ==
  ASSUME NEW c, NEW k \in MetadataKeys, NEW max \in Int, NEW user
  PROVE  NewKey(c, k, max, user).type = c.type
<1>1. \A entry, columns : Inserted(c, k, entry, columns).type = c.type
  BY InsertedFields
<1>2. InColumn(c, k, user).type = c.type
  BY <1>1 DEF InColumn
<1>3. \A value : KeyAddPrecomputed(c, k, user, value).type = c.type
  BY <1>1 DEF KeyAddPrecomputed
<1>4. CASE k \in ArtKeys \cup ThumbnailKeys
  BY <1>1, <1>4, KindsOfKeys DEF NewKey
<1>5. CASE k \in ChildcountKeys
  <2>1. Level(k) > max \/ Level(k) <= max
    BY <1>5, ChildcountNames
  <2> QED  BY <1>2, <1>3, <1>5, <2>1, KindsOfKeys DEF NewKey
<1>6. CASE k \in CommonKeys \cup MusicKeys \cup VideoKeys
  <2>1. k \notin ArtKeys \cup ThumbnailKeys \cup ChildcountKeys
    BY <1>6, KindsOfKeys
  <2> QED  BY <1>1, <1>2, <1>3, <1>6, <2>1 DEF NewKey
<1> QED  BY <1>4, <1>5, <1>6 DEF MetadataKeys

LEMMA AddedKeepsType ==
  ASSUME NEW c, NEW k, NEW max \in Int, NEW user
  PROVE  Added(c, k, max, user).type = c.type
BY NewKeyKeepsType, InsertedFields DEF Added, Requested

LEMMA KeyAddKeepsType ==
  ASSUME NEW c, NEW k, NEW max \in Int, NEW user
  PROVE  KeyAdd(c, k, max, user).type = c.type
<1> DEFINE needs == IF KeyExists(c, k) THEN << >> ELSE Needs(c, k)
           one == IF Len(needs) > 0 THEN Added(c, needs[1], max, FALSE) ELSE c
           two == IF Len(needs) > 1 THEN Added(one, needs[2], max, FALSE) ELSE one
<1>1. one.type = c.type
  BY AddedKeepsType
<1>2. two.type = c.type
  <2> HIDE DEF one
  <2> QED  BY <1>1, AddedKeepsType
<1>3. Added(two, k, max, user).type = c.type
  <2> HIDE DEF two
  <2> QED  BY <1>2, AddedKeepsType
<1> QED  BY <1>3 DEF KeyAdd

-----------------------------------------------------------------------------
(* Before and after the keys of the user.                                  *)

\* No key has a column yet.
Fresh(c) == c.last = 0 /\ InTracker(c) = {}

LEMMA NewCacheIsFresh ==
  ASSUME NEW type, NEW result
  PROVE  /\ Fresh(NewCache(type, result))
         /\ NewCache(type, result).type = type
         /\ NewCache(type, result).result = result
  BY DEF NewCache, Fresh, InTracker

LEMMA FreshStays ==
  ASSUME NEW c, Fresh(c), NEW k, NEW entry, entry.kind # "tracker"
  PROVE  LET q == Inserted(c, k, entry, 0)
         IN  Fresh(q) /\ q.type = c.type /\ q.result = c.result
<1> DEFINE q == Inserted(c, k, entry, 0)
<1>1. /\ q.type = c.type
      /\ q.result = c.result
      /\ q.last = c.last + 0
  BY InsertedFields
<1>2. InTracker(q) = InTracker(c) \ {k}
  BY InsertedInTracker
<1> QED  BY <1>1, <1>2 DEF Fresh

LEMMA FreshIsOK ==
  ASSUME NEW c, Fresh(c), c.result # "unique"
  PROVE  CacheOK(c, Hole)
  BY DEF Fresh, CacheOK, ColumnsOK, FirstUsed

\* The key that rows are grouped by takes the first column.
LEMMA KeyAddUniqueMakesOK ==
  ASSUME NEW c, Fresh(c), c.result = "unique", NEW k, k # Hole
  PROVE  /\ CacheOK(KeyAddUnique(c, k), k)
         /\ KeyAddUnique(c, k).type = c.type
<1>1. ASSUME NEW entry, entry.kind # "tracker"
      PROVE  /\ CacheOK(Inserted(c, k, entry, 1), k)
             /\ Inserted(c, k, entry, 1).type = c.type
  <2> DEFINE q == Inserted(c, k, entry, 1)
  <2>1. /\ q.type = c.type
        /\ q.result = c.result
        /\ q.last = c.last + 1
    BY InsertedFields
  <2>2. InTracker(q) = InTracker(c) \ {k}
    BY <1>1, InsertedInTracker
  <2> HIDE DEF q
  <2>3. q.last = 1 /\ InTracker(q) = {}
    BY <2>1, <2>2 DEF Fresh
  <2>4. CacheOK(q, k)
    BY <2>1, <2>3 DEF CacheOK, ColumnsOK, FirstUsed
  <2> QED  BY <2>1, <2>4 DEF q
<1>2. CASE KeyExists(c, k)
  <2>1. c.entries[k].kind # "tracker"
    BY <1>2 DEF Fresh, InTracker, KeyExists
  <2> QED  BY <1>1, <1>2, <2>1 DEF KeyAddUnique
<1>3. CASE ~KeyExists(c, k) /\ k = "mime"
  <2> DEFINE entry == Entry("computed", 0, MimeContainer, Hole, FALSE)
  <2>1. entry.kind # "tracker"
    BY DEF Entry
  <2>2. Inserted(c, k, entry, 1) = KeyAddUnique(c, k)
    BY <1>3 DEF KeyAddUnique
  <2> HIDE DEF entry
  <2> QED  BY <1>1, <2>1, <2>2
<1>4. CASE ~KeyExists(c, k) /\ k # "mime"
  <2> DEFINE entry == Entry("tracker", c.last, Nothing, Hole, FALSE)
             q == Inserted(c, k, entry, 1)
  <2>1. entry.kind = "tracker" /\ entry.at = c.last
    BY DEF Entry
  <2> HIDE DEF entry
  <2>2. /\ q.type = c.type
        /\ q.result = c.result
        /\ q.last = c.last + 1
        /\ q.entries[k] = entry
    BY InsertedFields
  <2>3. InTracker(q) = InTracker(c) \cup {k}
    BY <2>1, InsertedInTracker
  <2> HIDE DEF q
  <2>4. q.last = 1 /\ InTracker(q) = {k} /\ q.entries[k].at = 0
    BY <2>1, <2>2, <2>3 DEF Fresh
  <2>5. CacheOK(q, k)
    BY <2>2, <2>4 DEF CacheOK, ColumnsOK, FirstUsed, Askable
  <2>6. q = KeyAddUnique(c, k)
    BY <1>4 DEF q, entry, KeyAddUnique, InColumn
  <2> QED  BY <2>2, <2>5, <2>6
<1> QED  BY <1>2, <1>3, <1>4

\* A key that is to be concatenated has no column yet.
LEMMA KeyAddConcatKeepsColumns ==
  ASSUME NEW c, NEW unique, unique # Hole, CacheOK(c, unique),
         NEW k, k \notin Askable(c, unique)
  PROVE  /\ ColumnsOK(KeyAddConcat(c, k), unique)
         /\ InTracker(KeyAddConcat(c, k)) = InTracker(c) \cup {k}
         /\ KeyAddConcat(c, k).type = c.type
  BY InColumnKeepsColumns DEF CacheOK, KeyAddConcat

-----------------------------------------------------------------------------
(* How much is asked of rows that are grouped.                             *)

\* Besides the key that rows are grouped by, which is in the first column or in
\* none: a duration, childcounts up to a level, and keys that are concatenated.
Bounded(c, unique, max, more) ==
  /\ c.result = "unique"
  /\ KeyExists(c, unique)
  /\ \A k \in InTracker(c) :
       IF k = unique THEN c.entries[k].at = 0
       ELSE \/ k = "duration" \/ k \in more
            \/ k \in ChildcountKeys /\ Level(k) <= max

LEMMA InsertedKeepsBounded ==
  ASSUME NEW c, NEW unique, NEW max \in Int, NEW more, Bounded(c, unique, max, more),
         NEW k, NEW entry, NEW columns,
         entry.kind = "tracker" =>
           IF k = unique THEN entry.at = 0
           ELSE \/ k = "duration" \/ k \in more
                \/ k \in ChildcountKeys /\ Level(k) <= max
  PROVE  Bounded(Inserted(c, k, entry, columns), unique, max, more)
<1> DEFINE q == Inserted(c, k, entry, columns)
<1>1. /\ q.result = c.result
      /\ DOMAIN q.entries = DOMAIN c.entries \cup {k}
      /\ q.entries[k] = entry
      /\ \A x \in DOMAIN c.entries : x # k => q.entries[x] = c.entries[x]
  BY InsertedFields
<1>2. InTracker(q) = IF entry.kind = "tracker" THEN InTracker(c) \cup {k}
                     ELSE InTracker(c) \ {k}
  BY InsertedInTracker
<1>3. InTracker(c) \subseteq DOMAIN c.entries
  BY DEF InTracker
<1> HIDE DEF q
<1>4. Bounded(q, unique, max, more)
  BY <1>1, <1>2, <1>3 DEF Bounded, KeyExists
<1> QED  BY <1>4 DEF q

LEMMA RequestedKeepsBounded ==
  ASSUME NEW c, NEW unique, NEW max \in Int, NEW more, Bounded(c, unique, max, more),
         NEW k, KeyExists(c, k), NEW user
  PROVE  Bounded(Requested(c, k, user), unique, max, more)
<1> DEFINE old == c.entries[k]
           entry == Entry(old.kind, old.at, old.value, old.from, old.user \/ user)
<1>1. entry.kind = old.kind /\ entry.at = old.at
  BY EntryFields
<1>2. Requested(c, k, user) = Inserted(c, k, entry, 0)
  BY DEF Requested
<1> HIDE DEF entry
<1>3. entry.kind = "tracker" => k \in InTracker(c)
  BY <1>1 DEF InTracker, KeyExists
<1>4. entry.kind = "tracker" =>
        IF k = unique THEN entry.at = 0
        ELSE \/ k = "duration" \/ k \in more
             \/ k \in ChildcountKeys /\ Level(k) <= max
  BY <1>1, <1>3 DEF Bounded
<1> QED  BY <1>2, <1>4, InsertedKeepsBounded

LEMMA NewKeyKeepsBounded ==
  ASSUME NEW c, NEW unique, NEW max \in Int, NEW more, Bounded(c, unique, max, more),
         NEW k \in MetadataKeys, ~KeyExists(c, k), NEW user
  PROVE  Bounded(NewKey(c, k, max, user), unique, max, more)
<1>1. k # unique /\ c.result = "unique"
  BY DEF Bounded
<1>2. ASSUME NEW kind, NEW value, kind # "tracker"
      PROVE  Bounded(Inserted(c, k, Entry(kind, 0, value, Hole, user), 0),
                     unique, max, more)
  <2> DEFINE entry == Entry(kind, 0, value, Hole, user)
  <2>1. entry.kind # "tracker"
    BY <1>2, EntryFields
  <2> HIDE DEF entry
  <2> QED  BY <2>1, InsertedKeepsBounded DEF entry
<1>3. \A value : Bounded(KeyAddPrecomputed(c, k, user, value), unique, max, more)
  BY <1>2 DEF KeyAddPrecomputed
<1>4. ASSUME k = "duration" \/ (k \in ChildcountKeys /\ Level(k) <= max)
      PROVE  Bounded(InColumn(c, k, user), unique, max, more)
  BY <1>1, <1>4, InsertedKeepsBounded DEF InColumn
<1>5. CASE k \in ArtKeys \cup ThumbnailKeys
  BY <1>2, <1>5, KindsOfKeys DEF NewKey
<1>6. CASE k \in ChildcountKeys
  <2>1. Level(k) > max \/ Level(k) <= max
    BY <1>6, ChildcountNames
  <2> QED  BY <1>1, <1>4, <1>6, <2>1, KindsOfKeys DEF NewKey
<1>7. CASE k \in CommonKeys \cup MusicKeys \cup VideoKeys
  <2>1. k \notin ArtKeys \cup ThumbnailKeys \cup ChildcountKeys
    BY <1>7, KindsOfKeys
  <2>2. CASE ~TrackerHas(c.type, k) \/ k \notin {"duration", "mime"}
    BY <1>1, <1>2, <1>7, <2>1, <2>2 DEF NewKey
  <2>3. CASE TrackerHas(c.type, k) /\ k = "mime"
    BY <1>1, <1>3, <1>7, <2>1, <2>3 DEF NewKey
  <2>4. CASE TrackerHas(c.type, k) /\ k = "duration"
    BY <1>1, <1>4, <1>7, <2>1, <2>4 DEF NewKey
  <2> QED  BY <2>2, <2>3, <2>4
<1> QED  BY <1>5, <1>6, <1>7 DEF MetadataKeys

LEMMA AddedKeepsBounded ==
  ASSUME NEW c, NEW unique, NEW max \in Int, NEW more, Bounded(c, unique, max, more),
         NEW k, NEW user
  PROVE  Bounded(Added(c, k, max, user), unique, max, more)
<1>1. CASE KeyExists(c, k)
  BY <1>1, RequestedKeepsBounded DEF Added
<1>2. CASE ~KeyExists(c, k) /\ k \in MetadataKeys
  BY <1>2, NewKeyKeepsBounded DEF Added
<1>3. CASE ~KeyExists(c, k) /\ k \notin MetadataKeys
  BY <1>3 DEF Added
<1> QED  BY <1>1, <1>2, <1>3

\* No key of the user makes a query that groups rows ask for more.
THEOREM KeyAddKeepsBounded ==
  ASSUME NEW c, NEW unique, NEW max \in Int, NEW more, Bounded(c, unique, max, more),
         NEW k, NEW user
  PROVE  Bounded(KeyAdd(c, k, max, user), unique, max, more)
<1> DEFINE needs == IF KeyExists(c, k) THEN << >> ELSE Needs(c, k)
           one == IF Len(needs) > 0 THEN Added(c, needs[1], max, FALSE) ELSE c
           two == IF Len(needs) > 1 THEN Added(one, needs[2], max, FALSE) ELSE one
<1>1. Bounded(one, unique, max, more)
  BY AddedKeepsBounded
<1>2. Bounded(two, unique, max, more)
  <2> HIDE DEF one
  <2> QED  BY <1>1, AddedKeepsBounded
<1>3. Bounded(Added(two, k, max, user), unique, max, more)
  <2> HIDE DEF two
  <2> QED  BY <1>2, AddedKeepsBounded
<1> QED  BY <1>3 DEF KeyAdd

LEMMA KeyAddUniqueMakesBounded ==
  ASSUME NEW c, Fresh(c), c.result = "unique", NEW k, NEW max \in Int
  PROVE  Bounded(KeyAddUnique(c, k), k, max, {})
<1>1. \E entry : /\ KeyAddUnique(c, k) = Inserted(c, k, entry, 1)
                 /\ entry.kind = "tracker" => entry.at = 0
  <2>1. CASE KeyExists(c, k)
    <3>1. c.entries[k].kind # "tracker"
      BY <2>1 DEF Fresh, InTracker, KeyExists
    <3> QED  BY <2>1, <3>1 DEF KeyAddUnique
  <2>2. CASE ~KeyExists(c, k) /\ k = "mime"
    <3>1. Entry("computed", 0, MimeContainer, Hole, FALSE).kind # "tracker"
      BY EntryFields
    <3> QED  BY <2>2, <3>1 DEF KeyAddUnique
  <2>3. CASE ~KeyExists(c, k) /\ k # "mime"
    <3>1. Entry("tracker", c.last, Nothing, Hole, FALSE).at = 0
      BY DEF Entry, Fresh
    <3> QED  BY <2>3, <3>1 DEF KeyAddUnique, InColumn
  <2> QED  BY <2>1, <2>2, <2>3
<1>2. PICK entry : /\ KeyAddUnique(c, k) = Inserted(c, k, entry, 1)
                   /\ entry.kind = "tracker" => entry.at = 0
  BY <1>1
<1> DEFINE q == Inserted(c, k, entry, 1)
<1>3. /\ q.result = c.result
      /\ DOMAIN q.entries = DOMAIN c.entries \cup {k}
      /\ q.entries[k] = entry
  BY InsertedFields
<1>4. InTracker(q) = IF entry.kind = "tracker" THEN InTracker(c) \cup {k}
                     ELSE InTracker(c) \ {k}
  BY InsertedInTracker
<1> HIDE DEF q
<1>5. InTracker(q) \subseteq {k} /\ (k \in InTracker(q) => entry.kind = "tracker")
  BY <1>4 DEF Fresh
<1>6. Bounded(q, k, max, {})
  BY <1>2, <1>3, <1>5 DEF Bounded, KeyExists
<1> QED  BY <1>2, <1>6 DEF q

LEMMA KeyAddConcatKeepsBounded ==
  ASSUME NEW c, NEW unique, NEW max \in Int, Bounded(c, unique, max, {}),
         NEW k, k # unique
  PROVE  Bounded(KeyAddConcat(c, k), unique, max, {k})
<1>1. Bounded(c, unique, max, {k})
  BY DEF Bounded
<1> QED  BY <1>1, InsertedKeepsBounded DEF KeyAddConcat, InColumn

\* So there are no more columns than there are such keys: they are told apart by
\* the slots they would take if all of them were asked for.
LEMMA BoundedColumns ==
  ASSUME NEW c, NEW unique, unique # Hole, ColumnsOK(c, unique),
         NEW max \in Nat, NEW more, Bounded(c, unique, max, more),
         more = {} \/ \E m \in {"artist", "album"} : more = {m}
  PROVE  c.last - 1 <= max + 1 + IF more = {} THEN 0 ELSE 1
<1> DEFINE N == 1 .. c.last - 1
           room == max + 1 + IF more = {} THEN 0 ELSE 1
           Slot(k) == IF k \in ChildcountKeys THEN Level(k)
                      ELSE IF k = "duration" THEN max + 1 ELSE max + 2
           keyAt == [n \in N |-> CHOOSE k \in InTracker(c) : c.entries[k].at = n]
           f == [n \in N |-> Slot(keyAt[n])]
<1>1. c.last \in Nat /\ 1 <= c.last /\ room \in Nat
  BY DEF ColumnsOK, FirstUsed
<1>2. ASSUME NEW n \in N
      PROVE  /\ keyAt[n] \in InTracker(c) /\ c.entries[keyAt[n]].at = n
             /\ keyAt[n] # unique
  <2>1. n \in FirstUsed(unique) .. c.last - 1
    BY DEF FirstUsed
  <2>2. \E k \in InTracker(c) : c.entries[k].at = n
    BY <2>1 DEF ColumnsOK
  <2>3. keyAt[n] \in InTracker(c) /\ c.entries[keyAt[n]].at = n
    BY <2>2
  <2> HIDE DEF keyAt
  <2>4. keyAt[n] # unique
    <3>1. n # 0
      BY <1>1
    <3> QED  BY <2>3, <3>1 DEF Bounded
  <2> QED  BY <2>3, <2>4
<1> HIDE DEF keyAt
<1>3. ASSUME NEW n \in N
      PROVE  \/ keyAt[n] = "duration" \/ (more # {} /\ more = {keyAt[n]})
             \/ keyAt[n] \in ChildcountKeys /\ Level(keyAt[n]) <= max
  <2>1. \/ keyAt[n] = "duration" \/ keyAt[n] \in more
        \/ keyAt[n] \in ChildcountKeys /\ Level(keyAt[n]) <= max
    BY <1>2 DEF Bounded
  <2> QED  BY <2>1
<1>4. /\ \A k \in ChildcountKeys : Level(k) \in 1 .. 4 /\ Childcounts[Level(k)] = k
      /\ ChildcountKeys \cap {"duration", "artist", "album"} = {}
  BY ChildcountNames
<1>5. \A n \in N : f[n] \in 1 .. room
  <2> SUFFICES ASSUME NEW n \in N PROVE Slot(keyAt[n]) \in 1 .. room
    OBVIOUS
  <2>1. CASE keyAt[n] = "duration"
    BY <1>1, <1>4, <2>1
  <2>2. CASE more # {} /\ more = {keyAt[n]}
    BY <1>1, <1>4, <2>2
  <2>3. CASE keyAt[n] \in ChildcountKeys /\ Level(keyAt[n]) <= max
    BY <1>1, <1>4, <2>3
  <2> QED  BY <1>3, <2>1, <2>2, <2>3
<1>6. ASSUME NEW m \in N, NEW n \in N, f[m] = f[n]
      PROVE  m = n
  <2>1. Slot(keyAt[m]) = Slot(keyAt[n])
    BY <1>6
  <2>2. keyAt[m] = keyAt[n]
    <3>1. CASE keyAt[m] \in ChildcountKeys /\ keyAt[n] \in ChildcountKeys
      BY <1>4, <2>1, <3>1
    <3>2. CASE keyAt[m] \notin ChildcountKeys /\ keyAt[n] \notin ChildcountKeys
      BY <1>3, <2>1, <3>2
    <3>3. CASE keyAt[m] \in ChildcountKeys /\ keyAt[n] \notin ChildcountKeys
      <4>1. Level(keyAt[m]) <= max /\ Level(keyAt[m]) \in Nat
        BY <1>3, <1>4, <3>3
      <4> QED  BY <2>1, <3>3, <4>1
    <3>4. CASE keyAt[n] \in ChildcountKeys /\ keyAt[m] \notin ChildcountKeys
      <4>1. Level(keyAt[n]) <= max /\ Level(keyAt[n]) \in Nat
        BY <1>3, <1>4, <3>4
      <4> QED  BY <2>1, <3>4, <4>1
    <3> QED  BY <3>1, <3>2, <3>3, <3>4
  <2> QED  BY <1>2, <2>2
<1>7. IsFiniteSet(N) /\ IsFiniteSet(1 .. room)
      /\ Cardinality(N) = c.last - 1 /\ Cardinality(1 .. room) = room
  <2>1. \A b \in Nat : IsFiniteSet(1 .. b) /\ Cardinality(1 .. b) = b
    <3> TAKE b \in Nat
    <3>1. IsFiniteSet(1 .. b) /\ Cardinality(1 .. b) = IF 1 > b THEN 0 ELSE b - 1 + 1
      BY FS_Interval
    <3> QED  BY <3>1
  <2>2. c.last - 1 \in Nat
    BY <1>1
  <2> HIDE DEF room
  <2> QED  BY <1>1, <2>1, <2>2
<1>8. f \in [N -> 1 .. room]
  BY <1>5
<1> HIDE DEF f, N, room
<1>9. Cardinality(N) <= Cardinality(1 .. room)
  <2>1. ASSUME Cardinality(1 .. room) < Cardinality(N) PROVE FALSE
    <3>1. \E x, y \in N : x # y /\ f[x] = f[y]
      BY <1>7, <1>8, <2>1, FS_PigeonHole
    <3> QED  BY <1>6, <3>1
  <2> QED  BY <1>1, <1>7, <2>1
<1> QED  BY <1>7, <1>9 DEF room

-----------------------------------------------------------------------------
(* Entries have their types.                                               *)

Kinds == {"computed", "derived", "thumbnailer", "void", "tracker"}

EntriesOK(c) ==
  /\ c.result \in Results
  /\ DOMAIN c.entries \subseteq MetadataKeys
  /\ \A k \in DOMAIN c.entries : /\ c.entries[k].kind \in Kinds
                                 /\ c.entries[k].user \in BOOLEAN

LEMMA InsertedKeepsEntries ==
  ASSUME NEW c, EntriesOK(c), NEW k \in MetadataKeys, NEW kind \in Kinds,
         NEW at, NEW value, NEW from, NEW user \in BOOLEAN, NEW columns
  PROVE  EntriesOK(Inserted(c, k, Entry(kind, at, value, from, user), columns))
<1> DEFINE entry == Entry(kind, at, value, from, user)
           q == Inserted(c, k, entry, columns)
<1>1. entry.kind \in Kinds /\ entry.user \in BOOLEAN
  BY DEF Entry
<1> HIDE DEF entry
<1>2. /\ q.result = c.result
      /\ DOMAIN q.entries = DOMAIN c.entries \cup {k}
      /\ q.entries[k] = entry
      /\ \A x \in DOMAIN c.entries : x # k => q.entries[x] = c.entries[x]
  BY InsertedFields
<1> HIDE DEF q
<1>3. EntriesOK(q)
  BY <1>1, <1>2 DEF EntriesOK
<1> QED  BY <1>3 DEF q, entry

LEMMA InColumnKeepsEntries ==
  ASSUME NEW c, EntriesOK(c), NEW k \in MetadataKeys, NEW user \in BOOLEAN
  PROVE  EntriesOK(InColumn(c, k, user))
<1>1. "tracker" \in Kinds
  BY DEF Kinds
<1> QED  BY <1>1, InsertedKeepsEntries DEF InColumn

LEMMA PrecomputedKeepsEntries ==
  ASSUME NEW c, EntriesOK(c), NEW k \in MetadataKeys, NEW user \in BOOLEAN, NEW value
  PROVE  EntriesOK(KeyAddPrecomputed(c, k, user, value))
<1>1. "computed" \in Kinds
  BY DEF Kinds
<1> QED  BY <1>1, InsertedKeepsEntries DEF KeyAddPrecomputed

LEMMA DerivedKeepsEntries ==
  ASSUME NEW c, EntriesOK(c), NEW k \in MetadataKeys, NEW user \in BOOLEAN, NEW source
  PROVE  EntriesOK(KeyAddDerived(c, k, user, source))
<1>1. "derived" \in Kinds
  BY DEF Kinds
<1> QED  BY <1>1, InsertedKeepsEntries DEF KeyAddDerived

LEMMA NewKeyKeepsEntries ==
  ASSUME NEW c, EntriesOK(c), NEW k \in MetadataKeys, NEW max \in Int,
         NEW user \in BOOLEAN
  PROVE  EntriesOK(NewKey(c, k, max, user))
<1>1. \A kind \in {"void", "thumbnailer"} :
        EntriesOK(Inserted(c, k, Entry(kind, 0, Nothing, Hole, user), 0))
  <2>1. {"void", "thumbnailer"} \subseteq Kinds
    BY DEF Kinds
  <2> QED  BY <2>1, InsertedKeepsEntries
<1>2. EntriesOK(InColumn(c, k, user))
  BY InColumnKeepsEntries
<1>3. \A value : EntriesOK(KeyAddPrecomputed(c, k, user, value))
  BY PrecomputedKeepsEntries
<1>4. CASE k \in ArtKeys \cup ThumbnailKeys
  BY <1>1, <1>4, KindsOfKeys DEF NewKey
<1>5. CASE k \in ChildcountKeys
  <2>1. Level(k) > max \/ Level(k) <= max
    BY <1>5, ChildcountNames
  <2> QED  BY <1>2, <1>3, <1>5, <2>1, KindsOfKeys DEF NewKey
<1>6. CASE k \in CommonKeys \cup MusicKeys \cup VideoKeys
  <2>1. k \notin ArtKeys \cup ThumbnailKeys \cup ChildcountKeys
    BY <1>6, KindsOfKeys
  <2> QED  BY <1>1, <1>2, <1>3, <1>6, <2>1 DEF NewKey
<1> QED  BY <1>4, <1>5, <1>6 DEF MetadataKeys

LEMMA AddedKeepsEntries ==
  ASSUME NEW c, EntriesOK(c), NEW k, NEW max \in Int, NEW user \in BOOLEAN
  PROVE  EntriesOK(Added(c, k, max, user))
<1>1. CASE KeyExists(c, k)
  <2> DEFINE old == c.entries[k]
  <2>1. k \in MetadataKeys /\ old.kind \in Kinds /\ (old.user \/ user) \in BOOLEAN
    BY <1>1 DEF EntriesOK, KeyExists
  <2> QED  BY <1>1, <2>1, InsertedKeepsEntries DEF Added, Requested
<1>2. CASE ~KeyExists(c, k) /\ k \in MetadataKeys
  BY <1>2, NewKeyKeepsEntries DEF Added
<1>3. CASE ~KeyExists(c, k) /\ k \notin MetadataKeys
  BY <1>3 DEF Added
<1> QED  BY <1>1, <1>2, <1>3

\* Only keys that there are metadata for get into a cache.
THEOREM KeyAddKeepsEntries ==
  ASSUME NEW c, EntriesOK(c), NEW k, NEW max \in Int, NEW user \in BOOLEAN
  PROVE  EntriesOK(KeyAdd(c, k, max, user))
<1> DEFINE needs == IF KeyExists(c, k) THEN << >> ELSE Needs(c, k)
           one == IF Len(needs) > 0 THEN Added(c, needs[1], max, FALSE) ELSE c
           two == IF Len(needs) > 1 THEN Added(one, needs[2], max, FALSE) ELSE one
<1>1. EntriesOK(one)
  BY AddedKeepsEntries
<1>2. EntriesOK(two)
  <2> HIDE DEF one
  <2> QED  BY <1>1, AddedKeepsEntries
<1>3. EntriesOK(Added(two, k, max, user))
  <2> HIDE DEF two
  <2> QED  BY <1>2, AddedKeepsEntries
<1> QED  BY <1>3 DEF KeyAdd

LEMMA NewCacheEntries ==
  ASSUME NEW type, NEW result \in Results
  PROVE  EntriesOK(NewCache(type, result))
  BY DEF NewCache, EntriesOK

LEMMA KeyAddUniqueKeepsEntries ==
  ASSUME NEW c, EntriesOK(c), NEW k \in MetadataKeys
  PROVE  EntriesOK(KeyAddUnique(c, k))
<1>1. CASE KeyExists(c, k)
  <2> DEFINE q == Inserted(c, k, c.entries[k], 1)
  <2>1. /\ q.result = c.result
        /\ DOMAIN q.entries = DOMAIN c.entries \cup {k}
        /\ q.entries[k] = c.entries[k]
        /\ \A x \in DOMAIN c.entries : x # k => q.entries[x] = c.entries[x]
    BY InsertedFields
  <2> HIDE DEF q
  <2>2. EntriesOK(q)
    BY <1>1, <2>1 DEF EntriesOK, KeyExists
  <2> QED  BY <1>1, <2>2 DEF q, KeyAddUnique
<1>2. CASE ~KeyExists(c, k)
  <2>1. "computed" \in Kinds
    BY DEF Kinds
  <2>2. EntriesOK(Inserted(c, k, Entry("computed", 0, MimeContainer, Hole, FALSE), 1))
    BY <2>1, InsertedKeepsEntries
  <2>3. EntriesOK(InColumn(c, k, FALSE))
    BY InColumnKeepsEntries
  <2> QED  BY <1>2, <2>2, <2>3 DEF KeyAddUnique
<1> QED  BY <1>1, <1>2

LEMMA KeyAddConcatKeepsEntries ==
  ASSUME NEW c, EntriesOK(c), NEW k \in MetadataKeys
  PROVE  EntriesOK(KeyAddConcat(c, k))
<1>1. (KeyExists(c, k) /\ c.entries[k].user) \in BOOLEAN
  OBVIOUS
<1> QED  BY <1>1, InColumnKeepsEntries DEF KeyAddConcat

-----------------------------------------------------------------------------
(* Reading the keys back.                                                  *)

LEMMA KeysByColumn ==
  ASSUME NEW c, NEW unique, ColumnsOK(c, unique), InTracker(c) \subseteq MetadataKeys
  PROVE  /\ \A k \in InTracker(c) : KeysGetTracker(c)[c.entries[k].at + 1] = k
         /\ \A n \in FirstUsed(unique) + 1 .. c.last :
              /\ KeysGetTracker(c)[n] \in InTracker(c)
              /\ KeysGetTracker(c)[n] # Hole
<1>1. ASSUME NEW k \in InTracker(c)
      PROVE  KeysGetTracker(c)[c.entries[k].at + 1] = k
  <2> DEFINE n == c.entries[k].at + 1
  <2>1. n \in 1 .. c.last /\ c.entries[k].at = n - 1
    BY DEF ColumnsOK
  <2> HIDE DEF n
  <2>2. (CHOOSE j \in InTracker(c) : c.entries[j].at = n - 1) = k
    BY <2>1 DEF ColumnsOK
  <2>3. KeysGetTracker(c)[n] = k
    BY <2>1, <2>2 DEF KeysGetTracker
  <2> QED  BY <2>3 DEF n
<1>2. ASSUME NEW n \in FirstUsed(unique) + 1 .. c.last
      PROVE  KeysGetTracker(c)[n] \in InTracker(c)
  <2>1. n - 1 \in FirstUsed(unique) .. c.last - 1 /\ n \in Int
    BY DEF ColumnsOK, FirstUsed
  <2>2. PICK k \in InTracker(c) : c.entries[k].at = n - 1
    BY <2>1 DEF ColumnsOK
  <2>3. KeysGetTracker(c)[c.entries[k].at + 1] = k
    BY <1>1
  <2> QED  BY <2>1, <2>2, <2>3
<1> QED  BY <1>1, <1>2, KindsOfKeys

\* The list of keys does not end early.
THEOREM KeysFromAll ==
  ASSUME NEW c, NEW unique, ColumnsOK(c, unique), InTracker(c) \subseteq MetadataKeys
  PROVE  LET first == FirstUsed(unique)
             asked == KeysFrom(c, first + 1)
         IN  /\ asked \in Seq(InTracker(c))
             /\ Len(asked) = c.last - first
             /\ \A k \in InTracker(c) :
                  c.entries[k].at >= first => asked[c.entries[k].at + 1 - first] = k
<1> DEFINE first == FirstUsed(unique)
           all == KeysGetTracker(c)
           holes == {n \in first + 1 .. c.last : all[n] = Hole}
           asked == SubSeq(all, first + 1, c.last)
<1>1. c.last \in Nat /\ first \in {0, 1} /\ first <= c.last
  BY DEF ColumnsOK, FirstUsed
<1>2. /\ \A k \in InTracker(c) : all[c.entries[k].at + 1] = k
      /\ \A n \in first + 1 .. c.last : all[n] \in InTracker(c) /\ all[n] # Hole
  BY KeysByColumn
<1> HIDE DEF first, all
<1>3. holes \cup {c.last + 1} = {c.last + 1}
  BY <1>2
<1>4. Min(holes \cup {c.last + 1}) = c.last + 1
  BY <1>1, <1>3 DEF Min
<1>5. asked = KeysFrom(c, first + 1)
  <2>1. Min(holes \cup {c.last + 1}) - 1 = c.last
    BY <1>1, <1>4
  <2>2. KeysFrom(c, first + 1)
          = SubSeq(all, first + 1, Min(holes \cup {c.last + 1}) - 1)
    BY DEF KeysFrom, all
  <2> HIDE DEF holes
  <2> QED  BY <2>1, <2>2
<1>6. /\ asked \in Seq(InTracker(c))
      /\ Len(asked) = IF first + 1 <= c.last THEN c.last - (first + 1) + 1 ELSE 0
      /\ \A i \in 1 .. c.last - (first + 1) + 1 : asked[i] = all[first + 1 + i - 1]
  BY <1>1, <1>2, SubSeqProperties
<1>7. Len(asked) = c.last - first
  BY <1>1, <1>6
<1>8. ASSUME NEW k \in InTracker(c), c.entries[k].at >= first
      PROVE  asked[c.entries[k].at + 1 - first] = k
  <2> DEFINE i == c.entries[k].at + 1 - first
  <2>1. c.entries[k].at \in 0 .. c.last - 1
    BY DEF ColumnsOK
  <2>2. i \in 1 .. c.last - (first + 1) + 1 /\ first + 1 + i - 1 = c.entries[k].at + 1
    BY <1>1, <1>8, <2>1
  <2> HIDE DEF i
  <2>3. asked[i] = k
    BY <1>2, <1>6, <2>2
  <2> QED  BY <2>3 DEF i
<1> QED  BY <1>5, <1>6, <1>7, <1>8 DEF first

-----------------------------------------------------------------------------
(* The cache of a query about clips.                                       *)

\* The keys that a clip has metadata for: it has no grandchildren.
Tellable == MetadataKeys \ {k \in ChildcountKeys : Level(k) > 1}

\* What is known of a key before Tracker is asked; uri is Nothing unless the
\* query is about a single clip.
KnownBefore(type, uri, k) ==
  CASE k = "uri" -> uri
    [] k = "mime" /\ type = "playlist" -> MimeContainer
    [] k \in ChildcountKeys /\ type # "playlist" -> {0}
    [] OTHER -> Nothing

\* Where the value of a key is to come from.
ClipEntry(type, uri, k, entry) ==
  IF k \in ArtKeys \cup ThumbnailKeys THEN entry.kind = "thumbnailer"
  ELSE IF KnownBefore(type, uri, k) # Nothing
  THEN entry.kind = "computed" /\ entry.value = KnownBefore(type, uri, k)
  ELSE entry.kind = IF TrackerHas(type, k) THEN "tracker" ELSE "void"

\* The keys that the value of a key is found with.
NeededBy(type, k) ==
  CASE k \in SizedArtKeys -> {"album", "album-art-uri"}
    [] k = "album-art-uri" -> {"album"}
    [] k \in ThumbnailKeys -> {"uri"}
    [] k = "title" /\ TrackerHas(type, k) -> {"uri"}
    [] OTHER -> {}

\* Every key has the entry it should have, whoever asked for it and when, and
\* those it needs have one too.
ClipCache(c, type, uri) ==
  /\ c.type = type
  /\ c.result = "get_metadata"
  /\ DOMAIN c.entries \subseteq Tellable
  /\ uri # Nothing => "uri" \in DOMAIN c.entries
  /\ \A k \in DOMAIN c.entries :
       /\ ClipEntry(type, uri, k, c.entries[k])
       /\ NeededBy(type, k) \subseteq DOMAIN c.entries

LEMMA UserOfInserted ==
  ASSUME NEW c, NEW k, NEW entry, NEW columns
  PROVE  KeysGetUser(Inserted(c, k, entry, columns))
           = IF entry.user THEN KeysGetUser(c) \cup {k} ELSE KeysGetUser(c) \ {k}
<1> DEFINE q == Inserted(c, k, entry, columns)
<1>1. /\ DOMAIN q.entries = DOMAIN c.entries \cup {k}
      /\ q.entries[k] = entry
      /\ \A x \in DOMAIN c.entries : x # k => q.entries[x] = c.entries[x]
  BY InsertedFields
<1> HIDE DEF q
<1>2. KeysGetUser(q) = IF entry.user THEN KeysGetUser(c) \cup {k} ELSE KeysGetUser(c) \ {k}
  BY <1>1 DEF KeysGetUser
<1> QED  BY <1>2 DEF q

LEMMA InsertedKeepsClip ==
  ASSUME NEW c, NEW type, NEW uri, ClipCache(c, type, uri), NEW k \in Tellable,
         NEW entry, ClipEntry(type, uri, k, entry),
         NEW columns, NeededBy(type, k) \subseteq DOMAIN c.entries
  PROVE  LET q == Inserted(c, k, entry, columns)
         IN  /\ ClipCache(q, type, uri)
             /\ DOMAIN q.entries = DOMAIN c.entries \cup {k}
             /\ KeysGetUser(q) = IF entry.user THEN KeysGetUser(c) \cup {k}
                                 ELSE KeysGetUser(c) \ {k}
<1> DEFINE q == Inserted(c, k, entry, columns)
<1>1. /\ q.type = c.type
      /\ q.result = c.result
      /\ DOMAIN q.entries = DOMAIN c.entries \cup {k}
      /\ q.entries[k] = entry
      /\ \A x \in DOMAIN c.entries : x # k => q.entries[x] = c.entries[x]
  BY InsertedFields
<1>2. KeysGetUser(q) = IF entry.user THEN KeysGetUser(c) \cup {k}
                       ELSE KeysGetUser(c) \ {k}
  BY UserOfInserted
<1> HIDE DEF q
<1>3. ASSUME NEW x \in DOMAIN q.entries
      PROVE  /\ ClipEntry(type, uri, x, q.entries[x])
             /\ NeededBy(type, x) \subseteq DOMAIN q.entries
  BY <1>1 DEF ClipCache
<1>4. ClipCache(q, type, uri)
  BY <1>1, <1>3 DEF ClipCache
<1>5. DOMAIN q.entries = DOMAIN c.entries \cup {k}
  BY <1>1
<1> QED  BY <1>2, <1>4, <1>5 DEF q

\* The entry that a new key gets.
LEMMA NewKeyKeepsClip ==
  ASSUME NEW c, NEW type \in Types, NEW uri, ClipCache(c, type, uri),
         NEW k \in MetadataKeys, ~KeyExists(c, k),
         NeededBy(type, k) \subseteq DOMAIN c.entries, NEW user \in BOOLEAN
  PROVE  LET q == NewKey(c, k, 1, user)
         IN  /\ ClipCache(q, type, uri)
             /\ DOMAIN q.entries = DOMAIN c.entries \cup ({k} \cap Tellable)
             /\ KeysGetUser(q)
                  = KeysGetUser(c) \cup (IF user THEN {k} \cap Tellable ELSE {})
<1>1. c.type = type /\ c.result # "unique"
  BY DEF ClipCache
<1>2. k \notin KeysGetUser(c)
  BY DEF KeyExists, KeysGetUser
<1>3. k = "uri" => uri = Nothing
  BY DEF ClipCache, KeyExists
\* An entry that is right for a key.
<1>4. ASSUME k \in Tellable, NEW kind, NEW at, NEW value, NEW columns,
             ClipEntry(type, uri, k, Entry(kind, at, value, Hole, user))
      PROVE  LET q == Inserted(c, k, Entry(kind, at, value, Hole, user), columns)
             IN  /\ ClipCache(q, type, uri)
                 /\ DOMAIN q.entries = DOMAIN c.entries \cup ({k} \cap Tellable)
                 /\ KeysGetUser(q)
                      = KeysGetUser(c) \cup (IF user THEN {k} \cap Tellable ELSE {})
  <2> DEFINE entry == Entry(kind, at, value, Hole, user)
             q == Inserted(c, k, entry, columns)
  <2>1. entry.user = user
    BY DEF Entry
  <2> HIDE DEF entry
  <2>2. /\ ClipCache(q, type, uri)
        /\ DOMAIN q.entries = DOMAIN c.entries \cup {k}
        /\ KeysGetUser(q) = IF entry.user THEN KeysGetUser(c) \cup {k}
                            ELSE KeysGetUser(c) \ {k}
    BY <1>4, InsertedKeepsClip DEF entry
  <2>3. {k} \cap Tellable = {k}
    BY <1>4
  <2> HIDE DEF q
  <2>4. KeysGetUser(q) = KeysGetUser(c) \cup (IF user THEN {k} \cap Tellable ELSE {})
    BY <1>2, <2>1, <2>2, <2>3
  <2> QED  BY <2>2, <2>3, <2>4 DEF entry, q
<1>5. \A kind, at, value : /\ Entry(kind, at, value, Hole, user).kind = kind
                           /\ Entry(kind, at, value, Hole, user).value = value
  BY DEF Entry
<1>6. CASE k \in ArtKeys \cup ThumbnailKeys
  <2>1. k \in Tellable
    BY <1>6, KindsOfKeys DEF Tellable
  <2>2. ClipEntry(type, uri, k, Entry("thumbnailer", 0, Nothing, Hole, user))
    BY <1>5, <1>6 DEF ClipEntry
  <2>3. NewKey(c, k, 1, user)
          = Inserted(c, k, Entry("thumbnailer", 0, Nothing, Hole, user), 0)
    BY <1>6, KindsOfKeys DEF NewKey
  <2> QED  BY <1>4, <2>1, <2>2, <2>3
<1>7. CASE k \in ChildcountKeys /\ Level(k) > 1
  <2>1. {k} \cap Tellable = {}
    BY <1>7 DEF Tellable
  <2>2. NewKey(c, k, 1, user) = c
    BY <1>7, ChildcountNames, KindsOfKeys DEF NewKey
  <2> QED  BY <2>1, <2>2
<1>8. CASE k \in ChildcountKeys /\ ~(Level(k) > 1)
  <2>1. k \in Tellable /\ k \notin ArtKeys \cup ThumbnailKeys /\ Level(k) <= 1
    BY <1>8, ChildcountNames, KindsOfKeys DEF Tellable
  <2>2. k # "uri" /\ k # "mime"
    BY <1>8, ChildcountNames
  <2>3. CASE type = "playlist"
    <3>1. KnownBefore(type, uri, k) = Nothing /\ TrackerHas(type, k)
      BY <1>8, <2>2, <2>3 DEF KnownBefore, TrackerHas, PlaylistKeys
    <3>2. ClipEntry(type, uri, k, Entry("tracker", c.last, Nothing, Hole, user))
      BY <1>5, <2>1, <3>1 DEF ClipEntry
    <3>3. NewKey(c, k, 1, user)
            = Inserted(c, k, Entry("tracker", c.last, Nothing, Hole, user), 1)
      BY <1>1, <1>8, <2>1, <2>3, KindsOfKeys DEF NewKey, InColumn
    <3> QED  BY <1>4, <2>1, <3>2, <3>3
  <2>4. CASE type # "playlist"
    <3>1. KnownBefore(type, uri, k) = {0} /\ {0} # Nothing
      BY <1>8, <2>2, <2>4 DEF KnownBefore, Nothing
    <3>2. ClipEntry(type, uri, k, Entry("computed", 0, {0}, Hole, user))
      BY <1>5, <2>1, <3>1 DEF ClipEntry
    <3>3. NewKey(c, k, 1, user) = Inserted(c, k, Entry("computed", 0, {0}, Hole, user), 0)
      BY <1>1, <1>8, <2>1, <2>4, KindsOfKeys DEF NewKey, KeyAddPrecomputed
    <3> QED  BY <1>4, <2>1, <3>2, <3>3
  <2> QED  BY <2>3, <2>4
<1>9. CASE k \in CommonKeys \cup MusicKeys \cup VideoKeys
  <2>1. k \notin ArtKeys \cup ThumbnailKeys \cup ChildcountKeys
    BY <1>9, KindsOfKeys
  <2>2. k \in Tellable
    BY <2>1 DEF Tellable
  <2>3. KnownBefore(type, uri, k)
          = IF k = "mime" /\ type = "playlist" THEN MimeContainer ELSE Nothing
    BY <1>3, <2>1 DEF KnownBefore
  <2>4. CASE ~TrackerHas(type, k)
    <3>1. k # "mime"
      BY <2>4 DEF TrackerHas, CommonKeys
    <3>2. ClipEntry(type, uri, k, Entry("void", 0, Nothing, Hole, user))
      BY <1>5, <2>1, <2>3, <2>4, <3>1 DEF ClipEntry
    <3>3. NewKey(c, k, 1, user) = Inserted(c, k, Entry("void", 0, Nothing, Hole, user), 0)
      BY <1>1, <1>9, <2>1, <2>4 DEF NewKey
    <3> QED  BY <1>4, <2>2, <3>2, <3>3
  <2>5. CASE TrackerHas(type, k) /\ k = "mime" /\ type = "playlist"
    <3>1. MimeContainer # Nothing
      BY DEF MimeContainer, Nothing
    <3>2. ClipEntry(type, uri, k, Entry("computed", 0, MimeContainer, Hole, user))
      BY <1>5, <2>1, <2>3, <2>5, <3>1 DEF ClipEntry
    <3>3. NewKey(c, k, 1, user)
            = Inserted(c, k, Entry("computed", 0, MimeContainer, Hole, user), 0)
      BY <1>1, <1>9, <2>1, <2>5 DEF NewKey, KeyAddPrecomputed
    <3> QED  BY <1>4, <2>2, <3>2, <3>3
  <2>6. CASE TrackerHas(type, k) /\ ~(k = "mime" /\ type = "playlist")
    <3>1. ClipEntry(type, uri, k, Entry("tracker", c.last, Nothing, Hole, user))
      BY <1>5, <2>1, <2>3, <2>6 DEF ClipEntry
    <3>2. NewKey(c, k, 1, user)
            = Inserted(c, k, Entry("tracker", c.last, Nothing, Hole, user), 1)
      BY <1>1, <1>9, <2>1, <2>6 DEF NewKey, InColumn
    <3> QED  BY <1>4, <2>2, <3>1, <3>2
  <2> QED  BY <2>4, <2>5, <2>6
<1> QED  BY <1>6, <1>7, <1>8, <1>9 DEF MetadataKeys

LEMMA AddedKeepsClip ==
  ASSUME NEW c, NEW type \in Types, NEW uri, ClipCache(c, type, uri), NEW k,
         NeededBy(type, k) \subseteq DOMAIN c.entries, NEW user \in BOOLEAN
  PROVE  LET q == Added(c, k, 1, user)
         IN  /\ ClipCache(q, type, uri)
             /\ DOMAIN q.entries = DOMAIN c.entries \cup ({k} \cap Tellable)
             /\ KeysGetUser(q)
                  = KeysGetUser(c) \cup (IF user THEN {k} \cap Tellable ELSE {})
<1>1. CASE KeyExists(c, k)
  <2> DEFINE old == c.entries[k]
             entry == Entry(old.kind, old.at, old.value, old.from, old.user \/ user)
             q == Inserted(c, k, entry, 0)
  <2>1. k \in Tellable /\ k \in DOMAIN c.entries
    BY <1>1 DEF ClipCache, KeyExists
  <2>2. /\ entry.kind = old.kind /\ entry.value = old.value
        /\ entry.user = (old.user \/ user)
    BY DEF Entry
  <2> HIDE DEF entry
  <2>3. ClipEntry(type, uri, k, entry)
    BY <2>1, <2>2 DEF ClipCache, ClipEntry
  <2>4. /\ ClipCache(q, type, uri)
        /\ DOMAIN q.entries = DOMAIN c.entries \cup {k}
        /\ KeysGetUser(q) = IF entry.user THEN KeysGetUser(c) \cup {k}
                            ELSE KeysGetUser(c) \ {k}
    BY <2>1, <2>3, InsertedKeepsClip
  <2>5. k \in KeysGetUser(c) <=> old.user
    BY <2>1 DEF KeysGetUser
  <2>6. q = Added(c, k, 1, user)
    BY <1>1 DEF q, entry, Added, Requested
  <2>7. {k} \cap Tellable = {k}
    BY <2>1
  <2> HIDE DEF q, old
  <2>8. KeysGetUser(q) = KeysGetUser(c) \cup (IF user THEN {k} \cap Tellable ELSE {})
    BY <2>2, <2>4, <2>5, <2>7
  <2> QED  BY <2>4, <2>6, <2>7, <2>8
<1>2. CASE ~KeyExists(c, k) /\ k \in MetadataKeys
  <2>1. Added(c, k, 1, user) = NewKey(c, k, 1, user)
    BY <1>2 DEF Added
  <2> QED  BY <1>2, <2>1, NewKeyKeepsClip
<1>3. CASE ~KeyExists(c, k) /\ k \notin MetadataKeys
  <2>1. Added(c, k, 1, user) = c
    BY <1>3 DEF Added
  <2>2. {k} \cap Tellable = {}
    BY <1>3 DEF Tellable
  <2> QED  BY <2>1, <2>2
<1> QED  BY <1>1, <1>2, <1>3

\* What is needed is there, or added before the key.
LEMMA NeedsKeepClip ==
  ASSUME NEW c, NEW type \in Types, NEW uri, ClipCache(c, type, uri), NEW k,
         ~KeyExists(c, k)
  PROVE  LET needs == Needs(c, k)
             one == IF Len(needs) > 0 THEN Added(c, needs[1], 1, FALSE) ELSE c
             two == IF Len(needs) > 1 THEN Added(one, needs[2], 1, FALSE) ELSE one
         IN  /\ ClipCache(two, type, uri)
             /\ NeededBy(type, k) \subseteq DOMAIN two.entries
             /\ DOMAIN c.entries \subseteq DOMAIN two.entries
             /\ KeysGetUser(two) = KeysGetUser(c)
<1> DEFINE needs == Needs(c, k)
           one == IF Len(needs) > 0 THEN Added(c, needs[1], 1, FALSE) ELSE c
           two == IF Len(needs) > 1 THEN Added(one, needs[2], 1, FALSE) ELSE one
           Good(q) == /\ ClipCache(q, type, uri)
                      /\ DOMAIN c.entries \subseteq DOMAIN q.entries
                      /\ KeysGetUser(q) = KeysGetUser(c)
<1>1. c.type = type /\ c.result # "unique"
  BY DEF ClipCache
<1>2. /\ {"album", "album-art-uri", "uri"} \subseteq Tellable
      /\ "album" \notin ArtKeys \cup ThumbnailKeys /\ "uri" \notin ArtKeys \cup ThumbnailKeys
      /\ SizedArtKeys \cap ThumbnailKeys = {}
      /\ "album-art-uri" \notin SizedArtKeys \cup ThumbnailKeys
      /\ "title" \notin ArtKeys \cup ThumbnailKeys
  BY ChildcountNames, KindsOfKeys
  DEF Tellable, MetadataKeys, CommonKeys, MusicKeys, ArtKeys, SizedArtKeys, ThumbnailKeys
<1>3. \A x \in {"album", "uri"} : NeededBy(type, x) = {}
  BY <1>2 DEF NeededBy, ArtKeys
<1>4. NeededBy(type, "album-art-uri") = {"album"}
  BY <1>2 DEF NeededBy
\* A key that needs nothing that is not there is added.
<1>5. ASSUME NEW q, Good(q), NEW x \in {"album", "album-art-uri", "uri"},
             NeededBy(type, x) \subseteq DOMAIN q.entries
      PROVE  /\ Good(Added(q, x, 1, FALSE))
             /\ DOMAIN Added(q, x, 1, FALSE).entries = DOMAIN q.entries \cup {x}
  <2>1. {x} \cap Tellable = {x}
    BY <1>2, <1>5
  <2>2. LET a == Added(q, x, 1, FALSE)
        IN  /\ ClipCache(a, type, uri)
            /\ DOMAIN a.entries = DOMAIN q.entries \cup ({x} \cap Tellable)
            /\ KeysGetUser(a)
                 = KeysGetUser(q) \cup (IF FALSE THEN {x} \cap Tellable ELSE {})
    BY <1>5, AddedKeepsClip
  <2> QED  BY <1>5, <2>1, <2>2
<1>6. Good(c)
  OBVIOUS
<1> HIDE DEF Good
<1>7. CASE k \in SizedArtKeys
  <2>1. needs = <<"album", "album-art-uri">> /\ NeededBy(type, k) = {"album", "album-art-uri"}
    BY <1>2, <1>7 DEF Needs, NeededBy, ArtKeys
  <2>2. Len(needs) = 2 /\ needs[1] = "album" /\ needs[2] = "album-art-uri"
    BY <2>1
  <2> HIDE DEF needs
  <2>3. one = Added(c, "album", 1, FALSE)
    BY <2>2
  <2>4. Good(one) /\ DOMAIN one.entries = DOMAIN c.entries \cup {"album"}
    <3>1. NeededBy(type, "album") \subseteq DOMAIN c.entries
      BY <1>3
    <3> QED  BY <1>5, <1>6, <2>3, <3>1
  <2> HIDE DEF one
  <2>5. two = Added(one, "album-art-uri", 1, FALSE)
    BY <2>2
  <2>6. Good(two) /\ DOMAIN two.entries = DOMAIN one.entries \cup {"album-art-uri"}
    <3>1. NeededBy(type, "album-art-uri") \subseteq DOMAIN one.entries
      BY <1>4, <2>4
    <3> QED  BY <1>5, <2>4, <2>5, <3>1
  <2> HIDE DEF two
  <2>7. Good(two) /\ NeededBy(type, k) \subseteq DOMAIN two.entries
    BY <2>1, <2>4, <2>6
  <2> QED  BY <2>7 DEF Good, two, one, needs
<1>8. ASSUME NEW x \in {"album", "uri"}, needs = <<x>>, NeededBy(type, k) = {x}
      PROVE  Good(two) /\ NeededBy(type, k) \subseteq DOMAIN two.entries
  <2>1. Len(needs) = 1 /\ needs[1] = x
    BY <1>8
  <2> HIDE DEF needs
  <2>2. one = Added(c, x, 1, FALSE) /\ two = one
    BY <2>1
  <2>3. NeededBy(type, x) \subseteq DOMAIN c.entries
    BY <1>3, <1>8
  <2>4. Good(one) /\ DOMAIN one.entries = DOMAIN c.entries \cup {x}
    BY <1>5, <1>6, <1>8, <2>2, <2>3
  <2> HIDE DEF one, two
  <2> QED  BY <1>8, <2>2, <2>4
<1>9. CASE k = "album-art-uri"
  <2>1. needs = <<"album">> /\ NeededBy(type, k) = {"album"}
    BY <1>2, <1>9 DEF Needs, NeededBy
  <2> QED  BY <1>8, <2>1 DEF Good
<1>10. CASE k \in ThumbnailKeys
  <2>1. needs = <<"uri">> /\ NeededBy(type, k) = {"uri"}
    BY <1>2, <1>10 DEF Needs, NeededBy
  <2> QED  BY <1>8, <2>1 DEF Good
<1>11. CASE k = "title" /\ TrackerHas(type, k)
  <2>1. needs = <<"uri">> /\ NeededBy(type, k) = {"uri"}
    BY <1>1, <1>2, <1>11 DEF Needs, NeededBy, ArtKeys
  <2> QED  BY <1>8, <2>1 DEF Good
<1>12. CASE /\ k \notin SizedArtKeys \cup ThumbnailKeys /\ k # "album-art-uri"
            /\ ~(k = "title" /\ TrackerHas(type, k))
  <2>1. needs = << >> /\ NeededBy(type, k) = {}
    BY <1>1, <1>12 DEF Needs, NeededBy
  <2>2. Len(needs) = 0
    BY <2>1
  <2> HIDE DEF needs
  <2>3. two = c
    BY <2>2
  <2> HIDE DEF two
  <2>4. Good(two) /\ NeededBy(type, k) \subseteq DOMAIN two.entries
    BY <1>6, <2>1, <2>3
  <2> QED  BY <2>4 DEF Good, two, one, needs
<1> QED  BY <1>7, <1>9, <1>10, <1>11, <1>12

\* tracker_cache_key_add keeps the cache of clips complete, with any key: each
\* key has the entry it should have, and those it needs are there; and the keys
\* that metadata are made for are those the user asked for.
THEOREM KeyAddKeepsClip ==
  ASSUME NEW c, NEW type \in Types, NEW uri, ClipCache(c, type, uri), NEW k,
         NEW user \in BOOLEAN
  PROVE  LET q == KeyAdd(c, k, 1, user)
         IN  /\ ClipCache(q, type, uri)
             /\ KeysGetUser(q)
                  = KeysGetUser(c) \cup (IF user THEN {k} \cap Tellable ELSE {})
<1> DEFINE needs == IF KeyExists(c, k) THEN << >> ELSE Needs(c, k)
           one == IF Len(needs) > 0 THEN Added(c, needs[1], 1, FALSE) ELSE c
           two == IF Len(needs) > 1 THEN Added(one, needs[2], 1, FALSE) ELSE one
<1>1. KeyAdd(c, k, 1, user) = Added(two, k, 1, user)
  BY DEF KeyAdd
<1>2. /\ ClipCache(two, type, uri)
      /\ NeededBy(type, k) \subseteq DOMAIN two.entries
      /\ KeysGetUser(two) = KeysGetUser(c)
  <2>1. CASE KeyExists(c, k)
    <3>1. needs = << >> /\ Len(needs) = 0
      BY <2>1
    <3> HIDE DEF needs
    <3>2. two = c
      BY <3>1
    <3>3. NeededBy(type, k) \subseteq DOMAIN c.entries
      BY <2>1 DEF ClipCache, KeyExists
    <3> HIDE DEF two
    <3> QED  BY <3>2, <3>3
  <2>2. CASE ~KeyExists(c, k)
    <3>1. needs = Needs(c, k)
      BY <2>2
    <3> HIDE DEF needs
    <3> QED  BY <2>2, <3>1, NeedsKeepClip
  <2> QED  BY <2>1, <2>2
<1> HIDE DEF two
<1>3. LET q == Added(two, k, 1, user)
      IN  /\ ClipCache(q, type, uri)
          /\ DOMAIN q.entries = DOMAIN two.entries \cup ({k} \cap Tellable)
          /\ KeysGetUser(q)
               = KeysGetUser(two) \cup (IF user THEN {k} \cap Tellable ELSE {})
  BY <1>2, AddedKeepsClip
<1> QED  BY <1>1, <1>2, <1>3

-----------------------------------------------------------------------------
(* Expressions.                                                            *)

Terms == {[key |-> f.key, test |-> f.type, value |-> f.value] : f \in Filters}
Literals == [term : Nat, negated : BOOLEAN]
Texts == [outcome : {"ok", "failed", "endless"}, terms : Seq(Terms),
          alternatives : Seq(Seq(Literals))]

\* An expression that says something, of its own terms.
Whole(w) ==
  /\ w \in Texts
  /\ w.outcome = "ok"
  /\ w.alternatives # << >>
  /\ \A i \in DOMAIN w.alternatives :
       /\ w.alternatives[i] # << >>
       /\ \A j \in DOMAIN w.alternatives[i] :
            w.alternatives[i][j].term \in 1 .. Len(w.terms)

NoText == Written("ok", << >>, << >>)

\* What the terms of b are called behind those of a.
Shifted(a, b) ==
  [i \in DOMAIN b.alternatives |->
     [j \in DOMAIN b.alternatives[i] |->
        Literal(b.alternatives[i][j].term + Len(a.terms),
                b.alternatives[i][j].negated)]]

LEMMA NoTextIsText == NoText \in Texts
  BY DEF NoText, Written, Texts

LEMMA LiteralIsLiteral ==
  ASSUME NEW n \in Nat, NEW negated \in BOOLEAN
  PROVE  [term |-> n, negated |-> negated] \in Literals
  BY DEF Literals

\* An alternative with the terms called n more.
IsShifted(s, t, n) ==
  /\ s \in Seq(Literals)
  /\ Len(s) = Len(t)
  /\ s # << >>
  /\ \A j \in 1 .. Len(t) :
       s[j].term = n + t[j].term /\ s[j].negated = t[j].negated

LEMMA ShiftedFacts ==
  ASSUME NEW a \in Texts, NEW b, Whole(b)
  PROVE  /\ Shifted(a, b) \in Seq(Seq(Literals))
         /\ Len(Shifted(a, b)) = Len(b.alternatives)
         /\ \A i \in 1 .. Len(b.alternatives) :
              IsShifted(Shifted(a, b)[i], b.alternatives[i], Len(a.terms))
<1>1. /\ b.alternatives \in Seq(Seq(Literals)) /\ b.terms \in Seq(Terms)
      /\ a.terms \in Seq(Terms) /\ Len(a.terms) \in Nat
  BY DEF Whole, Texts
<1> DEFINE N == 1 .. Len(b.alternatives)
           M(i) == 1 .. Len(b.alternatives[i])
           lit(i, j) == Literal(b.alternatives[i][j].term + Len(a.terms),
                                b.alternatives[i][j].negated)
<1>2. ASSUME NEW i \in N
      PROVE  /\ b.alternatives[i] \in Seq(Literals) /\ b.alternatives[i] # << >>
             /\ Len(b.alternatives[i]) \in Nat
             /\ DOMAIN b.alternatives[i] = M(i)
  BY <1>1 DEF Whole
<1>3. ASSUME NEW i \in N, NEW j \in M(i)
      PROVE  /\ b.alternatives[i][j] \in Literals
             /\ lit(i, j) \in Literals
             /\ lit(i, j).term = Len(a.terms) + b.alternatives[i][j].term
             /\ lit(i, j).negated = b.alternatives[i][j].negated
  <2>1. b.alternatives[i][j] \in Literals
    BY <1>2
  <2>2. /\ b.alternatives[i][j].term + Len(a.terms) \in Nat
        /\ b.alternatives[i][j].negated \in BOOLEAN
    <3>1. PICK l, n : l = b.alternatives[i][j] /\ n = Len(a.terms)
      OBVIOUS
    <3>2. l.term \in Nat /\ l.negated \in BOOLEAN
      BY <2>1, <3>1 DEF Literals
    <3>3. n \in Nat
      BY <1>1, <3>1
    <3> QED  BY <3>1, <3>2, <3>3
  <2>3. lit(i, j) = [term |-> b.alternatives[i][j].term + Len(a.terms),
                     negated |-> b.alternatives[i][j].negated]
    BY DEF Literal
  <2>4. lit(i, j) \in Literals
    BY <2>2, <2>3, LiteralIsLiteral
  <2>5. /\ lit(i, j).term = Len(a.terms) + b.alternatives[i][j].term
        /\ lit(i, j).negated = b.alternatives[i][j].negated
    BY <1>1, <2>1, <2>2, <2>3 DEF Literals
  <2> QED  BY <2>1, <2>4, <2>5
<1>4. Len(b.alternatives) \in Nat /\ DOMAIN b.alternatives = N
  BY <1>1
<1>5. Shifted(a, b) = [i \in N |-> [j \in M(i) |-> lit(i, j)]]
  BY <1>2, <1>4 DEF Shifted
<1> HIDE DEF lit
<1>6. ASSUME NEW i \in N
      PROVE  /\ Shifted(a, b)[i] = [j \in M(i) |-> lit(i, j)]
             /\ Shifted(a, b)[i] \in Seq(Literals)
             /\ Len(Shifted(a, b)[i]) = Len(b.alternatives[i])
             /\ Shifted(a, b)[i] # << >>
  <2>1. Shifted(a, b)[i] = [j \in M(i) |-> lit(i, j)]
    BY <1>5
  <2>2. [j \in M(i) |-> lit(i, j)] \in Seq(Literals)
    BY <1>2, <1>3
  <2>3. Len([j \in M(i) |-> lit(i, j)]) = Len(b.alternatives[i])
    BY <1>2, <2>2
  <2>4. Len(b.alternatives[i]) # 0
    BY <1>2
  <2>5. Len(<< >>) = 0
    OBVIOUS
  <2> QED  BY <2>1, <2>2, <2>3, <2>4, <2>5
<1>7. Shifted(a, b) \in Seq(Seq(Literals)) /\ Len(Shifted(a, b)) = Len(b.alternatives)
  <2> DEFINE sh == Shifted(a, b)
  <2>1. sh = [i \in N |-> sh[i]]
    BY <1>5
  <2>2. \A i \in N : sh[i] \in Seq(Literals)
    BY <1>6
  <2> HIDE DEF sh
  <2>3. [i \in N |-> sh[i]] \in Seq(Seq(Literals))
    BY <1>4, <2>2
  <2>4. Len([i \in N |-> sh[i]]) = Len(b.alternatives)
    BY <1>4, <2>3
  <2>5. sh \in Seq(Seq(Literals)) /\ Len(sh) = Len(b.alternatives)
    BY <2>1, <2>3, <2>4
  <2> QED  BY <2>5 DEF sh
<1>8. ASSUME NEW i \in N, NEW j \in M(i)
      PROVE  /\ Shifted(a, b)[i][j].term = Len(a.terms) + b.alternatives[i][j].term
             /\ Shifted(a, b)[i][j].negated = b.alternatives[i][j].negated
  BY <1>3, <1>6
<1> QED  BY <1>6, <1>7, <1>8 DEF IsShifted

\* An alternative, of n terms.
Fits(alternative, n) ==
  /\ alternative \in Seq(Literals)
  /\ alternative # << >>
  /\ \A j \in 1 .. Len(alternative) : alternative[j].term \in 1 .. n

LEMMA WholeFits ==
  ASSUME NEW w
  PROVE  Whole(w) <=> /\ w \in Texts /\ w.outcome = "ok" /\ w.alternatives # << >>
                      /\ \A i \in 1 .. Len(w.alternatives) :
                           Fits(w.alternatives[i], Len(w.terms))
<1>1. CASE w \in Texts
  <2>1. w.alternatives \in Seq(Seq(Literals))
    BY <1>1 DEF Texts
  <2>2. DOMAIN w.alternatives = 1 .. Len(w.alternatives)
    BY <2>1
  <2>3. \A i \in 1 .. Len(w.alternatives) :
          /\ w.alternatives[i] \in Seq(Literals)
          /\ DOMAIN w.alternatives[i] = 1 .. Len(w.alternatives[i])
    BY <2>1
  <2> QED  BY <1>1, <2>2, <2>3 DEF Whole, Fits
<1>2. CASE w \notin Texts
  BY <1>2 DEF Whole
<1> QED  BY <1>1, <1>2

LEMMA FitsMore ==
  ASSUME NEW alternative, NEW m \in Nat, NEW n \in Nat, m <= n, Fits(alternative, m)
  PROVE  Fits(alternative, n)
  BY DEF Fits

LEMMA FitsBoth ==
  ASSUME NEW s, NEW t, NEW n \in Nat, Fits(s, n), Fits(t, n)
  PROVE  Fits(s \o t, n)
<1>1. s \o t \in Seq(Literals) /\ Len(s \o t) = Len(s) + Len(t)
  BY DEF Fits
<1>2. s \o t # << >>
  BY <1>1 DEF Fits
<1>3. \A j \in 1 .. Len(s \o t) : (s \o t)[j].term \in 1 .. n
  <2>1. \A j \in 1 .. Len(s \o t) :
          (s \o t)[j] = IF j <= Len(s) THEN s[j] ELSE t[j - Len(s)]
    BY DEF Fits
  <2>2. ASSUME NEW j \in 1 .. Len(s \o t)
        PROVE  (s \o t)[j].term \in 1 .. n
    <3>1. CASE j <= Len(s)
      <4>1. j \in 1 .. Len(s) /\ (s \o t)[j] = s[j]
        BY <2>1, <3>1 DEF Fits
      <4> QED  BY <4>1 DEF Fits
    <3>2. CASE ~(j <= Len(s))
      <4>1. j - Len(s) \in 1 .. Len(t) /\ (s \o t)[j] = t[j - Len(s)]
        BY <1>1, <2>1, <3>2 DEF Fits
      <4> QED  BY <4>1 DEF Fits
    <3> QED  BY <3>1, <3>2
  <2> QED  BY <2>2
<1> QED  BY <1>1, <1>2, <1>3 DEF Fits

LEMMA ShiftedFits ==
  ASSUME NEW a \in Texts, NEW b, Whole(b)
  PROVE  \A i \in 1 .. Len(b.alternatives) :
           Fits(Shifted(a, b)[i], Len(a.terms) + Len(b.terms))
<1> SUFFICES ASSUME NEW i \in 1 .. Len(b.alternatives)
             PROVE  Fits(Shifted(a, b)[i], Len(a.terms) + Len(b.terms))
  OBVIOUS
<1>1. Len(a.terms) \in Nat /\ Len(b.terms) \in Nat
  BY DEF Texts, Whole
<1>2. Fits(b.alternatives[i], Len(b.terms))
  BY WholeFits
<1>3. IsShifted(Shifted(a, b)[i], b.alternatives[i], Len(a.terms))
  BY ShiftedFacts
<1>4. \A j \in 1 .. Len(b.alternatives[i]) : b.alternatives[i][j].term \in 1 .. Len(b.terms)
  BY <1>2 DEF Fits
<1>5. \A j \in 1 .. Len(Shifted(a, b)[i]) :
        Shifted(a, b)[i][j].term \in 1 .. Len(a.terms) + Len(b.terms)
  <2> SUFFICES ASSUME NEW j \in 1 .. Len(b.alternatives[i])
               PROVE  Shifted(a, b)[i][j].term \in 1 .. Len(a.terms) + Len(b.terms)
    BY <1>3 DEF IsShifted
  <2> DEFINE x == b.alternatives[i][j].term
             m == Len(a.terms)
             n == Len(b.terms)
  <2>1. x \in 1 .. n
    BY <1>4
  <2>2. Shifted(a, b)[i][j].term = m + x
    BY <1>3 DEF IsShifted
  <2>3. m \in Nat /\ n \in Nat
    BY <1>1
  <2> HIDE DEF x, m, n
  <2>4. m + x \in 1 .. m + n
    BY <2>1, <2>3
  <2> QED  BY <2>2, <2>4 DEF m, n
<1> QED  BY <1>3, <1>5 DEF Fits, IsShifted

\* The alternatives of a joined text: those of a and those of b; of a
\* conjunction the last of a and the first of b make one.
LEMMA WrittenFields ==
  ASSUME NEW outcome, NEW terms, NEW alternatives
  PROVE  /\ Written(outcome, terms, alternatives).outcome = outcome
         /\ Written(outcome, terms, alternatives).terms = terms
         /\ Written(outcome, terms, alternatives).alternatives = alternatives
  BY DEF Written

LEMMA JoinedFields ==
  ASSUME NEW a, NEW b, NEW op
  PROVE  /\ Joined(op, a, b).outcome = "ok"
         /\ Joined(op, a, b).terms = a.terms \o b.terms
         /\ Joined(op, a, b) = Written("ok", a.terms \o b.terms, Joined(op, a, b).alternatives)
<1>1. \E x : Joined(op, a, b) = Written("ok", a.terms \o b.terms, x)
  BY DEF Joined
<1>2. PICK x : Joined(op, a, b) = Written("ok", a.terms \o b.terms, x)
  BY <1>1
<1>3. PICK terms : terms = a.terms \o b.terms
  OBVIOUS
<1>4. PICK w : w = Written("ok", terms, x)
  OBVIOUS
<1>5. w.outcome = "ok" /\ w.terms = terms /\ w.alternatives = x
  BY <1>4, WrittenFields
<1>6. Joined(op, a, b) = w
  BY <1>2, <1>3, <1>4
<1> QED  BY <1>3, <1>4, <1>5, <1>6

LEMMA JoinedFirst ==
  ASSUME NEW a, NEW b, NEW op, a.alternatives = << >>
  PROVE  Joined(op, a, b).alternatives = Shifted(a, b)
  BY DEF Joined, Written, Shifted

LEMMA JoinedOr ==
  ASSUME NEW a, NEW b, a.alternatives # << >>
  PROVE  Joined("or", a, b).alternatives = a.alternatives \o Shifted(a, b)
  BY DEF Joined, Written, Shifted

LEMMA JoinedAnd ==
  ASSUME NEW a, NEW b, a.alternatives # << >>
  PROVE  Joined("and", a, b).alternatives =
           Front(a.alternatives)
             \o <<Last(a.alternatives) \o Head(Shifted(a, b))>>
             \o Tail(Shifted(a, b))
  BY DEF Joined, Written, Shifted

\* The elements of a list without its last one, then m, then another list
\* without its first one.
LEMMA SplicedFacts ==
  ASSUME NEW T, NEW p \in Seq(T), NEW q \in Seq(T), NEW m \in T,
         p # << >>, q # << >>
  PROVE  /\ Front(p) \o <<m>> \o Tail(q) \in Seq(T)
         /\ Len(Front(p) \o <<m>> \o Tail(q)) = Len(p) + Len(q) - 1
         /\ \A i \in 1 .. Len(p) - 1 : (Front(p) \o <<m>> \o Tail(q))[i] = p[i]
         /\ (Front(p) \o <<m>> \o Tail(q))[Len(p)] = m
         /\ \A i \in 1 .. Len(q) - 1 :
              (Front(p) \o <<m>> \o Tail(q))[Len(p) + i] = q[i + 1]
<1> DEFINE f == Front(p)
           t == Tail(q)
           mm == <<m>>
           fm == f \o mm
           r == fm \o t
<1>1. /\ t \in Seq(T) /\ Len(q) \in Nat \ {0} /\ Len(p) \in Nat \ {0}
      /\ Len(t) = Len(q) - 1
      /\ \A i \in 1 .. Len(q) - 1 : t[i] = q[i + 1]
  BY TailFacts
<1>2. /\ f \in Seq(T) /\ Len(f) = Len(p) - 1
      /\ \A i \in 1 .. Len(p) - 1 : f[i] = p[i]
  <2>1. Len(p) - 1 \in 0 .. Len(p)
    BY <1>1
  <2>2. f = SubSeq(p, 1, Len(p) - 1)
    BY DEF Front
  <2> HIDE DEF f
  <2> QED  BY <2>1, <2>2, FrontFacts
<1>3. mm \in Seq(T) /\ Len(mm) = 1 /\ mm[1] = m
  OBVIOUS
<1> HIDE DEF f, t, mm
<1>4. fm \in Seq(T) /\ Behind(fm, f, mm)
  BY <1>2, <1>3, BehindFacts
<1>5. fm[Len(p)] = m /\ Len(fm) = Len(p)
  BY <1>1, <1>2, <1>3, <1>4 DEF Behind
<1> HIDE DEF fm
<1>6. r \in Seq(T) /\ Behind(r, fm, t)
  BY <1>1, <1>4, BehindFacts
<1> HIDE DEF r
<1>7. Len(r) = Len(p) + Len(q) - 1
  BY <1>1, <1>5, <1>6 DEF Behind
<1>8. \A i \in 1 .. Len(p) - 1 : r[i] = p[i]
  BY <1>1, <1>2, <1>4, <1>5, <1>6 DEF Behind
<1>9. r[Len(p)] = m
  <2>1. Len(p) \in 1 .. Len(fm)
    BY <1>1, <1>5
  <2> QED  BY <1>5, <1>6, <2>1 DEF Behind
<1>10. ASSUME NEW i \in 1 .. Len(q) - 1
       PROVE  r[Len(p) + i] = q[i + 1]
  <2>1. i \in 1 .. Len(t)
    BY <1>1
  <2>2. r[Len(fm) + i] = t[i]
    BY <1>6, <2>1 DEF Behind
  <2> QED  BY <1>1, <1>5, <2>2
<1> QED  BY <1>6, <1>7, <1>8, <1>9, <1>10 DEF r, fm, f, t, mm

\* Texts that are not empty stay so.
LEMMA JoinedTexts ==
  ASSUME NEW a, NEW b, NEW op \in {"and", "or"}, a = NoText \/ Whole(a), Whole(b)
  PROVE  /\ Whole(Joined(op, a, b))
         /\ a = NoText => Len(Joined(op, a, b).alternatives) = Len(b.alternatives)
         /\ Whole(a) /\ op = "and" =>
              Len(Joined(op, a, b).alternatives)
                = Len(a.alternatives) + Len(b.alternatives) - 1
<1> DEFINE A == Seq(Literals)
           w == Joined(op, a, b)
           sh == Shifted(a, b)
           n == Len(a.terms) + Len(b.terms)
<1>1. a \in Texts /\ b \in Texts
  BY NoTextIsText DEF Whole
<1>2. /\ a.terms \in Seq(Terms) /\ b.terms \in Seq(Terms)
      /\ Len(a.terms) \in Nat /\ Len(b.terms) \in Nat
      /\ a.alternatives \in Seq(A) /\ b.alternatives \in Seq(A) /\ b.alternatives # << >>
      /\ Len(b.alternatives) \in Nat \ {0} /\ Len(a.alternatives) \in Nat
  BY <1>1 DEF Texts, Whole
<1>3. w.outcome = "ok" /\ w.terms = a.terms \o b.terms
  BY JoinedFields
<1>4. w.terms \in Seq(Terms) /\ Len(w.terms) = n
  BY <1>2, <1>3
<1>5. /\ sh \in Seq(A) /\ Len(sh) = Len(b.alternatives) /\ sh # << >>
      /\ \A i \in 1 .. Len(sh) : Fits(sh[i], n)
  BY <1>1, <1>2, ShiftedFacts, ShiftedFits
<1>6. w = Written("ok", w.terms, w.alternatives)
  BY <1>3, JoinedFields
<1> HIDE DEF w, sh, n, A
<1>7. ASSUME w.alternatives \in Seq(A), w.alternatives # << >>,
             \A i \in 1 .. Len(w.alternatives) : Fits(w.alternatives[i], n)
      PROVE  Whole(w)
  <2>1. w \in Texts
    BY <1>3, <1>4, <1>6, <1>7 DEF Texts, Written, A
  <2> QED  BY <1>3, <1>4, <1>7, <2>1, WholeFits
<1>8. CASE a = NoText
  <2>1. a.alternatives = << >>
    BY <1>8 DEF NoText, Written
  <2>2. w.alternatives = sh
    BY <2>1, JoinedFirst DEF w, sh
  <2>3. ~Whole(a)
    BY <2>1 DEF Whole
  <2> QED  BY <1>5, <1>7, <2>2, <2>3 DEF w
<1>9. CASE Whole(a)
  <2>1. /\ a.alternatives # << >> /\ a # NoText
        /\ \A i \in 1 .. Len(a.alternatives) : Fits(a.alternatives[i], Len(a.terms))
    <3>1. a.alternatives # << >>
      BY <1>9 DEF Whole
    <3>2. NoText.alternatives = << >>
      BY DEF NoText, Written
    <3> QED  BY <1>9, <3>1, <3>2, WholeFits
  <2>2. \A i \in 1 .. Len(a.alternatives) : Fits(a.alternatives[i], n)
    <3>1. \A k, l \in Nat : k + l \in Nat /\ k <= k + l
      OBVIOUS
    <3>2. n \in Nat /\ Len(a.terms) <= n
      BY <1>2, <3>1 DEF n
    <3> QED  BY <1>2, <2>1, <3>2, FitsMore
  <2>3. CASE op = "or"
    <3>1. w.alternatives = a.alternatives \o sh
      BY <2>1, <2>3, JoinedOr DEF w, sh
    <3>2. a.alternatives \o sh \in Seq(A) /\ Behind(a.alternatives \o sh, a.alternatives, sh)
      BY <1>2, <1>5, BehindFacts
    <3>3. ASSUME NEW i \in 1 .. Len(w.alternatives)
          PROVE  Fits(w.alternatives[i], n)
      <4>1. CASE i \in 1 .. Len(a.alternatives)
        BY <2>2, <3>1, <3>2, <4>1 DEF Behind
      <4>2. CASE ~(i \in 1 .. Len(a.alternatives))
        <5>1. i - Len(a.alternatives) \in 1 .. Len(sh)
          BY <3>1, <3>2, <3>3, <4>2 DEF Behind
        <5>2. i = Len(a.alternatives) + (i - Len(a.alternatives))
          BY <1>2, <3>3
        <5>3. w.alternatives[i] = sh[i - Len(a.alternatives)]
          BY <3>1, <3>2, <5>1, <5>2 DEF Behind
        <5> QED  BY <1>5, <5>1, <5>3
      <4> QED  BY <4>1, <4>2
    <3>4. w.alternatives # << >>
      BY <1>2, <1>5, <3>1, <3>2 DEF Behind
    <3>5. Whole(w)
      BY <1>7, <3>1, <3>2, <3>3, <3>4
    <3> QED  BY <2>1, <2>3, <3>5 DEF w
  <2>4. CASE op = "and"
    <3> DEFINE p == a.alternatives
               m == Last(p) \o Head(sh)
    <3>1. w.alternatives = Front(p) \o <<m>> \o Tail(sh)
      BY <2>1, <2>4, JoinedAnd DEF w, sh
    <3>2. Last(p) = p[Len(p)] /\ Head(sh) = sh[1]
      BY <1>2, <1>5, <2>1 DEF Last
    <3>3. Len(p) \in 1 .. Len(p) /\ 1 \in 1 .. Len(sh) /\ Len(sh) \in Nat
      BY <1>2, <1>5, <2>1
    <3>4. Fits(m, n)
      <4>1. Fits(p[Len(p)], n) /\ Fits(sh[1], n)
        BY <1>5, <2>2, <3>3
      <4>2. n \in Nat
        <5>1. \A k, l \in Nat : k + l \in Nat
          OBVIOUS
        <5> QED  BY <1>2, <5>1 DEF n
      <4> QED  BY <3>2, <4>1, <4>2, FitsBoth
    <3>5. m \in A
      BY <3>4 DEF Fits, A
    <3> HIDE DEF m
    <3>6. /\ w.alternatives \in Seq(A)
          /\ Len(w.alternatives) = Len(p) + Len(sh) - 1
          /\ \A i \in 1 .. Len(p) - 1 : w.alternatives[i] = p[i]
          /\ w.alternatives[Len(p)] = m
          /\ \A i \in 1 .. Len(sh) - 1 : w.alternatives[Len(p) + i] = sh[i + 1]
      <4>1. p \in Seq(A) /\ sh \in Seq(A) /\ m \in A /\ p # << >> /\ sh # << >>
        BY <1>2, <1>5, <2>1, <3>5
      <4> HIDE DEF p
      <4>2. /\ Front(p) \o <<m>> \o Tail(sh) \in Seq(A)
            /\ Len(Front(p) \o <<m>> \o Tail(sh)) = Len(p) + Len(sh) - 1
            /\ \A i \in 1 .. Len(p) - 1 : (Front(p) \o <<m>> \o Tail(sh))[i] = p[i]
            /\ (Front(p) \o <<m>> \o Tail(sh))[Len(p)] = m
            /\ \A i \in 1 .. Len(sh) - 1 :
                 (Front(p) \o <<m>> \o Tail(sh))[Len(p) + i] = sh[i + 1]
        BY <4>1, SplicedFacts
      <4> QED  BY <3>1, <4>2
    <3>7. ASSUME NEW i \in 1 .. Len(w.alternatives)
          PROVE  Fits(w.alternatives[i], n)
      <4>1. CASE i \in 1 .. Len(p) - 1
        <5>1. i \in 1 .. Len(p)
          BY <3>3, <4>1
        <5> QED  BY <2>2, <3>6, <4>1, <5>1
      <4>2. CASE i = Len(p)
        BY <3>4, <3>6, <4>2
      <4>3. CASE i > Len(p)
        <5>1. /\ i - Len(p) \in 1 .. Len(sh) - 1
              /\ i - Len(p) + 1 \in 1 .. Len(sh)
              /\ i = Len(p) + (i - Len(p))
          BY <1>2, <3>3, <3>6, <4>3
        <5>2. w.alternatives[i] = sh[i - Len(p) + 1]
          BY <3>6, <5>1
        <5> QED  BY <1>5, <5>1, <5>2
      <4> QED  BY <1>2, <3>6, <4>1, <4>2, <4>3
    <3>8. w.alternatives # << >>
      BY <1>2, <3>3, <3>6
    <3>9. Whole(w)
      BY <1>7, <3>6, <3>7, <3>8
    <3> QED  BY <1>5, <2>1, <2>4, <3>6, <3>9 DEF w
  <2> QED  BY <2>3, <2>4
<1> QED  BY <1>8, <1>9

-----------------------------------------------------------------------------
(* What texts say of a song.                                               *)

\* A comparison; all of an alternative, at least to the truth value t; and one
\* of the alternatives at least.
Says(terms, song, l) ==
  LET truth == Compared(terms[l.term].test, song[terms[l.term].key], terms[l.term].value)
  IN  IF l.negated THEN Yes - truth ELSE truth

AllSay(terms, song, alternative, t) ==
  \A j \in 1 .. Len(alternative) : Says(terms, song, alternative[j]) >= t

AtLeast(w, song, t) ==
  \E i \in 1 .. Len(w.alternatives) : AllSay(w.terms, song, w.alternatives[i], t)

LEMMA SaysOfFirst ==
  ASSUME NEW x \in Seq(Terms), NEW y \in Seq(Terms), NEW song, NEW t,
         NEW alternative, Fits(alternative, Len(x))
  PROVE  AllSay(x \o y, song, alternative, t) <=> AllSay(x, song, alternative, t)
<1>1. Behind(x \o y, x, y)
  BY BehindFacts
<1>2. ASSUME NEW j \in 1 .. Len(alternative)
      PROVE  Says(x \o y, song, alternative[j]) = Says(x, song, alternative[j])
  <2>1. alternative[j].term \in 1 .. Len(x)
    BY DEF Fits
  <2>2. (x \o y)[alternative[j].term] = x[alternative[j].term]
    BY <1>1, <2>1 DEF Behind
  <2> QED  BY <2>2 DEF Says
<1> QED  BY <1>2 DEF AllSay

LEMMA SaysOfSecond ==
  ASSUME NEW x \in Seq(Terms), NEW y \in Seq(Terms), NEW song, NEW t,
         NEW alternative, Fits(alternative, Len(y)),
         NEW s, IsShifted(s, alternative, Len(x))
  PROVE  AllSay(x \o y, song, s, t) <=> AllSay(y, song, alternative, t)
<1>1. Behind(x \o y, x, y)
  BY BehindFacts
<1>2. ASSUME NEW j \in 1 .. Len(alternative)
      PROVE  Says(x \o y, song, s[j]) = Says(y, song, alternative[j])
  <2>1. alternative[j].term \in 1 .. Len(y)
    BY DEF Fits
  <2>2. s[j].term = Len(x) + alternative[j].term /\ s[j].negated = alternative[j].negated
    BY DEF IsShifted
  <2>3. (x \o y)[s[j].term] = y[alternative[j].term]
    BY <1>1, <2>1, <2>2 DEF Behind
  <2> QED  BY <2>2, <2>3 DEF Says
<1>3. Len(s) = Len(alternative)
  BY DEF IsShifted
<1> QED  BY <1>2, <1>3 DEF AllSay

LEMMA SaysOfBoth ==
  ASSUME NEW terms, NEW song, NEW t, NEW r, NEW s, NEW u, Behind(r, s, u)
  PROVE  AllSay(terms, song, r, t) <=> AllSay(terms, song, s, t) /\ AllSay(terms, song, u, t)
<1>1. /\ Len(s) \in Nat /\ Len(u) \in Nat /\ Len(r) = Len(s) + Len(u)
      /\ \A i \in 1 .. Len(s) : r[i] = s[i]
      /\ \A i \in 1 .. Len(u) : r[Len(s) + i] = u[i]
  BY DEF Behind
<1>2. ASSUME AllSay(terms, song, r, t)
      PROVE  AllSay(terms, song, s, t) /\ AllSay(terms, song, u, t)
  <2>1. ASSUME NEW i \in 1 .. Len(s)
        PROVE  Says(terms, song, s[i]) >= t
    <3>1. i \in 1 .. Len(r) /\ r[i] = s[i]
      BY <1>1
    <3> QED  BY <1>2, <3>1 DEF AllSay
  <2>2. ASSUME NEW i \in 1 .. Len(u)
        PROVE  Says(terms, song, u[i]) >= t
    <3>1. Len(s) + i \in 1 .. Len(r) /\ r[Len(s) + i] = u[i]
      BY <1>1
    <3> QED  BY <1>2, <3>1 DEF AllSay
  <2> QED  BY <2>1, <2>2 DEF AllSay
<1>3. ASSUME AllSay(terms, song, s, t), AllSay(terms, song, u, t),
             NEW i \in 1 .. Len(r)
      PROVE  Says(terms, song, r[i]) >= t
  <2>1. CASE i <= Len(s)
    <3>1. i \in 1 .. Len(s) /\ r[i] = s[i]
      BY <1>1, <2>1
    <3> QED  BY <1>3, <3>1 DEF AllSay
  <2>2. CASE ~(i <= Len(s))
    <3>1. i - Len(s) \in 1 .. Len(u) /\ Len(s) + (i - Len(s)) = i
      BY <1>1, <2>2
    <3>2. r[i] = u[i - Len(s)]
      BY <1>1, <3>1
    <3> QED  BY <1>3, <3>1, <3>2 DEF AllSay
  <2> QED  BY <2>1, <2>2
<1> QED  BY <1>2, <1>3 DEF AllSay

\* Joined texts say what their parts say: at first the second one, then with
\* "or" one of them, and both with "and" if neither has several alternatives.
LEMMA JoinedSay ==
  ASSUME NEW a, NEW b, NEW op \in {"and", "or"}, a = NoText \/ Whole(a), Whole(b),
         NEW song, NEW t
  PROVE  /\ a = NoText => (AtLeast(Joined(op, a, b), song, t) <=> AtLeast(b, song, t))
         /\ Whole(a) /\ op = "or" =>
              (AtLeast(Joined(op, a, b), song, t)
                 <=> AtLeast(a, song, t) \/ AtLeast(b, song, t))
         /\ Whole(a) /\ op = "and" /\ Len(a.alternatives) = 1 /\ Len(b.alternatives) = 1 =>
              (AtLeast(Joined(op, a, b), song, t)
                 <=> AtLeast(a, song, t) /\ AtLeast(b, song, t))
<1> DEFINE A == Seq(Literals)
           w == Joined(op, a, b)
           sh == Shifted(a, b)
           x == a.terms
           y == b.terms
           p == a.alternatives
           q == b.alternatives
<1>1. a \in Texts /\ b \in Texts
  BY NoTextIsText DEF Whole
<1>2. /\ x \in Seq(Terms) /\ y \in Seq(Terms) /\ p \in Seq(A) /\ q \in Seq(A)
      /\ q # << >> /\ Len(q) \in Nat \ {0}
  BY <1>1 DEF Texts, Whole
<1>3. w.terms = x \o y
  BY JoinedFields
<1>4. /\ sh \in Seq(A) /\ Len(sh) = Len(q)
      /\ \A i \in 1 .. Len(q) : IsShifted(sh[i], q[i], Len(x)) /\ Fits(q[i], Len(y))
  BY <1>1, ShiftedFacts, WholeFits
<1>5. a = NoText => p = << >>
  BY DEF NoText, Written
<1>6. Whole(a) => p # << >> /\ \A i \in 1 .. Len(p) : Fits(p[i], Len(x))
  BY WholeFits
<1>7. \A i \in 1 .. Len(q) :
        AllSay(w.terms, song, sh[i], t) <=> AllSay(y, song, q[i], t)
  BY <1>2, <1>3, <1>4, SaysOfSecond
<1>8. Whole(a) => \A i \in 1 .. Len(p) :
        AllSay(w.terms, song, p[i], t) <=> AllSay(x, song, p[i], t)
  BY <1>2, <1>3, <1>6, SaysOfFirst
<1>9. AtLeast(b, song, t) <=> \E i \in 1 .. Len(q) : AllSay(w.terms, song, sh[i], t)
  BY <1>7 DEF AtLeast
<1>10. Whole(a) => (AtLeast(a, song, t)
                      <=> \E i \in 1 .. Len(p) : AllSay(w.terms, song, p[i], t))
  BY <1>8 DEF AtLeast
<1>11. AtLeast(w, song, t)
         <=> \E i \in 1 .. Len(w.alternatives) : AllSay(w.terms, song, w.alternatives[i], t)
  BY DEF AtLeast
<1>12. ~Whole(NoText)
  BY DEF Whole, NoText, Written
<1>13. CASE a = NoText
  <2>1. w.alternatives = sh
    BY <1>5, <1>13, JoinedFirst
  <2> HIDE DEF w, sh, p, q, x, y
  <2> QED  BY <1>4, <1>9, <1>11, <1>12, <1>13, <2>1 DEF w
<1>14. CASE Whole(a) /\ op = "or"
  <2>1. w.alternatives = p \o sh
    BY <1>6, <1>14, JoinedOr
  <2>2. Behind(p \o sh, p, sh)
    BY <1>2, <1>4, BehindFacts
  <2> DEFINE r == w.alternatives
             All(alternative) == AllSay(w.terms, song, alternative, t)
  <2>3. Behind(r, p, sh)
    BY <2>1, <2>2
  <2> HIDE DEF w, sh, p, r, q, x, y, All
  <2>4. (\E i \in 1 .. Len(r) : All(r[i]))
          <=> (\E i \in 1 .. Len(p) : All(p[i])) \/ (\E i \in 1 .. Len(sh) : All(sh[i]))
    <3>1. ASSUME NEW i \in 1 .. Len(r), All(r[i])
          PROVE  (\E j \in 1 .. Len(p) : All(p[j])) \/ (\E j \in 1 .. Len(sh) : All(sh[j]))
      <4>1. CASE i <= Len(p)
        <5>1. i \in 1 .. Len(p) /\ r[i] = p[i]
          BY <2>3, <4>1 DEF Behind
        <5> QED  BY <3>1, <5>1
      <4>2. CASE ~(i <= Len(p))
        <5>1. i - Len(p) \in 1 .. Len(sh) /\ Len(p) + (i - Len(p)) = i
          BY <2>3, <4>2 DEF Behind
        <5>2. r[i] = sh[i - Len(p)]
          BY <2>3, <5>1 DEF Behind
        <5> QED  BY <3>1, <5>1, <5>2
      <4> QED  BY <4>1, <4>2
    <3>2. ASSUME NEW i \in 1 .. Len(p), All(p[i])
          PROVE  \E j \in 1 .. Len(r) : All(r[j])
      <4>1. i \in 1 .. Len(r) /\ r[i] = p[i]
        BY <2>3 DEF Behind
      <4> QED  BY <3>2, <4>1
    <3>3. ASSUME NEW i \in 1 .. Len(sh), All(sh[i])
          PROVE  \E j \in 1 .. Len(r) : All(r[j])
      <4>1. Len(p) + i \in 1 .. Len(r) /\ r[Len(p) + i] = sh[i]
        BY <2>3 DEF Behind
      <4> QED  BY <3>3, <4>1
    <3> QED  BY <3>1, <3>2, <3>3
  <2>5. AtLeast(w, song, t) <=> AtLeast(a, song, t) \/ AtLeast(b, song, t)
    BY <1>4, <1>9, <1>10, <1>11, <1>14, <2>4 DEF r, All
  <2> QED  BY <1>12, <1>14, <2>5 DEF w
<1>15. CASE /\ Whole(a) /\ op = "and" /\ Len(p) = 1 /\ Len(q) = 1
  <2> DEFINE m == Last(p) \o Head(sh)
  <2>1. w.alternatives = Front(p) \o <<m>> \o Tail(sh)
    BY <1>6, <1>15, JoinedAnd
  <2>2. Last(p) = p[1] /\ Head(sh) = sh[1] /\ 1 \in 1 .. Len(p) /\ 1 \in 1 .. Len(q)
    BY <1>2, <1>4, <1>15 DEF Last
  <2>3. p[1] \in A /\ sh[1] \in A /\ sh # << >> /\ p # << >>
    BY <1>2, <1>4, <1>6, <1>15
  <2>4. m \in A /\ Behind(m, p[1], sh[1])
    BY <2>2, <2>3, BehindFacts
  <2> HIDE DEF w, sh, p, q, x, y, m, A
  <2>5. w.alternatives[Len(p)] = m
    <3>1. (Front(p) \o <<m>> \o Tail(sh))[Len(p)] = m
      BY <1>2, <1>4, <2>3, <2>4, SplicedFacts
    <3> QED  BY <2>1, <3>1
  <2>6. Len(w.alternatives) = 1
    <3>1. Len(w.alternatives) = Len(p) + Len(q) - 1
      BY <1>15, JoinedTexts DEF w, p, q
    <3> QED  BY <1>15, <3>1
  <2>7. \A i : i \in 1 .. 1 <=> i = 1
    OBVIOUS
  <2>8. AtLeast(w, song, t) <=> AllSay(w.terms, song, m, t)
    BY <1>11, <1>15, <2>5, <2>6, <2>7
  <2>9. AllSay(w.terms, song, m, t)
          <=> AllSay(w.terms, song, p[1], t) /\ AllSay(w.terms, song, sh[1], t)
    BY <2>4, SaysOfBoth
  <2>10. AtLeast(w, song, t) <=> AtLeast(a, song, t) /\ AtLeast(b, song, t)
    BY <1>4, <1>9, <1>10, <1>15, <2>7, <2>8, <2>9
  <2> QED  BY <1>12, <1>15, <2>10 DEF w
<1> QED  BY <1>12, <1>13, <1>14, <1>15

-----------------------------------------------------------------------------
(* Parts.                                                                  *)

WholeTexts == {w \in Texts : Whole(w)}

\* The texts that the joining of parts goes through.
Joins(joined, op, parts) ==
  /\ joined[0] = NoText
  /\ \A k \in 1 .. Len(parts) : joined[k] = Joined(op, joined[k - 1], parts[k])

LEMMA AllJoinedBySteps ==
  ASSUME NEW op \in {"and", "or"}, NEW parts \in Seq(WholeTexts)
  PROVE  \E joined : Joins(joined, op, parts) /\ AllJoined(op, parts) = joined[Len(parts)]
<1> DEFINE n == Len(parts)
           S == SUBSET (1 .. n)
           V == WholeTexts \cup {NoText}
           body(g) == [s \in S |-> IF s = {} THEN NoText
                                   ELSE Joined(op, g[s \ {Max(s)}], parts[Max(s)])]
           iter == CHOOSE g : g = body(g)
           join == [p \in V \X (1 .. n) |-> Joined(op, p[1], parts[p[2]])]
<1>1. n \in Nat /\ DOMAIN parts = 1 .. n
  OBVIOUS
<1>2. AllJoined(op, parts) = iter[1 .. n]
  BY <1>1 DEF AllJoined, FoldLeft, MapThenFoldSet, NoText
<1>3. join \in [V \X (1 .. n) -> V]
  <2>1. ASSUME NEW w \in V, NEW i \in 1 .. n
        PROVE  Joined(op, w, parts[i]) \in V
    <3>1. parts[i] \in WholeTexts
      OBVIOUS
    <3>2. w = NoText \/ Whole(w)
      BY DEF WholeTexts
    <3>3. Whole(Joined(op, w, parts[i]))
      BY <3>1, <3>2, JoinedTexts DEF WholeTexts
    <3> QED  BY <3>3 DEF WholeTexts, Whole
  <2> QED  BY <2>1
<1>4. \E g : IsFold(g, n, V, NoText, join)
  <2>1. NoText \in V
    OBVIOUS
  <2> HIDE DEF join, n, V
  <2> QED  BY <1>1, <1>3, <2>1, FoldExists
<1>5. PICK g \in [S -> V] :
        \A s \in S :
          /\ s = {} => g[s] = NoText
          /\ s # {} => Max(s) \in 1 .. n /\ g[s] = join[<<g[s \ {Max(s)}], Max(s)>>]
  BY <1>4 DEF IsFold
<1>6. g = body(g)
  <2>1. ASSUME NEW s \in S
        PROVE  g[s] = IF s = {} THEN NoText
                      ELSE Joined(op, g[s \ {Max(s)}], parts[Max(s)])
    <3>1. CASE s = {}
      BY <1>5, <3>1
    <3>2. CASE s # {}
      <4>1. /\ Max(s) \in 1 .. n /\ s \ {Max(s)} \in S
            /\ g[s] = join[<<g[s \ {Max(s)}], Max(s)>>]
        BY <1>5, <3>2
      <4>2. g[s \ {Max(s)}] \in V
        BY <4>1
      <4> HIDE DEF n, V
      <4> QED  BY <3>2, <4>1, <4>2
    <3> QED  BY <3>1, <3>2
  <2> QED  BY <2>1
<1>7. iter = body(iter)
  BY <1>6
<1> DEFINE joined == [k \in 0 .. n |-> iter[1 .. k]]
<1>8. joined[0] = NoText
  <2>1. joined[0] = iter[{}]
    BY <1>1
  <2>2. {} \in S
    OBVIOUS
  <2> HIDE DEF iter
  <2>3. iter[{}] = NoText
    BY <1>7, <2>2
  <2> QED  BY <2>1, <2>3
<1>9. ASSUME NEW k \in 1 .. n
      PROVE  joined[k] = Joined(op, joined[k - 1], parts[k])
  <2>1. k \in Nat \ {0} /\ k \in 0 .. n /\ k - 1 \in 0 .. n
    BY <1>1
  <2>2. joined[k] = iter[1 .. k] /\ joined[k - 1] = iter[1 .. k - 1]
    BY <2>1
  <2>3. 1 .. k \in S
    BY <1>1
  <2>4. 1 .. k # {} /\ Max(1 .. k) = k /\ (1 .. k) \ {k} = 1 .. k - 1
    BY <2>1, UptoFacts
  <2> HIDE DEF iter
  <2>5. iter[1 .. k] = Joined(op, iter[(1 .. k) \ {Max(1 .. k)}], parts[Max(1 .. k)])
    BY <1>7, <2>3, <2>4
  <2> QED  BY <2>2, <2>4, <2>5
<1>10. joined[n] = iter[1 .. n]
  BY <1>1
<1> QED  BY <1>2, <1>8, <1>9, <1>10 DEF Joins

LEMMA JoinsWhole ==
  ASSUME NEW op \in {"and", "or"}, NEW parts \in Seq(WholeTexts),
         NEW joined, Joins(joined, op, parts)
  PROVE  \A k \in 1 .. Len(parts) : Whole(joined[k])
<1> DEFINE T == {k \in Nat : k \in 1 .. Len(parts) => Whole(joined[k])}
<1>1. 0 \in T
  OBVIOUS
<1>2. ASSUME NEW k \in Nat, k \in T
      PROVE  k + 1 \in T
  <2> SUFFICES ASSUME k + 1 \in 1 .. Len(parts)
               PROVE  Whole(joined[k + 1])
    OBVIOUS
  <2>1. joined[k + 1] = Joined(op, joined[k], parts[k + 1])
    <3>1. k + 1 - 1 = k
      OBVIOUS
    <3> QED  BY <3>1 DEF Joins
  <2>2. Whole(parts[k + 1])
    BY DEF WholeTexts
  <2>3. joined[k] = NoText \/ Whole(joined[k])
    <3>1. k = 0 \/ k \in 1 .. Len(parts)
      OBVIOUS
    <3> QED  BY <1>2, <3>1 DEF Joins
  <2> QED  BY <2>1, <2>2, <2>3, JoinedTexts
<1> HIDE DEF T
<1>3. Nat \subseteq T
  BY <1>1, <1>2, NumbersByInduction
<1> QED  BY <1>3 DEF T

\* All parts joined say what one of them says or what all of them say; the
\* latter if each of them has a single alternative.
\* What joined texts say, of that of their parts.
JoinsMean(joined, op, parts, song, t) ==
  \A k \in 1 .. Len(parts) :
    /\ op = "and" => Len(joined[k].alternatives) = 1
    /\ op = "and" => (AtLeast(joined[k], song, t)
                        <=> \A i \in 1 .. k : AtLeast(parts[i], song, t))
    /\ op = "or" => (AtLeast(joined[k], song, t)
                       <=> \E i \in 1 .. k : AtLeast(parts[i], song, t))

Singles(parts) == \A i \in 1 .. Len(parts) : Len(parts[i].alternatives) = 1

LEMMA JoinsSay ==
  ASSUME NEW op \in {"and", "or"}, NEW parts \in Seq(WholeTexts),
         NEW joined, Joins(joined, op, parts), NEW song, NEW t,
         op = "and" => Singles(parts)
  PROVE  JoinsMean(joined, op, parts, song, t)
<1> DEFINE P(k) ==
      /\ op = "and" => Len(joined[k].alternatives) = 1
      /\ op = "and" => (AtLeast(joined[k], song, t)
                          <=> \A i \in 1 .. k : AtLeast(parts[i], song, t))
      /\ op = "or" => (AtLeast(joined[k], song, t)
                          <=> \E i \in 1 .. k : AtLeast(parts[i], song, t))
<1> DEFINE T == {k \in Nat : k \in 1 .. Len(parts) => P(k)}
<1>1. 0 \in T
  OBVIOUS
<1>2. ASSUME NEW k \in Nat, k \in T
      PROVE  k + 1 \in T
  <2> SUFFICES ASSUME k + 1 \in 1 .. Len(parts)
               PROVE  P(k + 1)
    OBVIOUS
  <2> DEFINE part == parts[k + 1]
  <2>1. joined[k + 1] = Joined(op, joined[k], part)
    <3>1. k + 1 - 1 = k
      OBVIOUS
    <3> QED  BY <3>1 DEF Joins
  <2>2. Whole(part) /\ (op = "and" => Len(part.alternatives) = 1)
    BY DEF WholeTexts, Singles
  <2>3. CASE k = 0
    <3>1. joined[k] = NoText
      BY <2>3 DEF Joins
    <3>2. \A i : i \in 1 .. k + 1 <=> i = k + 1
      BY <2>3
    <3>3. AtLeast(joined[k + 1], song, t) <=> AtLeast(part, song, t)
      BY <2>1, <2>2, <3>1, JoinedSay
    <3>4. Len(joined[k + 1].alternatives) = Len(part.alternatives)
      <4>1. Len(Joined(op, NoText, part).alternatives) = Len(part.alternatives)
        <5> HIDE DEF part
        <5> QED  BY <2>2, JoinedTexts
      <4> QED  BY <2>1, <3>1, <4>1
    <3> QED  BY <2>2, <3>2, <3>3, <3>4
  <2>4. CASE k # 0
    <3>1. k \in 1 .. Len(parts)
      BY <2>4
    <3>2. Whole(joined[k]) /\ P(k)
      BY <1>2, <3>1, JoinsWhole
    <3>3. \A i : i \in 1 .. k + 1 <=> i \in 1 .. k \/ i = k + 1
      OBVIOUS
    <3>4. CASE op = "or"
      <4>1. AtLeast(joined[k + 1], song, t)
              <=> AtLeast(joined[k], song, t) \/ AtLeast(part, song, t)
        BY <2>1, <2>2, <3>2, <3>4, JoinedSay
      <4> QED  BY <3>2, <3>3, <3>4, <4>1
    <3>5. CASE op = "and"
      <4>1. Len(joined[k].alternatives) = 1 /\ Len(part.alternatives) = 1
        BY <2>2, <3>2, <3>5
      <4>2. AtLeast(joined[k + 1], song, t)
              <=> AtLeast(joined[k], song, t) /\ AtLeast(part, song, t)
        BY <2>1, <2>2, <3>2, <3>5, <4>1, JoinedSay
      <4>3. Len(joined[k + 1].alternatives) = 1 + 1 - 1
        <5>1. PICK j : j = joined[k]
          OBVIOUS
        <5>2. Whole(j) /\ Len(j.alternatives) = 1
          BY <3>2, <4>1, <5>1
        <5> HIDE DEF part
        <5>3. Whole(part)
          BY <2>2
        <5>4. Len(Joined(op, j, part).alternatives)
                = Len(j.alternatives) + Len(part.alternatives) - 1
          BY <3>5, <5>2, <5>3, JoinedTexts
        <5> QED  BY <2>1, <4>1, <5>1, <5>2, <5>4
      <4> QED  BY <3>2, <3>3, <3>5, <4>2, <4>3
    <3> QED  BY <3>4, <3>5
  <2> QED  BY <2>3, <2>4
<1> HIDE DEF T
<1>3. Nat \subseteq T
  BY <1>1, <1>2, NumbersByInduction
<1> QED  BY <1>3 DEF T, JoinsMean

-----------------------------------------------------------------------------
(* Translations.                                                           *)

TextsOrNone == {w \in Texts : w.outcome = "ok" => Whole(w)}

SimpleText(f) ==
  Written("ok", <<[key |-> f.key, test |-> f.type, value |-> f.value]>>,
          <<<<Literal(1, FALSE)>>>>)

TranslationOf(g, f) == Translated(f, [i \in DOMAIN f.parts |-> g[f.parts[i]]])

LEMMA FilterFacts ==
  ASSUME NEW f \in Filters
  PROVE  /\ f.type \in SimpleTypes \cup {"and", "or", "not"}
         /\ f.parts \in Seq(Filters) /\ Len(f.parts) \in Nat
         /\ DOMAIN f.parts = 1 .. Len(f.parts)
         /\ f.type \in SimpleTypes <=> f.parts = << >>
         /\ f.type = "not" => Len(f.parts) = 1 /\ f.parts[1].type # "not"
         /\ \A i \in DOMAIN f.parts : f.parts[i] \in Filters /\ Depth[f.parts[i]] < Depth[f]
         /\ f.type \notin SimpleTypes => 1 \in DOMAIN f.parts
  BY FiltersAssumption, DepthAssumption

LEMMA SimpleTextFacts ==
  ASSUME NEW f \in Filters
  PROVE  /\ Whole(SimpleText(f))
         /\ SimpleText(f).terms = <<[key |-> f.key, test |-> f.type, value |-> f.value]>>
         /\ SimpleText(f).outcome = "ok"
         /\ Len(SimpleText(f).alternatives) = 1
         /\ Len(SimpleText(f).alternatives[1]) = 1
         /\ SimpleText(f).alternatives[1][1].term = 1
         /\ ~SimpleText(f).alternatives[1][1].negated
<1> DEFINE term == [key |-> f.key, test |-> f.type, value |-> f.value]
           literal == Literal(1, FALSE)
           w == SimpleText(f)
<1>1. term \in Terms
  BY DEF Terms
<1>2. literal \in Literals /\ literal.term = 1 /\ ~literal.negated
  BY LiteralIsLiteral DEF Literal
<1>3. w = Written("ok", <<term>>, <<<<literal>>>>)
  BY DEF SimpleText
<1>4. w.outcome = "ok" /\ w.terms = <<term>> /\ w.alternatives = <<<<literal>>>>
  <2>1. PICK terms, alternatives : terms = <<term>> /\ alternatives = <<<<literal>>>>
    OBVIOUS
  <2>2. PICK v : v = Written("ok", terms, alternatives)
    OBVIOUS
  <2>3. v.outcome = "ok" /\ v.terms = terms /\ v.alternatives = alternatives
    BY <2>2, WrittenFields
  <2>4. w = v
    BY <1>3, <2>1, <2>2
  <2> QED  BY <2>1, <2>3, <2>4
<1> HIDE DEF term, literal, w
<1>5. /\ <<term>> \in Seq(Terms) /\ <<literal>> \in Seq(Literals)
      /\ Len(<<term>>) = 1 /\ Len(<<literal>>) = 1 /\ <<literal>>[1] = literal
  BY <1>1, <1>2
<1>6. Fits(<<literal>>, 1)
  BY <1>2, <1>5 DEF Fits
<1>7. /\ <<<<literal>>>> \in Seq(Seq(Literals)) /\ <<<<literal>>>> # << >>
      /\ Len(<<<<literal>>>>) = 1 /\ <<<<literal>>>>[1] = <<literal>>
  <2>1. PICK l, A : l = <<literal>> /\ A = Seq(Literals)
    OBVIOUS
  <2>2. l \in A
    BY <1>5, <2>1
  <2>3. <<l>> \in Seq(A) /\ <<l>> # << >> /\ Len(<<l>>) = 1 /\ <<l>>[1] = l
    BY <2>2
  <2> QED  BY <2>1, <2>3
<1>8. w \in Texts
  BY <1>3, <1>5, <1>7 DEF Texts, Written
<1>9. Whole(w)
  <2>1. Len(w.terms) = 1 /\ Len(w.alternatives) = 1 /\ w.alternatives # << >>
    BY <1>4, <1>5, <1>7
  <2>2. \A i \in 1 .. 1 : Fits(w.alternatives[i], 1)
    BY <1>4, <1>6, <1>7
  <2> QED  BY <1>4, <1>8, <2>1, <2>2, WholeFits
<1>10. /\ Len(w.alternatives) = 1 /\ Len(w.alternatives[1]) = 1
       /\ w.alternatives[1][1].term = 1 /\ ~w.alternatives[1][1].negated
  BY <1>2, <1>4, <1>5, <1>7
<1>11. w.terms = <<[key |-> f.key, test |-> f.type, value |-> f.value]>>
  BY <1>4 DEF term
<1> QED  BY <1>4, <1>9, <1>10, <1>11 DEF w

LEMMA NegatedFacts ==
  ASSUME NEW w, Whole(w)
  PROVE  /\ Whole(Negated(w)) /\ Negated(w).terms = w.terms
         /\ Len(Negated(w).alternatives) = Len(w.alternatives)
         /\ Len(Negated(w).alternatives[1]) = Len(w.alternatives[1])
         /\ Negated(w).alternatives[1][1].term = w.alternatives[1][1].term
         /\ Negated(w).alternatives[1][1].negated
<1> DEFINE p == w.alternatives
           r == [p EXCEPT ![1][1].negated = TRUE]
           l == [p[1][1] EXCEPT !.negated = TRUE]
           a == [p[1] EXCEPT ![1] = l]
           A == Seq(Literals)
<1>1. w \in Texts /\ p \in Seq(A) /\ p # << >> /\ w.terms \in Seq(Terms)
      /\ \A i \in 1 .. Len(p) : Fits(p[i], Len(w.terms))
  BY WholeFits DEF Texts
<1>2. Negated(w) = Written("ok", w.terms, r)
  BY DEF Negated
<1>3. /\ Negated(w).outcome = "ok" /\ Negated(w).terms = w.terms
      /\ Negated(w).alternatives = r
  <2>1. PICK terms, rr : terms = w.terms /\ rr = r
    OBVIOUS
  <2>2. PICK v : v = Written("ok", terms, rr)
    OBVIOUS
  <2>3. v.outcome = "ok" /\ v.terms = terms /\ v.alternatives = rr
    BY <2>2, WrittenFields
  <2>4. Negated(w) = v
    BY <1>2, <2>1, <2>2
  <2> QED  BY <2>1, <2>3, <2>4
<1>4. 1 \in 1 .. Len(p) /\ Len(p) \in Nat
  BY <1>1
<1>5. /\ p[1] \in A /\ p[1] # << >> /\ 1 \in 1 .. Len(p[1])
      /\ \A j \in 1 .. Len(p[1]) : p[1][j].term \in 1 .. Len(w.terms)
      /\ p[1][1] \in Literals
  <2>1. Fits(p[1], Len(w.terms))
    BY <1>1, <1>4
  <2> QED  BY <2>1 DEF Fits
<1>6. l \in Literals /\ l.term = p[1][1].term /\ l.negated
  BY <1>5 DEF Literals
<1>7. r = [p EXCEPT ![1] = a]
  OBVIOUS
<1> HIDE DEF l
<1>8. /\ a \in A /\ Len(a) = Len(p[1]) /\ a # << >>
      /\ a[1] = l /\ \A j \in 1 .. Len(p[1]) : j # 1 => a[j] = p[1][j]
  <2>1. PICK q : q = p[1]
    OBVIOUS
  <2>2. q \in Seq(Literals) /\ q # << >> /\ 1 \in 1 .. Len(q) /\ a = [q EXCEPT ![1] = l]
    BY <1>5, <2>1
  <2>3. [q EXCEPT ![1] = l] \in Seq(Literals) /\ Len([q EXCEPT ![1] = l]) = Len(q)
    BY <1>6, <2>2
  <2>4. [q EXCEPT ![1] = l] # << >>
    BY <2>2, <2>3
  <2>5. /\ [q EXCEPT ![1] = l][1] = l
        /\ \A j \in 1 .. Len(q) : j # 1 => [q EXCEPT ![1] = l][j] = q[j]
    BY <2>2
  <2> QED  BY <2>1, <2>2, <2>3, <2>4, <2>5
<1>9. Fits(a, Len(w.terms))
  <2>1. \A j \in 1 .. Len(a) : a[j].term \in 1 .. Len(w.terms)
    BY <1>5, <1>6, <1>8
  <2> QED  BY <1>8, <2>1 DEF Fits
<1> HIDE DEF a, r, p
<1>10. /\ r \in Seq(A) /\ Len(r) = Len(p) /\ r # << >>
       /\ r[1] = a /\ \A i \in 1 .. Len(p) : i # 1 => r[i] = p[i]
  <2> HIDE DEF A
  <2>1. p \in Seq(A) /\ a \in A /\ 1 \in 1 .. Len(p)
    BY <1>1, <1>4, <1>8
  <2>2. [p EXCEPT ![1] = a] \in Seq(A) /\ Len([p EXCEPT ![1] = a]) = Len(p)
    BY <2>1
  <2>3. [p EXCEPT ![1] = a] # << >>
    BY <1>4, <2>2
  <2>4. /\ [p EXCEPT ![1] = a][1] = a
        /\ \A i \in 1 .. Len(p) : i # 1 => [p EXCEPT ![1] = a][i] = p[i]
    BY <2>1
  <2> QED  BY <1>7, <2>2, <2>3, <2>4
<1>11. \A i \in 1 .. Len(r) : Fits(r[i], Len(w.terms))
  BY <1>1, <1>9, <1>10
<1>12. Negated(w) \in Texts
  BY <1>1, <1>2, <1>10 DEF Texts, Written
<1>13. Whole(Negated(w))
  BY <1>3, <1>10, <1>11, <1>12, WholeFits
<1> QED  BY <1>3, <1>6, <1>8, <1>10, <1>13 DEF p

LEMMA TranslationTyped ==
  ASSUME NEW f \in Filters, NEW g, \A i \in DOMAIN f.parts : g[f.parts[i]] \in TextsOrNone
  PROVE  TranslationOf(g, f) \in TextsOrNone
<1>1. CASE f.type = "exists"
  <2>1. TranslationOf(g, f) = Written("failed", << >>, << >>)
    BY <1>1 DEF TranslationOf, Translated
  <2> QED  BY <2>1 DEF Written, Texts, TextsOrNone
<1>2. CASE f.type \in SimpleTypes \ {"exists"}
  <2>1. TranslationOf(g, f) = SimpleText(f)
    BY <1>2 DEF TranslationOf, Translated, SimpleText, SimpleTypes
  <2> QED  BY <2>1, SimpleTextFacts DEF TextsOrNone, Whole
<1>3. CASE f.type = "not"
  <2>1. TranslationOf(g, f) = IF g[f.parts[1]].outcome = "ok" THEN Negated(g[f.parts[1]])
                              ELSE g[f.parts[1]]
    <3>1. 1 \in DOMAIN f.parts
      BY <1>3, FilterFacts DEF SimpleTypes
    <3> QED  BY <1>3, <3>1 DEF TranslationOf, Translated, SimpleTypes
  <2>2. g[f.parts[1]] \in TextsOrNone
    BY <1>3, FilterFacts DEF SimpleTypes
  <2>3. PICK w : w = g[f.parts[1]]
    OBVIOUS
  <2>4. w.outcome = "ok" => Whole(Negated(w))
    BY <2>2, <2>3, NegatedFacts DEF TextsOrNone
  <2> QED  BY <2>1, <2>2, <2>3, <2>4 DEF TextsOrNone, Whole
<1>4. CASE f.type \in {"and", "or"}
  <2> DEFINE parts == [i \in DOMAIN f.parts |-> g[f.parts[i]]]
  <2>1. TranslationOf(g, f) = IF \E i \in DOMAIN parts : parts[i].outcome # "ok"
                              THEN Written("endless", << >>, << >>)
                              ELSE AllJoined(f.type, parts)
    BY <1>4 DEF TranslationOf, Translated, SimpleTypes
  <2>2. CASE \E i \in DOMAIN parts : parts[i].outcome # "ok"
    <3>1. TranslationOf(g, f) = Written("endless", << >>, << >>)
      BY <2>1, <2>2
    <3> QED  BY <3>1 DEF Written, Texts, TextsOrNone
  <2>3. CASE ~\E i \in DOMAIN parts : parts[i].outcome # "ok"
    <3>1. parts \in Seq(WholeTexts) /\ Len(parts) \in 1 .. Len(parts)
      <4>1. /\ f.parts \in Seq(Filters) /\ Len(f.parts) \in Nat \ {0}
            /\ DOMAIN f.parts = 1 .. Len(f.parts)
        BY <1>4, FilterFacts DEF SimpleTypes
      <4>2. \A i \in DOMAIN f.parts : g[f.parts[i]] \in WholeTexts
        BY <2>3 DEF TextsOrNone, WholeTexts, Whole
      <4>3. parts \in [1 .. Len(f.parts) -> WholeTexts]
        BY <4>1, <4>2
      <4> QED  BY <4>1, <4>3
    <3>2. PICK joined : /\ Joins(joined, f.type, parts)
                        /\ AllJoined(f.type, parts) = joined[Len(parts)]
      <4> HIDE DEF parts
      <4> QED  BY <1>4, <3>1, AllJoinedBySteps
    <3>3. Whole(joined[Len(parts)])
      <4> HIDE DEF parts
      <4> QED  BY <1>4, <3>1, <3>2, JoinsWhole
    <3> QED  BY <2>1, <2>3, <3>2, <3>3 DEF TextsOrNone, Whole
  <2> QED  BY <2>2, <2>3
<1> QED  BY <1>1, <1>2, <1>3, <1>4, FilterFacts

LEMMA TranslationDepends ==
  ASSUME NEW f \in Filters, NEW g, NEW h,
         \A i \in DOMAIN f.parts : g[f.parts[i]] = h[f.parts[i]]
  PROVE  TranslationOf(g, f) = TranslationOf(h, f)
  BY DEF TranslationOf

\* Every filter has a translation, which is what its definition says.
LEMMA TranslationFacts ==
  \A f \in Filters : /\ Translation[f] = TranslationOf(Translation, f)
                     /\ Translation[f] \in TextsOrNone
<1> DEFINE V == TextsOrNone
           body(g) == [f \in Filters |-> TranslationOf(g, f)]
           step == [g \in [Filters -> V] |-> body(g)]
<1>1. Depth \in [Filters -> Nat]
  BY DepthAssumption
<1>2. V # {}
  <2>1. Written("failed", << >>, << >>) \in V
    BY DEF Written, Texts, TextsOrNone
  <2> QED  BY <2>1
<1>3. step \in [[Filters -> V] -> [Filters -> V]]
  <2>1. ASSUME NEW g \in [Filters -> V], NEW f \in Filters
        PROVE  TranslationOf(g, f) \in V
    <3>1. \A i \in DOMAIN f.parts : g[f.parts[i]] \in V
      BY FilterFacts
    <3> QED  BY <3>1, TranslationTyped
  <2> HIDE DEF V
  <2> QED  BY <2>1
<1>4. ASSUME NEW g \in [Filters -> V], NEW h \in [Filters -> V], NEW f \in Filters,
             \A y \in Filters : Depth[y] < Depth[f] => g[y] = h[y]
      PROVE  step[g][f] = step[h][f]
  <2>1. \A i \in DOMAIN f.parts : g[f.parts[i]] = h[f.parts[i]]
    BY <1>4, FilterFacts
  <2>2. TranslationOf(g, f) = TranslationOf(h, f)
    BY <2>1, TranslationDepends
  <2> QED  BY <2>2
<1>5. \E g \in [Filters -> V] : g = step[g]
  <2>1. IsRecursion(step, Filters, Depth, V)
    BY <1>1, <1>2, <1>3, <1>4 DEF IsRecursion
  <2> HIDE DEF step, V
  <2> QED  BY <2>1, RecursionByDepth
<1>6. PICK g : g = body(g)
  BY <1>5
<1>7. Translation = body(Translation)
  <2>1. Translation = CHOOSE h : h = body(h)
    BY DEF Translation, TranslationOf
  <2> QED  BY <1>6, <2>1
<1>8. \A f \in Filters : Translation[f] = TranslationOf(Translation, f)
  <2> HIDE DEF V
  <2> QED  BY <1>7
<1> DEFINE T == {f \in Filters : Translation[f] \in V}
<1>9. ASSUME NEW f \in Filters, \A y \in Filters : Depth[y] < Depth[f] => y \in T
      PROVE  f \in T
  <2>1. \A i \in DOMAIN f.parts : Translation[f.parts[i]] \in V
    BY <1>9, FilterFacts
  <2>2. TranslationOf(Translation, f) \in V
    BY <2>1, TranslationTyped
  <2> QED  BY <1>8, <2>2
<1>10. Filters \subseteq T
  <2> HIDE DEF T
  <2> QED  BY <1>1, <1>9, EverythingByDepth
<1> QED  BY <1>8, <1>10

-----------------------------------------------------------------------------
(* What filters mean.                                                      *)

Truths == {No, Error, Yes}

JudgedOf(g, song, f) == Judged(f, song, [i \in DOMAIN f.parts |-> g[f.parts[i]]])
Judgements(song) == CHOOSE g : g = [f \in Filters |-> JudgedOf(g, song, f)]

LEMMA ComparedTyped ==
  ASSUME NEW test, NEW cell, NEW value
  PROVE  Compared(test, cell, value) \in Truths
<1>1. CASE cell = {}
  BY <1>1 DEF Compared, Truths
<1>2. CASE cell # {} /\ test = "eq"
  BY <1>2 DEF Compared, Truth, Truths
<1>3. CASE cell # {} /\ test # "eq"
  BY <1>3 DEF Compared, Truth, Truths
<1> QED  BY <1>1, <1>2, <1>3

LEMMA ExtremesOfTruths ==
  ASSUME NEW S, S \subseteq Truths, S # {}
  PROVE  /\ Min(S) \in S /\ \A x \in S : Min(S) <= x
         /\ Max(S) \in S /\ \A x \in S : Max(S) >= x
<1>1. Truths = 0 .. 2
  BY DEF Truths, No, Error, Yes
<1>2. IsFiniteSet(0 .. 2)
  <2>1. PICK m, n : m = 0 /\ n = 2
    OBVIOUS
  <2>2. m \in Int /\ n \in Int
    BY <2>1
  <2>3. IsFiniteSet(m .. n)
    BY <2>2, FS_Interval
  <2> QED  BY <2>1, <2>3
<1>3. S \in SUBSET Nat /\ IsFiniteSet(S)
  <2>1. IsFiniteSet(Truths) /\ Truths \subseteq Nat
    BY <1>1, <1>2
  <2> QED  BY <2>1, FS_Subset
<1> QED  BY <1>3, MaxOfFinite, MinOfNumbers

\* The truth values of the parts of a filter.
LEMMA PartsJudged ==
  ASSUME NEW parts, NEW n \in Nat \ {0}, DOMAIN parts = 1 .. n,
         \A i \in 1 .. n : parts[i] \in Truths
  PROVE  LET S == {parts[i] : i \in DOMAIN parts}
         IN  /\ Min(S) \in Truths /\ Max(S) \in Truths
             /\ \A t \in Truths : Min(S) >= t <=> \A i \in 1 .. n : parts[i] >= t
             /\ \A t \in Truths : Max(S) >= t <=> \E i \in 1 .. n : parts[i] >= t
<1> DEFINE S == {parts[i] : i \in DOMAIN parts}
<1>1. /\ S \subseteq Truths /\ \A i \in 1 .. n : parts[i] \in S
      /\ \A x \in S : \E i \in 1 .. n : x = parts[i]
  OBVIOUS
<1>2. S # {}
  <2>1. 1 \in 1 .. n
    OBVIOUS
  <2> QED  BY <1>1, <2>1
<1> HIDE DEF S
<1>3. /\ Min(S) \in S /\ \A x \in S : Min(S) <= x
      /\ Max(S) \in S /\ \A x \in S : Max(S) >= x
  BY <1>1, <1>2, ExtremesOfTruths
<1>4. Truths \subseteq Int
  BY DEF Truths, No, Error, Yes
<1>5. ASSUME NEW t \in Truths
      PROVE  /\ Min(S) >= t <=> \A i \in 1 .. n : parts[i] >= t
             /\ Max(S) >= t <=> \E i \in 1 .. n : parts[i] >= t
  <2>1. \A x \in S : x \in Int
    BY <1>1, <1>4
  <2>2. PICK low, high : low = Min(S) /\ high = Max(S)
    OBVIOUS
  <2>3. /\ low \in S /\ low \in Int /\ \A x \in S : low <= x
        /\ high \in S /\ high \in Int /\ \A x \in S : high >= x
        /\ t \in Int
    BY <1>3, <1>4, <2>1, <2>2
  <2>4. low >= t <=> \A x \in S : x >= t
    BY <2>1, <2>3
  <2>5. high >= t <=> \E x \in S : x >= t
    BY <2>1, <2>3
  <2> QED  BY <1>1, <2>2, <2>4, <2>5
<1>6. Min(S) \in Truths /\ Max(S) \in Truths
  BY <1>1, <1>3
<1> QED  BY <1>5, <1>6 DEF S

LEMMA JudgedTyped ==
  ASSUME NEW f \in Filters, NEW song, NEW g, \A i \in DOMAIN f.parts : g[f.parts[i]] \in Truths
  PROVE  JudgedOf(g, song, f) \in Truths
<1> DEFINE parts == [i \in DOMAIN f.parts |-> g[f.parts[i]]]
<1>1. JudgedOf(g, song, f) = Judged(f, song, parts)
  BY DEF JudgedOf
<1>2. CASE f.type \in SimpleTypes
  BY <1>1, <1>2, ComparedTyped DEF Judged, SimpleTypes, Truth, Truths
<1>3. CASE f.type = "not"
  <2>1. parts[1] \in Truths
    BY <1>3, FilterFacts DEF SimpleTypes
  <2>2. Yes - parts[1] \in Truths
    BY <2>1 DEF Truths, No, Error, Yes
  <2> HIDE DEF parts
  <2> QED  BY <1>1, <1>3, <2>2 DEF Judged, SimpleTypes
<1>4. CASE f.type \in {"and", "or"}
  <2>1. /\ Len(f.parts) \in Nat \ {0} /\ DOMAIN parts = 1 .. Len(f.parts)
        /\ \A i \in 1 .. Len(f.parts) : parts[i] \in Truths
    BY <1>4, FilterFacts DEF SimpleTypes
  <2> HIDE DEF parts
  <2>2. /\ Min({parts[i] : i \in DOMAIN parts}) \in Truths
        /\ Max({parts[i] : i \in DOMAIN parts}) \in Truths
    BY <2>1, PartsJudged
  <2> QED  BY <1>1, <1>4, <2>2 DEF Judged, SimpleTypes
<1> QED  BY <1>2, <1>3, <1>4, FilterFacts

LEMMA JudgedDepends ==
  ASSUME NEW f \in Filters, NEW song, NEW g, NEW h,
         \A i \in DOMAIN f.parts : g[f.parts[i]] = h[f.parts[i]]
  PROVE  JudgedOf(g, song, f) = JudgedOf(h, song, f)
  BY DEF JudgedOf

LEMMA JudgementFacts ==
  ASSUME NEW song
  PROVE  \A f \in Filters :
           /\ Judgements(song)[f] = JudgedOf(Judgements(song), song, f)
           /\ Judgements(song)[f] \in Truths
<1> DEFINE V == Truths
           body(g) == [f \in Filters |-> JudgedOf(g, song, f)]
           step == [g \in [Filters -> V] |-> body(g)]
           chosen == Judgements(song)
<1>1. Depth \in [Filters -> Nat]
  BY DepthAssumption
<1>2. V # {}
  BY DEF Truths
<1>3. step \in [[Filters -> V] -> [Filters -> V]]
  <2>1. ASSUME NEW g \in [Filters -> V], NEW f \in Filters
        PROVE  JudgedOf(g, song, f) \in V
    <3>1. \A i \in DOMAIN f.parts : g[f.parts[i]] \in V
      BY FilterFacts
    <3> QED  BY <3>1, JudgedTyped
  <2> HIDE DEF V
  <2> QED  BY <2>1
<1>4. ASSUME NEW g \in [Filters -> V], NEW h \in [Filters -> V], NEW f \in Filters,
             \A y \in Filters : Depth[y] < Depth[f] => g[y] = h[y]
      PROVE  step[g][f] = step[h][f]
  <2>1. \A i \in DOMAIN f.parts : g[f.parts[i]] = h[f.parts[i]]
    BY <1>4, FilterFacts
  <2>2. JudgedOf(g, song, f) = JudgedOf(h, song, f)
    BY <2>1, JudgedDepends
  <2> QED  BY <2>2
<1>5. \E g \in [Filters -> V] : g = step[g]
  <2>1. IsRecursion(step, Filters, Depth, V)
    BY <1>1, <1>2, <1>3, <1>4 DEF IsRecursion
  <2> HIDE DEF step, V
  <2> QED  BY <2>1, RecursionByDepth
<1>6. PICK g : g = body(g)
  BY <1>5
<1>7. chosen = body(chosen)
  <2>1. chosen = CHOOSE h : h = body(h)
    BY DEF Judgements
  <2> QED  BY <1>6, <2>1
<1> HIDE DEF chosen
<1>8. \A f \in Filters : chosen[f] = JudgedOf(chosen, song, f)
  <2> HIDE DEF V
  <2> QED  BY <1>7
<1> DEFINE T == {f \in Filters : chosen[f] \in V}
<1>9. ASSUME NEW f \in Filters, \A y \in Filters : Depth[y] < Depth[f] => y \in T
      PROVE  f \in T
  <2>1. \A i \in DOMAIN f.parts : chosen[f.parts[i]] \in V
    BY <1>9, FilterFacts
  <2>2. JudgedOf(chosen, song, f) \in V
    BY <2>1, JudgedTyped
  <2> QED  BY <1>8, <2>2
<1>10. Filters \subseteq T
  <2> HIDE DEF T
  <2> QED  BY <1>1, <1>9, EverythingByDepth
<1> QED  BY <1>8, <1>10 DEF chosen

LEMMA SatisfiedFacts ==
  ASSUME NEW filter, NEW song
  PROVE  Satisfied(filter, song) <=> filter = NoFilter \/ Judgements(song)[filter] = Yes
  BY DEF Satisfied, Judgements, JudgedOf

SoundOf(g, f) ==
  /\ f.type # "exists"
  /\ \A i \in DOMAIN f.parts :
       /\ g[f.parts[i]]
       /\ f.type = "not" => f.parts[i].type \in SimpleTypes
       /\ f.type = "and" => f.parts[i].type # "or"
Soundness == CHOOSE g : g = [f \in Filters |-> SoundOf(g, f)]

LEMMA SoundnessFacts ==
  \A f \in Filters : Soundness[f] <=> SoundOf(Soundness, f)
<1> DEFINE body(g) == [f \in Filters |-> SoundOf(g, f)]
           step == [g \in [Filters -> BOOLEAN] |-> body(g)]
<1>1. Depth \in [Filters -> Nat]
  BY DepthAssumption
<1>2. step \in [[Filters -> BOOLEAN] -> [Filters -> BOOLEAN]]
  <2>1. \A g, f : SoundOf(g, f) \in BOOLEAN
    BY DEF SoundOf
  <2> QED  BY <2>1
<1>3. ASSUME NEW g \in [Filters -> BOOLEAN], NEW h \in [Filters -> BOOLEAN],
             NEW f \in Filters,
             \A y \in Filters : Depth[y] < Depth[f] => g[y] = h[y]
      PROVE  step[g][f] = step[h][f]
  <2>1. \A i \in DOMAIN f.parts : g[f.parts[i]] = h[f.parts[i]]
    BY <1>3, FilterFacts
  <2>2. SoundOf(g, f) = SoundOf(h, f)
    BY <2>1 DEF SoundOf
  <2> QED  BY <2>2
<1>4. \E g \in [Filters -> BOOLEAN] : g = step[g]
  <2>1. IsRecursion(step, Filters, Depth, BOOLEAN)
    BY <1>1, <1>2, <1>3 DEF IsRecursion
  <2> HIDE DEF step
  <2> QED  BY <2>1, RecursionByDepth
<1>5. PICK g : g = body(g)
  BY <1>4
<1>6. Soundness = body(Soundness)
  BY <1>5 DEF Soundness
<1> QED  BY <1>6

LEMMA SoundFacts ==
  ASSUME NEW filter
  PROVE  Sound(filter) <=> filter = NoFilter \/ Soundness[filter]
  BY DEF Sound, Soundness, SoundOf

\* The text of a filter: what it says and how many alternatives it has.
SaysSo(f, song) ==
  LET w == Translation[f]
  IN  /\ Whole(w)
      /\ f.type # "or" => Len(w.alternatives) = 1
      /\ \A t \in Truths : AtLeast(w, song, t) <=> Judgements(song)[f] >= t

\* A text with a single comparison.
LEMMA SingleSays ==
  ASSUME NEW w, NEW song, NEW t, Len(w.alternatives) = 1, Len(w.alternatives[1]) = 1
  PROVE  AtLeast(w, song, t) <=> Says(w.terms, song, w.alternatives[1][1]) >= t
<1>1. \A i : i \in 1 .. 1 <=> i = 1
  OBVIOUS
<1>2. AtLeast(w, song, t) <=> AllSay(w.terms, song, w.alternatives[1], t)
  BY <1>1 DEF AtLeast
<1>3. AllSay(w.terms, song, w.alternatives[1], t)
        <=> Says(w.terms, song, w.alternatives[1][1]) >= t
  BY <1>1 DEF AllSay
<1> QED  BY <1>2, <1>3

LEMMA TranslationOfSimple ==
  ASSUME NEW f \in Filters, f.type \in SimpleTypes, f.type # "exists", NEW song
  PROVE  /\ Translation[f] = SimpleText(f)
         /\ \A l : l.term = 1 =>
              Says(SimpleText(f).terms, song, l)
                = IF l.negated THEN Yes - Judgements(song)[f] ELSE Judgements(song)[f]
<1>1. Translation[f] = SimpleText(f)
  BY TranslationFacts DEF TranslationOf, Translated, SimpleText, SimpleTypes
<1>2. Judgements(song)[f] = Compared(f.type, song[f.key], f.value)
  BY JudgementFacts DEF JudgedOf, Judged, SimpleTypes
<1>3. SimpleText(f).terms = <<[key |-> f.key, test |-> f.type, value |-> f.value]>>
  BY SimpleTextFacts
<1> QED  BY <1>1, <1>2, <1>3 DEF Says

LEMMA SimpleSaysSo ==
  ASSUME NEW f \in Filters, f.type \in SimpleTypes, f.type # "exists", NEW song
  PROVE  SaysSo(f, song)
<1> DEFINE w == SimpleText(f)
           l == w.alternatives[1][1]
<1>1. /\ Whole(w) /\ Len(w.alternatives) = 1 /\ Len(w.alternatives[1]) = 1
      /\ l.term = 1 /\ ~l.negated
  BY SimpleTextFacts
<1>2. Translation[f] = w /\ Says(w.terms, song, l) = Judgements(song)[f]
  BY <1>1, TranslationOfSimple
<1> HIDE DEF w, l
<1>3. \A t : AtLeast(w, song, t) <=> Says(w.terms, song, l) >= t
  BY <1>1, SingleSays DEF l
<1> QED  BY <1>1, <1>2, <1>3 DEF SaysSo

LEMMA NegatedSaysSo ==
  ASSUME NEW f \in Filters, f.type = "not", Soundness[f], NEW song
  PROVE  SaysSo(f, song)
<1> DEFINE part == f.parts[1]
           w == SimpleText(part)
           v == Negated(w)
           l == v.alternatives[1][1]
<1>1. /\ 1 \in DOMAIN f.parts /\ part \in Filters
      /\ part.type \in SimpleTypes /\ part.type # "exists"
  <2>1. 1 \in DOMAIN f.parts /\ part \in Filters
    BY FilterFacts DEF SimpleTypes
  <2>2. Soundness[part] /\ part.type \in SimpleTypes
    BY <2>1, SoundnessFacts DEF SoundOf
  <2> HIDE DEF part
  <2> QED  BY <2>1, <2>2, SoundnessFacts DEF SoundOf, part
<1>2. /\ Whole(w) /\ w.outcome = "ok"
      /\ Len(w.alternatives) = 1 /\ Len(w.alternatives[1]) = 1
      /\ w.alternatives[1][1].term = 1
  <2> HIDE DEF part
  <2> QED  BY <1>1, SimpleTextFacts
<1>3. /\ Whole(v) /\ v.terms = w.terms
      /\ Len(v.alternatives) = 1 /\ Len(v.alternatives[1]) = 1
      /\ l.term = 1 /\ l.negated
  BY <1>2, NegatedFacts
<1>4. /\ Translation[part] = w
      /\ Says(w.terms, song, l) = Yes - Judgements(song)[part]
  <2> HIDE DEF part
  <2> QED  BY <1>1, <1>3, TranslationOfSimple
<1>5. Translation[f] = v
  <2>1. PICK parts : parts = [i \in DOMAIN f.parts |-> Translation[f.parts[i]]]
    OBVIOUS
  <2>2. parts[1] = w
    BY <1>1, <1>4, <2>1
  <2>3. Translation[f] = Translated(f, parts)
    BY <2>1, TranslationFacts DEF TranslationOf
  <2>4. Translated(f, parts) = IF parts[1].outcome = "ok" THEN Negated(parts[1]) ELSE parts[1]
    BY DEF Translated, SimpleTypes
  <2> HIDE DEF w, part
  <2> QED  BY <1>2, <2>2, <2>3, <2>4
<1>6. Judgements(song)[f] = Yes - Judgements(song)[part]
  <2>1. PICK parts : parts = [i \in DOMAIN f.parts |-> Judgements(song)[f.parts[i]]]
    OBVIOUS
  <2>2. parts[1] = Judgements(song)[part]
    BY <1>1, <2>1
  <2>3. Judgements(song)[f] = Judged(f, song, parts)
    BY <2>1, JudgementFacts DEF JudgedOf
  <2>4. Judged(f, song, parts) = Yes - parts[1]
    BY DEF Judged, SimpleTypes
  <2> HIDE DEF part
  <2> QED  BY <2>2, <2>3, <2>4
<1> HIDE DEF w, v, l, part
<1>7. \A t : AtLeast(v, song, t) <=> Says(v.terms, song, l) >= t
  BY <1>3, SingleSays DEF l
<1> QED  BY <1>3, <1>4, <1>5, <1>6, <1>7 DEF SaysSo

LEMMA CompoundSaysSo ==
  ASSUME NEW f \in Filters, f.type \in {"and", "or"}, Soundness[f], NEW song,
         \A i \in DOMAIN f.parts : SaysSo(f.parts[i], song)
  PROVE  SaysSo(f, song)
<1> DEFINE parts == [i \in DOMAIN f.parts |-> Translation[f.parts[i]]]
           truths == [i \in DOMAIN f.parts |-> Judgements(song)[f.parts[i]]]
           n == Len(f.parts)
<1>1. /\ n \in Nat \ {0} /\ DOMAIN f.parts = 1 .. n
      /\ \A i \in 1 .. n : f.parts[i] \in Filters
  BY FilterFacts DEF SimpleTypes
<1>2. \A i \in 1 .. n : /\ parts[i] \in WholeTexts /\ parts[i].outcome = "ok"
                        /\ f.type = "and" => Len(parts[i].alternatives) = 1
                        /\ \A t \in Truths : AtLeast(parts[i], song, t) <=> truths[i] >= t
  <2>1. \A i \in 1 .. n : f.type = "and" => f.parts[i].type # "or"
    BY <1>1, SoundnessFacts DEF SoundOf
  <2> QED  BY <1>1, <2>1 DEF SaysSo, WholeTexts, Whole
<1>3. \A i \in 1 .. n : truths[i] \in Truths
  BY <1>1, JudgementFacts
<1>4. parts \in Seq(WholeTexts) /\ Len(parts) = n /\ n \in 1 .. n
  <2>1. parts \in [1 .. n -> WholeTexts]
    BY <1>1, <1>2
  <2> HIDE DEF parts, n
  <2> QED  BY <1>1, <2>1
<1>5. Translation[f] = AllJoined(f.type, parts)
  <2>1. ~\E i \in DOMAIN parts : parts[i].outcome # "ok"
    BY <1>1, <1>2
  <2>2. Translation[f] = Translated(f, parts)
    BY TranslationFacts DEF TranslationOf
  <2> HIDE DEF parts
  <2> QED  BY <2>1, <2>2 DEF Translated, SimpleTypes
<1>6. Judgements(song)[f] = Judged(f, song, truths)
  BY JudgementFacts DEF JudgedOf
<1>7. DOMAIN truths = 1 .. n
  BY <1>1
<1> HIDE DEF parts, truths, n
<1>8. PICK joined : Joins(joined, f.type, parts) /\ Translation[f] = joined[n]
  BY <1>4, <1>5, AllJoinedBySteps
<1>9. PICK w : w = joined[n]
  OBVIOUS
<1>10. Whole(w)
  BY <1>4, <1>8, <1>9, JoinsWhole
<1>11. ASSUME NEW t \in Truths
       PROVE  /\ f.type = "and" => Len(w.alternatives) = 1
              /\ f.type = "and" => (AtLeast(w, song, t)
                                      <=> \A i \in 1 .. n : AtLeast(parts[i], song, t))
              /\ f.type = "or" => (AtLeast(w, song, t)
                                     <=> \E i \in 1 .. n : AtLeast(parts[i], song, t))
  <2>2. PICK op : op = f.type
    OBVIOUS
  <2>1. op \in {"and", "or"} /\ Joins(joined, op, parts)
        /\ (op = "and" => Singles(parts))
    BY <1>2, <1>4, <1>8, <2>2 DEF Singles
  <2>3. JoinsMean(joined, op, parts, song, t)
    BY <1>4, <2>1, JoinsSay
  <2> QED  BY <1>4, <1>9, <2>2, <2>3 DEF JoinsMean
<1>12. /\ \A t \in Truths : Min({truths[i] : i \in DOMAIN truths}) >= t
                              <=> \A i \in 1 .. n : truths[i] >= t
       /\ \A t \in Truths : Max({truths[i] : i \in DOMAIN truths}) >= t
                              <=> \E i \in 1 .. n : truths[i] >= t
  BY <1>1, <1>3, <1>7, PartsJudged
<1>13. CASE f.type = "and"
  <2>1. Judgements(song)[f] = Min({truths[i] : i \in DOMAIN truths})
    BY <1>6, <1>13 DEF Judged, SimpleTypes
  <2>2. \A t \in Truths : AtLeast(w, song, t) <=> Judgements(song)[f] >= t
    BY <1>2, <1>11, <1>12, <1>13, <2>1
  <2>3. Len(w.alternatives) = 1
    <3>1. Yes \in Truths
      BY DEF Truths
    <3> QED  BY <1>11, <1>13, <3>1
  <2> QED  BY <1>8, <1>9, <1>10, <2>2, <2>3 DEF SaysSo
<1>14. CASE f.type = "or"
  <2>1. Judgements(song)[f] = Max({truths[i] : i \in DOMAIN truths})
    BY <1>6, <1>14 DEF Judged, SimpleTypes
  <2>2. \A t \in Truths : AtLeast(w, song, t) <=> Judgements(song)[f] >= t
    BY <1>2, <1>11, <1>12, <1>14, <2>1
  <2> QED  BY <1>8, <1>9, <1>10, <1>14, <2>2 DEF SaysSo
<1> QED  BY <1>13, <1>14

\* The text of every sound filter says of each song what the filter means.
THEOREM SoundSaysSo ==
  ASSUME NEW song
  PROVE  \A f \in Filters : Soundness[f] => SaysSo(f, song)
<1> DEFINE T == {f \in Filters : Soundness[f] => SaysSo(f, song)}
<1>1. ASSUME NEW f \in Filters, \A y \in Filters : Depth[y] < Depth[f] => y \in T
      PROVE  f \in T
  <2> SUFFICES ASSUME Soundness[f] PROVE SaysSo(f, song)
    OBVIOUS
  <2>1. f.type # "exists" /\ \A i \in DOMAIN f.parts : Soundness[f.parts[i]]
    BY SoundnessFacts DEF SoundOf
  <2>2. \A i \in DOMAIN f.parts : SaysSo(f.parts[i], song)
    BY <1>1, <2>1, FilterFacts
  <2>3. CASE f.type \in SimpleTypes
    BY <2>1, <2>3, SimpleSaysSo
  <2>4. CASE f.type = "not"
    BY <2>4, NegatedSaysSo
  <2>5. CASE f.type \in {"and", "or"}
    BY <2>2, <2>5, CompoundSaysSo
  <2> QED  BY <2>3, <2>4, <2>5, FilterFacts
<1>2. Depth \in [Filters -> Nat]
  BY DepthAssumption
<1>3. Filters \subseteq T
  <2> HIDE DEF T
  <2> QED  BY <1>1, <1>2, EverythingByDepth
<1> QED  BY <1>3

-----------------------------------------------------------------------------
(* Clauses.                                                                *)

Clauses(K) ==
  [kind : {"optional", "required", "same", "unset"}, key : K, id : Nat]

LEMMA ClauseFields ==
  ASSUME NEW kind, NEW key, NEW id
  PROVE  LET c == Clause(kind, key, id)
         IN  /\ c.kind = kind /\ c.key = key /\ c.id = id
             /\ \A K : kind \in {"optional", "required", "same", "unset"} /\ key \in K /\ id \in Nat
                         => c \in Clauses(K)
  BY DEF Clause, Clauses

Binder(c) == c.kind \in {"optional", "required"}

\* The variables have numbers of I, each is of one property, and what has to be
\* unset is bound if there is anything.
OwnVariables(clauses, I) ==
  /\ \A i \in DOMAIN clauses : Binder(clauses[i]) => clauses[i].id \in I
  /\ \A i, j \in DOMAIN clauses :
       Binder(clauses[i]) /\ Binder(clauses[j]) /\ clauses[i].id = clauses[j].id
         => clauses[i].key = clauses[j].key
  /\ \A i \in DOMAIN clauses :
       clauses[i].kind = "unset" =>
         \E j \in DOMAIN clauses : /\ Binder(clauses[j])
                                   /\ clauses[j].id = clauses[i].id
                                   /\ clauses[j].key = clauses[i].key

\* How the elements of r are those of a and b.
ElementsOf(r, a, b) ==
  /\ \A k \in DOMAIN r : \/ \E i \in DOMAIN a : r[k] = a[i]
                         \/ \E j \in DOMAIN b : r[k] = b[j]
  /\ \A i \in DOMAIN a : \E k \in DOMAIN r : r[k] = a[i]
  /\ \A j \in DOMAIN b : \E k \in DOMAIN r : r[k] = b[j]

LEMMA JoinedElements ==
  ASSUME NEW T, NEW a \in Seq(T), NEW b \in Seq(T)
  PROVE  a \o b \in Seq(T) /\ ElementsOf(a \o b, a, b)
<1>1. PICK r : r = a \o b
  OBVIOUS
<1>2. r \in Seq(T) /\ Behind(r, a, b)
  BY <1>1, BehindFacts
<1>3. /\ Len(a) \in Nat /\ Len(b) \in Nat /\ Len(r) = Len(a) + Len(b)
      /\ \A i \in 1 .. Len(a) : r[i] = a[i]
      /\ \A i \in 1 .. Len(b) : r[Len(a) + i] = b[i]
  BY <1>2 DEF Behind
<1>4. DOMAIN a = 1 .. Len(a) /\ DOMAIN b = 1 .. Len(b) /\ DOMAIN r = 1 .. Len(r)
  BY <1>2
<1>5. ASSUME NEW k \in DOMAIN r
      PROVE  (\E i \in DOMAIN a : r[k] = a[i]) \/ (\E j \in DOMAIN b : r[k] = b[j])
  <2>1. CASE k <= Len(a)
    <3>1. k \in 1 .. Len(a)
      BY <1>3, <1>4, <2>1
    <3> QED  BY <1>3, <1>4, <3>1
  <2>2. CASE ~(k <= Len(a))
    <3>1. k - Len(a) \in 1 .. Len(b) /\ Len(a) + (k - Len(a)) = k
      BY <1>3, <1>4, <2>2
    <3>2. r[k] = b[k - Len(a)]
      BY <1>3, <3>1
    <3> QED  BY <1>4, <3>1, <3>2
  <2> QED  BY <2>1, <2>2
<1>6. ASSUME NEW i \in DOMAIN a
      PROVE  \E k \in DOMAIN r : r[k] = a[i]
  <2>1. i \in 1 .. Len(r) /\ i \in 1 .. Len(a)
    BY <1>3, <1>4
  <2> QED  BY <1>3, <1>4, <2>1
<1>7. ASSUME NEW j \in DOMAIN b
      PROVE  \E k \in DOMAIN r : r[k] = b[j]
  <2>1. Len(a) + j \in 1 .. Len(r) /\ j \in 1 .. Len(b)
    BY <1>3, <1>4
  <2> QED  BY <1>3, <1>4, <2>1
<1> QED  BY <1>1, <1>2, <1>5, <1>6, <1>7 DEF ElementsOf

LEMMA OwnBoth ==
  ASSUME NEW r, NEW a, NEW b, ElementsOf(r, a, b), NEW I, NEW J,
         \A i \in I : i \notin J, OwnVariables(a, I), OwnVariables(b, J)
  PROVE  OwnVariables(r, I \cup J)
<1> DEFINE A == {a[i] : i \in DOMAIN a}
           B == {b[i] : i \in DOMAIN b}
           R == {r[i] : i \in DOMAIN r}
<1>1. R = A \cup B
  BY DEF ElementsOf
<1>2. /\ \A c \in A : Binder(c) => c.id \in I
      /\ \A c, d \in A : Binder(c) /\ Binder(d) /\ c.id = d.id => c.key = d.key
      /\ \A c \in A : c.kind = "unset" => \E d \in A : Binder(d) /\ d.id = c.id /\ d.key = c.key
  BY DEF OwnVariables
<1>3. /\ \A c \in B : Binder(c) => c.id \in J
      /\ \A c, d \in B : Binder(c) /\ Binder(d) /\ c.id = d.id => c.key = d.key
      /\ \A c \in B : c.kind = "unset" => \E d \in B : Binder(d) /\ d.id = c.id /\ d.key = c.key
  BY DEF OwnVariables
<1>4. \A i \in DOMAIN r : r[i] \in R
  OBVIOUS
<1>5. \A c \in R : \E i \in DOMAIN r : c = r[i]
  OBVIOUS
<1> HIDE DEF A, B, R
<1>6. /\ \A c \in R : Binder(c) => c.id \in I \cup J
      /\ \A c, d \in R : Binder(c) /\ Binder(d) /\ c.id = d.id => c.key = d.key
      /\ \A c \in R : c.kind = "unset" => \E d \in R : Binder(d) /\ d.id = c.id /\ d.key = c.key
  BY <1>1, <1>2, <1>3
<1>7. ASSUME NEW i \in DOMAIN r, r[i].kind = "unset"
      PROVE  \E j \in DOMAIN r : Binder(r[j]) /\ r[j].id = r[i].id /\ r[j].key = r[i].key
  <2>1. PICK d \in R : Binder(d) /\ d.id = r[i].id /\ d.key = r[i].key
    BY <1>4, <1>6, <1>7
  <2>2. PICK j \in DOMAIN r : d = r[j]
    BY <1>5
  <2> QED  BY <2>1, <2>2
<1> QED  BY <1>4, <1>6, <1>7 DEF OwnVariables

\* A variable has the value of its property.
LEMMA OwnValue ==
  ASSUME NEW s, NEW K, s.clauses \in Seq(Clauses(K)), NEW I, OwnVariables(s.clauses, I),
         NEW song, NEW i \in DOMAIN s.clauses, s.clauses[i].kind # "same"
  PROVE  ValueOf(s, song, s.clauses[i].id) = song[s.clauses[i].key]
<1>1. PICK id, key : id = s.clauses[i].id /\ key = s.clauses[i].key
  OBVIOUS
<1>2. PICK j \in DOMAIN s.clauses : /\ Binder(s.clauses[j])
                                    /\ s.clauses[j].id = id /\ s.clauses[j].key = key
  <2>1. s.clauses[i].kind = "unset" \/ Binder(s.clauses[i])
    <3>1. s.clauses[i] \in Clauses(K)
      OBVIOUS
    <3> QED  BY <3>1 DEF Clauses, Binder
  <2> QED  BY <1>1, <2>1 DEF OwnVariables
<1> DEFINE bound == {n \in DOMAIN s.clauses :
                       /\ s.clauses[n].kind \in {"optional", "required"}
                       /\ s.clauses[n].id = id
                       /\ song[s.clauses[n].key] # {}}
<1>3. \A n \in bound : s.clauses[n].key = key
  BY <1>2 DEF OwnVariables, Binder
<1>4. ValueOf(s, song, id) = IF bound = {} THEN {} ELSE song[s.clauses[Min(bound)].key]
  BY DEF ValueOf
<1>5. CASE bound = {}
  <2>1. song[key] = {}
    BY <1>2, <1>5 DEF Binder
  <2> QED  BY <1>1, <1>4, <1>5, <2>1
<1>6. CASE bound # {}
  <2>1. bound \in SUBSET Nat
    OBVIOUS
  <2> HIDE DEF bound
  <2>2. Min(bound) \in bound
    BY <1>6, <2>1, MinOfNumbers
  <2> QED  BY <1>1, <1>3, <1>4, <1>6, <2>2
<1> QED  BY <1>5, <1>6

-----------------------------------------------------------------------------
(* Categories.                                                             *)

BuilderOK(b, V) == b.vars \in Nat /\ b.values \in Seq(V)

\* The values of a builder that has gone on from another one.
GoesOn(later, b) ==
  /\ b.vars <= later.vars
  /\ Len(b.values) <= Len(later.values)
  /\ \A i \in 1 .. Len(b.values) : later.values[i] = b.values[i]

\* A filter of a category in the making, from builder b on.
Narrowing(w, b, K, V) ==
  /\ BuilderOK(w.builder, V)
  /\ GoesOn(w.builder, b)
  /\ w.clauses \in Seq(Clauses(K))
  /\ OwnVariables(w.clauses, b.vars .. w.builder.vars - 1)

\* A statement takes variables and values as the filter means them.
Reads(s, song, w) ==
  /\ \A i \in DOMAIN w.clauses :
       w.clauses[i].kind # "same" =>
         ValueOf(s, song, w.clauses[i].id) = song[w.clauses[i].key]
  /\ \A i \in 1 .. Len(w.builder.values) : s.values[i] = w.builder.values[i]

AllPass(s, song, clauses) == \A i \in DOMAIN clauses : Passes(s, song, clauses[i])

\* The property is that of the cell, if there is one; none and "" are the same.
CellFits(song, key, cell) ==
  \/ cell = {}
  \/ song[key] = cell
  \/ song[key] \in {{}, {""}} /\ cell \in {{}, {""}}

LEMMA GoesOnFurther ==
  ASSUME NEW a, NEW b, NEW c, NEW V, BuilderOK(a, V), BuilderOK(b, V), BuilderOK(c, V),
         GoesOn(b, a), GoesOn(c, b)
  PROVE  GoesOn(c, a)
<1>1. /\ a.vars \in Nat /\ b.vars \in Nat /\ c.vars \in Nat
      /\ Len(a.values) \in Nat /\ Len(b.values) \in Nat /\ Len(c.values) \in Nat
  BY DEF BuilderOK
<1> QED  BY <1>1 DEF GoesOn

\* What one level adds.
LEMMA QueryFilterFacts ==
  ASSUME NEW K, NEW V, NEW b, BuilderOK(b, V), NEW key \in K, NEW value \in V
  PROVE  LET q == QueryFilter(b, key, value)
         IN  /\ Narrowing(q, b, K, V)
             /\ \A s, song : Reads(s, song, q) =>
                  (AllPass(s, song, q.clauses) <=> CellFits(song, key, {value}))
<1>1. b.vars \in Nat /\ b.values \in Seq(V) /\ Len(b.values) \in Nat
  BY DEF BuilderOK
<1>2. CASE value # ""
  <2>1. PICK q : q = QueryFilter(b, key, value)
    OBVIOUS
  <2>2. PICK n, values : n = Len(b.values) + 1 /\ values = Append(b.values, value)
    OBVIOUS
  <2>3. PICK c : c = Clause("same", key, n)
    OBVIOUS
  <2>4. /\ q.builder.vars = b.vars /\ q.builder.values = values /\ q.clauses = <<c>>
    BY <1>2, <2>1, <2>2, <2>3 DEF QueryFilter
  <2>5. /\ values \in Seq(V) /\ Len(values) = n /\ n \in Nat /\ values[n] = value
        /\ \A i \in 1 .. Len(b.values) : values[i] = b.values[i]
    BY <1>1, <2>2
  <2>6. /\ c.kind = "same" /\ c.key = key /\ c.id = n /\ c \in Clauses(K)
    BY <2>3, <2>5, ClauseFields
  <2>7. /\ q.clauses \in Seq(Clauses(K)) /\ DOMAIN q.clauses = 1 .. 1 /\ q.clauses[1] = c
    BY <2>4, <2>6
  <2>8. \A i \in DOMAIN q.clauses : q.clauses[i] = c
    BY <2>7
  <2>9. OwnVariables(q.clauses, b.vars .. q.builder.vars - 1)
    BY <2>6, <2>8 DEF OwnVariables, Binder
  <2>10. BuilderOK(q.builder, V) /\ GoesOn(q.builder, b)
    BY <1>1, <2>2, <2>4, <2>5 DEF BuilderOK, GoesOn
  <2>11. ASSUME NEW s, NEW song, Reads(s, song, q)
         PROVE  AllPass(s, song, q.clauses) <=> CellFits(song, key, {value})
    <3>1. s.values[n] = value
      <4>1. n \in 1 .. Len(q.builder.values)
        BY <1>1, <2>2, <2>4, <2>5
      <4> QED  BY <2>4, <2>5, <2>11, <4>1 DEF Reads
    <3>2. Passes(s, song, c) <=> song[key] = {value}
      BY <2>6, <3>1 DEF Passes
    <3>3. AllPass(s, song, q.clauses) <=> Passes(s, song, c)
      BY <2>7, <2>8 DEF AllPass
    <3>4. CellFits(song, key, {value}) <=> song[key] = {value}
      BY <1>2 DEF CellFits
    <3> QED  BY <3>2, <3>3, <3>4
  <2> QED  BY <2>1, <2>7, <2>9, <2>10, <2>11 DEF Narrowing
<1>3. CASE value = ""
  <2>1. PICK q : q = QueryFilter(b, key, value)
    OBVIOUS
  <2>2. PICK c, d : c = Clause("optional", key, b.vars) /\ d = Clause("unset", key, b.vars)
    OBVIOUS
  <2>3. /\ q.builder.vars = b.vars + 1 /\ q.builder.values = b.values
        /\ q.clauses = <<c, d>>
    BY <1>3, <2>1, <2>2 DEF QueryFilter
  <2>4. /\ c.kind = "optional" /\ c.key = key /\ c.id = b.vars /\ c \in Clauses(K)
        /\ d.kind = "unset" /\ d.key = key /\ d.id = b.vars /\ d \in Clauses(K)
    BY <1>1, <2>2, ClauseFields
  <2>5. /\ q.clauses \in Seq(Clauses(K)) /\ DOMAIN q.clauses = 1 .. 2
        /\ q.clauses[1] = c /\ q.clauses[2] = d
    BY <2>3, <2>4
  <2>6. \A i \in DOMAIN q.clauses : q.clauses[i] = c \/ q.clauses[i] = d
    BY <2>5
  <2>7. 1 \in DOMAIN q.clauses /\ 2 \in DOMAIN q.clauses
    BY <2>5
  <2>8. OwnVariables(q.clauses, b.vars .. q.builder.vars - 1)
    <3>1. b.vars \in b.vars .. q.builder.vars - 1
      BY <1>1, <2>3
    <3>2. Binder(c) /\ ~Binder(d)
      BY <2>4 DEF Binder
    <3>3. \A i \in DOMAIN q.clauses : Binder(q.clauses[i]) =>
            q.clauses[i].id \in b.vars .. q.builder.vars - 1 /\ q.clauses[i].key = key
      BY <2>4, <2>6, <3>1, <3>2
    <3>4. \A i \in DOMAIN q.clauses : q.clauses[i].id = b.vars /\ q.clauses[i].key = key
      BY <2>4, <2>6
    <3> QED  BY <2>4, <2>5, <2>7, <3>2, <3>3, <3>4 DEF OwnVariables
  <2>9. BuilderOK(q.builder, V) /\ GoesOn(q.builder, b)
    BY <1>1, <2>3 DEF BuilderOK, GoesOn
  <2>10. ASSUME NEW s, NEW song, Reads(s, song, q)
         PROVE  AllPass(s, song, q.clauses) <=> CellFits(song, key, {value})
    <3>1. ValueOf(s, song, b.vars) = song[key]
      BY <2>4, <2>5, <2>7, <2>10 DEF Reads
    <3>2. Passes(s, song, c)
      BY <2>4 DEF Passes
    <3>3. Passes(s, song, d) <=> song[key] \in {{}, {""}}
      BY <2>4, <3>1 DEF Passes
    <3>4. AllPass(s, song, q.clauses) <=> Passes(s, song, d)
      BY <2>5, <2>6, <2>7, <3>2 DEF AllPass
    <3>5. CellFits(song, key, {value}) <=> song[key] \in {{}, {""}}
      BY <1>3 DEF CellFits
    <3> QED  BY <3>3, <3>4, <3>5
  <2> QED  BY <2>1, <2>5, <2>8, <2>9, <2>10 DEF Narrowing
<1> QED  BY <1>2, <1>3

LEMMA NarrowedFacts ==
  ASSUME NEW K, NEW V, NEW b, BuilderOK(b, V), NEW w, Narrowing(w, b, K, V),
         NEW key \in K, NEW cell \in SUBSET V, \A u, v \in cell : u = v
  PROVE  LET q == Narrowed(w, key, cell)
         IN  /\ Narrowing(q, b, K, V)
             /\ \A s, song : Reads(s, song, q) =>
                  /\ Reads(s, song, w)
                  /\ AllPass(s, song, q.clauses)
                       <=> AllPass(s, song, w.clauses) /\ CellFits(song, key, cell)
<1>1. CASE cell = {}
  BY <1>1 DEF Narrowed, CellFits
<1>2. CASE cell # {}
  <2>1. PICK v \in V : v = (CHOOSE x \in cell : TRUE) /\ cell = {v}
    BY <1>2
  <2>2. PICK f : f = QueryFilter(w.builder, key, v)
    OBVIOUS
  <2>3. PICK q : q = Narrowed(w, key, cell)
    OBVIOUS
  <2>4. q.builder = f.builder /\ q.clauses = w.clauses \o f.clauses
    BY <1>2, <2>1, <2>2, <2>3 DEF Narrowed
  <2>5. /\ BuilderOK(w.builder, V) /\ GoesOn(w.builder, b) /\ w.clauses \in Seq(Clauses(K))
        /\ OwnVariables(w.clauses, b.vars .. w.builder.vars - 1)
    BY DEF Narrowing
  <2>6. /\ Narrowing(f, w.builder, K, V)
        /\ \A s, song : Reads(s, song, f) =>
             (AllPass(s, song, f.clauses) <=> CellFits(song, key, {v}))
    BY <2>2, <2>5, QueryFilterFacts
  <2>7. /\ BuilderOK(f.builder, V) /\ GoesOn(f.builder, w.builder)
        /\ f.clauses \in Seq(Clauses(K))
        /\ OwnVariables(f.clauses, w.builder.vars .. f.builder.vars - 1)
    BY <2>6 DEF Narrowing
  <2>8. /\ q.clauses \in Seq(Clauses(K)) /\ ElementsOf(q.clauses, w.clauses, f.clauses)
    <3>1. PICK T, x, y : T = Clauses(K) /\ x = w.clauses /\ y = f.clauses
      OBVIOUS
    <3>2. x \in Seq(T) /\ y \in Seq(T)
      BY <2>5, <2>7, <3>1
    <3>3. x \o y \in Seq(T) /\ ElementsOf(x \o y, x, y)
      BY <3>2, JoinedElements
    <3> QED  BY <2>4, <3>1, <3>3
  <2>9. GoesOn(q.builder, b) /\ BuilderOK(q.builder, V)
    BY <2>4, <2>5, <2>7, GoesOnFurther
  <2>10. OwnVariables(q.clauses, b.vars .. q.builder.vars - 1)
    <3>1. PICK I, J : I = b.vars .. w.builder.vars - 1 /\ J = w.builder.vars .. f.builder.vars - 1
      OBVIOUS
    <3>2. /\ b.vars \in Nat /\ w.builder.vars \in Nat /\ f.builder.vars \in Nat
          /\ b.vars <= w.builder.vars /\ w.builder.vars <= f.builder.vars
      BY <2>5, <2>7 DEF BuilderOK, GoesOn
    <3>3. \A i \in I : i \notin J
      BY <3>1, <3>2
    <3>4. I \cup J = b.vars .. q.builder.vars - 1
      BY <2>4, <3>1, <3>2
    <3>5. OwnVariables(w.clauses, I) /\ OwnVariables(f.clauses, J)
      BY <2>5, <2>7, <3>1
    <3>6. OwnVariables(q.clauses, I \cup J)
      BY <2>8, <3>3, <3>5, OwnBoth
    <3> QED  BY <3>4, <3>6
  <2>11. ASSUME NEW s, NEW song, Reads(s, song, q)
         PROVE  /\ Reads(s, song, w)
                /\ AllPass(s, song, q.clauses)
                     <=> AllPass(s, song, w.clauses) /\ CellFits(song, key, cell)
    <3>1. /\ \A i \in DOMAIN w.clauses : \E k \in DOMAIN q.clauses : q.clauses[k] = w.clauses[i]
          /\ \A i \in DOMAIN f.clauses : \E k \in DOMAIN q.clauses : q.clauses[k] = f.clauses[i]
          /\ \A k \in DOMAIN q.clauses : \/ \E i \in DOMAIN w.clauses : q.clauses[k] = w.clauses[i]
                                         \/ \E i \in DOMAIN f.clauses : q.clauses[k] = f.clauses[i]
      BY <2>8 DEF ElementsOf
    <3>2. \A c : c.kind # "same" /\ (\E k \in DOMAIN q.clauses : q.clauses[k] = c)
                   => ValueOf(s, song, c.id) = song[c.key]
      BY <2>11 DEF Reads
    <3>3. Reads(s, song, f)
      <4>1. \A i \in 1 .. Len(f.builder.values) : s.values[i] = f.builder.values[i]
        BY <2>4, <2>11 DEF Reads
      <4> QED  BY <3>1, <3>2, <4>1 DEF Reads
    <3>4. Reads(s, song, w)
      <4>1. /\ Len(w.builder.values) \in Nat /\ Len(f.builder.values) \in Nat
            /\ Len(w.builder.values) <= Len(f.builder.values)
            /\ \A i \in 1 .. Len(w.builder.values) : f.builder.values[i] = w.builder.values[i]
        BY <2>5, <2>7 DEF GoesOn, BuilderOK
      <4>2. \A i \in 1 .. Len(w.builder.values) : i \in 1 .. Len(f.builder.values)
        BY <4>1
      <4>3. \A i \in 1 .. Len(w.builder.values) : s.values[i] = w.builder.values[i]
        BY <2>4, <2>11, <4>1, <4>2 DEF Reads
      <4> QED  BY <3>1, <3>2, <4>3 DEF Reads
    <3>5. AllPass(s, song, q.clauses)
            <=> AllPass(s, song, w.clauses) /\ AllPass(s, song, f.clauses)
      BY <3>1 DEF AllPass
    <3>6. AllPass(s, song, f.clauses) <=> CellFits(song, key, {v})
      BY <2>6, <3>3
    <3> QED  BY <2>1, <3>4, <3>5, <3>6
  <2> QED  BY <2>3, <2>8, <2>9, <2>10, <2>11 DEF Narrowing
<1> QED  BY <1>1, <1>2

\* What a category demands.
CategoryFits(song, category) ==
  \A key \in {"genre", "artist", "album"} : CellFits(song, key, category[key])

\* A category with a value at most for each level.
CategoryOK(category, V) ==
  /\ category = [key \in {"genre", "artist", "album"} |-> category[key]]
  /\ \A key \in {"genre", "artist", "album"} :
       /\ category[key] \in SUBSET V
       /\ \A u, v \in category[key] : u = v

LEMMA CategoryFacts ==
  ASSUME NEW K, NEW V, NEW b, BuilderOK(b, V), {"genre", "artist", "album"} \subseteq K,
         NEW category, CategoryOK(category, V)
  PROVE  LET q == FilterFromCategory(b, category)
         IN  /\ Narrowing(q, b, K, V)
             /\ \A s, song : Reads(s, song, q) =>
                  (AllPass(s, song, q.clauses) <=> CategoryFits(song, category))
<1>1. PICK all : all = [builder |-> b, clauses |-> << >>]
  OBVIOUS
<1>2. PICK g, a, q : /\ g = Narrowed(all, "genre", category.genre)
                     /\ a = Narrowed(g, "artist", category.artist)
                     /\ q = Narrowed(a, "album", category.album)
  OBVIOUS
<1>3. FilterFromCategory(b, category) = q
  BY <1>1, <1>2 DEF FilterFromCategory
<1>4. /\ Narrowing(all, b, K, V) /\ all.clauses = << >>
  <2>1. all.builder = b /\ all.clauses = << >>
    BY <1>1
  <2>2. all.clauses \in Seq(Clauses(K)) /\ DOMAIN all.clauses = {}
    BY <2>1
  <2>3. GoesOn(b, b)
    BY DEF GoesOn, BuilderOK
  <2> QED  BY <2>1, <2>2, <2>3 DEF Narrowing, OwnVariables
<1>5. /\ category.genre \in SUBSET V /\ \A u, v \in category.genre : u = v
      /\ category.artist \in SUBSET V /\ \A u, v \in category.artist : u = v
      /\ category.album \in SUBSET V /\ \A u, v \in category.album : u = v
  BY DEF CategoryOK
<1>6. /\ Narrowing(g, b, K, V)
      /\ \A s, song : Reads(s, song, g) =>
           /\ Reads(s, song, all)
           /\ AllPass(s, song, g.clauses)
                <=> AllPass(s, song, all.clauses) /\ CellFits(song, "genre", category.genre)
  BY <1>2, <1>4, <1>5, NarrowedFacts
<1>7. /\ Narrowing(a, b, K, V)
      /\ \A s, song : Reads(s, song, a) =>
           /\ Reads(s, song, g)
           /\ AllPass(s, song, a.clauses)
                <=> AllPass(s, song, g.clauses) /\ CellFits(song, "artist", category.artist)
  BY <1>2, <1>5, <1>6, NarrowedFacts
<1>8. /\ Narrowing(q, b, K, V)
      /\ \A s, song : Reads(s, song, q) =>
           /\ Reads(s, song, a)
           /\ AllPass(s, song, q.clauses)
                <=> AllPass(s, song, a.clauses) /\ CellFits(song, "album", category.album)
  BY <1>2, <1>5, <1>7, NarrowedFacts
<1>9. \A s, song : AllPass(s, song, all.clauses)
  BY <1>4 DEF AllPass
<1>10. \A song : CategoryFits(song, category) <=> /\ CellFits(song, "genre", category.genre)
                                                  /\ CellFits(song, "artist", category.artist)
                                                  /\ CellFits(song, "album", category.album)
  BY DEF CategoryFits
<1>11. \A s, song : Reads(s, song, q) =>
         (AllPass(s, song, q.clauses) <=> CategoryFits(song, category))
  BY <1>6, <1>7, <1>8, <1>9, <1>10
<1> QED  BY <1>3, <1>8, <1>11

-----------------------------------------------------------------------------
(* The filter of the user in a statement.                                  *)

TextOf(filter) == IF filter = NoFilter THEN NoText ELSE Translation[filter]

LEMMA NoFilterIsNone == NoFilter \notin Filters
<1>1. NoFilter.type = "none"
  BY DEF NoFilter
<1>2. "none" \notin SimpleTypes \cup {"and", "or", "not"}
  BY DEF SimpleTypes
<1> QED  BY <1>1, <1>2, FilterFacts

\* The text of a sound filter is accepted where the filter is satisfied.
LEMMA TextOfSound ==
  ASSUME NEW filter \in Filters \cup {NoFilter}, Sound(filter)
  PROVE  /\ TextOf(filter) = NoText \/ Whole(TextOf(filter))
         /\ \A song : Satisfied(filter, song)
                        <=> \/ TextOf(filter).alternatives = << >>
                            \/ AtLeast(TextOf(filter), song, Yes)
<1>1. CASE filter = NoFilter
  <2>1. NoText.alternatives = << >>
    BY DEF NoText, Written
  <2> QED  BY <1>1, <2>1, SatisfiedFacts DEF TextOf
<1>2. CASE filter # NoFilter
  <2>1. filter \in Filters /\ Soundness[filter] /\ TextOf(filter) = Translation[filter]
    BY <1>2, SoundFacts DEF TextOf
  <2>2. Yes \in Truths /\ \A x \in Truths : x >= Yes <=> x = Yes
    BY DEF Truths, No, Error, Yes
  <2>3. ASSUME NEW song
        PROVE  /\ Whole(Translation[filter])
               /\ AtLeast(Translation[filter], song, Yes) <=> Judgements(song)[filter] >= Yes
    <3>1. SaysSo(filter, song)
      BY <2>1, SoundSaysSo
    <3> QED  BY <2>2, <3>1 DEF SaysSo
  <2>4. Whole(Translation[filter])
    BY <2>3
  <2>5. Translation[filter].alternatives # << >>
    BY <2>4 DEF Whole
  <2>6. ASSUME NEW song
        PROVE  Satisfied(filter, song) <=> AtLeast(Translation[filter], song, Yes)
    <3>1. Judgements(song)[filter] \in Truths
      BY <2>1, JudgementFacts
    <3> QED  BY <1>2, <2>2, <2>3, <3>1, SatisfiedFacts
  <2> QED  BY <2>1, <2>4, <2>5, <2>6
<1> QED  BY <1>1, <1>2

LEMMA TextsAreTyped ==
  ASSUME NEW w, w = NoText \/ Whole(w)
  PROVE  /\ w \in Texts /\ w.outcome = "ok"
         /\ w.terms \in Seq(Terms) /\ Len(w.terms) \in Nat /\ DOMAIN w.terms = 1 .. Len(w.terms)
<1>1. w \in Texts
  BY NoTextIsText DEF Whole
<1>2. w.outcome = "ok"
  BY DEF Whole, NoText, Written
<1>3. w.terms \in Seq(Terms)
  BY <1>1 DEF Texts
<1> QED  BY <1>1, <1>2, <1>3

\* Variables and values are numbered like the terms.
IsUser(u, w, K, V) ==
  LET n == Len(w.terms)
  IN  /\ u.outcome = "ok" /\ u.terms = w.terms /\ u.alternatives = w.alternatives
      /\ BuilderOK(u.builder, V) /\ u.builder.vars = n /\ Len(u.builder.values) = n
      /\ \A i \in 1 .. n : u.builder.values[i] = w.terms[i].value
      /\ u.clauses \in Seq(Clauses(K)) /\ DOMAIN u.clauses = 1 .. n
      /\ \A i \in 1 .. n : /\ u.clauses[i].kind = "optional"
                           /\ u.clauses[i].key = w.terms[i].key
                           /\ u.clauses[i].id = i - 1
      /\ OwnVariables(u.clauses, 0 .. n - 1)

LEMMA UserFilterFacts ==
  ASSUME NEW K, NEW V, \A f \in Filters : f.key \in K /\ f.value \in V,
         NEW filter \in Filters \cup {NoFilter}, NEW w, w = TextOf(filter),
         w = NoText \/ Whole(w)
  PROVE  IsUser(UserFilter(filter), w, K, V)
<1>1. /\ w.outcome = "ok" /\ w.terms \in Seq(Terms) /\ Len(w.terms) \in Nat
      /\ DOMAIN w.terms = 1 .. Len(w.terms)
  BY TextsAreTyped
<1>2. PICK u, n, terms : u = UserFilter(filter) /\ n = Len(w.terms) /\ terms = w.terms
  OBVIOUS
<1> DEFINE values == [i \in 1 .. n |-> terms[i].value]
           clauses == [i \in 1 .. n |-> Clause("optional", terms[i].key, i - 1)]
<1>3. /\ u.outcome = w.outcome /\ u.terms = w.terms /\ u.alternatives = w.alternatives
      /\ u.builder.vars = n /\ u.builder.values = values /\ u.clauses = clauses
  BY <1>1, <1>2 DEF UserFilter, TextOf, NoText
<1>4. \A i \in 1 .. n : terms[i].key \in K /\ terms[i].value \in V
  <2>1. \A i \in 1 .. n : terms[i] \in Terms
    BY <1>1, <1>2
  <2>2. \A t \in Terms : t.key \in K /\ t.value \in V
    BY DEF Terms
  <2> QED  BY <2>1, <2>2
<1>5. values \in Seq(V) /\ Len(values) = n /\ \A i \in 1 .. n : values[i] = terms[i].value
  <2>1. values \in [1 .. n -> V] /\ n \in Nat
    BY <1>1, <1>2, <1>4
  <2>2. \A i \in 1 .. n : values[i] = terms[i].value
    OBVIOUS
  <2> HIDE DEF values
  <2>3. values \in Seq(V) /\ Len(values) = n
    BY <2>1
  <2> QED  BY <2>2, <2>3
<1>6. \A i \in 1 .. n : /\ clauses[i] \in Clauses(K)
                        /\ clauses[i].kind = "optional"
                        /\ clauses[i].key = terms[i].key
                        /\ clauses[i].id = i - 1
  <2> SUFFICES ASSUME NEW i \in 1 .. n
               PROVE  /\ clauses[i] \in Clauses(K)
                      /\ clauses[i].kind = "optional"
                      /\ clauses[i].key = terms[i].key
                      /\ clauses[i].id = i - 1
    OBVIOUS
  <2>1. PICK key, id : key = terms[i].key /\ id = i - 1
    OBVIOUS
  <2>2. key \in K /\ id \in Nat /\ clauses[i] = Clause("optional", key, id)
    BY <1>2, <1>4, <2>1
  <2> HIDE DEF clauses
  <2> QED  BY <2>1, <2>2, ClauseFields
<1>7. clauses \in Seq(Clauses(K)) /\ DOMAIN clauses = 1 .. n
  <2>1. DOMAIN clauses = 1 .. n /\ clauses = [i \in 1 .. n |-> clauses[i]] /\ n \in Nat
    BY <1>1, <1>2
  <2> HIDE DEF clauses
  <2>2. clauses \in [1 .. n -> Clauses(K)]
    BY <1>6, <2>1
  <2> QED  BY <2>1, <2>2
<1> HIDE DEF values, clauses
<1>8. OwnVariables(clauses, 0 .. n - 1)
  <2>1. n \in Nat
    BY <1>1, <1>2
  <2>2. \A i, j \in 1 .. n : i - 1 = j - 1 => i = j
    BY <2>1
  <2>3. \A i \in 1 .. n : i - 1 \in 0 .. n - 1
    BY <2>1
  <2> QED  BY <1>6, <1>7, <2>2, <2>3 DEF OwnVariables
<1>9. BuilderOK(u.builder, V)
  BY <1>1, <1>2, <1>3, <1>5 DEF BuilderOK
<1> QED  BY <1>1, <1>2, <1>3, <1>5, <1>6, <1>7, <1>8, <1>9 DEF IsUser

\* The expression of a statement that takes the terms of a text as they are.
TakesTerms(s, song, w) ==
  /\ s.terms = w.terms /\ s.alternatives = w.alternatives
  /\ \A i \in 1 .. Len(w.terms) :
       /\ s.values[i] = w.terms[i].value
       /\ ValueOf(s, song, i - 1) = song[w.terms[i].key]

LEMMA ExpressionSays ==
  ASSUME NEW w, w = NoText \/ Whole(w), NEW s, NEW song, TakesTerms(s, song, w)
  PROVE  Expression(s, song) = Yes <=> w.alternatives = << >> \/ AtLeast(w, song, Yes)
<1> DEFINE literal(l) ==
             LET truth == Compared(s.terms[l.term].test, ValueOf(s, song, l.term - 1),
                                   s.values[l.term])
             IN  IF l.negated THEN Yes - truth ELSE truth
           conjunction(a) == Min({literal(a[j]) : j \in DOMAIN a})
<1>1. s.terms = w.terms /\ s.alternatives = w.alternatives
  BY DEF TakesTerms
<1>2. CASE w.alternatives = << >>
  BY <1>1, <1>2 DEF Expression
<1>3. CASE Whole(w)
  <2>1. /\ w.alternatives # << >> /\ w.alternatives \in Seq(Seq(Literals))
        /\ w.terms \in Seq(Terms)
        /\ \A i \in 1 .. Len(w.alternatives) : Fits(w.alternatives[i], Len(w.terms))
    BY <1>3, WholeFits DEF Texts
  <2>2. PICK n : n = Len(w.alternatives)
    OBVIOUS
  <2>3. n \in Nat \ {0} /\ DOMAIN w.alternatives = 1 .. n
    <3>1. PICK A : A = Seq(Literals)
      OBVIOUS
    <3> QED  BY <2>1, <2>2, <3>1
  <2>4. Expression(s, song) = Max({conjunction(w.alternatives[i]) : i \in 1 .. n})
    BY <1>1, <2>1, <2>3 DEF Expression
  <2>5. ASSUME NEW i \in 1 .. n
        PROVE  /\ conjunction(w.alternatives[i]) \in Truths
               /\ conjunction(w.alternatives[i]) >= Yes
                    <=> AllSay(w.terms, song, w.alternatives[i], Yes)
    <3>1. PICK a : a = w.alternatives[i]
      OBVIOUS
    <3>2. Fits(a, Len(w.terms))
      BY <2>1, <2>2, <3>1
    <3>3. /\ a \in Seq(Literals) /\ a # << >>
          /\ \A j \in 1 .. Len(a) : a[j].term \in 1 .. Len(w.terms)
      BY <3>2 DEF Fits
    <3>4. Len(a) \in Nat \ {0} /\ DOMAIN a = 1 .. Len(a)
      BY <3>3
    <3>5. ASSUME NEW j \in 1 .. Len(a)
          PROVE  literal(a[j]) = Says(w.terms, song, a[j])
      <4>1. PICK l : l = a[j]
        OBVIOUS
      <4>2. /\ s.values[l.term] = w.terms[l.term].value
            /\ ValueOf(s, song, l.term - 1) = song[w.terms[l.term].key]
        BY <3>3, <4>1 DEF TakesTerms
      <4> QED  BY <1>1, <4>1, <4>2 DEF Says
    <3>6. ASSUME NEW j \in 1 .. Len(a)
          PROVE  Says(w.terms, song, a[j]) \in Truths
      BY ComparedTyped DEF Says, Truths, No, Error, Yes
    <3> DEFINE parts == [j \in 1 .. Len(a) |-> Says(w.terms, song, a[j])]
    <3>7. conjunction(a) = Min({parts[j] : j \in DOMAIN parts})
      <4>1. {literal(a[j]) : j \in DOMAIN a} = {parts[j] : j \in DOMAIN parts}
        <5> HIDE DEF literal
        <5> QED  BY <3>4, <3>5
      <4> HIDE DEF literal, parts
      <4> QED  BY <4>1
    <3>8. DOMAIN parts = 1 .. Len(a) /\ \A j \in 1 .. Len(a) : parts[j] \in Truths
      BY <3>6
    <3>9. \A j \in 1 .. Len(a) : parts[j] = Says(w.terms, song, a[j])
      OBVIOUS
    <3> HIDE DEF parts
    <3>10. /\ Min({parts[j] : j \in DOMAIN parts}) \in Truths
           /\ \A t \in Truths : Min({parts[j] : j \in DOMAIN parts}) >= t
                                  <=> \A j \in 1 .. Len(a) : parts[j] >= t
      BY <3>4, <3>8, PartsJudged
    <3>11. Yes \in Truths
      BY DEF Truths
    <3> HIDE DEF conjunction
    <3> QED  BY <3>1, <3>7, <3>9, <3>10, <3>11 DEF AllSay
  <2> DEFINE parts == [i \in 1 .. n |-> conjunction(w.alternatives[i])]
  <2>6. {conjunction(w.alternatives[i]) : i \in 1 .. n} = {parts[i] : i \in DOMAIN parts}
    <3> HIDE DEF conjunction
    <3> QED  OBVIOUS
  <2>7. /\ DOMAIN parts = 1 .. n
        /\ \A i \in 1 .. n : /\ parts[i] \in Truths
                             /\ parts[i] >= Yes
                                  <=> AllSay(w.terms, song, w.alternatives[i], Yes)
    <3> HIDE DEF conjunction
    <3> QED  BY <2>5
  <2>8. Expression(s, song) = Max({parts[i] : i \in DOMAIN parts})
    <3> HIDE DEF conjunction, parts
    <3> QED  BY <2>4, <2>6
  <2> HIDE DEF parts
  <2>9. /\ Max({parts[i] : i \in DOMAIN parts}) \in Truths
        /\ \A t \in Truths : Max({parts[i] : i \in DOMAIN parts}) >= t
                               <=> \E i \in 1 .. n : parts[i] >= t
    BY <2>3, <2>7, PartsJudged
  <2>10. Yes \in Truths /\ \A x \in Truths : x >= Yes <=> x = Yes
    BY DEF Truths, No, Error, Yes
  <2>11. Expression(s, song) = Yes <=> \E i \in 1 .. n : parts[i] >= Yes
    BY <2>8, <2>9, <2>10
  <2> QED  BY <2>1, <2>2, <2>7, <2>11 DEF AtLeast
<1>4. NoText.alternatives = << >>
  BY DEF NoText, Written
<1> QED  BY <1>2, <1>3, <1>4

-----------------------------------------------------------------------------
(* Statements.                                                             *)

\* The clauses for fields and for aggregates.
FieldClauses(vars, fields) ==
  [i \in DOMAIN fields |-> Clause("optional", fields[i], vars + i - 1)]

Aggregating(aggregates) ==
  {i \in DOMAIN aggregates : aggregates[i] # Aggregate("count", "*")}

AggregateClauses(vars, aggregates) ==
  LET asked == Sorted(Aggregating(aggregates))
  IN [n \in DOMAIN asked |->
        Clause("required", aggregates[asked[n]].key, vars + asked[n] - 1)]

IsFieldClauses(c, vars, fields, K) ==
  /\ c \in Seq(Clauses(K)) /\ DOMAIN c = 1 .. Len(fields)
  /\ \A i \in 1 .. Len(fields) : /\ c[i].kind = "optional"
                                 /\ c[i].key = fields[i]
                                 /\ c[i].id = vars + i - 1
  /\ OwnVariables(c, vars .. vars + Len(fields) - 1)

LEMMA FieldClausesFacts ==
  ASSUME NEW K, NEW fields \in Seq(K), NEW vars \in Nat
  PROVE  IsFieldClauses(FieldClauses(vars, fields), vars, fields, K)
<1>1. PICK n : n = Len(fields)
  OBVIOUS
<1>2. n \in Nat /\ DOMAIN fields = 1 .. n /\ \A i \in 1 .. n : fields[i] \in K
  BY <1>1
<1> DEFINE c == FieldClauses(vars, fields)
<1>3. c = [i \in 1 .. n |-> Clause("optional", fields[i], vars + i - 1)]
  BY <1>2 DEF FieldClauses
<1> HIDE DEF c
<1>4. ASSUME NEW i \in 1 .. n
      PROVE  /\ c[i] \in Clauses(K) /\ c[i].kind = "optional"
             /\ c[i].key = fields[i] /\ c[i].id = vars + i - 1
  <2>1. PICK key, id : key = fields[i] /\ id = vars + i - 1
    OBVIOUS
  <2>2. key \in K /\ id \in Nat /\ c[i] = Clause("optional", key, id)
    BY <1>2, <1>3, <2>1
  <2> QED  BY <2>1, <2>2, ClauseFields
<1>5. c \in Seq(Clauses(K)) /\ DOMAIN c = 1 .. n
  <2>1. c \in [1 .. n -> Clauses(K)]
    BY <1>3, <1>4
  <2> QED  BY <1>2, <2>1
<1>6. OwnVariables(c, vars .. vars + n - 1)
  <2>1. \A i, j \in 1 .. n : vars + i - 1 = vars + j - 1 => i = j
    BY <1>2
  <2>2. \A i \in 1 .. n : vars + i - 1 \in vars .. vars + n - 1
    BY <1>2
  <2> QED  BY <1>4, <1>5, <2>1, <2>2 DEF OwnVariables
<1> QED  BY <1>1, <1>4, <1>5, <1>6 DEF c, IsFieldClauses

IsAggregateClauses(c, vars, aggregates, K) ==
  /\ c \in Seq(Clauses(K))
  /\ \A n \in DOMAIN c :
       /\ c[n].kind = "required"
       /\ \E i \in Aggregating(aggregates) : c[n].key = aggregates[i].key
  /\ \A i \in Aggregating(aggregates) : \E n \in DOMAIN c : c[n].key = aggregates[i].key
  /\ OwnVariables(c, vars .. vars + Len(aggregates) - 1)

LEMMA AggregateClausesFacts ==
  ASSUME NEW K, NEW A, \A a \in A : a.key \in K, NEW aggregates \in Seq(A), NEW vars \in Nat
  PROVE  IsAggregateClauses(AggregateClauses(vars, aggregates), vars, aggregates, K)
<1>1. PICK n, I, asked : /\ n = Len(aggregates) /\ I = Aggregating(aggregates)
                         /\ asked = Sorted(I)
  OBVIOUS
<1>2. n \in Nat /\ DOMAIN aggregates = 1 .. n /\ \A i \in 1 .. n : aggregates[i].key \in K
  BY <1>1
<1>3. I \in SUBSET (1 .. n) /\ I \in SUBSET Nat /\ IsFiniteSet(I)
  <2>1. I \in SUBSET DOMAIN aggregates
    BY <1>1 DEF Aggregating
  <2> QED  BY <1>2, <2>1, PlacesFinite
<1>4. PICK m : m = Cardinality(I)
  OBVIOUS
<1>5. /\ m \in Nat /\ asked \in [1 .. m -> I]
      /\ \A i \in I : \E k \in 1 .. m : asked[k] = i
      /\ \A j, k \in 1 .. m : j < k => asked[j] < asked[k]
  BY <1>1, <1>3, <1>4, SortedFacts
<1> DEFINE c == AggregateClauses(vars, aggregates)
<1>6. c = [k \in 1 .. m |-> Clause("required", aggregates[asked[k]].key, vars + asked[k] - 1)]
  BY <1>1, <1>5 DEF AggregateClauses
<1> HIDE DEF c
<1>7. \A k \in 1 .. m : asked[k] \in I /\ asked[k] \in 1 .. n
  BY <1>3, <1>5
<1>8. ASSUME NEW k \in 1 .. m
      PROVE  /\ c[k] \in Clauses(K) /\ c[k].kind = "required"
             /\ c[k].key = aggregates[asked[k]].key /\ c[k].id = vars + asked[k] - 1
  <2>1. PICK key, id : key = aggregates[asked[k]].key /\ id = vars + asked[k] - 1
    OBVIOUS
  <2>2. key \in K /\ id \in Nat /\ c[k] = Clause("required", key, id)
    BY <1>2, <1>6, <1>7, <2>1
  <2> QED  BY <2>1, <2>2, ClauseFields
<1>9. c \in Seq(Clauses(K)) /\ DOMAIN c = 1 .. m
  <2>1. c \in [1 .. m -> Clauses(K)]
    BY <1>6, <1>8
  <2> QED  BY <1>5, <2>1
<1>10. OwnVariables(c, vars .. vars + n - 1)
  <2>1. \A j, k \in 1 .. m : vars + asked[j] - 1 = vars + asked[k] - 1 => asked[j] = asked[k]
    BY <1>7
  <2>2. \A k \in 1 .. m : vars + asked[k] - 1 \in vars .. vars + n - 1
    BY <1>2, <1>7
  <2>3. \A k \in DOMAIN c : c[k].kind = "required" /\ c[k].id \in vars .. vars + n - 1
    BY <1>8, <1>9, <2>2
  <2>4. ASSUME NEW j \in DOMAIN c, NEW k \in DOMAIN c, c[j].id = c[k].id
        PROVE  c[j].key = c[k].key
    <3>1. asked[j] = asked[k]
      BY <1>8, <1>9, <2>1, <2>4
    <3> QED  BY <1>8, <1>9, <3>1
  <2> QED  BY <2>3, <2>4 DEF OwnVariables
<1>11. \A i \in I : \E k \in DOMAIN c : c[k].key = aggregates[i].key
  BY <1>5, <1>8, <1>9
<1>12. \A k \in DOMAIN c : /\ c[k].kind = "required"
                           /\ \E i \in I : c[k].key = aggregates[i].key
  BY <1>7, <1>8, <1>9
<1>13. IsAggregateClauses(c, vars, aggregates, K)
  BY <1>1, <1>9, <1>10, <1>11, <1>12 DEF IsAggregateClauses
<1> QED  BY <1>13 DEF c

\* What a statement asks for: the properties "fields" of the songs of the category
\* that satisfy the filter, if they have what is to be added up.
Asks(s, type, fields, aggregates, category, filter) ==
  /\ s.type = type /\ s.fields = fields /\ s.aggregates = aggregates
  /\ \A song :
       /\ Accepts(s, song) <=>
            /\ CategoryFits(song, category)
            /\ \A i \in Aggregating(aggregates) : song[aggregates[i].key] # {}
            /\ Satisfied(filter, song)
       /\ \A k \in 1 .. Len(fields) : ValueOf(s, song, s.first + k - 1) = song[fields[k]]

\* A statement with clauses of its own for fields and aggregates, for the
\* category and for the filter of the user.
THEOREM StatementAsks ==
  ASSUME NEW K, NEW V, {"genre", "artist", "album"} \subseteq K,
         \A f \in Filters : f.key \in K /\ f.value \in V,
         NEW A, \A a \in A : a.key \in K, NEW aggregates \in Seq(A), NEW fields \in Seq(K),
         NEW filter \in Filters \cup {NoFilter}, Sound(filter),
         NEW category, CategoryOK(category, V), NEW type, NEW unique
  PROVE  \A user, narrowed, s :
           /\ user = UserFilter(filter)
           /\ narrowed = FilterFromCategory(user.builder, category)
           /\ s = Create(narrowed.builder, type, unique, fields, aggregates,
                         narrowed.clauses, user)
           => user.outcome = "ok" /\ Asks(s, type, fields, aggregates, category, filter)
<1>1. PICK w : w = TextOf(filter)
  OBVIOUS
<1>2. /\ w = NoText \/ Whole(w)
      /\ \A song : Satisfied(filter, song) <=> w.alternatives = << >> \/ AtLeast(w, song, Yes)
  BY <1>1, TextOfSound
<1>3. PICK user, n : user = UserFilter(filter) /\ n = Len(w.terms)
  OBVIOUS
<1>4. n \in Nat
  BY <1>2, <1>3, TextsAreTyped
<1>5. /\ user.outcome = "ok" /\ user.terms = w.terms /\ user.alternatives = w.alternatives
      /\ BuilderOK(user.builder, V) /\ user.builder.vars = n /\ Len(user.builder.values) = n
      /\ \A i \in 1 .. n : user.builder.values[i] = w.terms[i].value
      /\ user.clauses \in Seq(Clauses(K)) /\ DOMAIN user.clauses = 1 .. n
      /\ \A i \in 1 .. n : /\ user.clauses[i].kind = "optional"
                           /\ user.clauses[i].key = w.terms[i].key
                           /\ user.clauses[i].id = i - 1
      /\ OwnVariables(user.clauses, 0 .. n - 1)
  <2>1. IsUser(user, w, K, V)
    BY <1>1, <1>2, <1>3, UserFilterFacts
  <2> QED  BY <1>3, <2>1 DEF IsUser
<1>6. PICK q : q = FilterFromCategory(user.builder, category)
  OBVIOUS
<1>7. /\ Narrowing(q, user.builder, K, V)
      /\ \A s, song : Reads(s, song, q) =>
           (AllPass(s, song, q.clauses) <=> CategoryFits(song, category))
  BY <1>5, <1>6, CategoryFacts
<1>8. PICK vars, m, l : vars = q.builder.vars /\ m = Len(fields) /\ l = Len(aggregates)
  OBVIOUS
<1>9. /\ vars \in Nat /\ n <= vars /\ n <= Len(q.builder.values)
      /\ \A i \in 1 .. n : q.builder.values[i] = w.terms[i].value
      /\ q.clauses \in Seq(Clauses(K)) /\ OwnVariables(q.clauses, n .. vars - 1)
      /\ q.builder.values \in Seq(V)
  BY <1>5, <1>7, <1>8 DEF Narrowing, BuilderOK, GoesOn
<1>10. m \in Nat /\ l \in Nat
  BY <1>8
<1>11. PICK f, a : /\ f = FieldClauses(vars, fields)
                   /\ a = AggregateClauses(vars + m, aggregates)
  OBVIOUS
<1>12. /\ f \in Seq(Clauses(K)) /\ DOMAIN f = 1 .. m
       /\ \A i \in 1 .. m : f[i].kind = "optional" /\ f[i].key = fields[i] /\ f[i].id = vars + i - 1
       /\ OwnVariables(f, vars .. vars + m - 1)
  <2>1. IsFieldClauses(f, vars, fields, K)
    BY <1>9, <1>11, FieldClausesFacts
  <2> QED  BY <1>8, <2>1 DEF IsFieldClauses
<1>13. /\ a \in Seq(Clauses(K))
       /\ \A k \in DOMAIN a : /\ a[k].kind = "required"
                              /\ \E i \in Aggregating(aggregates) : a[k].key = aggregates[i].key
       /\ \A i \in Aggregating(aggregates) : \E k \in DOMAIN a : a[k].key = aggregates[i].key
       /\ OwnVariables(a, vars + m .. vars + m + l - 1)
  <2>1. vars + m \in Nat
    BY <1>9, <1>10
  <2>2. IsAggregateClauses(a, vars + m, aggregates, K)
    BY <1>11, <2>1, AggregateClausesFacts
  <2> QED  BY <1>8, <2>2 DEF IsAggregateClauses
<1>14. PICK s : s = Create(q.builder, type, unique, fields, aggregates, q.clauses, user)
  OBVIOUS
<1>15. PICK c : c = q.clauses
  OBVIOUS
<1>16. PICK u : u = user.clauses
  OBVIOUS
<1>17. /\ s.type = type /\ s.first = vars
       /\ s.fields = fields /\ s.aggregates = aggregates
       /\ s.terms = w.terms /\ s.alternatives = w.alternatives /\ s.values = q.builder.values
  BY <1>5, <1>8, <1>14 DEF Create
<1>18. s.clauses = f \o a \o c \o u
  BY <1>8, <1>11, <1>14, <1>15, <1>16
     DEF Create, FieldClauses, AggregateClauses, Aggregating
<1>19. PICK T : T = Clauses(K)
  OBVIOUS
<1>20. f \in Seq(T) /\ a \in Seq(T) /\ c \in Seq(T) /\ u \in Seq(T)
  BY <1>5, <1>9, <1>12, <1>13, <1>15, <1>16, <1>19
<1>21. PICK x : x = f \o a
  OBVIOUS
<1>22. x \in Seq(T) /\ ElementsOf(x, f, a)
  BY <1>20, <1>21, JoinedElements
<1>23. PICK y : y = x \o c
  OBVIOUS
<1>24. y \in Seq(T) /\ ElementsOf(y, x, c)
  BY <1>20, <1>22, <1>23, JoinedElements
<1>25. PICK z : z = y \o u
  OBVIOUS
<1>26. z \in Seq(T) /\ ElementsOf(z, y, u)
  BY <1>20, <1>24, <1>25, JoinedElements
<1>27. s.clauses = z
  BY <1>18, <1>21, <1>23, <1>25
<1>28. \E I : OwnVariables(z, I)
  <2>1. PICK F, G, C, U : /\ F = vars .. vars + m - 1 /\ G = vars + m .. vars + m + l - 1
                          /\ C = n .. vars - 1 /\ U = 0 .. n - 1
    OBVIOUS
  <2>2. /\ \A i \in F : i \notin G
        /\ \A i \in F \cup G : i \notin C
        /\ \A i \in (F \cup G) \cup C : i \notin U
    BY <1>4, <1>9, <1>10, <2>1
  <2>3. OwnVariables(x, F \cup G)
    BY <1>12, <1>13, <1>22, <2>1, <2>2, OwnBoth
  <2>4. OwnVariables(c, C)
    BY <1>9, <1>15, <2>1
  <2>5. OwnVariables(y, (F \cup G) \cup C)
    BY <1>24, <2>2, <2>3, <2>4, OwnBoth
  <2>6. OwnVariables(u, U)
    BY <1>5, <1>16, <2>1
  <2>7. OwnVariables(z, ((F \cup G) \cup C) \cup U)
    BY <1>26, <2>2, <2>5, <2>6, OwnBoth
  <2> QED  BY <2>7
<1>29. ASSUME NEW song, NEW d, d.kind # "same", \E i \in DOMAIN z : z[i] = d
       PROVE  ValueOf(s, song, d.id) = song[d.key]
  <2>1. PICK I : OwnVariables(s.clauses, I)
    BY <1>27, <1>28
  <2>2. s.clauses \in Seq(Clauses(K))
    BY <1>19, <1>26, <1>27
  <2>3. PICK i \in DOMAIN s.clauses : s.clauses[i] = d
    BY <1>27, <1>29
  <2> QED  BY <1>29, <2>1, <2>2, <2>3, OwnValue
\* The clauses of each part are among those of the statement.
<1>30. /\ \A i \in DOMAIN f : \E k \in DOMAIN z : z[k] = f[i]
       /\ \A i \in DOMAIN a : \E k \in DOMAIN z : z[k] = a[i]
       /\ \A i \in DOMAIN c : \E k \in DOMAIN z : z[k] = c[i]
       /\ \A i \in DOMAIN u : \E k \in DOMAIN z : z[k] = u[i]
       /\ \A k \in DOMAIN z : \/ \E i \in DOMAIN f : z[k] = f[i]
                              \/ \E i \in DOMAIN a : z[k] = a[i]
                              \/ \E i \in DOMAIN c : z[k] = c[i]
                              \/ \E i \in DOMAIN u : z[k] = u[i]
  <2>1. /\ \A i \in DOMAIN y : \E k \in DOMAIN z : z[k] = y[i]
        /\ \A i \in DOMAIN u : \E k \in DOMAIN z : z[k] = u[i]
        /\ \A k \in DOMAIN z : \/ \E i \in DOMAIN y : z[k] = y[i]
                               \/ \E i \in DOMAIN u : z[k] = u[i]
    BY <1>26 DEF ElementsOf
  <2>2. /\ \A i \in DOMAIN x : \E k \in DOMAIN y : y[k] = x[i]
        /\ \A i \in DOMAIN c : \E k \in DOMAIN y : y[k] = c[i]
        /\ \A k \in DOMAIN y : \/ \E i \in DOMAIN x : y[k] = x[i]
                               \/ \E i \in DOMAIN c : y[k] = c[i]
    BY <1>24 DEF ElementsOf
  <2>3. /\ \A i \in DOMAIN f : \E k \in DOMAIN x : x[k] = f[i]
        /\ \A i \in DOMAIN a : \E k \in DOMAIN x : x[k] = a[i]
        /\ \A k \in DOMAIN x : \/ \E i \in DOMAIN f : x[k] = f[i]
                               \/ \E i \in DOMAIN a : x[k] = a[i]
    BY <1>22 DEF ElementsOf
  <2> QED  BY <2>1, <2>2, <2>3
<1>31. ASSUME NEW song
       PROVE  /\ Accepts(s, song) <=>
                   /\ CategoryFits(song, category)
                   /\ \A i \in Aggregating(aggregates) : song[aggregates[i].key] # {}
                   /\ Satisfied(filter, song)
              /\ \A k \in 1 .. m : ValueOf(s, song, s.first + k - 1) = song[fields[k]]
  <2>1. Reads(s, song, q)
    <3>1. ASSUME NEW i \in DOMAIN q.clauses, q.clauses[i].kind # "same"
          PROVE  ValueOf(s, song, q.clauses[i].id) = song[q.clauses[i].key]
      <4>1. PICK d : d = q.clauses[i]
        OBVIOUS
      <4>2. d.kind # "same" /\ \E k \in DOMAIN z : z[k] = d
        BY <1>15, <1>30, <3>1, <4>1
      <4>3. ValueOf(s, song, d.id) = song[d.key]
        BY <1>29, <4>2
      <4> QED  BY <4>1, <4>3
    <3> QED  BY <1>17, <3>1 DEF Reads
  <2>2. AllPass(s, song, c) <=> CategoryFits(song, category)
    BY <1>7, <1>15, <2>1
  <2>3. AllPass(s, song, f) /\ AllPass(s, song, u)
    BY <1>5, <1>12, <1>16 DEF AllPass, Passes
  <2>4. AllPass(s, song, a) <=> \A i \in Aggregating(aggregates) : song[aggregates[i].key] # {}
    <3>1. \A k \in DOMAIN a : Passes(s, song, a[k]) <=> song[a[k].key] # {}
      <4> SUFFICES ASSUME NEW k \in DOMAIN a
                   PROVE  Passes(s, song, a[k]) <=> song[a[k].key] # {}
        OBVIOUS
      <4>1. PICK d : d = a[k]
        OBVIOUS
      <4>2. d.kind = "required" /\ \E i \in DOMAIN z : z[i] = d
        BY <1>13, <1>30, <4>1
      <4>3. ValueOf(s, song, d.id) = song[d.key]
        BY <1>29, <4>2
      <4> QED  BY <4>1, <4>2, <4>3 DEF Passes
    <3> QED  BY <1>13, <3>1 DEF AllPass
  <2>5. AllPass(s, song, z) <=> /\ AllPass(s, song, f) /\ AllPass(s, song, a)
                                /\ AllPass(s, song, c) /\ AllPass(s, song, u)
    BY <1>30 DEF AllPass
  <2>6. TakesTerms(s, song, w)
    <3>1. \A i \in 1 .. n : s.values[i] = w.terms[i].value
      BY <1>9, <1>17
    <3>2. \A i \in 1 .. n : ValueOf(s, song, i - 1) = song[w.terms[i].key]
      <4> SUFFICES ASSUME NEW i \in 1 .. n
                   PROVE  ValueOf(s, song, i - 1) = song[w.terms[i].key]
        OBVIOUS
      <4>1. PICK d : d = u[i]
        OBVIOUS
      <4>2. /\ d.kind = "optional" /\ d.key = w.terms[i].key /\ d.id = i - 1
            /\ \E k \in DOMAIN z : z[k] = d
        BY <1>5, <1>16, <1>30, <4>1
      <4>3. ValueOf(s, song, d.id) = song[d.key]
        BY <1>29, <4>2
      <4> QED  BY <4>2, <4>3
    <3> QED  BY <1>3, <1>17, <3>1, <3>2 DEF TakesTerms
  <2>7. Expression(s, song) = Yes <=> Satisfied(filter, song)
    BY <1>2, <2>6, ExpressionSays
  <2>8. Accepts(s, song) <=> AllPass(s, song, z) /\ Expression(s, song) = Yes
    BY <1>27 DEF Accepts, AllPass
  <2>9. ASSUME NEW k \in 1 .. m
        PROVE  ValueOf(s, song, s.first + k - 1) = song[fields[k]]
    <3>1. PICK d : d = f[k]
      OBVIOUS
    <3>2. /\ d.kind = "optional" /\ d.key = fields[k] /\ d.id = vars + k - 1
          /\ \E i \in DOMAIN z : z[i] = d
      BY <1>12, <1>30, <3>1
    <3>3. ValueOf(s, song, d.id) = song[d.key]
      BY <1>29, <3>2
    <3> QED  BY <1>17, <3>2, <3>3
  <2> QED  BY <2>2, <2>3, <2>4, <2>5, <2>7, <2>8, <2>9
<1>32. user.outcome = "ok" /\ Asks(s, type, fields, aggregates, category, filter)
  BY <1>5, <1>8, <1>17, <1>31 DEF Asks
<1> QED  BY <1>3, <1>6, <1>14, <1>32
=============================================================================
