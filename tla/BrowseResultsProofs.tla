------------------------ MODULE BrowseResultsProofs ------------------------
(***************************************************************************)
(* What browse operations deliver, for every number of requests and rows:  *)
(* the items of a closure's list, all of them, in their order, within the  *)
(* window asked for, and counted down as the contract has it.              *)
(*                                                                         *)
(* BrowseProofs keeps counters and callbacks in phase, whatever the        *)
(* callbacks carry.  RInv adds what they carry: which items the list of a  *)
(* closure may have at each stage (ListOK), that the log is that list as   *)
(* far as it has been emitted (ToldOK), and which rows of the playlists    *)
(* category have had a nested browse (UntimedOK, NestedExact).             *)
(***************************************************************************)
EXTENDS BrowseProofs

-----------------------------------------------------------------------------
(* What the list of a closure holds.                                       *)

\* The order of DeliveredInOrder, of two items and of a list.
Before(x, y) ==
  \/ x[1] = y[1] /\ x[2] < y[2]
  \/ x[1] = "song" /\ y[1] = "row"

Ascending(s) == \A i, j \in 1 .. Len(s) : i < j => Before(s[i], s[j])

\* No more items than asked for, each from the window of the call.
Within(o, s) ==
  /\ Len(s) <= o.asked
  /\ \A k \in 1 .. Len(s) : /\ s[k][1] \in Labels \ {"none"}
                            /\ s[k][2] \in o.offset + 1 .. o.offset + o.asked

\* Music has five children, the root two.
Children(s) ==
  /\ Len(s) <= 5
  /\ \A k \in 1 .. Len(s) : s[k][1] = "child" /\ s[k][2] \in 1 .. 5

\* What was asked, and which phases each kind of target goes through.
AskedOK(o) ==
  /\ o.offset \in Skips \cup {0}
  /\ o.target = "invalid" => o.phase = "none"
  /\ o.target # "invalid" => o.asked \in 1 .. MaxRows
  /\ o.phase \in {"songs", "query"} => o.target \in {"category", "root_all"}
  /\ o.phase = "children" => o.target \in {"root", "music"}
  /\ o.phase \in {"playlists", "durations", "nested"} => o.target = "playlists"
  /\ o.phase \in {"entries", "orphaned", "unparsed"} => o.target = "playlist"

\* The list itself, and the entries of a playlist.
Listed(o) ==
  /\ o.target \in {"root", "music"} => Children(o.ids)
  /\ o.target \notin {"root", "music"} =>
       /\ Within(o, o.ids) /\ Within(o, o.uris) /\ Ascending(o.uris)
       /\ ~ (o.target = "playlist" /\ o.uris = << >>) => Ascending(o.ids)

\* The list, and the room that is left in the window for more of it.
ListOK(o) ==
  /\ Listed(o)
  /\ o.phase \in {"songs", "query", "playlists"} =>
       o.count > 0 /\ Len(o.ids) + o.count <= o.asked
  /\ o.phase = "songs" => o.ids = << >>
  /\ o.phase = "query" => \A k \in 1 .. Len(o.ids) : o.ids[k][1] = "song"
  /\ o.phase = "children" =>
       o.waiting \subseteq 1 .. 5 /\ Len(o.ids) + o.remaining_count <= 5

\* Each callback carried the next item of the list, with its countdown.
Told(o, l) ==
  /\ Len(l) <= Len(o.ids)
  /\ \A k \in 1 .. Len(l) :
       l[k] = Callback(o.ids[k], Len(o.ids) - k, k - 1, FALSE)

ToldOK(o, l) ==
  /\ o.phase \notin {"emitting", "freed"} => l \in {<< >>, <<ErrorCallback>>}
  /\ o.phase = "emitting" => /\ Told(o, l)
                             /\ o.current = Len(l) /\ o.current_index = Len(l)
  /\ o.phase = "freed" =>
       \/ o.ids = << >> /\ l = <<Callback(NoItem, 0, 0, FALSE)>>
       \/ Told(o, l) /\ (~ o.cancelled => Len(l) = Len(o.ids) /\ Len(l) > 0)

\* Playlists there are to go through: an empty answer leaves one entry.
Entries(o) == IF o.ids = << >> THEN 1 ELSE Len(o.ids)

UntimedOK(o) ==
  /\ o.phase \notin {"durations", "nested", "emitting", "freed"} => o.untimed = {}
  /\ o.phase \in {"durations", "nested"} => /\ o.untimed \subseteq 1 .. Entries(o)
                                            /\ o.current <= Entries(o)
  /\ o.phase = "nested" => o.current + 1 \in o.untimed

ResultsOK(o, l) == AskedOK(o) /\ ListOK(o) /\ ToldOK(o, l) /\ UntimedOK(o)

\* The rows of a closure that have had a nested browse.
AskedRows(o) ==
  CASE o.phase = "durations" -> {row \in o.untimed : row <= o.current}
    [] o.phase = "nested" -> {row \in o.untimed : row <= o.current + 1}
    [] OTHER -> o.untimed

\* A nested browse is there for exactly those, and for each there is one.
NestedExact ==
  /\ \A c \in Calls : \A row \in Nat :
       (\E d \in Calls : op[d].of = <<c, row>>) <=> row \in AskedRows(op[c])
  /\ \A d, e \in Calls : op[d].of[1] # 0 /\ op[d].of = op[e].of => d = e

RInv ==
  /\ IInv
  /\ \A c \in Calls : ResultsOK(op[c], log[c])
  /\ NestedExact

-----------------------------------------------------------------------------
(* Lemmas about lists.                                                     *)

\* Rows of an answer, and a reversed playlist, item by item.
LEMMA RowsFacts ==
  ASSUME NEW label \in Labels, NEW offset \in Nat, NEW n \in Nat
  PROVE  /\ Rows(label, offset, n) \in Seq(Item)
         /\ Backwards(label, offset, n) \in Seq(Item)
         /\ Len(Rows(label, offset, n)) = n
         /\ Len(Backwards(label, offset, n)) = n
         /\ \A k \in 1 .. n :
              /\ Rows(label, offset, n)[k] = <<label, offset + k>>
              /\ Backwards(label, offset, n)[k] = <<label, offset + (n + 1 - k)>>
<1>1. Rows(label, offset, n) \in Seq(Item) /\ Backwards(label, offset, n) \in Seq(Item)
  BY RowsType
<1>2. DOMAIN Rows(label, offset, n) = 1 .. n /\ DOMAIN Backwards(label, offset, n) = 1 .. n
  BY DEF Rows, Backwards
<1>3. Len(Rows(label, offset, n)) = n /\ Len(Backwards(label, offset, n)) = n
  BY <1>1, <1>2
<1>4. QED
  BY <1>1, <1>3 DEF Rows, Backwards

\* They are within the window they were asked for, and in order.
LEMMA RowsWithin ==
  ASSUME NEW o \in Op, NEW label \in Labels \ {"none"}, NEW n \in Nat, n <= o.asked
  PROVE  /\ Within(o, Rows(label, o.offset, n))
         /\ Within(o, Backwards(label, o.offset, n))
         /\ Ascending(Rows(label, o.offset, n))
<1>1. o.offset \in Nat /\ o.asked \in Nat /\ label \in Labels
  BY OpFields
<1>2. /\ Len(Rows(label, o.offset, n)) = n
      /\ Len(Backwards(label, o.offset, n)) = n
      /\ \A k \in 1 .. n :
           /\ Rows(label, o.offset, n)[k] = <<label, o.offset + k>>
           /\ Backwards(label, o.offset, n)[k] = <<label, o.offset + (n + 1 - k)>>
  BY <1>1, RowsFacts
<1>3. \A k \in 1 .. n : /\ o.offset + k \in o.offset + 1 .. o.offset + o.asked
                        /\ o.offset + (n + 1 - k) \in o.offset + 1 .. o.offset + o.asked
  BY <1>1
<1>4. \A i, j \in 1 .. n : i < j => o.offset + i < o.offset + j
  BY <1>1
<1>5. QED
  BY <1>2, <1>3, <1>4, SMTT(30) DEF Within, Ascending, Before

\* A list of songs, with rows put after it.
LEMMA MoreWithin ==
  ASSUME NEW o \in Op, NEW ids \in Seq(Item), Within(o, ids), Ascending(ids),
         \A k \in 1 .. Len(ids) : ids[k][1] = "song",
         NEW label \in Labels \ {"none"}, NEW n \in Nat, Len(ids) + n <= o.asked,
         label = "row" \/ ids = << >>
  PROVE  LET more == ids \o Rows(label, o.offset, n)
         IN  /\ more \in Seq(Item) /\ Len(more) = Len(ids) + n
             /\ Within(o, more) /\ Ascending(more)
             /\ label = "song" => \A k \in 1 .. Len(more) : more[k][1] = "song"
<1> DEFINE rows == Rows(label, o.offset, n)
           more == ids \o rows
<1> HIDE DEF rows, more
<1>1. o.offset \in Nat /\ o.asked \in Nat /\ label \in Labels /\ Len(ids) \in Nat
  BY OpFields
<1>2. /\ rows \in Seq(Item) /\ Len(rows) = n
      /\ \A k \in 1 .. n : rows[k] = <<label, o.offset + k>>
  <2>1. Rows(label, o.offset, n) \in Seq(Item)
    BY <1>1, RowsFacts
  <2>2. Len(Rows(label, o.offset, n)) = n
    BY <1>1, RowsFacts
  <2>3. \A k \in 1 .. n : Rows(label, o.offset, n)[k] = <<label, o.offset + k>>
    BY DEF Rows
  <2>4. QED
    BY <2>1, <2>2, <2>3 DEF rows
<1>3. /\ more \in Seq(Item) /\ Len(more) = Len(ids) + n
      /\ \A k \in 1 .. Len(ids) + n :
           more[k] = IF k <= Len(ids) THEN ids[k] ELSE rows[k - Len(ids)]
  <2>1. /\ more \in Seq(Item) /\ Len(more) = Len(ids) + Len(rows)
        /\ \A k \in 1 .. Len(ids) + Len(rows) :
             more[k] = IF k <= Len(ids) THEN ids[k] ELSE rows[k - Len(ids)]
    <3>1. PICK t \in Seq(Item) : t = rows
      BY <1>2
    <3>2. LET w == ids \o t
          IN  /\ w \in Seq(Item) /\ Len(w) = Len(ids) + Len(t)
              /\ \A k \in 1 .. Len(ids) + Len(t) :
                   w[k] = IF k <= Len(ids) THEN ids[k] ELSE t[k - Len(ids)]
      BY ConcatProperties
    <3>3. QED
      BY <3>1, <3>2 DEF more
  <2>2. QED
    BY <1>2, <2>1
<1>4. \A k \in 1 .. Len(ids) : more[k] = ids[k]
  BY <1>1, <1>3
<1>5. \A k \in Len(ids) + 1 .. Len(ids) + n :
        more[k] = <<label, o.offset + (k - Len(ids))>>
  <2>1. \A k \in Len(ids) + 1 .. Len(ids) + n : k - Len(ids) \in 1 .. n /\ ~ (k <= Len(ids))
    BY <1>1
  <2>2. QED
    BY <1>1, <1>2, <1>3, <2>1
<1>6. \A k \in 1 .. Len(ids) + n : k \in 1 .. Len(ids) \/ k \in Len(ids) + 1 .. Len(ids) + n
  BY <1>1
<1>7. Within(o, more)
  <2>1. \A k \in Len(ids) + 1 .. Len(ids) + n :
          o.offset + (k - Len(ids)) \in o.offset + 1 .. o.offset + o.asked
    BY <1>1
  <2>2. QED
    BY <1>3, <1>4, <1>5, <1>6, <2>1 DEF Within
<1>8. Ascending(more)
  <2>1. SUFFICES ASSUME NEW i \in 1 .. Len(ids) + n, NEW j \in 1 .. Len(ids) + n, i < j
                 PROVE  Before(more[i], more[j])
    BY <1>3 DEF Ascending
  <2>2. CASE j \in 1 .. Len(ids)
    <3>1. i \in 1 .. Len(ids)
      BY <1>1, <2>1, <2>2
    <3>2. QED
      BY <1>4, <2>1, <2>2, <3>1 DEF Ascending
  <2>3. CASE i \in 1 .. Len(ids) /\ j \in Len(ids) + 1 .. Len(ids) + n
    <3>1. ids # << >>
      BY <2>3
    <3>2. QED
      BY <1>4, <1>5, <2>3, <3>1 DEF Before
  <2>4. CASE i \in Len(ids) + 1 .. Len(ids) + n /\ j \in Len(ids) + 1 .. Len(ids) + n
    <3>1. o.offset + (i - Len(ids)) < o.offset + (j - Len(ids))
      BY <1>1, <2>1
    <3>2. QED
      BY <1>5, <2>4, <3>1 DEF Before
  <2>5. QED
    BY <1>1, <1>6, <2>1, <2>2, <2>3, <2>4
<1>9. label = "song" => \A k \in 1 .. Len(more) : more[k][1] = "song"
  BY <1>3, <1>4, <1>5, <1>6
<1>10. QED
  BY <1>3, <1>7, <1>8, <1>9 DEF more, rows

\* An empty list is within any window and in order.
LEMMA NothingWithin ==
  ASSUME NEW o \in Op
  PROVE  /\ Within(o, << >>) /\ Ascending(<< >>) /\ Children(<< >>)
         /\ Len(<< >>) = 0
<1>1. Len(<< >>) = 0 /\ o.asked \in Nat
  BY OpFields
<1>2. QED
  BY <1>1 DEF Within, Ascending, Children

\* A child put in front of the children.
LEMMA MoreChildren ==
  ASSUME NEW ids \in Seq(Item), Children(ids), Len(ids) < 5, NEW j \in 1 .. 5
  PROVE  /\ Children(<< <<"child", j>> >> \o ids)
         /\ << <<"child", j>> >> \o ids \in Seq(Item)
         /\ Len(<< <<"child", j>> >> \o ids) = Len(ids) + 1
<1> DEFINE first == << <<"child", j>> >>
<1>1. <<"child", j>> \in Item
  <2>1. "child" \in Labels /\ j \in Nat
    BY DEF Labels
  <2>2. QED
    BY <2>1, Zenon DEF Item
<1>2. first \in Seq(Item) /\ Len(first) = 1 /\ first[1] = <<"child", j>>
  BY <1>1
<1> HIDE DEF first
<1>3. Len(ids) \in Nat
  OBVIOUS
<1>4. /\ first \o ids \in Seq(Item) /\ Len(first \o ids) = Len(ids) + 1
      /\ \A k \in 1 .. Len(ids) + 1 :
           (first \o ids)[k] = IF k <= 1 THEN first[k] ELSE ids[k - 1]
  <2>1. /\ first \o ids \in Seq(Item) /\ Len(first \o ids) = Len(first) + Len(ids)
        /\ \A k \in 1 .. Len(first) + Len(ids) :
             (first \o ids)[k] = IF k <= Len(first) THEN first[k] ELSE ids[k - Len(first)]
    BY <1>2, ConcatProperties, Zenon
  <2>2. QED
    BY <1>2, <1>3, <2>1
<1>5. ASSUME NEW k \in 1 .. Len(ids) + 1
      PROVE  (first \o ids)[k][1] = "child" /\ (first \o ids)[k][2] \in 1 .. 5
  <2>1. CASE k = 1
    BY <1>2, <1>4, <2>1
  <2>2. CASE k # 1
    <3>1. k - 1 \in 1 .. Len(ids) /\ ~ (k <= 1)
      BY <1>3, <2>2
    <3>2. QED
      BY <1>4, <3>1 DEF Children
  <2>3. QED
    BY <2>1, <2>2
<1>6. QED
  BY <1>3, <1>4, <1>5 DEF Children, first

-----------------------------------------------------------------------------
(* What can happen to one closure and its log.                             *)

\* The list is judged by five fields of the closure only.
LEMMA ListedSame ==
  ASSUME NEW o \in Op, NEW q \in Op, Listed(o),
         q.target = o.target, q.offset = o.offset, q.asked = o.asked,
         q.ids = o.ids, q.uris = o.uris
  PROVE  Listed(q)
<1>1. \A s : Within(o, s) => Within(q, s)
  BY Zenon DEF Within
<1>2. QED
  BY <1>1, Zenon DEF Listed

\* What emission has of a closure it starts with, and what stays.
LEMMA EmittingFields ==
  ASSUME NEW q \in Op
  PROVE  LET e == Emitting(q)
         IN  /\ e \in Op /\ e.phase = "emitting"
             /\ e.target = q.target /\ e.offset = q.offset /\ e.asked = q.asked
             /\ e.ids = q.ids /\ e.uris = q.uris /\ e.untimed = q.untimed
             /\ e.of = q.of /\ e.cancelled = q.cancelled /\ e.handle = q.handle
             /\ e.current = 0 /\ e.current_index = 0
<1>1. Emitting(q) \in Op
  BY EmittingOK
<1>2. QED
  BY <1>1 DEF Emitting, Op

\* Emission starts with a list and an empty log.
LEMMA EmittingResults ==
  ASSUME NEW q \in Op, Listed(q), q.offset \in Skips \cup {0},
         q.target # "invalid", q.asked \in 1 .. MaxRows
  PROVE  ResultsOK(Emitting(q), << >>)
<1> DEFINE e == Emitting(q)
<1> HIDE DEF e
<1>1. /\ e \in Op /\ e.phase = "emitting"
      /\ e.target = q.target /\ e.offset = q.offset /\ e.asked = q.asked
      /\ e.ids = q.ids /\ e.uris = q.uris
      /\ e.current = 0 /\ e.current_index = 0
  BY EmittingFields DEF e
<1>2. AskedOK(e)
  BY <1>1 DEF AskedOK
<1>3. ListOK(e)
  <2>1. Listed(e)
    BY <1>1, ListedSame
  <2>2. QED
    BY <1>1, <2>1 DEF ListOK
<1>4. ToldOK(e, << >>)
  <2>1. Len(<< >>) = 0 /\ Len(e.ids) \in Nat
    BY <1>1, OpFields
  <2>2. QED
    BY <1>1, <2>1 DEF ToldOK, Told
<1>5. UntimedOK(e)
  BY <1>1 DEF UntimedOK
<1>6. QED
  BY <1>2, <1>3, <1>4, <1>5 DEF ResultsOK, e

\* A cancellation changes nothing that was or may be delivered.
LEMMA CancelledResults ==
  ASSUME NEW o \in Op, NEW l, ResultsOK(o, l), o.phase # "freed"
  PROVE  LET q == [o EXCEPT !.cancelled = TRUE]
         IN  /\ q \in Op /\ ResultsOK(q, l)
             /\ q.of = o.of /\ AskedRows(q) = AskedRows(o)
<1> DEFINE q == [o EXCEPT !.cancelled = TRUE]
<1>1. /\ q \in Op /\ q.phase = o.phase /\ q.target = o.target /\ q.of = o.of
      /\ q.offset = o.offset /\ q.asked = o.asked /\ q.count = o.count
      /\ q.ids = o.ids /\ q.uris = o.uris /\ q.untimed = o.untimed
      /\ q.current = o.current /\ q.current_index = o.current_index
      /\ q.waiting = o.waiting /\ q.remaining_count = o.remaining_count
  BY DEF Op
<1> HIDE DEF q
<1>2. AskedOK(q)
  BY <1>1 DEF ResultsOK, AskedOK
<1>3. ListOK(q)
  <2>1. Listed(q)
    BY <1>1, ListedSame DEF ResultsOK, ListOK
  <2>2. QED
    BY <1>1, <2>1 DEF ResultsOK, ListOK
<1>4. ToldOK(q, l)
  BY <1>1 DEF ResultsOK, ToldOK, Told
<1>5. UntimedOK(q)
  BY <1>1 DEF ResultsOK, UntimedOK, Entries
<1>6. AskedRows(q) = AskedRows(o)
  BY <1>1 DEF AskedRows
<1>7. QED
  BY <1>1, <1>2, <1>3, <1>4, <1>5, <1>6 DEF ResultsOK, q

\* Moving to another phase changes nothing else.
LEMMA MovedFields ==
  ASSUME NEW o \in Op, NEW ph \in Phase
  PROVE  LET q == Moved(o, ph)
         IN  /\ q \in Op /\ q.phase = ph /\ q.target = o.target
             /\ q.offset = o.offset /\ q.asked = o.asked
             /\ q.ids = o.ids /\ q.uris = o.uris /\ q.untimed = o.untimed
             /\ q.of = o.of /\ q.cancelled = o.cancelled
             /\ q.current = o.current /\ q.current_index = o.current_index
BY DEF Moved, Op

\* An error is told before any result, and ends the call.
LEMMA FailedResults ==
  ASSUME NEW o \in Op, NEW l, ResultsOK(o, l), NEW m \in {l, <<ErrorCallback>>},
         o.phase \in {"query", "playlists"}
  PROVE  /\ ResultsOK(Moved(o, "failed"), m)
         /\ AskedRows(Moved(o, "failed")) = AskedRows(o)
<1> DEFINE q == Moved(o, "failed")
<1> HIDE DEF q
<1>1. "failed" \in Phase
  BY DEF Phase
<1>2. /\ q \in Op /\ q.phase = "failed" /\ q.target = o.target
      /\ q.offset = o.offset /\ q.asked = o.asked
      /\ q.ids = o.ids /\ q.uris = o.uris /\ q.untimed = o.untimed
  BY <1>1, MovedFields DEF q
<1>3. AskedOK(q)
  BY <1>2 DEF ResultsOK, AskedOK
<1>4. ListOK(q)
  <2>1. Listed(q)
    BY <1>2, ListedSame DEF ResultsOK, ListOK
  <2>2. QED
    BY <1>2, <2>1 DEF ListOK
<1>5. ToldOK(q, m)
  BY <1>2 DEF ResultsOK, ToldOK
<1>6. UntimedOK(q)
  BY <1>2 DEF ResultsOK, UntimedOK
<1>7. AskedRows(q) = AskedRows(o)
  BY <1>2 DEF AskedRows
<1>8. QED
  BY <1>3, <1>4, <1>5, <1>6, <1>7 DEF ResultsOK, q

\* The source of an error tells it, and leaves the closure alone.
LEMMA SentResults ==
  ASSUME NEW o \in Op, NEW l, ResultsOK(o, l), o.phase \in {"none", "unparsed"}
  PROVE  ResultsOK(o, <<ErrorCallback>>)
BY DEF ResultsOK, ToldOK

\* A cancelled closure is dropped with its log as it is.
LEMMA DroppedResults ==
  ASSUME NEW o \in Op, NEW l, ResultsOK(o, l), o.phase = "emitting", o.cancelled
  PROVE  /\ ResultsOK(Moved(o, "freed"), l)
         /\ AskedRows(Moved(o, "freed")) = AskedRows(o)
<1> DEFINE q == Moved(o, "freed")
<1> HIDE DEF q
<1>1. "freed" \in Phase
  BY DEF Phase
<1>2. /\ q \in Op /\ q.phase = "freed" /\ q.target = o.target
      /\ q.offset = o.offset /\ q.asked = o.asked
      /\ q.ids = o.ids /\ q.uris = o.uris /\ q.untimed = o.untimed
      /\ q.cancelled = o.cancelled
  BY <1>1, MovedFields DEF q
<1>3. AskedOK(q)
  BY <1>2 DEF ResultsOK, AskedOK
<1>4. ListOK(q)
  <2>1. Listed(q)
    BY <1>2, ListedSame DEF ResultsOK, ListOK
  <2>2. QED
    BY <1>2, <2>1 DEF ListOK
<1>5. ToldOK(q, l)
  BY <1>2 DEF ResultsOK, ToldOK, Told
<1>6. UntimedOK(q)
  BY <1>2 DEF UntimedOK
<1>7. AskedRows(q) = AskedRows(o)
  BY <1>2 DEF AskedRows
<1>8. QED
  BY <1>3, <1>4, <1>5, <1>6, <1>7 DEF ResultsOK, q

\* The parent goes on to the row after the one it waited for, which is the
\* last of those that have had a nested browse.
LEMMA ResumedResults ==
  ASSUME NEW o \in Op, NEW l, ResultsOK(o, l), o.phase = "nested"
  PROVE  /\ ResultsOK(Resumed(o), l)
         /\ AskedRows(Resumed(o)) = AskedRows(o)
         /\ Resumed(o).of = o.of
<1> DEFINE q == Resumed(o)
<1> HIDE DEF q
<1>1. /\ q \in Op /\ q.phase = "durations" /\ q.of = o.of
      /\ q.target = o.target /\ q.offset = o.offset /\ q.asked = o.asked
      /\ q.ids = o.ids /\ q.uris = o.uris /\ q.untimed = o.untimed
      /\ q.current = o.current + 1
  <2>1. q \in Op
    BY ResumedFacts DEF q
  <2>2. QED
    BY <2>1 DEF q, Resumed, Op
<1>2. AskedOK(q)
  BY <1>1 DEF ResultsOK, AskedOK
<1>3. ListOK(q)
  <2>1. Listed(q)
    BY <1>1, ListedSame DEF ResultsOK, ListOK
  <2>2. QED
    BY <1>1, <2>1 DEF ListOK
<1>4. ToldOK(q, l)
  BY <1>1 DEF ResultsOK, ToldOK
<1>5. UntimedOK(q)
  <2>1. UntimedOK(o) /\ Entries(q) = Entries(o)
    BY <1>1 DEF ResultsOK, Entries
  <2>2. o.current + 1 \in 1 .. Entries(o)
    BY <2>1 DEF UntimedOK
  <2>3. Len(o.ids) \in Nat /\ o.current \in Nat
    BY OpFields
  <2>4. QED
    BY <1>1, <2>1, <2>2, <2>3 DEF UntimedOK, Entries
<1>6. AskedRows(q) = AskedRows(o)
  BY <1>1 DEF AskedRows
<1>7. QED
  BY <1>1, <1>2, <1>3, <1>4, <1>5, <1>6 DEF ResultsOK, q

\* The parent has its row browsed.
LEMMA NestedResults ==
  ASSUME NEW o \in Op, NEW l, ResultsOK(o, l), o.phase = "durations",
         o.current + 1 \in o.untimed
  PROVE  /\ ResultsOK(Moved(o, "nested"), l)
         /\ AskedRows(Moved(o, "nested")) = AskedRows(o) \cup {o.current + 1}
         /\ Moved(o, "nested").of = o.of
<1> DEFINE q == Moved(o, "nested")
<1> HIDE DEF q
<1>1. "nested" \in Phase
  BY DEF Phase
<1>2. /\ q \in Op /\ q.phase = "nested" /\ q.target = o.target /\ q.of = o.of
      /\ q.offset = o.offset /\ q.asked = o.asked
      /\ q.ids = o.ids /\ q.uris = o.uris /\ q.untimed = o.untimed
      /\ q.current = o.current
  BY <1>1, MovedFields DEF q
<1>3. AskedOK(q)
  BY <1>2 DEF ResultsOK, AskedOK
<1>4. ListOK(q)
  <2>1. Listed(q)
    BY <1>2, ListedSame DEF ResultsOK, ListOK
  <2>2. QED
    BY <1>2, <2>1 DEF ListOK
<1>5. ToldOK(q, l)
  BY <1>2 DEF ResultsOK, ToldOK
<1>6. UntimedOK(q)
  BY <1>2 DEF ResultsOK, UntimedOK, Entries
<1>7. AskedRows(q) = AskedRows(o) \cup {o.current + 1}
  <2>1. \A row \in o.untimed : row \in Nat
    BY DEF Op
  <2>2. o.current \in Nat
    BY OpFields
  <2>3. \A row \in o.untimed :
          row <= o.current + 1 <=> row <= o.current \/ row = o.current + 1
    BY <2>1, <2>2
  <2>4. /\ AskedRows(q) = {row \in o.untimed : row <= o.current + 1}
        /\ AskedRows(o) = {row \in o.untimed : row <= o.current}
    BY <1>2 DEF AskedRows
  <2>5. QED
    BY <2>3, <2>4
<1>8. QED
  BY <1>2, <1>3, <1>4, <1>5, <1>6, <1>7 DEF ResultsOK, q

\* The next callback: what it carries, and how it continues the countdown.
LEMMA NextTold ==
  ASSUME NEW o \in Op, NEW l \in Seq(LogEntry), Told(o, l),
         o.current = Len(l), o.current_index = Len(l), o.current < Len(o.ids),
         o.remaining_count = Len(o.ids) - 1 - o.current
  PROVE  LET b == Callback(CurrentItem(o), o.remaining_count, o.current_index, FALSE)
         IN  /\ Told(o, Append(l, b)) /\ Len(Append(l, b)) = Len(l) + 1
             /\ b = Callback(o.ids[Len(l) + 1], Len(o.ids) - 1 - Len(l), Len(l), FALSE)
<1> DEFINE b == Callback(CurrentItem(o), o.remaining_count, o.current_index, FALSE)
<1>1. b = Callback(o.ids[Len(l) + 1], Len(o.ids) - 1 - Len(l), Len(l), FALSE)
  BY DEF CurrentItem
<1> HIDE DEF b
<1>2. Len(l) \in Nat /\ Len(o.ids) \in Nat
  BY OpFields
<1>3. /\ Len(Append(l, b)) = Len(l) + 1
      /\ \A k \in 1 .. Len(l) : Append(l, b)[k] = l[k]
      /\ Append(l, b)[Len(l) + 1] = b
  OBVIOUS
<1>4. \A k \in 1 .. Len(l) + 1 : k \in 1 .. Len(l) \/ k = Len(l) + 1
  BY <1>2
<1>5. /\ Len(o.ids) - 1 - Len(l) = Len(o.ids) - (Len(l) + 1)
      /\ Len(l) = (Len(l) + 1) - 1
  BY <1>2
<1>6. Told(o, Append(l, b))
  <2>1. ASSUME NEW k \in 1 .. Len(l) + 1
        PROVE  Append(l, b)[k] = Callback(o.ids[k], Len(o.ids) - k, k - 1, FALSE)
    <3>1. CASE k \in 1 .. Len(l)
      BY <1>3, <3>1 DEF Told
    <3>2. CASE k = Len(l) + 1
      BY <1>1, <1>3, <1>5, <3>2
    <3>3. QED
      BY <1>4, <2>1, <3>1, <3>2
  <2>2. Len(Append(l, b)) <= Len(o.ids)
    BY <1>2, <1>3
  <2>3. QED
    BY <1>3, <2>1, <2>2, Zenon DEF Told
<1>7. QED
  BY <1>1, <1>3, <1>6 DEF b

\* A result that is not the last one.
LEMMA EmittedResults ==
  ASSUME NEW o \in Op, NEW l \in Seq(LogEntry), ResultsOK(o, l),
         o.phase = "emitting", MoreIds(o),
         o.remaining_count = Len(o.ids) - 1 - o.current
  PROVE  LET b == Callback(CurrentItem(o), o.remaining_count, o.current_index, FALSE)
         IN  /\ ResultsOK(Advanced(o), Append(l, b))
             /\ Advanced(o).of = o.of /\ AskedRows(Advanced(o)) = AskedRows(o)
<1> DEFINE b == Callback(CurrentItem(o), o.remaining_count, o.current_index, FALSE)
           q == Advanced(o)
<1>1. Told(o, l) /\ o.current = Len(l) /\ o.current_index = Len(l)
  BY DEF ResultsOK, ToldOK
<1>2. Len(l) \in Nat /\ Len(o.ids) \in Nat /\ o.current < Len(o.ids)
  BY <1>1, OpFields DEF MoreIds
<1>3. Told(o, Append(l, b)) /\ Len(Append(l, b)) = Len(l) + 1
  BY <1>1, <1>2, NextTold
<1> HIDE DEF b, q
<1>4. /\ q \in Op /\ q.phase = "emitting" /\ q.target = o.target /\ q.of = o.of
      /\ q.offset = o.offset /\ q.asked = o.asked
      /\ q.ids = o.ids /\ q.uris = o.uris /\ q.untimed = o.untimed
      /\ q.current = o.current + 1 /\ q.current_index = o.current_index + 1
  <2>1. q \in Op
    BY AdvancedFacts DEF q
  <2>2. QED
    BY <2>1 DEF q, Advanced, Op
<1>5. AskedOK(q)
  BY <1>4 DEF ResultsOK, AskedOK
<1>6. ListOK(q)
  <2>1. Listed(q)
    BY <1>4, ListedSame DEF ResultsOK, ListOK
  <2>2. QED
    BY <1>4, <2>1 DEF ListOK
<1>7. ToldOK(q, Append(l, b))
  <2>1. Told(q, Append(l, b))
    BY <1>3, <1>4 DEF Told
  <2>2. QED
    BY <1>1, <1>3, <1>4, <2>1 DEF ToldOK
<1>8. UntimedOK(q) /\ AskedRows(q) = AskedRows(o)
  BY <1>4 DEF UntimedOK, AskedRows
<1>9. QED
  BY <1>4, <1>5, <1>6, <1>7, <1>8 DEF ResultsOK, b, q

\* The last result, or the one that says that there is none.
LEMMA LastResults ==
  ASSUME NEW o \in Op, NEW l \in Seq(LogEntry), ResultsOK(o, l), LocalOK(o),
         o.phase = "emitting", ~ MoreIds(o)
  PROVE  LET b == Callback(CurrentItem(o), o.remaining_count, o.current_index, FALSE)
             q == Moved(Advanced(o), "freed")
         IN  /\ ResultsOK(q, Append(l, b))
             /\ AskedRows(q) = AskedRows(o)
<1> DEFINE b == Callback(CurrentItem(o), o.remaining_count, o.current_index, FALSE)
           a == Advanced(o)
           q == Moved(a, "freed")
<1>1. Told(o, l) /\ o.current = Len(l) /\ o.current_index = Len(l)
  BY DEF ResultsOK, ToldOK
<1>2. Len(l) \in Nat /\ Len(o.ids) \in Nat /\ o.ids \in Seq(Item)
  BY OpFields
<1> HIDE DEF a, q
<1>3. /\ a \in Op /\ a.target = o.target /\ a.offset = o.offset
      /\ a.asked = o.asked /\ a.ids = o.ids /\ a.uris = o.uris
      /\ a.untimed = o.untimed
  <2>1. a \in Op
    BY AdvancedFacts DEF a
  <2>2. QED
    BY <2>1 DEF a, Advanced, Op
<1>4. /\ q \in Op /\ q.phase = "freed" /\ q.target = o.target
      /\ q.offset = o.offset /\ q.asked = o.asked
      /\ q.ids = o.ids /\ q.uris = o.uris /\ q.untimed = o.untimed
  <2>1. "freed" \in Phase
    BY DEF Phase
  <2>2. QED
    BY <1>3, <2>1, MovedFields DEF q
<1>5. ToldOK(q, Append(l, b))
  <2>1. CASE o.ids = << >>
    <3>1. o.current = 0 /\ o.remaining_count = 0
      BY <2>1 DEF LocalOK
    <3>2. l = << >> /\ o.current_index = 0
      BY <1>1, <3>1, EmptySeq
    <3>3. Len(o.ids) = 0
      BY <2>1
    <3>4. CurrentItem(o) = NoItem
      BY <3>1, <3>3 DEF CurrentItem
    <3>5. Append(l, b) = <<Callback(NoItem, 0, 0, FALSE)>>
      BY <3>1, <3>2, <3>4
    <3>6. QED
      BY <1>4, <2>1, <3>5 DEF ToldOK
  <2>2. CASE o.ids # << >>
    <3>1. /\ o.current < Len(o.ids)
          /\ o.remaining_count = Len(o.ids) - 1 - o.current
      BY <2>2 DEF LocalOK
    <3>2. Told(o, Append(l, b)) /\ Len(Append(l, b)) = Len(l) + 1
      BY <1>1, <1>2, <3>1, NextTold
    <3>3. Len(l) + 1 = Len(o.ids)
      BY <1>1, <1>2, <3>1 DEF MoreIds
    <3> HIDE DEF b
    <3>4. Told(q, Append(l, b))
      BY <1>4, <3>2 DEF Told
    <3>5. Len(Append(l, b)) = Len(q.ids) /\ Len(Append(l, b)) > 0
      BY <1>2, <1>4, <3>2, <3>3
    <3>6. QED
      BY <1>4, <3>4, <3>5 DEF ToldOK
  <2>3. QED
    BY <2>1, <2>2
<1> HIDE DEF b
<1>6. AskedOK(q)
  BY <1>4 DEF ResultsOK, AskedOK
<1>7. ListOK(q)
  <2>1. Listed(q)
    BY <1>4, ListedSame DEF ResultsOK, ListOK
  <2>2. QED
    BY <1>4, <2>1 DEF ListOK
<1>8. UntimedOK(q) /\ AskedRows(q) = AskedRows(o)
  BY <1>4 DEF UntimedOK, AskedRows
<1>9. QED
  BY <1>5, <1>6, <1>7, <1>8 DEF ResultsOK, b, q, a

-----------------------------------------------------------------------------
(* What happens to all the closures in a step.                             *)

\* The closure of d is left alone, or resumed by the nested browse it waited
\* for; either way its callback is not called.
Calm(d) ==
  /\ log'[d] = log[d]
  /\ \/ op'[d] = op[d]
     \/ op[d].phase = "nested" /\ op'[d] = Resumed(op[d])

\* The callback of a nested browse touches the parent only.
LEMMA HeardCalm ==
  ASSUME IInv, NEW c \in Calls, Live(c), op[c].phase # "nested",
         NEW gone \in [Calls -> Op], gone[c].of = op[c].of,
         \A d \in Calls \ {c} : gone[d] = op[d],
         NEW remaining, op' = Heard(gone, c, remaining),
         \A d \in Calls \ {c} : log'[d] = log[d]
  PROVE  op'[c] = gone[c] /\ \A d \in Calls \ {c} : Calm(d)
<1> DEFINE p == op[c].of[1]
<1>1. CASE p = 0 \/ remaining # 0
  <2>1. op' = gone
    BY <1>1 DEF Heard
  <2>2. QED
    BY <2>1 DEF Calm
<1>2. CASE p # 0 /\ remaining = 0
  <2>1. p \in Calls /\ op[p].phase = "nested" /\ p # c
    <3>1. ParentOK(c)
      BY DEF IInv
    <3>2. QED
      BY <1>2, <3>1, CallFacts DEF ParentOK
  <2>2. op' = [gone EXCEPT ![p] = Resumed(gone[p])]
    BY <1>2 DEF Heard
  <2> HIDE DEF p
  <2>3. QED
    BY <2>1, <2>2 DEF Calm
<1>3. QED
  BY <1>1, <1>2

\* As long as no closure changes parents or the rows it has asked about, the
\* nested browses stay exact.
LEMMA NestedKept ==
  ASSUME NestedExact,
         \A c \in Calls : op'[c].of = op[c].of /\ AskedRows(op'[c]) = AskedRows(op[c])
  PROVE  NestedExact'
BY DEF NestedExact

\* One closure moves on, with its log, and the others are calm.
LEMMA OneKeepsRInv ==
  ASSUME RInv, IInv', NEW c \in Calls, ResultsOK(op'[c], log'[c]),
         op'[c].of = op[c].of, AskedRows(op'[c]) = AskedRows(op[c]),
         \A d \in Calls \ {c} : Calm(d)
  PROVE  RInv'
<1>1. /\ \A d \in Calls : op[d] \in Op /\ ResultsOK(op[d], log[d])
      /\ NestedExact
  BY DEF RInv, IInv, TypeOK
<1>2. \A d \in Calls \ {c} : /\ ResultsOK(op'[d], log'[d])
                             /\ op'[d].of = op[d].of
                             /\ AskedRows(op'[d]) = AskedRows(op[d])
  BY <1>1, ResumedResults DEF Calm
<1>3. NestedExact'
  BY <1>1, <1>2, NestedKept
<1>4. QED
  BY <1>2, <1>3 DEF RInv

\* A closure that opens has asked about no row yet.
LEMMA OpenKeepsRInv ==
  ASSUME RInv, IInv', calls < MaxCalls, NEW p \in 0 .. MaxCalls, NEW f,
         NEW o \in Op, ResultsOK(o, << >>), o.untimed = {},
         p = 0 => f = op /\ o.of = NoParent,
         p # 0 => /\ op[p].phase = "durations" /\ MovedIn(op, p, "nested", f)
                  /\ op[p].current + 1 \in op[p].untimed
                  /\ o.of = <<p, op[p].current + 1>>,
         op' = [f EXCEPT ![calls + 1] = o], UNCHANGED log
  PROVE  RInv'
<1> DEFINE n == calls + 1
           row == op[p].current + 1
<1>1. /\ op \in [Calls -> Op] /\ NestedExact
      /\ \A d \in Calls : ResultsOK(op[d], log[d])
      /\ calls \in Nat /\ MaxCalls \in Nat
  BY MaxCallsNat DEF RInv, IInv, TypeOK
<1>2. n \in Calls /\ n > calls /\ 0 \notin Calls
  BY <1>1 DEF Calls
<1>3. op[n] = Blank("invalid", NoParent, 0, 0) /\ log[n] = << >>
  BY <1>2 DEF RInv, IInv, FreshOK
<1>4. op[n].phase = "none" /\ op[n].untimed = {} /\ op[n].of = NoParent
  BY <1>3 DEF Blank
<1>5. p # 0 => p \in Calls /\ p # n
  BY <1>1, <1>4 DEF Calls
<1>6. AskedRows(op[n]) = {} /\ AskedRows(o) = {}
  BY <1>4 DEF AskedRows
<1> HIDE DEF n
<1>7. op' = [f EXCEPT ![n] = o]
  BY DEF n
<1>8. /\ op'[n] = o
      /\ \A d \in Calls \ {n} : d # p => op'[d] = op[d]
      /\ p # 0 => op'[p] = Moved(op[p], "nested")
  <2>1. CASE p = 0
    BY <1>1, <1>2, <1>7, <2>1
  <2>2. CASE p # 0
    <3>1. f = [op EXCEPT ![p] = Moved(op[p], "nested")]
      BY <2>2 DEF MovedIn
    <3>2. QED
      BY <1>1, <1>2, <1>5, <1>7, <2>2, <3>1
  <2>3. QED
    BY <2>1, <2>2
<1>9. p # 0 => /\ ResultsOK(op'[p], log'[p])
               /\ AskedRows(op'[p]) = AskedRows(op[p]) \cup {row}
               /\ op'[p].of = op[p].of
  BY <1>1, <1>5, <1>8, NestedResults
<1>10. \A d \in Calls : ResultsOK(op'[d], log'[d])
  BY <1>1, <1>3, <1>8, <1>9
<1>11. p # 0 => op[p].current \in Nat /\ row \in Nat /\ row \notin AskedRows(op[p])
  <2>1. SUFFICES ASSUME p # 0
                 PROVE  op[p].current \in Nat /\ row \in Nat /\ row \notin AskedRows(op[p])
    OBVIOUS
  <2>2. op[p].current \in Nat
    BY <1>1, <1>5, <2>1, OpFields
  <2>3. AskedRows(op[p]) = {r \in op[p].untimed : r <= op[p].current}
    BY <2>1 DEF AskedRows
  <2>4. QED
    BY <2>2, <2>3
<1> HIDE DEF row
<1>12. o.of = IF p = 0 THEN <<0, 0>> ELSE <<p, row>>
  BY DEF row, NoParent
<1>13. \A d \in Calls \ {n} : op'[d].of = op[d].of
  <2>1. ASSUME NEW d \in Calls \ {n}
        PROVE  op'[d].of = op[d].of
    <3>1. CASE d = p
      BY <1>9, <1>2, <3>1
    <3>2. CASE d # p
      BY <1>8, <3>2
    <3>3. QED
      BY <3>1, <3>2
  <2>2. QED
    BY <2>1
<1>14. \A e \in Calls : e # p => AskedRows(op'[e]) = AskedRows(op[e])
  BY <1>6, <1>8
<1>15. NestedExact'
  <2>1. ASSUME NEW e \in Calls, NEW r \in Nat
        PROVE  (\E d \in Calls : op'[d].of = <<e, r>>) <=> r \in AskedRows(op'[e])
    <3>1. (\E d \in Calls : op[d].of = <<e, r>>) <=> r \in AskedRows(op[e])
      BY <1>1 DEF NestedExact
    <3>2. op[n].of # <<e, r>>
      BY <1>2, <1>4 DEF NoParent
    <3>3. (\E d \in Calls : op'[d].of = <<e, r>>)
            <=> \/ \E d \in Calls : op[d].of = <<e, r>>
                \/ o.of = <<e, r>>
      BY <1>2, <1>8, <1>13, <3>2
    <3>4. o.of = <<e, r>> <=> p # 0 /\ e = p /\ r = row
      BY <1>2, <1>12
    <3>5. r \in AskedRows(op'[e])
            <=> r \in AskedRows(op[e]) \/ (p # 0 /\ e = p /\ r = row)
      BY <1>2, <1>9, <1>14
    <3>6. QED
      BY <3>1, <3>3, <3>4, <3>5
  <2>2. ASSUME NEW d \in Calls, d # n, op'[d].of[1] # 0
        PROVE  op'[d].of # o.of
    <3>1. op[d] \in Op /\ op'[d].of = op[d].of
      BY <1>1, <1>13, <2>2
    <3>2. CASE p = 0
      BY <1>12, <2>2, <3>2
    <3>3. CASE p # 0
      <4>1. ~ \E e \in Calls : op[e].of = <<p, row>>
        BY <1>1, <1>5, <1>11, <3>3 DEF NestedExact
      <4>2. QED
        BY <1>12, <3>1, <3>3, <4>1
    <3>4. QED
      BY <3>2, <3>3
  <2>3. ASSUME NEW d \in Calls, NEW e \in Calls, op'[d].of[1] # 0, op'[d].of = op'[e].of
        PROVE  d = e
    <3>1. CASE d # n /\ e # n
      BY <1>1, <1>13, <2>3, <3>1 DEF NestedExact
    <3>2. CASE d = n /\ e # n
      <4>1. op'[e].of[1] # 0 /\ op'[e].of = o.of
        BY <1>8, <2>3, <3>2
      <4>2. QED
        BY <2>2, <3>2, <4>1
    <3>3. CASE d # n /\ e = n
      BY <1>8, <2>2, <2>3, <3>3
    <3>4. QED
      BY <3>1, <3>2, <3>3
  <2>4. QED
    BY <2>1, <2>3 DEF NestedExact
<1>16. QED
  BY <1>10, <1>15 DEF RInv

-----------------------------------------------------------------------------
(* Each action: answers of Tracker.                                        *)

\* An answer, or an idle that emits nothing.
LEMMA StepKeepsRInv ==
  ASSUME RInv, IInv', NEW c \in Calls, NEW o \in Op, Step(c, o),
         ResultsOK(o, log[c]), o.of = op[c].of, AskedRows(o) = AskedRows(op[c])
  PROVE  RInv'
<1>1. op \in [Calls -> Op] /\ op' = [op EXCEPT ![c] = o] /\ log' = log
  BY DEF RInv, IInv, TypeOK, Step
<1>2. op'[c] = o /\ \A d \in Calls \ {c} : Calm(d)
  BY <1>1 DEF Calm
<1>3. ResultsOK(op'[c], log'[c])
  BY <1>1, <1>2
<1>4. QED
  BY <1>2, <1>3, OneKeepsRInv

\* What is known of a closure that waits for an answer.
LEMMA WaitingFacts ==
  ASSUME RInv, NEW c \in Calls, op[c].phase \in Active \ {"emitting"}
  PROVE  /\ op[c] \in Op /\ log[c] = << >> /\ ResultsOK(op[c], << >>)
         /\ AskedOK(op[c]) /\ ListOK(op[c]) /\ Listed(op[c]) /\ UntimedOK(op[c])
         /\ op[c].offset \in Skips \cup {0} /\ op[c].target # "invalid"
         /\ op[c].asked \in 1 .. MaxRows
<1>1. op[c] \in Op /\ LogOK(c) /\ ResultsOK(op[c], log[c])
  BY DEF RInv, IInv, TypeOK
<1>2. log[c] = << >> /\ op[c].phase # "none"
  BY <1>1 DEF LogOK, Active
<1>3. QED
  BY <1>1, <1>2 DEF ResultsOK, AskedOK, ListOK

\* Emission starts with a list that is fit for it.
LEMMA EmittingKeepsRInv ==
  ASSUME RInv, IInv', NEW c \in Calls, op[c].phase \in Active \ {"emitting"},
         NEW q \in Op, Step(c, Emitting(q)), Listed(q),
         q.target = op[c].target, q.offset = op[c].offset, q.asked = op[c].asked,
         q.of = op[c].of, q.untimed = AskedRows(op[c])
  PROVE  RInv'
<1>1. /\ log[c] = << >> /\ q.offset \in Skips \cup {0}
      /\ q.target # "invalid" /\ q.asked \in 1 .. MaxRows
  BY WaitingFacts
<1>2. ResultsOK(Emitting(q), log[c])
  BY <1>1, EmittingResults
<1> DEFINE e == Emitting(q)
<1>3. e \in Op /\ e.phase = "emitting" /\ e.untimed = q.untimed /\ e.of = q.of
  BY EmittingFields
<1>4. AskedRows(e) = AskedRows(op[c])
  BY <1>3 DEF AskedRows
<1> HIDE DEF e
<1>5. ResultsOK(e, log[c]) /\ Step(c, e)
  BY <1>2 DEF e
<1>6. QED
  BY <1>3, <1>4, <1>5, StepKeepsRInv

\* A new list in the window, in order, is a fit one.
LEMMA ListedWith ==
  ASSUME NEW o \in Op, NEW q \in Op, Listed(o), o.target \notin {"root", "music"},
         q.target = o.target, q.offset = o.offset, q.asked = o.asked,
         q.uris = o.uris, Within(o, q.ids), Ascending(q.ids)
  PROVE  Listed(q)
<1>1. \A s : Within(o, s) => Within(q, s)
  BY Zenon DEF Within
<1>2. QED
  BY <1>1, Zenon DEF Listed

\* The rows of a category come after nothing, the videos after the songs.
LEMMA QueryAnswerKeepsRInv ==
  ASSUME RInv, IInv', NEW c \in Calls, op[c].phase = "query",
         NEW n \in Limit(op[c]),
         Step(c, Emitting([op[c] EXCEPT !.ids = @ \o Rows("row", op[c].offset, n)]))
  PROVE  RInv'
<1> DEFINE o == op[c]
           more == o.ids \o Rows("row", o.offset, n)
           q == [o EXCEPT !.ids = more]
<1>1. op[c].phase \in Active \ {"emitting"}
  BY DEF Active, Phase
<1>2. o \in Op /\ AskedOK(o) /\ ListOK(o) /\ Listed(o) /\ UntimedOK(o)
  BY <1>1, WaitingFacts
<1> HIDE DEF o
<1>3. o.phase = "query" /\ n \in Limit(o)
  BY DEF o
<1>4. /\ o.target \notin {"root", "music"} /\ Within(o, o.ids) /\ Ascending(o.ids)
      /\ \A k \in 1 .. Len(o.ids) : o.ids[k][1] = "song"
      /\ o.count > 0 /\ Len(o.ids) + o.count <= o.asked
  BY <1>2, <1>3 DEF AskedOK, ListOK, Listed
<1>5. n \in Nat /\ Len(o.ids) + n <= o.asked /\ o.ids \in Seq(Item)
  <2>1. n \in Nat /\ n <= o.count
    BY <1>2, <1>3, <1>4, LimitFacts
  <2>2. o.count \in Nat /\ o.asked \in Nat /\ Len(o.ids) \in Nat
    BY <1>2, OpFields
  <2>3. QED
    BY <1>2, <1>4, <2>1, <2>2, OpFields
<1>6. more \in Seq(Item) /\ Within(o, more) /\ Ascending(more)
  <2>1. "row" \in Labels \ {"none"}
    BY DEF Labels
  <2> HIDE DEF more
  <2>2. LET m == o.ids \o Rows("row", o.offset, n)
        IN  m \in Seq(Item) /\ Within(o, m) /\ Ascending(m)
    BY <1>2, <1>4, <1>5, <2>1, MoreWithin
  <2>3. QED
    BY <2>2 DEF more
<1> HIDE DEF more
<1>7. /\ q \in Op /\ q.target = o.target /\ q.offset = o.offset
      /\ q.asked = o.asked /\ q.uris = o.uris /\ q.ids = more
      /\ q.of = o.of /\ q.untimed = o.untimed
  BY <1>2, <1>6 DEF Op
<1>8. Step(c, Emitting(q))
  BY DEF q, o, more
<1> HIDE DEF q
<1>9. Listed(q)
  BY <1>2, <1>4, <1>6, <1>7, ListedWith
<1>10. AskedRows(o) = o.untimed
  BY <1>3 DEF AskedRows
<1>11. QED
  BY <1>1, <1>7, <1>8, <1>9, <1>10, EmittingKeepsRInv DEF o

\* The videos may fill what the songs leave of the window.
LEMMA SongsAnswerKeepsRInv ==
  ASSUME RInv, IInv', NEW c \in Calls, SongsAnswer(c)
  PROVE  RInv'
<1> DEFINE o == op[c]
<1>1. op[c].phase = "songs"
  BY DEF SongsAnswer
<1>2. op[c].phase \in Active \ {"emitting"}
  BY <1>1 DEF Active, Phase
<1>3. /\ o \in Op /\ AskedOK(o) /\ ListOK(o) /\ Listed(o) /\ UntimedOK(o)
      /\ log[c] = << >> /\ ResultsOK(o, << >>)
  BY <1>2, WaitingFacts
<1>4. o.phase = "songs"
  BY <1>1
<1> HIDE DEF o
<1>5. /\ o.target \in {"category", "root_all"} /\ o.ids = << >>
      /\ o.count > 0 /\ Len(o.ids) + o.count <= o.asked /\ o.untimed = {}
  BY <1>3, <1>4 DEF AskedOK, ListOK, UntimedOK
<1>6. /\ o.count \in Nat /\ o.asked \in Nat /\ o.ids \in Seq(Item)
      /\ Len(o.ids) = 0 /\ "query" \in Phase
  BY <1>3, <1>5, OpFields DEF Phase
<1>7. AskedRows(o) = {}
  BY <1>4, <1>5 DEF AskedRows
\* What it takes to go on with the query for videos.
<1>8. ASSUME NEW q \in Op, q.phase = "query", q.target = o.target,
             q.offset = o.offset, q.asked = o.asked, q.uris = o.uris,
             q.untimed = {}, q.of = o.of, Within(o, q.ids), Ascending(q.ids),
             \A k \in 1 .. Len(q.ids) : q.ids[k][1] = "song",
             q.count > 0, Len(q.ids) + q.count <= o.asked, Step(c, q)
      PROVE  RInv'
  <2>1. Listed(q)
    BY <1>3, <1>5, <1>8, ListedWith
  <2>2. ListOK(q)
    BY <1>8, <2>1 DEF ListOK
  <2>3. AskedOK(q)
    BY <1>3, <1>5, <1>8 DEF AskedOK
  <2>4. ToldOK(q, log[c]) /\ UntimedOK(q)
    BY <1>3, <1>8 DEF ToldOK, UntimedOK
  <2>5. ResultsOK(q, log[c])
    BY <2>2, <2>3, <2>4 DEF ResultsOK
  <2>6. AskedRows(q) = AskedRows(op[c]) /\ q.of = op[c].of
    BY <1>7, <1>8 DEF AskedRows, o
  <2>7. QED
    BY <1>8, <2>5, <2>6, StepKeepsRInv
<1>9. CASE Step(c, [op[c] EXCEPT !.phase = "query"])
  <2> DEFINE q == Moved(o, "query")
  <2>1. /\ q \in Op /\ q.phase = "query" /\ q.target = o.target
        /\ q.offset = o.offset /\ q.asked = o.asked /\ q.uris = o.uris
        /\ q.untimed = {} /\ q.of = o.of /\ q.ids = << >> /\ q.count = o.count
    BY <1>3, <1>5, <1>6 DEF Moved, Op
  <2>2. Step(c, q)
    BY <1>9 DEF Moved, o
  <2> HIDE DEF q
  <2>3. Within(o, q.ids) /\ Ascending(q.ids) /\ Len(q.ids) = 0
    BY <1>3, <2>1, NothingWithin
  <2>4. QED
    BY <1>5, <1>6, <1>8, <2>1, <2>2, <2>3
<1>10. ASSUME NEW n \in Limit(o), NEW q,
              q = [o EXCEPT !.ids = @ \o Rows("song", o.offset, n), !.count = @ - n],
              Step(c, IF q.count = 0 THEN Emitting(q) ELSE [q EXCEPT !.phase = "query"])
       PROVE  RInv'
  <2> DEFINE more == o.ids \o Rows("song", o.offset, n)
  <2>1. n \in Nat /\ n <= o.count /\ o.count - n \in Nat
    BY <1>3, <1>5, <1>6, LimitFacts
  <2>2. Within(o, o.ids) /\ Ascending(o.ids) /\ Len(o.ids) + n <= o.asked
    BY <1>3, <1>5, <1>6, <2>1, NothingWithin
  <2>3. \A k \in 1 .. Len(o.ids) : o.ids[k][1] = "song"
    BY <1>6
  <2>4. "song" \in Labels \ {"none"}
    BY DEF Labels
  <2> HIDE DEF more
  <2>5. LET m == o.ids \o Rows("song", o.offset, n)
        IN  /\ m \in Seq(Item) /\ Len(m) = Len(o.ids) + n
            /\ Within(o, m) /\ Ascending(m)
            /\ "song" = "song" => \A k \in 1 .. Len(m) : m[k][1] = "song"
    <3>1. "song" = "row" \/ o.ids = << >>
      BY <1>5
    <3>2. QED
      BY <1>3, <1>6, <2>1, <2>2, <2>3, <2>4, <3>1, MoreWithin, Zenon
  <2>6. /\ more \in Seq(Item) /\ Len(more) = Len(o.ids) + n
        /\ Within(o, more) /\ Ascending(more)
        /\ \A k \in 1 .. Len(more) : more[k][1] = "song"
    BY <2>5 DEF more
  <2>7. q = [o EXCEPT !.ids = more, !.count = o.count - n]
    BY <1>10 DEF more
  <2>8. /\ q \in Op /\ q.target = o.target /\ q.offset = o.offset
        /\ q.asked = o.asked /\ q.uris = o.uris /\ q.ids = more
        /\ q.of = o.of /\ q.untimed = {} /\ q.count = o.count - n
    BY <1>3, <1>5, <2>1, <2>6, <2>7 DEF Op
  <2>9. CASE q.count = 0
    <3>1. Listed(q)
      BY <1>3, <1>5, <2>6, <2>8, ListedWith
    <3>2. Step(c, Emitting(q))
      BY <1>10, <2>9
    <3>3. /\ q.target = op[c].target /\ q.offset = op[c].offset
          /\ q.asked = op[c].asked /\ q.of = op[c].of
          /\ q.untimed = AskedRows(op[c])
      BY <1>7, <2>8 DEF o
    <3>4. QED
      BY <1>2, <2>8, <3>1, <3>2, <3>3, EmittingKeepsRInv
  <2>10. CASE q.count # 0
    <3> DEFINE r == Moved(q, "query")
    <3>1. /\ r \in Op /\ r.phase = "query" /\ r.target = o.target
          /\ r.offset = o.offset /\ r.asked = o.asked /\ r.uris = o.uris
          /\ r.untimed = {} /\ r.of = o.of /\ r.ids = more
          /\ r.count = o.count - n
      BY <1>6, <2>8 DEF Moved, Op
    <3>2. Step(c, r)
      BY <1>10, <2>10 DEF Moved
    <3> HIDE DEF r
    <3>3. r.count > 0 /\ Len(r.ids) + r.count <= o.asked
      BY <1>5, <1>6, <2>1, <2>6, <2>8, <2>10, <3>1
    <3>4. QED
      BY <1>8, <2>6, <3>1, <3>2, <3>3
  <2>11. QED
    BY <2>9, <2>10
<1>11. QED
  BY <1>9, <1>10, Zenon DEF SongsAnswer, o

\* Each child is put in front of those that answered before, or left out.
LEMMA ChildAnswerKeepsRInv ==
  ASSUME RInv, IInv', NEW c \in Calls, ChildAnswer(c)
  PROVE  RInv'
<1> DEFINE o == op[c]
<1>1. op[c].phase = "children"
  BY DEF ChildAnswer
<1>2. op[c].phase \in Active \ {"emitting"}
  BY <1>1 DEF Active, Phase
<1>3. /\ o \in Op /\ AskedOK(o) /\ ListOK(o) /\ Listed(o) /\ UntimedOK(o)
      /\ log[c] = << >> /\ LocalOK(o)
  BY <1>2, WaitingFacts DEF RInv, IInv
<1>4. o.phase = "children"
  BY <1>1
<1>5. PICK k \in o.waiting :
        \E ids \in {o.ids, << <<"child", k>> >> \o o.ids} :
          LET q == [o EXCEPT !.waiting = @ \ {k}, !.ids = ids,
                             !.remaining_count = Decremented(@)]
          IN  Step(c, IF q.remaining_count = 0 THEN Emitting(q) ELSE q)
  BY DEF ChildAnswer
<1> HIDE DEF o
<1>6. PICK ids \in {o.ids, << <<"child", k>> >> \o o.ids} :
        LET q == [o EXCEPT !.waiting = @ \ {k}, !.ids = ids,
                           !.remaining_count = Decremented(@)]
        IN  Step(c, IF q.remaining_count = 0 THEN Emitting(q) ELSE q)
  BY <1>5
<1>7. /\ o.target \in {"root", "music"} /\ Children(o.ids)
      /\ o.waiting \subseteq 1 .. 5 /\ Len(o.ids) + o.remaining_count <= 5
      /\ o.untimed = {}
  BY <1>3, <1>4 DEF AskedOK, ListOK, Listed, UntimedOK
<1>8. /\ o.remaining_count \in Nat /\ o.ids \in Seq(Item) /\ Len(o.ids) \in Nat
      /\ o.remaining_count > 0
  <2>1. o.remaining_count = Cardinality(o.waiting) /\ IsFiniteSet(o.waiting)
    BY <1>3, <1>4 DEF LocalOK
  <2>2. o.remaining_count \in Nat /\ o.ids \in Seq(Item) /\ Len(o.ids) \in Nat
    BY <1>3, OpFields
  <2>3. Cardinality(o.waiting) # 0
    <3>1. o.waiting # {}
      BY <1>5
    <3>2. QED
      BY <2>1, <3>1, FS_EmptySet
  <2>4. QED
    BY <2>1, <2>2, <2>3
<1>9. ids \in Seq(Item) /\ Children(ids) /\ Len(ids) + (o.remaining_count - 1) <= 5
  <2>1. CASE ids = o.ids
    BY <1>7, <1>8, <2>1
  <2>2. CASE ids = << <<"child", k>> >> \o o.ids
    <3>1. k \in 1 .. 5 /\ Len(o.ids) < 5
      BY <1>5, <1>7, <1>8
    <3>2. /\ Children(<< <<"child", k>> >> \o o.ids)
          /\ << <<"child", k>> >> \o o.ids \in Seq(Item)
          /\ Len(<< <<"child", k>> >> \o o.ids) = Len(o.ids) + 1
      BY <1>7, <1>8, <3>1, MoreChildren, Zenon
    <3>3. Children(ids) /\ ids \in Seq(Item) /\ Len(ids) = Len(o.ids) + 1
      BY <2>2, <3>2, Zenon
    <3>4. QED
      BY <1>7, <1>8, <3>3
  <2>3. QED
    BY <1>6, <2>1, <2>2
<1> DEFINE q == [o EXCEPT !.waiting = @ \ {k}, !.ids = ids,
                          !.remaining_count = Decremented(@)]
<1>10. /\ q \in Op /\ q.target = o.target /\ q.offset = o.offset
       /\ q.asked = o.asked /\ q.ids = ids /\ q.of = o.of
       /\ q.untimed = {} /\ q.phase = "children"
       /\ q.waiting = o.waiting \ {k} /\ q.remaining_count = o.remaining_count - 1
  <2>1. o.remaining_count - 1 \in Nat /\ o.waiting \ {k} \in SUBSET Nat
    BY <1>3, <1>8 DEF Op
  <2>2. Decremented(o.remaining_count) = o.remaining_count - 1
    BY <1>8, DecrementedFacts
  <2>3. QED
    BY <1>3, <1>4, <1>7, <1>9, <2>1, <2>2 DEF Op
<1>11. Step(c, IF q.remaining_count = 0 THEN Emitting(q) ELSE q)
  BY <1>6
<1> HIDE DEF q
<1>12. Listed(q)
  BY <1>7, <1>9, <1>10 DEF Listed
<1>13. AskedRows(o) = {}
  BY <1>4, <1>7 DEF AskedRows
<1>14. CASE q.remaining_count = 0
  <2>1. Step(c, Emitting(q))
    BY <1>11, <1>14
  <2>2. /\ q.target = op[c].target /\ q.offset = op[c].offset
        /\ q.asked = op[c].asked /\ q.of = op[c].of
        /\ q.untimed = AskedRows(op[c])
    BY <1>10, <1>13 DEF o
  <2>3. QED
    BY <1>2, <1>10, <1>12, <2>1, <2>2, EmittingKeepsRInv
<1>15. CASE q.remaining_count # 0
  <2>1. ListOK(q)
    BY <1>7, <1>9, <1>10, <1>12 DEF ListOK
  <2>2. AskedOK(q)
    BY <1>3, <1>7, <1>10 DEF AskedOK
  <2>3. ToldOK(q, log[c]) /\ UntimedOK(q)
    BY <1>3, <1>10 DEF ToldOK, UntimedOK
  <2>4. ResultsOK(q, log[c])
    BY <2>1, <2>2, <2>3 DEF ResultsOK
  <2>5. AskedRows(q) = AskedRows(op[c]) /\ q.of = op[c].of
    BY <1>10, <1>13 DEF AskedRows, o
  <2>6. Step(c, q)
    BY <1>11, <1>15
  <2>7. QED
    BY <1>10, <2>4, <2>5, <2>6, StepKeepsRInv
<1>16. QED
  BY <1>14, <1>15

\* A new list changes nothing else.
LEMMA RelistedFields ==
  ASSUME NEW o \in Op, NEW ids \in Seq(Item)
  PROVE  LET q == [o EXCEPT !.ids = ids, !.current = 0]
         IN  /\ q \in Op /\ q.target = o.target /\ q.offset = o.offset
             /\ q.asked = o.asked /\ q.uris = o.uris /\ q.ids = ids
             /\ q.of = o.of /\ q.untimed = o.untimed /\ q.current = 0
BY DEF Op

\* The playlists of the answer, those without a duration marked.
LEMMA PlaylistsAnswerKeepsRInv ==
  ASSUME RInv, IInv', NEW c \in Calls, op[c].phase = "playlists",
         NEW n \in Limit(op[c]), NEW q,
         q = [op[c] EXCEPT !.ids = Rows("playlist", op[c].offset, n), !.current = 0],
         NEW untimed \in SUBSET (IF n = 0 THEN {1} ELSE 1 .. n),
         \/ Step(c, Emitting(q))
         \/ Step(c, [q EXCEPT !.phase = "durations", !.untimed = untimed])
  PROVE  RInv'
<1> DEFINE o == op[c]
<1>1. op[c].phase \in Active \ {"emitting"}
  BY DEF Active, Phase
<1>2. /\ o \in Op /\ AskedOK(o) /\ ListOK(o) /\ Listed(o) /\ UntimedOK(o)
      /\ log[c] = << >> /\ o.phase = "playlists" /\ n \in Limit(o)
  BY <1>1, WaitingFacts
<1> HIDE DEF o
<1>3. /\ o.target = "playlists" /\ o.untimed = {} /\ o.count > 0
      /\ Len(o.ids) + o.count <= o.asked
  BY <1>2 DEF AskedOK, ListOK, UntimedOK
<1>4. n \in Nat /\ n <= o.asked /\ o.offset \in Nat
  <2>1. n \in Nat /\ n <= o.count
    BY <1>2, <1>3, LimitFacts
  <2>2. o.count \in Nat /\ o.asked \in Nat /\ Len(o.ids) \in Nat /\ o.offset \in Nat
    BY <1>2, OpFields
  <2>3. o.count <= o.asked
    BY <1>3, <2>2
  <2>4. QED
    BY <2>1, <2>2, <2>3
<1> DEFINE ids == Rows("playlist", o.offset, n)
<1>5. "playlist" \in Labels \ {"none"} /\ "playlist" \in Labels
  BY DEF Labels
<1>6. /\ ids \in Seq(Item) /\ Len(ids) = n
      /\ Within(o, ids) /\ Ascending(ids)
  BY <1>2, <1>4, <1>5, RowsFacts, RowsWithin
<1>7. q = [o EXCEPT !.ids = ids, !.current = 0]
  BY DEF o
<1> HIDE DEF ids
<1>8. /\ q \in Op /\ q.target = o.target /\ q.offset = o.offset
      /\ q.asked = o.asked /\ q.uris = o.uris /\ q.ids = ids /\ q.of = o.of
      /\ q.untimed = {} /\ q.current = 0
  <2>1. o \in Op /\ ids \in Seq(Item) /\ o.untimed = {}
    BY <1>2, <1>3, <1>6
  <2>2. LET r == [o EXCEPT !.ids = ids, !.current = 0]
        IN  /\ r \in Op /\ r.target = o.target /\ r.offset = o.offset
            /\ r.asked = o.asked /\ r.uris = o.uris /\ r.ids = ids
            /\ r.of = o.of /\ r.untimed = o.untimed /\ r.current = 0
    BY <2>1, RelistedFields, Zenon
  <2>3. QED
    BY <1>7, <2>1, <2>2, Zenon
<1>9. Listed(q)
  <2>1. o.target \notin {"root", "music"} /\ Within(o, q.ids) /\ Ascending(q.ids)
    BY <1>3, <1>6, <1>8
  <2>2. QED
    BY <1>2, <1>8, <2>1, ListedWith, Zenon
<1>10. AskedRows(o) = {}
  BY <1>2, <1>3 DEF AskedRows
<1>11. CASE Step(c, Emitting(q))
  <2>1. /\ q.target = op[c].target /\ q.offset = op[c].offset
        /\ q.asked = op[c].asked /\ q.of = op[c].of
        /\ q.untimed = AskedRows(op[c])
    BY <1>8, <1>10 DEF o
  <2>2. QED
    BY <1>1, <1>8, <1>9, <1>11, <2>1, EmittingKeepsRInv
<1>12. CASE Step(c, [q EXCEPT !.phase = "durations", !.untimed = untimed])
  <2> DEFINE r == [q EXCEPT !.phase = "durations", !.untimed = untimed]
  <2>1. untimed \in SUBSET Nat /\ "durations" \in Phase
    BY <1>4 DEF Phase
  <2>2. /\ r \in Op /\ r.target = o.target /\ r.offset = o.offset
        /\ r.asked = o.asked /\ r.uris = o.uris /\ r.ids = ids /\ r.of = o.of
        /\ r.untimed = untimed /\ r.current = 0 /\ r.phase = "durations"
    BY <1>8, <2>1, ZenonT(40) DEF Op
  <2>3. Step(c, r)
    BY <1>12
  <2> HIDE DEF r
  <2>4. Listed(r)
    BY <1>2, <1>3, <1>6, <2>2, ListedWith
  <2>5. ListOK(r) /\ ToldOK(r, log[c])
    BY <1>2, <2>2, <2>4 DEF ListOK, ToldOK
  <2>6. AskedOK(r)
    BY <1>2, <1>3, <2>2 DEF AskedOK
  <2>7. UntimedOK(r)
    <3>1. ids = << >> <=> n = 0
      BY <1>6, EmptySeq
    <3>2. untimed \subseteq 1 .. Entries(r)
      BY <1>6, <1>12, <2>2, <3>1 DEF Entries
    <3>3. 0 <= Entries(r)
      BY <1>4, <1>6, <2>2 DEF Entries
    <3>4. QED
      BY <2>2, <3>2, <3>3 DEF UntimedOK
  <2>8. AskedRows(r) = AskedRows(op[c]) /\ r.of = op[c].of
    <3>1. \A row \in untimed : ~ (row <= 0)
      BY <1>4, <1>12
    <3>2. AskedRows(r) = {row \in untimed : row <= 0}
      BY <2>2 DEF AskedRows
    <3>3. QED
      BY <1>10, <2>2, <3>1, <3>2 DEF o
  <2>9. ResultsOK(r, log[c])
    BY <2>5, <2>6, <2>7 DEF ResultsOK
  <2>10. QED
    BY <2>2, <2>3, <2>8, <2>9, StepKeepsRInv
<1>13. QED
  BY <1>11, <1>12

\* The entries of a playlist are its list from here on.
LEMMA EntriesAnswerKeepsRInv ==
  ASSUME RInv, IInv', NEW c \in Calls, EntriesAnswer(c)
  PROVE  RInv'
<1> DEFINE o == op[c]
           q == [o EXCEPT !.ids = o.uris, !.waiting = {}]
<1>1. op[c].phase = "entries"
  BY DEF EntriesAnswer
<1>2. op[c].phase \in Active \ {"emitting"}
  BY <1>1 DEF Active, Phase
<1>3. o \in Op /\ AskedOK(o) /\ Listed(o) /\ UntimedOK(o) /\ o.phase = "entries"
  BY <1>1, <1>2, WaitingFacts
<1>4. Step(c, Emitting(q))
  BY DEF EntriesAnswer
<1> HIDE DEF o
<1>5. o.target = "playlist" /\ o.untimed = {}
  BY <1>3 DEF AskedOK, UntimedOK
<1>6. o.uris \in Seq(Item) /\ Within(o, o.uris) /\ Ascending(o.uris)
  BY <1>3, <1>5, OpFields DEF Listed
<1>7. /\ q \in Op /\ q.target = o.target /\ q.offset = o.offset
      /\ q.asked = o.asked /\ q.uris = o.uris /\ q.ids = o.uris /\ q.of = o.of
      /\ q.untimed = {}
  BY <1>3, <1>5, <1>6 DEF Op
<1> HIDE DEF q
<1>8. Listed(q)
  BY <1>3, <1>5, <1>6, <1>7, ListedWith
<1>9. AskedRows(o) = {}
  BY <1>3, <1>5 DEF AskedRows
<1>10. /\ q.target = op[c].target /\ q.offset = op[c].offset
       /\ q.asked = op[c].asked /\ q.of = op[c].of
       /\ q.untimed = AskedRows(op[c])
  BY <1>7, <1>9 DEF o
<1>11. QED
  BY <1>2, <1>4, <1>7, <1>8, <1>10, EmittingKeepsRInv

\* Waiting for an answer that never comes changes nothing else.
LEMMA EntriesLostKeepsRInv ==
  ASSUME RInv, IInv', NEW c \in Calls, EntriesLost(c)
  PROVE  RInv'
<1> DEFINE o == op[c]
           q == Moved(o, "orphaned")
<1>1. op[c].phase = "entries" /\ Step(c, q)
  BY DEF EntriesLost, Moved
<1>2. op[c].phase \in Active \ {"emitting"} /\ "orphaned" \in Phase
  BY <1>1 DEF Active, Phase
<1>3. /\ o \in Op /\ AskedOK(o) /\ Listed(o) /\ UntimedOK(o)
      /\ log[c] = << >> /\ o.phase = "entries"
  BY <1>1, <1>2, WaitingFacts
<1> HIDE DEF o
<1>4. /\ q \in Op /\ q.phase = "orphaned" /\ q.target = o.target
      /\ q.offset = o.offset /\ q.asked = o.asked
      /\ q.ids = o.ids /\ q.uris = o.uris /\ q.untimed = o.untimed /\ q.of = o.of
  BY <1>2, <1>3, MovedFields
<1> HIDE DEF q
<1>5. Listed(q)
  BY <1>3, <1>4, ListedSame
<1>6. ListOK(q) /\ AskedOK(q) /\ ToldOK(q, log[c]) /\ UntimedOK(q)
  BY <1>3, <1>4, <1>5 DEF ListOK, AskedOK, ToldOK, UntimedOK
<1>7. AskedRows(q) = AskedRows(op[c]) /\ q.of = op[c].of
  BY <1>3, <1>4 DEF AskedRows, o
<1>8. ResultsOK(q, log[c])
  BY <1>6 DEF ResultsOK
<1>9. QED
  BY <1>1, <1>4, <1>7, <1>8, StepKeepsRInv

-----------------------------------------------------------------------------
(* Each action: idle sources.                                              *)

\* The rows passed over are those that have a duration, or have been browsed.
LEMMA SkipDurationKeepsRInv ==
  ASSUME RInv, IInv', NEW c \in Calls, SkipDuration(c)
  PROVE  RInv'
<1> DEFINE o == op[c]
           q == [o EXCEPT !.current = @ + 1]
<1>1. op[c].phase = "durations" /\ op[c].current + 1 \notin op[c].untimed
  BY DEF SkipDuration
<1>2. op[c].phase \in Active \ {"emitting"}
  BY <1>1 DEF Active, Phase
<1>3. /\ o \in Op /\ AskedOK(o) /\ Listed(o) /\ UntimedOK(o) /\ log[c] = << >>
      /\ o.phase = "durations" /\ o.current + 1 \notin o.untimed
  BY <1>1, <1>2, WaitingFacts
<1>4. Step(c, IF MoreIds(o) THEN q ELSE Emitting(o))
  BY DEF SkipDuration
<1> HIDE DEF o
<1>5. /\ o.current \in Nat /\ Len(o.ids) \in Nat /\ Entries(o) \in Nat
      /\ o.untimed \subseteq 1 .. Entries(o) /\ o.current <= Entries(o)
  BY <1>3, OpFields DEF UntimedOK, Entries
<1>6. AskedRows(o) = {r \in o.untimed : r <= o.current}
  BY <1>3 DEF AskedRows
<1>7. CASE MoreIds(o)
  <2>1. /\ q \in Op /\ q.phase = o.phase /\ q.target = o.target
        /\ q.offset = o.offset /\ q.asked = o.asked /\ q.of = o.of
        /\ q.ids = o.ids /\ q.uris = o.uris /\ q.untimed = o.untimed
        /\ q.current = o.current + 1
    <3>1. o.current + 1 \in Nat
      BY <1>5
    <3>2. QED
      BY <1>3, <3>1 DEF Op
  <2>2. Step(c, q)
    BY <1>4, <1>7
  <2> HIDE DEF q
  <2>3. Listed(q)
    BY <1>3, <2>1, ListedSame
  <2>4. ListOK(q) /\ AskedOK(q) /\ ToldOK(q, log[c])
    BY <1>3, <2>1, <2>3 DEF ListOK, AskedOK, ToldOK
  <2>5. UntimedOK(q)
    <3>1. Entries(q) = Entries(o) /\ Entries(o) = Len(o.ids)
      BY <1>5, <1>7, <2>1 DEF Entries, MoreIds
    <3>2. q.current <= Entries(q)
      BY <1>5, <1>7, <2>1, <3>1 DEF MoreIds
    <3>3. QED
      BY <1>3, <1>5, <2>1, <3>1, <3>2 DEF UntimedOK
  <2>6. AskedRows(q) = AskedRows(o)
    <3>1. \A r \in o.untimed : r <= o.current + 1 <=> r <= o.current
      BY <1>3, <1>5
    <3>2. AskedRows(q) = {r \in o.untimed : r <= o.current + 1}
      BY <1>3, <2>1 DEF AskedRows
    <3>3. QED
      BY <1>6, <3>1, <3>2
  <2>7. ResultsOK(q, log[c])
    BY <2>4, <2>5 DEF ResultsOK
  <2>8. QED
    BY <2>1, <2>2, <2>6, <2>7, StepKeepsRInv DEF o
<1>8. CASE ~ MoreIds(o)
  <2>1. Entries(o) <= o.current + 1
    BY <1>5, <1>8 DEF Entries, MoreIds
  <2>2. AskedRows(o) = o.untimed
    <3>1. \A r \in o.untimed : r <= o.current
      BY <1>3, <1>5, <2>1
    <3>2. QED
      BY <1>6, <3>1
  <2>3. Step(c, Emitting(o))
    BY <1>4, <1>8
  <2>4. QED
    BY <1>2, <1>3, <2>2, <2>3, EmittingKeepsRInv DEF o
<1>9. QED
  BY <1>7, <1>8

\* One result and another one to come.
LEMMA EmitResultKeepsRInv ==
  ASSUME RInv, IInv', NEW c \in Calls, EmitResult(c)
  PROVE  RInv'
<1> DEFINE o == op[c]
           b == Callback(CurrentItem(o), o.remaining_count, o.current_index, FALSE)
           gone == [op EXCEPT ![c] = Advanced(o)]
<1>1. IInv /\ op \in [Calls -> Op] /\ log \in [Calls -> Seq(LogEntry)]
  BY DEF RInv, IInv, TypeOK, LogEntry
<1>2. /\ o.phase = "emitting" /\ MoreIds(o)
      /\ log' = [log EXCEPT ![c] = Append(log[c], b)]
      /\ op' = Heard(gone, c, o.remaining_count)
  BY DEF EmitResult
<1>3. /\ o \in Op /\ ResultsOK(o, log[c]) /\ log[c] \in Seq(LogEntry)
      /\ o.remaining_count > 0 /\ o.remaining_count = Len(o.ids) - 1 - o.current
  <2>1. /\ o.remaining_count > 0
        /\ o.remaining_count = 0 \/ o.remaining_count = Len(o.ids) - 1 - o.current
    BY <1>1, <1>2, EmissionFacts
  <2>2. QED
    BY <1>1, <2>1 DEF RInv
<1>4. /\ ResultsOK(Advanced(o), Append(log[c], b))
      /\ Advanced(o).of = o.of /\ AskedRows(Advanced(o)) = AskedRows(o)
  BY <1>2, <1>3, EmittedResults
<1>5. Live(c) /\ op[c].phase # "nested"
  BY <1>2 DEF Live, Active, Phase
<1>6. Advanced(o) \in Op
  BY <1>3, AdvancedFacts
<1> HIDE DEF b
<1>7. /\ log'[c] = Append(log[c], b)
      /\ \A d \in Calls \ {c} : log'[d] = log[d]
  BY <1>1, <1>2
<1>8. /\ gone \in [Calls -> Op] /\ gone[c] = Advanced(o)
      /\ \A d \in Calls \ {c} : gone[d] = op[d]
  BY <1>1, <1>6
<1> HIDE DEF gone
<1>9. op'[c] = gone[c] /\ \A d \in Calls \ {c} : Calm(d)
  BY <1>1, <1>2, <1>4, <1>5, <1>7, <1>8, HeardCalm
<1>10. QED
  BY <1>4, <1>7, <1>8, <1>9, OneKeepsRInv

\* The closure of c is at its end; what is left of it, and what its callback
\* heard last, decide.
LEMMA EndKeepsRInv ==
  ASSUME RInv, IInv', NEW c \in Calls, Live(c), op[c].phase # "nested",
         NEW q \in Op, q.of = op[c].of, NEW gone, PutIn(op, c, q, gone),
         NEW b, log' = [log EXCEPT ![c] = Append(@, b)], op' = Heard(gone, c, 0),
         ResultsOK(q, Append(log[c], b)), AskedRows(q) = AskedRows(op[c])
  PROVE  RInv'
<1>1. IInv /\ op \in [Calls -> Op] /\ log \in [Calls -> Seq(LogEntry)]
  BY DEF RInv, IInv, TypeOK, LogEntry
<1>2. /\ gone \in [Calls -> Op] /\ gone[c] = q
      /\ \A d \in Calls \ {c} : gone[d] = op[d]
  BY <1>1 DEF PutIn
<1>3. /\ log'[c] = Append(log[c], b)
      /\ \A d \in Calls \ {c} : log'[d] = log[d]
  BY <1>1
<1>4. op'[c] = gone[c] /\ \A d \in Calls \ {c} : Calm(d)
  BY <1>1, <1>2, <1>3, HeardCalm
<1>5. QED
  BY <1>2, <1>3, <1>4, OneKeepsRInv

\* The last result.
LEMMA EmitLastKeepsRInv ==
  ASSUME RInv, IInv', NEW c \in Calls, EmitLast(c)
  PROVE  RInv'
<1> DEFINE o == op[c]
           b == Callback(CurrentItem(o), o.remaining_count, o.current_index, FALSE)
           q == Moved(Advanced(o), "freed")
           gone == [op EXCEPT ![c] = q]
<1>1. /\ IInv /\ o \in Op /\ log[c] \in Seq(LogEntry)
      /\ ResultsOK(o, log[c]) /\ LocalOK(o)
  BY DEF RInv, IInv, TypeOK, LogEntry
<1>2. /\ o.phase = "emitting" /\ ~ MoreIds(o)
      /\ log' = [log EXCEPT ![c] = Append(@, b)]
      /\ op' = Heard(gone, c, o.remaining_count)
  BY DEF EmitLast, Moved
<1>3. o.remaining_count = 0
  BY <1>1, <1>2, EmissionFacts
<1>4. ResultsOK(q, Append(log[c], b)) /\ AskedRows(q) = AskedRows(o)
  BY <1>1, <1>2, LastResults
<1>5. Live(c) /\ op[c].phase # "nested" /\ "freed" \in Phase
  BY <1>2 DEF Live, Active, Phase
<1>6. q \in Op /\ q.of = o.of
  BY <1>1, <1>5, AdvancedFacts, MovedFacts
<1>7. op' = Heard(gone, c, 0) /\ PutIn(op, c, q, gone)
  BY <1>2, <1>3 DEF PutIn
<1> HIDE DEF b, q, gone
<1>8. QED
  BY <1>2, <1>4, <1>5, <1>6, <1>7, EndKeepsRInv

\* _send_error_idle: the call, or its playlist, is refused.
LEMMA SendErrorKeepsRInv ==
  ASSUME RInv, IInv', NEW c \in Calls, SendError(c)
  PROVE  RInv'
<1>1. /\ c \in errors /\ log' = [log EXCEPT ![c] = Append(@, ErrorCallback)]
      /\ op' = Heard(op, c, 0)
  BY DEF SendError
<1>2. /\ op[c] \in Op /\ log[c] = << >> /\ ResultsOK(op[c], log[c])
      /\ op[c].phase \in {"none", "unparsed"}
  BY <1>1 DEF RInv, IInv, TypeOK, LogOK
<1>3. PutIn(op, c, op[c], op)
  BY DEF PutIn, RInv, IInv, TypeOK
<1>4. Append(log[c], ErrorCallback) = <<ErrorCallback>>
  BY <1>2
<1>5. ResultsOK(op[c], Append(log[c], ErrorCallback))
  BY <1>2, <1>4, SentResults
<1>6. Live(c) /\ op[c].phase # "nested"
  BY <1>1, <1>2 DEF Live
<1>7. QED
  BY <1>1, <1>2, <1>3, <1>5, <1>6, EndKeepsRInv

\* A closure that only changes phase, or is cancelled, with nothing said.
LEMMA QuietKeepsRInv ==
  ASSUME RInv, IInv', NEW c \in Calls, NEW q, op' = [op EXCEPT ![c] = q],
         UNCHANGED log, ResultsOK(q, log[c]), q.of = op[c].of,
         AskedRows(q) = AskedRows(op[c])
  PROVE  RInv'
<1>1. op \in [Calls -> Op]
  BY DEF RInv, IInv, TypeOK
<1>2. op'[c] = q /\ \A d \in Calls \ {c} : Calm(d)
  BY <1>1 DEF Calm
<1>3. QED
  BY <1>2, OneKeepsRInv

\* _emit_browse_error, with or without a callback.
LEMMA ErrorKeepsRInv ==
  ASSUME RInv, IInv', NEW c \in Calls, EmitBrowseError(c),
         op[c].phase \in {"query", "playlists"}
  PROVE  RInv'
<1> DEFINE gone == [op EXCEPT ![c].phase = "failed"]
           q == Moved(op[c], "failed")
<1>1. op[c].phase \in Active \ {"emitting"} /\ "failed" \in Phase
  BY DEF Active, Phase
<1>2. op[c] \in Op /\ log[c] = << >> /\ ResultsOK(op[c], log[c])
  BY <1>1, WaitingFacts
<1>3. q \in Op /\ q.of = op[c].of
  BY <1>1, <1>2, MovedFields
<1>4. gone = [op EXCEPT ![c] = q]
  BY DEF Moved
<1>5. ASSUME NEW m \in {log[c], <<ErrorCallback>>}
      PROVE  ResultsOK(q, m) /\ AskedRows(q) = AskedRows(op[c])
  BY <1>2, FailedResults
<1> HIDE DEF gone, q
<1>6. CASE op[c].cancelled
  <2>1. op' = gone /\ UNCHANGED log
    BY <1>6 DEF EmitBrowseError, gone
  <2>2. QED
    BY <1>3, <1>4, <1>5, <2>1, QuietKeepsRInv
<1>7. CASE ~ op[c].cancelled
  <2>1. /\ op' = Heard(gone, c, 0)
        /\ log' = [log EXCEPT ![c] = Append(@, ErrorCallback)]
    BY <1>7 DEF EmitBrowseError, gone
  <2>2. Append(log[c], ErrorCallback) = <<ErrorCallback>>
    BY <1>2
  <2>3. /\ ResultsOK(q, Append(log[c], ErrorCallback))
        /\ AskedRows(q) = AskedRows(op[c])
    BY <1>5, <2>2
  <2>4. Live(c) /\ op[c].phase # "nested"
    BY <1>1 DEF Live
  <2>5. PutIn(op, c, q, gone)
    BY <1>4 DEF PutIn
  <2>6. QED
    BY <1>3, <2>1, <2>3, <2>4, <2>5, EndKeepsRInv
<1>8. QED
  BY <1>6, <1>7

\* The emission idle of a cancelled operation.
LEMMA DropCancelledKeepsRInv ==
  ASSUME RInv, IInv', NEW c \in Calls, DropCancelled(c)
  PROVE  RInv'
<1> DEFINE q == Moved(op[c], "freed")
<1>1. /\ op[c].phase = "emitting" /\ op[c].cancelled
      /\ op' = [op EXCEPT ![c] = q] /\ UNCHANGED log
  BY DEF DropCancelled, Moved
<1>2. op[c] \in Op /\ ResultsOK(op[c], log[c]) /\ "freed" \in Phase
  BY DEF RInv, IInv, TypeOK, Phase
<1>3. /\ ResultsOK(q, log[c]) /\ AskedRows(q) = AskedRows(op[c])
      /\ q.of = op[c].of
  BY <1>1, <1>2, DroppedResults, MovedFields
<1> HIDE DEF q
<1>4. QED
  BY <1>1, <1>3, QuietKeepsRInv

\* A cancellation by the user.
LEMMA CancelKeepsRInv ==
  ASSUME RInv, IInv', NEW c \in Calls, CancelBrowse(c)
  PROVE  RInv'
<1> DEFINE q == [op[c] EXCEPT !.cancelled = TRUE]
<1>1. c \in pending /\ op' = [op EXCEPT ![c] = q] /\ UNCHANGED log
  BY DEF CancelBrowse
<1>2. op[c] \in Op /\ ResultsOK(op[c], log[c]) /\ op[c].phase # "freed"
  BY <1>1 DEF RInv, IInv, TypeOK, PendingExact
<1>3. /\ ResultsOK(q, log[c]) /\ AskedRows(q) = AskedRows(op[c])
      /\ q.of = op[c].of
  BY <1>2, CancelledResults
<1> HIDE DEF q
<1>4. QED
  BY <1>1, <1>3, QuietKeepsRInv

-----------------------------------------------------------------------------
(* Each action: calls of browse().                                         *)

\* A closure fresh from the allocation, of a known object or not.
LEMMA BlankResults ==
  ASSUME NEW target \in AllTargets, NEW of \in (0 .. MaxCalls) \X Nat,
         NEW offset \in Skips \cup {0}, NEW asked \in 1 .. MaxRows
  PROVE  LET o == Blank(target, of, offset, asked)
         IN  /\ o \in Op /\ o.phase = "none" /\ o.of = of /\ o.untimed = {}
             /\ o.target = target /\ o.offset = offset /\ o.asked = asked
             /\ o.count = asked /\ o.ids = << >> /\ o.uris = << >>
             /\ o.offset \in Skips \cup {0} /\ Listed(o)
             /\ target = "invalid" => ResultsOK(o, << >>)
<1> DEFINE o == Blank(target, of, offset, asked)
<1>1. offset \in Nat /\ asked \in Nat
  BY SkipsAssumption
<1>2. /\ o \in Op /\ o.phase = "none" /\ o.of = of /\ o.untimed = {}
      /\ o.target = target /\ o.offset = offset /\ o.asked = asked
      /\ o.count = asked /\ o.ids = << >> /\ o.uris = << >>
  BY <1>1, BlankType DEF Blank
<1> HIDE DEF o
<1>3. Listed(o)
  BY <1>2, NothingWithin DEF Listed
<1>4. target = "invalid" => ResultsOK(o, << >>)
  BY <1>2, <1>3 DEF ResultsOK, AskedOK, ListOK, ToldOK, UntimedOK
<1>5. QED
  BY <1>2, <1>3, <1>4 DEF o

\* Registering a closure does not change what it is about.
LEMMA RegisteredResults ==
  ASSUME NEW o \in Op, browse_id_counter \in Nat, NEW q \in {Registered(o), Handed(o)}
  PROVE  /\ q \in Op /\ q.phase = o.phase /\ q.of = o.of /\ q.untimed = o.untimed
         /\ q.target = o.target /\ q.offset = o.offset /\ q.asked = o.asked
         /\ q.count = o.count /\ q.ids = o.ids /\ q.uris = o.uris
         /\ q.waiting = o.waiting /\ q.remaining_count = o.remaining_count
         /\ q.current = o.current
<1>1. browse_id_counter + 1 \in Nat
  OBVIOUS
<1>2. QED
  BY <1>1, ZenonT(40) DEF Registered, Handed, Op

\* A playlist that does not parse, and what parsing makes of one that does.
LEMMA ParsedResults ==
  ASSUME NEW o \in Op, o.target = "playlist", o.phase = "none", o.untimed = {},
         o.ids = << >>, o.uris = << >>, o.asked \in 1 .. MaxRows,
         o.offset \in Skips \cup {0}, Listed(o),
         NEW r \in ParsedPlaylists(o) \cup {Moved(o, "unparsed")}
  PROVE  r \in Op /\ ResultsOK(r, << >>) /\ r.untimed = {} /\ r.of = o.of
<1>1. o.asked \in Nat /\ o.offset \in Nat
  BY OpFields
<1>2. "entry" \in Labels \ {"none"} /\ "entry" \in Labels
  BY DEF Labels
<1>3. \A n \in 1 .. o.asked :
        /\ Rows("entry", o.offset, n) \in Seq(Item)
        /\ Within(o, Rows("entry", o.offset, n))
        /\ Ascending(Rows("entry", o.offset, n))
        /\ Backwards("entry", o.offset, n) \in Seq(Item)
        /\ Within(o, Backwards("entry", o.offset, n))
  <2>1. \A n \in 1 .. o.asked : n \in Nat /\ n <= o.asked
    BY <1>1
  <2>2. QED
    BY <1>1, <1>2, <2>1, RowsFacts, RowsWithin
\* Emission of a list that is within the window.
<1>4. ASSUME NEW q \in Op, q.target = o.target, q.offset = o.offset,
             q.asked = o.asked, q.of = o.of, q.untimed = {}, q.uris = << >>,
             Within(o, q.ids)
      PROVE  /\ ResultsOK(Emitting(q), << >>) /\ Emitting(q) \in Op
             /\ Emitting(q).untimed = {} /\ Emitting(q).of = o.of
  <2>1. Within(q, q.ids) /\ Within(q, << >>) /\ Ascending(<< >>)
    BY <1>4, NothingWithin DEF Within
  <2>2. Listed(q)
    BY <1>4, <2>1 DEF Listed
  <2>3. QED
    BY <1>4, <2>2, EmittingResults, EmittingFields
<1>5. ASSUME NEW n \in 1 .. o.asked, NEW l \in 1 .. n,
             r = [o EXCEPT !.phase = "entries", !.uris = Rows("entry", o.offset, n),
                           !.waiting = 1 .. l]
      PROVE  r \in Op /\ ResultsOK(r, << >>) /\ r.untimed = {} /\ r.of = o.of
  <2> DEFINE uris == Rows("entry", o.offset, n)
  <2>1. 1 .. l \in SUBSET Nat /\ "entries" \in Phase
    BY <1>1 DEF Phase
  <2>2. uris \in Seq(Item) /\ Within(o, uris) /\ Ascending(uris)
    BY <1>3
  <2> HIDE DEF uris
  <2>3. r = [o EXCEPT !.phase = "entries", !.uris = uris, !.waiting = 1 .. l]
    BY <1>5 DEF uris
  <2>4. /\ r \in Op /\ r.target = "playlist" /\ r.offset = o.offset
        /\ r.asked = o.asked /\ r.of = o.of /\ r.untimed = {}
        /\ r.ids = << >> /\ r.uris = uris /\ r.phase = "entries"
    BY <2>1, <2>2, <2>3 DEF Op
  <2>5. Within(r, uris) /\ Within(r, << >>) /\ Ascending(<< >>)
    BY <2>2, <2>4, NothingWithin DEF Within
  <2>6. Listed(r)
    BY <2>2, <2>4, <2>5 DEF Listed
  <2>7. QED
    BY <2>4, <2>6 DEF ResultsOK, AskedOK, ListOK, ToldOK, UntimedOK
<1>6. ASSUME NEW n \in 1 .. o.asked,
             r = Emitting([o EXCEPT !.ids = Backwards("entry", o.offset, n)])
      PROVE  r \in Op /\ ResultsOK(r, << >>) /\ r.untimed = {} /\ r.of = o.of
  <2> DEFINE q == [o EXCEPT !.ids = Backwards("entry", o.offset, n)]
  <2>1. /\ q \in Op /\ q.target = o.target /\ q.offset = o.offset
        /\ q.asked = o.asked /\ q.of = o.of /\ q.untimed = {} /\ q.uris = << >>
        /\ q.ids = Backwards("entry", o.offset, n)
    BY <1>3 DEF Op
  <2>2. r = Emitting(q)
    BY <1>6
  <2> HIDE DEF q
  <2>3. Within(o, q.ids)
    BY <1>3, <2>1
  <2>4. QED
    BY <1>4, <2>1, <2>2, <2>3
<1>7. CASE r = Emitting(o)
  <2>1. Within(o, o.ids)
    BY NothingWithin
  <2>2. QED
    BY <1>4, <1>7, <2>1
<1>8. CASE r = Moved(o, "unparsed")
  <2>1. "unparsed" \in Phase
    BY DEF Phase
  <2>2. /\ r \in Op /\ r.target = "playlist" /\ r.offset = o.offset
        /\ r.asked = o.asked /\ r.of = o.of /\ r.untimed = {}
        /\ r.ids = o.ids /\ r.uris = o.uris /\ r.phase = "unparsed"
    BY <1>8, <2>1, MovedFields
  <2>3. Listed(r)
    BY <2>2, ListedSame
  <2>4. QED
    BY <2>2, <2>3 DEF ResultsOK, AskedOK, ListOK, ToldOK, UntimedOK
<1> DEFINE Mixed(n) == {[o EXCEPT !.phase = "entries",
                                  !.uris = Rows("entry", o.offset, n),
                                  !.waiting = 1 .. l] : l \in 1 .. n}
           Local == UNION {Mixed(n) : n \in 1 .. o.asked}
           Remote == {Emitting([o EXCEPT !.ids = Backwards("entry", o.offset, n)]) :
                        n \in 1 .. o.asked}
<1>9. ParsedPlaylists(o) = (Local \cup Remote) \cup {Emitting(o)}
  BY Zenon DEF ParsedPlaylists
<1>10. CASE r \in Local
  <2>1. \E n \in 1 .. o.asked : r \in Mixed(n)
    BY <1>10, Zenon
  <2>2. \E n \in 1 .. o.asked : \E l \in 1 .. n :
          r = [o EXCEPT !.phase = "entries", !.uris = Rows("entry", o.offset, n),
                        !.waiting = 1 .. l]
    BY <2>1, Zenon
  <2>3. QED
    BY <1>5, <2>2
<1>11. CASE r \in Remote
  BY <1>6, <1>11
<1> HIDE DEF Local, Remote
<1>12. QED
  BY <1>7, <1>8, <1>9, <1>10, <1>11

\* What opens a call, by a user or by the parent p at a row to be browsed.
Opening(p, f, o) ==
  /\ calls < MaxCalls
  /\ p \in 0 .. MaxCalls
  /\ p = 0 => f = op /\ o.of = NoParent
  /\ p # 0 => /\ op[p].phase = "durations" /\ MovedIn(op, p, "nested", f)
              /\ op[p].current + 1 \in op[p].untimed
              /\ o.of = <<p, op[p].current + 1>>

\* Browsing a playlist.
LEMMA PlaylistKeepsRInv ==
  ASSUME RInv, IInv', NEW p, NEW f, NEW o \in Op, Opening(p, f, o),
         o.target = "playlist", o.phase = "none", o.untimed = {},
         o.ids = << >>, o.uris = << >>, o.asked \in 1 .. MaxRows,
         o.offset \in Skips \cup {0}, Listed(o),
         BrowsePlaylist(f, o), UNCHANGED log
  PROVE  RInv'
<1>1. browse_id_counter \in Nat
  BY DEF RInv, IInv, TypeOK
<1>2. PICK q \in {Registered(o), Handed(o)} :
        \E r \in ParsedPlaylists(q) \cup {Moved(q, "unparsed")} :
          op' = [f EXCEPT ![calls + 1] = r]
  <2>1. \/ op' = [f EXCEPT ![calls + 1] = Moved(Registered(o), "unparsed")]
        \/ \E r \in ParsedPlaylists(IF o.of = NoParent THEN Handed(o) ELSE Registered(o)) :
             op' = [f EXCEPT ![calls + 1] = r]
    BY Zenon DEF BrowsePlaylist, Moved
  <2>2. QED
    BY <2>1
<1>3. PICK r \in ParsedPlaylists(q) \cup {Moved(q, "unparsed")} :
        op' = [f EXCEPT ![calls + 1] = r]
  BY <1>2
<1>4. /\ q \in Op /\ q.phase = o.phase /\ q.of = o.of /\ q.untimed = o.untimed
      /\ q.target = o.target /\ q.offset = o.offset /\ q.asked = o.asked
      /\ q.ids = o.ids /\ q.uris = o.uris
  BY <1>1, RegisteredResults
<1>5. Listed(q)
  BY <1>4, ListedSame
<1>6. /\ q.target = "playlist" /\ q.phase = "none" /\ q.untimed = {}
      /\ q.ids = << >> /\ q.uris = << >> /\ q.asked \in 1 .. MaxRows
      /\ q.offset \in Skips \cup {0}
  BY <1>4
<1>7. r \in Op /\ ResultsOK(r, << >>) /\ r.untimed = {} /\ r.of = o.of
  BY <1>4, <1>5, <1>6, ParsedResults
<1>8. QED
  BY <1>3, <1>7, OpenKeepsRInv DEF Opening

\* A call that browse() refuses.
LEMMA RefusedKeepsRInv ==
  ASSUME RInv, IInv', NEW p, NEW f, NEW o \in Op, Opening(p, f, o),
         ResultsOK(o, << >>), o.untimed = {}, BrowseRefused(f, o), UNCHANGED log
  PROVE  RInv'
<1>1. op' = [f EXCEPT ![calls + 1] = o]
  BY DEF BrowseRefused
<1>2. QED
  BY <1>1, OpenKeepsRInv DEF Opening

\* The first request of a call to Tracker.
LEMMA AskingResults ==
  ASSUME NEW o \in Op, o.phase = "none", o.untimed = {},
         o.ids = << >>, o.uris = << >>, o.asked \in 1 .. MaxRows,
         o.count = o.asked, o.offset \in Skips \cup {0}, Listed(o),
         NEW a \in Asking(o), browse_id_counter \in Nat
  PROVE  /\ Handed(a) \in Op /\ ResultsOK(Handed(a), << >>)
         /\ Handed(a).untimed = {} /\ Handed(a).of = o.of
<1>1. /\ {"query", "songs", "children", "playlists"} \subseteq Phase
      /\ 1 .. 2 \in SUBSET Nat /\ 1 .. 5 \in SUBSET Nat
  BY DEF Phase
\* What is the same for all of them.
<1> DEFINE Kept(q) == /\ q \in Op /\ q.target = o.target /\ q.offset = o.offset
                      /\ q.asked = o.asked /\ q.count = o.count
                      /\ q.ids = << >> /\ q.uris = << >> /\ q.of = o.of
                      /\ q.untimed = {}
<1>2. Kept(a) /\ \/ o.target = "category" /\ a.phase = "query"
                 \/ o.target = "root_all" /\ a.phase = "songs"
                 \/ /\ o.target \in {"root", "music"} /\ a.phase = "children"
                    /\ a.waiting \subseteq 1 .. 5 /\ a.remaining_count <= 5
                 \/ o.target = "playlists" /\ a.phase = "playlists"
  <2>1. CASE a = [o EXCEPT !.phase = "query"] /\ o.target = "category"
    BY <1>1, <2>1 DEF Op
  <2>2. CASE a = [o EXCEPT !.phase = "songs"] /\ o.target = "root_all"
    BY <1>1, <2>2 DEF Op
  <2>3. CASE /\ a = [o EXCEPT !.phase = "children", !.waiting = 1 .. 2,
                              !.remaining_count = 2]
             /\ o.target = "root"
    <3>1. Kept(a) /\ a.phase = "children" /\ a.waiting = 1 .. 2 /\ a.remaining_count = 2
      BY <1>1, <2>3 DEF Op
    <3>2. QED
      BY <2>3, <3>1
  <2>4. CASE /\ a = [o EXCEPT !.phase = "children", !.waiting = 1 .. 5,
                              !.remaining_count = 5]
             /\ o.target = "music"
    <3>1. Kept(a) /\ a.phase = "children" /\ a.waiting = 1 .. 5 /\ a.remaining_count = 5
      BY <1>1, <2>4 DEF Op
    <3>2. QED
      BY <2>4, <3>1
  <2>5. ASSUME NEW b \in BOOLEAN,
               a = [o EXCEPT !.phase = "playlists", !.duration = b],
               o.target = "playlists"
        PROVE  Kept(a) /\ a.phase = "playlists"
    BY <1>1, <2>5 DEF Op
  <2> HIDE DEF Kept
  <2>6. QED
    BY <2>1, <2>2, <2>3, <2>4, <2>5 DEF Asking
<1> DEFINE h == Handed(a)
<1>3. /\ h \in Op /\ h.phase = a.phase /\ h.of = a.of /\ h.untimed = a.untimed
      /\ h.target = a.target /\ h.offset = a.offset /\ h.asked = a.asked
      /\ h.count = a.count /\ h.ids = a.ids /\ h.uris = a.uris
      /\ h.waiting = a.waiting /\ h.remaining_count = a.remaining_count
  BY <1>2, RegisteredResults
<1> HIDE DEF h
<1>4. Listed(h)
  BY <1>2, <1>3, ListedSame
<1>5. AskedOK(h)
  BY <1>2, <1>3 DEF AskedOK
<1>6. ListOK(h)
  <2>1. /\ Len(h.ids) = 0 /\ o.asked \in Nat /\ o.asked > 0
        /\ h.count = o.asked /\ h.asked = o.asked /\ a.remaining_count \in Nat
    BY <1>2, <1>3, OpFields
  <2>2. h.phase \in {"songs", "query", "playlists"} =>
          h.count > 0 /\ Len(h.ids) + h.count <= h.asked
    BY <2>1
  <2>3. h.phase = "query" => \A k \in 1 .. Len(h.ids) : h.ids[k][1] = "song"
    BY <2>1
  <2>4. h.phase = "children" =>
          h.waiting \subseteq 1 .. 5 /\ Len(h.ids) + h.remaining_count <= 5
    BY <1>2, <1>3, <2>1
  <2>5. QED
    BY <1>2, <1>3, <1>4, <2>2, <2>3, <2>4 DEF ListOK
<1>7. ToldOK(h, << >>) /\ UntimedOK(h)
  BY <1>2, <1>3 DEF ToldOK, UntimedOK
<1>8. QED
  BY <1>2, <1>3, <1>4, <1>5, <1>6, <1>7 DEF ResultsOK, h

\* A call by a user.
LEMMA BrowseKeepsRInv ==
  ASSUME RInv, IInv', NEW target \in Targets, NEW skip_count \in Skips,
         NEW item_count \in 1 .. MaxRows, Browse(target, skip_count, item_count)
  PROVE  RInv'
<1> DEFINE o == Blank(target, NoParent, skip_count, item_count)
<1>1. target \in AllTargets /\ NoParent \in (0 .. MaxCalls) \X Nat
  BY TargetsAssumption, MaxCallsNat DEF NoParent
<1>2. /\ o \in Op /\ o.phase = "none" /\ o.of = NoParent /\ o.untimed = {}
      /\ o.target = target /\ o.offset = skip_count /\ o.asked = item_count
      /\ o.count = item_count /\ o.ids = << >> /\ o.uris = << >>
      /\ o.offset \in Skips \cup {0} /\ Listed(o)
      /\ target = "invalid" => ResultsOK(o, << >>)
  BY <1>1, BlankResults
<1>3. /\ calls < MaxCalls /\ UNCHANGED log
      /\ \/ target = "invalid" /\ BrowseRefused(op, o)
         \/ target = "playlist" /\ BrowsePlaylist(op, o)
         \/ \E asking \in Asking(o) : BrowseQuery(asking)
  BY Zenon DEF Browse
<1> HIDE DEF o
<1>4. Opening(0, op, o) /\ browse_id_counter \in Nat
  BY <1>2, <1>3, MaxCallsNat DEF Opening, RInv, IInv, TypeOK
<1>5. CASE target = "invalid" /\ BrowseRefused(op, o)
  BY <1>2, <1>3, <1>4, <1>5, RefusedKeepsRInv
<1>6. CASE target = "playlist" /\ BrowsePlaylist(op, o)
  <2>1. o.target = "playlist" /\ o.asked \in 1 .. MaxRows
    BY <1>2, <1>6
  <2>2. QED
    BY <1>2, <1>3, <1>4, <1>6, <2>1, PlaylistKeepsRInv
<1>7. ASSUME NEW a \in Asking(o), BrowseQuery(a)
      PROVE  RInv'
  <2>1. o.asked \in 1 .. MaxRows /\ o.count = o.asked
    BY <1>2
  <2>2. /\ Handed(a) \in Op /\ ResultsOK(Handed(a), << >>)
        /\ Handed(a).untimed = {} /\ Handed(a).of = NoParent
    BY <1>2, <1>4, <2>1, AskingResults
  <2>3. op' = [op EXCEPT ![calls + 1] = Handed(a)]
    BY <1>7 DEF BrowseQuery
  <2>4. 0 \in 0 .. MaxCalls
    BY MaxCallsNat
  <2>5. QED
    BY <1>3, <2>2, <2>3, <2>4, OpenKeepsRInv
<1>8. QED
  BY <1>3, <1>5, <1>6, <1>7

\* A call by a parent that needs the duration of a playlist.
LEMMA AskDurationKeepsRInv ==
  ASSUME RInv, IInv', NEW c \in Calls, AskDuration(c)
  PROVE  RInv'
<1> DEFINE of == <<c, op[c].current + 1>>
           f == [op EXCEPT ![c].phase = "nested"]
<1>1. /\ op[c] \in Op /\ op[c].phase = "durations" /\ calls < MaxCalls
      /\ op[c].current + 1 \in op[c].untimed /\ UNCHANGED log
  BY DEF RInv, IInv, TypeOK, AskDuration
<1>2. \/ BrowseRefused(f, Blank("invalid", of, 0, MaxRows))
      \/ BrowsePlaylist(f, Blank("playlist", of, 0, MaxRows))
  BY DEF AskDuration
<1>3. c \in 0 .. MaxCalls /\ c # 0 /\ MaxRows \in 1 .. MaxRows
  BY MaxCallsNat, MaxRowsAssumption DEF Calls
<1>4. of \in (0 .. MaxCalls) \X Nat
  BY <1>1, <1>3, OpFields
<1>5. MovedIn(op, c, "nested", f)
  BY DEF MovedIn, Moved
<1>6. "invalid" \in AllTargets /\ "playlist" \in AllTargets
  BY DEF AllTargets
<1>7. of = <<c, op[c].current + 1>>
  OBVIOUS
<1> HIDE DEF f, of
<1>8. ASSUME NEW target \in {"invalid", "playlist"}
      PROVE  LET o == Blank(target, of, 0, MaxRows)
             IN  /\ o \in Op /\ o.phase = "none" /\ o.of = of /\ o.untimed = {}
                 /\ o.target = target /\ o.offset = 0 /\ o.asked = MaxRows
                 /\ o.ids = << >> /\ o.uris = << >> /\ Listed(o)
                 /\ target = "invalid" => ResultsOK(o, << >>)
  <2>1. target \in AllTargets /\ 0 \in Skips \cup {0}
    BY <1>6
  <2>2. LET o == Blank(target, of, 0, MaxRows)
        IN  /\ o \in Op /\ o.phase = "none" /\ o.of = of /\ o.untimed = {}
            /\ o.target = target /\ o.offset = 0 /\ o.asked = MaxRows
            /\ o.count = MaxRows /\ o.ids = << >> /\ o.uris = << >>
            /\ o.offset \in Skips \cup {0} /\ Listed(o)
            /\ target = "invalid" => ResultsOK(o, << >>)
    BY <1>3, <1>4, <2>1, BlankResults
  <2>3. QED
    BY <2>2
<1>9. CASE BrowseRefused(f, Blank("invalid", of, 0, MaxRows))
  <2> DEFINE o == Blank("invalid", of, 0, MaxRows)
  <2>1. /\ o \in Op /\ o.of = of /\ o.untimed = {} /\ ResultsOK(o, << >>)
    BY <1>8
  <2>2. BrowseRefused(f, o)
    BY <1>9
  <2> HIDE DEF o
  <2>3. Opening(c, f, o)
    BY <1>1, <1>3, <1>5, <1>7, <2>1 DEF Opening
  <2>4. QED
    BY <1>1, <2>1, <2>2, <2>3, RefusedKeepsRInv
<1>10. CASE BrowsePlaylist(f, Blank("playlist", of, 0, MaxRows))
  <2> DEFINE o == Blank("playlist", of, 0, MaxRows)
  <2>1. /\ o \in Op /\ o.phase = "none" /\ o.of = of /\ o.untimed = {}
        /\ o.target = "playlist" /\ o.offset = 0 /\ o.asked = MaxRows
        /\ o.ids = << >> /\ o.uris = << >> /\ Listed(o)
    BY <1>8
  <2>2. BrowsePlaylist(f, o)
    BY <1>10
  <2> HIDE DEF o
  <2>3. Opening(c, f, o)
    BY <1>1, <1>3, <1>5, <1>7, <2>1 DEF Opening
  <2>4. o.asked \in 1 .. MaxRows /\ o.offset \in Skips \cup {0}
    BY <1>3, <2>1
  <2>5. QED
    BY <1>1, <2>1, <2>2, <2>3, <2>4, PlaylistKeepsRInv
<1>11. QED
  BY <1>2, <1>9, <1>10

-----------------------------------------------------------------------------
(* The invariant.                                                          *)

\* Before any call nothing is listed, told or asked.
LEMMA InitEstablishesRInv == Init => RInv
<1> SUFFICES ASSUME Init
             PROVE  RInv
  OBVIOUS
<1>1. IInv
  BY InitEstablishesIInv
<1> DEFINE o == Blank("invalid", NoParent, 0, 0)
<1>2. /\ o \in Op /\ o.phase = "none" /\ o.of = NoParent /\ o.untimed = {}
      /\ o.target = "invalid" /\ o.offset = 0 /\ o.ids = << >> /\ o.uris = << >>
  <2>1. "invalid" \in AllTargets /\ NoParent \in (0 .. MaxCalls) \X Nat
    BY MaxCallsNat DEF AllTargets, NoParent
  <2>2. QED
    BY <2>1, BlankType DEF Blank
<1>3. \A c \in Calls : op[c] = o /\ log[c] = << >>
  BY DEF Init
<1> HIDE DEF o
<1>4. Listed(o)
  BY <1>2, NothingWithin DEF Listed
<1>5. ResultsOK(o, << >>)
  BY <1>2, <1>4 DEF ResultsOK, AskedOK, ListOK, ToldOK, UntimedOK
<1>6. AskedRows(o) = {}
  BY <1>2 DEF AskedRows
<1>7. 0 \notin Calls
  BY MaxCallsNat DEF Calls
<1>8. NestedExact
  BY <1>2, <1>3, <1>6, <1>7 DEF NestedExact, NoParent
<1>9. QED
  BY <1>1, <1>3, <1>5, <1>8 DEF RInv

\* Every step preserves it: one case per action.
LEMMA NextKeepsRInv == RInv /\ [Next]_vars => RInv'
<1> SUFFICES ASSUME RInv, [Next]_vars
             PROVE  RInv'
  OBVIOUS
<1>1. IInv'
  BY NextKeepsIInv DEF RInv
<1>2. CASE UNCHANGED vars
  BY <1>1, <1>2 DEF vars, RInv, NestedExact
<1>3. CASE \E target \in Targets, skip_count \in Skips, item_count \in 1 .. MaxRows :
             Browse(target, skip_count, item_count)
  BY <1>1, <1>3, BrowseKeepsRInv
<1>4. ASSUME NEW c \in Calls, CancelBrowse(c)
      PROVE  RInv'
  BY <1>1, <1>4, CancelKeepsRInv
<1>5. ASSUME NEW c \in Calls, Handler(c)
      PROVE  RInv'
  <2>1. CASE QueryAnswer(c)
    <3>1. op[c].phase = "query"
      BY <2>1 DEF QueryAnswer
    <3>2. CASE EmitBrowseError(c)
      BY <1>1, <3>1, <3>2, ErrorKeepsRInv
    <3>3. CASE \E n \in Limit(op[c]) :
                 Step(c, Emitting([op[c] EXCEPT !.ids = @ \o Rows("row", op[c].offset, n)]))
      BY <1>1, <3>1, <3>3, QueryAnswerKeepsRInv
    <3>4. QED
      BY <2>1, <3>2, <3>3 DEF QueryAnswer
  <2>2. CASE SongsAnswer(c)
    BY <1>1, <2>2, SongsAnswerKeepsRInv
  <2>3. CASE ChildAnswer(c)
    BY <1>1, <2>3, ChildAnswerKeepsRInv
  <2>4. CASE PlaylistsAnswer(c)
    <3>1. op[c].phase = "playlists"
      BY <2>4 DEF PlaylistsAnswer
    <3>2. CASE EmitBrowseError(c)
      BY <1>1, <3>1, <3>2, ErrorKeepsRInv
    <3>3. ASSUME NEW n \in Limit(op[c]), NEW q,
                 q = [op[c] EXCEPT !.ids = Rows("playlist", op[c].offset, n), !.current = 0],
                 IF q.duration
                 THEN \E untimed \in SUBSET (IF n = 0 THEN {1} ELSE 1 .. n) :
                        Step(c, [q EXCEPT !.phase = "durations",
                                          !.untimed = untimed])
                 ELSE Step(c, Emitting(q))
          PROVE  RInv'
      <4>1. {} \in SUBSET (IF n = 0 THEN {1} ELSE 1 .. n)
        OBVIOUS
      <4>2. QED
        BY <1>1, <3>1, <3>3, <4>1, PlaylistsAnswerKeepsRInv
    <3>4. QED
      BY <2>4, <3>2, <3>3, Zenon DEF PlaylistsAnswer
  <2>5. CASE EntriesAnswer(c)
    BY <1>1, <2>5, EntriesAnswerKeepsRInv
  <2>6. CASE EntriesLost(c)
    BY <1>1, <2>6, EntriesLostKeepsRInv
  <2>7. CASE AskDuration(c)
    BY <1>1, <2>7, AskDurationKeepsRInv
  <2>8. CASE SkipDuration(c)
    BY <1>1, <2>8, SkipDurationKeepsRInv
  <2>9. CASE EmitResult(c)
    BY <1>1, <2>9, EmitResultKeepsRInv
  <2>10. CASE EmitLast(c)
    BY <1>1, <2>10, EmitLastKeepsRInv
  <2>11. CASE DropCancelled(c)
    BY <1>1, <2>11, DropCancelledKeepsRInv
  <2>12. CASE SendError(c)
    BY <1>1, <2>12, SendErrorKeepsRInv
  <2>13. QED
    BY <1>5, <2>1, <2>2, <2>3, <2>4, <2>5, <2>6, <2>7, <2>8, <2>9, <2>10,
       <2>11, <2>12 DEF Handler
<1>6. QED
  BY <1>2, <1>3, <1>4, <1>5 DEF Next

\* RInv holds throughout.
THEOREM ResultsInvariance == Spec => []RInv
BY InitEstablishesRInv, NextKeepsRInv, PTL DEF Spec

-----------------------------------------------------------------------------
(* What follows from it.                                                   *)

\* What a call has been told, and the list it has been told about.
LEMMA ToldFacts ==
  ASSUME RInv, NEW c \in Calls
  PROVE  /\ op[c] \in Op /\ log[c] \in Seq(LogEntry) /\ Len(log[c]) \in Nat
         /\ Listed(op[c]) /\ AskedOK(op[c])
         /\ \/ Told(op[c], log[c])
            \/ Len(log[c]) <= 1 /\ \A k \in 1 .. Len(log[c]) : log[c][k].item = NoItem
<1>1. /\ op[c] \in Op /\ log[c] \in Seq(LogEntry) /\ ResultsOK(op[c], log[c])
  BY DEF RInv, IInv, TypeOK, LogEntry
<1>2. Len(log[c]) \in Nat
  BY <1>1
<1>3. Listed(op[c]) /\ AskedOK(op[c]) /\ ToldOK(op[c], log[c])
  BY <1>1 DEF ResultsOK, ListOK
<1>4. ASSUME NEW b, b.item = NoItem, log[c] = <<b>>
      PROVE  Len(log[c]) <= 1 /\ \A k \in 1 .. Len(log[c]) : log[c][k].item = NoItem
  BY <1>4
<1>5. ASSUME log[c] = << >>
      PROVE  Len(log[c]) <= 1 /\ \A k \in 1 .. Len(log[c]) : log[c][k].item = NoItem
  BY <1>5
<1>6. /\ ErrorCallback.item = NoItem
      /\ Callback(NoItem, 0, 0, FALSE).item = NoItem
  BY DEF ErrorCallback, Callback
<1>7. QED
  BY <1>1, <1>2, <1>3, <1>4, <1>5, <1>6 DEF ToldOK

\* The items told are those of the list.
LEMMA ToldItems ==
  ASSUME NEW o, NEW l, Told(o, l), NEW k \in 1 .. Len(l)
  PROVE  l[k].item = o.ids[k]
<1>1. l[k] = Callback(o.ids[k], Len(o.ids) - k, k - 1, FALSE)
  BY DEF Told
<1>2. QED
  BY <1>1 DEF Callback

\* Whatever Tracker and the playlists answer, results come in their order,
\* none is repeated and songs come before videos.
THEOREM ResultsInOrder == Spec => []DeliveredInOrder
<1>1. RInv => DeliveredInOrder
  <2>1. SUFFICES ASSUME RInv, NEW c \in Calls,
                        op[c].target \notin {"root", "music"}, ~ OnlyRemote(c)
                 PROVE  InOrder(c)
    BY DEF DeliveredInOrder
  <2>2. /\ op[c] \in Op /\ Len(log[c]) \in Nat /\ Len(op[c].ids) \in Nat
        /\ Ascending(op[c].ids)
    BY <2>1, ToldFacts, OpFields DEF Listed, OnlyRemote
  <2>3. ASSUME NEW i \in 1 .. Len(log[c]), NEW j \in 1 .. Len(log[c]), i < j
        PROVE  Before(log[c][i].item, log[c][j].item)
    <3>1. Told(op[c], log[c])
      <4>1. ~ (Len(log[c]) <= 1)
        BY <2>2, <2>3
      <4>2. QED
        BY <2>1, <4>1, ToldFacts
    <3>2. log[c][i].item = op[c].ids[i] /\ log[c][j].item = op[c].ids[j]
      BY <3>1, ToldItems
    <3>3. i \in 1 .. Len(op[c].ids) /\ j \in 1 .. Len(op[c].ids)
      BY <2>2, <3>1 DEF Told
    <3>4. QED
      BY <2>2, <2>3, <3>2, <3>3 DEF Ascending
  <2>4. QED
    <3> DEFINE items == [k \in 1 .. Len(log[c]) |-> log[c][k].item]
    <3>1. Len(items) = Len(log[c])
      BY <2>2
    <3>2. \A k \in 1 .. Len(log[c]) : items[k] = log[c][k].item
      OBVIOUS
    <3> HIDE DEF items
    <3>3. \A i, j \in 1 .. Len(items) : i < j => Before(items[i], items[j])
      BY <2>3, <3>1, <3>2
    <3>4. QED
      BY <3>3, Zenon DEF InOrder, Before, items
<1>2. QED
  BY <1>1, ResultsInvariance, PTL

\* An operation that nobody cancelled tells all that it has found, once each,
\* before its closure is freed.
THEOREM EverythingDelivered == Spec => []AllDelivered
<1>1. RInv => AllDelivered
  <2>1. SUFFICES ASSUME RInv, NEW c \in Calls,
                        op[c].phase = "freed", ~ op[c].cancelled
                 PROVE  \/ op[c].ids = << >> /\ Len(log[c]) = 1
                        \/ [k \in 1 .. Len(log[c]) |-> log[c][k].item] = op[c].ids
    BY DEF AllDelivered
  <2>2. op[c].ids \in Seq(Item) /\ ToldOK(op[c], log[c])
    BY <2>1, ToldFacts, OpFields DEF RInv, ResultsOK
  <2>3. \/ op[c].ids = << >> /\ log[c] = <<Callback(NoItem, 0, 0, FALSE)>>
        \/ Told(op[c], log[c]) /\ Len(log[c]) = Len(op[c].ids)
    BY <2>1, <2>2 DEF ToldOK
  <2>4. CASE op[c].ids = << >> /\ log[c] = <<Callback(NoItem, 0, 0, FALSE)>>
    BY <2>4
  <2>5. CASE Told(op[c], log[c]) /\ Len(log[c]) = Len(op[c].ids)
    <3>1. \A k \in 1 .. Len(op[c].ids) : log[c][k].item = op[c].ids[k]
      BY <2>5, ToldItems
    <3>2. op[c].ids = [k \in 1 .. Len(op[c].ids) |-> op[c].ids[k]]
      BY <2>2
    <3>3. QED
      BY <2>5, <3>1, <3>2
  <2>6. QED
    BY <2>3, <2>4, <2>5
<1>2. QED
  BY <1>1, ResultsInvariance, PTL

\* No list is as long as the largest unsigned number, so no countdown that
\* starts below its length is taken for a count that has wrapped.
LEMMA ToldNeverWrapped ==
  ASSUME RInv, NEW c \in Calls, NEW k \in 1 .. Len(log[c])
  PROVE  log[c][k].remaining # G_MAXUINT
<1>1. /\ op[c] \in Op /\ ResultsOK(op[c], log[c]) /\ log[c] \in Seq(LogEntry)
      /\ Listed(op[c]) /\ AskedOK(op[c])
  BY ToldFacts DEF RInv
<1>2. /\ Len(op[c].ids) \in Nat /\ op[c].asked \in Nat
      /\ Len(log[c]) \in Nat /\ MaxRows \in Nat
      /\ G_MAXUINT \in Nat /\ G_MAXUINT > MaxRows + 5
  BY <1>1, OpFields, MaxRowsAssumption, MaxUintAssumption
<1>3. CASE Told(op[c], log[c])
  <2>1. log[c][k].remaining = Len(op[c].ids) - k
    <3>1. log[c][k] = Callback(op[c].ids[k], Len(op[c].ids) - k, k - 1, FALSE)
      BY <1>3 DEF Told
    <3>2. QED
      BY <3>1 DEF Callback
  <2>2. op[c].target # "invalid" => Len(op[c].ids) <= MaxRows + 5
    <3>1. CASE op[c].target \in {"root", "music"}
      BY <1>1, <1>2, <3>1 DEF Listed, Children
    <3>2. CASE op[c].target \notin {"root", "music", "invalid"}
      <4>1. Len(op[c].ids) <= op[c].asked
        BY <1>1, <3>2 DEF Listed, Within
      <4>2. op[c].asked <= MaxRows
        BY <1>1, <1>2, <3>2 DEF AskedOK
      <4>3. QED
        BY <1>2, <4>1, <4>2
    <3>3. QED
      BY <3>1, <3>2
  <2>3. CASE op[c].target = "invalid"
    <3>1. op[c].phase = "none"
      BY <1>1, <2>3 DEF AskedOK
    <3>2. log[c] \in {<< >>, <<ErrorCallback>>}
      BY <1>1, <3>1 DEF ResultsOK, ToldOK
    <3>3. log[c] = <<ErrorCallback>>
      BY <3>2
    <3>4. log[c][k].remaining = 0
      BY <3>3 DEF ErrorCallback, Callback
    <3>5. QED
      BY <1>2, <3>4
  <2>4. CASE op[c].target # "invalid"
    <3>1. Len(op[c].ids) - k < G_MAXUINT
      BY <1>2, <2>2, <2>4
    <3>2. QED
      BY <1>2, <2>1, <3>1
  <2>5. QED
    BY <2>3, <2>4
<1>4. CASE log[c] \in {<<ErrorCallback>>, <<Callback(NoItem, 0, 0, FALSE)>>}
  <2>1. log[c][k].remaining = 0
    BY <1>4 DEF ErrorCallback, Callback
  <2>2. QED
    BY <1>2, <2>1
<1>5. CASE log[c] = << >>
  BY <1>5
<1>6. QED
  BY <1>1, <1>3, <1>4, <1>5 DEF ResultsOK, ToldOK

\* remaining_count is exact as long as anything depends on it, first for the
\* answers of children and then for results; it wraps only behind the last
\* result, and no callback ever carries the wrapped count.
THEOREM RemainingCountsExact == Spec => []RemainingCountExact
<1>1. RInv => RemainingCountExact
  <2>1. SUFFICES ASSUME RInv, NEW c \in Calls
                 PROVE  LET o == op[c]
                            total == IF o.ids = << >> THEN 1 ELSE Len(o.ids)
                        IN  /\ o.phase = "children" =>
                                 o.remaining_count = Cardinality(o.waiting)
                            /\ o.phase = "emitting" =>
                                 o.remaining_count = total - 1 - Len(log[c])
                            /\ \A k \in 1 .. Len(log[c]) :
                                 log[c][k].remaining # G_MAXUINT
    BY DEF RemainingCountExact
  <2>2. LocalOK(op[c]) /\ ResultsOK(op[c], log[c])
    BY <2>1 DEF RInv, IInv
  <2>3. op[c].phase = "children" => op[c].remaining_count = Cardinality(op[c].waiting)
    BY <2>2 DEF LocalOK
  <2>4. op[c].phase = "emitting" =>
          op[c].remaining_count
            = (IF op[c].ids = << >> THEN 1 ELSE Len(op[c].ids)) - 1 - Len(log[c])
    <3>1. SUFFICES ASSUME op[c].phase = "emitting"
                   PROVE  op[c].remaining_count
                            = (IF op[c].ids = << >> THEN 1 ELSE Len(op[c].ids))
                              - 1 - Len(log[c])
      OBVIOUS
    <3>2. op[c].current = Len(log[c]) /\ Len(log[c]) \in Nat
      BY <2>1, <2>2, <3>1, ToldFacts DEF ResultsOK, ToldOK
    <3>3. CASE op[c].ids = << >>
      <4>1. op[c].current = 0 /\ op[c].remaining_count = 0
        BY <2>2, <3>1, <3>3 DEF LocalOK
      <4>2. QED
        BY <3>2, <3>3, <4>1
    <3>4. CASE op[c].ids # << >>
      BY <2>2, <3>1, <3>2, <3>4 DEF LocalOK
    <3>5. QED
      BY <3>3, <3>4
  <2>5. \A k \in 1 .. Len(log[c]) : log[c][k].remaining # G_MAXUINT
    BY <2>1, ToldNeverWrapped
  <2>6. QED
    BY <2>3, <2>4, <2>5
<1>2. QED
  BY <1>1, ResultsInvariance, PTL

\* Songs and videos together never exceed item_count.
THEOREM NoMoreThanAsked == Spec => []NeverMoreThanAsked
<1>1. RInv => NeverMoreThanAsked
  <2>1. SUFFICES ASSUME RInv, NEW c \in Calls,
                        op[c].target \notin {"invalid", "root", "music"}
                 PROVE  Len(log[c]) <= op[c].asked
    BY DEF NeverMoreThanAsked
  <2>2. /\ op[c] \in Op /\ Len(log[c]) \in Nat /\ Len(op[c].ids) \in Nat
        /\ op[c].asked \in 1 .. MaxRows /\ Len(op[c].ids) <= op[c].asked
    BY <2>1, ToldFacts, OpFields DEF AskedOK, Listed, Within
  <2>3. Len(log[c]) <= Len(op[c].ids) \/ Len(log[c]) <= 1
    BY <2>1, ToldFacts DEF Told
  <2>4. QED
    BY <2>2, <2>3, MaxRowsAssumption
<1>2. QED
  BY <1>1, ResultsInvariance, PTL

\* What a call delivers lies in the window it asked for.
LEMMA DeliveredWithin ==
  ASSUME RInv, NEW c \in Calls, op[c].target \notin {"root", "music"},
         NEW x \in Delivered(c)
  PROVE  x[2] \in op[c].offset + 1 .. op[c].offset + op[c].asked
<1>1. PICK k \in 1 .. Len(log[c]) : x = log[c][k].item
  BY DEF Delivered
<1>2. x # NoItem
  BY DEF Delivered
<1>3. Told(op[c], log[c])
  BY <1>1, <1>2, ToldFacts
<1>4. /\ Len(log[c]) \in Nat /\ Len(op[c].ids) \in Nat /\ Within(op[c], op[c].ids)
  BY ToldFacts, OpFields DEF Listed
<1>5. x = op[c].ids[k] /\ k \in 1 .. Len(op[c].ids)
  <2>1. log[c][k].item = op[c].ids[k]
    BY <1>3, ToldItems
  <2>2. Len(log[c]) <= Len(op[c].ids)
    BY <1>3 DEF Told
  <2>3. QED
    BY <1>1, <1>4, <2>1, <2>2
<1>6. QED
  BY <1>4, <1>5 DEF Within

\* Someone who pages through a container with skip_count and item_count never
\* sees the same item twice, in the mixed list of the root either.
THEOREM PagesAreDisjoint == Spec => []PagesDisjoint
<1>1. RInv => PagesDisjoint
  <2>1. SUFFICES ASSUME RInv, NEW c \in Calls, NEW d \in Calls,
                        op[c].target = op[d].target,
                        op[c].target \in {"category", "root_all", "playlists", "playlist"},
                        op[c].offset + op[c].asked <= op[d].offset,
                        NEW x \in Delivered(c) \cap Delivered(d)
                 PROVE  FALSE
    BY DEF PagesDisjoint
  <2>2. x[2] \in op[c].offset + 1 .. op[c].offset + op[c].asked
    BY <2>1, DeliveredWithin
  <2>3. x[2] \in op[d].offset + 1 .. op[d].offset + op[d].asked
    BY <2>1, DeliveredWithin
  <2>4. /\ op[c].offset \in Nat /\ op[c].asked \in Nat
        /\ op[d].offset \in Nat /\ op[d].asked \in Nat
    BY <2>1, OpFields DEF RInv, IInv, TypeOK
  <2>5. QED
    BY <2>1, <2>2, <2>3, <2>4
<1>2. QED
  BY <1>1, ResultsInvariance, PTL

\* The duration of every playlist that lacks one is asked for, once, and of no
\* other, however nested browses interleave with the rest.
THEOREM DurationsAreAsked == Spec => []DurationsAsked
<1>1. RInv => DurationsAsked
  <2>1. SUFFICES ASSUME RInv, NEW c \in Calls,
                        op[c].phase \in {"emitting", "freed"},
                        NEW row \in 1 .. MaxRows
                 PROVE  Cardinality({d \in Calls : op[d].of = <<c, row>>})
                          = IF row \in op[c].untimed THEN 1 ELSE 0
    BY DEF DurationsAsked
  <2> DEFINE Browsed == {d \in Calls : op[d].of = <<c, row>>}
  <2>1a. row \in Nat /\ c # 0
    BY MaxCallsNat, MaxRowsAssumption DEF Calls
  <2>2. AskedRows(op[c]) = op[c].untimed
    BY <2>1 DEF AskedRows
  <2>3. (\E d \in Calls : op[d].of = <<c, row>>) <=> row \in op[c].untimed
    BY <2>1, <2>1a, <2>2 DEF RInv, NestedExact
  <2>4. \A d, e \in Browsed : d = e
    BY <2>1, <2>1a DEF RInv, NestedExact
  <2>5. CASE row \in op[c].untimed
    <3>1. PICK d \in Calls : op[d].of = <<c, row>>
      BY <2>3, <2>5
    <3>2. Browsed = {d}
      BY <2>4, <3>1
    <3>3. Cardinality({d}) = 1
      BY FS_Singleton
    <3>4. QED
      BY <2>5, <3>2, <3>3
  <2>6. CASE row \notin op[c].untimed
    <3>1. Browsed = {}
      BY <2>3, <2>6
    <3>2. QED
      BY <2>6, <3>1, FS_EmptySet
  <2>7. QED
    BY <2>5, <2>6
<1>2. QED
  BY <1>1, ResultsInvariance, PTL

-----------------------------------------------------------------------------
(* The refinement of the contract.                                         *)

\* What the contract sees of a step that concerns other calls than d.
Unseen(d) == log'[d] = log[d] /\ Status(d)' = Status(d)

\* A call of browse() opens one call of the contract.
LEMMA MapsToRequest ==
  ASSUME NEW c \in Calls, Status(c) = "new", Status(c)' = "open",
         UNCHANGED log, \A d \in Calls \ {c} : Unseen(d)
  PROVE  Contract!Request(c)
BY DEF Contract!Request, Unseen

\* A cancellation, of a call that is open.
LEMMA MapsToCancel ==
  ASSUME NEW c \in Calls, Status(c) = "open", Status(c)' = "cancelled",
         UNCHANGED log, \A d \in Calls \ {c} : Unseen(d)
  PROVE  Contract!Cancel(c)
BY DEF Contract!Cancel, Unseen

\* An error callback, of a call that has heard nothing.
LEMMA MapsToFailure ==
  ASSUME NEW c \in Calls, Status(c) = "open", Status(c)' = "closed",
         log[c] = << >>, log' = [log EXCEPT ![c] = <<ErrorCallback>>],
         \A d \in Calls \ {c} : Unseen(d)
  PROVE  Contract!Failure(c)
<1>1. ErrorCallback = [item |-> NoItem, remaining |-> 0, index |-> 0, error |-> TRUE]
  BY DEF ErrorCallback, Callback
<1>2. NoItem \in ContractItem
  BY DEF ContractItem
<1>3. [d \in Calls |-> Status(d)][c] = "open"
  OBVIOUS
<1>4. [d \in Calls |-> Status(d)]'
        = [[d \in Calls |-> Status(d)] EXCEPT ![c] = "closed"]
  BY DEF Unseen
<1>5. QED
  BY <1>1, <1>2, <1>3, <1>4 DEF Contract!Failure

\* A result callback that goes on with the countdown.
LEMMA MapsToResult ==
  ASSUME NEW c \in Calls, NEW item \in ContractItem, NEW total \in 1 .. MaxRows + 5,
         Status(c) = "open", Len(log[c]) < total,
         \A k \in DOMAIN log[c] : log[c][k].remaining = total - k,
         log' = [log EXCEPT ![c] =
                   Append(@, Callback(item, total - 1 - Len(log[c]), Len(log[c]), FALSE))],
         Status(c)' = IF Len(log[c]) + 1 = total THEN "closed" ELSE "open",
         \A d \in Calls \ {c} : Unseen(d)
  PROVE  Contract!Result(c)
<1>1. Callback(item, total - 1 - Len(log[c]), Len(log[c]), FALSE)
        = Contract!ResultAfter(log[c], item, total)
  BY DEF Callback, Contract!ResultAfter
<1>2. [d \in Calls |-> Status(d)][c] = "open"
  OBVIOUS
<1>3. [d \in Calls |-> Status(d)]'
        = [[d \in Calls |-> Status(d)] EXCEPT
             ![c] = IF Len(log[c]) + 1 = total THEN "closed" ELSE "open"]
  BY DEF Unseen
<1>4. log' = [log EXCEPT ![c] = Append(@, Contract!ResultAfter(log[c], item, total))]
  BY <1>1
<1>5. QED
  BY <1>2, <1>3, <1>4 DEF Contract!Result

\* A call whose log and cancellation stay is not seen to change.
LEMMA UnseenFacts ==
  ASSUME NEW d \in Calls, log'[d] = log[d], op'[d].cancelled = op[d].cancelled,
         d > calls' <=> d > calls
  PROVE  Unseen(d)
BY DEF Unseen, Status, Finished

\* Neither is one that is calm.
LEMMA CalmUnseen ==
  ASSUME RInv, NEW d \in Calls, Calm(d), calls' = calls
  PROVE  Unseen(d)
<1>1. op[d] \in Op
  BY DEF RInv, IInv, TypeOK
<1>2. log'[d] = log[d] /\ op'[d].cancelled = op[d].cancelled
  BY <1>1, ResumedFacts DEF Calm
<1>3. QED
  BY <1>2, UnseenFacts

\* A step in which no call is seen to change is a stuttering step.
LEMMA MapsToStutter ==
  ASSUME UNCHANGED log, \A d \in Calls : Unseen(d)
  PROVE  UNCHANGED Contract!vars
BY DEF Unseen, Contract!vars

\* So is an answer that is not passed on yet.
LEMMA StepStutters ==
  ASSUME RInv, NEW c \in Calls, NEW q, Step(c, q), q.cancelled = op[c].cancelled
  PROVE  UNCHANGED Contract!vars
<1>1. /\ op \in [Calls -> Op] /\ op' = [op EXCEPT ![c] = q]
      /\ log' = log /\ calls' = calls
  BY DEF RInv, IInv, TypeOK, Step
<1>2. \A d \in Calls : Unseen(d)
  BY <1>1, UnseenFacts
<1>3. QED
  BY <1>1, <1>2, MapsToStutter

\* A call that opens.
LEMMA OpenMaps ==
  ASSUME RInv, calls < MaxCalls, NEW p \in Calls \cup {0}, NEW f,
         NEW o \in Op, ~ o.cancelled, p = 0 => f = op,
         p # 0 => MovedIn(op, p, "nested", f),
         op' = [f EXCEPT ![calls + 1] = o], calls' = calls + 1, UNCHANGED log
  PROVE  \E n \in Calls : Contract!Request(n)
<1>1. /\ op \in [Calls -> Op] /\ calls \in Nat /\ MaxCalls \in Nat
  BY MaxCallsNat DEF RInv, IInv, TypeOK
<1>0. PICK n \in Calls : n = calls + 1
  BY <1>1 DEF Calls
<1>2. n \in Calls /\ n > calls /\ ~ (n > calls')
  BY <1>0, <1>1 DEF Calls
<1>3. log[n] = << >>
  BY <1>2 DEF RInv, IInv, FreshOK
<1>4. \A d \in Calls : d # n => (d > calls' <=> d > calls)
  BY <1>0, <1>1 DEF Calls
<1>5. op' = [f EXCEPT ![n] = o]
  BY <1>0
<1>6. f \in [Calls -> Op] /\ \A d \in Calls : f[d].cancelled = op[d].cancelled
  <2>1. CASE p = 0
    BY <1>1, <2>1
  <2>2. CASE p # 0
    <3>1. "nested" \in Phase
      BY DEF Phase
    <3>2. Moved(op[p], "nested") \in Op /\ Moved(op[p], "nested").cancelled = op[p].cancelled
      BY <1>1, <2>2, <3>1, MovedFacts
    <3>3. f = [op EXCEPT ![p] = Moved(op[p], "nested")]
      BY <2>2 DEF MovedIn
    <3>4. QED
      BY <1>1, <3>2, <3>3
  <2>3. QED
    BY <2>1, <2>2
<1>7. op'[n] = o /\ \A d \in Calls \ {n} : op'[d].cancelled = op[d].cancelled
  BY <1>2, <1>5, <1>6
<1>8. \A d \in Calls \ {n} : Unseen(d)
  BY <1>4, <1>7, UnseenFacts
<1>9. Status(n) = "new"
  BY <1>2 DEF Status
<1>10. Status(n)' = "open"
  BY <1>2, <1>3, <1>7 DEF Status, Finished
<1>11. Contract!Request(n)
  BY <1>2, <1>8, <1>9, <1>10, MapsToRequest
<1>12. QED
  BY <1>2, <1>11

\* Browsing a playlist opens a call, whatever becomes of the playlist.
LEMMA PlaylistMaps ==
  ASSUME RInv, NEW p \in Calls \cup {0}, NEW f, NEW o \in Op,
         ~ o.cancelled, calls < MaxCalls,
         p = 0 => f = op, p # 0 => MovedIn(op, p, "nested", f),
         BrowsePlaylist(f, o) \/ BrowseRefused(f, o), UNCHANGED log
  PROVE  \E n \in Calls : Contract!Request(n)
<1>1. browse_id_counter \in Nat
  BY DEF RInv, IInv, TypeOK
<1>2. CASE BrowseRefused(f, o)
  BY <1>2, OpenMaps DEF BrowseRefused
<1>3. CASE BrowsePlaylist(f, o)
  <2>1. calls' = calls + 1
    BY <1>3 DEF BrowsePlaylist
  <2>2. \A q \in {Registered(o), Handed(o)} : q \in Op /\ ~ q.cancelled
    BY <1>1, RegisteredFacts
  <2>3. "unparsed" \in Phase
    BY DEF Phase
  <2>4. ASSUME NEW q \in Op, ~ q.cancelled,
               NEW r \in ParsedPlaylists(q) \cup {Moved(q, "unparsed")}
        PROVE  r \in Op /\ ~ r.cancelled
    BY <2>3, <2>4, MovedFacts, ParsedFacts
  <2>5. \E q \in {Registered(o), Handed(o)} :
          \E r \in ParsedPlaylists(q) \cup {Moved(q, "unparsed")} :
            op' = [f EXCEPT ![calls + 1] = r]
    <3>1. \/ op' = [f EXCEPT ![calls + 1] = Moved(Registered(o), "unparsed")]
          \/ \E r \in ParsedPlaylists(IF o.of = NoParent THEN Handed(o) ELSE Registered(o)) :
               op' = [f EXCEPT ![calls + 1] = r]
      BY <1>3, Zenon DEF BrowsePlaylist, Moved
    <3>2. QED
      BY <3>1
  <2>6. PICK r \in Op : ~ r.cancelled /\ op' = [f EXCEPT ![calls + 1] = r]
    BY <2>2, <2>4, <2>5
  <2>7. QED
    BY <2>1, <2>6, OpenMaps
<1>4. QED
  BY <1>2, <1>3

\* A call by a user.
LEMMA BrowseMaps ==
  ASSUME RInv, NEW target \in Targets, NEW skip_count \in Skips,
         NEW item_count \in 1 .. MaxRows, Browse(target, skip_count, item_count)
  PROVE  \E n \in Calls : Contract!Request(n)
<1> DEFINE o == Blank(target, NoParent, skip_count, item_count)
<1>1. target \in AllTargets /\ NoParent \in (0 .. MaxCalls) \X Nat
      /\ skip_count \in Nat /\ item_count \in Nat
  BY TargetsAssumption, SkipsAssumption, MaxCallsNat DEF NoParent
<1>2. o \in Op /\ ~ o.cancelled
  BY <1>1, BlankFacts
<1>3. /\ calls < MaxCalls /\ UNCHANGED log
      /\ \/ target = "invalid" /\ BrowseRefused(op, o)
         \/ target = "playlist" /\ BrowsePlaylist(op, o)
         \/ \E asking \in Asking(o) : BrowseQuery(asking)
  BY Zenon DEF Browse
<1> HIDE DEF o
<1>4. CASE BrowseRefused(op, o) \/ BrowsePlaylist(op, o)
  BY <1>2, <1>3, <1>4, PlaylistMaps
<1>5. ASSUME NEW a \in Asking(o), BrowseQuery(a)
      PROVE  \E n \in Calls : Contract!Request(n)
  <2>1. /\ {"query", "songs", "children", "playlists"} \subseteq Phase
        /\ 1 .. 2 \in SUBSET Nat /\ 1 .. 5 \in SUBSET Nat
        /\ browse_id_counter \in Nat
    BY DEF Phase, RInv, IInv, TypeOK
  <2>2. a \in Op /\ ~ a.cancelled
    <3>1. ASSUME NEW b \in BOOLEAN, a = [o EXCEPT !.phase = "playlists", !.duration = b]
          PROVE  a \in Op /\ ~ a.cancelled
      BY <1>2, <2>1, <3>1 DEF Op
    <3>2. CASE \/ a = [o EXCEPT !.phase = "query"]
               \/ a = [o EXCEPT !.phase = "songs"]
      BY <1>2, <2>1, <3>2 DEF Op
    <3>3. CASE a = [o EXCEPT !.phase = "children", !.waiting = 1 .. 2,
                             !.remaining_count = 2]
      BY <1>2, <2>1, <3>3 DEF Op
    <3>4. CASE a = [o EXCEPT !.phase = "children", !.waiting = 1 .. 5,
                             !.remaining_count = 5]
      BY <1>2, <2>1, <3>4 DEF Op
    <3>5. QED
      BY <3>1, <3>2, <3>3, <3>4 DEF Asking
  <2>3. Handed(a) \in Op /\ ~ Handed(a).cancelled
    BY <2>1, <2>2, RegisteredFacts
  <2>4. op' = [op EXCEPT ![calls + 1] = Handed(a)] /\ calls' = calls + 1
    BY <1>5 DEF BrowseQuery
  <2>5. QED
    BY <1>3, <2>3, <2>4, OpenMaps
<1>6. QED
  BY <1>3, <1>4, <1>5

\* A call by a parent.
LEMMA AskMaps ==
  ASSUME RInv, NEW c \in Calls, AskDuration(c)
  PROVE  \E n \in Calls : Contract!Request(n)
<1> DEFINE of == <<c, op[c].current + 1>>
           f == [op EXCEPT ![c].phase = "nested"]
<1>1. op[c] \in Op /\ calls < MaxCalls /\ UNCHANGED log
  BY DEF RInv, IInv, TypeOK, AskDuration
<1>2. \/ BrowseRefused(f, Blank("invalid", of, 0, MaxRows))
      \/ BrowsePlaylist(f, Blank("playlist", of, 0, MaxRows))
  BY DEF AskDuration
<1>3. c \in 0 .. MaxCalls /\ c # 0 /\ MaxRows \in Nat
  BY MaxCallsNat, MaxRowsAssumption DEF Calls
<1>4. of \in (0 .. MaxCalls) \X Nat
  BY <1>1, <1>3, OpFields
<1>5. MovedIn(op, c, "nested", f)
  BY DEF MovedIn, Moved
<1>6. "invalid" \in AllTargets /\ "playlist" \in AllTargets /\ 0 \in Nat
  BY DEF AllTargets
<1> HIDE DEF f, of
<1>7. \A target \in AllTargets : LET o == Blank(target, of, 0, MaxRows)
                                 IN  o \in Op /\ ~ o.cancelled
  BY <1>3, <1>4, <1>6, BlankFacts
<1>8. PICK o \in Op : ~ o.cancelled /\ (BrowseRefused(f, o) \/ BrowsePlaylist(f, o))
  BY <1>2, <1>6, <1>7
<1>9. QED
  BY <1>1, <1>3, <1>5, <1>8, PlaylistMaps

\* What a callback changes in the view of the contract.
LEMMA CallbackSeen ==
  ASSUME RInv, NEW c \in Calls, Live(c), ~ op[c].cancelled, ~ Finished(c),
         NEW b, log' = [log EXCEPT ![c] = Append(@, b)], calls' = calls,
         ~ op'[c].cancelled, \A d \in Calls \ {c} : Calm(d)
  PROVE  /\ Status(c) = "open"
         /\ Status(c)' = IF b.remaining = 0 THEN "closed" ELSE "open"
         /\ \A d \in Calls \ {c} : Unseen(d)
<1>1. /\ log \in [Calls -> Seq(LogEntry)] /\ calls \in Nat /\ c \in Nat
      /\ c <= calls
  <2>0. TypeOK
    BY DEF RInv, IInv
  <2>1. log \in [Calls -> Seq(LogEntry)] /\ calls \in Nat /\ c \in Nat
    <3>1. log \in [Calls -> Seq(LogEntry)] /\ calls \in 0 .. MaxCalls
      BY <2>0, Zenon DEF TypeOK, LogEntry
    <3>2. QED
      BY <3>1, MaxCallsNat DEF Calls
  <2>2. c <= calls
    BY CallFacts DEF RInv
  <2>3. QED
    BY <2>1, <2>2
<1>2. ~ (c > calls)
  BY <1>1
<1>3. Status(c) = "open"
  BY <1>2 DEF Status
<1>4. \A d \in Calls \ {c} : Unseen(d)
  BY CalmUnseen
<1>5. Finished(c)' <=> b.remaining = 0
  <2>1. log'[c] = Append(log[c], b) /\ log[c] \in Seq(LogEntry)
    BY <1>1
  <2>2. /\ Append(log[c], b) # << >>
        /\ Append(log[c], b)[Len(Append(log[c], b))] = b
    <3>1. /\ Len(Append(log[c], b)) = Len(log[c]) + 1 /\ Len(log[c]) \in Nat
          /\ Append(log[c], b)[Len(log[c]) + 1] = b
      BY <2>1
    <3>2. Len(<< >>) = 0
      OBVIOUS
    <3>3. QED
      BY <3>1, <3>2
  <2>3. QED
    BY <2>1, <2>2 DEF Finished
<1>6. QED
  BY <1>2, <1>3, <1>4, <1>5 DEF Status

\* An error callback is a failure of the contract.
LEMMA ErrorSeen ==
  ASSUME RInv, NEW c \in Calls, Live(c), op[c].phase # "nested",
         ~ op[c].cancelled, log[c] = << >>, NEW ph \in Phase,
         NEW gone, MovedIn(op, c, ph, gone), op' = Heard(gone, c, 0),
         log' = [log EXCEPT ![c] = Append(@, ErrorCallback)], calls' = calls
  PROVE  Contract!Failure(c)
<1>1. IInv /\ op \in [Calls -> Op] /\ log \in [Calls -> Seq(LogEntry)]
  BY DEF RInv, IInv, TypeOK, LogEntry
<1>2. /\ Moved(op[c], ph) \in Op /\ Moved(op[c], ph).of = op[c].of
      /\ ~ Moved(op[c], ph).cancelled
  BY <1>1, MovedFacts
<1>3. /\ gone \in [Calls -> Op] /\ gone[c] = Moved(op[c], ph)
      /\ \A d \in Calls \ {c} : gone[d] = op[d]
  BY <1>1, <1>2 DEF MovedIn
<1>4. \A d \in Calls \ {c} : log'[d] = log[d]
  BY <1>1
<1>5. op'[c] = gone[c] /\ \A d \in Calls \ {c} : Calm(d)
  BY <1>1, <1>2, <1>3, <1>4, HeardCalm
<1>6. ~ Finished(c) /\ ~ op'[c].cancelled
  BY <1>2, <1>3, <1>5 DEF Finished
<1>7. /\ Status(c) = "open"
      /\ Status(c)' = IF ErrorCallback.remaining = 0 THEN "closed" ELSE "open"
      /\ \A d \in Calls \ {c} : Unseen(d)
  BY <1>5, <1>6, CallbackSeen
<1>8. ErrorCallback.remaining = 0
  BY DEF ErrorCallback, Callback
<1>9. log' = [log EXCEPT ![c] = <<ErrorCallback>>]
  BY <1>1
<1>10. QED
  BY <1>7, <1>8, <1>9, MapsToFailure

\* _emit_browse_error: a failure, or nothing when nobody is listening.
LEMMA ErrorMaps ==
  ASSUME RInv, NEW c \in Calls, EmitBrowseError(c),
         op[c].phase \in {"query", "playlists"}
  PROVE  UNCHANGED Contract!vars \/ Contract!Failure(c)
<1> DEFINE gone == [op EXCEPT ![c].phase = "failed"]
<1>1. op[c].phase \in Active \ {"emitting"} /\ "failed" \in Phase
  BY DEF Active, Phase
<1>2. op \in [Calls -> Op] /\ log[c] = << >>
  BY <1>1, WaitingFacts DEF RInv, IInv, TypeOK
<1>3. MovedIn(op, c, "failed", gone)
  BY DEF MovedIn, Moved
<1> HIDE DEF gone
<1>4. CASE op[c].cancelled
  <2>1. op' = gone /\ UNCHANGED <<log, calls>>
    BY <1>4 DEF EmitBrowseError, gone
  <2>2. \A d \in Calls : op'[d].cancelled = op[d].cancelled
    BY <1>1, <1>2, <1>3, <2>1, MovedFacts DEF MovedIn
  <2>3. \A d \in Calls : Unseen(d)
    BY <2>1, <2>2, UnseenFacts
  <2>4. QED
    BY <2>1, <2>3, MapsToStutter
<1>5. CASE ~ op[c].cancelled
  <2>1. /\ op' = Heard(gone, c, 0) /\ calls' = calls
        /\ log' = [log EXCEPT ![c] = Append(@, ErrorCallback)]
    BY <1>5 DEF EmitBrowseError, gone
  <2>2. Live(c) /\ op[c].phase # "nested"
    BY <1>1 DEF Live
  <2>3. QED
    BY <1>1, <1>2, <1>3, <1>5, <2>1, <2>2, ErrorSeen
<1>6. QED
  BY <1>4, <1>5

\* _send_error_idle: a failure.
LEMMA SendErrorMaps ==
  ASSUME RInv, NEW c \in Calls, SendError(c)
  PROVE  Contract!Failure(c)
<1>1. /\ c \in errors /\ log' = [log EXCEPT ![c] = Append(@, ErrorCallback)]
      /\ op' = Heard(op, c, 0) /\ calls' = calls
  BY DEF SendError
<1>2. /\ op[c] \in Op /\ log[c] = << >> /\ op[c].phase \in {"none", "unparsed"}
      /\ ~ op[c].cancelled
  BY <1>1 DEF RInv, IInv, TypeOK, LogOK, CancelOK
<1>3. Moved(op[c], op[c].phase) = op[c] /\ op[c].phase \in Phase
  BY <1>2, OpFields DEF Moved, Op
<1>4. MovedIn(op, c, op[c].phase, op)
  BY <1>3 DEF MovedIn, RInv, IInv, TypeOK
<1>5. Live(c) /\ op[c].phase # "nested"
  BY <1>1, <1>2 DEF Live
<1>6. QED
  BY <1>1, <1>2, <1>3, <1>4, <1>5, ErrorSeen

\* Every item that is emitted is one of the contract's, and the countdown is
\* within its bound.
LEMMA EmittedItem ==
  ASSUME RInv, NEW c \in Calls, op[c].phase = "emitting"
  PROVE  /\ CurrentItem(op[c]) \in ContractItem
         /\ (IF op[c].ids = << >> THEN 1 ELSE Len(op[c].ids)) \in 1 .. MaxRows + 5
<1> DEFINE o == op[c]
<1>1. /\ o \in Op /\ Listed(o) /\ AskedOK(o) /\ o.phase = "emitting"
      /\ o.ids \in Seq(Item) /\ Len(o.ids) \in Nat /\ o.current \in Nat
      /\ o.offset \in Nat /\ o.asked \in Nat
  BY ToldFacts, OpFields
<1> HIDE DEF o
<1>2. /\ o.offset \in Skips \cup {0} /\ o.asked <= MaxRows
      /\ MaxRows \in Nat /\ MaxRows > 0
  BY <1>1, MaxRowsAssumption DEF AskedOK
<1>3. \/ Within(o, o.ids)
      \/ Children(o.ids)
  BY <1>1 DEF Listed
<1>4. Len(o.ids) <= MaxRows + 5
  <2>1. Len(o.ids) <= o.asked \/ Len(o.ids) <= 5
    BY <1>3 DEF Within, Children
  <2>2. QED
    BY <1>1, <1>2, <2>1
<1>5. ASSUME NEW j \in 1 .. Len(o.ids)
      PROVE  o.ids[j] \in ContractItem
  <2>1. /\ o.ids[j] = <<o.ids[j][1], o.ids[j][2]>>
        /\ o.ids[j][1] \in Labels
    <3>1. o.ids[j] \in Labels \X Nat
      BY <1>1 DEF Item
    <3>2. QED
      BY <3>1
  <2>2. PICK skip \in Skips \cup {0} : o.ids[j][2] \in 1 .. (skip + MaxRows + 5)
    <3>1. CASE Within(o, o.ids)
      <4>1. o.ids[j][2] \in o.offset + 1 .. o.offset + o.asked
        BY <3>1 DEF Within
      <4>2. o.ids[j][2] \in 1 .. (o.offset + MaxRows + 5)
        BY <1>1, <1>2, <4>1
      <4>3. QED
        BY <1>2, <4>2
    <3>2. CASE Children(o.ids)
      <4>1. o.ids[j][2] \in 1 .. 5
        BY <3>2 DEF Children
      <4>2. o.ids[j][2] \in 1 .. (0 + MaxRows + 5)
        BY <1>2, <4>1
      <4>3. QED
        BY <4>2
    <3>3. QED
      BY <1>3, <3>1, <3>2
  <2>3. o.ids[j][1] # "none"
    BY <1>3 DEF Within, Children
  <2> DEFINE Numbers == UNION {1 .. (skp + MaxRows + 5) : skp \in Skips \cup {0}}
  <2>4. o.ids[j][2] \in Numbers
    BY <2>2
  <2>5. ContractItem = {NoItem} \cup {<<label, k>> : label \in Labels \ {"none"},
                                                   k \in Numbers}
    BY DEF ContractItem, Numbers
  <2> HIDE DEF Numbers
  <2>6. o.ids[j][1] \in Labels \ {"none"}
    BY <2>1, <2>3
  <2>7. \E label \in Labels \ {"none"}, k \in Numbers : o.ids[j] = <<label, k>>
    BY <2>1, <2>4, <2>6
  <2>8. o.ids[j] \in {<<label, k>> : label \in Labels \ {"none"}, k \in Numbers}
    BY <2>7
  <2>9. QED
    BY <2>5, <2>8
<1>6. NoItem \in ContractItem
  BY DEF ContractItem
<1>7. CurrentItem(o) \in ContractItem
  BY <1>1, <1>5, <1>6 DEF CurrentItem
<1>8. (IF o.ids = << >> THEN 1 ELSE Len(o.ids)) \in 1 .. MaxRows + 5
  <2>1. o.ids # << >> => Len(o.ids) > 0
    BY <1>1, EmptySeq
  <2>2. QED
    BY <1>1, <1>2, <1>4, <2>1
<1>9. QED
  BY <1>7, <1>8 DEF o

\* The emission idle: the next result of the countdown.
LEMMA EmitMaps ==
  ASSUME RInv, NEW c \in Calls, EmitResult(c) \/ EmitLast(c)
  PROVE  Contract!Result(c)
<1> DEFINE o == op[c]
           b == Callback(CurrentItem(o), o.remaining_count, o.current_index, FALSE)
           q == IF EmitResult(c) THEN Advanced(o) ELSE Moved(Advanced(o), "freed")
           gone == [op EXCEPT ![c] = q]
           total == IF o.ids = << >> THEN 1 ELSE Len(o.ids)
<1>1. /\ IInv /\ op \in [Calls -> Op] /\ log \in [Calls -> Seq(LogEntry)]
      /\ ResultsOK(o, log[c]) /\ LogOK(c)
  BY DEF RInv, IInv, TypeOK, LogEntry
<1>2. /\ o.phase = "emitting" /\ ~ o.cancelled /\ calls' = calls
      /\ log' = [log EXCEPT ![c] = Append(@, b)]
      /\ op' = Heard(gone, c, o.remaining_count)
      /\ EmitResult(c) => MoreIds(o)
  BY DEF EmitResult, EmitLast, Moved
<1>3. /\ Told(o, log[c]) /\ o.current = Len(log[c]) /\ o.current_index = Len(log[c])
      /\ Len(log[c]) \in Nat /\ Len(o.ids) \in Nat
  BY <1>1, <1>2, OpFields DEF ResultsOK, ToldOK
<1>4. /\ o.remaining_count \in Nat /\ (EmitResult(c) => o.remaining_count > 0)
      /\ \/ o.ids = << >> /\ o.current = 0 /\ o.remaining_count = 0
         \/ /\ o.ids # << >> /\ o.current < Len(o.ids)
            /\ o.remaining_count = Len(o.ids) - 1 - o.current
  BY <1>1, <1>2, EmissionFacts
<1>5. /\ CurrentItem(o) \in ContractItem /\ total \in 1 .. MaxRows + 5
  BY <1>2, EmittedItem
<1>6. "freed" \in Phase
  BY DEF Phase
<1>7. q \in Op /\ q.of = o.of /\ ~ q.cancelled
  BY <1>1, <1>2, <1>4, <1>6, AdvancedFacts, MovedFacts
<1> HIDE DEF b, q, total
<1>8. /\ gone \in [Calls -> Op] /\ gone[c] = q
      /\ \A d \in Calls \ {c} : gone[d] = op[d]
      /\ \A d \in Calls \ {c} : log'[d] = log[d]
  BY <1>1, <1>2, <1>7
<1>9. Live(c) /\ op[c].phase # "nested"
  BY <1>2 DEF Live, Active, Phase
<1> HIDE DEF gone
<1>10. op'[c] = gone[c] /\ \A d \in Calls \ {c} : Calm(d)
  BY <1>1, <1>2, <1>7, <1>8, <1>9, HeardCalm
<1>11. ~ Finished(c)
  BY <1>1, <1>2, <1>4 DEF LogOK, Finished
<1>12. /\ Status(c) = "open"
       /\ Status(c)' = IF b.remaining = 0 THEN "closed" ELSE "open"
       /\ \A d \in Calls \ {c} : Unseen(d)
  BY <1>2, <1>7, <1>8, <1>9, <1>10, <1>11, CallbackSeen
<1>13. /\ total - 1 - Len(log[c]) = o.remaining_count /\ Len(log[c]) < total
       /\ total \in Nat
  <2>1. CASE o.ids = << >>
    <3>1. total = 1 /\ Len(log[c]) = 0 /\ o.remaining_count = 0
      BY <1>3, <1>4, <2>1 DEF total
    <3>2. QED
      BY <3>1
  <2>2. CASE o.ids # << >>
    <3>1. /\ total = Len(o.ids) /\ Len(log[c]) < Len(o.ids)
          /\ o.remaining_count = Len(o.ids) - 1 - Len(log[c])
      BY <1>3, <1>4, <2>2 DEF total
    <3>2. QED
      BY <1>3, <3>1
  <2>3. QED
    BY <2>1, <2>2
<1>14. b = Callback(CurrentItem(o), total - 1 - Len(log[c]), Len(log[c]), FALSE)
  BY <1>3, <1>13 DEF b
<1>15. b.remaining = o.remaining_count
  BY DEF b, Callback
<1>16. o.remaining_count = 0 <=> Len(log[c]) + 1 = total
  <2> DEFINE n == Len(log[c])
             r == o.remaining_count
  <2>1. n \in Nat /\ r \in Nat /\ total \in Nat /\ total - 1 - n = r
    BY <1>3, <1>4, <1>13
  <2> HIDE DEF n, r
  <2>2. r = 0 <=> n + 1 = total
    BY <2>1
  <2>3. QED
    BY <2>2 DEF n, r
<1>17. Status(c)' = IF Len(log[c]) + 1 = total THEN "closed" ELSE "open"
  BY <1>12, <1>15, <1>16
<1>18. \A k \in DOMAIN log[c] : log[c][k].remaining = total - k
  <2>1. ASSUME NEW k \in 1 .. Len(log[c])
        PROVE  log[c][k].remaining = Len(o.ids) - k
    <3>1. log[c][k] = Callback(o.ids[k], Len(o.ids) - k, k - 1, FALSE)
      BY <1>3 DEF Told
    <3>2. QED
      BY <3>1 DEF Callback
  <2>2. CASE o.ids = << >>
    <3>1. Len(log[c]) = 0
      BY <1>3, <1>4, <2>2
    <3>2. DOMAIN log[c] = 1 .. Len(log[c])
      BY <1>1
    <3>3. QED
      BY <3>1, <3>2
  <2>3. CASE o.ids # << >>
    <3>1. DOMAIN log[c] = 1 .. Len(log[c])
      BY <1>1
    <3>2. total = Len(o.ids)
      BY <2>3 DEF total
    <3>3. QED
      BY <2>1, <3>1, <3>2
  <2>4. QED
    BY <2>2, <2>3
<1>19. log' = [log EXCEPT ![c] =
                 Append(@, Callback(CurrentItem(o), total - 1 - Len(log[c]),
                                    Len(log[c]), FALSE))]
  BY <1>2, <1>14
<1>20. QED
  BY <1>5, <1>12, <1>13, <1>17, <1>18, <1>19, MapsToResult

\* An answer of Tracker, or a step of the duration idle, is not seen by the
\* caller: what it leaves in the closure is cancelled if the closure was.
LEMMA AnswerStutters ==
  ASSUME RInv, NEW c \in Calls,
         \/ QueryAnswer(c) \/ SongsAnswer(c) \/ ChildAnswer(c)
         \/ PlaylistsAnswer(c) \/ EntriesAnswer(c) \/ EntriesLost(c)
         \/ SkipDuration(c)
  PROVE  UNCHANGED Contract!vars \/ Contract!Failure(c)
<1> DEFINE o == op[c]
<1>1. o \in Op
  BY DEF RInv, IInv, TypeOK
<1> DEFINE Quiet(q) == Step(c, q) => UNCHANGED Contract!vars
<1>2. ASSUME NEW q, q.cancelled = o.cancelled
      PROVE  Quiet(q)
  BY <1>2, StepStutters
<1> HIDE DEF Quiet
<1>3. CASE QueryAnswer(c)
  <2>1. CASE EmitBrowseError(c)
    <3>1. op[c].phase \in {"query", "playlists"}
      BY <1>3 DEF QueryAnswer
    <3>2. QED
      BY <2>1, <3>1, ErrorMaps
  <2>2. ASSUME NEW n, Step(c, Emitting([o EXCEPT !.ids = @ \o Rows("row", o.offset, n)]))
        PROVE  UNCHANGED Contract!vars
    <3>1. Emitting([o EXCEPT !.ids = @ \o Rows("row", o.offset, n)]).cancelled = o.cancelled
      BY <1>1 DEF Emitting, Op
    <3>2. QED
      BY <1>2, <2>2, <3>1 DEF Quiet
  <2>3. QED
    BY <1>3, <2>1, <2>2 DEF QueryAnswer
<1>4. CASE SongsAnswer(c)
  <2>1. CASE Step(c, [o EXCEPT !.phase = "query"])
    <3>1. [o EXCEPT !.phase = "query"].cancelled = o.cancelled
      BY <1>1 DEF Op
    <3>2. QED
      BY <1>2, <2>1, <3>1 DEF Quiet
  <2>2. ASSUME NEW n, NEW a,
               a = [o EXCEPT !.ids = @ \o Rows("song", o.offset, n), !.count = @ - n],
               Step(c, Emitting(a)) \/ Step(c, [a EXCEPT !.phase = "query"])
        PROVE  UNCHANGED Contract!vars
    <3>1. /\ Emitting(a).cancelled = o.cancelled
          /\ [a EXCEPT !.phase = "query"].cancelled = o.cancelled
      BY <1>1, <2>2 DEF Emitting, Op
    <3>2. QED
      BY <1>2, <2>2, <3>1 DEF Quiet
  <2>3. QED
    BY <1>4, <2>1, <2>2 DEF SongsAnswer
<1>5. CASE ChildAnswer(c)
  <2>1. ASSUME NEW k, NEW ids, NEW a,
               a = [o EXCEPT !.waiting = @ \ {k}, !.ids = ids,
                             !.remaining_count = Decremented(@)],
               Step(c, Emitting(a)) \/ Step(c, a)
        PROVE  UNCHANGED Contract!vars
    <3>1. Emitting(a).cancelled = o.cancelled /\ a.cancelled = o.cancelled
      BY <1>1, <2>1 DEF Emitting, Op
    <3>2. QED
      BY <1>2, <2>1, <3>1 DEF Quiet
  <2>2. QED
    BY <1>5, <2>1 DEF ChildAnswer
<1>6. CASE PlaylistsAnswer(c)
  <2>1. CASE EmitBrowseError(c)
    <3>1. op[c].phase \in {"query", "playlists"}
      BY <1>6 DEF PlaylistsAnswer
    <3>2. QED
      BY <2>1, <3>1, ErrorMaps
  <2>2. ASSUME NEW n, NEW untimed, NEW a,
               a = [o EXCEPT !.ids = Rows("playlist", o.offset, n), !.current = 0],
               \/ Step(c, Emitting(a))
               \/ Step(c, [a EXCEPT !.phase = "durations", !.untimed = untimed])
        PROVE  UNCHANGED Contract!vars
    <3>1. /\ Emitting(a).cancelled = o.cancelled
          /\ [a EXCEPT !.phase = "durations", !.untimed = untimed].cancelled = o.cancelled
      BY <1>1, <2>2 DEF Emitting, Op
    <3>2. QED
      BY <1>2, <2>2, <3>1 DEF Quiet
  <2>3. QED
    BY <1>6, <2>1, <2>2 DEF PlaylistsAnswer
<1>7. CASE EntriesAnswer(c) \/ EntriesLost(c)
  <2>1. /\ Emitting([o EXCEPT !.ids = o.uris, !.waiting = {}]).cancelled = o.cancelled
        /\ [o EXCEPT !.phase = "orphaned"].cancelled = o.cancelled
    BY <1>1 DEF Emitting, Op
  <2>2. QED
    BY <1>2, <1>7, <2>1 DEF EntriesAnswer, EntriesLost, Quiet
<1>8. CASE SkipDuration(c)
  <2>1. /\ Emitting(o).cancelled = o.cancelled
        /\ [o EXCEPT !.current = @ + 1].cancelled = o.cancelled
    BY <1>1 DEF Emitting, Op
  <2>2. QED
    BY <1>2, <1>8, <2>1 DEF SkipDuration, Quiet
<1>9. QED
  BY <1>3, <1>4, <1>5, <1>6, <1>7, <1>8

\* The emission idle of a cancelled operation only frees it.
LEMMA DropStutters ==
  ASSUME RInv, NEW c \in Calls, DropCancelled(c)
  PROVE  UNCHANGED Contract!vars
<1>1. op \in [Calls -> Op] /\ log' = log /\ calls' = calls
  BY DEF RInv, IInv, TypeOK, DropCancelled
<1>2. \A d \in Calls : op'[d].cancelled = op[d].cancelled
  BY <1>1 DEF DropCancelled, Op
<1>3. \A d \in Calls : Unseen(d)
  BY <1>1, <1>2, UnseenFacts
<1>4. QED
  BY <1>1, <1>3, MapsToStutter

\* cancel_browse: a cancellation, unless there is nothing left to stop.
LEMMA CancelMaps ==
  ASSUME RInv, NEW c \in Calls, CancelBrowse(c)
  PROVE  UNCHANGED Contract!vars \/ Contract!Cancel(c)
<1>1. /\ op \in [Calls -> Op] /\ log' = log /\ calls' = calls
      /\ op' = [op EXCEPT ![c].cancelled = TRUE]
  BY DEF RInv, IInv, TypeOK, CancelBrowse
<1>2. /\ op'[c].cancelled
      /\ \A d \in Calls \ {c} : op'[d].cancelled = op[d].cancelled
  BY <1>1 DEF Op
<1>3. \A d \in Calls \ {c} : Unseen(d)
  BY <1>1, <1>2, UnseenFacts
<1>4. Finished(c)' <=> Finished(c)
  BY <1>1 DEF Finished
<1>5. CASE op[c].cancelled
  <2>1. op'[c].cancelled = op[c].cancelled
    BY <1>1, <1>5 DEF Op
  <2>2. Unseen(c)
    BY <1>1, <2>1, UnseenFacts
  <2>3. QED
    BY <1>1, <1>3, <2>2, MapsToStutter
<1>6. CASE Finished(c) \/ c > calls
  <2>1. Unseen(c)
    BY <1>1, <1>4, <1>6 DEF Unseen, Status
  <2>2. QED
    BY <1>1, <1>3, <2>1, MapsToStutter
<1>7. CASE ~ op[c].cancelled /\ ~ (Finished(c) \/ c > calls)
  <2>1. Status(c) = "open" /\ Status(c)' = "cancelled"
    BY <1>1, <1>2, <1>4, <1>7 DEF Status
  <2>2. QED
    BY <1>1, <1>3, <2>1, MapsToCancel
<1>8. QED
  BY <1>5, <1>6, <1>7

\* Nothing has been called at first.
LEMMA InitMaps == Init => Contract!Init
<1> SUFFICES ASSUME Init
             PROVE  Contract!Init
  OBVIOUS
<1>1. calls = 0 /\ log = [c \in Calls |-> << >>]
  BY DEF Init
<1>2. \A c \in Calls : c > calls
  BY <1>1, MaxCallsNat DEF Calls
<1>3. \A c \in Calls : Status(c) = "new"
  BY <1>2 DEF Status
<1>4. QED
  BY <1>1, <1>3 DEF Contract!Init

\* Every step is one of the contract, or is not seen.
LEMMA StepMaps == RInv /\ [Next]_vars => [Contract!Next]_Contract!vars
<1> SUFFICES ASSUME RInv, [Next]_vars
             PROVE  UNCHANGED Contract!vars \/ Contract!Next
  OBVIOUS
<1> DEFINE Kept == UNCHANGED Contract!vars \/ Contract!Next
<1>1. ASSUME NEW c \in Calls, \/ Contract!Request(c) \/ Contract!Result(c)
                              \/ Contract!Failure(c) \/ Contract!Cancel(c)
      PROVE  Kept
  BY <1>1 DEF Contract!Next
<1> HIDE DEF Kept
<1>2. CASE UNCHANGED vars
  <2>1. log' = log /\ op' = op /\ calls' = calls
    BY <1>2 DEF vars
  <2>2. \A d \in Calls : Unseen(d)
    BY <2>1, UnseenFacts
  <2>3. QED
    BY <2>1, <2>2, MapsToStutter DEF Kept
<1>3. ASSUME NEW target \in Targets, NEW skip_count \in Skips,
             NEW item_count \in 1 .. MaxRows, Browse(target, skip_count, item_count)
      PROVE  Kept
  <2>1. PICK n \in Calls : Contract!Request(n)
    BY <1>3, BrowseMaps
  <2>2. QED
    BY <1>1, <2>1
<1>4. ASSUME NEW c \in Calls, CancelBrowse(c)
      PROVE  Kept
  BY <1>1, <1>4, CancelMaps DEF Kept
<1>5. ASSUME NEW c \in Calls, Handler(c)
      PROVE  Kept
  <2>1. CASE \/ QueryAnswer(c) \/ SongsAnswer(c) \/ ChildAnswer(c)
             \/ PlaylistsAnswer(c) \/ EntriesAnswer(c) \/ EntriesLost(c)
             \/ SkipDuration(c)
    BY <1>1, <2>1, AnswerStutters DEF Kept
  <2>2. CASE AskDuration(c)
    BY <1>1, <2>2, AskMaps
  <2>3. CASE EmitResult(c) \/ EmitLast(c)
    BY <1>1, <2>3, EmitMaps
  <2>4. CASE DropCancelled(c)
    BY <2>4, DropStutters DEF Kept
  <2>5. CASE SendError(c)
    BY <1>1, <2>5, SendErrorMaps
  <2>6. QED
    BY <1>5, <2>1, <2>2, <2>3, <2>4, <2>5 DEF Handler
<1>6. QED
  BY <1>2, <1>3, <1>4, <1>5 DEF Next, Kept

\* Browse operations keep the promises of BrowseContract: each call is
\* answered by one error or by a countdown to 0, whose last callback ends it,
\* and a cancellation stops it for good.
THEOREM ContractKept == Spec => ImplementsContract
<1>1. Init => RInv
  BY InitEstablishesRInv
<1>2. RInv /\ [Next]_vars => RInv'
  BY NextKeepsRInv
<1>3. QED
  BY <1>1, <1>2, InitMaps, StepMaps, PTL DEF Spec, ImplementsContract, Contract!Spec

=============================================================================
