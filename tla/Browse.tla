------------------------------- MODULE Browse -------------------------------
(***************************************************************************)
(* The life of browse operations in mafw-tracker-source-browse.c.          *)
(*                                                                         *)
(* A call of mafw_tracker_source_browse() allocates a browse closure, puts *)
(* it on the list of pending operations and sends its first request to     *)
(* Tracker (or parses a playlist file).  Everything after that happens in  *)
(* callbacks of the GLib main loop: answers of Tracker, and idle sources   *)
(* that emit one result per dispatch.  Each of those callbacks is an       *)
(* action; user calls of browse() and cancel_browse() may come between any *)
(* two of them (a call made from inside a result callback has the effect   *)
(* of one made right after it: nothing the rest of the handler reads is    *)
(* changed by it).  Browsing the playlists category may have to compute    *)
(* durations, which it does by browsing each playlist in turn: such nested *)
(* browses are operations of the same kind whose callback is internal.     *)
(*                                                                         *)
(* Metadata is abstracted away; a result is the name of the row it came    *)
(* from.  get_metadata(s), which feeds three of the handlers, is modelled  *)
(* by when it calls back.                                                  *)
(***************************************************************************)
EXTENDS Integers, Sequences, FiniteSets

CONSTANTS
  Requests,        \* bound: how many times the user calls browse()
  MaxRows,         \* bound: rows of one Tracker answer, entries of a playlist
  Targets,         \* the kinds of object the user browses
  Skips,           \* the values of skip_count the user passes
  G_MAXUINT,       \* the largest unsigned number, 2^32 - 1 in the code
  UntrackedEntries \* may a playlist hold local files Tracker does not know?

AllTargets ==
  {"invalid",    \* no object id, a malformed one, or a clip
   "category",   \* videos, songs, albums..., anything recursive but the root
   "root_all",   \* the root, recursively: songs, then videos
   "root",       \* the root: metadata of its 2 children
   "music",      \* music: metadata of its 5 children
   "playlists",  \* the playlists category
   "playlist"}   \* one playlist file

ASSUME RequestsAssumption == Requests \in Nat \ {0}
ASSUME MaxRowsAssumption == MaxRows \in Nat \ {0}
ASSUME TargetsAssumption == Targets \subseteq AllTargets
ASSUME SkipsAssumption == Skips \subseteq Nat
ASSUME MaxUintAssumption == G_MAXUINT \in Nat /\ G_MAXUINT > MaxRows + 5
ASSUME UntrackedAssumption == UntrackedEntries \in BOOLEAN

\* Every user call may browse the playlists category, and its durations take
\* one nested call per row (one for the lone entry an empty answer leaves).
MaxCalls == Requests * (MaxRows + 1)
Calls == 1 .. MaxCalls

VARIABLES
  requests,           \* user calls of browse() so far
  calls,              \* all calls of browse() so far, nested ones included
  browse_id_counter,  \* klass->browse_id_counter
  op,                 \* the browse closure of each call
  pending,            \* priv->pending_browse_ops
  errors,             \* calls with a _send_error_idle source
  log                 \* the callbacks each call has received

vars == <<requests, calls, browse_id_counter, op, pending, errors, log>>

-----------------------------------------------------------------------------
(* Data.                                                                   *)

Labels == {"none", "row", "song", "child", "playlist", "entry"}
Item == Labels \X Nat
NoItem == <<"none", 0>>

\* What a list has behind the first few.
Rows(label, offset, n) == [k \in 1 .. n |-> <<label, offset + k>>]
Backwards(label, offset, n) == [k \in 1 .. n |-> <<label, offset + (n + 1 - k)>>]

Phase ==
  {"none",       \* no closure: not called yet, or refused before allocation
   "query",      \* _browse_tracker_cb to come
   "songs",      \* _browse_enqueue_videos_cb to come
   "children",   \* remaining_count calls of _consolidate_metadata_cb to come
   "playlists",  \* _browse_playlists_tracker_cb to come
   "durations",  \* _add_playlist_duration_idle installed
   "nested",     \* _add_playlist_duration_cb to come
   "entries",    \* _browse_playlist_tracker_cb to come
   "orphaned",   \* as entries, but get_metadatas() will never call back
   "emitting",   \* _emit_browse_results_idle installed
   "failed",     \* _emit_browse_error called: nothing installed, not freed
   "unparsed",   \* the playlist did not parse: nothing installed, not freed
   "freed"}      \* _browse_closure_free called

\* Phases in which something is still to happen to the closure.
Active == Phase \ {"none", "failed", "unparsed", "freed"}

\* struct _browse_closure; target, handle, asked and of say who called, how.
Op ==
  [target : AllTargets,
   handle : Nat,             \* what browse() returned to a user, 0 if invalid
   of : (0 .. MaxCalls) \X Nat,  \* <<parent call, row>> of a nested browse
   offset : Nat,             \* skip_count of the call
   asked : Nat,              \* item_count of the call
   browse_id : Nat,
   phase : Phase,
   cancelled : BOOLEAN,
   count : Nat,
   uris : Seq(Item),         \* pls_uris, in playlist order
   ids : Seq(Item),
   duration : BOOLEAN,       \* is the duration key among the requested ones?
   untimed : SUBSET Nat,     \* rows whose metadata has no duration
   waiting : SUBSET Nat,     \* children, or local entries, being looked up
   current : Nat,            \* how far current_id has advanced along ids
   current_index : Nat,
   remaining_count : Nat]

NoParent == <<0, 0>>

Blank(target, of, offset, asked) ==
  [target |-> target, handle |-> 0, of |-> of, offset |-> offset, asked |-> asked,
   browse_id |-> 0, phase |-> "none", cancelled |-> FALSE, count |-> asked,
   uris |-> << >>, ids |-> << >>, duration |-> FALSE, untimed |-> {},
   waiting |-> {}, current |-> 0, current_index |-> 0, remaining_count |-> 0]

Callback(item, remaining, index, error) ==
  [item |-> item, remaining |-> remaining, index |-> index, error |-> error]

ErrorCallback == Callback(NoItem, 0, 0, TRUE)

\* The item under current_id: NULL when the list is exhausted, or empty.
CurrentItem(o) == IF o.current < Len(o.ids) THEN o.ids[o.current + 1] ELSE NoItem

\* n-- of an unsigned number.
Decremented(n) == IF n = 0 THEN G_MAXUINT ELSE n - 1

\* Mutant: the source is removed one result early.
MoreIdsShort(o) == o.current + 2 < Len(o.ids)

\* g_list_next() of current_id is not NULL.
MoreIds(o) == o.current + 1 < Len(o.ids)

\* Mutant: the count of an empty list is not clamped at 0.
EmittingUnclamped(o) ==
  [o EXCEPT !.phase = "emitting", !.current = 0, !.current_index = 0,
            !.remaining_count = Decremented(Len(o.ids))]

\* _emit_browse_results: rewind, count, install the emission idle.
Emitting(o) ==
  [o EXCEPT !.phase = "emitting", !.current = 0, !.current_index = 0,
            !.remaining_count = IF o.ids = << >> THEN 0 ELSE Len(o.ids) - 1]

\* _add_playlist_duration_cb: on to the next playlist.
Resumed(o) == [o EXCEPT !.phase = "durations", !.current = @ + 1]

\* Mutant: the parent advances here and again in its idle.
HeardTwice(f, c, remaining) ==
  LET p == f[c].of[1]
  IN  IF p = 0 \/ remaining # 0
      THEN f
      ELSE [f EXCEPT ![p] = [Resumed(@) EXCEPT !.current = @ + 1]]

\* The result callback of a nested browse is _get_playlist_duration_cb.  When
\* it hears remaining count 0 it sends the total to Tracker, an update whose
\* outcome nothing here depends on, and hands it to the parent.
Heard(f, c, remaining) ==
  LET p == f[c].of[1]
  IN  IF p = 0 \/ remaining # 0
      THEN f
      ELSE [f EXCEPT ![p] = Resumed(@)]

-----------------------------------------------------------------------------
(* Calls of browse().                                                      *)

\* The closure gets the next id and goes on the pending list, whatever
\* happens to the playlist it may have to parse.
Registered(o) == [o EXCEPT !.browse_id = browse_id_counter + 1]

\* The same, for a call whose id goes back to the user.
Handed(o) == [Registered(o) EXCEPT !.handle = browse_id_counter + 1]

\* What can become of a playlist file in _get_playlist_entries: it does not
\* parse, it has n entries of which some are local, it only has remote ones
\* (pls_uris is reversed once too often), or it is empty.
ParsedPlaylists(o) ==
  LET size == 1 .. o.asked
      local(n) == {[o EXCEPT !.phase = "entries", !.uris = Rows("entry", o.offset, n),
                             !.waiting = 1 .. l] : l \in 1 .. n}
  IN  (UNION {local(n) : n \in size})
      \cup {Emitting([o EXCEPT !.ids = Backwards("entry", o.offset, n)]) : n \in size}
      \cup {Emitting(o)}

\* browse() of a playlist, given the closures with the caller already updated.
BrowsePlaylist(f, o) ==
  LET c == calls + 1
  IN  /\ calls' = c
      /\ browse_id_counter' = browse_id_counter + 1
      /\ pending' = pending \cup {c}
      /\ \/ /\ op' = [f EXCEPT ![c] = [Registered(o) EXCEPT !.phase = "unparsed"]]
            /\ errors' = errors \cup {c}
         \/ \E parsed \in ParsedPlaylists(
                            IF o.of = NoParent THEN Handed(o) ELSE Registered(o)) :
              op' = [f EXCEPT ![c] = parsed]
            /\ UNCHANGED errors

\* browse() refuses the object id: no closure, an error from an idle.
BrowseRefused(f, o) ==
  /\ calls' = calls + 1
  /\ op' = [f EXCEPT ![calls + 1] = o]
  /\ errors' = errors \cup {calls + 1}
  /\ UNCHANGED <<browse_id_counter, pending>>

\* browse() of anything else ends up waiting in phase o.phase.
BrowseQuery(o) ==
  /\ calls' = calls + 1
  /\ browse_id_counter' = browse_id_counter + 1
  /\ pending' = pending \cup {calls + 1}
  /\ op' = [op EXCEPT ![calls + 1] = Handed(o)]
  /\ UNCHANGED errors

\* Where each kind of target sends its first request.  The children of the
\* root and of music are asked one by one.
Asking(o) ==
  CASE o.target = "category" -> {[o EXCEPT !.phase = "query"]}
    [] o.target = "root_all" -> {[o EXCEPT !.phase = "songs"]}
    [] o.target = "root" -> {[o EXCEPT !.phase = "children", !.waiting = 1 .. 2,
                                       !.remaining_count = 2]}
    [] o.target = "music" -> {[o EXCEPT !.phase = "children", !.waiting = 1 .. 5,
                                        !.remaining_count = 5]}
    [] o.target = "playlists" -> {[o EXCEPT !.phase = "playlists",
                                            !.duration = d] : d \in BOOLEAN}
    [] OTHER -> {}

\* mafw_tracker_source_browse called by the user.
Browse(target, skip_count, item_count) ==
  LET o == Blank(target, NoParent, skip_count, item_count)
  IN  /\ requests < Requests
      /\ calls < MaxCalls
      /\ requests' = requests + 1
      /\ \/ target = "invalid" /\ BrowseRefused(op, o)
         \/ target = "playlist" /\ BrowsePlaylist(op, o)
         \/ \E asking \in Asking(o) : BrowseQuery(asking)
      /\ UNCHANGED log

\* mafw_tracker_source_cancel_browse with an id that browse() returned.  With
\* any other id, or one that is not pending any more, it changes nothing.
CancelBrowse(c) ==
  /\ c \in pending
  /\ op[c].handle # 0
  /\ op' = [op EXCEPT ![c].cancelled = TRUE]
  /\ UNCHANGED <<requests, calls, browse_id_counter, pending, errors, log>>

-----------------------------------------------------------------------------
(* Answers of Tracker.                                                     *)

\* Only the closure of c changes.
Step(c, o) ==
  /\ op' = [op EXCEPT ![c] = o]
  /\ UNCHANGED <<requests, calls, browse_id_counter, pending, errors, log>>

\* The numbers of rows Tracker may return.  It honours the LIMIT of the query,
\* and the query has none when count is 0.
Limit(o) == IF o.count = 0 THEN 0 .. MaxRows ELSE 0 .. o.count

\* Mutant: the cancelled flag is not looked at.
EmitBrowseErrorAlways(c) ==
  /\ op' = Heard([op EXCEPT ![c].phase = "failed"], c, 0)
  /\ log' = [log EXCEPT ![c] = Append(@, ErrorCallback)]
  /\ UNCHANGED <<requests, calls, browse_id_counter, pending, errors>>

\* _emit_browse_error: one callback unless cancelled; the closure is neither
\* freed nor taken off the pending list.
EmitBrowseError(c) ==
  LET gone == [op EXCEPT ![c].phase = "failed"]
  IN  /\ IF op[c].cancelled
         THEN op' = gone /\ UNCHANGED log
         ELSE /\ op' = Heard(gone, c, 0)
              /\ log' = [log EXCEPT ![c] = Append(@, ErrorCallback)]
      /\ UNCHANGED <<requests, calls, browse_id_counter, pending, errors>>

\* Mutant: the rows go in front of those already there.
QueryAnswerPrepends(c) ==
  /\ op[c].phase = "query"
  /\ \/ \E n \in Limit(op[c]) :
          Step(c, Emitting([op[c] EXCEPT !.ids = Rows("row", op[c].offset, n) \o @]))
     \/ EmitBrowseError(c)

\* Mutant: the videos of the root are asked for from the first one on.
QueryAnswerVideosAnew(c) ==
  /\ op[c].phase = "query"
  /\ \/ \E n \in Limit(op[c]) :
          Step(c, Emitting([op[c] EXCEPT !.ids = @ \o
            Rows("row", IF op[c].target = "root_all" THEN 0 ELSE op[c].offset, n)]))
     \/ EmitBrowseError(c)

\* _browse_tracker_cb: in the root, skip_count songs and skip_count videos are
\* skipped.
QueryAnswer(c) ==
  /\ op[c].phase = "query"
  /\ \/ \E n \in Limit(op[c]) :
          Step(c, Emitting([op[c] EXCEPT !.ids = @ \o Rows("row", op[c].offset, n)]))
     \/ EmitBrowseError(c)

\* Mutant: the songs found are not deducted from count.
SongsAnswerKeepsCount(c) ==
  /\ op[c].phase = "songs"
  /\ \/ \E n \in Limit(op[c]) :
          Step(c, [op[c] EXCEPT !.ids = @ \o Rows("song", op[c].offset, n), !.phase = "query"])
     \/ Step(c, [op[c] EXCEPT !.phase = "query"])

\* Mutant: the songs are asked for without a LIMIT.
SongsAnswerUnlimited(c) ==
  /\ op[c].phase = "songs"
  /\ \/ \E n \in 0 .. MaxRows :
          LET o == [op[c] EXCEPT !.ids = @ \o Rows("song", op[c].offset, n), !.count = @ - n]
          IN  Step(c, IF o.count = 0 THEN Emitting(o)
                                     ELSE [o EXCEPT !.phase = "query"])
     \/ Step(c, [op[c] EXCEPT !.phase = "query"])

\* _browse_enqueue_videos_cb: an error of the songs query is dropped.
SongsAnswer(c) ==
  /\ op[c].phase = "songs"
  /\ \/ \E n \in Limit(op[c]) :
          LET o == [op[c] EXCEPT !.ids = @ \o Rows("song", op[c].offset, n), !.count = @ - n]
          IN  Step(c, IF o.count = 0 THEN Emitting(o)
                                     ELSE [o EXCEPT !.phase = "query"])
     \/ Step(c, [op[c] EXCEPT !.phase = "query"])

\* Mutant: only the answers without an error are counted.
ChildAnswerCountsResults(c) ==
  /\ op[c].phase = "children"
  /\ \E k \in op[c].waiting :
     LET heard == [op[c] EXCEPT !.waiting = @ \ {k}]
         o == [heard EXCEPT !.ids = << <<"child", k>> >> \o @,
                            !.remaining_count = Decremented(@)]
     IN  \/ Step(c, heard)
         \/ Step(c, IF o.remaining_count = 0 THEN Emitting(o) ELSE o)

\* _consolidate_metadata_cb: the answers come in any order, failures are
\* left out, and the last one starts the emission.
ChildAnswer(c) ==
  /\ op[c].phase = "children"
  /\ \E k \in op[c].waiting :
     \E ids \in {op[c].ids, << <<"child", k>> >> \o op[c].ids} :
       LET o == [op[c] EXCEPT !.waiting = @ \ {k}, !.ids = ids,
                              !.remaining_count = Decremented(@)]
       IN  Step(c, IF o.remaining_count = 0 THEN Emitting(o) ELSE o)

\* _browse_playlists_tracker_cb.  An empty answer still comes with one
\* metadata entry, which may be there without a duration.
PlaylistsAnswer(c) ==
  /\ op[c].phase = "playlists"
  /\ \/ \E n \in Limit(op[c]) :
          LET o == [op[c] EXCEPT !.ids = Rows("playlist", op[c].offset, n), !.current = 0]
              entries == IF n = 0 THEN {1} ELSE 1 .. n
          IN  IF o.duration
              THEN \E untimed \in SUBSET entries :
                     Step(c, [o EXCEPT !.phase = "durations",
                                       !.untimed = untimed])
              ELSE Step(c, Emitting(o))
     \/ EmitBrowseError(c)

\* _browse_playlist_tracker_cb: get_metadatas() has called back, with or
\* without an error; the playlist is built either way.
EntriesAnswer(c) ==
  /\ op[c].phase = "entries"
  /\ Step(c, Emitting([op[c] EXCEPT !.ids = op[c].uris, !.waiting = {}]))

\* Tracker has answered get_metadatas() with fewer rows than the two or more
\* local entries: its count of missing answers stays above 0 for ever.
EntriesLost(c) ==
  /\ UntrackedEntries
  /\ op[c].phase = "entries"
  /\ op[c].waiting # {1}
  /\ Step(c, [op[c] EXCEPT !.phase = "orphaned"])

-----------------------------------------------------------------------------
(* Idle sources.                                                           *)

\* Mutant: the idle source stays installed during the nested browse.
AskDurationKeepsIdle(c) ==
  LET row == op[c].current + 1
  IN  /\ op[c].phase = "durations"
      /\ row \in op[c].untimed
      /\ calls < MaxCalls
      /\ IF op[c].ids = << >>
         THEN BrowseRefused(op, Blank("invalid", <<c, row>>, 0, MaxRows))
         ELSE BrowsePlaylist(op, Blank("playlist", <<c, row>>, 0, MaxRows))
      /\ UNCHANGED <<requests, log>>

\* _add_playlist_duration_idle, when the duration of the current row is
\* missing: browse that playlist.  On an empty list its object id is NULL.
AskDuration(c) ==
  LET row == op[c].current + 1
      waiting == [op EXCEPT ![c].phase = "nested"]
  IN  /\ op[c].phase = "durations"
      /\ row \in op[c].untimed
      /\ calls < MaxCalls
      /\ IF op[c].ids = << >>
         THEN BrowseRefused(waiting, Blank("invalid", <<c, row>>, 0, MaxRows))
         ELSE BrowsePlaylist(waiting, Blank("playlist", <<c, row>>, 0, MaxRows))
      /\ UNCHANGED <<requests, log>>

\* Mutant: a cancelled operation is not handed to the emission idle.
SkipDurationUncancelled(c) ==
  /\ op[c].phase = "durations"
  /\ ~op[c].cancelled
  /\ op[c].current + 1 \notin op[c].untimed
  /\ Step(c, IF MoreIds(op[c]) THEN [op[c] EXCEPT !.current = @ + 1]
                               ELSE Emitting(op[c]))

\* _add_playlist_duration_idle, when it is not.
SkipDuration(c) ==
  /\ op[c].phase = "durations"
  /\ op[c].current + 1 \notin op[c].untimed
  /\ Step(c, IF MoreIds(op[c]) THEN [op[c] EXCEPT !.current = @ + 1]
                               ELSE Emitting(op[c]))

\* Mutant: the remaining count is not decremented.
AdvancedKeepsCount(o) == [o EXCEPT !.current = @ + 1, !.current_index = @ + 1]

\* On to the next result, with the counters.  Behind the last result the
\* remaining count is 0 already and wraps.
Advanced(o) == [o EXCEPT !.current = @ + 1, !.current_index = @ + 1,
                         !.remaining_count = Decremented(@)]

\* _emit_browse_results_idle: one result and there is another one to come.
EmitResult(c) ==
  LET o == op[c]
  IN  /\ o.phase = "emitting"
      /\ ~o.cancelled
      /\ MoreIds(o)
      /\ log' = [log EXCEPT ![c] = Append(@,
                   Callback(CurrentItem(o), o.remaining_count,
                            o.current_index, FALSE))]
      /\ op' = Heard([op EXCEPT ![c] = Advanced(o)], c, o.remaining_count)
      /\ UNCHANGED <<requests, calls, browse_id_counter, pending, errors>>

\* Mutant: the source is not removed after the last result.
EmitLastStays(c) ==
  LET o == op[c]
  IN  /\ o.phase = "emitting"
      /\ ~o.cancelled
      /\ ~MoreIds(o)
      /\ log' = [log EXCEPT ![c] = Append(@,
                   Callback(CurrentItem(o), o.remaining_count,
                            o.current_index, FALSE))]
      /\ op' = Heard([op EXCEPT ![c] = Advanced(o)], c, o.remaining_count)
      /\ UNCHANGED <<requests, calls, browse_id_counter, pending, errors>>

\* The same idle at the end of the list: the counters move on all the same,
\* then its source is removed, which frees the closure.
EmitLast(c) ==
  LET o == op[c]
  IN  /\ o.phase = "emitting"
      /\ ~o.cancelled
      /\ ~MoreIds(o)
      /\ log' = [log EXCEPT ![c] = Append(@,
                   Callback(CurrentItem(o), o.remaining_count,
                            o.current_index, FALSE))]
      /\ op' = Heard([op EXCEPT ![c] = [Advanced(o) EXCEPT !.phase = "freed"]],
                     c, o.remaining_count)
      /\ pending' = pending \ {c}
      /\ UNCHANGED <<requests, calls, browse_id_counter, errors>>

\* Mutant: the closure is freed but stays on the pending list.
DropCancelledListed(c) ==
  /\ op[c].phase = "emitting"
  /\ op[c].cancelled
  /\ op' = [op EXCEPT ![c].phase = "freed"]
  /\ UNCHANGED <<requests, calls, browse_id_counter, pending, errors, log>>

\* The same idle once the operation is cancelled.
DropCancelled(c) ==
  /\ op[c].phase = "emitting"
  /\ op[c].cancelled
  /\ op' = [op EXCEPT ![c].phase = "freed"]
  /\ pending' = pending \ {c}
  /\ UNCHANGED <<requests, calls, browse_id_counter, errors, log>>

\* _send_error_idle
SendError(c) ==
  /\ c \in errors
  /\ log' = [log EXCEPT ![c] = Append(@, ErrorCallback)]
  /\ errors' = errors \ {c}
  /\ op' = Heard(op, c, 0)
  /\ UNCHANGED <<requests, calls, browse_id_counter, pending>>

-----------------------------------------------------------------------------
Init ==
  /\ requests = 0
  /\ calls = 0
  /\ browse_id_counter = 0
  /\ op = [c \in Calls |-> Blank("invalid", NoParent, 0, 0)]
  /\ pending = {}
  /\ errors = {}
  /\ log = [c \in Calls |-> << >>]

\* What the main loop dispatches for call c.
Handler(c) ==
  \/ QueryAnswer(c) \/ SongsAnswer(c) \/ ChildAnswer(c) \/ PlaylistsAnswer(c)
  \/ EntriesAnswer(c) \/ EntriesLost(c)
  \/ AskDuration(c) \/ SkipDuration(c)
  \/ EmitResult(c) \/ EmitLast(c) \/ DropCancelled(c) \/ SendError(c)

Next ==
  \/ \E target \in Targets, skip_count \in Skips, item_count \in 1 .. MaxRows :
       Browse(target, skip_count, item_count)
  \/ \E c \in Calls : CancelBrowse(c) \/ Handler(c)

\* The user may stop calling; Tracker answers every query, if only with an
\* error, and the main loop dispatches every idle source.
Fairness == \A c \in Calls : WF_vars(Handler(c))

Spec == Init /\ [][Next]_vars
FairSpec == Spec /\ Fairness

-----------------------------------------------------------------------------
(* Properties.                                                             *)

\* The type invariant: every variable, and every field of a closure, keeps
\* its type.  count, unsigned in the code, is a plain difference here: that it
\* is a natural number says that no more songs are deducted than it counts.
TypeOK ==
  /\ requests \in 0 .. Requests
  /\ calls \in 0 .. MaxCalls
  /\ browse_id_counter \in Nat
  /\ op \in [Calls -> Op]
  /\ pending \subseteq Calls
  /\ errors \subseteq Calls
  /\ log \in [Calls -> Seq([item : Item, remaining : Nat, index : Nat,
                            error : BOOLEAN])]

\* The call has had its last callback.
Finished(c) == log[c] # << >> /\ log[c][Len(log[c])].remaining = 0

\* The pending list holds exactly the closures that have been allocated and
\* not freed: cancel_browse() walks it and writes to what it finds, so a
\* closure freed but still listed would be a write to freed memory, and one
\* not listed could not be cancelled.
PendingExact == pending = {c \in Calls : op[c].phase \notin {"none", "freed"}}

\* remaining_count, decremented by answers of children in one phase and by
\* results in another, and unsigned, is exact in both: it is the number of
\* children that have not answered, then that of callbacks to come behind the
\* next.  It does wrap, when it is decremented behind the last result, but
\* then the closure is freed: no callback ever carries the wrapped count.
RemainingCountExact ==
  \A c \in Calls :
    LET o == op[c]
        total == IF o.ids = << >> THEN 1 ELSE Len(o.ids)
    IN  /\ o.phase = "children" => o.remaining_count = Cardinality(o.waiting)
        /\ o.phase = "emitting" => o.remaining_count = total - 1 - Len(log[c])
        /\ \A k \in 1 .. Len(log[c]) : log[c][k].remaining # G_MAXUINT

\* A callback never follows a successful cancel_browse().
NothingAfterCancel ==
  [][\A c \in Calls : op[c].cancelled => log'[c] = log[c]]_vars

\* A callback never follows the one that says no result remains.
NothingAfterLast == [][\A c \in Calls : Finished(c) => log'[c] = log[c]]_vars

\* A parent waits for the nested browse it started, for one only, and for the
\* row that one is about: the callback of a nested browse dereferences the
\* parent's closure, and advances it.
ParentWaits ==
  \A c \in Calls :
    LET p == op[c].of[1]
    IN  p # 0 /\ (op[c].phase \in Active \/ c \in errors) =>
          /\ op[p].phase = "nested"
          /\ op[c].of[2] = op[p].current + 1
          /\ \A d \in Calls : op[d].of[1] = p /\ d # c => Finished(d)

\* Every playlist without a duration has been browsed, once, before the
\* playlists are emitted, and no other one has.
DurationsAsked ==
  \A c \in Calls :
    op[c].target = "playlists" /\ op[c].phase \in {"emitting", "freed"} =>
      \A row \in 1 .. MaxRows :
        Cardinality({d \in Calls : op[d].of = <<c, row>>})
          = IF row \in op[c].untimed THEN 1 ELSE 0

\* The results come in the order Tracker or the playlist gave them, none is
\* skipped or repeated; the songs of the root come before its videos.
InOrder(c) ==
  LET items == [k \in 1 .. Len(log[c]) |-> log[c][k].item]
      before(i, j) == \/ items[i][1] = items[j][1] /\ items[i][2] < items[j][2]
                      \/ items[i][1] = "song" /\ items[j][1] = "row"
  IN  \A i, j \in 1 .. Len(items) : i < j => before(i, j)

OnlyRemote(c) ==
  op[c].target = "playlist" /\ op[c].uris = << >>

DeliveredInOrder ==
  \A c \in Calls :
    op[c].target \notin {"root", "music"} /\ ~OnlyRemote(c) => InOrder(c)

\* The entries of a playlist come in playlist order.
PlaylistInOrder ==
  \A c \in Calls : op[c].target = "playlist" => InOrder(c)

\* Everything found is delivered: when an operation that was not cancelled is
\* over, the callbacks carried all of ids, each once.
AllDelivered ==
  \A c \in Calls :
    op[c].phase = "freed" /\ ~op[c].cancelled =>
      \/ op[c].ids = << >> /\ Len(log[c]) = 1
      \/ [k \in 1 .. Len(log[c]) |-> log[c][k].item] = op[c].ids

\* No operation on a list of files or categories delivers more results than
\* item_count asked for, even when it adds up songs and videos.
NeverMoreThanAsked ==
  \A c \in Calls :
    op[c].target \notin {"invalid", "root", "music"} =>
      Len(log[c]) <= op[c].asked

\* Pages of the same thing do not overlap: two operations whose windows, of
\* skip_count and item_count, are apart never deliver the same item, although
\* a recursive browse of the root has one window for songs and videos.
Delivered(c) == {log[c][k].item : k \in 1 .. Len(log[c])} \ {NoItem}

PagesDisjoint ==
  \A c, d \in Calls :
    op[c].target = op[d].target
      /\ op[c].target \in {"category", "root_all", "playlists", "playlist"}
      /\ op[c].offset + op[c].asked <= op[d].offset =>
         Delivered(c) \cap Delivered(d) = {}

\* An operation that has had its last callback is not pending any more.
FinishedNotPending == \A c \in pending : ~Finished(c)

\* Every call of browse() that is not cancelled gets its last callback.
EveryCallAnswered ==
  \A c \in Calls : c <= calls ~> Finished(c) \/ op[c].cancelled

\* Every operation comes to rest, cancelled or not: its closure is freed, or
\* left behind by an error.
EveryOperationSettles == \A c \in Calls : [](<>(op[c].phase \notin Active))

-----------------------------------------------------------------------------
(* The refinement: each call as its callback sees it.                      *)

Status(c) ==
  IF c > calls THEN "new"
  ELSE IF Finished(c) THEN "closed"
  ELSE IF op[c].cancelled THEN "cancelled" ELSE "open"

\* What a callback may carry: nothing, or an item of some page.
ContractItem ==
  {NoItem} \cup {<<label, k>> :
     label \in Labels \ {"none"},
     k \in UNION {1 .. (skip + MaxRows + 5) : skip \in Skips \cup {0}}}

Contract ==
  INSTANCE BrowseContract WITH
    Item <- ContractItem,
    MaxTotal <- MaxRows + 5,
    status <- [c \in Calls |-> Status(c)]

\* Browse operations keep the promises of the contract.
ImplementsContract == Contract!Spec
=============================================================================
