----------------------------- MODULE Metadatas -----------------------------
(***************************************************************************)
(* One call of mafw_tracker_source_get_metadatas(), in                     *)
(* mafw-tracker-source-metadata.c.                                         *)
(*                                                                         *)
(* The call fans out: the audio clips, the video clips and the playlists   *)
(* among the object ids are asked of Tracker with one query for each of    *)
(* the three groups, every other object id has a request of its own, and   *)
(* playlists without a duration are browsed to compute it.  All of them    *)
(* share one closure, which counts in "remaining" the answers still to     *)
(* come; whoever brings it to 0 installs the idle source that calls back   *)
(* and frees the closure.  Calls share nothing, so one is modelled; the    *)
(* answers of its requests come in any order.                              *)
(*                                                                         *)
(* A metadata is the number of the object it describes, 0 is NULL.  What   *)
(* handlers do with a closure already freed is not modelled: the property  *)
(* FreedByTheLast says when there is such a handler.                       *)
(***************************************************************************)
EXTENDS Integers, FiniteSets, Sequences

CONSTANT MaxIds  \* bound: the object ids of the call

ASSUME MaxIdsAssumption == MaxIds \in Nat

Ids == 1 .. MaxIds

\* Object ids that are asked together, and those asked one by one.
Groups == {"audio", "video", "playlist"}
Singles ==
  {"container",  \* videos, music, artists, an album...
   "root",       \* metadata of the music, then of the videos
   "playlists"}  \* the playlists category
Kinds == Groups \cup Singles \cup {"invalid"}

VARIABLES
  called,          \* get_metadatas() has been called
  kind,            \* of each object id, "absent" beyond the last one
  keys,            \* requested: "none", "some", or "timed" with the duration
  lookups,         \* closures of one object id: where they are, and which id
  groups,          \* groups whose closure waits for Tracker
  metadata_value,  \* metadata kept in the closure of one object id
  remaining,
  error,           \* has an error been stored in the common closure?
  metadatas,       \* the results collected so far
  idles,           \* _emit_metadatas_results_idle sources installed
  freed,           \* one has been dispatched: called back, closure freed
  failed,          \* history: groups that Tracker answered with an error
  lost             \* history: object ids whose answer will never be counted

vars == <<called, kind, keys, lookups, groups, metadata_value, remaining,
          error, metadatas, idles, freed, failed, lost>>

\* Where the closure of one object id can be: its first request, the second
\* one of the root, or the browse that computes a duration.
Stages == {"single", "videos", "duration"}

Members(g) == {i \in Ids : kind[i] = g}

\* Ids whose answer has not been counted in "remaining".
Unanswered ==
  {i \in Ids : \E stage \in Stages : <<stage, i>> \in lookups}
  \cup (UNION {Members(g) : g \in groups \cup failed})
  \cup lost

\* Mutant: the error condition of the groups, for a single object id.
EmittingOnError(stage, i, value, fails) ==
  /\ lookups' = lookups \ {<<stage, i>>}
  /\ metadatas' = IF value = 0 THEN metadatas ELSE [metadatas EXCEPT ![i] = value]
  /\ error' = (error \/ fails)
  /\ remaining' = remaining - 1
  /\ idles' = IF remaining' = 0 \/ fails THEN idles + 1 ELSE idles

\* Mutant: an answer without a result is not counted.
CountingResults(stage, i, value, fails) ==
  /\ lookups' = lookups \ {<<stage, i>>}
  /\ metadatas' = IF value = 0 THEN metadatas ELSE [metadatas EXCEPT ![i] = value]
  /\ error' = (error \/ fails)
  /\ remaining' = IF value = 0 THEN remaining ELSE remaining - 1
  /\ idles' = IF remaining' = 0 THEN idles + 1 ELSE idles

\* _get_metadata_tracker_cb, for the closure of object id i.
Collect(stage, i, value, fails) ==
  /\ lookups' = lookups \ {<<stage, i>>}
  /\ metadatas' = IF value = 0 THEN metadatas ELSE [metadatas EXCEPT ![i] = value]
  /\ error' = (error \/ fails)
  /\ remaining' = remaining - 1
  /\ idles' = IF remaining' = 0 THEN idles + 1 ELSE idles

-----------------------------------------------------------------------------
(* The call.                                                               *)

\* mafw_tracker_source_get_metadatas for n object ids.  Malformed ones are
\* answered on the spot; without any object id, or any key, everything is.
GetMetadatas(n, k, requested) ==
  LET invalid == {i \in 1 .. n : k[i] = "invalid"}
      empty == n = 0 \/ requested = "none"
  IN  /\ ~called
      /\ called' = TRUE
      /\ kind' = [i \in Ids |-> IF i <= n THEN k[i] ELSE "absent"]
      /\ keys' = requested
      /\ IF empty
         THEN /\ error' = (n = 0)
              /\ remaining' = n
              /\ UNCHANGED <<lookups, groups>>
         ELSE /\ error' = (invalid # {})
              /\ remaining' = n - Cardinality(invalid)
              /\ lookups' = {"single"} \X {i \in 1 .. n : k[i] \in Singles}
              /\ groups' = {g \in Groups : \E i \in 1 .. n : k[i] = g}
      /\ idles' = IF empty \/ remaining' = 0 THEN 1 ELSE 0
      /\ UNCHANGED <<metadata_value, metadatas, freed, failed, lost>>

-----------------------------------------------------------------------------
(* Answers for one object id.                                              *)

\* The request of object id i, and the closure has not been freed.
At(stage, i) == <<stage, i>> \in lookups /\ ~freed

\* The closure of object id i goes to another stage, with a value in hand.
Onward(stage, i, next, value) ==
  /\ lookups' = (lookups \ {<<stage, i>>}) \cup {<<next, i>>}
  /\ metadata_value' = [metadata_value EXCEPT ![i] = value]
  /\ UNCHANGED <<called, kind, keys, groups, remaining, error, metadatas,
                 idles, freed, failed, lost>>

Collected(stage, i, value, fails) ==
  /\ Collect(stage, i, value, fails)
  /\ UNCHANGED <<called, kind, keys, groups, metadata_value, freed, failed, lost>>

\* The first answer: a result, or an error.  The root goes on to the videos
\* either way, and the playlists category needs its duration computed.
SingleAnswer(i) ==
  /\ At("single", i)
  /\ \E value \in {0, i} :
       \/ /\ kind[i] = "root"
          /\ Onward("single", i, "videos", value)
       \/ /\ kind[i] = "playlists" /\ keys = "timed" /\ value # 0
          /\ Onward("single", i, "duration", value)
       \/ /\ ~(kind[i] = "root")
          /\ ~(kind[i] = "playlists" /\ keys = "timed" /\ value # 0)
          /\ Collected("single", i, value, value = 0)

\* Mutant: that the videos could not be had is not told.
VideosAnswerSilently(i) ==
  /\ At("videos", i)
  /\ \/ Collected("videos", i, i, FALSE)
     \/ Collected("videos", i, metadata_value[i], FALSE)

\* _get_metadata_tracker_from_root_videos_cb: with an error, the result of
\* the music is used alone.
VideosAnswer(i) ==
  /\ At("videos", i)
  /\ \/ Collected("videos", i, i, FALSE)
     \/ Collected("videos", i, metadata_value[i], TRUE)

\* _add_playlist_duration_cb: whether the duration is known or not, the
\* metadata obtained before is the result.
DurationAnswer(i) ==
  /\ At("duration", i)
  /\ \E fails \in BOOLEAN :
       Collected("duration", i, metadata_value[i], fails)

\* The browse that computes the duration is one that never ends.
DurationLost(i) ==
  /\ At("duration", i)
  /\ lookups' = lookups \ {<<"duration", i>>}
  /\ lost' = lost \cup {i}
  /\ UNCHANGED <<called, kind, keys, groups, metadata_value, remaining, error,
                 metadatas, idles, freed, failed>>

-----------------------------------------------------------------------------
(* Answers for a group.                                                    *)

\* The place of i in a list of the members of s, made by prepending them.
Place(i, s) == Cardinality({j \in s : j >= i})

\* What Tracker and the cache answer for the members of a group: a row for
\* each of them that Tracker knows, in the order of the list, and no mark of
\* those it does not; one metadata if it knows none.
Found(members, known) ==
  IF known = {} THEN {i \in members : Place(i, members) = 1} ELSE known

\* Mutant: the list of clips is appended to where that of ids is prepended to.
PairedBackwards(members, found) ==
  {p \in members \X found :
     Place(p[1], members) = Cardinality(found) + 1 - Place(p[2], found)}

\* Object ids and rows are paired by their places.
Paired(members, found) ==
  {p \in members \X found : Place(p[1], members) = Place(p[2], found)}

\* Mutant: the playlists whose duration is to be computed are counted, too.
GroupAnswerCountsUntimed(g) ==
  /\ g \in groups /\ ~freed
  /\ \E known \in SUBSET Members(g) :
       LET pairs == Paired(Members(g), Found(Members(g), known))
           heard == {p[1] : p \in pairs}
       IN  \E untimed \in IF g = "playlist" /\ keys = "timed"
                          THEN SUBSET heard ELSE {{}} :
             LET row(i) == CHOOSE j \in Ids : <<i, j>> \in pairs
                 done == heard \ untimed
             IN  /\ metadatas' = [i \in Ids |-> IF i \in done THEN row(i)
                                                ELSE metadatas[i]]
                 /\ metadata_value' = [i \in Ids |-> IF i \in untimed THEN row(i)
                                                     ELSE metadata_value[i]]
                 /\ lookups' = lookups \cup ({"duration"} \X untimed)
                 /\ remaining' = remaining - Cardinality(heard)
                 /\ lost' = lost \cup (Members(g) \ heard)
  /\ groups' = groups \ {g}
  /\ idles' = IF remaining' = 0 THEN idles + 1 ELSE idles
  /\ UNCHANGED <<called, kind, keys, error, freed, failed>>

\* _get_metadatas_tracker_cb and _get_metadatas_tracker_from_playlist_cb,
\* with results; the second one has the missing durations computed.
GroupAnswer(g) ==
  /\ g \in groups /\ ~freed
  /\ \E known \in SUBSET Members(g) :
       LET pairs == Paired(Members(g), Found(Members(g), known))
           heard == {p[1] : p \in pairs}
       IN  \E untimed \in IF g = "playlist" /\ keys = "timed"
                          THEN SUBSET heard ELSE {{}} :
             LET row(i) == CHOOSE j \in Ids : <<i, j>> \in pairs
                 done == heard \ untimed
             IN  /\ metadatas' = [i \in Ids |-> IF i \in done THEN row(i)
                                                ELSE metadatas[i]]
                 /\ metadata_value' = [i \in Ids |-> IF i \in untimed THEN row(i)
                                                     ELSE metadata_value[i]]
                 /\ lookups' = lookups \cup ({"duration"} \X untimed)
                 /\ remaining' = remaining - Cardinality(done)
                 /\ lost' = lost \cup (Members(g) \ heard)
  /\ groups' = groups \ {g}
  /\ idles' = IF remaining' = 0 THEN idles + 1 ELSE idles
  /\ UNCHANGED <<called, kind, keys, error, freed, failed>>

\* Mutant: an error alone does not send the results.
GroupFailsSilently(g) ==
  /\ g \in groups /\ ~freed
  /\ groups' = groups \ {g}
  /\ failed' = failed \cup {g}
  /\ error' = TRUE
  /\ UNCHANGED <<called, kind, keys, lookups, metadata_value, remaining,
                 metadatas, idles, freed, lost>>

\* The same callbacks with an error, which is emitted at once.
GroupFails(g) ==
  /\ g \in groups /\ ~freed
  /\ groups' = groups \ {g}
  /\ failed' = failed \cup {g}
  /\ error' = TRUE
  /\ idles' = idles + 1
  /\ UNCHANGED <<called, kind, keys, lookups, metadata_value, remaining,
                 metadatas, freed, lost>>

-----------------------------------------------------------------------------

\* _emit_metadatas_results_idle and the free that follows.
Emit ==
  /\ idles > 0 /\ ~freed
  /\ idles' = idles - 1
  /\ freed' = TRUE
  /\ UNCHANGED <<called, kind, keys, lookups, groups, metadata_value, remaining,
                 error, metadatas, failed, lost>>

Init ==
  /\ called = FALSE
  /\ kind = [i \in Ids |-> "absent"]
  /\ keys = "none"
  /\ lookups = {}
  /\ groups = {}
  /\ metadata_value = [i \in Ids |-> 0]
  /\ remaining = 0
  /\ error = FALSE
  /\ metadatas = [i \in Ids |-> 0]
  /\ idles = 0
  /\ freed = FALSE
  /\ failed = {}
  /\ lost = {}

\* What the main loop dispatches.
Handler ==
  \/ \E i \in Ids : SingleAnswer(i) \/ VideosAnswer(i) \/ DurationAnswer(i)
                      \/ DurationLost(i)
  \/ \E g \in Groups : GroupAnswer(g) \/ GroupFails(g)
  \/ Emit

Next ==
  \/ \E n \in 0 .. MaxIds : \E k \in [1 .. n -> Kinds] :
       \E requested \in {"none", "some", "timed"} : GetMetadatas(n, k, requested)
  \/ Handler

Spec == Init /\ [][Next]_vars

\* Tracker answers every query, if only with an error, and the main loop
\* dispatches idle sources.
FairSpec == Spec /\ WF_vars(Handler)

-----------------------------------------------------------------------------
(* Properties.                                                             *)

\* The type invariant; remaining, which is signed, never goes below 0.
TypeOK ==
  /\ called \in BOOLEAN
  /\ kind \in [Ids -> Kinds \cup {"absent"}]
  /\ keys \in {"none", "some", "timed"}
  /\ lookups \subseteq Stages \X Ids
  /\ groups \subseteq Groups
  /\ metadata_value \in [Ids -> 0 .. MaxIds]
  /\ remaining \in 0 .. MaxIds
  /\ error \in BOOLEAN
  /\ metadatas \in [Ids -> 0 .. MaxIds]
  /\ idles \in Nat
  /\ freed \in BOOLEAN
  /\ failed \subseteq Groups
  /\ lost \subseteq Ids

\* "remaining" counts exactly the object ids that are not answered, across
\* the three groups, the single requests and the durations being computed:
\* too high and the call is never answered, too low and its closure is freed
\* under requests that still hold it.
RemainingExact ==
  keys # "none" => remaining = Cardinality(Unanswered)

\* As long as no group is answered with an error, the closure is freed once
\* nothing refers to it any more: no request, and no second idle source.
FreedByTheLast ==
  freed /\ failed = {} => lookups = {} /\ groups = {} /\ idles = 0

\* A callback without an error carries the metadata of every object id, and
\* each object id has its own.
CompleteOrError ==
  freed /\ ~error /\ keys # "none" =>
    \A i \in Ids : kind[i] # "absent" => metadatas[i] = i

\* When Tracker fails to answer for the playlists there are no results: none
\* collected, and none to come.
NoResultsWhenPlaylistsFail ==
  "playlist" \in failed =>
    /\ \A i \in Ids : metadatas[i] = 0
    /\ lookups = {} /\ groups = {}

\* What the caller of get_metadatas() sees of the call: which objects it asks
\* for, those it waits for, and the callback it gets.
Asked == IF keys = "none" THEN {} ELSE {i \in Ids : kind[i] # "absent"}

Contract == INSTANCE MetadatasContract WITH
  Objects <- Ids,
  NoMetadata <- 0,
  timed <- keys = "timed",
  asked <- Asked,
  pending <- Unanswered,
  refused <- UNION {Members(g) : g \in failed},
  answers <- IF freed THEN << [error |-> error, metadatas |-> metadatas] >>
             ELSE << >>

\* However the requests that a call fans out to, the nested browses among them,
\* are answered, the caller gets one callback: when all objects are answered,
\* and with their own metadata, or an error.
ImplementsContract == Contract!Spec

\* The call is answered, unless an answer got lost.
EveryGetAnswered == called ~> freed \/ lost # {}
=============================================================================
