------------------------------ MODULE Changes -------------------------------
(***************************************************************************)
(* destroy_object() and set_metadata(): the operations that change files   *)
(* and what Tracker knows of them (mafw-tracker-source.c,                  *)
(* mafw-tracker-source-metadata.c, tracker-iface.c).                       *)
(*                                                                         *)
(* Deleting a container takes one query for its songs, then one file for   *)
(* each dispatch of an idle source.  Setting metadata is one dispatch of   *)
(* an idle source that blocks twice on Tracker: the main loop is busy, but *)
(* other programs go on changing files, and the miner brings Tracker up to *)
(* date in its own time.                                                   *)
(***************************************************************************)
EXTENDS Integers, Sequences, FiniteSets, Functions, Lists

CONSTANTS
  Songs, Videos,  \* files there may be; the songs are those of one album
  Keys,           \* metadata keys that set_metadata() is called with
  MaxKeys,        \* bound: keys of a call
  Disks,          \* bound: what may be on the disk at first
  Requests,       \* bound: calls
  Touches         \* bound: files made or removed by other programs

MafwKeys == {"artist", "duration", "last-played", "play-count", "paused-position"}

ASSUME FilesAssumption ==
  /\ Songs \cup Videos \subseteq Nat \ {0}
  /\ IsFiniteSet(Songs) /\ IsFiniteSet(Videos)
ASSUME DisksAssumption == \A d \in Disks : d \subseteq Songs \cup Videos
ASSUME KeysAssumption == Keys \subseteq MafwKeys
ASSUME MaxKeysAssumption == MaxKeys \in Nat
ASSUME RequestsAssumption == Requests \in Nat
ASSUME TouchesAssumption == Touches \in Nat

File == Songs \cup Videos
Request == 1 .. Requests

VARIABLES
  op,       \* the closure of each call
  calls,    \* calls so far
  busy,     \* the call whose idle source blocks the main loop, or 0
  disk,     \* files on the disk
  tracked,  \* files that Tracker knows
  stored,   \* for each file and key, the call whose value Tracker has, or 0
  touches,  \* how often other programs have changed the disk
  answers,  \* the callbacks of each call
  told      \* calls that metadata-changed was emitted for

vars == <<op, calls, busy, disk, tracked, stored, touches, answers, told>>

Phases ==
  {"unused",
   "querying",  \* _destroy_object_tracker_cb to come
   "deleting",  \* _destroy_object_idle installed
   "refused",   \* _destroy_object_error_idle installed
   "updating",  \* _update_metadata_idle installed
   "checked",   \* ti_set_metadata has seen that the object exists
   "freed"}

-----------------------------------------------------------------------------
(* The keys.                                                               *)

\* keymap_mafw_key_is_writable()
Writable(key) == key # "artist"

\* keymap_get_tracker_info(): the keys Tracker has for a file.
TrackerHas(file, key) ==
  \/ file \in Songs
  \/ key \notin {"artist", "last-played", "play-count"}

\* The date of last-played must be given as a long.
Dated(file, key) == file \in Songs /\ key = "last-played"

\* Keys that are put in keys_array; the others are reported.
Updatable(r, key) ==
  Writable(key) /\ (Dated(op[r].target, key) => op[r].long)

UpdatableAt(r) == {i \in DOMAIN op[r].keys : Updatable(r, op[r].keys[i])}
UpdatableKeys(r) == Selected(op[r].keys, UpdatableAt(r))
UnsupportedKeys(r) == Selected(op[r].keys, DOMAIN op[r].keys \ UpdatableAt(r))

\* A key that Tracker does not have for this file leaves a NULL in keys_array,
\* which ends it.
KeysArray(r) ==
  LET all == UpdatableKeys(r)
      before(i) == \A j \in 1 .. i : TrackerHas(op[r].target, all[j])
  IN  SubSeq(all, 1, Cardinality({i \in DOMAIN all : before(i)}))

-----------------------------------------------------------------------------
(* Callbacks.                                                              *)

Blank ==
  [kind |-> "none", phase |-> "unused", target |-> 0, uris |-> << >>,
   index |-> 0, remaining |-> 0, error |-> FALSE, gone |-> {},
   keys |-> << >>, long |-> FALSE]

Freed(r) == op' = [op EXCEPT ![r].phase = "freed"]

Answer(r, failed, error) ==
  answers' = [answers EXCEPT ![r] = Append(@, [failed |-> failed, error |-> error])]

\* Names of keys in an answer: the caller's, or Tracker's after a failure.
Named(by, keys) == [i \in DOMAIN keys |-> [by |-> by, key |-> keys[i]]]

\* A call is made from the main loop, when no idle source blocks it.
Called(c) ==
  /\ busy = 0
  /\ calls < Requests
  /\ calls' = calls + 1
  /\ op' = [op EXCEPT ![calls + 1] = c]
  /\ UNCHANGED <<busy, disk, tracked, stored, touches, told>>

-----------------------------------------------------------------------------
(* destroy_object().                                                       *)

\* A clip is deleted by the idle source.
DestroyClip(f) ==
  /\ Called([Blank EXCEPT !.kind = "destroy", !.phase = "deleting",
                          !.target = f, !.uris = <<f>>, !.remaining = 1])
  /\ UNCHANGED answers

\* An artist or an album: Tracker is asked for its songs.
DestroyAlbum ==
  /\ Called([Blank EXCEPT !.kind = "destroy", !.phase = "querying",
                          !.remaining = 1])
  /\ UNCHANGED answers

\* Another container, or a malformed object id.
DestroyRefused ==
  /\ Called([Blank EXCEPT !.kind = "destroy", !.phase = "refused",
                          !.remaining = 1, !.error = TRUE])
  /\ UNCHANGED answers

\* _destroy_object_tracker_cb: the songs to delete, in some order.
DestroyAnswer(r, songs) ==
  /\ busy = 0
  /\ op[r].phase = "querying"
  /\ Range(songs) = tracked \cap Songs
  /\ IsInjective(songs)
  /\ op' = [op EXCEPT ![r].phase = "deleting", ![r].uris = songs,
                      ![r].index = 0, ![r].remaining = Len(songs)]
  /\ UNCHANGED <<calls, busy, disk, tracked, stored, touches, answers, told>>

\* Mutant: nothing is called back.
DestroyQueryFailsSilently(r) ==
  /\ busy = 0
  /\ op[r].phase = "querying"
  /\ Freed(r)
  /\ UNCHANGED <<calls, busy, disk, tracked, stored, touches, answers, told>>

\* Tracker answers with an error.
DestroyQueryFails(r) ==
  /\ busy = 0
  /\ op[r].phase = "querying"
  /\ Freed(r)
  /\ Answer(r, << >>, TRUE)
  /\ UNCHANGED <<calls, busy, disk, tracked, stored, touches, told>>
\* Mutant: each failure is noted only until the next file.
DeleteFileForgets(r, deleted) ==
  LET uri == op[r].uris[op[r].index + 1]
  IN  /\ busy = 0
      /\ op[r].phase = "deleting"
      /\ op[r].remaining > 0
      /\ deleted => uri \in disk
      /\ disk' = IF deleted THEN disk \ {uri} ELSE disk
      /\ op' = [op EXCEPT ![r].error = ~deleted,
                          ![r].gone = IF deleted THEN @ \cup {uri} ELSE @,
                          ![r].index = @ + 1,
                          ![r].remaining = @ - 1]
      /\ UNCHANGED <<calls, busy, tracked, stored, touches, answers, told>>

\* _destroy_object_idle with files left: one is deleted, if that is possible.
DeleteFile(r, deleted) ==
  LET uri == op[r].uris[op[r].index + 1]
  IN  /\ busy = 0
      /\ op[r].phase = "deleting"
      /\ op[r].remaining > 0
      /\ deleted => uri \in disk
      /\ disk' = IF deleted THEN disk \ {uri} ELSE disk
      /\ op' = [op EXCEPT ![r].error = @ \/ ~deleted,
                          ![r].gone = IF deleted THEN @ \cup {uri} ELSE @,
                          ![r].index = @ + 1,
                          ![r].remaining = @ - 1]
      /\ UNCHANGED <<calls, busy, tracked, stored, touches, answers, told>>

\* Mutant: the idle source stays installed.
DestroyEndsStays(r) ==
  /\ busy = 0
  /\ \/ op[r].phase = "deleting" /\ op[r].remaining = 0
     \/ op[r].phase = "refused"
  /\ Answer(r, << >>, op[r].error)
  /\ UNCHANGED <<op, calls, busy, disk, tracked, stored, touches, told>>

\* _destroy_object_idle with no file left, or _destroy_object_error_idle.
DestroyEnds(r) ==
  /\ busy = 0
  /\ \/ op[r].phase = "deleting" /\ op[r].remaining = 0
     \/ op[r].phase = "refused"
  /\ Freed(r)
  /\ Answer(r, << >>, op[r].error)
  /\ UNCHANGED <<calls, busy, disk, tracked, stored, touches, told>>

-----------------------------------------------------------------------------
(* set_metadata().                                                         *)

\* For a clip that is no playlist an idle source is installed.
SetMetadata(f, keys, long) ==
  /\ Called([Blank EXCEPT !.kind = "set", !.phase = "updating", !.target = f,
                          !.keys = keys, !.long = long])
  /\ UNCHANGED answers

\* Any other object id is answered at once; so is a call without metadata.
SetRefused(keys) ==
  /\ Called([Blank EXCEPT !.kind = "set", !.phase = "freed", !.keys = keys])
  /\ Answer(calls + 1, Named("mafw", keys), TRUE)

\* Mutant: idle sources are dispatched in any order.
TurnAny(r) ==
  /\ busy = 0
  /\ op[r].phase = "updating"

\* Idle sources of one priority are dispatched in the order of installation.
Turn(r) ==
  /\ busy = 0
  /\ op[r].phase = "updating"
  /\ \A q \in 1 .. r - 1 : op[q].phase # "updating"

\* Mutant: the supported keys are reported only if there are no others.
UpdateFailsShort(r) ==
  LET unsupported == Named("mafw", UnsupportedKeys(r))
  IN  Answer(r, IF unsupported = << >> THEN Named("tracker", KeysArray(r))
                                       ELSE unsupported, TRUE)

\* No key was updated: each of keys_array is reported by Tracker's name.
UpdateFails(r) ==
  Answer(r, Named("mafw", UnsupportedKeys(r)) \o Named("tracker", KeysArray(r)),
         TRUE)

\* Nothing to update: Tracker is not asked.
SetNothing(r) ==
  /\ Turn(r)
  /\ KeysArray(r) = << >>
  /\ Freed(r)
  /\ Answer(r, Named("mafw", UnsupportedKeys(r)), UnsupportedKeys(r) # << >>)
  /\ UNCHANGED <<calls, busy, disk, tracked, stored, touches, told>>

\* The first blocking request: Tracker knows the object.
ObjectExists(r) ==
  /\ Turn(r)
  /\ KeysArray(r) # << >>
  /\ op[r].target \in tracked
  /\ op' = [op EXCEPT ![r].phase = "checked"]
  /\ busy' = r
  /\ UNCHANGED <<calls, disk, tracked, stored, touches, answers, told>>

\* Tracker does not know it, or answers with an error.
ObjectUnknown(r) ==
  /\ Turn(r)
  /\ KeysArray(r) # << >>
  /\ Freed(r)
  /\ UpdateFails(r)
  /\ UNCHANGED <<calls, busy, disk, tracked, stored, touches, told>>

\* The second one changes all the keys, if Tracker still knows the object.
UpdateKeys(r) ==
  /\ op[r].phase = "checked"
  /\ stored' =
       IF op[r].target \in tracked
       THEN [stored EXCEPT ![op[r].target] =
               [k \in Keys |-> IF k \in Range(KeysArray(r)) THEN r ELSE @[k]]]
       ELSE stored
  /\ busy' = 0
  /\ Freed(r)
  /\ Answer(r, Named("mafw", UnsupportedKeys(r)), UnsupportedKeys(r) # << >>)
  /\ told' = told \cup {r}
  /\ UNCHANGED <<calls, disk, tracked, touches>>

\* Mutant: the signal does not wait for the outcome.
UpdateErrorTells(r) ==
  /\ op[r].phase = "checked"
  /\ busy' = 0
  /\ Freed(r)
  /\ UpdateFails(r)
  /\ told' = told \cup {r}
  /\ UNCHANGED <<calls, disk, tracked, stored, touches>>

\* Tracker refuses the update, and none of it is done.
UpdateError(r) ==
  /\ op[r].phase = "checked"
  /\ busy' = 0
  /\ Freed(r)
  /\ UpdateFails(r)
  /\ UNCHANGED <<calls, disk, tracked, stored, touches, told>>

-----------------------------------------------------------------------------
(* Other programs.                                                         *)

\* A file is made or removed.
Touch(f) ==
  /\ touches < Touches
  /\ touches' = touches + 1
  /\ disk' = IF f \in disk THEN disk \ {f} ELSE disk \cup {f}
  /\ UNCHANGED <<op, calls, busy, tracked, stored, answers, told>>

\* The miner tells Tracker about it; values set before are lost with the file.
Mine(f) ==
  /\ (f \in disk) # (f \in tracked)
  /\ tracked' = IF f \in disk THEN tracked \cup {f} ELSE tracked \ {f}
  /\ stored' = [stored EXCEPT ![f] = [k \in Keys |-> 0]]
  /\ UNCHANGED <<op, calls, busy, disk, touches, answers, told>>

-----------------------------------------------------------------------------
KeyLists ==
  UNION {{s \in [1 .. n -> Keys] : IsInjective(s)} : n \in 0 .. MaxKeys}

Init ==
  /\ op = [r \in Request |-> Blank]
  /\ calls = 0
  /\ busy = 0
  /\ disk \in Disks
  /\ tracked = disk
  /\ stored = [f \in File |-> [k \in Keys |-> 0]]
  /\ touches = 0
  /\ answers = [r \in Request |-> << >>]
  /\ told = {}

Call ==
  \/ \E f \in File : DestroyClip(f)
  \/ DestroyAlbum
  \/ DestroyRefused
  \/ \E f \in File, keys \in KeyLists :
       \/ SetMetadata(f, keys, TRUE)
       \/ (\E k \in Range(keys) : Dated(f, k)) /\ SetMetadata(f, keys, FALSE)
  \/ \E keys \in KeyLists : SetRefused(keys)

Handler(r) ==
  \/ \E songs \in [1 .. Cardinality(tracked \cap Songs) -> tracked \cap Songs] :
       DestroyAnswer(r, songs)
  \/ DestroyQueryFails(r)
  \/ \E deleted \in BOOLEAN : DeleteFile(r, deleted)
  \/ DestroyEnds(r)
  \/ SetNothing(r)
  \/ ObjectExists(r)
  \/ ObjectUnknown(r)
  \/ UpdateKeys(r)
  \/ UpdateError(r)

Next ==
  \/ Call
  \/ \E r \in Request : Handler(r)
  \/ \E f \in File : Touch(f) \/ Mine(f)

Spec == Init /\ [][Next]_vars

\* Tracker answers every request and the main loop dispatches every source.
FairSpec == Spec /\ \A r \in Request : WF_vars(Handler(r))

-----------------------------------------------------------------------------
(* Properties.                                                             *)

Op ==
  [kind : {"none", "destroy", "set"}, phase : Phases, target : File \cup {0},
   uris : Seq(File), index : Nat, remaining : Nat, error : BOOLEAN,
   gone : SUBSET File, keys : Seq(Keys), long : BOOLEAN]

Name == [by : {"mafw", "tracker"}, key : Keys]

\* The type invariant; a call has one callback, when its closure is freed.
TypeOK ==
  /\ op \in [Request -> Op]
  /\ calls \in 0 .. Requests
  /\ busy \in 0 .. Requests
  /\ disk \subseteq File
  /\ tracked \subseteq File
  /\ stored \in [File -> [Keys -> 0 .. Requests]]
  /\ touches \in 0 .. Touches
  /\ answers \in [Request -> Seq([failed : Seq(Name), error : BOOLEAN])]
  /\ told \subseteq Request
  /\ \A r \in Request :
       Len(answers[r]) = IF op[r].phase = "freed" THEN 1 ELSE 0

Tried(r) == {op[r].uris[i] : i \in 1 .. op[r].index}

\* Whatever happens to the files meanwhile, a destroy that works through its
\* list has tried each file up to here once and has an error noted if one of
\* them was not deleted; in the end it has tried them all, and its callback
\* has an error if and only if one of the files was not deleted by it.
DestroyHonest ==
  \A r \in Request :
    /\ op[r].phase = "deleting" =>
         /\ op[r].index + op[r].remaining = Len(op[r].uris)
         /\ op[r].gone \subseteq Tried(r)
         /\ op[r].error <=> Tried(r) # op[r].gone
    /\ op[r].phase = "freed" /\ op[r].uris # << >> =>
         (answers[r][1].error <=> Range(op[r].uris) # op[r].gone)

Reported(r) == {answers[r][1].failed[i].key : i \in DOMAIN answers[r][1].failed}

\* When a set_metadata() is answered, Tracker has the new value of every key
\* that was updatable and is not reported, unless the file has gone from it
\* since the check, and of no key that is reported.
SetHonest ==
  [][\A r \in Request :
       op[r].phase \in {"updating", "checked"} /\ op'[r].phase = "freed" =>
         LET f == op[r].target
         IN  /\ \A k \in Range(KeysArray(r)) \ Reported(r)' :
                  f \in tracked' => stored'[f][k] = r
             /\ \A k \in Reported(r)' : stored'[f][k] # r
             /\ answers'[r][1].error <=> Reported(r)' # {}]_vars

\* metadata-changed is emitted for a call exactly if one of the keys that were
\* sent to Tracker is not reported as failed.
SignalMeansChange ==
  \A r \in Request :
    r \in told <=>
      /\ op[r].kind = "set" /\ op[r].phase = "freed" /\ op[r].target # 0
      /\ Range(KeysArray(r)) \ Reported(r) # {}

\* Of two calls that set the same key of the same file, and do not report it,
\* the later one wins.
LastSetWins ==
  \A r \in Request : \A q \in 1 .. r - 1 :
    q \in told /\ r \in told /\ op[q].target = op[r].target =>
      \A k \in Range(KeysArray(q)) \cap Range(KeysArray(r)) :
        stored[op[r].target][k] # q

\* Every call is answered, and once.
EveryCallAnswered ==
  \A r \in Request : calls >= r ~> [](Len(answers[r]) = 1)

\* A key that was not set is reported.
UnsetKeysReported ==
  [][\A r \in Request :
       op[r].phase \in {"updating", "checked"} /\ op'[r].phase = "freed" =>
         \A k \in Range(op[r].keys) :
           k \in Reported(r)' \/ stored'[op[r].target][k] = r]_vars
=============================================================================
