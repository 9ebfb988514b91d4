-------------------------- MODULE MetadatasContract --------------------------
(***************************************************************************)
(* What the source promises to whoever calls get_metadatas(), of which     *)
(* get_metadata() and the browse of a playlist are callers: one callback,  *)
(* which has the metadata of all the objects asked for, each its own, or   *)
(* an error.  It comes when nothing is pending any more; an error may come *)
(* earlier, but only if Tracker refused to answer for some of the objects. *)
(* The answer for an object can get lost, and the callback with it, but    *)
(* not that of an object asked for alone, unless a duration has to be      *)
(* computed.  Metadatas.tla is shown to implement this module.             *)
(***************************************************************************)
EXTENDS Sequences

CONSTANTS Objects,    \* the objects
          NoMetadata  \* in place of the metadata of an object

VARIABLES called,   \* the call has been made
          timed,    \* the duration is among the keys
          asked,    \* objects whose metadata are asked for
          pending,  \* objects for which there is no answer yet
          refused,  \* objects for which Tracker answered with an error
          lost,     \* objects for which there will be no answer
          answers   \* the callbacks made

vars == <<called, timed, asked, pending, refused, lost, answers>>

Init ==
  /\ called = FALSE
  /\ timed = FALSE
  /\ asked = {}
  /\ pending = {}
  /\ refused = {}
  /\ lost = {}
  /\ answers = << >>

\* Object ids that are malformed are not pending at any time.
Request ==
  /\ ~called
  /\ called' = TRUE
  /\ timed' \in BOOLEAN
  /\ asked' \in SUBSET Objects
  /\ pending' \in SUBSET asked'
  /\ UNCHANGED <<refused, lost, answers>>

Open == called /\ answers = << >>

\* An answer is about some of the objects; it says nothing of others that it
\* should be about.
Learn ==
  /\ Open
  /\ \E told, mislaid \in SUBSET (pending \ lost) :
       /\ told \cap mislaid = {}
       /\ mislaid # {} => timed \/ \A i \in Objects : asked # {i}
       /\ pending' = pending \ told
       /\ lost' = lost \cup mislaid
  /\ UNCHANGED <<called, timed, asked, refused, answers>>

Refuse ==
  /\ Open
  /\ \E objects \in SUBSET (pending \ lost) :
       /\ objects # {}
       /\ refused' = refused \cup objects
  /\ UNCHANGED <<called, timed, asked, pending, lost, answers>>

\* The metadata of the objects asked for, each its own.
Own == [i \in Objects |-> IF i \in asked THEN i ELSE NoMetadata]

Succeed ==
  /\ Open
  /\ pending = {}
  /\ answers' = << [error |-> FALSE, metadatas |-> Own] >>
  /\ UNCHANGED <<called, timed, asked, pending, refused, lost>>

Fail ==
  /\ Open
  /\ pending = {} \/ refused # {}
  /\ \E some \in [Objects -> Objects \cup {NoMetadata}] :
       answers' = << [error |-> TRUE, metadatas |-> some] >>
  /\ UNCHANGED <<called, timed, asked, pending, refused, lost>>

Next == Request \/ Learn \/ Refuse \/ Succeed \/ Fail

Spec == Init /\ [][Next]_vars
=============================================================================
