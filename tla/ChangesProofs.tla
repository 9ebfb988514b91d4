--------------------------- MODULE ChangesProofs ----------------------------
(***************************************************************************)
(* What destroy_object() and set_metadata() report, for every number of    *)
(* files, keys and calls, whatever other programs and the miner do.        *)
(*                                                                         *)
(* DestroyHonest is not inductive.  A file that is tried a second time     *)
(* might be deleted after a first failure, so the list must be free of     *)
(* repetitions; a closure that is answered must not have been answered     *)
(* before; one that waits for its list must not have noted anything, and   *)
(* one that is refused or fails early must have no list (IInv).            *)
(*                                                                         *)
(* Nor is LastSetWins: the later of two calls must be the later to change  *)
(* Tracker, so no call that was made before may be waiting when one is in  *)
(* its second request or has been answered (InTurn), a file that Tracker   *)
(* has lost must have no value left, and values must be those of calls     *)
(* that were told (StoredOK); SInv puts this together.                     *)
(***************************************************************************)
EXTENDS Changes, ListsProofs, SequenceTheorems

TriedOf(o) == {o.uris[i] : i \in 1 .. o.index}

\* A closure that works through its list has noted just what happened.
HonestSoFar(o) ==
  /\ o.index + o.remaining = Len(o.uris)
  /\ IsInjective(o.uris)
  /\ o.gone \subseteq TriedOf(o)
  /\ o.error <=> TriedOf(o) # o.gone

\* The closure of a call and its callbacks agree.
CallOK(o, a) ==
  /\ o.phase # "freed" => a = << >>
  /\ o.phase \notin {"deleting", "freed"} => o.uris = << >>
  /\ o.phase = "querying" => o.gone = {} /\ ~o.error
  /\ o.phase = "deleting" => HonestSoFar(o)
  /\ o.phase = "freed" /\ o.uris # << >> =>
       (a[1].error <=> Range(o.uris) # o.gone)

IInv ==
  /\ op \in [Request -> Op]
  /\ calls \in 0 .. Requests
  /\ answers = [r \in Request |-> answers[r]]
  /\ \A r \in Request : CallOK(op[r], answers[r])
  /\ \A r \in Request : r > calls => op[r].phase = "unused"

-----------------------------------------------------------------------------
(* Lemmas about closures.                                                  *)

\* A blank closure is a closure.
LEMMA BlankOK ==
  /\ Blank \in Op
  /\ Blank.phase = "unused"
  /\ Blank.uris = << >>
  /\ Blank.gone = {}
  /\ Blank.error = FALSE
<1>1. /\ "none" \in {"none", "destroy", "set"}
      /\ "unused" \in Phases
      /\ 0 \in File \cup {0}
      /\ << >> \in Seq(File)
      /\ << >> \in Seq(Keys)
      /\ 0 \in Nat
      /\ FALSE \in BOOLEAN
      /\ {} \in SUBSET File
  BY DEF Phases
<1>2. QED
  BY <1>1 DEF Blank, Op

\* Trying the next file keeps the closure honest, if it has not been tried.
LEMMA TryingOK ==
  ASSUME NEW o \in Op, HonestSoFar(o), o.remaining > 0, NEW deleted \in BOOLEAN,
         NEW q \in Op,
         q.uris = o.uris,
         q.index = o.index + 1,
         q.remaining = o.remaining - 1,
         q.error = (o.error \/ ~deleted),
         q.gone = IF deleted THEN o.gone \cup {o.uris[o.index + 1]} ELSE o.gone
  PROVE  HonestSoFar(q)
<1> DEFINE uri == o.uris[o.index + 1]
<1>1. /\ o.uris \in Seq(File)
      /\ o.index \in Nat
      /\ o.remaining \in Nat
      /\ o.error \in BOOLEAN
  BY DEF Op
<1>2. o.index + 1 \in 1 .. Len(o.uris)
  BY <1>1 DEF HonestSoFar
<1>3. TriedOf(q) = TriedOf(o) \cup {uri}
  <2>1. 1 .. q.index = (1 .. o.index) \cup {o.index + 1}
    BY <1>1
  <2>2. QED
    BY <2>1 DEF TriedOf
<1>4. uri \notin TriedOf(o)
  <2>1. \A i \in 1 .. o.index : i \in 1 .. Len(o.uris) /\ i # o.index + 1
    BY <1>1, <1>2
  <2>2. DOMAIN o.uris = 1 .. Len(o.uris)
    BY <1>1
  <2>3. QED
    BY <1>2, <2>1, <2>2 DEF TriedOf, HonestSoFar, IsInjective
<1>5. q.index + q.remaining = Len(q.uris)
  BY <1>1 DEF HonestSoFar
<1>6. IsInjective(q.uris)
  BY DEF HonestSoFar
<1>7. q.gone \subseteq TriedOf(q) /\ (q.error <=> TriedOf(q) # q.gone)
  <2> HIDE DEF uri
  <2>1. CASE deleted
    <3>1. q.gone = o.gone \cup {uri} /\ (q.error <=> o.error)
      BY <2>1, <1>1 DEF uri
    <3>2. QED
      BY <3>1, <1>3, <1>4 DEF HonestSoFar
  <2>2. CASE ~deleted
    <3>1. q.gone = o.gone /\ q.error
      BY <2>2 DEF uri
    <3>2. QED
      BY <3>1, <1>3, <1>4 DEF HonestSoFar
  <2>3. QED
    BY <2>1, <2>2
<1>8. QED
  BY <1>5, <1>6, <1>7 DEF HonestSoFar

\* With no file left, all have been tried.
LEMMA AllTried ==
  ASSUME NEW o \in Op, HonestSoFar(o), o.remaining = 0
  PROVE  TriedOf(o) = Range(o.uris)
<1>1. /\ o.uris \in Seq(File)
      /\ o.index \in Nat
  BY DEF Op
<1>2. o.index = Len(o.uris)
  BY <1>1 DEF HonestSoFar
<1>3. DOMAIN o.uris = 1 .. o.index
  BY <1>1, <1>2
<1>4. QED
  BY <1>3 DEF TriedOf, Range

-----------------------------------------------------------------------------
(* The kinds of step.                                                      *)

\* A call takes a closure of its own and leaves the others alone.
LEMMA CallKeepsIInv ==
  ASSUME IInv, NEW c \in Op, Called(c), c.phase # "unused",
         \/ answers' = answers /\ CallOK(c, << >>)
         \/ \E a : answers' = [answers EXCEPT ![calls + 1] = a] /\ CallOK(c, a)
  PROVE  IInv'
<1> USE RequestsAssumption
<1>1. /\ calls + 1 \in Request
      /\ calls' = calls + 1
      /\ calls' \in 0 .. Requests
      /\ op' = [op EXCEPT ![calls + 1] = c]
  BY DEF Called, IInv, Request
<1>2. op' \in [Request -> Op]
  BY <1>1 DEF IInv
<1>3. /\ op'[calls + 1] = c
      /\ \A r \in Request : r # calls + 1 => op'[r] = op[r]
  BY <1>1 DEF IInv
<1>4. answers[calls + 1] = << >>
  BY <1>1 DEF IInv, CallOK, Request
<1>5. answers' = [r \in Request |-> answers'[r]]
  BY DEF IInv
<1>6. \A r \in Request : r # calls + 1 => answers'[r] = answers[r]
  BY DEF IInv
<1>7. CallOK(c, answers'[calls + 1])
  BY <1>1, <1>4 DEF IInv
<1>8. ASSUME NEW r \in Request
      PROVE  CallOK(op'[r], answers'[r])
  BY <1>3, <1>6, <1>7 DEF IInv
<1>9. ASSUME NEW r \in Request, r > calls'
      PROVE  op'[r].phase = "unused"
  BY <1>1, <1>3, <1>9 DEF IInv, Request
<1>10. QED
  BY <1>1, <1>2, <1>5, <1>8, <1>9 DEF IInv

\* A handler replaces the closure of a call that has been made.
LEMMA HandlerKeepsIInv ==
  ASSUME IInv, NEW r \in Request, NEW q \in Op,
         op[r].phase # "unused",
         op' = [op EXCEPT ![r] = q],
         calls' = calls,
         \/ answers' = answers /\ CallOK(q, answers[r])
         \/ \E a : answers' = [answers EXCEPT ![r] = a] /\ CallOK(q, a)
  PROVE  IInv'
<1>1. op' \in [Request -> Op] /\ calls' \in 0 .. Requests
  BY DEF IInv
<1>2. /\ op'[r] = q
      /\ \A s \in Request : s # r => op'[s] = op[s]
  BY DEF IInv
<1>3. answers' = [s \in Request |-> answers'[s]]
  BY DEF IInv
<1>4. \A s \in Request : s # r => answers'[s] = answers[s]
  BY DEF IInv
<1>5. CallOK(q, answers'[r])
  BY DEF IInv
<1>6. \A s \in Request : CallOK(op'[s], answers'[s])
  BY <1>2, <1>4, <1>5 DEF IInv
<1>7. ASSUME NEW s \in Request, s > calls'
      PROVE  op'[s].phase = "unused"
  BY <1>2, <1>7 DEF IInv
<1>8. QED
  BY <1>1, <1>3, <1>6, <1>7 DEF IInv

\* A closure is freed and its call answered: with no list there is nothing to
\* report, and with one the error must be as it should.
LEMMA FreeingKeepsIInv ==
  ASSUME IInv, NEW r \in Request, NEW failed, NEW error,
         op[r].phase \notin {"unused", "freed"},
         op[r].uris # << >> => (error <=> Range(op[r].uris) # op[r].gone),
         Freed(r), Answer(r, failed, error), calls' = calls
  PROVE  IInv'
<1>1. op[r] \in Op /\ answers[r] = << >>
  BY DEF IInv, CallOK
<1> DEFINE q == [op[r] EXCEPT !.phase = "freed"]
           a == Append(answers[r], [failed |-> failed, error |-> error])
<1>2. "freed" \in Phases
  BY DEF Phases
<1>3. q \in Op /\ q.phase = "freed" /\ q.uris = op[r].uris /\ q.gone = op[r].gone
  BY <1>1, <1>2 DEF Op
<1>4. op' = [op EXCEPT ![r] = q]
  BY DEF Freed
<1>5. answers' = [answers EXCEPT ![r] = a]
  BY DEF Answer
<1>6. a[1].error = error
  BY <1>1
<1>7. CallOK(q, a)
  BY <1>3, <1>6 DEF CallOK
<1> HIDE DEF q, a
<1>8. QED
  BY <1>1, <1>3, <1>4, <1>5, <1>7, HandlerKeepsIInv

-----------------------------------------------------------------------------
(* The actions.                                                            *)

LEMMA DestroyClipKeepsIInv ==
  ASSUME IInv, NEW f \in File, DestroyClip(f)
  PROVE  IInv'
<1> DEFINE c == [Blank EXCEPT !.kind = "destroy", !.phase = "deleting",
                              !.target = f, !.uris = <<f>>, !.remaining = 1]
<1>1. /\ "destroy" \in {"none", "destroy", "set"} /\ "deleting" \in Phases
      /\ <<f>> \in Seq(File)
      /\ {} \in SUBSET File
      /\ << >> \in Seq(Keys)
  BY DEF Phases
<1>2. c \in Op
  BY <1>1 DEF Blank, Op
<1>3. /\ c.phase = "deleting"
      /\ c.uris = <<f>>
      /\ c.index = 0
      /\ c.remaining = 1
      /\ c.error = FALSE
      /\ c.gone = {}
  BY DEF Blank
<1>4. Called(c) /\ answers' = answers
  BY DEF DestroyClip
<1> HIDE DEF c
<1>5. TriedOf(c) = {}
  BY <1>3 DEF TriedOf
<1>6. HonestSoFar(c)
  BY <1>3, <1>5 DEF HonestSoFar, IsInjective
<1>7. CallOK(c, << >>)
  BY <1>3, <1>6 DEF CallOK
<1>8. QED
  BY <1>2, <1>3, <1>4, <1>7, CallKeepsIInv

LEMMA DestroyAlbumKeepsIInv ==
  ASSUME IInv, DestroyAlbum
  PROVE  IInv'
<1> DEFINE c == [Blank EXCEPT !.kind = "destroy", !.phase = "querying",
                              !.remaining = 1]
<1>1. "destroy" \in {"none", "destroy", "set"} /\ "querying" \in Phases
  BY DEF Phases
<1>2. /\ c \in Op
      /\ c.phase = "querying"
      /\ c.uris = << >>
      /\ c.gone = {}
      /\ c.error = FALSE
  BY <1>1, BlankOK DEF Op
<1>3. Called(c) /\ answers' = answers
  BY DEF DestroyAlbum
<1> HIDE DEF c
<1>4. CallOK(c, << >>)
  BY <1>2 DEF CallOK
<1>5. QED
  BY <1>2, <1>3, <1>4, CallKeepsIInv

LEMMA DestroyRefusedKeepsIInv ==
  ASSUME IInv, DestroyRefused
  PROVE  IInv'
<1> DEFINE c == [Blank EXCEPT !.kind = "destroy", !.phase = "refused",
                              !.remaining = 1, !.error = TRUE]
<1>1. "destroy" \in {"none", "destroy", "set"} /\ "refused" \in Phases
  BY DEF Phases
<1>2. c \in Op /\ c.phase = "refused" /\ c.uris = << >>
  BY <1>1, BlankOK DEF Op
<1>3. Called(c) /\ answers' = answers
  BY DEF DestroyRefused
<1> HIDE DEF c
<1>4. CallOK(c, << >>)
  BY <1>2 DEF CallOK
<1>5. QED
  BY <1>2, <1>3, <1>4, CallKeepsIInv

\* Lists of keys are sequences of keys.
LEMMA KeyListsType == \A keys \in KeyLists : keys \in Seq(Keys)
<1>1. ASSUME NEW n \in 0 .. MaxKeys, NEW s \in [1 .. n -> Keys]
      PROVE  s \in Seq(Keys)
  BY MaxKeysAssumption, SeqDef
<1>2. QED
  BY <1>1 DEF KeyLists

LEMMA SetMetadataKeepsIInv ==
  ASSUME IInv, NEW f \in File, NEW keys \in KeyLists, NEW long \in BOOLEAN,
         SetMetadata(f, keys, long)
  PROVE  IInv'
<1> DEFINE c == [Blank EXCEPT !.kind = "set", !.phase = "updating",
                              !.target = f, !.keys = keys, !.long = long]
<1>1. "set" \in {"none", "destroy", "set"} /\ "updating" \in Phases
  BY DEF Phases
<1>2. c \in Op /\ c.phase = "updating" /\ c.uris = << >>
  BY <1>1, BlankOK, KeyListsType DEF Op
<1>3. Called(c) /\ answers' = answers
  BY DEF SetMetadata
<1> HIDE DEF c
<1>4. CallOK(c, << >>)
  BY <1>2 DEF CallOK
<1>5. QED
  BY <1>2, <1>3, <1>4, CallKeepsIInv

LEMMA SetRefusedKeepsIInv ==
  ASSUME IInv, NEW keys \in KeyLists, SetRefused(keys)
  PROVE  IInv'
<1> DEFINE c == [Blank EXCEPT !.kind = "set", !.phase = "freed", !.keys = keys]
<1>1. "set" \in {"none", "destroy", "set"} /\ "freed" \in Phases
  BY DEF Phases
<1>2. c \in Op /\ c.phase = "freed" /\ c.uris = << >>
  BY <1>1, BlankOK, KeyListsType DEF Op
<1>3. Called(c) /\ \E a : answers' = [answers EXCEPT ![calls + 1] = a]
  BY DEF SetRefused, Answer
<1> HIDE DEF c
<1>4. \A a : CallOK(c, a)
  BY <1>2 DEF CallOK
<1>5. QED
  BY <1>2, <1>3, <1>4, CallKeepsIInv

LEMMA DestroyAnswerKeepsIInv ==
  ASSUME IInv, NEW r \in Request,
         NEW songs \in [1 .. Cardinality(tracked \cap Songs) -> tracked \cap Songs],
         DestroyAnswer(r, songs)
  PROVE  IInv'
<1> DEFINE q == [op[r] EXCEPT !.phase = "deleting", !.uris = songs,
                              !.index = 0, !.remaining = Len(songs)]
<1>1. /\ op[r] \in Op
      /\ op[r].phase = "querying"
      /\ op[r].gone = {} /\ ~op[r].error
      /\ answers[r] = << >>
  BY DEF IInv, CallOK, DestroyAnswer
<1>2. Cardinality(tracked \cap Songs) \in Nat
  BY FilesAssumption, FS_Subset, FS_CardinalityType
<1>3. songs \in Seq(File) /\ IsInjective(songs) /\ Len(songs) \in Nat
  <2>1. songs \in [1 .. Cardinality(tracked \cap Songs) -> File]
    BY DEF File
  <2>2. songs \in Seq(File)
    BY <1>2, <2>1, SeqDef
  <2>3. QED
    BY <2>2 DEF DestroyAnswer
<1>4. "deleting" \in Phases
  BY DEF Phases
<1>5. q \in Op
  BY <1>1, <1>3, <1>4 DEF Op
<1>6. /\ q.phase = "deleting"
      /\ q.uris = songs
      /\ q.index = 0
      /\ q.remaining = Len(songs)
      /\ q.gone = {}
      /\ ~q.error
  BY <1>1 DEF Op
<1>7. op' = [op EXCEPT ![r] = q] /\ calls' = calls /\ answers' = answers
  BY DEF DestroyAnswer
<1> HIDE DEF q
<1>8. TriedOf(q) = {}
  BY <1>6 DEF TriedOf
<1>9. HonestSoFar(q)
  BY <1>3, <1>6, <1>8 DEF HonestSoFar
<1>10. CallOK(q, answers[r])
  BY <1>1, <1>6, <1>9 DEF CallOK
<1>11. QED
  BY <1>1, <1>5, <1>7, <1>10, HandlerKeepsIInv

LEMMA DeleteFileKeepsIInv ==
  ASSUME IInv, NEW r \in Request, NEW deleted \in BOOLEAN, DeleteFile(r, deleted)
  PROVE  IInv'
<1> DEFINE o == op[r]
           q == [o EXCEPT !.error = @ \/ ~deleted,
                          !.gone = IF deleted THEN @ \cup {o.uris[o.index + 1]}
                                              ELSE @,
                          !.index = @ + 1,
                          !.remaining = @ - 1]
<1>1. /\ o \in Op
      /\ o.phase = "deleting"
      /\ o.remaining > 0
      /\ HonestSoFar(o)
      /\ answers[r] = << >>
  BY DEF IInv, CallOK, DeleteFile
<1>2. o.uris[o.index + 1] \in File
  <2>1. o.uris \in Seq(File) /\ o.index \in Nat /\ o.remaining \in Nat
    BY <1>1 DEF Op
  <2>2. o.index + 1 \in 1 .. Len(o.uris)
    BY <1>1, <2>1 DEF HonestSoFar
  <2>3. QED
    BY <2>1, <2>2
<1>3. /\ q.phase = o.phase
      /\ q.uris = o.uris
      /\ q.index = o.index + 1
      /\ q.remaining = o.remaining - 1
      /\ q.error = (o.error \/ ~deleted)
      /\ q.gone = IF deleted THEN o.gone \cup {o.uris[o.index + 1]} ELSE o.gone
  BY <1>1 DEF Op
<1>4. q \in Op
  <2>1. /\ o.index + 1 \in Nat
        /\ o.remaining - 1 \in Nat
        /\ (o.error \/ ~deleted) \in BOOLEAN
        /\ (IF deleted THEN o.gone \cup {o.uris[o.index + 1]} ELSE o.gone)
             \in SUBSET File
    BY <1>1, <1>2 DEF Op
  <2>2. QED
    BY <1>1, <2>1 DEF Op
<1>5. op' = [op EXCEPT ![r] = q] /\ calls' = calls /\ answers' = answers
  BY DEF DeleteFile
<1> HIDE DEF o, q
<1>6. HonestSoFar(q)
  BY <1>1, <1>3, <1>4, TryingOK
<1>7. CallOK(q, answers[r])
  BY <1>1, <1>3, <1>6 DEF CallOK
<1>8. QED
  BY <1>1, <1>4, <1>5, <1>7, HandlerKeepsIInv DEF o

LEMMA DestroyEndsKeepsIInv ==
  ASSUME IInv, NEW r \in Request, DestroyEnds(r)
  PROVE  IInv'
<1>1. op[r] \in Op /\ CallOK(op[r], answers[r])
  BY DEF IInv
<1>2. op[r].uris # << >> => (op[r].error <=> Range(op[r].uris) # op[r].gone)
  <2>1. CASE op[r].phase = "refused"
    BY <1>1, <2>1 DEF CallOK
  <2>2. CASE op[r].phase = "deleting" /\ op[r].remaining = 0
    <3>1. HonestSoFar(op[r])
      BY <1>1, <2>2 DEF CallOK
    <3>2. TriedOf(op[r]) = Range(op[r].uris)
      BY <1>1, <2>2, <3>1, AllTried
    <3>3. QED
      BY <3>1, <3>2 DEF HonestSoFar
  <2>3. QED
    BY <2>1, <2>2 DEF DestroyEnds
<1>3. QED
  BY <1>2, FreeingKeepsIInv DEF DestroyEnds

\* Calls that never had a list are answered.
LEMMA EarlyAnswersKeepIInv ==
  ASSUME IInv, NEW r \in Request,
         \/ DestroyQueryFails(r)
         \/ SetNothing(r)
         \/ ObjectUnknown(r)
         \/ UpdateKeys(r)
         \/ UpdateError(r)
  PROVE  IInv'
<1>1. /\ op[r].phase \in {"querying", "updating", "checked"}
      /\ Freed(r)
      /\ \E failed, error : Answer(r, failed, error)
      /\ calls' = calls
  BY DEF DestroyQueryFails, SetNothing, ObjectUnknown, UpdateKeys, UpdateError,
         Turn, UpdateFails
<1>2. op[r].uris = << >>
  BY <1>1 DEF IInv, CallOK
<1>3. QED
  BY <1>1, <1>2, FreeingKeepsIInv

LEMMA ObjectExistsKeepsIInv ==
  ASSUME IInv, NEW r \in Request, ObjectExists(r)
  PROVE  IInv'
<1> DEFINE q == [op[r] EXCEPT !.phase = "checked"]
<1>1. op[r] \in Op /\ CallOK(op[r], answers[r]) /\ op[r].phase = "updating"
  BY DEF IInv, ObjectExists, Turn
<1>2. "checked" \in Phases
  BY DEF Phases
<1>3. q \in Op /\ q.phase = "checked" /\ q.uris = op[r].uris
  BY <1>1, <1>2 DEF Op
<1>4. op' = [op EXCEPT ![r] = q] /\ calls' = calls /\ answers' = answers
  BY DEF ObjectExists
<1> HIDE DEF q
<1>5. CallOK(q, answers[r])
  BY <1>1, <1>3 DEF CallOK
<1>6. QED
  BY <1>1, <1>3, <1>4, <1>5, HandlerKeepsIInv

-----------------------------------------------------------------------------
(* The theorems.                                                           *)

\* The invariant holds at first.
LEMMA InitIInv == Init => IInv
<1> SUFFICES ASSUME Init PROVE IInv
  OBVIOUS
<1>1. op \in [Request -> Op] /\ \A r \in Request : op[r] = Blank
  BY BlankOK DEF Init
<1>2. calls \in 0 .. Requests
  BY RequestsAssumption DEF Init
<1>3. answers = [r \in Request |-> answers[r]] /\ \A r \in Request : answers[r] = << >>
  BY DEF Init
<1>4. CallOK(Blank, << >>)
  BY BlankOK DEF CallOK
<1>5. QED
  BY <1>1, <1>2, <1>3, <1>4, BlankOK DEF IInv

\* Every step keeps it.
LEMMA NextIInv == IInv /\ [Next]_vars => IInv'
<1> SUFFICES ASSUME IInv, [Next]_vars PROVE IInv'
  OBVIOUS
<1>1. CASE Call
  BY <1>1, DestroyClipKeepsIInv, DestroyAlbumKeepsIInv, DestroyRefusedKeepsIInv,
     SetMetadataKeepsIInv, SetRefusedKeepsIInv DEF Call
<1>2. ASSUME NEW r \in Request, Handler(r)
      PROVE  IInv'
  BY <1>2, DestroyAnswerKeepsIInv, DeleteFileKeepsIInv, DestroyEndsKeepsIInv,
     EarlyAnswersKeepIInv, ObjectExistsKeepsIInv DEF Handler
<1>3. ASSUME NEW f \in File, Touch(f) \/ Mine(f)
      PROVE  IInv'
  BY <1>3 DEF Touch, Mine, IInv
<1>4. CASE UNCHANGED vars
  BY <1>4 DEF vars, IInv
<1>5. QED
  BY <1>1, <1>2, <1>3, <1>4 DEF Next

\* The invariant holds in every reachable state: closures, lists and callbacks
\* of all calls agree.
THEOREM CallsInvariant == Spec => []IInv
BY InitIInv, NextIInv, PTL DEF Spec

\* destroy_object() tries each file once and calls back with an error exactly
\* if one of the files was not deleted by it (DestroyHonest).
THEOREM DestroysAreHonest == Spec => []DestroyHonest
<1>1. IInv => DestroyHonest
  BY DEF IInv, CallOK, HonestSoFar, DestroyHonest, Tried, TriedOf
<1>2. QED
  BY <1>1, CallsInvariant, PTL

-----------------------------------------------------------------------------
(* set_metadata(): the inductive invariant.                                *)

\* What SignalMeansChange says of one call.
Signalled(r) ==
  r \in told <=>
    /\ op[r].kind = "set" /\ op[r].phase = "freed" /\ op[r].target # 0
    /\ Range(KeysArray(r)) \ Reported(r) # {}

\* A call is of the kind that its phase belongs to, and it blocks the main
\* loop exactly while it is between the two requests.
Settled(r) ==
  /\ op[r].phase \in {"querying", "deleting", "refused"} => op[r].kind = "destroy"
  /\ op[r].phase \in {"updating", "checked"} =>
       op[r].kind = "set" /\ op[r].target \in File
  /\ op[r].phase = "checked" => KeysArray(r) # << >>
  /\ op[r].phase = "checked" <=> busy = r
  /\ Signalled(r)

\* When it is the turn of a call, those before it have been answered.
InTurn ==
  \A r \in Request : \A q \in 1 .. r - 1 :
    /\ r \in told => op[q].phase \notin {"updating", "checked"}
    /\ op[r].phase = "checked" => op[q].phase # "updating"

\* Values are those of calls that were answered; an unknown file has none.
StoredOK ==
  \A f \in File, k \in Keys :
    /\ stored[f][k] # 0 => stored[f][k] \in told
    /\ f \notin tracked => stored[f][k] = 0

SInv ==
  /\ IInv
  /\ TypeOK
  /\ \A r \in Request : Settled(r)
  /\ InTurn
  /\ StoredOK
  /\ LastSetWins

-----------------------------------------------------------------------------
(* Lemmas about keys and answers.                                          *)

\* Keys are sent to Tracker or reported, never both.
LEMMA KeysFacts ==
  ASSUME NEW r \in Request, op[r] \in Op
  PROVE  /\ KeysArray(r) \in Seq(Keys) /\ UnsupportedKeys(r) \in Seq(Keys)
         /\ Range(KeysArray(r)) \subseteq Keys
         /\ Range(UnsupportedKeys(r)) \subseteq Keys
         /\ Range(KeysArray(r)) \cap Range(UnsupportedKeys(r)) = {}
         /\ KeysArray(r) # << >> <=> Range(KeysArray(r)) # {}
         /\ UnsupportedKeys(r) # << >> <=> Range(UnsupportedKeys(r)) # {}
<1> DEFINE keys == op[r].keys
           all == UpdatableKeys(r)
           others == UnsupportedKeys(r)
           n == Cardinality({i \in DOMAIN all :
                   \A j \in 1 .. i : TrackerHas(op[r].target, all[j])})
<1>1. keys \in Seq(Keys) /\ UpdatableAt(r) \in SUBSET DOMAIN keys
      /\ (DOMAIN keys \ UpdatableAt(r)) \in SUBSET DOMAIN keys
  BY DEF Op, UpdatableAt
<1>2. /\ all \in Seq(Keys)
      /\ \A m \in DOMAIN all : Updatable(r, all[m])
  <2>1. all = Selected(keys, UpdatableAt(r))
    BY DEF UpdatableKeys
  <2>2. \A i \in UpdatableAt(r) : Updatable(r, keys[i])
    BY DEF UpdatableAt
  <2> HIDE DEF all, keys
  <2>3. /\ all \in Seq(Keys)
        /\ \A m \in DOMAIN all : \E i \in UpdatableAt(r) : all[m] = keys[i]
    BY <1>1, <2>1, SelectedFacts
  <2>4. QED
    BY <2>2, <2>3
<1>3. /\ others \in Seq(Keys)
      /\ \A m \in DOMAIN others : ~ Updatable(r, others[m])
  <2> DEFINE I == DOMAIN keys \ UpdatableAt(r)
  <2>1. others = Selected(keys, I)
    BY DEF UnsupportedKeys
  <2>2. \A i \in I : ~ Updatable(r, keys[i])
    BY DEF UpdatableAt
  <2>3. I \in SUBSET DOMAIN keys
    BY <1>1
  <2> HIDE DEF others, keys, I
  <2>4. /\ others \in Seq(Keys)
        /\ \A m \in DOMAIN others : \E i \in I : others[m] = keys[i]
    BY <1>1, <2>1, <2>3, SelectedFacts
  <2>5. QED
    BY <2>2, <2>4
<1>4. KeysArray(r) = SubSeq(all, 1, n)
  BY DEF KeysArray
<1>5. n \in 0 .. Len(all)
  <2> DEFINE I == {i \in DOMAIN all :
                    \A j \in 1 .. i : TrackerHas(op[r].target, all[j])}
  <2>1. I \in SUBSET DOMAIN all /\ n = Cardinality(I)
    OBVIOUS
  <2> HIDE DEF I, n, all
  <2>2. DOMAIN all = 1 .. Len(all) /\ Len(all) \in Nat
    BY <1>2
  <2>3. IsFiniteSet(DOMAIN all) /\ Cardinality(DOMAIN all) = Len(all)
    <3>1. \A l \in Nat : IsFiniteSet(1 .. l) /\ Cardinality(1 .. l) = l
      BY FS_Interval
    <3>2. QED
      BY <2>2, <3>1
  <2>4. IsFiniteSet(I) /\ Cardinality(I) <= Len(all)
    BY <2>1, <2>3, FS_Subset
  <2>5. QED
    BY <2>1, <2>2, <2>4, FS_CardinalityType
<1> HIDE DEF n, all, others
<1>6. /\ KeysArray(r) \in Seq(Keys)
      /\ \A m \in DOMAIN KeysArray(r) : m \in DOMAIN all /\ KeysArray(r)[m] = all[m]
  <2>1. /\ SubSeq(all, 1, n) \in Seq(Keys)
        /\ Len(SubSeq(all, 1, n)) = n
        /\ \A m \in 1 .. n : SubSeq(all, 1, n)[m] = all[m]
    BY <1>2, <1>5
  <2>2. DOMAIN SubSeq(all, 1, n) = 1 .. n /\ DOMAIN all = 1 .. Len(all)
    BY <1>2, <2>1
  <2>3. 1 .. n \subseteq 1 .. Len(all)
    BY <1>2, <1>5
  <2>4. QED
    BY <1>4, <2>1, <2>2, <2>3
<1>7. \A m \in DOMAIN KeysArray(r) : Updatable(r, KeysArray(r)[m])
  BY <1>2, <1>6
<1>8. \A k \in Range(KeysArray(r)) : Updatable(r, k)
  BY <1>7 DEF Range
<1>9. \A k \in Range(others) : ~ Updatable(r, k)
  BY <1>3 DEF Range
<1>10. ASSUME NEW s \in Seq(Keys)
       PROVE  Range(s) \subseteq Keys /\ (s # << >> <=> Range(s) # {})
  <2>1. DOMAIN s = 1 .. Len(s) /\ Len(s) \in Nat /\ \A m \in 1 .. Len(s) : s[m] \in Keys
    OBVIOUS
  <2>2. s # << >> <=> Len(s) # 0
    OBVIOUS
  <2>3. Len(s) # 0 => 1 \in DOMAIN s
    BY <2>1
  <2>4. QED
    BY <2>1, <2>2, <2>3 DEF Range
<1>11. others = UnsupportedKeys(r)
  BY DEF others
<1>12. QED
  BY <1>3, <1>6, <1>8, <1>9, <1>10, <1>11

\* They are the same as long as the call is.
LEMMA KeysKept ==
  ASSUME NEW r \in Request, op'[r].keys = op[r].keys, op'[r].target = op[r].target,
         op'[r].long = op[r].long
  PROVE  /\ KeysArray(r)' = KeysArray(r)
         /\ UnsupportedKeys(r)' = UnsupportedKeys(r)
<1>1. \A k : Updatable(r, k)' <=> Updatable(r, k)
  BY DEF Updatable
<1>2. UpdatableAt(r)' = UpdatableAt(r)
  BY <1>1 DEF UpdatableAt
<1>3. UpdatableKeys(r)' = UpdatableKeys(r)
  BY <1>2 DEF UpdatableKeys
<1>4. QED
  BY <1>2, <1>3 DEF KeysArray, UnsupportedKeys

\* Named keys.
LEMMA NamedFacts ==
  ASSUME NEW keys \in Seq(Keys), NEW by \in {"mafw", "tracker"}
  PROVE  /\ Named(by, keys) \in Seq(Name)
         /\ {Named(by, keys)[i].key : i \in DOMAIN Named(by, keys)} = Range(keys)
         /\ Named(by, keys) = << >> <=> keys = << >>
<1>1. /\ DOMAIN Named(by, keys) = DOMAIN keys /\ DOMAIN keys = 1 .. Len(keys)
      /\ \A i \in DOMAIN keys : Named(by, keys)[i] = [by |-> by, key |-> keys[i]]
      /\ Len(keys) \in Nat
  BY DEF Named
<1>2. \A i \in DOMAIN keys : Named(by, keys)[i] \in Name /\ Named(by, keys)[i].key = keys[i]
  BY <1>1 DEF Name
<1>3. Named(by, keys) \in Seq(Name)
  <2>1. Named(by, keys) \in [1 .. Len(keys) -> Name]
    BY <1>1, <1>2 DEF Named
  <2>2. QED
    BY <1>1, <2>1
<1>4. {Named(by, keys)[i].key : i \in DOMAIN Named(by, keys)} = Range(keys)
  BY <1>1, <1>2 DEF Range
<1>5. QED
  BY <1>1, <1>3, <1>4

\* The keys of two lists put together.
LEMMA TogetherFacts ==
  ASSUME NEW s \in Seq(Name), NEW t \in Seq(Name)
  PROVE  /\ s \o t \in Seq(Name)
         /\ {(s \o t)[i].key : i \in DOMAIN (s \o t)}
              = {s[i].key : i \in DOMAIN s} \cup {t[i].key : i \in DOMAIN t}
<1> DEFINE u == s \o t
<1>1. /\ u \in Seq(Name) /\ Len(u) = Len(s) + Len(t)
      /\ \A i \in 1 .. Len(s) : u[i] = s[i]
      /\ \A i \in 1 .. Len(t) : u[Len(s) + i] = t[i]
      /\ Len(s) \in Nat /\ Len(t) \in Nat
  OBVIOUS
<1> HIDE DEF u
<1>2. /\ DOMAIN u = 1 .. Len(s) + Len(t)
      /\ DOMAIN s = 1 .. Len(s) /\ DOMAIN t = 1 .. Len(t)
  BY <1>1
<1>3. ASSUME NEW k, NEW i \in DOMAIN u, u[i].key = k
      PROVE  (\E j \in DOMAIN s : s[j].key = k) \/ \E j \in DOMAIN t : t[j].key = k
  <2>1. CASE i \in 1 .. Len(s)
    BY <1>1, <1>2, <1>3, <2>1
  <2>2. CASE i \notin 1 .. Len(s)
    <3>1. PICK j \in 1 .. Len(t) : i = Len(s) + j
      <4>1. i - Len(s) \in 1 .. Len(t) /\ i = Len(s) + (i - Len(s))
        BY <1>1, <1>2, <1>3, <2>2
      <4>2. QED
        BY <4>1
    <3>2. QED
      BY <1>1, <1>2, <1>3, <3>1
  <2>3. QED
    BY <2>1, <2>2
<1>4. \A j \in DOMAIN s : j \in DOMAIN u /\ u[j] = s[j]
  BY <1>1, <1>2
<1>5. \A j \in DOMAIN t : Len(s) + j \in DOMAIN u /\ u[Len(s) + j] = t[j]
  BY <1>1, <1>2
<1>6. {u[i].key : i \in DOMAIN u}
        = {s[i].key : i \in DOMAIN s} \cup {t[i].key : i \in DOMAIN t}
  BY <1>3, <1>4, <1>5
<1>7. QED
  BY <1>1, <1>6 DEF u

-----------------------------------------------------------------------------
(* What a step leaves as it was.                                           *)

\* The part of TypeOK about callbacks.
AnswersOK ==
  /\ answers \in [Request -> Seq([failed : Seq(Name), error : BOOLEAN])]
  /\ \A r \in Request :
       Len(answers[r]) = IF op[r].phase = "freed" THEN 1 ELSE 0

\* A call is answered when its closure is freed.
LEMMA AnsweredOK ==
  ASSUME AnswersOK, NEW r \in Request, NEW failed \in Seq(Name),
         NEW error \in BOOLEAN, Answer(r, failed, error),
         op[r].phase # "freed", op'[r].phase = "freed",
         \A s \in Request \ {r} : op'[s] = op[s]
  PROVE  /\ AnswersOK'
         /\ answers'[r] = <<[failed |-> failed, error |-> error]>>
         /\ \A s \in Request \ {r} : answers'[s] = answers[s]
<1> DEFINE A == [failed : Seq(Name), error : BOOLEAN]
           a == [failed |-> failed, error |-> error]
<1>1. answers \in [Request -> Seq(A)] /\ a \in A /\ Len(answers[r]) = 0
  BY DEF AnswersOK
<1>2. answers' = [answers EXCEPT ![r] = Append(@, a)]
  BY DEF Answer
<1>3. \A s \in Request \ {r} :
        Len(answers[s]) = IF op'[s].phase = "freed" THEN 1 ELSE 0
  BY DEF AnswersOK
<1> HIDE DEF A, a
<1>4. answers[r] = << >>
  BY <1>1
<1>5. Append(answers[r], a) = <<a>> /\ <<a>> \in Seq(A) /\ Len(<<a>>) = 1
  BY <1>1, <1>4
<1>6. /\ answers' \in [Request -> Seq(A)]
      /\ answers'[r] = <<a>>
      /\ \A s \in Request \ {r} : answers'[s] = answers[s]
  BY <1>1, <1>2, <1>5
<1>7. \A s \in Request :
        Len(answers'[s]) = IF op'[s].phase = "freed" THEN 1 ELSE 0
  BY <1>3, <1>5, <1>6
<1>8. QED
  BY <1>6, <1>7 DEF AnswersOK, A, a

\* Nobody is answered when no closure is freed.
LEMMA NobodyAnswered ==
  ASSUME AnswersOK, NEW r \in Request, answers' = answers,
         op[r].phase # "freed", op'[r].phase # "freed",
         \A s \in Request \ {r} : op'[s] = op[s]
  PROVE  AnswersOK'
BY DEF AnswersOK

\* A call that a step does not touch stays as settled as it was.
LEMMA OthersSettled ==
  ASSUME NEW s \in Request, op'[s] = op[s], answers'[s] = answers[s],
         s \in told' <=> s \in told, busy' = s <=> busy = s, Settled(s)
  PROVE  Settled(s)'
<1>1. KeysArray(s)' = KeysArray(s)
  BY KeysKept
<1>2. Reported(s)' = Reported(s)
  BY DEF Reported
<1>3. Signalled(s)'
  BY <1>1, <1>2 DEF Signalled, Settled
<1>4. QED
  BY <1>1, <1>3 DEF Settled

\* A later value stays when the answered calls do and no value is set.
LEMMA WinsKept ==
  ASSUME SInv, told' = told, \A s \in told : op'[s] = op[s],
         \A f \in File, k \in Keys : stored'[f][k] \in {stored[f][k], 0}
  PROVE  LastSetWins'
<1>1. told \in SUBSET Request /\ op \in [Request -> Op]
  BY DEF SInv, TypeOK
<1>2. \A s \in told : /\ KeysArray(s)' = KeysArray(s)
                      /\ Range(KeysArray(s)) \subseteq Keys
                      /\ op[s].target \in File
  <2> SUFFICES ASSUME NEW s \in told
               PROVE  /\ KeysArray(s)' = KeysArray(s)
                      /\ Range(KeysArray(s)) \subseteq Keys
                      /\ op[s].target \in File
    OBVIOUS
  <2>1. s \in Request /\ op[s] \in Op /\ op'[s] = op[s]
    BY <1>1
  <2>2. op[s].target # 0
    BY <2>1 DEF SInv, Settled, Signalled
  <2>3. op[s].target \in File
    BY <2>1, <2>2 DEF Op
  <2>4. QED
    BY <2>1, <2>3, KeysKept, KeysFacts
<1>3. SUFFICES ASSUME NEW r \in Request, NEW q \in 1 .. r - 1,
                      q \in told, r \in told, op[q].target = op[r].target,
                      NEW k \in Range(KeysArray(q)) \cap Range(KeysArray(r))
               PROVE  stored'[op[r].target][k] # q
  <2>1. \A r \in Request : \A q \in 1 .. r - 1 : q \in told' /\ r \in told' =>
          /\ op'[q] = op[q] /\ op'[r] = op[r]
          /\ KeysArray(q)' = KeysArray(q) /\ KeysArray(r)' = KeysArray(r)
    BY <1>2
  <2>2. QED
    BY <1>3, <2>1 DEF LastSetWins
<1>4. stored[op[r].target][k] # q
  BY <1>3 DEF SInv, LastSetWins
<1>5. q # 0
  BY <1>1, <1>3
<1>6. stored'[op[r].target][k] \in {stored[op[r].target][k], 0}
  BY <1>2, <1>3
<1>7. QED
  BY <1>4, <1>5, <1>6

\* A step of one call that tells nobody and sets no value.
LEMMA QuietStepKeepsSInv ==
  ASSUME SInv, IInv', TypeOK', InTurn', NEW r \in Request, r \notin told,
         told' = told, stored' = stored, tracked' = tracked,
         \A s \in Request \ {r} :
           op'[s] = op[s] /\ answers'[s] = answers[s] /\ (busy' = s <=> busy = s),
         Settled(r)'
  PROVE  SInv'
<1>1. \A s \in Request \ {r} : Settled(s)'
  BY OthersSettled DEF SInv
<1>2. \A s \in Request : Settled(s)'
  BY <1>1
<1>3. StoredOK'
  BY DEF SInv, StoredOK
<1>4. \A s \in told : op'[s] = op[s]
  BY DEF SInv, TypeOK
<1>5. LastSetWins'
  BY <1>4, WinsKept
<1>6. QED
  BY <1>2, <1>3, <1>5 DEF SInv

\* No call gets ahead when one is made, or one ends.
LEMMA TurnsKept ==
  ASSUME SInv, NEW r \in Request, told' = told,
         \A s \in Request \ {r} : op'[s] = op[s],
         \/ op'[r].phase \notin {"updating", "checked"}
         \/ op'[r].phase = "updating" /\ op[r].phase = "updating"
         \/ op'[r].phase = "updating" /\ r > calls
  PROVE  InTurn'
<1>1. /\ Requests \in Nat
      /\ told \in SUBSET Request
      /\ \A s \in Request : s > calls => op[s].phase = "unused"
      /\ \A s \in told : op[s].phase = "freed"
      /\ calls \in Nat
  BY RequestsAssumption DEF SInv, IInv, TypeOK, Settled, Signalled
<1>2. SUFFICES ASSUME NEW s \in Request, NEW q \in 1 .. s - 1
               PROVE  /\ s \in told => op'[q].phase \notin {"updating", "checked"}
                      /\ op'[s].phase = "checked" => op'[q].phase # "updating"
  BY <1>2 DEF InTurn
<1>3. q \in Request /\ s \in Nat /\ q \in Nat /\ q < s /\ r \in Nat
  BY <1>1, <1>2 DEF Request
<1>4. /\ s \in told => op[q].phase \notin {"updating", "checked"}
      /\ op[s].phase = "checked" => op[q].phase # "updating"
  BY DEF SInv, InTurn
<1>5. CASE q # r /\ s # r
  BY <1>3, <1>4, <1>5
<1>6. CASE s = r
  BY <1>1, <1>3, <1>4, <1>6
<1>7. CASE q = r
  <2>1. op'[s] = op[s] /\ s # r
    BY <1>3, <1>7
  <2>2. CASE r > calls
    <3>1. op[s].phase = "unused"
      BY <1>1, <1>3, <1>7, <2>2
    <3>2. QED
      BY <1>1, <2>1, <3>1
  <2>3. CASE ~ (r > calls)
    BY <1>4, <1>7, <2>1, <2>3
  <2>4. QED
    BY <2>2, <2>3
<1>8. QED
  BY <1>5, <1>6, <1>7

-----------------------------------------------------------------------------
(* The steps of set_metadata()'s invariant.                                *)

\* A call that has just been made is settled, and so are the others.
LEMMA CallKeepsSInv ==
  ASSUME SInv, IInv', NEW c \in Op, Called(c),
         \/ /\ c.phase \in {"querying", "deleting", "refused"}
            /\ c.kind = "destroy" /\ answers' = answers
         \/ /\ c.phase = "updating" /\ c.kind = "set" /\ c.target \in File
            /\ answers' = answers
         \/ /\ c.phase = "freed" /\ c.target = 0
            /\ \E failed \in Seq(Name) : Answer(calls + 1, failed, TRUE)
  PROVE  SInv'
<1>0. calls + 1 \in Request
  BY RequestsAssumption DEF Called, SInv, IInv, Request
<1> PICK r \in Request : r = calls + 1
  BY <1>0
<1>1. /\ r \in Request /\ r > calls /\ r # 0
      /\ op' = [op EXCEPT ![r] = c]
      /\ op \in [Request -> Op]
      /\ busy = 0 /\ busy' = 0
      /\ disk' = disk /\ tracked' = tracked /\ stored' = stored
      /\ touches' = touches /\ told' = told
  BY RequestsAssumption DEF Called, SInv, IInv, Request
<1>2. op[r].phase = "unused" /\ r \notin told /\ AnswersOK
  BY <1>1 DEF SInv, IInv, TypeOK, AnswersOK, Settled, Signalled
<1>3. op'[r] = c /\ \A s \in Request \ {r} : op'[s] = op[s]
  BY <1>1
<1>4. AnswersOK' /\ \A s \in Request \ {r} : answers'[s] = answers[s]
  <2>1. CASE c.phase = "freed" /\ \E failed \in Seq(Name) : Answer(r, failed, TRUE)
    <3>1. PICK failed \in Seq(Name) : Answer(r, failed, TRUE)
      BY <2>1
    <3>2. QED
      BY <1>1, <1>2, <1>3, <2>1, <3>1, AnsweredOK
  <2>2. CASE c.phase # "freed" /\ answers' = answers
    BY <1>1, <1>2, <1>3, <2>2, NobodyAnswered
  <2>3. QED
    BY <2>1, <2>2
<1>5. TypeOK'
  BY <1>1, <1>4 DEF SInv, IInv, TypeOK, AnswersOK
<1>6. Settled(r)'
  <2>1. /\ c.phase # "checked" /\ busy' # r /\ r \notin told'
        /\ c.phase = "freed" => c.target = 0
    BY <1>1, <1>2
  <2>2. Signalled(r)'
    BY <1>3, <2>1 DEF Signalled
  <2>3. QED
    BY <1>3, <2>1, <2>2 DEF Settled
<1>7. InTurn'
  BY <1>1, <1>2, <1>3, TurnsKept
<1>8. QED
  BY <1>1, <1>2, <1>3, <1>4, <1>5, <1>6, <1>7, QuietStepKeepsSInv

\* The steps of a destroy keep it.
LEMMA DestroyStepKeepsSInv ==
  ASSUME SInv, IInv', NEW r \in Request, NEW q \in Op,
         op[r].phase \in {"querying", "deleting", "refused"},
         op' = [op EXCEPT ![r] = q], q.kind = op[r].kind,
         busy' = busy, tracked' = tracked, stored' = stored,
         touches' = touches, told' = told, disk' \subseteq File,
         \/ q.phase = "deleting" /\ answers' = answers
         \/ q.phase = "freed" /\ \E e \in BOOLEAN : Answer(r, << >>, e)
  PROVE  SInv'
<1>1. /\ op \in [Request -> Op] /\ AnswersOK
      /\ op[r].kind = "destroy" /\ r \notin told /\ busy # r
  BY DEF SInv, TypeOK, AnswersOK, Settled, Signalled
<1>2. op'[r] = q /\ \A s \in Request \ {r} : op'[s] = op[s]
  BY <1>1
<1>3. AnswersOK' /\ \A s \in Request \ {r} : answers'[s] = answers[s]
  <2>1. CASE q.phase = "freed" /\ \E e \in BOOLEAN : Answer(r, << >>, e)
    <3>1. PICK e \in BOOLEAN : Answer(r, << >>, e)
      BY <2>1
    <3>2. << >> \in Seq(Name)
      OBVIOUS
    <3>3. QED
      BY <1>1, <1>2, <2>1, <3>1, <3>2, AnsweredOK
  <2>2. CASE q.phase = "deleting" /\ answers' = answers
    BY <1>1, <1>2, <2>2, NobodyAnswered
  <2>3. QED
    BY <2>1, <2>2
<1>4. TypeOK'
  BY <1>3 DEF SInv, IInv, TypeOK, AnswersOK
<1>5. Settled(r)'
  BY <1>1, <1>2 DEF Settled, Signalled
<1>6. InTurn'
  BY <1>2, TurnsKept
<1>7. QED
  BY <1>1, <1>2, <1>3, <1>4, <1>5, <1>6, QuietStepKeepsSInv

\* What is reported when no key could be set.
LEMMA FailsFacts ==
  ASSUME NEW r \in Request, op[r] \in Op
  PROVE  LET failed == Named("mafw", UnsupportedKeys(r))
                         \o Named("tracker", KeysArray(r))
         IN  /\ failed \in Seq(Name)
             /\ {failed[i].key : i \in DOMAIN failed}
                  = Range(UnsupportedKeys(r)) \cup Range(KeysArray(r))
<1> DEFINE s == Named("mafw", UnsupportedKeys(r))
           t == Named("tracker", KeysArray(r))
<1>1. UnsupportedKeys(r) \in Seq(Keys) /\ KeysArray(r) \in Seq(Keys)
  BY KeysFacts
<1>2. /\ s \in Seq(Name)
      /\ {s[i].key : i \in DOMAIN s} = Range(UnsupportedKeys(r))
  BY <1>1, NamedFacts
<1>3. /\ t \in Seq(Name)
      /\ {t[i].key : i \in DOMAIN t} = Range(KeysArray(r))
  BY <1>1, NamedFacts
<1> HIDE DEF s, t
<1>4. /\ s \o t \in Seq(Name)
      /\ {(s \o t)[i].key : i \in DOMAIN (s \o t)}
           = Range(UnsupportedKeys(r)) \cup Range(KeysArray(r))
  BY <1>2, <1>3, TogetherFacts
<1>5. QED
  BY <1>4 DEF s, t

\* What the end of a set_metadata() leaves.
LEMMA SetEnds ==
  ASSUME SInv, NEW r \in Request, op[r].phase \in {"updating", "checked"},
         Freed(r), NEW failed \in Seq(Name), NEW error \in BOOLEAN,
         Answer(r, failed, error)
  PROVE  /\ op \in [Request -> Op] /\ op[r].kind = "set"
         /\ op[r].target \in File /\ r \notin told
         /\ op'[r].phase = "freed" /\ op'[r].kind = "set"
         /\ op'[r].target = op[r].target
         /\ \A s \in Request \ {r} : op'[s] = op[s] /\ answers'[s] = answers[s]
         /\ AnswersOK'
         /\ KeysArray(r)' = KeysArray(r)
         /\ Reported(r)' = {failed[i].key : i \in DOMAIN failed}
         /\ answers'[r][1].error = error
<1>1. /\ op \in [Request -> Op] /\ AnswersOK
      /\ op[r].kind = "set" /\ op[r].target \in File /\ r \notin told
  BY DEF SInv, TypeOK, AnswersOK, Settled, Signalled
<1>2. /\ op'[r] = [op[r] EXCEPT !.phase = "freed"]
      /\ \A s \in Request \ {r} : op'[s] = op[s]
  BY <1>1 DEF Freed
<1>3. /\ op'[r].phase = "freed" /\ op'[r].kind = op[r].kind
      /\ op'[r].target = op[r].target /\ op'[r].keys = op[r].keys
      /\ op'[r].long = op[r].long
  BY <1>1, <1>2 DEF Op
<1>4. KeysArray(r)' = KeysArray(r)
  BY <1>3, KeysKept
<1>5. /\ AnswersOK' /\ answers'[r] = <<[failed |-> failed, error |-> error]>>
      /\ \A s \in Request \ {r} : answers'[s] = answers[s]
  <2>1. op[r].phase # "freed"
    OBVIOUS
  <2>2. \A s \in Request \ {r} : op'[s] = op[s]
    BY <1>2
  <2>3. op'[r].phase = "freed" /\ AnswersOK
    BY <1>1, <1>3
  <2>4. QED
    BY <2>1, <2>2, <2>3, AnsweredOK
<1>6. /\ Reported(r)' = {failed[i].key : i \in DOMAIN failed}
      /\ answers'[r][1].error = error
  BY <1>5 DEF Reported
<1>7. QED
  BY <1>1, <1>2, <1>3, <1>4, <1>5, <1>6

\* An end that changes nothing in Tracker keeps the invariant: no key of
\* keys_array is left that is not reported.
LEMMA QuietEndKeepsSInv ==
  ASSUME SInv, IInv', NEW r \in Request, NEW failed \in Seq(Name),
         NEW error \in BOOLEAN,
         op[r].phase \in {"updating", "checked"}, Freed(r),
         Answer(r, failed, error),
         Range(KeysArray(r)) \subseteq {failed[i].key : i \in DOMAIN failed},
         busy \in {0, r}, busy' = 0,
         UNCHANGED <<disk, tracked, stored, touches, told>>
  PROVE  SInv'
<1>1. /\ op'[r].phase = "freed" /\ r \notin told
      /\ \A s \in Request \ {r} : op'[s] = op[s] /\ answers'[s] = answers[s]
      /\ AnswersOK' /\ KeysArray(r)' = KeysArray(r)
      /\ Reported(r)' = {failed[i].key : i \in DOMAIN failed}
  BY SetEnds
<1>2. TypeOK'
  <2>1. busy' \in 0 .. Requests
    BY RequestsAssumption
  <2>2. /\ disk' \subseteq File /\ tracked' \subseteq File
        /\ stored' \in [File -> [Keys -> 0 .. Requests]]
        /\ touches' \in 0 .. Touches /\ told' \subseteq Request
    BY DEF SInv, TypeOK
  <2>3. QED
    BY <1>1, <2>1, <2>2 DEF IInv, TypeOK, AnswersOK
<1>3. r # 0 /\ \A s \in Request : s # 0
  BY RequestsAssumption DEF Request
<1>4. Settled(r)'
  BY <1>1, <1>3 DEF Settled, Signalled
<1>5. InTurn'
  BY <1>1, TurnsKept
<1>6. \A s \in Request \ {r} : busy' = s <=> busy = s
  BY <1>3
<1>7. QED
  BY <1>1, <1>2, <1>4, <1>5, <1>6, QuietStepKeepsSInv

\* What the second request does to the values.
LEMMA UpdateFacts ==
  ASSUME SInv, NEW r \in Request, UpdateKeys(r)
  PROVE  /\ \A f \in File, k \in Keys :
              stored'[f][k] =
                IF f = op[r].target /\ f \in tracked /\ k \in Range(KeysArray(r))
                THEN r ELSE stored[f][k]
         /\ stored' \in [File -> [Keys -> 0 .. Requests]]
<1> DEFINE t == op[r].target
           v == [k \in Keys |->
                   IF k \in Range(KeysArray(r)) THEN r ELSE stored[t][k]]
<1>1. /\ stored \in [File -> [Keys -> 0 .. Requests]]
      /\ t \in File
  BY DEF SInv, TypeOK, Settled, UpdateKeys
<1>2. stored' = IF t \in tracked THEN [stored EXCEPT ![t] = v] ELSE stored
  BY DEF UpdateKeys
<1>3. r \in 0 .. Requests
  BY RequestsAssumption DEF Request
<1>4. /\ v \in [Keys -> 0 .. Requests]
      /\ \A k \in Keys :
           v[k] = IF k \in Range(KeysArray(r)) THEN r ELSE stored[t][k]
  BY <1>1, <1>3
<1> HIDE DEF v, t
<1>5. CASE t \in tracked
  <2>1. /\ stored' \in [File -> [Keys -> 0 .. Requests]]
        /\ stored'[t] = v
        /\ \A f \in File : f # t => stored'[f] = stored[f]
    BY <1>1, <1>2, <1>4, <1>5
  <2>2. QED
    BY <1>4, <1>5, <2>1 DEF t
<1>6. CASE t \notin tracked
  BY <1>1, <1>2, <1>6 DEF t
<1>7. QED
  BY <1>5, <1>6

\* What else it leaves: the unsupported keys are reported.
LEMMA UpdateEnds ==
  ASSUME SInv, NEW r \in Request, UpdateKeys(r)
  PROVE  /\ op[r] \in Op /\ op[r].target \in File /\ r \notin told /\ busy = r
         /\ op'[r].phase = "freed" /\ op'[r].kind = "set"
         /\ op'[r].target = op[r].target
         /\ \A s \in Request \ {r} : op'[s] = op[s] /\ answers'[s] = answers[s]
         /\ AnswersOK'
         /\ KeysArray(r)' = KeysArray(r) /\ KeysArray(r) # << >>
         /\ Reported(r)' = Range(UnsupportedKeys(r))
         /\ answers'[r][1].error <=> UnsupportedKeys(r) # << >>
<1> DEFINE failed == Named("mafw", UnsupportedKeys(r))
           error == UnsupportedKeys(r) # << >>
<1>1. /\ op[r] \in Op /\ op[r].phase = "checked" /\ Freed(r)
      /\ Answer(r, failed, error) /\ error \in BOOLEAN
      /\ KeysArray(r) # << >> /\ busy = r
  BY DEF UpdateKeys, SInv, TypeOK, Settled
<1>2. UnsupportedKeys(r) \in Seq(Keys)
  BY <1>1, KeysFacts
<1>3. /\ failed \in Seq(Name)
      /\ {failed[i].key : i \in DOMAIN failed} = Range(UnsupportedKeys(r))
  BY <1>2, NamedFacts
<1> HIDE DEF failed
<1>4. \E F \in Seq(Name), e \in BOOLEAN :
        /\ F = failed /\ e = error /\ Answer(r, F, e)
  BY <1>1, <1>3
<1>5. PICK F \in Seq(Name), e \in BOOLEAN :
        F = failed /\ e = error /\ Answer(r, F, e)
  BY <1>4
<1>6. /\ op[r].target \in File /\ r \notin told
      /\ op'[r].phase = "freed" /\ op'[r].kind = "set"
      /\ op'[r].target = op[r].target
      /\ \A s \in Request \ {r} : op'[s] = op[s] /\ answers'[s] = answers[s]
      /\ AnswersOK'
      /\ KeysArray(r)' = KeysArray(r)
      /\ Reported(r)' = {F[i].key : i \in DOMAIN F}
      /\ answers'[r][1].error = e
  BY <1>1, <1>5, SetEnds
<1>7. QED
  BY <1>1, <1>3, <1>5, <1>6

\* The second request keeps the invariant.
LEMMA UpdateKeysKeepsSInv ==
  ASSUME SInv, IInv', NEW r \in Request, UpdateKeys(r)
  PROVE  SInv'
<1>1. /\ op[r] \in Op /\ op[r].target \in File /\ r \notin told /\ busy = r
      /\ op'[r].phase = "freed" /\ op'[r].kind = "set"
      /\ op'[r].target = op[r].target
      /\ \A s \in Request \ {r} : op'[s] = op[s] /\ answers'[s] = answers[s]
      /\ AnswersOK'
      /\ KeysArray(r)' = KeysArray(r) /\ KeysArray(r) # << >>
      /\ Reported(r)' = Range(UnsupportedKeys(r))
  BY UpdateEnds
<1>2. /\ op[r].phase = "checked" /\ busy' = 0 /\ told' = told \cup {r}
      /\ disk' = disk /\ tracked' = tracked /\ touches' = touches
  BY DEF UpdateKeys
<1>3. /\ \A f \in File, k \in Keys :
           stored'[f][k] =
             IF f = op[r].target /\ f \in tracked /\ k \in Range(KeysArray(r))
             THEN r ELSE stored[f][k]
      /\ stored' \in [File -> [Keys -> 0 .. Requests]]
  BY UpdateFacts
<1>4. /\ Requests \in Nat /\ r # 0 /\ r \in Nat
      /\ told \in SUBSET Request /\ op \in [Request -> Op]
      /\ \A s \in Request : s \in Nat /\ s # 0
      /\ op[r].target # 0
  BY <1>1, RequestsAssumption, FilesAssumption DEF SInv, TypeOK, Request, File
<1>5. TypeOK'
  <2>1. busy' \in 0 .. Requests /\ told' \subseteq Request
    BY <1>2, <1>4
  <2>2. /\ disk' \subseteq File /\ tracked' \subseteq File
        /\ touches' \in 0 .. Touches
    BY <1>2 DEF SInv, TypeOK
  <2>3. QED
    BY <1>1, <1>3, <2>1, <2>2 DEF IInv, TypeOK, AnswersOK
<1>6. Settled(r)'
  <2>1. Range(KeysArray(r)) \ Range(UnsupportedKeys(r)) # {}
    BY <1>1, KeysFacts
  <2>2. Signalled(r)'
    BY <1>1, <1>2, <1>4, <2>1 DEF Signalled
  <2>3. QED
    BY <1>1, <1>2, <1>4, <2>2 DEF Settled
<1>7. \A s \in Request \ {r} : Settled(s)'
  <2>1. SUFFICES ASSUME NEW s \in Request, s # r
                 PROVE  Settled(s)'
    OBVIOUS
  <2>2. /\ op'[s] = op[s] /\ answers'[s] = answers[s]
        /\ s \in told' <=> s \in told
        /\ busy' = s <=> busy = s
        /\ Settled(s)
    BY <1>1, <1>2, <1>4, <2>1 DEF SInv
  <2>3. QED
    BY <2>2, OthersSettled
<1>8. InTurn'
  <2>1. SUFFICES ASSUME NEW s \in Request, NEW q \in 1 .. s - 1
                 PROVE  /\ s \in told' => op'[q].phase \notin {"updating", "checked"}
                        /\ op'[s].phase = "checked" => op'[q].phase # "updating"
    BY <2>1 DEF InTurn
  <2>2. q \in Request /\ q # s
    BY <1>4, <2>1 DEF Request
  <2>3. /\ s \in told => op[q].phase \notin {"updating", "checked"}
        /\ op[s].phase = "checked" => op[q].phase # "updating"
    BY DEF SInv, InTurn
  <2>4. op[q].phase = "checked" => q = r
    BY <1>1, <2>2 DEF SInv, Settled
  <2>5. op[s].phase = "checked" => s = r
    BY <1>1, <2>2 DEF SInv, Settled
  <2>6. CASE q = r
    BY <1>1, <2>2, <2>5, <2>6
  <2>7. CASE q # r
    BY <1>1, <1>2, <2>2, <2>3, <2>4, <2>5, <2>7
  <2>8. QED
    BY <2>6, <2>7
<1>9. StoredOK'
  BY <1>2, <1>3 DEF SInv, StoredOK
<1>10. LastSetWins'
  <2>1. \A s \in told' : /\ KeysArray(s)' = KeysArray(s)
                         /\ Range(KeysArray(s)) \subseteq Keys
                         /\ op'[s].target = op[s].target
                         /\ op[s].target \in File
    <3>1. ASSUME NEW s \in told
          PROVE  /\ KeysArray(s)' = KeysArray(s)
                 /\ Range(KeysArray(s)) \subseteq Keys
                 /\ op'[s].target = op[s].target
                 /\ op[s].target \in File
      <4>1. s \in Request /\ op[s] \in Op /\ op'[s] = op[s]
        BY <1>1, <1>4
      <4>2. op[s].target # 0
        BY <4>1 DEF SInv, Settled, Signalled
      <4>3. op[s].target \in File
        BY <4>1, <4>2 DEF Op
      <4>4. QED
        BY <4>1, <4>3, KeysKept, KeysFacts
    <3>2. QED
      BY <1>1, <1>2, <3>1, KeysFacts
  <2>2. SUFFICES ASSUME NEW s \in Request, NEW q \in 1 .. s - 1,
                        q \in told', s \in told', op[q].target = op[s].target,
                        NEW k \in Range(KeysArray(q)) \cap Range(KeysArray(s))
                 PROVE  stored'[op[s].target][k] # q
    <3>1. \A s \in Request : \A q \in 1 .. s - 1 : q \in told' /\ s \in told' =>
            /\ op'[q].target = op[q].target /\ op'[s].target = op[s].target
            /\ KeysArray(q)' = KeysArray(q) /\ KeysArray(s)' = KeysArray(s)
      BY <2>1
    <3>2. QED
      BY <2>2, <3>1 DEF LastSetWins
  <2>3. k \in Keys /\ op[s].target \in File /\ q \in Nat /\ s \in Nat /\ q < s /\ q # 0
    BY <1>4, <2>1, <2>2 DEF Request
  <2>4. q # r
    <3>1. q = r => s \in told
      BY <1>2, <2>2, <2>3
    <3>2. s \in told => op[q].phase # "checked"
      BY <2>2 DEF SInv, InTurn
    <3>3. QED
      BY <1>2, <3>1, <3>2
  <2>5. q \in told
    BY <1>2, <2>2, <2>4
  <2>6. CASE s = r
    <3>1. CASE op[s].target \in tracked
      BY <1>3, <2>2, <2>3, <2>6, <3>1
    <3>2. CASE op[s].target \notin tracked
      <4>1. stored[op[s].target][k] = 0
        BY <2>3, <3>2 DEF SInv, StoredOK
      <4>2. stored'[op[s].target][k] = 0
        BY <1>3, <2>3, <3>2, <4>1
      <4>3. QED
        BY <2>3, <4>2
    <3>3. QED
      BY <3>1, <3>2
  <2>7. CASE s # r
    <3>1. s \in told
      BY <1>2, <2>2, <2>7
    <3>2. stored[op[s].target][k] # q
      BY <2>2, <2>5, <3>1 DEF SInv, LastSetWins
    <3>3. stored'[op[s].target][k] \in {stored[op[s].target][k], r}
      BY <1>3, <2>3
    <3>4. QED
      BY <2>4, <3>2, <3>3
  <2>8. QED
    BY <2>6, <2>7
<1>11. QED
  BY <1>5, <1>6, <1>7, <1>8, <1>9, <1>10 DEF SInv

\* The calls keep it.
LEMMA CallsKeepSInv ==
  ASSUME SInv, IInv', Call
  PROVE  SInv'
<1>1. ASSUME NEW f \in File, DestroyClip(f)
      PROVE  SInv'
  <2> DEFINE c == [Blank EXCEPT !.kind = "destroy", !.phase = "deleting",
                                !.target = f, !.uris = <<f>>, !.remaining = 1]
  <2>1. /\ "destroy" \in {"none", "destroy", "set"} /\ "deleting" \in Phases
        /\ <<f>> \in Seq(File)
        /\ {} \in SUBSET File
        /\ << >> \in Seq(Keys)
    BY DEF Phases
  <2>2. c \in Op /\ c.phase = "deleting" /\ c.kind = "destroy"
    BY <2>1 DEF Blank, Op
  <2>3. Called(c) /\ answers' = answers
    BY <1>1 DEF DestroyClip
  <2> HIDE DEF c
  <2>4. QED
    BY <2>2, <2>3, CallKeepsSInv
<1>2. ASSUME DestroyAlbum
      PROVE  SInv'
  <2> DEFINE c == [Blank EXCEPT !.kind = "destroy", !.phase = "querying",
                                !.remaining = 1]
  <2>1. "destroy" \in {"none", "destroy", "set"} /\ "querying" \in Phases
    BY DEF Phases
  <2>2. c \in Op /\ c.phase = "querying" /\ c.kind = "destroy"
    BY <2>1, BlankOK DEF Op
  <2>3. Called(c) /\ answers' = answers
    BY <1>2 DEF DestroyAlbum
  <2> HIDE DEF c
  <2>4. QED
    BY <2>2, <2>3, CallKeepsSInv
<1>3. ASSUME DestroyRefused
      PROVE  SInv'
  <2> DEFINE c == [Blank EXCEPT !.kind = "destroy", !.phase = "refused",
                                !.remaining = 1, !.error = TRUE]
  <2>1. "destroy" \in {"none", "destroy", "set"} /\ "refused" \in Phases
    BY DEF Phases
  <2>2. c \in Op /\ c.phase = "refused" /\ c.kind = "destroy"
    BY <2>1, BlankOK DEF Op
  <2>3. Called(c) /\ answers' = answers
    BY <1>3 DEF DestroyRefused
  <2> HIDE DEF c
  <2>4. QED
    BY <2>2, <2>3, CallKeepsSInv
<1>4. ASSUME NEW f \in File, NEW keys \in KeyLists, NEW long \in BOOLEAN,
             SetMetadata(f, keys, long)
      PROVE  SInv'
  <2> DEFINE c == [Blank EXCEPT !.kind = "set", !.phase = "updating",
                                !.target = f, !.keys = keys, !.long = long]
  <2>1. "set" \in {"none", "destroy", "set"} /\ "updating" \in Phases
    BY DEF Phases
  <2>2. c \in Op /\ c.phase = "updating" /\ c.kind = "set" /\ c.target = f
    BY <2>1, BlankOK, KeyListsType DEF Op
  <2>3. Called(c) /\ answers' = answers
    BY <1>4 DEF SetMetadata
  <2> HIDE DEF c
  <2>4. QED
    BY <2>2, <2>3, CallKeepsSInv
<1>5. ASSUME NEW keys \in KeyLists, SetRefused(keys)
      PROVE  SInv'
  <2> DEFINE c == [Blank EXCEPT !.kind = "set", !.phase = "freed", !.keys = keys]
             failed == Named("mafw", keys)
  <2>1. "set" \in {"none", "destroy", "set"} /\ "freed" \in Phases
    BY DEF Phases
  <2>2. keys \in Seq(Keys)
    BY KeyListsType
  <2>3. c \in Op /\ c.phase = "freed" /\ c.target = 0
    BY <2>1, <2>2, BlankOK DEF Op, Blank
  <2>4. Called(c) /\ Answer(calls + 1, failed, TRUE)
    BY <1>5 DEF SetRefused
  <2>5. failed \in Seq(Name)
    BY <2>2, NamedFacts
  <2> HIDE DEF c, failed
  <2>6. QED
    BY <2>3, <2>4, <2>5, CallKeepsSInv
<1>6. QED
  BY <1>1, <1>2, <1>3, <1>4, <1>5 DEF Call

\* So do the handlers of a destroy.
LEMMA DestroyHandlersKeepSInv ==
  ASSUME SInv, IInv', NEW r \in Request,
         \/ \E songs \in [1 .. Cardinality(tracked \cap Songs) -> tracked \cap Songs] :
              DestroyAnswer(r, songs)
         \/ DestroyQueryFails(r)
         \/ \E deleted \in BOOLEAN : DeleteFile(r, deleted)
         \/ DestroyEnds(r)
  PROVE  SInv'
<1>1. op' \in [Request -> Op] /\ op \in [Request -> Op] /\ disk \subseteq File
  BY DEF SInv, IInv, TypeOK
<1>2. /\ busy' = busy /\ tracked' = tracked /\ stored' = stored
      /\ touches' = touches /\ told' = told /\ disk' \subseteq File
  <2>1. disk' \subseteq disk
    BY DEF DestroyAnswer, DestroyQueryFails, DeleteFile, DestroyEnds
  <2>2. QED
    BY <1>1, <2>1 DEF DestroyAnswer, DestroyQueryFails, DeleteFile, DestroyEnds
<1>3. op[r].phase \in {"querying", "deleting", "refused"}
  BY DEF DestroyAnswer, DestroyQueryFails, DeleteFile, DestroyEnds
<1>4. op[r] \in Op
  BY <1>1
<1>5. \E q : op' = [op EXCEPT ![r] = q]
  BY DEF DestroyAnswer, DestroyQueryFails, DeleteFile, DestroyEnds, Freed
<1>6. op' = [op EXCEPT ![r] = op'[r]]
  BY <1>1, <1>5
<1>7. /\ op'[r].kind = op[r].kind
      /\ \/ op'[r].phase = "deleting" /\ answers' = answers
         \/ op'[r].phase = "freed" /\ \E e \in BOOLEAN : Answer(r, << >>, e)
  <2>1. ASSUME NEW songs, DestroyAnswer(r, songs)
        PROVE  /\ op'[r].kind = op[r].kind
               /\ op'[r].phase = "deleting" /\ answers' = answers
    BY <1>1, <1>4, <2>1 DEF DestroyAnswer, Op
  <2>2. ASSUME NEW deleted \in BOOLEAN, DeleteFile(r, deleted)
        PROVE  /\ op'[r].kind = op[r].kind
               /\ op'[r].phase = "deleting" /\ answers' = answers
    BY <1>1, <1>4, <2>2 DEF DeleteFile, Op
  <2>3. ASSUME Freed(r)
        PROVE  op'[r].kind = op[r].kind /\ op'[r].phase = "freed"
    BY <1>1, <1>4, <2>3 DEF Freed, Op
  <2>4. op[r].error \in BOOLEAN
    BY <1>4 DEF Op
  <2>5. CASE DestroyQueryFails(r)
    BY <2>3, <2>5 DEF DestroyQueryFails
  <2>6. CASE DestroyEnds(r)
    BY <2>3, <2>4, <2>6 DEF DestroyEnds
  <2>7. QED
    BY <2>1, <2>2, <2>5, <2>6
<1>8. \E q \in Op : q = op'[r]
  BY <1>1
<1>9. PICK q \in Op : q = op'[r]
  BY <1>8
<1>10. QED
  BY <1>2, <1>3, <1>6, <1>7, <1>9, DestroyStepKeepsSInv

\* The object exists: the call goes on to its second request, in its turn.
LEMMA ObjectExistsKeepsSInv ==
  ASSUME SInv, IInv', NEW r \in Request, ObjectExists(r)
  PROVE  SInv'
<1>1. /\ op \in [Request -> Op] /\ op[r] \in Op
      /\ op[r].phase = "updating" /\ busy = 0 /\ busy' = r
      /\ op' = [op EXCEPT ![r].phase = "checked"]
      /\ \A q \in 1 .. r - 1 : op[q].phase # "updating"
      /\ KeysArray(r) # << >> /\ answers' = answers
      /\ disk' = disk /\ tracked' = tracked /\ stored' = stored
      /\ touches' = touches /\ told' = told
  BY DEF ObjectExists, Turn, SInv, TypeOK
<1>2. /\ \A s \in Request \ {r} : op'[s] = op[s]
      /\ op'[r].phase = "checked" /\ op'[r].kind = op[r].kind
      /\ op'[r].target = op[r].target /\ op'[r].keys = op[r].keys
      /\ op'[r].long = op[r].long
  BY <1>1 DEF Op
<1>3. /\ Requests \in Nat /\ r \in Nat /\ r # 0 /\ r \in 0 .. Requests
      /\ \A s \in Request : s \in Nat /\ s # 0
  BY RequestsAssumption DEF Request
<1>4. /\ op[r].kind = "set" /\ op[r].target \in File /\ r \notin told /\ AnswersOK
  BY <1>1 DEF SInv, TypeOK, AnswersOK, Settled, Signalled
<1>5. AnswersOK'
  BY <1>1, <1>2, <1>4, NobodyAnswered
<1>6. TypeOK'
  <2>1. /\ disk' \subseteq File /\ tracked' \subseteq File
        /\ stored' \in [File -> [Keys -> 0 .. Requests]]
        /\ touches' \in 0 .. Touches /\ told' \subseteq Request
    BY <1>1 DEF SInv, TypeOK
  <2>2. QED
    BY <1>1, <1>3, <1>5, <2>1 DEF IInv, TypeOK, AnswersOK
<1>7. Settled(r)'
  <2>1. KeysArray(r)' = KeysArray(r)
    BY <1>2, KeysKept
  <2>2. Signalled(r)'
    BY <1>1, <1>2, <1>4 DEF Signalled
  <2>3. QED
    BY <1>1, <1>2, <1>4, <2>1, <2>2 DEF Settled
<1>8. InTurn'
  <2>1. SUFFICES ASSUME NEW s \in Request, NEW q \in 1 .. s - 1
                 PROVE  /\ s \in told' => op'[q].phase \notin {"updating", "checked"}
                        /\ op'[s].phase = "checked" => op'[q].phase # "updating"
    BY <2>1 DEF InTurn
  <2>2. q \in Request /\ q # s /\ s # 0
    BY <1>3, <2>1 DEF Request
  <2>3. s \in told => op[q].phase \notin {"updating", "checked"}
    BY DEF SInv, InTurn
  <2>4. s # r => op[s].phase # "checked"
    BY <1>1, <1>3 DEF SInv, Settled
  <2>5. CASE s = r
    BY <1>1, <1>2, <1>4, <2>1, <2>2, <2>5
  <2>6. CASE s # r
    BY <1>1, <1>2, <2>2, <2>3, <2>4, <2>6
  <2>7. QED
    BY <2>5, <2>6
<1>9. \A s \in Request \ {r} :
        op'[s] = op[s] /\ answers'[s] = answers[s] /\ (busy' = s <=> busy = s)
  BY <1>1, <1>2, <1>3
<1>10. QED
  BY <1>1, <1>4, <1>6, <1>7, <1>8, <1>9, QuietStepKeepsSInv

\* The ends that leave Tracker as it was: what they report.
LEMMA QuietEnds ==
  ASSUME SInv, NEW r \in Request,
         SetNothing(r) \/ ObjectUnknown(r) \/ UpdateError(r)
  PROVE  \E failed \in Seq(Name), error \in BOOLEAN :
           LET reported == {failed[i].key : i \in DOMAIN failed}
           IN  /\ Answer(r, failed, error)
               /\ Range(KeysArray(r)) \subseteq reported
               /\ reported \subseteq Keys
               /\ error <=> reported # {}
<1>1. op[r] \in Op
  BY DEF SInv, TypeOK
<1>2. CASE SetNothing(r)
  <2> DEFINE failed == Named("mafw", UnsupportedKeys(r))
             error == UnsupportedKeys(r) # << >>
  <2>1. Answer(r, failed, error) /\ error \in BOOLEAN /\ KeysArray(r) = << >>
    BY <1>2 DEF SetNothing
  <2>2. /\ failed \in Seq(Name)
        /\ {failed[i].key : i \in DOMAIN failed} = Range(UnsupportedKeys(r))
    BY <1>1, KeysFacts, NamedFacts
  <2>3. /\ Range(KeysArray(r)) = {}
        /\ Range(UnsupportedKeys(r)) \subseteq Keys
        /\ error <=> Range(UnsupportedKeys(r)) # {}
    BY <1>1, <2>1, KeysFacts
  <2> HIDE DEF failed, error
  <2>4. QED
    BY <2>1, <2>2, <2>3
<1>3. CASE ObjectUnknown(r) \/ UpdateError(r)
  <2> DEFINE failed == Named("mafw", UnsupportedKeys(r))
                         \o Named("tracker", KeysArray(r))
  <2>1. Answer(r, failed, TRUE) /\ KeysArray(r) # << >>
    BY <1>3 DEF ObjectUnknown, UpdateError, UpdateFails, SInv, Settled
  <2>2. /\ failed \in Seq(Name)
        /\ {failed[i].key : i \in DOMAIN failed}
             = Range(UnsupportedKeys(r)) \cup Range(KeysArray(r))
    BY <1>1, FailsFacts
  <2>3. /\ Range(KeysArray(r)) # {} /\ Range(KeysArray(r)) \subseteq Keys
        /\ Range(UnsupportedKeys(r)) \subseteq Keys
    BY <1>1, <2>1, KeysFacts
  <2> HIDE DEF failed
  <2>4. QED
    BY <2>1, <2>2, <2>3
<1>4. QED
  BY <1>2, <1>3

\* They keep the invariant.
LEMMA QuietEndsKeepSInv ==
  ASSUME SInv, IInv', NEW r \in Request,
         SetNothing(r) \/ ObjectUnknown(r) \/ UpdateError(r)
  PROVE  SInv'
<1>1. /\ op[r].phase \in {"updating", "checked"} /\ Freed(r)
      /\ busy \in {0, r} /\ busy' = 0
      /\ UNCHANGED <<disk, tracked, stored, touches, told>>
  BY DEF SetNothing, ObjectUnknown, UpdateError, Turn, SInv, Settled
<1>2. PICK failed \in Seq(Name), error \in BOOLEAN :
        /\ Answer(r, failed, error)
        /\ Range(KeysArray(r)) \subseteq {failed[i].key : i \in DOMAIN failed}
  BY QuietEnds
<1>3. QED
  BY <1>1, <1>2, QuietEndKeepsSInv

\* Other programs, and the miner, set no value.
LEMMA OthersKeepSInv ==
  ASSUME SInv, IInv', NEW f \in File, Touch(f) \/ Mine(f)
  PROVE  SInv'
<1>1. /\ op' = op /\ calls' = calls /\ busy' = busy /\ answers' = answers
      /\ told' = told
  BY DEF Touch, Mine
<1>2. \A s \in Request : Settled(s)'
  BY <1>1, OthersSettled DEF SInv
<1>3. InTurn'
  BY <1>1 DEF SInv, InTurn
<1>4. /\ stored \in [File -> [Keys -> 0 .. Requests]]
      /\ tracked \subseteq File /\ disk \subseteq File /\ touches \in 0 .. Touches
  BY DEF SInv, TypeOK
<1>5. /\ stored' \in [File -> [Keys -> 0 .. Requests]]
      /\ \A g \in File, k \in Keys : stored'[g][k] \in {stored[g][k], 0}
      /\ StoredOK'
  <2>1. CASE Touch(f)
    BY <1>4, <2>1 DEF Touch, SInv, StoredOK
  <2>2. CASE Mine(f)
    <3> DEFINE zero == [k \in Keys |-> 0]
    <3>1. zero \in [Keys -> 0 .. Requests] /\ \A k \in Keys : zero[k] = 0
      BY RequestsAssumption
    <3>2. /\ stored' = [stored EXCEPT ![f] = zero] /\ told' = told
          /\ \A g \in File : g # f => (g \in tracked' <=> g \in tracked)
      BY <2>2 DEF Mine
    <3> HIDE DEF zero
    <3>3. /\ stored' \in [File -> [Keys -> 0 .. Requests]]
          /\ stored'[f] = zero
          /\ \A g \in File : g # f => stored'[g] = stored[g]
      BY <1>4, <3>1, <3>2
    <3>4. \A g \in File, k \in Keys :
            /\ stored'[g][k] \in {stored[g][k], 0}
            /\ g = f => stored'[g][k] = 0
            /\ g # f => stored'[g][k] = stored[g][k]
      BY <3>1, <3>3
    <3>5. StoredOK'
      BY <3>2, <3>4 DEF SInv, StoredOK
    <3>6. QED
      BY <3>3, <3>4, <3>5
  <2>3. QED
    BY <2>1, <2>2
<1>6. TypeOK'
  <2>1. disk' \subseteq File /\ tracked' \subseteq File
    BY <1>4 DEF Touch, Mine
  <2>2. touches' \in 0 .. Touches
    BY <1>4, TouchesAssumption DEF Touch, Mine
  <2>3. QED
    BY <1>1, <1>5, <2>1, <2>2 DEF SInv, TypeOK
<1>7. LastSetWins'
  BY <1>1, <1>5, WinsKept
<1>8. QED
  BY <1>2, <1>3, <1>5, <1>6, <1>7 DEF SInv

-----------------------------------------------------------------------------
(* The theorems about set_metadata().                                      *)

\* The invariant holds at first.
LEMMA InitSInv == Init => SInv
<1> SUFFICES ASSUME Init PROVE SInv
  OBVIOUS
<1>1. IInv
  BY InitIInv
<1>2. /\ \A r \in Request : op[r] = Blank /\ answers[r] = << >>
      /\ op \in [Request -> Op] /\ calls \in 0 .. Requests
      /\ busy = 0 /\ told = {} /\ touches = 0
      /\ answers = [r \in Request |-> << >>]
      /\ stored = [f \in File |-> [k \in Keys |-> 0]]
      /\ \A r \in Request : r # 0
  BY <1>1, RequestsAssumption DEF Init, IInv, Request
<1>3. Blank.phase = "unused"
  BY BlankOK
<1>4. TypeOK
  <2>1. disk \subseteq File /\ tracked \subseteq File
    BY DisksAssumption DEF Init, File
  <2>2. /\ busy \in 0 .. Requests /\ touches \in 0 .. Touches
        /\ stored \in [File -> [Keys -> 0 .. Requests]]
    BY <1>2, RequestsAssumption, TouchesAssumption
  <2>3. AnswersOK
    <3> DEFINE A == [failed : Seq(Name), error : BOOLEAN]
    <3>1. << >> \in Seq(A) /\ Len(<< >>) = 0
      OBVIOUS
    <3> HIDE DEF A
    <3>2. answers \in [Request -> Seq(A)]
      BY <1>2, <3>1
    <3>3. QED
      BY <1>2, <1>3, <3>1, <3>2 DEF AnswersOK, A
  <2>4. QED
    BY <1>2, <2>1, <2>2, <2>3 DEF TypeOK, AnswersOK
<1>5. \A r \in Request : Settled(r)
  BY <1>2, <1>3 DEF Settled, Signalled
<1>6. InTurn
  BY <1>2, <1>3 DEF InTurn
<1>7. StoredOK
  BY <1>2 DEF StoredOK
<1>8. LastSetWins
  BY <1>2 DEF LastSetWins
<1>9. QED
  BY <1>1, <1>4, <1>5, <1>6, <1>7, <1>8 DEF SInv

\* Every step keeps it.
LEMMA NextSInv == SInv /\ [Next]_vars => SInv'
<1> SUFFICES ASSUME SInv, [Next]_vars PROVE SInv'
  OBVIOUS
<1>1. IInv'
  BY NextIInv DEF SInv
<1>2. CASE Call
  BY <1>1, <1>2, CallsKeepSInv
<1>3. ASSUME NEW r \in Request, Handler(r)
      PROVE  SInv'
  <2>1. CASE \/ \E songs \in [1 .. Cardinality(tracked \cap Songs)
                                -> tracked \cap Songs] : DestroyAnswer(r, songs)
             \/ DestroyQueryFails(r)
             \/ \E deleted \in BOOLEAN : DeleteFile(r, deleted)
             \/ DestroyEnds(r)
    BY <1>1, <2>1, DestroyHandlersKeepSInv
  <2>2. CASE SetNothing(r) \/ ObjectUnknown(r) \/ UpdateError(r)
    BY <1>1, <2>2, QuietEndsKeepSInv
  <2>3. CASE ObjectExists(r)
    BY <1>1, <2>3, ObjectExistsKeepsSInv
  <2>4. CASE UpdateKeys(r)
    BY <1>1, <2>4, UpdateKeysKeepsSInv
  <2>5. QED
    BY <1>3, <2>1, <2>2, <2>3, <2>4 DEF Handler
<1>4. ASSUME NEW f \in File, Touch(f) \/ Mine(f)
      PROVE  SInv'
  BY <1>1, <1>4, OthersKeepSInv
<1>5. CASE UNCHANGED vars
  <2>1. /\ op' = op /\ calls' = calls /\ busy' = busy /\ disk' = disk
        /\ tracked' = tracked /\ stored' = stored /\ touches' = touches
        /\ answers' = answers /\ told' = told
    BY <1>5 DEF vars
  <2>2. \A s \in Request : Settled(s)'
    BY <2>1, OthersSettled DEF SInv
  <2>3. InTurn' /\ StoredOK' /\ TypeOK'
    BY <2>1 DEF SInv, InTurn, StoredOK, TypeOK
  <2>4. LastSetWins'
    BY <2>1, WinsKept
  <2>5. QED
    BY <1>1, <2>2, <2>3, <2>4 DEF SInv
<1>6. QED
  BY <1>2, <1>3, <1>4, <1>5 DEF Next

\* The inductive invariant of set_metadata() holds in every reachable state.
THEOREM SetsInvariant == Spec => []SInv
BY InitSInv, NextSInv, PTL DEF Spec

\* Every variable has its type, and a call has been answered once when its
\* closure is freed and not before (TypeOK).
THEOREM ChangesTypeCorrect == Spec => []TypeOK
<1>1. SInv => TypeOK
  BY DEF SInv
<1>2. QED
  BY <1>1, SetsInvariant, PTL

\* metadata-changed is emitted for a call exactly if a key that was sent to
\* Tracker is not reported as failed (SignalMeansChange).
THEOREM SignalsMeanChanges == Spec => []SignalMeansChange
<1>1. SInv => SignalMeansChange
  BY DEF SInv, Settled, Signalled, SignalMeansChange
<1>2. QED
  BY <1>1, SetsInvariant, PTL

\* Of two calls that set the same key of the same file the later one wins,
\* whatever other programs and the miner do (LastSetWins).
THEOREM TheLastSetWins == Spec => []LastSetWins
<1>1. SInv => LastSetWins
  BY DEF SInv
<1>2. QED
  BY <1>1, SetsInvariant, PTL

\* What SetHonest says of one call and one step.
HonestEnd(r) ==
  op[r].phase \in {"updating", "checked"} /\ op'[r].phase = "freed" =>
    LET f == op[r].target
    IN  /\ \A k \in Range(KeysArray(r)) \ Reported(r)' :
             f \in tracked' => stored'[f][k] = r
        /\ \A k \in Reported(r)' : stored'[f][k] # r
        /\ answers'[r][1].error <=> Reported(r)' # {}

\* A call has set no value before it ends.
LEMMA NotYetSet ==
  ASSUME SInv, NEW r \in Request, op[r].phase \in {"updating", "checked"}
  PROVE  \A k \in Keys : stored[op[r].target][k] # r
<1>1. op[r].target \in File /\ r \notin told /\ r # 0
  BY RequestsAssumption DEF SInv, Settled, Signalled, Request
<1>2. QED
  BY <1>1 DEF SInv, StoredOK

\* The end of a call is honest.
LEMMA EndsAreHonest ==
  ASSUME SInv, NEW r \in Request, Handler(r)
  PROVE  HonestEnd(r)
<1> SUFFICES ASSUME op[r].phase \in {"updating", "checked"}, op'[r].phase = "freed"
             PROVE  HonestEnd(r)
  BY DEF HonestEnd
<1>1. op \in [Request -> Op] /\ op[r] \in Op /\ op[r].target \in File
  BY DEF SInv, TypeOK, Settled
<1>2. \A k \in Keys : stored[op[r].target][k] # r
  BY NotYetSet
<1>3. CASE SetNothing(r) \/ ObjectUnknown(r) \/ UpdateError(r)
  <2>1. Freed(r) /\ stored' = stored
    BY <1>3 DEF SetNothing, ObjectUnknown, UpdateError
  <2>2. PICK failed \in Seq(Name), error \in BOOLEAN :
          LET reported == {failed[i].key : i \in DOMAIN failed}
          IN  /\ Answer(r, failed, error)
              /\ Range(KeysArray(r)) \subseteq reported
              /\ reported \subseteq Keys
              /\ error <=> reported # {}
    BY <1>3, QuietEnds
  <2>3. /\ Reported(r)' = {failed[i].key : i \in DOMAIN failed}
        /\ answers'[r][1].error = error
    BY <2>1, <2>2, SetEnds
  <2>4. QED
    BY <1>2, <2>1, <2>2, <2>3 DEF HonestEnd
<1>4. CASE UpdateKeys(r)
  <2>1. /\ Reported(r)' = Range(UnsupportedKeys(r))
        /\ answers'[r][1].error <=> UnsupportedKeys(r) # << >>
    BY <1>4, UpdateEnds
  <2>2. /\ Range(KeysArray(r)) \subseteq Keys
        /\ Range(UnsupportedKeys(r)) \subseteq Keys
        /\ Range(KeysArray(r)) \cap Range(UnsupportedKeys(r)) = {}
        /\ UnsupportedKeys(r) # << >> <=> Range(UnsupportedKeys(r)) # {}
    BY <1>1, KeysFacts
  <2>3. tracked' = tracked
    BY <1>4 DEF UpdateKeys
  <2>4. \A f \in File, k \in Keys :
          stored'[f][k] =
            IF f = op[r].target /\ f \in tracked /\ k \in Range(KeysArray(r))
            THEN r ELSE stored[f][k]
    BY <1>4, UpdateFacts
  <2>5. QED
    BY <1>1, <1>2, <2>1, <2>2, <2>3, <2>4 DEF HonestEnd
<1>5. ASSUME ~ UpdateKeys(r),
             ~ (SetNothing(r) \/ ObjectUnknown(r) \/ UpdateError(r))
      PROVE  FALSE
  <2>1. ~ ObjectExists(r)
    BY <1>1 DEF ObjectExists, Op
  <2>2. QED
    BY <1>5, <2>1 DEF Handler, DestroyAnswer, DestroyQueryFails, DeleteFile,
       DestroyEnds
<1>6. QED
  BY <1>3, <1>4, <1>5

\* No other step ends a call.
LEMMA OnlyItsHandlerEnds ==
  ASSUME SInv, NEW r \in Request, [Next]_vars, ~ Handler(r)
  PROVE  HonestEnd(r)
<1> SUFFICES ASSUME op[r].phase \in {"updating", "checked"}
             PROVE  op'[r] = op[r]
  BY DEF HonestEnd
<1>1. op \in [Request -> Op]
  BY DEF SInv, TypeOK
<1>2. CASE Call
  <2>1. \E c : Called(c)
    BY <1>2 DEF Call, DestroyClip, DestroyAlbum, DestroyRefused, SetMetadata,
       SetRefused
  <2>2. op[calls + 1].phase = "unused" /\ \E c : op' = [op EXCEPT ![calls + 1] = c]
    <3>1. calls + 1 \in Request /\ calls + 1 > calls
      BY <2>1, RequestsAssumption DEF Called, SInv, IInv, Request
    <3>2. op[calls + 1].phase = "unused"
      BY <3>1 DEF SInv, IInv
    <3>3. QED
      BY <2>1, <3>2 DEF Called
  <2>3. r # calls + 1
    BY <2>2
  <2>4. QED
    BY <1>1, <2>2, <2>3
<1>3. ASSUME NEW s \in Request, Handler(s)
      PROVE  op'[r] = op[r]
  <2>1. r # s
    BY <1>3
  <2>2. \E c : op' = [op EXCEPT ![s] = c]
    BY <1>3 DEF Handler, DestroyAnswer, DestroyQueryFails, DeleteFile,
       DestroyEnds, SetNothing, ObjectExists, ObjectUnknown, UpdateKeys,
       UpdateError, Freed
  <2>3. QED
    BY <1>1, <2>1, <2>2
<1>4. CASE \E f \in File : Touch(f) \/ Mine(f)
  BY <1>4 DEF Touch, Mine
<1>5. CASE UNCHANGED vars
  BY <1>5 DEF vars
<1>6. QED
  BY <1>2, <1>3, <1>4, <1>5 DEF Next

\* What set_metadata() answers is what it did: the keys it does not report
\* have the new value in Tracker, the reported ones do not, and there is an
\* error exactly if a key is reported (SetHonest).
THEOREM SetsAreHonest == Spec => SetHonest
<1> DEFINE Honest == \A r \in Request : HonestEnd(r)
<1>1. SInv /\ [Next]_vars => [Honest]_vars
  BY EndsAreHonest, OnlyItsHandlerEnds
<1>2. Spec => [][Honest]_vars
  BY <1>1, SetsInvariant, PTL DEF Spec
<1>3. Honest <=>
        \A r \in Request :
          op[r].phase \in {"updating", "checked"} /\ op'[r].phase = "freed" =>
            LET f == op[r].target
            IN  /\ \A k \in Range(KeysArray(r)) \ Reported(r)' :
                     f \in tracked' => stored'[f][k] = r
                /\ \A k \in Reported(r)' : stored'[f][k] # r
                /\ answers'[r][1].error <=> Reported(r)' # {}
  BY DEF HonestEnd
<1>4. QED
  BY <1>2, <1>3, PTL DEF SetHonest

=============================================================================
