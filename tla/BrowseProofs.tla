---------------------------- MODULE BrowseProofs ----------------------------
(***************************************************************************)
(* Safety of browse operations for every number of requests and rows.      *)
(*                                                                         *)
(* None of the properties of Browse is inductive by itself.  IInv ties     *)
(* them together: the counters of a closure in phase with its lists        *)
(* (LocalOK), the callbacks already made in phase with the closure (LogOK),*)
(* who may be cancelled (CancelOK), and nested browses with their parents  *)
(* (ParentOK, OnlyChild): without the last two, the callback of a nested   *)
(* browse might wake a parent that has been freed.                         *)
(***************************************************************************)
EXTENDS Browse, FiniteSetTheorems, SequenceTheorems, TLAPS

\* The main loop still has something to do for call c.
Live(c) == op[c].phase \in Active \/ c \in errors

\* The counters of a closure agree with its lists.
LocalOK(o) ==
  /\ o.phase = "songs" => o.count > 0
  /\ o.phase = "children" => /\ IsFiniteSet(o.waiting)
                             /\ o.remaining_count = Cardinality(o.waiting)
  /\ o.phase = "emitting" =>
       IF o.ids = << >> THEN o.current = 0 /\ o.remaining_count = 0
       ELSE /\ o.current < Len(o.ids)
            /\ o.remaining_count = Len(o.ids) - 1 - o.current

\* The callbacks made so far agree with where the closure is.
LogOK(c) ==
  /\ op[c].phase \in Active \ {"emitting"} => log[c] = << >>
  /\ op[c].phase = "emitting" =>
       \/ log[c] = << >>
       \/ log[c][Len(log[c])].remaining = op[c].remaining_count + 1
  /\ c \in errors => log[c] = << >> /\ op[c].phase \in {"none", "unparsed"}
  /\ c <= calls /\ ~Live(c) => Finished(c) \/ op[c].cancelled

\* Calls to come have left no trace.
FreshOK(c) == c > calls => /\ op[c] = Blank("invalid", NoParent, 0, 0)
                           /\ log[c] = << >>
                           /\ c \notin errors

\* Only operations whose id went to a user are cancelled; nested browses and
\* calls that end in _send_error_idle are not among them.
CancelOK(c) ==
  /\ op[c].cancelled => op[c].handle # 0
  /\ op[c].of[1] # 0 => op[c].handle = 0
  /\ c \in errors => op[c].handle = 0

ParentOK(c) ==
  op[c].of[1] # 0 /\ Live(c) =>
    /\ op[op[c].of[1]].phase = "nested"
    /\ op[c].of[2] = op[op[c].of[1]].current + 1

OnlyChild ==
  \A c, d \in Calls :
    op[c].of[1] # 0 /\ op[c].of[1] = op[d].of[1] /\ Live(c) /\ Live(d) => c = d

IInv ==
  /\ TypeOK
  /\ PendingExact
  /\ \A c \in Calls : LocalOK(op[c])
  /\ \A c \in Calls : LogOK(c)
  /\ \A c \in Calls : FreshOK(c)
  /\ \A c \in Calls : CancelOK(c)
  /\ \A c \in Calls : ParentOK(c)
  /\ OnlyChild

-----------------------------------------------------------------------------
(* Lemmas about the data.                                                  *)

\* The bound on calls is a number.
LEMMA MaxCallsNat == MaxCalls \in Nat
BY RequestsAssumption, MaxRowsAssumption, SMTT(30) DEF MaxCalls

\* The rows of an answer are a sequence of items.
LEMMA RowsType ==
  ASSUME NEW label \in Labels, NEW offset \in Nat, NEW n \in Nat
  PROVE  /\ Rows(label, offset, n) \in Seq(Item)
         /\ Backwards(label, offset, n) \in Seq(Item)
<1>1. ASSUME NEW k \in Nat
      PROVE  <<label, k>> \in Item
  BY Zenon DEF Item
<1>2. \A k \in 1 .. n : offset + k \in Nat /\ offset + (n + 1 - k) \in Nat
  OBVIOUS
<1>3. Rows(label, offset, n) \in [1 .. n -> Item]
  BY <1>1, <1>2, Zenon DEF Rows
<1>4. Backwards(label, offset, n) \in [1 .. n -> Item]
  BY <1>1, <1>2, Zenon DEF Backwards
<1>5. \A f \in [1 .. n -> Item] : f \in Seq(Item)
  BY SeqDef, Zenon
<1>6. QED
  BY <1>3, <1>4, <1>5, Zenon

\* Starting the emission yields a closure whose counters agree.
LEMMA EmittingOK ==
  ASSUME NEW o \in Op
  PROVE  /\ Emitting(o) \in Op
         /\ LocalOK(Emitting(o))
         /\ Emitting(o).phase = "emitting"
         /\ Emitting(o).handle = o.handle
         /\ Emitting(o).of = o.of
         /\ Emitting(o).cancelled = o.cancelled
<1>1. o.ids \in Seq(Item)
  BY DEF Op
<1>2. Len(o.ids) \in Nat /\ (o.ids # << >> => Len(o.ids) > 0)
  BY <1>1
<1>3. (IF o.ids = << >> THEN 0 ELSE Len(o.ids) - 1) \in Nat
  BY <1>2
<1>4. "emitting" \in Phase
  BY DEF Phase
<1>5. Emitting(o) \in Op
  BY <1>3, <1>4 DEF Emitting, Op
<1>6. /\ Emitting(o).phase = "emitting"
      /\ Emitting(o).handle = o.handle
      /\ Emitting(o).of = o.of
      /\ Emitting(o).cancelled = o.cancelled
      /\ Emitting(o).ids = o.ids
      /\ Emitting(o).current = 0
      /\ Emitting(o).remaining_count
           = IF o.ids = << >> THEN 0 ELSE Len(o.ids) - 1
  BY DEF Emitting, Op
<1>7. LocalOK(Emitting(o))
  BY <1>2, <1>6 DEF LocalOK
<1>8. QED
  BY <1>5, <1>6, <1>7

\* A closure as browse() allocates it.
LEMMA BlankType ==
  ASSUME NEW target \in AllTargets, NEW offset \in Nat, NEW asked \in Nat,
         NEW of \in (0 .. MaxCalls) \X Nat
  PROVE  Blank(target, of, offset, asked) \in Op
<1>1. "none" \in Phase /\ << >> \in Seq(Item)
  BY DEF Phase
<1>2. QED
  BY <1>1 DEF Blank, Op

-----------------------------------------------------------------------------
(* What the invariant says of one call.                                    *)

LogEntry == [item : Item, remaining : Nat, index : Nat, error : BOOLEAN]

\* The fields of a closure have their types.
LEMMA OpFields ==
  ASSUME NEW o \in Op
  PROVE  /\ o.phase \in Phase
         /\ o.handle \in Nat
         /\ o.of[1] \in 0 .. MaxCalls
         /\ o.of[2] \in Nat
         /\ o.of \in (0 .. MaxCalls) \X Nat
         /\ o.cancelled \in BOOLEAN
         /\ o.count \in Nat
         /\ o.offset \in Nat
         /\ o.asked \in Nat
         /\ o.ids \in Seq(Item)
         /\ o.uris \in Seq(Item)
         /\ Len(o.ids) \in Nat
         /\ o.current \in Nat
         /\ o.current_index \in Nat
         /\ o.remaining_count \in Nat
BY DEF Op

\* A call that is alive, or nested, has been made, and a parent is a call.
LEMMA CallFacts ==
  ASSUME IInv, NEW c \in Calls
  PROVE  /\ op[c] \in Op
         /\ log[c] \in Seq(LogEntry)
         /\ Live(c) => c <= calls
         /\ op[c].phase # "none" => c <= calls
         /\ op[c].of[1] # 0 => op[c].of[1] \in Calls /\ c <= calls
<1>1. op[c] \in Op /\ log[c] \in Seq(LogEntry)
  BY DEF IInv, TypeOK, LogEntry
<1>2. c \in Nat /\ calls \in Nat /\ MaxCalls \in Nat
  BY MaxCallsNat DEF IInv, TypeOK, Calls
<1>3. ASSUME ~ (c <= calls)
      PROVE  op[c].phase = "none" /\ c \notin errors /\ op[c].of[1] = 0
  <2>1. FreshOK(c)
    BY DEF IInv
  <2>2. op[c] = Blank("invalid", NoParent, 0, 0) /\ c \notin errors
    BY <1>2, <1>3, <2>1 DEF FreshOK
  <2>3. QED
    BY <2>2 DEF Blank, NoParent
<1>4. "none" \notin Active
  BY DEF Active
<1>5. op[c].of[1] # 0 => op[c].of[1] \in Calls
  BY <1>1, <1>2, OpFields DEF Calls
<1>6. QED
  BY <1>1, <1>3, <1>4, <1>5 DEF Live

\* A cancelled closure belongs to a user, so it has no parent, and nothing is
\* left to say to that user.
LEMMA CancelledFacts ==
  ASSUME IInv, NEW c \in Calls, op[c].cancelled
  PROVE  op[c].of[1] = 0 /\ c \notin errors
BY DEF IInv, CancelOK

-----------------------------------------------------------------------------
(* The kinds of step, and why each preserves the invariant.                *)

\* An answer of Tracker, or an idle that emits nothing: the closure moves to
\* another phase of its life, has emitted nothing yet, and waits for no child.
LEMMA StepKeepsIInv ==
  ASSUME IInv, NEW c \in Calls, NEW o \in Op, Step(c, o),
         op[c].phase \in Active \ {"emitting", "nested"},
         o.phase \in Active \ {"nested"},
         o.handle = op[c].handle, o.of = op[c].of,
         o.cancelled = op[c].cancelled, LocalOK(o)
  PROVE  IInv'
<1>1. /\ op' = [op EXCEPT ![c] = o]
      /\ UNCHANGED <<requests, calls, browse_id_counter, pending, errors, log>>
  BY DEF Step
<1>2. TypeOK'
  BY <1>1 DEF IInv, TypeOK
<1>3. \A d \in Calls : op'[d] = IF d = c THEN o ELSE op[d]
  BY <1>1 DEF IInv, TypeOK
<1>4. \A d \in Calls : /\ op'[d].of = op[d].of
                       /\ op'[d].handle = op[d].handle
                       /\ op'[d].cancelled = op[d].cancelled
                       /\ d # c => op'[d].phase = op[d].phase
                       /\ Live(d)' <=> Live(d)
  BY <1>1, <1>3 DEF Live
<1>5. "none" \notin Active /\ "freed" \notin Active
  BY DEF Active
<1>6. PendingExact'
  BY <1>1, <1>3, <1>4, <1>5 DEF IInv, PendingExact
<1>7. (\A d \in Calls : LocalOK(op[d]))'
  BY <1>3 DEF IInv
<1>8. c <= calls /\ c \notin errors /\ log[c] = << >>
  <2>1. c \notin errors /\ log[c] = << >>
    BY <1>5 DEF IInv, LogOK, Active
  <2>2. QED
    BY <1>5, <2>1, CallFacts
<1>9. ASSUME NEW d \in Calls
      PROVE  LogOK(d)' /\ FreshOK(d)' /\ CancelOK(d)' /\ ParentOK(d)'
  <2>1. LogOK(d)'
    <3>1. CASE d = c
      BY <1>1, <1>3, <1>4, <1>8, <3>1 DEF LogOK, Live
    <3>2. CASE d # c
      <4>1. LogOK(d)
        BY DEF IInv
      <4>2. QED
        BY <1>1, <1>3, <1>4, <3>2, <4>1 DEF LogOK, Finished
    <3>3. QED
      BY <3>1, <3>2
  <2>2. FreshOK(d)'
    <3>1. FreshOK(d)
      BY DEF IInv
    <3>2. CASE d = c
      BY <1>1, <1>8, <3>2, MaxCallsNat DEF FreshOK, IInv, TypeOK, Calls
    <3>3. CASE d # c
      BY <1>1, <1>3, <3>1, <3>3 DEF FreshOK
    <3>4. QED
      BY <3>2, <3>3
  <2>3. CancelOK(d)'
    BY <1>1, <1>4 DEF IInv, CancelOK
  <2>4. ParentOK(d)'
    <3>1. SUFFICES ASSUME op[d].of[1] # 0, Live(d)
                   PROVE  /\ op'[op[d].of[1]].phase = "nested"
                          /\ op[d].of[2] = op'[op[d].of[1]].current + 1
      BY <1>4 DEF ParentOK
    <3>2. /\ op[op[d].of[1]].phase = "nested"
          /\ op[d].of[2] = op[op[d].of[1]].current + 1
      BY <3>1 DEF IInv, ParentOK
    <3>3. op[d].of[1] \in Calls /\ op[d].of[1] # c
      BY <3>1, <3>2, CallFacts
    <3>4. QED
      BY <1>3, <3>2, <3>3
  <2>5. QED
    BY <2>1, <2>2, <2>3, <2>4
<1>10. OnlyChild'
  BY <1>4 DEF IInv, OnlyChild
<1>11. QED
  BY <1>2, <1>6, <1>7, <1>9, <1>10 DEF IInv

\* The closure o in another phase.
Moved(o, ph) == [o EXCEPT !.phase = ph]

\* g is f but for the closure of c, which moves to phase ph.
MovedIn(f, c, ph, g) == g = [f EXCEPT ![c] = Moved(@, ph)]

\* Moving a closure to another phase changes nothing else.
LEMMA MovedFacts ==
  ASSUME NEW o \in Op, NEW ph \in Phase
  PROVE  /\ Moved(o, ph) \in Op
         /\ Moved(o, ph).phase = ph
         /\ Moved(o, ph).of = o.of
         /\ Moved(o, ph).handle = o.handle
         /\ Moved(o, ph).cancelled = o.cancelled
         /\ Moved(o, ph).current = o.current
BY DEF Op, Moved

\* Neither does resuming a parent, but for the playlist it is at.
LEMMA ResumedFacts ==
  ASSUME NEW o \in Op
  PROVE  /\ Resumed(o) \in Op /\ Resumed(o).phase = "durations"
         /\ Resumed(o).of = o.of /\ Resumed(o).handle = o.handle
         /\ Resumed(o).cancelled = o.cancelled
<1>1. "durations" \in Phase /\ o.current + 1 \in Nat
  BY DEF Phase, Op
<1>2. QED
  BY <1>1 DEF Resumed, Op

\* A closure q is that of o in another phase: it may be at another result, but
\* is of the same call, cancelled or not.
SameCall(o, ph, q) ==
  /\ q.phase = ph /\ q.of = o.of
  /\ q.handle = o.handle /\ q.cancelled = o.cancelled

\* g is f with the closure q for call c.
PutIn(f, c, q, g) == g = [f EXCEPT ![c] = q]

\* A move is one such change.
LEMMA MovedSameCall ==
  ASSUME NEW o \in Op, NEW ph \in Phase
  PROVE  Moved(o, ph) \in Op /\ SameCall(o, ph, Moved(o, ph))
BY MovedFacts DEF SameCall

\* The last callback of a call: its closure goes to a phase ph in which
\* nothing is left to happen, and its parent, if any, goes on.
LEMMA EndKeepsIInv ==
  ASSUME IInv, NEW c \in Calls, Live(c), op[c].phase # "nested",
         NEW ph \in Phase \ Active, NEW callback \in LogEntry,
         callback.remaining = 0,
         NEW q \in Op, SameCall(op[c], ph, q),
         NEW gone, PutIn(op, c, q, gone),
         op' = Heard(gone, c, 0),
         log' = [log EXCEPT ![c] = Append(@, callback)],
         errors' = errors \ {c},
         pending' = pending \ (IF ph = "freed" THEN {c} ELSE {}),
         ph = "none" <=> op[c].phase = "none",
         UNCHANGED <<requests, calls, browse_id_counter>>
  PROVE  IInv'
<1> DEFINE p == op[c].of[1]
<1>1. /\ op \in [Calls -> Op] /\ log \in [Calls -> Seq(LogEntry)]
      /\ pending \subseteq Calls /\ errors \subseteq Calls
  BY DEF IInv, TypeOK, LogEntry
<1>2. /\ gone \in [Calls -> Op]
      /\ \A d \in Calls : /\ gone[d].of = op[d].of
                          /\ gone[d].handle = op[d].handle
                          /\ gone[d].cancelled = op[d].cancelled
                          /\ d # c => gone[d] = op[d]
      /\ gone[c].phase = ph
  BY <1>1 DEF SameCall, PutIn
<1>3. p # 0 => /\ p \in Calls /\ p # c
               /\ op[p].phase = "nested"
               /\ \A d \in Calls : op[d].of[1] = p /\ Live(d) => d = c
               /\ op[p].of[1] # p /\ op[p].of[1] # c
  <2>1. SUFFICES ASSUME p # 0
                 PROVE  /\ p \in Calls /\ p # c
                        /\ op[p].phase = "nested"
                        /\ \A d \in Calls : op[d].of[1] = p /\ Live(d) => d = c
                        /\ op[p].of[1] # p /\ op[p].of[1] # c
    OBVIOUS
  <2>2. p \in Calls
    BY <2>1, CallFacts
  <2>3. op[p].phase = "nested" /\ p # c
    BY <2>1 DEF IInv, ParentOK
  <2>4. \A d \in Calls : op[d].of[1] = p /\ Live(d) => d = c
    BY <2>1 DEF IInv, OnlyChild
  <2>5. Live(p)
    BY <2>3 DEF Live, Active, Phase
  <2>6. op[p].of[1] # p
    BY <2>2, <2>3, <2>4, <2>5
  <2>7. op[p].of[1] # c
    <3>1. 0 # c
      BY MaxCallsNat DEF Calls
    <3>2. op[p].of[1] # 0 => op[op[p].of[1]].phase = "nested"
      BY <2>2, <2>5 DEF IInv, ParentOK
    <3>3. QED
      BY <3>1, <3>2
  <2>8. QED
    BY <2>2, <2>3, <2>4, <2>6, <2>7
<1>4. /\ op' \in [Calls -> Op]
      /\ \A d \in Calls :
           /\ op'[d].of = op[d].of
           /\ op'[d].handle = op[d].handle
           /\ op'[d].cancelled = op[d].cancelled
           /\ d # c /\ (p = 0 \/ d # p) => op'[d] = op[d]
      /\ op'[c].phase = ph
      /\ p # 0 => op'[p].phase = "durations"
  <2>1. CASE p = 0
    <3>1. gone[c].of[1] = 0
      BY <1>2, <2>1
    <3>2. op' = gone
      BY <3>1 DEF Heard
    <3>3. QED
      BY <1>2, <2>1, <3>2
  <2>2. CASE p # 0
    <3>1. gone[c].of[1] = p
      BY <1>2
    <3>2. /\ op' \in [Calls -> Op]
          /\ \A d \in Calls :
               op'[d] = IF d = p THEN Resumed(gone[d]) ELSE gone[d]
      <4>1. op' = [gone EXCEPT ![p] = Resumed(gone[p])]
        BY <2>2, <3>1 DEF Heard
      <4>2. Resumed(gone[p]) \in Op
        BY <1>2, <1>3, <2>2, ResumedFacts
      <4>3. QED
        BY <1>2, <4>1, <4>2
    <3>3. \A d \in Calls :
            /\ Resumed(gone[d]).of = op[d].of
            /\ Resumed(gone[d]).handle = op[d].handle
            /\ Resumed(gone[d]).cancelled = op[d].cancelled
            /\ Resumed(gone[d]).phase = "durations"
      BY <1>2, ResumedFacts
    <3>4. QED
      BY <1>2, <1>3, <2>2, <3>2, <3>3
  <2>3. QED
    BY <2>1, <2>2
<1>5. /\ log' \in [Calls -> Seq(LogEntry)]
      /\ \A d \in Calls : d # c => log'[d] = log[d]
      /\ Len(log'[c]) > 0 /\ log'[c] # << >>
      /\ log'[c][Len(log'[c])].remaining = 0
  <2>1. log[c] \in Seq(LogEntry)
    BY <1>1
  <2>2. /\ Append(log[c], callback) \in Seq(LogEntry)
        /\ Len(Append(log[c], callback)) > 0
        /\ Append(log[c], callback) # << >>
        /\ Append(log[c], callback)[Len(Append(log[c], callback))] = callback
    BY <2>1
  <2>3. QED
    BY <1>1, <2>2
<1>6. TypeOK'
  BY <1>1, <1>4, <1>5 DEF IInv, TypeOK, LogEntry
<1>7. c \notin errors' /\ ~ Live(c)'
  BY <1>4 DEF Live
<1>8. \A d \in Calls : d # c => (Live(d)' <=> Live(d))
  <2>1. "nested" \in Active /\ "durations" \in Active
    BY DEF Active, Phase
  <2>2. QED
    BY <1>3, <1>4, <2>1 DEF Live
<1>9. PendingExact'
  <2>1. pending = {d \in Calls : op[d].phase \notin {"none", "freed"}}
    BY DEF IInv, PendingExact
  <2>2. \A d \in Calls : d # c =>
          (op'[d].phase \in {"none", "freed"} <=> op[d].phase \in {"none", "freed"})
    BY <1>3, <1>4
  <2>3. op[c].phase # "freed"
    BY <1>1 DEF IInv, LogOK, Live, Active
  <2>4. pending' \subseteq Calls
    BY <1>1
  <2>5. c \in pending' <=> ph \notin {"none", "freed"}
    BY <2>1, <2>3
  <2>6. \A d \in Calls : d # c =>
          (d \in pending' <=> op'[d].phase \notin {"none", "freed"})
    BY <2>1, <2>2
  <2>7. QED
    BY <1>4, <2>4, <2>5, <2>6 DEF PendingExact
<1>10. (\A d \in Calls : LocalOK(op[d]))'
  <2>1. LocalOK(op'[c])
    BY <1>4 DEF LocalOK, Active, Phase
  <2>2. p # 0 => LocalOK(op'[p])
    BY <1>4 DEF LocalOK
  <2>3. \A d \in Calls : d # c /\ (p = 0 \/ d # p) => LocalOK(op'[d])
    BY <1>4 DEF IInv
  <2>4. QED
    BY <2>1, <2>2, <2>3
<1>11. ASSUME NEW d \in Calls
       PROVE  LogOK(d)' /\ FreshOK(d)' /\ CancelOK(d)' /\ ParentOK(d)'
  <2>1. LogOK(d)'
    <3>1. CASE d = c
      BY <1>4, <1>5, <1>7, <3>1 DEF LogOK, Finished, Active
    <3>2. CASE d # c /\ (p = 0 \/ d # p)
      <4>1. LogOK(d)
        BY DEF IInv
      <4>2. QED
        BY <1>4, <1>5, <1>8, <3>2, <4>1 DEF LogOK, Finished
    <3>3. CASE p # 0 /\ d = p
      <4>1. LogOK(p) /\ op[p].phase = "nested" /\ p # c
        BY <1>3, <3>3 DEF IInv
      <4>2. log[p] = << >> /\ p \notin errors
        BY <4>1 DEF LogOK, Active, Phase
      <4>3. op'[d].phase = "durations" /\ log'[d] = << >> /\ d \notin errors'
        BY <1>4, <1>5, <3>3, <4>1, <4>2
      <4>4. Live(d)'
        BY <4>3 DEF Live, Active, Phase
      <4>5. QED
        BY <4>3, <4>4 DEF LogOK
    <3>4. QED
      BY <3>1, <3>2, <3>3
  <2>2. FreshOK(d)'
    <3>1. FreshOK(d) /\ d \in Nat /\ calls \in Nat
      BY MaxCallsNat DEF IInv, TypeOK, Calls
    <3>2. c <= calls /\ (p # 0 => p <= calls)
      <4>1. "nested" # "none"
        OBVIOUS
      <4>2. QED
        BY <1>3, <4>1, CallFacts
    <3>3. CASE d > calls
      <4>1. d # c /\ (p = 0 \/ d # p)
        BY <1>3, <3>1, <3>2, <3>3, MaxCallsNat DEF Calls
      <4>2. op'[d] = op[d] /\ log'[d] = log[d]
        BY <1>4, <1>5, <4>1
      <4>3. QED
        BY <3>1, <3>3, <4>2 DEF FreshOK
    <3>4. CASE ~ (d > calls)
      BY <3>4 DEF FreshOK
    <3>5. QED
      BY <3>3, <3>4
  <2>3. CancelOK(d)'
    <3>1. CancelOK(d)
      BY DEF IInv
    <3>2. QED
      BY <1>4, <3>1 DEF CancelOK
  <2>4. ParentOK(d)'
    <3>1. SUFFICES ASSUME op[d].of[1] # 0, Live(d), d # c
                   PROVE  /\ op'[op[d].of[1]].phase = "nested"
                          /\ op[d].of[2] = op'[op[d].of[1]].current + 1
      BY <1>4, <1>7, <1>8 DEF ParentOK
    <3>2. /\ op[op[d].of[1]].phase = "nested"
          /\ op[d].of[2] = op[op[d].of[1]].current + 1
      BY <3>1 DEF IInv, ParentOK
    <3>3. /\ op[d].of[1] \in Calls /\ op[d].of[1] # c
          /\ p = 0 \/ op[d].of[1] # p
      BY <1>3, <3>1, <3>2, CallFacts
    <3>4. QED
      BY <1>4, <3>2, <3>3
  <2>5. QED
    BY <2>1, <2>2, <2>3, <2>4
<1>12. OnlyChild'
  BY <1>4, <1>7, <1>8 DEF IInv, OnlyChild
<1>13. QED
  BY <1>6, <1>9, <1>10, <1>11, <1>12 DEF IInv

\* A cancelled operation ends without a callback.
LEMMA DropKeepsIInv ==
  ASSUME IInv, NEW c \in Calls, op[c].cancelled,
         op[c].phase \in Active \ {"nested"},
         NEW ph \in {"failed", "freed"},
         op' = [op EXCEPT ![c].phase = ph],
         pending' = pending \ (IF ph = "freed" THEN {c} ELSE {}),
         UNCHANGED <<requests, calls, browse_id_counter, errors, log>>
  PROVE  IInv'
<1>1. /\ op \in [Calls -> Op] /\ pending \subseteq Calls
      /\ ph \in Phase /\ ph \notin Active
      /\ "none" \notin Active /\ "freed" \notin Active
  BY DEF IInv, TypeOK, Active, Phase
<1>2. /\ op' \in [Calls -> Op]
      /\ op'[c] = Moved(op[c], ph)
      /\ \A d \in Calls : d # c => op'[d] = op[d]
  BY <1>1, MovedFacts DEF Moved
<1>3. \A d \in Calls : /\ op'[d].of = op[d].of
                       /\ op'[d].handle = op[d].handle
                       /\ op'[d].cancelled = op[d].cancelled
                       /\ d # c => op'[d].phase = op[d].phase
  BY <1>1, <1>2, MovedFacts
<1>4. op'[c].phase = ph /\ c <= calls
  BY <1>1, <1>2, MovedFacts, CallFacts
<1>5. c \notin errors /\ ~ Live(c)'
  BY <1>1, <1>4, CancelledFacts DEF Live
<1>6. \A d \in Calls : d # c => (Live(d)' <=> Live(d))
  BY <1>3 DEF Live
<1>7. TypeOK'
  BY <1>1, <1>2 DEF IInv, TypeOK
<1>8. PendingExact'
  <2>1. pending = {d \in Calls : op[d].phase \notin {"none", "freed"}}
    BY DEF IInv, PendingExact
  <2>2. c \in pending
    BY <1>1, <2>1
  <2>3. \A d \in Calls :
          d \in pending' <=> op'[d].phase \notin {"none", "freed"}
    BY <1>3, <1>4, <2>1, <2>2
  <2>4. QED
    BY <1>1, <2>3 DEF PendingExact
<1>9. (\A d \in Calls : LocalOK(op[d]))'
  <2>1. LocalOK(op'[c])
    BY <1>4 DEF LocalOK
  <2>2. QED
    BY <1>2, <2>1 DEF IInv
<1>10. ASSUME NEW d \in Calls
       PROVE  LogOK(d)' /\ FreshOK(d)' /\ CancelOK(d)' /\ ParentOK(d)'
  <2>1. LogOK(d)'
    <3>1. CASE d = c
      BY <1>1, <1>3, <1>4, <1>5, <3>1 DEF LogOK
    <3>2. CASE d # c
      <4>1. LogOK(d)
        BY DEF IInv
      <4>2. QED
        BY <1>2, <1>6, <3>2, <4>1 DEF LogOK, Finished
    <3>3. QED
      BY <3>1, <3>2
  <2>2. FreshOK(d)'
    <3>1. FreshOK(d) /\ (d > calls => d # c)
      BY <1>4, MaxCallsNat DEF IInv, TypeOK, Calls
    <3>2. QED
      BY <1>2, <3>1 DEF FreshOK
  <2>3. CancelOK(d)'
    <3>1. CancelOK(d)
      BY DEF IInv
    <3>2. QED
      BY <1>3, <3>1 DEF CancelOK
  <2>4. ParentOK(d)'
    <3>1. SUFFICES ASSUME op[d].of[1] # 0, Live(d)
                   PROVE  /\ op'[op[d].of[1]].phase = "nested"
                          /\ op[d].of[2] = op'[op[d].of[1]].current + 1
      BY <1>3, <1>5, <1>6 DEF ParentOK
    <3>2. /\ op[op[d].of[1]].phase = "nested"
          /\ op[d].of[2] = op[op[d].of[1]].current + 1
      BY <3>1 DEF IInv, ParentOK
    <3>3. op[d].of[1] \in Calls /\ op[d].of[1] # c
      BY <3>1, <3>2, CallFacts
    <3>4. QED
      BY <1>2, <3>2, <3>3
  <2>5. QED
    BY <2>1, <2>2, <2>3, <2>4
<1>11. OnlyChild'
  BY <1>3, <1>5, <1>6 DEF IInv, OnlyChild
<1>12. QED
  BY <1>7, <1>8, <1>9, <1>10, <1>11 DEF IInv

\* A successful cancellation.
LEMMA CancelKeepsIInv ==
  ASSUME IInv, NEW c \in Calls, CancelBrowse(c)
  PROVE  IInv'
<1>1. /\ op \in [Calls -> Op]
      /\ op' = [op EXCEPT ![c] = [op[c] EXCEPT !.cancelled = TRUE]]
      /\ op[c].handle # 0
      /\ UNCHANGED <<requests, calls, browse_id_counter, pending, errors, log>>
  BY DEF IInv, TypeOK, CancelBrowse
<1>2. LET n == [op[c] EXCEPT !.cancelled = TRUE]
      IN  /\ n \in Op /\ n.phase = op[c].phase /\ n.of = op[c].of
          /\ n.handle = op[c].handle /\ n.current = op[c].current
          /\ n.count = op[c].count /\ n.waiting = op[c].waiting
          /\ n.ids = op[c].ids /\ n.remaining_count = op[c].remaining_count
          /\ n.cancelled = TRUE
  BY <1>1, ZenonT(40) DEF Op
<1>3. /\ op' \in [Calls -> Op]
      /\ \A d \in Calls : /\ op'[d].phase = op[d].phase
                          /\ op'[d].of = op[d].of
                          /\ op'[d].handle = op[d].handle
                          /\ op'[d].current = op[d].current
                          /\ op'[d].count = op[d].count
                          /\ op'[d].waiting = op[d].waiting
                          /\ op'[d].ids = op[d].ids
                          /\ op'[d].remaining_count = op[d].remaining_count
                          /\ d # c => op'[d] = op[d]
      /\ op'[c].cancelled
  BY <1>1, <1>2
<1>4. \A d \in Calls : Live(d)' <=> Live(d)
  BY <1>1, <1>3 DEF Live
<1>5. TypeOK' /\ PendingExact'
  BY <1>1, <1>3 DEF IInv, TypeOK, PendingExact
<1>6. ASSUME NEW d \in Calls
      PROVE  LocalOK(op'[d])
  <2>1. LocalOK(op[d])
    BY DEF IInv
  <2>2. QED
    BY <1>3, <2>1 DEF LocalOK
<1>7. c <= calls /\ c \notin errors
  <2>1. c \notin errors /\ op[c] # Blank("invalid", NoParent, 0, 0)
    BY <1>1 DEF IInv, CancelOK, Blank
  <2>2. FreshOK(c)
    BY DEF IInv
  <2>3. QED
    BY <2>1, <2>2, MaxCallsNat DEF FreshOK, IInv, TypeOK, Calls
<1>8. ASSUME NEW d \in Calls
      PROVE  LogOK(d)' /\ FreshOK(d)' /\ CancelOK(d)' /\ ParentOK(d)'
  <2>1. LogOK(d) /\ FreshOK(d) /\ CancelOK(d) /\ ParentOK(d)
    BY DEF IInv
  <2>2. LogOK(d)'
    <3>1. op[d].cancelled => op'[d].cancelled
      BY <1>3
    <3>2. QED
      BY <1>1, <1>3, <1>4, <2>1, <3>1 DEF LogOK, Finished
  <2>3. FreshOK(d)'
    <3>1. d > calls => d # c
      BY <1>7, MaxCallsNat DEF IInv, TypeOK, Calls
    <3>2. QED
      BY <1>1, <1>3, <2>1, <3>1 DEF FreshOK
  <2>4. CancelOK(d)'
    <3>1. CASE d = c
      BY <1>1, <1>3, <1>7, <2>1, <3>1 DEF CancelOK
    <3>2. CASE d # c
      BY <1>1, <1>3, <2>1, <3>2 DEF CancelOK
    <3>3. QED
      BY <3>1, <3>2
  <2>5. ParentOK(d)'
    <3>1. op[d].of[1] # 0 => op[d].of[1] \in Calls
      BY CallFacts
    <3>2. QED
      BY <1>3, <1>4, <2>1, <3>1 DEF ParentOK
  <2>6. QED
    BY <2>2, <2>3, <2>4, <2>5
<1>9. OnlyChild'
  BY <1>3, <1>4 DEF IInv, OnlyChild
<1>10. QED
  BY <1>5, <1>6, <1>8, <1>9 DEF IInv

\* The absence of an item, and the callback that carries it.
LEMMA NoItemType == NoItem \in Item /\ ErrorCallback \in LogEntry
<1>1. "none" \in Labels /\ 0 \in Nat
  BY DEF Labels
<1>2. NoItem \in Item
  BY <1>1, Zenon DEF NoItem, Item
<1>3. QED
  BY <1>2 DEF ErrorCallback, Callback, LogEntry

\* What the emission idle knows when it is about to emit a result.
LEMMA EmissionFacts ==
  ASSUME IInv, NEW c \in Calls, op[c].phase = "emitting"
  PROVE  /\ op[c].current \in Nat /\ Len(op[c].ids) \in Nat
         /\ op[c].remaining_count \in Nat
         /\ MoreIds(op[c]) => op[c].remaining_count > 0
         /\ ~ MoreIds(op[c]) => op[c].remaining_count = 0
         /\ op[c].current <= Len(op[c].ids)
         /\ \/ op[c].ids = << >> /\ op[c].current = 0
               /\ op[c].remaining_count = 0
            \/ /\ op[c].ids # << >> /\ op[c].current < Len(op[c].ids)
               /\ op[c].remaining_count = Len(op[c].ids) - 1 - op[c].current
         /\ CurrentItem(op[c]) \in Item
         /\ \A b \in BOOLEAN :
              Callback(CurrentItem(op[c]), op[c].remaining_count,
                       op[c].current_index, b) \in LogEntry
<1>1. op[c] \in Op /\ LocalOK(op[c])
  BY DEF IInv, TypeOK
<1>2. /\ op[c].current \in Nat /\ Len(op[c].ids) \in Nat
      /\ op[c].remaining_count \in Nat /\ op[c].current_index \in Nat
      /\ op[c].ids \in Seq(Item)
  BY <1>1, OpFields
<1>3. \/ op[c].ids = << >> /\ op[c].current = 0 /\ op[c].remaining_count = 0
      \/ /\ op[c].ids # << >> /\ op[c].current < Len(op[c].ids)
         /\ op[c].remaining_count = Len(op[c].ids) - 1 - op[c].current
  BY <1>1 DEF LocalOK
<1>4. op[c].ids = << >> => Len(op[c].ids) = 0
  BY <1>2, EmptySeq
<1>5. NoItem \in Item
  BY NoItemType
<1>6. CurrentItem(op[c]) \in Item
  <2>1. CASE op[c].current < Len(op[c].ids)
    <3>1. op[c].ids[op[c].current + 1] \in Item
      BY <1>2, <2>1
    <3>2. QED
      BY <2>1, <3>1 DEF CurrentItem
  <2>2. CASE ~ (op[c].current < Len(op[c].ids))
    BY <1>5, <2>2 DEF CurrentItem
  <2>3. QED
    BY <2>1, <2>2
<1>7. \A b \in BOOLEAN :
        Callback(CurrentItem(op[c]), op[c].remaining_count,
                 op[c].current_index, b) \in LogEntry
  BY <1>2, <1>6 DEF Callback, LogEntry
<1>8. QED
  BY <1>2, <1>3, <1>4, <1>6, <1>7 DEF MoreIds

\* An unsigned number above 0 goes down by one; from 0 it wraps.
LEMMA DecrementedFacts ==
  ASSUME NEW n \in Nat
  PROVE  Decremented(n) \in Nat /\ (n > 0 => Decremented(n) = n - 1)
BY MaxUintAssumption DEF Decremented

\* Advancing moves a closure to its next result, and changes nothing else.
LEMMA AdvancedFacts ==
  ASSUME NEW o \in Op
  PROVE  /\ Advanced(o) \in Op
         /\ Advanced(o).phase = o.phase /\ Advanced(o).of = o.of
         /\ Advanced(o).handle = o.handle
         /\ Advanced(o).cancelled = o.cancelled
         /\ Advanced(o).ids = o.ids
         /\ Advanced(o).current = o.current + 1
         /\ Advanced(o).remaining_count = Decremented(o.remaining_count)
<1>1. /\ o.remaining_count \in Nat /\ o.current + 1 \in Nat
      /\ o.current_index + 1 \in Nat
  BY OpFields
<1>2. Decremented(o.remaining_count) \in Nat
  BY <1>1, DecrementedFacts
<1>3. QED
  BY <1>1, <1>2 DEF Advanced, Op

\* Emitting a result that is not the last one.
LEMMA EmitKeepsIInv ==
  ASSUME IInv, NEW c \in Calls, EmitResult(c)
  PROVE  IInv'
<1> DEFINE n == Advanced(op[c])
           callback == Callback(CurrentItem(op[c]), op[c].remaining_count,
                                op[c].current_index, FALSE)
<1>1. /\ op \in [Calls -> Op] /\ op[c] \in Op
      /\ log \in [Calls -> Seq(LogEntry)]
      /\ op[c].phase = "emitting" /\ MoreIds(op[c])
      /\ UNCHANGED <<requests, calls, browse_id_counter, pending, errors>>
      /\ log' = [log EXCEPT ![c] = Append(log[c], callback)]
  BY DEF IInv, TypeOK, LogEntry, EmitResult
<1>2. /\ op[c].remaining_count \in Nat /\ op[c].remaining_count > 0
      /\ op[c].current \in Nat /\ op[c].current_index \in Nat
      /\ Len(op[c].ids) \in Nat
      /\ op[c].ids # << >> /\ op[c].current + 1 < Len(op[c].ids)
      /\ op[c].remaining_count = Len(op[c].ids) - 1 - op[c].current
      /\ callback \in LogEntry
  <2>1. callback \in LogEntry
    BY <1>1, EmissionFacts
  <2>2. /\ op[c].current \in Nat /\ op[c].current_index \in Nat
        /\ Len(op[c].ids) \in Nat /\ op[c].remaining_count \in Nat
    BY <1>1, OpFields
  <2>3. LocalOK(op[c])
    BY DEF IInv
  <2>4. op[c].current + 1 < Len(op[c].ids)
    BY <1>1 DEF MoreIds
  <2>5. op[c].ids # << >>
    BY <1>1, <2>2, <2>4, OpFields, EmptySeq
  <2>6. op[c].remaining_count = Len(op[c].ids) - 1 - op[c].current
    BY <1>1, <2>3, <2>5 DEF LocalOK
  <2>7. op[c].remaining_count > 0
    BY <2>2, <2>4, <2>6
  <2>8. QED
    BY <2>1, <2>2, <2>4, <2>5, <2>6, <2>7
<1>3. op' = [op EXCEPT ![c] = n]
  BY <1>2 DEF EmitResult, Heard
<1>4. /\ n \in Op /\ n.phase = "emitting" /\ n.of = op[c].of
      /\ n.handle = op[c].handle /\ n.cancelled = op[c].cancelled
      /\ n.ids = op[c].ids /\ n.current = op[c].current + 1
      /\ n.remaining_count = op[c].remaining_count - 1
  BY <1>1, <1>2, AdvancedFacts, DecrementedFacts
<1>5. LocalOK(n)
  BY <1>2, <1>4 DEF LocalOK
<1>6. callback.remaining = op[c].remaining_count
  BY DEF Callback
<1> HIDE DEF n, callback
<1>7. /\ op' \in [Calls -> Op] /\ op'[c] = n
      /\ \A d \in Calls : /\ op'[d].phase = op[d].phase
                          /\ op'[d].of = op[d].of
                          /\ op'[d].handle = op[d].handle
                          /\ op'[d].cancelled = op[d].cancelled
                          /\ d # c => op'[d] = op[d]
  BY <1>1, <1>3, <1>4
<1>8. /\ log' \in [Calls -> Seq(LogEntry)]
      /\ \A d \in Calls : d # c => log'[d] = log[d]
      /\ Len(log'[c]) > 0
      /\ log'[c][Len(log'[c])].remaining = op[c].remaining_count
  <2>1. Append(log[c], callback) = log'[c]
    BY <1>1
  <2>2. log[c] \in Seq(LogEntry)
    BY <1>1
  <2>3. /\ Append(log[c], callback) \in Seq(LogEntry)
        /\ Len(Append(log[c], callback)) > 0
        /\ Append(log[c], callback)[Len(Append(log[c], callback))] = callback
    BY <1>2, <2>2
  <2>4. QED
    BY <1>1, <1>6, <2>1, <2>3
<1>9. \A d \in Calls : Live(d)' <=> Live(d)
  BY <1>1, <1>7 DEF Live
<1>10. Live(c) /\ c <= calls /\ c \notin errors
  <2>1. LogOK(c)
    BY DEF IInv
  <2>2. "emitting" \in Active
    BY DEF Active, Phase
  <2>3. QED
    BY <1>1, <2>1, <2>2, CallFacts DEF LogOK, Live
<1>11. TypeOK' /\ PendingExact'
  BY <1>1, <1>7, <1>8 DEF IInv, TypeOK, PendingExact, LogEntry
<1>12. (\A d \in Calls : LocalOK(op[d]))'
  BY <1>5, <1>7 DEF IInv
<1>13. ASSUME NEW d \in Calls
       PROVE  LogOK(d)' /\ FreshOK(d)' /\ CancelOK(d)' /\ ParentOK(d)'
  <2>1. LogOK(d) /\ FreshOK(d) /\ CancelOK(d) /\ ParentOK(d)
    BY DEF IInv
  <2>2. LogOK(d)'
    <3>1. CASE d = c
      <4>1. /\ op'[c].phase = "emitting" /\ c \notin errors' /\ Live(c)'
            /\ op'[c].remaining_count + 1 = log'[c][Len(log'[c])].remaining
        BY <1>1, <1>2, <1>4, <1>7, <1>8, <1>9, <1>10
      <4>2. QED
        BY <3>1, <4>1 DEF LogOK
    <3>2. CASE d # c
      BY <1>1, <1>7, <1>8, <1>9, <2>1, <3>2 DEF LogOK, Finished
    <3>3. QED
      BY <3>1, <3>2
  <2>3. FreshOK(d)'
    <3>1. d > calls => d # c
      BY <1>10, MaxCallsNat DEF IInv, TypeOK, Calls
    <3>2. QED
      BY <1>1, <1>7, <1>8, <2>1, <3>1 DEF FreshOK
  <2>4. CancelOK(d)'
    BY <1>1, <1>7, <2>1 DEF CancelOK
  <2>5. ParentOK(d)'
    <3>1. SUFFICES ASSUME op[d].of[1] # 0, Live(d)
                   PROVE  /\ op'[op[d].of[1]].phase = "nested"
                          /\ op[d].of[2] = op'[op[d].of[1]].current + 1
      BY <1>7, <1>9 DEF ParentOK
    <3>2. op[d].of[1] \in Calls /\ op[d].of[1] # c
      BY <1>1, <2>1, <3>1, CallFacts DEF ParentOK
    <3>3. QED
      BY <1>7, <2>1, <3>1, <3>2 DEF ParentOK
  <2>6. QED
    BY <2>2, <2>3, <2>4, <2>5
<1>14. OnlyChild'
  BY <1>7, <1>9 DEF IInv, OnlyChild
<1>15. QED
  BY <1>11, <1>12, <1>13, <1>14 DEF IInv

\* A call of browse(): by a user, or by the parent p, which starts to wait.
LEMMA OpenKeepsIInv ==
  ASSUME IInv, calls < MaxCalls,
         NEW p \in 0 .. MaxCalls, NEW f, NEW o \in Op,
         p = 0 => f = op,
         p # 0 => op[p].phase = "durations" /\ MovedIn(op, p, "nested", f),
         o.of[1] = p, p # 0 => o.of[2] = op[p].current + 1 /\ o.handle = 0,
         ~ o.cancelled, LocalOK(o),
         \/ /\ o.phase \in {"none", "unparsed"} /\ o.handle = 0
            /\ errors' = errors \cup {calls + 1}
         \/ o.phase \in Active \ {"nested"} /\ errors' = errors,
         pending' = pending \cup (IF o.phase = "none" THEN {} ELSE {calls + 1}),
         op' = [f EXCEPT ![calls + 1] = o], calls' = calls + 1,
         requests' \in 0 .. Requests, browse_id_counter' \in Nat,
         UNCHANGED log
  PROVE  IInv'
<1>1. /\ op \in [Calls -> Op] /\ errors \subseteq Calls
      /\ pending \subseteq Calls /\ calls \in Nat /\ MaxCalls \in Nat
      /\ "none" \notin Active /\ "freed" \notin Active
      /\ "nested" \in Active /\ "durations" \in Active /\ "nested" \in Phase
  BY MaxCallsNat DEF IInv, TypeOK, Active, Phase
<1>2. PICK c \in Calls : c = calls + 1 /\ c \in Nat
  BY <1>1 DEF Calls
<1>3. /\ op[c].phase = "none" /\ op[c].of[1] = 0 /\ log[c] = << >>
      /\ c \notin errors
  <2>1. FreshOK(c) /\ c > calls
    BY <1>1, <1>2 DEF IInv
  <2>2. op[c] = Blank("invalid", NoParent, 0, 0) /\ log[c] = << >> /\ c \notin errors
    BY <2>1 DEF FreshOK
  <2>3. QED
    BY <2>2 DEF Blank, NoParent
<1>4. p # 0 => p \in Calls /\ p # c /\ p <= calls
  <2>1. p # 0 => p \in Calls
    BY <1>1 DEF Calls
  <2>2. QED
    BY <1>1, <1>3, <2>1, CallFacts
<1>5. /\ f \in [Calls -> Op]
      /\ \A d \in Calls : /\ f[d].of = op[d].of
                          /\ f[d].handle = op[d].handle
                          /\ f[d].cancelled = op[d].cancelled
                          /\ f[d].current = op[d].current
                          /\ p = 0 \/ d # p => f[d] = op[d]
      /\ p # 0 => f[p].phase = "nested"
  <2>1. CASE p = 0
    BY <1>1, <2>1
  <2>2. CASE p # 0
    BY <1>1, <1>4, <2>2, MovedFacts DEF MovedIn
  <2>3. QED
    BY <2>1, <2>2
<1>6. /\ op' \in [Calls -> Op] /\ op'[c] = o
      /\ \A d \in Calls : d # c =>
           /\ op'[d].of = op[d].of
           /\ op'[d].handle = op[d].handle
           /\ op'[d].cancelled = op[d].cancelled
           /\ op'[d].current = op[d].current
           /\ p = 0 \/ d # p => op'[d] = op[d]
      /\ p # 0 => op'[p].phase = "nested"
  BY <1>2, <1>4, <1>5
<1>7. errors' \subseteq Calls /\ \A d \in Calls : d # c => (d \in errors' <=> d \in errors)
  BY <1>1, <1>2
<1>8. \A d \in Calls : d # c => (Live(d)' <=> Live(d))
  BY <1>1, <1>4, <1>6, <1>7 DEF Live
<1>9. Live(c)' /\ (c \in errors' => o.phase \in {"none", "unparsed"} /\ o.handle = 0)
  <2>1. "nested" \in Active
    BY <1>1
  <2>2. o.phase \in Active => c \notin errors'
    BY <1>2, <1>3 DEF Active
  <2>3. QED
    BY <1>2, <1>6, <2>2 DEF Live
<1>10. TypeOK'
  <2>1. calls' \in 0 .. MaxCalls
    BY <1>1
  <2>2. pending' \subseteq Calls
    BY <1>1, <1>2
  <2>3. TypeOK
    BY DEF IInv
  <2>4. QED
    BY <1>6, <1>7, <2>1, <2>2, <2>3 DEF TypeOK
<1>11. PendingExact'
  <2>1. pending = {d \in Calls : op[d].phase \notin {"none", "freed"}}
    BY DEF IInv, PendingExact
  <2>2. pending' \subseteq Calls
    BY <1>1, <1>2
  <2>3. c \in pending' <=> op'[c].phase \notin {"none", "freed"}
    <3>1. c \notin pending /\ o.phase # "freed"
      BY <1>1, <1>3, <2>1
    <3>2. QED
      BY <1>2, <1>6, <3>1
  <2>4. \A d \in Calls : d # c =>
          (d \in pending' <=> op'[d].phase \notin {"none", "freed"})
    BY <1>2, <1>4, <1>6, <2>1
  <2>5. QED
    BY <2>2, <2>3, <2>4 DEF PendingExact
<1>12. ASSUME NEW d \in Calls
       PROVE  LocalOK(op'[d])
  <2>1. LocalOK(op[d])
    BY DEF IInv
  <2>2. p # 0 => LocalOK(op'[p])
    BY <1>6 DEF LocalOK
  <2>3. QED
    BY <1>6, <2>1, <2>2
<1>13. ASSUME NEW d \in Calls
       PROVE  LogOK(d)' /\ FreshOK(d)' /\ CancelOK(d)' /\ ParentOK(d)'
  <2>1. LogOK(d) /\ FreshOK(d) /\ CancelOK(d) /\ ParentOK(d)
    BY DEF IInv
  <2>2. LogOK(d)'
    <3>1. CASE d = c
      BY <1>3, <1>6, <1>9, <3>1 DEF LogOK
    <3>2. CASE d # c /\ (p = 0 \/ d # p)
      <4>1. d <= calls' => d <= calls
        BY <1>1, <1>2, <3>2 DEF Calls
      <4>2. QED
        BY <1>6, <1>7, <1>8, <2>1, <3>2, <4>1 DEF LogOK, Finished
    <3>3. CASE p # 0 /\ d = p
      <4>1. op[d].phase = "durations" /\ d # c
        BY <1>4, <3>3
      <4>2. log[d] = << >> /\ d \notin errors
        BY <2>1, <4>1 DEF LogOK, Active, Phase
      <4>3. op'[d].phase = "nested" /\ d \notin errors' /\ Live(d)'
        BY <1>1, <1>6, <1>7, <3>3, <4>1, <4>2 DEF Live
      <4>4. QED
        BY <4>2, <4>3 DEF LogOK
    <3>4. QED
      BY <3>1, <3>2, <3>3
  <2>3. FreshOK(d)'
    <3>1. d > calls' => d > calls /\ d # c /\ (p = 0 \/ d # p)
      BY <1>1, <1>2, <1>4 DEF Calls
    <3>2. QED
      BY <1>6, <1>7, <2>1, <3>1 DEF FreshOK
  <2>4. CancelOK(d)'
    <3>1. CASE d = c
      BY <1>6, <1>9, <3>1 DEF CancelOK
    <3>2. CASE d # c
      BY <1>6, <1>7, <2>1, <3>2 DEF CancelOK
    <3>3. QED
      BY <3>1, <3>2
  <2>5. ParentOK(d)'
    <3>1. CASE d = c
      BY <1>4, <1>6, <3>1 DEF ParentOK
    <3>2. CASE d # c
      <4>1. SUFFICES ASSUME op[d].of[1] # 0, Live(d)
                     PROVE  /\ op'[op[d].of[1]].phase = "nested"
                            /\ op[d].of[2] = op'[op[d].of[1]].current + 1
        BY <1>6, <1>8, <3>2 DEF ParentOK
      <4>2. /\ op[op[d].of[1]].phase = "nested"
            /\ op[d].of[2] = op[op[d].of[1]].current + 1
        BY <2>1, <4>1 DEF ParentOK
      <4>3. /\ op[d].of[1] \in Calls /\ op[d].of[1] # c
            /\ p = 0 \/ op[d].of[1] # p
        BY <1>3, <4>1, <4>2, CallFacts
      <4>4. QED
        BY <1>6, <4>2, <4>3
    <3>3. QED
      BY <3>1, <3>2
  <2>6. QED
    BY <2>2, <2>3, <2>4, <2>5
<1>14. OnlyChild'
  <2>1. \A d \in Calls : d # c /\ op[d].of[1] # 0 /\ Live(d) => op[d].of[1] # p
    BY DEF IInv, ParentOK
  <2>2. SUFFICES ASSUME NEW d \in Calls, NEW e \in Calls,
                        op'[d].of[1] # 0, op'[d].of[1] = op'[e].of[1],
                        Live(d)', Live(e)', d # e
                 PROVE  FALSE
    BY DEF OnlyChild
  <2>3. CASE d = c
    BY <1>6, <1>8, <2>1, <2>2, <2>3
  <2>4. CASE e = c
    BY <1>6, <1>8, <2>1, <2>2, <2>4
  <2>5. CASE d # c /\ e # c
    BY <1>6, <1>8, <2>2, <2>5 DEF IInv, OnlyChild
  <2>6. QED
    BY <2>3, <2>4, <2>5
<1>15. QED
  BY <1>10, <1>11, <1>12, <1>13, <1>14 DEF IInv

-----------------------------------------------------------------------------
(* Each action is a step of one of these kinds: calls of browse().         *)

\* Registering a closure gives it an id and a user, and nothing else.
LEMMA RegisteredFacts ==
  ASSUME NEW o \in Op, browse_id_counter \in Nat
  PROVE  /\ Registered(o) \in Op /\ Handed(o) \in Op
         /\ Registered(o).handle = o.handle
         /\ Registered(o).of = o.of /\ Handed(o).of = o.of
         /\ Registered(o).cancelled = o.cancelled
         /\ Handed(o).cancelled = o.cancelled
         /\ Registered(o).phase = o.phase /\ Handed(o).phase = o.phase
         /\ Registered(o).count = o.count /\ Handed(o).count = o.count
         /\ Registered(o).waiting = o.waiting /\ Handed(o).waiting = o.waiting
         /\ Registered(o).remaining_count = o.remaining_count
         /\ Handed(o).remaining_count = o.remaining_count
<1>1. browse_id_counter + 1 \in Nat
  OBVIOUS
<1>2. QED
  BY <1>1 DEF Registered, Handed, Op

\* What parsing a playlist file makes of its closure.
LEMMA ParsedFacts ==
  ASSUME NEW o \in Op, NEW r \in ParsedPlaylists(o)
  PROVE  /\ r \in Op /\ LocalOK(r)
         /\ r.phase \in {"entries", "emitting"}
         /\ r.of = o.of /\ r.handle = o.handle /\ r.cancelled = o.cancelled
<1>1. o.asked \in Nat
  BY OpFields
<1>2. ASSUME NEW n \in 1 .. o.asked, NEW l \in 1 .. n,
             r = [o EXCEPT !.phase = "entries", !.uris = Rows("entry", o.offset, n),
                           !.waiting = 1 .. l]
      PROVE  /\ r \in Op /\ LocalOK(r) /\ r.phase = "entries"
             /\ r.of = o.of /\ r.handle = o.handle /\ r.cancelled = o.cancelled
  <2>1. Rows("entry", o.offset, n) \in Seq(Item)
    <3>1. n \in Nat /\ o.offset \in Nat /\ "entry" \in Labels
      BY <1>1, OpFields DEF Labels
    <3>2. QED
      BY <3>1, RowsType
  <2>2. 1 .. l \in SUBSET Nat /\ "entries" \in Phase
    BY <1>1 DEF Phase
  <2>3. QED
    BY <1>2, <2>1, <2>2 DEF Op, LocalOK
<1>3. ASSUME NEW n \in 1 .. o.asked,
             r = Emitting([o EXCEPT !.ids = Backwards("entry", o.offset, n)])
      PROVE  /\ r \in Op /\ LocalOK(r) /\ r.phase = "emitting"
             /\ r.of = o.of /\ r.handle = o.handle /\ r.cancelled = o.cancelled
  <2> DEFINE q == [o EXCEPT !.ids = Backwards("entry", o.offset, n)]
  <2>1. Backwards("entry", o.offset, n) \in Seq(Item)
    <3>1. n \in Nat /\ o.offset \in Nat /\ "entry" \in Labels
      BY <1>1, OpFields DEF Labels
    <3>2. QED
      BY <3>1, RowsType
  <2>2. /\ q \in Op /\ q.of = o.of /\ q.handle = o.handle
        /\ q.cancelled = o.cancelled
    BY <2>1 DEF Op
  <2> HIDE DEF q
  <2>3. r = Emitting(q)
    BY <1>3 DEF q
  <2>4. QED
    BY <2>2, <2>3, EmittingOK
<1>4. CASE r = Emitting(o)
  BY <1>4, EmittingOK
<1> DEFINE Entries(n) == {[o EXCEPT !.phase = "entries",
                                    !.uris = Rows("entry", o.offset, n),
                                    !.waiting = 1 .. l] : l \in 1 .. n}
           Local == UNION {Entries(n) : n \in 1 .. o.asked}
           Remote == {Emitting([o EXCEPT !.ids = Backwards("entry", o.offset, n)]) :
                        n \in 1 .. o.asked}
<1>5. ParsedPlaylists(o) = (Local \cup Remote) \cup {Emitting(o)}
  BY Zenon DEF ParsedPlaylists
<1>6. CASE r \in Local
  <2>1. \E n \in 1 .. o.asked :
          r \in Entries(n)
    BY <1>6, Zenon
  <2>2. \E n \in 1 .. o.asked : \E l \in 1 .. n :
          r = [o EXCEPT !.phase = "entries", !.uris = Rows("entry", o.offset, n),
                        !.waiting = 1 .. l]
    BY <2>1, Zenon
  <2>3. QED
    BY <1>2, <2>2
<1>7. CASE r \in Remote
  BY <1>3, <1>7
<1> HIDE DEF Local, Remote
<1>8. QED
  BY <1>4, <1>5, <1>6, <1>7

\* A closure fresh from the allocation has nothing to keep in phase.
LEMMA BlankFacts ==
  ASSUME NEW target \in AllTargets, NEW offset \in Nat, NEW asked \in Nat,
         NEW of \in (0 .. MaxCalls) \X Nat
  PROVE  LET o == Blank(target, of, offset, asked)
         IN  /\ o \in Op /\ LocalOK(o)
             /\ o.of = of /\ o.handle = 0 /\ o.phase = "none" /\ ~ o.cancelled
<1>1. Blank(target, of, offset, asked) \in Op
  BY BlankType
<1>2. QED
  BY <1>1 DEF Blank, LocalOK

\* What a call of browse() needs to know: who calls, and with which closure.
Calling(p, f, o) ==
  /\ calls < MaxCalls
  /\ p \in 0 .. MaxCalls
  /\ p = 0 => f = op /\ o.of = NoParent
  /\ p # 0 => /\ op[p].phase = "durations" /\ MovedIn(op, p, "nested", f)
              /\ o.of = <<p, op[p].current + 1>>
  /\ o \in Op /\ LocalOK(o) /\ o.handle = 0 /\ ~ o.cancelled
  /\ o.phase = "none"

\* Browsing a playlist, by a user or for a parent, preserves the invariant.
LEMMA PlaylistKeepsIInv ==
  ASSUME IInv, NEW p, NEW f, NEW o, Calling(p, f, o),
         BrowsePlaylist(f, o), requests' \in 0 .. Requests, UNCHANGED log
  PROVE  IInv'
<1>1. /\ browse_id_counter \in Nat /\ o \in Op /\ calls < MaxCalls
      /\ p \in 0 .. MaxCalls
      /\ p = 0 => f = op
      /\ p # 0 => op[p].phase = "durations" /\ MovedIn(op, p, "nested", f)
      /\ o.handle = 0 /\ ~ o.cancelled /\ o.phase = "none" /\ LocalOK(o)
  BY DEF IInv, TypeOK, Calling
<1>2. o.of[1] = p /\ (p # 0 => o.of[2] = op[p].current + 1)
  BY DEF Calling, NoParent
<1>3. o.of = NoParent <=> p = 0
  BY DEF Calling, NoParent
<1>4. calls' = calls + 1 /\ browse_id_counter' \in Nat
      /\ pending' = pending \cup {calls + 1}
  BY <1>1 DEF BrowsePlaylist
<1>5. CASE /\ op' = [f EXCEPT ![calls + 1] =
                       [Registered(o) EXCEPT !.phase = "unparsed"]]
           /\ errors' = errors \cup {calls + 1}
  <2> DEFINE n == Moved(Registered(o), "unparsed")
  <2>1. "unparsed" \in Phase
    BY DEF Phase
  <2>2. /\ n \in Op /\ n.of = o.of /\ n.handle = 0 /\ ~ n.cancelled
        /\ n.phase = "unparsed" /\ LocalOK(n)
    BY <1>1, <2>1, RegisteredFacts, MovedFacts DEF LocalOK
  <2>3. op' = [f EXCEPT ![calls + 1] = n]
    BY <1>5 DEF Moved
  <2> HIDE DEF n
  <2>4. n.of[1] = p /\ (p # 0 => n.of[2] = op[p].current + 1 /\ n.handle = 0)
    BY <1>2, <2>2
  <2>5. pending' = pending \cup (IF n.phase = "none" THEN {} ELSE {calls + 1})
    BY <1>4, <2>2
  <2>6. QED
    BY <1>1, <1>4, <1>5, <2>2, <2>3, <2>4, <2>5, OpenKeepsIInv
<1>6. ASSUME NEW q \in {Registered(o), Handed(o)},
             p # 0 => q = Registered(o),
             NEW n \in ParsedPlaylists(q),
             op' = [f EXCEPT ![calls + 1] = n], errors' = errors
      PROVE  IInv'
  <2>1. q \in Op /\ q.of = o.of /\ ~ q.cancelled /\ (p # 0 => q.handle = 0)
    BY <1>1, <1>6, RegisteredFacts
  <2>2. /\ n \in Op /\ n.of = o.of /\ ~ n.cancelled /\ (p # 0 => n.handle = 0)
        /\ n.phase \in {"entries", "emitting"} /\ LocalOK(n)
    BY <2>1, ParsedFacts
  <2>3. n.phase \in Active \ {"nested"}
    BY <2>2 DEF Active, Phase
  <2>4. n.of[1] = p /\ (p # 0 => n.of[2] = op[p].current + 1 /\ n.handle = 0)
    BY <1>2, <2>2
  <2>5. pending' = pending \cup (IF n.phase = "none" THEN {} ELSE {calls + 1})
    BY <1>4, <2>2
  <2>6. QED
    BY <1>1, <1>4, <1>6, <2>2, <2>3, <2>4, <2>5, OpenKeepsIInv
<1>7. \/ /\ op' = [f EXCEPT ![calls + 1] =
                     [Registered(o) EXCEPT !.phase = "unparsed"]]
         /\ errors' = errors \cup {calls + 1}
      \/ /\ \E n \in ParsedPlaylists(IF o.of = NoParent THEN Handed(o)
                                                       ELSE Registered(o)) :
              op' = [f EXCEPT ![calls + 1] = n]
         /\ errors' = errors
  BY DEF BrowsePlaylist
<1>8. QED
  BY <1>3, <1>5, <1>6, <1>7

\* So does browsing what browse() refuses.
LEMMA RefusedKeepsIInv ==
  ASSUME IInv, NEW p, NEW f, NEW o, Calling(p, f, o),
         BrowseRefused(f, o), requests' \in 0 .. Requests, UNCHANGED log
  PROVE  IInv'
<1>1. /\ browse_id_counter \in Nat /\ o \in Op /\ calls < MaxCalls
      /\ p \in 0 .. MaxCalls
      /\ p = 0 => f = op
      /\ p # 0 => op[p].phase = "durations" /\ MovedIn(op, p, "nested", f)
      /\ o.handle = 0 /\ ~ o.cancelled /\ o.phase = "none" /\ LocalOK(o)
  BY DEF IInv, TypeOK, Calling
<1>2. o.of[1] = p /\ (p # 0 => o.of[2] = op[p].current + 1)
  BY DEF Calling, NoParent
<1>3. /\ calls' = calls + 1 /\ browse_id_counter' \in Nat
      /\ pending' = pending \cup (IF o.phase = "none" THEN {} ELSE {calls + 1})
      /\ op' = [f EXCEPT ![calls + 1] = o]
      /\ errors' = errors \cup {calls + 1}
  BY <1>1 DEF BrowseRefused
<1>4. QED
  BY <1>1, <1>2, <1>3, OpenKeepsIInv

\* A call by a user.
LEMMA BrowseKeepsIInv ==
  ASSUME IInv, NEW target \in Targets, NEW skip_count \in Skips,
         NEW item_count \in 1 .. MaxRows, Browse(target, skip_count, item_count)
  PROVE  IInv'
<1> DEFINE o == Blank(target, NoParent, skip_count, item_count)
<1>1. target \in AllTargets /\ skip_count \in Nat /\ item_count \in Nat
  BY TargetsAssumption, SkipsAssumption
<1>2. NoParent \in (0 .. MaxCalls) \X Nat
  BY MaxCallsNat DEF NoParent
<1>3. /\ o \in Op /\ LocalOK(o) /\ o.of = NoParent /\ o.handle = 0
      /\ o.phase = "none" /\ ~ o.cancelled
  BY <1>1, <1>2, BlankFacts
<1>4. Calling(0, op, o)
  BY <1>3, MaxCallsNat DEF Browse, Calling
<1>5. /\ requests' \in 0 .. Requests /\ UNCHANGED log /\ calls < MaxCalls
      /\ browse_id_counter \in Nat
  <2>1. /\ requests < Requests /\ calls < MaxCalls
        /\ requests' = requests + 1 /\ UNCHANGED log
    BY Zenon DEF Browse
  <2>2. requests \in 0 .. Requests /\ browse_id_counter \in Nat
    BY DEF IInv, TypeOK
  <2>3. QED
    BY <2>1, <2>2, RequestsAssumption
<1>6. CASE BrowseRefused(op, o)
  <2> HIDE DEF o
  <2>1. QED
    BY <1>4, <1>5, <1>6, RefusedKeepsIInv
<1>7. CASE BrowsePlaylist(op, o)
  <2> HIDE DEF o
  <2>1. QED
    BY <1>4, <1>5, <1>7, PlaylistKeepsIInv
<1>8. ASSUME NEW asking \in Asking(o), BrowseQuery(asking)
      PROVE  IInv'
  <2>1. /\ asking \in Op /\ LocalOK(asking) /\ asking.of = o.of
        /\ asking.cancelled = o.cancelled
        /\ asking.phase \in {"query", "songs", "children", "playlists"}
    <3>1. /\ {"query", "songs", "children", "playlists"} \subseteq Phase
          /\ o.count > 0
      BY <1>1 DEF Phase, Blank
    <3>2. /\ 1 .. 2 \in SUBSET Nat /\ IsFiniteSet(1 .. 2)
          /\ Cardinality(1 .. 2) = 2
          /\ 1 .. 5 \in SUBSET Nat /\ IsFiniteSet(1 .. 5)
          /\ Cardinality(1 .. 5) = 5
      <4>1. 1 \in Int /\ 2 \in Int /\ 5 \in Int
        OBVIOUS
      <4>2. /\ IsFiniteSet(1 .. 2) /\ IsFiniteSet(1 .. 5)
            /\ Cardinality(1 .. 2) = IF 1 > 2 THEN 0 ELSE 2 - 1 + 1
            /\ Cardinality(1 .. 5) = IF 1 > 5 THEN 0 ELSE 5 - 1 + 1
        BY <4>1, FS_Interval, Zenon
      <4>3. QED
        BY <4>2
    <3> HIDE DEF o
    <3>3. CASE asking = [o EXCEPT !.phase = "query"]
      BY <1>3, <3>1, <3>3 DEF Op, LocalOK
    <3>4. CASE asking = [o EXCEPT !.phase = "songs"]
      BY <1>3, <3>1, <3>4 DEF Op, LocalOK
    <3>5. CASE asking = [o EXCEPT !.phase = "children", !.waiting = 1 .. 2,
                                  !.remaining_count = 2]
      BY <1>3, <3>1, <3>2, <3>5 DEF Op, LocalOK
    <3>6. CASE asking = [o EXCEPT !.phase = "children", !.waiting = 1 .. 5,
                                  !.remaining_count = 5]
      BY <1>3, <3>1, <3>2, <3>6 DEF Op, LocalOK
    <3>7. ASSUME NEW b \in BOOLEAN,
                 asking = [o EXCEPT !.phase = "playlists", !.duration = b]
          PROVE  /\ asking \in Op /\ LocalOK(asking) /\ asking.of = o.of
                 /\ asking.cancelled = o.cancelled
                 /\ asking.phase = "playlists"
      BY <1>3, <3>1, <3>7 DEF Op, LocalOK
    <3>8. QED
      BY <3>3, <3>4, <3>5, <3>6, <3>7 DEF Asking
  <2>2. /\ Handed(asking) \in Op /\ Handed(asking).of = NoParent
        /\ Handed(asking).phase \in Active \ {"nested"}
        /\ Handed(asking).phase # "none" /\ ~ Handed(asking).cancelled
        /\ LocalOK(Handed(asking))
    <3>1. /\ Handed(asking) \in Op /\ Handed(asking).of = asking.of
          /\ Handed(asking).phase = asking.phase
          /\ Handed(asking).cancelled = asking.cancelled
          /\ Handed(asking).count = asking.count
          /\ Handed(asking).waiting = asking.waiting
          /\ Handed(asking).remaining_count = asking.remaining_count
      BY <1>5, <2>1, RegisteredFacts
    <3>2. LocalOK(Handed(asking))
      BY <2>1, <3>1 DEF LocalOK
    <3>3. QED
      BY <1>3, <2>1, <3>1, <3>2 DEF Active, Phase
  <2>3. Handed(asking).of[1] = 0 /\ 0 \in 0 .. MaxCalls
    BY <2>2, MaxCallsNat DEF NoParent
  <2>4. /\ calls' = calls + 1 /\ browse_id_counter' \in Nat
        /\ errors' = errors
        /\ pending' = pending \cup (IF Handed(asking).phase = "none" THEN {}
                                                           ELSE {calls + 1})
        /\ op' = [op EXCEPT ![calls + 1] = Handed(asking)]
    BY <1>5, <1>8, <2>2 DEF BrowseQuery
  <2>5. QED
    BY <1>5, <2>2, <2>3, <2>4, OpenKeepsIInv
<1>9. QED
  BY <1>6, <1>7, <1>8 DEF Browse

\* A call by a parent that needs the duration of a playlist.
LEMMA AskKeepsIInv ==
  ASSUME IInv, NEW c \in Calls, AskDuration(c)
  PROVE  IInv'
<1> DEFINE of == <<c, op[c].current + 1>>
           waiting == [op EXCEPT ![c].phase = "nested"]
<1>1. /\ op \in [Calls -> Op] /\ op[c] \in Op
      /\ op[c].phase = "durations" /\ calls < MaxCalls
      /\ requests' \in 0 .. Requests /\ UNCHANGED log
  BY DEF IInv, TypeOK, AskDuration
<1>2. c \in 0 .. MaxCalls /\ c # 0 /\ MaxRows \in Nat
  BY MaxCallsNat, MaxRowsAssumption DEF Calls
<1>3. of \in (0 .. MaxCalls) \X Nat
  BY <1>1, <1>2, OpFields
<1>4. MovedIn(op, c, "nested", waiting)
  BY DEF MovedIn, Moved
<1>5. \A target \in AllTargets :
        Calling(c, waiting, Blank(target, of, 0, MaxRows))
  <2> HIDE DEF waiting
  <2>1. SUFFICES ASSUME NEW target \in AllTargets
                 PROVE  Calling(c, waiting, Blank(target, of, 0, MaxRows))
    OBVIOUS
  <2>2. LET o == Blank(target, of, 0, MaxRows)
        IN  /\ o \in Op /\ LocalOK(o)
            /\ o.of = of /\ o.handle = 0 /\ o.phase = "none" /\ ~ o.cancelled
    BY <1>2, <1>3, BlankFacts
  <2>3. QED
    BY <1>1, <1>2, <1>4, <2>2 DEF Calling
<1>6. \/ BrowseRefused(waiting, Blank("invalid", of, 0, MaxRows))
      \/ BrowsePlaylist(waiting, Blank("playlist", of, 0, MaxRows))
  BY DEF AskDuration
<1>7. "invalid" \in AllTargets /\ "playlist" \in AllTargets
  BY DEF AllTargets
<1>8. QED
  <2> HIDE DEF waiting, of
  <2>1. QED
    BY <1>1, <1>5, <1>6, <1>7, RefusedKeepsIInv, PlaylistKeepsIInv

-----------------------------------------------------------------------------
(* Each action is a step of one of these kinds: answers of Tracker.        *)

\* Rows put after, or an item put in front of, a list of items.
LEMMA MoreItemsType ==
  ASSUME NEW ids \in Seq(Item), NEW label \in Labels, NEW offset \in Nat, NEW n \in Nat
  PROVE  /\ ids \o Rows(label, offset, n) \in Seq(Item)
         /\ << <<label, n>> >> \o ids \in Seq(Item)
<1>1. <<label, n>> \in Item
  BY Zenon DEF Item
<1>2. Rows(label, offset, n) \in Seq(Item) /\ << <<label, n>> >> \in Seq(Item)
  <2>1. \A x \in Item : <<x>> \in Seq(Item)
    OBVIOUS
  <2>2. QED
    BY <1>1, <2>1, RowsType
<1>3. QED
  BY <1>2, ConcatProperties

\* The number of rows of an answer is a number, within the limit.
LEMMA LimitFacts ==
  ASSUME NEW o \in Op, NEW n \in Limit(o)
  PROVE  n \in Nat /\ (o.count > 0 => n <= o.count)
<1>1. o.count \in Nat /\ MaxRows \in Nat
  BY OpFields, MaxRowsAssumption
<1>2. QED
  BY <1>1 DEF Limit

\* A closure in a phase of waiting, put into emission.
LEMMA EmittingKeepsIInv ==
  ASSUME IInv, NEW c \in Calls, NEW q \in Op, Step(c, Emitting(q)),
         op[c].phase \in Active \ {"emitting", "nested"},
         q.handle = op[c].handle, q.of = op[c].of,
         q.cancelled = op[c].cancelled
  PROVE  IInv'
<1>1. /\ Emitting(q) \in Op /\ LocalOK(Emitting(q))
      /\ Emitting(q).phase = "emitting" /\ Emitting(q).handle = op[c].handle
      /\ Emitting(q).of = op[c].of /\ Emitting(q).cancelled = op[c].cancelled
  BY EmittingOK
<1>2. "emitting" \in Active \ {"nested"}
  BY DEF Active, Phase
<1>3. QED
  BY <1>1, <1>2, StepKeepsIInv

\* The last query of a browse answers: its rows are ready to be emitted, or
\* the error is.
LEMMA QueryAnswerKeepsIInv ==
  ASSUME IInv, NEW c \in Calls, op[c].phase = "query",
         NEW n \in Limit(op[c]),
         Step(c, Emitting([op[c] EXCEPT !.ids = @ \o Rows("row", op[c].offset, n)]))
  PROVE  IInv'
<1> DEFINE q == [op[c] EXCEPT !.ids = op[c].ids \o Rows("row", op[c].offset, n)]
<1>1. op[c] \in Op /\ op[c].ids \in Seq(Item) /\ n \in Nat /\ op[c].offset \in Nat
  BY OpFields, LimitFacts DEF IInv, TypeOK
<1>2. op[c].ids \o Rows("row", op[c].offset, n) \in Seq(Item)
  BY <1>1, MoreItemsType DEF Labels
<1>3. /\ q \in Op /\ q.handle = op[c].handle /\ q.of = op[c].of
      /\ q.cancelled = op[c].cancelled
  BY <1>1, <1>2 DEF Op
<1>4. op[c].phase \in Active \ {"emitting", "nested"}
  BY DEF Active, Phase
<1>5. Step(c, Emitting(q))
  OBVIOUS
<1>6. QED
  <2> HIDE DEF q
  <2>1. QED
    BY <1>3, <1>4, <1>5, EmittingKeepsIInv

\* The songs of the root answer: emission starts, or the videos are asked.
LEMMA SongsAnswerKeepsIInv ==
  ASSUME IInv, NEW c \in Calls, SongsAnswer(c)
  PROVE  IInv'
<1>1. /\ op[c] \in Op /\ op[c].ids \in Seq(Item) /\ op[c].phase = "songs"
      /\ op[c].count \in Nat /\ LocalOK(op[c])
  BY OpFields DEF IInv, TypeOK, SongsAnswer
<1>2. /\ op[c].phase \in Active \ {"emitting", "nested"}
      /\ "query" \in Active \ {"nested"} /\ "query" \in Phase
  BY <1>1 DEF Active, Phase
<1>3. CASE Step(c, [op[c] EXCEPT !.phase = "query"])
  <2> DEFINE q == Moved(op[c], "query")
  <2>1. /\ q \in Op /\ q.phase = "query" /\ q.handle = op[c].handle
        /\ q.of = op[c].of /\ q.cancelled = op[c].cancelled
    BY <1>1, <1>2, MovedFacts
  <2>2. LocalOK(q) /\ Step(c, q)
    BY <1>3, <2>1 DEF LocalOK, Moved
  <2> HIDE DEF q
  <2>3. QED
    BY <1>2, <2>1, <2>2, StepKeepsIInv
<1>4. ASSUME NEW n \in Limit(op[c])
      PROVE  /\ op[c].ids \o Rows("song", op[c].offset, n) \in Seq(Item)
             /\ op[c].count - n \in Nat
  <2>1. n \in Nat /\ n <= op[c].count
    BY <1>1, LimitFacts DEF LocalOK
  <2>2. "song" \in Labels /\ op[c].offset \in Nat
    BY <1>1, OpFields DEF Labels
  <2>3. op[c].count - n \in Nat
    BY <1>1, <2>1
  <2>4. op[c].ids \o Rows("song", op[c].offset, n) \in Seq(Item)
    BY <1>1, <2>1, <2>2, MoreItemsType, Zenon
  <2>5. QED
    BY <2>3, <2>4
<1>5. ASSUME NEW n \in Limit(op[c]), NEW q,
             q = [op[c] EXCEPT !.ids = op[c].ids \o Rows("song", op[c].offset, n),
                               !.count = op[c].count - n],
             Step(c, IF q.count = 0 THEN Emitting(q)
                                    ELSE [q EXCEPT !.phase = "query"])
      PROVE  IInv'
  <2>1. /\ q \in Op /\ q.handle = op[c].handle /\ q.of = op[c].of
        /\ q.cancelled = op[c].cancelled
    BY <1>1, <1>4, <1>5 DEF Op
  <2>2. CASE q.count = 0
    <3>1. Step(c, Emitting(q))
      BY <1>5, <2>2, Zenon
    <3>2. QED
      BY <1>2, <2>1, <3>1, EmittingKeepsIInv
  <2>3. CASE q.count # 0
    <3> DEFINE r == Moved(q, "query")
    <3>1. /\ r \in Op /\ r.phase = "query" /\ r.handle = op[c].handle
          /\ r.of = op[c].of /\ r.cancelled = op[c].cancelled
      BY <1>2, <2>1, MovedFacts
    <3>2. LocalOK(r)
      BY <3>1 DEF LocalOK
    <3>3. Step(c, r)
      BY <1>5, <2>3, Zenon DEF Moved
    <3> HIDE DEF r
    <3>4. QED
      BY <1>2, <3>1, <3>2, <3>3, StepKeepsIInv
  <2>4. QED
    BY <2>2, <2>3
<1>6. QED
  BY <1>3, <1>5, Zenon DEF SongsAnswer

\* A child of the root or of music answers: remaining_count goes down with
\* the set of children still waited for.
LEMMA ChildAnswerKeepsIInv ==
  ASSUME IInv, NEW c \in Calls, ChildAnswer(c)
  PROVE  IInv'
<1>1. /\ op[c] \in Op /\ op[c].ids \in Seq(Item) /\ op[c].phase = "children"
      /\ op[c].waiting \in SUBSET Nat /\ IsFiniteSet(op[c].waiting)
      /\ op[c].remaining_count = Cardinality(op[c].waiting)
  <2>1. op[c] \in Op /\ op[c].phase = "children" /\ LocalOK(op[c])
    BY DEF IInv, TypeOK, ChildAnswer
  <2>2. QED
    BY <2>1, OpFields DEF Op, LocalOK
<1>2. /\ op[c].phase \in Active \ {"emitting", "nested"}
      /\ op[c].phase \in Active \ {"nested"}
  BY <1>1 DEF Active, Phase
<1>3. ASSUME NEW k \in op[c].waiting
      PROVE  /\ << <<"child", k>> >> \o op[c].ids \in Seq(Item)
             /\ Decremented(op[c].remaining_count) \in Nat
             /\ Decremented(op[c].remaining_count) = Cardinality(op[c].waiting \ {k})
             /\ IsFiniteSet(op[c].waiting \ {k})
             /\ op[c].waiting \ {k} \in SUBSET Nat
  <2>1. k \in Nat /\ "child" \in Labels
    BY <1>1 DEF Labels
  <2>2. << <<"child", k>> >> \o op[c].ids \in Seq(Item)
    BY <1>1, <2>1, MoreItemsType, Zenon
  <2>3. /\ IsFiniteSet(op[c].waiting \ {k})
        /\ Cardinality(op[c].waiting \ {k}) = Cardinality(op[c].waiting) - 1
    BY <1>1, FS_RemoveElement
  <2>4. Cardinality(op[c].waiting \ {k}) \in Nat
    BY <2>3, FS_CardinalityType
  <2>5. op[c].remaining_count \in Nat
    BY <1>1, OpFields
  <2>6. Decremented(op[c].remaining_count) = op[c].remaining_count - 1
    BY <1>1, <2>3, <2>4, <2>5, DecrementedFacts
  <2>7. QED
    BY <1>1, <2>2, <2>3, <2>4, <2>6
<1>4. ASSUME NEW k \in op[c].waiting,
             NEW ids \in {op[c].ids, << <<"child", k>> >> \o op[c].ids}, NEW q,
             q = [op[c] EXCEPT !.waiting = op[c].waiting \ {k}, !.ids = ids,
                               !.remaining_count = Decremented(op[c].remaining_count)],
             Step(c, IF q.remaining_count = 0 THEN Emitting(q) ELSE q)
      PROVE  IInv'
  <2>1. /\ q \in Op /\ q.handle = op[c].handle /\ q.of = op[c].of
        /\ q.cancelled = op[c].cancelled /\ q.phase = op[c].phase
        /\ q.waiting = op[c].waiting \ {k}
        /\ q.remaining_count = Decremented(op[c].remaining_count)
    BY <1>1, <1>3, <1>4 DEF Op
  <2>2. LocalOK(q)
    BY <1>1, <1>3, <2>1 DEF LocalOK
  <2>3. CASE q.remaining_count = 0
    <3>1. Step(c, Emitting(q))
      BY <1>4, <2>3, Zenon
    <3>2. QED
      BY <1>2, <2>1, <3>1, EmittingKeepsIInv
  <2>4. CASE q.remaining_count # 0
    <3>1. Step(c, q)
      BY <1>4, <2>4, Zenon
    <3>2. QED
      BY <1>2, <2>1, <2>2, <3>1, StepKeepsIInv
  <2>5. QED
    BY <2>3, <2>4
<1>5. QED
  BY <1>4, Zenon DEF ChildAnswer

\* The playlists category answers.
LEMMA PlaylistsAnswerKeepsIInv ==
  ASSUME IInv, NEW c \in Calls, op[c].phase = "playlists",
         NEW n \in Limit(op[c]), NEW q,
         q = [op[c] EXCEPT !.ids = Rows("playlist", op[c].offset, n), !.current = 0],
         NEW untimed \in SUBSET (IF n = 0 THEN {1} ELSE 1 .. n),
         \/ Step(c, Emitting(q))
         \/ Step(c, [q EXCEPT !.phase = "durations", !.untimed = untimed])
  PROVE  IInv'
<1>1. op[c] \in Op
  BY DEF IInv, TypeOK
<1>2. /\ op[c].phase \in Active \ {"emitting", "nested"}
      /\ "durations" \in Active \ {"nested"} /\ "durations" \in Phase
  BY DEF Active, Phase
<1>3. /\ q \in Op /\ q.handle = op[c].handle /\ q.of = op[c].of
      /\ q.cancelled = op[c].cancelled
  <2>1. n \in Nat /\ op[c].offset \in Nat /\ "playlist" \in Labels
    BY <1>1, OpFields, LimitFacts DEF Labels
  <2>2. Rows("playlist", op[c].offset, n) \in Seq(Item)
    BY <2>1, RowsType, Zenon
  <2>3. QED
    BY <1>1, <2>2 DEF Op
<1>4. CASE Step(c, Emitting(q))
  BY <1>2, <1>3, <1>4, EmittingKeepsIInv
<1>5. ASSUME NEW r, r = [q EXCEPT !.phase = "durations", !.untimed = untimed],
             Step(c, r)
      PROVE  IInv'
  <2>1. untimed \in SUBSET Nat
    <3>1. n \in Nat
      BY <1>1, LimitFacts
    <3>2. QED
      BY <3>1
  <2>2. /\ r \in Op /\ r.handle = op[c].handle /\ r.of = op[c].of
        /\ r.cancelled = op[c].cancelled /\ r.phase = "durations"
    BY <1>2, <1>3, <1>5, <2>1, ZenonT(40) DEF Op
  <2>3. LocalOK(r)
    BY <2>2 DEF LocalOK
  <2>4. QED
    BY <1>2, <1>5, <2>2, <2>3, StepKeepsIInv
<1>6. QED
  BY <1>4, <1>5

\* get_metadatas() calls back with the entries of a playlist, or never will.
LEMMA EntriesKeepsIInv ==
  ASSUME IInv, NEW c \in Calls, EntriesAnswer(c) \/ EntriesLost(c)
  PROVE  IInv'
<1>1. /\ op[c] \in Op /\ op[c].phase = "entries" /\ op[c].uris \in Seq(Item)
  BY OpFields DEF IInv, TypeOK, EntriesAnswer, EntriesLost
<1>2. /\ op[c].phase \in Active \ {"emitting", "nested"}
      /\ "orphaned" \in Active \ {"nested"} /\ "orphaned" \in Phase
  BY <1>1 DEF Active, Phase
<1>3. ASSUME NEW q, q = [op[c] EXCEPT !.ids = op[c].uris, !.waiting = {}],
             Step(c, Emitting(q))
      PROVE  IInv'
  <2>1. /\ q \in Op /\ q.handle = op[c].handle /\ q.of = op[c].of
        /\ q.cancelled = op[c].cancelled
    BY <1>1, <1>3 DEF Op
  <2>2. QED
    BY <1>2, <1>3, <2>1, EmittingKeepsIInv
<1>4. ASSUME NEW q, q = Moved(op[c], "orphaned"), Step(c, q)
      PROVE  IInv'
  <2>1. /\ q \in Op /\ q.phase = "orphaned" /\ q.handle = op[c].handle
        /\ q.of = op[c].of /\ q.cancelled = op[c].cancelled
    BY <1>1, <1>2, <1>4, MovedFacts
  <2>2. LocalOK(q)
    BY <2>1 DEF LocalOK
  <2>3. QED
    BY <1>2, <1>4, <2>1, <2>2, StepKeepsIInv
<1>5. QED
  BY <1>3, <1>4, Zenon DEF EntriesAnswer, EntriesLost, Moved

\* A playlist whose duration is known is passed over.
LEMMA SkipKeepsIInv ==
  ASSUME IInv, NEW c \in Calls, SkipDuration(c)
  PROVE  IInv'
<1>1. op[c] \in Op /\ op[c].phase = "durations" /\ op[c].current + 1 \in Nat
  BY OpFields DEF IInv, TypeOK, SkipDuration
<1>2. /\ op[c].phase \in Active \ {"emitting", "nested"}
      /\ op[c].phase \in Active \ {"nested"}
  BY <1>1 DEF Active, Phase
<1>3. CASE Step(c, Emitting(op[c]))
  BY <1>1, <1>2, <1>3, EmittingKeepsIInv
<1>4. ASSUME NEW q, q = [op[c] EXCEPT !.current = op[c].current + 1],
             Step(c, q)
      PROVE  IInv'
  <2>1. /\ q \in Op /\ q.phase = op[c].phase /\ q.handle = op[c].handle
        /\ q.of = op[c].of /\ q.cancelled = op[c].cancelled
    BY <1>1, <1>4 DEF Op
  <2>2. LocalOK(q)
    BY <1>1, <2>1 DEF LocalOK
  <2>3. QED
    BY <1>2, <1>4, <2>1, <2>2, StepKeepsIInv
<1>5. Step(c, Emitting(op[c]))
      \/ Step(c, [op[c] EXCEPT !.current = op[c].current + 1])
  BY Zenon DEF SkipDuration
<1>6. QED
  BY <1>3, <1>4, <1>5

-----------------------------------------------------------------------------
(* Each action is a step of one of these kinds: last callbacks.            *)

\* _emit_browse_error, from a phase that waits for Tracker.
LEMMA ErrorKeepsIInv ==
  ASSUME IInv, NEW c \in Calls, EmitBrowseError(c),
         op[c].phase \in Active \ {"emitting", "nested"}
  PROVE  IInv'
<1> DEFINE gone == [op EXCEPT ![c].phase = "failed"]
<1>1. "failed" \in Phase \ Active /\ op[c].phase \notin {"none"}
  BY DEF Active, Phase
<1>2. c \notin errors
  BY DEF IInv, LogOK, Active
<1>3. UNCHANGED <<requests, calls, browse_id_counter, pending, errors>>
  BY DEF EmitBrowseError
<1>4. CASE op[c].cancelled
  <2>1. op' = gone /\ UNCHANGED log
    BY <1>4 DEF EmitBrowseError
  <2>2. pending' = pending \ (IF "failed" = "freed" THEN {c} ELSE {})
    BY <1>3
  <2>3. op[c].phase \in Active \ {"nested"}
    OBVIOUS
  <2>4. "failed" \in {"failed", "freed"}
    OBVIOUS
  <2>5. QED
    BY <1>3, <1>4, <2>1, <2>2, <2>3, <2>4, DropKeepsIInv
<1>5. CASE ~ op[c].cancelled
  <2>1. /\ op' = Heard(gone, c, 0)
        /\ log' = [log EXCEPT ![c] = Append(@, ErrorCallback)]
    BY <1>5 DEF EmitBrowseError
  <2>2. /\ Moved(op[c], "failed") \in Op
        /\ SameCall(op[c], "failed", Moved(op[c], "failed"))
        /\ PutIn(op, c, Moved(op[c], "failed"), gone)
    <3>1. op[c] \in Op
      BY DEF IInv, TypeOK
    <3>2. PutIn(op, c, Moved(op[c], "failed"), gone)
      BY DEF PutIn, Moved
    <3>3. QED
      BY <1>1, <3>1, <3>2, MovedSameCall
  <2>3. /\ ErrorCallback \in LogEntry /\ ErrorCallback.remaining = 0
        /\ Live(c) /\ op[c].phase # "nested" /\ errors' = errors \ {c}
        /\ pending' = pending \ (IF "failed" = "freed" THEN {c} ELSE {})
        /\ "failed" = "none" <=> op[c].phase = "none"
    BY <1>1, <1>2, <1>3, NoItemType DEF ErrorCallback, Callback, Live
  <2> HIDE DEF gone
  <2>4. QED
    BY <1>1, <1>3, <2>1, <2>2, <2>3, EndKeepsIInv
<1>6. QED
  BY <1>4, <1>5

\* The last result: whatever the counters have become, the closure is freed.
LEMMA LastKeepsIInv ==
  ASSUME IInv, NEW c \in Calls, EmitLast(c)
  PROVE  IInv'
<1> DEFINE q == Moved(Advanced(op[c]), "freed")
           gone == [op EXCEPT ![c] = q]
           callback == Callback(CurrentItem(op[c]), op[c].remaining_count,
                                op[c].current_index, FALSE)
<1>1. /\ op[c].phase = "emitting" /\ ~ MoreIds(op[c])
      /\ log' = [log EXCEPT ![c] = Append(@, callback)]
      /\ op' = Heard(gone, c, op[c].remaining_count)
      /\ pending' = pending \ {c}
      /\ UNCHANGED <<requests, calls, browse_id_counter, errors>>
  BY Zenon DEF EmitLast, Moved
<1>2. op[c].remaining_count = 0 /\ callback \in LogEntry
  BY <1>1, EmissionFacts
<1>3. callback.remaining = 0 /\ op' = Heard(gone, c, 0)
  BY <1>1, <1>2 DEF Callback
<1>4. q \in Op /\ SameCall(op[c], "freed", q)
  <2>1. op[c] \in Op /\ "freed" \in Phase
    BY DEF IInv, TypeOK, Phase
  <2>2. QED
    BY <2>1, AdvancedFacts, MovedFacts DEF SameCall
<1>5. /\ Live(c) /\ op[c].phase # "nested" /\ c \notin errors
      /\ "freed" \in Phase \ Active
      /\ "freed" = "none" <=> op[c].phase = "none"
  <2>1. LogOK(c)
    BY DEF IInv
  <2>2. QED
    BY <1>1, <2>1 DEF LogOK, Live, Active, Phase
<1>6. /\ errors' = errors \ {c}
      /\ pending' = pending \ (IF "freed" = "freed" THEN {c} ELSE {})
  BY <1>1, <1>5
<1>7. QED
  <2>1. PutIn(op, c, q, gone)
    BY DEF PutIn
  <2> HIDE DEF q, gone, callback
  <2>2. QED
    BY <1>1, <1>2, <1>3, <1>4, <1>5, <1>6, <2>1, EndKeepsIInv

\* The emission idle of a cancelled operation.
LEMMA DropCancelledKeepsIInv ==
  ASSUME IInv, NEW c \in Calls, DropCancelled(c)
  PROVE  IInv'
<1>1. /\ op[c].phase = "emitting" /\ op[c].cancelled
      /\ op' = [op EXCEPT ![c].phase = "freed"]
      /\ pending' = pending \ (IF "freed" = "freed" THEN {c} ELSE {})
      /\ UNCHANGED <<requests, calls, browse_id_counter, errors, log>>
  BY DEF DropCancelled
<1>2. op[c].phase \in Active \ {"nested"} /\ "freed" \in {"failed", "freed"}
  BY <1>1 DEF Active, Phase
<1>3. QED
  BY <1>1, <1>2, DropKeepsIInv

\* _send_error_idle: the closure, if there is one, stays as it is.
LEMMA SendErrorKeepsIInv ==
  ASSUME IInv, NEW c \in Calls, SendError(c)
  PROVE  IInv'
<1>1. /\ c \in errors /\ errors' = errors \ {c}
      /\ log' = [log EXCEPT ![c] = Append(@, ErrorCallback)]
      /\ op' = Heard(op, c, 0)
      /\ UNCHANGED <<requests, calls, browse_id_counter, pending>>
  BY DEF SendError
<1>2. op[c].phase \in {"none", "unparsed"}
  BY <1>1 DEF IInv, LogOK
<1>3. /\ Live(c) /\ op[c].phase # "nested" /\ op[c].phase \in Phase \ Active
      /\ op[c].phase # "freed"
      /\ op[c].phase = "none" <=> op[c].phase = "none"
  BY <1>1, <1>2 DEF Live, Active, Phase
<1>4. pending' = pending \ (IF op[c].phase = "freed" THEN {c} ELSE {})
  BY <1>1, <1>3
<1>5. /\ op[c] \in Op /\ SameCall(op[c], op[c].phase, op[c])
      /\ PutIn(op, c, op[c], op)
  BY DEF IInv, TypeOK, SameCall, PutIn
<1>6. ErrorCallback \in LogEntry /\ ErrorCallback.remaining = 0
  BY NoItemType DEF ErrorCallback, Callback
<1>7. QED
  BY <1>1, <1>3, <1>4, <1>5, <1>6, EndKeepsIInv

-----------------------------------------------------------------------------
(* The invariant, and what follows from it.                                *)

\* Before any call there is nothing to keep in phase.
LEMMA InitEstablishesIInv == Init => IInv
<1> SUFFICES ASSUME Init
             PROVE  IInv
  OBVIOUS
<1>1. MaxCalls \in Nat /\ NoParent \in (0 .. MaxCalls) \X Nat
  BY MaxCallsNat DEF NoParent
<1> DEFINE blank == Blank("invalid", NoParent, 0, 0)
<1>2. /\ blank \in Op /\ LocalOK(blank) /\ blank.of[1] = 0
      /\ blank.phase = "none" /\ ~ blank.cancelled
  <2>1. "invalid" \in AllTargets /\ 0 \in Nat
    BY DEF AllTargets
  <2>2. QED
    BY <1>1, <2>1, BlankFacts DEF NoParent
<1>3. \A c \in Calls : op[c] = blank /\ log[c] = << >>
  BY DEF Init
<1> HIDE DEF blank
<1>4. requests = 0 /\ calls = 0 /\ browse_id_counter = 0 /\ pending = {} /\ errors = {}
  BY DEF Init
<1>5. TypeOK
  <2>1. << >> \in Seq(LogEntry)
    OBVIOUS
  <2>2. op \in [Calls -> Op] /\ log \in [Calls -> Seq(LogEntry)]
    <3>1. DOMAIN op = Calls /\ DOMAIN log = Calls
      BY DEF Init
    <3>2. /\ op = [c \in Calls |-> blank]
          /\ log = [c \in Calls |-> << >>]
      BY DEF Init, blank
    <3>3. QED
      BY <1>2, <2>1, <3>2
  <2>3. 0 \in 0 .. Requests /\ 0 \in 0 .. MaxCalls /\ 0 \in Nat
    BY <1>1, RequestsAssumption
  <2>4. QED
    BY <1>4, <2>2, <2>3 DEF TypeOK, LogEntry
<1>6. \A c \in Calls : c > 0 /\ ~ Live(c)
  BY <1>1, <1>2, <1>3, <1>4 DEF Calls, Live, Active
<1>7. PendingExact
  BY <1>2, <1>3, <1>4 DEF PendingExact
<1>8. \A c \in Calls : LocalOK(op[c])
  BY <1>2, <1>3
<1>9. ASSUME NEW c \in Calls
      PROVE  LogOK(c) /\ FreshOK(c) /\ CancelOK(c) /\ ParentOK(c)
  <2>1. LogOK(c)
    <3>1. ~ (c <= calls)
      BY <1>1, <1>4, <1>6 DEF Calls
    <3>2. QED
      BY <1>2, <1>3, <1>4, <3>1 DEF LogOK, Active
  <2>2. FreshOK(c)
    BY <1>3, <1>4 DEF FreshOK, blank
  <2>3. CancelOK(c) /\ ParentOK(c)
    BY <1>2, <1>3, <1>4, <1>6 DEF CancelOK, ParentOK
  <2>4. QED
    BY <2>1, <2>2, <2>3
<1>10. OnlyChild
  BY <1>6 DEF OnlyChild
<1>11. QED
  BY <1>5, <1>7, <1>8, <1>9, <1>10 DEF IInv

\* Every step preserves the invariant: one case per action.
LEMMA NextKeepsIInv == IInv /\ [Next]_vars => IInv'
<1> SUFFICES ASSUME IInv, [Next]_vars
             PROVE  IInv'
  OBVIOUS
<1>1. CASE UNCHANGED vars
  BY <1>1 DEF vars, IInv, TypeOK, PendingExact, LogOK, FreshOK, CancelOK,
              ParentOK, OnlyChild, Live, Finished
<1>2. CASE \E target \in Targets, skip_count \in Skips, item_count \in 1 .. MaxRows :
             Browse(target, skip_count, item_count)
  BY <1>2, BrowseKeepsIInv
<1>3. ASSUME NEW c \in Calls, CancelBrowse(c)
      PROVE  IInv'
  BY <1>3, CancelKeepsIInv
<1>4. ASSUME NEW c \in Calls, Handler(c)
      PROVE  IInv'
  <2>1. CASE QueryAnswer(c)
    <3>1. op[c].phase = "query"
      BY <2>1 DEF QueryAnswer
    <3>2. op[c].phase \in Active \ {"emitting", "nested"}
      BY <3>1 DEF Active, Phase
    <3>3. CASE EmitBrowseError(c)
      BY <3>2, <3>3, ErrorKeepsIInv
    <3>4. CASE \E n \in Limit(op[c]) :
                 Step(c, Emitting([op[c] EXCEPT !.ids = @ \o Rows("row", op[c].offset, n)]))
      BY <3>1, <3>4, QueryAnswerKeepsIInv
    <3>5. QED
      BY <2>1, <3>3, <3>4 DEF QueryAnswer
  <2>2. CASE SongsAnswer(c)
    BY <2>2, SongsAnswerKeepsIInv
  <2>3. CASE ChildAnswer(c)
    BY <2>3, ChildAnswerKeepsIInv
  <2>4. CASE PlaylistsAnswer(c)
    <3>1. op[c].phase = "playlists"
      BY <2>4 DEF PlaylistsAnswer
    <3>2. op[c].phase \in Active \ {"emitting", "nested"}
      BY <3>1 DEF Active, Phase
    <3>3. CASE EmitBrowseError(c)
      BY <3>2, <3>3, ErrorKeepsIInv
    <3>4. ASSUME NEW n \in Limit(op[c]), NEW q,
                 q = [op[c] EXCEPT !.ids = Rows("playlist", op[c].offset, n), !.current = 0],
                 IF q.duration
                 THEN \E untimed \in SUBSET (IF n = 0 THEN {1} ELSE 1 .. n) :
                        Step(c, [q EXCEPT !.phase = "durations",
                                          !.untimed = untimed])
                 ELSE Step(c, Emitting(q))
          PROVE  IInv'
      <4>1. {} \in SUBSET (IF n = 0 THEN {1} ELSE 1 .. n)
        OBVIOUS
      <4>2. QED
        BY <3>1, <3>4, <4>1, PlaylistsAnswerKeepsIInv
    <3>5. QED
      BY <2>4, <3>3, <3>4, Zenon DEF PlaylistsAnswer
  <2>5. CASE EntriesAnswer(c) \/ EntriesLost(c)
    BY <2>5, EntriesKeepsIInv
  <2>6. CASE AskDuration(c)
    BY <2>6, AskKeepsIInv
  <2>7. CASE SkipDuration(c)
    BY <2>7, SkipKeepsIInv
  <2>8. CASE EmitResult(c)
    BY <2>8, EmitKeepsIInv
  <2>9. CASE EmitLast(c)
    BY <2>9, LastKeepsIInv
  <2>10. CASE DropCancelled(c)
    BY <2>10, DropCancelledKeepsIInv
  <2>11. CASE SendError(c)
    BY <2>11, SendErrorKeepsIInv
  <2>12. QED
    BY <1>4, <2>1, <2>2, <2>3, <2>4, <2>5, <2>6, <2>7, <2>8, <2>9, <2>10,
       <2>11 DEF Handler
<1>5. QED
  BY <1>1, <1>2, <1>3, <1>4 DEF Next

\* IInv holds throughout.
THEOREM Invariance == Spec => []IInv
BY InitEstablishesIInv, NextKeepsIInv, PTL DEF Spec

\* Every variable and every field keeps its type, for any number of requests
\* and rows; in particular the songs deducted from the count of a query are
\* never more than it asks for, so that this unsigned count does not wrap.
THEOREM TypeCorrect == Spec => []TypeOK
<1>1. IInv => TypeOK
  BY DEF IInv
<1>2. QED
  BY <1>1, Invariance, PTL

\* The list that cancel_browse() walks never holds a freed closure and never
\* misses one that is allocated.
THEOREM PendingListExact == Spec => []PendingExact
<1>1. IInv => PendingExact
  BY DEF IInv
<1>2. QED
  BY <1>1, Invariance, PTL

\* When a nested browse has something left to do, the parent whose closure
\* its callback will dereference is waiting for it, at that very row, and all
\* the others it started are over.
THEOREM ParentsWait == Spec => []ParentWaits
<1>1. IInv => ParentWaits
  <2>1. SUFFICES ASSUME IInv, NEW c \in Calls, op[c].of[1] # 0, Live(c)
                 PROVE  /\ op[op[c].of[1]].phase = "nested"
                        /\ op[c].of[2] = op[op[c].of[1]].current + 1
                        /\ \A d \in Calls :
                             op[d].of[1] = op[c].of[1] /\ d # c => Finished(d)
    BY Zenon DEF ParentWaits, Live
  <2>2. /\ op[op[c].of[1]].phase = "nested"
        /\ op[c].of[2] = op[op[c].of[1]].current + 1
    BY <2>1 DEF IInv, ParentOK
  <2>3. ASSUME NEW d \in Calls, op[d].of[1] = op[c].of[1], d # c
        PROVE  Finished(d)
    <3>1. ~ Live(d)
      BY <2>1, <2>3 DEF IInv, OnlyChild
    <3>2. d <= calls
      BY <2>1, <2>3, CallFacts
    <3>3. ~ op[d].cancelled
      BY <2>1, <2>3, CancelledFacts
    <3>4. LogOK(d)
      BY <2>1 DEF IInv
    <3>5. QED
      BY <3>1, <3>2, <3>3, <3>4 DEF LogOK
  <2>4. QED
    BY <2>2, <2>3
<1>2. QED
  BY <1>1, Invariance, PTL

\* Only handlers make callbacks, and only for a call that has not had its
\* last one and has not been cancelled.
LEMMA CallbackFacts ==
  ASSUME IInv, Next, NEW d \in Calls, log'[d] # log[d]
  PROVE  ~ op[d].cancelled /\ ~ Finished(d)
<1>1. log \in [Calls -> Seq(LogEntry)]
  BY DEF IInv, TypeOK, LogEntry
<1>2. ASSUME NEW c \in Calls, NEW callback,
             log' = [log EXCEPT ![c] = Append(@, callback)]
      PROVE  c = d
  BY <1>1, <1>2
<1>3. ASSUME NEW target \in Targets, NEW skip_count \in Skips,
             NEW item_count \in 1 .. MaxRows,
             Browse(target, skip_count, item_count)
      PROVE  FALSE
  BY <1>3, Zenon DEF Browse
<1>4. ASSUME NEW c \in Calls, CancelBrowse(c)
      PROVE  FALSE
  BY <1>4, Zenon DEF CancelBrowse
<1>5. ASSUME NEW c \in Calls, NEW o, Step(c, o)
      PROVE  FALSE
  BY <1>5, Zenon DEF Step
<1>6. ASSUME NEW c \in Calls, EmitBrowseError(c),
             op[c].phase \in {"query", "playlists"}
      PROVE  ~ op[d].cancelled /\ ~ Finished(d)
  <2>1. CASE op[c].cancelled
    BY <1>6, <2>1 DEF EmitBrowseError
  <2>2. CASE ~ op[c].cancelled
    <3>1. c = d
      BY <1>2, <1>6, <2>2 DEF EmitBrowseError
    <3>2. log[c] = << >>
      BY <1>6 DEF IInv, LogOK, Active, Phase
    <3>3. QED
      BY <2>2, <3>1, <3>2 DEF Finished
  <2>3. QED
    BY <2>1, <2>2
<1>7. ASSUME NEW c \in Calls, EmitResult(c) \/ EmitLast(c)
      PROVE  ~ op[d].cancelled /\ ~ Finished(d)
  <2>1. op[c].phase = "emitting" /\ ~ op[c].cancelled /\ c = d
    BY <1>2, <1>7 DEF EmitResult, EmitLast
  <2>2. op[c].remaining_count \in Nat
    BY <2>1, EmissionFacts
  <2>3. ~ Finished(c)
    BY <2>1, <2>2 DEF IInv, LogOK, Finished
  <2>4. QED
    BY <2>1, <2>3
<1>8. ASSUME NEW c \in Calls, SendError(c)
      PROVE  ~ op[d].cancelled /\ ~ Finished(d)
  <2>1. c \in errors /\ c = d
    BY <1>2, <1>8 DEF SendError
  <2>2. log[c] = << >>
    BY <2>1 DEF IInv, LogOK
  <2>3. QED
    BY <2>1, <2>2, CancelledFacts DEF Finished
<1>9. ASSUME NEW c \in Calls, DropCancelled(c) \/ AskDuration(c)
      PROVE  FALSE
  BY <1>9, Zenon DEF DropCancelled, AskDuration
<1>10. ASSUME NEW c \in Calls, Handler(c)
       PROVE  ~ op[d].cancelled /\ ~ Finished(d)
  <2>1. CASE QueryAnswer(c) \/ PlaylistsAnswer(c)
    BY <1>5, <1>6, <2>1, Zenon DEF QueryAnswer, PlaylistsAnswer
  <2>2. CASE SongsAnswer(c) \/ ChildAnswer(c)
    BY <1>5, <2>2, Zenon DEF SongsAnswer, ChildAnswer
  <2>3. CASE EntriesAnswer(c) \/ EntriesLost(c) \/ SkipDuration(c)
    BY <1>5, <2>3, Zenon DEF EntriesAnswer, EntriesLost, SkipDuration
  <2>4. QED
    BY <1>7, <1>8, <1>9, <1>10, <2>1, <2>2, <2>3 DEF Handler
<1>11. QED
  BY <1>3, <1>4, <1>10 DEF Next

\* No result and no error reaches a user after a cancel_browse() that found
\* the operation, whatever answers of Tracker are still on their way.
THEOREM NothingComesAfterCancel == Spec => NothingAfterCancel
<1>1. IInv /\ [Next]_vars =>
        [\A c \in Calls : op[c].cancelled => log'[c] = log[c]]_vars
  BY CallbackFacts
<1>2. QED
  BY <1>1, Invariance, PTL DEF Spec, NothingAfterCancel

\* No callback of a call ever follows the one that announced no more: neither
\* a second error after a failure, nor a result after the last one.
THEOREM NothingComesAfterLast == Spec => NothingAfterLast
<1>1. IInv /\ [Next]_vars =>
        [\A c \in Calls : Finished(c) => log'[c] = log[c]]_vars
  BY CallbackFacts
<1>2. QED
  BY <1>1, Invariance, PTL DEF Spec, NothingAfterLast
=============================================================================
