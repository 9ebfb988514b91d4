--------------------------- MODULE BrowseContract ---------------------------
(***************************************************************************)
(* What the source promises to whoever calls browse(): an abstract view of *)
(* each call, as its MafwSourceBrowseResultCb callback sees it.  A call is *)
(* answered either by one error callback, or by a countdown of results:    *)
(* the indexes run 0, 1, 2, ... while the remaining counts run down to 0,  *)
(* the callback with remaining count 0 is the last one, and a successful   *)
(* cancellation of a call that is still open stops the countdown for good. *)
(* Browse.tla is shown to implement this module.                           *)
(***************************************************************************)
EXTENDS Naturals, Sequences

CONSTANTS Calls,     \* the calls of browse()
          Item,      \* what a result callback carries
          MaxTotal   \* the longest countdown, at least 1

VARIABLES status,    \* what has become of each call
          log        \* the callbacks each call has received

vars == <<status, log>>

Callback == [item : Item, remaining : Nat, index : Nat, error : BOOLEAN]

\* The callback that comes after those of l, for a countdown of total results.
ResultAfter(l, item, total) ==
  [item |-> item, remaining |-> total - 1 - Len(l), index |-> Len(l),
   error |-> FALSE]

Init ==
  /\ status = [c \in Calls |-> "new"]
  /\ log = [c \in Calls |-> << >>]

Request(c) ==
  /\ status[c] = "new"
  /\ status' = [status EXCEPT ![c] = "open"]
  /\ UNCHANGED log

\* A call can be opened and have results ready while another one progresses,
\* but each step concerns one countdown.
Result(c) ==
  /\ status[c] = "open"
  /\ \E item \in Item, total \in 1 .. MaxTotal :
       /\ Len(log[c]) < total
       /\ \A k \in DOMAIN log[c] : log[c][k].remaining = total - k
       /\ log' = [log EXCEPT ![c] = Append(@, ResultAfter(@, item, total))]
       /\ status' = [status EXCEPT ![c] =
                       IF Len(log[c]) + 1 = total THEN "closed" ELSE "open"]

Failure(c) ==
  /\ status[c] = "open"
  /\ log[c] = << >>
  /\ \E item \in Item :
       log' = [log EXCEPT ![c] = << [item |-> item, remaining |-> 0,
                                     index |-> 0, error |-> TRUE] >>]
  /\ status' = [status EXCEPT ![c] = "closed"]

Cancel(c) ==
  /\ status[c] = "open"
  /\ status' = [status EXCEPT ![c] = "cancelled"]
  /\ UNCHANGED log

Next == \E c \in Calls : Request(c) \/ Result(c) \/ Failure(c) \/ Cancel(c)

Spec == Init /\ [][Next]_vars
=============================================================================
