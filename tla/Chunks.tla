------------------------------- MODULE Chunks -------------------------------
(***************************************************************************)
(* One metadata query of tracker-iface.c, from _do_tracker_get_metadata to *)
(* its answer.                                                             *)
(*                                                                         *)
(* The query asks many properties of several files.  SQLite limits how     *)
(* many a statement may have, so they are asked in chunks of at most       *)
(* MAX_SPARQL_OPTIONALS.  The first answer makes the rows; each later one  *)
(* appends its values to the rows by their position.  Between two chunks   *)
(* the indexer may add files to Tracker or remove some.  Queries share     *)
(* nothing, so one is modelled.                                            *)
(*                                                                         *)
(* A value is named by its file and property.  Tracker answers one row per *)
(* file it knows, in an order of its own that does not change: the         *)
(* statements have no ORDER BY, the files are taken to be in rowid order.  *)
(***************************************************************************)
EXTENDS Integers, Sequences, FiniteSets, Functions, Lists

CONSTANTS
  Files,      \* bound: files there are, numbered in Tracker's order
  MaxUris,    \* bound: uris of the query
  MaxKeys,    \* bound: Tracker properties of the query
  MAX_SPARQL_OPTIONALS,
  Changes     \* bound: files added to or removed from Tracker

ASSUME FilesAssumption == Files \in Nat
ASSUME MaxUrisAssumption == MaxUris \in Nat
ASSUME MaxKeysAssumption == MaxKeys \in Nat
ASSUME OptionalsAssumption == MAX_SPARQL_OPTIONALS \in Nat \ {0}
ASSUME ChangesAssumption == Changes \in Nat

File == 1 .. Files

VARIABLES
  uris,       \* what the query is about, with repetitions
  keys,       \* how many properties it asks, 1 .. keys
  phase,      \* of the query
  odd,        \* of the statements sent so far: tells one from the next
  columns,    \* properties received: the chunk asked is the one after these
  results,    \* the rows: the uri that mc->rows has for each, and its values
  answer,     \* the rows the metadata are built from
  known,      \* the files in Tracker
  changes,    \* how often known has changed
  disturbed   \* history: it changed during the query

vars == <<uris, keys, phase, odd, columns, results, answer, known, changes,
          disturbed>>

Phases ==
  {"idle",
   "asked",     \* _tracker_sparql_metadata_cb to come
   "unasked",   \* no property to ask, _run_tracker_metadata_cb to come
   "answered",
   "failed",    \* answered with an error
   "overrun"}   \* a row beyond the last one was used

-----------------------------------------------------------------------------
\* Mutant: the last chunk is cut short.
ChunkShort(from) ==
  IF keys <= from + MAX_SPARQL_OPTIONALS
  THEN from + 1 .. keys - 1
  ELSE from + 1 .. from + MAX_SPARQL_OPTIONALS

\* The properties that the statement asks, of those from the given one on.
Chunk(from) ==
  IF keys <= from + MAX_SPARQL_OPTIONALS
  THEN from + 1 .. keys
  ELSE from + 1 .. from + MAX_SPARQL_OPTIONALS

\* The values of one file, and the files Tracker answers for.
Cells(file, chunk, offset) == [k \in 1 .. Cardinality(chunk) |-> <<file, offset + k>>]
Returned == Sorted(known \cap Range(uris))

\* Mutant: values go in from the first column on.
ExtendedFromStart(row, cells, offset) == [row EXCEPT !.cells = cells]

\* Values appended to a row from column offset on.  A row that is shorter
\* keeps the NULL that ends it, and with it what it had.
Extended(row, cells, offset) ==
  IF Len(row.cells) = offset THEN [row EXCEPT !.cells = @ \o cells] ELSE row

\* _append_sparql_tracker_result: the first chunk makes the rows, the others
\* go to them by position.
Appended(rows, from) ==
  IF from = 0
  THEN [i \in DOMAIN Returned |->
          [uri |-> Returned[i], cells |-> Cells(Returned[i], Chunk(0), 0)]]
  ELSE [i \in DOMAIN rows |->
          IF i \in DOMAIN Returned
          THEN Extended(rows[i], Cells(Returned[i], Chunk(from), from), from)
          ELSE rows[i]]

\* Mutant: a uri that comes again finds its row used up.
AnsweredOnce(rows) ==
  LET first(i) == \A j \in 1 .. i - 1 : uris[j] # uris[i]
      have(i) == \E r \in DOMAIN rows : rows[r].uri = uris[i]
      found == Selected(uris, {i \in DOMAIN uris : first(i) /\ have(i)})
  IN  [n \in DOMAIN found |->
         rows[CHOOSE r \in DOMAIN rows : rows[r].uri = found[n]]]

\* The rows in the order of the uris, repeated where these are; a uri without
\* a row is passed over.
Answered(rows) ==
  LET have(i) == \E r \in DOMAIN rows : rows[r].uri = uris[i]
      found == Selected(uris, {i \in DOMAIN uris : have(i)})
  IN  [n \in DOMAIN found |->
         rows[CHOOSE r \in DOMAIN rows : rows[r].uri = found[n]]]

-----------------------------------------------------------------------------
\* _do_tracker_get_metadata: with no property to ask, an idle answers.
GetMetadata(u, n) ==
  /\ phase = "idle"
  /\ uris' = u
  /\ keys' = n
  /\ phase' = IF n > 0 THEN "asked" ELSE "unasked"
  /\ UNCHANGED <<odd, columns, results, answer, known, changes, disturbed>>

\* Mutant: the next chunk starts after as many properties as were asked for.
ChunkAnswerSkips ==
  /\ phase = "asked"
  /\ Len(Returned) <= Len(results) \/ columns = 0
  /\ LET rows == Appended(results, columns)
     IN  /\ results' = rows
         /\ columns' = IF rows = << >> THEN 0 ELSE columns + MAX_SPARQL_OPTIONALS
         /\ IF rows = << >> \/ columns' = keys
            THEN phase' = "answered" /\ answer' = Answered(rows)
            ELSE UNCHANGED <<phase, answer>>
  /\ odd' = ~odd
  /\ UNCHANGED <<uris, keys, known, changes, disturbed>>

\* _tracker_sparql_metadata_cb: the columns received are those of row 0.  When
\* they are all there, or there is no row, the query is answered, and else the
\* next chunk is asked.
ChunkAnswer ==
  /\ phase = "asked"
  /\ Len(Returned) <= Len(results) \/ columns = 0
  /\ LET rows == Appended(results, columns)
     IN  /\ results' = rows
         /\ columns' = IF rows = << >> THEN 0 ELSE Len(rows[1].cells)
         /\ IF rows = << >> \/ columns' = keys
            THEN phase' = "answered" /\ answer' = Answered(rows)
            ELSE UNCHANGED <<phase, answer>>
  /\ odd' = ~odd
  /\ UNCHANGED <<uris, keys, known, changes, disturbed>>

\* A later chunk has more rows than the first one: g_ptr_array_index() reads
\* past the end of the array.
ChunkOverrun ==
  /\ phase = "asked"
  /\ columns > 0
  /\ Len(Returned) > Len(results)
  /\ phase' = "overrun"
  /\ UNCHANGED <<uris, keys, odd, columns, results, answer, known, changes,
                 disturbed>>

\* _run_tracker_metadata_cb: no row.
EmptyAnswer ==
  /\ phase = "unasked"
  /\ phase' = "answered"
  /\ UNCHANGED <<uris, keys, odd, columns, results, answer, known, changes,
                 disturbed>>

\* Tracker answers a statement with an error, which ends the query.
ChunkFails ==
  /\ phase = "asked"
  /\ phase' = "failed"
  /\ UNCHANGED <<uris, keys, odd, columns, results, answer, known, changes,
                 disturbed>>

\* The indexer adds a file to Tracker, or removes one.
Index(f) ==
  /\ phase \in {"idle", "asked"}
  /\ changes < Changes
  /\ changes' = changes + 1
  /\ known' = IF f \in known THEN known \ {f} ELSE known \cup {f}
  /\ disturbed' = (phase = "asked")
  /\ UNCHANGED <<uris, keys, phase, odd, columns, results, answer>>

-----------------------------------------------------------------------------
Init ==
  /\ uris = << >>
  /\ keys = 0
  /\ phase = "idle"
  /\ odd = FALSE
  /\ columns = 0
  /\ results = << >>
  /\ answer = << >>
  /\ known \in SUBSET File
  /\ changes = 0
  /\ disturbed = FALSE

Handler == EmptyAnswer \/ ChunkFails \/ ChunkAnswer \/ ChunkOverrun

Next ==
  \/ \E n \in 1 .. MaxUris, k \in 0 .. MaxKeys :
       \E u \in [1 .. n -> File] : GetMetadata(u, k)
  \/ \E f \in File : Index(f)
  \/ Handler

Spec == Init /\ [][Next]_vars

\* Tracker answers every statement.
FairSpec == Spec /\ WF_vars(Handler)

-----------------------------------------------------------------------------
(* Properties.                                                             *)

Row == [uri : File, cells : Seq(File \X Nat)]

\* The type invariant; no more columns are received than were asked for.
TypeOK ==
  /\ uris \in Seq(File)
  /\ keys \in Nat
  /\ phase \in Phases
  /\ odd \in BOOLEAN
  /\ columns \in 0 .. keys
  /\ results \in Seq(Row)
  /\ answer \in Seq(Row)
  /\ known \subseteq File
  /\ changes \in 0 .. Changes
  /\ disturbed \in BOOLEAN

FullRow(file, n) == [uri |-> file, cells |-> [k \in 1 .. n |-> <<file, k>>]]

\* Unless Tracker changes meanwhile, each row holds the values of the file it
\* is filed under, all those received so far, in their columns; and no answer
\* has more rows than the first.
RowsOwnValues ==
  ~disturbed =>
    /\ \A r \in DOMAIN results :
         results[r] = FullRow(results[r].uri, columns)
    /\ phase # "overrun"

\* Unless Tracker changes meanwhile, the answer is the one a single statement
\* for all the properties would have given: a full row for every uri that
\* Tracker knows, in the order of the uris, repeated where they are.
AsIfAtOnce ==
  phase = "answered" /\ keys > 0 /\ ~disturbed =>
    LET found == Selected(uris, {i \in DOMAIN uris : uris[i] \in known})
    IN  answer = [n \in DOMAIN found |-> FullRow(found[n], keys)]

Ended == phase \in {"answered", "failed", "overrun"}

\* Every query ends.
QueryEnds == phase \in {"asked", "unasked"} ~> Ended
=============================================================================
