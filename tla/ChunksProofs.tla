---------------------------- MODULE ChunksProofs ----------------------------
(***************************************************************************)
(* One metadata query, for every number of files, uris and properties, and *)
(* for every limit on the properties of a statement.                       *)
(*                                                                         *)
(* RowsOwnValues is not inductive: where the next chunk goes is read off   *)
(* the first row, so that row must have what has been received (Received), *)
(* and rows get their values by position, so they must be the rows of the  *)
(* files that Tracker answers for now, in its order (Steady).              *)
(***************************************************************************)
EXTENDS Chunks, ListsProofs

\* A full row for each file that Tracker answers for.
FullRows(n) == [i \in DOMAIN Returned |-> FullRow(Returned[i], n)]

\* What is received makes the rows, and the first row says how much that is.
Received ==
  /\ \A r \in DOMAIN results : Len(results[r].cells) <= keys
  /\ columns = 0 <=> results = << >>
  /\ columns > 0 => columns = Len(results[1].cells)
  /\ phase = "idle" => keys = 0 /\ answer = << >> /\ ~disturbed
  /\ phase = "unasked" => keys = 0
  /\ phase = "asked" => columns < keys

\* Unless Tracker changes meanwhile, every statement is answered for the same
\* files.
Steady ==
  ~disturbed =>
    /\ phase # "overrun"
    /\ columns > 0 => results = FullRows(columns)
    /\ phase = "answered" /\ keys > 0 => answer = Answered(FullRows(keys))

CInv == TypeOK /\ Received /\ Steady

-----------------------------------------------------------------------------
(* Lemmas about the operators.                                             *)

\* Tracker answers for the files it knows of those it is asked about.
LEMMA ReturnedFacts ==
  ASSUME TypeOK
  PROVE  /\ Returned \in Seq(File)
         /\ DOMAIN Returned = 1 .. Len(Returned) /\ Len(Returned) \in Nat
         /\ \A i \in DOMAIN Returned : Returned[i] \in known
         /\ \A f \in known \cap Range(uris) :
              \E i \in DOMAIN Returned : Returned[i] = f
<1> DEFINE S == known \cap Range(uris)
<1>1. S \in SUBSET File
  BY DEF TypeOK
<1>2. IsFiniteSet(File) /\ File \in SUBSET Nat
  BY FilesAssumption, FS_Interval DEF File
<1>3. S \in SUBSET Nat /\ IsFiniteSet(S) /\ S \in SUBSET known
  <2> HIDE DEF S
  <2>1. S \in SUBSET Nat /\ IsFiniteSet(S)
    BY <1>1, <1>2, FS_Subset
  <2>2. QED
    BY <2>1 DEF S
<1>4. Returned = Sorted(S)
  BY DEF Returned
<1> HIDE DEF S
<1>5. /\ Cardinality(S) \in Nat
      /\ Sorted(S) \in [1 .. Cardinality(S) -> S]
      /\ \A f \in S : \E n \in 1 .. Cardinality(S) : Sorted(S)[n] = f
  BY <1>3, SortedFacts
<1>6. Returned \in [1 .. Cardinality(S) -> File]
  BY <1>1, <1>4, <1>5
<1>7. Returned \in Seq(File) /\ Len(Returned) = Cardinality(S)
  BY <1>5, <1>6
<1>8. QED
  BY <1>3, <1>4, <1>5, <1>6, <1>7 DEF S

\* A chunk is not empty while there is something to ask, and asks no more.
LEMMA ChunkSize ==
  ASSUME NEW from \in Nat, keys \in Nat, from <= keys
  PROVE  /\ Cardinality(Chunk(from)) \in Nat
         /\ from + Cardinality(Chunk(from)) <= keys
         /\ from < keys => Cardinality(Chunk(from)) > 0
<1>1. MAX_SPARQL_OPTIONALS \in Nat /\ MAX_SPARQL_OPTIONALS > 0
  BY OptionalsAssumption
<1>2. \A a, b \in Int :
        Cardinality(a .. b) = IF a > b THEN 0 ELSE b - a + 1
  BY FS_Interval
<1>3. CASE keys <= from + MAX_SPARQL_OPTIONALS
  <2>1. Chunk(from) = from + 1 .. keys
    BY <1>3 DEF Chunk
  <2>2. Cardinality(from + 1 .. keys) = IF from + 1 > keys THEN 0 ELSE keys - (from + 1) + 1
    BY <1>2
  <2>3. QED
    BY <2>1, <2>2
<1>4. CASE ~ (keys <= from + MAX_SPARQL_OPTIONALS)
  <2> DEFINE to == from + MAX_SPARQL_OPTIONALS
  <2>1. Chunk(from) = from + 1 .. to /\ to \in Nat
    BY <1>1, <1>4 DEF Chunk
  <2> HIDE DEF to
  <2>2. Cardinality(from + 1 .. to) = IF from + 1 > to THEN 0 ELSE to - (from + 1) + 1
    <3>1. from + 1 \in Int /\ to \in Int
      BY <2>1
    <3>2. QED
      BY <1>2, <3>1
  <2>3. QED
    BY <1>1, <1>4, <2>1, <2>2 DEF to
<1>5. QED
  BY <1>3, <1>4

\* The values of a chunk follow those of the chunks before.
LEMMA CellsFollow ==
  ASSUME NEW f \in File, NEW from \in Nat, NEW m \in Nat, NEW chunk,
         Cardinality(chunk) = m
  PROVE  /\ Cells(f, chunk, from) \in Seq(File \X Nat)
         /\ Len(Cells(f, chunk, from)) = m
         /\ FullRow(f, from) \in Row
         /\ Len(FullRow(f, from).cells) = from
         /\ FullRow(f, from).cells \o Cells(f, chunk, from)
              = FullRow(f, from + m).cells
<1> DEFINE s == FullRow(f, from).cells
           t == Cells(f, chunk, from)
           u == FullRow(f, from + m).cells
<1>1. s = [k \in 1 .. from |-> <<f, k>>] /\ u = [k \in 1 .. from + m |-> <<f, k>>]
  BY DEF FullRow
<1>2. t = [k \in 1 .. m |-> <<f, from + k>>]
  BY DEF Cells
<1>3. m \in Nat /\ \A k \in Nat : <<f, k>> \in File \X Nat
  OBVIOUS
<1>4. FullRow(f, from).uri = f /\ FullRow(f, from) = [uri |-> f, cells |-> s]
  BY DEF FullRow
<1> HIDE DEF s, t, u
<1>5. /\ s \in [1 .. from -> File \X Nat] /\ s \in Seq(File \X Nat) /\ Len(s) = from
      /\ t \in [1 .. m -> File \X Nat] /\ t \in Seq(File \X Nat) /\ Len(t) = m
  <2>1. \A k \in 1 .. m : <<f, from + k>> \in File \X Nat
    BY <1>3
  <2>2. s \in [1 .. from -> File \X Nat] /\ t \in [1 .. m -> File \X Nat]
    BY <1>1, <1>2, <1>3, <2>1
  <2>3. QED
    BY <1>3, <2>2
<1>6. s \o t = u
  <2>1. /\ s \o t \in Seq(File \X Nat) /\ Len(s \o t) = from + m
        /\ \A k \in 1 .. from + m :
             (s \o t)[k] = IF k <= from THEN s[k] ELSE t[k - from]
    <3> DEFINE T == File \X Nat
    <3> HIDE DEF T
    <3>1. s \in Seq(T) /\ t \in Seq(T) /\ Len(s) = from /\ Len(t) = m
      BY <1>5 DEF T
    <3>2. /\ s \o t \in Seq(T) /\ Len(s \o t) = Len(s) + Len(t)
          /\ \A k \in 1 .. Len(s) + Len(t) :
               (s \o t)[k] = IF k <= Len(s) THEN s[k] ELSE t[k - Len(s)]
      BY <3>1
    <3>3. QED
      BY <3>1, <3>2 DEF T
  <2>2. ASSUME NEW k \in 1 .. from + m
        PROVE  (s \o t)[k] = <<f, k>>
    <3>1. CASE k <= from
      <4>1. k \in 1 .. from
        BY <1>3, <3>1
      <4>2. QED
        BY <1>1, <2>1, <3>1, <4>1
    <3>2. CASE ~ (k <= from)
      <4>1. k - from \in 1 .. m /\ from + (k - from) = k
        BY <1>3, <3>2
      <4>2. QED
        BY <1>2, <2>1, <3>2, <4>1
    <3>3. QED
      BY <3>1, <3>2
  <2>3. s \o t = [k \in 1 .. from + m |-> (s \o t)[k]]
    <3> DEFINE T == File \X Nat
               v == s \o t
    <3> HIDE DEF T, v
    <3>1. v \in Seq(T) /\ Len(v) = from + m
      BY <2>1 DEF T, v
    <3>2. v = [k \in 1 .. Len(v) |-> v[k]]
      BY <3>1
    <3>3. QED
      BY <3>1, <3>2 DEF v
  <2>4. QED
    BY <1>1, <2>2, <2>3
<1>7. FullRow(f, from) \in Row
  BY <1>4, <1>5 DEF Row
<1>8. QED
  BY <1>5, <1>6, <1>7 DEF s, t, u

\* The rows of an answer are rows received.
LEMMA AnsweredFacts ==
  ASSUME NEW rows \in Seq(Row), uris \in Seq(File)
  PROVE  Answered(rows) \in Seq(Row)
<1> DEFINE I == {i \in DOMAIN uris : \E r \in DOMAIN rows : rows[r].uri = uris[i]}
           found == Selected(uris, I)
<1>1. I \in SUBSET DOMAIN uris
  OBVIOUS
<1>2. \A i \in I : \E r \in DOMAIN rows : rows[r].uri = uris[i]
  OBVIOUS
<1>3. Answered(rows) =
        [n \in DOMAIN found |-> rows[CHOOSE r \in DOMAIN rows : rows[r].uri = found[n]]]
  BY DEF Answered
<1> HIDE DEF I
<1>4. /\ Len(found) \in Nat /\ DOMAIN found = 1 .. Len(found)
      /\ \A n \in DOMAIN found : \E i \in I : found[n] = uris[i]
  BY <1>1, SelectedFacts
<1> HIDE DEF found
<1>5. ASSUME NEW n \in DOMAIN found
      PROVE  rows[CHOOSE r \in DOMAIN rows : rows[r].uri = found[n]] \in Row
  <2>1. \E r \in DOMAIN rows : rows[r].uri = found[n]
    BY <1>2, <1>4
  <2>2. (CHOOSE r \in DOMAIN rows : rows[r].uri = found[n]) \in DOMAIN rows
    BY <2>1
  <2>3. QED
    BY <2>2
<1>6. Answered(rows) \in [1 .. Len(found) -> Row]
  BY <1>3, <1>4, <1>5
<1>7. QED
  BY <1>4, <1>6

-----------------------------------------------------------------------------
(* The rows that a statement's answer makes.                               *)

\* The first answer makes full rows of what its statement asked.
LEMMA FirstRows ==
  ASSUME CInv, phase = "asked", columns = 0
  PROVE  LET rows == Appended(results, columns)
             n == Cardinality(Chunk(0))
         IN  /\ n \in Nat /\ n > 0 /\ n <= keys
             /\ rows \in Seq(Row) /\ DOMAIN rows = DOMAIN Returned
             /\ rows = FullRows(n)
             /\ \A r \in DOMAIN rows : Len(rows[r].cells) = n
<1> DEFINE rows == Appended(results, columns)
           n == Cardinality(Chunk(0))
<1>1. keys \in Nat /\ 0 < keys /\ TypeOK
  BY DEF CInv, TypeOK, Received
<1>2. n \in Nat /\ n > 0 /\ n <= keys
  <2>1. /\ Cardinality(Chunk(0)) \in Nat /\ 0 + Cardinality(Chunk(0)) <= keys
        /\ 0 < keys => Cardinality(Chunk(0)) > 0
    BY <1>1, ChunkSize
  <2>2. QED
    BY <1>1, <2>1
<1>3. /\ Returned \in Seq(File) /\ DOMAIN Returned = 1 .. Len(Returned)
      /\ Len(Returned) \in Nat
  BY <1>1, ReturnedFacts
<1>4. rows = [i \in DOMAIN Returned |->
                [uri |-> Returned[i], cells |-> Cells(Returned[i], Chunk(0), 0)]]
  BY DEF Appended
<1>5. ASSUME NEW f
      PROVE  [uri |-> f, cells |-> Cells(f, Chunk(0), 0)] = FullRow(f, n)
  <2>1. \A k \in 1 .. n : 0 + k = k
    BY <1>2
  <2>2. QED
    BY <2>1 DEF Cells, FullRow
<1> HIDE DEF n, rows
<1>6. rows = [i \in DOMAIN Returned |-> FullRow(Returned[i], n)]
  BY <1>4, <1>5
<1>7. ASSUME NEW f \in File
      PROVE  FullRow(f, n) \in Row /\ Len(FullRow(f, n).cells) = n
  <2>1. Cardinality({}) = 0 /\ 0 \in Nat
    BY FS_EmptySet
  <2>2. QED
    BY <1>2, <2>1, CellsFollow
<1>8. rows \in Seq(Row) /\ DOMAIN rows = DOMAIN Returned
  <2>1. \A i \in 1 .. Len(Returned) : Returned[i] \in File
    BY <1>3
  <2>2. rows \in [1 .. Len(Returned) -> Row]
    BY <1>3, <1>6, <1>7, <2>1
  <2>3. QED
    BY <1>3, <2>2
<1>9. \A r \in DOMAIN rows : Len(rows[r].cells) = n
  BY <1>3, <1>6, <1>7
<1>10. rows = FullRows(n)
  BY <1>6 DEF FullRows
<1>11. QED
  BY <1>2, <1>8, <1>9, <1>10 DEF n, rows

\* A row is extended or stays, and a full row becomes a longer full row.
LEMMA ExtendedFacts ==
  ASSUME NEW row \in Row, NEW f \in File, NEW from \in Nat, NEW m \in Nat,
         NEW chunk, Cardinality(chunk) = m
  PROVE  LET new == Extended(row, Cells(f, chunk, from), from)
         IN  /\ new \in Row
             /\ Len(row.cells) = from =>
                  Len(new.cells) = from + m
             /\ Len(row.cells) # from => new = row
             /\ row = FullRow(f, from) => new = FullRow(f, from + m)
<1> DEFINE t == Cells(f, chunk, from)
           new == Extended(row, t, from)
           T == File \X Nat
<1>1. /\ t \in Seq(T) /\ Len(t) = m /\ m \in Nat
      /\ Len(FullRow(f, from).cells) = from
      /\ FullRow(f, from).cells \o t = FullRow(f, from + m).cells
  <2>1. Cells(f, chunk, from) \in Seq(File \X Nat)
    BY CellsFollow
  <2>2. Len(Cells(f, chunk, from)) = m
    BY CellsFollow
  <2>3. Len(FullRow(f, from).cells) = from
    BY CellsFollow
  <2>4. FullRow(f, from).cells \o Cells(f, chunk, from) = FullRow(f, from + m).cells
    BY CellsFollow, SMTT(30)
  <2>5. QED
    BY <2>1, <2>2, <2>3, <2>4
<1>2. row = [uri |-> row.uri, cells |-> row.cells]
      /\ row.uri \in File /\ row.cells \in Seq(T)
  BY DEF Row
<1> HIDE DEF t, T
<1>3. CASE Len(row.cells) = from
  <2>1. new = [uri |-> row.uri, cells |-> row.cells \o t]
    BY <1>2, <1>3 DEF Extended
  <2>2. row.cells \o t \in Seq(T) /\ Len(row.cells \o t) = from + m
    <3>1. \A u, v \in Seq(T) : u \o v \in Seq(T) /\ Len(u \o v) = Len(u) + Len(v)
      OBVIOUS
    <3>2. QED
      BY <1>1, <1>2, <1>3, <3>1
  <2>3. new \in Row /\ Len(new.cells) = from + m
    BY <1>2, <2>1, <2>2 DEF Row, T
  <2>4. ASSUME row = FullRow(f, from)
        PROVE  new = FullRow(f, from + m)
    <3>1. row.uri = f /\ FullRow(f, from + m).uri = f
      BY <2>4 DEF FullRow
    <3>2. row.cells \o t = FullRow(f, from + m).cells
      BY <1>1, <2>4
    <3>3. FullRow(f, from + m) = [uri |-> f, cells |-> FullRow(f, from + m).cells]
      BY DEF FullRow
    <3>4. QED
      BY <2>1, <3>1, <3>2, <3>3
  <2>5. QED
    BY <1>3, <2>3, <2>4 DEF t
<1>4. CASE Len(row.cells) # from
  <2>1. new = row
    BY <1>4 DEF Extended
  <2>2. row # FullRow(f, from)
    BY <1>1, <1>4
  <2>3. QED
    BY <1>4, <2>1, <2>2 DEF t
<1>5. QED
  BY <1>3, <1>4

\* Later answers make the rows longer, if not all of them.
LEMMA LaterRows ==
  ASSUME CInv, phase = "asked", columns > 0, Len(Returned) <= Len(results)
  PROVE  LET rows == Appended(results, columns)
             n == Cardinality(Chunk(columns))
         IN  /\ rows \in Seq(Row) /\ DOMAIN rows = DOMAIN results
             /\ \A r \in DOMAIN rows : /\ Len(rows[r].cells) <= keys
                                       /\ Len(rows[r].cells) >= Len(results[r].cells)
             /\ ~disturbed => rows = FullRows(columns + n) /\ columns + n \in Nat
<1> DEFINE rows == Appended(results, columns)
           n == Cardinality(Chunk(columns))
<1>1. /\ TypeOK /\ keys \in Nat /\ columns \in Nat /\ columns < keys
      /\ results \in Seq(Row)
      /\ \A r \in DOMAIN results : Len(results[r].cells) <= keys
      /\ ~disturbed => results = FullRows(columns)
  BY DEF CInv, TypeOK, Received, Steady
<1>2. n \in Nat /\ columns + n <= keys
  BY <1>1, ChunkSize
<1>3. /\ Returned \in Seq(File) /\ DOMAIN Returned = 1 .. Len(Returned)
      /\ Len(Returned) \in Nat /\ \A i \in DOMAIN Returned : Returned[i] \in File
  BY <1>1, ReturnedFacts
<1>4. rows = [i \in DOMAIN results |->
                IF i \in DOMAIN Returned
                THEN Extended(results[i], Cells(Returned[i], Chunk(columns), columns),
                              columns)
                ELSE results[i]]
  BY <1>1 DEF Appended
<1> HIDE DEF rows
<1>5. ASSUME NEW r \in DOMAIN results
      PROVE  /\ rows[r] \in Row
             /\ Len(rows[r].cells) <= keys
             /\ Len(rows[r].cells) >= Len(results[r].cells)
             /\ r \in DOMAIN Returned /\ results[r] = FullRow(Returned[r], columns) =>
                  rows[r] = FullRow(Returned[r], columns + n)
  <2>1. results[r] \in Row /\ Len(results[r].cells) \in Nat
    <3>1. results[r] \in Row
      BY <1>1
    <3>2. results[r].cells \in Seq(File \X Nat)
      BY <3>1 DEF Row
    <3>3. QED
      BY <3>1, <3>2
  <2>2. CASE r \in DOMAIN Returned
    <3> DEFINE f == Returned[r]
               new == Extended(results[r], Cells(f, Chunk(columns), columns), columns)
    <3>1. f \in File /\ rows[r] = new
      BY <1>3, <1>4, <2>2
    <3> HIDE DEF f
    <3>2. PICK g \in File : g = f
      BY <3>1
    <3>3. PICK row, from, m, chunk :
            /\ row \in Row /\ from \in Nat /\ m \in Nat
            /\ row = results[r] /\ from = columns
            /\ chunk = Chunk(columns) /\ m = n
      BY <1>1, <1>2, <2>1
    <3>4. LET w == Extended(row, Cells(g, chunk, from), from)
          IN  /\ w \in Row
              /\ Len(row.cells) = from => Len(w.cells) = from + m
              /\ Len(row.cells) # from => w = row
              /\ row = FullRow(g, from) => w = FullRow(g, from + m)
      BY <1>2, <3>3, ExtendedFacts
    <3>5. /\ new \in Row
          /\ Len(results[r].cells) = columns => Len(new.cells) = columns + n
          /\ Len(results[r].cells) # columns => new = results[r]
          /\ results[r] = FullRow(f, columns) => new = FullRow(f, columns + n)
      BY <3>2, <3>3, <3>4
    <3>6. QED
      BY <1>1, <1>2, <2>1, <3>1, <3>5 DEF f
  <2>3. CASE r \notin DOMAIN Returned
    BY <1>1, <1>4, <2>1, <2>3
  <2>4. QED
    BY <2>2, <2>3
<1>6. rows \in Seq(Row) /\ DOMAIN rows = DOMAIN results
  <2>1. DOMAIN results = 1 .. Len(results) /\ Len(results) \in Nat
    BY <1>1
  <2>2. rows \in [1 .. Len(results) -> Row]
    BY <1>4, <1>5, <2>1
  <2>3. QED
    BY <2>1, <2>2
<1>7. ASSUME ~disturbed
      PROVE  rows = FullRows(columns + n)
  <2>1. results = [i \in DOMAIN Returned |-> FullRow(Returned[i], columns)]
    BY <1>1, <1>7 DEF FullRows
  <2>2. /\ DOMAIN results = DOMAIN Returned
        /\ \A i \in DOMAIN Returned : results[i] = FullRow(Returned[i], columns)
    BY <2>1
  <2>3. \A i \in DOMAIN Returned : rows[i] = FullRow(Returned[i], columns + n)
    BY <1>5, <2>2
  <2>4. rows = [i \in DOMAIN Returned |-> rows[i]]
    BY <1>4, <2>2
  <2>5. QED
    BY <2>3, <2>4 DEF FullRows
<1>8. QED
  BY <1>1, <1>2, <1>5, <1>6, <1>7 DEF rows

-----------------------------------------------------------------------------
(* The actions.                                                            *)

\* A query about any files is asked.
LEMMA GetMetadataKeepsCInv ==
  ASSUME CInv, NEW u \in Seq(File), NEW n \in Nat, GetMetadata(u, n)
  PROVE  CInv'
<1>1. /\ columns = 0 /\ results = << >> /\ answer = << >> /\ ~disturbed
  BY DEF CInv, TypeOK, Received, GetMetadata
<1>2. /\ uris' = u /\ keys' = n /\ odd' = odd /\ columns' = columns
      /\ results' = results /\ answer' = answer /\ known' = known
      /\ changes' = changes /\ disturbed' = disturbed
      /\ phase' = IF n > 0 THEN "asked" ELSE "unasked"
  BY DEF GetMetadata
<1>3. TypeOK'
  BY <1>1, <1>2 DEF CInv, TypeOK, Phases
<1>4. Received'
  BY <1>1, <1>2 DEF Received
<1>5. Steady'
  BY <1>1, <1>2 DEF Steady
<1>6. QED
  BY <1>3, <1>4, <1>5 DEF CInv

\* Files come and go: during a query that disturbs it.
LEMMA IndexKeepsCInv ==
  ASSUME CInv, NEW f \in File, Index(f)
  PROVE  CInv'
<1>1. /\ uris' = uris /\ keys' = keys /\ phase' = phase /\ odd' = odd
      /\ columns' = columns /\ results' = results /\ answer' = answer
      /\ known' \subseteq File /\ changes' \in 0 .. Changes
      /\ phase \in {"idle", "asked"} /\ disturbed' = (phase = "asked")
  BY ChangesAssumption DEF Index, CInv, TypeOK
<1>2. TypeOK'
  BY <1>1 DEF CInv, TypeOK
<1>3. Received'
  BY <1>1 DEF CInv, Received
<1>4. Steady'
  <2>1. phase = "idle" => columns = 0
    BY DEF CInv, TypeOK, Received
  <2>2. CASE phase = "asked"
    <3>1. disturbed'
      BY <1>1, <2>2
    <3>2. QED
      BY <3>1 DEF Steady
  <2>3. CASE phase = "idle"
    <3>1. /\ phase' # "overrun" /\ phase' # "answered"
          /\ columns' = 0 /\ ~ (columns' > 0)
      BY <1>1, <2>1, <2>3
    <3>2. QED
      BY <3>1 DEF Steady
  <2>4. QED
    BY <1>1, <2>2, <2>3
<1>5. QED
  BY <1>2, <1>3, <1>4 DEF CInv

\* The same query goes on.
LEMMA SameRows ==
  ASSUME uris' = uris, known' = known
  PROVE  /\ \A n : FullRows(n)' = FullRows(n)
         /\ \A rows : Answered(rows)' = Answered(rows)
<1>1. Returned' = Returned
  BY DEF Returned
<1>2. QED
  BY <1>1 DEF FullRows, Answered

\* A query ends with no row asked for, with an error, or with one too many.
LEMMA EndsKeepCInv ==
  ASSUME CInv, EmptyAnswer \/ ChunkFails \/ ChunkOverrun
  PROVE  CInv'
<1>1. /\ uris' = uris /\ keys' = keys /\ odd' = odd /\ columns' = columns
      /\ results' = results /\ answer' = answer /\ known' = known
      /\ changes' = changes /\ disturbed' = disturbed
      /\ phase' \in {"answered", "failed", "overrun"}
      /\ phase' = "answered" => phase = "unasked"
      /\ phase' = "overrun" => columns > 0 /\ Len(Returned) > Len(results)
  BY DEF EmptyAnswer, ChunkFails, ChunkOverrun
<1>2. TypeOK'
  BY <1>1 DEF CInv, TypeOK, Phases
<1>3. Received'
  BY <1>1 DEF CInv, Received
<1>4. columns > 0 /\ ~disturbed => Len(results) = Len(Returned)
  <2>1. /\ Returned \in Seq(File) /\ DOMAIN Returned = 1 .. Len(Returned)
        /\ Len(Returned) \in Nat
    BY ReturnedFacts DEF CInv
  <2>2. SUFFICES ASSUME columns > 0, ~disturbed
                 PROVE  Len(results) = Len(Returned)
    OBVIOUS
  <2>3. results = [i \in DOMAIN Returned |-> FullRow(Returned[i], columns)]
    BY <2>2 DEF CInv, Steady, FullRows
  <2>4. QED
    BY <2>1, <2>3
<1>5. Returned \in Seq(File) /\ Len(Returned) \in Nat /\ (phase = "unasked" => keys = 0)
  BY ReturnedFacts DEF CInv, Received
<1>6. Steady'
  BY <1>1, <1>4, <1>5, SameRows DEF CInv, Steady
<1>7. QED
  BY <1>2, <1>3, <1>6 DEF CInv

\* A statement is answered.
LEMMA ChunkAnswerKeepsCInv ==
  ASSUME CInv, ChunkAnswer
  PROVE  CInv'
<1> DEFINE rows == Appended(results, columns)
           first == Cardinality(Chunk(0))
           n == Cardinality(Chunk(columns))
<1>1. /\ phase = "asked" /\ TypeOK
      /\ Len(Returned) <= Len(results) \/ columns = 0
      /\ keys \in Nat /\ columns \in Nat /\ columns < keys
      /\ columns = 0 <=> results = << >>
      /\ columns > 0 => columns = Len(results[1].cells)
  BY DEF CInv, TypeOK, Received, ChunkAnswer
<1>2. /\ results' = rows
      /\ columns' = IF rows = << >> THEN 0 ELSE Len(rows[1].cells)
      /\ IF rows = << >> \/ columns' = keys
         THEN phase' = "answered" /\ answer' = Answered(rows)
         ELSE phase' = phase /\ answer' = answer
      /\ odd' = ~odd /\ uris' = uris /\ keys' = keys /\ known' = known
      /\ changes' = changes /\ disturbed' = disturbed
  BY DEF ChunkAnswer
<1>3. /\ Returned \in Seq(File) /\ DOMAIN Returned = 1 .. Len(Returned)
      /\ Len(Returned) \in Nat
  BY <1>1, ReturnedFacts
<1>4. CASE columns = 0
  <2>1. /\ first \in Nat /\ first > 0 /\ first <= keys
        /\ rows \in Seq(Row) /\ DOMAIN rows = DOMAIN Returned
        /\ rows = FullRows(first)
        /\ \A r \in DOMAIN rows : Len(rows[r].cells) = first
    BY <1>1, <1>4, FirstRows
  <2> HIDE DEF rows, first
  <2>2. rows # << >> => 1 \in DOMAIN rows
    BY <2>1
  <2>3. rows # << >> => columns' = first
    BY <1>2, <2>1, <2>2
  <2>4. Answered(rows) \in Seq(Row)
    BY <1>1, <2>1, AnsweredFacts DEF TypeOK
  <2>5. columns' \in 0 .. keys /\ phase' \in {"answered", "asked"}
    BY <1>1, <1>2, <2>1, <2>3
  <2>6. TypeOK'
    BY <1>1, <1>2, <2>1, <2>4, <2>5 DEF TypeOK, Phases
  <2>7. /\ columns' = 0 <=> rows = << >>
        /\ columns' > 0 => columns' = Len(rows[1].cells)
        /\ phase' = "asked" => columns' < keys
        /\ \A r \in DOMAIN rows : Len(rows[r].cells) <= keys
    BY <1>1, <1>2, <2>1, <2>2, <2>3
  <2>8. Received'
    BY <1>2, <2>5, <2>7 DEF Received
  <2>9. rows = << >> => FullRows(keys) = << >>
    <3>1. ASSUME rows = << >>
          PROVE  FullRows(keys) = << >>
      <4>1. DOMAIN Returned = {}
        BY <2>1, <3>1
      <4>2. Returned = << >> /\ FullRows(keys) = [i \in {} |-> FullRow(Returned[i], keys)]
        BY <1>3, <4>1 DEF FullRows
      <4>3. [i \in {} |-> FullRow(Returned[i], keys)] = << >>
        OBVIOUS
      <4>4. QED
        BY <4>2, <4>3
    <3>2. QED
      BY <3>1
  <2>10. columns' > 0 => rows = FullRows(columns')
    BY <1>2, <2>1, <2>3
  <2>11. phase' = "answered" => answer' = Answered(FullRows(keys))
    BY <1>1, <1>2, <2>1, <2>3, <2>9
  <2>12. Steady'
    BY <1>2, <2>5, <2>10, <2>11, SameRows DEF Steady
  <2>13. QED
    BY <2>6, <2>8, <2>12 DEF CInv
<1>5. CASE columns > 0
  <2>1. /\ rows \in Seq(Row) /\ DOMAIN rows = DOMAIN results
        /\ \A r \in DOMAIN rows : /\ Len(rows[r].cells) <= keys
                                  /\ Len(rows[r].cells) >= Len(results[r].cells)
        /\ ~disturbed => rows = FullRows(columns + n) /\ columns + n \in Nat
    BY <1>1, <1>5, LaterRows
  <2> HIDE DEF rows, n
  <2>2. results \in Seq(Row) /\ results # << >> /\ 1 \in DOMAIN results
    BY <1>1, <1>5 DEF TypeOK
  <2>3. rows # << >> /\ 1 \in DOMAIN rows /\ rows[1] \in Row
    BY <2>1, <2>2
  <2>4. /\ columns' = Len(rows[1].cells) /\ columns' \in Nat
        /\ columns' <= keys /\ columns' >= columns /\ columns' > 0
    <3>1. Len(rows[1].cells) \in Nat
      BY <2>3 DEF Row
    <3>2. Len(rows[1].cells) <= keys /\ Len(rows[1].cells) >= columns
      BY <1>1, <1>5, <2>1, <2>3
    <3>3. QED
      BY <1>1, <1>2, <1>5, <2>3, <3>1, <3>2
  <2>5. Answered(rows) \in Seq(Row)
    BY <1>1, <2>1, AnsweredFacts DEF TypeOK
  <2>6. TypeOK'
    <3>1. columns' \in 0 .. keys' /\ phase' \in Phases
      BY <1>1, <1>2, <2>4 DEF Phases
    <3>2. QED
      BY <1>1, <1>2, <2>1, <2>5, <3>1 DEF TypeOK
  <2>7. Received'
    <3>1. /\ columns' # 0 /\ columns' = Len(rows[1].cells)
          /\ phase' = "asked" => columns' < keys
          /\ phase' \in {"asked", "answered"}
      BY <1>1, <1>2, <2>3, <2>4
    <3>2. QED
      BY <1>2, <2>1, <2>3, <3>1 DEF Received
  <2>8. ~disturbed => rows = FullRows(columns')
    <3>1. ASSUME ~disturbed
          PROVE  columns' = columns + n
      <4>1. rows = [i \in DOMAIN Returned |-> FullRow(Returned[i], columns + n)]
        BY <2>1, <3>1 DEF FullRows
      <4>2. 1 \in DOMAIN Returned
        BY <2>3, <4>1
      <4>3. rows[1].cells = [k \in 1 .. columns + n |-> <<Returned[1], k>>]
        BY <4>1, <4>2 DEF FullRow
      <4>4. columns + n \in Nat
        BY <2>1, <3>1
      <4>5. QED
        BY <2>4, <4>3, <4>4
    <3>2. QED
      BY <2>1, <3>1
  <2>9. phase' = "answered" => columns' = keys /\ answer' = Answered(rows)
    BY <1>1, <1>2, <2>3
  <2>10. Steady'
    <3>1. phase' \in {"asked", "answered"}
      BY <1>1, <1>2
    <3>2. QED
      BY <1>2, <2>8, <2>9, <3>1, SameRows DEF Steady
  <2>11. QED
    BY <2>6, <2>7, <2>10 DEF CInv
<1>6. QED
  BY <1>1, <1>4, <1>5

-----------------------------------------------------------------------------
(* The theorems.                                                           *)

\* The invariant holds at first.
LEMMA InitCInv == Init => CInv
<1> SUFFICES ASSUME Init PROVE CInv
  OBVIOUS
<1>1. TypeOK
  <2>1. << >> \in Seq(File) /\ << >> \in Seq(Row) /\ 0 \in 0 .. 0
        /\ 0 \in 0 .. Changes /\ "idle" \in Phases
    BY ChangesAssumption DEF Phases
  <2>2. QED
    BY <2>1 DEF Init, TypeOK
<1>2. Received
  BY DEF Init, Received
<1>3. Steady
  BY DEF Init, Steady
<1>4. QED
  BY <1>1, <1>2, <1>3 DEF CInv

\* Every step of the query and of the indexer keeps it.
LEMMA StepKeepsCInv ==
  ASSUME CInv, Handler \/ \E f \in File : Index(f)
  PROVE  CInv'
BY EndsKeepCInv, ChunkAnswerKeepsCInv, IndexKeepsCInv DEF Handler

LEMMA StutterKeepsCInv ==
  ASSUME CInv, UNCHANGED vars
  PROVE  CInv'
<1>1. /\ uris' = uris /\ keys' = keys /\ phase' = phase /\ odd' = odd
      /\ columns' = columns /\ results' = results /\ answer' = answer
      /\ known' = known /\ changes' = changes /\ disturbed' = disturbed
  BY DEF vars
<1>2. TypeOK' /\ Received'
  BY <1>1 DEF CInv, TypeOK, Received
<1>3. Steady'
  BY <1>1, SameRows DEF CInv, Steady
<1>4. QED
  BY <1>2, <1>3 DEF CInv

\* A query that is made has some uris, and no more properties than the bound.
LEMMA NextCInv == CInv /\ [Next]_vars => CInv'
<1> SUFFICES ASSUME CInv, [Next]_vars PROVE CInv'
  OBVIOUS
<1>1. ASSUME NEW n \in 1 .. MaxUris, NEW k \in 0 .. MaxKeys,
             NEW u \in [1 .. n -> File], GetMetadata(u, k)
      PROVE  CInv'
  <2>1. u \in Seq(File) /\ k \in Nat
    BY MaxUrisAssumption, MaxKeysAssumption
  <2>2. QED
    BY <1>1, <2>1, GetMetadataKeepsCInv
<1>2. QED
  BY <1>1, StepKeepsCInv, StutterKeepsCInv DEF Next

\* The invariant holds in every reachable state of a query.
THEOREM ChunksInvariance == Spec => []CInv
BY InitCInv, NextCInv, PTL DEF Spec

\* It implies that rows hold their own values.
LEMMA RowsOwn == CInv => RowsOwnValues
<1> SUFFICES ASSUME CInv, ~disturbed
             PROVE  /\ \A r \in DOMAIN results :
                         results[r] = FullRow(results[r].uri, columns)
                    /\ phase # "overrun"
  BY DEF RowsOwnValues
<1>1. phase # "overrun" /\ columns \in Nat /\ (columns = 0 <=> results = << >>)
      /\ (columns > 0 => results = FullRows(columns))
  BY DEF CInv, TypeOK, Received, Steady
<1>2. CASE columns = 0
  BY <1>1, <1>2
<1>3. CASE columns > 0
  <2>1. results = [i \in DOMAIN Returned |-> FullRow(Returned[i], columns)]
    BY <1>1, <1>3 DEF FullRows
  <2>2. \A f : FullRow(f, columns).uri = f
    BY DEF FullRow
  <2>3. QED
    BY <1>1, <2>1, <2>2
<1>4. QED
  BY <1>1, <1>2, <1>3

\* It implies that the answer is that of a single statement.
LEMMA AtOnce == CInv => AsIfAtOnce
<1> SUFFICES ASSUME CInv, phase = "answered", keys > 0, ~disturbed
             PROVE  LET found == Selected(uris, {i \in DOMAIN uris : uris[i] \in known})
                    IN  answer = [n \in DOMAIN found |-> FullRow(found[n], keys)]
  BY DEF AsIfAtOnce
<1> DEFINE rows == FullRows(keys)
           I == {i \in DOMAIN uris : uris[i] \in known}
           have == {i \in DOMAIN uris : \E r \in DOMAIN rows : rows[r].uri = uris[i]}
           found == Selected(uris, I)
<1>1. /\ uris \in Seq(File) /\ TypeOK
      /\ answer = Answered(rows)
  BY DEF CInv, TypeOK, Steady
<1>2. /\ \A i \in DOMAIN Returned : Returned[i] \in known
      /\ \A f \in known \cap Range(uris) : \E i \in DOMAIN Returned : Returned[i] = f
  BY <1>1, ReturnedFacts
<1>3. /\ DOMAIN rows = DOMAIN Returned
      /\ \A r \in DOMAIN rows : /\ rows[r] = FullRow(Returned[r], keys)
                                /\ rows[r].uri = Returned[r]
  BY DEF FullRows, FullRow
<1>4. I \in SUBSET DOMAIN uris
  OBVIOUS
<1>5. answer =
        [n \in DOMAIN Selected(uris, have) |->
           rows[CHOOSE r \in DOMAIN rows : rows[r].uri = Selected(uris, have)[n]]]
  BY <1>1 DEF Answered
<1> HIDE DEF rows
<1>6. have = I
  <2>1. \A i \in DOMAIN uris : uris[i] \in Range(uris)
    BY DEF Range
  <2>2. \A i \in DOMAIN uris :
          (\E r \in DOMAIN rows : rows[r].uri = uris[i]) <=> uris[i] \in known
    BY <1>2, <1>3, <2>1
  <2>3. QED
    BY <2>2
<1>7. \A i \in I : \E r \in DOMAIN rows : rows[r].uri = uris[i]
  BY <1>6
<1> HIDE DEF have, I
<1>8. \A n \in DOMAIN found : \E i \in I : found[n] = uris[i]
  BY <1>1, <1>4, SelectedFacts
<1>9. answer = [n \in DOMAIN found |->
                  rows[CHOOSE r \in DOMAIN rows : rows[r].uri = found[n]]]
  BY <1>5, <1>6
<1> HIDE DEF found
<1>10. ASSUME NEW n \in DOMAIN found
       PROVE  rows[CHOOSE r \in DOMAIN rows : rows[r].uri = found[n]]
                = FullRow(found[n], keys)
  <2>1. \E r \in DOMAIN rows : rows[r].uri = found[n]
    BY <1>7, <1>8
  <2>2. PICK r \in DOMAIN rows :
          /\ r = CHOOSE q \in DOMAIN rows : rows[q].uri = found[n]
          /\ rows[r].uri = found[n]
    BY <2>1
  <2>3. QED
    BY <1>3, <2>2
<1>11. answer = [n \in DOMAIN found |-> FullRow(found[n], keys)]
  BY <1>9, <1>10
<1>12. QED
  BY <1>11 DEF found, I

\* Unless Tracker changes meanwhile, the rows hold the values of their own
\* files in the right columns, and none is written past the end, however the
\* properties fall into chunks (RowsOwnValues).
THEOREM RowsAreTheirOwn == Spec => []RowsOwnValues
BY ChunksInvariance, RowsOwn, PTL

\* Unless Tracker changes meanwhile, asking in chunks gives the answer that one
\* statement would have given (AsIfAtOnce).
THEOREM ChunksActAsOne == Spec => []AsIfAtOnce
BY ChunksInvariance, AtOnce, PTL

\* Every variable of a query has its type, and no more columns are received
\* than were asked for (Chunks!TypeOK).
THEOREM ChunksTypeCorrect == Spec => []TypeOK
<1>1. CInv => TypeOK
  BY DEF CInv
<1>2. QED
  BY <1>1, ChunksInvariance, PTL

=============================================================================
