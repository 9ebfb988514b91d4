--------------------------- MODULE SparqlBuilder ---------------------------
(***************************************************************************)
(* The statements that mafw-tracker-source-sparql-builder.c writes, and    *)
(* what Tracker answers to them.                                           *)
(*                                                                         *)
(* A builder hands out numbers for variables (?v0, ?v1 ...) and for values *)
(* (~_0, ~_1 ...), and keeps the values.  The text of a statement is a     *)
(* sequence of clauses and the expression of its FILTER.  That expression  *)
(* is written without parentheses round its compound parts: it is kept the *)
(* way Tracker reads it, as alternatives of conjunctions of comparisons.   *)
(*                                                                         *)
(* A song is a function from properties, named by their metadata keys, to  *)
(* cells: {} if it lacks the property and else the set of its value.       *)
(***************************************************************************)
EXTENDS Integers, Sequences, FiniteSets, SequencesExt, Lists

CONSTANTS
  Filters,      \* the filters there are, the parts of each among them
  Depth,        \* how deeply the parts of each of them are nested
  Comparisons   \* <<test, text, value>> that hold, for tests other than "="

NoFilter == [type |-> "none", key |-> "", value |-> "", parts |-> << >>]

SimpleTypes == {"eq", "lt", "gt", "approx", "exists"}

\* mafw_filter_parse() makes no empty list of parts, and the grammar of the
\* queries has no "!!".
ASSUME FiltersAssumption ==
  \A f \in Filters :
    /\ f.type \in SimpleTypes \cup {"and", "or", "not"}
    /\ f.type \in SimpleTypes <=> f.parts = << >>
    /\ f.type = "not" => Len(f.parts) = 1 /\ f.parts[1].type # "not"
    /\ f.parts \in Seq(Filters)

ASSUME DepthAssumption ==
  /\ Depth \in [Filters -> Nat]
  /\ \A f \in Filters : \A i \in DOMAIN f.parts : Depth[f.parts[i]] < Depth[f]

-----------------------------------------------------------------------------
(* Builders.                                                               *)

NewBuilder == [vars |-> 0, values |-> << >>]

\* A clause binds a variable to a property if there is one, or if there is
\* none drops the song ("required"); wants a property to be a value ("same"),
\* or a variable to be unbound or empty ("unset").
Clause(kind, key, id) == [kind |-> kind, key |-> key, id |-> id]

\* Mutant: a property that is missing is not taken for unknown.
QueryFilterBound(b, key, value) ==
  IF value # ""
  THEN [builder |-> [vars |-> b.vars, values |-> Append(b.values, value)],
        clauses |-> <<Clause("same", key, Len(b.values) + 1)>>]
  ELSE [builder |-> [vars |-> b.vars + 1, values |-> b.values],
        clauses |-> <<Clause("required", key, b.vars), Clause("unset", key, b.vars)>>]

\* mafw_tracker_source_sparql_create_query_filter: "" stands for unknown.
QueryFilter(b, key, value) ==
  IF value # ""
  THEN [builder |-> [vars |-> b.vars, values |-> Append(b.values, value)],
        clauses |-> <<Clause("same", key, Len(b.values) + 1)>>]
  ELSE [builder |-> [vars |-> b.vars + 1, values |-> b.values],
        clauses |-> <<Clause("optional", key, b.vars), Clause("unset", key, b.vars)>>]

Hierarchy == <<"genre", "artist", "album">>

\* The filter so far, and that the property of a level is what the cell has;
\* {} is for a level that is not given.
Narrowed(w, key, cell) ==
  IF cell = {} THEN w
  ELSE LET q == QueryFilter(w.builder, key, CHOOSE v \in cell : TRUE)
       IN  [builder |-> q.builder, clauses |-> w.clauses \o q.clauses]

\* mafw_tracker_source_sparql_create_filter_from_category
FilterFromCategory(b, category) ==
  LET all == [builder |-> b, clauses |-> << >>]
      genre == Narrowed(all, "genre", category.genre)
      artist == Narrowed(genre, "artist", category.artist)
  IN  Narrowed(artist, "album", category.album)

-----------------------------------------------------------------------------
(* Filters of the user.                                                    *)

\* A filter in the making: the terms it compares, each with a variable and a
\* value of its own, and its expression.  The outcome is "ok", "failed", or
\* "endless" for one whose translation does not return.
Written(outcome, terms, alternatives) ==
  [outcome |-> outcome, terms |-> terms, alternatives |-> alternatives]

Literal(term, negated) == [term |-> term, negated |-> negated]

\* The text of one expression behind that of another.
Joined(op, a, b) ==
  LET right == [i \in DOMAIN b.alternatives |->
                  [j \in DOMAIN b.alternatives[i] |->
                     Literal(b.alternatives[i][j].term + Len(a.terms),
                             b.alternatives[i][j].negated)]]
  IN Written("ok", a.terms \o b.terms,
       CASE a.alternatives = << >> -> right
         [] a.alternatives # << >> /\ op = "or" -> a.alternatives \o right
         [] a.alternatives # << >> /\ op = "and" ->
              Front(a.alternatives) \o <<Last(a.alternatives) \o Head(right)>>
                \o Tail(right))

\* "!" in front of a text holds for its first comparison.
Negated(a) ==
  Written("ok", a.terms, [a.alternatives EXCEPT ![1][1].negated = TRUE])

\* The texts of the parts of a filter.
AllJoined(op, parts) ==
  FoldLeft(LAMBDA w, part : Joined(op, w, part), Written("ok", << >>, << >>), parts)

\* _filter_to_sparql, given what it makes of the parts.  If a part fails, the
\* loop over the parts is left but not the loop around it, which takes the same
\* part again.
Translated(f, parts) ==
  CASE f.type = "exists" -> Written("failed", << >>, << >>)
    [] f.type \in SimpleTypes \ {"exists"} ->
         Written("ok", <<[key |-> f.key, test |-> f.type, value |-> f.value]>>,
                 <<<<Literal(1, FALSE)>>>>)
    [] f.type = "not" -> IF parts[1].outcome = "ok" THEN Negated(parts[1]) ELSE parts[1]
    [] f.type \in {"and", "or"} ->
         IF \E i \in DOMAIN parts : parts[i].outcome # "ok"
         THEN Written("endless", << >>, << >>)
         ELSE AllJoined(f.type, parts)

Translation[f \in Filters] ==
  Translated(f, [i \in DOMAIN f.parts |-> Translation[f.parts[i]]])

\* ti_create_filter, the first thing a builder is used for: variables and
\* values are numbered like the terms.  Without a filter, or with one that
\* cannot be translated, there is no condition.
UserFilter(filter) ==
  LET w == IF filter = NoFilter THEN Written("ok", << >>, << >>)
           ELSE Translation[filter]
  IN [outcome |-> w.outcome,
      builder |-> [vars |-> Len(w.terms),
                   values |-> [i \in DOMAIN w.terms |-> w.terms[i].value]],
      clauses |-> [i \in DOMAIN w.terms |-> Clause("optional", w.terms[i].key, i - 1)],
      terms |-> w.terms,
      alternatives |-> w.alternatives]

-----------------------------------------------------------------------------
(* Statements.                                                             *)

Aggregate(type, key) == [type |-> type, key |-> key]

\* mafw_tracker_source_sparql_create.  The condition is of the category, then
\* of the user.  (The variables of the sort keys and the LIMIT are left out.)
Create(b, type, unique, fields, aggregates, category, user) ==
  LET asked == Sorted({i \in DOMAIN aggregates :
                         aggregates[i] # Aggregate("count", "*")})
  IN [type |-> type, unique |-> unique, first |-> b.vars, fields |-> fields,
      aggregates |-> aggregates,
      clauses |->
        [i \in DOMAIN fields |-> Clause("optional", fields[i], b.vars + i - 1)]
          \o [n \in DOMAIN asked |->
                Clause("required", aggregates[asked[n]].key,
                       b.vars + Len(fields) + asked[n] - 1)]
          \o category \o user.clauses,
      terms |-> user.terms, alternatives |-> user.alternatives,
      values |-> b.values]

-----------------------------------------------------------------------------
(* What Tracker makes of a statement.                                      *)

\* A statement with a value that it was not given is refused.
Refused(s) == Len(s.terms) > Len(s.values)

\* The value of a variable: of the first clause that binds it.
ValueOf(s, song, id) ==
  LET binds(c) == /\ c.kind \in {"optional", "required"}
                  /\ c.id = id
                  /\ song[c.key] # {}
      bound == {i \in DOMAIN s.clauses : binds(s.clauses[i])}
  IN  IF bound = {} THEN {} ELSE song[s.clauses[Min(bound)].key]

\* Truth values, with an error between them.
No == 0
Error == 1
Yes == 2

Truth(condition) == IF condition THEN Yes ELSE No

\* _get_expression: a comparison with "" also accepts what is unbound.
Compared(test, cell, value) ==
  CASE cell = {} -> IF test = "eq" /\ value = "" THEN Yes ELSE Error
    [] cell # {} /\ test = "eq" -> Truth(value \in cell)
    [] cell # {} /\ test # "eq" ->
         Truth(\E text \in cell : <<test, text, value>> \in Comparisons)

\* What a filter says of a song, taken at its word.
Judged(f, song, parts) ==
  CASE f.type = "not" -> Yes - parts[1]
    [] f.type = "and" -> Min({parts[i] : i \in DOMAIN parts})
    [] f.type = "or" -> Max({parts[i] : i \in DOMAIN parts})
    [] f.type = "exists" -> Truth(song[f.key] \notin {{}, {""}})
    [] f.type \in SimpleTypes \ {"exists"} -> Compared(f.type, song[f.key], f.value)

Satisfied(filter, song) ==
  LET truth[f \in Filters] ==
        Judged(f, song, [i \in DOMAIN f.parts |-> truth[f.parts[i]]])
  IN  filter = NoFilter \/ truth[filter] = Yes

\* The filters whose text means what they say.
Sound(filter) ==
  LET sound[f \in Filters] ==
        /\ f.type # "exists"
        /\ \A i \in DOMAIN f.parts :
             /\ sound[f.parts[i]]
             /\ f.type = "not" => f.parts[i].type \in SimpleTypes
             /\ f.type = "and" => f.parts[i].type # "or"
  IN  filter = NoFilter \/ sound[filter]

\* The expression for one song.
Expression(s, song) ==
  LET literal(l) ==
        LET truth == Compared(s.terms[l.term].test, ValueOf(s, song, l.term - 1),
                              s.values[l.term])
        IN  IF l.negated THEN Yes - truth ELSE truth
      conjunction(a) == Min({literal(a[j]) : j \in DOMAIN a})
  IN  IF s.alternatives = << >> THEN Yes
      ELSE Max({conjunction(s.alternatives[i]) : i \in DOMAIN s.alternatives})

\* What one clause demands of a song.
Passes(s, song, c) ==
  CASE c.kind = "required" -> song[c.key] # {} /\ song[c.key] = ValueOf(s, song, c.id)
    [] c.kind = "same" -> song[c.key] = {s.values[c.id]}
    [] c.kind = "unset" -> ValueOf(s, song, c.id) \in {{}, {""}}
    [] c.kind = "optional" -> TRUE

\* Whether a song is among the solutions.
Accepts(s, song) ==
  /\ \A i \in DOMAIN s.clauses : Passes(s, song, s.clauses[i])
  /\ Expression(s, song) = Yes

\* One aggregate of a group of songs.
Aggregated(aggregate, songs) ==
  LET cells == UNION {songs[i][aggregate.key] : i \in DOMAIN songs}
  IN CASE aggregate = Aggregate("count", "*") -> {Len(songs)}
       [] aggregate.type = "count" /\ aggregate.key # "*" -> {Cardinality(cells)}
       [] aggregate.type = "concat" -> cells
       [] aggregate.type = "sum" ->
            {MapThenSumSet(LAMBDA i : CHOOSE n \in songs[i][aggregate.key] : TRUE,
                           DOMAIN songs)}

\* The rows, of songs in a fixed order or of groups in that of their first
\* songs.
Rows(s, songs) ==
  LET found == Selected(songs, {i \in DOMAIN songs : Accepts(s, songs[i])})
      field(song, k) == ValueOf(s, song, s.first + k - 1)
      group(i) == field(found[i], 1)
      leaders == Sorted({i \in DOMAIN found : \A j \in 1 .. i - 1 : group(j) # group(i)})
      members(i) == Selected(found, {j \in DOMAIN found : group(j) = group(i)})
  IN IF s.unique
     THEN [n \in DOMAIN leaders |->
             <<group(leaders[n])>>
               \o [a \in DOMAIN s.aggregates |->
                     Aggregated(s.aggregates[a], members(leaders[n]))]]
     ELSE [i \in DOMAIN found |->
             [k \in DOMAIN s.fields |-> field(found[i], k)]]
=============================================================================
