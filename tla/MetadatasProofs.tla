-------------------------- MODULE MetadatasProofs ---------------------------
(***************************************************************************)
(* One call of get_metadatas(), for every number of object ids.            *)
(*                                                                         *)
(* That "remaining" is exact is not inductive: an answer must not count an *)
(* object id that another closure, or a failed or lost answer, still       *)
(* stands for, so every object id has one place to be in (LookupsOK,       *)
(* GroupsOK).  That the closure is freed by the last answer needs the idle *)
(* sources to follow the count (IdleOK), and that a callback without an    *)
(* error is complete needs the rows of a group to be paired with their own *)
(* object ids unless an answer is lost (PairedWithItself).                 *)
(***************************************************************************)
EXTENDS Metadatas, FiniteSetTheorems, FunctionTheorems, TLAPS

-----------------------------------------------------------------------------
(* The inductive invariant.                                                *)

\* The closure of an object id is in one place, and its group is not waiting.
\* The metadata kept for the duration is that of the object id, unless rows
\* were missing.
LookupsOK ==
  \A stage \in Stages, i \in Ids :
    <<stage, i>> \in lookups =>
      /\ kind[i] \notin groups \cup failed
      /\ i \notin lost
      /\ \A other \in Stages : <<other, i>> \in lookups => other = stage
      /\ stage = "duration" /\ lost = {} => metadata_value[i] = i

\* A group waits for an answer about somebody, or has failed.
GroupsOK ==
  /\ groups \cap failed = {}
  /\ \A g \in groups : Members(g) # {}
  /\ \A i \in lost : kind[i] \notin groups \cup failed

\* There are requests only if keys were asked for.
CallOK ==
  /\ ~ called \/ keys = "none" =>
       lookups = {} /\ groups = {} /\ failed = {} /\ lost = {}
  /\ ~ called => ~ freed /\ idles = 0

\* Without a failed group there is one idle source, once nothing remains.
IdleOK ==
  failed = {} =>
    IF called /\ (keys = "none" \/ remaining = 0)
    THEN idles = IF freed THEN 0 ELSE 1
    ELSE idles = 0 /\ ~ freed

\* What has been collected is right, unless an error says otherwise.
CollectedOK ==
  /\ failed # {} => error
  /\ ~ error /\ lost = {} /\ keys # "none" =>
       \A i \in Ids \ Unanswered : kind[i] # "absent" => metadatas[i] = i

IInv ==
  /\ TypeOK
  /\ RemainingExact
  /\ LookupsOK
  /\ GroupsOK
  /\ CallOK
  /\ IdleOK
  /\ CollectedOK

-----------------------------------------------------------------------------
(* Lemmas about counting and pairing.                                      *)

LEMMA IdsFinite ==
  ASSUME NEW S \in SUBSET Ids
  PROVE  /\ IsFiniteSet(S) /\ Cardinality(S) \in Nat /\ Cardinality(S) <= MaxIds
         /\ Cardinality(S) = 0 <=> S = {}
<1>1. IsFiniteSet(Ids) /\ Cardinality(Ids) = MaxIds
  BY MaxIdsAssumption, FS_Interval DEF Ids
<1>2. IsFiniteSet(S) /\ Cardinality(S) <= MaxIds
  BY <1>1, FS_Subset
<1>3. QED
  BY <1>2, FS_CardinalityType, FS_EmptySet

\* Answers that are counted.
LEMMA Counted ==
  ASSUME NEW S \in SUBSET Ids, NEW D \in SUBSET S
  PROVE  /\ Cardinality(S \ D) = Cardinality(S) - Cardinality(D)
         /\ Cardinality(S \ D) \in 0 .. MaxIds
<1>1. S \cap D = D /\ S \ D \in SUBSET Ids
  OBVIOUS
<1>2. IsFiniteSet(S) /\ Cardinality(S \ D) \in Nat /\ Cardinality(S \ D) <= MaxIds
  BY <1>1, IdsFinite
<1>3. Cardinality(S \ D) = Cardinality(S) - Cardinality(S \cap D)
  BY <1>2, FS_Difference
<1>4. QED
  BY <1>1, <1>2, <1>3, MaxIdsAssumption

\* No two object ids have the same place in a list.
LEMMA PlaceInjective ==
  ASSUME NEW s \in SUBSET Ids, NEW i \in s, NEW j \in s, Place(i, s) = Place(j, s)
  PROVE  i = j
<1> DEFINE From(k) == {l \in s : l >= k}
<1>1. i \in Nat /\ j \in Nat /\ IsFiniteSet(From(i)) /\ IsFiniteSet(From(j))
      /\ Cardinality(From(i)) = Cardinality(From(j))
  <2>1. From(i) \in SUBSET Ids /\ From(j) \in SUBSET Ids
    OBVIOUS
  <2>2. IsFiniteSet(From(i)) /\ IsFiniteSet(From(j))
    BY <2>1, IdsFinite
  <2>3. QED
    BY <2>2, MaxIdsAssumption DEF Ids, Place
<1>2. i \in From(i) /\ j \in From(j) /\ \A l \in s : l \in Nat
  BY <1>1, MaxIdsAssumption DEF Ids
<1>3. CASE i <= j
  <2>1. From(j) \subseteq From(i)
    <3>1. ASSUME NEW l \in s, l >= j
          PROVE  l >= i
      <4>1. l \in Nat
        BY <1>2
      <4>2. QED
        BY <1>1, <1>3, <3>1, <4>1
    <3>2. QED
      BY <3>1
  <2>2. From(j) = From(i)
    <3> HIDE DEF From
    <3>1. QED
      BY <1>1, <2>1, FS_Subset
  <2>3. i \in From(j)
    BY <1>2, <2>2
  <2>4. QED
    BY <1>1, <1>3, <2>3
<1>4. CASE j <= i
  <2>1. From(i) \subseteq From(j)
    <3>1. ASSUME NEW l \in s, l >= i
          PROVE  l >= j
      <4>1. l \in Nat
        BY <1>2
      <4>2. QED
        BY <1>1, <1>4, <3>1, <4>1
    <3>2. QED
      BY <3>1
  <2>2. From(i) = From(j)
    <3> HIDE DEF From
    <3>1. QED
      BY <1>1, <2>1, FS_Subset
  <2>3. j \in From(i)
    BY <1>2, <2>2
  <2>4. QED
    BY <1>1, <1>4, <2>3
<1>5. QED
  BY <1>1, <1>3, <1>4

\* Found rows are rows of members.
LEMMA FoundMembers ==
  ASSUME NEW members \in SUBSET Ids, NEW known \in SUBSET members
  PROVE  Found(members, known) \in SUBSET members
BY DEF Found

\* When every member is paired with a row, it is paired with its own.
LEMMA PairedWithItself ==
  ASSUME NEW members \in SUBSET Ids, NEW found \in SUBSET members,
         \A i \in members : \E p \in Paired(members, found) : p[1] = i,
         NEW i \in members, NEW j \in Ids, <<i, j>> \in Paired(members, found)
  PROVE  i = j
<1>1. \A k \in members : \E l \in found : Place(k, members) = Place(l, found)
  <2>1. ASSUME NEW k \in members
        PROVE  \E l \in found : Place(k, members) = Place(l, found)
    <3>1. PICK p \in Paired(members, found) : p[1] = k
      OBVIOUS
    <3>2. p[2] \in found /\ Place(p[1], members) = Place(p[2], found)
      BY DEF Paired
    <3>3. QED
      BY <3>1, <3>2
  <2>2. QED
    BY <2>1
<1> DEFINE row == [k \in members |->
                     CHOOSE l \in found : Place(k, members) = Place(l, found)]
<1>2. \A k \in members : row[k] \in found /\ Place(k, members) = Place(row[k], found)
  BY <1>1
<1>3. row \in [members -> found]
  BY <1>2
<1> HIDE DEF row
<1>4. row \in Injection(members, found)
  <2>1. \A k, l \in members : row[k] = row[l] => k = l
    BY <1>2, PlaceInjective
  <2>2. QED
    BY <1>3, <2>1, Fun_IsInj
<1>5. IsFiniteSet(members) /\ IsFiniteSet(found)
      /\ Cardinality(members) \in Nat /\ Cardinality(found) \in Nat
  BY IdsFinite
<1>6. Cardinality(members) <= Cardinality(found)
  BY <1>4, <1>5, FS_Injection
<1>7. found = members
  BY <1>5, <1>6, FS_Subset
<1>8. j \in members /\ Place(i, members) = Place(j, members)
  BY <1>7 DEF Paired
<1>9. QED
  BY <1>8, PlaceInjective

-----------------------------------------------------------------------------
(* Every action keeps the invariant.                                       *)

\* Unanswered, as one set of object ids.
Standing(L, G, K, S) ==
  {i \in Ids : \/ \E stage \in Stages : <<stage, i>> \in L
              \/ K[i] \in G
              \/ i \in S}

LEMMA StandingSet ==
  ASSUME NEW L, NEW G, NEW K, NEW S \in SUBSET Ids
  PROVE  {i \in Ids : \E stage \in Stages : <<stage, i>> \in L}
           \cup (UNION {{i \in Ids : K[i] = g} : g \in G}) \cup S
         = Standing(L, G, K, S)
<1>1. \A k : k \in UNION {{i \in Ids : K[i] = g} : g \in G} <=> k \in Ids /\ K[k] \in G
  OBVIOUS
<1> DEFINE members == UNION {{i \in Ids : K[i] = g} : g \in G}
           asked == {i \in Ids : \E stage \in Stages : <<stage, i>> \in L}
<1>2. \A k : k \in members <=> k \in Ids /\ K[k] \in G
  BY <1>1
<1>3. \A k : k \in asked <=> k \in Ids /\ \E stage \in Stages : <<stage, k>> \in L
  OBVIOUS
<1>4. \A k : k \in Standing(L, G, K, S) <=>
        /\ k \in Ids
        /\ \/ \E stage \in Stages : <<stage, k>> \in L
           \/ K[k] \in G
           \/ k \in S
  BY DEF Standing
<1> HIDE DEF members, asked
<1>5. asked \cup members \cup S = Standing(L, G, K, S)
  BY <1>2, <1>3, <1>4
<1>6. QED
  BY <1>5 DEF members, asked

LEMMA UnansweredSet ==
  ASSUME lost \in SUBSET Ids
  PROVE  Unanswered = Standing(lookups, groups \cup failed, kind, lost)
<1>1. Unanswered = {i \in Ids : \E stage \in Stages : <<stage, i>> \in lookups}
                     \cup (UNION {{i \in Ids : kind[i] = g} : g \in groups \cup failed})
                     \cup lost
  BY DEF Unanswered, Members
<1>2. QED
  BY <1>1, StandingSet

LEMMA UnansweredNext ==
  ASSUME lost' \in SUBSET Ids
  PROVE  Unanswered' = Standing(lookups', groups' \cup failed', kind', lost')
<1>1. Unanswered' = {i \in Ids : \E stage \in Stages : <<stage, i>> \in lookups'}
                      \cup (UNION {{i \in Ids : kind'[i] = g} : g \in groups' \cup failed'})
                      \cup lost'
  BY DEF Unanswered, Members
<1>2. QED
  BY <1>1, StandingSet

\* Who is unanswered, and that somebody who waits is.
LEMMA UnansweredFacts ==
  ASSUME IInv
  PROVE  /\ Unanswered \in SUBSET Ids
         /\ \A i \in Ids : i \in Unanswered <=>
              \/ \E stage \in Stages : <<stage, i>> \in lookups
              \/ kind[i] \in groups \cup failed
              \/ i \in lost
         /\ lookups # {} \/ groups # {} =>
              /\ called /\ keys # "none" /\ remaining # 0
              /\ remaining = Cardinality(Unanswered)
<1>0. Unanswered = {i \in Ids : \/ \E stage \in Stages : <<stage, i>> \in lookups
                                \/ kind[i] \in groups \cup failed
                                \/ i \in lost}
  BY UnansweredSet DEF Standing, IInv, TypeOK
<1>1. Unanswered \in SUBSET Ids
  BY <1>0
<1>2. \A i \in Ids : i \in Unanswered <=>
        \/ \E stage \in Stages : <<stage, i>> \in lookups
        \/ kind[i] \in groups \cup failed
        \/ i \in lost
  BY <1>0
<1>3. ASSUME lookups # {} \/ groups # {}
      PROVE  Unanswered # {}
  <2>1. CASE lookups # {}
    <3>1. PICK l \in lookups : l \in Stages \X Ids
      BY <2>1 DEF IInv, TypeOK
    <3>2. PICK stage \in Stages, i \in Ids : <<stage, i>> \in lookups
      BY <3>1
    <3>3. QED
      BY <1>2, <3>2
  <2>2. CASE groups # {}
    <3>1. PICK g \in groups : Members(g) # {}
      BY <2>2 DEF IInv, GroupsOK
    <3>2. PICK i \in Ids : kind[i] \in groups
      BY <3>1 DEF Members
    <3>3. QED
      BY <1>2, <3>2
  <2>3. QED
    BY <1>3, <2>1, <2>2
<1>4. ASSUME lookups # {} \/ groups # {}
      PROVE  called /\ keys # "none" /\ remaining # 0 /\ remaining = Cardinality(Unanswered)
  <2>1. called /\ keys # "none"
    BY <1>4 DEF IInv, CallOK
  <2>2. remaining = Cardinality(Unanswered)
    BY <2>1 DEF IInv, RemainingExact
  <2>3. QED
    BY <1>1, <1>3, <1>4, <2>1, <2>2, IdsFinite
<1>5. QED
  BY <1>1, <1>2, <1>4

\* An answer that is counted for the object ids D, none of which has another
\* place to be, lowers the count and adds an idle source if it gets to 0.
LEMMA CountsDown ==
  ASSUME IInv, lookups # {} \/ groups # {}, ~ freed,
         NEW D \in SUBSET Unanswered, Unanswered' = Unanswered \ D,
         remaining' = remaining - Cardinality(D),
         idles' = IF remaining' = 0 THEN idles + 1 ELSE idles,
         UNCHANGED <<called, keys, freed, failed>>
  PROVE  /\ RemainingExact' /\ IdleOK' /\ remaining' \in 0 .. MaxIds
         /\ idles' \in Nat
<1>1. /\ Unanswered \in SUBSET Ids /\ called /\ keys # "none" /\ remaining # 0
      /\ remaining = Cardinality(Unanswered) /\ idles \in Nat
  BY UnansweredFacts DEF IInv, TypeOK
<1>2. /\ remaining' = Cardinality(Unanswered') /\ remaining' \in 0 .. MaxIds
  BY <1>1, Counted
<1>3. failed = {} => idles = 0
  BY <1>1 DEF IInv, IdleOK
<1>4. IdleOK'
  BY <1>1, <1>3 DEF IdleOK
<1>5. QED
  BY <1>1, <1>2, <1>4 DEF RemainingExact

\* An answer for one object id: the only place it has to be is left.
LEMMA CollectedAnswers ==
  ASSUME IInv, NEW stage \in Stages, NEW i \in Ids, <<stage, i>> \in lookups,
         lookups' = lookups \ {<<stage, i>>},
         UNCHANGED <<kind, groups, failed, lost>>
  PROVE  Unanswered' = Unanswered \ {i} /\ i \in Unanswered \ lost
<1>1. /\ kind[i] \notin groups \cup failed /\ i \notin lost
      /\ \A other \in Stages : <<other, i>> \in lookups => other = stage
  BY DEF IInv, LookupsOK
<1>2. /\ Unanswered \in SUBSET Ids
      /\ \A j \in Ids : j \in Unanswered <=>
           \/ \E s \in Stages : <<s, j>> \in lookups
           \/ kind[j] \in groups \cup failed
           \/ j \in lost
  BY UnansweredFacts
<1>3. \A s \in Stages, j \in Ids :
        <<s, j>> \in lookups' <=> <<s, j>> \in lookups /\ j # i
  BY <1>1
<1>4. Unanswered' = {j \in Ids : \/ \E s \in Stages : <<s, j>> \in lookups'
                                 \/ kind[j] \in groups \cup failed
                                 \/ j \in lost}
  BY UnansweredNext DEF Standing, IInv, TypeOK
<1>5. \A j \in Ids : j \in Unanswered' <=> j \in Unanswered /\ j # i
  BY <1>1, <1>2, <1>3, <1>4
<1>6. QED
  BY <1>1, <1>2, <1>4, <1>5

\* _get_metadata_tracker_cb, with a value of its own or an error.
LEMMA CollectedKeepsIInv ==
  ASSUME IInv, NEW stage \in Stages, NEW i \in Ids, At(stage, i),
         NEW value \in 0 .. MaxIds, NEW fails \in BOOLEAN,
         Collected(stage, i, value, fails),
         ~ fails /\ lost = {} => value = i
  PROVE  IInv'
<1>1. /\ TypeOK /\ <<stage, i>> \in lookups /\ ~ freed
      /\ lookups' = lookups \ {<<stage, i>>}
      /\ metadatas' = IF value = 0 THEN metadatas ELSE [metadatas EXCEPT ![i] = value]
      /\ error' = (error \/ fails)
      /\ UNCHANGED <<called, kind, keys, groups, metadata_value, freed, failed, lost>>
  BY DEF At, Collected, Collect, IInv
<1>2. /\ kind[i] \notin groups \cup failed /\ i \notin lost
      /\ \A other \in Stages : <<other, i>> \in lookups => other = stage
  BY <1>1 DEF IInv, LookupsOK
<1>4. \A s \in Stages, j \in Ids :
        <<s, j>> \in lookups' <=> <<s, j>> \in lookups /\ j # i
  BY <1>1, <1>2
<1>5. Unanswered' = Unanswered \ {i} /\ i \in Unanswered
  BY <1>1, CollectedAnswers
<1>6. /\ RemainingExact' /\ IdleOK' /\ remaining' \in 0 .. MaxIds
      /\ idles' \in Nat
  <2>1. Cardinality({i}) = 1
    BY FS_Singleton
  <2>2. /\ remaining' = remaining - Cardinality({i})
        /\ idles' = IF remaining' = 0 THEN idles + 1 ELSE idles
    BY <2>1 DEF Collected, Collect
  <2>3. {i} \in SUBSET Unanswered /\ lookups # {}
    BY <1>1, <1>5
  <2>4. QED
    BY <1>1, <1>5, <2>2, <2>3, CountsDown
<1>7. TypeOK'
  BY <1>1, <1>6 DEF TypeOK
<1>8. LookupsOK'
  BY <1>1, <1>4 DEF IInv, LookupsOK
<1>9. GroupsOK'
  BY <1>1 DEF IInv, GroupsOK, Members
<1>10. CallOK'
  BY <1>1 DEF IInv, CallOK
<1>11. CollectedOK'
  <2>1. failed' # {} => error'
    BY <1>1 DEF IInv, CollectedOK
  <2>2. ASSUME ~ error', lost' = {}, keys' # "none", NEW j \in Ids \ Unanswered',
               kind'[j] # "absent"
        PROVE  metadatas'[j] = j
    <3>0. ~ error /\ ~ fails /\ lost = {} /\ keys # "none"
      BY <1>1, <2>2
    <3>1. ~ error /\ ~ fails /\ lost = {} /\ keys # "none" /\ value = i /\ value # 0
      <4>1. value = i
        BY <3>0
      <4>2. i # 0
        BY MaxIdsAssumption DEF Ids
      <4>3. QED
        BY <3>0, <4>1, <4>2
    <3>2. metadatas' = [metadatas EXCEPT ![i] = i]
      BY <1>1, <3>1
    <3>3. CASE j = i
      BY <1>1, <3>2, <3>3 DEF TypeOK
    <3>4. CASE j # i
      <4>1. metadatas[j] = j
        BY <1>1, <1>5, <2>2, <3>1, <3>4 DEF IInv, CollectedOK
      <4>2. QED
        BY <1>1, <3>2, <3>4, <4>1 DEF TypeOK
    <3>5. QED
      BY <3>3, <3>4
  <2>3. QED
    BY <2>1, <2>2 DEF CollectedOK
<1>12. QED
  BY <1>6, <1>7, <1>8, <1>9, <1>10, <1>11 DEF IInv

\* A request that goes on to another stage stands for the same object id.
LEMMA OnwardAnswersNobody ==
  ASSUME IInv, NEW stage \in Stages, NEW i \in Ids, <<stage, i>> \in lookups,
         NEW next \in Stages,
         lookups' = (lookups \ {<<stage, i>>}) \cup {<<next, i>>},
         UNCHANGED <<kind, groups, failed, lost>>
  PROVE  Unanswered' = Unanswered
<1>1. \A other \in Stages : <<other, i>> \in lookups => other = stage
  BY DEF IInv, LookupsOK
<1>2. \A s \in Stages, j \in Ids :
        <<s, j>> \in lookups' <=> IF j = i THEN s = next ELSE <<s, j>> \in lookups
  BY <1>1
<1>3. /\ Unanswered' = {j \in Ids : \/ \E s \in Stages : <<s, j>> \in lookups'
                                    \/ kind[j] \in groups \cup failed
                                    \/ j \in lost}
      /\ Unanswered = {j \in Ids : \/ \E s \in Stages : <<s, j>> \in lookups
                                   \/ kind[j] \in groups \cup failed
                                   \/ j \in lost}
  BY UnansweredSet, UnansweredNext DEF Standing, IInv, TypeOK
<1>4. \A j \in Ids : (\E s \in Stages : <<s, j>> \in lookups')
                       <=> \E s \in Stages : <<s, j>> \in lookups
  BY <1>2
<1>5. QED
  BY <1>3, <1>4

\* The closure of an object id goes on to another stage.
LEMMA OnwardKeepsIInv ==
  ASSUME IInv, NEW stage \in Stages, NEW i \in Ids, At(stage, i),
         NEW next \in Stages, NEW value \in {0, i},
         Onward(stage, i, next, value), next = "duration" => value = i
  PROVE  IInv'
<1>1. /\ TypeOK /\ <<stage, i>> \in lookups /\ i \in Nat /\ i <= MaxIds
      /\ lookups' = (lookups \ {<<stage, i>>}) \cup {<<next, i>>}
      /\ metadata_value' = [metadata_value EXCEPT ![i] = value]
      /\ UNCHANGED <<called, kind, keys, groups, remaining, error, metadatas,
                     idles, freed, failed, lost>>
  BY MaxIdsAssumption DEF At, Onward, IInv, Ids
<1>2. /\ kind[i] \notin groups \cup failed /\ i \notin lost
      /\ \A other \in Stages : <<other, i>> \in lookups => other = stage
  BY <1>1 DEF IInv, LookupsOK
<1>3. \A s \in Stages, j \in Ids :
        <<s, j>> \in lookups' <=> IF j = i THEN s = next ELSE <<s, j>> \in lookups
  BY <1>1, <1>2
<1>4. Unanswered' = Unanswered
  BY <1>1, OnwardAnswersNobody
<1>5. TypeOK'
  <2>1. value \in 0 .. MaxIds
    BY <1>1, MaxIdsAssumption
  <2>2. lookups' \subseteq Stages \X Ids
    BY <1>1 DEF TypeOK
  <2>3. metadata_value' \in [Ids -> 0 .. MaxIds]
    BY <1>1, <2>1 DEF TypeOK
  <2>4. QED
    BY <1>1, <2>2, <2>3 DEF TypeOK
<1>6. LookupsOK'
  <2>1. metadata_value'[i] = value /\ \A j \in Ids \ {i} : metadata_value'[j] = metadata_value[j]
    BY <1>1 DEF TypeOK
  <2>2. QED
    BY <1>1, <1>2, <1>3, <2>1 DEF IInv, LookupsOK
<1>7. GroupsOK'
  BY <1>1 DEF IInv, GroupsOK, Members
<1>8. CallOK' /\ IdleOK'
  BY <1>1 DEF IInv, CallOK, IdleOK
<1>9. RemainingExact' /\ CollectedOK'
  BY <1>1, <1>4 DEF IInv, RemainingExact, CollectedOK
<1>10. QED
  BY <1>5, <1>6, <1>7, <1>8, <1>9 DEF IInv

\* A request that is lost still stands for its object id.
LEMMA LosingAnswersNobody ==
  ASSUME IInv, NEW stage \in Stages, NEW i \in Ids, <<stage, i>> \in lookups,
         lookups' = lookups \ {<<stage, i>>}, lost' = lost \cup {i},
         UNCHANGED <<kind, groups, failed>>
  PROVE  Unanswered' = Unanswered
<1>1. \A other \in Stages : <<other, i>> \in lookups => other = stage
  BY DEF IInv, LookupsOK
<1>2. \A s \in Stages, j \in Ids :
        <<s, j>> \in lookups' <=> <<s, j>> \in lookups /\ j # i
  BY <1>1
<1>3. /\ Unanswered' = Standing(lookups', groups \cup failed, kind, lost \cup {i})
      /\ Unanswered = Standing(lookups, groups \cup failed, kind, lost)
  BY UnansweredSet, UnansweredNext DEF IInv, TypeOK
<1>4. \A j \in Ids : \/ \E s \in Stages : <<s, j>> \in lookups'
                     \/ j \in lost \cup {i}
                   <=>
                     \/ \E s \in Stages : <<s, j>> \in lookups
                     \/ j \in lost
  BY <1>2
<1>5. QED
  BY <1>3, <1>4 DEF Standing

\* The browse of a playlist never ends.
LEMMA DurationLostKeepsIInv ==
  ASSUME IInv, NEW i \in Ids, DurationLost(i)
  PROVE  IInv'
<1>1. /\ TypeOK /\ "duration" \in Stages /\ <<"duration", i>> \in lookups
      /\ lookups' = lookups \ {<<"duration", i>>}
      /\ lost' = lost \cup {i}
      /\ UNCHANGED <<called, kind, keys, groups, metadata_value, remaining, error,
                     metadatas, idles, freed, failed>>
  BY DEF At, DurationLost, IInv, Stages
<1>2. /\ kind[i] \notin groups \cup failed
      /\ \A other \in Stages : <<other, i>> \in lookups => other = "duration"
  BY <1>1 DEF IInv, LookupsOK
<1>3. \A s \in Stages, j \in Ids :
        <<s, j>> \in lookups' <=> <<s, j>> \in lookups /\ j # i
  BY <1>1, <1>2
<1>4. TypeOK'
  BY <1>1 DEF TypeOK
<1>5. Unanswered' = Unanswered
  BY <1>1, LosingAnswersNobody
<1>6. LookupsOK'
  BY <1>1, <1>3 DEF IInv, LookupsOK
<1>7. GroupsOK'
  BY <1>1, <1>2 DEF IInv, GroupsOK, Members
<1>8. CallOK'
  BY <1>1 DEF IInv, CallOK
<1>9. IdleOK' /\ RemainingExact'
  BY <1>1, <1>5 DEF IInv, IdleOK, RemainingExact
<1>10. CollectedOK'
  BY <1>1 DEF IInv, CollectedOK
<1>11. QED
  BY <1>4, <1>6, <1>7, <1>8, <1>9, <1>10 DEF IInv

\* The answers for one object id.
LEMMA SingleAnswerKeepsIInv ==
  ASSUME IInv, NEW i \in Ids, SingleAnswer(i)
  PROVE  IInv'
<1>1. /\ {"single", "videos", "duration"} \subseteq Stages
      /\ At("single", i) /\ 0 \in 0 .. MaxIds /\ i \in 0 .. MaxIds /\ i # 0
  BY MaxIdsAssumption DEF SingleAnswer, Stages, Ids
<1>2. PICK value \in {0, i} :
        \/ Onward("single", i, "videos", value)
        \/ value # 0 /\ Onward("single", i, "duration", value)
        \/ Collected("single", i, value, value = 0)
  BY DEF SingleAnswer
<1>3. CASE Onward("single", i, "videos", value)
  BY <1>1, <1>3, OnwardKeepsIInv
<1>4. CASE value # 0 /\ Onward("single", i, "duration", value)
  BY <1>1, <1>4, OnwardKeepsIInv
<1>5. CASE Collected("single", i, value, value = 0)
  <2>1. CASE value = 0
    <3>1. Collected("single", i, 0, TRUE)
      BY <1>5, <2>1 DEF Collected, Collect
    <3>2. QED
      BY <1>1, <3>1, CollectedKeepsIInv
  <2>2. CASE value = i
    <3>1. Collected("single", i, i, FALSE)
      BY <1>1, <1>5, <2>2 DEF Collected, Collect
    <3>2. QED
      BY <1>1, <3>1, CollectedKeepsIInv
  <2>3. QED
    BY <2>1, <2>2
<1>6. QED
  BY <1>2, <1>3, <1>4, <1>5

LEMMA LaterAnswerKeepsIInv ==
  ASSUME IInv, NEW i \in Ids, VideosAnswer(i) \/ DurationAnswer(i)
  PROVE  IInv'
<1>1. /\ {"single", "videos", "duration"} \subseteq Stages
      /\ i \in 0 .. MaxIds /\ metadata_value[i] \in 0 .. MaxIds
  BY MaxIdsAssumption DEF Stages, Ids, IInv, TypeOK
<1>2. CASE VideosAnswer(i)
  <2>1. At("videos", i)
    BY <1>2 DEF VideosAnswer
  <2>2. CASE Collected("videos", i, i, FALSE)
    BY <1>1, <2>1, <2>2, CollectedKeepsIInv
  <2>3. CASE Collected("videos", i, metadata_value[i], TRUE)
    BY <1>1, <2>1, <2>3, CollectedKeepsIInv
  <2>4. QED
    BY <1>2, <2>2, <2>3 DEF VideosAnswer
<1>3. CASE DurationAnswer(i)
  <2>1. At("duration", i)
    BY <1>3 DEF DurationAnswer
  <2>2. lost = {} => metadata_value[i] = i
    BY <1>1, <2>1 DEF At, IInv, LookupsOK
  <2>3. PICK fails \in BOOLEAN : Collected("duration", i, metadata_value[i], fails)
    BY <1>3 DEF DurationAnswer
  <2>4. QED
    BY <1>1, <2>1, <2>2, <2>3, CollectedKeepsIInv
<1>4. QED
  BY <1>2, <1>3

\* A group is answered with an error.
LEMMA GroupFailsKeepsIInv ==
  ASSUME IInv, NEW g \in Groups, GroupFails(g)
  PROVE  IInv'
<1>1. /\ TypeOK /\ g \in groups /\ ~ freed
      /\ groups' = groups \ {g} /\ failed' = failed \cup {g} /\ error' = TRUE
      /\ idles' = idles + 1
      /\ UNCHANGED <<called, kind, keys, lookups, metadata_value, remaining,
                     metadatas, freed, lost>>
  BY DEF GroupFails, IInv
<1>2. groups' \cup failed' = groups \cup failed /\ failed' # {}
  BY <1>1
<1>3. TypeOK'
  BY <1>1 DEF TypeOK
<1>4. Unanswered' = Unanswered
  BY <1>1, <1>2, <1>3, UnansweredSet, UnansweredNext DEF TypeOK
<1>5. LookupsOK'
  BY <1>1, <1>2 DEF IInv, LookupsOK
<1>6. GroupsOK'
  BY <1>1, <1>2 DEF IInv, GroupsOK, Members
<1>7. CallOK'
  BY <1>1 DEF IInv, CallOK
<1>8. IdleOK' /\ RemainingExact' /\ CollectedOK'
  BY <1>1, <1>2, <1>4 DEF IInv, IdleOK, RemainingExact, CollectedOK
<1>9. QED
  BY <1>3, <1>5, <1>6, <1>7, <1>8 DEF IInv

\* The idle source calls back.
LEMMA EmitKeepsIInv ==
  ASSUME IInv, Emit
  PROVE  IInv'
<1>1. /\ TypeOK /\ idles > 0 /\ ~ freed /\ idles' = idles - 1 /\ freed' = TRUE
      /\ UNCHANGED <<called, kind, keys, lookups, groups, metadata_value, remaining,
                     error, metadatas, failed, lost>>
  BY DEF Emit, IInv
<1>2. TypeOK'
  BY <1>1 DEF TypeOK
<1>3. Unanswered' = Unanswered
  BY <1>1 DEF Unanswered, Members
<1>4. IdleOK' /\ CallOK'
  BY <1>1 DEF IInv, IdleOK, CallOK, TypeOK
<1>5. LookupsOK' /\ GroupsOK'
  BY <1>1 DEF IInv, LookupsOK, GroupsOK, Members
<1>6. RemainingExact' /\ CollectedOK'
  BY <1>1, <1>3 DEF IInv, RemainingExact, CollectedOK
<1>7. QED
  BY <1>2, <1>4, <1>5, <1>6 DEF IInv

LEMMA InitEstablishesIInv == Init => IInv
<1> SUFFICES ASSUME Init
             PROVE  IInv
  OBVIOUS
<1>0. 0 \in 0 .. MaxIds
  BY MaxIdsAssumption
<1>1. TypeOK
  BY <1>0 DEF Init, TypeOK
<1>2. LookupsOK /\ GroupsOK /\ CallOK /\ IdleOK
  BY DEF Init, LookupsOK, GroupsOK, CallOK, IdleOK
<1>3. RemainingExact /\ CollectedOK
  BY DEF Init, RemainingExact, CollectedOK
<1>4. QED
  BY <1>1, <1>2, <1>3 DEF IInv

\* What the answer of a group is: rows are heard for some members of the group,
\* and the durations of some of these are missing.
GroupStep(g, heard, untimed, row) ==
  /\ heard \in SUBSET Members(g) /\ untimed \in SUBSET heard
  /\ row \in [heard -> Ids]
  /\ heard = Members(g) => \A i \in heard : row[i] = i
  /\ untimed # {} => keys = "timed"
  /\ Cardinality(Members(g)) = 1 => heard = Members(g)
  /\ metadatas' = [i \in Ids |-> IF i \in heard \ untimed THEN row[i]
                                 ELSE metadatas[i]]
  /\ metadata_value' = [i \in Ids |-> IF i \in untimed THEN row[i]
                                      ELSE metadata_value[i]]
  /\ lookups' = lookups \cup ({"duration"} \X untimed)
  /\ remaining' = remaining - Cardinality(heard \ untimed)
  /\ lost' = lost \cup (Members(g) \ heard)

\* A group of one object is answered for it, known or not.
LEMMA OneIsHeard ==
  ASSUME NEW i \in Ids, NEW known \in SUBSET {i}
  PROVE  <<i, i>> \in Paired({i}, Found({i}, known))
<1>1. {j \in {i} : j >= i} = {i} /\ Cardinality({i}) = 1
  <2>1. i \in Nat
    BY MaxIdsAssumption DEF Ids
  <2>2. {j \in {i} : j >= i} = {i}
    BY <2>1
  <2>3. QED
    BY <2>2, FS_Singleton
<1>2. Place(i, {i}) = 1
  BY <1>1 DEF Place
<1>3. Found({i}, known) = {i}
  BY <1>2 DEF Found
<1>4. QED
  BY <1>3 DEF Paired

LEMMA GroupAnswerIsStep ==
  ASSUME NEW g \in Groups, GroupAnswer(g)
  PROVE  \E heard, untimed, row : GroupStep(g, heard, untimed, row)
<1> DEFINE members == Members(g)
           pairsOf(known) == Paired(members, Found(members, known))
           heardOf(pairs) == {p[1] : p \in pairs}
           rowOf(pairs, i) == CHOOSE j \in Ids : <<i, j>> \in pairs
<1>1. PICK known \in SUBSET members :
        \E untimed \in IF g = "playlist" /\ keys = "timed"
                        THEN SUBSET heardOf(pairsOf(known)) ELSE {{}} :
          LET pairs == pairsOf(known)
              done == heardOf(pairs) \ untimed
          IN  /\ metadatas' = [i \in Ids |-> IF i \in done THEN rowOf(pairs, i)
                                             ELSE metadatas[i]]
              /\ metadata_value' = [i \in Ids |-> IF i \in untimed THEN rowOf(pairs, i)
                                                  ELSE metadata_value[i]]
              /\ lookups' = lookups \cup ({"duration"} \X untimed)
              /\ remaining' = remaining - Cardinality(done)
              /\ lost' = lost \cup (members \ heardOf(pairs))
  BY DEF GroupAnswer
<1> DEFINE pairs == pairsOf(known)
           heard == heardOf(pairs)
           row == [i \in heard |-> rowOf(pairs, i)]
<1>2. PICK untimed \in IF g = "playlist" /\ keys = "timed" THEN SUBSET heard ELSE {{}} :
        /\ metadatas' = [i \in Ids |-> IF i \in heard \ untimed THEN rowOf(pairs, i)
                                       ELSE metadatas[i]]
        /\ metadata_value' = [i \in Ids |-> IF i \in untimed THEN rowOf(pairs, i)
                                            ELSE metadata_value[i]]
        /\ lookups' = lookups \cup ({"duration"} \X untimed)
        /\ remaining' = remaining - Cardinality(heard \ untimed)
        /\ lost' = lost \cup (members \ heard)
  BY <1>1
<1>3. untimed \in SUBSET heard /\ (untimed # {} => keys = "timed")
  <2> HIDE DEF heard
  <2>1. QED
    BY <1>2
<1>4. members \in SUBSET Ids
  BY DEF Members
<1>5. Found(members, known) \in SUBSET members
  <2> HIDE DEF members
  <2>1. QED
    BY <1>4, FoundMembers
<1>6. /\ heard \in SUBSET members
      /\ \A i \in heard : rowOf(pairs, i) \in Ids /\ <<i, rowOf(pairs, i)>> \in pairs
  <2>1. \A p \in pairs : p \in members \X members
    BY <1>5 DEF Paired
  <2>2. ASSUME NEW i \in heard
        PROVE  /\ i \in members /\ rowOf(pairs, i) \in Ids
               /\ <<i, rowOf(pairs, i)>> \in pairs
    <3>1. PICK p \in pairs : p[1] = i
      OBVIOUS
    <3>2. /\ p = <<i, p[2]>> /\ i \in members /\ p[2] \in members
      BY <2>1, <3>1
    <3>3. \E j \in Ids : <<i, j>> \in pairs
      BY <1>4, <3>1, <3>2
    <3>4. QED
      BY <3>2, <3>3
  <2>3. QED
    BY <2>2
<1>7. heard = members => \A i \in heard : row[i] = i
  <2>1. ASSUME heard = members, NEW i \in heard
        PROVE  rowOf(pairs, i) = i
    <3>1. \A k \in members : \E p \in pairs : p[1] = k
      BY <2>1
    <3>2. rowOf(pairs, i) \in Ids /\ <<i, rowOf(pairs, i)>> \in pairs /\ i \in members
      BY <1>6
    <3> DEFINE j == rowOf(pairs, i)
               found == Found(members, known)
    <3>3. /\ j \in Ids /\ <<i, j>> \in Paired(members, found)
          /\ \A k \in members : \E p \in Paired(members, found) : p[1] = k
      BY <3>1, <3>2
    <3> HIDE DEF j, found, members
    <3>4. i = j
      BY <1>4, <1>5, <3>2, <3>3, PairedWithItself DEF found
    <3>5. QED
      BY <3>4 DEF j
  <2>2. QED
    BY <2>1
<1>8. ASSUME Cardinality(members) = 1
      PROVE  heard = members
  <2>1. PICK i : members = {i}
    <3>1. IsFiniteSet(members)
      BY <1>4, IdsFinite
    <3> HIDE DEF members
    <3>2. QED
      BY <1>8, <3>1, FS_Singleton
  <2>2. i \in Ids
    BY <1>4, <2>1
  <2>3. <<i, i>> \in pairs
    <3> HIDE DEF members
    <3>1. QED
      BY <2>1, <2>2, OneIsHeard
  <2>4. <<i, i>>[1] = i
    OBVIOUS
  <2>5. i \in heard
    BY <2>3, <2>4
  <2> HIDE DEF heard, members
  <2>6. QED
    BY <1>6, <2>1, <2>5
<1>9. row \in [heard -> Ids]
  <2>1. \A i \in heard : rowOf(pairs, i) \in Ids
    BY <1>6
  <2> HIDE DEF heard, pairs, rowOf
  <2>2. QED
    BY <2>1
<1>10. \A i \in heard : row[i] = rowOf(pairs, i)
  OBVIOUS
<1>11. GroupStep(g, heard, untimed, row)
  <2> HIDE DEF heard, row, pairs, rowOf
  <2>1. /\ metadatas' = [i \in Ids |-> IF i \in heard \ untimed THEN row[i]
                                       ELSE metadatas[i]]
        /\ metadata_value' = [i \in Ids |-> IF i \in untimed THEN row[i]
                                            ELSE metadata_value[i]]
    BY <1>2, <1>3, <1>10
  <2>2. QED
    BY <1>2, <1>3, <1>6, <1>7, <1>8, <1>9, <2>1 DEF GroupStep
<1> HIDE DEF heard, row
<1>12. QED
  BY <1>11

\* Those heard and timed are answered, those not heard of are lost.
LEMMA GroupStepAnswers ==
  ASSUME IInv, NEW g \in groups, NEW heard, NEW untimed, NEW row,
         GroupStep(g, heard, untimed, row),
         groups' = groups \ {g}, UNCHANGED <<kind, failed>>
  PROVE  /\ Unanswered' = Unanswered \ (heard \ untimed)
         /\ heard \in SUBSET (Unanswered \ lost)
         /\ Members(g) \in SUBSET (Unanswered \ lost)
<1> DEFINE members == Members(g)
           done == heard \ untimed
<1>1. /\ heard \in SUBSET members /\ untimed \in SUBSET heard
      /\ lookups' = lookups \cup ({"duration"} \X untimed)
      /\ lost' = lost \cup (members \ heard)
  BY DEF GroupStep
<1>2. members \in SUBSET Ids /\ \A i \in Ids : i \in members <=> kind[i] = g
  BY DEF Members
<1> HIDE DEF members, done
<1>3. lost' \in SUBSET Ids /\ lost \in SUBSET Ids
  BY <1>1, <1>2 DEF IInv, TypeOK
<1>4. \A i \in members : /\ i \notin lost /\ kind[i] \in groups /\ kind[i] \notin failed
                         /\ \A s \in Stages : <<s, i>> \notin lookups
  BY <1>2 DEF IInv, LookupsOK, GroupsOK
<1>5. \A s \in Stages, i \in Ids :
        <<s, i>> \in lookups' <=> \/ <<s, i>> \in lookups
                                  \/ s = "duration" /\ i \in untimed
  BY <1>1
<1>6. "duration" \in Stages
  BY DEF Stages
<1>7. /\ Unanswered' = Standing(lookups', (groups \ {g}) \cup failed, kind, lost')
      /\ Unanswered = Standing(lookups, groups \cup failed, kind, lost)
  BY <1>3, UnansweredSet, UnansweredNext
<1>8. members \in SUBSET (Unanswered \ lost)
  <2>1. \A i \in members : i \in Unanswered
    BY <1>2, <1>4, <1>7 DEF Standing
  <2>2. QED
    BY <1>4, <2>1
<1>9. ASSUME NEW i \in Ids
      PROVE  i \in Unanswered' <=> i \in Unanswered /\ i \notin done
  <2>1. i \in Unanswered <=> \/ \E s \in Stages : <<s, i>> \in lookups
                             \/ kind[i] \in groups \cup failed
                             \/ i \in lost
    BY <1>7 DEF Standing
  <2>2. i \in Unanswered' <=> \/ \E s \in Stages : <<s, i>> \in lookups'
                              \/ kind[i] \in (groups \ {g}) \cup failed
                              \/ i \in lost'
    BY <1>7 DEF Standing
  <2>3. CASE i \in members
    <3>1. i \in Unanswered /\ kind[i] = g /\ kind[i] \notin failed
      BY <1>2, <1>4, <2>1, <2>3
    <3>2. i \in Unanswered' <=> i \in untimed \/ i \notin heard
      BY <1>1, <1>4, <1>5, <1>6, <2>2, <2>3, <3>1
    <3>3. QED
      BY <1>1, <3>1, <3>2 DEF done
  <2>4. CASE i \notin members
    <3>1. i \notin heard /\ i \notin untimed /\ kind[i] # g
      BY <1>1, <1>2, <2>4
    <3>2. i \in lost' <=> i \in lost
      BY <1>1, <2>4
    <3>3. QED
      BY <1>5, <2>1, <2>2, <3>1, <3>2 DEF done
  <2>5. QED
    BY <2>3, <2>4
<1>10. Unanswered \subseteq Ids /\ Unanswered' \subseteq Ids
  BY <1>7 DEF Standing
<1>11. Unanswered' = Unanswered \ done
  BY <1>9, <1>10
<1>12. QED
  BY <1>1, <1>8, <1>11 DEF members, done

\* A group is answered with rows.
LEMMA GroupAnswerKeepsIInv ==
  ASSUME IInv, NEW g \in Groups, GroupAnswer(g)
  PROVE  IInv'
<1> DEFINE members == Members(g)
<1>1. /\ TypeOK /\ g \in groups /\ ~ freed /\ groups' = groups \ {g}
      /\ idles' = IF remaining' = 0 THEN idles + 1 ELSE idles
      /\ UNCHANGED <<called, kind, keys, error, freed, failed>>
  BY DEF GroupAnswer, IInv
<1>2. PICK heard, untimed, row : GroupStep(g, heard, untimed, row)
  BY GroupAnswerIsStep
<1> DEFINE done == heard \ untimed
<1>3. /\ Unanswered' = Unanswered \ done
      /\ heard \in SUBSET (Unanswered \ lost) /\ members \in SUBSET (Unanswered \ lost)
  BY <1>1, <1>2, GroupStepAnswers
<1>4. members \in SUBSET Ids /\ \A i \in Ids : i \in members <=> kind[i] = g
  BY DEF Members
<1>6. /\ heard \in SUBSET members /\ untimed \in SUBSET heard
      /\ \A i \in heard : row[i] \in Ids
  BY <1>2 DEF GroupStep
<1>7. heard = members => \A i \in heard : row[i] = i
  BY <1>2 DEF GroupStep
<1>8. /\ metadatas' = [i \in Ids |-> IF i \in done THEN row[i] ELSE metadatas[i]]
      /\ metadata_value' = [i \in Ids |-> IF i \in untimed THEN row[i]
                                          ELSE metadata_value[i]]
      /\ lookups' = lookups \cup ({"duration"} \X untimed)
      /\ remaining' = remaining - Cardinality(done)
      /\ lost' = lost \cup (members \ heard)
      /\ done = heard \ untimed
  BY <1>2 DEF GroupStep
<1> HIDE DEF members, done
<1>9. \A i \in members : /\ i \notin lost /\ kind[i] \in groups /\ kind[i] \notin failed
                         /\ \A s \in Stages : <<s, i>> \notin lookups
  BY <1>1, <1>4 DEF IInv, LookupsOK, GroupsOK
<1>10. \A s \in Stages, i \in Ids :
         <<s, i>> \in lookups' <=> \/ <<s, i>> \in lookups
                                   \/ s = "duration" /\ i \in untimed
  BY <1>8
<1>11. "duration" \in Stages
  BY DEF Stages
<1>12. /\ lookups' \subseteq Stages \X Ids /\ lost' \subseteq Ids
       /\ metadatas' \in [Ids -> 0 .. MaxIds]
       /\ metadata_value' \in [Ids -> 0 .. MaxIds]
  <2>1. \A i \in Ids : i \in 0 .. MaxIds
    BY MaxIdsAssumption DEF Ids
  <2>2. metadatas \in [Ids -> 0 .. MaxIds] /\ metadata_value \in [Ids -> 0 .. MaxIds]
        /\ lookups \subseteq Stages \X Ids /\ lost \subseteq Ids
    BY <1>1 DEF TypeOK
  <2>3. \A i \in untimed \cup done : row[i] \in 0 .. MaxIds
    BY <1>6, <1>8, <2>1
  <2>4. metadatas' \in [Ids -> 0 .. MaxIds] /\ metadata_value' \in [Ids -> 0 .. MaxIds]
    BY <1>8, <2>2, <2>3
  <2>5. lookups' \subseteq Stages \X Ids /\ lost' \subseteq Ids
    BY <1>4, <1>6, <1>8, <1>11, <2>2
  <2>6. QED
    BY <2>4, <2>5
<1>13. Unanswered' = Unanswered \ done /\ done \in SUBSET Unanswered
  BY <1>3, <1>8
<1>14. /\ RemainingExact' /\ IdleOK' /\ remaining' \in 0 .. MaxIds
       /\ idles' \in Nat
  BY <1>1, <1>8, <1>13, CountsDown
<1>15. TypeOK'
  BY <1>1, <1>12, <1>14 DEF TypeOK
<1>16. LookupsOK'
  <2>1. ASSUME NEW s \in Stages, NEW i \in Ids, <<s, i>> \in lookups'
        PROVE  /\ kind[i] \notin groups' \cup failed
               /\ i \notin lost'
               /\ \A other \in Stages : <<other, i>> \in lookups' => other = s
               /\ s = "duration" /\ lost' = {} => metadata_value'[i] = i
    <3>1. CASE i \in members
      <4>1. s = "duration" /\ i \in untimed /\ i \in heard
        BY <1>6, <1>9, <1>10, <2>1, <3>1
      <4>2. kind[i] = g /\ kind[i] \notin failed /\ i \notin lost
        BY <1>4, <1>9, <3>1
      <4>3. kind[i] \notin groups' \cup failed /\ i \notin lost'
        BY <1>1, <1>8, <4>1, <4>2
      <4>4. \A other \in Stages : <<other, i>> \in lookups' => other = s
        BY <1>9, <1>10, <3>1, <4>1
      <4>5. lost' = {} => metadata_value'[i] = i
        <5>1. lost' = {} => heard = members
          BY <1>6, <1>8
        <5>2. metadata_value'[i] = row[i]
          BY <1>8, <4>1
        <5>3. QED
          BY <1>7, <4>1, <5>1, <5>2
      <4>6. QED
        BY <4>3, <4>4, <4>5
    <3>2. CASE i \notin members
      <4>1. i \notin untimed /\ i \notin heard
        BY <1>6, <3>2
      <4>2. <<s, i>> \in lookups
        BY <1>10, <2>1, <4>1
      <4>3. /\ kind[i] \notin groups \cup failed /\ i \notin lost
            /\ \A other \in Stages : <<other, i>> \in lookups => other = s
            /\ s = "duration" /\ lost = {} => metadata_value[i] = i
        BY <4>2 DEF IInv, LookupsOK
      <4>4. metadata_value'[i] = metadata_value[i] /\ i \notin lost'
        BY <1>8, <3>2, <4>1, <4>3
      <4>5. lost' = {} => lost = {}
        BY <1>8
      <4>6. QED
        BY <1>1, <1>10, <4>1, <4>3, <4>4, <4>5
    <3>3. QED
      BY <3>1, <3>2
  <2>2. QED
    BY <1>1, <2>1 DEF LookupsOK
<1>17. GroupsOK'
  <2>1. \A i \in lost' : kind[i] \notin groups' \cup failed
    <3>1. \A i \in members : kind[i] = g /\ g \notin failed
      BY <1>4, <1>9
    <3>2. QED
      BY <1>1, <1>8, <3>1 DEF IInv, GroupsOK
  <2>2. QED
    BY <1>1, <2>1 DEF IInv, GroupsOK, Members
<1>18. CallOK'
  BY <1>1 DEF IInv, CallOK
<1>19. CollectedOK'
  <2>1. ASSUME ~ error', lost' = {}, keys' # "none", NEW i \in Ids \ Unanswered',
               kind'[i] # "absent"
        PROVE  metadatas'[i] = i
    <3>1. ~ error /\ lost = {} /\ keys # "none" /\ kind[i] # "absent" /\ heard = members
      BY <1>1, <1>6, <1>8, <2>1
    <3>2. CASE i \in done
      <4>1. metadatas'[i] = row[i] /\ i \in heard
        BY <1>8, <3>2
      <4>2. QED
        BY <1>7, <3>1, <4>1
    <3>3. CASE i \notin done
      <4>1. i \in Ids \ Unanswered
        BY <1>13, <2>1, <3>3
      <4>2. metadatas[i] = i
        BY <3>1, <4>1 DEF IInv, CollectedOK
      <4>3. QED
        BY <1>8, <3>3, <4>1, <4>2
    <3>4. QED
      BY <3>2, <3>3
  <2>2. failed' # {} => error'
    BY <1>1 DEF IInv, CollectedOK
  <2>3. QED
    BY <2>1, <2>2 DEF CollectedOK
<1>20. QED
  BY <1>14, <1>15, <1>16, <1>17, <1>18, <1>19 DEF IInv

\* The call: everybody who is not malformed is asked about.
LEMMA GetMetadatasKeepsIInv ==
  ASSUME IInv, NEW n \in 0 .. MaxIds, NEW k \in [1 .. n -> Kinds],
         NEW requested \in {"none", "some", "timed"}, GetMetadatas(n, k, requested)
  PROVE  IInv'
<1> DEFINE invalid == {i \in 1 .. n : k[i] = "invalid"}
           empty == n = 0 \/ requested = "none"
           asked == {i \in 1 .. n : k[i] \in Singles}
<1>1. /\ TypeOK /\ ~ called /\ called' = TRUE /\ keys' = requested
      /\ kind' = [i \in Ids |-> IF i <= n THEN k[i] ELSE "absent"]
      /\ idles' = IF empty \/ remaining' = 0 THEN 1 ELSE 0
      /\ UNCHANGED <<metadata_value, metadatas, freed, failed, lost>>
  BY DEF GetMetadatas, IInv
<1>2. IF empty
      THEN /\ error' = (n = 0)
           /\ remaining' = n
           /\ UNCHANGED <<lookups, groups>>
      ELSE /\ error' = (invalid # {})
           /\ remaining' = n - Cardinality(invalid)
           /\ lookups' = {"single"} \X asked
           /\ groups' = {g \in Groups : \E i \in 1 .. n : k[i] = g}
  BY DEF GetMetadatas
<1>3. lookups = {} /\ groups = {} /\ failed = {} /\ lost = {} /\ ~ freed
  BY <1>1 DEF IInv, CallOK
<1>4. /\ n \in Nat /\ n <= MaxIds /\ 1 .. n \in SUBSET Ids
      /\ \A i \in 1 .. n : i \in Ids /\ i <= n
      /\ \A i \in Ids : i <= n => i \in 1 .. n
  BY MaxIdsAssumption DEF Ids
<1>5. /\ kind' \in [Ids -> Kinds \cup {"absent"}]
      /\ \A i \in 1 .. n : kind'[i] = k[i] /\ k[i] \in Kinds
      /\ \A i \in Ids \ 1 .. n : kind'[i] = "absent"
  <2>1. \A i \in 1 .. n : k[i] \in Kinds
    OBVIOUS
  <2>2. QED
    BY <1>1, <1>4, <2>1
<1>6. invalid \in SUBSET 1 .. n /\ (empty => ~ (n # 0 /\ requested # "none"))
  OBVIOUS
<1> HIDE DEF invalid
<1>7. /\ IsFiniteSet(invalid) /\ Cardinality(invalid) \in Nat
      /\ Cardinality((1 .. n) \ invalid) = n - Cardinality(invalid)
      /\ Cardinality((1 .. n) \ invalid) \in 0 .. MaxIds
  <2>1. invalid \in SUBSET Ids
    BY <1>4, <1>6
  <2>2. Cardinality(1 .. n) = n
    BY <1>4, FS_Interval
  <2>3. QED
    BY <1>4, <1>6, <2>1, <2>2, IdsFinite, Counted
<1>8. "single" \in Stages /\ "absent" \notin Groups /\ Kinds = Groups \cup Singles \cup {"invalid"}
      /\ "invalid" \notin Groups \cup Singles /\ Groups \cap Singles = {}
      /\ "absent" \notin Singles
  BY DEF Stages, Groups, Kinds, Singles
<1>9. lookups' \subseteq Stages \X Ids /\ groups' \subseteq Groups
  BY <1>2, <1>3, <1>4, <1>8
<1>10. TypeOK'
  <2>1. remaining' \in 0 .. MaxIds /\ error' \in BOOLEAN /\ idles' \in Nat
    BY <1>1, <1>2, <1>4, <1>7, MaxIdsAssumption
  <2>2. QED
    BY <1>1, <1>5, <1>9, <2>1 DEF TypeOK
<1>11. LookupsOK'
  <2>1. CASE empty
    BY <1>2, <1>3, <2>1 DEF LookupsOK
  <2>2. CASE ~ empty
    <3>1. ASSUME NEW s \in Stages, NEW i \in Ids, <<s, i>> \in lookups'
          PROVE  /\ s = "single" /\ kind'[i] \notin groups' \cup failed' /\ i \notin lost'
                 /\ "duration" # s
      <4>1. s = "single" /\ i \in 1 .. n /\ k[i] \in Singles
        BY <1>2, <2>2, <3>1
      <4>2. kind'[i] \notin groups'
        BY <1>5, <1>8, <1>9, <4>1
      <4>3. QED
        BY <1>1, <1>3, <4>1, <4>2
    <3>2. QED
      BY <3>1 DEF LookupsOK
  <2>3. QED
    BY <2>1, <2>2
<1>12. GroupsOK'
  <2>1. ASSUME NEW g \in groups'
        PROVE  \E i \in Ids : kind'[i] = g
    <3>1. PICK i \in 1 .. n : k[i] = g
      BY <1>2, <1>3, <2>1
    <3>2. QED
      BY <1>4, <1>5, <3>1
  <2>2. QED
    BY <1>1, <1>3, <2>1 DEF GroupsOK, Members
<1>13. CallOK'
  BY <1>1, <1>2, <1>3 DEF CallOK
<1>14. requested # "none" => Unanswered' = (1 .. n) \ invalid
  <2>1. Unanswered' = Standing(lookups', groups', kind', {})
    BY <1>1, <1>3, UnansweredNext
  <2>2. CASE n = 0 /\ requested # "none"
    <3>1. lookups' = {} /\ groups' = {} /\ 1 .. n = {}
      BY <1>2, <1>3, <2>2
    <3>2. QED
      BY <2>1, <3>1 DEF Standing
  <2>3. CASE n # 0 /\ requested # "none"
    <3>1. /\ lookups' = {"single"} \X asked
          /\ groups' = {g \in Groups : \E i \in 1 .. n : k[i] = g}
      BY <1>2, <2>3
    <3>2. ASSUME NEW i \in Ids
          PROVE  i \in Unanswered' <=> i \in (1 .. n) \ invalid
      <4>1. i \in Unanswered' <=> i \in asked \/ kind'[i] \in groups'
        BY <1>8, <2>1, <3>1 DEF Standing
      <4>2. CASE i \in 1 .. n
        <5>1. kind'[i] \in groups' <=> k[i] \in Groups
          BY <1>5, <3>1, <4>2
        <5>2. i \in invalid <=> k[i] = "invalid"
          BY <4>2 DEF invalid
        <5>3. QED
          BY <1>5, <1>8, <4>1, <4>2, <5>1, <5>2
      <4>3. CASE i \notin 1 .. n
        BY <1>5, <1>8, <1>9, <4>1, <4>3
      <4>4. QED
        BY <4>2, <4>3
    <3>3. Unanswered' \subseteq Ids
      BY <2>1 DEF Standing
    <3>4. QED
      BY <1>4, <3>2, <3>3
  <2>4. QED
    BY <2>2, <2>3
<1>15. RemainingExact'
  <2>1. CASE n = 0 /\ requested # "none"
    <3>1. remaining' = 0 /\ (1 .. n) \ invalid = {}
      BY <1>2, <2>1
    <3>2. QED
      BY <1>14, <2>1, <3>1, FS_EmptySet DEF RemainingExact
  <2>2. CASE n # 0 /\ requested # "none"
    BY <1>2, <1>7, <1>14, <2>2 DEF RemainingExact
  <2>3. CASE requested = "none"
    BY <1>1, <2>3 DEF RemainingExact
  <2>4. QED
    BY <2>1, <2>2, <2>3
<1>16. IdleOK'
  BY <1>1, <1>2, <1>3 DEF IdleOK
<1>17. CollectedOK'
  <2>1. ASSUME ~ error', keys' # "none", NEW i \in Ids \ Unanswered'
        PROVE  kind'[i] = "absent"
    <3>1. requested # "none" /\ n # 0 /\ invalid = {}
      BY <1>1, <1>2, <2>1
    <3>2. i \notin 1 .. n
      BY <1>14, <2>1, <3>1
    <3>3. QED
      BY <1>5, <3>2
  <2>2. QED
    BY <1>1, <1>3, <2>1 DEF CollectedOK
<1>18. QED
  BY <1>10, <1>11, <1>12, <1>13, <1>15, <1>16, <1>17 DEF IInv

LEMMA NextKeepsIInv == IInv /\ [Next]_vars => IInv'
<1> SUFFICES ASSUME IInv, [Next]_vars
             PROVE  IInv'
  OBVIOUS
<1>1. CASE UNCHANGED vars
  <2>1. Unanswered' = Unanswered /\ TypeOK' /\ GroupsOK'
    BY <1>1 DEF vars, Unanswered, Members, IInv, TypeOK, GroupsOK
  <2>2. LookupsOK' /\ CallOK' /\ IdleOK'
    BY <1>1 DEF vars, IInv, LookupsOK, CallOK, IdleOK
  <2>3. RemainingExact' /\ CollectedOK'
    BY <1>1, <2>1 DEF vars, IInv, RemainingExact, CollectedOK
  <2>4. QED
    BY <2>1, <2>2, <2>3 DEF IInv
<1>2. ASSUME NEW n \in 0 .. MaxIds, NEW k \in [1 .. n -> Kinds],
             NEW requested \in {"none", "some", "timed"}, GetMetadatas(n, k, requested)
      PROVE  IInv'
  BY <1>2, GetMetadatasKeepsIInv
<1>3. CASE Handler
  <2>1. ASSUME NEW i \in Ids, \/ SingleAnswer(i) \/ VideosAnswer(i)
                              \/ DurationAnswer(i) \/ DurationLost(i)
        PROVE  IInv'
    BY <2>1, SingleAnswerKeepsIInv, LaterAnswerKeepsIInv, DurationLostKeepsIInv
  <2>2. ASSUME NEW g \in Groups, GroupAnswer(g) \/ GroupFails(g)
        PROVE  IInv'
    BY <2>2, GroupAnswerKeepsIInv, GroupFailsKeepsIInv
  <2>3. CASE Emit
    BY <2>3, EmitKeepsIInv
  <2>4. QED
    BY <1>3, <2>1, <2>2, <2>3 DEF Handler
<1>4. QED
  BY <1>1, <1>2, <1>3 DEF Next

-----------------------------------------------------------------------------
(* What the caller sees.                                                   *)

\* Requests are about objects asked for, durations are computed if asked for,
\* metadata are those of objects asked for, and groups have members.
SeenOK ==
  /\ \A stage \in Stages, i \in Ids :
       <<stage, i>> \in lookups =>
         kind[i] # "absent" /\ (stage = "duration" => keys = "timed")
  /\ \A g \in failed : Members(g) # {}
  /\ \A i \in Ids : metadatas[i] # 0 => keys # "none" /\ kind[i] # "absent"
  /\ ~ called => keys = "none"

LEMMA InitSeen == Init => Contract!Init /\ SeenOK
<1> SUFFICES ASSUME Init
             PROVE  Contract!Init /\ SeenOK
  OBVIOUS
<1>1. Unanswered = {} /\ Asked = {} /\ UNION {Members(g) : g \in failed} = {}
  BY DEF Init, Unanswered, Asked, Members
<1>2. Contract!Init
  BY <1>1 DEF Init, Contract!Init
<1>3. SeenOK
  BY DEF Init, SeenOK
<1>4. QED
  BY <1>2, <1>3

\* What the caller sees of steps that make no call and no callback.
LEMMA SeenSame ==
  ASSUME UNCHANGED <<called, kind, keys, freed, failed>>, ~ freed
  PROVE  /\ Asked' = Asked /\ (keys = "timed")' = (keys = "timed")
         /\ (UNION {Members(g) : g \in failed})' = UNION {Members(g) : g \in failed}
         /\ (IF freed THEN << [error |-> error, metadatas |-> metadatas] >>
              ELSE << >>)' = << >>
         /\ (IF freed THEN << [error |-> error, metadatas |-> metadatas] >>
             ELSE << >>) = << >>
<1>1. Asked' = Asked
  BY DEF Asked
<1>2. (UNION {Members(g) : g \in failed})' = UNION {Members(g) : g \in failed}
  BY DEF Members
<1>3. QED
  BY <1>1, <1>2

\* An answer for told, of which mislaid will not be heard.
LEMMA AnswerIsLearn ==
  ASSUME called, ~ freed, UNCHANGED <<called, kind, keys, freed, failed>>,
         NEW told \in SUBSET (Unanswered \ lost),
         NEW mislaid \in SUBSET (Unanswered \ lost),
         told \cap mislaid = {},
         mislaid # {} => keys = "timed" \/ \A i \in Ids : Asked # {i},
         Unanswered' = Unanswered \ told, lost' = lost \cup mislaid
  PROVE  Contract!Learn
BY SeenSame DEF Contract!Learn, Contract!Open

\* A step that moves a request on without an answer.
LEMMA SilentIsStutter ==
  ASSUME ~ freed, UNCHANGED <<called, kind, keys, freed, failed, lost>>,
         Unanswered' = Unanswered
  PROVE  UNCHANGED Contract!vars
BY SeenSame DEF Contract!vars

\* _get_metadata_tracker_cb answers for one object.
LEMMA CollectedSeen ==
  ASSUME IInv, SeenOK, NEW stage \in Stages, NEW i \in Ids, At(stage, i),
         NEW value \in 0 .. MaxIds, NEW fails \in BOOLEAN,
         Collected(stage, i, value, fails)
  PROVE  Contract!Learn /\ SeenOK'
<1>1. /\ <<stage, i>> \in lookups /\ ~ freed
      /\ lookups' = lookups \ {<<stage, i>>}
      /\ metadatas' = IF value = 0 THEN metadatas ELSE [metadatas EXCEPT ![i] = value]
      /\ UNCHANGED <<called, kind, keys, groups, freed, failed, lost>>
  BY DEF At, Collected, Collect
<1>2. called /\ keys # "none" /\ kind[i] # "absent"
  BY <1>1, UnansweredFacts DEF SeenOK
<1>3. Unanswered' = Unanswered \ {i} /\ i \in Unanswered \ lost
  BY <1>1, CollectedAnswers
<1>4. Contract!Learn
  <2>1. {i} \in SUBSET (Unanswered \ lost) /\ {} \in SUBSET (Unanswered \ lost)
    BY <1>3
  <2>2. lost' = lost \cup {} /\ {i} \cap {} = {}
    BY <1>1
  <2>3. QED
    BY <1>1, <1>2, <1>3, <2>1, <2>2, AnswerIsLearn
<1>5. SeenOK'
  <2>1. \A j \in Ids : metadatas'[j] # 0 => keys # "none" /\ kind[j] # "absent"
    BY <1>1, <1>2 DEF SeenOK, IInv, TypeOK
  <2>2. \A g \in failed : Members(g)' = Members(g)
    BY <1>1 DEF Members
  <2>3. QED
    BY <1>1, <2>1, <2>2 DEF SeenOK
<1>6. QED
  BY <1>4, <1>5

\* A request that goes on answers for nobody.
LEMMA OnwardSeen ==
  ASSUME IInv, SeenOK, NEW stage \in Stages, NEW i \in Ids, At(stage, i),
         NEW next \in Stages, NEW value, Onward(stage, i, next, value),
         next = "duration" => keys = "timed"
  PROVE  UNCHANGED Contract!vars /\ SeenOK'
<1>1. /\ <<stage, i>> \in lookups /\ ~ freed
      /\ lookups' = (lookups \ {<<stage, i>>}) \cup {<<next, i>>}
      /\ UNCHANGED <<called, kind, keys, groups, metadatas, freed, failed, lost>>
  BY DEF At, Onward
<1>2. Unanswered' = Unanswered
  BY <1>1, OnwardAnswersNobody
<1>3. SeenOK'
  <2>1. \A g \in failed : Members(g)' = Members(g)
    BY <1>1 DEF Members
  <2>2. kind[i] # "absent"
    BY <1>1 DEF SeenOK
  <2>3. QED
    BY <1>1, <2>1, <2>2 DEF SeenOK
<1>4. QED
  BY <1>1, <1>2, <1>3, SilentIsStutter

\* The browse of a playlist never ends: there is one because its duration was
\* asked for.
LEMMA DurationLostSeen ==
  ASSUME IInv, SeenOK, NEW i \in Ids, DurationLost(i)
  PROVE  Contract!Learn /\ SeenOK'
<1>1. /\ "duration" \in Stages /\ <<"duration", i>> \in lookups /\ ~ freed
      /\ lookups' = lookups \ {<<"duration", i>>}
      /\ lost' = lost \cup {i}
      /\ UNCHANGED <<called, kind, keys, groups, metadatas, freed, failed>>
  BY DEF At, DurationLost, Stages
<1>2. called /\ keys = "timed"
  BY <1>1, UnansweredFacts DEF SeenOK
<1>3. Unanswered' = Unanswered /\ i \in Unanswered \ lost
  BY <1>1, LosingAnswersNobody, UnansweredFacts DEF IInv, LookupsOK
<1>4. Contract!Learn
  <2>1. {i} \in SUBSET (Unanswered \ lost) /\ {} \in SUBSET (Unanswered \ lost)
    BY <1>3
  <2>2. Unanswered' = Unanswered \ {} /\ {} \cap {i} = {}
    BY <1>3
  <2>3. QED
    BY <1>1, <1>2, <2>1, <2>2, AnswerIsLearn
<1>5. SeenOK'
  <2>1. \A g \in failed : Members(g)' = Members(g)
    BY <1>1 DEF Members
  <2>2. QED
    BY <1>1, <2>1 DEF SeenOK
<1>6. QED
  BY <1>4, <1>5

\* A group is answered: for one object it is always for this object.
LEMMA GroupAnswerSeen ==
  ASSUME IInv, SeenOK, NEW g \in Groups, GroupAnswer(g)
  PROVE  Contract!Learn /\ SeenOK'
<1>1. /\ TypeOK /\ g \in groups /\ ~ freed /\ groups' = groups \ {g}
      /\ UNCHANGED <<called, kind, keys, error, freed, failed>>
  BY DEF GroupAnswer, IInv
<1>2. PICK heard, untimed, row : GroupStep(g, heard, untimed, row)
  BY GroupAnswerIsStep
<1> DEFINE members == Members(g)
           told == heard \ untimed
           mislaid == members \ heard
<1>3. /\ heard \in SUBSET members /\ untimed \in SUBSET heard
      /\ untimed # {} => keys = "timed"
      /\ Cardinality(members) = 1 => heard = members
      /\ metadatas' = [i \in Ids |-> IF i \in told THEN row[i] ELSE metadatas[i]]
      /\ lookups' = lookups \cup ({"duration"} \X untimed)
      /\ lost' = lost \cup mislaid
  BY <1>2 DEF GroupStep
<1>4. /\ Unanswered' = Unanswered \ told
      /\ members \in SUBSET (Unanswered \ lost)
  BY <1>1, <1>2, GroupStepAnswers
<1>5. called /\ keys # "none"
  BY <1>1, UnansweredFacts
<1>6. members \in SUBSET Ids /\ \A i \in members : kind[i] = g /\ g # "absent"
  BY DEF Members, Groups
<1>7. members \in SUBSET Asked
  BY <1>5, <1>6 DEF Asked
<1> HIDE DEF members
<1>8. ASSUME NEW i \in Ids, Asked = {i}
      PROVE  mislaid = {}
  <2>1. CASE members = {}
    BY <1>3, <2>1
  <2>2. CASE members # {}
    <3>1. members = {i}
      BY <1>7, <1>8, <2>2
    <3>2. QED
      BY <1>3, <3>1, FS_Singleton
  <2>3. QED
    BY <2>1, <2>2
<1>9. Contract!Learn
  <2>1. told \in SUBSET (Unanswered \ lost) /\ mislaid \in SUBSET (Unanswered \ lost)
    BY <1>3, <1>4
  <2>2. told \cap mislaid = {}
    OBVIOUS
  <2> HIDE DEF told, mislaid
  <2>3. QED
    BY <1>1, <1>3, <1>4, <1>5, <1>8, <2>1, <2>2, AnswerIsLearn
<1>10. SeenOK'
  <2>1. \A i \in untimed \cup told : i \in Ids /\ kind[i] # "absent"
    BY <1>3, <1>6
  <2>2. \A s \in Stages, i \in Ids :
          <<s, i>> \in lookups' => \/ <<s, i>> \in lookups
                                   \/ s = "duration" /\ i \in untimed
    BY <1>3
  <2>3. \A s \in Stages, i \in Ids :
          <<s, i>> \in lookups' => kind[i] # "absent" /\ (s = "duration" => keys = "timed")
    BY <1>3, <2>1, <2>2 DEF SeenOK
  <2>4. \A i \in Ids : metadatas'[i] # 0 => keys # "none" /\ kind[i] # "absent"
    BY <1>3, <1>5, <2>1 DEF SeenOK
  <2>5. \A f \in failed : Members(f)' = Members(f)
    BY <1>1 DEF Members
  <2>6. QED
    BY <1>1, <2>3, <2>4, <2>5 DEF SeenOK
<1>11. QED
  BY <1>9, <1>10

\* An error answer is the refusal of a group.
LEMMA GroupFailsSeen ==
  ASSUME IInv, SeenOK, NEW g \in Groups, GroupFails(g)
  PROVE  Contract!Refuse /\ SeenOK'
<1>1. /\ TypeOK /\ g \in groups /\ ~ freed
      /\ groups' = groups \ {g} /\ failed' = failed \cup {g}
      /\ UNCHANGED <<called, kind, keys, lookups, metadatas, freed, lost>>
  BY DEF GroupFails, IInv
<1>2. called /\ keys # "none"
  BY <1>1, UnansweredFacts
<1>3. Members(g) \in SUBSET (Unanswered \ lost) /\ Members(g) # {}
  <2>1. \A i \in Members(g) : i \in Ids /\ kind[i] = g
    BY DEF Members
  <2>2. QED
    BY <1>1, <2>1, UnansweredFacts DEF IInv, GroupsOK
<1>4. Unanswered' = Unanswered
  <2>1. groups' \cup failed' = groups \cup failed
    BY <1>1
  <2>2. QED
    BY <1>1, <2>1 DEF Unanswered, Members
<1>5. (UNION {Members(f) : f \in failed})' = (UNION {Members(f) : f \in failed}) \cup Members(g)
  <2>1. \A f : Members(f)' = Members(f)
    BY <1>1 DEF Members
  <2>2. (UNION {Members(f) : f \in failed})' = UNION {Members(f) : f \in failed'}
    BY <2>1
  <2>3. QED
    BY <1>1, <2>2
<1>6. Contract!Refuse
  <2>1. Asked' = Asked
    BY <1>1 DEF Asked
  <2>2. QED
    BY <1>1, <1>2, <1>3, <1>4, <1>5, <2>1 DEF Contract!Refuse, Contract!Open
<1>7. SeenOK'
  <2>1. \A f : Members(f)' = Members(f)
    BY <1>1 DEF Members
  <2>2. QED
    BY <1>1, <1>3, <2>1 DEF SeenOK
<1>8. QED
  BY <1>6, <1>7

\* The callback.
LEMMA EmitSeen ==
  ASSUME IInv, SeenOK, Emit
  PROVE  (Contract!Succeed \/ Contract!Fail) /\ SeenOK'
<1>1. /\ TypeOK /\ ~ freed /\ freed' = TRUE /\ idles > 0
      /\ UNCHANGED <<called, kind, keys, lookups, groups, metadata_value, remaining,
                     error, metadatas, failed, lost>>
  BY DEF Emit, IInv
<1>2. called /\ IdleOK /\ RemainingExact /\ CallOK /\ CollectedOK
  BY <1>1 DEF IInv, CallOK, TypeOK
<1>3. failed = {} => Unanswered = {}
  <2>1. CASE keys = "none"
    BY <1>2, <2>1 DEF CallOK, Unanswered
  <2>2. CASE keys # "none" /\ failed = {}
    <3>1. remaining = 0
      BY <1>1, <1>2, <2>2 DEF IdleOK, TypeOK
    <3>2. Cardinality(Unanswered) = 0 /\ Unanswered \in SUBSET Ids
      BY <1>2, <2>2, <3>1, UnansweredFacts DEF RemainingExact
    <3>3. QED
      BY <3>2, IdsFinite
  <2>3. QED
    BY <2>1, <2>2
<1>4. failed # {} => UNION {Members(f) : f \in failed} # {}
  BY DEF SeenOK
<1>5. /\ Asked' = Asked /\ Unanswered' = Unanswered
      /\ (UNION {Members(f) : f \in failed})' = UNION {Members(f) : f \in failed}
  BY <1>1 DEF Asked, Unanswered, Members
<1>6. ASSUME error
      PROVE  Contract!Fail
  <2>0. error = TRUE
    BY <1>1, <1>6 DEF TypeOK
  <2>1. metadatas \in [Ids -> Ids \cup {0}]
    <3>1. 0 .. MaxIds = Ids \cup {0}
      BY MaxIdsAssumption DEF Ids
    <3>2. QED
      BY <1>1, <3>1 DEF TypeOK
  <2>2. Contract!Fail
    BY <1>1, <1>2, <1>3, <1>4, <1>5, <2>0, <2>1 DEF Contract!Fail, Contract!Open
  <2>3. QED
    BY <2>2
<1>7. ASSUME ~ error
      PROVE  Contract!Succeed
  <2>0. error = FALSE
    BY <1>1, <1>7 DEF TypeOK
  <2>1. Unanswered = {} /\ lost = {}
    BY <1>2, <1>3, <1>7 DEF CollectedOK, Unanswered
  <2>2. metadatas = [i \in Ids |-> IF i \in Asked THEN i ELSE 0]
    <3>1. ASSUME NEW i \in Ids
          PROVE  metadatas[i] = IF i \in Asked THEN i ELSE 0
      <4>1. CASE i \in Asked
        BY <1>2, <1>7, <2>1, <4>1 DEF Asked, CollectedOK
      <4>2. CASE i \notin Asked
        BY <4>2 DEF Asked, SeenOK
      <4>3. QED
        BY <4>1, <4>2
    <3>2. QED
      BY <1>1, <3>1 DEF TypeOK
  <2>3. metadatas = Contract!Own
    BY <2>2 DEF Contract!Own
  <2>4. Contract!Succeed
    BY <1>1, <1>2, <1>5, <2>0, <2>1, <2>3 DEF Contract!Succeed, Contract!Open
  <2>5. QED
    BY <2>4
<1>8. SeenOK'
  <2>1. \A f : Members(f)' = Members(f)
    BY <1>1 DEF Members
  <2>2. QED
    BY <1>1, <2>1 DEF SeenOK
<1>9. QED
  BY <1>1, <1>6, <1>7, <1>8 DEF TypeOK

\* The call: requests are made for objects that are asked for.
LEMMA GetMetadatasSeen ==
  ASSUME IInv, SeenOK, NEW n \in 0 .. MaxIds, NEW k \in [1 .. n -> Kinds],
         NEW requested \in {"none", "some", "timed"}, GetMetadatas(n, k, requested)
  PROVE  Contract!Request /\ SeenOK'
<1>1. /\ ~ called /\ called' = TRUE /\ keys' = requested
      /\ kind' = [i \in Ids |-> IF i <= n THEN k[i] ELSE "absent"]
      /\ UNCHANGED <<metadata_value, metadatas, freed, failed, lost>>
  BY DEF GetMetadatas
<1>2. lookups = {} /\ groups = {} /\ failed = {} /\ lost = {} /\ ~ freed /\ keys = "none"
  BY <1>1 DEF IInv, CallOK, SeenOK
<1>3. /\ lookups' \subseteq {"single"} \X {i \in 1 .. n : k[i] \in Singles}
      /\ groups' \subseteq Groups
      /\ requested = "none" => lookups' = {} /\ groups' = {}
  <2>1. CASE n = 0 \/ requested = "none"
    <3>1. lookups' = {} /\ groups' = {}
      BY <1>2, <2>1 DEF GetMetadatas
    <3>2. QED
      BY <3>1
  <2>2. CASE ~ (n = 0 \/ requested = "none")
    BY <2>2 DEF GetMetadatas
  <2>3. QED
    BY <2>1, <2>2
<1>4. "absent" \notin Groups /\ "absent" \notin Singles
  BY DEF Groups, Singles
<1>5. \A s \in Stages, i \in Ids :
        <<s, i>> \in lookups' => s = "single" /\ kind'[i] # "absent"
  <2>1. ASSUME NEW s \in Stages, NEW i \in Ids, <<s, i>> \in lookups'
        PROVE  s = "single" /\ kind'[i] # "absent"
    <3>1. s = "single" /\ i \in 1 .. n /\ k[i] \in Singles
      BY <1>3, <2>1
    <3>2. kind'[i] = k[i]
      BY <1>1, <3>1
    <3>3. QED
      BY <1>4, <3>1, <3>2
  <2>2. QED
    BY <2>1
<1>6. Unanswered' \in SUBSET Asked' /\ Asked' \in SUBSET Ids
  <2>1. Unanswered' = Standing(lookups', groups' \cup failed', kind', {})
    BY <1>1, <1>2, UnansweredNext
  <2>2. CASE requested = "none"
    <3>1. Unanswered' = {}
      BY <1>1, <1>2, <1>3, <2>1, <2>2 DEF Standing
    <3>2. QED
      BY <3>1 DEF Asked
  <2>3. CASE requested # "none"
    <3>1. \A i \in Unanswered' : i \in Ids /\ kind'[i] # "absent"
      BY <1>1, <1>2, <1>3, <1>4, <1>5, <2>1 DEF Standing
    <3>2. QED
      BY <1>1, <2>3, <3>1 DEF Asked
  <2>4. QED
    BY <2>2, <2>3
<1>7. (UNION {Members(f) : f \in failed})' = {} /\ UNION {Members(f) : f \in failed} = {}
  BY <1>1, <1>2
<1>8. Contract!Request
  <2>1. (keys = "timed")' \in BOOLEAN
    OBVIOUS
  <2>2. QED
    BY <1>1, <1>2, <1>6, <1>7, <2>1 DEF Contract!Request
<1>9. SeenOK'
  BY <1>1, <1>2, <1>5 DEF SeenOK
<1>10. QED
  BY <1>8, <1>9

\* Every step is one of the contract, or the caller does not see it.
LEMMA NextSeen ==
  IInv /\ SeenOK /\ [Next]_vars => [Contract!Next]_(Contract!vars) /\ SeenOK'
<1> SUFFICES ASSUME IInv, SeenOK, [Next]_vars
             PROVE  [Contract!Next]_(Contract!vars) /\ SeenOK'
  OBVIOUS
<1>1. CASE UNCHANGED vars
  <2>1. /\ Asked' = Asked /\ Unanswered' = Unanswered
        /\ (UNION {Members(f) : f \in failed})' = UNION {Members(f) : f \in failed}
        /\ \A f : Members(f)' = Members(f)
    BY <1>1 DEF vars, Asked, Unanswered, Members
  <2>2. UNCHANGED Contract!vars
    BY <1>1, <2>1 DEF vars, Contract!vars
  <2>3. SeenOK'
    BY <1>1, <2>1 DEF vars, SeenOK
  <2>4. QED
    BY <2>2, <2>3
<1>2. ASSUME NEW n \in 0 .. MaxIds, NEW k \in [1 .. n -> Kinds],
             NEW requested \in {"none", "some", "timed"}, GetMetadatas(n, k, requested)
      PROVE  Contract!Request /\ SeenOK'
  BY <1>2, GetMetadatasSeen
<1>3. ASSUME NEW i \in Ids, SingleAnswer(i)
      PROVE  (Contract!Learn \/ UNCHANGED Contract!vars) /\ SeenOK'
  <2>1. /\ {"single", "videos", "duration"} \subseteq Stages
        /\ At("single", i) /\ 0 \in 0 .. MaxIds /\ i \in 0 .. MaxIds
    BY <1>3, MaxIdsAssumption DEF SingleAnswer, Stages, Ids
  <2>2. PICK value \in {0, i} :
          \/ Onward("single", i, "videos", value)
          \/ keys = "timed" /\ Onward("single", i, "duration", value)
          \/ Collected("single", i, value, value = 0)
    BY <1>3 DEF SingleAnswer
  <2>3. CASE Onward("single", i, "videos", value)
    BY <2>1, <2>3, OnwardSeen
  <2>4. CASE keys = "timed" /\ Onward("single", i, "duration", value)
    BY <2>1, <2>4, OnwardSeen
  <2>5. CASE Collected("single", i, value, value = 0)
    <3>1. CASE value = 0
      <4>1. Collected("single", i, value, TRUE)
        BY <2>5, <3>1 DEF Collected, Collect
      <4>2. QED
        BY <2>1, <4>1, CollectedSeen
    <3>2. CASE value # 0
      <4>1. Collected("single", i, value, FALSE)
        BY <2>5, <3>2 DEF Collected, Collect
      <4>2. QED
        BY <2>1, <4>1, CollectedSeen
    <3>3. QED
      BY <3>1, <3>2
  <2>6. QED
    BY <2>2, <2>3, <2>4, <2>5
<1>4. ASSUME NEW i \in Ids, VideosAnswer(i) \/ DurationAnswer(i)
      PROVE  Contract!Learn /\ SeenOK'
  <2>1. /\ {"videos", "duration"} \subseteq Stages
        /\ i \in 0 .. MaxIds /\ metadata_value[i] \in 0 .. MaxIds
    BY MaxIdsAssumption DEF Stages, Ids, IInv, TypeOK
  <2>2. PICK stage \in {"videos", "duration"}, value \in {i, metadata_value[i]},
             fails \in BOOLEAN :
          At(stage, i) /\ Collected(stage, i, value, fails)
    BY <1>4 DEF VideosAnswer, DurationAnswer
  <2>3. QED
    BY <2>1, <2>2, CollectedSeen
<1>5. ASSUME NEW i \in Ids, DurationLost(i)
      PROVE  Contract!Learn /\ SeenOK'
  BY <1>5, DurationLostSeen
<1>6. ASSUME NEW g \in Groups, GroupAnswer(g) \/ GroupFails(g)
      PROVE  (Contract!Learn \/ Contract!Refuse) /\ SeenOK'
  BY <1>6, GroupAnswerSeen, GroupFailsSeen
<1>7. ASSUME Emit
      PROVE  (Contract!Succeed \/ Contract!Fail) /\ SeenOK'
  BY <1>7, EmitSeen
<1>8. Next => (Contract!Next \/ UNCHANGED Contract!vars) /\ SeenOK'
  BY <1>2, <1>3, <1>4, <1>5, <1>6, <1>7 DEF Next, Handler, Contract!Next
<1>9. QED
  BY <1>1, <1>8

-----------------------------------------------------------------------------
(* The theorems.                                                           *)

\* Every call of get_metadatas() keeps the invariant, however many object
\* ids it is about and in whatever order they are answered.
THEOREM MetadatasInvariance == Spec => []IInv
<1>1. Init => IInv
  BY InitEstablishesIInv
<1>2. IInv /\ [Next]_vars => IInv'
  BY NextKeepsIInv
<1>3. QED
  BY <1>1, <1>2, PTL DEF Spec

\* Every variable keeps its type; "remaining" never goes below 0.
THEOREM MetadatasTypeCorrect == Spec => []TypeOK
<1>1. IInv => TypeOK
  BY DEF IInv
<1>2. QED
  BY <1>1, MetadatasInvariance, PTL

\* "remaining" counts the object ids that are not answered, those of all
\* three groups, the single ones and the durations being computed.
THEOREM RemainingIsExact == Spec => []RemainingExact
<1>1. IInv => RemainingExact
  BY DEF IInv
<1>2. QED
  BY <1>1, MetadatasInvariance, PTL

\* Unless a group fails, the closure is freed when nothing refers to it.
THEOREM TheLastFrees == Spec => []FreedByTheLast
<1>1. IInv => FreedByTheLast
  <2> SUFFICES ASSUME IInv, freed, failed = {}
               PROVE  lookups = {} /\ groups = {} /\ idles = 0
    BY DEF FreedByTheLast
  <2>1. called /\ (keys = "none" \/ remaining = 0) /\ idles = 0
    BY DEF IInv, IdleOK, TypeOK
  <2>2. lookups = {} /\ groups = {}
    BY <2>1, UnansweredFacts DEF IInv, CallOK
  <2>3. QED
    BY <2>1, <2>2
<1>2. QED
  BY <1>1, MetadatasInvariance, PTL

\* A callback without an error has the metadata of every object id, and each
\* its own: the rows of a group are paired with the right ids.
THEOREM CompleteUnlessError == Spec => []CompleteOrError
<1>1. IInv => CompleteOrError
  <2> SUFFICES ASSUME IInv, freed, ~ error, keys # "none", NEW i \in Ids,
                      kind[i] # "absent"
               PROVE  metadatas[i] = i
    BY DEF CompleteOrError
  <2>1. failed = {}
    BY DEF IInv, CollectedOK
  <2>2. remaining = 0
    BY <2>1 DEF IInv, IdleOK
  <2>3. Unanswered = {} /\ lost \subseteq Unanswered
    <3>1. Cardinality(Unanswered) = 0 /\ Unanswered \in SUBSET Ids
      BY <2>2, UnansweredFacts DEF IInv, RemainingExact
    <3>2. QED
      BY <3>1, IdsFinite DEF Unanswered
  <2>4. QED
    BY <2>3 DEF IInv, CollectedOK
<1>2. QED
  BY <1>1, MetadatasInvariance, PTL


\* get_metadatas() is what its callers are promised: one callback, with the
\* metadata of all objects asked for or an error, once nothing is pending or
\* Tracker has refused to answer for some; and an object that is asked for alone
\* is not forgotten.
THEOREM ContractKept == Spec => ImplementsContract
<1>1. Init => Contract!Init /\ SeenOK
  BY InitSeen
<1>2. IInv /\ SeenOK /\ [Next]_vars => [Contract!Next]_(Contract!vars) /\ SeenOK'
  BY NextSeen
<1>3. QED
  BY <1>1, <1>2, MetadatasInvariance, PTL DEF Spec, ImplementsContract, Contract!Spec

=============================================================================
