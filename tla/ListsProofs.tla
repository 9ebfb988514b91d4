---------------------------- MODULE ListsProofs -----------------------------
(***************************************************************************)
(* What the operators of Lists return, for every list; and sums over sets. *)
(***************************************************************************)
EXTENDS Lists, Integers, Sequences, FiniteSetsExt, FiniteSetTheorems, FunctionTheorems, TLAPS

\* How many members of S there are up to i.
Rank(S, i) == Cardinality({j \in S : j <= i})

LEMMA RankFacts ==
  ASSUME NEW S \in SUBSET Nat, IsFiniteSet(S)
  PROVE  /\ Cardinality(S) \in Nat
         /\ \A i \in S : Rank(S, i) \in 1 .. Cardinality(S)
         /\ \A i, j \in S : i < j => Rank(S, i) < Rank(S, j)
<1> DEFINE Upto(i) == {j \in S : j <= i}
<1>1. Cardinality(S) \in Nat
  BY FS_CardinalityType
<1>2. ASSUME NEW i \in S
      PROVE  /\ Upto(i) \in SUBSET S /\ i \in Upto(i)
             /\ IsFiniteSet(Upto(i)) /\ Cardinality(Upto(i)) \in Nat
             /\ Cardinality(Upto(i)) <= Cardinality(S) /\ Cardinality(Upto(i)) # 0
  <2>1. Upto(i) \in SUBSET S /\ i \in Upto(i)
    OBVIOUS
  <2> HIDE DEF Upto
  <2>2. IsFiniteSet(Upto(i)) /\ Cardinality(Upto(i)) <= Cardinality(S)
    BY <2>1, FS_Subset
  <2>3. Cardinality(Upto(i)) \in Nat /\ Cardinality(Upto(i)) # 0
    BY <2>1, <2>2, FS_CardinalityType, FS_EmptySet
  <2>4. QED
    BY <2>1, <2>2, <2>3
<1>3. ASSUME NEW i \in S, NEW j \in S, i < j
      PROVE  Cardinality(Upto(i)) < Cardinality(Upto(j))
  <2>1. Upto(i) \in SUBSET Upto(j)
    <3>1. \A k \in S : k <= i => k <= j
      <4>1. \A k \in S : k \in Nat
        OBVIOUS
      <4>2. QED
        BY <1>3, <4>1
    <3>2. QED
      BY <3>1
  <2>2. j \in Upto(j) /\ j \notin Upto(i)
    BY <1>3
  <2>3. /\ IsFiniteSet(Upto(j)) /\ Cardinality(Upto(i)) \in Nat
        /\ Cardinality(Upto(j)) \in Nat
    BY <1>2
  <2> HIDE DEF Upto
  <2>4. /\ Cardinality(Upto(i)) <= Cardinality(Upto(j))
        /\ Cardinality(Upto(j)) # Cardinality(Upto(i))
    BY <2>1, <2>2, <2>3, FS_Subset
  <2>5. QED
    BY <2>3, <2>4
<1>4. \A i \in S : Rank(S, i) = Cardinality(Upto(i))
  BY DEF Rank
<1> HIDE DEF Upto
<1>5. \A i \in S : Rank(S, i) \in 1 .. Cardinality(S)
  BY <1>1, <1>2, <1>4
<1>6. QED
  BY <1>1, <1>3, <1>4, <1>5

\* Sorted lists every member once, each behind the smaller ones.
LEMMA SortedFacts ==
  ASSUME NEW S \in SUBSET Nat, IsFiniteSet(S)
  PROVE  /\ Cardinality(S) \in Nat
         /\ Sorted(S) \in [1 .. Cardinality(S) -> S]
         /\ \A i \in S : \E n \in 1 .. Cardinality(S) : Sorted(S)[n] = i
         /\ \A m, n \in 1 .. Cardinality(S) : m < n => Sorted(S)[m] < Sorted(S)[n]
<1> DEFINE N == 1 .. Cardinality(S)
           rank == [i \in S |-> Rank(S, i)]
<1>1. /\ Cardinality(S) \in Nat
      /\ \A i \in S : Rank(S, i) \in N
      /\ \A i, j \in S : i < j => Rank(S, i) < Rank(S, j)
  BY RankFacts
<1>2. \A i, j \in S : Rank(S, i) = Rank(S, j) => i = j
  <2>1. ASSUME NEW i \in S, NEW j \in S, Rank(S, i) = Rank(S, j)
        PROVE  i = j
    <3>1. i \in Nat /\ j \in Nat /\ Rank(S, i) \in Nat /\ Rank(S, j) \in Nat
      BY <1>1
    <3>2. ~ (i < j) /\ ~ (j < i)
      BY <1>1, <2>1, <3>1
    <3>3. QED
      BY <3>1, <3>2
  <2>2. QED
    BY <2>1
<1>3. IsFiniteSet(N) /\ Cardinality(N) = Cardinality(S)
  BY <1>1, FS_Interval
<1>4. rank \in Injection(S, N)
  <2>1. rank \in [S -> N] /\ \A i, j \in S : rank[i] = rank[j] => i = j
    BY <1>1, <1>2
  <2> HIDE DEF rank, N
  <2>2. QED
    BY <2>1, Fun_IsInj
<1>5. rank \in Surjection(S, N)
  <2> HIDE DEF rank, N
  <2>1. QED
    BY <1>3, <1>4, FS_Injection
<1>6. \A n \in N : \E i \in S : Rank(S, i) = n
  <2>1. \A n \in N : \E i \in S : rank[i] = n
    <3> HIDE DEF rank, N
    <3>1. QED
      BY <1>5, Fun_SurjectionProperties
  <2>2. QED
    BY <2>1
<1>7. /\ Sorted(S) \in [N -> S]
      /\ \A n \in N : Rank(S, Sorted(S)[n]) = n
  <2>1. Sorted(S) = [n \in N |-> CHOOSE i \in S : Rank(S, i) = n]
    BY DEF Sorted, Rank
  <2>2. QED
    BY <1>6, <2>1
<1>8. \A i \in S : \E n \in N : Sorted(S)[n] = i
  <2> SUFFICES ASSUME NEW i \in S
               PROVE  \E n \in N : Sorted(S)[n] = i
    OBVIOUS
  <2>1. Rank(S, i) \in N
    BY <1>1
  <2>2. Sorted(S)[Rank(S, i)] = i
    BY <1>2, <1>7, <2>1
  <2>3. QED
    BY <2>1, <2>2
<1>9. ASSUME NEW m \in N, NEW n \in N, m < n
      PROVE  Sorted(S)[m] < Sorted(S)[n]
  <2>1. /\ Sorted(S)[m] \in S /\ Sorted(S)[n] \in S
        /\ Rank(S, Sorted(S)[m]) = m /\ Rank(S, Sorted(S)[n]) = n
    BY <1>7
  <2> DEFINE i == Sorted(S)[m]
             j == Sorted(S)[n]
  <2>2. i \in S /\ j \in S /\ i \in Nat /\ j \in Nat /\ m \in Nat /\ n \in Nat
    <3>1. i \in S /\ j \in S
      BY <2>1
    <3>2. m \in Nat /\ n \in Nat
      BY <1>1
    <3> HIDE DEF i, j
    <3>3. QED
      BY <3>1, <3>2
  <2>3. Rank(S, i) = m /\ Rank(S, j) = n
    BY <2>1
  <2> HIDE DEF i, j
  <2>4. i # j /\ ~ (j < i)
    BY <1>1, <1>9, <2>2, <2>3
  <2>5. i < j
    BY <2>2, <2>4
  <2>6. QED
    BY <2>5 DEF i, j
<1>10. QED
  BY <1>1, <1>7, <1>8, <1>9

\* The places of a list.
LEMMA PlacesFinite ==
  ASSUME NEW T, NEW s \in Seq(T), NEW I \in SUBSET DOMAIN s
  PROVE  /\ I \in SUBSET Nat /\ IsFiniteSet(I) /\ Cardinality(I) \in Nat
         /\ Cardinality(I) = 0 <=> I = {}
<1>1. DOMAIN s = 1 .. Len(s) /\ Len(s) \in Nat
  OBVIOUS
<1>2. IsFiniteSet(1 .. Len(s))
  BY <1>1, FS_Interval
<1>3. I \in SUBSET Nat /\ IsFiniteSet(I)
  BY <1>1, <1>2, FS_Subset
<1>4. QED
  BY <1>3, FS_CardinalityType, FS_EmptySet

\* Selected lists the elements at the places asked for, and no others.
LEMMA SelectedFacts ==
  ASSUME NEW T, NEW s \in Seq(T), NEW I \in SUBSET DOMAIN s
  PROVE  /\ Selected(s, I) \in Seq(T) /\ Cardinality(I) \in Nat
         /\ Len(Selected(s, I)) = Cardinality(I)
         /\ DOMAIN Selected(s, I) = 1 .. Cardinality(I)
         /\ \A n \in DOMAIN Selected(s, I) :
              \E i \in I : Selected(s, I)[n] = s[i]
         /\ \A i \in I :
              \E n \in DOMAIN Selected(s, I) : Selected(s, I)[n] = s[i]
         /\ Selected(s, I) = << >> <=> I = {}
<1>1. /\ I \in SUBSET Nat /\ IsFiniteSet(I) /\ Cardinality(I) \in Nat
      /\ Cardinality(I) = 0 <=> I = {}
  BY PlacesFinite
<1>2. /\ Sorted(I) \in [1 .. Cardinality(I) -> I]
      /\ \A i \in I : \E n \in 1 .. Cardinality(I) : Sorted(I)[n] = i
  BY <1>1, SortedFacts
<1>3. \A i \in I : s[i] \in T
  OBVIOUS
<1>4. Selected(s, I) \in [1 .. Cardinality(I) -> T]
  BY <1>2, <1>3 DEF Selected
<1>5. /\ Selected(s, I) \in Seq(T)
      /\ Len(Selected(s, I)) = Cardinality(I)
      /\ DOMAIN Selected(s, I) = 1 .. Cardinality(I)
  BY <1>1, <1>4
<1>6. \A n \in 1 .. Cardinality(I) :
        Sorted(I)[n] \in I /\ Selected(s, I)[n] = s[Sorted(I)[n]]
  BY <1>2 DEF Selected
<1>7. \A i \in I : \E n \in 1 .. Cardinality(I) : Selected(s, I)[n] = s[i]
  BY <1>2, <1>6
<1>8. Selected(s, I) = << >> <=> I = {}
  BY <1>1, <1>5
<1>9. QED
  BY <1>1, <1>5, <1>6, <1>7, <1>8

\* All elements of a list are the list.
LEMMA SelectedAll ==
  ASSUME NEW T, NEW s \in Seq(T)
  PROVE  Selected(s, DOMAIN s) = s
<1> DEFINE S == DOMAIN s
<1>1. S = 1 .. Len(s) /\ Len(s) \in Nat
  OBVIOUS
<1>2. \A i \in S : Cardinality({j \in S : j <= i}) = i
  <2> SUFFICES ASSUME NEW i \in S
               PROVE  Cardinality({j \in S : j <= i}) = i
    OBVIOUS
  <2>1. {j \in S : j <= i} = 1 .. i /\ i \in Nat /\ i >= 1
    BY <1>1
  <2>2. Cardinality(1 .. i) = i
    BY <2>1, FS_Interval
  <2> QED  BY <2>1, <2>2
<1>3. Cardinality(S) = Len(s)
  <2>1. \A m \in Nat : Cardinality(1 .. m) = IF 1 > m THEN 0 ELSE m - 1 + 1
    BY FS_Interval
  <2> QED  BY <1>1, <2>1
<1> HIDE DEF S
<1>4. ASSUME NEW n \in 1 .. Len(s)
      PROVE  Sorted(S)[n] = n
  <2>1. Sorted(S)[n] = CHOOSE i \in S : Cardinality({j \in S : j <= i}) = n
    BY <1>3 DEF Sorted
  <2> QED  BY <1>1, <1>2, <2>1
<1>5. Selected(s, S) = [n \in 1 .. Len(s) |-> s[n]]
  BY <1>3, <1>4 DEF Selected
<1> QED  BY <1>1, <1>5 DEF S

-----------------------------------------------------------------------------
(* Induction.  Natural numbers are well-founded; stated of sets and          *)
(* functions and not of predicates, so that the facts can be cited.          *)

LEMMA LeastNumber ==
  ASSUME NEW T, T \subseteq Nat, T # {}
  PROVE  \E x \in T : \A y \in T : x <= y
<1> DEFINE less == {s \in Nat \X Nat : s[1] < s[2]}
<1>1. IsWellFoundedOn(less, Nat)
  BY NatLessThanWellFounded DEF OpToRel
<1>2. \A x, y \in Nat : <<y, x>> \notin less => x <= y
  OBVIOUS
<1> HIDE DEF less
<1>3. \E x \in T : \A y \in T : <<y, x>> \notin less
  BY <1>1, WFMin
<1> QED  BY <1>2, <1>3

LEMMA NumbersByInduction ==
  ASSUME NEW T, 0 \in T, \A n \in Nat : n \in T => n + 1 \in T
  PROVE  Nat \subseteq T
<1> SUFFICES ASSUME Nat \ T # {} PROVE FALSE
  OBVIOUS
<1>1. PICK x \in Nat \ T : \A y \in Nat \ T : x <= y
  BY LeastNumber
<1>2. x # 0 /\ x - 1 \in Nat
  BY <1>1
<1>3. x - 1 \in T
  BY <1>1, <1>2
<1>4. x \in T
  BY <1>2, <1>3
<1> QED  BY <1>1, <1>4

\* A function g solves a recursion, step, up to a depth.
Solves(g, step, depth, n) ==
  \A x \in DOMAIN depth : depth[x] < n => g[x] = step[g][x]

\* step[g] is what the body of a recursive definition makes of the function g:
\* each value depends on values that are less deep.
IsRecursion(step, S, depth, V) ==
  /\ depth \in [S -> Nat]
  /\ V # {}
  /\ step \in [[S -> V] -> [S -> V]]
  /\ \A g, h \in [S -> V] : \A x \in S :
       (\A y \in S : depth[y] < depth[x] => g[y] = h[y]) => step[g][x] = step[h][x]

\* Then the definition defines a function.
LEMMA RecursionByDepth ==
  ASSUME NEW step, NEW S, NEW depth, NEW V, IsRecursion(step, S, depth, V)
  PROVE  \E g \in [S -> V] : g = step[g]
<1> SUFFICES ASSUME depth \in [S -> Nat], V # {}, step \in [[S -> V] -> [S -> V]],
                    \A g, h \in [S -> V] : \A x \in S :
                      (\A y \in S : depth[y] < depth[x] => g[y] = h[y])
                        => step[g][x] = step[h][x]
             PROVE  \E g \in [S -> V] : g = step[g]
  BY DEF IsRecursion
<1> DEFINE F == [S -> V]
<1>1. \A n \in Nat : \E g \in F : Solves(g, step, depth, n)
  <2> DEFINE T == {n \in Nat : \E g \in F : Solves(g, step, depth, n)}
  <2>1. 0 \in T
    <3>1. PICK v : v \in V
      OBVIOUS
    <3>2. [x \in S |-> v] \in F
      BY <3>1
    <3>3. Solves([x \in S |-> v], step, depth, 0)
      BY DEF Solves
    <3> QED  BY <3>2, <3>3
  <2>2. ASSUME NEW n \in Nat, n \in T
        PROVE  n + 1 \in T
    <3>1. PICK g \in F : Solves(g, step, depth, n)
      BY <2>2
    <3> DEFINE h == step[g]
    <3>2. h \in F
      BY <3>1
    <3>3. ASSUME NEW x \in S, depth[x] < n + 1
          PROVE  h[x] = step[h][x]
      <4>1. \A y \in S : depth[y] < depth[x] => g[y] = h[y]
        BY <3>1, <3>3 DEF Solves
      <4>2. step[g][x] = step[h][x]
        BY <3>1, <3>2, <4>1
      <4> QED  BY <4>2
    <3>4. Solves(h, step, depth, n + 1)
      BY <3>3 DEF Solves
    <3> QED  BY <3>2, <3>4
  <2> HIDE DEF T
  <2>3. Nat \subseteq T
    BY <2>1, <2>2, NumbersByInduction
  <2> QED  BY <2>3 DEF T
<1>2. ASSUME NEW n \in Nat, NEW g \in F, NEW h \in F,
             Solves(g, step, depth, n), Solves(h, step, depth, n)
      PROVE  \A x \in S : depth[x] < n => g[x] = h[x]
  <2> DEFINE T == {d \in Nat : \E x \in S : depth[x] = d /\ d < n /\ g[x] # h[x]}
  <2>1. SUFFICES ASSUME T # {} PROVE FALSE
    <3>1. \A x \in S : depth[x] \in Nat
      OBVIOUS
    <3> QED  BY <2>1, <3>1
  <2>2. PICK d \in T : \A e \in T : d <= e
    <3> HIDE DEF T
    <3>1. T \subseteq Nat
      BY DEF T
    <3> QED  BY <2>1, <3>1, LeastNumber
  <2>3. PICK x \in S : depth[x] = d /\ d < n /\ g[x] # h[x]
    BY <2>2
  <2>4. \A y \in S : depth[y] < depth[x] => g[y] = h[y]
    <3> SUFFICES ASSUME NEW y \in S, depth[y] < depth[x], g[y] # h[y]
                 PROVE  FALSE
      OBVIOUS
    <3>1. depth[y] \in Nat /\ depth[y] < n
      BY <2>3
    <3>2. depth[y] \in T
      BY <3>1
    <3> QED  BY <2>2, <2>3, <3>1, <3>2
  <2>5. step[g][x] = step[h][x]
    BY <2>4
  <2>6. g[x] = step[g][x] /\ h[x] = step[h][x]
    BY <1>2, <2>3 DEF Solves
  <2> QED  BY <2>3, <2>5, <2>6
<1> DEFINE upto(n) == CHOOSE g \in F : Solves(g, step, depth, n)
           whole == [x \in S |-> upto(depth[x] + 1)[x]]
<1>3. \A n \in Nat : upto(n) \in F /\ Solves(upto(n), step, depth, n)
  BY <1>1
<1> HIDE DEF upto
<1>4. whole \in F
  <2>1. \A x \in S : upto(depth[x] + 1) \in F
    BY <1>3
  <2> QED  BY <2>1
<1>5. ASSUME NEW x \in S
      PROVE  whole[x] = step[whole][x]
  <2> DEFINE g == upto(depth[x] + 1)
  <2>1. depth[x] \in Nat /\ g \in F /\ Solves(g, step, depth, depth[x] + 1)
    BY <1>3
  <2>2. ASSUME NEW y \in S, depth[y] < depth[x]
        PROVE  g[y] = whole[y]
    <3> DEFINE h == upto(depth[y] + 1)
    <3>1. depth[y] \in Nat /\ h \in F /\ Solves(h, step, depth, depth[y] + 1)
      BY <1>3
    <3>2. Solves(g, step, depth, depth[y] + 1)
      BY <2>1, <2>2, <3>1 DEF Solves
    <3>3. whole[y] = h[y]
      OBVIOUS
    <3> HIDE DEF g, h, whole
    <3>4. g[y] = h[y]
      <4>1. depth[y] + 1 \in Nat /\ depth[y] < depth[y] + 1
        BY <3>1
      <4> QED  BY <1>2, <2>1, <3>1, <3>2, <4>1
    <3> QED  BY <3>3, <3>4
  <2>3. whole[x] = g[x]
    OBVIOUS
  <2>4. g[x] = step[g][x]
    BY <2>1 DEF Solves
  <2> HIDE DEF g, whole
  <2>5. step[g][x] = step[whole][x]
    BY <1>4, <2>1, <2>2
  <2> QED  BY <2>3, <2>4, <2>5
<1> HIDE DEF whole
<1>6. whole = step[whole]
  <2>1. step[whole] \in F
    BY <1>4
  <2> QED  BY <1>4, <1>5, <2>1
<1> QED  BY <1>4, <1>6

\* What holds of x if it holds of all that is less deep, holds of everything.
LEMMA EverythingByDepth ==
  ASSUME NEW S, NEW depth \in [S -> Nat], NEW T,
         \A x \in S : (\A y \in S : depth[y] < depth[x] => y \in T) => x \in T
  PROVE  S \subseteq T
<1> DEFINE D == {depth[x] : x \in S \ T}
<1>1. SUFFICES ASSUME S \ T # {} PROVE FALSE
  OBVIOUS
<1>2. PICK d \in D : \A e \in D : d <= e
  <2> HIDE DEF D
  <2>1. D \subseteq Nat /\ D # {}
    BY <1>1 DEF D
  <2> QED  BY <2>1, LeastNumber
<1>3. PICK x \in S \ T : depth[x] = d
  BY <1>2
<1>4. \A y \in S : depth[y] < depth[x] => y \in T
  <2> SUFFICES ASSUME NEW y \in S \ T, depth[y] < depth[x] PROVE FALSE
    OBVIOUS
  <2>1. depth[y] \in D
    OBVIOUS
  <2>2. d <= depth[y]
    BY <1>2, <2>1
  <2>3. depth[y] \in Nat /\ depth[x] \in Nat /\ depth[y] < depth[x] /\ d = depth[x]
    BY <1>3
  <2> QED  BY ONLY <2>2, <2>3
<1> QED  BY <1>3, <1>4

-----------------------------------------------------------------------------
(* Lists behind each other, without IF.                                      *)

\* r is s and then t.
Behind(r, s, t) ==
  /\ Len(s) \in Nat /\ Len(t) \in Nat
  /\ Len(r) = Len(s) + Len(t)
  /\ \A i \in 1 .. Len(s) : r[i] = s[i]
  /\ \A i \in 1 .. Len(t) : r[Len(s) + i] = t[i]

LEMMA BehindFacts ==
  ASSUME NEW T, NEW s, NEW t, s \in Seq(T), t \in Seq(T)
  PROVE  s \o t \in Seq(T) /\ Behind(s \o t, s, t)
<1>1. s \o t \in Seq(T) /\ Len(s \o t) = Len(s) + Len(t)
  OBVIOUS
<1>2. Len(s) \in Nat /\ Len(t) \in Nat
  OBVIOUS
<1>3. \A i \in 1 .. Len(s) : (s \o t)[i] = s[i]
  BY <1>2
<1>4. ASSUME NEW i \in 1 .. Len(t)
      PROVE  (s \o t)[Len(s) + i] = t[i]
  <2>1. Len(s) + i \in 1 .. Len(s) + Len(t) /\ ~(Len(s) + i <= Len(s))
    BY <1>2
  <2>2. Len(s) + i - Len(s) = i
    BY <1>2
  <2> QED  BY <2>1, <2>2
<1> QED  BY <1>1, <1>2, <1>3, <1>4 DEF Behind

LEMMA FrontFacts ==
  ASSUME NEW T, NEW s, NEW n, s \in Seq(T), n \in 0 .. Len(s)
  PROVE  /\ SubSeq(s, 1, n) \in Seq(T)
         /\ Len(SubSeq(s, 1, n)) = n
         /\ \A i \in 1 .. n : SubSeq(s, 1, n)[i] = s[i]
  OBVIOUS

LEMMA TailFacts ==
  ASSUME NEW T, NEW s, s \in Seq(T), s # << >>
  PROVE  /\ Tail(s) \in Seq(T)
         /\ Len(s) \in Nat \ {0}
         /\ Len(Tail(s)) = Len(s) - 1
         /\ \A i \in 1 .. Len(s) - 1 : Tail(s)[i] = s[i + 1]
  OBVIOUS

-----------------------------------------------------------------------------
(* Folds.                                                                  *)

LEMMA MaxOfFinite ==
  ASSUME NEW S, S \in SUBSET Nat, IsFiniteSet(S), S # {}
  PROVE  Max(S) \in S /\ \A i \in S : Max(S) >= i
<1>1. PICK c : c = Cardinality(S)
  OBVIOUS
<1>2. PICK f : f = Sorted(S)
  OBVIOUS
<1>3. /\ c \in Nat /\ f \in [1 .. c -> S]
      /\ \A i \in S : \E n \in 1 .. c : f[n] = i
      /\ \A m, n \in 1 .. c : m < n => f[m] < f[n]
  BY <1>1, <1>2, SortedFacts
<1>4. c # 0
  BY <1>1, FS_EmptySet
<1>5. c \in 1 .. c
  BY <1>3, <1>4
<1>6. f[c] \in S
  BY <1>3, <1>5
<1>7. ASSUME NEW i \in S
      PROVE  f[c] >= i
  <2>1. PICK n \in 1 .. c : f[n] = i
    BY <1>3
  <2>2. i \in Nat /\ f[c] \in Nat
    BY <1>6
  <2>3. n = c \/ n < c
    BY <1>3
  <2> QED  BY <1>3, <1>5, <2>1, <2>2, <2>3
<1>8. \E x \in S : \A y \in S : x >= y
  BY <1>6, <1>7
<1> QED  BY <1>8 DEF Max

LEMMA MinOfNumbers ==
  ASSUME NEW S, S \in SUBSET Nat, S # {}
  PROVE  Min(S) \in S /\ \A i \in S : Min(S) <= i
<1>1. \E x \in S : \A y \in S : x <= y
  BY LeastNumber
<1> QED  BY <1>1 DEF Min

LEMMA UptoFacts ==
  ASSUME NEW k \in Nat \ {0}
  PROVE  /\ 1 .. k # {} /\ Max(1 .. k) = k /\ (1 .. k) \ {k} = 1 .. k - 1
<1>1. k \in 1 .. k /\ \A i \in 1 .. k : k >= i
  OBVIOUS
<1>2. \A x \in 1 .. k : (\A y \in 1 .. k : x >= y) => x = k
  BY <1>1
<1>3. Max(1 .. k) = k
  BY <1>1, <1>2 DEF Max
<1> QED  BY <1>1, <1>3

\* What MapThenFoldSet makes of the places of a list, the last one last.
IsFold(g, n, V, base, op) ==
  /\ g \in [SUBSET (1 .. n) -> V]
  /\ \A s \in SUBSET (1 .. n) :
       /\ s = {} => g[s] = base
       /\ s # {} => Max(s) \in 1 .. n /\ g[s] = op[<<g[s \ {Max(s)}], Max(s)>>]

LEMMA FoldExists ==
  ASSUME NEW n \in Nat, NEW V, NEW base \in V, NEW op, op \in [V \X (1 .. n) -> V]
  PROVE  \E g : IsFold(g, n, V, base, op)
<1> DEFINE S == SUBSET (1 .. n)
           body(g) == [s \in S |-> IF s = {} THEN base
                                   ELSE op[<<g[s \ {Max(s)}], Max(s)>>]]
           step == [g \in [S -> V] |-> body(g)]
           depth == [s \in S |-> Cardinality(s)]
<1>1. ASSUME NEW s \in S
      PROVE  /\ Cardinality(s) \in Nat /\ s \ {Max(s)} \in S
             /\ s # {} => /\ Max(s) \in 1 .. n
                          /\ Cardinality(s \ {Max(s)}) < Cardinality(s)
  <2>1. IsFiniteSet(s)
    <3>1. IsFiniteSet(1 .. n)
      BY FS_Interval
    <3> QED  BY <3>1, FS_Subset
  <2>2. Cardinality(s) \in Nat /\ s \ {Max(s)} \in S
    BY <2>1, FS_CardinalityType
  <2>3. ASSUME s # {}
        PROVE  /\ Max(s) \in 1 .. n /\ Cardinality(s \ {Max(s)}) < Cardinality(s)
    <3>1. s \in SUBSET Nat
      OBVIOUS
    <3>2. Max(s) \in s
      BY <2>1, <2>3, <3>1, MaxOfFinite
    <3>3. Cardinality(s \ {Max(s)}) = Cardinality(s) - 1
      BY <2>1, <3>2, FS_RemoveElement
    <3>4. \A k \in Nat : k - 1 < k
      OBVIOUS
    <3>5. Max(s) \in 1 .. n
      BY <3>2
    <3> QED  BY <2>2, <3>3, <3>4, <3>5
  <2> QED  BY <2>2, <2>3
<1>2. depth \in [S -> Nat]
  BY <1>1
<1>3. step \in [[S -> V] -> [S -> V]]
  <2>1. ASSUME NEW g \in [S -> V]
        PROVE  body(g) \in [S -> V]
    <3>1. ASSUME NEW s \in S
          PROVE  (IF s = {} THEN base ELSE op[<<g[s \ {Max(s)}], Max(s)>>]) \in V
      <4>1. CASE s = {}
        BY <4>1
      <4>2. CASE s # {}
        <5>1. Max(s) \in 1 .. n /\ g[s \ {Max(s)}] \in V
          BY <1>1, <4>2
        <5> QED  BY <4>2, <5>1
      <4> QED  BY <4>1, <4>2
    <3> QED  BY <3>1
  <2> QED  BY <2>1
<1>4. ASSUME NEW g \in [S -> V], NEW h \in [S -> V], NEW x \in S,
             \A y \in S : depth[y] < depth[x] => g[y] = h[y]
      PROVE  step[g][x] = step[h][x]
  <2>1. CASE x = {}
    BY <2>1
  <2>2. CASE x # {}
    <3>1. x \ {Max(x)} \in S /\ depth[x \ {Max(x)}] < depth[x]
      BY <1>1, <2>2
    <3>2. g[x \ {Max(x)}] = h[x \ {Max(x)}]
      BY <1>4, <3>1
    <3> QED  BY <2>2, <3>2
  <2> QED  BY <2>1, <2>2
<1>5. V # {}
  OBVIOUS
<1>6. \E g \in [S -> V] : g = step[g]
  <2>1. IsRecursion(step, S, depth, V)
    BY <1>2, <1>3, <1>4, <1>5 DEF IsRecursion
  <2> HIDE DEF step, S, body
  <2> QED  BY <2>1, RecursionByDepth
<1>7. PICK g \in [S -> V] : g = body(g)
  BY <1>6
<1>8. ASSUME NEW s \in S
      PROVE  /\ s = {} => g[s] = base
             /\ s # {} => Max(s) \in 1 .. n /\ g[s] = op[<<g[s \ {Max(s)}], Max(s)>>]
  <2>1. g[s] = IF s = {} THEN base ELSE op[<<g[s \ {Max(s)}], Max(s)>>]
    BY <1>7
  <2> QED  BY <1>1, <2>1
<1> QED  BY <1>7, <1>8 DEF IsFold

-----------------------------------------------------------------------------
(* Sums.                                                                   *)

Pick(S) == CHOOSE x \in S : TRUE

\* g has numbers to add up on S.
Numbers(g, S) == IsFiniteSet(S) /\ \A x \in S : g[x] \in Int

\* What adding up g over the parts of S comes to, by the elements chosen.
SumsOf(sum, g, S) ==
  \A T \in SUBSET S : sum[T] = IF T = {} THEN 0 ELSE g[Pick(T)] + sum[T \ {Pick(T)}]

AddsUp(sum, g, S) ==
  /\ sum \in [SUBSET S -> Int]
  /\ SumsOf(sum, g, S)

Total(g, S) == (CHOOSE sum : AddsUp(sum, g, S))[S]

\* What holds of a finite set if it holds of all its smaller parts.
LEMMA PartsByInduction ==
  ASSUME NEW S, IsFiniteSet(S), NEW P,
         \A T \in SUBSET S : (\A x \in T : T \ {x} \in P) => T \in P
  PROVE  \A T \in SUBSET S : T \in P
<1> DEFINE depth == [T \in SUBSET S |-> Cardinality(T)]
<1>1. \A T \in SUBSET S : IsFiniteSet(T) /\ Cardinality(T) \in Nat
  BY FS_Subset, FS_CardinalityType
<1>2. depth \in [SUBSET S -> Nat]
  BY <1>1
<1>3. ASSUME NEW T \in SUBSET S, \A U \in SUBSET S : depth[U] < depth[T] => U \in P
      PROVE  T \in P
  <2> SUFFICES ASSUME NEW x \in T PROVE T \ {x} \in P
    OBVIOUS
  <2>1. Cardinality(T \ {x}) = Cardinality(T) - 1
    BY <1>1, FS_RemoveElement
  <2>2. T \ {x} \in SUBSET S /\ depth[T \ {x}] = depth[T] - 1 /\ depth[T] \in Nat
    BY <1>1, <2>1
  <2>3. depth[T \ {x}] < depth[T]
    BY <2>2
  <2> QED  BY <1>3, <2>2, <2>3
<1> HIDE DEF depth
<1> QED  BY <1>2, <1>3, EverythingByDepth

LEMMA PickFacts ==
  ASSUME NEW T, T # {}
  PROVE  Pick(T) \in T
BY DEF Pick

LEMMA SumExists ==
  ASSUME NEW S, NEW g, Numbers(g, S)
  PROVE  \E sum : AddsUp(sum, g, S)
<1> DEFINE D == SUBSET S
           body(h) == [T \in D |-> IF T = {} THEN 0 ELSE g[Pick(T)] + h[T \ {Pick(T)}]]
           step == [h \in [D -> Int] |-> body(h)]
           depth == [T \in D |-> Cardinality(T)]
<1>1. ASSUME NEW T \in D
      PROVE  /\ Cardinality(T) \in Nat /\ T \ {Pick(T)} \in D
             /\ T # {} => /\ g[Pick(T)] \in Int
                          /\ Cardinality(T \ {Pick(T)}) < Cardinality(T)
  <2>1. IsFiniteSet(T) /\ Cardinality(T) \in Nat
    BY FS_Subset, FS_CardinalityType DEF Numbers
  <2>2. ASSUME T # {}
        PROVE  /\ g[Pick(T)] \in Int /\ Cardinality(T \ {Pick(T)}) < Cardinality(T)
    <3>1. Pick(T) \in T
      BY <2>2, PickFacts
    <3>2. Cardinality(T \ {Pick(T)}) = Cardinality(T) - 1
      BY <2>1, <3>1, FS_RemoveElement
    <3> QED  BY <2>1, <3>1, <3>2 DEF Numbers
  <2> QED  BY <2>1, <2>2
<1>2. depth \in [D -> Nat]
  BY <1>1
<1>3. step \in [[D -> Int] -> [D -> Int]]
  <2>1. ASSUME NEW h \in [D -> Int], NEW T \in D
        PROVE  (IF T = {} THEN 0 ELSE g[Pick(T)] + h[T \ {Pick(T)}]) \in Int
    <3>1. h[T \ {Pick(T)}] \in Int
      BY <1>1
    <3> QED  BY <1>1, <3>1
  <2> QED  BY <2>1
<1>4. ASSUME NEW h \in [D -> Int], NEW k \in [D -> Int], NEW T \in D,
             \A U \in D : depth[U] < depth[T] => h[U] = k[U]
      PROVE  step[h][T] = step[k][T]
  <2>1. CASE T = {}
    BY <2>1
  <2>2. CASE T # {}
    <3>1. T \ {Pick(T)} \in D /\ depth[T \ {Pick(T)}] < depth[T]
      BY <1>1, <2>2
    <3>2. h[T \ {Pick(T)}] = k[T \ {Pick(T)}]
      BY <1>4, <3>1
    <3> QED  BY <2>2, <3>2
  <2> QED  BY <2>1, <2>2
<1>5. Int # {}
  OBVIOUS
<1>8. \E h \in [D -> Int] : h = step[h]
  <2>1. IsRecursion(step, D, depth, Int)
    BY <1>2, <1>3, <1>4, <1>5 DEF IsRecursion
  <2> HIDE DEF step, D, body
  <2> QED  BY <2>1, RecursionByDepth
<1>6. PICK h \in [D -> Int] : h = body(h)
  BY <1>8
<1>7. AddsUp(h, g, S)
  <2>1. \A T \in D : h[T] = body(h)[T]
    BY <1>6
  <2> QED  BY <2>1 DEF AddsUp, SumsOf
<1> QED  BY <1>7

AnyOrder(sum, g, S) ==
  \A T \in SUBSET S : \A x \in T : sum[T] = g[x] + sum[T \ {x}]

\* Whatever is chosen first.
LEMMA SumInAnyOrder ==
  ASSUME NEW S, NEW g, Numbers(g, S),
         NEW sum, AddsUp(sum, g, S)
  PROVE  AnyOrder(sum, g, S)
<1> DEFINE P == {T \in SUBSET S : \A x \in T : sum[T] = g[x] + sum[T \ {x}]}
<1>1. /\ \A T \in SUBSET S : sum[T] \in Int
      /\ \A T \in SUBSET S : T # {} => sum[T] = g[Pick(T)] + sum[T \ {Pick(T)}]
  BY DEF AddsUp, SumsOf
<1>2. ASSUME NEW T \in SUBSET S, \A x \in T : T \ {x} \in P, NEW x \in T
      PROVE  sum[T] = g[x] + sum[T \ {x}]
  <2>1. PICK y : y = Pick(T)
    OBVIOUS
  <2>2. y \in T /\ sum[T] = g[y] + sum[T \ {y}]
    BY <1>1, <2>1, PickFacts
  <2>3. CASE x = y
    BY <2>2, <2>3
  <2>4. CASE x # y
    <3>1. PICK U : U = (T \ {x}) \ {y}
      OBVIOUS
    <3>2. U \in SUBSET S /\ (T \ {y}) \ {x} = U /\ x \in T \ {y} /\ y \in T \ {x}
      BY <2>2, <2>4, <3>1
    <3>3. sum[T \ {y}] = g[x] + sum[U]
      BY <1>2, <2>2, <3>2
    <3>4. sum[T \ {x}] = g[y] + sum[U]
      BY <1>2, <3>1, <3>2
    <3>5. sum[U] \in Int /\ g[x] \in Int /\ g[y] \in Int
      BY <1>1, <2>2, <3>2 DEF Numbers
    <3> QED  BY <2>2, <3>3, <3>4, <3>5
  <2> QED  BY <2>3, <2>4
<1>3. \A T \in SUBSET S : (\A x \in T : T \ {x} \in P) => T \in P
  BY <1>2
<1> HIDE DEF P
<1>4. \A T \in SUBSET S : T \in P
  BY <1>3, PartsByInduction DEF Numbers
<1> QED  BY <1>4 DEF P, AnyOrder

\* All that adds up g comes to the same.
LEMMA SumIsTotal ==
  ASSUME NEW S, NEW g, Numbers(g, S),
         NEW sum, SumsOf(sum, g, S)
  PROVE  \A T \in SUBSET S : sum[T] = Total(g, T)
<1> SUFFICES ASSUME NEW T \in SUBSET S PROVE sum[T] = Total(g, T)
  OBVIOUS
<1>1. Numbers(g, T) /\ IsFiniteSet(T)
  BY FS_Subset DEF Numbers
<1>2. PICK t : t = CHOOSE h : AddsUp(h, g, T)
  OBVIOUS
<1>3. AddsUp(t, g, T) /\ Total(g, T) = t[T]
  <2>1. \E h : AddsUp(h, g, T)
    BY <1>1, SumExists
  <2> QED  BY <1>2, <2>1 DEF Total
<1> DEFINE P == {U \in SUBSET T : sum[U] = t[U]}
<1>4. ASSUME NEW U \in SUBSET T, \A x \in U : U \ {x} \in P
      PROVE  sum[U] = t[U]
  <2>1. U \in SUBSET S
    OBVIOUS
  <2>2. CASE U = {}
    BY <1>3, <2>1, <2>2 DEF AddsUp, SumsOf
  <2>3. CASE U # {}
    <3>1. Pick(U) \in U
      BY <2>3, PickFacts
    <3>2. sum[U \ {Pick(U)}] = t[U \ {Pick(U)}]
      BY <1>4, <3>1
    <3>3. sum[U] = g[Pick(U)] + sum[U \ {Pick(U)}]
      BY <2>1, <2>3 DEF SumsOf
    <3>4. t[U] = g[Pick(U)] + t[U \ {Pick(U)}]
      BY <1>3, <2>3 DEF AddsUp, SumsOf
    <3> QED  BY <3>2, <3>3, <3>4
  <2> QED  BY <2>2, <2>3
<1>5. \A U \in SUBSET T : (\A x \in U : U \ {x} \in P) => U \in P
  BY <1>4
<1> HIDE DEF P
<1>6. \A U \in SUBSET T : U \in P
  BY <1>1, <1>5, PartsByInduction
<1>7. T \in SUBSET T
  OBVIOUS
<1> QED  BY <1>3, <1>6, <1>7 DEF P

LEMMA TotalFacts ==
  ASSUME NEW S, NEW g, Numbers(g, S)
  PROVE  /\ Total(g, {}) = 0
         /\ \A T \in SUBSET S : /\ Total(g, T) \in Int
                                /\ \A x \in T : Total(g, T) = g[x] + Total(g, T \ {x})
<1>1. PICK sum : AddsUp(sum, g, S)
  BY SumExists
<1>2. \A T \in SUBSET S : sum[T] = Total(g, T)
  <2>1. SumsOf(sum, g, S)
    BY <1>1 DEF AddsUp, SumsOf
  <2> QED  BY <2>1, SumIsTotal
<1>6. AnyOrder(sum, g, S)
  BY <1>1, SumInAnyOrder
<1>3. \A T \in SUBSET S : \A x \in T : sum[T] = g[x] + sum[T \ {x}]
  BY <1>6 DEF AnyOrder
<1>4. {} \in SUBSET S /\ \A T \in SUBSET S : \A x : T \ {x} \in SUBSET S
  OBVIOUS
<1>5. sum[{}] = 0 /\ \A T \in SUBSET S : sum[T] \in Int
  BY <1>1, <1>4 DEF AddsUp, SumsOf
<1> QED  BY <1>2, <1>3, <1>4, <1>5

\* What MapThenSumSet makes of its parameters, with a function for the operator.
Summing(S, g, h) == [T \in SUBSET S |-> IF T = {} THEN 0 ELSE g[Pick(T)] + h[T \ {Pick(T)}]]

LEMMA SummingFacts ==
  ASSUME NEW S, NEW g, Numbers(g, S)
  PROVE  /\ \E h : h = Summing(S, g, h)
         /\ \A h : h = Summing(S, g, h) => h[S] = Total(g, S)
<1>1. PICK sum : AddsUp(sum, g, S)
  BY SumExists
<1>2. sum = Summing(S, g, sum)
  BY <1>1 DEF AddsUp, SumsOf, Summing
<1>3. ASSUME NEW h, h = Summing(S, g, h)
      PROVE  h[S] = Total(g, S)
  <2>1. DOMAIN h = DOMAIN Summing(S, g, h) /\ \A T : h[T] = Summing(S, g, h)[T]
    BY <1>3
  <2>2. SumsOf(h, g, S)
    BY <2>1 DEF Summing, SumsOf
  <2>3. S \in SUBSET S
    OBVIOUS
  <2> QED  BY <2>2, <2>3, SumIsTotal
<1> QED  BY <1>2, <1>3

LEMMA NumbersOfPart ==
  ASSUME NEW S, NEW g, Numbers(g, S), NEW T \in SUBSET S
  PROVE  Numbers(g, T)
BY FS_Subset DEF Numbers

LEMMA TotalOfNone ==
  ASSUME NEW g
  PROVE  Total(g, {}) = 0
<1>1. Numbers(g, {})
  BY FS_EmptySet DEF Numbers
<1> QED  BY <1>1, TotalFacts

\* One number less.
LEMMA TotalWithout ==
  ASSUME NEW S, NEW g, Numbers(g, S), NEW x \in S
  PROVE  /\ Total(g, S) \in Int /\ Total(g, S \ {x}) \in Int /\ g[x] \in Int
         /\ Total(g, S) = g[x] + Total(g, S \ {x})
<1>1. S \in SUBSET S /\ S \ {x} \in SUBSET S
  OBVIOUS
<1>2. g[x] \in Int
  BY DEF Numbers
<1> QED  BY <1>1, <1>2, TotalFacts

LEMMA TotalSame ==
  ASSUME NEW S, NEW g, Numbers(g, S), NEW h, \A x \in S : g[x] = h[x]
  PROVE  Total(g, S) = Total(h, S)
<1> DEFINE P == {T \in SUBSET S : Total(g, T) = Total(h, T)}
<1>1. Numbers(h, S)
  BY DEF Numbers
<1>2. ASSUME NEW T \in SUBSET S, \A x \in T : T \ {x} \in P
      PROVE  Total(g, T) = Total(h, T)
  <2>1. CASE T = {}
    BY <2>1, TotalOfNone
  <2>2. CASE T # {}
    <3>1. PICK x \in T : TRUE
      BY <2>2
    <3>2. Numbers(g, T) /\ Numbers(h, T)
      BY <1>1, NumbersOfPart
    <3>3. Total(g, T) = g[x] + Total(g, T \ {x}) /\ Total(h, T) = h[x] + Total(h, T \ {x})
      BY <3>2, TotalWithout
    <3>4. Total(g, T \ {x}) = Total(h, T \ {x}) /\ g[x] = h[x]
      BY <1>2
    <3> QED  BY <3>3, <3>4
  <2> QED  BY <2>1, <2>2
<1>3. \A T \in SUBSET S : (\A x \in T : T \ {x} \in P) => T \in P
  BY <1>2
<1> HIDE DEF P
<1>4. \A T \in SUBSET S : T \in P
  BY <1>3, PartsByInduction DEF Numbers
<1>5. S \in SUBSET S
  OBVIOUS
<1> QED  BY <1>4, <1>5 DEF P

LEMMA TotalOfZeros ==
  ASSUME NEW S, IsFiniteSet(S), NEW g, \A x \in S : g[x] = 0
  PROVE  Total(g, S) = 0
<1> DEFINE P == {T \in SUBSET S : Total(g, T) = 0}
<1>1. Numbers(g, S)
  BY DEF Numbers
<1>2. ASSUME NEW T \in SUBSET S, \A x \in T : T \ {x} \in P
      PROVE  Total(g, T) = 0
  <2>1. CASE T = {}
    BY <2>1, TotalOfNone
  <2>2. CASE T # {}
    <3>1. PICK x \in T : TRUE
      BY <2>2
    <3>2. Numbers(g, T)
      BY <1>1, NumbersOfPart
    <3>3. Total(g, T) = g[x] + Total(g, T \ {x})
      BY <3>2, TotalWithout
    <3>4. Total(g, T \ {x}) = 0 /\ g[x] = 0
      BY <1>2
    <3> QED  BY <3>3, <3>4
  <2> QED  BY <2>1, <2>2
<1>3. \A T \in SUBSET S : (\A x \in T : T \ {x} \in P) => T \in P
  BY <1>2
<1> HIDE DEF P
<1>4. \A T \in SUBSET S : T \in P
  BY <1>3, PartsByInduction
<1>5. S \in SUBSET S
  OBVIOUS
<1> QED  BY <1>4, <1>5 DEF P

LEMMA TotalOfOnes ==
  ASSUME NEW S, IsFiniteSet(S), NEW g, \A x \in S : g[x] = 1
  PROVE  Total(g, S) = Cardinality(S)
<1> DEFINE P == {T \in SUBSET S : Total(g, T) = Cardinality(T)}
<1>1. Numbers(g, S)
  BY DEF Numbers
<1>2. ASSUME NEW T \in SUBSET S, \A x \in T : T \ {x} \in P
      PROVE  Total(g, T) = Cardinality(T)
  <2>1. CASE T = {}
    BY <2>1, TotalOfNone, FS_EmptySet
  <2>2. CASE T # {}
    <3>1. PICK x \in T : TRUE
      BY <2>2
    <3>2. Numbers(g, T) /\ IsFiniteSet(T)
      BY <1>1, NumbersOfPart DEF Numbers
    <3>3. Total(g, T) = g[x] + Total(g, T \ {x})
      BY <3>2, TotalWithout
    <3>4. Total(g, T \ {x}) = Cardinality(T \ {x}) /\ g[x] = 1
      BY <1>2
    <3>5. Cardinality(T \ {x}) = Cardinality(T) - 1 /\ Cardinality(T) \in Nat
      BY <3>2, FS_RemoveElement, FS_CardinalityType
    <3> QED  BY <3>3, <3>4, <3>5
  <2> QED  BY <2>1, <2>2
<1>3. \A T \in SUBSET S : (\A x \in T : T \ {x} \in P) => T \in P
  BY <1>2
<1> HIDE DEF P
<1>4. \A T \in SUBSET S : T \in P
  BY <1>3, PartsByInduction
<1>5. S \in SUBSET S
  OBVIOUS
<1> QED  BY <1>4, <1>5 DEF P

\* b takes each member of S to one of U of its own, and misses none.
Matches(b, S, U) ==
  /\ U = {b[x] : x \in S}
  /\ \A x, y \in S : b[x] = b[y] => x = y

\* The same numbers, of other things.
LEMMA TotalMoved ==
  ASSUME NEW S, NEW g, Numbers(g, S), NEW b, NEW U, Matches(b, S, U),
         NEW h, \A x \in S : g[x] = h[b[x]]
  PROVE  Total(g, S) = Total(h, U)
<1> DEFINE img(T) == {b[x] : x \in T}
           P == {T \in SUBSET S : IsFiniteSet(img(T)) /\ Total(g, T) = Total(h, img(T))}
<1>1. ASSUME NEW T \in SUBSET S, \A x \in T : T \ {x} \in P
      PROVE  IsFiniteSet(img(T)) /\ Total(g, T) = Total(h, img(T))
  <2>1. CASE T = {}
    <3>1. img(T) = {}
      BY <2>1
    <3> QED  BY <2>1, <3>1, TotalOfNone, FS_EmptySet
  <2>2. CASE T # {}
    <3>1. PICK x \in T : TRUE
      BY <2>2
    <3>2. PICK V, W : V = img(T) /\ W = img(T \ {x})
      OBVIOUS
    <3>3. IsFiniteSet(W) /\ Total(g, T \ {x}) = Total(h, W)
      BY <1>1, <3>2
    <3>4. V = W \cup {b[x]} /\ b[x] \notin W /\ V \ {b[x]} = W
      BY <3>2 DEF Matches
    <3>5. IsFiniteSet(V)
      BY <3>3, <3>4, FS_AddElement
    <3>6. Numbers(h, V)
      <4>1. \A y \in V : \E z \in T : y = b[z] /\ g[z] = h[y]
        BY <3>2
      <4> QED  BY <3>5, <4>1 DEF Numbers
    <3>7. Total(h, V) = h[b[x]] + Total(h, W)
      BY <3>4, <3>6, TotalWithout
    <3>8. Total(g, T) = g[x] + Total(g, T \ {x})
      BY NumbersOfPart, TotalWithout
    <3> QED  BY <3>2, <3>3, <3>5, <3>7, <3>8
  <2> QED  BY <2>1, <2>2
<1>2. \A T \in SUBSET S : (\A x \in T : T \ {x} \in P) => T \in P
  BY <1>1
<1>3. U = img(S) /\ S \in SUBSET S
  BY DEF Matches
<1> HIDE DEF P
<1>4. \A T \in SUBSET S : T \in P
  BY <1>2, PartsByInduction DEF Numbers
<1> QED  BY <1>3, <1>4 DEF P

LEMMA MatchesSize ==
  ASSUME NEW S, IsFiniteSet(S), NEW b, NEW U, Matches(b, S, U)
  PROVE  IsFiniteSet(U) /\ Cardinality(U) = Cardinality(S)
<1>1. PICK f : f = [x \in S |-> b[x]]
  OBVIOUS
<1>2. f \in Bijection(S, U)
  BY <1>1 DEF Matches, Bijection, Injection, Surjection, IsInjective
<1> QED  BY <1>2, FS_Bijection DEF ExistsBijection

\* h adds up g over each of the classes.
ByClass(h, R, g, S, class) ==
  \A r \in R : h[r] = Total(g, {x \in S : class[x] = r})

\* Numbers added up class by class.
LEMMA TotalOfClasses ==
  ASSUME NEW S, NEW g, Numbers(g, S), NEW R, IsFiniteSet(R),
         NEW class, \A x \in S : class[x] \in R,
         NEW h, ByClass(h, R, g, S, class)
  PROVE  Total(h, R) = Total(g, S)
<1> DEFINE of(T) == [r \in R |-> Total(g, {x \in T : class[x] = r})]
           P == {T \in SUBSET S : Total(of(T), R) = Total(g, T)}
<1>1. \A T \in SUBSET S : Numbers(of(T), R)
  <2>1. \A T \in SUBSET S : \A r : {x \in T : class[x] = r} \in SUBSET S
    OBVIOUS
  <2>2. \A T \in SUBSET S : \A r : Total(g, {x \in T : class[x] = r}) \in Int
    BY <2>1, TotalFacts
  <2> QED  BY <2>2 DEF Numbers
<1>2. ASSUME NEW T \in SUBSET S, \A x \in T : T \ {x} \in P
      PROVE  Total(of(T), R) = Total(g, T)
  <2>1. CASE T = {}
    <3>1. \A r \in R : of(T)[r] = 0
      <4>1. \A r \in R : {x \in T : class[x] = r} = {}
        BY <2>1
      <4> QED  BY <4>1, TotalOfNone
    <3> HIDE DEF of
    <3>2. Total(of(T), R) = 0
      BY <3>1, TotalOfZeros
    <3> QED  BY <2>1, <3>2, TotalOfNone
  <2>2. CASE T # {}
    <3>1. PICK x \in T : TRUE
      BY <2>2
    <3>2. PICK V, c : V = T \ {x} /\ c = class[x]
      OBVIOUS
    <3>3. V \in SUBSET S /\ c \in R
      BY <3>2
    <3>4. PICK new, old : new = of(T) /\ old = of(V)
      OBVIOUS
    <3>5. Numbers(new, R) /\ Numbers(old, R)
      BY <1>1, <3>3, <3>4
    <3>6. new[c] = g[x] + old[c]
      <4>1. PICK A, B : A = {y \in T : class[y] = c} /\ B = {y \in V : class[y] = c}
        OBVIOUS
      <4>2. x \in A /\ B = A \ {x} /\ A \in SUBSET S
        BY <3>2, <4>1
      <4>3. Total(g, A) = g[x] + Total(g, B)
        BY <4>2, TotalFacts
      <4> QED  BY <3>3, <3>4, <4>1, <4>3
    <3>7. \A r \in R \ {c} : new[r] = old[r]
      <4>1. \A r \in R \ {c} : {y \in T : class[y] = r} = {y \in V : class[y] = r}
        BY <3>2
      <4> QED  BY <3>4, <4>1
    <3>8. Total(new, R \ {c}) = Total(old, R \ {c})
      <4>1. Numbers(new, R \ {c})
        BY <3>5, NumbersOfPart
      <4> QED  BY <3>7, <4>1, TotalSame
    <3>9. /\ Total(new, R) = new[c] + Total(new, R \ {c})
          /\ Total(old, R) = old[c] + Total(old, R \ {c})
          /\ old[c] \in Int /\ Total(old, R \ {c}) \in Int
      BY <3>3, <3>5, TotalWithout
    <3>10. Total(old, R) = Total(g, V)
      BY <1>2, <3>2, <3>4
    <3>11. Total(g, T) = g[x] + Total(g, V) /\ g[x] \in Int
      BY <3>2, NumbersOfPart, TotalWithout
    <3> QED  BY <3>4, <3>6, <3>8, <3>9, <3>10, <3>11
  <2> QED  BY <2>1, <2>2
<1>3. \A T \in SUBSET S : (\A x \in T : T \ {x} \in P) => T \in P
  BY <1>2
<1>4. S \in SUBSET S
  OBVIOUS
<1>5. Total(h, R) = Total(of(S), R)
  <2>1. \A r \in R : of(S)[r] = h[r]
    BY DEF ByClass
  <2>2. Numbers(of(S), R)
    BY <1>1, <1>4
  <2> HIDE DEF of
  <2> QED  BY <2>1, <2>2, TotalSame
<1> HIDE DEF P
<1>6. \A T \in SUBSET S : T \in P
  BY <1>3, PartsByInduction DEF Numbers
<1>7. Total(of(S), R) = Total(g, S)
  BY <1>4, <1>6 DEF P
<1> QED  BY <1>5, <1>7

\* h counts the second parts for each of the classes.
SecondsByClass(h, R, S, class, second) ==
  \A r \in R : h[r] = Cardinality({second[x] : x \in {y \in S : class[y] = r}})

\* Pairs are as many as there are second parts for each first part together.
LEMMA PairsOfClasses ==
  ASSUME NEW S, IsFiniteSet(S), NEW R, IsFiniteSet(R), NEW class, \A x \in S : class[x] \in R,
         NEW first, \A x, y \in S : class[x] = class[y] <=> first[x] = first[y],
         NEW second,
         NEW h, SecondsByClass(h, R, S, class, second)
  PROVE  Total(h, R) = Cardinality({<<first[x], second[x]>> : x \in S})
<1>1. PICK P : P = {<<first[x], second[x]>> : x \in S}
  OBVIOUS
<1>2. IsFiniteSet(P)
  <2>1. P = {<<first[x], second[x]>> : x \in S}
    BY <1>1
  <2>2. PICK f : f = [x \in S |-> <<first[x], second[x]>>]
    OBVIOUS
  <2>3. f \in Surjection(S, P)
    BY <1>1, <2>2 DEF Surjection
  <2> QED  BY <2>3, FS_Surjection
<1>3. PICK ones : ones = [p \in P |-> 1]
  OBVIOUS
<1>4. PICK of : of = [p \in P |-> class[CHOOSE x \in S : first[x] = p[1]]]
  OBVIOUS
<1>5. \A x \in S : of[<<first[x], second[x]>>] = class[x]
  <2> SUFFICES ASSUME NEW x \in S PROVE of[<<first[x], second[x]>>] = class[x]
    OBVIOUS
  <2>1. PICK y : y = CHOOSE z \in S : first[z] = first[x]
    OBVIOUS
  <2>2. y \in S /\ first[y] = first[x]
    BY <2>1
  <2>3. of[<<first[x], second[x]>>] = class[y]
    BY <1>1, <1>4, <2>1
  <2> QED  BY <2>2, <2>3
<1>6. \A p \in P : of[p] \in R
  BY <1>1, <1>5
<1>7. ASSUME NEW r \in R
      PROVE  h[r] = Total(ones, {p \in P : of[p] = r})
  <2>1. PICK Q, T : /\ Q = {p \in P : of[p] = r}
                    /\ T = {second[x] : x \in {y \in S : class[y] = r}}
    OBVIOUS
  <2>2. \A p \in Q : \E x \in S : p = <<first[x], second[x]>> /\ class[x] = r
    BY <1>1, <1>5, <2>1
  <2>3. PICK b : b = [p \in Q |-> p[2]]
    OBVIOUS
  <2>4. Matches(b, Q, T)
    <3>1. \A p \in Q : b[p] \in T
      BY <2>1, <2>2, <2>3
    <3>2. \A t \in T : \E p \in Q : b[p] = t
      <4> SUFFICES ASSUME NEW x \in S, class[x] = r
                   PROVE  \E p \in Q : b[p] = second[x]
        BY <2>1
      <4>1. <<first[x], second[x]>> \in Q
        BY <1>1, <1>5, <2>1
      <4> QED  BY <2>3, <4>1
    <3>3. ASSUME NEW p \in Q, NEW q \in Q, b[p] = b[q]
          PROVE  p = q
      <4>1. PICK x \in S : p = <<first[x], second[x]>> /\ class[x] = r
        BY <2>2
      <4>2. PICK y \in S : q = <<first[y], second[y]>> /\ class[y] = r
        BY <2>2
      <4>3. first[x] = first[y]
        BY <4>1, <4>2
      <4> QED  BY <2>3, <3>3, <4>1, <4>2, <4>3
    <3> QED  BY <3>1, <3>2, <3>3 DEF Matches
  <2>5. Q \in SUBSET P /\ IsFiniteSet(Q)
    BY <1>2, <2>1, FS_Subset
  <2>6. Cardinality(T) = Cardinality(Q)
    BY <2>4, <2>5, MatchesSize
  <2>7. \A p \in Q : ones[p] = 1
    BY <1>3, <2>5
  <2>8. Total(ones, Q) = Cardinality(Q)
    BY <2>5, <2>7, TotalOfOnes
  <2> QED  BY <2>1, <2>6, <2>8 DEF SecondsByClass
<1>8. Numbers(ones, P)
  BY <1>2, <1>3 DEF Numbers
<1>9. Total(h, R) = Total(ones, P)
  <2>1. ByClass(h, R, ones, P, of)
    BY <1>7 DEF ByClass
  <2> QED  BY <1>6, <1>8, <2>1, TotalOfClasses
<1>10. Total(ones, P) = Cardinality(P)
  BY <1>2, <1>3, TotalOfOnes
<1> QED  BY <1>1, <1>9, <1>10
=============================================================================
