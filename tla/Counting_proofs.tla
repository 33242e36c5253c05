-------------------------- MODULE Counting_proofs ---------------------------
(***************************************************************************)
(* Facts about numbers, finite sets and orders that proofs about lists     *)
(* need: a least element, extrema of bounded sets, counting along a        *)
(* one-to-one map, and the places that a strict order of finitely many     *)
(* things gives them.                                                      *)
(***************************************************************************)
EXTENDS Integers, FiniteSetsExt, FiniteSetTheorems, TLAPS

(* A set of naturals has a least element: the intervals up to its members   *)
(* are well founded by inclusion.                                           *)
LEMMA LeastNatural ==
  ASSUME NEW T \in SUBSET Nat, T # {}
  PROVE  \E n \in T : \A m \in T : n <= m
<1> DEFINE F == {0 .. n : n \in T}
<1>1. \A n \in T : IsFiniteSet(0 .. n) /\ 0 .. n \in SUBSET Nat
  BY FS_Interval
<1>2. F \subseteq FiniteSubsetsOf(Nat) /\ F # {}
  BY <1>1 DEF FiniteSubsetsOf
<1>3. PICK x \in F : \A y \in F : ~ (<<y, x>> \in StrictSubsetOrdering(Nat))
  BY <1>2, WFMin, FS_StrictSubsetOrderingWellFounded
<1>4. PICK n \in T : x = 0 .. n
  OBVIOUS
<1>5. ASSUME NEW m \in T PROVE n <= m
  <2>1. ~ (<<0 .. m, 0 .. n>> \in StrictSubsetOrdering(Nat))
    BY <1>3, <1>4
  <2>2. ~ (0 .. m \subseteq 0 .. n /\ 0 .. m # 0 .. n)
    BY <2>1, <1>1 DEF StrictSubsetOrdering
  <2>3. SUFFICES ASSUME m < n PROVE FALSE
    OBVIOUS
  <2>4. n \in 0 .. n /\ n \notin 0 .. m
    BY <2>3
  <2> QED
    BY <2>2, <2>3, <2>4
<1> QED
  BY <1>5

(* What holds of 0 and of the next of each number it holds of, holds of all.*)
LEMMA NaturalInduction ==
  ASSUME NEW T, 0 \in T, \A n \in Nat : n \in T => n + 1 \in T
  PROVE  Nat \subseteq T
<1> SUFFICES ASSUME Nat \ T # {} PROVE FALSE
  OBVIOUS
<1>1. PICK n \in Nat \ T : \A m \in Nat \ T : n <= m
  BY LeastNatural
<1>2. n # 0 /\ n - 1 \in Nat /\ n - 1 \in T
  BY <1>1
<1> QED
  BY <1>2

(* The same, in the form that Folding_proofs takes for a premise. *)
LEMMA InductionHolds ==
  \A T : 0 \in T /\ (\A m \in Nat : m \in T => m + 1 \in T) => Nat \subseteq T
  BY NaturalInduction

LEMMA MinIsLeast ==
  ASSUME NEW S \in SUBSET Nat, S # {}
  PROVE  Min(S) \in S /\ \A n \in S : Min(S) <= n
  BY LeastNatural DEF Min

LEMMA MaxIsGreatest ==
  ASSUME NEW top \in Nat, NEW S \in SUBSET (0 .. top), S # {}
  PROVE  Max(S) \in S /\ \A n \in S : n <= Max(S)
<1>1. PICK d \in {top - n : n \in S} : \A e \in {top - n : n \in S} : d <= e
  <2>1. \A n \in S : n \in 0 .. top
    OBVIOUS
  <2>2. \A n \in S : top - n \in Nat
    BY <2>1
  <2>3. {top - n : n \in S} \subseteq Nat /\ {top - n : n \in S} # {}
    BY <2>2
  <2> QED
    BY <2>3, LeastNatural
<1>2. PICK n \in S : d = top - n
  OBVIOUS
<1>3. \A m \in S : n >= m
  <2> TAKE m \in S
  <2>1. top - n <= top - m
    BY <1>1, <1>2
  <2> QED
    BY <2>1
<1> QED
  BY <1>3 DEF Max

-----------------------------------------------------------------------------
(* Counting. *)

LEMMA ImageIsFinite ==
  ASSUME NEW f, NEW S, IsFiniteSet(S)
  PROVE  /\ IsFiniteSet({f[x] : x \in S})
         /\ Cardinality({f[x] : x \in S}) <= Cardinality(S)
<1> DEFINE T == {f[x] : x \in S}
           g == [x \in S |-> f[x]]
<1>1. g \in Surjection(S, T)
  BY DEF Surjection
<1> QED
  BY <1>1, FS_Surjection

(* A one-to-one map keeps the count. *)
LEMMA SameCount ==
  ASSUME NEW f, NEW S, IsFiniteSet(S), \A x, y \in S : f[x] = f[y] => x = y
  PROVE  /\ IsFiniteSet({f[x] : x \in S})
         /\ Cardinality({f[x] : x \in S}) = Cardinality(S)
<1> DEFINE T == {f[x] : x \in S}
           g == [x \in S |-> f[x]]
<1>1. g \in Surjection(S, T)
  BY DEF Surjection
<1>2. g \in Injection(S, T)
  BY DEF Injection, IsInjective
<1> QED
  BY <1>1, <1>2, FS_Surjection

(* The places of an order: how many come no later. *)
NoLater(order, S, i) == {j \in S : <<j, i>> \in order \/ j = i}

PlacesOf(order, S) == [i \in S |-> Cardinality(NoLater(order, S, i))]

IsStrictOrder(order, S) ==
  /\ \A i \in S : <<i, i>> \notin order
  /\ \A i, j \in S : i # j => <<i, j>> \in order \/ <<j, i>> \in order
  /\ \A i, j, k \in S : <<i, j>> \in order /\ <<j, k>> \in order => <<i, k>> \in order

LEMMA PlacesAreOneToOne ==
  ASSUME NEW S, IsFiniteSet(S), NEW order, IsStrictOrder(order, S)
  PROVE  /\ PlacesOf(order, S) \in Bijection(S, 1 .. Cardinality(S))
         /\ \A i, j \in S :
              <<i, j>> \in order <=> PlacesOf(order, S)[i] < PlacesOf(order, S)[j]
<1> DEFINE n == Cardinality(S)
           D(i) == NoLater(order, S, i)
           place == PlacesOf(order, S)
<1>1. n \in Nat /\ IsFiniteSet(1 .. n) /\ Cardinality(1 .. n) = n
  BY FS_CardinalityType, FS_Interval
<1>2. \A i \in S : D(i) \in SUBSET S /\ i \in D(i)
  BY DEF NoLater
<1>3. ASSUME NEW i \in S PROVE IsFiniteSet(D(i)) /\ Cardinality(D(i)) \in 1 .. n
  <2>1. IsFiniteSet(D(i)) /\ Cardinality(D(i)) <= n
    BY <1>1, <1>2, FS_Subset
  <2>2. Cardinality(D(i)) # 0
    BY <1>2, <2>1, FS_EmptySet
  <2>3. Cardinality(D(i)) \in Nat
    BY <2>1, FS_CardinalityType
  <2> QED
    BY <2>1, <2>2, <2>3
<1>4. place \in [S -> 1 .. n] /\ \A i \in S : place[i] = Cardinality(D(i))
  BY <1>3 DEF PlacesOf
<1>5. ASSUME NEW i \in S, NEW j \in S, <<i, j>> \in order
      PROVE  place[i] < place[j]
  <2>1. D(i) \subseteq D(j)
    BY <1>5 DEF NoLater, IsStrictOrder
  <2>2. j \notin D(i)
    BY <1>5 DEF NoLater, IsStrictOrder
  <2>3. D(i) # D(j)
    BY <1>2, <2>2
  <2>4. /\ Cardinality(D(i)) <= Cardinality(D(j))
        /\ Cardinality(D(j)) = Cardinality(D(i)) => D(j) = D(i)
    BY <1>3, <2>1, FS_Subset
  <2> QED
    BY <1>3, <1>4, <2>3, <2>4
<1>6. ASSUME NEW i \in S, NEW j \in S, place[i] < place[j]
      PROVE  <<i, j>> \in order
  <2>1. i # j /\ ~ (place[j] < place[i])
    BY <1>4, <1>6
  <2> QED
    BY <1>5, <2>1 DEF IsStrictOrder
<1>7. ASSUME NEW i \in S, NEW j \in S, place[i] = place[j]
      PROVE  i = j
  <2>1. ~ (place[i] < place[j]) /\ ~ (place[j] < place[i])
    BY <1>4, <1>7
  <2> QED
    BY <1>5, <2>1 DEF IsStrictOrder
<1>8. place \in Injection(S, 1 .. n)
  BY <1>4, <1>7 DEF Injection, IsInjective
<1>9. place \in Surjection(S, 1 .. n)
  BY <1>1, <1>8, FS_Injection
<1> QED
  BY <1>5, <1>6, <1>8, <1>9 DEF Bijection

(* Of finitely many things in a strict order one comes before all others.   *)
LEMMA OneIsFirst ==
  ASSUME NEW S, IsFiniteSet(S), S # {}, NEW order, IsStrictOrder(order, S)
  PROVE  \E c \in S : \A d \in S \ {c} : <<c, d>> \in order
<1> DEFINE n == Cardinality(S)
           place == PlacesOf(order, S)
<1>1. n \in Nat /\ n # 0
  BY FS_CardinalityType, FS_EmptySet
<1>2. place \in Injection(S, 1 .. n) /\ place \in Surjection(S, 1 .. n)
  BY PlacesAreOneToOne DEF Bijection
<1>3. \A c, d \in S : <<c, d>> \in order <=> place[c] < place[d]
  BY PlacesAreOneToOne
<1> HIDE DEF n, place
<1>4. PICK c \in S : place[c] = 1
  BY <1>1, <1>2 DEF Surjection
<1>5. ASSUME NEW d \in S \ {c} PROVE <<c, d>> \in order
  <2>1. place[d] \in 1 .. n /\ place[d] # place[c]
    BY <1>2 DEF Injection, IsInjective
  <2>2. place[c] < place[d]
    BY <1>1, <1>4, <2>1
  <2> QED
    BY <1>3, <2>2
<1> QED
  BY <1>5

(* One has each number of things before it. *)
LEMMA EachHasItsRank ==
  ASSUME NEW S, IsFiniteSet(S), NEW order, IsStrictOrder(order, S), NEW k \in 1 .. Cardinality(S)
  PROVE  \E c \in S : Cardinality({d \in S : <<d, c>> \in order}) = k - 1
<1>1. PICK c \in S : PlacesOf(order, S)[c] = k
  BY PlacesAreOneToOne DEF Bijection, Surjection
<1> DEFINE below == {d \in S : <<d, c>> \in order}
<1>2. Cardinality(NoLater(order, S, c)) = k
  BY <1>1 DEF PlacesOf
<1>3. NoLater(order, S, c) = below \cup {c}
  BY DEF NoLater
<1>4. IsFiniteSet(below)
  BY FS_Subset
<1>5. c \notin below
  BY DEF IsStrictOrder
<1> HIDE DEF below
<1>6. Cardinality(below) + 1 = k /\ Cardinality(below) \in Nat
  BY <1>2, <1>3, <1>4, <1>5, FS_AddElement, FS_CardinalityType
<1>7. Cardinality(below) = k - 1
  BY <1>6
<1> QED
  BY <1>7 DEF below

(* So it is with things that have numbers of their own. *)
Lower(f, S, c) == {d \in S : f[d] < f[c]}

LEMMA EachHasItsPlace ==
  ASSUME NEW S, IsFiniteSet(S), NEW f \in [S -> Int], \A c, d \in S : f[c] = f[d] => c = d,
         NEW k \in 1 .. Cardinality(S)
  PROVE  \E c \in S : Cardinality(Lower(f, S, c)) = k - 1
<1> DEFINE order == {p \in S \X S : f[p[1]] < f[p[2]]}
<1>1. \A c, d \in S : <<c, d>> \in order <=> f[c] < f[d]
  OBVIOUS
<1>2. IsStrictOrder(order, S)
  <2>1. \A c, d \in S : c # d => f[c] < f[d] \/ f[d] < f[c]
    OBVIOUS
  <2>2. \A c, d, e \in S : f[c] < f[d] /\ f[d] < f[e] => f[c] < f[e]
    OBVIOUS
  <2>3. \A c \in S : ~ (f[c] < f[c])
    OBVIOUS
  <2> HIDE DEF order
  <2> QED
    BY <1>1, <2>1, <2>2, <2>3 DEF IsStrictOrder
<1> HIDE DEF order
<1>3. PICK c \in S : Cardinality({d \in S : <<d, c>> \in order}) = k - 1
  BY <1>2, EachHasItsRank
<1>4. {d \in S : <<d, c>> \in order} = Lower(f, S, c)
  BY <1>1 DEF Lower
<1> QED
  BY <1>3, <1>4

(* A finite set in two parts. *)
LEMMA TwoParts ==
  ASSUME NEW S, NEW A, NEW B, IsFiniteSet(A), IsFiniteSet(B), A \cap B = {}, S = A \cup B
  PROVE  IsFiniteSet(S) /\ Cardinality(S) = Cardinality(A) + Cardinality(B)
         /\ Cardinality(A) \in Nat /\ Cardinality(B) \in Nat
<1>1. /\ IsFiniteSet(A \cup B)
      /\ Cardinality(A \cup B) = Cardinality(A) + Cardinality(B) - Cardinality(A \cap B)
  BY FS_Union
<1>2. Cardinality(A) \in Nat /\ Cardinality(B) \in Nat
  BY FS_CardinalityType
<1>3. Cardinality(A \cap B) = 0
  BY FS_EmptySet
<1> QED
  BY <1>1, <1>2, <1>3

(* Marks handed out by owners: as many as there are things marked, when the *)
(* owners are numbered one to one and no owner gives two things one mark.   *)
Tagged(D, marks) == UNION {{k} \X marks[k] : k \in D}

LEMMA EachIsMarkedOnce ==
  ASSUME NEW D, NEW owners, NEW w \in Bijection(D, owners),
         NEW S, IsFiniteSet(S), NEW owner \in [S -> owners], NEW mark,
         \A x, y \in S : owner[x] = owner[y] /\ mark[x] = mark[y] => x = y,
         NEW marks,
         \A k \in D : \A m : m \in marks[k] <=> \E x \in S : owner[x] = w[k] /\ mark[x] = m
  PROVE  Cardinality(Tagged(D, marks)) = Cardinality(S)
<1> DEFINE Number(o) == CHOOSE k \in D : w[k] = o
           g == [x \in S |-> <<Number(owner[x]), mark[x]>>]
<1>1. /\ w \in [D -> owners] /\ \A i, j \in D : w[i] = w[j] => i = j
      /\ \A o \in owners : \E k \in D : w[k] = o
  BY DEF Bijection, Injection, Surjection, IsInjective
<1>2. \A o \in owners : Number(o) \in D /\ w[Number(o)] = o
  BY <1>1
<1> HIDE DEF Number
<1>3. \A x \in S : g[x] = <<Number(owner[x]), mark[x]>>
  OBVIOUS
<1> HIDE DEF g
<1>4. \A x, y \in S : g[x] = g[y] => x = y
  BY <1>2, <1>3
<1>5. ASSUME NEW x \in S PROVE g[x] \in Tagged(D, marks)
  <2>1. Number(owner[x]) \in D /\ mark[x] \in marks[Number(owner[x])]
    BY <1>2
  <2> DEFINE k == Number(owner[x])
             m == mark[x]
  <2>2. g[x] = <<k, m>>
    BY <1>3
  <2> HIDE DEF k, m
  <2>3. <<k, m>> \in {k} \X marks[k]
    BY <2>1 DEF k, m
  <2> QED
    BY <2>1, <2>2, <2>3 DEF Tagged, k
<1>6. ASSUME NEW z \in Tagged(D, marks) PROVE \E x \in S : z = g[x]
  <2>1. PICK k \in D : z \in {k} \X marks[k]
    BY DEF Tagged
  <2>2. PICK m \in marks[k] : z = <<k, m>>
    BY <2>1
  <2>3. PICK x \in S : owner[x] = w[k] /\ mark[x] = m
    BY <2>2
  <2>4. Number(owner[x]) = k
    BY <1>1, <1>2, <2>3
  <2> QED
    BY <1>3, <2>2, <2>3, <2>4
<1>7. {g[x] : x \in S} = Tagged(D, marks)
  BY <1>5, <1>6
<1> QED
  BY <1>4, <1>7, SameCount
=============================================================================
