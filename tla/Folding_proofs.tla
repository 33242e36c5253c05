--------------------------- MODULE Folding_proofs ---------------------------
(***************************************************************************)
(* Folding a list from the left: what is true of the start and is kept by  *)
(* every step is true of the result.                                       *)
(*                                                                         *)
(* Op(ctx, acc, x) folds x into acc, where ctx is whatever else it is told, *)
(* and Good(ctx, k, acc) says what is true of acc once k members have been *)
(* folded.  Table is the function that FoldLeft is defined by:             *)
(* FoldLeft(LAMBDA acc, x : Op(ctx, acc, x), base, s)                      *)
(*   = Table(ctx, base, s)[DOMAIN s].                                      *)
(*                                                                         *)
(* A proof makes an instance of this module for each fold of the model, and *)
(* each brings all that the module extends: so it extends next to nothing, *)
(* and takes induction on the naturals, which Counting_proofs proves as    *)
(* InductionHolds, for a premise of each theorem.                          *)
(***************************************************************************)
EXTENDS Integers

CONSTANTS Op(_, _, _), Good(_, _, _)

Top(t) == CHOOSE x \in t : \A y \in t : x >= y

Row(ctx, f, base, s, t) == IF t = {} THEN base ELSE Op(ctx, f[t \ {Top(t)}], s[Top(t)])

Table(ctx, base, s) == CHOOSE f : f = [t \in SUBSET DOMAIN s |-> Row(ctx, f, base, s, t)]

(* The greatest of a set of positions is the last when that is in it. *)
LEMMA TopIsLast ==
  ASSUME NEW k \in Nat, NEW t \in SUBSET (1 .. k + 1), k + 1 \in t
  PROVE  Top(t) = k + 1
<1>1. \A y \in t : k + 1 >= y
  OBVIOUS
<1>2. \A x \in t : (\A y \in t : x >= y) => x = k + 1
  OBVIOUS
<1> QED
  BY <1>1, <1>2 DEF Top

(* A set of positions that is not empty has a greatest. *)
LEMMA TopIsThere ==
  ASSUME \A T : 0 \in T /\ (\A m \in Nat : m \in T => m + 1 \in T) => Nat \subseteq T,
         NEW k \in Nat, NEW t \in SUBSET (1 .. k), t # {}
  PROVE  Top(t) \in t
<1> DEFINE T == {m \in Nat : \A u \in SUBSET (1 .. m) :
                   u # {} => \E x \in u : \A y \in u : x >= y}
<1>1. 0 \in T
  <2>1. 1 .. 0 = {}
    OBVIOUS
  <2> QED
    BY <2>1
<1>2. ASSUME NEW m \in Nat, m \in T PROVE m + 1 \in T
  <2> SUFFICES ASSUME NEW u \in SUBSET (1 .. m + 1), u # {}
               PROVE  \E x \in u : \A y \in u : x >= y
    OBVIOUS
  <2>1. CASE m + 1 \in u
    BY <2>1
  <2>2. CASE m + 1 \notin u
    <3>1. u \in SUBSET (1 .. m)
      BY <2>2
    <3> QED
      BY <1>2, <3>1
  <2> QED
    BY <2>1, <2>2
<1>3. Nat \subseteq T
  <2> HIDE DEF T
  <2> QED
    BY <1>1, <1>2
<1>4. PICK x \in t : \A y \in t : x >= y
  BY <1>3
<1> QED
  BY <1>4 DEF Top

(* There is such a table for the first k members, for every k. *)
LEMMA TablesAre ==
  ASSUME \A T : 0 \in T /\ (\A m \in Nat : m \in T => m + 1 \in T) => Nat \subseteq T,
         NEW ctx, NEW base, NEW s, NEW n \in Nat
  PROVE  \E f : f = [t \in SUBSET (1 .. n) |-> Row(ctx, f, base, s, t)]
<1> DEFINE T == {k \in Nat : \E f : f = [t \in SUBSET (1 .. k) |-> Row(ctx, f, base, s, t)]}
<1>1. 0 \in T
  <2> DEFINE f == [t \in SUBSET (1 .. 0) |-> base]
  <2>1. \A t \in SUBSET (1 .. 0) : Row(ctx, f, base, s, t) = base
    BY DEF Row
  <2>2. f = [t \in SUBSET (1 .. 0) |-> Row(ctx, f, base, s, t)]
    BY <2>1
  <2> QED
    BY <2>2
<1>2. ASSUME NEW k \in Nat, k \in T PROVE k + 1 \in T
  <2>1. PICK g : g = [t \in SUBSET (1 .. k) |-> Row(ctx, g, base, s, t)]
    BY <1>2
  <2> DEFINE f == [t \in SUBSET (1 .. k + 1) |->
                     IF k + 1 \in t THEN Op(ctx, g[t \ {k + 1}], s[k + 1]) ELSE g[t]]
  <2>2. ASSUME NEW t \in SUBSET (1 .. k + 1) PROVE f[t] = Row(ctx, f, base, s, t)
    <3>1. CASE k + 1 \in t
      <4>1. t \ {k + 1} \in SUBSET (1 .. k) /\ t \ {k + 1} \in SUBSET (1 .. k + 1)
        OBVIOUS
      <4>2. f[t \ {k + 1}] = g[t \ {k + 1}]
        BY <4>1
      <4>3. Top(t) = k + 1
        BY <3>1, TopIsLast
      <4> QED
        BY <3>1, <4>2, <4>3 DEF Row
    <3>2. CASE k + 1 \notin t
      <4>1. t \in SUBSET (1 .. k)
        BY <3>2
      <4>2. f[t] = Row(ctx, g, base, s, t)
        BY <2>1, <3>2, <4>1
      <4>3. CASE t = {}
        BY <4>2, <4>3 DEF Row
      <4>4. CASE t # {}
        <5>1. Top(t) \in t
          BY <4>1, <4>4, TopIsThere
        <5>2. t \ {Top(t)} \in SUBSET (1 .. k + 1) /\ k + 1 \notin t \ {Top(t)}
          BY <3>2
        <5>3. f[t \ {Top(t)}] = g[t \ {Top(t)}]
          BY <5>2
        <5> QED
          BY <4>2, <4>4, <5>3 DEF Row
      <4> QED
        BY <4>3, <4>4
    <3> QED
      BY <3>1, <3>2
  <2>3. f = [t \in SUBSET (1 .. k + 1) |-> f[t]]
    OBVIOUS
  <2>4. f = [t \in SUBSET (1 .. k + 1) |-> Row(ctx, f, base, s, t)]
    <3> HIDE DEF f
    <3> QED
      BY <2>2, <2>3
  <2> HIDE DEF f
  <2> QED
    BY <2>4
<1>3. Nat \subseteq T
  <2> HIDE DEF T
  <2> QED
    BY <1>1, <1>2
<1> QED
  BY <1>3

(* What holds at the start and is kept by every step holds of the result. *)
THEOREM FoldKeeps ==
  ASSUME \A T : 0 \in T /\ (\A m \in Nat : m \in T => m + 1 \in T) => Nat \subseteq T,
         NEW ctx, NEW base, NEW s, NEW n \in Nat, DOMAIN s = 1 .. n,
         Good(ctx, 0, base),
         \A k \in 0 .. n - 1 : \A acc : Good(ctx, k, acc) => Good(ctx, k + 1, Op(ctx, acc, s[k + 1]))
  PROVE  Good(ctx, n, Table(ctx, base, s)[DOMAIN s])
<1> DEFINE f == Table(ctx, base, s)
           T == {k \in Nat : k <= n => Good(ctx, k, f[1 .. k])}
<1>1. f = [t \in SUBSET (1 .. n) |-> Row(ctx, f, base, s, t)]
  BY TablesAre DEF Table
<1> HIDE DEF f
<1>2. 0 \in T
  <2>1. 1 .. 0 = {} /\ {} \in SUBSET (1 .. n)
    OBVIOUS
  <2>2. f[{}] = base
    BY <1>1, <2>1 DEF Row
  <2> QED
    BY <2>1, <2>2
<1>3. ASSUME NEW k \in Nat, k \in T PROVE k + 1 \in T
  <2> SUFFICES ASSUME k + 1 <= n PROVE Good(ctx, k + 1, f[1 .. k + 1])
    OBVIOUS
  <2>1. 1 .. k + 1 \in SUBSET (1 .. n) /\ 1 .. k + 1 # {}
    <3>1. 1 \in 1 .. k + 1 /\ \A i \in 1 .. k + 1 : i \in 1 .. n
      OBVIOUS
    <3> QED
      BY <3>1
  <2>2. Top(1 .. k + 1) = k + 1
    BY TopIsLast
  <2>3. (1 .. k + 1) \ {k + 1} = 1 .. k
    OBVIOUS
  <2>4. f[1 .. k + 1] = Op(ctx, f[1 .. k], s[k + 1])
    <3>1. f[1 .. k + 1] = Row(ctx, f, base, s, 1 .. k + 1)
      BY <1>1, <2>1
    <3> QED
      BY <2>1, <2>2, <2>3, <3>1 DEF Row
  <2>5. Good(ctx, k, f[1 .. k]) /\ k \in 0 .. n - 1
    BY <1>3
  <2> QED
    BY <2>4, <2>5
<1>4. Nat \subseteq T
  <2> HIDE DEF T
  <2> QED
    BY <1>2, <1>3
<1>5. Good(ctx, n, f[1 .. n])
  BY <1>4
<1> QED
  BY <1>5 DEF f
=============================================================================
