----------------------------- MODULE Recursion ------------------------------
(***************************************************************************)
(* What the proofs about recursive functions rest on: strong induction     *)
(* over the natural numbers, stated about a set instead of a predicate, so *)
(* that the provers can apply it, and the existence of functions defined   *)
(* by linear recursion.                                                    *)
(***************************************************************************)
EXTENDS Integers, TLAPS, WellFoundedInduction

\* Strong induction: a set that contains every number below which it contains
\* all numbers contains all numbers.
LEMMA SetInduction ==
  ASSUME NEW S,
         \A n \in Nat : (\A m \in Nat : m < n => m \in S) => n \in S
  PROVE  \A n \in Nat : n \in S
<1> DEFINE T == Nat \ S
           R == OpToRel(<, Nat)
<1>1. IsWellFoundedOn(R, Nat)
  BY NatLessThanWellFounded
<1>2. CASE T # {}
  <2>1. PICK x \in T : \A y \in T : ~ (<<y, x>> \in R)
    <3>1. T \subseteq Nat  OBVIOUS
    <3> HIDE DEF R, T
    <3> QED  BY <1>1, <1>2, <3>1, WFMin
  <2>2. ASSUME NEW m \in Nat, m < x, m \notin S
        PROVE  FALSE
    <3>1. <<m, x>> \in R  BY <2>2 DEF OpToRel
    <3> QED  BY <3>1, <2>1, <2>2
  <2> QED  BY <2>2
<1> QED  BY <1>2

-----------------------------------------------------------------------------
\* One step of a linear recursion: the value at d is g[d] at the bottom, and
\* else H[d] applied to the value that f has at the predecessor of d.
Unfold(f, d, base, g, H, pred) ==
  IF d \in base THEN g[d] ELSE H[d][f[pred[d]]]

\* f satisfies the recursion equation up to a measure n of its arguments.
Solves(f, n, D, base, g, H, pred, mu) ==
  \A d \in D : mu[d] <= n => f[d] = Unfold(f, d, base, g, H, pred)

\* Functions that satisfy the recursion equation up to a measure n of their
\* arguments agree up to that measure.
LEMMA ApproximationsAgree ==
  ASSUME NEW D, NEW base, NEW g, NEW H, NEW pred \in [D -> D],
         NEW mu \in [D -> Nat],
         \A d \in D \ base : mu[pred[d]] < mu[d],
         NEW n \in Nat, NEW f, NEW h,
         Solves(f, n, D, base, g, H, pred, mu),
         Solves(h, n, D, base, g, H, pred, mu)
  PROVE  \A d \in D : mu[d] <= n => f[d] = h[d]
<1> DEFINE S == {k \in Nat : \A d \in D : mu[d] = k /\ k <= n => f[d] = h[d]}
<1>1. ASSUME NEW k \in Nat, \A m \in Nat : m < k => m \in S
      PROVE  k \in S
  <2> SUFFICES ASSUME NEW d \in D, mu[d] = k, k <= n
               PROVE  f[d] = h[d]
    OBVIOUS
  <2>1. /\ f[d] = Unfold(f, d, base, g, H, pred)
        /\ h[d] = Unfold(h, d, base, g, H, pred)
    BY DEF Solves
  <2>2. CASE d \in base
    BY <2>1, <2>2 DEF Unfold
  <2>3. CASE d \notin base
    <3>1. mu[pred[d]] \in Nat /\ mu[pred[d]] < k /\ pred[d] \in D
      BY <2>3
    <3>2. mu[pred[d]] \in S
      BY <1>1, <3>1
    <3>3. f[pred[d]] = h[pred[d]]
      BY <3>1, <3>2
    <3> QED  BY <2>1, <2>3, <3>3 DEF Unfold
  <2> QED  BY <2>2, <2>3
<1>2. \A k \in Nat : k \in S
  <2> HIDE DEF S
  <2> QED  BY <1>1, SetInduction
<1> QED  BY <1>2

\* The parts of a linear recursion over D with values in V: the predecessor
\* lowers a measure.
IsRecursion(D, V, base, g, H, pred, mu) ==
  /\ g \in [D -> V] /\ H \in [D -> [V -> V]]
  /\ pred \in [D -> D] /\ mu \in [D -> Nat]
  /\ \A d \in D \ base : mu[pred[d]] < mu[d]

Satisfies(f, D, base, g, H, pred) ==
  \A d \in D : f[d] = Unfold(f, d, base, g, H, pred)

\* A linear recursion defines a function.
LEMMA LinearRecursion ==
  ASSUME NEW D, NEW V, NEW base, NEW g, NEW H, NEW pred, NEW mu,
         IsRecursion(D, V, base, g, H, pred, mu)
  PROVE  \E f \in [D -> V] : Satisfies(f, D, base, g, H, pred)
<1> USE DEF IsRecursion
<1> DEFINE Good(f, n) == Solves(f, n, D, base, g, H, pred, mu)
           S == {n \in Nat : \E f \in [D -> V] : Good(f, n)}
<1>1. ASSUME NEW f \in [D -> V], NEW d \in D
      PROVE  Unfold(f, d, base, g, H, pred) \in V
  BY DEF Unfold
<1>2. ASSUME NEW n \in Nat, \A m \in Nat : m < n => m \in S
      PROVE  n \in S
  <2>1. \E f \in [D -> V] : \A d \in D : mu[d] < n => f[d] = Unfold(f, d, base, g, H, pred)
    <3>1. CASE n = 0
      <4>1. \A d \in D : ~ (mu[d] < n)  BY <3>1
      <4> QED  BY <4>1
    <3>2. CASE n # 0
      <4>1. n - 1 \in S  BY <1>2, <3>2
      <4>2. PICK f \in [D -> V] : Good(f, n - 1)  BY <4>1
      <4>3. \A d \in D : mu[d] < n => mu[d] <= n - 1  BY <3>2
      <4> QED  BY <4>2, <4>3 DEF Solves
    <3> QED  BY <3>1, <3>2
  <2>2. PICK f \in [D -> V] :
          \A d \in D : mu[d] < n => f[d] = Unfold(f, d, base, g, H, pred)
    BY <2>1
  <2> DEFINE h == [d \in D |-> Unfold(f, d, base, g, H, pred)]
  <2>3. h \in [D -> V]
    BY <1>1
  <2>4. ASSUME NEW d \in D, mu[d] <= n
        PROVE  h[d] = Unfold(h, d, base, g, H, pred)
    <3>1. CASE d \in base
      BY <3>1 DEF Unfold
    <3>2. CASE d \notin base
      <4>1. pred[d] \in D /\ mu[pred[d]] < n  BY <2>4, <3>2
      <4>2. h[pred[d]] = f[pred[d]]  BY <4>1, <2>2
      <4> QED  BY <3>2, <4>2 DEF Unfold
    <3> QED  BY <3>1, <3>2
  <2>5. Good(h, n)
    <3> HIDE DEF h
    <3> QED  BY <2>4 DEF Solves
  <2> HIDE DEF h, Good
  <2> QED  BY <2>3, <2>5
<1>3. \A n \in Nat : n \in S
  <2> HIDE DEF S
  <2> QED  BY <1>2, SetInduction
<1> DEFINE G == [n \in Nat |-> CHOOSE f \in [D -> V] : Good(f, n)]
           F == [d \in D |-> G[mu[d]][d]]
<1>4. \A n \in Nat : G[n] \in [D -> V] /\ Good(G[n], n)
  <2> HIDE DEF Good
  <2> QED  BY <1>3
<1>5. F \in [D -> V]
  <2> HIDE DEF G
  <2> QED  BY <1>4
<1>6. ASSUME NEW d \in D
      PROVE  F[d] = Unfold(F, d, base, g, H, pred)
  <2> HIDE DEF G
  <2>1. F[d] = Unfold(G[mu[d]], d, base, g, H, pred)
    BY <1>4 DEF Solves
  <2>2. CASE d \in base
    BY <2>1, <2>2 DEF Unfold
  <2>3. CASE d \notin base
    <3>1. /\ pred[d] \in D /\ mu[d] \in Nat /\ mu[pred[d]] \in Nat
          /\ mu[pred[d]] < mu[d]
      BY <2>3
    <3> DEFINE a == G[mu[d]]
               b == G[mu[pred[d]]]
               k == mu[pred[d]]
    <3>2. Good(a, k)
      BY <1>4, <3>1 DEF Solves
    <3>3. Good(b, k)
      BY <1>4, <3>1
    <3>4. \A e \in D : mu[e] <= k => a[e] = b[e]
      <4> HIDE DEF a, b
      <4> QED  BY <3>1, <3>2, <3>3, ApproximationsAgree
    <3>5. a[pred[d]] = F[pred[d]]
      BY <3>1, <3>4
    <3> QED  BY <2>1, <2>3, <3>5 DEF Unfold
  <2> QED  BY <2>2, <2>3
<1> HIDE DEF F
<1> QED  BY <1>5, <1>6 DEF Satisfies

=============================================================================
