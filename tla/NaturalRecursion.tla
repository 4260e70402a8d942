--------------------------- MODULE NaturalRecursion ---------------------------
(***************************************************************************)
(* Least elements of sets of naturals, and what follows from them:         *)
(* induction, in the form of a set that holds 0 and every successor, and   *)
(* the existence of functions defined by recursion.  The induction rules   *)
(* of the library take a predicate; these take a set.                      *)
(***************************************************************************)
EXTENDS Integers, FiniteSetsExt, WellFoundedInduction, TLAPS

(* The Min by which the models pick an element is one. *)
LEMMA LeastOf ==
    ASSUME NEW S \in SUBSET Nat, S # {}
    PROVE  Min(S) \in S /\ \A y \in S : Min(S) <= y
  <1> DEFINE less == OpToRel(<, Nat)
  <1>1. \E x \in S : \A y \in S : <<y, x>> \notin less
    <2> HIDE DEF less
    <2>1. IsWellFoundedOn(less, Nat)  BY NatLessThanWellFounded DEF less
    <2> QED  BY <2>1, WFMin
  <1>2. PICK x \in S : \A y \in S : <<y, x>> \notin less
    BY <1>1, Zenon
  <1>3. \A y \in S : ~(y < x)
    <2> SUFFICES ASSUME NEW y \in S, y < x  PROVE FALSE
      OBVIOUS
    <2>1. x \in Nat /\ y \in Nat  OBVIOUS
    <2>2. <<y, x>> \in less
      BY <2>1, Zenon DEF OpToRel
    <2> QED  BY <1>2, <2>2, Zenon
  <1>4. \A y \in S : x <= y
    <2> HIDE DEF less
    <2> QED  BY <1>3
  <1> HIDE DEF less
  <1> QED  BY <1>4 DEF Min

(* Induction, from the least number that is left out. *)
LEMMA Induction ==
    ASSUME NEW S \in SUBSET Nat, 0 \in S, \A n \in S : n + 1 \in S
    PROVE  S = Nat
  <1> SUFFICES ASSUME Nat \ S # {}  PROVE FALSE
    OBVIOUS
  <1> DEFINE m == Min(Nat \ S)
  <1>1. m \in Nat \ S /\ \A y \in Nat \ S : m <= y
    BY LeastOf
  <1> HIDE DEF m
  <1>2. m # 0  BY <1>1
  <1>3. m - 1 \in Nat /\ ~(m <= m - 1)  BY <1>1, <1>2
  <1>4. m - 1 \in S  BY <1>1, <1>3
  <1> QED  BY <1>1, <1>3, <1>4

(* A function may be iterated from a value. *)
Iterates(T) ==
    \A a \in T, step \in [T -> T] :
       \E f \in [Nat -> T] : f[0] = a /\ \A n \in Nat : f[n + 1] = step[f[n]]

LEMMA IterateExists == \A T : Iterates(T)
  <1> SUFFICES ASSUME NEW T, NEW a \in T, NEW step \in [T -> T]
               PROVE  \E f \in [Nat -> T] : f[0] = a /\ \A n \in Nat : f[n + 1] = step[f[n]]
    BY DEF Iterates
  <1> DEFINE P(f, n) == /\ f \in [0 .. n -> T]
                        /\ f[0] = a
                        /\ \A m \in 0 .. n - 1 : f[m + 1] = step[f[m]]
  <1>1. \A n \in Nat : \E f : P(f, n)
    <2> DEFINE G == {n \in Nat : \E f : P(f, n)}
    <2>1. 0 \in G
      <3> DEFINE f == [m \in 0 .. 0 |-> a]
      <3>1. P(f, 0)  OBVIOUS
      <3> QED  BY <3>1
    <2>2. ASSUME NEW n \in G  PROVE n + 1 \in G
      <3>1. PICK f : P(f, n)  OBVIOUS
      <3> DEFINE g == [m \in 0 .. n + 1 |-> IF m = n + 1 THEN step[f[n]] ELSE f[m]]
      <3>2. n \in Nat  OBVIOUS
      <3>3. g \in [0 .. n + 1 -> T]
        <4>1. f \in [0 .. n -> T]  BY <3>1, Zenon
        <4>2. f[n] \in T
          <5>1. n \in 0 .. n  BY <3>2
          <5> QED  BY <4>1, <5>1
        <4>3. step[f[n]] \in T  BY <4>2
        <4>4. \A m \in 0 .. n + 1 : m = n + 1 \/ m \in 0 .. n  BY <3>2
        <4>5. \A m \in 0 .. n + 1 : g[m] \in T  BY <4>1, <4>3, <4>4
        <4> QED  BY <4>5
      <3>4. g[0] = a  BY <3>1, <3>2
      <3>5. ASSUME NEW m \in 0 .. (n + 1) - 1  PROVE g[m + 1] = step[g[m]]
        <4>1. m \in 0 .. n + 1 /\ m + 1 \in 0 .. n + 1 /\ m # n + 1  BY <3>2
        <4>2. g[m] = f[m]  BY <4>1
        <4>3. CASE m = n
          BY <4>1, <4>2, <4>3
        <4>4. CASE m # n
          <5>1. m \in 0 .. n - 1 /\ m + 1 # n + 1  BY <3>2, <4>4
          <5> QED  BY <3>1, <4>1, <4>2, <5>1
        <4> QED  BY <4>3, <4>4
      <3>6. P(g, n + 1)  BY <3>3, <3>4, <3>5
      <3> HIDE DEF P, g
      <3> QED  BY <3>2, <3>6
    <2>3. G = Nat
      <3> HIDE DEF G
      <3>1. G \in SUBSET Nat  BY DEF G
      <3> QED  BY <2>1, <2>2, <3>1, Induction
    <2> QED  BY <2>3
  <1>2. ASSUME NEW n \in Nat, NEW k \in Nat, NEW f, NEW g, P(f, n), P(g, k)
        PROVE  \A m \in Nat : m <= n /\ m <= k => f[m] = g[m]
    <2> DEFINE G == {m \in Nat : m <= n /\ m <= k => f[m] = g[m]}
    <2>1. 0 \in G  BY <1>2
    <2>2. ASSUME NEW m \in G  PROVE m + 1 \in G
      <3> SUFFICES ASSUME m + 1 <= n, m + 1 <= k  PROVE f[m + 1] = g[m + 1]
        OBVIOUS
      <3>1. m \in 0 .. n - 1 /\ m \in 0 .. k - 1 /\ f[m] = g[m]  OBVIOUS
      <3> QED  BY <1>2, <3>1
    <2>3. G = Nat
      <3> HIDE DEF G
      <3>1. G \in SUBSET Nat  BY DEF G
      <3> QED  BY <2>1, <2>2, <3>1, Induction
    <2> QED  BY <2>3
  <1> DEFINE h(n) == CHOOSE f : P(f, n)
             F == [n \in Nat |-> h(n)[n]]
  <1>3. \A n \in Nat : P(h(n), n)
    <2> HIDE DEF P
    <2> QED  BY <1>1
  <1> HIDE DEF h
  <1>4. F \in [Nat -> T]  BY <1>3
  <1>5. F[0] = a  BY <1>3
  <1>6. ASSUME NEW n \in Nat  PROVE F[n + 1] = step[F[n]]
    <2>1. n + 1 \in Nat /\ n <= n + 1 /\ n <= n /\ n \in 0 .. (n + 1) - 1  OBVIOUS
    <2>2. P(h(n), n) /\ P(h(n + 1), n + 1)
      <3> HIDE DEF P
      <3> QED  BY <1>3, <2>1
    <2>3. h(n)[n] = h(n + 1)[n]
      <3> HIDE DEF P
      <3> QED  BY <1>2, <2>1, <2>2
    <2>4. h(n + 1)[n + 1] = step[h(n + 1)[n]]  BY <2>1, <2>2
    <2> QED  BY <2>1, <2>3, <2>4
  <1> HIDE DEF F
  <1> QED  BY <1>4, <1>5, <1>6

(* The same where each step is a function of its own. *)
Recurses(T) ==
    \A a \in T, step \in [Nat -> [T -> T]] :
       \E f \in [Nat -> T] : f[0] = a /\ \A n \in Nat : f[n + 1] = step[n][f[n]]

LEMMA RecursionExists == \A T : Recurses(T)
  <1> SUFFICES ASSUME NEW T, NEW a \in T, NEW step \in [Nat -> [T -> T]]
               PROVE  \E f \in [Nat -> T] :
                         f[0] = a /\ \A n \in Nat : f[n + 1] = step[n][f[n]]
    BY DEF Recurses
  <1> DEFINE P == Nat \X T
             Go(p) == <<p[1] + 1, step[p[1]][p[2]]>>
             go == [p \in P |-> Go(p)]
  <1>1. \A p \in P : p[1] \in Nat /\ p[2] \in T
    OBVIOUS
  <1>2. \A p \in P : step[p[1]][p[2]] \in T /\ p[1] + 1 \in Nat
    BY <1>1
  <1>3. \A p \in P : Go(p) \in P
    BY <1>2
  <1>4. go \in [P -> P]
    <2> HIDE DEF P, Go
    <2> QED  BY <1>3
  <1>5. <<0, a>> \in P
    OBVIOUS
  <1>6. PICK F \in [Nat -> P] : F[0] = <<0, a>> /\ \A n \in Nat : F[n + 1] = go[F[n]]
    <2> HIDE DEF P, go
    <2>1. Iterates(P)  BY IterateExists
    <2> QED  BY <2>1, <1>4, <1>5, Zenon DEF Iterates
  <1>7. \A n \in Nat : F[n] \in P
    <2> HIDE DEF P
    <2> QED  BY <1>6
  <1>8. \A n \in Nat : F[n + 1] = Go(F[n])
    <2> HIDE DEF P, Go
    <2> QED  BY <1>6, <1>7
  <1>9. \A n \in Nat : F[n + 1][1] = F[n][1] + 1 /\ F[n + 1][2] = step[F[n][1]][F[n][2]]
    BY <1>8
  <1>10. \A n \in Nat : F[n][1] = n
    <2> DEFINE G == {n \in Nat : F[n][1] = n}
    <2>1. 0 \in G  BY <1>6
    <2>2. \A n \in G : n + 1 \in G  BY <1>9
    <2> HIDE DEF G
    <2>3. G = Nat
      <3>1. G \in SUBSET Nat  BY DEF G
      <3> QED  BY <2>1, <2>2, <3>1, Induction
    <2> QED  BY <2>3 DEF G
  <1> DEFINE f == [n \in Nat |-> F[n][2]]
  <1>11. f \in [Nat -> T]  BY <1>1, <1>7
  <1>12. f[0] = a  BY <1>6
  <1>13. \A n \in Nat : f[n + 1] = step[n][f[n]]  BY <1>9, <1>10
  <1> HIDE DEF f
  <1> QED  BY <1>11, <1>12, <1>13
=============================================================================
