----------------------------- MODULE BuddyProofs -----------------------------
(***************************************************************************)
(* Proofs about BuddyAllocator, for every number of levels, set of chunks  *)
(* and set of layouts.                                                     *)
(*                                                                         *)
(* Lists(n, B) says that the words n are exactly the free lists of the     *)
(* blocks B: there is a chain of cells from every head.  Each operation on *)
(* a list inserts a cell into a chain or takes one out of it.  Parts and   *)
(* Merged say that blocks are disjoint and aligned, and that no two are    *)
(* buddies; the split and the merge loop keep them turn by turn            *)
(* (Splitting, Merging, LoopRuns) and keep the set of free cells.  Holding *)
(* divides what the heap delivered between the free cells and the          *)
(* allocations.                                                            *)
(***************************************************************************)
EXTENDS BuddyAllocator, NaturalRecursion, FiniteSetTheorems, TLAPS

-------------------------------------------------------------------------------
(* Powers of two *)

LEMMA ShlUnfolds == shl \in [Nat -> Nat] /\ shl[0] = 1 /\ \A n \in Nat : shl[n + 1] = 2 * shl[n]
  <1> DEFINE step == [x \in Nat |-> 2 * x]
             Rec(f) == f = [n \in Nat |-> IF n = 0 THEN 1 ELSE 2 * f[n - 1]]
             F == CHOOSE f : Rec(f)
  <1>1. shl = F  BY Zenon DEF shl
  <1>2. step \in [Nat -> Nat]  OBVIOUS
  <1>3. PICK f \in [Nat -> Nat] : f[0] = 1 /\ \A n \in Nat : f[n + 1] = step[f[n]]
    <2> HIDE DEF step
    <2>1. Iterates(Nat)  BY IterateExists
    <2>2. 1 \in Nat  OBVIOUS
    <2> QED  BY <2>1, <2>2, <1>2, Zenon DEF Iterates
  <1>4. \E g : Rec(g)
    <2> DEFINE val(n) == IF n = 0 THEN 1 ELSE 2 * f[n - 1]
    <2>1. ASSUME NEW n \in Nat  PROVE f[n] = val(n)
      <3>1. CASE n = 0  BY <3>1, <1>3
      <3>2. CASE n # 0
        <4>1. n - 1 \in Nat /\ (n - 1) + 1 = n  BY <3>2
        <4>2. f[(n - 1) + 1] = step[f[n - 1]]  BY <1>3, <4>1
        <4> QED  BY <3>2, <4>1, <4>2
      <3> QED  BY <3>1, <3>2
    <2>2. f = [n \in Nat |-> val(n)]
      <3> HIDE DEF val
      <3> QED  BY <2>1
    <2>3. Rec(f)  BY <2>2, Zenon
    <2> HIDE DEF Rec
    <2> QED  BY <2>3
  <1>5. Rec(F)
    <2> HIDE DEF Rec
    <2> QED  BY <1>4
  <1> DEFINE G == F
  <1>6. Rec(G)  BY <1>5
  <1> HIDE DEF G
  <1>7. \A n \in Nat : G[n] = IF n = 0 THEN 1 ELSE 2 * G[n - 1]
    BY <1>6
  <1>8. G[0] = 1 /\ \A n \in Nat : G[n + 1] = 2 * G[n]
    <2>1. \A n \in Nat : n + 1 \in Nat /\ n + 1 # 0 /\ (n + 1) - 1 = n  OBVIOUS
    <2> QED  BY <1>7, <2>1
  <1>9. \A n \in Nat : G[n] \in Nat
    <2> DEFINE S == {n \in Nat : G[n] \in Nat}
    <2>1. 0 \in S  BY <1>8
    <2>2. \A n \in S : n + 1 \in S  BY <1>8
    <2>3. S \in SUBSET Nat  OBVIOUS
    <2> HIDE DEF S
    <2>4. S = Nat  BY <2>1, <2>2, <2>3, Induction
    <2> QED  BY <2>4 DEF S
  <1>10. G \in [Nat -> Nat]
    <2>1. G = [n \in Nat |-> G[n]]  BY <1>6
    <2> QED  BY <2>1, <1>9
  <1> QED  BY <1>1, <1>8, <1>10 DEF G

LEMMA SizeDoubles ==
    \A k \in Nat : level2size(k) \in Nat \ {0} /\ level2size(k + 1) = 2 * level2size(k)
  <1> DEFINE S == {n \in Nat : shl[n] # 0}
  <1>1. 0 \in S  BY ShlUnfolds
  <1>2. \A n \in S : n + 1 \in S  BY ShlUnfolds
  <1>3. S \in SUBSET Nat  OBVIOUS
  <1> HIDE DEF S
  <1>4. S = Nat  BY <1>1, <1>2, <1>3, Induction
  <1> QED  BY <1>4, ShlUnfolds DEF S, level2size

LEMMA Multiples ==
    ASSUME NEW d \in Nat \ {0}, NEW x \in Nat
    PROVE  x % d = 0 <=> \E q \in Nat : x = q * d
  <1>1. x \div d \in Nat /\ x % d \in 0 .. d - 1 /\ x = (x \div d) * d + (x % d)
    OBVIOUS
  <1>2. ASSUME x % d = 0  PROVE \E q \in Nat : x = q * d
    <2> DEFINE a == x \div d
    <2>1. a \in Nat /\ x = a * d  BY <1>1, <1>2
    <2> HIDE DEF a
    <2> QED  BY <2>1
  <1>3. ASSUME NEW q \in Nat, x = q * d  PROVE x % d = 0
    <2> DEFINE a == x \div d
               r == x % d
    <2>1. a \in Nat /\ r \in Nat /\ r < d /\ q * d = a * d + r
      BY <1>1, <1>3
    <2> HIDE DEF a, r
    <2>2. CASE q <= a
      <3>1. q * d <= a * d  BY <2>1, <2>2
      <3> QED  BY <2>1, <3>1 DEF r
    <2>3. CASE q > a
      <3>1. (a + 1) * d <= q * d  BY <2>1, <2>3
      <3>2. (a + 1) * d = a * d + d  BY <2>1
      <3>3. q * d \in Nat /\ a * d \in Nat  BY <2>1
      <3> QED  BY <2>1, <3>1, <3>2, <3>3
    <2> QED  BY <2>1, <2>2, <2>3
  <1> QED  BY <1>2, <1>3

(* The two halves of an aligned block are aligned, and the other way round. *)
LEMMA Halves ==
    ASSUME NEW d \in Nat \ {0}, NEW x \in Nat
    PROVE  /\ x % (2 * d) = 0 => x % d = 0 /\ (x + d) % d = 0 /\ (x + d) % (2 * d) # 0
           /\ x % d = 0 /\ x % (2 * d) # 0 => x >= d /\ (x - d) % (2 * d) = 0
  <1>1. 2 * d \in Nat \ {0} /\ x + d \in Nat  OBVIOUS
  <1>2. ASSUME x % (2 * d) = 0
        PROVE  x % d = 0 /\ (x + d) % d = 0 /\ (x + d) % (2 * d) # 0
    <2>1. PICK q \in Nat : x = q * (2 * d)  BY <1>1, <1>2, Multiples
    <2>2. 2 * q \in Nat /\ x = (2 * q) * d  BY <2>1
    <2>3. 2 * q + 1 \in Nat /\ x + d = (2 * q + 1) * d  BY <2>1
    <2>4. x % d = 0 /\ (x + d) % d = 0  BY <1>1, <2>2, <2>3, Multiples
    <2>5. ASSUME (x + d) % (2 * d) = 0  PROVE FALSE
      <3>1. PICK p \in Nat : x + d = p * (2 * d)  BY <1>1, <2>5, Multiples
      <3>2. p * (2 * d) = (2 * p) * d /\ (2 * p) * d \in Nat /\ (2 * q) * d \in Nat  OBVIOUS
      <3>3. (2 * q) * d + d = (2 * p) * d  BY <2>2, <3>1, <3>2
      <3>4. CASE p <= q
        <4>1. (2 * p) * d <= (2 * q) * d  BY <3>4
        <4> QED  BY <3>2, <3>3, <4>1
      <3>5. CASE p > q
        <4>1. (2 * q + 2) * d <= (2 * p) * d  BY <3>5
        <4>2. (2 * q + 2) * d = (2 * q) * d + d + d  OBVIOUS
        <4> QED  BY <3>2, <3>3, <4>1, <4>2
      <3> QED  BY <3>4, <3>5
    <2> QED  BY <2>4, <2>5
  <1>3. ASSUME x % d = 0, x % (2 * d) # 0
        PROVE  x >= d /\ (x - d) % (2 * d) = 0
    <2>1. PICK q \in Nat : x = q * d  BY <1>3, Multiples
    <2>2. PICK p \in Nat : q = 2 * p \/ q = 2 * p + 1
      <3>1. q \div 2 \in Nat /\ (q = 2 * (q \div 2) \/ q = 2 * (q \div 2) + 1)  OBVIOUS
      <3> QED  BY <3>1
    <2>3. (2 * p) * d = p * (2 * d) /\ p * (2 * d) \in Nat  OBVIOUS
    <2> DEFINE e == 2 * d
    <2>4. q # 2 * p
      <3>1. e \in Nat \ {0} /\ x % e # 0  BY <1>1, <1>3
      <3>2. q = 2 * p => x = p * e  BY <2>1, <2>3
      <3> HIDE DEF e
      <3> QED  BY <3>1, <3>2, Multiples
    <2>5. x = p * (2 * d) + d
      <3>1. (2 * p + 1) * d = p * (2 * d) + d  OBVIOUS
      <3> QED  BY <2>1, <2>2, <2>4, <3>1
    <2>6. x - d = p * (2 * d) /\ x - d \in Nat  BY <2>3, <2>5
    <2>7. (x - d) % e = 0
      <3>1. e \in Nat \ {0} /\ x - d = p * e  BY <1>1, <2>6
      <3> HIDE DEF e
      <3> QED  BY <2>6, <3>1, Multiples
    <2>8. x >= d  BY <2>6
    <2> QED  BY <2>7, <2>8
  <1> QED  BY <1>2, <1>3

(* A larger power of two is a multiple of a smaller one. *)
LEMMA SizesNest ==
    ASSUME NEW j \in Nat, NEW k \in Nat, j <= k
    PROVE  /\ level2size(j) <= level2size(k)
           /\ j < k => level2size(j) < level2size(k)
           /\ \A x \in Nat : x % level2size(k) = 0 => x % level2size(j) = 0
  <1> DEFINE P(i) == /\ level2size(j) <= level2size(j + i)
                     /\ i > 0 => level2size(j) < level2size(j + i)
                     /\ \A x \in Nat : x % level2size(j + i) = 0 => x % level2size(j) = 0
             S == {i \in Nat : P(i)}
  <1>1. 0 \in S  BY SizeDoubles
  <1>2. ASSUME NEW i \in S  PROVE i + 1 \in S
    <2>1. i \in Nat /\ P(i)  OBVIOUS
    <2>2. j + i \in Nat /\ j + (i + 1) = (j + i) + 1  BY <2>1
    <2> DEFINE a == level2size(j)
               b == level2size(j + i)
               c == level2size(j + (i + 1))
    <2>3. a \in Nat \ {0} /\ b \in Nat \ {0} /\ c = 2 * b
      BY SizeDoubles, <2>2
    <2>4. a <= b /\ \A x \in Nat : x % b = 0 => x % a = 0
      BY <2>1
    <2> HIDE DEF a, b, c
    <2>5. a <= c /\ a < c  BY <2>3, <2>4
    <2>6. \A x \in Nat : x % c = 0 => x % b = 0
      BY <2>3, Halves
    <2>7. P(i + 1)  BY <2>4, <2>5, <2>6 DEF a, b, c
    <2> HIDE DEF P
    <2> QED  BY <2>1, <2>7
  <1>3. S = Nat
    <2> HIDE DEF P
    <2>1. S \in SUBSET Nat  OBVIOUS
    <2> HIDE DEF S
    <2> QED  BY <2>1, <1>1, <1>2, Induction
  <1>4. k - j \in Nat /\ j + (k - j) = k /\ (j < k => k - j > 0)  OBVIOUS
  <1>5. P(k - j)
    <2> HIDE DEF P
    <2> QED  BY <1>3, <1>4
  <1> HIDE DEF S
  <1> QED  BY <1>4, <1>5

(* Two multiples of d that are less than d apart are the same. *)
LEMMA MultiplesApart ==
    ASSUME NEW d \in Nat \ {0}, NEW x \in Nat, NEW y \in Nat,
           x % d = 0, y % d = 0, x # y
    PROVE  x + d <= y \/ y + d <= x
  <1>1. PICK p \in Nat : x = p * d  BY Multiples
  <1>2. PICK q \in Nat : y = q * d  BY Multiples
  <1>3. CASE p < q
    <2>1. (p + 1) * d <= q * d  BY <1>3
    <2>2. (p + 1) * d = p * d + d  OBVIOUS
    <2> QED  BY <1>1, <1>2, <2>1, <2>2
  <1>4. CASE q < p
    <2>1. (q + 1) * d <= p * d  BY <1>4
    <2>2. (q + 1) * d = q * d + d  OBVIOUS
    <2> QED  BY <1>1, <1>2, <2>1, <2>2
  <1> QED  BY <1>1, <1>2, <1>3, <1>4

-------------------------------------------------------------------------------
(* Levels and memory *)

Top == LEVELS - 1
Cell == Levels \cup Memory
Stores == [Cell -> Cell \cup {NULL, JUNK}]

LEMMA TopLevel == Top \in Levels /\ Levels \subseteq Nat /\ \A k \in Levels : k <= Top
  BY LevelsAssumption DEF Top, Levels

LEMMA BlockCells ==
    ASSUME NEW p \in Nat, NEW k \in Nat
    PROVE  /\ p \in Block(p, k)
           /\ Block(p, k) \subseteq Nat
           /\ \A u \in Int : u \in Block(p, k) <=> p <= u /\ u < p + level2size(k)
           /\ IsFiniteSet(Block(p, k)) /\ Cardinality(Block(p, k)) = level2size(k)
  <1>1. level2size(k) \in Nat \ {0}  BY SizeDoubles
  <1> DEFINE s == level2size(k)
  <1> HIDE DEF s
  <1>2. Block(p, k) = p .. p + s - 1  BY DEF Block, s
  <1>3. s \in Nat \ {0}  BY <1>1 DEF s
  <1>4. IsFiniteSet(p .. p + s - 1) /\ Cardinality(p .. p + s - 1) = s
    <2>1. p \in Int /\ p + s - 1 \in Int /\ ~(p > p + s - 1) /\ (p + s - 1) - p + 1 = s
      BY <1>3
    <2> DEFINE b == p + s - 1
    <2> HIDE DEF b
    <2>2. IsFiniteSet(p .. b) /\ Cardinality(p .. b) = IF p > b THEN 0 ELSE b - p + 1
      BY <2>1, FS_Interval DEF b
    <2> QED  BY <2>1, <2>2 DEF b
  <1> QED  BY <1>2, <1>3, <1>4 DEF s

LEMMA CellsOf ==
    ASSUME NEW B, NEW u
    PROVE  u \in Cells(B) <=> \E x \in B : u \in Block(x[1], x[2])
  BY DEF Cells

LEMMA MemoryCells ==
    /\ Memory \subseteq Nat
    /\ Memory \cap Levels = {}
    /\ NULL \notin Cell /\ JUNK \notin Cell /\ NULL # JUNK
    /\ IsFiniteSet(Cell)
  <1>1. \A u \in Memory : \E c \in Chunks : u \in Block(c, Top)
    BY CellsOf DEF Memory, Top
  <1>2. \A u \in Memory : u \in Nat /\ u > LEVELS
    <2> SUFFICES ASSUME NEW u \in Memory  PROVE u \in Nat /\ u > LEVELS
      OBVIOUS
    <2>1. PICK c \in Chunks : u \in Block(c, Top)  BY <1>1
    <2>2. c \in Nat /\ c > LEVELS /\ Top \in Nat /\ LEVELS \in Nat
      BY ChunksAssumption, LevelsAssumption, TopLevel
    <2>3. u \in Nat /\ c <= u  BY <2>1, <2>2, BlockCells
    <2> QED  BY <2>2, <2>3
  <1>3. Memory \cap Levels = {}
    BY <1>2, LevelsAssumption DEF Levels
  <1>4. NULL \notin Cell /\ JUNK \notin Cell /\ NULL # JUNK
    BY <1>2, TopLevel DEF Cell, NULL, JUNK
  <1>5. IsFiniteSet(Memory)
    <2> DEFINE S == Chunks \X {Top}
               Q == {Block(x[1], x[2]) : x \in S}
               f == [x \in S |-> Block(x[1], x[2])]
    <2>1. IsFiniteSet(Chunks) /\ IsFiniteSet({Top})
      BY ChunksAssumption, FS_Singleton
    <2>2. IsFiniteSet(S)
      BY <2>1, FS_Product
    <2>3. f \in Surjection(S, Q)
      <3>1. f \in [S -> Q]  OBVIOUS
      <3>2. \A y \in Q : \E x \in S : f[x] = y  OBVIOUS
      <3> HIDE DEF f, S, Q
      <3> QED  BY <3>1, <3>2 DEF Surjection
    <2>4. IsFiniteSet(Q)
      <3> HIDE DEF f, S, Q
      <3> QED  BY <2>2, <2>3, FS_Surjection
    <2>5. \A b \in Q : IsFiniteSet(b)
      <3> SUFFICES ASSUME NEW c \in Chunks  PROVE IsFiniteSet(Block(c, Top))
        OBVIOUS
      <3> QED  BY ChunksAssumption, TopLevel, BlockCells
    <2>6. IsFiniteSet(UNION Q)
      <3> HIDE DEF Q
      <3> QED  BY <2>4, <2>5, FS_UNION
    <2> QED  BY <2>6 DEF Memory, Cells, Top
  <1>6. IsFiniteSet(Levels)
    <2>1. 0 \in Int /\ LEVELS - 1 \in Int  BY LevelsAssumption
    <2> QED  BY <2>1, FS_Interval DEF Levels
  <1>7. IsFiniteSet(Cell)
    BY <1>5, <1>6, FS_Union DEF Cell
  <1> QED  BY <1>2, <1>3, <1>4, <1>7

-------------------------------------------------------------------------------
(* The linked lists *)

(* The walk from head k meets the m cells w, without meeting one twice. *)
Chain(n, k, m, w) ==
    /\ m \in Nat \ {0}
    /\ w \in [1 .. m -> Cell]
    /\ w[1] = k
    /\ \A i \in 2 .. m : w[i] \in Memory
    /\ \A i \in 1 .. m - 1 : n[w[i]] = w[i + 1]
    /\ n[w[m]] = NULL
    /\ \A i, j \in 1 .. m : w[i] = w[j] => i = j

Onward(n, t, c) == IF n[c] = NULL THEN <<c>>
                   ELSE IF n[c] = JUNK THEN <<c, JUNK>>
                   ELSE <<c>> \o t[n[c]]
Halted(n, c) == IF n[c] = NULL THEN <<c>> ELSE <<c, JUNK>>

LEMMA WalkUnfolds ==
    ASSUME NEW n \in Stores
    PROVE  \E f : /\ \A h : Walk(n, h) = f[Cardinality(Cell)][h]
                  /\ \A c \in Cell : f[0][c] = Halted(n, c)
                  /\ \A i \in Nat, c \in Cell : f[i + 1][c] = Onward(n, f[i], c)
  <1> DEFINE V == Seq(Cell \cup {JUNK})
             T == [Cell -> V]
             first == [c \in Cell |-> Halted(n, c)]
             step == [t \in T |-> [c \in Cell |-> Onward(n, t, c)]]
             Body(f, fuel, c) == IF n[c] = NULL THEN <<c>>
                                 ELSE IF n[c] = JUNK \/ fuel = 0 THEN <<c, JUNK>>
                                 ELSE <<c>> \o f[fuel - 1][n[c]]
             Rec(f) == f = [fuel \in Nat |-> [c \in DOMAIN n |-> Body(f, fuel, c)]]
             F == CHOOSE f : Rec(f)
  <1>1. DOMAIN n = Cell  BY DEF Stores
  <1>2. \A h : Walk(n, h) = F[Cardinality(Cell)][h]
    BY <1>1, Zenon DEF Walk
  <1>3. \A c \in Cell : n[c] \in Cell \/ n[c] = NULL \/ n[c] = JUNK
    BY DEF Stores
  <1>4. first \in T
    <2>2. \A c \in Cell : <<c>> \in V /\ <<c, JUNK>> \in V  OBVIOUS
    <2> HIDE DEF V
    <2>1. \A c \in Cell : Halted(n, c) \in V  BY <2>2 DEF Halted
    <2> QED  BY <2>1
  <1>5. step \in [T -> T]
    <2>1. \A t \in T, c \in Cell : Onward(n, t, c) \in V
      <3> SUFFICES ASSUME NEW t \in T, NEW c \in Cell  PROVE Onward(n, t, c) \in V
        OBVIOUS
      <3>1. <<c>> \in V /\ <<c, JUNK>> \in V  OBVIOUS
      <3>2. CASE n[c] = NULL \/ n[c] = JUNK
        <4> HIDE DEF V
        <4> QED  BY <3>1, <3>2 DEF Onward
      <3>3. CASE ~(n[c] = NULL \/ n[c] = JUNK)
        <4>1. t[n[c]] \in V
          <5> HIDE DEF V
          <5> QED  BY <1>3, <3>3
        <4>2. <<c>> \o t[n[c]] \in V  BY <4>1
        <4> HIDE DEF V
        <4> QED  BY <4>2, <3>3 DEF Onward
      <3> QED  BY <3>2, <3>3
    <2> HIDE DEF V
    <2> QED  BY <2>1
  <1>6. PICK f \in [Nat -> T] : f[0] = first /\ \A i \in Nat : f[i + 1] = step[f[i]]
    <2> HIDE DEF T, step, first
    <2>1. Iterates(T)  BY IterateExists
    <2> QED  BY <2>1, <1>4, <1>5, Zenon DEF Iterates
  <1>7. \E g : Rec(g)
    <2>1. ASSUME NEW i \in Nat  PROVE f[i] = [c \in DOMAIN n |-> Body(f, i, c)]
      <3>0. f[i] = [c \in Cell |-> f[i][c]]
        <4> HIDE DEF V
        <4> QED  BY <1>6
      <3>1. ASSUME NEW c \in Cell  PROVE f[i][c] = Body(f, i, c)
        <4>1. CASE i = 0
          <5>1. f[i][c] = Halted(n, c)  BY <1>6, <4>1
          <5> QED  BY <4>1, <5>1 DEF Halted
        <4>2. CASE i # 0
          <5>1. i - 1 \in Nat /\ (i - 1) + 1 = i  BY <4>2
          <5>2. f[i] = step[f[i - 1]] /\ f[i - 1] \in T
            <6> HIDE DEF T, step
            <6> QED  BY <1>6, <5>1
          <5>3. f[i][c] = Onward(n, f[i - 1], c)
            <6> HIDE DEF T
            <6> QED  BY <5>2
          <5> QED  BY <4>2, <5>3 DEF Onward
        <4> QED  BY <4>1, <4>2
      <3> HIDE DEF Body, T
      <3> QED  BY <3>0, <3>1, <1>1
    <2>2. Rec(f)
      <3>1. f = [i \in Nat |-> f[i]]
        <4> HIDE DEF T
        <4> QED  BY <1>6
      <3> HIDE DEF Body
      <3> QED  BY <3>1, <2>1
    <2> HIDE DEF Rec
    <2> QED  BY <2>2
  <1>8. Rec(F)
    <2> HIDE DEF Rec
    <2> QED  BY <1>7
  <1> DEFINE G == F
  <1>9. Rec(G)  BY <1>8
  <1> HIDE DEF G
  <1>10. \A i \in Nat, c \in Cell : G[i][c] = Body(G, i, c)
    <2> DEFINE H(i) == [c \in DOMAIN n |-> Body(G, i, c)]
    <2>1. G = [i \in Nat |-> H(i)]  BY <1>9, Zenon
    <2> HIDE DEF H
    <2>2. \A i \in Nat : G[i] = H(i)  BY <2>1
    <2>3. \A i \in Nat, c \in Cell : H(i)[c] = Body(G, i, c)
      <3> HIDE DEF Body
      <3> QED  BY <1>1 DEF H
    <2> QED  BY <2>2, <2>3
  <1>11. \A c \in Cell : G[0][c] = Halted(n, c)
    BY <1>10 DEF Halted
  <1>12. \A i \in Nat, c \in Cell : G[i + 1][c] = Onward(n, G[i], c)
    <2> SUFFICES ASSUME NEW i \in Nat, NEW c \in Cell  PROVE G[i + 1][c] = Onward(n, G[i], c)
      OBVIOUS
    <2>1. i + 1 \in Nat /\ i + 1 # 0 /\ (i + 1) - 1 = i  OBVIOUS
    <2>2. G[i + 1][c] = Body(G, i + 1, c)  BY <1>10, <2>1
    <2> QED  BY <2>1, <2>2 DEF Onward
  <1>13. \A h : Walk(n, h) = G[Cardinality(Cell)][h]
    BY <1>2 DEF G
  <1> HIDE DEF Rec, F
  <1> QED  BY <1>11, <1>12, <1>13

LEMMA WalkIs ==
    ASSUME NEW n \in Stores, NEW k \in Levels, NEW m, NEW w, Chain(n, k, m, w)
    PROVE  Walk(n, k) = w /\ w \in Seq(Cell) /\ Len(w) = m
  <1>1. /\ m \in Nat /\ m >= 1 /\ w \in [1 .. m -> Cell] /\ w[1] = k /\ n[w[m]] = NULL
        /\ \A i \in 1 .. m - 1 : n[w[i]] = w[i + 1]
        /\ \A i, j \in 1 .. m : w[i] = w[j] => i = j
    BY DEF Chain
  <1>2. PICK f : /\ \A h : Walk(n, h) = f[Cardinality(Cell)][h]
                 /\ \A c \in Cell : f[0][c] = Halted(n, c)
                 /\ \A i \in Nat, c \in Cell : f[i + 1][c] = Onward(n, f[i], c)
    BY WalkUnfolds, Zenon
  <1> DEFINE C == Cardinality(Cell)
             rest(d) == [x \in 1 .. d + 1 |-> w[m - d - 1 + x]]
             P(d) == d <= m - 1 => \A i \in Nat : i >= d => f[i][w[m - d]] = rest(d)
             S == {d \in Nat : P(d)}
  <1>3. C \in Nat /\ m <= C
    <2>1. w \in Injection(1 .. m, Cell)
      <3>1. IsInjective(w)  BY <1>1 DEF IsInjective
      <3> QED  BY <1>1, <3>1 DEF Injection
    <2>2. Cardinality(1 .. m) <= C
      BY <2>1, MemoryCells, FS_Injection
    <2>3. Cardinality(1 .. m) = m
      <3>1. 1 \in Int /\ m \in Int /\ (~(1 > m) => m - 1 + 1 = m) /\ ~(1 > m)  BY <1>1
      <3>2. Cardinality(1 .. m) = IF 1 > m THEN 0 ELSE m - 1 + 1  BY <3>1, FS_Interval
      <3> QED  BY <3>1, <3>2
    <2>4. C \in Nat  BY MemoryCells, FS_CardinalityType
    <2> HIDE DEF C
    <2> QED  BY <2>2, <2>3, <2>4
  <1> HIDE DEF C
  <1>4. 0 \in S
    <2>1. w[m] \in Cell /\ m - 0 = m  BY <1>1
    <2>2. ASSUME NEW i \in Nat  PROVE f[i][w[m]] = <<w[m]>>
      <3>1. CASE i = 0
        BY <3>1, <2>1, <1>1, <1>2 DEF Halted
      <3>2. CASE i # 0
        <4>1. i - 1 \in Nat /\ (i - 1) + 1 = i  BY <3>2
        <4>2. f[(i - 1) + 1][w[m]] = Onward(n, f[i - 1], w[m])  BY <4>1, <2>1, <1>2
        <4> QED  BY <4>1, <4>2, <1>1 DEF Onward
      <3> QED  BY <3>1, <3>2
    <2>3. rest(0) = <<w[m]>>
      BY <1>1
    <2>4. P(0)
      <3> HIDE DEF rest
      <3> QED  BY <2>1, <2>2, <2>3
    <2> HIDE DEF P
    <2> QED  BY <2>4
  <1>5. ASSUME NEW d \in S  PROVE d + 1 \in S
    <2>1. d \in Nat /\ P(d)
      <3> HIDE DEF P
      <3> QED  OBVIOUS
    <2>2. ASSUME d + 1 <= m - 1, NEW i \in Nat, i >= d + 1
          PROVE  f[i][w[m - (d + 1)]] = rest(d + 1)
      <3> DEFINE j == m - (d + 1)
                 c == w[j]
      <3>1. i - 1 \in Nat /\ (i - 1) + 1 = i /\ i - 1 >= d /\ d <= m - 1 /\ j \in 1 .. m - 1 /\ j + 1 = m - d
            /\ j \in 1 .. m /\ m - d \in 1 .. m
        BY <2>1, <2>2, <1>1
      <3>2. c \in Cell /\ n[c] = w[m - d] /\ w[m - d] \in Cell
        BY <1>1, <3>1
      <3>3. f[i][c] = Onward(n, f[i - 1], c)
        <4>1. f[(i - 1) + 1][c] = Onward(n, f[i - 1], c)  BY <1>2, <3>1, <3>2
        <4> QED  BY <3>1, <4>1
      <3>4. f[i - 1][w[m - d]] = rest(d)
        <4> HIDE DEF rest, j, c
        <4> QED  BY <2>1, <3>1
      <3>5. f[i][c] = <<c>> \o rest(d)
        <4> HIDE DEF rest, c, j
        <4> QED  BY <3>2, <3>3, <3>4, MemoryCells DEF Onward
      <3>6. <<c>> \o rest(d) = rest(d + 1)
        <4>1. rest(d) \in Seq(Cell) /\ Len(rest(d)) = d + 1
          <5>1. \A x \in 1 .. d + 1 : w[m - d - 1 + x] \in Cell
            BY <1>1, <2>1, <3>1
          <5> QED  BY <2>1, <5>1
        <4>2. rest(d + 1) \in Seq(Cell) /\ Len(rest(d + 1)) = d + 2
          <5>1. \A x \in 1 .. (d + 1) + 1 : w[m - (d + 1) - 1 + x] \in Cell
            BY <1>1, <2>1, <2>2
          <5> QED  BY <2>1, <5>1
        <4> DEFINE s == <<c>> \o rest(d)
                   t == rest(d + 1)
        <4>3. s \in Seq(Cell) /\ Len(s) = d + 2
          <5> HIDE DEF rest, c
          <5> QED  BY <4>1, <3>2, <2>1
        <4>4. ASSUME NEW x \in 1 .. d + 2  PROVE s[x] = t[x]
          <5>1. CASE x = 1
            <6>1. s[1] = c
              <7> HIDE DEF rest, c
              <7> QED  BY <4>1
            <6>2. t[1] = w[m - (d + 1) - 1 + 1] /\ m - (d + 1) - 1 + 1 = j  BY <2>1, <1>1
            <6> QED  BY <5>1, <6>1, <6>2
          <5>2. CASE x # 1
            <6>1. x - 1 \in 1 .. d + 1 /\ m - d - 1 + (x - 1) = m - (d + 1) - 1 + x  BY <5>2, <2>1, <1>1
            <6>2. s[x] = rest(d)[x - 1]
              <7> HIDE DEF rest, c
              <7> QED  BY <4>1, <5>2, <2>1
            <6> QED  BY <6>1, <6>2
          <5> QED  BY <5>1, <5>2
        <4> HIDE DEF s, t
        <4>5. t \in Seq(Cell) /\ Len(t) = d + 2  BY <4>2 DEF t
        <4>6. s = t
          BY <4>3, <4>4, <4>5
        <4> QED  BY <4>6 DEF s, t
      <3> QED  BY <3>5, <3>6
    <2>3. P(d + 1)
      <3> HIDE DEF rest
      <3> QED  BY <2>2
    <2> HIDE DEF P
    <2> QED  BY <2>1, <2>3
  <1>6. S = Nat
    <2> HIDE DEF P
    <2>1. S \in SUBSET Nat  OBVIOUS
    <2> HIDE DEF S
    <2> QED  BY <2>1, <1>4, <1>5, Induction
  <1>7. P(m - 1)
    <2> HIDE DEF P
    <2> QED  BY <1>6, <1>1
  <1>8. f[C][w[1]] = rest(m - 1)
    <2>1. m - (m - 1) = 1 /\ C >= m - 1 /\ m - 1 <= m - 1  BY <1>1, <1>3
    <2> HIDE DEF rest
    <2> QED  BY <2>1, <1>3, <1>7
  <1>9. rest(m - 1) = w
    BY <1>1
  <1>10. Walk(n, k) = w
    <2> HIDE DEF rest
    <2> QED  BY <1>1, <1>2, <1>8, <1>9 DEF C
  <1>11. w \in Seq(Cell) /\ Len(w) = m
    BY <1>1
  <1> QED  BY <1>10, <1>11

(* List k links the first components of the pairs of B with second component k. *)
Links(B, k, m, w) == \A p : <<p, k>> \in B <=> \E i \in 2 .. m : w[i] = p

(* The memory is that of free lists with the blocks B. *)
Lists(n, B) ==
    /\ n \in Stores
    /\ B \subseteq Memory \X Levels
    /\ \A p, j, k : <<p, j>> \in B /\ <<p, k>> \in B => j = k
    /\ \A k \in Levels : \E m, w : Chain(n, k, m, w) /\ Links(B, k, m, w)

(* A list goes on as before while other cells change. *)
LEMMA Untouched ==
    ASSUME NEW n, NEW q, NEW X, NEW k, NEW m, NEW w, Chain(n, k, m, w),
           \A c \in Cell : c \notin X => q[c] = n[c],
           \A i \in 1 .. m : w[i] \notin X
    PROVE  Chain(q, k, m, w)
  <1>1. m \in Nat \ {0} /\ w \in [1 .. m -> Cell]  BY DEF Chain
  <1>2. \A i \in 1 .. m : q[w[i]] = n[w[i]]  BY <1>1
  <1>3. m \in 1 .. m /\ \A i \in 1 .. m - 1 : i \in 1 .. m  BY <1>1
  <1>4. q[w[m]] = NULL  BY <1>2, <1>3 DEF Chain
  <1>5. \A i \in 1 .. m - 1 : q[w[i]] = w[i + 1]  BY <1>2, <1>3 DEF Chain
  <1> QED  BY <1>4, <1>5 DEF Chain

(* Lists share no cell. *)
LEMMA ListsApart ==
    ASSUME NEW n, NEW B, Lists(n, B),
           NEW j \in Levels, NEW l, NEW v, Chain(n, j, l, v), Links(B, j, l, v),
           NEW k \in Levels, NEW m, NEW w, Chain(n, k, m, w), Links(B, k, m, w), j # k,
           NEW x \in 1 .. l, NEW y \in 1 .. m
    PROVE  v[x] # w[y]
  <1>1. l \in Nat /\ m \in Nat /\ v[1] = j /\ w[1] = k  BY DEF Chain
  <1>2. x = 1 \/ (x \in 2 .. l /\ v[x] \in Memory /\ <<v[x], j>> \in B)
    <2>1. x = 1 \/ x \in 2 .. l  BY <1>1
    <2> QED  BY <2>1 DEF Chain, Links
  <1>3. y = 1 \/ (y \in 2 .. m /\ w[y] \in Memory /\ <<w[y], k>> \in B)
    <2>1. y = 1 \/ y \in 2 .. m  BY <1>1
    <2> QED  BY <2>1 DEF Chain, Links
  <1> QED  BY <1>1, <1>2, <1>3, MemoryCells DEF Lists

(* p is linked behind w[i]. *)
LEMMA Inserted ==
    ASSUME NEW n, NEW B, Lists(n, B),
           NEW k \in Levels, NEW m, NEW w, Chain(n, k, m, w), Links(B, k, m, w),
           NEW i \in 1 .. m, NEW p \in Memory, \A j : <<p, j>> \notin B
    PROVE  Lists([n EXCEPT ![p] = n[w[i]], ![w[i]] = p], B \cup {<<p, k>>})
  <1> DEFINE q == [n EXCEPT ![p] = n[w[i]], ![w[i]] = p]
             C == B \cup {<<p, k>>}
  <1>1. /\ m \in Nat /\ m >= 1 /\ w \in [1 .. m -> Cell] /\ w[1] = k /\ n[w[m]] = NULL
        /\ \A x \in 2 .. m : w[x] \in Memory
        /\ \A x \in 1 .. m - 1 : n[w[x]] = w[x + 1]
        /\ \A x, y \in 1 .. m : w[x] = w[y] => x = y
    BY DEF Chain
  <1>2. n \in Stores /\ p \in Cell /\ w[i] \in Cell
    BY <1>1 DEF Lists, Cell
  <1>3. ASSUME NEW j \in Levels, NEW l, NEW v, Chain(n, j, l, v), Links(B, j, l, v), NEW x \in 1 .. l
        PROVE  v[x] # p
    <2>1. l \in Nat /\ v[1] = j  BY <1>3 DEF Chain
    <2>2. x = 1 \/ x \in 2 .. l  BY <2>1
    <2>3. x \in 2 .. l => <<v[x], j>> \in B  BY <1>3 DEF Links
    <2> QED  BY <2>1, <2>2, <2>3, MemoryCells
  <1>4. \A x \in 1 .. m : w[x] # p
    BY <1>3
  <1>5. /\ q \in Stores
        /\ q[p] = n[w[i]] /\ q[w[i]] = p
        /\ \A c \in Cell : c \notin {p, w[i]} => q[c] = n[c]
    <2>1. n[w[i]] \in Cell \cup {NULL, JUNK}  BY <1>2 DEF Stores
    <2>2. w[i] # p  BY <1>4
    <2>3. q \in [Cell -> Cell \cup {NULL, JUNK}]  BY <1>2, <2>1 DEF Stores
    <2>4. q[p] = n[w[i]] /\ q[w[i]] = p /\ \A c \in Cell : c \notin {p, w[i]} => q[c] = n[c]
      BY <1>2, <2>2 DEF Stores
    <2> QED  BY <2>3, <2>4 DEF Stores
  <1> HIDE DEF q
  <1>6. C \subseteq Memory \X Levels
    BY DEF Lists
  <1>7. \A x, j, l : <<x, j>> \in C /\ <<x, l>> \in C => j = l
    BY DEF Lists
  <1>8. ASSUME NEW j \in Levels, j # k
        PROVE  \E l, v : Chain(q, j, l, v) /\ Links(C, j, l, v)
    <2>1. PICK l, v : Chain(n, j, l, v) /\ Links(B, j, l, v)
      BY DEF Lists
    <2>2. \A x \in 1 .. l : v[x] \notin {p, w[i]}
      BY <1>3, <1>8, <2>1, ListsApart
    <2>3. Chain(q, j, l, v)
      BY <1>5, <2>1, <2>2, Untouched
    <2>4. Links(C, j, l, v)
      BY <1>8, <2>1 DEF Links
    <2> QED  BY <2>3, <2>4
  <1>9. \E l, v : Chain(q, k, l, v) /\ Links(C, k, l, v)
    <2> DEFINE v == [x \in 1 .. m + 1 |-> IF x <= i THEN w[x] ELSE IF x = i + 1 THEN p ELSE w[x - 1]]
    <2>1. i \in Nat /\ 1 <= i /\ i <= m  BY <1>1
    <2>2. \A x \in 1 .. m : x <= i => v[x] = w[x]
      BY <1>1
    <2>3. v[i + 1] = p
      BY <1>1, <2>1
    <2>4. \A x \in 1 .. m : i < x => v[x + 1] = w[x]
      BY <1>1, <2>1
    <2>5. \A x \in 1 .. m + 1 : \/ x \in 1 .. m /\ x <= i
                                \/ x = i + 1
                                \/ x - 1 \in 1 .. m /\ i < x - 1 /\ x = (x - 1) + 1 /\ v[x] = w[x - 1]
      BY <1>1, <2>1
    <2>6. v \in [1 .. m + 1 -> Cell]
      <3>1. \A x \in 1 .. m + 1 : v[x] \in Cell
        <4> HIDE DEF v
        <4> QED  BY <1>1, <1>2, <2>2, <2>3, <2>5
      <3> QED  BY <3>1
    <2> HIDE DEF v
    <2>7. v[1] = k
      BY <1>1, <2>1, <2>2
    <2>8. \A x \in 2 .. m + 1 : v[x] \in Memory
      <3> SUFFICES ASSUME NEW x \in 2 .. m + 1  PROVE v[x] \in Memory
        OBVIOUS
      <3>1. x \in 1 .. m + 1  BY <1>1
      <3>2. CASE x \in 1 .. m /\ x <= i
        <4>1. x \in 2 .. m  BY <3>2, <1>1
        <4> QED  BY <1>1, <2>2, <3>2, <4>1
      <3>3. CASE x = i + 1
        BY <2>3, <3>3
      <3>4. CASE x - 1 \in 1 .. m /\ i < x - 1 /\ x = (x - 1) + 1 /\ v[x] = w[x - 1]
        <4>1. x - 1 \in 2 .. m  BY <3>4, <1>1, <2>1
        <4> QED  BY <1>1, <3>4, <4>1
      <3> QED  BY <2>5, <3>1, <3>2, <3>3, <3>4
    <2>9. \A x \in 1 .. m : x # i => q[w[x]] = n[w[x]]
      BY <1>1, <1>4, <1>5
    <2>10. ASSUME NEW x \in 1 .. (m + 1) - 1  PROVE q[v[x]] = v[x + 1]
      <3>1. x \in 1 .. m  BY <1>1
      <3>2. CASE x < i
        <4>1. x \in 1 .. m - 1 /\ x + 1 \in 1 .. m /\ x + 1 <= i /\ x # i  BY <3>1, <3>2, <2>1, <1>1
        <4>2. v[x] = w[x] /\ v[x + 1] = w[x + 1]  BY <2>2, <3>1, <3>2, <4>1, <2>1
        <4> QED  BY <4>1, <4>2, <2>9, <3>1, <1>1
      <3>3. CASE x = i
        BY <3>1, <3>3, <2>1, <2>2, <2>3, <1>5
      <3>4. CASE x = i + 1
        <4>1. i \in 1 .. m - 1 /\ i < x  BY <3>1, <3>4, <2>1, <1>1
        <4>2. v[x + 1] = w[x]  BY <2>4, <3>1, <4>1
        <4>3. n[w[i]] = w[x]  BY <1>1, <3>4, <4>1
        <4> QED  BY <4>2, <4>3, <3>4, <2>3, <1>5
      <3>5. CASE x > i + 1
        <4>1. x - 1 \in 1 .. m /\ i < x - 1 /\ (x - 1) + 1 = x /\ x - 1 \in 1 .. m - 1 /\ i < x /\ x - 1 # i
          BY <3>1, <3>5, <2>1, <1>1
        <4>2. v[x] = w[x - 1] /\ v[x + 1] = w[x]
          <5>1. v[(x - 1) + 1] = w[x - 1]  BY <2>4, <4>1
          <5> QED  BY <2>4, <3>1, <4>1, <5>1
        <4>3. q[w[x - 1]] = n[w[x - 1]]  BY <2>9, <4>1
        <4>4. n[w[x - 1]] = w[(x - 1) + 1]  BY <1>1, <4>1
        <4> QED  BY <4>1, <4>2, <4>3, <4>4
      <3> QED  BY <3>1, <2>1, <3>2, <3>3, <3>4, <3>5
    <2>11. q[v[m + 1]] = NULL
      <3>1. CASE i = m
        BY <3>1, <1>1, <1>5, <2>3
      <3>2. CASE i # m
        <4>1. m \in 1 .. m /\ i < m  BY <3>2, <2>1, <1>1
        <4>2. v[m + 1] = w[m]  BY <4>1, <2>4
        <4> QED  BY <4>1, <4>2, <2>9, <1>1
      <3> QED  BY <3>1, <3>2
    <2>12. ASSUME NEW x \in 1 .. m + 1, NEW y \in 1 .. m + 1, v[x] = v[y]
           PROVE  x = y
      <3> DEFINE Old(z, t) == t \in 1 .. m /\ v[z] = w[t] /\ ((z = t /\ t <= i) \/ (z = t + 1 /\ i < t))
      <3>1. \A z \in 1 .. m + 1 : (z = i + 1 /\ v[z] = p) \/ \E t \in 1 .. m : Old(z, t)
        <4> SUFFICES ASSUME NEW z \in 1 .. m + 1, z # i + 1  PROVE \E t \in 1 .. m : Old(z, t)
          BY <2>3
        <4>1. CASE z \in 1 .. m /\ z <= i
          <5>0. v[z] = w[z]  BY <4>1, <2>2
          <5>1. Old(z, z)  BY <4>1, <5>0, Zenon
          <5> HIDE DEF Old
          <5> QED  BY <4>1, <5>1
        <4>2. CASE z - 1 \in 1 .. m /\ i < z - 1 /\ z = (z - 1) + 1 /\ v[z] = w[z - 1]
          <5>1. Old(z, z - 1)  BY <4>2
          <5> HIDE DEF Old
          <5> QED  BY <4>2, <5>1
        <4> QED  BY <4>1, <4>2, <2>5
      <3>2. CASE x = i + 1 \/ y = i + 1
        BY <3>1, <3>2, <2>12, <1>4, <2>3
      <3>3. CASE x # i + 1 /\ y # i + 1
        <4>1. PICK t \in 1 .. m : Old(x, t)  BY <3>1, <3>3
        <4>2. PICK u \in 1 .. m : Old(y, u)  BY <3>1, <3>3
        <4>3. t = u  BY <4>1, <4>2, <2>12, <1>1
        <4> QED  BY <4>1, <4>2, <4>3, <2>1
      <3> QED  BY <3>2, <3>3
    <2>13. Chain(q, k, m + 1, v)
      <3>1. m + 1 \in Nat \ {0}  BY <1>1
      <3> QED  BY <3>1, <2>6, <2>7, <2>8, <2>10, <2>11, <2>12 DEF Chain
    <2>14. ASSUME NEW r  PROVE <<r, k>> \in C <=> \E x \in 2 .. m + 1 : v[x] = r
      <3>1. <<r, k>> \in C <=> r = p \/ \E x \in 2 .. m : w[x] = r
        BY DEF Links
      <3>2. ASSUME NEW x \in 2 .. m, w[x] = r  PROVE \E y \in 2 .. m + 1 : v[y] = r
        <4>1. x \in 1 .. m /\ x \in 2 .. m + 1 /\ x + 1 \in 2 .. m + 1 /\ (x <= i \/ i < x)  BY <1>1, <2>1
        <4> QED  BY <3>2, <4>1, <2>2, <2>4
      <3>3. i + 1 \in 2 .. m + 1  BY <2>1, <1>1
      <3>4. ASSUME NEW y \in 2 .. m + 1, v[y] = r, y # i + 1  PROVE \E x \in 2 .. m : w[x] = r
        <4>1. y \in 1 .. m + 1  BY <1>1
        <4>2. CASE y \in 1 .. m /\ y <= i
          <5>1. y \in 2 .. m  BY <4>2, <1>1
          <5> QED  BY <5>1, <4>2, <2>2, <3>4
        <4>3. CASE y - 1 \in 1 .. m /\ i < y - 1 /\ y = (y - 1) + 1 /\ v[y] = w[y - 1]
          <5>1. y - 1 \in 2 .. m  BY <4>3, <2>1, <1>1
          <5> QED  BY <5>1, <4>3, <3>4
        <4> QED  BY <4>1, <4>2, <4>3, <2>5, <3>4
      <3> QED  BY <3>1, <3>2, <3>3, <3>4, <2>3
    <2>15. Links(C, k, m + 1, v)
      BY <2>14 DEF Links
    <2> QED  BY <2>13, <2>15
  <1>10. \A j \in Levels : \E l, v : Chain(q, j, l, v) /\ Links(C, j, l, v)
    BY <1>8, <1>9
  <1>11. Lists(q, C)
    BY <1>5, <1>6, <1>7, <1>10 DEF Lists
  <1> QED  BY <1>11 DEF q

(* The cell behind w[i] is unlinked. *)
LEMMA Removed ==
    ASSUME NEW n, NEW B, Lists(n, B),
           NEW k \in Levels, NEW m, NEW w, Chain(n, k, m, w), Links(B, k, m, w),
           NEW i \in 1 .. m - 1, NEW p, p = w[i + 1]
    PROVE  /\ Lists([n EXCEPT ![w[i]] = n[p], ![p] = JUNK], B \ {<<p, k>>})
           /\ <<p, k>> \in B
  <1> DEFINE q == [n EXCEPT ![w[i]] = n[p], ![p] = JUNK]
             C == B \ {<<p, k>>}
  <1>1. /\ m \in Nat /\ m >= 1 /\ w \in [1 .. m -> Cell] /\ w[1] = k /\ n[w[m]] = NULL
        /\ \A x \in 2 .. m : w[x] \in Memory
        /\ \A x \in 1 .. m - 1 : n[w[x]] = w[x + 1]
        /\ \A x, y \in 1 .. m : w[x] = w[y] => x = y
    BY DEF Chain
  <1>2. i \in Nat /\ i \in 1 .. m /\ i + 1 \in 1 .. m /\ i + 1 \in 2 .. m /\ i # i + 1 /\ 1 <= i /\ i <= m - 1
    BY <1>1
  <1>3. n \in Stores /\ p \in Memory /\ p \in Cell /\ w[i] \in Cell /\ w[i] # p /\ <<p, k>> \in B
    BY <1>1, <1>2 DEF Lists, Cell, Links
  <1>4. /\ q \in Stores
        /\ q[w[i]] = n[p]
        /\ \A c \in Cell : c \notin {p, w[i]} => q[c] = n[c]
    <2>1. n[p] \in Cell \cup {NULL, JUNK}  BY <1>3 DEF Stores
    <2>3. q \in [Cell -> Cell \cup {NULL, JUNK}]  BY <1>3, <2>1 DEF Stores
    <2>4. q[w[i]] = n[p] /\ \A c \in Cell : c \notin {p, w[i]} => q[c] = n[c]
      BY <1>3 DEF Stores
    <2> QED  BY <2>3, <2>4 DEF Stores
  <1> HIDE DEF q
  <1>5. C \subseteq Memory \X Levels /\ \A x, j, l : <<x, j>> \in C /\ <<x, l>> \in C => j = l
    BY DEF Lists
  <1>6. ASSUME NEW j \in Levels, j # k
        PROVE  \E l, v : Chain(q, j, l, v) /\ Links(C, j, l, v)
    <2>1. PICK l, v : Chain(n, j, l, v) /\ Links(B, j, l, v)
      BY DEF Lists
    <2>2. \A x \in 1 .. l : v[x] \notin {p, w[i]}
      BY <1>2, <1>6, <2>1, ListsApart
    <2>3. Chain(q, j, l, v)
      BY <1>4, <2>1, <2>2, Untouched
    <2>4. Links(C, j, l, v)
      BY <1>6, <2>1 DEF Links
    <2> QED  BY <2>3, <2>4
  <1>7. \E l, v : Chain(q, k, l, v) /\ Links(C, k, l, v)
    <2> DEFINE v == [x \in 1 .. m - 1 |-> IF x <= i THEN w[x] ELSE w[x + 1]]
    <2>1. \A x \in 1 .. m - 1 : /\ x \in 1 .. m /\ x + 1 \in 1 .. m /\ x + 1 \in 2 .. m
                                /\ x <= i => v[x] = w[x]
                                /\ i < x => v[x] = w[x + 1]
      BY <1>1, <1>2
    <2>2. v \in [1 .. m - 1 -> Cell]
      BY <1>1, <2>1
    <2> HIDE DEF v
    <2>3. v[1] = k
      <3>1. 1 \in 1 .. m - 1 /\ 1 <= i  BY <1>1, <1>2
      <3> QED  BY <2>1, <3>1, <1>1
    <2>4. \A x \in 2 .. m - 1 : v[x] \in Memory
      <3>1. \A x \in 2 .. m - 1 : x \in 1 .. m - 1 /\ x \in 2 .. m /\ (x <= i \/ i < x)  BY <1>1, <1>2
      <3> QED  BY <1>1, <2>1, <3>1
    <2>5. \A x \in 1 .. m : x # i /\ x # i + 1 => q[w[x]] = n[w[x]]
      BY <1>1, <1>2, <1>4
    <2>6. ASSUME NEW x \in 1 .. (m - 1) - 1  PROVE q[v[x]] = v[x + 1]
      <3>1. x \in 1 .. m - 1 /\ x + 1 \in 1 .. m - 1 /\ x \in Nat  BY <1>1
      <3>2. CASE x < i
        <4>1. x + 1 <= i /\ x # i /\ x # i + 1 /\ x <= i  BY <3>1, <3>2, <1>2
        <4>2. v[x] = w[x] /\ v[x + 1] = w[x + 1]  BY <2>1, <3>1, <4>1
        <4> QED  BY <4>1, <4>2, <2>5, <3>1, <2>1, <1>1
      <3>3. CASE x = i
        <4>1. i < x + 1 /\ x <= i  BY <3>3, <1>2
        <4>2. v[x] = w[i] /\ v[x + 1] = w[(x + 1) + 1]  BY <2>1, <3>1, <3>3, <4>1
        <4>3. n[w[x + 1]] = w[(x + 1) + 1]  BY <1>1, <3>1
        <4> QED  BY <3>3, <4>2, <4>3, <1>4
      <3>4. CASE i < x
        <4>1. i < x + 1 /\ x + 1 # i /\ x + 1 # i + 1  BY <3>1, <3>4, <1>2
        <4>2. v[x] = w[x + 1] /\ v[x + 1] = w[(x + 1) + 1]  BY <2>1, <3>1, <3>4, <4>1
        <4>3. n[w[x + 1]] = w[(x + 1) + 1]  BY <1>1, <3>1
        <4>4. q[w[x + 1]] = n[w[x + 1]]  BY <2>5, <2>1, <3>1, <4>1
        <4> QED  BY <4>2, <4>3, <4>4
      <3> QED  BY <3>1, <1>2, <3>2, <3>3, <3>4
    <2>7. q[v[m - 1]] = NULL
      <3>1. m - 1 \in 1 .. m - 1 /\ (m - 1) + 1 = m /\ m \in 1 .. m  BY <1>1, <1>2
      <3>2. CASE i = m - 1
        <4>1. v[m - 1] = w[i] /\ p = w[m]  BY <2>1, <3>1, <3>2, <1>2
        <4> QED  BY <4>1, <1>4, <1>1
      <3>3. CASE i # m - 1
        <4>1. i < m - 1 /\ m # i /\ m # i + 1  BY <3>3, <1>2, <1>1
        <4>2. v[m - 1] = w[m]  BY <2>1, <3>1, <4>1
        <4> QED  BY <4>1, <4>2, <2>5, <3>1, <1>1
      <3> QED  BY <3>2, <3>3
    <2>8. ASSUME NEW x \in 1 .. m - 1  PROVE \E t \in 1 .. m : /\ v[x] = w[t] /\ t # i + 1
                                                           /\ ((x = t /\ t <= i) \/ (t = x + 1 /\ i < x))
      <3>1. x <= i \/ i < x  BY <1>1, <1>2
      <3>2. CASE x <= i
        <4>1. x # i + 1  BY <3>2, <1>2
        <4>2. x \in 1 .. m /\ v[x] = w[x]  BY <3>2, <2>1
        <4> QED  BY <3>2, <4>1, <4>2, Zenon
      <3>3. CASE i < x
        <4>1. x + 1 # i + 1  BY <3>3, <1>2
        <4> QED  BY <3>3, <4>1, <2>1
      <3> QED  BY <3>1, <3>2, <3>3
    <2>9. ASSUME NEW x \in 1 .. m - 1, NEW y \in 1 .. m - 1, v[x] = v[y]
          PROVE  x = y
      <3>1. PICK t \in 1 .. m : v[x] = w[t] /\ ((x = t /\ t <= i) \/ (t = x + 1 /\ i < x))  BY <2>8
      <3>2. PICK u \in 1 .. m : v[y] = w[u] /\ ((y = u /\ u <= i) \/ (u = y + 1 /\ i < y))  BY <2>8
      <3>3. t = u  BY <3>1, <3>2, <2>9, <1>1
      <3> QED  BY <3>1, <3>2, <3>3, <1>2
    <2>10. Chain(q, k, m - 1, v)
      <3>1. m - 1 \in Nat \ {0}  BY <1>1, <1>2
      <3> QED  BY <3>1, <2>2, <2>3, <2>4, <2>6, <2>7, <2>9 DEF Chain
    <2>11. ASSUME NEW r  PROVE <<r, k>> \in C <=> \E x \in 2 .. m - 1 : v[x] = r
      <3>1. <<r, k>> \in C <=> r # p /\ \E x \in 2 .. m : w[x] = r
        BY DEF Links
      <3>2. ASSUME NEW x \in 2 .. m, w[x] = r, r # p  PROVE \E y \in 2 .. m - 1 : v[y] = r
        <4>1. x # i + 1  BY <3>2
        <4>2. CASE x <= i
          <5>1. x \in 1 .. m - 1 /\ x \in 2 .. m - 1  BY <4>2, <1>1, <1>2
          <5> QED  BY <5>1, <4>2, <3>2, <2>1
        <4>3. CASE x > i + 1
          <5>1. x - 1 \in 1 .. m - 1 /\ x - 1 \in 2 .. m - 1 /\ i < x - 1 /\ (x - 1) + 1 = x
            BY <4>3, <1>1, <1>2
          <5>2. v[x - 1] = w[(x - 1) + 1]  BY <5>1, <2>1
          <5> QED  BY <5>1, <5>2, <3>2
        <4> QED  BY <4>1, <4>2, <4>3, <1>1, <1>2
      <3>3. ASSUME NEW y \in 2 .. m - 1, v[y] = r  PROVE r # p /\ \E x \in 2 .. m : w[x] = r
        <4>1. y \in 1 .. m - 1  BY <1>1
        <4>2. PICK t \in 1 .. m : v[y] = w[t] /\ t # i + 1 /\ ((y = t /\ t <= i) \/ (t = y + 1 /\ i < y))
          BY <4>1, <2>8
        <4>3. t \in 2 .. m  BY <4>2, <1>1
        <4>4. w[t] # w[i + 1]  BY <4>2, <1>1, <1>2
        <4> QED  BY <4>2, <4>3, <4>4, <3>3
      <3> QED  BY <3>1, <3>2, <3>3
    <2>12. Links(C, k, m - 1, v)
      BY <2>11 DEF Links
    <2> QED  BY <2>10, <2>12
  <1>8. \A j \in Levels : \E l, v : Chain(q, j, l, v) /\ Links(C, j, l, v)
    BY <1>6, <1>7
  <1>9. Lists(q, C)
    BY <1>4, <1>5, <1>8 DEF Lists
  <1> QED  BY <1>3, <1>9 DEF q

(* What the operations see of a list. *)
LEMMA ListRead ==
    ASSUME NEW n, NEW B, Lists(n, B), NEW k \in Levels
    PROVE  /\ is_none(n, k) <=> \A p : <<p, k>> \notin B
           /\ ~is_none(n, k) => <<n[k], k>> \in B
           /\ \A p : Linked(n, k, p) <=> <<p, k>> \in B
           /\ ToSet(Nodes(n, k)) = {p \in Memory : <<p, k>> \in B}
           /\ IsInjective(Nodes(n, k))
  <1>1. PICK m, w : Chain(n, k, m, w) /\ Links(B, k, m, w)
    BY DEF Lists
  <1>2. n \in Stores  BY DEF Lists
  <1>3. Walk(n, k) = w /\ w \in Seq(Cell) /\ Len(w) = m
    BY <1>1, <1>2, WalkIs
  <1>4. /\ m \in Nat /\ m >= 1 /\ w[1] = k /\ n[w[m]] = NULL
        /\ \A i \in 1 .. m - 1 : n[w[i]] = w[i + 1]
        /\ \A i \in 2 .. m : w[i] \in Memory
        /\ \A x, y \in 1 .. m : w[x] = w[y] => x = y
    BY <1>1 DEF Chain
  <1> DEFINE s == Nodes(n, k)
  <1>5. s = Tail(w) /\ s \in Seq(Cell) /\ Len(s) = m - 1 /\ \A i \in 1 .. m - 1 : s[i] = w[i + 1]
    BY <1>3, <1>4 DEF Nodes
  <1> HIDE DEF s
  <1>6. \A p : <<p, k>> \in B <=> \E i \in 1 .. m - 1 : s[i] = p
    <2>1. ASSUME NEW p, NEW i \in 2 .. m, w[i] = p  PROVE \E x \in 1 .. m - 1 : s[x] = p
      <3>1. i - 1 \in 1 .. m - 1 /\ (i - 1) + 1 = i  BY <1>4
      <3>2. s[i - 1] = w[(i - 1) + 1]  BY <1>5, <3>1
      <3> QED  BY <2>1, <3>1, <3>2
    <2>2. \A i \in 1 .. m - 1 : i + 1 \in 2 .. m  BY <1>4
    <2> QED  BY <1>1, <1>5, <2>1, <2>2 DEF Links
  <1>7. is_none(n, k) <=> m = 1
    <2>1. CASE m = 1
      BY <2>1, <1>4 DEF is_none
    <2>2. CASE m # 1
      <3>1. 1 \in 1 .. m - 1 /\ 1 + 1 \in 2 .. m  BY <2>2, <1>4
      <3>2. n[k] \in Memory  BY <3>1, <1>4
      <3>3. n[k] # NULL  BY <3>2, MemoryCells DEF Cell
      <3> QED  BY <2>2, <3>3 DEF is_none
    <2> QED  BY <2>1, <2>2
  <1>8. m # 1 => <<n[k], k>> \in B
    <2> HAVE m # 1
    <2>1. 1 \in 1 .. m - 1  BY <1>4
    <2>2. s[1] = n[k]  BY <2>1, <1>4, <1>5
    <2> QED  BY <2>1, <2>2, <1>6
  <1>9. m = 1 => \A p : <<p, k>> \notin B
    BY <1>6
  <1>10. \A p : Linked(n, k, p) <=> <<p, k>> \in B
    BY <1>5, <1>6 DEF Linked, Contains, s
  <1>11. ToSet(s) = {p \in Memory : <<p, k>> \in B}
    <2>1. DOMAIN s = 1 .. m - 1  BY <1>5
    <2>2. \A p : p \in ToSet(s) <=> \E i \in 1 .. m - 1 : s[i] = p
      BY <2>1 DEF ToSet
    <2>3. \A p : <<p, k>> \in B => p \in Memory  BY DEF Lists
    <2> QED  BY <2>2, <2>3, <1>6
  <1>12. IsInjective(s)
    <2>1. DOMAIN s = 1 .. m - 1  BY <1>5
    <2>2. \A i \in 1 .. m - 1 : i + 1 \in 1 .. m  BY <1>4
    <2>3. \A i, j \in 1 .. m - 1 : s[i] = s[j] => i + 1 = j + 1  BY <1>4, <1>5, <2>2
    <2>4. \A i, j \in 1 .. m - 1 : s[i] = s[j] => i = j  BY <2>3, <1>4
    <2> QED  BY <2>1, <2>4 DEF IsInjective
  <1> QED  BY <1>7, <1>8, <1>9, <1>10, <1>11, <1>12 DEF s

(* The operations of a list add one block or remove one. *)

LEMMA Pushes ==
    ASSUME NEW n, NEW B, Lists(n, B), NEW k \in Levels, NEW p \in Memory, \A j : <<p, j>> \notin B
    PROVE  Lists(push(n, k, p), B \cup {<<p, k>>}) /\ push(n, k, p)[k] = p
  <1>1. PICK m, w : Chain(n, k, m, w) /\ Links(B, k, m, w)
    BY DEF Lists
  <1>2. 1 \in 1 .. m /\ w[1] = k  BY <1>1 DEF Chain
  <1>3. Lists([n EXCEPT ![p] = n[w[1]], ![w[1]] = p], B \cup {<<p, k>>})
    BY <1>1, <1>2, Inserted
  <1>4. push(n, k, p)[k] = p
    BY DEF push, Lists, Stores, Cell
  <1> QED  BY <1>2, <1>3, <1>4 DEF push

LEMMA PushesBack ==
    ASSUME NEW n, NEW B, Lists(n, B), NEW k \in Levels, NEW p \in Memory, \A j : <<p, j>> \notin B
    PROVE  Lists(push_back(n, k, p), B \cup {<<p, k>>})
  <1>1. PICK m, w : Chain(n, k, m, w) /\ Links(B, k, m, w)
    BY DEF Lists
  <1> DEFINE q == [n EXCEPT ![p] = NULL]
  <1>2. n \in Stores /\ p \in Cell  BY DEF Lists, Cell
  <1>3. q \in Stores /\ \A c \in Cell : c \notin {p} => q[c] = n[c]
    BY <1>2 DEF Stores
  <1>4. m \in Nat /\ m \in 1 .. m /\ w[1] = k /\ w[m] \in Cell /\ n[w[m]] = NULL
    BY <1>1 DEF Chain
  <1>5. \A i \in 1 .. m : w[i] \notin {p}
    <2>1. \A i \in 1 .. m : i = 1 \/ i \in 2 .. m  BY <1>4
    <2>2. \A i \in 2 .. m : <<w[i], k>> \in B  BY <1>1 DEF Links
    <2> QED  BY <1>4, <2>1, <2>2, MemoryCells
  <1>6. Walk(q, k) = w /\ Len(w) = m
    <2> HIDE DEF q
    <2>1. Chain(q, k, m, w)
      BY <1>1, <1>3, <1>5, Untouched
    <2> QED  BY <1>3, <2>1, WalkIs
  <1>7. push_back(n, k, p) = [q EXCEPT ![w[m]] = p]
    BY <1>6 DEF push_back, Last
  <1>8. [q EXCEPT ![w[m]] = p] = [n EXCEPT ![p] = n[w[m]], ![w[m]] = p]
    BY <1>4
  <1>9. Lists([n EXCEPT ![p] = n[w[m]], ![w[m]] = p], B \cup {<<p, k>>})
    BY <1>1, <1>4, Inserted
  <1> QED  BY <1>7, <1>8, <1>9

LEMMA Pops ==
    ASSUME NEW n, NEW B, Lists(n, B), NEW k \in Levels, NEW x, <<x, k>> \in B
    PROVE  Lists(pop(n, k), B \ {<<n[k], k>>}) /\ <<n[k], k>> \in B
  <1>1. PICK m, w : Chain(n, k, m, w) /\ Links(B, k, m, w)
    BY DEF Lists
  <1>2. m \in Nat /\ \E i \in 2 .. m : w[i] = x  BY <1>1 DEF Links, Chain
  <1>3. 1 \in 1 .. m - 1 /\ w[1] = k /\ n[k] = w[1 + 1]
    <2>1. 1 \in 1 .. m - 1  BY <1>2
    <2> QED  BY <1>1, <2>1 DEF Chain
  <1>4. Lists([n EXCEPT ![w[1]] = n[n[k]], ![n[k]] = JUNK], B \ {<<n[k], k>>}) /\ <<n[k], k>> \in B
    BY <1>1, <1>3, Removed
  <1> QED  BY <1>3, <1>4 DEF pop

LEMMA Removes ==
    ASSUME NEW n, NEW B, Lists(n, B), NEW k \in Levels, NEW p, <<p, k>> \in B
    PROVE  Lists(remove_if(n, k, p), B \ {<<p, k>>})
  <1>1. PICK m, w : Chain(n, k, m, w) /\ Links(B, k, m, w)
    BY DEF Lists
  <1>2. n \in Stores /\ p \in Memory  BY DEF Lists
  <1>3. Walk(n, k) = w /\ Len(w) = m
    BY <1>1, <1>2, WalkIs
  <1>4. /\ m \in Nat /\ n[w[m]] = NULL
        /\ \A i \in 1 .. m - 1 : n[w[i]] = w[i + 1]
    BY <1>1 DEF Chain
  <1> DEFINE I == {i \in 1 .. m : n[w[i]] = p}
             x == Min(I)
  <1>5. I # {}
    <2>1. PICK i \in 2 .. m : w[i] = p  BY <1>1 DEF Links
    <2>2. i - 1 \in 1 .. m - 1 /\ i - 1 \in 1 .. m /\ (i - 1) + 1 = i  BY <1>4
    <2>3. n[w[i - 1]] = w[(i - 1) + 1]  BY <1>4, <2>2
    <2>4. i - 1 \in I  BY <2>1, <2>2, <2>3
    <2> QED  BY <2>4
  <1>6. x \in I
    <2>1. I \in SUBSET Nat  OBVIOUS
    <2> HIDE DEF I
    <2> QED  BY <1>5, <2>1, LeastOf
  <1>7. remove_if(n, k, p) = [n EXCEPT ![w[x]] = n[p], ![p] = JUNK]
    <2>1. FirstBefore(n, k, LAMBDA c : c = p) = w[x]
      BY <1>3, <1>5 DEF FirstBefore, SelectInSeq
    <2> QED  BY <2>1 DEF remove_if
  <1> HIDE DEF x
  <1>8. x \in 1 .. m /\ n[w[x]] = p  BY <1>6
  <1>9. x # m  BY <1>8, <1>4, <1>2, MemoryCells DEF Cell
  <1>10. x \in 1 .. m - 1 /\ p = w[x + 1]
    <2>1. x \in 1 .. m - 1  BY <1>8, <1>9, <1>4
    <2> QED  BY <2>1, <1>8, <1>4
  <1>11. Lists([n EXCEPT ![w[x]] = n[p], ![p] = JUNK], B \ {<<p, k>>})
    BY <1>1, <1>10, Removed
  <1> QED  BY <1>7, <1>11

LEMMA AddsSorted ==
    ASSUME NEW n, NEW B, Lists(n, B), NEW k \in Levels, NEW p \in Memory, \A j : <<p, j>> \notin B
    PROVE  Lists(add_with_sort(n, k, p), B \cup {<<p, k>>})
  <1>1. PICK m, w : Chain(n, k, m, w) /\ Links(B, k, m, w)
    BY DEF Lists
  <1>2. n \in Stores  BY DEF Lists
  <1>3. Walk(n, k) = w /\ Len(w) = m
    BY <1>1, <1>2, WalkIs
  <1>4. m \in Nat /\ m \in 1 .. m /\ n[w[m]] = NULL
    BY <1>1 DEF Chain
  <1> DEFINE I == {i \in 1 .. m : n[w[i]] = NULL \/ n[w[i]] > p}
             x == Min(I)
  <1>5. I # {}
    BY <1>4
  <1>6. x \in I
    <2>1. I \in SUBSET Nat  OBVIOUS
    <2> HIDE DEF I
    <2> QED  BY <1>5, <2>1, LeastOf
  <1>7. add_with_sort(n, k, p) = [n EXCEPT ![p] = n[w[x]], ![w[x]] = p]
    <2>1. FirstBefore(n, k, LAMBDA c : c = NULL \/ c > p) = w[x]
      BY <1>3, <1>5 DEF FirstBefore, SelectInSeq
    <2> QED  BY <2>1 DEF add_with_sort
  <1>8. x \in 1 .. m  BY <1>6
  <1> HIDE DEF x
  <1>9. Lists([n EXCEPT ![p] = n[w[x]], ![w[x]] = p], B \cup {<<p, k>>})
    BY <1>1, <1>8, Inserted
  <1> QED  BY <1>7, <1>9

(* Memory in no list may be overwritten. *)
LEMMA Scribbles ==
    ASSUME NEW n, NEW B, Lists(n, B), NEW p, NEW k, Block(p, k) \subseteq Memory,
           \A y \in B : y[1] \notin Block(p, k)
    PROVE  Lists(Scribbled(n, p, k), B)
  <1> DEFINE q == Scribbled(n, p, k)
             X == Block(p, k)
  <1>1. n \in Stores  BY DEF Lists
  <1> HIDE DEF X
  <1>2. q = [c \in Cell |-> IF c \in X THEN JUNK ELSE n[c]]
    BY <1>1 DEF Scribbled, Stores, X
  <1>3. q \in Stores
    BY <1>1, <1>2 DEF Stores
  <1>4. \A c \in Cell : c \notin X => q[c] = n[c]
    BY <1>2
  <1> HIDE DEF q
  <1>5. ASSUME NEW j \in Levels  PROVE \E m, w : Chain(q, j, m, w) /\ Links(B, j, m, w)
    <2>1. PICK m, w : Chain(n, j, m, w) /\ Links(B, j, m, w)  BY DEF Lists
    <2>2. m \in Nat /\ w[1] = j  BY <2>1 DEF Chain
    <2>3. \A i \in 1 .. m : w[i] \notin X
      <3>1. \A i \in 1 .. m : i = 1 \/ i \in 2 .. m  BY <2>2
      <3>2. \A i \in 2 .. m : <<w[i], j>> \in B  BY <2>1 DEF Links
      <3>3. \A i \in 2 .. m : w[i] \notin X
        <4> SUFFICES ASSUME NEW i \in 2 .. m  PROVE w[i] \notin X
          OBVIOUS
        <4>1. <<w[i], j>>[1] = w[i]  OBVIOUS
        <4> QED  BY <3>2, <4>1 DEF X
      <3>4. w[1] \notin X  BY <2>2, MemoryCells DEF X
      <3> QED  BY <3>1, <3>3, <3>4
    <2>4. Chain(q, j, m, w)  BY <1>4, <2>1, <2>3, Untouched
    <2> QED  BY <2>1, <2>4
  <1>6. Lists(q, B)  BY <1>3, <1>5 DEF Lists
  <1> QED  BY <1>6 DEF q

-------------------------------------------------------------------------------
(* Blocks *)

(* The blocks B are aligned to their size, lie in memory and are disjoint. *)
Parts(B) ==
    /\ \A p, k : <<p, k>> \in B => p % level2size(k) = 0 /\ Block(p, k) \subseteq Memory
    /\ \A p, k, r, j : <<p, k>> \in B /\ <<r, j>> \in B /\ <<p, k>> # <<r, j>>
                         => Block(p, k) \cap Block(r, j) = {}

(* No two buddies are both in B. *)
Merged(B) == \A p, k : <<p, k>> \in B /\ k < Top => <<Buddy(p, k), k>> \notin B

LEMMA PairCells ==
    ASSUME NEW B \in SUBSET (Memory \X Levels), NEW u
    PROVE  u \in Cells(B) <=> \E p, k : <<p, k>> \in B /\ u \in Block(p, k)
  <1>1. ASSUME NEW x \in B, u \in Block(x[1], x[2])
        PROVE  \E p, k : <<p, k>> \in B /\ u \in Block(p, k)
    <2>1. x = <<x[1], x[2]>>  OBVIOUS
    <2> QED  BY <1>1, <2>1
  <1>2. ASSUME NEW p, NEW k, <<p, k>> \in B, u \in Block(p, k)
        PROVE  \E x \in B : u \in Block(x[1], x[2])
    <2>1. <<p, k>>[1] = p /\ <<p, k>>[2] = k  OBVIOUS
    <2> QED  BY <1>2, <2>1
  <1> QED  BY <1>1, <1>2, CellsOf

(* A block may join the disjoint blocks B. *)
Fits(B, p, k) ==
    /\ B \in SUBSET (Memory \X Levels) /\ Parts(B) /\ p \in Nat /\ k \in Levels
    /\ p % level2size(k) = 0 /\ Block(p, k) \subseteq Memory
    /\ Block(p, k) \cap Cells(B) = {}

Joined(C, B, p, k) ==
    /\ p \in Memory
    /\ \A j : <<p, j>> \notin B
    /\ C \in SUBSET (Memory \X Levels)
    /\ Parts(C)
    /\ Cells(C) = Cells(B) \cup Block(p, k)

LEMMA BlockAdded ==
    ASSUME NEW B, NEW p, NEW k, Fits(B, p, k)
    PROVE  Joined(B \cup {<<p, k>>}, B, p, k)
  <1> DEFINE C == B \cup {<<p, k>>}
  <1>0. /\ B \in SUBSET (Memory \X Levels) /\ Parts(B) /\ p \in Nat /\ k \in Levels
        /\ p % level2size(k) = 0 /\ Block(p, k) \subseteq Memory
        /\ Block(p, k) \cap Cells(B) = {}
    BY DEF Fits
  <1>1. p \in Block(p, k) /\ p \in Memory
    BY <1>0, BlockCells, TopLevel
  <1>2. ASSUME NEW j, <<p, j>> \in B  PROVE FALSE
    <2>1. j \in Nat  BY <1>0, <1>2, TopLevel
    <2>2. p \in Block(p, j)  BY <1>0, <2>1, BlockCells
    <2>3. p \in Cells(B)  BY <1>0, <1>2, <2>2, PairCells
    <2> QED  BY <1>0, <1>1, <2>3
  <1>3. C \in SUBSET (Memory \X Levels)
    BY <1>0, <1>1
  <1>4. \A u : u \in Cells(C) <=> u \in Cells(B) \/ u \in Block(p, k)
    BY <1>0, <1>3, PairCells
  <1>5. \A r, j : <<r, j>> \in B => Block(r, j) \cap Block(p, k) = {}
    BY <1>0, PairCells
  <1>6. Parts(C)
    <2>1. \A r, j : <<r, j>> \in C => <<r, j>> \in B \/ (r = p /\ j = k)  OBVIOUS
    <2> HIDE DEF C
    <2> QED  BY <2>1, <1>0, <1>5 DEF Parts
  <1>7. Cells(C) = Cells(B) \cup Block(p, k)  BY <1>4
  <1> HIDE DEF C
  <1>8. Joined(C, B, p, k)  BY <1>1, <1>2, <1>3, <1>6, <1>7 DEF Joined
  <1> QED  BY <1>8 DEF C

LEMMA BlockRemoved ==
    ASSUME NEW B \in SUBSET (Memory \X Levels), Parts(B), NEW p, NEW k, <<p, k>> \in B
    PROVE  /\ Parts(B \ {<<p, k>>})
           /\ Cells(B \ {<<p, k>>}) = Cells(B) \ Block(p, k)
           /\ Block(p, k) \subseteq Cells(B)
           /\ p \in Memory /\ p \in Nat /\ k \in Levels /\ p % level2size(k) = 0
           /\ Block(p, k) \subseteq Memory
  <1> DEFINE C == B \ {<<p, k>>}
  <1>1. C \in SUBSET (Memory \X Levels)  OBVIOUS
  <1>2. \A r, j : <<r, j>> \in C <=> <<r, j>> \in B /\ <<r, j>> # <<p, k>>  OBVIOUS
  <1> HIDE DEF C
  <1>3. Parts(C)  BY <1>2 DEF Parts
  <1>4. \A u : u \in Cells(C) <=> u \in Cells(B) /\ u \notin Block(p, k)
    <2> SUFFICES ASSUME NEW u  PROVE u \in Cells(C) <=> u \in Cells(B) /\ u \notin Block(p, k)
      OBVIOUS
    <2>1. u \in Cells(C) <=> \E r, j : <<r, j>> \in C /\ u \in Block(r, j)  BY <1>1, PairCells
    <2>2. u \in Cells(B) <=> \E r, j : <<r, j>> \in B /\ u \in Block(r, j)  BY PairCells
    <2>3. \A r, j : <<r, j>> \in C => Block(r, j) \cap Block(p, k) = {}
      BY <1>2 DEF Parts
    <2>4. \A r, j : <<r, j>> \in B /\ <<r, j>> \notin C => Block(r, j) = Block(p, k)
      BY <1>2
    <2> QED  BY <2>1, <2>2, <2>3, <2>4, <1>2
  <1>5. \A u \in Block(p, k) : u \in Cells(B)  BY PairCells
  <1>6. p \in Memory /\ k \in Levels  OBVIOUS
  <1>7. p \in Nat  BY <1>6, MemoryCells
  <1>8. p % level2size(k) = 0 /\ Block(p, k) \subseteq Memory  BY DEF Parts
  <1>9. Cells(C) = Cells(B) \ Block(p, k)  BY <1>4
  <1> QED  BY <1>3, <1>5, <1>6, <1>7, <1>8, <1>9 DEF C

(* A block and its buddy are the halves of the block they merge to. *)
LEMMA Buddies ==
    ASSUME NEW k \in Nat, NEW p \in Nat, p % level2size(k) = 0,
           NEW b, b = Buddy(p, k), NEW a, a = Min({p, b})
    PROVE  /\ b \in Nat /\ b % level2size(k) = 0 /\ b # p /\ Buddy(b, k) = p
           /\ a \in Nat /\ a % level2size(k + 1) = 0
           /\ Block(a, k + 1) = Block(p, k) \cup Block(b, k)
           /\ Block(p, k) \cap Block(b, k) = {}
  <1> DEFINE d == level2size(k)
             e == level2size(k + 1)
  <1>1. d \in Nat \ {0} /\ e = 2 * d
    BY SizeDoubles
  <1>2. \A x : Buddy(x, k) = IF x % e = 0 THEN x + d ELSE x - d
    BY DEF Buddy
  <1>3. \A x : Block(x, k) = x .. x + d - 1 /\ Block(x, k + 1) = x .. x + e - 1
    BY DEF Block
  <1>4. p % d = 0  OBVIOUS
  <1> HIDE DEF d, e
  <1>5. \A x \in Nat : x % e = 0 => x % d = 0 /\ (x + d) % d = 0 /\ (x + d) % e # 0
    BY <1>1, Halves
  <1>6. \A x \in Nat : x % d = 0 /\ x % e # 0 => x >= d /\ (x - d) % e = 0
    BY <1>1, Halves
  <1>7. CASE p % e = 0
    <2>1. b = p + d  BY <1>2, <1>7
    <2>2. b \in Nat /\ b # p /\ b % d = 0 /\ b % e # 0  BY <1>1, <1>5, <1>7, <2>1
    <2>3. Buddy(b, k) = p
      <3>1. Buddy(b, k) = b - d  BY <1>2, <2>2
      <3> QED  BY <1>1, <2>1, <3>1
    <2>4. a = p
      BY <1>1, <2>1, <2>2 DEF Min
    <2>5. Block(a, k + 1) = Block(p, k) \cup Block(b, k) /\ Block(p, k) \cap Block(b, k) = {}
      <3>1. p .. p + e - 1 = (p .. p + d - 1) \cup (b .. b + d - 1) /\ (p .. p + d - 1) \cap (b .. b + d - 1) = {}
        BY <1>1, <2>1
      <3> QED  BY <1>3, <2>4, <3>1
    <2> QED  BY <1>7, <2>2, <2>3, <2>4, <2>5 DEF d, e
  <1>8. CASE p % e # 0
    <2>1. b = p - d  BY <1>2, <1>8
    <2>2. b \in Nat /\ b # p /\ b % e = 0  BY <1>1, <1>4, <1>6, <1>8, <2>1
    <2>3. b % d = 0  BY <1>5, <2>2
    <2>4. Buddy(b, k) = p
      <3>1. Buddy(b, k) = b + d  BY <1>2, <2>2
      <3> QED  BY <1>1, <2>1, <3>1
    <2>5. a = b
      BY <1>1, <2>1, <2>2 DEF Min
    <2>6. Block(a, k + 1) = Block(p, k) \cup Block(b, k) /\ Block(p, k) \cap Block(b, k) = {}
      <3>1. b .. b + e - 1 = (p .. p + d - 1) \cup (b .. b + d - 1) /\ (p .. p + d - 1) \cap (b .. b + d - 1) = {}
        BY <1>1, <2>1, <2>2
      <3> QED  BY <1>3, <2>5, <3>1
    <2> QED  BY <2>2, <2>3, <2>4, <2>5, <2>6 DEF d, e
  <1> QED  BY <1>7, <1>8

(* A block whose buddy is not in B may join it. *)
LEMMA MergedAdd ==
    ASSUME NEW B \in SUBSET (Memory \X Levels), Parts(B), Merged(B), NEW p \in Nat, NEW k \in Levels,
           p % level2size(k) = 0, k < Top => <<Buddy(p, k), k>> \notin B
    PROVE  Merged(B \cup {<<p, k>>})
  <1> SUFFICES ASSUME NEW r, NEW j, <<r, j>> \in B \cup {<<p, k>>}, j < Top
               PROVE  <<Buddy(r, j), j>> \notin B \cup {<<p, k>>}
    BY DEF Merged
  <1>1. k \in Nat  BY TopLevel
  <1>2. k < Top => Buddy(p, k) # p /\ Buddy(Buddy(p, k), k) = p
    BY <1>1, Buddies
  <1>3. CASE r = p /\ j = k
    BY <1>2, <1>3
  <1>4. CASE <<r, j>> \in B
    <2>1. <<Buddy(r, j), j>> \notin B  BY <1>4 DEF Merged
    <2>2. r \in Nat /\ j \in Nat /\ r % level2size(j) = 0
      BY <1>4, TopLevel, BlockRemoved
    <2>3. Buddy(Buddy(r, j), j) = r  BY <2>2, Buddies
    <2>4. ~(Buddy(r, j) = p /\ j = k)  BY <2>3, <1>4
    <2> QED  BY <2>1, <2>4
  <1> QED  BY <1>3, <1>4

LEMMA MergedRemove ==
    ASSUME NEW B, NEW C \in SUBSET B, Merged(B)
    PROVE  Merged(C)
  BY DEF Merged

-------------------------------------------------------------------------------
(* The loops *)

(* m steps, the i-th from G[i] to G[i + 1], can be done one after the other. *)
Steps(m, G, step) == \A i \in 0 .. m - 1 : \A x \in G[i] : step[i][x] \in G[i + 1]
Runs(m, G, step, a) ==
    \E f : /\ f[0] = a
           /\ \A i \in 0 .. m : f[i] \in G[i]
           /\ \A i \in 0 .. m - 1 : f[i + 1] = step[i][f[i]]

LEMMA LoopRuns ==
    ASSUME NEW m \in Nat, NEW G, NEW step, NEW a, a \in G[0], Steps(m, G, step)
    PROVE  Runs(m, G, step, a)
  <1> DEFINE T == UNION {G[i] : i \in 0 .. m}
             Go(i, x) == IF i \in 0 .. m - 1 /\ x \in G[i] THEN step[i][x] ELSE x
             go == [i \in Nat |-> [x \in T |-> Go(i, x)]]
  <1>1. a \in T
    <2>1. 0 \in 0 .. m  OBVIOUS
    <2> QED  BY <2>1
  <1>2. \A i \in Nat, x \in T : Go(i, x) \in T
    <2> SUFFICES ASSUME NEW i \in 0 .. m - 1, NEW x \in G[i]  PROVE step[i][x] \in T
      OBVIOUS
    <2>1. i + 1 \in 0 .. m  OBVIOUS
    <2>2. step[i][x] \in G[i + 1]  BY DEF Steps
    <2> QED  BY <2>1, <2>2
  <1>3. go \in [Nat -> [T -> T]]
    <2> HIDE DEF T, Go
    <2> QED  BY <1>2
  <1>4. PICK f \in [Nat -> T] : f[0] = a /\ \A i \in Nat : f[i + 1] = go[i][f[i]]
    <2> HIDE DEF T, go
    <2>1. Recurses(T)  BY RecursionExists
    <2> QED  BY <2>1, <1>1, <1>3, Zenon DEF Recurses
  <1>5. \A i \in Nat : f[i + 1] = Go(i, f[i])
    <2> HIDE DEF T, Go
    <2> QED  BY <1>4
  <1> DEFINE S == {i \in Nat : i <= m => f[i] \in G[i]}
  <1>6. 0 \in S  BY <1>4
  <1>7. ASSUME NEW i \in S  PROVE i + 1 \in S
    <2> SUFFICES ASSUME i + 1 <= m  PROVE f[i + 1] \in G[i + 1]
      OBVIOUS
    <2>1. i \in Nat /\ i \in 0 .. m - 1 /\ f[i] \in G[i]  OBVIOUS
    <2>2. f[i + 1] = step[i][f[i]]  BY <1>5, <2>1
    <2> QED  BY <2>1, <2>2 DEF Steps
  <1>8. S = Nat
    <2>1. S \in SUBSET Nat  OBVIOUS
    <2> HIDE DEF S
    <2> QED  BY <2>1, <1>6, <1>7, Induction
  <1>9. \A i \in 0 .. m : f[i] \in G[i]
    <2>1. \A i \in 0 .. m : i \in S /\ i <= m
      <3> HIDE DEF S
      <3> QED  BY <1>8
    <2> QED  BY <2>1
  <1>10. \A i \in 0 .. m - 1 : f[i + 1] = step[i][f[i]]
    <2>1. \A i \in 0 .. m - 1 : i \in Nat /\ f[i] \in G[i]  BY <1>9
    <2> QED  BY <1>5, <2>1
  <1> QED  BY <1>4, <1>9, <1>10 DEF Runs

(* In the split loop: only the block that comes next may be beside its buddy. *)
Splitting(n, l, U) ==
    \E B : /\ Lists(n, B) /\ Parts(B) /\ Cells(B) = U
           /\ <<n[l], l>> \in B
           /\ Merged(B \ {<<n[l], l>>})

LEMMA SplitOnce ==
    ASSUME NEW n, NEW U, NEW l \in Levels, l >= 1, Splitting(n, l, U)
    PROVE  Splitting(Split(n, l), l - 1, U)
  <1>1. PICK B : /\ Lists(n, B) /\ Parts(B) /\ Cells(B) = U
                 /\ <<n[l], l>> \in B
                 /\ Merged(B \ {<<n[l], l>>})
    BY DEF Splitting
  <1> DEFINE b == n[l]
             k == l - 1
             r == b + level2size(k)
             C == B \ {<<b, l>>}
             n1 == pop(n, l)
             n2 == push(n1, k, r)
             n3 == push(n2, k, b)
  <1>2. Split(n, l) = n3
    BY DEF Split
  <1>3. k \in Levels /\ k \in Nat /\ k + 1 = l /\ k < Top /\ l \in Nat
    BY TopLevel DEF Levels, Top
  <1>4. B \in SUBSET (Memory \X Levels)
    BY <1>1 DEF Lists
  <1>5. Lists(n1, C)
    BY <1>1, Pops
  <1>6. /\ Parts(C) /\ Cells(C) = U \ Block(b, l) /\ Block(b, l) \subseteq U
        /\ b \in Nat /\ b % level2size(l) = 0 /\ Block(b, l) \subseteq Memory
    <2>1. Parts(B) /\ <<b, l>> \in B /\ Cells(B) = U  BY <1>1
    <2> HIDE DEF b, C
    <2> QED  BY <2>1, <1>4, BlockRemoved DEF C
  <1>7. C \in SUBSET (Memory \X Levels)  BY <1>4
  <1>8. Merged(C)  BY <1>1
  <1> HIDE DEF b, C
  <1>9. level2size(k) \in Nat \ {0} /\ level2size(l) = 2 * level2size(k)
    BY <1>3, SizeDoubles
  <1>10. b % level2size(k) = 0
    BY <1>6, <1>9, Halves
  <1>11. Buddy(b, k) = r
    BY <1>3, <1>6 DEF Buddy
  <1>12. Min({b, r}) = b
    <2>1. r \in Nat /\ b < r  BY <1>6, <1>9
    <2> HIDE DEF r
    <2> QED  BY <2>1, <1>6 DEF Min
  <1> HIDE DEF r
  <1>13. /\ r \in Nat /\ r % level2size(k) = 0 /\ r # b /\ Buddy(r, k) = b
         /\ Block(b, l) = Block(b, k) \cup Block(r, k) /\ Block(b, k) \cap Block(r, k) = {}
    BY <1>3, <1>6, <1>10, <1>11, <1>12, Buddies
  <1> HIDE DEF k
  <1>0. PICK D : D = C \cup {<<r, k>>}  OBVIOUS
  <1> DEFINE E == D \cup {<<b, k>>}
  <1>14. /\ r \in Memory /\ \A j : <<r, j>> \notin C
         /\ Parts(D) /\ Cells(D) = Cells(C) \cup Block(r, k)
         /\ D \in SUBSET (Memory \X Levels)
    <2>1. Fits(C, r, k)  BY <1>3, <1>6, <1>7, <1>13 DEF Fits
    <2>2. Joined(C \cup {<<r, k>>}, C, r, k)  BY <2>1, BlockAdded
    <2>3. Joined(D, C, r, k)  BY <1>0, <2>2
    <2> QED  BY <2>3 DEF Joined
  <1>15. Lists(n2, D)
    <2> HIDE DEF n1
    <2> QED  BY <1>0, <1>3, <1>5, <1>14, Pushes
  <1>16. D \in SUBSET (Memory \X Levels)  BY <1>14
  <1> HIDE DEF n2
  <1>17. <<b, k>> \notin C
    <2>1. b \in Block(b, k)  BY <1>3, <1>6, BlockCells
    <2>2. <<b, k>> \in C => b \in Cells(C)  BY <1>7, <2>1, PairCells
    <2> QED  BY <2>1, <2>2, <1>6, <1>13
  <1>18. Merged(D)
    BY <1>0, <1>3, <1>6, <1>7, <1>8, <1>13, <1>17, MergedAdd
  <1>19. /\ b \in Memory /\ \A j : <<b, j>> \notin D
         /\ Parts(E) /\ Cells(E) = Cells(D) \cup Block(b, k)
    <2>1. Block(b, k) \cap Cells(D) = {}  BY <1>6, <1>13, <1>14
    <2>2. Block(b, k) \subseteq Memory  BY <1>6, <1>13
    <2>3. Parts(D)  BY <1>14
    <2>4. b \in Nat /\ k \in Levels  BY <1>3, <1>6
    <2>5. Fits(D, b, k)  BY <1>10, <1>16, <2>1, <2>2, <2>3, <2>4 DEF Fits
    <2> QED  BY <2>5, BlockAdded DEF Joined
  <1>20. Lists(n3, E) /\ n3[k] = b
    BY <1>3, <1>15, <1>19, Pushes
  <1>21. Cells(E) = U
    BY <1>6, <1>13, <1>14, <1>19
  <1>22. E \ {<<b, k>>} = D
    BY <1>19
  <1>23. <<n3[k], k>> \in E /\ Merged(E \ {<<n3[k], k>>})
    <2> HIDE DEF n3
    <2> QED  BY <1>18, <1>20, <1>22
  <1> HIDE DEF n3, E
  <1> QED  BY <1>2, <1>19, <1>20, <1>21, <1>23 DEF Splitting, k

LEMMA SplitsDown ==
    ASSUME NEW n, NEW U, NEW from \in Levels, NEW to \in Levels, to <= from, Splitting(n, from, U)
    PROVE  Splitting(SplitDown(n, from, to), to, U)
  <1> DEFINE m == from - to
             G == [i \in 0 .. m |-> {x \in Stores : Splitting(x, from - i, U)}]
             step == [i \in 0 .. m - 1 |-> [x \in G[i] |-> Split(x, from - i)]]
             Rec(f) == f = [j \in 0 .. m |-> IF j = 0 THEN n ELSE Split(f[j - 1], from + 1 - j)]
             F == CHOOSE f : Rec(f)
  <1>1. SplitDown(n, from, to) = F[m]
    BY Zenon DEF SplitDown
  <1>2. m \in Nat /\ from \in Nat /\ to \in Nat
    BY TopLevel
  <1>3. \A x, l : Splitting(x, l, U) => x \in Stores
    BY DEF Splitting, Lists
  <1>4. n \in G[0]
    <2>1. from - 0 = from /\ 0 \in 0 .. m  BY <1>2
    <2> QED  BY <2>1, <1>3
  <1>5. ASSUME NEW i \in 0 .. m - 1, NEW x, Splitting(x, from - i, U)
        PROVE  Splitting(Split(x, from - i), from - (i + 1), U)
    <2>1. from - i \in Levels /\ from - i >= 1 /\ (from - i) - 1 = from - (i + 1)
      BY <1>2, LevelsAssumption DEF Levels
    <2> QED  BY <1>5, <2>1, SplitOnce
  <1>6. Steps(m, G, step)
    <2> SUFFICES ASSUME NEW i \in 0 .. m - 1, NEW x \in G[i]  PROVE step[i][x] \in G[i + 1]
      <3> HIDE DEF G, step
      <3> QED  BY DEF Steps
    <2>1. i \in 0 .. m /\ i + 1 \in 0 .. m  BY <1>2
    <2>2. Splitting(x, from - i, U)  BY <2>1
    <2>3. step[i][x] = Split(x, from - i)  OBVIOUS
    <2>4. Splitting(Split(x, from - i), from - (i + 1), U)  BY <1>5, <2>2
    <2> HIDE DEF step
    <2> QED  BY <1>3, <2>1, <2>3, <2>4
  <1>7. PICK f : /\ f[0] = n
                 /\ \A i \in 0 .. m : f[i] \in G[i]
                 /\ \A i \in 0 .. m - 1 : f[i + 1] = step[i][f[i]]
    <2> HIDE DEF G, step, m
    <2>1. Runs(m, G, step, n)  BY <1>2, <1>4, <1>6, LoopRuns
    <2> QED  BY <2>1, Zenon DEF Runs
  <1>8. \E g : Rec(g)
    <2> DEFINE g == [j \in 0 .. m |-> f[j]]
               val(j) == IF j = 0 THEN n ELSE Split(g[j - 1], from + 1 - j)
    <2>1. ASSUME NEW j \in 0 .. m  PROVE g[j] = val(j)
      <3>1. CASE j = 0
        BY <3>1, <1>7
      <3>2. CASE j # 0
        <4>1. j - 1 \in 0 .. m - 1 /\ (j - 1) + 1 = j /\ j - 1 \in 0 .. m /\ from - (j - 1) = from + 1 - j
          BY <3>2, <1>2
        <4>2. f[j] = step[j - 1][f[j - 1]] /\ f[j - 1] \in G[j - 1]
          <5> HIDE DEF step, G
          <5>1. f[(j - 1) + 1] = step[j - 1][f[j - 1]]  BY <1>7, <4>1
          <5> QED  BY <4>1, <1>7, <5>1
        <4>3. f[j] = Split(f[j - 1], from - (j - 1))
          <5> HIDE DEF G
          <5> QED  BY <4>1, <4>2
        <4> QED  BY <3>2, <4>1, <4>3
      <3> QED  BY <3>1, <3>2
    <2>2. g = [j \in 0 .. m |-> val(j)]
      <3> HIDE DEF val
      <3> QED  BY <2>1
    <2>3. Rec(g)
      <3> HIDE DEF g
      <3> QED  BY <2>2, Zenon
    <2> HIDE DEF Rec, g
    <2> QED  BY <2>3
  <1>9. Rec(F)
    <2> HIDE DEF Rec
    <2> QED  BY <1>8
  <1> DEFINE H == F
  <1>10. Rec(H)  BY <1>9
  <1> HIDE DEF H
  <1>11. \A j \in 0 .. m : H[j] = IF j = 0 THEN n ELSE Split(H[j - 1], from + 1 - j)
    BY <1>10
  <1> DEFINE S == {j \in Nat : j <= m => Splitting(H[j], from - j, U)}
  <1>12. 0 \in S
    <2>1. from - 0 = from /\ 0 \in 0 .. m /\ H[0] = n  BY <1>2, <1>11
    <2> QED  BY <2>1
  <1>13. ASSUME NEW j \in S  PROVE j + 1 \in S
    <2> SUFFICES ASSUME j + 1 <= m  PROVE Splitting(H[j + 1], from - (j + 1), U)
      OBVIOUS
    <2>1. j \in Nat /\ j \in 0 .. m - 1 /\ j + 1 \in 0 .. m /\ j + 1 # 0 /\ (j + 1) - 1 = j
          /\ from + 1 - (j + 1) = from - j /\ Splitting(H[j], from - j, U)
      BY <1>2
    <2>2. H[j + 1] = Split(H[j], from - j)  BY <1>11, <2>1
    <2> QED  BY <1>5, <2>1, <2>2
  <1>14. S = Nat
    <2>1. S \in SUBSET Nat  OBVIOUS
    <2> HIDE DEF S
    <2> QED  BY <2>1, <1>12, <1>13, Induction
  <1>15. Splitting(H[m], from - m, U)
    <2>1. m \in S  BY <1>2, <1>14
    <2> QED  BY <2>1, <1>2
  <1>16. from - m = to  BY <1>2
  <1> QED  BY <1>1, <1>15, <1>16 DEF H

(* The free lists hold the cells U, and no two buddies. *)
Whole(n, U) == \E B : Lists(n, B) /\ Parts(B) /\ Merged(B) /\ Cells(B) = U

(* A block of level k is to join the lists, and U is all of them together. *)
Joining(n, p, k, U) ==
    \E B : Lists(n, B) /\ Merged(B) /\ Fits(B, p, k) /\ Cells(B) \cup Block(p, k) = U

(* In the merge loop: the block has joined, or is one of level k by now. *)
Accs == [n : Stores, ptr : Nat, done : BOOLEAN]
Merging(acc, k, U) ==
    /\ acc \in Accs
    /\ IF acc.done THEN Whole(acc.n, U) ELSE Joining(acc.n, acc.ptr, k, U)

LEMMA BlockJoins ==
    ASSUME NEW n, NEW B, NEW p, NEW k, NEW U, Lists(n, B), Merged(B), Fits(B, p, k),
           Cells(B) \cup Block(p, k) = U,
           k < Top => <<Buddy(p, k), k>> \notin B,
           NEW q, Lists(q, B \cup {<<p, k>>})
    PROVE  Whole(q, U)
  <1>1. Joined(B \cup {<<p, k>>}, B, p, k)  BY BlockAdded
  <1>2. Merged(B \cup {<<p, k>>})
    BY MergedAdd DEF Fits
  <1> DEFINE C == B \cup {<<p, k>>}
  <1> HIDE DEF C
  <1>3. Parts(C) /\ Cells(C) = U /\ Merged(C) /\ Lists(q, C)
    BY <1>1, <1>2 DEF Joined, C
  <1> QED  BY <1>3 DEF Whole

LEMMA MergeOnce ==
    ASSUME NEW acc, NEW U, NEW k \in Levels, k < Top, Merging(acc, k, U)
    PROVE  Merging(MergeStep(acc, k), k + 1, U)
  <1> DEFINE new == MergeStep(acc, k)
             n == acc.n
             p == acc.ptr
             b == Buddy(p, k)
             a == Min({p, b})
  <1>1. acc \in Accs  BY DEF Merging
  <1>2. n \in Stores /\ p \in Nat /\ acc.done \in BOOLEAN  BY <1>1 DEF Accs
  <1>3. k \in Nat /\ k + 1 \in Levels /\ k + 1 \in Nat
    BY LevelsAssumption DEF Levels, Top
  <1>4. CASE acc.done
    BY <1>1, <1>4 DEF Merging, MergeStep
  <1>5. CASE ~acc.done
    <2>1. PICK B : Lists(n, B) /\ Merged(B) /\ Fits(B, p, k) /\ Cells(B) \cup Block(p, k) = U
      BY <1>5 DEF Merging, Joining
    <2>2. /\ B \in SUBSET (Memory \X Levels) /\ Parts(B) /\ p % level2size(k) = 0
          /\ Block(p, k) \subseteq Memory /\ Block(p, k) \cap Cells(B) = {}
      BY <2>1 DEF Fits
    <2>3. Linked(n, k, b) <=> <<b, k>> \in B
      BY <2>1, ListRead
    <2>4. /\ b \in Nat /\ b % level2size(k) = 0
          /\ a \in Nat /\ a % level2size(k + 1) = 0
          /\ Block(a, k + 1) = Block(p, k) \cup Block(b, k)
      BY <1>2, <1>3, <2>2, Buddies
    <2>5. CASE <<b, k>> \in B
      <3> DEFINE q == remove_if(n, k, b)
                 C == B \ {<<b, k>>}
      <3>1. new = [acc EXCEPT !.n = q, !.ptr = a]
        BY <1>5, <2>3, <2>5 DEF MergeStep
      <3>2. Lists(q, C)
        BY <2>1, <2>5, Removes
      <3>3. /\ Parts(C) /\ Cells(C) = Cells(B) \ Block(b, k) /\ Block(b, k) \subseteq Cells(B)
            /\ Block(b, k) \subseteq Memory
        BY <2>2, <2>5, BlockRemoved
      <3>4. Merged(C)
        BY <2>1, MergedRemove
      <3> HIDE DEF a, b, q, C
      <3>5. C \in SUBSET (Memory \X Levels) /\ q \in Stores
        BY <3>2 DEF Lists
      <3>6. Fits(C, a, k + 1)
        BY <1>3, <2>2, <2>4, <3>3, <3>5 DEF Fits
      <3>7. Cells(C) \cup Block(a, k + 1) = U
        BY <2>1, <2>4, <3>3
      <3>8. Joining(q, a, k + 1, U)
        BY <3>2, <3>4, <3>6, <3>7 DEF Joining
      <3>9. new \in Accs /\ new.n = q /\ new.ptr = a /\ new.done = acc.done
        BY <1>1, <2>4, <3>1, <3>5 DEF Accs
      <3> HIDE DEF new
      <3>10. Merging(new, k + 1, U)
        BY <1>5, <3>8, <3>9 DEF Merging
      <3> QED  BY <3>10 DEF new
    <2>6. CASE <<b, k>> \notin B
      <3> DEFINE q == add_with_sort(n, k, p)
      <3>1. new = [acc EXCEPT !.n = q, !.done = TRUE]
        BY <1>5, <2>3, <2>6 DEF MergeStep
      <3>2. p \in Memory /\ \A j : <<p, j>> \notin B
        BY <2>1, BlockAdded DEF Joined
      <3>3. Lists(q, B \cup {<<p, k>>})
        BY <2>1, <3>2, AddsSorted
      <3> HIDE DEF q
      <3>4. Whole(q, U)
        BY <2>1, <2>6, <3>3, BlockJoins
      <3>5. q \in Stores
        BY <3>3 DEF Lists
      <3>6. new \in Accs /\ new.n = q /\ new.done = TRUE
        BY <1>1, <3>1, <3>5 DEF Accs
      <3> HIDE DEF new
      <3>7. Merging(new, k + 1, U)
        BY <3>4, <3>6 DEF Merging
      <3> QED  BY <3>7 DEF new
    <2> QED  BY <2>5, <2>6
  <1> QED  BY <1>2, <1>4, <1>5

LEMMA Merges ==
    ASSUME NEW n, NEW p, NEW level \in Levels, NEW U, Joining(n, p, level, U)
    PROVE  Whole(Merge(n, p, level), U)
  <1> DEFINE m == LEVELS - 1 - level
             first == [n |-> n, ptr |-> p, done |-> FALSE]
             G == [i \in 0 .. m |-> {x \in Accs : Merging(x, level + i, U)}]
             step == [i \in 0 .. m - 1 |-> [x \in G[i] |-> MergeStep(x, level + i)]]
             Rec(f) == f = [j \in 0 .. m |-> IF j = 0 THEN [n |-> n, ptr |-> p, done |-> FALSE]
                                             ELSE MergeStep(f[j - 1], level - 1 + j)]
             F == CHOOSE f : Rec(f)
             End(acc) == IF acc.done THEN acc.n ELSE push_back(acc.n, LEVELS - 1, acc.ptr)
  <1>1. Merge(n, p, level) = End(F[m])
    BY Zenon DEF Merge
  <1>2. m \in Nat /\ level \in Nat /\ level + m = Top
    BY LevelsAssumption DEF Levels, Top
  <1>3. Merging(first, level, U)
    <2>1. n \in Stores /\ p \in Nat  BY DEF Joining, Lists, Fits
    <2>2. first \in Accs  BY <2>1 DEF Accs
    <2> QED  BY <2>2 DEF Merging
  <1>4. first \in G[0]
    <2>1. level + 0 = level /\ 0 \in 0 .. m  BY <1>2
    <2> HIDE DEF first
    <2> QED  BY <2>1, <1>3 DEF Merging
  <1>5. ASSUME NEW i \in 0 .. m - 1, NEW x, Merging(x, level + i, U)
        PROVE  Merging(MergeStep(x, level + i), level + (i + 1), U)
    <2>1. level + i \in Levels /\ level + i < Top /\ (level + i) + 1 = level + (i + 1)
      BY <1>2, LevelsAssumption DEF Levels, Top
    <2>2. Merging(MergeStep(x, level + i), (level + i) + 1, U)
      BY <1>5, <2>1, MergeOnce
    <2> QED  BY <2>1, <2>2
  <1>6. Steps(m, G, step)
    <2> SUFFICES ASSUME NEW i \in 0 .. m - 1, NEW x \in G[i]  PROVE step[i][x] \in G[i + 1]
      <3> HIDE DEF G, step
      <3> QED  BY DEF Steps
    <2>1. i \in 0 .. m /\ i + 1 \in 0 .. m  BY <1>2
    <2>2. Merging(x, level + i, U)  BY <2>1
    <2>3. step[i][x] = MergeStep(x, level + i)  OBVIOUS
    <2>4. Merging(MergeStep(x, level + i), level + (i + 1), U)  BY <1>5, <2>2
    <2>5. MergeStep(x, level + i) \in Accs  BY <2>4 DEF Merging
    <2> HIDE DEF step
    <2> QED  BY <2>1, <2>3, <2>4, <2>5
  <1> HIDE DEF first
  <1>7. PICK f : /\ f[0] = first
                 /\ \A i \in 0 .. m : f[i] \in G[i]
                 /\ \A i \in 0 .. m - 1 : f[i + 1] = step[i][f[i]]
    <2> HIDE DEF G, step, m
    <2>1. Runs(m, G, step, first)  BY <1>2, <1>4, <1>6, LoopRuns
    <2> QED  BY <2>1, Zenon DEF Runs
  <1>8. \E g : Rec(g)
    <2> DEFINE g == [j \in 0 .. m |-> f[j]]
               val(j) == IF j = 0 THEN first ELSE MergeStep(g[j - 1], level - 1 + j)
    <2>1. ASSUME NEW j \in 0 .. m  PROVE g[j] = val(j)
      <3>1. CASE j = 0
        BY <3>1, <1>7
      <3>2. CASE j # 0
        <4>1. j - 1 \in 0 .. m - 1 /\ (j - 1) + 1 = j /\ j - 1 \in 0 .. m /\ level + (j - 1) = level - 1 + j
          BY <3>2, <1>2
        <4>2. f[j] = step[j - 1][f[j - 1]] /\ f[j - 1] \in G[j - 1]
          <5> HIDE DEF step, G
          <5>1. f[(j - 1) + 1] = step[j - 1][f[j - 1]]  BY <1>7, <4>1
          <5> QED  BY <4>1, <1>7, <5>1
        <4>3. f[j] = MergeStep(f[j - 1], level + (j - 1))
          <5> HIDE DEF G
          <5> QED  BY <4>1, <4>2
        <4> QED  BY <3>2, <4>1, <4>3
      <3> QED  BY <3>1, <3>2
    <2>2. g = [j \in 0 .. m |-> val(j)]
      <3> HIDE DEF val
      <3> QED  BY <2>1
    <2>3. Rec(g)
      <3> HIDE DEF g
      <3> QED  BY <2>2, Zenon DEF first
    <2> HIDE DEF Rec, g
    <2> QED  BY <2>3
  <1>9. Rec(F)
    <2> HIDE DEF Rec
    <2> QED  BY <1>8
  <1> DEFINE H == F
  <1>10. Rec(H)  BY <1>9
  <1> HIDE DEF H
  <1>11. \A j \in 0 .. m : H[j] = IF j = 0 THEN first ELSE MergeStep(H[j - 1], level - 1 + j)
    BY <1>10 DEF first
  <1> DEFINE S == {j \in Nat : j <= m => Merging(H[j], level + j, U)}
  <1>12. 0 \in S
    <2>1. level + 0 = level /\ 0 \in 0 .. m /\ H[0] = first  BY <1>2, <1>11
    <2> QED  BY <1>3, <2>1
  <1>13. ASSUME NEW j \in S  PROVE j + 1 \in S
    <2> SUFFICES ASSUME j + 1 <= m  PROVE Merging(H[j + 1], level + (j + 1), U)
      OBVIOUS
    <2>1. j \in Nat /\ j \in 0 .. m - 1 /\ j + 1 \in 0 .. m /\ j + 1 # 0 /\ (j + 1) - 1 = j
          /\ level - 1 + (j + 1) = level + j /\ Merging(H[j], level + j, U)
      BY <1>2
    <2>2. H[j + 1] = MergeStep(H[j], level + j)  BY <1>11, <2>1
    <2> QED  BY <1>5, <2>1, <2>2
  <1>14. S = Nat
    <2>1. S \in SUBSET Nat  OBVIOUS
    <2> HIDE DEF S
    <2> QED  BY <2>1, <1>12, <1>13, Induction
  <1> DEFINE acc == H[m]
  <1>15. Merging(acc, Top, U)
    <2>1. m \in S  BY <1>2, <1>14
    <2> QED  BY <2>1, <1>2
  <1> HIDE DEF acc
  <1>16. Whole(End(acc), U)
    <2>1. CASE acc.done
      BY <1>15, <2>1 DEF Merging
    <2>2. CASE ~acc.done
      <3>1. PICK B : /\ Lists(acc.n, B) /\ Merged(B) /\ Fits(B, acc.ptr, Top)
                     /\ Cells(B) \cup Block(acc.ptr, Top) = U
        BY <1>15, <2>2 DEF Merging, Joining
      <3>2. acc.ptr \in Memory /\ \A j : <<acc.ptr, j>> \notin B
        BY <3>1, BlockAdded DEF Joined
      <3>3. Lists(push_back(acc.n, Top, acc.ptr), B \cup {<<acc.ptr, Top>>})
        BY <3>1, <3>2, TopLevel, PushesBack
      <3>4. ~(Top < Top)  BY <1>2
      <3>5. Whole(push_back(acc.n, Top, acc.ptr), U)
        BY <3>1, <3>3, <3>4, BlockJoins
      <3> QED  BY <2>2, <3>5 DEF Top
    <2> QED  BY <2>1, <2>2
  <1> QED  BY <1>1, <1>16 DEF acc, H

-------------------------------------------------------------------------------
(* Layouts *)

(* An allocation or a request with the size and the alignment of a layout. *)
HasLayout(r) == \E l \in Layouts : r.size = l.size /\ r.align = l.align

LEMMA LevelOf ==
    ASSUME NEW size \in Nat, size <= level2size(Top), NEW v, v = size2level_next_power(size)
    PROVE  /\ v \in Levels /\ size <= level2size(v)
           /\ \A k \in Levels : size <= level2size(k) => v <= k
  <1> DEFINE K == {k \in Levels : level2size(k) >= size}
  <1>1. Top \in K /\ K \in SUBSET Nat
    <2>1. level2size(Top) \in Nat  BY TopLevel, SizeDoubles
    <2> QED  BY <2>1, TopLevel
  <1>2. v = Min(K)  BY DEF size2level_next_power
  <1> HIDE DEF K
  <1>3. v \in K /\ \A k \in K : v <= k  BY <1>1, <1>2, LeastOf
  <1>4. \A k \in Levels : level2size(k) \in Nat  BY TopLevel, SizeDoubles
  <1> QED  BY <1>3, <1>4 DEF K

LEMMA Required ==
    ASSUME NEW r, HasLayout(r)
    PROVE  /\ RequiredLevel(r) \in Levels
           /\ size2level_next_power(r.size) \in Levels
           /\ size2level_next_power(r.size) <= RequiredLevel(r)
           /\ \E a \in Levels : r.align = level2size(a) /\ a <= RequiredLevel(r)
           /\ r.align <= level2size(size2level_next_power(r.size))
                => RequiredLevel(r) = size2level_next_power(r.size)
  <1> DEFINE R == RequiredLevel(r)
             s == size2level_next_power(r.size)
             big == Max({r.size, r.align})
  <1>1. /\ r.size \in Nat /\ r.size <= level2size(Top)
        /\ \E a \in Levels : r.align = level2size(a)
    <2>1. PICK l \in Layouts : r.size = l.size /\ r.align = l.align  BY DEF HasLayout
    <2>2. l.size \in 1 .. level2size(Top) /\ \E a \in Levels : l.align = level2size(a)
      BY LayoutsAssumption DEF MAX_ALLOCATABLE_BYTES, Top
    <2>3. level2size(Top) \in Nat  BY TopLevel, SizeDoubles
    <2> QED  BY <2>1, <2>2, <2>3
  <1>2. PICK a \in Levels : r.align = level2size(a)  BY <1>1
  <1>3. a \in Nat /\ Top \in Nat /\ a <= Top  BY TopLevel
  <1>4. level2size(a) \in Nat /\ level2size(a) <= level2size(Top)
    BY <1>3, SizesNest, SizeDoubles
  <1>5. big \in Nat /\ big = IF r.size >= r.align THEN r.size ELSE r.align
    BY <1>1, <1>2, <1>4 DEF Max
  <1>6. big <= level2size(Top) /\ r.size <= big /\ r.align <= big
    <2> HIDE DEF big
    <2> QED  BY <1>1, <1>2, <1>4, <1>5
  <1>7. R = size2level_next_power(big)  BY DEF RequiredLevel
  <1> HIDE DEF big, R, s
  <1>8. R \in Levels /\ big <= level2size(R) /\ \A k \in Levels : big <= level2size(k) => R <= k
    BY <1>5, <1>6, <1>7, LevelOf
  <1>9. s \in Levels /\ r.size <= level2size(s) /\ \A k \in Levels : r.size <= level2size(k) => s <= k
    BY <1>1, LevelOf DEF s
  <1>10. R \in Nat /\ s \in Nat /\ level2size(R) \in Nat /\ level2size(s) \in Nat
    BY <1>8, <1>9, TopLevel, SizeDoubles
  <1>11. s <= R
    <2>1. r.size <= level2size(R)  BY <1>1, <1>5, <1>6, <1>8, <1>10
    <2> QED  BY <1>8, <1>9, <2>1
  <1>12. a <= R
    <2> SUFFICES ASSUME R < a  PROVE FALSE
      BY <1>3, <1>10
    <2>1. level2size(R) < level2size(a)  BY <1>3, <1>10, SizesNest
    <2> QED  BY <1>2, <1>4, <1>5, <1>6, <1>8, <1>10, <2>1
  <1>13. r.align <= level2size(s) => R = s
    <2> HAVE r.align <= level2size(s)
    <2>1. big <= level2size(s)  BY <1>5, <1>9
    <2>2. R <= s  BY <1>8, <1>9, <2>1
    <2> QED  BY <1>10, <1>11, <2>2
  <1> QED  BY <1>2, <1>8, <1>9, <1>11, <1>12, <1>13 DEF R, s

-------------------------------------------------------------------------------
(* Free memory and allocations *)

Area(r) == Block(r.ptr, RequiredLevel(r))
Areas(L) == UNION {Area(r) : r \in L}

(* Of the cells D, U are free and the allocations L have others, each its own. *)
Holding(U, L, D) ==
    /\ \A r \in L : /\ r.ptr \in Nat /\ HasLayout(r)
                    /\ r.ptr % level2size(RequiredLevel(r)) = 0
                    /\ Area(r) \subseteq D
    /\ \A r, s \in L : r # s => Area(r) \cap Area(s) = {}
    /\ U \subseteq D
    /\ U \cap Areas(L) = {}

LEMMA HoldingMore ==
    ASSUME NEW U, NEW L, NEW D, Holding(U, L, D), NEW X, X \cap D = {}
    PROVE  Holding(U \cup X, L, D \cup X)
  <1>1. Areas(L) \subseteq D  BY DEF Holding, Areas
  <1> QED  BY <1>1 DEF Holding

LEMMA HoldingTake ==
    ASSUME NEW U, NEW L, NEW D, Holding(U, L, D), NEW r, r.ptr \in Nat, HasLayout(r),
           r.ptr % level2size(RequiredLevel(r)) = 0, Area(r) \subseteq U
    PROVE  /\ Holding(U \ Area(r), L \cup {r}, D)
           /\ Areas(L \cup {r}) = Areas(L) \cup Area(r)
           /\ Areas(L) \cap Area(r) = {}
  <1> DEFINE M == L \cup {r}
  <1>1. Areas(M) = Areas(L) \cup Area(r)  BY DEF Areas
  <1>2. Areas(L) \cap Area(r) = {}  BY DEF Holding
  <1>3. \A s \in L : Area(s) \cap Area(r) = {}  BY <1>2 DEF Areas
  <1>4. \A s \in M : s \in L \/ s = r  OBVIOUS
  <1>5. \A s, t \in M : s # t => Area(s) \cap Area(t) = {}
    <2> HIDE DEF M
    <2> QED  BY <1>3, <1>4 DEF Holding
  <1>6. \A s \in M : /\ s.ptr \in Nat /\ HasLayout(s)
                     /\ s.ptr % level2size(RequiredLevel(s)) = 0
                     /\ Area(s) \subseteq D
    <2>1. Area(r) \subseteq D  BY DEF Holding
    <2> HIDE DEF M
    <2> QED  BY <1>4, <2>1 DEF Holding
  <1>7. U \ Area(r) \subseteq D /\ (U \ Area(r)) \cap Areas(M) = {}
    <2> HIDE DEF M
    <2> QED  BY <1>1 DEF Holding
  <1> HIDE DEF M
  <1>8. Holding(U \ Area(r), M, D)  BY <1>5, <1>6, <1>7 DEF Holding
  <1> QED  BY <1>1, <1>2, <1>8 DEF M

LEMMA HoldingGive ==
    ASSUME NEW U, NEW L, NEW D, Holding(U, L, D), NEW r \in L, NEW X, X \subseteq Area(r)
    PROVE  /\ Holding(U \cup X, L \ {r}, D)
           /\ Areas(L \ {r}) = Areas(L) \ Area(r)
           /\ Area(r) \subseteq Areas(L)
  <1> DEFINE M == L \ {r}
  <1>1. \A s \in M : Area(s) \cap Area(r) = {}  BY DEF Holding
  <1>2. \A u : u \in Areas(M) <=> \E s \in M : u \in Area(s)  BY DEF Areas
  <1>3. \A u : u \in Areas(L) <=> u \in Area(r) \/ u \in Areas(M)
    <2>1. \A u : u \in Areas(L) <=> \E s \in L : u \in Area(s)  BY DEF Areas
    <2>2. \A s : s \in L <=> s = r \/ s \in M  OBVIOUS
    <2> HIDE DEF M
    <2> QED  BY <1>2, <2>1, <2>2
  <1>4. Areas(M) \cap Area(r) = {}
    <2> HIDE DEF M
    <2> QED  BY <1>1, <1>2
  <1>5. Areas(M) = Areas(L) \ Area(r) /\ Area(r) \subseteq Areas(L)
    <2> HIDE DEF M
    <2> QED  BY <1>3, <1>4
  <1>6. Area(r) \subseteq D  BY DEF Holding
  <1>7. M \in SUBSET L  OBVIOUS
  <1> HIDE DEF M
  <1>8. Holding(U \cup X, M, D)
    BY <1>5, <1>6, <1>7 DEF Holding
  <1> QED  BY <1>5, <1>8 DEF M

(* The free lists, as a set of blocks, of the memory n. *)
FreeIn(n) == UNION {ToSet(Nodes(n, k)) \X {k} : k \in Levels}

LEMMA FreeIs ==
    ASSUME NEW n, NEW B, Lists(n, B)
    PROVE  FreeIn(n) = B
  <1>1. B \in SUBSET (Memory \X Levels)  BY DEF Lists
  <1>2. \A k \in Levels : ToSet(Nodes(n, k)) = {p \in Memory : <<p, k>> \in B}
    BY ListRead
  <1>3. ASSUME NEW x \in FreeIn(n)  PROVE x \in B
    <2>1. PICK k \in Levels : x \in ToSet(Nodes(n, k)) \X {k}  BY DEF FreeIn
    <2>2. x \in {p \in Memory : <<p, k>> \in B} \X {k}  BY <1>2, <2>1
    <2> QED  BY <2>2
  <1>4. ASSUME NEW x \in B  PROVE x \in FreeIn(n)
    <2>1. PICK p \in Memory, k \in Levels : x = <<p, k>>  BY <1>1
    <2>2. p \in ToSet(Nodes(n, k))  BY <1>2, <2>1
    <2>3. x \in ToSet(Nodes(n, k)) \X {k}  BY <2>1, <2>2
    <2> QED  BY <2>3 DEF FreeIn
  <1> QED  BY <1>3, <1>4

LEMMA WholeFree ==
    ASSUME NEW n, NEW U, Whole(n, U)
    PROVE  /\ Lists(n, FreeIn(n)) /\ Parts(FreeIn(n)) /\ Merged(FreeIn(n))
           /\ Cells(FreeIn(n)) = U
  BY FreeIs DEF Whole

LEMMA WholeSplitting ==
    ASSUME NEW n, NEW U, Whole(n, U), NEW k \in Levels, ~is_none(n, k)
    PROVE  Splitting(n, k, U)
  <1>1. PICK B : Lists(n, B) /\ Parts(B) /\ Merged(B) /\ Cells(B) = U  BY DEF Whole
  <1>2. <<n[k], k>> \in B  BY <1>1, ListRead
  <1>3. Merged(B \ {<<n[k], k>>})  BY <1>1, MergedRemove
  <1> QED  BY <1>1, <1>2, <1>3 DEF Splitting

(* Take, on the memory n *)
Rest(n, from, level) ==
    LET split == SplitDown(n, from, level)
    IN  Scribbled(pop(split, level), split[level], level)

LEMMA Takes ==
    ASSUME NEW n, NEW U, NEW from \in Levels, NEW level \in Levels, level <= from,
           Splitting(n, from, U), NEW p, p = SplitDown(n, from, level)[level]
    PROVE  /\ Whole(Rest(n, from, level), U \ Block(p, level))
           /\ p \in Nat /\ p % level2size(level) = 0 /\ Block(p, level) \subseteq U
  <1> DEFINE q == SplitDown(n, from, level)
             r == pop(q, level)
  <1>1. Splitting(q, level, U)  BY SplitsDown
  <1>2. Rest(n, from, level) = Scribbled(r, p, level)  BY DEF Rest
  <1> HIDE DEF q
  <1>3. p = q[level]  BY DEF q
  <1>4. PICK B : /\ Lists(q, B) /\ Parts(B) /\ Cells(B) = U
                 /\ <<p, level>> \in B /\ Merged(B \ {<<p, level>>})
    BY <1>1, <1>3 DEF Splitting
  <1>5. PICK C : C = B \ {<<p, level>>}  OBVIOUS
  <1>6. Lists(r, C)
    BY <1>3, <1>4, <1>5, Pops
  <1>7. B \in SUBSET (Memory \X Levels)  BY <1>4 DEF Lists
  <1>8. /\ Parts(C) /\ Cells(C) = U \ Block(p, level) /\ Block(p, level) \subseteq U
        /\ p \in Nat /\ p % level2size(level) = 0 /\ Block(p, level) \subseteq Memory
    BY <1>4, <1>5, <1>7, BlockRemoved
  <1> HIDE DEF r
  <1>9. \A y \in C : y[1] \notin Block(p, level)
    <2> SUFFICES ASSUME NEW y \in C, y[1] \in Block(p, level)  PROVE FALSE
      OBVIOUS
    <2>1. C \in SUBSET (Memory \X Levels)  BY <1>5, <1>7
    <2>2. y[1] \in Nat /\ y[2] \in Nat  BY <2>1, MemoryCells, TopLevel
    <2>3. y[1] \in Block(y[1], y[2])  BY <2>2, BlockCells
    <2>4. y[1] \in Cells(C)  BY <2>3, CellsOf
    <2> QED  BY <1>8, <2>4
  <1>10. Lists(Scribbled(r, p, level), C)
    BY <1>6, <1>8, <1>9, Scribbles
  <1>11. Whole(Scribbled(r, p, level), U \ Block(p, level))
    BY <1>4, <1>5, <1>8, <1>10 DEF Whole
  <1> QED  BY <1>2, <1>8, <1>11

-------------------------------------------------------------------------------
(* The specification *)

(***************************************************************************)
(* The invariant: the memory is that of free lists with disjoint aligned   *)
(* blocks and no two buddies, and of what the heap delivered these have a  *)
(* part and every allocation another.                                      *)
(***************************************************************************)
Inv ==
    /\ chunks \subseteq Chunks
    /\ Whole(next, Cells(Free))
    /\ Holding(Cells(Free), live, Delivered)

(* No alignment is larger than the block the size alone asks for. *)
AlignFits == \A l \in Layouts : l.align <= level2size(size2level_next_power(l.size))

ChunkCells(Q) == Cells(Q \X {LEVELS - 1})

LEMMA ChunkCellsOf ==
    ASSUME NEW Q \in SUBSET Chunks, NEW u
    PROVE  u \in ChunkCells(Q) <=> \E c \in Q : u \in Block(c, Top)
  <1>1. u \in ChunkCells(Q) <=> \E x \in Q \X {Top} : u \in Block(x[1], x[2])
    BY CellsOf DEF ChunkCells, Top
  <1>2. ASSUME NEW x \in Q \X {Top}, u \in Block(x[1], x[2])
        PROVE  \E c \in Q : u \in Block(c, Top)
    <2>1. x[1] \in Q /\ x[2] = Top  OBVIOUS
    <2> QED  BY <1>2, <2>1
  <1>3. ASSUME NEW c \in Q, u \in Block(c, Top)
        PROVE  \E x \in Q \X {Top} : u \in Block(x[1], x[2])
    <2>1. <<c, Top>> \in Q \X {Top} /\ <<c, Top>>[1] = c /\ <<c, Top>>[2] = Top  OBVIOUS
    <2> QED  BY <1>3, <2>1
  <1> QED  BY <1>1, <1>2, <1>3

LEMMA ChunkAdded ==
    ASSUME NEW Q \in SUBSET Chunks, NEW c \in Chunks
    PROVE  /\ ChunkCells(Q) \subseteq Memory
           /\ Block(c, Top) \subseteq Memory
           /\ ChunkCells(Q \cup {c}) = ChunkCells(Q) \cup Block(c, Top)
           /\ c \notin Q => Block(c, Top) \cap ChunkCells(Q) = {}
           /\ c \in Nat /\ c % level2size(Top) = 0
  <1>1. Memory = ChunkCells(Chunks)  BY DEF Memory, ChunkCells
  <1>2. \A u : u \in Memory <=> \E d \in Chunks : u \in Block(d, Top)
    BY <1>1, ChunkCellsOf
  <1>3. \A u : u \in ChunkCells(Q) <=> \E d \in Q : u \in Block(d, Top)
    BY ChunkCellsOf
  <1>4. \A u : u \in ChunkCells(Q \cup {c}) <=> \E d \in Q \cup {c} : u \in Block(d, Top)
    BY ChunkCellsOf
  <1>5. ChunkCells(Q \cup {c}) = ChunkCells(Q) \cup Block(c, Top)
    BY <1>3, <1>4
  <1>6. \A d \in Chunks : d \in Nat /\ d % level2size(Top) = 0
    BY ChunksAssumption DEF MAX_ALLOCATABLE_BYTES, Top
  <1>7. ASSUME NEW d \in Chunks, d # c  PROVE Block(d, Top) \cap Block(c, Top) = {}
    <2>1. level2size(Top) \in Nat \ {0} /\ Top \in Nat  BY TopLevel, SizeDoubles
    <2> DEFINE s == level2size(Top)
    <2>2. d + s <= c \/ c + s <= d  BY <1>6, <1>7, <2>1, MultiplesApart
    <2>3. Block(d, Top) = d .. d + s - 1 /\ Block(c, Top) = c .. c + s - 1  BY DEF Block
    <2>4. d \in Nat /\ c \in Nat /\ s \in Nat  BY <1>6, <2>1
    <2> HIDE DEF s
    <2> QED  BY <2>2, <2>3, <2>4
  <1>8. c \notin Q => Block(c, Top) \cap ChunkCells(Q) = {}
    BY <1>3, <1>7
  <1> QED  BY <1>2, <1>3, <1>5, <1>6, <1>8

LEMMA TakenCells ==
    ASSUME NEW L
    PROVE  Cells({<<r.ptr, RequiredLevel(r)>> : r \in L}) = Areas(L)
  <1> DEFINE S == {<<r.ptr, RequiredLevel(r)>> : r \in L}
  <1>1. ASSUME NEW u \in Cells(S)  PROVE u \in Areas(L)
    <2>1. PICK x \in S : u \in Block(x[1], x[2])  BY CellsOf
    <2>2. PICK r \in L : x = <<r.ptr, RequiredLevel(r)>>  OBVIOUS
    <2>3. u \in Area(r)  BY <2>1, <2>2 DEF Area
    <2> QED  BY <2>3 DEF Areas
  <1>2. ASSUME NEW u \in Areas(L)  PROVE u \in Cells(S)
    <2>1. PICK r \in L : u \in Area(r)  BY DEF Areas
    <2>2. <<r.ptr, RequiredLevel(r)>> \in S  OBVIOUS
    <2>3. u \in Block(<<r.ptr, RequiredLevel(r)>>[1], <<r.ptr, RequiredLevel(r)>>[2])
      BY <2>1 DEF Area
    <2> HIDE DEF S
    <2> QED  BY <2>2, <2>3, CellsOf
  <1> QED  BY <1>1, <1>2

LEMMA StateForms ==
    /\ Free = FreeIn(next) /\ Free' = FreeIn(next')
    /\ Cells(Taken) = Areas(live) /\ Cells(Taken)' = Areas(live')
    /\ Delivered = ChunkCells(chunks) /\ Delivered' = ChunkCells(chunks')
  <1>1. Free = FreeIn(next) /\ Free' = FreeIn(next')
    BY DEF Free, FreeBlocks, FreeIn
  <1>2. Cells(Taken) = Areas(live)
    BY TakenCells DEF Taken
  <1>3. Cells(Taken)' = Areas(live')
    BY TakenCells DEF Taken
  <1>4. Delivered = ChunkCells(chunks) /\ Delivered' = ChunkCells(chunks')
    BY DEF Delivered, ChunkCells
  <1> QED  BY <1>1, <1>2, <1>3, <1>4

(* The invariant of the next state, from the free cells it has. *)
LEMMA InvNext ==
    ASSUME NEW U, chunks' \subseteq Chunks, Whole(next', U), Holding(U, live', Delivered')
    PROVE  Inv' /\ Cells(Free)' = U
  <1>1. Cells(FreeIn(next')) = U  BY WholeFree
  <1>2. Cells(Free') = U  BY <1>1, StateForms
  <1> QED  BY <1>2 DEF Inv

LEMMA EmptyWhole ==
    ASSUME NEW n, n = [c \in Levels \cup Memory |-> IF c \in Levels THEN NULL ELSE JUNK]
    PROVE  Whole(n, {})
  <1>1. n \in Stores
    BY DEF Stores, Cell
  <1>2. ASSUME NEW k \in Levels
        PROVE  \E m, w : Chain(n, k, m, w) /\ Links({}, k, m, w)
    <2> DEFINE w == [i \in 1 .. 1 |-> k]
    <2>1. w \in [1 .. 1 -> Cell] /\ w[1] = k /\ n[w[1]] = NULL
      BY DEF Cell
    <2> HIDE DEF w
    <2>2. Chain(n, k, 1, w)
      BY <2>1 DEF Chain
    <2>3. Links({}, k, 1, w)
      BY DEF Links
    <2> QED  BY <2>2, <2>3
  <1>3. Lists(n, {})
    BY <1>1, <1>2 DEF Lists
  <1>4. Parts({}) /\ Merged({}) /\ Cells({}) = {}
    BY DEF Parts, Merged, Cells
  <1> QED  BY <1>3, <1>4 DEF Whole

LEMMA InvInit == Init => Inv /\ NothingLeaks
  <1> SUFFICES ASSUME Init  PROVE Inv /\ NothingLeaks
    OBVIOUS
  <1>1. Whole(next, {})
    BY EmptyWhole DEF Init
  <1>2. Cells(Free) = {}
    BY <1>1, WholeFree, StateForms
  <1>3. Delivered = {}
    BY DEF Init, Delivered, Cells
  <1>4. Areas(live) = {}
    BY DEF Init, Areas
  <1>5. Holding({}, live, Delivered)
    BY <1>4 DEF Init, Holding
  <1>6. Inv
    BY <1>1, <1>2, <1>5 DEF Inv, Init
  <1>7. NothingLeaks
    BY <1>2, <1>3, <1>4, StateForms, FS_EmptySet DEF NothingLeaks, Init
  <1> QED  BY <1>6, <1>7

(* What a successful alloc does with the free cells U of the memory n. *)
LEMMA TakeStep ==
    ASSUME NEW n, NEW U, NEW D, Whole(n, U), Holding(U, live, D), NEW l \in Layouts,
           NEW from \in Levels, RequiredLevel(l) <= from, ~is_none(n, from),
           Take(n, from, l)
    PROVE  \E A : /\ Whole(next', U \ A) /\ Holding(U \ A, live', D)
                  /\ A \subseteq U
                  /\ Areas(live') = Areas(live) \cup A /\ Areas(live) \cap A = {}
                  /\ IsFiniteSet(A) /\ allocated' = allocated + Cardinality(A)
  <1> DEFINE level == RequiredLevel(l)
             p == SplitDown(n, from, level)[level]
             r == [ptr |-> p, size |-> l.size, align |-> l.align]
  <1>1. HasLayout(l)  BY DEF HasLayout
  <1>2. level \in Levels  BY <1>1, Required
  <1>3. Splitting(n, from, U)  BY WholeSplitting
  <1>4. /\ next' = Rest(n, from, level)
        /\ allocated' = allocated + level2size(level)
        /\ live' = live \cup {r}
    BY DEF Take, Rest
  <1> HIDE DEF p
  <1>5. /\ Whole(next', U \ Block(p, level))
        /\ p \in Nat /\ p % level2size(level) = 0 /\ Block(p, level) \subseteq U
    <2>1. level <= from  OBVIOUS
    <2> HIDE DEF level
    <2> QED  BY <1>2, <1>3, <1>4, <2>1, Takes DEF p
  <1>6. r.ptr = p /\ r.size = l.size /\ r.align = l.align  OBVIOUS
  <1> HIDE DEF r
  <1>7. RequiredLevel(r) = level  BY <1>6 DEF RequiredLevel
  <1>8. HasLayout(r)  BY <1>6 DEF HasLayout
  <1>9. Area(r) = Block(p, level)  BY <1>6, <1>7 DEF Area
  <1> HIDE DEF level
  <1>10. /\ Holding(U \ Area(r), live \cup {r}, D)
         /\ Areas(live \cup {r}) = Areas(live) \cup Area(r)
         /\ Areas(live) \cap Area(r) = {}
    <2>1. r.ptr \in Nat /\ r.ptr % level2size(RequiredLevel(r)) = 0  BY <1>5, <1>6, <1>7
    <2>2. Area(r) \subseteq U  BY <1>5, <1>9
    <2> QED  BY <1>8, <2>1, <2>2, HoldingTake
  <1>11. level \in Nat  BY <1>2, TopLevel
  <1>12. IsFiniteSet(Area(r)) /\ Cardinality(Area(r)) = level2size(level)
    BY <1>5, <1>9, <1>11, BlockCells
  <1> QED  BY <1>4, <1>5, <1>9, <1>10, <1>12

LEMMA Counted ==
    ASSUME NEW S, NEW A, S \subseteq Memory, IsFiniteSet(A)
    PROVE  /\ IsFiniteSet(S) /\ Cardinality(S) \in Nat /\ Cardinality(A) \in Nat
           /\ S \cap A = {} => Cardinality(S \cup A) = Cardinality(S) + Cardinality(A)
           /\ A \subseteq S => Cardinality(S \ A) = Cardinality(S) - Cardinality(A)
  <1>1. S \in SUBSET Cell  BY DEF Cell
  <1>2. IsFiniteSet(S)  BY <1>1, MemoryCells, FS_Subset
  <1>3. Cardinality(S) \in Nat /\ Cardinality(A) \in Nat  BY <1>2, FS_CardinalityType
  <1>4. Cardinality(S \cup A) = Cardinality(S) + Cardinality(A) - Cardinality(S \cap A)
    BY <1>2, FS_Union
  <1>5. Cardinality(S \ A) = Cardinality(S) - Cardinality(S \cap A)
    BY <1>2, FS_Difference
  <1>6. S \cap A = {} => Cardinality(S \cap A) = 0
    BY FS_EmptySet
  <1>7. A \subseteq S => S \cap A = A  OBVIOUS
  <1> QED  BY <1>2, <1>3, <1>4, <1>5, <1>6, <1>7

LEMMA TakenInMemory ==
    ASSUME Inv
    PROVE  Areas(live) \subseteq Memory /\ Delivered \subseteq Memory /\ Cells(Free) \subseteq Delivered
  <1>1. Areas(live) \subseteq Delivered /\ Cells(Free) \subseteq Delivered
    BY DEF Inv, Holding, Areas
  <1>2. Delivered \subseteq Memory
    <2>1. \A u \in Delivered : \E c \in chunks : u \in Block(c, Top)
      BY ChunkCellsOf, StateForms DEF Inv
    <2>2. \A c \in Chunks : Block(c, Top) \subseteq Memory  BY ChunkAdded
    <2> QED  BY <2>1, <2>2 DEF Inv
  <1> QED  BY <1>1, <1>2

LEMMA AllocStep ==
    ASSUME Inv, NEW l \in Layouts, alloc(l)
    PROVE  Inv' /\ (NothingLeaks => NothingLeaks')
  <1> DEFINE V == Available(RequiredLevel(l))
             U == Cells(Free)
  <1>1. RequiredLevel(l) \in Levels
    <2>1. HasLayout(l)  BY DEF HasLayout
    <2> QED  BY <2>1, Required
  <1>2. PICK from : from = Min(V)  OBVIOUS
  <1>3. from \in Levels /\ RequiredLevel(l) <= from /\ ~is_none(next, from)
    <2>1. V # {} /\ V = {k \in RequiredLevel(l) .. LEVELS - 1 : ~is_none(next, k)}
      BY DEF alloc, Available
    <2>2. RequiredLevel(l) \in Nat /\ LEVELS - 1 \in Nat
      BY <1>1, LevelsAssumption DEF Levels
    <2> DEFINE R == RequiredLevel(l)
    <2> HIDE DEF V, R
    <2>3. V \in SUBSET Nat /\ \A k \in V : k \in Levels /\ R <= k /\ ~is_none(next, k)
      BY <2>1, <2>2 DEF Levels, R
    <2>4. PICK v0 \in V : TRUE  BY <2>1
    <2>5. from \in V  BY <1>2, <2>3, <2>4, LeastOf
    <2> QED  BY <2>3, <2>5 DEF R
  <1>4. /\ Take(next, from, l)
        /\ total_size' = total_size /\ chunks' = chunks
    BY <1>2 DEF alloc
  <1>5. Whole(next, U) /\ Holding(U, live, Delivered) /\ chunks \subseteq Chunks
    BY DEF Inv
  <1> HIDE DEF U
  <1>6. PICK A : /\ Whole(next', U \ A) /\ Holding(U \ A, live', Delivered)
                 /\ A \subseteq U
                 /\ Areas(live') = Areas(live) \cup A /\ Areas(live) \cap A = {}
                 /\ IsFiniteSet(A) /\ allocated' = allocated + Cardinality(A)
    <2>1. PICK D : D = Delivered  OBVIOUS
    <2>2. PICK n : n = next  OBVIOUS
    <2>3. Whole(n, U) /\ Holding(U, live, D)  BY <1>5, <2>1, <2>2
    <2>4. ~is_none(n, from) /\ Take(n, from, l)  BY <1>3, <1>4, <2>2
    <2>5. \E A : /\ Whole(next', U \ A) /\ Holding(U \ A, live', D)
                 /\ A \subseteq U
                 /\ Areas(live') = Areas(live) \cup A /\ Areas(live) \cap A = {}
                 /\ IsFiniteSet(A) /\ allocated' = allocated + Cardinality(A)
      BY <1>3, <2>3, <2>4, TakeStep
    <2> QED  BY <2>1, <2>5
  <1>7. Delivered' = Delivered  BY <1>4, StateForms
  <1>8. Inv' /\ Cells(Free)' = U \ A
    BY <1>4, <1>5, <1>6, <1>7, InvNext
  <1>9. NothingLeaks => NothingLeaks'
    <2> HAVE NothingLeaks
    <2>1. /\ U \cup Areas(live) = Delivered
          /\ total_size = Cardinality(Delivered) /\ allocated = Cardinality(Areas(live))
      BY StateForms DEF NothingLeaks, U
    <2>2. Cardinality(Areas(live)') = Cardinality(Areas(live)) + Cardinality(A)
      BY <1>6, Counted, TakenInMemory
    <2>3. (U \ A) \cup Areas(live') = Delivered
      BY <1>6, <2>1
    <2> QED  BY <1>4, <1>6, <1>7, <1>8, <2>1, <2>2, <2>3, StateForms DEF NothingLeaks
  <1> QED  BY <1>8, <1>9

(* set_memory: the chunk joins the free cells. *)
LEMMA Refills ==
    ASSUME Inv, NEW c \in Chunks, c \notin chunks, NEW n, n = set_memory(next, c)
    PROVE  /\ Whole(n, Cells(Free) \cup Block(c, Top))
           /\ Holding(Cells(Free) \cup Block(c, Top), live, Delivered \cup Block(c, Top))
           /\ Block(c, Top) \cap Delivered = {}
           /\ ~is_none(n, Top)
  <1>1. PICK U : U = Cells(Free)  OBVIOUS
  <1>2. PICK B : B = FreeIn(next)  OBVIOUS
  <1>3. Whole(next, U) /\ Holding(U, live, Delivered) /\ chunks \subseteq Chunks
    BY <1>1 DEF Inv
  <1>4. Lists(next, B) /\ Parts(B) /\ Merged(B) /\ Cells(B) = U
    BY <1>2, <1>3, WholeFree
  <1>5. /\ Block(c, Top) \subseteq Memory
        /\ Block(c, Top) \cap Delivered = {}
        /\ c \in Nat /\ c % level2size(Top) = 0
    BY <1>3, ChunkAdded, StateForms
  <1>6. Block(c, Top) \cap U = {}
    BY <1>3, <1>5 DEF Holding
  <1>7. B \in SUBSET (Memory \X Levels)  BY <1>4 DEF Lists
  <1>8. Fits(B, c, Top)
    BY <1>4, <1>5, <1>6, <1>7, TopLevel DEF Fits
  <1>9. c \in Memory /\ \A j : <<c, j>> \notin B
    <2>1. Joined(B \cup {<<c, Top>>}, B, c, Top)  BY <1>8, BlockAdded
    <2> QED  BY <2>1 DEF Joined
  <1>10. n = push_back(next, Top, c)  BY DEF set_memory, Top
  <1>11. Lists(n, B \cup {<<c, Top>>})
    BY <1>4, <1>9, <1>10, TopLevel, PushesBack
  <1>12. ~(Top < Top)  BY TopLevel
  <1>13. Whole(n, U \cup Block(c, Top))
    BY <1>4, <1>8, <1>11, <1>12, BlockJoins
  <1>14. ~is_none(n, Top)
    <2>1. PICK C : C = B \cup {<<c, Top>>}  OBVIOUS
    <2>2. Lists(n, C) /\ <<c, Top>> \in C  BY <1>11, <2>1
    <2> QED  BY <2>2, TopLevel, ListRead
  <1>15. Holding(U \cup Block(c, Top), live, Delivered \cup Block(c, Top))
    BY <1>3, <1>5, HoldingMore
  <1> QED  BY <1>1, <1>5, <1>13, <1>14, <1>15

LEMMA RefillStep ==
    ASSUME Inv, NEW l \in Layouts, NEW c \in Chunks, alloc_refill(l, c)
    PROVE  Inv' /\ (NothingLeaks => NothingLeaks')
  <1>1. PICK n : n = set_memory(next, c)  OBVIOUS
  <1>2. PICK X : X = Block(c, Top)  OBVIOUS
  <1>3. PICK U : U = Cells(Free)  OBVIOUS
  <1>4. PICK D : D = Delivered \cup X  OBVIOUS
  <1>5. /\ c \notin chunks /\ chunks' = chunks \cup {c}
        /\ total_size' = total_size + level2size(Top)
        /\ Take(n, Top, l)
    BY <1>1 DEF alloc_refill, MAX_ALLOCATABLE_BYTES, Top
  <1>6. /\ Whole(n, U \cup X) /\ Holding(U \cup X, live, D)
        /\ X \cap Delivered = {} /\ ~is_none(n, Top)
    BY <1>1, <1>2, <1>3, <1>4, <1>5, Refills
  <1>7. RequiredLevel(l) <= Top
    <2>1. HasLayout(l)  BY DEF HasLayout
    <2> QED  BY <2>1, Required, TopLevel
  <1>8. PICK V : V = U \cup X  OBVIOUS
  <1>9. PICK A : /\ Whole(next', V \ A) /\ Holding(V \ A, live', D)
                 /\ A \subseteq V
                 /\ Areas(live') = Areas(live) \cup A /\ Areas(live) \cap A = {}
                 /\ IsFiniteSet(A) /\ allocated' = allocated + Cardinality(A)
    <2>1. Whole(n, V) /\ Holding(V, live, D)  BY <1>6, <1>8
    <2>2. PICK from : from = Top  OBVIOUS
    <2>3. /\ from \in Levels /\ RequiredLevel(l) <= from
          /\ ~is_none(n, from) /\ Take(n, from, l)
      BY <1>5, <1>6, <1>7, <2>2, TopLevel
    <2> QED  BY <2>1, <2>3, TakeStep
  <1>10. chunks \subseteq Chunks  BY DEF Inv
  <1>11. Delivered' = D /\ chunks' \subseteq Chunks
    <2>1. ChunkCells(chunks \cup {c}) = ChunkCells(chunks) \cup X
      BY <1>2, <1>10, ChunkAdded
    <2> QED  BY <1>4, <1>5, <1>10, <2>1, StateForms
  <1>12. Inv' /\ Cells(Free)' = V \ A
    BY <1>9, <1>11, InvNext
  <1>13. NothingLeaks => NothingLeaks'
    <2> HAVE NothingLeaks
    <2>1. /\ U \cup Areas(live) = Delivered
          /\ total_size = Cardinality(Delivered) /\ allocated = Cardinality(Areas(live))
      BY <1>3, StateForms DEF NothingLeaks
    <2>2. Cardinality(Areas(live')) = Cardinality(Areas(live)) + Cardinality(A)
      BY <1>9, Counted, TakenInMemory
    <2>3. (V \ A) \cup Areas(live') = D
      BY <1>4, <1>8, <1>9, <2>1
    <2>4. IsFiniteSet(X) /\ Cardinality(X) = level2size(Top)
      BY <1>2, BlockCells, ChunkAdded, TopLevel
    <2>5. Cardinality(D) = Cardinality(Delivered) + level2size(Top)
      BY <1>4, <1>6, <2>4, Counted, TakenInMemory
    <2> QED  BY <1>5, <1>9, <1>11, <1>12, <2>1, <2>2, <2>3, <2>5, StateForms DEF NothingLeaks
  <1> QED  BY <1>12, <1>13

LEMMA DeallocStep ==
    ASSUME Inv, NEW r \in live, dealloc(r)
    PROVE  Inv' /\ (AlignFits /\ NothingLeaks => NothingLeaks')
  <1>1. PICK U : U = Cells(Free)  OBVIOUS
  <1>2. PICK B : B = FreeIn(next)  OBVIOUS
  <1>3. PICK level : level = size2level_next_power(r.size)  OBVIOUS
  <1>4. PICK p : p = r.ptr  OBVIOUS
  <1>5. PICK X : X = Block(p, level)  OBVIOUS
  <1>6. /\ next' = Merge(next, p, level)
        /\ allocated' = allocated - level2size(level)
        /\ live' = live \ {r}
        /\ total_size' = total_size /\ chunks' = chunks
    BY <1>3, <1>4 DEF dealloc
  <1>7. Whole(next, U) /\ Holding(U, live, Delivered) /\ chunks \subseteq Chunks
    BY <1>1 DEF Inv
  <1>8. Lists(next, B) /\ Parts(B) /\ Merged(B) /\ Cells(B) = U
    BY <1>2, <1>7, WholeFree
  <1>9. /\ p \in Nat /\ HasLayout(r) /\ p % level2size(RequiredLevel(r)) = 0
        /\ Area(r) \subseteq Delivered /\ Area(r) = Block(p, RequiredLevel(r))
        /\ Area(r) \cap U = {}
    BY <1>4, <1>7 DEF Holding, Areas, Area
  <1>10. /\ RequiredLevel(r) \in Levels /\ level \in Levels /\ level <= RequiredLevel(r)
         /\ r.align <= level2size(level) => RequiredLevel(r) = level
    BY <1>3, <1>9, Required
  <1>11. X \subseteq Area(r) /\ p % level2size(level) = 0
    <2>1. PICK R : R = RequiredLevel(r)  OBVIOUS
    <2>2. R \in Nat /\ level \in Nat /\ level <= R  BY <1>10, <2>1, TopLevel
    <2>3. level2size(level) <= level2size(R) /\ p % level2size(level) = 0
      BY <1>9, <2>1, <2>2, SizesNest
    <2>4. level2size(level) \in Nat /\ level2size(R) \in Nat  BY <2>2, SizeDoubles
    <2>5. \A u \in Int : u \in X <=> p <= u /\ u < p + level2size(level)
      BY <1>5, <1>9, <2>2, BlockCells
    <2>6. \A u \in Int : u \in Area(r) <=> p <= u /\ u < p + level2size(R)
      BY <1>9, <2>1, <2>2, BlockCells
    <2>7. X \in SUBSET Int  BY <1>5, <1>9, <2>2, BlockCells
    <2> QED  BY <1>9, <2>3, <2>4, <2>5, <2>6, <2>7
  <1>12. Joining(next, p, level, U \cup X)
    <2>1. B \in SUBSET (Memory \X Levels)  BY <1>8 DEF Lists
    <2>2. X \subseteq Memory  BY <1>9, <1>11, TakenInMemory
    <2>3. Block(p, level) \cap Cells(B) = {}  BY <1>5, <1>8, <1>9, <1>11
    <2>4. Fits(B, p, level)
      BY <1>5, <1>8, <1>9, <1>10, <1>11, <2>1, <2>2, <2>3 DEF Fits
    <2> QED  BY <1>5, <1>8, <2>4 DEF Joining
  <1>13. Whole(next', U \cup X)
    <2>1. PICK n : n = next  OBVIOUS
    <2>2. PICK V : V = U \cup X  OBVIOUS
    <2>3. Joining(n, p, level, V)  BY <1>12, <2>1, <2>2
    <2> QED  BY <1>6, <1>10, <2>1, <2>2, <2>3, Merges
  <1>14. /\ Holding(U \cup X, live', Delivered)
         /\ Areas(live') = Areas(live) \ Area(r)
         /\ Area(r) \subseteq Areas(live)
    BY <1>6, <1>7, <1>11, HoldingGive
  <1>15. Delivered' = Delivered  BY <1>6, StateForms
  <1>16. Inv' /\ Cells(Free)' = U \cup X
    BY <1>6, <1>7, <1>13, <1>14, <1>15, InvNext
  <1>17. AlignFits /\ NothingLeaks => NothingLeaks'
    <2> HAVE AlignFits /\ NothingLeaks
    <2>1. /\ U \cup Areas(live) = Delivered
          /\ total_size = Cardinality(Delivered) /\ allocated = Cardinality(Areas(live))
      BY <1>1, StateForms DEF NothingLeaks
    <2>2. X = Area(r)
      <3>1. r.align <= level2size(level)  BY <1>3, <1>9 DEF AlignFits, HasLayout
      <3> QED  BY <1>5, <1>9, <1>10, <3>1
    <2>3. IsFiniteSet(X) /\ Cardinality(X) = level2size(level)
      BY <1>5, <1>9, <1>10, BlockCells, TopLevel
    <2>4. Cardinality(Areas(live')) = Cardinality(Areas(live)) - Cardinality(X)
      BY <1>14, <2>2, <2>3, Counted, TakenInMemory
    <2>5. (U \cup X) \cup Areas(live') = Delivered
      BY <1>14, <2>1, <2>2
    <2> QED  BY <1>6, <1>15, <1>16, <2>1, <2>3, <2>4, <2>5, StateForms DEF NothingLeaks
  <1> QED  BY <1>16, <1>17

LEMMA InvStep ==
    ASSUME Inv, [Next]_vars
    PROVE  Inv' /\ (AlignFits /\ NothingLeaks => NothingLeaks')
  <1>1. CASE \E l \in Layouts : alloc(l)  BY <1>1, AllocStep
  <1>2. CASE \E l \in Layouts, c \in Chunks : alloc_refill(l, c)  BY <1>2, RefillStep
  <1>3. CASE \E r \in live : dealloc(r)  BY <1>3, DeallocStep
  <1>4. CASE UNCHANGED vars
    <2>1. /\ next' = next /\ total_size' = total_size /\ allocated' = allocated
          /\ chunks' = chunks /\ live' = live
      BY <1>4 DEF vars
    <2>2. Free' = Free /\ Delivered' = Delivered /\ Cells(Taken)' = Cells(Taken)
      BY <2>1, StateForms
    <2>3. Inv'  BY <2>1, <2>2 DEF Inv
    <2>4. NothingLeaks => NothingLeaks'  BY <2>1, <2>2 DEF NothingLeaks
    <2> QED  BY <2>3, <2>4
  <1> QED  BY <1>1, <1>2, <1>3, <1>4 DEF Next

LEMMA InvAlways == Spec => []Inv
  <1>1. Init => Inv  BY InvInit
  <1>2. Inv /\ [Next]_vars => Inv'  BY InvStep
  <1> QED  BY <1>1, <1>2, PTL DEF Spec

(***************************************************************************)
(* push, push_back, pop, remove_if, add_with_sort and the two loops that   *)
(* call them: in every state every free list ends, holds no block twice    *)
(* and does not run through memory an allocation may have overwritten.     *)
(***************************************************************************)
THEOREM ListsSound == Spec => []FreeListsSound
  <1>1. Inv => FreeListsSound
    <2> SUFFICES ASSUME Inv, NEW k \in Levels
                 PROVE  JUNK \notin FreeBlocks(k) /\ IsInjective(Nodes(next, k))
      BY DEF FreeListsSound
    <2>1. PICK n : n = next  OBVIOUS
    <2>2. PICK B : B = FreeIn(n)  OBVIOUS
    <2>3. Lists(n, B)  BY <2>1, <2>2, WholeFree DEF Inv
    <2>4. ToSet(Nodes(n, k)) = {p \in Memory : <<p, k>> \in B} /\ IsInjective(Nodes(n, k))
      BY <2>3, ListRead
    <2> QED  BY <2>1, <2>4, MemoryCells DEF FreeBlocks, Cell
  <1> QED  BY <1>1, InvAlways, PTL

(***************************************************************************)
(* alloc and dealloc: whatever layouts are requested, free blocks and      *)
(* allocations are disjoint, lie in memory alloc_heap delivered and are    *)
(* aligned to their size, and every allocation to its layout's alignment.  *)
(***************************************************************************)
THEOREM Disjoint == Spec => []BlocksDisjoint
  <1>1. Inv => BlocksDisjoint
    <2> SUFFICES ASSUME Inv  PROVE BlocksDisjoint
      OBVIOUS
    <2>1. PICK U : U = Cells(Free)  OBVIOUS
    <2>2. Whole(next, U) /\ Holding(U, live, Delivered)
      BY <2>1 DEF Inv
    <2>3. Lists(next, Free) /\ Parts(Free)
      BY <2>2, WholeFree, StateForms
    <2>4. Free \in SUBSET (Memory \X Levels)  BY <2>3 DEF Lists
    <2>5. ASSUME NEW x \in Taken
          PROVE  \E r \in live : /\ x = <<r.ptr, RequiredLevel(r)>>
                                 /\ Area(r) = Block(x[1], x[2])
      BY DEF Taken, Area
    <2>6. ASSUME NEW x \in Free
          PROVE  /\ x[1] % level2size(x[2]) = 0 /\ Block(x[1], x[2]) \subseteq U
      <3>1. x = <<x[1], x[2]>>  BY <2>4
      <3>2. x[1] % level2size(x[2]) = 0  BY <2>3, <3>1 DEF Parts
      <3>3. Block(x[1], x[2]) \subseteq U  BY <2>1, CellsOf
      <3> QED  BY <3>2, <3>3
    <2>7. ASSUME NEW x \in Taken
          PROVE  /\ x[1] % level2size(x[2]) = 0
                 /\ Block(x[1], x[2]) \subseteq Delivered
                 /\ Block(x[1], x[2]) \cap U = {}
      <3>1. PICK r \in live : x = <<r.ptr, RequiredLevel(r)>> /\ Area(r) = Block(x[1], x[2])
        BY <2>5
      <3>2. x[1] = r.ptr /\ x[2] = RequiredLevel(r)  BY <3>1
      <3> QED  BY <2>2, <3>1, <3>2 DEF Holding, Areas
    <2>8. \A x \in Free \cup Taken :
             x[1] % level2size(x[2]) = 0 /\ Block(x[1], x[2]) \subseteq Delivered
      BY <2>2, <2>6, <2>7 DEF Holding
    <2>9. ASSUME NEW x \in Free, NEW y \in Free, x # y
          PROVE  Block(x[1], x[2]) \cap Block(y[1], y[2]) = {}
      <3>1. x = <<x[1], x[2]>> /\ y = <<y[1], y[2]>>  BY <2>4
      <3> QED  BY <2>3, <2>9, <3>1 DEF Parts
    <2>10. ASSUME NEW x \in Taken, NEW y \in Taken, x # y
           PROVE  Block(x[1], x[2]) \cap Block(y[1], y[2]) = {}
      <3>1. PICK r \in live : x = <<r.ptr, RequiredLevel(r)>> /\ Area(r) = Block(x[1], x[2])
        BY <2>5
      <3>2. PICK s \in live : y = <<s.ptr, RequiredLevel(s)>> /\ Area(s) = Block(y[1], y[2])
        BY <2>5
      <3>3. r # s  BY <2>10, <3>1, <3>2
      <3> QED  BY <2>2, <3>1, <3>2, <3>3 DEF Holding
    <2>11. \A x, y \in Free \cup Taken :
              x # y => Block(x[1], x[2]) \cap Block(y[1], y[2]) = {}
      BY <2>6, <2>7, <2>9, <2>10
    <2>12. ASSUME NEW r \in live  PROVE r.ptr % r.align = 0
      <3>1. /\ r.ptr \in Nat /\ HasLayout(r)
            /\ r.ptr % level2size(RequiredLevel(r)) = 0
        BY <2>2 DEF Holding
      <3>2. RequiredLevel(r) \in Levels  BY <3>1, Required
      <3>3. PICK a \in Levels : r.align = level2size(a) /\ a <= RequiredLevel(r)
        BY <3>1, Required
      <3>4. PICK R : R = RequiredLevel(r)  OBVIOUS
      <3>5. R \in Nat /\ a \in Nat /\ a <= R  BY <3>2, <3>3, <3>4, TopLevel
      <3> QED  BY <3>1, <3>3, <3>4, <3>5, SizesNest
    <2> QED  BY <2>8, <2>11, <2>12 DEF BlocksDisjoint
  <1> QED  BY <1>1, InvAlways, PTL

(***************************************************************************)
(* dealloc merges as far as it can and the split loop leaves no pair       *)
(* behind: below the top level no two buddies are ever both free.          *)
(***************************************************************************)
THEOREM FullyMerged == Spec => []Coalesced
  <1>1. Inv => Coalesced
    <2> SUFFICES ASSUME Inv, NEW k \in 0 .. LEVELS - 2, NEW p \in FreeBlocks(k)
                 PROVE  Buddy(p, k) \notin FreeBlocks(k)
      BY DEF Coalesced
    <2>1. PICK n : n = next  OBVIOUS
    <2>2. PICK B : B = FreeIn(n)  OBVIOUS
    <2>3. Lists(n, B) /\ Merged(B)  BY <2>1, <2>2, WholeFree DEF Inv
    <2>4. k \in Levels /\ k < Top  BY LevelsAssumption DEF Levels, Top
    <2>5. FreeBlocks(k) = {x \in Memory : <<x, k>> \in B}
      BY <2>1, <2>3, <2>4, ListRead DEF FreeBlocks
    <2> QED  BY <2>3, <2>4, <2>5 DEF Merged
  <1> QED  BY <1>1, InvAlways, PTL

(***************************************************************************)
(* With layouts whose alignment fits the block their size asks for (see    *)
(* AlignFits), alloc and dealloc lose nothing: all memory alloc_heap       *)
(* delivered is free or allocated, and total_size and allocated count it.  *)
(***************************************************************************)
THEOREM Accounted == AlignFits => (Spec => []NothingLeaks)
  <1> SUFFICES ASSUME AlignFits  PROVE Spec => []NothingLeaks
    OBVIOUS
  <1>1. Init => Inv /\ NothingLeaks  BY InvInit
  <1>2. Inv /\ NothingLeaks /\ [Next]_vars => Inv' /\ NothingLeaks'
    BY InvStep
  <1> QED  BY <1>1, <1>2, PTL DEF Spec
=============================================================================
