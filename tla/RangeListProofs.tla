--------------------------- MODULE RangeListProofs ---------------------------
(***************************************************************************)
(* Proofs about RangeListAllocator.  Every update of a list replaces a run *)
(* of its entries by a few others: a splice.  A splice of a sorted list is *)
(* sorted and covers what the entries cover (Grown, Shrunk).  On blocks,   *)
(* this gives what an operation does to the free and to the used memory    *)
(* (Sound, Total), and from that the invariant Inv of the machine.         *)
(***************************************************************************)
EXTENDS RangeListAllocator, NaturalRecursion, SequenceTheorems, FiniteSetTheorems, TLAPS

(* A range of a list, wherever it lies. *)
Rng == [address : Nat, size : Nat \ {0}]

(* Separated, for any two entries. *)
Sorted(s) == \A i, j \in DOMAIN s : i < j => End(s[i]) < s[j].address

LEMMA RngParts ==
    ASSUME NEW r \in Rng
    PROVE  /\ r.address \in Nat /\ r.size \in Nat \ {0} /\ End(r) \in Nat
           /\ r.address < End(r) /\ End(r) = r.address + r.size
           /\ \A u : u \in Units(r) <=> u \in Int /\ r.address <= u /\ u < End(r)
  <1>1. r.address \in Nat /\ r.size \in Nat \ {0}
    BY DEF Rng
  <1> QED  BY <1>1 DEF End, Units

LEMMA RngSpan ==
    ASSUME NEW a \in Nat, NEW b \in Nat, a < b
    PROVE  Span(a, b) \in Rng /\ Span(a, b).address = a /\ End(Span(a, b)) = b
  BY DEF Span, Region, Rng, End

LEMMA RngRegion ==
    ASSUME NEW a \in Nat, NEW n \in Nat \ {0}
    PROVE  /\ Region(a, n) \in Rng /\ Region(a, n).address = a
           /\ Region(a, n).size = n /\ End(Region(a, n)) = a + n
  BY DEF Region, Rng, End

LEMMA ListParts ==
    ASSUME NEW s \in Seq(Rng)
    PROVE  /\ Len(s) \in Nat /\ DOMAIN s = 1 .. Len(s)
           /\ \A i \in 1 .. Len(s) : s[i] \in Rng
           /\ \A u : u \in Cover(s) <=> \E i \in 1 .. Len(s) : u \in Units(s[i])
  <1>1. Len(s) \in Nat /\ DOMAIN s = 1 .. Len(s)
    BY LenProperties
  <1>2. \A i \in 1 .. Len(s) : s[i] \in Rng
    BY ElementOfSeq
  <1> QED  BY <1>1, <1>2 DEF Cover

-------------------------------------------------------------------------------
(* s with the entries i to j replaced by those of p. *)
Splice(s, i, j, p) == SubSeq(s, 1, i - 1) \o p \o SubSeq(s, j + 1, Len(s))

(* Its entries: the other ones of s keep their order. *)
Spliced(t, s, i, j, p) ==
    /\ t \in Seq(Rng)
    /\ Len(t) = Len(s) + Len(p) - (j - i + 1)
    /\ \A k \in 1 .. Len(t) :
          t[k] = IF k < i THEN s[k]
                 ELSE IF k < i + Len(p) THEN p[k - i + 1]
                 ELSE s[k - Len(p) + (j - i + 1)]

LEMMA SpliceParts ==
    ASSUME NEW s \in Seq(Rng), NEW p \in Seq(Rng),
           NEW i \in 1 .. Len(s) + 1, NEW j \in i - 1 .. Len(s)
    PROVE  Spliced(Splice(s, i, j, p), s, i, j, p)
  <1> DEFINE a == SubSeq(s, 1, i - 1)
             b == SubSeq(s, j + 1, Len(s))
             t == Splice(s, i, j, p)
  <1>1. Len(s) \in Nat /\ Len(p) \in Nat /\ i \in Nat /\ j \in Int
    BY LenProperties
  <1>2. \A k \in 1 .. Len(s) : s[k] \in Rng
    BY ElementOfSeq
  <1>3. /\ a \in Seq(Rng) /\ Len(a) = i - 1
        /\ \A k \in 1 .. i - 1 : a[k] = s[k]
    <2>1. \A k \in 1 .. i - 1 : s[k] \in Rng
      BY <1>1, <1>2
    <2>2. /\ a \in Seq(Rng) /\ Len(a) = IF 1 <= i - 1 THEN (i - 1) - 1 + 1 ELSE 0
          /\ \A k \in 1 .. (i - 1) - 1 + 1 : a[k] = s[1 + k - 1]
      BY <1>1, <2>1, SubSeqProperties
    <2> HIDE DEF a
    <2> QED  BY <1>1, <2>2
  <1>4. /\ b \in Seq(Rng) /\ Len(b) = Len(s) - j
        /\ \A k \in 1 .. Len(s) - j : b[k] = s[j + k]
    <2>1. \A k \in j + 1 .. Len(s) : s[k] \in Rng
      BY <1>1, <1>2
    <2>2. /\ b \in Seq(Rng) /\ Len(b) = IF j + 1 <= Len(s) THEN Len(s) - (j + 1) + 1 ELSE 0
          /\ \A k \in 1 .. Len(s) - (j + 1) + 1 : b[k] = s[(j + 1) + k - 1]
      BY <1>1, <2>1, SubSeqProperties
    <2> HIDE DEF b
    <2> QED  BY <1>1, <2>2
  <1>5. t = (a \o p) \o b
    BY DEF Splice
  <1> HIDE DEF a, b, t
  <1>6. /\ a \o p \in Seq(Rng) /\ Len(a \o p) = Len(a) + Len(p)
        /\ \A k \in 1 .. Len(a) + Len(p) : (a \o p)[k] = IF k <= Len(a) THEN a[k] ELSE p[k - Len(a)]
    BY <1>3, ConcatProperties
  <1> DEFINE c == a \o p
  <1> HIDE DEF c
  <1>7. /\ t \in Seq(Rng) /\ Len(t) = Len(c) + Len(b)
        /\ \A k \in 1 .. Len(c) + Len(b) : t[k] = IF k <= Len(c) THEN c[k] ELSE b[k - Len(c)]
    <2>1. c \in Seq(Rng) /\ t = c \o b
      BY <1>5, <1>6 DEF c
    <2> QED  BY <1>4, <2>1, ConcatProperties
  <1>8. Len(t) = Len(s) + Len(p) - (j - i + 1)
    BY <1>1, <1>3, <1>4, <1>6, <1>7 DEF c
  <1>9. ASSUME NEW k \in 1 .. Len(t)
        PROVE  t[k] = IF k < i THEN s[k]
                      ELSE IF k < i + Len(p) THEN p[k - i + 1]
                      ELSE s[k - Len(p) + (j - i + 1)]
    <2>1. Len(c) = i - 1 + Len(p)
      BY <1>3, <1>6, <1>1 DEF c
    <2>2. CASE k < i
      <3>1. k \in 1 .. i - 1 /\ k <= Len(c) /\ k \in 1 .. Len(a) + Len(p) /\ k <= Len(a) /\ k \in 1 .. Len(c) + Len(b)
        BY <1>1, <1>3, <1>4, <2>1, <2>2
      <3> QED  BY <3>1, <1>3, <1>6, <1>7, <2>2 DEF c
    <2>3. CASE k >= i /\ k < i + Len(p)
      <3>1. k <= Len(c) /\ k \in 1 .. Len(a) + Len(p) /\ ~(k <= Len(a)) /\ k \in 1 .. Len(c) + Len(b) /\ k - Len(a) = k - i + 1
        BY <1>1, <1>3, <1>4, <2>1, <2>3
      <3> QED  BY <3>1, <1>1, <1>6, <1>7, <2>3 DEF c
    <2>4. CASE k >= i + Len(p)
      <3>1. /\ ~(k <= Len(c)) /\ k \in 1 .. Len(c) + Len(b) /\ k - Len(c) \in 1 .. Len(s) - j
            /\ j + (k - Len(c)) = k - Len(p) + (j - i + 1)
            /\ ~(k < i) /\ ~(k < i + Len(p))
        BY <1>1, <1>4, <1>7, <2>1, <2>4
      <3> QED  BY <3>1, <1>4, <1>7
    <2> QED  BY <2>2, <2>3, <2>4, <1>1
  <1> QED  BY <1>7, <1>8, <1>9 DEF t, Spliced

(* The replaced entries are i to j; the others keep their place. *)
LEMMA SpliceSorted ==
    ASSUME NEW s \in Seq(Rng), NEW p \in Seq(Rng), NEW i \in 1 .. Len(s) + 1, NEW j \in i - 1 .. Len(s),
           Sorted(s), Sorted(p),
           \A k \in 1 .. Len(p) : /\ i > 1 => End(s[i - 1]) < p[k].address
                                  /\ j < Len(s) => End(p[k]) < s[j + 1].address
    PROVE  Sorted(Splice(s, i, j, p))
  <1> DEFINE t == Splice(s, i, j, p)
             d == j - i + 1
             m == Len(p)
             n == Len(s)
             old(k) == k - m + d
  <1>1. /\ n \in Nat /\ m \in Nat /\ i \in Nat /\ j \in Int /\ d \in Nat
        /\ DOMAIN s = 1 .. n /\ DOMAIN p = 1 .. m
        /\ \A k \in 1 .. n : s[k] \in Rng
        /\ \A k \in 1 .. m : p[k] \in Rng
    BY ListParts
  <1>2. /\ t \in Seq(Rng) /\ Len(t) = n + m - d
        /\ \A k \in 1 .. Len(t) : t[k] = IF k < i THEN s[k] ELSE IF k < i + m THEN p[k - i + 1] ELSE s[old(k)]
    BY SpliceParts DEF Spliced
  <1>3. DOMAIN t = 1 .. Len(t)
    BY <1>2, LenProperties
  <1> HIDE DEF t
  <1>4. \A k \in 1 .. n : s[k].address \in Nat /\ End(s[k]) \in Nat /\ s[k].address < End(s[k])
    BY <1>1, RngParts
  <1>5. \A k \in 1 .. m : p[k].address \in Nat /\ End(p[k]) \in Nat /\ p[k].address < End(p[k])
    BY <1>1, RngParts
  <1>6. \A k, l \in 1 .. n : k < l => End(s[k]) < s[l].address
    BY <1>1 DEF Sorted
  <1>7. \A k, l \in 1 .. m : k < l => End(p[k]) < p[l].address
    BY <1>1 DEF Sorted
  <1>8. \A l \in 1 .. n, k \in 1 .. m : l < i => End(s[l]) < p[k].address
    <2> SUFFICES ASSUME NEW l \in 1 .. n, NEW k \in 1 .. m, l < i PROVE End(s[l]) < p[k].address
      OBVIOUS
    <2>1. i > 1 /\ i - 1 \in 1 .. n /\ (l = i - 1 \/ l < i - 1)
      BY <1>1
    <2>2. End(s[i - 1]) < p[k].address
      BY <2>1
    <2>3. CASE l < i - 1
      <3>1. End(s[l]) < s[i - 1].address
        BY <1>6, <2>1, <2>3
      <3>2. /\ s[i - 1].address \in Nat /\ End(s[i - 1]) \in Nat /\ s[i - 1].address < End(s[i - 1])
            /\ p[k].address \in Nat /\ End(s[l]) \in Nat
        BY <2>1, <1>4, <1>5
      <3> QED  BY <3>1, <3>2, <2>2
    <2> QED  BY <2>1, <2>2, <2>3
  <1>9. \A l \in 1 .. n, k \in 1 .. m : l > j => End(p[k]) < s[l].address
    <2> SUFFICES ASSUME NEW l \in 1 .. n, NEW k \in 1 .. m, l > j PROVE End(p[k]) < s[l].address
      OBVIOUS
    <2>1. j < Len(s) /\ j + 1 \in 1 .. n /\ (l = j + 1 \/ l > j + 1)
      BY <1>1
    <2>2. End(p[k]) < s[j + 1].address
      BY <2>1
    <2>3. CASE l > j + 1
      <3>1. End(s[j + 1]) < s[l].address
        BY <1>6, <2>1, <2>3
      <3>2. /\ s[j + 1].address \in Nat /\ End(s[j + 1]) \in Nat /\ s[j + 1].address < End(s[j + 1])
            /\ End(p[k]) \in Nat /\ s[l].address \in Nat
        BY <2>1, <1>4, <1>5
      <3> QED  BY <3>1, <3>2, <2>2
    <2> QED  BY <2>1, <2>2, <2>3
  <1> SUFFICES ASSUME NEW k \in 1 .. Len(t), NEW l \in 1 .. Len(t), k < l
               PROVE  End(t[k]) < t[l].address
    BY <1>3 DEF Sorted, t
  <1>a. k < i => t[k] = s[k] /\ k \in 1 .. n
    BY <1>1, <1>2
  <1>b. l < i => t[l] = s[l] /\ l \in 1 .. n
    BY <1>1, <1>2
  <1>c. k >= i /\ k < i + m => t[k] = p[k - i + 1] /\ k - i + 1 \in 1 .. m
    BY <1>1, <1>2
  <1>d. l >= i /\ l < i + m => t[l] = p[l - i + 1] /\ l - i + 1 \in 1 .. m
    BY <1>1, <1>2
  <1>e. k >= i + m => t[k] = s[old(k)] /\ old(k) \in 1 .. n /\ old(k) > j
    BY <1>1, <1>2
  <1>f. l >= i + m => t[l] = s[old(l)] /\ old(l) \in 1 .. n /\ old(l) > j
    BY <1>1, <1>2
  <1>g. CASE k < i
    <2>1. CASE l < i  BY <1>g, <2>1, <1>a, <1>b, <1>6
    <2>2. CASE l >= i /\ l < i + m  BY <1>g, <2>2, <1>a, <1>d, <1>8
    <2>3. CASE l >= i + m
      <3>1. k < old(l)  BY <1>1, <1>g, <1>f, <2>3
      <3> HIDE DEF old
      <3> QED  BY <1>g, <2>3, <1>a, <1>f, <1>6, <3>1
    <2> QED  BY <2>1, <2>2, <2>3, <1>1, <1>2
  <1>h. CASE k >= i /\ k < i + m
    <2>2. CASE l >= i /\ l < i + m
      <3>1. k - i + 1 < l - i + 1  BY <1>1, <1>2
      <3> QED  BY <1>h, <2>2, <1>c, <1>d, <1>7, <3>1
    <2>3. CASE l >= i + m
      <3> HIDE DEF old
      <3> QED  BY <1>h, <2>3, <1>c, <1>f, <1>9
    <2> QED  BY <2>2, <2>3, <1>1, <1>2, <1>h
  <1>i. CASE k >= i + m
    <2>1. l >= i + m /\ old(k) < old(l)
      BY <1>i, <1>1, <1>2
    <2> HIDE DEF old
    <2> QED  BY <1>i, <2>1, <1>e, <1>f, <1>6
  <1> QED  BY <1>g, <1>h, <1>i, <1>1, <1>2

LEMMA SpliceCover ==
    ASSUME NEW s \in Seq(Rng), NEW p \in Seq(Rng), NEW i \in 1 .. Len(s) + 1, NEW j \in i - 1 .. Len(s), NEW u
    PROVE  u \in Cover(Splice(s, i, j, p)) <=>
              \/ \E k \in 1 .. Len(s) : (k < i \/ k > j) /\ u \in Units(s[k])
              \/ u \in Cover(p)
  <1> DEFINE t == Splice(s, i, j, p)
             d == j - i + 1
             m == Len(p)
             n == Len(s)
             old(k) == k - m + d
  <1>1. /\ n \in Nat /\ m \in Nat /\ i \in Nat /\ j \in Int /\ d \in Nat
    BY ListParts
  <1>2. /\ t \in Seq(Rng) /\ Len(t) = n + m - d
        /\ \A k \in 1 .. Len(t) : t[k] = IF k < i THEN s[k] ELSE IF k < i + m THEN p[k - i + 1] ELSE s[old(k)]
    BY SpliceParts DEF Spliced
  <1>3. u \in Cover(t) <=> \E k \in 1 .. Len(t) : u \in Units(t[k])
    BY <1>2, ListParts
  <1>4. u \in Cover(p) <=> \E k \in 1 .. m : u \in Units(p[k])
    BY ListParts
  <1> HIDE DEF t
  <1>5. ASSUME NEW k \in 1 .. Len(t), u \in Units(t[k])
        PROVE  \/ \E l \in 1 .. n : (l < i \/ l > j) /\ u \in Units(s[l])
               \/ \E l \in 1 .. m : u \in Units(p[l])
    <2>1. CASE k < i
      <3>1. k \in 1 .. n /\ t[k] = s[k]  BY <2>1, <1>1, <1>2
      <3> QED  BY <1>5, <2>1, <3>1
    <2>2. CASE k >= i /\ k < i + m
      <3>1. k - i + 1 \in 1 .. m /\ t[k] = p[k - i + 1]  BY <2>2, <1>1, <1>2
      <3> QED  BY <1>5, <3>1
    <2>3. CASE k >= i + m
      <3>1. old(k) \in 1 .. n /\ old(k) > j /\ t[k] = s[old(k)]  BY <2>3, <1>1, <1>2
      <3> HIDE DEF old
      <3> QED  BY <1>5, <3>1
    <2> QED  BY <2>1, <2>2, <2>3, <1>1, <1>2
  <1>6. ASSUME NEW l \in 1 .. n, l < i \/ l > j, u \in Units(s[l])
        PROVE  \E k \in 1 .. Len(t) : u \in Units(t[k])
    <2>1. CASE l < i
      <3>1. l \in 1 .. Len(t) /\ t[l] = s[l]  BY <2>1, <1>1, <1>2
      <3> QED  BY <1>6, <3>1
    <2>2. CASE l > j
      <3>1. l + m - d \in 1 .. Len(t) /\ l + m - d >= i + m /\ old(l + m - d) = l  BY <2>2, <1>1, <1>2
      <3>2. ~(l + m - d < i) /\ ~(l + m - d < i + m)  BY <3>1, <1>1
      <3> HIDE DEF old
      <3>3. t[l + m - d] = s[l]  BY <3>1, <3>2, <1>2
      <3> QED  BY <1>6, <3>1, <3>3
    <2> QED  BY <1>6, <2>1, <2>2
  <1>7. ASSUME NEW l \in 1 .. m, u \in Units(p[l])
        PROVE  \E k \in 1 .. Len(t) : u \in Units(t[k])
    <2>1. l + i - 1 \in 1 .. Len(t) /\ ~(l + i - 1 < i) /\ l + i - 1 < i + m /\ (l + i - 1) - i + 1 = l
      BY <1>1, <1>2
    <2>2. t[l + i - 1] = p[l]  BY <2>1, <1>2
    <2> QED  BY <1>7, <2>1, <2>2
  <1> QED  BY <1>3, <1>4, <1>5, <1>6, <1>7 DEF t

(* The list operations as splices. *)
LEMMA InsertIsSplice ==
    ASSUME NEW s \in Seq(Rng), NEW x \in 1 .. Len(s) + 1, NEW e
    PROVE  InsertAt(s, x, e) = Splice(s, x, x - 1, <<e>>)
  <1>1. (x - 1) + 1 = x  BY ListParts
  <1> QED  BY <1>1 DEF InsertAt, Splice

LEMMA RemoveIsSplice ==
    ASSUME NEW s \in Seq(Rng), NEW x \in 1 .. Len(s)
    PROVE  RemoveAt(s, x) = Splice(s, x, x, <<>>)
  <1> DEFINE a == SubSeq(s, 1, x - 1)
  <1>1. x \in Int /\ \A k \in 1 .. x - 1 : s[k] \in Rng
    BY ListParts
  <1>2. a \in Seq(Rng)
    BY <1>1, SubSeqProperties
  <1>3. a \o <<>> = a
    BY <1>2, ConcatEmptySeq
  <1> QED  BY <1>3 DEF RemoveAt, Splice

LEMMA OneAndTwo ==
    ASSUME NEW S, NEW e \in S, NEW f \in S
    PROVE  /\ <<e>> \in Seq(S) /\ Len(<<e>>) = 1 /\ <<e>>[1] = e
           /\ <<e, f>> \in Seq(S) /\ Len(<<e, f>>) = 2 /\ <<e, f>>[1] = e /\ <<e, f>>[2] = f
  OBVIOUS

LEMMA ExceptIsSplice ==
    ASSUME NEW s \in Seq(Rng), NEW x \in 1 .. Len(s), NEW e \in Rng
    PROVE  [s EXCEPT ![x] = e] = Splice(s, x, x, <<e>>)
  <1> DEFINE t == Splice(s, x, x, <<e>>)
             v == [s EXCEPT ![x] = e]
  <1>1. Len(s) \in Nat /\ x \in Nat
    BY ListParts
  <1>2. x \in 1 .. Len(s) + 1 /\ x \in x - 1 .. Len(s) /\ x - x + 1 = 1 /\ Len(s) + 1 - 1 = Len(s)
    BY <1>1
  <1>3. /\ t \in Seq(Rng) /\ Len(t) = Len(s) + 1 - (x - x + 1)
        /\ \A k \in 1 .. Len(t) :
              t[k] = IF k < x THEN s[k] ELSE IF k < x + 1 THEN <<e>>[k - x + 1]
                     ELSE s[k - 1 + (x - x + 1)]
    <2> DEFINE p == <<e>>
    <2>1. p \in Seq(Rng) /\ Len(p) = 1
      BY OneAndTwo
    <2> HIDE DEF p
    <2>2. /\ t \in Seq(Rng) /\ Len(t) = Len(s) + Len(p) - (x - x + 1)
          /\ \A k \in 1 .. Len(t) :
                t[k] = IF k < x THEN s[k] ELSE IF k < x + Len(p) THEN p[k - x + 1]
                       ELSE s[k - Len(p) + (x - x + 1)]
      BY <1>2, <2>1, SpliceParts DEF p, Spliced
    <2> HIDE DEF t
    <2> QED  BY <2>1, <2>2 DEF p
  <1>4. v \in Seq(Rng) /\ Len(v) = Len(s) /\ \A k \in 1 .. Len(s) : v[k] = IF k = x THEN e ELSE s[k]
    BY ExceptSeq
  <1> HIDE DEF t, v
  <1>5. ASSUME NEW k \in 1 .. Len(s)  PROVE v[k] = t[k]
    <2>1. k \in 1 .. Len(t) /\ k \in Int
      BY <1>1, <1>2, <1>3
    <2>2. CASE k < x  BY <2>1, <2>2, <1>1, <1>3, <1>4
    <2>3. CASE k = x
      <3>1. ~(k < x) /\ k < x + 1 /\ k - x + 1 = 1  BY <2>3, <1>1
      <3> QED  BY <2>1, <2>3, <3>1, <1>3, <1>4, OneAndTwo
    <2>4. CASE k > x
      <3>1. ~(k < x) /\ ~(k < x + 1) /\ k - 1 + (x - x + 1) = k /\ k # x  BY <2>1, <2>4, <1>1
      <3> QED  BY <2>1, <3>1, <1>3, <1>4
    <2> QED  BY <2>1, <2>2, <2>3, <2>4, <1>1
  <1>6. Len(t) = Len(v)
    BY <1>2, <1>3, <1>4
  <1>7. v = t
    BY <1>3, <1>4, <1>5, <1>6, SeqEqual
  <1> QED  BY <1>7 DEF t, v

LEMMA MergeIsSplice ==
    ASSUME NEW s \in Seq(Rng), NEW x \in 2 .. Len(s), NEW e \in Rng
    PROVE  RemoveAt([s EXCEPT ![x - 1] = e], x) = Splice(s, x - 1, x, <<e>>)
  <1> DEFINE v == [s EXCEPT ![x - 1] = e]
             t == Splice(s, x - 1, x, <<e>>)
             w == Splice(v, x, x, <<>>)
  <1>1. Len(s) \in Nat /\ x \in Nat /\ x - 1 \in 1 .. Len(s) + 1 /\ x \in (x - 1) - 1 .. Len(s)
        /\ x \in 1 .. Len(s) + 1 /\ x \in x - 1 .. Len(s) /\ x - 1 \in 1 .. Len(s) /\ x \in 1 .. Len(s)
    BY ListParts
  <1>2. v \in Seq(Rng) /\ Len(v) = Len(s)
        /\ \A k \in 1 .. Len(s) : v[k] = IF k = x - 1 THEN e ELSE s[k]
    BY <1>1, ExceptSeq
  <1>3. /\ t \in Seq(Rng) /\ Len(t) = Len(s) + 1 - (x - (x - 1) + 1)
        /\ \A k \in 1 .. Len(t) :
              t[k] = IF k < x - 1 THEN s[k] ELSE IF k < (x - 1) + 1 THEN <<e>>[k - (x - 1) + 1]
                     ELSE s[k - 1 + (x - (x - 1) + 1)]
    <2> DEFINE p == <<e>>
               y == x - 1
    <2>1. p \in Seq(Rng) /\ Len(p) = 1
      BY OneAndTwo
    <2>2. y \in 1 .. Len(s) + 1 /\ x \in y - 1 .. Len(s) /\ t = Splice(s, y, x, p)
      BY <1>1
    <2> HIDE DEF p, y, t
    <2>3. /\ t \in Seq(Rng) /\ Len(t) = Len(s) + Len(p) - (x - y + 1)
          /\ \A k \in 1 .. Len(t) :
                t[k] = IF k < y THEN s[k] ELSE IF k < y + Len(p) THEN p[k - y + 1]
                       ELSE s[k - Len(p) + (x - y + 1)]
      BY <2>1, <2>2, SpliceParts DEF Spliced
    <2> QED  BY <2>1, <2>3 DEF p, y
  <1> HIDE DEF t, v
  <1>4. /\ w \in Seq(Rng) /\ Len(w) = Len(v) + 0 - (x - x + 1)
        /\ \A k \in 1 .. Len(w) :
              w[k] = IF k < x THEN v[k] ELSE IF k < x + 0 THEN <<>>[k - x + 1]
                     ELSE v[k - 0 + (x - x + 1)]
    <2> DEFINE p == <<>>
    <2>1. p \in Seq(Rng) /\ Len(p) = 0
      BY EmptySeq
    <2>2. w = Splice(v, x, x, p) /\ x \in 1 .. Len(v) + 1 /\ x \in x - 1 .. Len(v)
      BY <1>1, <1>2
    <2> HIDE DEF p, w
    <2>3. /\ w \in Seq(Rng) /\ Len(w) = Len(v) + Len(p) - (x - x + 1)
          /\ \A k \in 1 .. Len(w) :
                w[k] = IF k < x THEN v[k] ELSE IF k < x + Len(p) THEN p[k - x + 1]
                       ELSE v[k - Len(p) + (x - x + 1)]
      <3>1. Spliced(w, v, x, x, p)
        BY <1>2, <2>1, <2>2, SpliceParts
      <3> QED  BY <3>1 DEF Spliced
    <2> QED  BY <2>1, <2>3 DEF p
  <1> HIDE DEF w
  <1>5. Len(w) = Len(t) /\ Len(w) = Len(s) - 1
    BY <1>1, <1>2, <1>3, <1>4
  <1>6. ASSUME NEW k \in 1 .. Len(w)  PROVE w[k] = t[k]
    <2>1. k \in 1 .. Len(t) /\ k \in Int /\ k \in 1 .. Len(s)
      BY <1>1, <1>5
    <2>2. CASE k < x - 1
      <3>1. k < x /\ k # x - 1  BY <2>2, <2>1, <1>1
      <3> QED  BY <2>1, <2>2, <3>1, <1>2, <1>3, <1>4
    <2>3. CASE k = x - 1
      <3>1. k < x /\ ~(k < x - 1) /\ k < (x - 1) + 1 /\ k - (x - 1) + 1 = 1  BY <2>3, <1>1
      <3> QED  BY <2>1, <2>3, <3>1, <1>2, <1>3, <1>4, OneAndTwo
    <2>4. CASE k > x - 1
      <3>1. /\ ~(k < x) /\ ~(k < x + 0) /\ ~(k < x - 1) /\ ~(k < (x - 1) + 1)
            /\ k - 1 + (x - (x - 1) + 1) = k + 1
            /\ k - 0 + (x - x + 1) = k + 1 /\ k + 1 # x - 1 /\ k + 1 \in 1 .. Len(s)
        BY <2>1, <2>4, <1>1, <1>5
      <3> QED  BY <2>1, <3>1, <1>2, <1>3, <1>4
    <2> QED  BY <2>1, <2>2, <2>3, <2>4, <1>1
  <1>7. w = t
    BY <1>3, <1>4, <1>5, <1>6, SeqEqual
  <1>8. RemoveAt(v, x) = w
    BY <1>1, <1>2, RemoveIsSplice DEF w
  <1> QED  BY <1>7, <1>8 DEF t, v

LEMMA CutIsSplice ==
    ASSUME NEW s \in Seq(Rng), NEW i \in 1 .. Len(s), NEW e \in Rng, NEW f \in Rng
    PROVE  InsertAt([s EXCEPT ![i] = e], i + 1, f) = Splice(s, i, i, <<e, f>>)
  <1> DEFINE v == [s EXCEPT ![i] = e]
             p == <<e, f>>
             q == <<f>>
             y == i + 1
             t == Splice(s, i, i, p)
             w == Splice(v, y, i, q)
  <1>1. /\ Len(s) \in Nat /\ i \in Nat /\ y = i + 1
        /\ i \in 1 .. Len(s) + 1 /\ i \in i - 1 .. Len(s)
        /\ y \in 1 .. Len(s) + 1 /\ i \in y - 1 .. Len(s)
    BY ListParts
  <1>2. v \in Seq(Rng) /\ Len(v) = Len(s)
        /\ \A k \in 1 .. Len(s) : v[k] = IF k = i THEN e ELSE s[k]
    BY <1>1, ExceptSeq
  <1>3. /\ p \in Seq(Rng) /\ Len(p) = 2 /\ p[1] = e /\ p[2] = f
        /\ q \in Seq(Rng) /\ Len(q) = 1 /\ q[1] = f
    BY OneAndTwo
  <1>4. InsertAt(v, y, f) = w
    <2>1. y - 1 = i  BY <1>1
    <2>2. y \in 1 .. Len(v) + 1  BY <1>1, <1>2
    <2> HIDE DEF v, y
    <2>3. InsertAt(v, y, f) = Splice(v, y, y - 1, <<f>>)
      BY <1>2, <2>2, InsertIsSplice
    <2> QED  BY <2>1, <2>3
  <1> HIDE DEF v, p, q, y
  <1>5. /\ t \in Seq(Rng) /\ Len(t) = Len(s) + Len(p) - (i - i + 1)
        /\ \A k \in 1 .. Len(t) :
              t[k] = IF k < i THEN s[k] ELSE IF k < i + Len(p) THEN p[k - i + 1]
                     ELSE s[k - Len(p) + (i - i + 1)]
    BY <1>1, <1>3, SpliceParts DEF Spliced
  <1>6. /\ w \in Seq(Rng) /\ Len(w) = Len(v) + Len(q) - (i - y + 1)
        /\ \A k \in 1 .. Len(w) :
              w[k] = IF k < y THEN v[k] ELSE IF k < y + Len(q) THEN q[k - y + 1]
                     ELSE v[k - Len(q) + (i - y + 1)]
    <2>1. y \in 1 .. Len(v) + 1 /\ i \in y - 1 .. Len(v)
      BY <1>1, <1>2
    <2> QED  BY <1>2, <1>3, <2>1, SpliceParts DEF Spliced
  <1> HIDE DEF t, w
  <1>7. Len(w) = Len(t) /\ Len(w) = Len(s) + 1
    BY <1>1, <1>2, <1>3, <1>5, <1>6
  <1>8. ASSUME NEW k \in 1 .. Len(w)  PROVE w[k] = t[k]
    <2>1. k \in 1 .. Len(t) /\ k \in Int
      BY <1>1, <1>7
    <2>2. CASE k < i
      <3>1. k < y /\ k # i /\ k \in 1 .. Len(s)  BY <2>2, <2>1, <1>1
      <3> QED  BY <2>1, <2>2, <3>1, <1>2, <1>5, <1>6
    <2>3. CASE k = i
      <3>1. k < y /\ ~(k < i) /\ k < i + Len(p) /\ k - i + 1 = 1  BY <2>3, <1>1, <1>3
      <3> QED  BY <2>1, <2>3, <3>1, <1>2, <1>3, <1>5, <1>6
    <2>4. CASE k = i + 1
      <3>1. /\ ~(k < y) /\ k < y + Len(q) /\ k - y + 1 = 1
            /\ ~(k < i) /\ k < i + Len(p) /\ k - i + 1 = 2
        BY <2>4, <1>1, <1>3
      <3> QED  BY <2>1, <3>1, <1>3, <1>5, <1>6
    <2>5. CASE k > i + 1
      <3>1. /\ ~(k < y) /\ ~(k < y + Len(q)) /\ ~(k < i) /\ ~(k < i + Len(p))
            /\ k - Len(p) + (i - i + 1) = k - 1 /\ k - Len(q) + (i - y + 1) = k - 1
            /\ k - 1 # i /\ k - 1 \in 1 .. Len(s)
        BY <2>1, <2>5, <1>1, <1>3, <1>7
      <3> QED  BY <2>1, <3>1, <1>2, <1>5, <1>6
    <2> QED  BY <2>1, <2>2, <2>3, <2>4, <2>5, <1>1
  <1>9. w = t
    BY <1>5, <1>6, <1>7, <1>8, SeqEqual
  <1> QED  BY <1>4, <1>9 DEF t, v, p, y

-------------------------------------------------------------------------------
(* Searching *)

(* In a sorted list the search finds where the addresses pass a. *)
LEMMA SearchSplits ==
    ASSUME NEW s \in Seq(Rng), Sorted(s), NEW a \in Nat
    PROVE  /\ SearchIndex(s, a) \in 1 .. Len(s) + 1
           /\ \A i \in 1 .. Len(s) : s[i].address < a <=> i < SearchIndex(s, a)
  <1> DEFINE n == Len(s)
             Q == {i \in 1 .. n + 1 : i = n + 1 \/ ~(s[i].address < a)}
             x == Min(Q)
             P == {i \in DOMAIN s : s[i].address < a}
  <1>1. n \in Nat /\ DOMAIN s = 1 .. n /\ \A i \in 1 .. n : s[i] \in Rng
    BY ListParts
  <1>2. \A i \in 1 .. n : s[i].address \in Nat /\ End(s[i]) \in Nat /\ s[i].address < End(s[i])
    BY <1>1, RngParts
  <1>3. Q \in SUBSET Nat /\ Q # {}
    BY <1>1
  <1>4. x \in Q /\ \A y \in Q : x <= y
    <2> HIDE DEF Q
    <2> QED  BY <1>3, LeastOf
  <1> HIDE DEF x
  <1>5. x \in Nat /\ x \in 1 .. n + 1
    BY <1>1, <1>4
  <1>6. ASSUME NEW i \in 1 .. n  PROVE s[i].address < a <=> i < x
    <2>1. CASE i < x
      <3>1. i \notin Q  BY <2>1, <1>1, <1>4, <1>5
      <3>2. i \in 1 .. n + 1  BY <1>1
      <3> QED  BY <2>1, <3>1, <3>2
    <2>2. CASE i = x
      BY <2>2, <1>1, <1>4
    <2>3. CASE i > x
      <3>1. x \in 1 .. n /\ x < i /\ ~(s[x].address < a)  BY <2>3, <1>1, <1>4, <1>5
      <3>2. End(s[x]) < s[i].address  BY <3>1, <1>1 DEF Sorted
      <3> QED  BY <3>1, <3>2, <1>2, <1>5
    <2> QED  BY <2>1, <2>2, <2>3, <1>1, <1>5
  <1>7. P = 1 .. x - 1
    <2>1. \A i \in P : i \in 1 .. x - 1
      BY <1>1, <1>5, <1>6
    <2>2. \A i \in 1 .. x - 1 : i \in P
      BY <1>1, <1>5, <1>6
    <2> QED  BY <2>1, <2>2
  <1>8. Cardinality(1 .. x - 1) = x - 1
    <2>1. Cardinality(1 .. x - 1) = IF 1 > x - 1 THEN 0 ELSE (x - 1) - 1 + 1
      BY <1>5, FS_Interval
    <2> QED  BY <2>1, <1>5
  <1>9. SearchIndex(s, a) = x
    <2>1. SearchIndex(s, a) = Cardinality(P) + 1
      BY DEF SearchIndex
    <2>2. Cardinality(P) = x - 1
      BY <1>7, <1>8
    <2> HIDE DEF P
    <2> QED  BY <2>1, <2>2, <1>5
  <1> QED  BY <1>5, <1>6, <1>9

(* What lies around the point x found for a. *)
Located(s, a, x) ==
    /\ x \in 1 .. Len(s) + 1 /\ x \in Nat /\ Len(s) \in Nat
    /\ Found(s, a) <=> x <= Len(s) /\ s[x].address = a
    /\ x <= Len(s) /\ ~Found(s, a) => a < s[x].address
    /\ \A i \in 1 .. Len(s) : /\ i < x => s[i].address < a
                              /\ i >= x => s[i].address >= a
                              /\ i > x => s[i].address > a

LEMMA SearchOrder ==
    ASSUME NEW s \in Seq(Rng), Sorted(s), NEW a \in Nat
    PROVE  Located(s, a, SearchIndex(s, a))
  <1> DEFINE x == SearchIndex(s, a)
  <1>1. /\ Len(s) \in Nat /\ DOMAIN s = 1 .. Len(s)
        /\ \A i \in 1 .. Len(s) : s[i] \in Rng
    BY ListParts
  <1>2. \A i \in 1 .. Len(s) : s[i].address \in Nat /\ End(s[i]) \in Nat /\ s[i].address < End(s[i])
    BY <1>1, RngParts
  <1>3. /\ x \in 1 .. Len(s) + 1
        /\ \A i \in 1 .. Len(s) : s[i].address < a <=> i < x
    BY SearchSplits
  <1>4. Found(s, a) <=> x \in 1 .. Len(s) /\ s[x].address = a
    BY <1>1 DEF Found
  <1>5. \A i, j \in 1 .. Len(s) : i < j => End(s[i]) < s[j].address
    BY <1>1 DEF Sorted
  <1>6. \A i \in 1 .. Len(s) : i >= x => s[i].address >= a
    BY <1>1, <1>2, <1>3
  <1>7. \A i \in 1 .. Len(s) : i > x => s[i].address > a
    <2> SUFFICES ASSUME NEW i \in 1 .. Len(s), i > x PROVE s[i].address > a
      OBVIOUS
    <2>1. x \in 1 .. Len(s) /\ s[x].address >= a
      BY <1>1, <1>3, <1>6
    <2>2. End(s[x]) < s[i].address
      BY <2>1, <1>5, <1>1, <1>3
    <2> QED  BY <2>1, <2>2, <1>2
  <1> HIDE DEF x
  <1>8. Located(s, a, x)
    BY <1>1, <1>2, <1>3, <1>4, <1>6, <1>7 DEF Located
  <1> QED  BY <1>8 DEF x

-------------------------------------------------------------------------------
(* Growing a list *)

(* t is s grown by r. *)
Grown(t, s, r) ==
    /\ t \in Seq(Rng) /\ Sorted(t)
    /\ Cover(t) = Cover(s) \cup Units(r)
    /\ Len(t) <= Len(s) + 1

(* r and the entries i to j become the one entry e. *)
LEMMA Merged ==
    ASSUME NEW s \in Seq(Rng), Sorted(s), NEW r \in Rng, NEW e \in Rng,
           NEW i \in 1 .. Len(s) + 1, NEW j \in i - 1 .. Len(s),
           i > 1 => End(s[i - 1]) < e.address,
           j < Len(s) => End(e) < s[j + 1].address,
           \A u : u \in Units(e) <=> u \in Units(r) \/ \E k \in 1 .. Len(s) : i <= k /\ k <= j /\ u \in Units(s[k])
    PROVE  Grown(Splice(s, i, j, <<e>>), s, r)
  <1> DEFINE p == <<e>>
             t == Splice(s, i, j, p)
  <1>1. p \in Seq(Rng) /\ Len(p) = 1 /\ p[1] = e
    BY OneAndTwo
  <1>2. Len(s) \in Nat /\ i \in Int /\ j \in Int /\ j - i + 1 >= 0
    BY ListParts
  <1> HIDE DEF p
  <1>3. Spliced(t, s, i, j, p)
    BY <1>1, SpliceParts
  <1>4. t \in Seq(Rng) /\ Len(t) <= Len(s) + 1
    BY <1>1, <1>2, <1>3 DEF Spliced
  <1>5. Sorted(p)
    <2>1. DOMAIN p = 1 .. 1  BY <1>1, LenProperties
    <2> QED  BY <2>1 DEF Sorted
  <1>6. Sorted(t)
    <2>1. \A k \in 1 .. Len(p) : p[k] = e
      BY <1>1
    <2>2. \A k \in 1 .. Len(p) : /\ i > 1 => End(s[i - 1]) < p[k].address
                                 /\ j < Len(s) => End(p[k]) < s[j + 1].address
      BY <2>1
    <2> QED  BY <1>1, <1>5, <2>2, SpliceSorted
  <1>7. ASSUME NEW u  PROVE u \in Cover(t) <=> u \in Cover(s) \/ u \in Units(r)
    <2>1. u \in Cover(t) <=> \/ \E k \in 1 .. Len(s) : (k < i \/ k > j) /\ u \in Units(s[k])
                             \/ u \in Cover(p)
      BY <1>1, SpliceCover
    <2>2. u \in Cover(p) <=> u \in Units(e)
      <3>1. u \in Cover(p) <=> \E k \in 1 .. Len(p) : u \in Units(p[k])
        BY <1>1, ListParts
      <3>2. 1 \in 1 .. Len(p) /\ \A k \in 1 .. Len(p) : p[k] = e
        BY <1>1
      <3> QED  BY <3>1, <3>2
    <2>3. u \in Cover(s) <=> \E k \in 1 .. Len(s) : u \in Units(s[k])
      BY ListParts
    <2>4. \A k \in 1 .. Len(s) : k < i \/ k > j \/ (i <= k /\ k <= j)
      BY <1>2
    <2> HIDE DEF t
    <2> QED  BY <2>1, <2>2, <2>3, <2>4, Zenon
  <1>8. Cover(t) = Cover(s) \cup Units(r)
    BY <1>7
  <1> QED  BY <1>4, <1>6, <1>8 DEF Grown, p

LEMMA SpanUnits ==
    ASSUME NEW a \in Nat, NEW b \in Nat, a < b
    PROVE  /\ Span(a, b) \in Rng /\ Span(a, b).address = a /\ End(Span(a, b)) = b
           /\ \A u : u \in Units(Span(a, b)) <=> u \in Int /\ a <= u /\ u < b
  <1> DEFINE e == Span(a, b)
  <1>1. e \in Rng /\ e.address = a /\ End(e) = b
    BY RngSpan
  <1> HIDE DEF e
  <1>2. \A u : u \in Units(e) <=> u \in Int /\ a <= u /\ u < b
    BY <1>1, RngParts
  <1> QED  BY <1>1, <1>2 DEF e

(* add_and_merge_region, for a region at an address no entry begins at. *)
LEMMA MergeGrows ==
    ASSUME NEW s \in Seq(Rng), Sorted(s), NEW r \in Rng, ~Found(s, r.address), ~Spans(s, r)
    PROVE  Grown(add_and_merge_region(s, SearchIndex(s, r.address), r), s, r)
  <1> DEFINE x == SearchIndex(s, r.address)
             n == Len(s)
             w == x - 1
             y == x + 1
             pre == PreOverlaps(s, x, r)
             next == NextOverlaps(s, x, r)
             t == add_and_merge_region(s, x, r)
  <1>1. /\ r.address \in Nat /\ End(r) \in Nat /\ r.address < End(r)
        /\ \A u : u \in Units(r) <=> u \in Int /\ r.address <= u /\ u < End(r)
    BY RngParts
  <1>2. /\ x \in 1 .. n + 1 /\ x \in Nat /\ n \in Nat
        /\ x <= n => r.address < s[x].address
        /\ \A i \in 1 .. n : /\ i < x => s[i].address < r.address
                             /\ i > x => s[i].address > r.address
    <2>1. Located(s, r.address, x)
      BY <1>1, SearchOrder
    <2> HIDE DEF x
    <2> QED  BY <2>1 DEF Located
  <1>3. DOMAIN s = 1 .. n /\ \A i \in 1 .. n : s[i] \in Rng
    BY ListParts
  <1>4. \A i \in 1 .. n : /\ s[i].address \in Nat /\ End(s[i]) \in Nat /\ s[i].address < End(s[i])
                          /\ \A u : u \in Units(s[i]) <=> u \in Int /\ s[i].address <= u /\ u < End(s[i])
    BY <1>3, RngParts
  <1>5. \A i, j \in 1 .. n : i < j => End(s[i]) < s[j].address
    BY <1>3 DEF Sorted
  <1>6. \A i, j \in 1 .. n : i < j /\ r.address < s[i].address => End(r) < s[j].address
    BY <1>1, <1>3, <1>4 DEF Spans
  <1>7. /\ t = IF pre THEN IF next THEN RemoveAt([s EXCEPT ![x - 1] =
                                Span(@.address, Larger(End(@), Larger(End(r), End(s[x]))))], x)
                           ELSE [s EXCEPT ![x - 1] = Span(@.address, Larger(End(@), End(r)))]
               ELSE IF next THEN [s EXCEPT ![x] = Span(r.address, Larger(End(@), End(r)))]
                            ELSE InsertAt(s, x, r)
        /\ pre \in BOOLEAN /\ next \in BOOLEAN
        /\ pre <=> x > 1 /\ r.address <= End(s[x - 1])
        /\ next <=> x <= n /\ End(r) >= s[x].address
    BY DEF add_and_merge_region, PreOverlaps, NextOverlaps
  <1> HIDE DEF x, t, pre, next
  <1>8. CASE ~pre /\ ~next
    <2>1. t = Splice(s, x, w, <<r>>)
      BY <1>2, <1>7, <1>8, InsertIsSplice
    <2>2. /\ x \in 1 .. n + 1 /\ w \in x - 1 .. n
          /\ x > 1 => End(s[x - 1]) < r.address
          /\ w < n => End(r) < s[w + 1].address
      <3>1. x > 1 => x - 1 \in 1 .. n /\ End(s[x - 1]) < r.address
        BY <1>1, <1>2, <1>4, <1>7, <1>8
      <3>2. w < n => w + 1 = x /\ x \in 1 .. n /\ End(r) < s[x].address
        BY <1>1, <1>2, <1>4, <1>7, <1>8
      <3> QED  BY <3>1, <3>2, <1>2
    <2>3. \A u : u \in Units(r) <=> \/ u \in Units(r)
                                    \/ \E k \in 1 .. n : x <= k /\ k <= w /\ u \in Units(s[k])
      BY <1>2
    <2> HIDE DEF w
    <2> QED  BY <2>1, <2>2, <2>3, Merged DEF t, x
  <1>9. CASE pre /\ ~next
    <2> DEFINE e == Span(s[w].address, Larger(End(s[w]), End(r)))
    <2>1. w \in 1 .. n /\ w \in Nat /\ r.address <= End(s[w]) /\ s[w].address < r.address
      BY <1>2, <1>7, <1>9
    <2>2. Larger(End(s[w]), End(r)) \in Nat /\ s[w].address < Larger(End(s[w]), End(r))
      BY <2>1, <1>1, <1>4 DEF Larger
    <2>3. /\ e \in Rng /\ e.address = s[w].address /\ End(e) = Larger(End(s[w]), End(r))
          /\ \A u : u \in Units(e) <=> u \in Int /\ s[w].address <= u /\ u < Larger(End(s[w]), End(r))
      BY <2>1, <2>2, <1>4, SpanUnits
    <2>4. t = [s EXCEPT ![w] = e]
      BY <1>7, <1>9
    <2> HIDE DEF e
    <2>5. t = Splice(s, w, w, <<e>>)
      BY <2>1, <2>3, <2>4, ExceptIsSplice
    <2>6. /\ w > 1 => w - 1 \in 1 .. n /\ End(s[w - 1]) < e.address
          /\ w < n => w + 1 \in 1 .. n /\ End(e) < s[w + 1].address
      <3>1. w > 1 => w - 1 \in 1 .. n /\ End(s[w - 1]) < s[w].address
        BY <2>1, <1>2, <1>5
      <3>2. w < n => w + 1 = x /\ x \in 1 .. n /\ End(s[w]) < s[x].address /\ End(r) < s[x].address
        BY <2>1, <1>1, <1>2, <1>4, <1>5, <1>7, <1>9
      <3> QED  BY <3>1, <3>2, <2>3 DEF Larger
    <2>7. ASSUME NEW u
          PROVE  u \in Units(e) <=> \/ u \in Units(r)
                                    \/ \E k \in 1 .. n : w <= k /\ k <= w /\ u \in Units(s[k])
      <3>1. (\E k \in 1 .. n : w <= k /\ k <= w /\ u \in Units(s[k])) <=> u \in Units(s[w])
        <4>1. \A k \in 1 .. n : w <= k /\ k <= w <=> k = w  BY <2>1
        <4> QED  BY <4>1, <2>1
      <3>2. /\ u \in Units(s[w]) <=> u \in Int /\ s[w].address <= u /\ u < End(s[w])
            /\ s[w].address \in Nat /\ End(s[w]) \in Nat
        BY <2>1, <1>4
      <3> QED  BY <3>1, <3>2, <2>1, <2>3, <1>1 DEF Larger
    <2>8. w \in 1 .. n + 1 /\ w \in w - 1 .. n
      BY <2>1, <1>2
    <2> HIDE DEF w
    <2> QED  BY <2>3, <2>5, <2>6, <2>7, <2>8, Merged DEF t, x
  <1>10. CASE ~pre /\ next
    <2> DEFINE e == Span(r.address, Larger(End(s[x]), End(r)))
    <2>1. x \in 1 .. n /\ End(r) >= s[x].address /\ r.address < s[x].address
      BY <1>2, <1>7, <1>10
    <2>2. Larger(End(s[x]), End(r)) \in Nat /\ r.address < Larger(End(s[x]), End(r))
      BY <2>1, <1>1, <1>4 DEF Larger
    <2>3. /\ e \in Rng /\ e.address = r.address /\ End(e) = Larger(End(s[x]), End(r))
          /\ \A u : u \in Units(e) <=> u \in Int /\ r.address <= u /\ u < Larger(End(s[x]), End(r))
      BY <2>1, <2>2, <1>1, SpanUnits
    <2>4. t = [s EXCEPT ![x] = e]
      BY <1>7, <1>10
    <2> HIDE DEF e
    <2>5. t = Splice(s, x, x, <<e>>)
      BY <2>1, <2>3, <2>4, ExceptIsSplice
    <2>6. /\ x > 1 => x - 1 \in 1 .. n /\ End(s[x - 1]) < e.address
          /\ x < n => y \in 1 .. n /\ End(e) < s[y].address
      <3>1. x > 1 => x - 1 \in 1 .. n /\ End(s[x - 1]) < r.address
        BY <2>1, <1>1, <1>2, <1>4, <1>7, <1>10
      <3>2. x < n => y \in 1 .. n /\ x < y /\ End(s[x]) < s[y].address /\ End(r) < s[y].address
        BY <2>1, <1>2, <1>5, <1>6
      <3> QED  BY <3>1, <3>2, <2>3 DEF Larger
    <2>7. ASSUME NEW u
          PROVE  u \in Units(e) <=> \/ u \in Units(r)
                                    \/ \E k \in 1 .. n : x <= k /\ k <= x /\ u \in Units(s[k])
      <3>1. (\E k \in 1 .. n : x <= k /\ k <= x /\ u \in Units(s[k])) <=> u \in Units(s[x])
        <4>1. \A k \in 1 .. n : x <= k /\ k <= x <=> k = x  BY <2>1
        <4> QED  BY <4>1, <2>1
      <3>2. /\ u \in Units(s[x]) <=> u \in Int /\ s[x].address <= u /\ u < End(s[x])
            /\ s[x].address \in Nat /\ End(s[x]) \in Nat
        BY <2>1, <1>4
      <3> QED  BY <3>1, <3>2, <2>1, <2>3, <1>1 DEF Larger
    <2>8. x \in 1 .. n + 1 /\ x \in x - 1 .. n
      BY <2>1, <1>2
    <2> QED  BY <2>3, <2>5, <2>6, <2>7, <2>8, Merged DEF t, x
  <1>11. CASE pre /\ next
    <2> DEFINE m == Larger(End(s[w]), Larger(End(r), End(s[x])))
               e == Span(s[w].address, m)
    <2>1. /\ w \in 1 .. n /\ w \in Nat /\ r.address <= End(s[w]) /\ s[w].address < r.address
          /\ x \in 1 .. n /\ End(r) >= s[x].address /\ r.address < s[x].address
      BY <1>2, <1>7, <1>11
    <2>2. /\ m \in Nat /\ s[w].address < m /\ m >= End(s[w]) /\ m >= End(r) /\ m >= End(s[x])
          /\ m = End(r) \/ m = End(s[x])
      <3>1. End(s[w]) < s[x].address
        BY <2>1, <1>2, <1>5
      <3> QED  BY <3>1, <2>1, <1>1, <1>4 DEF Larger
    <2>3. /\ e \in Rng /\ e.address = s[w].address /\ End(e) = m
          /\ \A u : u \in Units(e) <=> u \in Int /\ s[w].address <= u /\ u < m
      <3> HIDE DEF m
      <3> QED  BY <2>1, <2>2, <1>4, SpanUnits
    <2>4. t = RemoveAt([s EXCEPT ![x - 1] = e], x)
      BY <1>7, <1>11
    <2> HIDE DEF e, m
    <2>5. t = Splice(s, w, x, <<e>>)
      <3>1. x \in 2 .. n  BY <2>1, <1>2
      <3> QED  BY <3>1, <2>3, <2>4, MergeIsSplice
    <2>6. /\ w > 1 => w - 1 \in 1 .. n /\ End(s[w - 1]) < e.address
          /\ x < n => y \in 1 .. n /\ End(e) < s[y].address
      <3>1. w > 1 => w - 1 \in 1 .. n /\ End(s[w - 1]) < s[w].address
        BY <2>1, <1>2, <1>5
      <3>2. x < n => y \in 1 .. n /\ x < y /\ End(s[x]) < s[y].address /\ End(r) < s[y].address
        BY <2>1, <1>2, <1>5, <1>6
      <3> QED  BY <3>1, <3>2, <2>2, <2>3
    <2>7. ASSUME NEW u
          PROVE  u \in Units(e) <=> \/ u \in Units(r)
                                    \/ \E k \in 1 .. n : w <= k /\ k <= x /\ u \in Units(s[k])
      <3>1. (\E k \in 1 .. n : w <= k /\ k <= x /\ u \in Units(s[k])) <=> u \in Units(s[w]) \/ u \in Units(s[x])
        <4>1. \A k \in 1 .. n : w <= k /\ k <= x <=> k = w \/ k = x  BY <2>1, <1>2
        <4> QED  BY <4>1, <2>1
      <3>2. /\ u \in Units(s[w]) <=> u \in Int /\ s[w].address <= u /\ u < End(s[w])
            /\ u \in Units(s[x]) <=> u \in Int /\ s[x].address <= u /\ u < End(s[x])
            /\ s[w].address \in Nat /\ End(s[w]) \in Nat /\ s[x].address \in Nat /\ End(s[x]) \in Nat
        BY <2>1, <1>4
      <3>3. /\ u \in Units(r) <=> u \in Int /\ r.address <= u /\ u < End(r)
            /\ u \in Units(e) <=> u \in Int /\ s[w].address <= u /\ u < m
        BY <2>3, <1>1
      <3>4. /\ r.address \in Nat /\ End(r) \in Nat /\ m \in Nat
            /\ r.address <= End(s[w]) /\ s[w].address < r.address
            /\ End(r) >= s[x].address /\ r.address < s[x].address
            /\ m >= End(s[w]) /\ m >= End(r) /\ m >= End(s[x])
            /\ m = End(r) \/ m = End(s[x])
        BY <2>1, <2>2, <1>1
      <3>5. ASSUME u \in Units(e)
            PROVE  u \in Units(r) \/ u \in Units(s[w]) \/ u \in Units(s[x])
        <4>1. u \in Int /\ s[w].address <= u /\ u < m
          BY <3>3, <3>5
        <4>2. u < End(s[w]) \/ (r.address <= u /\ u < End(r)) \/ (s[x].address <= u /\ u < End(s[x]))
          BY <4>1, <3>2, <3>4
        <4> QED  BY <4>1, <4>2, <3>2, <3>3
      <3>6. ASSUME u \in Units(r) \/ u \in Units(s[w]) \/ u \in Units(s[x])
            PROVE  u \in Units(e)
        <4>1. CASE u \in Units(r)
          BY <4>1, <3>2, <3>3, <3>4
        <4>2. CASE u \in Units(s[w])
          BY <4>2, <3>2, <3>3, <3>4
        <4>3. CASE u \in Units(s[x])
          BY <4>3, <3>2, <3>3, <3>4
        <4> QED  BY <4>1, <4>2, <4>3, <3>6
      <3> QED  BY <3>1, <3>5, <3>6
    <2>8. w \in 1 .. n + 1 /\ x \in w - 1 .. n
      BY <2>1, <1>2
    <2> HIDE DEF w
    <2> QED  BY <2>3, <2>5, <2>6, <2>7, <2>8, Merged DEF t, x
  <1> QED  BY <1>7, <1>8, <1>9, <1>10, <1>11 DEF t, x

(* What is disjoint from a list spans none of it. *)
LEMMA FreshMerges ==
    ASSUME NEW s \in Seq(Rng), Sorted(s), NEW r \in Rng, Units(r) \cap Cover(s) = {}
    PROVE  ~Found(s, r.address) /\ ~Spans(s, r)
  <1>1. /\ r.address \in Nat /\ End(r) \in Nat /\ r.address < End(r)
        /\ \A u : u \in Units(r) <=> u \in Int /\ r.address <= u /\ u < End(r)
    BY RngParts
  <1>2. Len(s) \in Nat /\ DOMAIN s = 1 .. Len(s) /\ \A i \in 1 .. Len(s) : s[i] \in Rng
    BY ListParts
  <1>3. \A i \in 1 .. Len(s) :
           /\ s[i].address \in Nat /\ End(s[i]) \in Nat /\ s[i].address < End(s[i])
           /\ s[i].address \in Units(s[i])
    BY <1>2, RngParts
  <1>4. \A i \in 1 .. Len(s) : s[i].address \notin Units(r)
    <2>1. \A i \in 1 .. Len(s) : s[i].address \in Cover(s)
      BY <1>3, ListParts
    <2> QED  BY <2>1
  <1>5. \A i \in 1 .. Len(s) : s[i].address < r.address \/ s[i].address >= End(r)
    BY <1>1, <1>3, <1>4
  <1>6. ~Found(s, r.address)
    <2>1. Found(s, r.address) => \E i \in 1 .. Len(s) : s[i].address = r.address
      BY <1>2 DEF Found
    <2> QED  BY <2>1, <1>1, <1>5
  <1>7. \A i, j \in 1 .. Len(s) : i < j /\ r.address < s[i].address => End(r) < s[j].address
    <2> SUFFICES ASSUME NEW i \in 1 .. Len(s), NEW j \in 1 .. Len(s), i < j, r.address < s[i].address
                 PROVE  End(r) < s[j].address
      OBVIOUS
    <2>1. End(s[i]) < s[j].address
      BY <1>2 DEF Sorted
    <2>2. End(r) <= s[i].address /\ s[i].address < End(s[i])
      BY <1>1, <1>3, <1>5
    <2> QED  BY <2>1, <2>2, <1>1, <1>3
  <1>8. ~Spans(s, r)
    BY <1>1, <1>2, <1>3, <1>7 DEF Spans
  <1> QED  BY <1>6, <1>8

(* add_reserved_alloc_record and add_free_region_merge, for memory not in the list. *)
LEMMA AddRecordGrows ==
    ASSUME NEW s \in Seq(Rng), Sorted(s), NEW r \in Rng, Units(r) \cap Cover(s) = {}
    PROVE  Grown(AddRecord(s, r), s, r)
  BY FreshMerges, MergeGrows DEF AddRecord

(* add_region_internal, for a region that spans none of the list. *)
LEMMA AddRegionGrows ==
    ASSUME NEW s \in Seq(Rng), Sorted(s), NEW r \in Rng, ~Spans(s, r)
    PROVE  Grown(AddRegion(s, r), s, r)
  <1> DEFINE x == SearchIndex(s, r.address)
             n == Len(s)
             y == x + 1
             t == AddRegion(s, r)
  <1>0. CASE ~Found(s, r.address)
    <2>1. t = add_and_merge_region(s, x, r)
      BY <1>0 DEF AddRegion
    <2> QED  BY <1>0, <2>1, MergeGrows
  <1>1. /\ r.address \in Nat /\ End(r) \in Nat /\ r.address < End(r)
        /\ r.size \in Nat /\ End(r) = r.address + r.size
        /\ \A u : u \in Units(r) <=> u \in Int /\ r.address <= u /\ u < End(r)
    BY RngParts
  <1>2. CASE Found(s, r.address)
    <2>1. x \in Nat /\ n \in Nat /\ x \in 1 .. n /\ s[x].address = r.address
      <3>1. Located(s, r.address, x)
        BY <1>1, SearchOrder
      <3> HIDE DEF x
      <3> QED  BY <1>2, <3>1 DEF Located
    <2>2. DOMAIN s = 1 .. n /\ \A i \in 1 .. n : s[i] \in Rng
      BY ListParts
    <2>3. \A i \in 1 .. n : /\ s[i].address \in Nat /\ End(s[i]) \in Nat /\ s[i].address < End(s[i])
                            /\ s[i].size \in Nat /\ End(s[i]) = s[i].address + s[i].size
                            /\ \A u : u \in Units(s[i]) <=> u \in Int /\ s[i].address <= u /\ u < End(s[i])
      BY <2>2, RngParts
    <2>4. \A i, j \in 1 .. n : i < j => End(s[i]) < s[j].address
      BY <2>2 DEF Sorted
    <2>5. \A i, j \in 1 .. n : i < j /\ r.address < s[i].address => End(r) < s[j].address
      <3> SUFFICES ASSUME NEW i \in 1 .. n, NEW j \in 1 .. n, i < j, r.address < s[i].address
                   PROVE  End(r) < s[j].address
        OBVIOUS
      <3>1. ~(s[j].address <= End(r))
        BY <2>2 DEF Spans
      <3>2. s[j].address \in Nat
        BY <2>3
      <3> QED  BY <3>1, <3>2, <1>1
    <2>6. /\ s[x].address \in Nat /\ End(s[x]) \in Nat /\ s[x].address < End(s[x])
          /\ s[x].size \in Nat /\ End(s[x]) = s[x].address + s[x].size
          /\ \A u : u \in Units(s[x]) <=> u \in Int /\ s[x].address <= u /\ u < End(s[x])
      BY <2>1, <2>3
    <2>7. t = IF r.size <= s[x].size THEN s
              ELSE IF y \in DOMAIN s /\ End(r) >= s[y].address
              THEN RemoveAt([s EXCEPT ![x] = Span(r.address, Larger(End(r), End(s[y])))], y)
              ELSE [s EXCEPT ![x] = r]
      BY <1>2 DEF AddRegion
    <2> HIDE DEF x, t
    <2>8. CASE r.size <= s[x].size
      <3>1. \A u : u \in Units(r) => u \in Units(s[x])
        BY <1>1, <2>1, <2>6, <2>8
      <3>2. \A u : u \in Units(r) => u \in Cover(s)
        BY <3>1, <2>1, ListParts
      <3>3. Cover(s) = Cover(s) \cup Units(r)
        BY <3>2
      <3>4. t = s
        BY <2>7, <2>8
      <3> QED  BY <3>3, <3>4, <2>1 DEF Grown, t
    <2>9. CASE ~(r.size <= s[x].size) /\ y \in DOMAIN s /\ End(r) >= s[y].address
      <3> DEFINE m == Larger(End(r), End(s[y]))
                 e == Span(r.address, m)
      <3>1. /\ y \in 1 .. n /\ y \in 2 .. n /\ y - 1 = x /\ End(s[x]) < s[y].address
            /\ s[y].address \in Nat /\ End(s[y]) \in Nat /\ s[y].address < End(s[y])
            /\ \A u : u \in Units(s[y]) <=> u \in Int /\ s[y].address <= u /\ u < End(s[y])
        BY <2>1, <2>2, <2>3, <2>4, <2>9
      <3>2. /\ m \in Nat /\ r.address < m /\ m >= End(r) /\ m >= End(s[y])
            /\ m = End(r) \/ m = End(s[y])
        BY <3>1, <1>1 DEF Larger
      <3>3. /\ e \in Rng /\ e.address = r.address /\ End(e) = m
            /\ \A u : u \in Units(e) <=> u \in Int /\ r.address <= u /\ u < m
        <4> HIDE DEF m
        <4> QED  BY <3>2, <1>1, SpanUnits
      <3>4. t = RemoveAt([s EXCEPT ![x] = e], y)
        BY <2>7, <2>9
      <3> HIDE DEF e, m, y
      <3>5. t = Splice(s, x, y, <<e>>)
        BY <3>1, <3>3, <3>4, MergeIsSplice
      <3>6. /\ x > 1 => End(s[x - 1]) < e.address
            /\ y < n => End(e) < s[y + 1].address
        <4>1. x > 1 => x - 1 \in 1 .. n /\ End(s[x - 1]) < s[x].address
          BY <2>1, <2>4
        <4>2. y < n => y + 1 \in 1 .. n /\ End(s[y]) < s[y + 1].address /\ End(r) < s[y + 1].address
          <5>1. r.address < s[y].address
            BY <3>1, <2>1, <2>6, <1>1
          <5> QED  BY <3>1, <5>1, <2>1, <2>4, <2>5
        <4> QED  BY <4>1, <4>2, <2>1, <3>2, <3>3
      <3>7. ASSUME NEW u
            PROVE  u \in Units(e) <=> \/ u \in Units(r)
                                      \/ \E k \in 1 .. n : x <= k /\ k <= y /\ u \in Units(s[k])
        <4>1. (\E k \in 1 .. n : x <= k /\ k <= y /\ u \in Units(s[k])) <=> u \in Units(s[x]) \/ u \in Units(s[y])
          <5>1. \A k \in 1 .. n : x <= k /\ k <= y <=> k = x \/ k = y  BY <2>1, <3>1
          <5> QED  BY <5>1, <2>1, <3>1
        <4>2. /\ u \in Units(e) <=> u \in Int /\ r.address <= u /\ u < m
              /\ u \in Units(r) <=> u \in Int /\ r.address <= u /\ u < End(r)
              /\ u \in Units(s[x]) <=> u \in Int /\ r.address <= u /\ u < End(s[x])
              /\ u \in Units(s[y]) <=> u \in Int /\ s[y].address <= u /\ u < End(s[y])
          BY <2>1, <2>6, <3>1, <3>3, <1>1
        <4>3. End(r) >= s[y].address /\ r.address < s[y].address /\ End(s[x]) < s[y].address
          BY <2>1, <2>6, <2>9, <3>1
        <4> QED  BY <4>1, <4>2, <4>3, <2>6, <3>1, <3>2, <1>1
      <3>8. x \in 1 .. n + 1 /\ y \in x - 1 .. n
        BY <2>1, <3>1
      <3> QED  BY <3>3, <3>5, <3>6, <3>7, <3>8, Merged DEF t
    <2>10. CASE ~(r.size <= s[x].size) /\ ~(y \in DOMAIN s /\ End(r) >= s[y].address)
      <3>1. t = Splice(s, x, x, <<r>>)
        BY <2>1, <2>7, <2>10, ExceptIsSplice
      <3>2. /\ x > 1 => End(s[x - 1]) < r.address
            /\ x < n => End(r) < s[x + 1].address
        <4>1. x > 1 => x - 1 \in 1 .. n /\ End(s[x - 1]) < s[x].address
          BY <2>1, <2>4
        <4>2. x < n => x + 1 \in 1 .. n /\ ~(End(r) >= s[x + 1].address)
          BY <2>1, <2>2, <2>10
        <4> QED  BY <4>1, <4>2, <2>1, <2>3, <1>1
      <3>3. ASSUME NEW u
            PROVE  u \in Units(r) <=> \/ u \in Units(r)
                                      \/ \E k \in 1 .. n : x <= k /\ k <= x /\ u \in Units(s[k])
        <4>1. \A k \in 1 .. n : x <= k /\ k <= x => k = x  BY <2>1
        <4>2. u \in Units(s[x]) => u \in Units(r)
          BY <2>1, <2>6, <2>10, <1>1
        <4> QED  BY <4>1, <4>2
      <3>4. x \in 1 .. n + 1 /\ x \in x - 1 .. n
        BY <2>1
      <3> QED  BY <3>1, <3>2, <3>3, <3>4, Merged DEF t
    <2> QED  BY <2>8, <2>9, <2>10 DEF t
  <1> QED  BY <1>0, <1>2

-------------------------------------------------------------------------------
(* Taking memory out of a list *)

(* t is s without r. *)
Shrunk(t, s, r) ==
    /\ t \in Seq(Rng) /\ Sorted(t)
    /\ Cover(t) = Cover(s) \ Units(r)
    /\ Len(t) <= Len(s) + 1

(* r lies in entry i of s. *)
Holds(s, i, r) ==
    i \in 1 .. Len(s) /\ s[i].address <= r.address /\ End(r) <= End(s[i])

(* Entry i becomes the pieces p that r leaves of it. *)
LEMMA Carved ==
    ASSUME NEW s \in Seq(Rng), Sorted(s), NEW r \in Rng, NEW i, Holds(s, i, r),
           NEW p \in Seq(Rng), Sorted(p), Len(p) <= 2,
           \A k \in 1 .. Len(p) : s[i].address <= p[k].address /\ End(p[k]) <= End(s[i]),
           \A u : u \in Cover(p) <=> u \in Units(s[i]) /\ u \notin Units(r)
    PROVE  /\ Shrunk(Splice(s, i, i, p), s, r)
           /\ Len(Splice(s, i, i, p)) = Len(s) - 1 + Len(p)
  <1> DEFINE t == Splice(s, i, i, p)
             n == Len(s)
  <1>1. /\ n \in Nat /\ Len(p) \in Nat /\ i \in 1 .. n /\ i \in Nat
        /\ i \in 1 .. n + 1 /\ i \in i - 1 .. n
        /\ s[i].address <= r.address /\ End(r) <= End(s[i])
    BY ListParts DEF Holds
  <1>2. DOMAIN s = 1 .. n /\ \A k \in 1 .. n : s[k] \in Rng
    BY ListParts
  <1>3. \A k \in 1 .. n : /\ s[k].address \in Nat /\ End(s[k]) \in Nat /\ s[k].address < End(s[k])
                          /\ \A u : u \in Units(s[k]) <=> u \in Int /\ s[k].address <= u /\ u < End(s[k])
    BY <1>2, RngParts
  <1>4. /\ r.address \in Nat /\ End(r) \in Nat /\ r.address < End(r)
        /\ \A u : u \in Units(r) <=> u \in Int /\ r.address <= u /\ u < End(r)
    BY RngParts
  <1>5. \A k, l \in 1 .. n : k < l => End(s[k]) < s[l].address
    BY <1>2 DEF Sorted
  <1>6. Spliced(t, s, i, i, p)
    BY <1>1, SpliceParts
  <1>7. t \in Seq(Rng) /\ Len(t) = n - 1 + Len(p) /\ Len(t) <= n + 1
    BY <1>1, <1>6 DEF Spliced
  <1>8. Sorted(t)
    <2>1. \A k \in 1 .. Len(p) : p[k] \in Rng
      BY ElementOfSeq
    <2>2. \A k \in 1 .. Len(p) : p[k].address \in Nat /\ End(p[k]) \in Nat
      BY <2>1, RngParts
    <2>3. ASSUME NEW k \in 1 .. Len(p)
          PROVE  /\ i > 1 => End(s[i - 1]) < p[k].address
                 /\ i < n => End(p[k]) < s[i + 1].address
      <3>1. i > 1 => i - 1 \in 1 .. n /\ End(s[i - 1]) < s[i].address /\ End(s[i - 1]) \in Nat
        BY <1>1, <1>3, <1>5
      <3>2. i < n => i + 1 \in 1 .. n /\ End(s[i]) < s[i + 1].address /\ s[i + 1].address \in Nat
        BY <1>1, <1>3, <1>5
      <3>3. /\ s[i].address <= p[k].address /\ End(p[k]) <= End(s[i])
            /\ s[i].address \in Nat /\ End(s[i]) \in Nat
        BY <1>1, <1>3
      <3> QED  BY <2>2, <3>1, <3>2, <3>3
    <2> QED  BY <1>1, <2>3, SpliceSorted
  <1>9. ASSUME NEW u  PROVE u \in Cover(t) <=> u \in Cover(s) /\ u \notin Units(r)
    <2>1. u \in Cover(t) <=> \/ \E k \in 1 .. n : (k < i \/ k > i) /\ u \in Units(s[k])
                             \/ u \in Cover(p)
      BY <1>1, SpliceCover
    <2>2. u \in Cover(s) <=> \E k \in 1 .. n : u \in Units(s[k])
      BY ListParts
    <2>3. ASSUME NEW k \in 1 .. n, k < i \/ k > i, u \in Units(s[k])
          PROVE  u \notin Units(r)
      <3>1. u \in Int /\ s[k].address <= u /\ u < End(s[k]) /\ s[k].address \in Nat /\ End(s[k]) \in Nat
        BY <2>3, <1>3
      <3>2. s[i].address \in Nat /\ End(s[i]) \in Nat
        BY <1>1, <1>3
      <3>3. k < i => End(s[k]) < s[i].address
        BY <1>1, <1>5
      <3>4. k > i => End(s[i]) < s[k].address
        BY <1>1, <1>5
      <3> QED  BY <2>3, <3>1, <3>2, <3>3, <3>4, <1>1, <1>4
    <2>4. \A k \in 1 .. n : k < i \/ k > i \/ k = i
      BY <1>1
    <2> HIDE DEF t
    <2> QED  BY <2>1, <2>2, <2>3, <2>4, <1>1, Zenon
  <1>10. Cover(t) = Cover(s) \ Units(r)
    BY <1>9
  <1> QED  BY <1>7, <1>8, <1>10 DEF Shrunk

(* Lists of at most two ranges. *)
LEMMA SmallLists ==
    ASSUME NEW e \in Rng, NEW f \in Rng
    PROVE  /\ Sorted(<<>>) /\ Sorted(<<e>>)
           /\ End(e) < f.address => Sorted(<<e, f>>)
           /\ \A u : /\ u \notin Cover(<<>>)
                     /\ u \in Cover(<<e>>) <=> u \in Units(e)
                     /\ u \in Cover(<<e, f>>) <=> u \in Units(e) \/ u \in Units(f)
  <1>1. /\ DOMAIN <<e>> = {1} /\ <<e>>[1] = e
        /\ DOMAIN <<e, f>> = {1, 2} /\ <<e, f>>[1] = e /\ <<e, f>>[2] = f
        /\ DOMAIN <<>> = {}
    OBVIOUS
  <1>2. Sorted(<<>>) /\ Sorted(<<e>>)
    BY <1>1 DEF Sorted
  <1>3. ASSUME End(e) < f.address  PROVE Sorted(<<e, f>>)
    <2> DEFINE p == <<e, f>>
    <2>1. DOMAIN p = {1, 2} /\ p[1] = e /\ p[2] = f
      OBVIOUS
    <2> HIDE DEF p
    <2>2. Sorted(p)
      BY <1>3, <2>1 DEF Sorted
    <2> QED  BY <2>2 DEF p
  <1>4. \A u : u \in Cover(<<e, f>>) <=> u \in Units(e) \/ u \in Units(f)
    <2> DEFINE p == <<e, f>>
    <2>1. DOMAIN p = {1, 2} /\ p[1] = e /\ p[2] = f
      OBVIOUS
    <2> HIDE DEF p
    <2>2. \A u : u \in Cover(p) <=> u \in Units(e) \/ u \in Units(f)
      BY <2>1 DEF Cover
    <2> QED  BY <2>2 DEF p
  <1>5. \A u : u \in Cover(<<e>>) <=> u \in Units(e)
    BY <1>1 DEF Cover
  <1>6. \A u : u \notin Cover(<<>>)
    BY <1>1 DEF Cover
  <1> QED  BY <1>2, <1>3, <1>4, <1>5, <1>6

(* p is what r leaves of the range e. *)
Leaves(p, e, r) ==
    /\ p \in Seq(Rng) /\ Sorted(p) /\ Len(p) <= 2
    /\ \A k \in 1 .. Len(p) : e.address <= p[k].address /\ End(p[k]) <= End(e)
    /\ \A u : u \in Cover(p) <=> u \in Units(e) /\ u \notin Units(r)

LEMMA Leftover ==
    ASSUME NEW e \in Rng, NEW r \in Rng, e.address <= r.address, End(r) <= End(e)
    PROVE  LET lo == Span(e.address, r.address)
               hi == Span(End(r), End(e))
           IN  /\ e.address = r.address /\ End(r) = End(e) => Leaves(<<>>, e, r)
               /\ e.address < r.address /\ End(r) = End(e) => Leaves(<<lo>>, e, r)
               /\ e.address = r.address /\ End(r) < End(e) => Leaves(<<hi>>, e, r)
               /\ e.address < r.address /\ End(r) < End(e) => Leaves(<<lo, hi>>, e, r)
  <1> DEFINE lo == Span(e.address, r.address)
             hi == Span(End(r), End(e))
  <1>1. /\ e.address \in Nat /\ End(e) \in Nat /\ e.address < End(e)
        /\ r.address \in Nat /\ End(r) \in Nat /\ r.address < End(r)
        /\ \A u : u \in Units(e) <=> u \in Int /\ e.address <= u /\ u < End(e)
        /\ \A u : u \in Units(r) <=> u \in Int /\ r.address <= u /\ u < End(r)
    BY RngParts
  <1>2. e.address < r.address =>
          /\ lo \in Rng /\ lo.address = e.address /\ End(lo) = r.address
          /\ \A u : u \in Units(lo) <=> u \in Int /\ e.address <= u /\ u < r.address
    BY <1>1, SpanUnits
  <1>3. End(r) < End(e) =>
          /\ hi \in Rng /\ hi.address = End(r) /\ End(hi) = End(e)
          /\ \A u : u \in Units(hi) <=> u \in Int /\ End(r) <= u /\ u < End(e)
    BY <1>1, SpanUnits
  <1> HIDE DEF lo, hi
  <1>4. ASSUME e.address = r.address, End(r) = End(e)  PROVE Leaves(<<>>, e, r)
    <2>1. <<>> \in Seq(Rng) /\ Len(<<>>) = 0 /\ Sorted(<<>>) /\ \A u : u \notin Cover(<<>>)
      BY EmptySeq, SmallLists
    <2>2. \A u : u \in Units(e) => u \in Units(r)
      BY <1>1, <1>4
    <2> QED  BY <2>1, <2>2 DEF Leaves
  <1>5. ASSUME e.address < r.address, End(r) = End(e)  PROVE Leaves(<<lo>>, e, r)
    <2> DEFINE p == <<lo>>
    <2>1. /\ p \in Seq(Rng) /\ Len(p) = 1 /\ p[1] = lo /\ Sorted(p)
          /\ \A u : u \in Cover(p) <=> u \in Units(lo)
      BY <1>2, <1>5, OneAndTwo, SmallLists
    <2>2. \A u : u \in Units(lo) <=> u \in Units(e) /\ u \notin Units(r)
      BY <1>1, <1>2, <1>5
    <2> HIDE DEF p
    <2>3. Leaves(p, e, r)
      BY <2>1, <2>2, <1>1, <1>2, <1>5 DEF Leaves
    <2> QED  BY <2>3 DEF p
  <1>6. ASSUME e.address = r.address, End(r) < End(e)  PROVE Leaves(<<hi>>, e, r)
    <2> DEFINE p == <<hi>>
    <2>1. /\ p \in Seq(Rng) /\ Len(p) = 1 /\ p[1] = hi /\ Sorted(p)
          /\ \A u : u \in Cover(p) <=> u \in Units(hi)
      BY <1>3, <1>6, OneAndTwo, SmallLists
    <2>2. \A u : u \in Units(hi) <=> u \in Units(e) /\ u \notin Units(r)
      BY <1>1, <1>3, <1>6
    <2> HIDE DEF p
    <2>3. Leaves(p, e, r)
      BY <2>1, <2>2, <1>1, <1>3, <1>6 DEF Leaves
    <2> QED  BY <2>3 DEF p
  <1>7. ASSUME e.address < r.address, End(r) < End(e)  PROVE Leaves(<<lo, hi>>, e, r)
    <2> DEFINE p == <<lo, hi>>
    <2>1. lo \in Rng /\ hi \in Rng /\ End(lo) < hi.address
      BY <1>1, <1>2, <1>3, <1>7
    <2>2. /\ p \in Seq(Rng) /\ Len(p) = 2 /\ p[1] = lo /\ p[2] = hi /\ Sorted(p)
          /\ \A u : u \in Cover(p) <=> u \in Units(lo) \/ u \in Units(hi)
      BY <2>1, OneAndTwo, SmallLists
    <2>3. \A u : u \in Units(lo) \/ u \in Units(hi) <=> u \in Units(e) /\ u \notin Units(r)
      BY <1>1, <1>2, <1>3, <1>7
    <2> HIDE DEF p
    <2>4. \A k \in 1 .. Len(p) : e.address <= p[k].address /\ End(p[k]) <= End(e)
      BY <2>2, <1>1, <1>2, <1>3, <1>7
    <2>5. Leaves(p, e, r)
      BY <2>2, <2>3, <2>4 DEF Leaves
    <2> QED  BY <2>5 DEF p
  <1> QED  BY <1>4, <1>5, <1>6, <1>7 DEF lo, hi

LEMMA Carves ==
    ASSUME NEW s \in Seq(Rng), Sorted(s), NEW r \in Rng, NEW i, Holds(s, i, r), NEW p,
           Leaves(p, s[i], r)
    PROVE  Shrunk(Splice(s, i, i, p), s, r) /\ Len(Splice(s, i, i, p)) = Len(s) - 1 + Len(p)
  BY Carved DEF Leaves

LEMMA PairConcat ==
    ASSUME NEW e, NEW f
    PROVE  <<e>> \o <<f>> = <<e, f>>
  <1> DEFINE S == {e, f}
             c == <<e>> \o <<f>>
             p == <<e, f>>
  <1>1. <<e>> \in Seq(S) /\ <<f>> \in Seq(S) /\ Len(<<e>>) = 1 /\ Len(<<f>>) = 1
    OBVIOUS
  <1>2. /\ c \in Seq(S) /\ Len(c) = 2 /\ c[1] = e /\ c[2] = f
    BY <1>1, ConcatProperties
  <1>3. /\ p \in Seq(S) /\ Len(p) = 2 /\ p[1] = e /\ p[2] = f
    OBVIOUS
  <1> HIDE DEF c, p, S
  <1>4. \A k \in 1 .. Len(c) : c[k] = p[k]
    BY <1>2, <1>3
  <1>5. c = p
    BY <1>2, <1>3, <1>4, SeqEqual
  <1> QED  BY <1>5 DEF c, p

(* t is s with a region cut out of entry i: one entry more only if it is split. *)
CutFrom(t, s, i, a, size) ==
    /\ Shrunk(t, s, Region(a, size))
    /\ Len(s) - 1 <= Len(t)
    /\ s[i].address < a /\ a + size < End(s[i]) => Len(t) = Len(s) + 1
    /\ ~(s[i].address < a /\ a + size < End(s[i])) => Len(t) <= Len(s)

(* allocate_region_internal's and check_regions' way to cut r out of an entry. *)
LEMMA CutOutShrinks ==
    ASSUME NEW s \in Seq(Rng), Sorted(s), NEW a \in Nat, NEW size \in Nat \ {0},
           NEW i, Holds(s, i, Region(a, size))
    PROVE  CutFrom(CutOut(s, i, a, size), s, i, a, size)
  <1> DEFINE r == Region(a, size)
             e == s[i]
             lo == Span(e.address, a)
             hi == Span(a + size, End(e))
             p == Piece(lo) \o Piece(hi)
             t == CutOut(s, i, a, size)
             n == (IF e.address < a THEN 1 ELSE 0) + (IF a + size < End(e) THEN 1 ELSE 0)
  <1>1. r \in Rng /\ r.address = a /\ End(r) = a + size
    BY RngRegion
  <1>2. i \in 1 .. Len(s) /\ e.address <= a /\ a + size <= End(e)
    BY <1>1 DEF Holds
  <1>3. e \in Rng
    BY <1>2, ListParts
  <1>4. e.address \in Nat /\ End(e) \in Nat
    BY <1>3, RngParts
  <1>5. t = Splice(s, i, i, p)
    BY DEF CutOut, Splice
  <1>6. /\ Piece(lo) = IF e.address < a THEN <<lo>> ELSE <<>>
        /\ Piece(hi) = IF a + size < End(e) THEN <<hi>> ELSE <<>>
    <2>1. lo.size = a - e.address /\ hi.size = End(e) - (a + size)
      BY DEF Span, Region
    <2> HIDE DEF lo, hi
    <2>2. lo.size > 0 <=> e.address < a
      BY <2>1, <1>4
    <2>3. hi.size > 0 <=> a + size < End(e)
      BY <2>1, <1>4
    <2> QED  BY <2>2, <2>3 DEF Piece
  <1>7. Leaves(p, e, r) /\ Len(p) = n
    <2>1. /\ e.address = r.address /\ End(r) = End(e) => Leaves(<<>>, e, r)
          /\ e.address < r.address /\ End(r) = End(e) => Leaves(<<lo>>, e, r)
          /\ e.address = r.address /\ End(r) < End(e) => Leaves(<<hi>>, e, r)
          /\ e.address < r.address /\ End(r) < End(e) => Leaves(<<lo, hi>>, e, r)
      BY <1>1, <1>2, <1>3, Leftover
    <2> HIDE DEF lo, hi, e, r
    <2>2. CASE ~(e.address < a) /\ ~(a + size < End(e))
      <3>1. p = <<>> /\ n = 0  BY <2>2, <1>6
      <3> QED  BY <2>1, <2>2, <3>1, <1>1, <1>2, <1>4
    <2>3. CASE e.address < a /\ ~(a + size < End(e))
      <3>1. p = <<lo>> /\ n = 1  BY <2>3, <1>6
      <3> QED  BY <2>1, <2>3, <3>1, <1>1, <1>2, <1>4
    <2>4. CASE ~(e.address < a) /\ a + size < End(e)
      <3>1. p = <<hi>> /\ n = 1  BY <2>4, <1>6
      <3> QED  BY <2>1, <2>4, <3>1, <1>1, <1>2, <1>4
    <2>5. CASE e.address < a /\ a + size < End(e)
      <3>1. p = <<lo>> \o <<hi>> /\ n = 2  BY <2>5, <1>6
      <3>2. p = <<lo, hi>>  BY <3>1, PairConcat
      <3> QED  BY <2>1, <2>5, <3>1, <3>2, <1>1, <1>2, <1>4
    <2> QED  BY <2>2, <2>3, <2>4, <2>5
  <1> HIDE DEF p, t
  <1>8. Shrunk(t, s, r) /\ Len(t) = Len(s) - 1 + n
    <2> HIDE DEF n
    <2> QED  BY <1>1, <1>5, <1>7, Carves DEF t
  <1>9. n \in 0 .. 2 /\ (e.address < a /\ a + size < End(e) => n = 2)
        /\ (~(e.address < a /\ a + size < End(e)) => n <= 1)
    OBVIOUS
  <1>10. Len(s) \in Nat
    BY ListParts
  <1> HIDE DEF n, e, r
  <1>11. /\ Len(s) - 1 <= Len(t)
         /\ e.address < a /\ a + size < End(e) => Len(t) = Len(s) + 1
         /\ ~(e.address < a /\ a + size < End(e)) => Len(t) <= Len(s)
    BY <1>8, <1>9, <1>10
  <1> QED  BY <1>8, <1>11 DEF CutFrom, t, e, r

(* What a sorted list covers without a gap is in one entry. *)
LEMMA Contained ==
    ASSUME NEW s \in Seq(Rng), Sorted(s), NEW r \in Rng, Units(r) \subseteq Cover(s)
    PROVE  \E i \in 1 .. Len(s) : Holds(s, i, r)
  <1>1. Len(s) \in Nat /\ DOMAIN s = 1 .. Len(s) /\ \A k \in 1 .. Len(s) : s[k] \in Rng
    BY ListParts
  <1>2. \A k \in 1 .. Len(s) :
           /\ s[k].address \in Nat /\ End(s[k]) \in Nat /\ s[k].address < End(s[k])
           /\ \A u : u \in Units(s[k]) <=> u \in Int /\ s[k].address <= u /\ u < End(s[k])
    BY <1>1, RngParts
  <1>3. /\ r.address \in Nat /\ End(r) \in Nat /\ r.address < End(r)
        /\ \A u : u \in Units(r) <=> u \in Int /\ r.address <= u /\ u < End(r)
    BY RngParts
  <1>4. \A u \in Units(r) : \E k \in 1 .. Len(s) : u \in Units(s[k])
    BY ListParts
  <1>5. r.address \in Units(r)
    BY <1>3
  <1>6. PICK i \in 1 .. Len(s) : r.address \in Units(s[i])
    BY <1>4, <1>5
  <1>7. /\ s[i].address <= r.address /\ r.address < End(s[i])
        /\ s[i].address \in Nat /\ End(s[i]) \in Nat
    BY <1>2, <1>6
  <1>8. ASSUME End(s[i]) < End(r)  PROVE FALSE
    <2>1. End(s[i]) \in Units(r)
      BY <1>3, <1>7, <1>8
    <2>2. PICK k \in 1 .. Len(s) : End(s[i]) \in Units(s[k])
      BY <1>4, <2>1
    <2>3. s[k].address <= End(s[i]) /\ End(s[i]) < End(s[k]) /\ s[k].address \in Nat /\ End(s[k]) \in Nat
      BY <1>2, <2>2
    <2>4. k # i  BY <2>3, <1>7
    <2>5. CASE k < i
      <3>1. End(s[k]) < s[i].address  BY <2>5, <1>1 DEF Sorted
      <3> QED  BY <3>1, <2>3, <1>3, <1>7
    <2>6. CASE k > i
      <3>1. End(s[i]) < s[k].address  BY <2>6, <1>1 DEF Sorted
      <3> QED  BY <3>1, <2>3, <1>7
    <2> QED  BY <2>4, <2>5, <2>6, <1>1
  <1> QED  BY <1>3, <1>7, <1>8 DEF Holds

(* remove_reserved_alloc_record, for memory that is recorded. *)
LEMMA RemoveShrinks ==
    ASSUME NEW s \in Seq(Rng), Sorted(s), NEW a \in Nat, NEW size \in Nat \ {0},
           Units(Region(a, size)) \subseteq Cover(s)
    PROVE  Shrunk(remove_reserved_alloc_record(s, a, size), s, Region(a, size))
  <1> DEFINE r == Region(a, size)
             x == SearchIndex(s, a)
             w == x - 1
             to == a + size
             t == remove_reserved_alloc_record(s, a, size)
  <1>1. r \in Rng /\ r.address = a /\ End(r) = to /\ to \in Nat /\ a < to
    <2>1. r \in Rng /\ r.address = a /\ End(r) = to
      BY RngRegion
    <2> HIDE DEF r
    <2> QED  BY <2>1
  <1>2. PICK i \in 1 .. Len(s) : Holds(s, i, r)
    <2> HIDE DEF r
    <2> QED  BY <1>1, Contained DEF r
  <1>3. s[i] \in Rng /\ i \in Nat /\ Len(s) \in Nat
    BY ListParts
  <1>4. /\ s[i].address \in Nat /\ End(s[i]) \in Nat /\ s[i].address <= a /\ to <= End(s[i])
        /\ s[i].size \in Nat /\ End(s[i]) = s[i].address + s[i].size
    BY <1>1, <1>2, <1>3, RngParts DEF Holds
  <1>5. /\ s[i].address = r.address /\ End(r) = End(s[i]) => Leaves(<<>>, s[i], r)
        /\ s[i].address < r.address /\ End(r) = End(s[i]) => Leaves(<<Span(s[i].address, r.address)>>, s[i], r)
        /\ s[i].address = r.address /\ End(r) < End(s[i]) => Leaves(<<Span(End(r), End(s[i]))>>, s[i], r)
        /\ s[i].address < r.address /\ End(r) < End(s[i]) =>
              Leaves(<<Span(s[i].address, r.address), Span(End(r), End(s[i]))>>, s[i], r)
    <2> HIDE DEF r
    <2> QED  BY <1>1, <1>3, <1>4, Leftover
  <1> HIDE DEF r
  <1>6. Located(s, a, x)
    BY SearchOrder
  <1>7. t = IF Found(s, a)
            THEN IF size < s[x].size THEN [s EXCEPT ![x] = Span(to, End(@))] ELSE RemoveAt(s, x)
            ELSE IF x = 1 \/ to > End(s[w]) THEN s
            ELSE IF to = End(s[w]) THEN [s EXCEPT ![w] = Span(@.address, a)]
            ELSE InsertAt([s EXCEPT ![w] = Span(@.address, a)], x, Span(to, End(s[w])))
    BY DEF remove_reserved_alloc_record
  <1> HIDE DEF x, t, to
  <1>8. /\ x \in Nat /\ x \in 1 .. Len(s) + 1
        /\ Found(s, a) => x \in 1 .. Len(s) /\ s[x].address = a
        /\ \A k \in 1 .. Len(s) : /\ k < x => s[k].address < a
                                  /\ k >= x => s[k].address >= a
    BY <1>6, <1>3 DEF Located
  <1>9. \A k, l \in 1 .. Len(s) : k < l => End(s[k]) < s[l].address
    BY ListParts DEF Sorted
  <1>10. \A k \in 1 .. Len(s) : s[k].address \in Nat
    BY ListParts, RngParts
  <1>11. CASE Found(s, a)
    <2>1. i = x
      <3>1. x \in 1 .. Len(s) /\ s[x].address = a
        BY <1>8, <1>11
      <3>2. ~(i < x)
        BY <3>1, <1>1, <1>4, <1>9
      <3>3. ~(i > x)
        <4>1. ASSUME i > x  PROVE FALSE
          <5>1. End(s[x]) < s[i].address  BY <3>1, <4>1, <1>9
          <5>2. s[x] \in Rng  BY <3>1, ListParts
          <5>3. End(s[x]) \in Nat /\ s[x].address < End(s[x])  BY <5>2, RngParts
          <5> QED  BY <3>1, <5>1, <5>3, <1>4
        <4> QED  BY <4>1
      <3> QED  BY <3>2, <3>3, <1>3, <1>8
    <2>2. s[i].address = a /\ (size < s[i].size <=> to < End(s[i]))
      BY <2>1, <1>8, <1>11, <1>4, <1>1 DEF to
    <2>3. CASE size < s[i].size
      <3> DEFINE hi == Span(to, End(s[i]))
      <3>1. to < End(s[i])  BY <2>2, <2>3
      <3>2. hi \in Rng
        BY <3>1, <1>1, <1>4, SpanUnits
      <3>3. t = [s EXCEPT ![i] = hi]
        BY <2>1, <2>3, <1>7, <1>11
      <3>5. t = Splice(s, i, i, <<hi>>)
        <4> HIDE DEF hi
        <4> QED  BY <3>2, <3>3, ExceptIsSplice
      <3>4. Leaves(<<hi>>, s[i], r)
        BY <3>1, <2>2, <1>1, <1>5
      <3> HIDE DEF hi
      <3> QED  BY <3>4, <3>5, <1>1, <1>2, Carves DEF t, r
    <2>4. CASE ~(size < s[i].size)
      <3>1. t = Splice(s, i, i, <<>>)
        BY <2>1, <2>4, <1>7, <1>11, RemoveIsSplice
      <3>2. Leaves(<<>>, s[i], r)
        BY <2>2, <2>4, <1>1, <1>4, <1>5
      <3> QED  BY <3>1, <3>2, <1>1, <1>2, Carves DEF t, r
    <2> QED  BY <2>3, <2>4
  <1>12. CASE ~Found(s, a)
    <2>1. s[i].address < a
      <3>1. s[i].address # a
        <4>1. ASSUME s[i].address = a  PROVE FALSE
          <5>1. i >= x  BY <4>1, <1>8, <1>3, <1>10
          <5>2. x \in 1 .. Len(s) /\ s[x].address >= a  BY <5>1, <1>3, <1>8
          <5>3. s[x].address # a  BY <5>2, <1>6, <1>12, <1>3 DEF Located
          <5>4. i # x  BY <4>1, <5>3
          <5>5. End(s[x]) < s[i].address  BY <5>1, <5>2, <5>4, <1>9, <1>3, <1>8
          <5>6. s[x] \in Rng  BY <5>2, ListParts
          <5>7. End(s[x]) \in Nat /\ s[x].address < End(s[x]) /\ s[x].address \in Nat
            BY <5>6, RngParts
          <5> QED  BY <4>1, <5>2, <5>5, <5>7
        <4> QED  BY <4>1
      <3> QED  BY <3>1, <1>4
    <2>2. i < x
      BY <2>1, <1>3, <1>4, <1>8
    <2>3. i = w
      <3>1. ASSUME i < w  PROVE FALSE
        <4>1. w \in 1 .. Len(s) /\ s[w].address < a  BY <3>1, <1>3, <1>8
        <4>2. End(s[i]) < s[w].address  BY <3>1, <4>1, <1>9
        <4> QED  BY <4>1, <4>2, <1>1, <1>4, <1>10
      <3> QED  BY <3>1, <2>2, <1>3, <1>8
    <2>4. x = i + 1 /\ x # 1 /\ ~(to > End(s[w]))
      BY <2>3, <1>1, <1>3, <1>4, <1>8
    <2> DEFINE lo == Span(s[i].address, a)
               hi == Span(to, End(s[i]))
    <2>5. lo \in Rng
      BY <2>1, <1>4, SpanUnits
    <2> HIDE DEF w
    <2>6. CASE to = End(s[i])
      <3>1. t = Splice(s, i, i, <<lo>>)
        BY <2>3, <2>4, <2>5, <2>6, <1>7, <1>12, ExceptIsSplice
      <3>2. Leaves(<<lo>>, s[i], r)
        BY <2>1, <2>6, <1>1, <1>5
      <3> HIDE DEF lo
      <3> QED  BY <3>1, <3>2, <1>1, <1>2, Carves DEF t, r
    <2>7. CASE to # End(s[i])
      <3>1. to < End(s[i])  BY <2>7, <1>1, <1>4
      <3>2. hi \in Rng
        BY <3>1, <1>1, <1>4, SpanUnits
      <3>3. t = InsertAt([s EXCEPT ![i] = lo], i + 1, hi)
        BY <2>3, <2>4, <2>7, <1>7, <1>12
      <3>4. t = Splice(s, i, i, <<lo, hi>>)
        <4> HIDE DEF lo, hi
        <4> QED  BY <2>5, <3>2, <3>3, CutIsSplice
      <3>5. Leaves(<<lo, hi>>, s[i], r)
        BY <2>1, <3>1, <1>1, <1>5
      <3> HIDE DEF lo, hi
      <3> QED  BY <3>4, <3>5, <1>1, <1>2, Carves DEF t, r
    <2> QED  BY <2>6, <2>7
  <1> QED  BY <1>11, <1>12

-------------------------------------------------------------------------------
(* The operations on a block *)

Faults == {"none", "out_of_memory", "out_of_bounds"}

Blocks == [regions : Seq(Rng), reserved : Seq(Rng), rcap : Nat, vcap : Nat,
           tables : SUBSET Rng, fault : Faults, addr : Int]

(* All that the allocator has, free or recorded as used. *)
Total(b) == Cover(b.regions) \cup Cover(b.reserved)

Apart(S) == \A r, q \in S : r # q => Units(r) \cap Units(q) = {}

(* The lists of a block whose used memory belongs to the owners S. *)
Sound(b, S) ==
    /\ b \in Blocks
    /\ Sorted(b.regions) /\ Sorted(b.reserved)
    /\ Cover(b.regions) \cap Cover(b.reserved) = {}
    /\ b.rcap >= CAPACITY /\ b.vcap >= CAPACITY
    /\ Len(b.regions) <= b.rcap /\ Len(b.reserved) <= b.vcap
    /\ S \subseteq Rng /\ Apart(S)
    /\ Cover(b.reserved) = UnitsOf(S)

(* Room in both tables: n more entries fit. *)
Room(b, n) == Len(b.regions) + n <= b.rcap /\ Len(b.reserved) + n <= b.vcap

(* allocate_region_internal has cut size units at c.addr out of b. *)
Placed(c, b, size) ==
    LET r == Region(c.addr, size)
    IN  /\ c.addr \in Nat
        /\ c \in Blocks
        /\ c.rcap = b.rcap /\ c.vcap = b.vcap /\ c.tables = b.tables /\ c.fault = b.fault
        /\ Units(r) \subseteq Cover(b.regions)
        /\ Shrunk(c.regions, b.regions, r)
        /\ Grown(c.reserved, b.reserved, r)
        /\ Len(c.regions) <= c.rcap /\ Len(c.reserved) <= c.vcap

LEMMA MultipleAbove ==
    ASSUME NEW a \in Nat, NEW al \in Nat \ {0}
    PROVE  NextMultipleOf(a, al) \in Nat /\ a <= NextMultipleOf(a, al)
  <1> DEFINE q == (a + al - 1) \div al
  <1>1. q \in Nat /\ a + al - 1 < al * (q + 1)
    OBVIOUS
  <1> HIDE DEF q
  <1>2. q * al \in Nat /\ a <= q * al
    <2>1. al * (q + 1) = q * al + al
      BY <1>1
    <2>2. q * al \in Nat
      BY <1>1
    <2> QED  BY <2>1, <2>2, <1>1
  <1> QED  BY <1>2 DEF NextMultipleOf, q

LEMMA FirstFits ==
    ASSUME NEW s \in Seq(Rng), NEW size \in Nat \ {0}, NEW al \in Nat \ {0}, Fitting(s, size, al) # {}
    PROVE  LET i == FirstFit(s, size, al)
               a == NextMultipleOf(s[i].address, al)
           IN  a \in Nat /\ Holds(s, i, Region(a, size))
  <1> DEFINE F == Fitting(s, size, al)
             i == FirstFit(s, size, al)
             a == NextMultipleOf(s[i].address, al)
  <1>1. Len(s) \in Nat /\ DOMAIN s = 1 .. Len(s)
    BY ListParts
  <1>2. F \in SUBSET Nat /\ \A k \in F : k \in 1 .. Len(s) /\ Fits(s[k], size, al)
    BY <1>1 DEF Fitting
  <1>3. i \in F
    <2>1. i = Min(F)  BY DEF FirstFit
    <2> HIDE DEF F, i
    <2> QED  BY <1>2, <2>1, LeastOf DEF F
  <1>4. i \in 1 .. Len(s) /\ Fits(s[i], size, al)
    BY <1>2, <1>3
  <1> HIDE DEF i, F
  <1>5. s[i] \in Rng
    BY <1>4, ListParts
  <1>6. s[i].address \in Nat /\ End(s[i]) \in Nat
    BY <1>5, RngParts
  <1>7. a \in Nat /\ s[i].address <= a
    BY <1>6, MultipleAbove
  <1>8. a + size <= End(s[i])
    BY <1>4 DEF Fits
  <1> HIDE DEF a
  <1>9. Region(a, size).address = a /\ End(Region(a, size)) = a + size
    BY <1>7, RngRegion
  <1>10. a \in Nat /\ Holds(s, i, Region(a, size))
    BY <1>4, <1>7, <1>8, <1>9 DEF Holds
  <1> QED  BY <1>10 DEF a, i

LEMMA HeldCovered ==
    ASSUME NEW s \in Seq(Rng), NEW r \in Rng, NEW i, Holds(s, i, r)
    PROVE  Units(r) \subseteq Cover(s)
  <1>1. i \in 1 .. Len(s) /\ s[i].address <= r.address /\ End(r) <= End(s[i])
    BY DEF Holds
  <1>2. s[i] \in Rng
    BY <1>1, ListParts
  <1>3. /\ \A u : u \in Units(s[i]) <=> u \in Int /\ s[i].address <= u /\ u < End(s[i])
        /\ s[i].address \in Nat /\ End(s[i]) \in Nat
    BY <1>2, RngParts
  <1>4. /\ \A u : u \in Units(r) <=> u \in Int /\ r.address <= u /\ u < End(r)
        /\ r.address \in Nat /\ End(r) \in Nat
    BY RngParts
  <1>5. \A u \in Units(r) : u \in Units(s[i])
    BY <1>1, <1>3, <1>4
  <1>6. \A u \in Units(s[i]) : u \in Cover(s)
    BY <1>1, ListParts
  <1> QED  BY <1>5, <1>6

(* The lists after size units are cut out of s at the first fit and recorded in v. *)
PlacedAt(s, v, i, a, size) ==
    /\ a \in Nat
    /\ Units(Region(a, size)) \subseteq Cover(s)
    /\ Shrunk(CutOut(s, i, a, size), s, Region(a, size))
    /\ Grown(AddRecord(v, Region(a, size)), v, Region(a, size))
    /\ Len(CutOut(s, i, a, size)) <= Len(s) + (IF a # s[i].address THEN 1 ELSE 0)

LEMMA PlacedLists ==
    ASSUME NEW s \in Seq(Rng), Sorted(s), NEW v \in Seq(Rng), Sorted(v), Cover(s) \cap Cover(v) = {},
           NEW size \in Nat \ {0}, NEW al \in Nat \ {0}, Fitting(s, size, al) # {}
    PROVE  PlacedAt(s, v, FirstFit(s, size, al),
                    NextMultipleOf(s[FirstFit(s, size, al)].address, al), size)
  <1> DEFINE i == FirstFit(s, size, al)
             a == NextMultipleOf(s[i].address, al)
             r == Region(a, size)
             t == CutOut(s, i, a, size)
  <1>1. a \in Nat /\ Holds(s, i, r)
    BY FirstFits
  <1> HIDE DEF a, i
  <1>2. r \in Rng /\ r.address = a /\ End(r) = a + size
    BY <1>1, RngRegion
  <1>3. CutFrom(t, s, i, a, size)
    BY <1>1, CutOutShrinks
  <1>7. /\ Shrunk(t, s, r)
        /\ Len(t) <= Len(s) + 1
        /\ ~(s[i].address < a) => Len(t) <= Len(s)
    <2> HIDE DEF t
    <2> QED  BY <1>3 DEF CutFrom, Shrunk
  <1> HIDE DEF t, r
  <1>4. Units(r) \subseteq Cover(s)
    BY <1>1, <1>2, HeldCovered
  <1>5. Grown(AddRecord(v, r), v, r)
    <2>1. Units(r) \cap Cover(v) = {}
      BY <1>4
    <2> QED  BY <1>2, <2>1, AddRecordGrows
  <1>6. Len(t) <= Len(s) + (IF a # s[i].address THEN 1 ELSE 0)
    <2>1. i \in 1 .. Len(s) /\ s[i].address <= a
      BY <1>1, <1>2 DEF Holds
    <2>2. s[i] \in Rng /\ Len(s) \in Nat
      BY <2>1, ListParts
    <2>3. s[i].address \in Nat
      BY <2>2, RngParts
    <2>4. CASE s[i].address = a
      <3>1. Len(t) <= Len(s)  BY <2>3, <2>4, <1>7
      <3>2. (IF a # s[i].address THEN 1 ELSE 0) = 0  BY <2>4
      <3> QED  BY <2>2, <3>1, <3>2
    <2>5. CASE s[i].address # a
      <3>2. (IF a # s[i].address THEN 1 ELSE 0) = 1  BY <2>5
      <3> QED  BY <3>2, <1>7
    <2> QED  BY <2>4, <2>5
  <1>8. PlacedAt(s, v, i, a, size)
    BY <1>1, <1>4, <1>5, <1>6, <1>7 DEF t, r, PlacedAt
  <1> QED  BY <1>8 DEF a, i

(***************************************************************************)
(* allocate_region_internal: nothing fits, or a table would overflow, or   *)
(* the memory is cut out of the free list and recorded.                    *)
(***************************************************************************)
LEMMA Placement ==
    ASSUME NEW b, NEW S, Sound(b, S), NEW size \in Nat \ {0}, NEW al \in Nat \ {0}
    PROVE  LET c == allocate_region_internal(b, size, al)
           IN  \/ c = [b EXCEPT !.addr = NONE]
               \/ c = Panic(b, "out_of_bounds") /\ ~Room(b, 1)
               \/ Placed(c, b, size)
  <1> DEFINE s == b.regions
             v == b.reserved
             i == FirstFit(s, size, al)
             a == NextMultipleOf(s[i].address, al)
             r == Region(a, size)
             more == IF a # s[i].address THEN 1 ELSE 0
             record == AddRecord(v, r)
             list == CutOut(s, i, a, size)
             c == allocate_region_internal(b, size, al)
  <1>1. c = IF Fitting(s, size, al) = {} THEN [b EXCEPT !.addr = NONE]
            ELSE IF Len(s) + more > b.rcap \/ ~(Len(record) <= b.vcap) THEN Panic(b, "out_of_bounds")
            ELSE [b EXCEPT !.regions = list, !.reserved = record, !.addr = a]
    BY DEF allocate_region_internal, FitsTable
  <1>2. /\ b \in Blocks /\ s \in Seq(Rng) /\ v \in Seq(Rng) /\ b.rcap \in Nat /\ b.vcap \in Nat
        /\ Sorted(s) /\ Sorted(v) /\ Cover(s) \cap Cover(v) = {}
    BY DEF Sound, Blocks
  <1>3. Len(s) \in Nat /\ Len(v) \in Nat
    BY <1>2, ListParts
  <1>4. CASE Fitting(s, size, al) = {}
    BY <1>1, <1>4
  <1>5. CASE Fitting(s, size, al) # {}
    <2>1. i = FirstFit(s, size, al) /\ a = NextMultipleOf(s[i].address, al) /\ more \in 0 .. 1
      OBVIOUS
    <2>2. s = b.regions /\ v = b.reserved
      OBVIOUS
    <2>3. c = IF Len(s) + more > b.rcap \/ ~(Len(record) <= b.vcap) THEN Panic(b, "out_of_bounds")
              ELSE [b EXCEPT !.regions = list, !.reserved = record, !.addr = a]
      BY <1>1, <1>5
    <2> HIDE DEF i, a, s, v, c
    <2>4. /\ a \in Nat /\ Units(r) \subseteq Cover(s)
          /\ Shrunk(list, s, r) /\ Grown(record, v, r)
          /\ Len(list) <= Len(s) + more
      <3>1. PlacedAt(s, v, FirstFit(s, size, al),
                    NextMultipleOf(s[FirstFit(s, size, al)].address, al), size)
        BY <1>2, <1>5, PlacedLists
      <3>2. PlacedAt(s, v, i, a, size)
        BY <3>1 DEF a, i
      <3> QED  BY <3>2 DEF PlacedAt
    <2> HIDE DEF list, record, more, r
    <2>5. /\ list \in Seq(Rng) /\ record \in Seq(Rng)
          /\ Len(record) <= Len(v) + 1 /\ Len(record) \in Nat /\ Len(list) \in Nat
      BY <2>4, ListParts DEF Shrunk, Grown
    <2>6. CASE Len(s) + more > b.rcap \/ ~(Len(record) <= b.vcap)
      <3>1. ~Room(b, 1)
        BY <2>1, <2>2, <2>5, <2>6, <1>2, <1>3 DEF Room
      <3>2. c = Panic(b, "out_of_bounds")
        BY <2>3, <2>6
      <3> QED  BY <3>1, <3>2 DEF c
    <2>7. CASE ~(Len(s) + more > b.rcap) /\ Len(record) <= b.vcap
      <3>1. c = [b EXCEPT !.regions = list, !.reserved = record, !.addr = a]
        BY <2>3, <2>7
      <3>2. a \in Int
        BY <2>4
      <3>3. /\ c \in Blocks /\ c.regions = list /\ c.reserved = record /\ c.addr = a
            /\ c.rcap = b.rcap /\ c.vcap = b.vcap /\ c.tables = b.tables /\ c.fault = b.fault
        BY <3>1, <3>2, <2>5, <1>2 DEF Blocks
      <3>4. Len(list) <= b.rcap
        BY <2>1, <2>4, <2>5, <2>7, <1>2, <1>3
      <3>5. r = Region(c.addr, size)
        BY <3>3 DEF r
      <3>6. Placed(c, b, size)
        BY <3>3, <3>4, <3>5, <2>2, <2>4, <2>7 DEF Placed
      <3> QED  BY <3>6 DEF c
    <2> QED  BY <2>6, <2>7
  <1> QED  BY <1>4, <1>5

LEMMA UnitsOfParts ==
    ASSUME NEW S \in SUBSET Rng
    PROVE  /\ \A u : u \in UnitsOf(S) <=> \E r \in S : u \in Units(r)
           /\ \A r \in S : r.address \in Units(r) /\ Units(r) \subseteq UnitsOf(S)
  <1>1. \A u : u \in UnitsOf(S) <=> \E r \in S : u \in Units(r)
    BY DEF UnitsOf
  <1>2. \A r \in S : r.address \in Units(r)
    <2> SUFFICES ASSUME NEW r \in S  PROVE r.address \in Units(r)
      OBVIOUS
    <2>1. /\ r.address \in Nat /\ r.address < End(r)
          /\ \A u : u \in Units(r) <=> u \in Int /\ r.address <= u /\ u < End(r)
      BY RngParts
    <2> QED  BY <2>1
  <1> QED  BY <1>1, <1>2

(* c has cut r, which had no owner, out of the free memory of b. *)
Taken(c, b, S, r) ==
    /\ r \in Rng \ S
    /\ Sound(c, S \cup {r})
    /\ Total(c) = Total(b)
    /\ c.tables = b.tables /\ c.fault = b.fault
    /\ c.rcap = b.rcap /\ c.vcap = b.vcap
    /\ Len(c.regions) <= Len(b.regions) + 1 /\ Len(c.reserved) <= Len(b.reserved) + 1

LEMMA PlacedSound ==
    ASSUME NEW b, NEW S, Sound(b, S), NEW size \in Nat \ {0}, NEW c, Placed(c, b, size)
    PROVE  Taken(c, b, S, Region(c.addr, size))
  <1> DEFINE r == Region(c.addr, size)
             free == Cover(b.regions)
             used == Cover(b.reserved)
  <1>1. /\ c.addr \in Nat /\ c \in Blocks
        /\ c.rcap = b.rcap /\ c.vcap = b.vcap /\ c.tables = b.tables /\ c.fault = b.fault
        /\ Units(r) \subseteq free
        /\ Shrunk(c.regions, b.regions, r)
        /\ Grown(c.reserved, b.reserved, r)
        /\ Len(c.regions) <= c.rcap /\ Len(c.reserved) <= c.vcap
    BY DEF Placed
  <1>2. r \in Rng
    BY <1>1, RngRegion
  <1> HIDE DEF r
  <1>3. /\ S \subseteq Rng /\ Apart(S) /\ used = UnitsOf(S) /\ free \cap used = {}
        /\ b.rcap >= CAPACITY /\ b.vcap >= CAPACITY
    BY DEF Sound
  <1>4. /\ Cover(c.regions) = free \ Units(r) /\ Cover(c.reserved) = used \cup Units(r)
        /\ Sorted(c.regions) /\ Sorted(c.reserved)
        /\ Len(c.regions) <= Len(b.regions) + 1 /\ Len(c.reserved) <= Len(b.reserved) + 1
    BY <1>1 DEF Shrunk, Grown
  <1>5. r.address \in Units(r)
    BY <1>2, UnitsOfParts
  <1>6. \A q \in S : Units(q) \subseteq used
    BY <1>3, UnitsOfParts
  <1>7. \A q \in S : Units(q) \cap Units(r) = {}
    BY <1>1, <1>3, <1>6
  <1>8. r \notin S
    BY <1>5, <1>7
  <1>9. Apart(S \cup {r})
    BY <1>3, <1>7 DEF Apart
  <1>10. UnitsOf(S \cup {r}) = UnitsOf(S) \cup Units(r)
    BY DEF UnitsOf
  <1>11. Cover(c.regions) \cap Cover(c.reserved) = {}
    BY <1>3, <1>4
  <1>12. Total(c) = Total(b)
    BY <1>1, <1>4 DEF Total
  <1>13. Sound(c, S \cup {r})
    <2>1. S \cup {r} \subseteq Rng /\ Cover(c.reserved) = UnitsOf(S \cup {r})
      BY <1>2, <1>3, <1>4, <1>10
    <2> QED  BY <1>1, <1>3, <1>4, <1>9, <1>11, <2>1 DEF Sound
  <1>14. Taken(c, b, S, r)
    BY <1>1, <1>2, <1>4, <1>8, <1>12, <1>13 DEF Taken
  <1> QED  BY <1>14 DEF r

-------------------------------------------------------------------------------
(* A block whose used memory is the allocations L and the tables. *)
Good(b, L) == Sound(b, L \cup b.tables) /\ L \cap b.tables = {}

(* allocate_region_internal, with room in the tables. *)
Allocated(c, b, L, size) ==
    /\ c.fault = "none" /\ c.tables = b.tables /\ Total(c) = Total(b)
    /\ c.rcap = b.rcap /\ c.vcap = b.vcap /\ Room(c, 2)
    /\ \/ c.addr = NONE /\ Good(c, L)
       \/ /\ c.addr \in Nat
          /\ Region(c.addr, size) \in Rng \ (L \cup b.tables)
          /\ Good(c, L \cup {Region(c.addr, size)})

LEMMA RoomLess ==
    ASSUME NEW b \in Blocks, NEW m \in Nat, NEW n \in Nat, n <= m, Room(b, m)
    PROVE  Room(b, n)
  <1>1. b.regions \in Seq(Rng) /\ b.reserved \in Seq(Rng) /\ b.rcap \in Nat /\ b.vcap \in Nat
    BY DEF Blocks
  <1>2. Len(b.regions) \in Nat /\ Len(b.reserved) \in Nat
    BY <1>1, ListParts
  <1> QED  BY <1>1, <1>2 DEF Room

LEMMA Allocation ==
    ASSUME NEW b, NEW L, Good(b, L), b.fault = "none", Room(b, 3),
           NEW size \in Nat \ {0}, NEW al \in Nat \ {0}
    PROVE  Allocated(allocate_region_internal(b, size, al), b, L, size)
  <1> DEFINE c == allocate_region_internal(b, size, al)
             S == L \cup b.tables
             r == Region(c.addr, size)
  <1>1. Sound(b, S) /\ L \cap b.tables = {}
    BY DEF Good
  <1>2. b \in Blocks
    BY <1>1 DEF Sound
  <1>3. Room(b, 1) /\ Room(b, 2)
    BY <1>2, RoomLess
  <1>4. \/ c = [b EXCEPT !.addr = NONE]
        \/ c = Panic(b, "out_of_bounds") /\ ~Room(b, 1)
        \/ Placed(c, b, size)
    <2> HIDE DEF S
    <2> QED  BY <1>1, Placement
  <1> HIDE DEF c
  <1>5. CASE c = [b EXCEPT !.addr = NONE]
    <2>1. /\ c.addr = NONE /\ c.fault = "none" /\ c.tables = b.tables
          /\ c.regions = b.regions /\ c.reserved = b.reserved /\ c.rcap = b.rcap /\ c.vcap = b.vcap
          /\ c \in Blocks
      <3>1. NONE \in Int  BY DEF NONE
      <3> QED  BY <1>2, <1>5, <3>1 DEF Blocks
    <2>2. Total(c) = Total(b) /\ Room(c, 2)
      BY <2>1, <1>3 DEF Total, Room
    <2>3. Sound(c, S)
      BY <2>1, <1>1 DEF Sound
    <2>4. Good(c, L)
      BY <2>1, <2>3, <1>1 DEF Good
    <2>5. Allocated(c, b, L, size)
      BY <2>1, <2>2, <2>4 DEF Allocated
    <2> QED  BY <2>5 DEF c
  <1>6. CASE Placed(c, b, size)
    <2>0. Taken(c, b, S, r)
      <3> HIDE DEF S
      <3> QED  BY <1>1, <1>6, PlacedSound
    <2>1. c.addr \in Nat
      BY <1>6 DEF Placed
    <2> HIDE DEF r
    <2>2. /\ r \in Rng \ S /\ Sound(c, S \cup {r}) /\ Total(c) = Total(b) /\ c.tables = b.tables
          /\ c.fault = "none" /\ c.rcap = b.rcap /\ c.vcap = b.vcap
          /\ Len(c.regions) <= Len(b.regions) + 1 /\ Len(c.reserved) <= Len(b.reserved) + 1
      BY <2>0 DEF Taken
    <2>3. Room(c, 2)
      <3>1. /\ b.regions \in Seq(Rng) /\ b.reserved \in Seq(Rng) /\ b.rcap \in Nat /\ b.vcap \in Nat
            /\ c.regions \in Seq(Rng) /\ c.reserved \in Seq(Rng)
        BY <1>2, <2>2 DEF Sound, Blocks
      <3>2. /\ Len(b.regions) \in Nat /\ Len(b.reserved) \in Nat
            /\ Len(c.regions) \in Nat /\ Len(c.reserved) \in Nat
        BY <3>1, ListParts
      <3>3. Len(b.regions) + 3 <= c.rcap /\ Len(b.reserved) + 3 <= c.vcap
        BY <2>2 DEF Room
      <3>4. c.rcap \in Nat /\ c.vcap \in Nat
        BY <2>2, <3>1
      <3>5. Len(c.regions) + 2 <= c.rcap /\ Len(c.reserved) + 2 <= c.vcap
        <4>1. \A k, m, n \in Nat : k <= m + 1 /\ m + 3 <= n => k + 2 <= n
          OBVIOUS
        <4>2. Len(c.regions) <= Len(b.regions) + 1 /\ Len(c.reserved) <= Len(b.reserved) + 1
          BY <2>2
        <4>3. Len(c.regions) + 2 <= c.rcap
          BY <3>2, <3>3, <3>4, <4>1, <4>2
        <4>4. Len(c.reserved) + 2 <= c.vcap
          BY <3>2, <3>3, <3>4, <4>1, <4>2
        <4> QED  BY <4>3, <4>4
      <3> QED  BY <3>5 DEF Room
    <2>4. Good(c, L \cup {r})
      <3>1. (L \cup {r}) \cup c.tables = S \cup {r} /\ (L \cup {r}) \cap c.tables = {}
        BY <2>2, <1>1
      <3> QED  BY <2>2, <3>1 DEF Good
    <2>5. Allocated(c, b, L, size)
      BY <2>1, <2>2, <2>3, <2>4 DEF Allocated, r
    <2> QED  BY <2>5 DEF c
  <1> QED  BY <1>3, <1>4, <1>5, <1>6

(* The memory of a pair of tables is not empty. *)
LEMMA TablesTakeMemory ==
    ASSUME NEW b \in Blocks, b.rcap >= CAPACITY, b.vcap >= CAPACITY
    PROVE  TableUnits(b) \in Nat \ {0}
  <1> DEFINE E == ENTRIES_PER_UNIT
             x == (b.rcap + b.vcap) * 2
             q == x \div E
  <1>1. b.rcap \in Nat /\ b.vcap \in Nat
    BY DEF Blocks
  <1>2. CAPACITY \in Nat /\ E \in Nat \ {0} /\ E <= CAPACITY
    BY TablesAssumption
  <1>3. x \in Nat /\ E <= x
    BY <1>1, <1>2
  <1> HIDE DEF x, E
  <1>4. q \in Nat /\ x < E * (q + 1)
    BY <1>2, <1>3
  <1> HIDE DEF q
  <1>5. q # 0
    BY <1>2, <1>3, <1>4
  <1> QED  BY <1>4, <1>5 DEF TableUnits, q, x, E

(* The block after ensure_overflow_headroom: room for three more entries, or a panic. *)
Ensured(c, b, L) ==
    /\ Good(c, L) /\ Total(c) = Total(b)
    /\ c.fault = "none" => Room(c, 3)
    /\ Room(b, 1) => c.fault # "out_of_bounds"

LEMMA Headroom ==
    ASSUME NEW b, NEW L, Good(b, L), b.fault = "none"
    PROVE  Ensured(ensure_overflow_headroom(b), b, L)
  <1> DEFINE S == L \cup b.tables
             n == TableUnits(b)
             c == allocate_region_internal(b, n, TABLE_ALIGN)
             d == overflow_wrapping(b)
             r == Region(c.addr, n)
             e == ensure_overflow_headroom(b)
  <1>1. Sound(b, S) /\ L \cap b.tables = {}
    BY DEF Good
  <1>2. /\ b \in Blocks /\ b.rcap \in Nat /\ b.vcap \in Nat
        /\ b.regions \in Seq(Rng) /\ b.reserved \in Seq(Rng)
        /\ b.rcap >= CAPACITY /\ b.vcap >= CAPACITY
    BY <1>1 DEF Sound, Blocks
  <1>3. /\ HEADROOM \in Nat /\ HEADROOM >= 3 /\ CAPACITY \in Nat /\ CAPACITY >= 3
        /\ TABLE_ALIGN \in Nat \ {0}
    BY TablesAssumption
  <1>4. Len(b.regions) \in Nat /\ Len(b.reserved) \in Nat
    BY <1>2, ListParts
  <1>5. CASE ~(Len(b.regions) + HEADROOM > b.rcap \/ Len(b.reserved) + HEADROOM > b.vcap)
    <2>1. e = b
      BY <1>5 DEF ensure_overflow_headroom
    <2>2. Room(b, 3)
      BY <1>2, <1>3, <1>4, <1>5 DEF Room
    <2> HIDE DEF e
    <2>3. Ensured(e, b, L)
      BY <2>1, <2>2 DEF Ensured
    <2> QED  BY <2>3 DEF e
  <1>6. CASE Len(b.regions) + HEADROOM > b.rcap \/ Len(b.reserved) + HEADROOM > b.vcap
    <2>1. e = d
      BY <1>6 DEF ensure_overflow_headroom
    <2>2. d = IF c.fault # "none" THEN c
              ELSE IF c.addr = NONE THEN Panic(c, "out_of_memory")
              ELSE [c EXCEPT !.rcap = 2 * @, !.vcap = 2 * @, !.tables = @ \cup {r}]
      BY DEF overflow_wrapping
    <2>3. n \in Nat \ {0}
      BY <1>2, TablesTakeMemory
    <2> HIDE DEF n, S, e, d
    <2>4. \/ c = [b EXCEPT !.addr = NONE]
          \/ c = Panic(b, "out_of_bounds") /\ ~Room(b, 1)
          \/ Placed(c, b, n)
      BY <1>1, <1>3, <2>3, Placement
    <2> HIDE DEF c
    <2>5. CASE c = [b EXCEPT !.addr = NONE]
      <3>1. NONE \in Int /\ "out_of_memory" \in Faults
        BY DEF NONE, Faults
      <3>2. c \in Blocks /\ c.fault = "none" /\ c.addr = NONE
        BY <2>5, <3>1, <1>2 DEF Blocks
      <3>3. d = [c EXCEPT !.fault = "out_of_memory"]
        BY <2>2, <3>2 DEF Panic
      <3>4. /\ d \in Blocks /\ d.fault = "out_of_memory" /\ d.tables = b.tables
            /\ d.regions = b.regions /\ d.reserved = b.reserved /\ d.rcap = b.rcap /\ d.vcap = b.vcap
        BY <2>5, <3>1, <3>2, <3>3, <1>2 DEF Blocks
      <3>5. Sound(d, S) /\ Total(d) = Total(b)
        BY <3>4, <1>1 DEF Sound, Total
      <3>6. Good(d, L)
        BY <3>4, <3>5, <1>1 DEF Good, S
      <3>7. Ensured(d, b, L)
        BY <3>4, <3>5, <3>6 DEF Ensured
      <3> QED  BY <2>1, <3>7 DEF e
    <2>6. CASE c = Panic(b, "out_of_bounds") /\ ~Room(b, 1)
      <3>1. "out_of_bounds" \in Faults
        BY DEF Faults
      <3>2. /\ c \in Blocks /\ c.fault = "out_of_bounds" /\ c.tables = b.tables
            /\ c.regions = b.regions /\ c.reserved = b.reserved /\ c.rcap = b.rcap /\ c.vcap = b.vcap
        BY <2>6, <3>1, <1>2 DEF Blocks, Panic
      <3>3. d = c
        BY <2>2, <3>2
      <3>5. Sound(c, S) /\ Total(c) = Total(b)
        BY <3>2, <1>1 DEF Sound, Total
      <3>6. Good(c, L)
        BY <3>2, <3>5, <1>1 DEF Good, S
      <3>7. Ensured(c, b, L)
        BY <2>6, <3>2, <3>5, <3>6 DEF Ensured
      <3> QED  BY <2>1, <3>3, <3>7 DEF e
    <2>7. CASE Placed(c, b, n)
      <3>0. Taken(c, b, S, r)
        BY <1>1, <2>3, <2>7, PlacedSound
      <3>1. c.addr \in Nat
        BY <2>7 DEF Placed
      <3> HIDE DEF r
      <3>2. /\ r \in Rng \ S /\ Sound(c, S \cup {r}) /\ Total(c) = Total(b) /\ c.tables = b.tables
            /\ c.fault = "none" /\ c.rcap = b.rcap /\ c.vcap = b.vcap
        BY <3>0 DEF Taken
      <3>3. c \in Blocks
        BY <3>2 DEF Sound
      <3>4. d = [c EXCEPT !.rcap = 2 * @, !.vcap = 2 * @, !.tables = @ \cup {r}]
        BY <2>2, <3>1, <3>2 DEF NONE
      <3> DEFINE R == 2 * b.rcap
                 V == 2 * b.vcap
                 T == b.tables \cup {r}
      <3>5. /\ R \in Nat /\ V \in Nat
            /\ R >= b.rcap + 3 /\ V >= b.vcap + 3 /\ R >= CAPACITY /\ V >= CAPACITY
        BY <1>2, <1>3
      <3>6. T \in SUBSET Rng
        BY <1>2, <3>2 DEF Blocks
      <3>7. d = [c EXCEPT !.rcap = R, !.vcap = V, !.tables = T]
        BY <3>2, <3>3, <3>4 DEF Blocks
      <3> HIDE DEF R, V, T
      <3>8. /\ d \in Blocks /\ d.fault = "none" /\ d.tables = T
            /\ d.regions = c.regions /\ d.reserved = c.reserved /\ d.rcap = R /\ d.vcap = V
        BY <3>2, <3>3, <3>5, <3>6, <3>7 DEF Blocks
      <3>9. /\ Len(c.regions) <= b.rcap /\ Len(c.reserved) <= b.vcap
            /\ Len(c.regions) \in Nat /\ Len(c.reserved) \in Nat
        <4>1. Len(c.regions) <= c.rcap /\ Len(c.reserved) <= c.vcap
          BY <3>2 DEF Sound
        <4>2. c.regions \in Seq(Rng) /\ c.reserved \in Seq(Rng)
          BY <3>3 DEF Blocks
        <4> QED  BY <4>1, <4>2, <3>2, ListParts
      <3>10. /\ Len(d.regions) + 3 <= d.rcap /\ Len(d.reserved) + 3 <= d.vcap
             /\ Len(d.regions) <= d.rcap /\ Len(d.reserved) <= d.vcap
             /\ d.rcap >= CAPACITY /\ d.vcap >= CAPACITY
        <4>1. /\ Len(c.regions) + 3 <= R /\ Len(c.reserved) + 3 <= V
              /\ Len(c.regions) <= R /\ Len(c.reserved) <= V
          BY <3>5, <3>9, <1>2
        <4> QED  BY <4>1, <3>5, <3>8
      <3>11. Sound(d, S \cup {r}) /\ Total(d) = Total(b)
        BY <3>2, <3>8, <3>10 DEF Sound, Total
      <3>12. L \cup d.tables = S \cup {r} /\ L \cap d.tables = {}
        BY <3>2, <3>8, <1>1 DEF T, S
      <3>13. Good(d, L)
        BY <3>11, <3>12 DEF Good
      <3>14. Room(d, 3)
        BY <3>10 DEF Room
      <3>15. Ensured(d, b, L)
        BY <3>8, <3>11, <3>13, <3>14 DEF Ensured
      <3> QED  BY <2>1, <3>15 DEF e
    <2> QED  BY <2>4, <2>5, <2>6, <2>7
  <1> QED  BY <1>5, <1>6

(* c has taken r back from its owner. *)
GivenBack(c, b, S, r) ==
    /\ Sound(c, S \ {r}) /\ Total(c) = Total(b)
    /\ c.tables = b.tables /\ c.fault = b.fault /\ c.rcap = b.rcap /\ c.vcap = b.vcap
    /\ Len(c.regions) <= Len(b.regions) + 1 /\ Len(c.reserved) <= Len(b.reserved) + 1

LEMMA Returned ==
    ASSUME NEW b, NEW S, Sound(b, S), Room(b, 1), NEW r \in S
    PROVE  GivenBack(Return(b, r.address, r.size), b, S, r)
  <1> DEFINE c == Return(b, r.address, r.size)
             free == Cover(b.regions)
             used == Cover(b.reserved)
             record == remove_reserved_alloc_record(b.reserved, r.address, r.size)
             list == AddRecord(b.regions, Region(r.address, r.size))
  <1>1. /\ b \in Blocks /\ S \subseteq Rng /\ Apart(S) /\ used = UnitsOf(S) /\ free \cap used = {}
        /\ Sorted(b.regions) /\ Sorted(b.reserved)
        /\ b.rcap >= CAPACITY /\ b.vcap >= CAPACITY
    BY DEF Sound
  <1>2. b.regions \in Seq(Rng) /\ b.reserved \in Seq(Rng) /\ b.rcap \in Nat /\ b.vcap \in Nat
    BY <1>1 DEF Blocks
  <1>3. Len(b.regions) \in Nat /\ Len(b.reserved) \in Nat
    BY <1>2, ListParts
  <1>4. r \in Rng /\ Region(r.address, r.size) = r /\ r.address \in Nat /\ r.size \in Nat \ {0}
    BY <1>1 DEF Rng, Region
  <1>5. Units(r) \subseteq used
    BY <1>1, UnitsOfParts
  <1>6. Units(r) \cap free = {}
    BY <1>1, <1>5
  <1>7. Shrunk(record, b.reserved, r)
    BY <1>1, <1>2, <1>4, <1>5, RemoveShrinks
  <1>8. Grown(list, b.regions, r)
    BY <1>1, <1>2, <1>4, <1>6, AddRecordGrows
  <1>9. c = IF ~(Len(record) <= b.vcap) \/ ~(Len(list) <= b.rcap) THEN Panic(b, "out_of_bounds")
            ELSE [b EXCEPT !.reserved = record, !.regions = list]
    BY DEF Return, FitsTable
  <1> HIDE DEF record, list, c
  <1>10. /\ record \in Seq(Rng) /\ list \in Seq(Rng) /\ Sorted(record) /\ Sorted(list)
         /\ Len(record) <= Len(b.reserved) + 1 /\ Len(list) <= Len(b.regions) + 1
         /\ Cover(record) = used \ Units(r) /\ Cover(list) = free \cup Units(r)
    BY <1>7, <1>8 DEF Shrunk, Grown
  <1>11. Len(record) \in Nat /\ Len(list) \in Nat
    BY <1>10, ListParts
  <1>12. Len(record) <= b.vcap /\ Len(list) <= b.rcap
    <2>1. \A k, m, n \in Nat : k <= m + 1 /\ m + 1 <= n => k <= n
      OBVIOUS
    <2>2. Len(b.regions) + 1 <= b.rcap /\ Len(b.reserved) + 1 <= b.vcap
      BY DEF Room
    <2> QED  BY <2>1, <2>2, <1>2, <1>3, <1>10, <1>11
  <1>13. c = [b EXCEPT !.reserved = record, !.regions = list]
    BY <1>9, <1>12
  <1>14. /\ c \in Blocks /\ c.regions = list /\ c.reserved = record
         /\ c.rcap = b.rcap /\ c.vcap = b.vcap /\ c.tables = b.tables /\ c.fault = b.fault
    BY <1>1, <1>10, <1>13 DEF Blocks
  <1>15. used \ Units(r) = UnitsOf(S \ {r})
    <2>1. \A q \in S \ {r} : Units(q) \cap Units(r) = {}
      BY <1>1 DEF Apart
    <2>2. \A u : u \in UnitsOf(S \ {r}) <=> u \in used /\ u \notin Units(r)
      BY <2>1, <1>1 DEF UnitsOf
    <2> QED  BY <2>2
  <1>16. S \ {r} \subseteq Rng /\ Apart(S \ {r})
    BY <1>1 DEF Apart
  <1>17. Cover(list) \cap Cover(record) = {}
    BY <1>1, <1>10
  <1>18. Total(c) = Total(b)
    <2>1. Cover(list) \cup Cover(record) = free \cup used
      BY <1>5, <1>10
    <2> QED  BY <2>1, <1>14 DEF Total
  <1>19. Sound(c, S \ {r})
    <2>1. Cover(c.reserved) = UnitsOf(S \ {r})
      BY <1>10, <1>14, <1>15
    <2> QED  BY <2>1, <1>1, <1>10, <1>12, <1>14, <1>16, <1>17 DEF Sound
  <1>20. GivenBack(c, b, S, r)
    BY <1>10, <1>14, <1>18, <1>19 DEF GivenBack
  <1> QED  BY <1>20 DEF c

(* deallocate_region's way to free an allocation. *)
LEMMA Freed ==
    ASSUME NEW b, NEW L, Good(b, L), Room(b, 3), NEW r \in L
    PROVE  LET c == Return(b, r.address, r.size)
           IN  Good(c, L \ {r}) /\ Total(c) = Total(b) /\ Room(c, 2) /\ c.fault = b.fault
  <1> DEFINE c == Return(b, r.address, r.size)
             S == L \cup b.tables
  <1>1. Sound(b, S) /\ L \cap b.tables = {} /\ r \in S
    BY DEF Good
  <1>2. b \in Blocks
    BY <1>1 DEF Sound
  <1>3. Room(b, 1)
    BY <1>2, RoomLess
  <1>4. GivenBack(c, b, S, r)
    <2> HIDE DEF S
    <2> QED  BY <1>1, <1>3, Returned
  <1> HIDE DEF c
  <1>5. /\ Sound(c, S \ {r}) /\ Total(c) = Total(b)
        /\ c.tables = b.tables /\ c.fault = b.fault /\ c.rcap = b.rcap /\ c.vcap = b.vcap
        /\ Len(c.regions) <= Len(b.regions) + 1 /\ Len(c.reserved) <= Len(b.reserved) + 1
    BY <1>4 DEF GivenBack
  <1>6. Good(c, L \ {r})
    <2>1. (L \ {r}) \cup c.tables = S \ {r} /\ (L \ {r}) \cap c.tables = {}
      BY <1>1, <1>5
    <2> QED  BY <2>1, <1>5 DEF Good
  <1>7. Room(c, 2)
    <2>1. /\ b.regions \in Seq(Rng) /\ b.reserved \in Seq(Rng) /\ b.rcap \in Nat /\ b.vcap \in Nat
          /\ c.regions \in Seq(Rng) /\ c.reserved \in Seq(Rng)
      BY <1>2, <1>5 DEF Sound, Blocks
    <2>2. /\ Len(b.regions) \in Nat /\ Len(b.reserved) \in Nat
          /\ Len(c.regions) \in Nat /\ Len(c.reserved) \in Nat
      BY <2>1, ListParts
    <2>3. \A k, m, n \in Nat : k <= m + 1 /\ m + 3 <= n => k + 2 <= n
      OBVIOUS
    <2>4. Len(b.regions) + 3 <= c.rcap /\ Len(b.reserved) + 3 <= c.vcap
      BY <1>5 DEF Room
    <2>5. c.rcap \in Nat /\ c.vcap \in Nat
      BY <1>5, <2>1
    <2>6. Len(c.regions) + 2 <= c.rcap /\ Len(c.reserved) + 2 <= c.vcap
      BY <1>5, <2>2, <2>3, <2>4, <2>5
    <2> QED  BY <2>6 DEF Room
  <1> QED  BY <1>5, <1>6, <1>7 DEF c

(* trim_for_boot's way: all free memory is dropped but r, which is given back. *)
Trimming(c) == [c EXCEPT !.regions = <<>>, !.rcap = CAPACITY]

LEMMA Kept ==
    ASSUME NEW c, NEW L, NEW r, r \notin L, r \notin c.tables, Good(c, L \cup {r}), Room(c, 2)
    PROVE  LET d == Return(Trimming(c), r.address, r.size)
           IN  Good(d, L) /\ Total(d) = Cover(c.reserved) /\ Room(d, 1) /\ d.fault = c.fault
  <1> DEFINE b == Trimming(c)
             d == Return(b, r.address, r.size)
             S == (L \cup {r}) \cup c.tables
  <1>1. Sound(c, S) /\ (L \cup {r}) \cap c.tables = {} /\ r \in S
    BY DEF Good
  <1>2. /\ c \in Blocks /\ Sorted(c.reserved) /\ c.vcap >= CAPACITY /\ Len(c.reserved) <= c.vcap
        /\ S \subseteq Rng /\ Apart(S) /\ Cover(c.reserved) = UnitsOf(S)
    BY <1>1 DEF Sound
  <1>3. CAPACITY \in Nat /\ CAPACITY >= 3
    BY TablesAssumption
  <1>4. /\ b \in Blocks /\ b.regions = <<>> /\ b.reserved = c.reserved /\ b.rcap = CAPACITY
        /\ b.vcap = c.vcap /\ b.tables = c.tables /\ b.fault = c.fault
    <2>1. <<>> \in Seq(Rng)
      OBVIOUS
    <2> QED  BY <2>1, <1>2, <1>3 DEF Trimming, Blocks
  <1> HIDE DEF b, S
  <1>5. /\ Cover(b.regions) = {} /\ Sorted(b.regions) /\ Len(b.regions) = 0
    BY <1>4 DEF Cover, Sorted
  <1>6. Sound(b, S)
    <2>1. /\ Cover(b.regions) \cap Cover(b.reserved) = {}
          /\ b.rcap >= CAPACITY /\ Len(b.regions) <= b.rcap
      BY <1>3, <1>4, <1>5
    <2> QED  BY <2>1, <1>2, <1>4, <1>5 DEF Sound
  <1>7. Len(c.reserved) \in Nat /\ c.vcap \in Nat /\ Len(c.reserved) + 2 <= c.vcap
    <2>1. c.reserved \in Seq(Rng) /\ c.vcap \in Nat
      BY <1>2 DEF Blocks
    <2> QED  BY <2>1, ListParts DEF Room
  <1>8. Room(b, 1)
    <2>1. Len(c.reserved) + 1 <= c.vcap /\ 0 + 1 <= CAPACITY
      BY <1>3, <1>7
    <2> QED  BY <2>1, <1>4, <1>5 DEF Room
  <1>9. GivenBack(d, b, S, r)
    BY <1>1, <1>6, <1>8, Returned
  <1> HIDE DEF d
  <1>10. /\ Sound(d, S \ {r}) /\ Total(d) = Total(b)
         /\ d.tables = b.tables /\ d.fault = b.fault /\ d.rcap = b.rcap /\ d.vcap = b.vcap
         /\ Len(d.regions) <= Len(b.regions) + 1 /\ Len(d.reserved) <= Len(b.reserved) + 1
    BY <1>9 DEF GivenBack
  <1>11. Total(d) = Cover(c.reserved)
    BY <1>4, <1>5, <1>10 DEF Total
  <1>12. Good(d, L)
    <2>1. L \cup d.tables = S \ {r} /\ L \cap d.tables = {}
      BY <1>1, <1>4, <1>10 DEF S
    <2> QED  BY <2>1, <1>10 DEF Good
  <1>13. Room(d, 1)
    <2>1. d.regions \in Seq(Rng) /\ d.reserved \in Seq(Rng)
      BY <1>10 DEF Sound, Blocks
    <2>2. Len(d.regions) \in Nat /\ Len(d.reserved) \in Nat
      BY <2>1, ListParts
    <2>3. Len(d.regions) <= 1 /\ Len(d.reserved) <= Len(c.reserved) + 1
      BY <1>4, <1>5, <1>10
    <2>4. Len(d.regions) + 1 <= CAPACITY
      BY <2>2, <2>3, <1>3
    <2>5. Len(d.reserved) + 1 <= c.vcap
      BY <2>2, <2>3, <1>7
    <2> QED  BY <2>4, <2>5, <1>4, <1>10 DEF Room
  <1> QED  BY <1>4, <1>10, <1>11, <1>12, <1>13 DEF d, b

-------------------------------------------------------------------------------
(* check_regions *)

(* What its loop keeps: the list so far, and an index into it or behind it. *)
Scans(cap) ==
    {acc \in [list : Seq(Rng), idx : Nat, err : BOOLEAN] :
        /\ Sorted(acc.list) /\ Len(acc.list) <= cap
        /\ 1 <= acc.idx /\ acc.idx <= Len(acc.list) + 1}

ScanMade(t, i, e) == [list |-> t, idx |-> i, err |-> e]

LEMMA ScanParts ==
    ASSUME NEW cap \in Nat, NEW acc \in Scans(cap)
    PROVE  /\ acc.list \in Seq(Rng) /\ acc.idx \in Nat /\ Len(acc.list) \in Nat
           /\ Sorted(acc.list) /\ Len(acc.list) <= cap
           /\ 1 <= acc.idx /\ acc.idx <= Len(acc.list) + 1
           /\ [acc EXCEPT !.err = TRUE] = ScanMade(acc.list, acc.idx, TRUE)
  <1>1. /\ acc \in [list : Seq(Rng), idx : Nat, err : BOOLEAN]
        /\ Sorted(acc.list) /\ Len(acc.list) <= cap
        /\ 1 <= acc.idx /\ acc.idx <= Len(acc.list) + 1
    BY DEF Scans
  <1>2. acc.list \in Seq(Rng) /\ acc.idx \in Nat
    BY <1>1
  <1>3. Len(acc.list) \in Nat
    BY <1>2, ListParts
  <1>4. [acc EXCEPT !.err = TRUE] = ScanMade(acc.list, acc.idx, TRUE)
    <2> DEFINE A == Seq(Rng)
               I == Nat
               B == BOOLEAN
    <2>1. acc \in [list : A, idx : I, err : B]
      BY <1>1
    <2> HIDE DEF A, I, B
    <2>3. \A e : [acc EXCEPT !.err = e] = [list |-> acc.list, idx |-> acc.idx, err |-> e]
      BY <2>1
    <2> QED  BY <2>3, Zenon DEF ScanMade
  <1> QED  BY <1>1, <1>2, <1>3, <1>4


LEMMA ScanMakes ==
    ASSUME NEW cap \in Nat, NEW t \in Seq(Rng), Sorted(t), Len(t) <= cap,
           NEW i \in Nat, 1 <= i, i <= Len(t) + 1, NEW e \in BOOLEAN
    PROVE  ScanMade(t, i, e) \in Scans(cap) /\ ScanMade(t, i, e).list = t /\ ScanMade(t, i, e).err = e
  <1> DEFINE a == ScanMade(t, i, e)
  <1>1. a \in [list : Seq(Rng), idx : Nat, err : BOOLEAN] /\ a.list = t /\ a.idx = i /\ a.err = e
    BY Zenon DEF ScanMade
  <1> HIDE DEF a
  <1>2. a \in Scans(cap)
    BY <1>1 DEF Scans
  <1> QED  BY <1>1, <1>2 DEF a

(* d is what one reservation r makes of acc. *)
Subtracts(d, acc, r, cap) ==
    /\ d \in Scans(cap)
    /\ Cover(d.list) \subseteq Cover(acc.list)
    /\ d.err = FALSE => /\ acc.err = FALSE
                        /\ Cover(d.list) = Cover(acc.list) \ Units(r)

LEMMA OneSubtracted ==
    ASSUME NEW cap \in Nat, NEW acc \in Scans(cap), NEW r \in Rng
    PROVE  Subtracts(SubtractReserved(acc, r, cap), acc, r, cap)
  <1> DEFINE s == acc.list
             from == acc.idx
             err == acc.err
             a == r.address
             Stops(i) == /\ i <= Len(s) => End(s[i]) > a
                         /\ \A j \in from .. i - 1 : End(s[j]) <= a
             idx == CHOOSE i \in from .. Len(s) + 1 : Stops(i)
             inside == idx <= Len(s) /\ a >= s[idx].address /\ End(r) <= End(s[idx])
             splits == s[idx].address < a /\ End(r) < End(s[idx])
             t == CutOut(s, idx, a, r.size)
             to == IF splits THEN idx + 1 ELSE idx
             d == SubtractReserved(acc, r, cap)
  <1>1. /\ s \in Seq(Rng) /\ from \in Nat /\ Len(s) \in Nat /\ Sorted(s) /\ Len(s) <= cap
        /\ 1 <= from /\ from <= Len(s) + 1
    BY ScanParts
  <1>2. [acc EXCEPT !.err = TRUE] = ScanMade(s, from, TRUE)
    BY ScanParts
  <1>3. d = IF err THEN acc
            ELSE IF ~inside \/ (splits /\ Len(s) + 1 > cap) THEN [acc EXCEPT !.err = TRUE]
            ELSE ScanMade(t, to, FALSE)
    BY Zenon DEF SubtractReserved, ScanMade
  <1> HIDE DEF s, from, d, a
  <1>4. idx \in from .. Len(s) + 1
    <2> DEFINE I == {i \in from .. Len(s) + 1 : i <= Len(s) => End(s[i]) > a}
               m == Min(I)
    <2>1. I \in SUBSET Nat /\ Len(s) + 1 \in I
      BY <1>1
    <2>2. m \in I /\ \A y \in I : m <= y
      <3> HIDE DEF I
      <3> QED  BY <2>1, LeastOf
    <2> HIDE DEF m
    <2>3. m \in from .. Len(s) + 1 /\ (m <= Len(s) => End(s[m]) > a)
      BY <2>2
    <2>4. ASSUME NEW j \in from .. m - 1  PROVE End(s[j]) <= a
      <3>1. j \in from .. Len(s) + 1 /\ ~(m <= j) /\ j \in 1 .. Len(s)
        BY <2>3, <1>1
      <3>2. j \notin I
        <4> HIDE DEF I
        <4> QED  BY <2>2, <3>1
      <3>3. ~(End(s[j]) > a)
        BY <3>1, <3>2
      <3>4. s[j] \in Rng
        BY <1>1, <3>1, ListParts
      <3>5. End(s[j]) \in Nat /\ a \in Nat
        BY <3>4, RngParts DEF a
      <3> QED  BY <3>3, <3>5
    <2>5. Stops(m)
      BY <2>3, <2>4
    <2> HIDE DEF Stops, I
    <2> QED  BY <2>3, <2>5
  <1> HIDE DEF Stops, idx
  <1>5. CASE err
    <2>1. d = acc
      BY <1>3, <1>5
    <2>2. err = acc.err
      OBVIOUS
    <2>3. acc.err # FALSE
      BY <1>5
    <2>4. Subtracts(d, acc, r, cap)
      BY <2>1, <2>3 DEF Subtracts
    <2> QED  BY <2>4 DEF d
  <1>6. CASE ~err /\ (~inside \/ (splits /\ Len(s) + 1 > cap))
    <2>1. d = ScanMade(s, from, TRUE)
      <3> HIDE DEF err, inside, splits
      <3> QED  BY <1>2, <1>3, <1>6
    <2>2. d \in Scans(cap) /\ d.list = s /\ d.err = TRUE
      BY <2>1, <1>1, ScanMakes
    <2>3. Subtracts(d, acc, r, cap)
      BY <2>2 DEF Subtracts, s
    <2> QED  BY <2>3 DEF d
  <1>7. CASE ~err /\ inside /\ ~(splits /\ Len(s) + 1 > cap)
    <2>1. d = ScanMade(t, to, FALSE)
      <3> HIDE DEF err, inside, splits, t, to
      <3> QED  BY <1>3, <1>7
    <2>2. err = FALSE
      <3>1. err \in BOOLEAN
        BY Zenon DEF Scans
      <3> HIDE DEF err, inside, splits
      <3> QED  BY <1>7, <3>1
    <2>3. /\ a \in Nat /\ r.size \in Nat \ {0} /\ End(r) = a + r.size /\ End(r) \in Nat
          /\ Region(a, r.size) = r
      BY RngParts DEF Rng, Region, a
    <2>4. inside /\ ~(splits /\ Len(s) + 1 > cap)
      <3> HIDE DEF err, inside, splits
      <3> QED  BY <1>7
    <2>5. idx \in 1 .. Len(s) /\ a >= s[idx].address /\ End(r) <= End(s[idx])
      BY <2>4, <1>1, <1>4
    <2>6. s[idx] \in Rng
      BY <2>5, <1>1, ListParts
    <2>7. s[idx].address \in Nat /\ End(s[idx]) \in Nat
      BY <2>6, RngParts
    <2>8. Holds(s, idx, Region(a, r.size))
      BY <2>3, <2>5, <2>7 DEF Holds, a
    <2>9. CutFrom(t, s, idx, a, r.size)
      BY <2>3, <2>8, <1>1, CutOutShrinks
    <2> HIDE DEF t
    <2>10. /\ t \in Seq(Rng) /\ Sorted(t) /\ Cover(t) = Cover(s) \ Units(r) /\ Len(s) - 1 <= Len(t)
           /\ splits => Len(t) = Len(s) + 1
           /\ ~splits => Len(t) <= Len(s)
      BY <2>3, <2>9 DEF CutFrom, Shrunk
    <2>11. Len(t) \in Nat
      BY <2>10, ListParts
    <2>12. Len(t) <= cap /\ to \in Nat /\ 1 <= to /\ to <= Len(t) + 1
      <3>1. CASE splits
        <4>1. to = idx + 1 /\ Len(t) = Len(s) + 1  BY <2>10, <3>1
        <4>2. ~(Len(s) + 1 > cap)  BY <2>4, <3>1
        <4> HIDE DEF to, splits
        <4> QED  BY <4>1, <4>2, <2>5, <2>11, <1>1
      <3>2. CASE ~splits
        <4>1. to = idx /\ Len(t) <= Len(s)  BY <2>10, <3>2
        <4> HIDE DEF to, splits
        <4> QED  BY <4>1, <2>5, <2>10, <2>11, <1>1
      <3> QED  BY <3>1, <3>2
    <2> HIDE DEF to, splits, inside
    <2>13. d \in Scans(cap) /\ d.list = t /\ d.err = FALSE
      BY <2>1, <2>10, <2>12, ScanMakes
    <2>14. Cover(t) \subseteq Cover(acc.list) /\ Cover(t) = Cover(acc.list) \ Units(r) /\ acc.err = FALSE
      BY <2>2, <2>10 DEF s
    <2>15. Subtracts(d, acc, r, cap)
      BY <2>13, <2>14 DEF Subtracts
    <2> QED  BY <2>15 DEF d
  <1> HIDE DEF err, inside, splits
  <1> QED  BY <1>5, <1>6, <1>7

(* The whole loop: all reservations are gone from the list, or it stopped. *)
Subtracted(d, regs, resv, cap) ==
    /\ d \in Scans(cap)
    /\ Cover(d.list) \subseteq Cover(regs)
    /\ d.err = FALSE => Cover(d.list) = Cover(regs) \ Cover(resv)

LEMMA AllSubtracted ==
    ASSUME NEW cap \in Nat, NEW regs \in Seq(Rng), Sorted(regs), Len(regs) <= cap,
           NEW resv \in Seq(Rng)
    PROVE  Subtracted(SubtractAll(regs, resv, cap), regs, resv, cap)
  <1> DEFINE N == Len(resv)
             T == Scans(cap)
             Step(n, acc) == IF n + 1 \in 1 .. N THEN SubtractReserved(acc, resv[n + 1], cap) ELSE acc
             step == [n \in Nat |-> [acc \in T |-> Step(n, acc)]]
             first == ScanMade(regs, 1, FALSE)
             Rec(f) == f = [n \in 0 .. N |-> IF n = 0 THEN first
                                            ELSE SubtractReserved(f[n - 1], resv[n], cap)]
             F == CHOOSE f : Rec(f)
  <1>1. SubtractAll(regs, resv, cap) = F[N]
    BY Zenon DEF SubtractAll, ScanMade
  <1>2. N \in Nat /\ \A n \in 1 .. N : resv[n] \in Rng
    BY ListParts
  <1>3. first \in T /\ first.list = regs /\ first.err = FALSE
    <2>1. Len(regs) \in Nat  BY ListParts
    <2>2. 1 \in Nat /\ 1 <= 1 /\ 1 <= Len(regs) + 1  BY <2>1
    <2> QED  BY <2>2, ScanMakes
  <1>4. \A acc \in T, n \in 1 .. N : Subtracts(SubtractReserved(acc, resv[n], cap), acc, resv[n], cap)
    BY <1>2, OneSubtracted
  <1> HIDE DEF T, first, N
  <1>5. \A acc \in T, n \in 1 .. N : SubtractReserved(acc, resv[n], cap) \in T
    BY <1>4 DEF Subtracts, T
  <1>6. \A n \in Nat, acc \in T : Step(n, acc) \in T
    BY <1>5
  <1>7. step \in [Nat -> [T -> T]]
    <2> HIDE DEF Step
    <2> QED  BY <1>6
  <1>8. PICK f \in [Nat -> T] : f[0] = first /\ \A n \in Nat : f[n + 1] = step[n][f[n]]
    <2> HIDE DEF step
    <2>1. Recurses(T)  BY RecursionExists
    <2> QED  BY <2>1, <1>3, <1>7, Zenon DEF Recurses
  <1>9. \A n \in Nat : f[n + 1] = Step(n, f[n])
    <2> HIDE DEF Step
    <2> QED  BY <1>8
  <1>10. \E g : Rec(g)
    <2> DEFINE g == [n \in 0 .. N |-> f[n]]
               val(n) == IF n = 0 THEN first ELSE SubtractReserved(g[n - 1], resv[n], cap)
    <2>1. ASSUME NEW n \in 0 .. N  PROVE g[n] = val(n)
      <3>1. CASE n = 0
        BY <3>1, <1>8
      <3>2. CASE n # 0
        <4>1. n - 1 \in Nat /\ (n - 1) + 1 = n /\ n \in 1 .. N /\ n - 1 \in 0 .. N
          BY <3>2, <1>2
        <4>2. f[n] = Step(n - 1, f[n - 1])
          BY <1>9, <4>1
        <4>3. f[n] = SubtractReserved(f[n - 1], resv[n], cap)
          BY <4>1, <4>2
        <4> QED  BY <3>2, <4>1, <4>3
      <3> QED  BY <3>1, <3>2
    <2>2. g = [n \in 0 .. N |-> val(n)]
      <3> HIDE DEF val
      <3> QED  BY <2>1
    <2>3. Rec(g)
      <3> HIDE DEF g
      <3> QED  BY <2>2, Zenon
    <2> HIDE DEF Rec, g
    <2> QED  BY <2>3
  <1>11. Rec(F)
    <2> HIDE DEF Rec
    <2> QED  BY <1>10
  <1>12. /\ F[0] = first
         /\ \A n \in 1 .. N : F[n] = SubtractReserved(F[n - 1], resv[n], cap)
    <2> DEFINE G == F
    <2>1. Rec(G)  BY <1>11
    <2> HIDE DEF G
    <2>2. \A n \in 0 .. N : G[n] = IF n = 0 THEN first ELSE SubtractReserved(G[n - 1], resv[n], cap)
      BY <2>1
    <2>3. G[0] = first
      BY <2>2, <1>2
    <2>4. ASSUME NEW n \in 1 .. N  PROVE G[n] = SubtractReserved(G[n - 1], resv[n], cap)
      <3>1. n \in 0 .. N /\ n # 0  BY <1>2
      <3> QED  BY <2>2, <3>1
    <2> QED  BY <2>3, <2>4 DEF G
  <1> HIDE DEF F
  <1> DEFINE Left(n) == {u \in Cover(regs) : \A k \in 1 .. n : u \notin Units(resv[k])}
             Done(n) == /\ F[n] \in T
                        /\ Cover(F[n].list) \subseteq Cover(regs)
                        /\ F[n].err = FALSE => Cover(F[n].list) = Left(n)
             D == {n \in Nat : n <= N => Done(n)}
  <1>13. 0 \in D
    <2>1. Left(0) = Cover(regs)  OBVIOUS
    <2> HIDE DEF Left
    <2>2. Done(0)  BY <1>3, <1>12, <2>1
    <2> QED  BY <2>2
  <1>14. ASSUME NEW n \in D  PROVE n + 1 \in D
    <2> SUFFICES ASSUME n + 1 <= N  PROVE Done(n + 1)
      <3> HIDE DEF Done
      <3> QED  OBVIOUS
    <2>1. n \in Nat /\ n + 1 \in 1 .. N /\ n <= N /\ (n + 1) - 1 = n
      <3> HIDE DEF Done
      <3> QED  BY <1>2
    <2>2. Done(n)
      <3> HIDE DEF Done
      <3> QED  BY <2>1
    <2>3. F[n + 1] = SubtractReserved(F[n], resv[n + 1], cap)
      BY <2>1, <1>12
    <2>4. Subtracts(F[n + 1], F[n], resv[n + 1], cap)
      BY <2>1, <2>2, <2>3, <1>4
    <2>5. /\ F[n + 1] \in T /\ Cover(F[n + 1].list) \subseteq Cover(F[n].list)
          /\ F[n + 1].err = FALSE => /\ F[n].err = FALSE
                                     /\ Cover(F[n + 1].list) = Cover(F[n].list) \ Units(resv[n + 1])
      BY <2>4 DEF Subtracts, T
    <2>6. Left(n + 1) = Left(n) \ Units(resv[n + 1])
      <3>1. \A k : k \in 1 .. n + 1 <=> k \in 1 .. n \/ k = n + 1
        BY <2>1
      <3> QED  BY <3>1
    <2> HIDE DEF Left
    <2> QED  BY <2>2, <2>5, <2>6
  <1>15. D = Nat
    <2> HIDE DEF Done
    <2>1. D \in SUBSET Nat  OBVIOUS
    <2> HIDE DEF D
    <2> QED  BY <2>1, <1>13, <1>14, Induction
  <1>16. Done(N)
    <2> HIDE DEF Done
    <2> QED  BY <1>15, <1>2
  <1>17. Left(N) = Cover(regs) \ Cover(resv)
    <2>1. \A u : u \in Cover(resv) <=> \E k \in 1 .. N : u \in Units(resv[k])
      BY ListParts DEF N
    <2> QED  BY <2>1
  <1> HIDE DEF Left
  <1> QED  BY <1>1, <1>16, <1>17 DEF Subtracted, T

-------------------------------------------------------------------------------
(* add_reserved_region_dynamic *)

IsRequest(q) == /\ q.size \in Nat /\ q.align \in Nat \ {0}
                /\ q.range = <<>> \/ q.range \in Nat \X Nat

(* No entry of v meets [a, a + size). *)
Clear(v, a, size) ==
    \A i \in 1 .. Len(v) : End(v[i]) <= a \/ a + size <= v[i].address

LEMMA Neighbours ==
    ASSUME NEW v \in Seq(Rng), Sorted(v), NEW a \in Nat, NEW size \in Nat, Top \in Nat
    PROVE  /\ PrevEnd(v, a) \in Nat /\ NextStart(v, a, Top) \in Nat
           /\ PrevEnd(v, a) <= a /\ a + size <= NextStart(v, a, Top) => Clear(v, a, size)
  <1> DEFINE x == SearchIndex(v, a)
             w == x - 1
             y == x + (IF Found(v, a) THEN 1 ELSE 0)
  <1>1. Located(v, a, x)
    BY SearchOrder
  <1>2. /\ Len(v) \in Nat /\ DOMAIN v = 1 .. Len(v) /\ \A i \in 1 .. Len(v) : v[i] \in Rng
    BY ListParts
  <1>3. \A i \in 1 .. Len(v) : v[i].address \in Nat /\ End(v[i]) \in Nat /\ v[i].address < End(v[i])
    BY <1>2, RngParts
  <1>4. /\ PrevEnd(v, a) = IF Found(v, a) THEN End(v[x]) ELSE IF x > 1 THEN End(v[w]) ELSE 0
        /\ NextStart(v, a, Top) = IF y <= Len(v) THEN v[y].address ELSE Top + 1
    BY DEF PrevEnd, NextStart
  <1> HIDE DEF x
  <1>5. /\ x \in 1 .. Len(v) + 1 /\ x \in Nat
        /\ Found(v, a) => x \in 1 .. Len(v) /\ v[x].address = a
        /\ \A i \in 1 .. Len(v) : i < x => v[i].address < a
    BY <1>1, <1>2 DEF Located
  <1>6. y \in 1 .. Len(v) + 1
    BY <1>2, <1>5
  <1>7. w \in 0 .. Len(v) /\ (x > 1 => w \in 1 .. Len(v))
    BY <1>2, <1>5
  <1>8. ~Found(v, a) => y = x
    BY <1>5
  <1> HIDE DEF w, y
  <1>9. PrevEnd(v, a) \in Nat /\ NextStart(v, a, Top) \in Nat
    BY <1>3, <1>4, <1>5, <1>6, <1>7
  <1>10. ASSUME PrevEnd(v, a) <= a, a + size <= NextStart(v, a, Top), NEW i \in 1 .. Len(v)
         PROVE  End(v[i]) <= a \/ a + size <= v[i].address
    <2>1. ~Found(v, a)
      <3>1. ASSUME Found(v, a)  PROVE FALSE
        <4>1. x \in 1 .. Len(v) /\ v[x].address = a /\ PrevEnd(v, a) = End(v[x])
          BY <3>1, <1>4, <1>5
        <4> QED  BY <4>1, <1>3, <1>10
      <3> QED  BY <3>1
    <2>2. /\ x > 1 => PrevEnd(v, a) = End(v[w])
          /\ x <= Len(v) => NextStart(v, a, Top) = v[x].address
      BY <2>1, <1>4, <1>8
    <2>3. \A k, l \in 1 .. Len(v) : k < l => End(v[k]) < v[l].address
      BY <1>2 DEF Sorted
    <2>4. CASE i < x
      <3>1. x > 1 /\ w \in 1 .. Len(v) /\ End(v[w]) <= a
        BY <2>2, <2>4, <1>5, <1>7, <1>10
      <3>2. i = w \/ i < w
        BY <2>4, <1>5 DEF w
      <3>3. i < w => End(v[i]) < v[w].address
        BY <2>3, <3>1
      <3> QED  BY <3>1, <3>2, <3>3, <1>3
    <2>5. CASE ~(i < x)
      <3>1. x \in 1 .. Len(v) /\ a + size <= v[x].address
        BY <2>2, <2>5, <1>2, <1>5, <1>10
      <3>2. i = x \/ x < i
        BY <2>5, <1>5
      <3>3. x < i => End(v[x]) < v[i].address
        BY <2>3, <3>1
      <3> QED  BY <3>1, <3>2, <3>3, <1>3
    <2> QED  BY <2>4, <2>5
  <1> QED  BY <1>9, <1>10 DEF Clear

(* The state of the inner loop. *)
Turns == [addr : Nat, end : Nat, spot : Int]

(* One turn: the search ends, or goes on in a smaller interval. *)
Narrowed(d, acc, v, size) ==
    /\ d \in Turns
    /\ acc.spot # SEARCHING => d = acc
    /\ acc.spot = SEARCHING =>
          \/ /\ d.spot = SEARCHING
             /\ acc.addr <= d.addr /\ d.end <= acc.end /\ d.addr < d.end
             /\ d.end - d.addr < acc.end - acc.addr
          \/ d.spot = STOP \/ d.spot = NONE
          \/ /\ d.spot \in Nat /\ acc.addr <= d.spot /\ d.spot + size <= acc.end
             /\ Clear(v, d.spot, size)

LEMMA Narrows ==
    ASSUME NEW acc \in Turns, NEW v \in Seq(Rng), Sorted(v), NEW q, IsRequest(q), Top \in Nat
    PROVE  Narrowed(Narrow(acc, v, q, Top), acc, v, q.size)
  <1> DEFINE limited == q.range # <<>>
             low == q.range[1]
             range_end == q.range[1] + q.range[2]
             base == IF limited THEN Larger(acc.addr, low) ELSE acc.addr
             start == NextMultipleOf(base, q.align)
             prev == PrevEnd(v, start)
             next == NextStart(v, start, Top)
             addr == Larger(acc.addr, prev)
             end == Smaller(acc.end, next)
             size == q.size
             past == limited /\ range_end < acc.addr
             over == \/ limited /\ (acc.end < low \/ start + size > range_end)
                     \/ start + size > acc.end
             d == Narrow(acc, v, q, Top)
  <1>1. acc.addr \in Nat /\ acc.end \in Nat /\ acc.spot \in Int
    BY DEF Turns
  <1>2. size \in Nat /\ q.align \in Nat \ {0}
    BY DEF IsRequest
  <1>3. base \in Nat /\ acc.addr <= base
    <2>1. limited => low \in Nat
      BY DEF IsRequest
    <2> QED  BY <2>1, <1>1 DEF Larger
  <1>4. d = IF acc.spot # SEARCHING THEN acc
            ELSE IF past THEN [acc EXCEPT !.spot = STOP]
            ELSE IF over THEN [acc EXCEPT !.spot = NONE]
            ELSE IF prev <= start /\ start + size <= next THEN [acc EXCEPT !.spot = start]
            ELSE IF addr >= end THEN [acc EXCEPT !.spot = NONE]
            ELSE [acc EXCEPT !.addr = addr, !.end = end]
    BY Zenon DEF Narrow
  <1> HIDE DEF base
  <1>5. start \in Nat /\ base <= start
    BY <1>2, <1>3, MultipleAbove
  <1>6. acc.addr <= start
    BY <1>1, <1>3, <1>5
  <1> HIDE DEF start
  <1>7. /\ prev \in Nat /\ next \in Nat
        /\ prev <= start /\ start + size <= next => Clear(v, start, size)
    BY <1>2, <1>5, Neighbours
  <1> HIDE DEF prev, next
  <1>8. /\ addr \in Nat /\ acc.addr <= addr /\ prev <= addr
        /\ end \in Nat /\ end <= acc.end /\ end <= next
    BY <1>1, <1>7 DEF Larger, Smaller
  <1>9. SEARCHING \in Int /\ STOP \in Int /\ NONE \in Int
    BY DEF SEARCHING, STOP, NONE
  <1>10. \A z \in Int : /\ [acc EXCEPT !.spot = z] \in Turns
                        /\ [acc EXCEPT !.spot = z].spot = z
    BY DEF Turns
  <1>11. ~over => start + size <= acc.end
    BY <1>1, <1>2, <1>5
  <1> HIDE DEF past, over, addr, end, size, d
  <1>12. CASE acc.spot # SEARCHING
    <2>1. d = acc  BY <1>4, <1>12
    <2>2. Narrowed(d, acc, v, size)  BY <2>1, <1>12 DEF Narrowed
    <2> QED  BY <2>2 DEF d, size
  <1>13. CASE acc.spot = SEARCHING /\ past
    <2>1. d = [acc EXCEPT !.spot = STOP]  BY <1>4, <1>13
    <2>2. d \in Turns /\ d.spot = STOP  BY <2>1, <1>9, <1>10
    <2>3. Narrowed(d, acc, v, size)  BY <2>2, <1>13 DEF Narrowed
    <2> QED  BY <2>3 DEF d, size
  <1>14. CASE acc.spot = SEARCHING /\ ~past /\ over
    <2>1. d = [acc EXCEPT !.spot = NONE]  BY <1>4, <1>14
    <2>2. d \in Turns /\ d.spot = NONE  BY <2>1, <1>9, <1>10
    <2>3. Narrowed(d, acc, v, size)  BY <2>2, <1>14 DEF Narrowed
    <2> QED  BY <2>3 DEF d, size
  <1>15. CASE acc.spot = SEARCHING /\ ~past /\ ~over /\ prev <= start /\ start + size <= next
    <2>1. d = [acc EXCEPT !.spot = start]  BY <1>4, <1>15
    <2>2. d \in Turns /\ d.spot = start
      <3>1. start \in Int  BY <1>5
      <3> QED  BY <2>1, <3>1, <1>10
    <2>3. Clear(v, start, size) /\ start + size <= acc.end
      BY <1>7, <1>11, <1>15
    <2>4. Narrowed(d, acc, v, size)  BY <2>2, <2>3, <1>5, <1>6, <1>15 DEF Narrowed
    <2> QED  BY <2>4 DEF d, size
  <1>16. CASE /\ acc.spot = SEARCHING /\ ~past /\ ~over /\ ~(prev <= start /\ start + size <= next)
              /\ addr >= end
    <2>1. d = [acc EXCEPT !.spot = NONE]  BY <1>4, <1>16
    <2>2. d \in Turns /\ d.spot = NONE  BY <2>1, <1>9, <1>10
    <2>3. Narrowed(d, acc, v, size)  BY <2>2, <1>16 DEF Narrowed
    <2> QED  BY <2>3 DEF d, size
  <1>17. CASE /\ acc.spot = SEARCHING /\ ~past /\ ~over /\ ~(prev <= start /\ start + size <= next)
              /\ ~(addr >= end)
    <2>1. d = [acc EXCEPT !.addr = addr, !.end = end]  BY <1>4, <1>17
    <2>2. d \in Turns /\ d.addr = addr /\ d.end = end /\ d.spot = SEARCHING
      BY <2>1, <1>8, <1>17 DEF Turns
    <2>3. addr < end  BY <1>8, <1>17
    <2>4. end - addr < acc.end - acc.addr
      <3>1. CASE ~(prev <= start)
        <4>1. acc.addr < addr  BY <3>1, <1>1, <1>5, <1>6, <1>7, <1>8
        <4> QED  BY <4>1, <1>1, <1>8
      <3>2. CASE ~(start + size <= next)
        <4>1. end < acc.end  BY <3>2, <1>1, <1>2, <1>5, <1>7, <1>8, <1>11, <1>17 DEF size
        <4> QED  BY <4>1, <1>1, <1>8
      <3> QED  BY <3>1, <3>2, <1>17
    <2>5. Narrowed(d, acc, v, size)
      BY <2>2, <2>3, <2>4, <1>8, <1>17 DEF Narrowed
    <2> QED  BY <2>5 DEF d, size
  <1> QED  BY <1>12, <1>13, <1>14, <1>15, <1>16, <1>17

(* A spot is in the region and clear of the reservations, or says that there is none. *)
SpotOf(a, e, v, size) ==
    \/ a = STOP \/ a = NONE
    \/ a \in Nat /\ e.address <= a /\ a + size <= End(e) /\ Clear(v, a, size)

LEMMA SpotFound ==
    ASSUME NEW e \in Rng, NEW v \in Seq(Rng), Sorted(v), NEW q, IsRequest(q), Top \in Nat
    PROVE  SpotOf(SpotIn(e, v, q, Top), e, v, q.size)
  <1> DEFINE first == [addr |-> e.address, end |-> End(e), spot |-> SEARCHING]
             Step(acc) == Narrow(acc, v, q, Top)
             step == [acc \in Turns |-> Step(acc)]
             Rec(f) == f = [n \in Nat |-> IF n = 0 THEN first ELSE Step(f[n - 1])]
             F == CHOOSE f : Rec(f)
             N == e.size + 1
  <1>1. SpotIn(e, v, q, Top) = F[N].spot
    BY Zenon DEF SpotIn
  <1>2. e.address \in Nat /\ e.size \in Nat /\ End(e) \in Nat /\ e.address < End(e)
        /\ End(e) = e.address + e.size
    BY RngParts
  <1>3. first \in Turns /\ first.addr = e.address /\ first.end = End(e) /\ first.spot = SEARCHING
    BY <1>2 DEF Turns, SEARCHING
  <1>4. \A acc \in Turns : Narrowed(Step(acc), acc, v, q.size)
    BY Narrows
  <1>5. \A acc \in Turns : Step(acc) \in Turns
    BY <1>4 DEF Narrowed
  <1>6. step \in [Turns -> Turns]
    <2> HIDE DEF Step
    <2> QED  BY <1>5
  <1> HIDE DEF first, Step
  <1>7. PICK f \in [Nat -> Turns] : f[0] = first /\ \A n \in Nat : f[n + 1] = step[f[n]]
    <2> HIDE DEF step
    <2>1. Iterates(Turns)  BY IterateExists
    <2> QED  BY <2>1, <1>3, <1>6, Zenon DEF Iterates
  <1>8. Rec(f)
    <2>1. \A n \in Nat : f[n + 1] = Step(f[n])
      BY <1>7
    <2>2. ASSUME NEW n \in Nat, n # 0  PROVE f[n] = Step(f[n - 1])
      <3>1. n - 1 \in Nat /\ (n - 1) + 1 = n  BY <2>2
      <3> QED  BY <2>1, <3>1
    <2> QED  BY <1>7, <2>2
  <1>9. Rec(F)
    <2> HIDE DEF Rec
    <2> QED  BY <1>8
  <1>10. F[0] = first /\ \A n \in Nat : F[n + 1] = Step(F[n])
    <2> DEFINE G == F
    <2>1. Rec(G)  BY <1>9
    <2> HIDE DEF G
    <2>2. \A n \in Nat : G[n] = IF n = 0 THEN first ELSE Step(G[n - 1])
      BY <2>1
    <2>3. ASSUME NEW n \in Nat  PROVE G[n + 1] = Step(G[n])
      <3>1. n + 1 \in Nat /\ n + 1 # 0 /\ (n + 1) - 1 = n  OBVIOUS
      <3> QED  BY <2>2, <3>1
    <2> QED  BY <2>2, <2>3 DEF G
  <1> HIDE DEF F
  <1> DEFINE Going(n) == /\ e.address <= F[n].addr /\ F[n].end <= End(e) /\ F[n].addr < F[n].end
                         /\ F[n].end - F[n].addr + n <= e.size
             Stays(n) == /\ F[n] \in Turns
                         /\ F[n].spot = SEARCHING => Going(n)
                         /\ F[n].spot # SEARCHING => SpotOf(F[n].spot, e, v, q.size)
             D == {n \in Nat : Stays(n)}
  <1>11. 0 \in D
    <2>1. Stays(0)
      <3> DEFINE d == F[0]
      <3>1. d \in Turns /\ d.addr = e.address /\ d.end = End(e) /\ d.spot = SEARCHING
        BY <1>3, <1>10
      <3> HIDE DEF d
      <3>2. /\ e.address <= d.addr /\ d.end <= End(e) /\ d.addr < d.end
            /\ d.end - d.addr + 0 <= e.size
        BY <3>1, <1>2
      <3> QED  BY <3>1, <3>2 DEF d
    <2> HIDE DEF Stays
    <2> QED  BY <2>1
  <1>12. ASSUME NEW n \in D  PROVE n + 1 \in D
    <2>1. n \in Nat /\ Stays(n)
      <3> HIDE DEF Stays
      <3> QED  OBVIOUS
    <2> DEFINE acc == F[n]
               d == F[n + 1]
    <2>2. /\ acc \in Turns /\ (acc.spot = SEARCHING => Going(n))
          /\ acc.spot # SEARCHING => SpotOf(acc.spot, e, v, q.size)
      BY <2>1
    <2>3. d = Step(acc)
      BY <2>1, <1>10
    <2>4. Narrowed(d, acc, v, q.size)
      BY <2>2, <2>3, <1>4
    <2>5. d \in Turns
      BY <2>4 DEF Narrowed
    <2>6. CASE acc.spot # SEARCHING
      <3>1. d = acc
        <4> HIDE DEF d, acc
        <4> QED  BY <2>4, <2>6 DEF Narrowed
      <3>2. Stays(n + 1)
        BY <2>2, <2>5, <2>6, <3>1
      <3> HIDE DEF Stays
      <3> QED  BY <2>1, <3>2
    <2>7. CASE acc.spot = SEARCHING
      <3>1. /\ e.address <= acc.addr /\ acc.end <= End(e) /\ acc.addr < acc.end
            /\ acc.end - acc.addr + n <= e.size
        BY <2>2, <2>7
      <3>2. \/ /\ d.spot = SEARCHING
               /\ acc.addr <= d.addr /\ d.end <= acc.end /\ d.addr < d.end
               /\ d.end - d.addr < acc.end - acc.addr
            \/ d.spot = STOP \/ d.spot = NONE
            \/ /\ d.spot \in Nat /\ acc.addr <= d.spot /\ d.spot + q.size <= acc.end
               /\ Clear(v, d.spot, q.size)
        <4> HIDE DEF d, acc
        <4> QED  BY <2>4, <2>7 DEF Narrowed
      <3>3. acc.addr \in Nat /\ acc.end \in Nat /\ d.addr \in Nat /\ d.end \in Nat /\ q.size \in Nat
        BY <2>2, <2>5 DEF Turns, IsRequest
      <3>4. ASSUME /\ d.spot = SEARCHING
                   /\ acc.addr <= d.addr /\ d.end <= acc.end /\ d.addr < d.end
                   /\ d.end - d.addr < acc.end - acc.addr
            PROVE  Stays(n + 1)
        <4>1. /\ e.address <= d.addr /\ d.end <= End(e) /\ d.addr < d.end
              /\ d.end - d.addr + (n + 1) <= e.size
          <5>1. n \in Nat
            BY <2>1
          <5> HIDE DEF d, acc
          <5>2. /\ e.address <= acc.addr /\ acc.end <= End(e)
                /\ acc.end - acc.addr + n <= e.size
                /\ acc.addr <= d.addr /\ d.end <= acc.end /\ d.addr < d.end
                /\ d.end - d.addr < acc.end - acc.addr
            BY <3>1, <3>4
          <5>3. e.address <= d.addr
            BY <5>2, <3>3, <1>2
          <5>4. d.end <= End(e)
            BY <5>2, <3>3, <1>2
          <5>5. d.end - d.addr + (n + 1) <= e.size
            <6> DEFINE wide == acc.end - acc.addr
                       less == d.end - d.addr
            <6>1. wide \in Int /\ less \in Int  BY <3>3
            <6>2. less < wide /\ wide + n <= e.size  BY <5>2
            <6> HIDE DEF wide, less
            <6>3. less + (n + 1) <= e.size  BY <6>1, <6>2, <5>1, <1>2
            <6> QED  BY <6>3 DEF less
          <5> QED  BY <5>2, <5>3, <5>4, <5>5
        <4> QED  BY <4>1, <3>4, <2>5
      <3>5. ASSUME d.spot = STOP \/ d.spot = NONE  PROVE Stays(n + 1)
        <4>1. SpotOf(d.spot, e, v, q.size) /\ d.spot # SEARCHING
          BY <3>5 DEF SpotOf, STOP, NONE, SEARCHING
        <4> QED  BY <4>1, <2>5
      <3>6. ASSUME /\ d.spot \in Nat /\ acc.addr <= d.spot /\ d.spot + q.size <= acc.end
                   /\ Clear(v, d.spot, q.size)
            PROVE  Stays(n + 1)
        <4>1. /\ e.address <= d.spot /\ d.spot + q.size <= End(e) /\ d.spot # SEARCHING
          <5> HIDE DEF d, acc
          <5>1. d.spot \in Nat /\ acc.addr <= d.spot /\ d.spot + q.size <= acc.end
            BY <3>6
          <5>2. e.address <= acc.addr /\ acc.end <= End(e)
            BY <3>1
          <5>3. e.address <= d.spot
            BY <5>1, <5>2, <3>3, <1>2
          <5>4. d.spot + q.size <= End(e)
            BY <5>1, <5>2, <3>3, <1>2
          <5>5. d.spot # SEARCHING
            BY <5>1 DEF SEARCHING
          <5> QED  BY <5>3, <5>4, <5>5
        <4>2. SpotOf(d.spot, e, v, q.size)
          BY <4>1, <3>6 DEF SpotOf
        <4> QED  BY <4>1, <4>2, <2>5
      <3>7. Stays(n + 1)
        <4> HIDE DEF Stays, d, acc
        <4> QED  BY <3>2, <3>4, <3>5, <3>6
      <3> HIDE DEF Stays
      <3> QED  BY <2>1, <3>7
    <2> QED  BY <2>6, <2>7
  <1>13. D = Nat
    <2> HIDE DEF Stays
    <2>1. D \in SUBSET Nat  OBVIOUS
    <2> HIDE DEF D
    <2> QED  BY <2>1, <1>11, <1>12, Induction
  <1>14. Stays(N) /\ N \in Nat
    <2>1. N \in Nat  BY <1>2
    <2> HIDE DEF Stays, N
    <2> QED  BY <2>1, <1>13
  <1>15. F[N].spot # SEARCHING
    <2>1. F[N].addr \in Nat /\ F[N].end \in Nat
      BY <1>14 DEF Turns
    <2>2. ASSUME F[N].spot = SEARCHING  PROVE FALSE
      <3>1. F[N].addr < F[N].end /\ F[N].end - F[N].addr + N <= e.size
        BY <1>14, <2>2
      <3> QED  BY <2>1, <3>1, <1>2
    <2> QED  BY <2>2
  <1> QED  BY <1>1, <1>14, <1>15

(* A dynamic reservation is made of memory that is available and not reserved. *)
LEMMA DynamicFresh ==
    ASSUME NEW s \in Seq(Rng), NEW v \in Seq(Rng), Sorted(v), NEW q, IsRequest(q), Top \in Nat,
           DynamicSpot(s, v, q, Top) # NONE
    PROVE  LET r == Region(DynamicSpot(s, v, q, Top), q.size)
           IN  r \in Rng /\ Units(r) \subseteq Cover(s) /\ Units(r) \cap Cover(v) = {}
  <1> DEFINE spot(i) == SpotIn(s[i], v, q, Top)
             hits == {i \in DOMAIN s : spot(i) # NONE}
             f == Min(hits)
             a == DynamicSpot(s, v, q, Top)
             size == q.size
             r == Region(a, size)
  <1>1. a = IF hits = {} \/ size = 0 \/ spot(f) = STOP THEN NONE ELSE spot(f)
    BY Zenon DEF DynamicSpot
  <1>2. hits # {} /\ size # 0 /\ spot(f) # STOP /\ a = spot(f)
    <2> HIDE DEF hits, spot, f, size
    <2> QED  BY <1>1
  <1>3. Len(s) \in Nat /\ DOMAIN s = 1 .. Len(s)
    BY ListParts
  <1>4. hits \in SUBSET Nat
    <2> HIDE DEF spot
    <2> QED  BY <1>3
  <1>5. f \in hits
    <2> HIDE DEF hits
    <2> QED  BY <1>2, <1>4, LeastOf
  <1> HIDE DEF a, f
  <1>6. f \in 1 .. Len(s) /\ spot(f) # NONE
    <2> HIDE DEF spot
    <2> QED  BY <1>3, <1>5
  <1>7. s[f] \in Rng
    BY <1>6, ListParts
  <1>8. SpotOf(spot(f), s[f], v, size)
    BY <1>7, SpotFound
  <1> HIDE DEF spot
  <1>9. /\ a \in Nat /\ s[f].address <= a /\ a + size <= End(s[f]) /\ Clear(v, a, size)
    BY <1>2, <1>6, <1>8 DEF SpotOf
  <1>10. size \in Nat \ {0}
    BY <1>2 DEF IsRequest
  <1> HIDE DEF size
  <1>11. r \in Rng /\ r.address = a /\ End(r) = a + size
    BY <1>9, <1>10, RngRegion
  <1> HIDE DEF r
  <1>12. Holds(s, f, r)
    BY <1>6, <1>9, <1>11 DEF Holds
  <1>13. Units(r) \subseteq Cover(s)
    BY <1>11, <1>12, HeldCovered
  <1>14. /\ \A u : u \in Units(r) <=> u \in Int /\ a <= u /\ u < a + size
    BY <1>11, RngParts
  <1>15. \A i \in 1 .. Len(v) : Units(v[i]) \cap Units(r) = {}
    <2> SUFFICES ASSUME NEW i \in 1 .. Len(v), NEW u, u \in Units(v[i]), u \in Units(r)  PROVE FALSE
      OBVIOUS
    <2>1. v[i] \in Rng
      BY ListParts
    <2>2. /\ v[i].address \in Nat /\ End(v[i]) \in Nat
          /\ u \in Int /\ v[i].address <= u /\ u < End(v[i])
      BY <2>1, RngParts
    <2>3. a <= u /\ u < a + size
      BY <1>14
    <2>4. End(v[i]) <= a \/ a + size <= v[i].address
      BY <1>9 DEF Clear
    <2> QED  BY <2>2, <2>3, <2>4, <1>9, <1>10
  <1>16. Units(r) \cap Cover(v) = {}
    <2>1. \A u : u \in Cover(v) <=> \E i \in 1 .. Len(v) : u \in Units(v[i])
      BY ListParts
    <2> QED  BY <2>1, <1>15
  <1> QED  BY <1>11, <1>13, <1>16 DEF r, a, size

-------------------------------------------------------------------------------
(* The invariant *)

(* The ghost state that outlives finalization. *)
Ghosts(dyn, pin, man, hand) ==
    /\ dyn \subseteq Rng /\ Apart(dyn)
    /\ UnitsOf(dyn) \cup pin \cup man \cup hand \subseteq 0 .. Top - 1

(* Before finalization: what is pinned or handed out dynamically is reserved. *)
SetUp(b, L, dyn, pin, hand) ==
    /\ b \in Blocks /\ Sorted(b.regions) /\ Sorted(b.reserved)
    /\ b.rcap = CAPACITY /\ b.vcap = CAPACITY
    /\ Len(b.regions) <= b.rcap /\ Len(b.reserved) <= b.vcap
    /\ b.fault = "none" /\ b.tables = {} /\ L = {} /\ hand = {}
    /\ Total(b) \subseteq 0 .. Top - 1
    /\ pin \cup UnitsOf(dyn) \subseteq Cover(b.reserved)

(* Afterwards: the lists account for all memory, and it is nobody else's. *)
Running(b, L, dyn, pin, man, hand) ==
    /\ Good(b, L)
    /\ Total(b) \subseteq 0 .. Top - 1
    /\ Total(b) \cap (pin \cup UnitsOf(dyn)) = {}
    /\ hand = {} => man = Total(b)
    /\ hand # {} => Total(b) \subseteq hand

Inv ==
    /\ allocatable \in BOOLEAN
    /\ Ghosts(dynamic, pinned, managed, handoff)
    /\ ~allocatable => SetUp(Block, live, dynamic, pinned, handoff)
    /\ allocatable => Running(Block, live, dynamic, pinned, managed, handoff)

(***************************************************************************)
(* The hypothesis on the callers: no memory node and no reservation that   *)
(* is added is empty, or reaches two or more entries of its list that      *)
(* begin after it.                                                         *)
(***************************************************************************)
Tidy == [][TidyNext]_vars

LEMMA BlockParts ==
    /\ Block.regions = regions /\ Block.reserved = reserved
    /\ Block.rcap = region_capacity /\ Block.vcap = reserved_capacity
    /\ Block.tables = tables /\ Block.fault = fault /\ Block.addr = NONE
  BY DEF Block

LEMMA BlockType ==
    Block \in Blocks <=> /\ regions \in Seq(Rng) /\ reserved \in Seq(Rng)
                         /\ region_capacity \in Nat /\ reserved_capacity \in Nat
                         /\ tables \in SUBSET Rng /\ fault \in Faults
  <1>1. NONE \in Int
    BY DEF NONE
  <1> DEFINE A == Seq(Rng)
  <1> HIDE DEF A
  <1>2. Block \in [regions : A, reserved : A, rcap : Nat, vcap : Nat,
                   tables : SUBSET Rng, fault : Faults, addr : Int]
        <=> /\ regions \in A /\ reserved \in A
            /\ region_capacity \in Nat /\ reserved_capacity \in Nat
            /\ tables \in SUBSET Rng /\ fault \in Faults
    BY <1>1 DEF Block
  <1> QED  BY <1>2 DEF A, Blocks

LEMMA BlockNext ==
    /\ Block'.regions = regions' /\ Block'.reserved = reserved'
    /\ Block'.rcap = region_capacity' /\ Block'.vcap = reserved_capacity'
    /\ Block'.tables = tables' /\ Block'.fault = fault' /\ Block'.addr = NONE
    /\ Block' \in Blocks <=> /\ regions' \in Seq(Rng) /\ reserved' \in Seq(Rng)
                             /\ region_capacity' \in Nat /\ reserved_capacity' \in Nat
                             /\ tables' \in SUBSET Rng /\ fault' \in Faults
  <1>1. NONE \in Int
    BY DEF NONE
  <1> DEFINE A == Seq(Rng)
             b == Block'
  <1>2. b = [regions |-> regions', reserved |-> reserved', rcap |-> region_capacity',
             vcap |-> reserved_capacity', tables |-> tables', fault |-> fault', addr |-> NONE]
    BY DEF Block
  <1> HIDE DEF A, b
  <1>3. b \in [regions : A, reserved : A, rcap : Nat, vcap : Nat,
               tables : SUBSET Rng, fault : Faults, addr : Int]
        <=> /\ regions' \in A /\ reserved' \in A
            /\ region_capacity' \in Nat /\ reserved_capacity' \in Nat
            /\ tables' \in SUBSET Rng /\ fault' \in Faults
    BY <1>1, <1>2
  <1>4. /\ b.regions = regions' /\ b.reserved = reserved'
        /\ b.rcap = region_capacity' /\ b.vcap = reserved_capacity'
        /\ b.tables = tables' /\ b.fault = fault' /\ b.addr = NONE
    BY <1>2
  <1> QED  BY <1>3, <1>4 DEF A, b, Blocks

LEMMA InitInv ==
    ASSUME Init, Top \in Nat
    PROVE  Inv
  <1>1. CAPACITY \in Nat /\ CAPACITY >= 3
    BY TablesAssumption
  <1>2. /\ regions = <<>> /\ reserved = <<>> /\ region_capacity = CAPACITY
        /\ reserved_capacity = CAPACITY /\ fault = "none"
        /\ dynamic = {} /\ live = {} /\ tables = {} /\ pinned = {} /\ managed = {} /\ handoff = {}
    BY DEF Init
  <1>3. allocatable = FALSE
    BY DEF Init
  <1>4. /\ Cover(<<>>) = {} /\ Sorted(<<>>) /\ Len(<<>>) = 0 /\ <<>> \in Seq(Rng)
    BY DEF Cover, Sorted
  <1>5. UnitsOf({}) = {} /\ Apart({})
    BY DEF UnitsOf, Apart
  <1>6. Block \in Blocks
    <2>1. "none" \in Faults  BY DEF Faults
    <2> QED  BY <2>1, <1>1, <1>2, <1>4, BlockType
  <1>7. Total(Block) = {}
    BY <1>2, <1>4, BlockParts DEF Total
  <1>8. SetUp(Block, live, dynamic, pinned, handoff)
    <2> DEFINE b == Block
    <2>1. /\ b.regions = <<>> /\ b.reserved = <<>> /\ b.rcap = CAPACITY /\ b.vcap = CAPACITY
          /\ b.fault = "none" /\ b.tables = {}
      BY <1>2, BlockParts
    <2>2. b \in Blocks /\ Total(b) = {}
      BY <1>6, <1>7
    <2> HIDE DEF b
    <2>3. SetUp(b, live, dynamic, pinned, handoff)
      BY <2>1, <2>2, <1>1, <1>2, <1>4, <1>5 DEF SetUp
    <2> QED  BY <2>3 DEF b
  <1>9. Ghosts(dynamic, pinned, managed, handoff)
    BY <1>2, <1>5 DEF Ghosts
  <1> QED  BY <1>3, <1>8, <1>9 DEF Inv

-------------------------------------------------------------------------------
(* Steps before finalization *)

(* What the invariant says there. *)
LEMMA SetUpParts ==
    ASSUME Inv, ~allocatable
    PROVE  /\ regions \in Seq(Rng) /\ reserved \in Seq(Rng) /\ Sorted(regions) /\ Sorted(reserved)
           /\ region_capacity = CAPACITY /\ reserved_capacity = CAPACITY
           /\ Len(regions) <= region_capacity /\ Len(reserved) <= reserved_capacity
           /\ fault = "none" /\ tables = {} /\ live = {} /\ handoff = {}
           /\ Cover(regions) \cup Cover(reserved) \subseteq 0 .. Top - 1
           /\ pinned \cup UnitsOf(dynamic) \subseteq Cover(reserved)
           /\ Ghosts(dynamic, pinned, managed, handoff)
  <1>1. SetUp(Block, live, dynamic, pinned, handoff) /\ Ghosts(dynamic, pinned, managed, handoff)
    BY DEF Inv
  <1>2. Block \in Blocks
    BY <1>1 DEF SetUp
  <1>3. regions \in Seq(Rng) /\ reserved \in Seq(Rng)
    BY <1>2, BlockType
  <1>4. Total(Block) = Cover(regions) \cup Cover(reserved)
    BY BlockParts DEF Total
  <1> QED  BY <1>1, <1>3, <1>4, BlockParts DEF SetUp

(* And what a step must establish to stay there. *)
LEMMA SetUpStays ==
    ASSUME regions' \in Seq(Rng), reserved' \in Seq(Rng), Sorted(regions'), Sorted(reserved'),
           region_capacity' = CAPACITY, reserved_capacity' = CAPACITY,
           Len(regions') <= region_capacity', Len(reserved') <= reserved_capacity',
           fault' = "none", tables' = {}, live' = {}, handoff' = {},
           Cover(regions') \cup Cover(reserved') \subseteq 0 .. Top - 1,
           pinned' \cup UnitsOf(dynamic') \subseteq Cover(reserved'),
           Ghosts(dynamic', pinned', managed', handoff'),
           allocatable' = FALSE
    PROVE  Inv'
  <1> DEFINE b == Block'
  <1>1. b \in Blocks
    <2>1. CAPACITY \in Nat /\ "none" \in Faults
      BY TablesAssumption DEF Faults
    <2> QED  BY <2>1, BlockNext
  <1>2. /\ b.regions = regions' /\ b.reserved = reserved'
        /\ b.rcap = region_capacity' /\ b.vcap = reserved_capacity'
        /\ b.tables = tables' /\ b.fault = fault'
    BY BlockNext
  <1> HIDE DEF b
  <1>3. SetUp(b, live', dynamic', pinned', handoff')
    <2>1. Total(b) \subseteq 0 .. Top - 1
      BY <1>2 DEF Total
    <2> QED  BY <1>1, <1>2, <2>1 DEF SetUp
  <1> QED  BY <1>3 DEF Inv, b

(* The inputs. *)
LEMMA InputRng ==
    ASSUME NEW r \in Available \cup Reservations, r.size # 0
    PROVE  r \in Rng /\ Units(r) \subseteq 0 .. Top - 1 /\ Top \in Nat
  <1>1. r \in Rng /\ End(r) <= Top /\ Top \in Nat
    BY InputsAssumption DEF Rng
  <1>2. /\ r.address \in Nat /\ End(r) \in Nat
        /\ \A u : u \in Units(r) <=> u \in Int /\ r.address <= u /\ u < End(r)
    BY <1>1, RngParts
  <1>3. \A u \in Units(r) : u \in 0 .. Top - 1
    BY <1>1, <1>2
  <1> QED  BY <1>1, <1>3

(* Room in a table, before a region is added. *)
LEMMA GrownFits ==
    ASSUME NEW s \in Seq(Rng), NEW r, NEW t, Grown(t, s, r), HasRoom(s, CAPACITY)
    PROVE  Len(t) <= CAPACITY
  <1>1. t \in Seq(Rng) /\ Len(t) <= Len(s) + 1
    BY DEF Grown
  <1>2. Len(t) \in Nat /\ Len(s) \in Nat /\ CAPACITY \in Nat
    BY <1>1, ListParts, TablesAssumption
  <1>3. Len(s) + 1 <= CAPACITY
    BY DEF HasRoom
  <1>4. \A k, m, n \in Nat : k <= m + 1 /\ m + 1 <= n => k <= n
    OBVIOUS
  <1> QED  BY <1>1, <1>2, <1>3, <1>4

LEMMA AddAvailableKeeps ==
    ASSUME Inv, NEW r \in Available, add_available_region(r), r.size # 0, ~Spans(regions, r)
    PROVE  Inv'
  <1>1. /\ ~allocatable /\ HasRoom(regions, region_capacity) /\ regions' = AddRegion(regions, r)
        /\ UNCHANGED <<reserved, region_capacity, reserved_capacity, allocatable, fault,
                       dynamic, live, tables, pinned, managed, handoff>>
    BY DEF add_available_region
  <1>2. /\ regions \in Seq(Rng) /\ reserved \in Seq(Rng) /\ Sorted(regions) /\ Sorted(reserved)
        /\ region_capacity = CAPACITY /\ reserved_capacity = CAPACITY
        /\ Len(regions) <= region_capacity /\ Len(reserved) <= reserved_capacity
        /\ fault = "none" /\ tables = {} /\ live = {} /\ handoff = {}
        /\ Cover(regions) \cup Cover(reserved) \subseteq 0 .. Top - 1
        /\ pinned \cup UnitsOf(dynamic) \subseteq Cover(reserved)
        /\ Ghosts(dynamic, pinned, managed, handoff)
    BY <1>1, SetUpParts
  <1>3. r \in Rng /\ Units(r) \subseteq 0 .. Top - 1
    BY InputRng
  <1>4. Grown(regions', regions, r)
    BY <1>1, <1>2, <1>3, AddRegionGrows
  <1>5. Len(regions') <= CAPACITY
    BY <1>1, <1>2, <1>4, GrownFits
  <1>6. regions' \in Seq(Rng) /\ Sorted(regions') /\ Cover(regions') = Cover(regions) \cup Units(r)
    BY <1>4 DEF Grown
  <1>7. Cover(regions') \cup Cover(reserved') \subseteq 0 .. Top - 1
    <2>1. reserved' = reserved
      BY <1>1
    <2> QED  BY <2>1, <1>2, <1>3, <1>6
  <1>8. allocatable' = FALSE
    <2>1. allocatable \in BOOLEAN  BY DEF Inv
    <2>2. allocatable = FALSE  BY <2>1, <1>1
    <2> QED  BY <2>2, <1>1
  <1>9. Ghosts(dynamic', pinned', managed', handoff')
    BY <1>1, <1>2
  <1>10. pinned' \cup UnitsOf(dynamic') \subseteq Cover(reserved')
    BY <1>1, <1>2
  <1> QED  BY <1>1, <1>2, <1>5, <1>6, <1>7, <1>8, <1>9, <1>10, SetUpStays

LEMMA AddReservedKeeps ==
    ASSUME Inv, NEW r \in Reservations, add_reserved_region(r), r.size # 0, ~Spans(reserved, r)
    PROVE  Inv'
  <1>1. /\ ~allocatable /\ HasRoom(reserved, reserved_capacity) /\ reserved' = AddRegion(reserved, r)
        /\ pinned' = pinned \cup Units(r)
        /\ UNCHANGED <<regions, region_capacity, reserved_capacity, allocatable, fault,
                       dynamic, live, tables, managed, handoff>>
    BY DEF add_reserved_region
  <1>2. /\ regions \in Seq(Rng) /\ reserved \in Seq(Rng) /\ Sorted(regions) /\ Sorted(reserved)
        /\ region_capacity = CAPACITY /\ reserved_capacity = CAPACITY
        /\ Len(regions) <= region_capacity /\ Len(reserved) <= reserved_capacity
        /\ fault = "none" /\ tables = {} /\ live = {} /\ handoff = {}
        /\ Cover(regions) \cup Cover(reserved) \subseteq 0 .. Top - 1
        /\ pinned \cup UnitsOf(dynamic) \subseteq Cover(reserved)
        /\ Ghosts(dynamic, pinned, managed, handoff)
    BY <1>1, SetUpParts
  <1>3. r \in Rng /\ Units(r) \subseteq 0 .. Top - 1
    BY InputRng
  <1>4. Grown(reserved', reserved, r)
    BY <1>1, <1>2, <1>3, AddRegionGrows
  <1>5. Len(reserved') <= CAPACITY
    BY <1>1, <1>2, <1>4, GrownFits
  <1>6. reserved' \in Seq(Rng) /\ Sorted(reserved') /\ Cover(reserved') = Cover(reserved) \cup Units(r)
    BY <1>4 DEF Grown
  <1>7. Cover(regions') \cup Cover(reserved') \subseteq 0 .. Top - 1
    <2>1. regions' = regions
      BY <1>1
    <2> QED  BY <2>1, <1>2, <1>3, <1>6
  <1>8. allocatable' = FALSE
    <2>1. allocatable \in BOOLEAN  BY DEF Inv
    <2>2. allocatable = FALSE  BY <2>1, <1>1
    <2> QED  BY <2>2, <1>1
  <1>9. Ghosts(dynamic', pinned', managed', handoff')
    BY <1>1, <1>2, <1>3 DEF Ghosts
  <1>10. pinned' \cup UnitsOf(dynamic') \subseteq Cover(reserved')
    BY <1>1, <1>2, <1>6
  <1> QED  BY <1>1, <1>2, <1>5, <1>6, <1>7, <1>8, <1>9, <1>10, SetUpStays

(* What a dynamic reservation adds. *)
LEMMA DynamicAdds ==
    ASSUME Inv, NEW q \in Requests, allocate_dynamic_reserved_region(q)
    PROVE  \E r \in Rng : /\ Units(r) \subseteq Cover(regions) /\ Units(r) \cap Cover(reserved) = {}
                          /\ reserved' = AddRegion(reserved, r) /\ dynamic' = dynamic \cup {r}
  <1> DEFINE r == Region(DynamicSpot(regions, reserved, q, Top), q.size)
  <1>1. /\ ~allocatable /\ DynamicSpot(regions, reserved, q, Top) # NONE
        /\ reserved' = AddRegion(reserved, r) /\ dynamic' = dynamic \cup {r}
    BY DEF allocate_dynamic_reserved_region
  <1>2. regions \in Seq(Rng) /\ reserved \in Seq(Rng) /\ Sorted(reserved)
    BY <1>1, SetUpParts
  <1>3. IsRequest(q) /\ Top \in Nat
    BY InputsAssumption DEF IsRequest
  <1>4. r \in Rng /\ Units(r) \subseteq Cover(regions) /\ Units(r) \cap Cover(reserved) = {}
    BY <1>1, <1>2, <1>3, DynamicFresh
  <1> HIDE DEF r
  <1> QED  BY <1>1, <1>4

LEMMA DynamicKeeps ==
    ASSUME Inv, NEW q \in Requests, allocate_dynamic_reserved_region(q)
    PROVE  Inv'
  <1>1. /\ ~allocatable /\ HasRoom(reserved, reserved_capacity)
        /\ UNCHANGED <<regions, region_capacity, reserved_capacity, allocatable, fault,
                       live, tables, pinned, managed, handoff>>
    BY DEF allocate_dynamic_reserved_region
  <1>2. /\ regions \in Seq(Rng) /\ reserved \in Seq(Rng) /\ Sorted(regions) /\ Sorted(reserved)
        /\ region_capacity = CAPACITY /\ reserved_capacity = CAPACITY
        /\ Len(regions) <= region_capacity /\ Len(reserved) <= reserved_capacity
        /\ fault = "none" /\ tables = {} /\ live = {} /\ handoff = {}
        /\ Cover(regions) \cup Cover(reserved) \subseteq 0 .. Top - 1
        /\ pinned \cup UnitsOf(dynamic) \subseteq Cover(reserved)
        /\ Ghosts(dynamic, pinned, managed, handoff)
    BY <1>1, SetUpParts
  <1>3. PICK r \in Rng : /\ Units(r) \subseteq Cover(regions) /\ Units(r) \cap Cover(reserved) = {}
                         /\ reserved' = AddRegion(reserved, r) /\ dynamic' = dynamic \cup {r}
    BY DynamicAdds
  <1>4. Grown(reserved', reserved, r)
    <2>1. ~Spans(reserved, r)
      BY <1>2, <1>3, FreshMerges
    <2> QED  BY <2>1, <1>2, <1>3, AddRegionGrows
  <1>5. Len(reserved') <= CAPACITY
    BY <1>1, <1>2, <1>4, GrownFits
  <1>6. reserved' \in Seq(Rng) /\ Sorted(reserved') /\ Cover(reserved') = Cover(reserved) \cup Units(r)
    BY <1>4 DEF Grown
  <1>7. Cover(regions') \cup Cover(reserved') \subseteq 0 .. Top - 1
    <2>1. regions' = regions
      BY <1>1
    <2> QED  BY <2>1, <1>2, <1>3, <1>6
  <1>8. allocatable' = FALSE
    <2>1. allocatable \in BOOLEAN  BY DEF Inv
    <2>2. allocatable = FALSE  BY <2>1, <1>1
    <2> QED  BY <2>2, <1>1
  <1>9. UnitsOf(dynamic') = UnitsOf(dynamic) \cup Units(r)
    BY <1>3 DEF UnitsOf
  <1>10. Ghosts(dynamic', pinned', managed', handoff')
    <2>1. dynamic \subseteq Rng /\ Apart(dynamic)
      BY <1>2 DEF Ghosts
    <2>2. \A p \in dynamic : Units(p) \subseteq Cover(reserved)
      BY <1>2, <2>1, UnitsOfParts
    <2>3. Apart(dynamic')
      BY <2>1, <2>2, <1>3 DEF Apart
    <2>4. UnitsOf(dynamic) \cup pinned \cup managed \cup handoff \subseteq 0 .. Top - 1
      BY <1>2 DEF Ghosts
    <2>5. Units(r) \subseteq 0 .. Top - 1
      BY <1>2, <1>3
    <2>6. dynamic' \subseteq Rng
      BY <1>3, <2>1
    <2>7. UnitsOf(dynamic') \cup pinned' \cup managed' \cup handoff' \subseteq 0 .. Top - 1
      BY <1>1, <1>9, <2>4, <2>5
    <2> QED  BY <2>3, <2>6, <2>7 DEF Ghosts
  <1>11. pinned' \cup UnitsOf(dynamic') \subseteq Cover(reserved')
    BY <1>1, <1>2, <1>6, <1>9
  <1> QED  BY <1>1, <1>2, <1>5, <1>6, <1>7, <1>8, <1>10, <1>11, SetUpStays

LEMMA FinalizeKeeps ==
    ASSUME Inv, finalize
    PROVE  Inv'
  <1> DEFINE d == SubtractAll(regions, reserved, region_capacity)
             err == d.err
  <1>1. /\ ~allocatable /\ regions' = d.list
        /\ reserved' = (IF err THEN reserved ELSE <<>>)
        /\ managed' = (IF err THEN managed ELSE Cover(d.list))
        /\ UNCHANGED <<region_capacity, reserved_capacity, fault, dynamic, live, tables,
                       pinned, handoff>>
    BY DEF finalize
  <1>2. allocatable' = ~err
    BY Zenon DEF finalize
  <1>3. /\ regions \in Seq(Rng) /\ reserved \in Seq(Rng) /\ Sorted(regions) /\ Sorted(reserved)
        /\ region_capacity = CAPACITY /\ reserved_capacity = CAPACITY
        /\ Len(regions) <= region_capacity /\ Len(reserved) <= reserved_capacity
        /\ fault = "none" /\ tables = {} /\ live = {} /\ handoff = {}
        /\ Cover(regions) \cup Cover(reserved) \subseteq 0 .. Top - 1
        /\ pinned \cup UnitsOf(dynamic) \subseteq Cover(reserved)
        /\ Ghosts(dynamic, pinned, managed, handoff)
    BY <1>1, SetUpParts
  <1>4. CAPACITY \in Nat
    BY TablesAssumption
  <1>5. Subtracted(d, regions, reserved, region_capacity)
    BY <1>3, <1>4, AllSubtracted
  <1> HIDE DEF d
  <1>6. /\ d \in Scans(region_capacity) /\ Cover(d.list) \subseteq Cover(regions)
        /\ err = FALSE => Cover(d.list) = Cover(regions) \ Cover(reserved)
    BY <1>5 DEF Subtracted
  <1>7. d.list \in Seq(Rng) /\ Sorted(d.list) /\ Len(d.list) <= region_capacity
    BY <1>3, <1>4, <1>6, ScanParts
  <1>8. err \in BOOLEAN
    BY <1>6, Zenon DEF Scans
  <1> HIDE DEF err
  <1>9. CASE err = TRUE
    <2>1. allocatable' = FALSE /\ reserved' = reserved /\ managed' = managed
      BY <1>1, <1>2, <1>9
    <2>2. Cover(regions') \cup Cover(reserved') \subseteq 0 .. Top - 1
      BY <2>1, <1>1, <1>3, <1>6
    <2>3. Ghosts(dynamic', pinned', managed', handoff')
      BY <2>1, <1>1, <1>3
    <2>4. pinned' \cup UnitsOf(dynamic') \subseteq Cover(reserved')
      BY <2>1, <1>1, <1>3
    <2>5. regions' \in Seq(Rng) /\ Sorted(regions') /\ Len(regions') <= region_capacity'
      BY <1>1, <1>7
    <2> QED  BY <2>1, <2>2, <2>3, <2>4, <2>5, <1>1, <1>3, SetUpStays
  <1>10. CASE err = FALSE
    <2>1. allocatable' = TRUE /\ reserved' = <<>> /\ managed' = Cover(d.list) /\ regions' = d.list
      BY <1>1, <1>2, <1>10
    <2>2. Cover(d.list) = Cover(regions) \ Cover(reserved)
      BY <1>6, <1>10
    <2> DEFINE b == Block'
    <2>3. /\ b.regions = d.list /\ b.reserved = <<>> /\ b.rcap = CAPACITY /\ b.vcap = CAPACITY
          /\ b.tables = {} /\ b.fault = "none"
      BY <2>1, <1>1, <1>3, BlockNext
    <2>4. b \in Blocks
      <3>1. "none" \in Faults /\ <<>> \in Seq(Rng)  BY DEF Faults
      <3> QED  BY <2>1, <3>1, <1>1, <1>3, <1>4, <1>7, BlockNext
    <2> HIDE DEF b
    <2>5. /\ Cover(<<>>) = {} /\ Sorted(<<>>) /\ Len(<<>>) = 0
      BY DEF Cover, Sorted
    <2>6. UnitsOf({}) = {} /\ Apart({})
      BY DEF UnitsOf, Apart
    <2>7. Total(b) = Cover(d.list)
      BY <2>3, <2>5 DEF Total
    <2>8. Sound(b, {})
      <3>1. Len(b.regions) <= b.rcap /\ Len(b.reserved) <= b.vcap /\ b.rcap >= CAPACITY /\ b.vcap >= CAPACITY
        BY <2>3, <2>5, <1>3, <1>4, <1>7
      <3>2. Cover(b.regions) \cap Cover(b.reserved) = {} /\ Cover(b.reserved) = UnitsOf({})
        BY <2>3, <2>5, <2>6
      <3>3. Sorted(b.regions) /\ Sorted(b.reserved)
        BY <2>3, <2>5, <1>7
      <3> QED  BY <2>4, <2>6, <3>1, <3>2, <3>3 DEF Sound
    <2>9. Good(b, {})
      BY <2>3, <2>8 DEF Good
    <2>10. Running(b, live', dynamic', pinned', managed', handoff')
      <3>1. live' = {} /\ dynamic' = dynamic /\ pinned' = pinned /\ handoff' = {}
        BY <1>1, <1>3
      <3>2. Total(b) \subseteq 0 .. Top - 1 /\ Total(b) \cap (pinned \cup UnitsOf(dynamic)) = {}
        BY <2>2, <2>7, <1>3
      <3> QED  BY <2>1, <2>7, <2>9, <3>1, <3>2 DEF Running
    <2>11. Ghosts(dynamic', pinned', managed', handoff')
      <3>1. Cover(d.list) \subseteq 0 .. Top - 1
        BY <2>2, <1>3
      <3> QED  BY <2>1, <3>1, <1>1, <1>3 DEF Ghosts
    <2> QED  BY <2>1, <2>10, <2>11 DEF Inv, b
  <1> QED  BY <1>8, <1>9, <1>10

-------------------------------------------------------------------------------
(* Steps after it *)

LEMMA RunningParts ==
    ASSUME Inv, allocatable
    PROVE  /\ Running(Block, live, dynamic, pinned, managed, handoff)
           /\ Ghosts(dynamic, pinned, managed, handoff)
           /\ Good(Block, live)
  BY DEF Inv, Running

(* The operations leave their result's address behind. *)
LEMMA InstalledGood ==
    ASSUME NEW b, NEW L, Good(b, L), Install(b)
    PROVE  /\ Good(Block', L) /\ Total(Block') = Total(b)
           /\ \A n : Room(Block', n) <=> Room(b, n)
  <1> DEFINE c == Block'
  <1>1. Sound(b, L \cup b.tables) /\ L \cap b.tables = {}
    BY DEF Good
  <1>2. b \in Blocks
    BY <1>1 DEF Sound
  <1>3. /\ regions' = b.regions /\ reserved' = b.reserved /\ region_capacity' = b.rcap
        /\ reserved_capacity' = b.vcap /\ tables' = b.tables /\ fault' = b.fault
    BY DEF Install
  <1>4. /\ c.regions = b.regions /\ c.reserved = b.reserved /\ c.rcap = b.rcap
        /\ c.vcap = b.vcap /\ c.tables = b.tables /\ c.fault = b.fault
    BY <1>3, BlockNext
  <1>5. c \in Blocks
    <2>1. /\ b.regions \in Seq(Rng) /\ b.reserved \in Seq(Rng) /\ b.rcap \in Nat /\ b.vcap \in Nat
          /\ b.tables \in SUBSET Rng /\ b.fault \in Faults
      BY <1>2 DEF Blocks
    <2> QED  BY <2>1, <1>3, BlockNext
  <1> HIDE DEF c
  <1>6. Sound(c, L \cup b.tables)
    BY <1>1, <1>4, <1>5 DEF Sound
  <1>7. Good(c, L)
    BY <1>1, <1>4, <1>6 DEF Good
  <1>8. Total(c) = Total(b) /\ \A n : Room(c, n) <=> Room(b, n)
    BY <1>4 DEF Total, Room
  <1> QED  BY <1>7, <1>8 DEF c

(* What a step must establish to keep the invariant. *)
LEMMA RunningStays ==
    ASSUME Inv, allocatable, NEW b, NEW L, Good(b, L), Install(b), live' = L,
           UNCHANGED <<allocatable, dynamic, pinned, managed>>,
           \/ handoff' = handoff /\ Total(b) = Total(Block)
           \/ handoff' # {} /\ Total(b) = handoff' /\ Total(b) \subseteq Total(Block)
    PROVE  Inv'
  <1>1. /\ Running(Block, live, dynamic, pinned, managed, handoff)
        /\ Ghosts(dynamic, pinned, managed, handoff)
    BY RunningParts
  <1> DEFINE c == Block'
             t == Total(Block)
             t2 == Total(Block')
  <1>2. Good(c, L) /\ t2 = Total(b)
    BY InstalledGood
  <1>3. /\ t \subseteq 0 .. Top - 1 /\ t \cap (pinned \cup UnitsOf(dynamic)) = {}
        /\ handoff = {} => managed = t
        /\ handoff # {} => t \subseteq handoff
    BY <1>1 DEF Running
  <1>4. /\ t2 \subseteq t
        /\ handoff' = {} => handoff = {} /\ t2 = t
        /\ handoff' # {} => t2 \subseteq handoff'
        /\ handoff' \subseteq handoff \cup t
    BY <1>2, <1>3
  <1>5. /\ t2 \subseteq 0 .. Top - 1 /\ t2 \cap (pinned' \cup UnitsOf(dynamic')) = {}
        /\ handoff' = {} => managed' = t2
        /\ handoff' # {} => t2 \subseteq handoff'
    BY <1>3, <1>4
  <1>6. Running(Block', live', dynamic', pinned', managed', handoff')
    <2> HIDE DEF t
    <2> QED  BY <1>2, <1>5 DEF Running
  <1>7. Ghosts(dynamic', pinned', managed', handoff')
    BY <1>1, <1>3, <1>4 DEF Ghosts
  <1>8. allocatable' = TRUE
    <2>1. allocatable \in BOOLEAN  BY DEF Inv
    <2> QED  BY <2>1
  <1> QED  BY <1>6, <1>7, <1>8 DEF Inv

LEMMA AllocateKeeps ==
    ASSUME Inv, NEW l \in Layouts, allocate_region(l)
    PROVE  /\ Inv'
           /\ fault' = "none" => Room(Block', 1)
           /\ Room(Block, 1) => fault' # "out_of_bounds"
  <1> DEFINE b == ensure_overflow_headroom(Block)
             c == allocate_region_internal(b, l.size, l.align)
             r == Region(c.addr, l.size)
  <1>1. /\ fault = "none" /\ allocatable
        /\ IF b.fault # "none" THEN Install(b) /\ live' = live
           ELSE /\ Install(c)
                /\ live' = IF c.fault # "none" \/ c.addr = NONE THEN live ELSE live \cup {r}
        /\ UNCHANGED <<allocatable, dynamic, pinned, managed, handoff>>
    BY Zenon DEF allocate_region
  <1>2. Good(Block, live) /\ Block.fault = "none"
    BY <1>1, RunningParts, BlockParts
  <1>3. Ensured(b, Block, live)
    BY <1>2, Headroom
  <1>4. l.size \in Nat \ {0} /\ l.align \in Nat \ {0}
    BY InputsAssumption
  <1> HIDE DEF b
  <1>5. /\ Good(b, live) /\ Total(b) = Total(Block)
        /\ b.fault = "none" => Room(b, 3)
        /\ Room(Block, 1) => b.fault # "out_of_bounds"
    BY <1>3 DEF Ensured
  <1>6. CASE b.fault # "none"
    <2>1. Install(b) /\ live' = live
      BY <1>1, <1>6
    <2>2. Inv'
      BY <2>1, <1>1, <1>5, RunningStays
    <2>3. fault' = b.fault
      BY <2>1 DEF Install
    <2> QED  BY <2>2, <2>3, <1>5, <1>6
  <1>7. CASE b.fault = "none"
    <2>1. Allocated(c, b, live, l.size)
      BY <1>4, <1>5, <1>7, Allocation
    <2> HIDE DEF c
    <2>2. Install(c) /\ live' = IF c.fault # "none" \/ c.addr = NONE THEN live ELSE live \cup {r}
      BY <1>1, <1>7
    <2>3. c.fault = "none" /\ Total(c) = Total(Block) /\ Room(c, 2)
      BY <2>1, <1>5 DEF Allocated
    <2>4. Good(c, live')
      <3>1. CASE c.addr = NONE /\ Good(c, live)
        BY <2>2, <3>1
      <3>2. CASE c.addr \in Nat /\ Good(c, live \cup {r})
        <4>1. c.addr # NONE  BY <3>2 DEF NONE
        <4>2. live' = live \cup {r}  BY <2>2, <2>3, <4>1
        <4> QED  BY <3>2, <4>2
      <3> QED  BY <2>1, <3>1, <3>2 DEF Allocated
    <2>5. Inv'
      BY <2>2, <2>3, <2>4, <1>1, RunningStays
    <2>6. fault' = "none"
      BY <2>2, <2>3 DEF Install
    <2>7. Room(c, 1)
      <3>1. c \in Blocks
        BY <2>4 DEF Good, Sound
      <3> QED  BY <2>3, <3>1, RoomLess
    <2>8. Room(Block', 1)
      BY <2>2, <2>4, <2>7, InstalledGood
    <2> QED  BY <2>5, <2>6, <2>8
  <1> QED  BY <1>6, <1>7

LEMMA DeallocateKeeps ==
    ASSUME Inv, NEW r \in live, deallocate_region(r)
    PROVE  /\ Inv'
           /\ fault' = "none" => Room(Block', 1)
           /\ Room(Block, 1) => fault' # "out_of_bounds"
  <1> DEFINE b == ensure_overflow_headroom(Block)
             d == Return(b, r.address, r.size)
             c == IF b.fault # "none" THEN b ELSE d
  <1>1. /\ fault = "none" /\ allocatable /\ Install(c)
        /\ live' = IF c.fault # "none" THEN live ELSE live \ {r}
        /\ UNCHANGED <<allocatable, dynamic, pinned, managed, handoff>>
    BY Zenon DEF deallocate_region
  <1>2. Good(Block, live) /\ Block.fault = "none"
    BY <1>1, RunningParts, BlockParts
  <1>3. Ensured(b, Block, live)
    BY <1>2, Headroom
  <1> HIDE DEF b
  <1>4. /\ Good(b, live) /\ Total(b) = Total(Block)
        /\ b.fault = "none" => Room(b, 3)
        /\ Room(Block, 1) => b.fault # "out_of_bounds"
    BY <1>3 DEF Ensured
  <1>5. CASE b.fault # "none"
    <2>1. c = b
      BY <1>5
    <2>2. Install(b) /\ live' = live
      BY <2>1, <1>1, <1>5
    <2>3. Inv'
      BY <2>2, <1>1, <1>4, RunningStays
    <2>4. fault' = b.fault
      BY <2>2 DEF Install
    <2> QED  BY <2>3, <2>4, <1>4, <1>5
  <1>6. CASE b.fault = "none"
    <2>1. Good(d, live \ {r}) /\ Total(d) = Total(b) /\ Room(d, 2) /\ d.fault = "none"
      BY <1>4, <1>6, Freed
    <2>2. c = d
      BY <1>6
    <2>3. Install(d) /\ live' = live \ {r}
      BY <2>1, <2>2, <1>1
    <2> HIDE DEF d
    <2>4. Inv'
      BY <2>1, <2>3, <1>1, <1>4, RunningStays
    <2>5. fault' = "none"
      BY <2>1, <2>3 DEF Install
    <2>6. Room(d, 1)
      <3>1. d \in Blocks
        BY <2>1 DEF Good, Sound
      <3> QED  BY <2>1, <3>1, RoomLess
    <2>7. Room(Block', 1)
      BY <2>1, <2>3, <2>6, InstalledGood
    <2> QED  BY <2>4, <2>5, <2>7
  <1> QED  BY <1>5, <1>6

LEMMA TrimKeeps ==
    ASSUME Inv, NEW n \in BootBytes, trim_for_boot(n)
    PROVE  /\ Inv'
           /\ fault' = "none" => Room(Block', 1)
           /\ Room(Block, 1) => fault' # "out_of_bounds"
  <1> DEFINE b == ensure_overflow_headroom(Block)
             c == allocate_region_internal(b, n, 1)
             e == IF b.fault # "none" THEN b ELSE c
             d == Return(Trimming(c), c.addr, n)
             fails == b.fault # "none" \/ c.fault # "none" \/ c.addr = NONE
             r == Region(c.addr, n)
  <1>1. /\ fault = "none" /\ allocatable
        /\ IF fails THEN Install(e) /\ handoff' = handoff
           ELSE Install(d) /\ handoff' = Cover(c.reserved)
        /\ UNCHANGED <<allocatable, dynamic, live, pinned, managed>>
    BY Zenon DEF trim_for_boot, Trimming
  <1>2. Good(Block, live) /\ Block.fault = "none"
    BY <1>1, RunningParts, BlockParts
  <1>3. Ensured(b, Block, live)
    BY <1>2, Headroom
  <1>4. n \in Nat \ {0}
    BY InputsAssumption
  <1> HIDE DEF b
  <1>5. /\ Good(b, live) /\ Total(b) = Total(Block)
        /\ b.fault = "none" => Room(b, 3)
        /\ Room(Block, 1) => b.fault # "out_of_bounds"
    BY <1>3 DEF Ensured
  <1>6. live' = live
    BY <1>1
  <1>7. CASE b.fault # "none"
    <2>1. Install(b) /\ handoff' = handoff
      BY <1>1, <1>7
    <2>2. Inv'
      BY <2>1, <1>1, <1>5, <1>6, RunningStays
    <2>3. fault' = b.fault
      BY <2>1 DEF Install
    <2> QED  BY <2>2, <2>3, <1>5, <1>7
  <1>8. CASE b.fault = "none"
    <2>1. Allocated(c, b, live, n)
      <3>1. 1 \in Nat \ {0}  OBVIOUS
      <3> QED  BY <3>1, <1>4, <1>5, <1>8, Allocation
    <2> HIDE DEF c
    <2>2. /\ c.fault = "none" /\ Total(c) = Total(Block) /\ Room(c, 2) /\ c.tables = b.tables
          /\ \/ c.addr = NONE /\ Good(c, live)
             \/ /\ c.addr \in Nat /\ r \in Rng \ (live \cup b.tables)
                /\ Good(c, live \cup {r})
      BY <2>1, <1>5 DEF Allocated
    <2>3. CASE c.addr = NONE /\ Good(c, live)
      <3>1. Install(c) /\ handoff' = handoff
        BY <2>3, <1>1, <1>8
      <3>2. Inv'
        BY <3>1, <2>2, <2>3, <1>1, <1>6, RunningStays
      <3>3. fault' = "none"
        BY <3>1, <2>2 DEF Install
      <3>4. Room(c, 1)
        <4>1. c \in Blocks
          BY <2>3 DEF Good, Sound
        <4> QED  BY <2>2, <4>1, RoomLess
      <3>5. Room(Block', 1)
        BY <3>1, <3>4, <2>3, InstalledGood
      <3> QED  BY <3>2, <3>3, <3>5
    <2>4. CASE c.addr \in Nat /\ r \in Rng \ (live \cup b.tables) /\ Good(c, live \cup {r})
      <3>1. c.addr # NONE
        BY <2>4 DEF NONE
      <3>2. ~fails
        BY <3>1, <2>2, <1>8
      <3>3. Install(d) /\ handoff' = Cover(c.reserved)
        <4> HIDE DEF d, e, fails
        <4> QED  BY <3>2, <1>1
      <3>4. d = Return(Trimming(c), r.address, r.size)
        BY <2>4, <1>4, RngRegion
      <3> HIDE DEF d, r
      <3>5. r \notin live /\ r \notin c.tables
        BY <2>2, <2>4
      <3>6. Good(d, live) /\ Total(d) = Cover(c.reserved) /\ Room(d, 1) /\ d.fault = "none"
        BY <3>4, <3>5, <2>2, <2>4, Kept
      <3>7. Cover(c.reserved) # {}
        <4> DEFINE S == (live \cup {r}) \cup c.tables
        <4>1. r \in S
          OBVIOUS
        <4>2. S \subseteq Rng /\ Cover(c.reserved) = UnitsOf(S)
          BY <2>4 DEF Good, Sound
        <4> HIDE DEF S
        <4>3. r.address \in UnitsOf(S)
          BY <4>1, <4>2, UnitsOfParts
        <4> QED  BY <4>2, <4>3
      <3>8. Total(d) \subseteq Total(Block)
        BY <3>6, <2>2 DEF Total
      <3>9. handoff' # {} /\ Total(d) = handoff'
        BY <3>3, <3>6, <3>7
      <3>10. Inv'
        BY <3>3, <3>6, <3>8, <3>9, <1>1, <1>6, RunningStays
      <3>11. fault' = "none"
        BY <3>3, <3>6 DEF Install
      <3>12. Room(Block', 1)
        BY <3>3, <3>6, InstalledGood
      <3> QED  BY <3>10, <3>11, <3>12
    <2> QED  BY <2>2, <2>3, <2>4
  <1> QED  BY <1>7, <1>8

-------------------------------------------------------------------------------
LEMMA StutterKeeps ==
    ASSUME Inv, UNCHANGED vars
    PROVE  Inv'
  <1>1. Block' = Block
    BY DEF vars, Block
  <1> DEFINE b == Block
             c == Block'
  <1>2. b = c
    BY <1>1
  <1> HIDE DEF b, c
  <1>3. /\ allocatable \in BOOLEAN /\ Ghosts(dynamic, pinned, managed, handoff)
        /\ ~allocatable => SetUp(b, live, dynamic, pinned, handoff)
        /\ allocatable => Running(b, live, dynamic, pinned, managed, handoff)
    BY DEF Inv, b
  <1>4. /\ allocatable' = allocatable /\ live' = live /\ dynamic' = dynamic /\ pinned' = pinned
        /\ managed' = managed /\ handoff' = handoff
    BY DEF vars
  <1>5. /\ allocatable' \in BOOLEAN /\ Ghosts(dynamic', pinned', managed', handoff')
        /\ ~allocatable' => SetUp(c, live', dynamic', pinned', handoff')
        /\ allocatable' => Running(c, live', dynamic', pinned', managed', handoff')
    BY <1>2, <1>3, <1>4
  <1> QED  BY <1>5 DEF Inv, c

(* The lists stay sound, for every table size and all inputs, if none spans others. *)
LEMMA InvHolds == Spec /\ Tidy => []Inv
  <1>1. Init => Inv
    BY InitInv, InputsAssumption
  <1>2. Inv /\ [TidyNext]_vars => Inv'
    <2> SUFFICES ASSUME Inv, [TidyNext]_vars  PROVE Inv'
      OBVIOUS
    <2>1. CASE UNCHANGED vars
      BY <2>1, StutterKeeps
    <2>2. CASE TidyNext
      <3>1. ASSUME NEW r \in Available, Fine(regions, r), add_available_region(r)  PROVE Inv'
        BY <3>1, AddAvailableKeeps DEF Fine
      <3>2. ASSUME NEW r \in Reservations, Fine(reserved, r), add_reserved_region(r)  PROVE Inv'
        BY <3>2, AddReservedKeeps DEF Fine
      <3>3. ASSUME NEW q \in Requests, allocate_dynamic_reserved_region(q)  PROVE Inv'
        BY <3>3, DynamicKeeps
      <3>4. ASSUME finalize  PROVE Inv'
        BY <3>4, FinalizeKeeps
      <3>5. ASSUME NEW l \in Layouts, allocate_region(l)  PROVE Inv'
        BY <3>5, AllocateKeeps
      <3>6. ASSUME NEW r \in live, deallocate_region(r)  PROVE Inv'
        BY <3>6, DeallocateKeeps
      <3>7. ASSUME NEW n \in BootBytes, trim_for_boot(n)  PROVE Inv'
        BY <3>7, TrimKeeps
      <3> QED  BY <2>2, <3>1, <3>2, <3>3, <3>4, <3>5, <3>6, <3>7 DEF TidyNext, Later
    <2> QED  BY <2>1, <2>2
  <1> QED  BY <1>1, <1>2, PTL DEF Spec, Tidy

-------------------------------------------------------------------------------
(* What the invariant implies *)

LEMMA InRanges ==
    ASSUME NEW r \in Rng, Units(r) \subseteq 0 .. Top - 1, Top \in Nat
    PROVE  r \in Ranges
  <1>1. /\ r.address \in Nat /\ r.size \in Nat \ {0} /\ End(r) \in Nat /\ r.address < End(r)
        /\ End(r) = r.address + r.size
        /\ \A u : u \in Units(r) <=> u \in Int /\ r.address <= u /\ u < End(r)
    BY RngParts
  <1>2. r.address \in Units(r) /\ End(r) - 1 \in Units(r)
    BY <1>1
  <1>3. r.address \in 0 .. Top - 1 /\ End(r) - 1 \in 0 .. Top - 1
    BY <1>2
  <1>4. r.size \in 1 .. Top
    BY <1>1, <1>3
  <1>5. r = [address |-> r.address, size |-> r.size]
    BY DEF Rng
  <1> QED  BY <1>3, <1>4, <1>5 DEF Ranges

LEMMA SeqRanges ==
    ASSUME NEW s \in Seq(Rng), Cover(s) \subseteq 0 .. Top - 1, Top \in Nat
    PROVE  s \in Seq(Ranges)
  <1>1. Len(s) \in Nat /\ DOMAIN s = 1 .. Len(s) /\ \A i \in 1 .. Len(s) : s[i] \in Rng
    BY ListParts
  <1>2. \A i \in 1 .. Len(s) : Units(s[i]) \subseteq Cover(s)
    BY <1>1 DEF Cover
  <1>3. \A i \in 1 .. Len(s) : s[i] \in Ranges
    BY <1>1, <1>2, InRanges
  <1>4. s = [i \in 1 .. Len(s) |-> s[i]]
    BY LenProperties
  <1>5. s \in [1 .. Len(s) -> Ranges]
    BY <1>3, <1>4
  <1> QED  BY <1>1, <1>5, SeqDef

(* Both lists, whatever the phase. *)
LEMMA InvLists ==
    ASSUME Inv
    PROVE  /\ regions \in Seq(Rng) /\ reserved \in Seq(Rng) /\ Sorted(regions) /\ Sorted(reserved)
           /\ Cover(regions) \cup Cover(reserved) \subseteq 0 .. Top - 1
           /\ region_capacity \in Nat /\ reserved_capacity \in Nat /\ fault \in Faults
           /\ live \subseteq Rng /\ tables \subseteq Rng
           /\ UnitsOf(live \cup tables) \subseteq Cover(reserved)
  <1> DEFINE b == Block
  <1>0. Total(b) = Cover(regions) \cup Cover(reserved)
    BY BlockParts DEF Total
  <1>1. CASE ~allocatable
    <2>1. CAPACITY \in Nat /\ "none" \in Faults /\ UnitsOf({}) = {}
      BY TablesAssumption DEF Faults, UnitsOf
    <2> QED  BY <2>1, <1>1, SetUpParts
  <1>2. CASE allocatable
    <2>1. Good(b, live) /\ Total(b) \subseteq 0 .. Top - 1
      BY <1>2, RunningParts DEF Running
    <2>2. Sound(b, live \cup b.tables)
      BY <2>1 DEF Good
    <2>3. /\ b.regions = regions /\ b.reserved = reserved /\ b.tables = tables
      BY BlockParts
    <2>4. b \in Blocks /\ Sorted(b.regions) /\ Sorted(b.reserved)
          /\ live \cup b.tables \subseteq Rng /\ Cover(b.reserved) = UnitsOf(live \cup b.tables)
      BY <2>2 DEF Sound
    <2>5. /\ regions \in Seq(Rng) /\ reserved \in Seq(Rng) /\ region_capacity \in Nat
          /\ reserved_capacity \in Nat /\ fault \in Faults
      BY <2>4, BlockType
    <2> HIDE DEF b
    <2> QED  BY <2>1, <2>3, <2>4, <2>5, <1>0
  <1> QED  BY <1>1, <1>2

LEMMA InvTypes ==
    ASSUME Inv
    PROVE  TypeOK
  <1>1. Top \in Nat
    BY InputsAssumption
  <1>2. /\ regions \in Seq(Rng) /\ reserved \in Seq(Rng)
        /\ Cover(regions) \cup Cover(reserved) \subseteq 0 .. Top - 1
        /\ region_capacity \in Nat /\ reserved_capacity \in Nat /\ fault \in Faults
        /\ live \subseteq Rng /\ tables \subseteq Rng
        /\ UnitsOf(live \cup tables) \subseteq Cover(reserved)
    BY InvLists
  <1>3. /\ dynamic \subseteq Rng /\ UnitsOf(dynamic) \cup pinned \cup managed \cup handoff \subseteq 0 .. Top - 1
    BY DEF Inv, Ghosts
  <1>4. regions \in Seq(Ranges) /\ reserved \in Seq(Ranges)
    BY <1>1, <1>2, SeqRanges
  <1>5. dynamic \cup live \cup tables \subseteq Ranges
    <2> SUFFICES ASSUME NEW r \in dynamic \cup live \cup tables  PROVE r \in Ranges
      OBVIOUS
    <2>1. r \in Rng /\ Units(r) \subseteq UnitsOf(dynamic) \cup UnitsOf(live \cup tables)
      BY <1>2, <1>3 DEF UnitsOf
    <2>2. Units(r) \subseteq 0 .. Top - 1
      BY <2>1, <1>2, <1>3
    <2> QED  BY <2>1, <2>2, <1>1, InRanges
  <1>6. allocatable \in BOOLEAN
    BY DEF Inv
  <1> QED  BY <1>2, <1>3, <1>4, <1>5, <1>6 DEF TypeOK, Faults

LEMMA InvCanonical ==
    ASSUME Inv
    PROVE  ListsCanonical
  <1>1. ASSUME NEW s \in Seq(Rng), Sorted(s)  PROVE Separated(s)
    <2>1. Len(s) \in Nat /\ DOMAIN s = 1 .. Len(s)
      BY ListParts
    <2>2. \A i \in 1 .. Len(s) - 1 : i \in DOMAIN s /\ i + 1 \in DOMAIN s /\ i < i + 1
      BY <2>1
    <2> QED  BY <2>2, <1>1 DEF Sorted, Separated
  <1>2. regions \in Seq(Rng) /\ reserved \in Seq(Rng) /\ Sorted(regions) /\ Sorted(reserved)
    BY InvLists
  <1> QED  BY <1>1, <1>2 DEF ListsCanonical

(* The lists and the owners, once memory is allocatable. *)
LEMMA InvOwners ==
    ASSUME Inv, allocatable
    PROVE  /\ live \cup tables \subseteq Rng /\ Apart(live \cup tables) /\ live \cap tables = {}
           /\ Cover(reserved) = UnitsOf(live \cup tables)
           /\ Cover(regions) \cap Cover(reserved) = {}
           /\ (Cover(regions) \cup Cover(reserved)) \cap (pinned \cup UnitsOf(dynamic)) = {}
           /\ handoff = {} => managed = Cover(regions) \cup Cover(reserved)
           /\ handoff # {} => Cover(regions) \cup Cover(reserved) \subseteq handoff
  <1> DEFINE b == Block
  <1>1. Total(b) = Cover(regions) \cup Cover(reserved)
    BY BlockParts DEF Total
  <1>2. Running(b, live, dynamic, pinned, managed, handoff)
    BY RunningParts
  <1>3. b.regions = regions /\ b.reserved = reserved /\ b.tables = tables
    BY BlockParts
  <1> HIDE DEF b
  <1>4. Good(b, live) /\ Total(b) \cap (pinned \cup UnitsOf(dynamic)) = {}
        /\ (handoff = {} => managed = Total(b)) /\ (handoff # {} => Total(b) \subseteq handoff)
    BY <1>2 DEF Running
  <1>5. Sound(b, live \cup tables) /\ live \cap tables = {}
    BY <1>3, <1>4 DEF Good
  <1>6. /\ live \cup tables \subseteq Rng /\ Apart(live \cup tables)
        /\ Cover(reserved) = UnitsOf(live \cup tables) /\ Cover(regions) \cap Cover(reserved) = {}
    BY <1>3, <1>5 DEF Sound
  <1> QED  BY <1>1, <1>4, <1>5, <1>6

LEMMA InvOneOwner ==
    ASSUME Inv
    PROVE  NoDoubleOwner
  <1> SUFFICES ASSUME allocatable
               PROVE  /\ \A r, q \in dynamic \cup live \cup tables :
                            r # q => Units(r) \cap Units(q) = {}
                      /\ dynamic \cap live = {} /\ dynamic \cap tables = {} /\ live \cap tables = {}
                      /\ UnitsOf(dynamic \cup live \cup tables) \cap Cover(regions) = {}
                      /\ pinned \cap (UnitsOf(live \cup tables) \cup Cover(regions)) = {}
    BY DEF NoDoubleOwner
  <1> DEFINE S == live \cup tables
  <1>1. /\ S \subseteq Rng /\ Apart(S) /\ live \cap tables = {}
        /\ Cover(reserved) = UnitsOf(S) /\ Cover(regions) \cap Cover(reserved) = {}
        /\ (Cover(regions) \cup Cover(reserved)) \cap (pinned \cup UnitsOf(dynamic)) = {}
    BY InvOwners
  <1>2. dynamic \subseteq Rng /\ Apart(dynamic)
    BY DEF Inv, Ghosts
  <1>3. UnitsOf(dynamic \cup live \cup tables) = UnitsOf(dynamic) \cup UnitsOf(S)
    BY DEF UnitsOf
  <1>4. \A r \in dynamic : r.address \in Units(r) /\ Units(r) \subseteq UnitsOf(dynamic)
    BY <1>2, UnitsOfParts
  <1>5. \A r \in S : r.address \in Units(r) /\ Units(r) \subseteq UnitsOf(S)
    BY <1>1, UnitsOfParts
  <1>6. UnitsOf(dynamic) \cap UnitsOf(S) = {}
    BY <1>1
  <1>7. \A r \in dynamic, q \in S : r # q /\ Units(r) \cap Units(q) = {}
    BY <1>4, <1>5, <1>6
  <1>8. dynamic \cap S = {}
    BY <1>7
  <1>9. dynamic \cup live \cup tables = dynamic \cup S
    OBVIOUS
  <1>10. \A r, q \in dynamic \cup S : r # q => Units(r) \cap Units(q) = {}
    <2> SUFFICES ASSUME NEW r \in dynamic \cup S, NEW q \in dynamic \cup S, r # q
                 PROVE  Units(r) \cap Units(q) = {}
      OBVIOUS
    <2>1. CASE r \in dynamic /\ q \in dynamic
      BY <2>1, <1>2 DEF Apart
    <2>2. CASE r \in S /\ q \in S
      BY <2>2, <1>1 DEF Apart
    <2>3. CASE (r \in dynamic /\ q \in S) \/ (r \in S /\ q \in dynamic)
      BY <2>3, <1>7
    <2> QED  BY <2>1, <2>2, <2>3
  <1>11. dynamic \cap live = {} /\ dynamic \cap tables = {}
    BY <1>8
  <1>12. /\ UnitsOf(dynamic \cup live \cup tables) \cap Cover(regions) = {}
         /\ pinned \cap (UnitsOf(S) \cup Cover(regions)) = {}
    BY <1>1, <1>3
  <1> QED  BY <1>1, <1>9, <1>10, <1>11, <1>12

-------------------------------------------------------------------------------
(***************************************************************************)
(* The theorems.  They hold for all memory, reservations, layouts and      *)
(* table sizes, of callers that are Tidy: the code merges a region it adds *)
(* with one entry behind it only, so a region that spans more breaks the   *)
(* list, and it stores an empty region like any other.                     *)
(***************************************************************************)

(* Types: every range is within the memory, no entry of a list is empty. *)
THEOREM Typed == Spec /\ Tidy => []TypeOK
  <1>1. Inv => TypeOK  BY InvTypes
  <1> QED  BY <1>1, InvHolds, PTL

(***************************************************************************)
(* The guarantee of range_list_allocator.rs:217-219 for the binary         *)
(* searches, and a gap between neighbours.                                 *)
(***************************************************************************)
THEOREM Canonical == Spec /\ Tidy => []ListsCanonical
  <1>1. Inv => ListsCanonical  BY InvCanonical
  <1> QED  BY <1>1, InvHolds, PTL

(***************************************************************************)
(* After finalize dynamic reservations, allocations and tables are         *)
(* pairwise disjoint and not free, and explicit reservations are apart     *)
(* from allocations, tables and free memory.                               *)
(***************************************************************************)
THEOREM OneOwner == Spec /\ Tidy => []NoDoubleOwner
  <1>1. Inv => NoDoubleOwner  BY InvOneOwner
  <1> QED  BY <1>1, InvHolds, PTL

(***************************************************************************)
(* Allocation, deallocation and the growth of the tables lose no memory:   *)
(* the reserved list records what is in use, the other list the rest.      *)
(***************************************************************************)
THEOREM Conserved == Spec /\ Tidy => []MemoryConserved
  <1>1. Inv => MemoryConserved
    BY InvOwners DEF MemoryConserved, Trimmed
  <1> QED  BY <1>1, InvHolds, PTL

(***************************************************************************)
(* What trim_for_boot returned covers all that the boot loader uses or can *)
(* still allocate, tables that grew after the hand-off included.           *)
(***************************************************************************)
THEOREM Covered == Spec /\ Tidy => []HandoffCovers
  <1>1. Inv => HandoffCovers
    <2> SUFFICES ASSUME Inv, handoff # {}
                 PROVE  Cover(regions) \cup UnitsOf(live \cup tables) \subseteq handoff
      BY DEF HandoffCovers, Trimmed
    <2>1. allocatable
      BY SetUpParts
    <2> QED  BY <2>1, InvOwners
  <1> QED  BY <1>1, InvHolds, PTL

(* add_reserved_region_dynamic takes available memory that nobody reserved. *)
THEOREM DynamicFromFree == Spec /\ Tidy => DynamicIsFresh
  <1> DEFINE Fresh == \A r \in dynamic' \ dynamic : /\ Units(r) \subseteq Cover(regions)
                                                    /\ Units(r) \cap Cover(reserved) = {}
  <1>1. Inv /\ [Next]_vars => [Fresh]_vars
    <2> SUFFICES ASSUME Inv, Next  PROVE Fresh
      OBVIOUS
    <2>1. ASSUME NEW q \in Requests, allocate_dynamic_reserved_region(q)  PROVE Fresh
      <3>1. PICK r \in Rng : /\ Units(r) \subseteq Cover(regions) /\ Units(r) \cap Cover(reserved) = {}
                             /\ dynamic' = dynamic \cup {r}
        BY <2>1, DynamicAdds
      <3> QED  BY <3>1
    <2>2. ASSUME dynamic' = dynamic  PROVE Fresh
      BY <2>2
    <2>3. \/ \E q \in Requests : allocate_dynamic_reserved_region(q)
          \/ dynamic' = dynamic
      BY DEF Next, Later, add_available_region, add_reserved_region, finalize, allocate_region,
             deallocate_region, trim_for_boot
    <2> HIDE DEF Fresh
    <2> QED  BY <2>1, <2>2, <2>3
  <1> QED  BY <1>1, InvHolds, PTL DEF Spec, DynamicIsFresh

(* finalize leaves an entry of the table of regions unused. *)
StartsWithRoom ==
    [][~allocatable /\ allocatable' => Len(regions') + 1 <= region_capacity']_vars

(***************************************************************************)
(* ensure_overflow_headroom keeps every table ahead of the operations: if  *)
(* finalize leaves an entry unused, none of them runs past the end.        *)
(***************************************************************************)
THEOREM Suffices == Spec /\ Tidy /\ StartsWithRoom => []TablesSuffice
  <1> DEFINE Spare == /\ fault # "out_of_bounds"
                      /\ allocatable /\ fault = "none" => Room(Block, 1)
             Starts == ~allocatable /\ allocatable' => Len(regions') + 1 <= region_capacity'
  <1>1. Init => Spare
    BY DEF Init
  <1>2. Inv /\ Inv' /\ Spare /\ [Next]_vars /\ [Starts]_vars => Spare'
    <2> SUFFICES ASSUME Inv, Inv', Spare, [Next]_vars, [Starts]_vars  PROVE Spare'
      OBVIOUS
    <2>1. CASE UNCHANGED vars
      BY <2>1 DEF vars, Block, Room
    <2>2. ASSUME fault' = "none", ~allocatable'  PROVE Spare'
      BY <2>2
    <2>3. ASSUME fault = "none", allocatable,
                 fault' = "none" => Room(Block', 1),
                 Room(Block, 1) => fault' # "out_of_bounds"
          PROVE  Spare'
      BY <2>3
    <2>4. CASE Next /\ Starts
      <3>1. ASSUME NEW r \in Available, add_available_region(r)  PROVE Spare'
        BY <2>2, <3>1 DEF add_available_region
      <3>2. ASSUME NEW r \in Reservations, add_reserved_region(r)  PROVE Spare'
        BY <2>2, <3>2 DEF add_reserved_region
      <3>3. ASSUME NEW q \in Requests, allocate_dynamic_reserved_region(q)  PROVE Spare'
        BY <2>2, <3>3 DEF allocate_dynamic_reserved_region
      <3>4. ASSUME finalize  PROVE Spare'
        <4>1. fault' = "none" /\ ~allocatable
          BY <3>4 DEF finalize
        <4>2. CASE allocatable'
          <5> DEFINE d == SubtractAll(regions, reserved, region_capacity)
          <5>1. Len(regions') + 1 <= region_capacity'
            BY <2>4, <4>1, <4>2
          <5>2. d.err = FALSE
            <6> DEFINE err == d.err
            <6>1. allocatable' = ~err
              BY <3>4, Zenon DEF finalize
            <6> HIDE DEF err
            <6>2. ~err
              BY <6>1, <4>2
            <6>3. err \in BOOLEAN
              <7>1. /\ regions \in Seq(Rng) /\ reserved \in Seq(Rng) /\ Sorted(regions)
                    /\ Len(regions) <= region_capacity /\ region_capacity = CAPACITY
                BY <4>1, SetUpParts
              <7>2. CAPACITY \in Nat  BY TablesAssumption
              <7>3. Subtracted(d, regions, reserved, region_capacity)
                BY <7>1, <7>2, AllSubtracted
              <7> HIDE DEF d
              <7>4. d \in Scans(region_capacity)  BY <7>3 DEF Subtracted
              <7> QED  BY <7>4, Zenon DEF Scans, err
            <6>4. err = FALSE
              BY <6>2, <6>3
            <6> QED  BY <6>4 DEF err
          <5>3. reserved' = <<>> /\ reserved_capacity' = reserved_capacity
            BY <3>4, <5>2 DEF finalize
          <5>4. Len(reserved') + 1 <= reserved_capacity'
            <6>1. reserved_capacity = CAPACITY /\ CAPACITY \in Nat /\ CAPACITY >= 3
              BY <4>1, SetUpParts, TablesAssumption
            <6> QED  BY <5>3, <6>1
          <5>5. Room(Block', 1)
            BY <5>1, <5>4, BlockNext DEF Room
          <5> QED  BY <4>1, <5>5
        <4>3. CASE ~allocatable'
          BY <4>1, <4>3, <2>2
        <4> QED  BY <4>2, <4>3
      <3>5. ASSUME NEW l \in Layouts, allocate_region(l)  PROVE Spare'
        <4>1. fault = "none" /\ allocatable  BY <3>5 DEF allocate_region
        <4> HIDE DEF Spare
        <4> QED  BY <2>3, <3>5, <4>1, AllocateKeeps
      <3>6. ASSUME NEW r \in live, deallocate_region(r)  PROVE Spare'
        <4>1. fault = "none" /\ allocatable  BY <3>6 DEF deallocate_region
        <4> HIDE DEF Spare
        <4> QED  BY <2>3, <3>6, <4>1, DeallocateKeeps
      <3>7. ASSUME NEW n \in BootBytes, trim_for_boot(n)  PROVE Spare'
        <4>1. fault = "none" /\ allocatable  BY <3>7 DEF trim_for_boot
        <4> HIDE DEF Spare
        <4> QED  BY <2>3, <3>7, <4>1, TrimKeeps
      <3> HIDE DEF Spare
      <3> QED  BY <2>4, <3>1, <3>2, <3>3, <3>4, <3>5, <3>6, <3>7 DEF Next, Later
    <2> HIDE DEF Spare
    <2> QED  BY <2>1, <2>4
  <1>3. Spare => TablesSuffice
    BY DEF TablesSuffice
  <1> QED  BY <1>1, <1>2, <1>3, InvHolds, PTL DEF Spec, StartsWithRoom
=============================================================================
