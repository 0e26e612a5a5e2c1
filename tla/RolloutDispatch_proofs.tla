---------------------- MODULE RolloutDispatch_proofs ----------------------
(***************************************************************************)
(* Proofs about RolloutDispatch, for any batch, number of ranks and size   *)
(* of a replica: padding, splitting, collecting and unpadding together are *)
(* the identity on the rows, and no rank has two rows more than another.   *)
(***************************************************************************)
EXTENDS RolloutDispatch, SequenceTheorems, FunctionTheorems, FiniteSetTheorems,
        WellFoundedInduction, TLAPS

(* Sequences built as functions on an interval.                            *)
LEMMA FunctionIsSequence ==
  ASSUME NEW S, NEW n \in Nat, NEW f \in [1..n -> S]
  PROVE  f \in Seq(S) /\ Len(f) = n /\ DOMAIN f = 1..n
OBVIOUS

(* The arithmetic of equal groups that the provers need spelled out.       *)
LEMMA Division ==
  ASSUME NEW a \in Nat, NEW d \in Nat, d > 0
  PROVE  /\ a \div d \in Nat /\ a % d \in Nat /\ a % d < d
         /\ a = d * (a \div d) + (a % d)
OBVIOUS

LEMMA DivisionUnique ==
  ASSUME NEW d \in Nat, NEW q \in Nat, NEW r \in Nat, r < d
  PROVE  (d * q + r) \div d = q /\ (d * q + r) % d = r
<1> DEFINE a == d * q + r
           p == a \div d
           m == a % d
<1>1. a \in Nat /\ d > 0
  OBVIOUS
<1> HIDE DEF a
<1>2. p \in Nat /\ m \in Nat /\ m < d /\ a = d * p + m
  BY <1>1, Division
<1> HIDE DEF p, m
<1>3. d * p + m = d * q + r
  BY <1>2 DEF a
<1>4. ASSUME NEW x \in Nat, NEW y \in Nat, NEW k \in Nat, NEW l \in Nat,
             k < d, l < d, d * x + k = d * y + l, x < y
      PROVE  FALSE
  <2>1. d * (x + 1) <= d * y
    BY <1>4
  <2>2. d * (x + 1) = d * x + d
    OBVIOUS
  <2>3. d * x \in Nat /\ d * y \in Nat
    OBVIOUS
  <2>4. QED
    BY <1>4, <2>1, <2>2, <2>3
<1>5. ~(p < q) /\ ~(q < p)
  BY <1>2, <1>3, <1>4
<1>6. p = q
  BY <1>2, <1>5
<1>7. m = r
  <2>1. d * q \in Nat
    OBVIOUS
  <2>2. QED
    BY <1>2, <1>3, <1>6, <2>1
<1>8. QED
  BY <1>6, <1>7 DEF a, p, m

(* A set of numbers has a least one.                                       *)
LEMMA LeastNatural ==
  ASSUME NEW T \in SUBSET Nat, T # {}
  PROVE  \E m \in T : \A k \in T : m <= k
<1> DEFINE R == {ss \in Nat \X Nat : ss[1] < ss[2]}
<1>1. IsWellFoundedOn(R, Nat)
  BY NatLessThanWellFounded DEF OpToRel
<1>2. PICK m \in T : \A k \in T : ~(<<k, m>> \in R)
  <2> HIDE DEF R
  <2>1. QED
    BY <1>1, WFMin
<1>3. \A k \in T : ~(k < m)
  BY <1>2
<1>4. QED
  BY <1>3

(* What concatenating a list computes: whatever sequence of partial        *)
(* concatenations one can name, the last of them.                          *)
LEMMA FlattenByParts ==
  ASSUME NEW S, NEW seqs \in Seq(Seq(S)), Len(seqs) # 0,
         NEW g, g = [i \in 1..Len(seqs) |-> IF i = 1 THEN seqs[i] ELSE g[i - 1] \o seqs[i]]
  PROVE  FlattenSeq(seqs) = g[Len(seqs)]
<1> DEFINE n == Len(seqs)
<1>1. PICK f : /\ f = [i \in 1..n |-> IF i = 1 THEN seqs[i] ELSE f[i - 1] \o seqs[i]]
               /\ FlattenSeq(seqs) = f[n]
  BY DEF FlattenSeq
<1>2. n \in Nat /\ n >= 1
  BY LenProperties
<1> HIDE DEF n
<1>3. \A i \in 1..n : f[i] = IF i = 1 THEN seqs[i] ELSE f[i - 1] \o seqs[i]
  BY <1>1
<1>4. \A i \in 1..n : g[i] = IF i = 1 THEN seqs[i] ELSE g[i - 1] \o seqs[i]
  BY DEF n
<1> DEFINE Bad == {i \in 1..n : f[i] # g[i]}
<1>5. Bad = {}
  <2> SUFFICES ASSUME Bad # {} PROVE FALSE
    OBVIOUS
  <2>1. Bad \in SUBSET Nat
    <3>1. \A i \in 1..n : i \in Nat
      BY <1>2
    <3>2. QED
      BY <3>1
  <2>2. PICK i \in Bad : \A k \in Bad : i <= k
    <3> HIDE DEF Bad
    <3>1. QED
      BY <2>1, LeastNatural
  <2>3. i \in 1..n /\ f[i] # g[i]
    BY <2>2
  <2>4. i # 1
    BY <1>3, <1>4, <2>3
  <2>5. i - 1 \in 1..n /\ ~(i <= i - 1)
    BY <1>2, <2>3, <2>4
  <2>6. f[i - 1] = g[i - 1]
    BY <2>2, <2>5
  <2>7. f[i] = f[i - 1] \o seqs[i] /\ g[i] = g[i - 1] \o seqs[i]
    <3> HIDE DEF Bad
    <3>1. QED
      BY <1>3, <1>4, <2>3, <2>4
  <2>8. QED
    BY <2>3, <2>6, <2>7
<1>6. n \in 1..n
  BY <1>2
<1>7. QED
  BY <1>1, <1>5, <1>6 DEF n

(* The partial concatenations of a list exist: what FlattenSeq chooses is  *)
(* there to be chosen.                                                     *)
LEMMA PartsExist ==
  ASSUME NEW seqs, NEW n \in Nat, n # 0
  PROVE  \E g : g = [i \in 1..n |-> IF i = 1 THEN seqs[i] ELSE g[i - 1] \o seqs[i]]
<1> DEFINE Parts(g, m) == g = [i \in 1..m |-> IF i = 1 THEN seqs[i] ELSE g[i - 1] \o seqs[i]]
           Bad == {m \in 1..n : ~\E g : Parts(g, m)}
<1>1. Bad = {}
  <2> SUFFICES ASSUME Bad # {} PROVE FALSE
    OBVIOUS
  <2>1. Bad \in SUBSET Nat
    <3>1. \A m \in 1..n : m \in Nat
      OBVIOUS
    <3> HIDE DEF Parts
    <3>2. QED
      BY <3>1
  <2>2. PICK m \in Bad : \A k \in Bad : m <= k
    <3> HIDE DEF Bad
    <3>1. QED
      BY <2>1, LeastNatural
  <2>3. m \in 1..n /\ m \in Nat /\ ~\E g : Parts(g, m)
    <3> HIDE DEF Parts
    <3>1. QED
      BY <2>1, <2>2
  <2>4. CASE m = 1
    <3>1. Parts([i \in 1..1 |-> seqs[i]], 1)
      <4> DEFINE one == [i \in 1..1 |-> seqs[i]]
      <4>1. \A i \in 1..1 : i = 1
        OBVIOUS
      <4>2. [i \in 1..1 |-> IF i = 1 THEN seqs[i] ELSE one[i - 1] \o seqs[i]] = one
        BY <4>1
      <4>3. QED
        BY <4>2
    <3> HIDE DEF Parts
    <3>2. QED
      BY <2>3, <2>4, <3>1
  <2>5. CASE m # 1
    <3>1. m - 1 \in 1..n /\ ~(m <= m - 1)
      BY <2>3, <2>5
    <3>2. PICK g : Parts(g, m - 1)
      <4> HIDE DEF Parts
      <4>1. QED
        BY <2>2, <3>1
    <3> DEFINE h == [i \in 1..m |-> IF i < m THEN g[i] ELSE g[m - 1] \o seqs[m]]
    <3>3. \A i \in 1..m : i < m => i \in 1..(m - 1)
      BY <2>3
    <3>4. \A i \in 1..(m - 1) : g[i] = IF i = 1 THEN seqs[i] ELSE g[i - 1] \o seqs[i]
      BY <3>2
    <3>5. ASSUME NEW i \in 1..m
          PROVE  h[i] = IF i = 1 THEN seqs[i] ELSE h[i - 1] \o seqs[i]
      <4>1. CASE i < m
        <5>1. i \in 1..(m - 1) /\ h[i] = g[i]
          BY <3>3, <4>1
        <5>2. i # 1 => i - 1 \in 1..m /\ i - 1 < m /\ h[i - 1] = g[i - 1]
          BY <2>3, <4>1
        <5>3. g[i] = IF i = 1 THEN seqs[i] ELSE g[i - 1] \o seqs[i]
          BY <3>4, <5>1
        <5> HIDE DEF h
        <5>4. CASE i = 1
          BY <5>1, <5>3, <5>4
        <5>5. CASE i # 1
          BY <5>1, <5>2, <5>3, <5>5
        <5>6. QED
          BY <5>4, <5>5
      <4>2. CASE ~(i < m)
        <5>0. i = m
          BY <2>3, <4>2
        <5>1. h[i] = g[m - 1] \o seqs[m]
          BY <4>2
        <5>2. m - 1 \in 1..m /\ m - 1 < m /\ h[m - 1] = g[m - 1]
          BY <2>3, <2>5
        <5> HIDE DEF h
        <5>3. QED
          BY <2>5, <5>0, <5>1, <5>2
      <4>3. QED
        BY <4>1, <4>2
    <3>6. Parts(h, m)
      <4>1. h = [i \in 1..m |-> h[i]]
        OBVIOUS
      <4> HIDE DEF h
      <4>2. QED
        BY <3>5, <4>1
    <3> HIDE DEF Parts, h
    <3>7. QED
      BY <2>3, <3>6
  <2>6. QED
    BY <2>4, <2>5
<1>2. n \in 1..n
  OBVIOUS
<1>3. \E g : Parts(g, n)
  <2> HIDE DEF Parts
  <2>1. QED
    BY <1>1, <1>2
<1>4. QED
  BY <1>3

(* With one more sequence at its end, it is that much longer.              *)
LEMMA FlattenAppend ==
  ASSUME NEW S, NEW seqs \in Seq(Seq(S)), NEW more \in Seq(S)
  PROVE  FlattenSeq(Append(seqs, more)) = FlattenSeq(seqs) \o more
<1> DEFINE n == Len(seqs)
           all == Append(seqs, more)
<1>1. /\ n \in Nat /\ all \in Seq(Seq(S)) /\ Len(all) = n + 1
      /\ \A i \in 1..n : all[i] = seqs[i]
      /\ all[n + 1] = more
  BY LenProperties, AppendProperties
<1> HIDE DEF n, all
<1>2. PICK g : g = [i \in 1..(n + 1) |-> IF i = 1 THEN all[i] ELSE g[i - 1] \o all[i]]
  <2>1. n + 1 \in Nat /\ n + 1 # 0
    BY <1>1
  <2>2. QED
    BY <2>1, PartsExist
<1>3. \A i \in 1..(n + 1) : g[i] = IF i = 1 THEN all[i] ELSE g[i - 1] \o all[i]
  BY <1>2
<1>4. FlattenSeq(all) = g[n + 1]
  <2>1. Len(all) # 0
    BY <1>1
  <2>2. FlattenSeq(all) = g[Len(all)]
    <3>1. g = [i \in 1..Len(all) |-> IF i = 1 THEN all[i] ELSE g[i - 1] \o all[i]]
      BY Zenon, <1>1, <1>2
    <3>2. QED
      BY <1>1, <2>1, <3>1, FlattenByParts
  <2>3. QED
    BY <1>1, <2>2
<1>5. CASE n = 0
  <2>1. seqs = <<>> /\ FlattenSeq(seqs) = <<>>
    BY <1>5, EmptySeq DEF n, FlattenSeq
  <2>2. g[n + 1] = more
    BY <1>1, <1>3, <1>5
  <2>3. <<>> \o more = more
    BY ConcatEmptySeq
  <2>4. QED
    BY <1>4, <2>1, <2>2, <2>3 DEF all
<1>6. CASE n # 0
  <2> DEFINE h == [i \in 1..n |-> g[i]]
  <2>1. ASSUME NEW i \in 1..n
        PROVE  h[i] = IF i = 1 THEN seqs[i] ELSE h[i - 1] \o seqs[i]
    <3>1. i \in 1..(n + 1) /\ h[i] = g[i] /\ all[i] = seqs[i]
      BY <1>1
    <3>2. i # 1 => i - 1 \in 1..n /\ h[i - 1] = g[i - 1]
      BY <1>1
    <3>3. g[i] = IF i = 1 THEN all[i] ELSE g[i - 1] \o all[i]
      BY <1>3, <3>1
    <3> HIDE DEF h
    <3>4. QED
      BY <3>1, <3>2, <3>3
  <2>2. h = [i \in 1..n |-> h[i]]
    OBVIOUS
  <2> HIDE DEF h
  <2>3. h = [i \in 1..n |-> IF i = 1 THEN seqs[i] ELSE h[i - 1] \o seqs[i]]
    BY <2>1, <2>2
  <2>4. FlattenSeq(seqs) = h[n]
    <3>1. /\ Len(seqs) # 0
          /\ h = [i \in 1..Len(seqs) |-> IF i = 1 THEN seqs[i] ELSE h[i - 1] \o seqs[i]]
      BY <1>6, <2>3 DEF n
    <3>2. FlattenSeq(seqs) = h[Len(seqs)]
      BY <3>1, FlattenByParts
    <3>3. QED
      BY <3>2 DEF n
  <2>5. h[n] = g[n] /\ g[n + 1] = g[n] \o all[n + 1]
    <3>1. n \in 1..n /\ n + 1 \in 1..(n + 1) /\ n + 1 # 1 /\ (n + 1) - 1 = n
      BY <1>1, <1>6
    <3>2. g[n + 1] = IF n + 1 = 1 THEN all[n + 1] ELSE g[(n + 1) - 1] \o all[n + 1]
      BY <1>3, <3>1
    <3>3. QED
      BY <3>1, <3>2 DEF h
  <2>6. QED
    BY <1>1, <1>4, <2>4, <2>5 DEF all
<1>7. QED
  BY <1>5, <1>6

(* And so it is a sequence again.                                          *)
LEMMA FlattenTyped ==
  ASSUME NEW S
  PROVE  \A seqs \in Seq(Seq(S)) : FlattenSeq(seqs) \in Seq(S)
<1> DEFINE Bad == {n \in Nat : \E seqs \in Seq(Seq(S)) :
                     Len(seqs) = n /\ FlattenSeq(seqs) \notin Seq(S)}
<1>1. SUFFICES Bad = {}
  <2>1. \A seqs \in Seq(Seq(S)) : Len(seqs) \in Nat
    BY LenProperties
  <2>2. QED
    BY <2>1
<1>2. SUFFICES ASSUME Bad # {} PROVE FALSE
  OBVIOUS
<1>3. PICK n \in Bad : \A k \in Bad : n <= k
  <2>1. Bad \in SUBSET Nat
    OBVIOUS
  <2> HIDE DEF Bad
  <2>2. QED
    BY <1>2, <2>1, LeastNatural
<1>4. PICK seqs \in Seq(Seq(S)) : Len(seqs) = n /\ FlattenSeq(seqs) \notin Seq(S)
  BY <1>3
<1>5. seqs # <<>>
  <2>1. FlattenSeq(<<>>) = <<>> /\ <<>> \in Seq(S)
    BY EmptySeq DEF FlattenSeq
  <2>2. QED
    BY <1>4, <2>1
<1>6. PICK early \in Seq(Seq(S)), last \in Seq(S) : seqs = Append(early, last)
  BY <1>5, SequenceEmptyOrAppend
<1>7. Len(early) \in Nat /\ n = Len(early) + 1
  BY <1>4, <1>6, LenProperties, AppendProperties
<1>8. Len(early) \notin Bad
  <2> HIDE DEF Bad
  <2>1. QED
    BY <1>3, <1>7
<1>9. FlattenSeq(early) \in Seq(S)
  BY <1>7, <1>8
<1>10. FlattenSeq(seqs) = FlattenSeq(early) \o last
  BY <1>6, FlattenAppend
<1>11. QED
  BY <1>4, <1>9, <1>10, ConcatProperties

(* Two sequences concatenated, element by element.                         *)
LEMMA ConcatElements ==
  ASSUME NEW S, NEW a \in Seq(S), NEW b \in Seq(S)
  PROVE  /\ a \o b \in Seq(S) /\ Len(a \o b) = Len(a) + Len(b)
         /\ \A i \in 1..Len(a) : (a \o b)[i] = a[i]
         /\ \A i \in 1..Len(b) : (a \o b)[Len(a) + i] = b[i]
<1>1. Len(a) \in Nat /\ Len(b) \in Nat
  BY LenProperties
<1>2. /\ a \o b \in Seq(S) /\ Len(a \o b) = Len(a) + Len(b)
      /\ \A i \in 1..(Len(a) + Len(b)) :
           (a \o b)[i] = IF i <= Len(a) THEN a[i] ELSE b[i - Len(a)]
  BY ConcatProperties
<1> DEFINE c == a \o b
           m == Len(a)
           n == Len(b)
<1>3. /\ m \in Nat /\ n \in Nat
      /\ \A i \in 1..(m + n) : c[i] = IF i <= m THEN a[i] ELSE b[i - m]
  BY <1>1, <1>2
<1> HIDE DEF c, m, n
<1>4. \A i \in 1..m : i \in 1..(m + n) /\ i <= m
  BY <1>3
<1>5. \A i \in 1..n : m + i \in 1..(m + n) /\ ~(m + i <= m) /\ (m + i) - m = i
  BY <1>3
<1>6. \A i \in 1..m : c[i] = a[i]
  BY <1>3, <1>4
<1>7. \A i \in 1..n : c[m + i] = b[i]
  <2> SUFFICES ASSUME NEW i \in 1..n PROVE c[m + i] = b[i]
    OBVIOUS
  <2>1. c[m + i] = IF m + i <= m THEN a[m + i] ELSE b[(m + i) - m]
    BY <1>3, <1>5
  <2>2. QED
    BY <1>5, <2>1
<1>8. QED
  BY <1>2, <1>6, <1>7 DEF c, m, n

(* Cut into shards of one size and concatenated again, a sequence is what  *)
(* it was.                                                                 *)
LEMMA FlattenShards ==
  ASSUME NEW S, NEW whole \in Seq(S), NEW n \in Nat, n >= 1, NEW size \in Nat,
         Len(whole) = n * size
  PROVE  FlattenSeq([d \in 1..n |-> SubSeq(whole, (d - 1) * size + 1, d * size)]) = whole
<1> DEFINE seqs == [d \in 1..n |-> SubSeq(whole, (d - 1) * size + 1, d * size)]
           g == [d \in 1..n |-> SubSeq(whole, 1, d * size)]
<1>1. ASSUME NEW d \in 1..n
      PROVE  /\ d \in Nat /\ d - 1 \in Nat
             /\ (d - 1) * size \in Nat /\ d * size \in Nat
             /\ (d - 1) * size <= d * size /\ d * size <= Len(whole)
  <2>1. d \in Nat /\ d - 1 \in Nat /\ d <= n
    OBVIOUS
  <2>2. (d - 1) * size \in Nat /\ d * size \in Nat /\ n * size \in Nat
    BY <2>1
  <2>3. d * size = (d - 1) * size + size
    BY <2>1
  <2>4. n * size = d * size + (n - d) * size /\ n - d \in Nat
    BY <2>1
  <2>5. (n - d) * size \in Nat
    BY <2>4
  <2>6. QED
    BY <2>1, <2>2, <2>3, <2>4, <2>5
<1>2. \A d \in 1..n : seqs[d] \in Seq(S)
  <2> SUFFICES ASSUME NEW d \in 1..n PROVE seqs[d] \in Seq(S)
    OBVIOUS
  <2>1. \A i \in ((d - 1) * size + 1)..(d * size) : i \in 1..Len(whole)
    BY <1>1
  <2>2. \A i \in ((d - 1) * size + 1)..(d * size) : whole[i] \in S
    BY <2>1, ElementOfSeq
  <2>3. QED
    BY <1>1, <2>2, SubSeqProperties
<1>3. seqs \in Seq(Seq(S)) /\ Len(seqs) = n
  <2>1. seqs \in [1..n -> Seq(S)]
    BY <1>2
  <2>2. QED
    BY <2>1, FunctionIsSequence
<1>4. ASSUME NEW d \in 1..n
      PROVE  g[d] = IF d = 1 THEN seqs[d] ELSE g[d - 1] \o seqs[d]
  <2>1. CASE d = 1
    <3>1. (d - 1) * size + 1 = 1
      BY <2>1
    <3>2. QED
      BY <2>1, <3>1
  <2>2. CASE d # 1
    <3>1. d - 1 \in 1..n
      BY <2>2
    <3>2. /\ (d - 1) * size \in (1 - 1)..Len(whole)
          /\ d * size \in ((d - 1) * size)..Len(whole)
          /\ 1 \in 1..(Len(whole) + 1)
      BY <1>1
    <3>3. SubSeq(whole, 1, (d - 1) * size) \o SubSeq(whole, (d - 1) * size + 1, d * size)
            = SubSeq(whole, 1, d * size)
      BY <3>2, ConcatAdjacentSubSeq
    <3>4. QED
      BY <2>2, <3>1, <3>3
  <2>3. QED
    BY <2>1, <2>2
<1>5. g = [i \in 1..Len(seqs) |-> IF i = 1 THEN seqs[i] ELSE g[i - 1] \o seqs[i]]
  <2>1. g = [d \in 1..n |-> g[d]]
    OBVIOUS
  <2> HIDE DEF g, seqs
  <2>2. g = [i \in 1..n |-> IF i = 1 THEN seqs[i] ELSE g[i - 1] \o seqs[i]]
    BY <1>4, <2>1
  <2>3. QED
    BY <1>3, <2>2
<1>6. g[n] = whole
  <2>1. g[n] = SubSeq(whole, 1, Len(whole))
    OBVIOUS
  <2>2. QED
    BY <2>1, SubSeqFull
<1> HIDE DEF g
<1>7. FlattenSeq(seqs) = g[n]
  <2> HIDE DEF seqs
  <2>1. Len(seqs) # 0
    BY <1>3
  <2>2. FlattenSeq(seqs) = g[Len(seqs)]
    BY <1>3, <1>5, <2>1, FlattenByParts
  <2>3. QED
    BY <1>3, <2>2
<1>8. QED
  BY <1>6, <1>7
----------------------------------------------------------------------------
(* The places of a mask: place n is the one with n set places up to it. It *)
(* exists because the set places have different ranks, as many as there    *)
(* are of them.                                                            *)
LEMMA RanksAreHit ==
  ASSUME NEW set \in SUBSET Nat, IsFiniteSet(set), NEW n \in 1..Cardinality(set)
  PROVE  \E k \in set : Cardinality({j \in set : j <= k}) = n
<1> DEFINE upTo(k) == {j \in set : j <= k}
           rank == [k \in set |-> Cardinality(upTo(k))]
           size == Cardinality(set)
<1>1. size \in Nat
  BY FS_CardinalityType
<1>2. ASSUME NEW k \in set
      PROVE  IsFiniteSet(upTo(k)) /\ Cardinality(upTo(k)) \in 1..size
  <2>1. upTo(k) \in SUBSET set /\ k \in upTo(k)
    OBVIOUS
  <2> HIDE DEF upTo
  <2>2. IsFiniteSet(upTo(k)) /\ Cardinality(upTo(k)) <= size
    BY <2>1, FS_Subset
  <2>3. Cardinality(upTo(k)) \in Nat /\ Cardinality(upTo(k)) # 0
    BY <2>1, <2>2, FS_CardinalityType, FS_EmptySet
  <2>4. QED
    BY <1>1, <2>2, <2>3
<1>3. ASSUME NEW j \in set, NEW k \in set, j < k
      PROVE  rank[j] # rank[k]
  <2>1. upTo(j) \in SUBSET upTo(k) /\ k \in upTo(k) /\ k \notin upTo(j)
    <3>1. \A i \in set : i <= j => i <= k
      BY <1>3
    <3>2. k <= k /\ ~(k <= j)
      BY <1>3
    <3>3. QED
      BY <3>1, <3>2
  <2>2. upTo(j) # upTo(k)
    BY <2>1
  <2> HIDE DEF upTo
  <2>3. Cardinality(upTo(j)) # Cardinality(upTo(k))
    BY <1>2, <2>1, <2>2, FS_Subset
  <2>4. QED
    BY <2>3
<1>4. rank \in Injection(set, 1..size)
  <2>1. rank \in [set -> 1..size]
    <3> HIDE DEF upTo, size
    <3>1. QED
      BY <1>2
  <2> HIDE DEF rank, size
  <2>2. \A j, k \in set : rank[j] = rank[k] => j = k
    <3>1. \A j, k \in set : j \in Nat /\ k \in Nat /\ (j < k \/ k < j \/ j = k)
      OBVIOUS
    <3>2. QED
      BY <1>3, <3>1
  <2>3. QED
    BY <2>1, <2>2, Fun_IsInj
<1>5. IsFiniteSet(1..size) /\ Cardinality(1..size) = size
  BY <1>1, FS_Interval
<1> HIDE DEF rank
<1>6. rank \in Surjection(set, 1..size)
  BY <1>4, <1>5, FS_Injection
<1>7. PICK k \in set : rank[k] = n
  <2>1. n \in 1..size
    OBVIOUS
  <2> HIDE DEF size
  <2>2. QED
    BY <1>6, <2>1 DEF Surjection
<1>8. QED
  BY <1>7 DEF rank

LEMMA SetPlacesRank ==
  ASSUME NEW size \in Nat, NEW mask \in [1..size -> BOOLEAN]
  PROVE  LET n == Cardinality({k \in 1..size : mask[k]})
         IN  /\ n \in Nat
             /\ SetPlaces(mask) \in [1..n -> 1..size]
             /\ \A i \in 1..n : /\ mask[SetPlaces(mask)[i]]
                                /\ Cardinality({j \in 1..SetPlaces(mask)[i] : mask[j]}) = i
<1> DEFINE set == {k \in DOMAIN mask : mask[k]}
           n == Cardinality(set)
           place(i) == CHOOSE k \in set : Cardinality({j \in set : j <= k}) = i
<1>0. DOMAIN mask = 1..size /\ set = {k \in 1..size : mask[k]}
  OBVIOUS
<1>1. set \in SUBSET (1..size) /\ set \in SUBSET Nat
  BY <1>0
<1>2. IsFiniteSet(1..size)
  BY FS_Interval
<1>3. IsFiniteSet(set) /\ n \in Nat
  <2> HIDE DEF set
  <2>1. QED
    BY <1>1, <1>2, FS_Subset, FS_CardinalityType
<1>4. ASSUME NEW i \in 1..n
      PROVE  place(i) \in set /\ Cardinality({j \in set : j <= place(i)}) = i
  <2> HIDE DEF set
  <2>1. \E k \in set : Cardinality({j \in set : j <= k}) = i
    BY <1>1, <1>3, RanksAreHit
  <2>2. QED
    BY <2>1
<1>5. SetPlaces(mask) = [i \in 1..n |-> place(i)]
  BY DEF SetPlaces
<1>6. ASSUME NEW k \in set
      PROVE  {j \in set : j <= k} = {j \in 1..k : mask[j]}
  <2>1. k \in 1..size
    BY <1>0
  <2>2. \A j : j \in 1..size /\ j <= k <=> j \in 1..k
    BY <2>1
  <2>3. QED
    BY <1>0, <2>2
<1> HIDE DEF place
<1>7. SetPlaces(mask) \in [1..n -> 1..size]
  BY <1>1, <1>4, <1>5
<1>8. ASSUME NEW i \in 1..n
      PROVE  /\ mask[SetPlaces(mask)[i]]
             /\ Cardinality({j \in 1..SetPlaces(mask)[i] : mask[j]}) = i
  <2>1. SetPlaces(mask)[i] = place(i) /\ place(i) \in set /\ mask[place(i)]
    BY <1>4, <1>5
  <2>2. Cardinality({j \in 1..place(i) : mask[j]}) = i
    BY <1>4, <1>6, <2>1
  <2>3. QED
    BY <2>1, <2>2
<1>9. QED
  BY <1>0, <1>3, <1>7, <1>8

(* The places of a block, in their order.                                  *)
MarksBlock(mask, a, n) == \A k \in DOMAIN mask : mask[k] <=> k \in (a + 1)..(a + n)

LEMMA PlacesOfBlock ==
  ASSUME NEW size \in Nat, NEW a \in Nat, NEW n \in Nat, a + n <= size,
         NEW mask \in [1..size -> BOOLEAN], MarksBlock(mask, a, n)
  PROVE  SetPlaces(mask) = [i \in 1..n |-> a + i]
<1> DEFINE P == SetPlaces(mask)
<1>1. n \in Nat
  OBVIOUS
<1>2. \A i \in 0..n : /\ IsFiniteSet((a + 1)..(a + i))
                      /\ Cardinality((a + 1)..(a + i)) = i
  <2> SUFFICES ASSUME NEW i \in 0..n
               PROVE  IsFiniteSet((a + 1)..(a + i)) /\ Cardinality((a + 1)..(a + i)) = i
    OBVIOUS
  <2>1. i \in Nat /\ a + 1 \in Int /\ a + i \in Int
    BY <1>1
  <2>2. /\ IsFiniteSet((a + 1)..(a + i))
        /\ Cardinality((a + 1)..(a + i)) =
             IF a + 1 > a + i THEN 0 ELSE (a + i) - (a + 1) + 1
    BY <2>1, FS_Interval
  <2>3. (IF a + 1 > a + i THEN 0 ELSE (a + i) - (a + 1) + 1) = i
    BY <2>1
  <2>4. QED
    BY <2>2, <2>3
<1>3. {k \in 1..size : mask[k]} = (a + 1)..(a + n)
  <2>1. \A k \in (a + 1)..(a + n) : k \in 1..size
    BY <1>1
  <2>2. \A k \in 1..size : mask[k] <=> k \in (a + 1)..(a + n)
    BY DEF MarksBlock
  <2>3. QED
    BY <2>1, <2>2
<1>4. Cardinality({k \in 1..size : mask[k]}) = n
  <2>1. n \in 0..n
    BY <1>1
  <2>2. QED
    BY <1>2, <1>3, <2>1
<1>5. /\ P \in [1..n -> 1..size]
      /\ \A i \in 1..n : mask[P[i]] /\ Cardinality({j \in 1..P[i] : mask[j]}) = i
  <2>1. LET m == Cardinality({k \in 1..size : mask[k]})
        IN  /\ SetPlaces(mask) \in [1..m -> 1..size]
            /\ \A i \in 1..m : /\ mask[SetPlaces(mask)[i]]
                               /\ Cardinality({j \in 1..SetPlaces(mask)[i] : mask[j]}) = i
    BY SetPlacesRank
  <2>2. QED
    BY <1>4, <2>1
<1> HIDE DEF P
<1>6. ASSUME NEW i \in 1..n
      PROVE  P[i] = a + i
  <2> DEFINE p == P[i]
             d == p - a
  <2>1. p \in 1..size /\ p \in (a + 1)..(a + n) /\ Cardinality({j \in 1..p : mask[j]}) = i
    BY <1>5 DEF MarksBlock
  <2> HIDE DEF p
  <2>2. d \in 1..n /\ d \in 0..n /\ p = a + d
    BY <1>1, <2>1
  <2>3. {j \in 1..p : mask[j]} = (a + 1)..p
    <3>1. \A j \in 1..p : j \in 1..size
      BY <2>1
    <3>2. \A j \in 1..p : j \in (a + 1)..(a + n) <=> j \in (a + 1)..p
      BY <1>1, <2>1
    <3>3. \A j \in (a + 1)..p : j \in 1..p
      BY <2>1
    <3>4. \A j \in 1..p : mask[j] <=> j \in (a + 1)..p
      BY <3>1, <3>2 DEF MarksBlock
    <3>5. QED
      BY <3>3, <3>4
  <2> HIDE DEF d
  <2>4. Cardinality((a + 1)..(a + d)) = d
    BY <1>2, <2>2
  <2>5. i = d
    BY <2>1, <2>2, <2>3, <2>4
  <2>6. QED
    BY <2>2, <2>5 DEF p
<1>7. P = [i \in 1..n |-> a + i]
  BY <1>5, <1>6
<1>8. QED
  BY <1>7 DEF P

(* Indices that stand in order are put in order by leaving them.           *)
LEMMA ReverseOfOrdered ==
  ASSUME NEW n \in Nat
  PROVE  ReverseIndices([i \in 1..n |-> i]) = [i \in 1..n |-> i]
<1> DEFINE index == [i \in 1..n |-> i]
           place(k) == CHOOSE m \in DOMAIN index :
                         Cardinality({j \in DOMAIN index : index[j] <= index[m]}) = k
<1>1. ASSUME NEW m \in 1..n
      PROVE  Cardinality({j \in DOMAIN index : index[j] <= index[m]}) = m
  <2>1. m \in Nat /\ 1 <= m /\ m <= n
    OBVIOUS
  <2>2. {j \in DOMAIN index : index[j] <= index[m]} = 1..m
    <3>1. \A j \in 1..n : j <= m <=> j \in 1..m
      BY <2>1
    <3>2. \A j \in 1..m : j \in 1..n
      BY <2>1
    <3>3. {j \in 1..n : j <= m} = 1..m
      BY <3>1, <3>2
    <3>4. {j \in DOMAIN index : index[j] <= index[m]} = {j \in 1..n : j <= m}
      OBVIOUS
    <3>5. QED
      BY <3>3, <3>4
  <2>3. Cardinality(1..m) = m
    BY <2>1, FS_Interval
  <2>4. QED
    BY <2>2, <2>3
<1>2. DOMAIN index = 1..n
  OBVIOUS
<1>3. ASSUME NEW k \in 1..n
      PROVE  place(k) = k
  <2> DEFINE size(m) == Cardinality({j \in DOMAIN index : index[j] <= index[m]})
  <2>1. \A m \in DOMAIN index : size(m) = m
    BY <1>1, <1>2
  <2>2. place(k) = CHOOSE m \in DOMAIN index : size(m) = k
    OBVIOUS
  <2> HIDE DEF size, place, index
  <2>3. size(k) = k /\ k \in DOMAIN index
    BY <1>2, <2>1
  <2>4. place(k) \in DOMAIN index /\ size(place(k)) = k
    BY <2>2, <2>3
  <2>5. QED
    BY <2>1, <2>4
<1>4. ReverseIndices(index) = [k \in DOMAIN index |-> place(k)]
  BY DEF ReverseIndices
<1> HIDE DEF place
<1>5. QED
  BY <1>2, <1>3, <1>4
----------------------------------------------------------------------------
(* Graceful padding: every group gets the same number of slots, and as     *)
(* many of all slots are real as there are rows.                           *)
GroupSize(bsz, groups) ==
  IF bsz % groups = 0 THEN bsz \div groups ELSE bsz \div groups + 1

LEMMA GroupSizeType ==
  ASSUME NEW bsz \in Nat, NEW groups \in Nat, groups > 0
  PROVE  /\ GroupSize(bsz, groups) \in Nat
         /\ bsz > 0 => GroupSize(bsz, groups) > 0
         /\ groups * GroupSize(bsz, groups) \in Nat
<1> DEFINE q == bsz \div groups
<1>1. q \in Nat /\ bsz % groups \in Nat /\ bsz = groups * q + (bsz % groups)
  BY Division
<1> HIDE DEF q
<1>2. bsz % groups = 0 /\ bsz > 0 => q > 0
  <2>1. q = 0 => groups * q = 0
    OBVIOUS
  <2>2. QED
    BY <1>1, <2>1
<1>3. GroupSize(bsz, groups) \in Nat /\ (bsz > 0 => GroupSize(bsz, groups) > 0)
  BY <1>1, <1>2 DEF GroupSize, q
<1>4. QED
  BY <1>3

LEMMA MaskType ==
  ASSUME NEW bsz \in Nat, NEW groups \in Nat, groups > 0
  PROVE  NoPaddingMask(bsz, groups) \in [1..(groups * GroupSize(bsz, groups)) -> BOOLEAN]
<1>1. CASE bsz % groups = 0
  <2>1. bsz = groups * (bsz \div groups) + (bsz % groups) /\ groups * (bsz \div groups) \in Nat
    BY Division
  <2>2. bsz = groups * (bsz \div groups)
    BY <1>1, <2>1
  <2>3. QED
    BY <1>1, <2>2 DEF NoPaddingMask, GroupSize
<1>2. CASE bsz % groups # 0
  BY <1>2 DEF NoPaddingMask, GroupSize
<1>3. QED
  BY <1>1, <1>2

(* In a batch that is padded, slot j of group i is real unless it is the   *)
(* first of a group from the remainder on.                                 *)
LEMMA MaskOfSlot ==
  ASSUME NEW bsz \in Nat, NEW groups \in Nat, groups > 0, bsz % groups # 0,
         NEW i \in 0..(groups - 1), NEW j \in 0..(GroupSize(bsz, groups) - 1)
  PROVE  LET k == GroupSize(bsz, groups) * i + j + 1
         IN  /\ k \in 1..(groups * GroupSize(bsz, groups))
             /\ NoPaddingMask(bsz, groups)[k] <=> (i < bsz % groups \/ j # 0)
<1> DEFINE size == GroupSize(bsz, groups)
           k == size * i + j + 1
<1>1. size \in Nat /\ i \in Nat /\ j \in Nat /\ j < size /\ i + 1 <= groups
  BY GroupSizeType
<1>2. size = bsz \div groups + 1
  BY DEF GroupSize
<1> HIDE DEF size
<1>3. (k - 1) \div size = i /\ (k - 1) % size = j
  <2>1. k - 1 = size * i + j
    BY <1>1
  <2>2. (size * i + j) \div size = i /\ (size * i + j) % size = j
    BY <1>1, DivisionUnique
  <2>3. QED
    BY <2>1, <2>2
<1>4. k \in 1..(groups * size)
  <2>1. size * (i + 1) = size * i + size /\ size * i \in Nat
    BY <1>1
  <2>2. size * (i + 1) <= size * groups
    BY <1>1
  <2>3. size * groups = groups * size /\ groups * size \in Nat
    BY <1>1
  <2>4. QED
    BY <1>1, <2>1, <2>2, <2>3
<1> HIDE DEF k
<1>5. NoPaddingMask(bsz, groups)[k]
        <=> (k - 1) \div size < bsz % groups \/ (k - 1) % size # 0
  BY <1>2, <1>4 DEF NoPaddingMask
<1>6. QED
  BY <1>3, <1>4, <1>5 DEF k, size

LEMMA SlotOfPlace ==
  ASSUME NEW groups \in Nat, NEW size \in Nat, size > 0, NEW k \in 1..(groups * size)
  PROVE  \E i \in 0..(groups - 1) : \E j \in 0..(size - 1) : k = size * i + j + 1
<1> DEFINE i == (k - 1) \div size
           j == (k - 1) % size
<1>1. k - 1 \in Nat /\ groups * size \in Nat /\ k <= groups * size
  OBVIOUS
<1>2. i \in Nat /\ j \in Nat /\ j < size /\ k - 1 = size * i + j
  BY <1>1, Division
<1> HIDE DEF i, j
<1>3. i < groups
  <2> SUFFICES ASSUME groups <= i PROVE FALSE
    BY <1>2
  <2>1. groups * size <= i * size /\ i * size = size * i
    BY <1>2
  <2>2. size * i \in Nat
    BY <1>2
  <2>3. QED
    BY <1>1, <1>2, <2>1, <2>2
<1>4. i \in 0..(groups - 1) /\ j \in 0..(size - 1)
  BY <1>2, <1>3
<1>5. k = size * i + j + 1
  <2>1. size * i \in Nat
    BY <1>2
  <2>2. QED
    BY <1>1, <1>2, <2>1
<1>6. QED
  BY <1>4, <1>5

(* The padding slots are as many as the groups from the remainder on.      *)
LEMMA PaddingCount ==
  ASSUME NEW bsz \in Nat, NEW groups \in Nat, groups > 0, bsz % groups # 0
  PROVE  LET size == GroupSize(bsz, groups)
             pad  == {k \in 1..(groups * size) : ~NoPaddingMask(bsz, groups)[k]}
         IN  IsFiniteSet(pad) /\ Cardinality(pad) = groups - (bsz % groups)
<1> DEFINE size == GroupSize(bsz, groups)
           rem  == bsz % groups
           mask == NoPaddingMask(bsz, groups)
           pad  == {k \in 1..(groups * size) : ~mask[k]}
           first == [i \in rem..(groups - 1) |-> size * i + 1]
<1>1. size \in Nat /\ size > 0 /\ rem \in Nat /\ rem < groups
  <2>1. rem \in Nat /\ rem < groups
    BY Division
  <2>2. bsz \div groups \in Nat
    BY Division
  <2>3. QED
    BY <2>1, <2>2 DEF GroupSize
<1>2. \A i \in 0..(groups - 1) : \A j \in 0..(size - 1) :
         /\ size * i + j + 1 \in 1..(groups * size)
         /\ mask[size * i + j + 1] <=> (i < rem \/ j # 0)
  BY MaskOfSlot
<1> HIDE DEF size, rem, mask
<1>3. ASSUME NEW i \in rem..(groups - 1)
      PROVE  size * i + 1 \in pad
  <2>1. i \in 0..(groups - 1) /\ 0 \in 0..(size - 1) /\ ~(i < rem)
    BY <1>1
  <2>2. size * i + 0 + 1 = size * i + 1
    BY <1>1, <2>1
  <2>3. QED
    BY <1>2, <2>1, <2>2
<1>4. first \in [rem..(groups - 1) -> pad]
  BY <1>3
<1>5. \A i, l \in rem..(groups - 1) : first[i] = first[l] => i = l
  <2> SUFFICES ASSUME NEW i \in rem..(groups - 1), NEW l \in rem..(groups - 1),
                      size * i + 1 = size * l + 1
               PROVE  i = l
    OBVIOUS
  <2>1. i \in Nat /\ l \in Nat
    BY <1>1
  <2>2. size * i \in Nat /\ size * l \in Nat
    BY <1>1, <2>1
  <2>3. size * i + 0 = size * l + 0
    BY <2>2
  <2>4. (size * i + 0) \div size = i /\ (size * l + 0) \div size = l
    BY <1>1, <2>1, DivisionUnique
  <2>5. QED
    BY <2>3, <2>4
<1>6. \A k \in pad : \E i \in rem..(groups - 1) : first[i] = k
  <2> SUFFICES ASSUME NEW k \in pad
               PROVE  \E i \in rem..(groups - 1) : first[i] = k
    OBVIOUS
  <2>1. k \in 1..(groups * size) /\ ~mask[k]
    OBVIOUS
  <2>2. PICK i \in 0..(groups - 1) : \E j \in 0..(size - 1) : k = size * i + j + 1
    BY <1>1, <2>1, SlotOfPlace
  <2>3. PICK j \in 0..(size - 1) : k = size * i + j + 1
    BY <2>2
  <2>4. ~(i < rem) /\ j = 0
    BY <1>2, <2>1, <2>3
  <2>5. i \in rem..(groups - 1)
    BY <1>1, <2>4
  <2>6. k = size * i + 1
    BY <1>1, <2>3, <2>4
  <2>7. QED
    BY <2>5, <2>6
<1>7. first \in Bijection(rem..(groups - 1), pad)
  <2> HIDE DEF first, pad
  <2>1. QED
    BY <1>4, <1>5, <1>6, Fun_IsBij
<1>8. IsFiniteSet(rem..(groups - 1)) /\ Cardinality(rem..(groups - 1)) = groups - rem
  BY <1>1, FS_Interval
<1>9. IsFiniteSet(pad) /\ Cardinality(pad) = groups - rem
  <2> HIDE DEF first, pad
  <2>1. ExistsBijection(rem..(groups - 1), pad)
    BY <1>7, Fun_ExistsBij
  <2>2. QED
    BY <1>8, <2>1, FS_Bijection
<1>10. QED
  BY <1>9 DEF size, rem, mask

(* As many slots are real as there are rows.                               *)
LEMMA MaskCount ==
  ASSUME NEW bsz \in Nat, NEW groups \in Nat, groups > 0
  PROVE  Cardinality({k \in 1..(groups * GroupSize(bsz, groups)) : NoPaddingMask(bsz, groups)[k]})
           = bsz
<1> DEFINE size == GroupSize(bsz, groups)
           rem  == bsz % groups
           mask == NoPaddingMask(bsz, groups)
           all  == 1..(groups * size)
           real == {k \in all : mask[k]}
           pad  == {k \in all : ~mask[k]}
<1>1. /\ size \in Nat /\ groups * size \in Nat /\ mask \in [all -> BOOLEAN]
      /\ bsz \div groups \in Nat /\ groups * (bsz \div groups) \in Nat
      /\ bsz = groups * (bsz \div groups) + rem /\ rem \in Nat
  <2>1. size \in Nat /\ groups * size \in Nat /\ mask \in [all -> BOOLEAN]
    BY GroupSizeType, MaskType
  <2>2. bsz \div groups \in Nat /\ rem \in Nat /\ bsz = groups * (bsz \div groups) + rem
    BY Division
  <2>3. \A q \in Nat : groups * q \in Nat
    OBVIOUS
  <2>4. QED
    BY <2>1, <2>2, <2>3
<1>2. IsFiniteSet(all) /\ Cardinality(all) = groups * size
  BY <1>1, FS_Interval
<1>3. CASE rem = 0
  <2>1. bsz = groups * size
    BY <1>1, <1>3 DEF GroupSize
  <2>2. \A k \in all : mask[k]
    BY <1>3, <2>1 DEF NoPaddingMask
  <2>3. real = all
    BY <2>2
  <2>4. QED
    BY <1>2, <2>1, <2>3
<1>4. CASE rem # 0
  <2>1. IsFiniteSet(pad) /\ Cardinality(pad) = groups - rem
    BY <1>4, PaddingCount
  <2>2. real = all \ pad /\ all \cap pad = pad
    BY <1>1
  <2>3. Cardinality(all \ pad) = Cardinality(all) - Cardinality(all \cap pad)
    <3> HIDE DEF all, pad
    <3>1. QED
      BY <1>2, FS_Difference
  <2>4. size = bsz \div groups + 1
    BY <1>4 DEF GroupSize
  <2>5. groups * size = groups * (bsz \div groups) + groups
    BY <1>1, <2>4
  <2>6. Cardinality(real) = groups * size - (groups - rem)
    <3> HIDE DEF all, pad, real, size
    <3>1. QED
      BY <1>2, <2>1, <2>2, <2>3
  <2>7. QED
    BY <1>1, <2>5, <2>6
<1>5. QED
  BY <1>3, <1>4

(* A rank's shard of the slots has a real slot in all places, or in all    *)
(* but the first.                                                          *)
LEMMA RealSlotsOfGroup ==
  ASSUME NEW bsz \in Nat, bsz > 0, NEW groups \in Nat, groups > 0, NEW w \in 1..groups
  PROVE  LET size == GroupSize(bsz, groups)
             real == {k \in ShardOf(groups * size, groups, w) : NoPaddingMask(bsz, groups)[k]}
         IN  Cardinality(real) \in {size - 1, size}
<1> DEFINE size == GroupSize(bsz, groups)
           rem  == bsz % groups
           mask == NoPaddingMask(bsz, groups)
           shard == ShardOf(groups * size, groups, w)
           real == {k \in shard : mask[k]}
           a == (w - 1) * size
<1>1. /\ size \in Nat /\ size > 0 /\ groups * size \in Nat
      /\ w - 1 \in 0..(groups - 1) /\ a \in Nat /\ w * size = a + size /\ a = size * (w - 1)
  <2>1. size \in Nat /\ size > 0 /\ groups * size \in Nat
    BY GroupSizeType
  <2> HIDE DEF size
  <2>2. w - 1 \in Nat /\ w - 1 \in 0..(groups - 1)
    OBVIOUS
  <2>3. QED
    BY <2>1, <2>2
<1>2. shard = (a + 1)..(a + size)
  <2>1. (groups * size + 0) \div groups = size
    BY <1>1, DivisionUnique
  <2>2. groups * size + 0 = groups * size
    BY <1>1
  <2>3. (groups * size) \div groups = size
    BY <2>1, <2>2
  <2> HIDE DEF size
  <2>4. QED
    BY <1>1, <2>3 DEF ShardOf
<1>3. ASSUME NEW k \in shard
      PROVE  \E j \in 0..(size - 1) : k = size * (w - 1) + j + 1
  <2>1. k - a - 1 \in 0..(size - 1) /\ k = a + (k - a - 1) + 1
    <3> HIDE DEF a, size
    <3>1. QED
      BY <1>1, <1>2
  <2>2. QED
    BY <1>1, <2>1
<1>4. IsFiniteSet(shard) /\ Cardinality(shard) = size
  <2> HIDE DEF shard, a, size
  <2>1. a + 1 \in Int /\ a + size \in Int /\ ~(a + 1 > a + size) /\ (a + size) - (a + 1) + 1 = size
    BY <1>1
  <2>2. QED
    BY <1>2, <2>1, FS_Interval
<1>5. CASE rem = 0
  <2>1. bsz = groups * size
    <3>1. bsz = groups * (bsz \div groups) + rem /\ groups * (bsz \div groups) \in Nat
      BY Division
    <3>2. QED
      BY <1>5, <3>1 DEF GroupSize
  <2>2. \A k \in 1..bsz : mask[k]
    BY <1>5 DEF NoPaddingMask
  <2>3. \A k \in shard : k \in 1..bsz
    <3>1. size * w <= size * groups /\ size * groups = groups * size /\ w * size = size * w
      <4> HIDE DEF size
      <4>1. QED
        BY <1>1
    <3> HIDE DEF a, size, shard
    <3>2. QED
      BY <1>1, <1>2, <2>1, <3>1
  <2>4. real = shard
    BY <2>2, <2>3
  <2>5. QED
    BY <1>4, <2>4
<1>6. CASE rem # 0
  <2>1. \A j \in 0..(size - 1) :
           mask[size * (w - 1) + j + 1] <=> (w - 1 < rem \/ j # 0)
    BY <1>1, <1>6, MaskOfSlot
  <2>2. CASE w - 1 < rem
    <3>1. real = shard
      BY <1>3, <2>1, <2>2
    <3>2. QED
      BY <1>4, <3>1
  <2>3. CASE ~(w - 1 < rem)
    <3>1. a + 1 \in shard
      <4> HIDE DEF a, size, shard
      <4>1. QED
        BY <1>1, <1>2
    <3>2. \A k \in shard : mask[k] <=> k # a + 1
      <4> SUFFICES ASSUME NEW k \in shard PROVE mask[k] <=> k # a + 1
        OBVIOUS
      <4>1. PICK j \in 0..(size - 1) : k = size * (w - 1) + j + 1
        BY <1>3
      <4>2. k = a + 1 <=> j = 0
        <5> HIDE DEF a, size, shard
        <5>1. QED
          BY <1>1, <4>1
      <4>3. QED
        BY <2>1, <2>3, <4>1, <4>2
    <3>3. real = shard \ {a + 1}
      BY <3>1, <3>2
    <3>4. Cardinality(shard \ {a + 1}) = size - 1
      <4> HIDE DEF a, shard, size
      <4>1. QED
        BY <1>4, <3>1, FS_RemoveElement
    <3>5. QED
      BY <3>3, <3>4
  <2>4. QED
    BY <2>2, <2>3
<1>7. QED
  BY <1>5, <1>6
----------------------------------------------------------------------------
(* The rows of the padded batch: real slot k holds the row that is the     *)
(* k-th real one, every other slot the first row.                          *)
LEMMA BatchType ==
  ASSUME NEW batch \in Batches
  PROVE  /\ Len(batch) \in 1..MaxBatch /\ Len(batch) \in Nat /\ Len(batch) > 0
         /\ batch = [k \in 1..Len(batch) |-> k]
         /\ batch \in Seq(1..MaxBatch)
<1>1. PICK n \in 1..MaxBatch : batch = [k \in 1..n |-> k]
  BY DEF Batches
<1>2. n \in Nat /\ n > 0 /\ MaxBatch \in Nat
  BY DispatchAssumption
<1>3. batch \in [1..n -> 1..MaxBatch]
  BY <1>1, <1>2
<1>4. batch \in Seq(1..MaxBatch) /\ Len(batch) = n
  BY <1>2, <1>3, FunctionIsSequence
<1>5. QED
  BY <1>1, <1>2, <1>4

LEMMA PaddedType ==
  ASSUME NEW batch \in Batches, NEW groups \in Nat, groups > 0
  PROVE  LET mask == NoPaddingMask(Len(batch), groups)
             size == groups * GroupSize(Len(batch), groups)
             rows == PaddedRows(batch, mask)
         IN  /\ size \in Nat /\ size > 0
             /\ mask \in [1..size -> BOOLEAN]
             /\ rows \in Seq(1..MaxBatch) /\ Len(rows) = size /\ DOMAIN rows = 1..size
             /\ \A k \in 1..size : mask[k] => rows[k] = Cardinality({j \in 1..k : mask[j]})
<1> DEFINE n == Len(batch)
           mask == NoPaddingMask(n, groups)
           size == groups * GroupSize(n, groups)
           rows == PaddedRows(batch, mask)
           index == PaddingIndex(mask)
           rank(k) == Cardinality({j \in 1..k : mask[j]})
<1>1. /\ n \in 1..MaxBatch /\ n \in Nat /\ n > 0 /\ MaxBatch \in Nat
      /\ batch \in Seq(1..MaxBatch) /\ \A k \in 1..n : batch[k] = k
  BY BatchType, DispatchAssumption
<1>2. size \in Nat /\ size > 0 /\ mask \in [1..size -> BOOLEAN]
  <2>1. GroupSize(n, groups) \in Nat /\ GroupSize(n, groups) > 0
    BY <1>1, GroupSizeType
  <2>2. size \in Nat /\ size > 0
    BY <2>1
  <2> HIDE DEF n
  <2>3. QED
    BY <1>1, <2>2, MaskType
<1>3. Cardinality({j \in 1..size : mask[j]}) = n
  <2> HIDE DEF n
  <2>1. QED
    BY <1>1, MaskCount
<1> HIDE DEF n, mask, size
<1>4. ASSUME NEW k \in 1..size, mask[k]
      PROVE  rank(k) \in 1..n
  <2> DEFINE real == {j \in 1..size : mask[j]}
             upTo == {j \in 1..k : mask[j]}
  <2>1. upTo \in SUBSET real /\ k \in upTo
    BY <1>2, <1>4
  <2>2. IsFiniteSet(real)
    <3>1. IsFiniteSet(1..size) /\ real \in SUBSET (1..size)
      BY <1>2, FS_Interval
    <3> HIDE DEF real
    <3>2. QED
      BY <3>1, FS_Subset
  <2>3. Cardinality(upTo) <= Cardinality(real) /\ Cardinality(upTo) \in Nat /\ Cardinality(upTo) # 0
    <3> HIDE DEF real, upTo
    <3>1. IsFiniteSet(upTo) /\ Cardinality(upTo) <= Cardinality(real)
      BY <2>1, <2>2, FS_Subset
    <3>2. QED
      BY <2>1, <3>1, FS_CardinalityType, FS_EmptySet
  <2>4. Cardinality(real) = n
    BY <1>3
  <2> HIDE DEF real
  <2>5. QED
    BY <1>1, <2>3, <2>4
<1>5. DOMAIN mask = 1..size
  BY <1>2
<1>6. index = [k \in 1..size |-> IF mask[k] THEN rank(k) ELSE 1]
  BY <1>5 DEF PaddingIndex
<1> HIDE DEF rank, index
<1>7. index \in [1..size -> 1..n]
  <2>1. 1 \in 1..n
    BY <1>1
  <2>2. QED
    BY <1>4, <1>6, <2>1
<1>8. \A k \in 1..n : Append(batch, PaddingRow)[k] = k
  <2>1. \A k \in 1..n : k \in 1..Len(batch) /\ k # Len(batch) + 1
    BY <1>1 DEF n
  <2>2. batch \in Seq(Nat) /\ PaddingRow \in Nat
    <3>1. \A k \in 1..Len(batch) : batch[k] \in Nat
      BY <1>1 DEF n
    <3>2. QED
      BY <1>1, <3>1, LenProperties, IsASeq DEF PaddingRow
  <2>3. \A k \in 1..Len(batch) : Append(batch, PaddingRow)[k] = batch[k]
    BY <2>2, AppendProperties
  <2>4. QED
    BY <1>1, <2>1, <2>3
<1>9. rows = [k \in 1..size |-> index[k]]
  <2>1. rows = TakeRows(Append(batch, PaddingRow), index)
    BY DEF PaddedRows, index
  <2>2. rows = [k \in DOMAIN index |-> Append(batch, PaddingRow)[index[k]]]
    BY <2>1 DEF TakeRows
  <2>3. DOMAIN index = 1..size
    BY <1>7
  <2> HIDE DEF rows
  <2>4. QED
    BY <1>7, <1>8, <2>2, <2>3
<1> HIDE DEF rows
<1>10. rows \in [1..size -> 1..MaxBatch]
  <2>1. \A k \in 1..n : k \in 1..MaxBatch
    BY <1>1
  <2>2. QED
    BY <1>7, <1>9, <2>1
<1>11. rows \in Seq(1..MaxBatch) /\ Len(rows) = size /\ DOMAIN rows = 1..size
  BY <1>2, <1>10, FunctionIsSequence
<1>12. \A k \in 1..size : mask[k] => rows[k] = rank(k)
  BY <1>6, <1>9
<1>13. QED
  BY <1>2, <1>11, <1>12 DEF n, mask, size, rows, rank

(* The padded batch as it is when every rank has answered: every slot with *)
(* the row it holds.                                                       *)
Whole == [k \in 1..Len(padded) |-> [row |-> padded[k], slot |-> k]]

(* The inductive invariant. The ranks form whole replicas; ...             *)
WorldOK ==
  /\ world_size \in 1..MaxWorld
  /\ infer_size \in 1..world_size
  /\ world_size % infer_size = 0

(* ... what was sent out is the padding of the batch that came in; ...     *)
CallOK ==
  /\ status \in {"idle", "busy", "returned", "raised"}
  /\ status = "idle" => prompts = <<>> /\ padded = <<>> /\ no_padding_mask = <<>>
  /\ status # "idle" =>
       /\ prompts \in Batches
       /\ no_padding_mask = NoPaddingMask(Len(prompts), world_size)
       /\ padded = PaddedRows(prompts, no_padding_mask)

(* ... a rank that answered has answered the shard of this batch; ...      *)
OutputOK ==
  /\ output = [w \in Ranks |-> output[w]]
  /\ \A w \in Ranks : \/ output[w] = Pending
                      \/ status # "idle" /\ output[w] = Generated(w)

(* ... and what was returned is the whole padded batch, unpadded.          *)
ResponsesOK == responses = IF status = "returned" THEN Unpad(Whole) ELSE <<>>

IInv == WorldOK /\ CallOK /\ OutputOK /\ ResponsesOK

Answer == [row : 1..MaxBatch, slot : 1..Len(padded)]

(* The shape of a call that has begun: padded and mask are sequences of    *)
(* one length, a multiple of the number of ranks.                          *)
LEMMA CallShape ==
  ASSUME WorldOK, CallOK, status # "idle"
  PROVE  LET size == GroupSize(Len(prompts), world_size)
         IN  /\ world_size \in Nat /\ world_size > 0
             /\ size \in Nat /\ size > 0
             /\ Len(padded) = world_size * size /\ Len(padded) \in Nat /\ Len(padded) > 0
             /\ padded \in Seq(1..MaxBatch) /\ DOMAIN padded = 1..Len(padded)
             /\ no_padding_mask \in [1..Len(padded) -> BOOLEAN]
             /\ Whole \in Seq(Answer) /\ Len(Whole) = Len(padded)
<1> DEFINE n == Len(prompts)
           size == GroupSize(n, world_size)
<1>1. world_size \in Nat /\ world_size > 0
  BY DispatchAssumption DEF WorldOK
<1>2. /\ prompts \in Batches
      /\ no_padding_mask = NoPaddingMask(n, world_size)
      /\ padded = PaddedRows(prompts, no_padding_mask)
  BY DEF CallOK
<1>3. n \in Nat /\ n > 0
  BY <1>2, BatchType
<1>4. size \in Nat /\ size > 0 /\ world_size * size \in Nat
  BY <1>1, <1>3, GroupSizeType
<1>5. /\ world_size * size > 0
      /\ no_padding_mask \in [1..(world_size * size) -> BOOLEAN]
      /\ padded \in Seq(1..MaxBatch) /\ Len(padded) = world_size * size
      /\ DOMAIN padded = 1..(world_size * size)
  BY <1>1, <1>2, PaddedType
<1> HIDE DEF n, size
<1>6. Whole \in [1..Len(padded) -> Answer]
  <2>1. \A k \in 1..Len(padded) : padded[k] \in 1..MaxBatch
    <3>1. padded \in Seq(1..MaxBatch)
      BY <1>5
    <3>2. QED
      BY <3>1, ElementOfSeq
  <2>2. QED
    BY <2>1 DEF Whole, Answer
<1>7. Whole \in Seq(Answer) /\ Len(Whole) = Len(padded)
  BY <1>4, <1>5, <1>6, FunctionIsSequence
<1>8. QED
  BY <1>1, <1>4, <1>5, <1>7 DEF n, size

(* The ranks of a replica divide the ranks.                                *)
LEMMA ReplicaShape ==
  ASSUME WorldOK
  PROVE  /\ infer_size \in Nat /\ infer_size > 0
         /\ Replicas \in Nat /\ Replicas > 0
         /\ world_size = infer_size * Replicas
<1>1. world_size \in Nat /\ world_size > 0 /\ infer_size \in Nat /\ infer_size > 0
  BY DispatchAssumption DEF WorldOK
<1>2. Replicas \in Nat /\ world_size = infer_size * Replicas + 0
  <2>1. /\ world_size \div infer_size \in Nat
        /\ world_size = infer_size * (world_size \div infer_size) + (world_size % infer_size)
    BY <1>1, Division
  <2>2. QED
    BY <2>1 DEF Replicas, WorldOK
<1>3. infer_size * Replicas \in Nat
  BY <1>1, <1>2
<1>4. world_size = infer_size * Replicas
  BY <1>2, <1>3
<1>5. Replicas # 0
  <2> SUFFICES ASSUME Replicas = 0 PROVE FALSE
    OBVIOUS
  <2>1. infer_size * 0 = 0
    BY <1>1
  <2>2. QED
    BY <1>1, <1>4, <2>1
<1>6. QED
  BY <1>1, <1>2, <1>4, <1>5

(* The rows of a batch that has begun split evenly over the replicas.      *)
LEMMA ShardShape ==
  ASSUME WorldOK, CallOK, status # "idle"
  PROVE  LET m == Len(padded) \div Replicas
         IN  m \in Nat /\ m > 0 /\ Len(padded) = Replicas * m
<1> DEFINE size == GroupSize(Len(prompts), world_size)
           q == infer_size * size
<1>1. /\ world_size \in Nat /\ size \in Nat /\ size > 0
      /\ Len(padded) = world_size * size /\ Len(padded) \in Nat
  BY CallShape
<1>2. /\ infer_size \in Nat /\ infer_size > 0 /\ Replicas \in Nat /\ Replicas > 0
      /\ world_size = infer_size * Replicas
  BY ReplicaShape
<1> HIDE DEF size
<1>3. q \in Nat /\ q > 0
  BY <1>1, <1>2
<1>4. Len(padded) = Replicas * q + 0
  <2>1. Len(padded) = (infer_size * Replicas) * size
    BY <1>1, <1>2
  <2>2. (infer_size * Replicas) * size = Replicas * (infer_size * size)
    BY <1>1, <1>2
  <2>3. Replicas * q \in Nat
    BY <1>2, <1>3
  <2>4. QED
    BY <2>1, <2>2, <2>3
<1> HIDE DEF q
<1>5. (Replicas * q + 0) \div Replicas = q
  BY <1>2, <1>3, DivisionUnique
<1>6. Replicas * q \in Nat
  BY <1>2, <1>3
<1>7. QED
  BY <1>3, <1>4, <1>5, <1>6

(* The replica of a rank, and the first rank of a replica.                 *)
LEMMA ReplicaOfRank ==
  ASSUME WorldOK
  PROVE  /\ \A w \in Ranks : ReplicaOf(w) \in 1..Replicas
         /\ \A d \in 1..Replicas : \E w \in Ranks : Collects(w) /\ ReplicaOf(w) = d
<1>1. /\ infer_size \in Nat /\ infer_size > 0 /\ Replicas \in Nat /\ Replicas > 0
      /\ world_size = infer_size * Replicas
  BY ReplicaShape
<1>2. world_size \in Nat
  BY DispatchAssumption DEF WorldOK
<1>3. ASSUME NEW w \in Ranks
      PROVE  ReplicaOf(w) \in 1..Replicas
  <2> DEFINE q == (w - 1) \div infer_size
             r == (w - 1) % infer_size
  <2>1. w - 1 \in Nat /\ w - 1 < world_size
    BY <1>2 DEF Ranks
  <2>2. q \in Nat /\ r \in Nat /\ w - 1 = infer_size * q + r
    BY <1>1, <2>1, Division
  <2> HIDE DEF q, r
  <2>3. infer_size * q < infer_size * Replicas
    <3>1. infer_size * q \in Nat
      BY <1>1, <2>2
    <3>2. QED
      BY <1>1, <1>2, <2>1, <2>2, <3>1
  <2>4. q < Replicas
    <3> SUFFICES ASSUME Replicas <= q PROVE FALSE
      BY <1>1, <2>2
    <3>1. infer_size * Replicas <= infer_size * q
      BY <1>1, <2>2
    <3>2. infer_size * q \in Nat /\ infer_size * Replicas \in Nat
      BY <1>1, <2>2
    <3>3. QED
      BY <2>3, <3>1, <3>2
  <2>5. q + 1 \in 1..Replicas
    BY <1>1, <2>2, <2>4
  <2>6. QED
    BY <2>5 DEF ReplicaOf, q
<1>4. ASSUME NEW d \in 1..Replicas
      PROVE  \E w \in Ranks : Collects(w) /\ ReplicaOf(w) = d
  <2> DEFINE a == infer_size * (d - 1)
             w == a + 1
  <2>1. d \in Nat /\ d - 1 \in Nat /\ d <= Replicas
    BY <1>1
  <2>2. a \in Nat /\ infer_size * d \in Nat /\ infer_size * d = a + infer_size
    BY <1>1, <2>1
  <2>3. infer_size * d <= infer_size * Replicas
    BY <1>1, <2>1
  <2>4. (infer_size * (d - 1) + 0) \div infer_size = d - 1
        /\ (infer_size * (d - 1) + 0) % infer_size = 0
    BY <1>1, <2>1, DivisionUnique
  <2> HIDE DEF a
  <2>5. w \in Ranks
    BY <1>1, <1>2, <2>2, <2>3 DEF Ranks
  <2>6. w - 1 = a /\ a + 0 = a
    BY <2>2
  <2>7. (w - 1) \div infer_size = d - 1 /\ (w - 1) % infer_size = 0
    BY <2>4, <2>6 DEF a
  <2>8. Collects(w) /\ ReplicaOf(w) = d
    BY <2>1, <2>7 DEF Collects, ReplicaOf
  <2>9. QED
    BY <2>5, <2>8
<1>5. QED
  BY <1>3, <1>4

(* What a rank generates is its replica's shard of the whole batch, never  *)
(* empty.                                                                  *)
LEMMA GeneratedIsShard ==
  ASSUME WorldOK, CallOK, status # "idle", NEW w \in Ranks
  PROVE  LET d == ReplicaOf(w)
             m == Len(padded) \div Replicas
         IN  /\ Generated(w) = SubSeq(Whole, (d - 1) * m + 1, d * m)
             /\ Generated(w) \in Seq(Answer)
             /\ Generated(w) # Pending
<1> DEFINE d == ReplicaOf(w)
           m == Len(padded) \div Replicas
           shard == ShardOf(Len(padded), Replicas, d)
           first == (d - 1) * m
<1>1. /\ m \in Nat /\ m > 0 /\ Len(padded) = Replicas * m
      /\ Replicas \in Nat /\ Replicas > 0 /\ d \in 1..Replicas
      /\ Len(padded) \in Nat
  BY ShardShape, ReplicaShape, ReplicaOfRank, CallShape
<1> HIDE DEF d, m
<1>2. d \in Nat /\ d - 1 \in Nat /\ d <= Replicas
  BY <1>1
<1>3. first \in Nat /\ d * m \in Nat /\ d * m = first + m
  BY <1>1, <1>2
<1>4. d * m <= Len(padded)
  BY <1>1, <1>2
<1>5. shard = (first + 1)..(first + m)
  BY <1>3 DEF ShardOf, m
<1> HIDE DEF first
<1>6. Cardinality(shard) = m
  <2>1. first + 1 \in Int /\ first + m \in Int /\ first + 1 <= first + m
    BY <1>1, <1>3
  <2>2. Cardinality((first + 1)..(first + m)) = (first + m) - (first + 1) + 1
    BY <2>1, FS_Interval
  <2>3. (first + m) - (first + 1) + 1 = m
    BY <1>1, <1>3
  <2>4. QED
    BY <1>5, <2>2, <2>3
<1>7. Generated(w) = [k \in 1..m |-> [row |-> padded[first + k], slot |-> first + k]]
  BY <1>6 DEF Generated, first, shard, d, m
<1> HIDE DEF shard
<1>8. Whole \in Seq(Answer) /\ Len(Whole) = Len(padded)
  BY CallShape
<1>9. \A k \in 1..m : /\ first + k \in 1..Len(padded)
                      /\ Whole[first + k] = [row |-> padded[first + k], slot |-> first + k]
                      /\ Whole[first + k] \in Answer
  <2> SUFFICES ASSUME NEW k \in 1..m
               PROVE  /\ first + k \in 1..Len(padded)
                      /\ Whole[first + k] = [row |-> padded[first + k], slot |-> first + k]
                      /\ Whole[first + k] \in Answer
    OBVIOUS
  <2>1. first + k \in 1..Len(padded)
    BY <1>1, <1>3, <1>4
  <2>2. Whole[first + k] = [row |-> padded[first + k], slot |-> first + k]
    BY <2>1 DEF Whole
  <2>3. Whole[first + k] \in Answer
    BY <1>8, <2>1, ElementOfSeq
  <2>4. QED
    BY <2>1, <2>2, <2>3
<1>10. Generated(w) = [k \in 1..m |-> Whole[first + k]]
  BY <1>7, <1>9
<1>11. Generated(w) \in Seq(Answer) /\ Len(Generated(w)) = m
  <2>1. [k \in 1..m |-> Whole[first + k]] \in [1..m -> Answer]
    BY <1>9
  <2>2. QED
    BY <1>1, <1>10, <2>1, FunctionIsSequence
<1>12. Generated(w) # Pending
  BY <1>1, <1>11 DEF Pending
<1>13. first + 1 \in Int /\ first + m \in Int
  BY <1>1, <1>3
<1>14. \A i \in (first + 1)..(first + m) : Whole[i] \in Answer
  <2>1. \A i \in (first + 1)..(first + m) : i \in 1..Len(Whole)
    BY <1>1, <1>3, <1>4, <1>8
  <2>2. QED
    BY <1>8, <2>1, ElementOfSeq
<1>15. /\ SubSeq(Whole, first + 1, first + m) \in Seq(Answer)
       /\ Len(SubSeq(Whole, first + 1, first + m)) = m
       /\ \A k \in 1..m : SubSeq(Whole, first + 1, first + m)[k] = Whole[first + k]
  <2> DEFINE part == SubSeq(Whole, first + 1, first + m)
  <2>1. /\ part \in Seq(Answer)
        /\ Len(part) = IF first + 1 <= first + m THEN (first + m) - (first + 1) + 1 ELSE 0
        /\ \A k \in 1..((first + m) - (first + 1) + 1) : part[k] = Whole[(first + 1) + k - 1]
    BY <1>13, <1>14, SubSeqProperties
  <2> HIDE DEF part
  <2>2. first + 1 <= first + m /\ (first + m) - (first + 1) + 1 = m
    BY <1>1, <1>3
  <2>3. \A k \in 1..m : (first + 1) + k - 1 = first + k
    BY <1>1, <1>3
  <2>4. /\ part \in Seq(Answer) /\ Len(part) = m
        /\ \A k \in 1..m : part[k] = Whole[first + k]
    BY <2>1, <2>2, <2>3
  <2>5. QED
    BY <2>4 DEF part
<1>16. \A k \in 1..m : Generated(w)[k] = Whole[first + k]
  BY <1>10
<1>17. Generated(w) = SubSeq(Whole, first + 1, first + m)
  BY <1>11, <1>15, <1>16, SeqEqual
<1>18. SubSeq(Whole, first + 1, first + m) = SubSeq(Whole, (d - 1) * m + 1, d * m)
  BY <1>3 DEF first
<1>19. QED
  BY <1>11, <1>12, <1>17, <1>18 DEF d, m

(* Collecting puts the whole batch together again, whatever the number of  *)
(* replicas and of ranks in each.                                          *)
LEMMA CollectedIsWhole ==
  ASSUME IInv, status # "idle", \A w \in Ranks : output[w] # Pending
  PROVE  Collected = Whole
<1> DEFINE m == Len(padded) \div Replicas
           rank(d) == CHOOSE w \in Ranks : Collects(w) /\ ReplicaOf(w) = d
<1>1. WorldOK /\ CallOK /\ OutputOK
  BY DEF IInv
<1>2. /\ m \in Nat /\ Len(padded) = Replicas * m
      /\ Replicas \in Nat /\ Replicas > 0
      /\ Whole \in Seq(Answer) /\ Len(Whole) = Len(padded)
  BY <1>1, ShardShape, ReplicaShape, CallShape
<1>3. ASSUME NEW d \in 1..Replicas
      PROVE  output[rank(d)] = SubSeq(Whole, (d - 1) * m + 1, d * m)
  <2>1. \E w \in Ranks : Collects(w) /\ ReplicaOf(w) = d
    BY <1>1, ReplicaOfRank
  <2>2. rank(d) \in Ranks /\ ReplicaOf(rank(d)) = d
    BY <2>1
  <2> HIDE DEF rank
  <2>3. output[rank(d)] = Generated(rank(d))
    BY <1>1, <2>2 DEF OutputOK
  <2>4. Generated(rank(d)) =
          SubSeq(Whole, (ReplicaOf(rank(d)) - 1) * m + 1, ReplicaOf(rank(d)) * m)
    BY <1>1, <2>2, GeneratedIsShard
  <2>5. QED
    BY <2>2, <2>3, <2>4
<1>4. [d \in 1..Replicas |-> output[rank(d)]]
        = [d \in 1..Replicas |-> SubSeq(Whole, (d - 1) * m + 1, d * m)]
  <2> HIDE DEF m, rank
  <2>1. QED
    BY <1>3
<1>5. Collected = FlattenSeq([d \in 1..Replicas |-> output[rank(d)]])
  BY DEF Collected
<1> HIDE DEF m, rank
<1>6. FlattenSeq([d \in 1..Replicas |-> SubSeq(Whole, (d - 1) * m + 1, d * m)]) = Whole
  <2>1. Replicas >= 1 /\ Len(Whole) = Replicas * m
    BY <1>2
  <2>2. QED
    BY <1>2, <2>1, FlattenShards
<1>7. QED
  BY <1>4, <1>5, <1>6

(* What is left once the padding is dropped: one answer per prompt, in the *)
(* order of the prompts, each from the real slot that holds its prompt.    *)
LEMMA UnpaddedRows ==
  ASSUME WorldOK, CallOK, status # "idle"
  PROVE  /\ Unpad(Whole) \in Seq(Answer)
         /\ Len(Unpad(Whole)) = Len(prompts)
         /\ \A i \in 1..Len(prompts) : /\ Unpad(Whole)[i].row = prompts[i]
                                       /\ no_padding_mask[Unpad(Whole)[i].slot]
<1> DEFINE n == Len(prompts)
           size == Len(padded)
           mask == no_padding_mask
           rank(k) == Cardinality({j \in 1..k : mask[j]})
<1>1. /\ prompts \in Batches /\ mask = NoPaddingMask(n, world_size)
      /\ padded = PaddedRows(prompts, mask)
  BY DEF CallOK
<1>2. /\ world_size \in Nat /\ world_size > 0 /\ size \in Nat
      /\ size = world_size * GroupSize(n, world_size)
      /\ mask \in [1..size -> BOOLEAN]
      /\ Whole \in Seq(Answer) /\ Len(Whole) = size
  BY CallShape
<1>3. n \in Nat /\ n > 0 /\ \A i \in 1..n : prompts[i] = i
  BY <1>1, BatchType
<1>4. \A k \in 1..size : mask[k] => padded[k] = rank(k)
  <2>1. LET slots == world_size * GroupSize(Len(prompts), world_size)
            held  == PaddedRows(prompts, NoPaddingMask(Len(prompts), world_size))
            real  == NoPaddingMask(Len(prompts), world_size)
        IN  \A k \in 1..slots : real[k] => held[k] = Cardinality({j \in 1..k : real[j]})
    BY <1>1, <1>2, PaddedType
  <2>2. QED
    BY <1>1, <1>2, <2>1
<1>5. \A k \in 1..size : Whole[k] = [row |-> padded[k], slot |-> k] /\ Whole[k] \in Answer
  <2>1. \A k \in 1..size : Whole[k] = [row |-> padded[k], slot |-> k]
    BY DEF Whole
  <2>2. \A k \in 1..size : Whole[k] \in Answer
    BY <1>2, ElementOfSeq
  <2>3. QED
    BY <2>1, <2>2
<1> HIDE DEF n, size
<1>6. CASE n % world_size = 0
  <2>1. Unpad(Whole) = Whole
    BY <1>6 DEF Unpad, n
  <2>2. mask = [k \in 1..n |-> TRUE]
    BY <1>1, <1>6 DEF NoPaddingMask
  <2>3. size = n
    <3>1. DOMAIN mask = 1..n /\ DOMAIN mask = 1..size
      BY <1>2, <2>2
    <3>2. QED
      BY <1>2, <1>3, <3>1
  <2>4. \A i \in 1..n : mask[i] /\ rank(i) = i
    <3> SUFFICES ASSUME NEW i \in 1..n PROVE mask[i] /\ rank(i) = i
      OBVIOUS
    <3>1. i \in Nat /\ i >= 1 /\ i <= n
      BY <1>3
    <3>2. {j \in 1..i : mask[j]} = 1..i
      BY <1>3, <2>2, <3>1
    <3>3. Cardinality(1..i) = i
      BY <3>1, FS_Interval
    <3>4. QED
      BY <2>2, <3>2, <3>3
  <2> HIDE DEF rank, mask
  <2>5. \A i \in 1..n : /\ Whole[i].row = prompts[i]
                        /\ Whole[i].slot = i
    <3> SUFFICES ASSUME NEW i \in 1..n
                 PROVE  Whole[i].row = prompts[i] /\ Whole[i].slot = i
      OBVIOUS
    <3>1. i \in 1..size /\ prompts[i] = i /\ mask[i] /\ rank(i) = i
      BY <1>3, <2>3, <2>4
    <3>2. padded[i] = i
      BY <1>4, <3>1 DEF mask
    <3>3. Whole[i] = [row |-> padded[i], slot |-> i]
      BY <1>5, <3>1
    <3>4. QED
      BY <3>1, <3>2, <3>3
  <2>6. QED
    BY <1>2, <2>1, <2>3, <2>4, <2>5 DEF n, mask
<1>7. CASE n % world_size # 0
  <2> DEFINE place == SetPlaces(mask)
  <2>1. Unpad(Whole) = [k \in DOMAIN place |-> Whole[place[k]]]
    BY <1>7 DEF Unpad, SelectRows, TakeRows, n
  <2>2. Cardinality({k \in 1..size : mask[k]}) = n
    BY <1>1, <1>2, <1>3, MaskCount
  <2>3. /\ place \in [1..n -> 1..size]
        /\ \A i \in 1..n : mask[place[i]] /\ rank(place[i]) = i
    BY <1>2, <2>2, SetPlacesRank
  <2> HIDE DEF place, rank, mask
  <2>4. Unpad(Whole) = [k \in 1..n |-> Whole[place[k]]]
    BY <2>1, <2>3
  <2>5. \A i \in 1..n : Whole[place[i]] \in Answer
    BY <1>5, <2>3
  <2>6. Unpad(Whole) \in Seq(Answer) /\ Len(Unpad(Whole)) = n
    <3>1. Unpad(Whole) \in [1..n -> Answer]
      BY <2>4, <2>5
    <3>2. QED
      BY <1>3, <3>1, FunctionIsSequence
  <2>7. \A i \in 1..n : /\ Whole[place[i]].row = prompts[i]
                        /\ Whole[place[i]].slot = place[i]
    <3> SUFFICES ASSUME NEW i \in 1..n
                 PROVE  Whole[place[i]].row = prompts[i] /\ Whole[place[i]].slot = place[i]
      OBVIOUS
    <3>1. /\ place[i] \in 1..size /\ prompts[i] = i
          /\ mask[place[i]] /\ rank(place[i]) = i
      BY <1>3, <2>3
    <3>2. padded[place[i]] = i
      BY <1>4, <3>1 DEF mask
    <3>3. Whole[place[i]] = [row |-> padded[place[i]], slot |-> place[i]]
      BY <1>5, <3>1
    <3>4. QED
      BY <3>1, <3>2, <3>3
  <2>8. \A i \in 1..n : Unpad(Whole)[i] = Whole[place[i]]
    BY <2>4
  <2>9. \A i \in 1..n : Unpad(Whole)[i].row = prompts[i] /\ mask[Unpad(Whole)[i].slot]
    BY <2>3, <2>7, <2>8
  <2>10. QED
    BY <2>6, <2>9 DEF n, mask
<1>8. QED
  BY <1>6, <1>7

(* Nothing is outstanding, sent or returned before the first call.         *)
LEMMA InitIInv == Init => IInv
<1> SUFFICES ASSUME Init PROVE IInv
  OBVIOUS
<1>1. WorldOK
  BY DEF Init, WorldOK
<1>2. CallOK /\ OutputOK /\ ResponsesOK
  BY DEF Init, CallOK, OutputOK, ResponsesOK
<1>3. QED
  BY <1>1, <1>2 DEF IInv

(* Every step keeps the invariant.                                         *)
LEMMA NextIInv == IInv /\ [Next]_vars => IInv'
<1> SUFFICES ASSUME IInv, [Next]_vars PROVE IInv'
  OBVIOUS
<1>1. WorldOK /\ CallOK /\ OutputOK /\ ResponsesOK
  BY DEF IInv
<1>2. ASSUME NEW batch \in Batches, GenerateSequences(batch)
      PROVE  IInv'
  <2>1. /\ world_size' = world_size /\ infer_size' = infer_size
        /\ prompts' = batch /\ status' = "busy" /\ responses' = <<>>
        /\ no_padding_mask' = NoPaddingMask(Len(batch), world_size)
        /\ padded' = PaddedRows(batch, NoPaddingMask(Len(batch), world_size))
        /\ output' = [w \in Ranks |-> Pending]
    BY <1>2 DEF GenerateSequences
  <2>2. WorldOK'
    BY <1>1, <2>1 DEF WorldOK
  <2>3. CallOK'
    BY <2>1 DEF CallOK, PaddedRows
  <2>4. OutputOK'
    BY <2>1 DEF OutputOK, Ranks
  <2>5. ResponsesOK'
    BY <2>1 DEF ResponsesOK
  <2>6. QED
    BY <2>2, <2>3, <2>4, <2>5 DEF IInv
<1>3. ASSUME NEW w \in Ranks, RankGenerates(w)
      PROVE  IInv'
  <2>1. /\ world_size' = world_size /\ infer_size' = infer_size
        /\ prompts' = prompts /\ padded' = padded /\ no_padding_mask' = no_padding_mask
        /\ responses' = responses /\ status' = status /\ status = "busy"
        /\ output' = [output EXCEPT ![w] = Generated(w)]
    BY <1>3 DEF RankGenerates
  <2>2. WorldOK' /\ CallOK'
    BY <1>1, <2>1 DEF WorldOK, CallOK, PaddedRows
  <2>3. OutputOK'
    <3>1. Ranks' = Ranks /\ \A v \in Ranks : Generated(v)' = Generated(v)
      BY <2>1 DEF Ranks, Generated, ReplicaOf, Replicas
    <3>2. output = [v \in Ranks |-> output[v]]
      BY <1>1 DEF OutputOK
    <3>3. output' = [v \in Ranks |-> output'[v]]
      BY <2>1, <3>2
    <3>4. \A v \in Ranks : output'[v] = IF v = w THEN Generated(w) ELSE output[v]
      BY <2>1, <3>2
    <3>5. \A v \in Ranks : \/ output'[v] = Pending
                           \/ status' # "idle" /\ output'[v] = Generated(v)
      BY <1>1, <2>1, <3>4 DEF OutputOK
    <3>6. QED
      BY <3>1, <3>3, <3>5 DEF OutputOK
  <2>4. ResponsesOK'
    BY <1>1, <2>1 DEF ResponsesOK
  <2>5. QED
    BY <2>2, <2>3, <2>4 DEF IInv
<1>4. ASSUME NEW w \in Ranks, RankFails(w)
      PROVE  IInv'
  <2>1. /\ world_size' = world_size /\ infer_size' = infer_size
        /\ prompts' = prompts /\ padded' = padded /\ no_padding_mask' = no_padding_mask
        /\ responses' = responses /\ output' = output
        /\ status' = "raised" /\ status = "busy"
    BY <1>4 DEF RankFails
  <2>2. WorldOK' /\ CallOK'
    BY <1>1, <2>1 DEF WorldOK, CallOK, PaddedRows
  <2>3. OutputOK'
    BY <1>1, <2>1 DEF OutputOK, Ranks, Generated, ReplicaOf, Replicas
  <2>4. ResponsesOK'
    BY <1>1, <2>1 DEF ResponsesOK
  <2>5. QED
    BY <2>2, <2>3, <2>4 DEF IInv
<1>5. CASE Return
  <2>1. /\ world_size' = world_size /\ infer_size' = infer_size
        /\ prompts' = prompts /\ padded' = padded /\ no_padding_mask' = no_padding_mask
        /\ output' = output /\ responses' = Unpad(Collected)
        /\ status = "busy" /\ status' = "returned"
        /\ \A w \in Ranks : output[w] # Pending
    BY <1>5 DEF Return
  <2>2. WorldOK' /\ CallOK'
    BY <1>1, <2>1 DEF WorldOK, CallOK, PaddedRows
  <2>3. OutputOK'
    BY <1>1, <2>1 DEF OutputOK, Ranks, Generated, ReplicaOf, Replicas
  <2>4. Collected = Whole
    BY <2>1, CollectedIsWhole
  <2>5. Unpad(Whole)' = Unpad(Whole)
    BY <2>1 DEF Unpad, Whole
  <2>6. ResponsesOK'
    BY <2>1, <2>4, <2>5 DEF ResponsesOK
  <2>7. QED
    BY <2>2, <2>3, <2>6 DEF IInv
<1>6. CASE UNCHANGED vars
  <2>1. WorldOK' /\ CallOK'
    BY <1>1, <1>6 DEF vars, WorldOK, CallOK, PaddedRows
  <2>2. OutputOK'
    BY <1>1, <1>6 DEF vars, OutputOK, Ranks, Generated, ReplicaOf, Replicas
  <2>3. ResponsesOK'
    BY <1>1, <1>6 DEF vars, ResponsesOK, Unpad, Whole
  <2>4. QED
    BY <2>1, <2>2, <2>3 DEF IInv
<1>7. QED
  BY <1>2, <1>3, <1>4, <1>5, <1>6 DEF Next

(* The invariant holds throughout.                                         *)
THEOREM Invariance == Spec => []IInv
<1>1. QED
  BY InitIInv, NextIInv, PTL DEF Spec

(* Whatever the caller sends, a call holds rows, slots and answers of one  *)
(* batch, and returns no answer to padding                                 *)
(* (generate_with_graceful_padding).                                       *)
THEOREM CallCorrect == Spec => []CallIsConsistent
<1>1. IInv => CallIsConsistent
  <2> SUFFICES ASSUME IInv PROVE CallIsConsistent
    OBVIOUS
  <2>1. WorldOK /\ CallOK /\ OutputOK /\ ResponsesOK
    BY DEF IInv
  <2>2. CASE status = "idle"
    <3>1. /\ prompts = <<>> /\ padded = <<>> /\ no_padding_mask = <<>>
          /\ responses = <<>>
      BY <2>1, <2>2 DEF CallOK, ResponsesOK
    <3>2. DOMAIN padded = {}
      BY <3>1
    <3>3. no_padding_mask \in [DOMAIN padded -> BOOLEAN]
      BY <3>1
    <3>4. output \in [Ranks -> Seq([row : 1..MaxBatch, slot : DOMAIN padded])]
      <4>1. output = [w \in Ranks |-> output[w]] /\ \A w \in Ranks : output[w] = Pending
        BY <2>1, <2>2 DEF OutputOK
      <4>2. Pending \in Seq([row : 1..MaxBatch, slot : DOMAIN padded])
        BY DEF Pending
      <4>3. QED
        BY <4>1, <4>2
    <3>5. responses \in Seq([row : 1..MaxBatch, slot : DOMAIN padded])
      BY <3>1
    <3>6. TypeOK
      BY <2>1, <2>2, <3>1, <3>2, <3>3, <3>4, <3>5 DEF TypeOK, WorldOK
    <3>7. PaddingIsDropped
      BY <2>2 DEF PaddingIsDropped
    <3>8. QED
      BY <3>6, <3>7 DEF CallIsConsistent
  <2>3. CASE status # "idle"
    <3>1. /\ padded \in Seq(1..MaxBatch) /\ DOMAIN padded = 1..Len(padded)
          /\ no_padding_mask \in [1..Len(padded) -> BOOLEAN]
      BY <2>1, <2>3, CallShape
    <3>2. \A k \in DOMAIN padded : padded[k] \in 1..MaxBatch
      <4>1. \A k \in 1..Len(padded) : padded[k] \in 1..MaxBatch
        BY <3>1, ElementOfSeq
      <4>2. QED
        BY <3>1, <4>1
    <3>3. [row : 1..MaxBatch, slot : DOMAIN padded] = Answer
      BY <3>1 DEF Answer
    <3>4. output \in [Ranks -> Seq(Answer)]
      <4>1. \A w \in Ranks : output[w] \in Seq(Answer)
        <5> SUFFICES ASSUME NEW w \in Ranks PROVE output[w] \in Seq(Answer)
          OBVIOUS
        <5>1. output[w] = Pending \/ output[w] = Generated(w)
          BY <2>1 DEF OutputOK
        <5>2. Pending \in Seq(Answer)
          BY DEF Pending
        <5>3. Generated(w) \in Seq(Answer)
          BY <2>1, <2>3, GeneratedIsShard
        <5>4. QED
          BY <5>1, <5>2, <5>3
      <4>2. output = [w \in Ranks |-> output[w]]
        BY <2>1 DEF OutputOK
      <4>3. QED
        BY <4>1, <4>2
    <3>5. Unpad(Whole) \in Seq(Answer) /\ Len(Unpad(Whole)) = Len(prompts)
          /\ \A i \in 1..Len(prompts) : no_padding_mask[Unpad(Whole)[i].slot]
      BY <2>1, <2>3, UnpaddedRows
    <3>6. responses \in Seq(Answer)
      BY <2>1, <3>5 DEF ResponsesOK
    <3>7. TypeOK
      BY <2>1, <2>3, <3>1, <3>2, <3>3, <3>4, <3>6 DEF TypeOK, WorldOK, CallOK
    <3>8. PaddingIsDropped
      <4> SUFFICES ASSUME status = "returned", NEW k \in DOMAIN responses
                   PROVE  no_padding_mask[responses[k].slot]
        BY DEF PaddingIsDropped
      <4>1. responses = Unpad(Whole)
        BY <2>1 DEF ResponsesOK
      <4>2. DOMAIN responses = 1..Len(prompts)
        BY <3>5, <4>1
      <4>3. QED
        BY <3>5, <4>1, <4>2
    <3>9. QED
      BY <3>7, <3>8 DEF CallIsConsistent
  <2>4. QED
    BY <2>2, <2>3
<1>2. QED
  BY Invariance, <1>1, PTL

(* The padded batch splits evenly over the ranks, and no rank has two real *)
(* rows more than another, for every batch size and every number of ranks  *)
(* (graceful_padding).                                                     *)
THEOREM BalanceCorrect == Spec => []WorkIsBalanced
<1>1. IInv => WorkIsBalanced
  <2> SUFFICES ASSUME IInv, status = "busy"
               PROVE  /\ Len(padded) % world_size = 0
                      /\ \A v, w \in Ranks : RealRowsOfRank(v) <= RealRowsOfRank(w) + 1
    BY DEF WorkIsBalanced
  <2> DEFINE n == Len(prompts)
             size == GroupSize(n, world_size)
  <2>1. /\ WorldOK /\ CallOK /\ status # "idle"
        /\ prompts \in Batches /\ no_padding_mask = NoPaddingMask(n, world_size)
    BY DEF IInv, CallOK
  <2>2. n \in Nat /\ n > 0
    BY <2>1, BatchType
  <2>3. /\ world_size \in Nat /\ world_size > 0 /\ size \in Nat /\ size > 0
        /\ Len(padded) = world_size * size
    BY <2>1, CallShape
  <2> HIDE DEF n, size
  <2>4. Len(padded) % world_size = 0
    <3>1. (world_size * size + 0) % world_size = 0
      BY <2>3, DivisionUnique
    <3>2. world_size * size \in Nat
      BY <2>3
    <3>3. QED
      BY <2>3, <3>1, <3>2
  <2>5. ASSUME NEW w \in Ranks
        PROVE  RealRowsOfRank(w) \in {size - 1, size}
    <3>1. w \in 1..world_size
      BY DEF Ranks
    <3>2. RealRowsOfRank(w) =
            Cardinality({k \in ShardOf(world_size * size, world_size, w) :
                           NoPaddingMask(n, world_size)[k]})
      BY <2>1, <2>3 DEF RealRowsOfRank, SlotsOfRank
    <3>3. QED
      BY <2>2, <2>3, <3>1, <3>2, RealSlotsOfGroup DEF size
  <2>6. ASSUME NEW v \in Ranks, NEW w \in Ranks
        PROVE  RealRowsOfRank(v) <= RealRowsOfRank(w) + 1
    <3>1. RealRowsOfRank(v) \in {size - 1, size} /\ RealRowsOfRank(w) \in {size - 1, size}
      BY <2>5
    <3>2. QED
      BY <2>3, <3>1
  <2>7. QED
    BY <2>4, <2>6
<1>2. QED
  BY Invariance, <1>1, PTL

(* The rows of a call that has returned are the prompts.                   *)
LEMMA ReturnedRows ==
  ASSUME WorldOK, CallOK, status # "idle"
  PROVE  [k \in DOMAIN Unpad(Whole) |-> Unpad(Whole)[k].row] = prompts
<1>1. /\ Unpad(Whole) \in Seq(Answer) /\ Len(Unpad(Whole)) = Len(prompts)
      /\ \A i \in 1..Len(prompts) : Unpad(Whole)[i].row = prompts[i]
  BY UnpaddedRows
<1>2. DOMAIN Unpad(Whole) = 1..Len(prompts)
  BY <1>1
<1>3. prompts = [k \in 1..Len(prompts) |-> prompts[k]]
  <2>1. prompts \in Batches
    BY DEF CallOK
  <2>2. prompts \in Seq(1..MaxBatch)
    BY <2>1, BatchType
  <2>3. QED
    BY <2>2
<1>4. QED
  BY <1>1, <1>2, <1>3

(* The call is the row-wise generation its callers rely on: response k is  *)
(* generated from prompt k and there is one per prompt, whatever the       *)
(* number of ranks and replicas and the order in which they finish         *)
(* (generate_with_graceful_padding, dispatch_nd_compute,                   *)
(* collect_nd_compute).                                                    *)
THEOREM DispatchImplementsRowwise == Spec => ImplementsRowwise
<1>1. Init => Rowwise!Init
  BY DEF Init, Rowwise!Init
<1>2. IInv /\ IInv' /\ [Next]_vars => [Rowwise!Next]_Rowwise!vars
  <2> SUFFICES ASSUME IInv, IInv', [Next]_vars
               PROVE  [Rowwise!Next]_Rowwise!vars
    OBVIOUS
  <2> DEFINE rows == [k \in DOMAIN responses |-> responses[k].row]
  <2>1. ASSUME NEW batch \in Batches, GenerateSequences(batch)
        PROVE  Rowwise!Call(batch)
    <3>1. /\ status # "busy" /\ status' = "busy" /\ prompts' = batch /\ responses' = <<>>
      BY <2>1 DEF GenerateSequences
    <3>2. rows' = <<>>
      BY <3>1
    <3>3. QED
      BY <3>1, <3>2 DEF Rowwise!Call
  <2>2. ASSUME NEW w \in Ranks, RankGenerates(w)
        PROVE  UNCHANGED <<prompts, rows, status>>
    BY <2>2 DEF RankGenerates
  <2>3. ASSUME NEW w \in Ranks, RankFails(w)
        PROVE  Rowwise!Raise
    BY <2>3 DEF RankFails, Rowwise!Raise
  <2>4. ASSUME Return
        PROVE  Rowwise!Return
    <3>1. /\ status = "busy" /\ status' = "returned" /\ prompts' = prompts
          /\ responses' = Unpad(Collected) /\ \A w \in Ranks : output[w] # Pending
      BY <2>4 DEF Return
    <3>2. Collected = Whole
      BY <3>1, CollectedIsWhole
    <3>3. [k \in DOMAIN Unpad(Whole) |-> Unpad(Whole)[k].row] = prompts
      BY <3>1, ReturnedRows DEF IInv
    <3>4. responses' = Unpad(Whole)
      BY <3>1, <3>2
    <3>5. [k \in DOMAIN responses' |-> responses'[k].row] = prompts
      BY <3>3, <3>4
    <3>6. QED
      BY <3>1, <3>5 DEF Rowwise!Return
  <2>5. CASE UNCHANGED vars
    BY <2>5 DEF vars, Rowwise!vars
  <2>6. QED
    BY <2>1, <2>2, <2>3, <2>4, <2>5 DEF Next, Rowwise!Next, Rowwise!vars
<1>3. QED
  BY <1>1, <1>2, Invariance, PTL DEF Spec, ImplementsRowwise, Rowwise!Spec
=============================================================================
