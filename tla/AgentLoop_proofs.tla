--------------------------- MODULE AgentLoop_proofs ---------------------------
(***************************************************************************)
(* Proofs about AgentLoop, for any numbers of workers, servers and threads *)
(* and any batches and world sizes: rows and scores are their prompt's     *)
(* own, the load is balanced, no request meets a sleeping server, and the  *)
(* turns of a conversation stay together. From "One conversation" on, the  *)
(* proofs are about ToolAgentLoop, for any lengths, calls and turns.       *)
(***************************************************************************)
EXTENDS AgentLoop, ToolAgentLoop, SequenceTheorems, FiniteSetTheorems, WellFoundedInduction, TLAPS

(* A set of numbers has a least one. The library's induction theorems take *)
(* a predicate; this takes a set.                                          *)
LEMMA LeastNatural ==
  ASSUME NEW T \in SUBSET Nat, T # {}
  PROVE  \E m \in T : \A k \in T : m <= k
<1> DEFINE R == {ss \in Nat \X Nat : ss[1] < ss[2]}
<1>1. IsWellFoundedOn(R, Nat)
  BY NatLessThanWellFounded DEF OpToRel
<1>2. PICK m \in T : \A k \in T : ~(<<k, m>> \in R)
  <2> HIDE DEF R
  <2>1. QED
    BY <1>1, WFMin
<1>3. \A k \in T : ~(k < m)
  BY <1>2
<1>4. QED
  BY <1>3

(* A finite set of numbers has a greatest one: the least bound of the set. *)
LEMMA GreatestOfFinite ==
  ASSUME NEW n \in Nat
  PROVE  \A S \in SUBSET Nat : IsFiniteSet(S) /\ S # {} /\ Cardinality(S) = n
           => \E m \in S : \A k \in S : k <= m
<1> DEFINE HasGreatest(S) == \E m \in S : \A k \in S : k <= m
           Bad == {c \in Nat : \E S \in SUBSET Nat :
                     IsFiniteSet(S) /\ S # {} /\ Cardinality(S) = c /\ ~HasGreatest(S)}
<1>1. SUFFICES Bad = {}
  OBVIOUS
<1>2. SUFFICES ASSUME Bad # {} PROVE FALSE
  OBVIOUS
<1>3. PICK c \in Bad : \A d \in Bad : c <= d
  BY <1>2, LeastNatural
<1>4. PICK S \in SUBSET Nat : IsFiniteSet(S) /\ S # {} /\ Cardinality(S) = c /\ ~HasGreatest(S)
  BY <1>3
<1>5. PICK x \in S : TRUE
  BY <1>4
<1>6. IsFiniteSet(S \ {x}) /\ Cardinality(S \ {x}) = c - 1 /\ c \in Nat
  BY <1>3, <1>4, <1>5, FS_RemoveElement
<1>7. S \ {x} # {}
  BY <1>4, <1>5
<1>8. c - 1 \in Nat
  BY <1>6, FS_CardinalityType
<1>9. HasGreatest(S \ {x})
  <2>1. c - 1 \notin Bad
    BY <1>3, <1>8
  <2>2. QED
    BY <1>6, <1>7, <1>8, <2>1
<1>10. PICK m \in S \ {x} : \A k \in S \ {x} : k <= m
  BY <1>9
<1>11. HasGreatest(S)
  <2>1. CASE x <= m
    BY <1>10, <2>1
  <2>2. CASE ~(x <= m)
    <3>1. \A k \in S : k <= x
      BY <1>10, <2>2
    <3>2. QED
      BY <3>1
  <2>3. QED
    BY <2>1, <2>2
<1>12. QED
  BY <1>4, <1>11

LEMMA Bounds ==
  /\ {NumWorkers, NumServers, MaxCacheSize} \subseteq Nat \ {0}
  /\ MaxTurns \in Nat /\ MaxCalls \in Nat /\ MaxFaults \in Nat
  /\ NumWorkers \in Nat /\ NumServers \in Nat /\ MaxCacheSize \in Nat
BY AgentLoopAssumption

LEMMA BatchesFit ==
  /\ Max(Sizes) \in Nat \ {0} /\ \A n \in Sizes : n \in Nat \ {0} /\ n <= Max(Sizes)
  /\ \A n \in Sizes : 1..n \subseteq Samples
<1>1. Cardinality(Sizes) \in Nat
  BY AgentLoopAssumption, FS_CardinalityType
<1>2. \E m \in Sizes : \A k \in Sizes : k <= m
  BY <1>1, AgentLoopAssumption, GreatestOfFinite
<1>3. Max(Sizes) \in Sizes /\ \A n \in Sizes : Max(Sizes) >= n
  <2>1. \A k \in Sizes : k \in Nat
    BY AgentLoopAssumption
  <2>2. \E m \in Sizes : \A k \in Sizes : m >= k
    BY <1>2, <2>1
  <2>3. QED
    BY <2>2 DEF Max
<1>4. \A n \in Sizes : n \in Nat \ {0}
  BY AgentLoopAssumption
<1>5. \A n \in Sizes : n <= Max(Sizes)
  BY <1>3, <1>4
<1>6. QED
  BY <1>3, <1>4, <1>5 DEF Samples

(* The coroutines of the call under way: what each waits for, and what it  *)
(* leaves behind.                                                          *)
SampleOK(i) ==
  /\ task[i] = "answered" /\ world > 0 => score[i] = i
  /\ task[i] = "done" => score[i] = i

SamplesOK == \A i \in Batch : SampleOK(i)

RequestsOK ==
  /\ \A i \in Samples : server[i] # 0 => i \in Batch /\ task[i] = "server"
  /\ manager = "running" => calls > 0 /\ ~asleep /\ size \in Sizes /\ size % NumWorkers = 0
  /\ manager = "idle" => \A i \in Samples : server[i] = 0
  /\ NoRequestToSleepers

(* The executor: an item is a sample whose thread waits for it, and it is  *)
(* in one place only.                                                      *)
Submitted(i) == i \in Batch /\ task[i] = "executor"

ExecutorOK ==
  /\ manager # "raised" =>
       /\ \A k \in 1..Len(queue) : Submitted(queue[k])
       /\ \A k \in 1..Len(items) : Submitted(items[k])
  /\ manager = "idle" => queue = <<>> /\ items = <<>>
  /\ \A k, l \in 1..Len(queue) : k # l => queue[k] # queue[l]
  /\ \A k \in 1..Len(queue), l \in 1..Len(items) : queue[k] # items[l]

Entries == [request : (1..MaxCalls) \X Samples, server : Servers]

CacheTyped == cache \in [Workers -> Seq(Entries)]

IInv == TypeOK /\ CacheTyped /\ SamplesOK /\ RequestsOK /\ ExecutorOK /\ LoadIsBalanced /\ RowsAreOwn

LEMMA DropOne ==
  ASSUME NEW S, NEW c \in Seq(S), NEW d \in 1..Len(c)
  PROVE  /\ RemoveAt(c, d) \in Seq(S) /\ Len(RemoveAt(c, d)) = Len(c) - 1
         /\ \A j \in 1..(Len(c) - 1) :
              RemoveAt(c, d)[j] = IF j < d THEN c[j] ELSE c[j + 1]
<1> DEFINE l == SubSeq(c, 1, d - 1)
           r == SubSeq(c, d + 1, Len(c))
<1>1. Len(c) \in Nat /\ d \in Nat /\ 1 \in Int /\ d - 1 \in Int /\ d + 1 \in Int
  BY LenProperties
<1>2. \A j \in 1..Len(c) : c[j] \in S
  BY ElementOfSeq
<1>3. /\ l \in Seq(S) /\ Len(l) = d - 1
      /\ \A j \in 1..(d - 1) : l[j] = c[j]
  BY <1>1, <1>2, SubSeqProperties
<1>4. /\ r \in Seq(S) /\ Len(r) = Len(c) - d
      /\ \A j \in 1..(Len(c) - d) : r[j] = c[d + j]
  <2>1. \A k \in (d + 1)..Len(c) : c[k] \in S
    BY <1>1, <1>2
  <2>2. CASE d + 1 <= Len(c)
    BY <1>1, <2>1, <2>2, SubSeqProperties
  <2>3. CASE d = Len(c)
    BY <1>1, <2>1, <2>3, SubSeqProperties
  <2>4. QED
    BY <1>1, <2>2, <2>3
<1> HIDE DEF l, r
<1>5. /\ l \o r \in Seq(S) /\ Len(l \o r) = Len(c) - 1
      /\ \A j \in 1..(Len(c) - 1) : (l \o r)[j] = IF j <= d - 1 THEN l[j] ELSE r[j - (d - 1)]
  <2>1. l \in Seq(S) /\ r \in Seq(S)
    BY <1>3, <1>4
  <2>2. l \o r \in Seq(S) /\ Len(l \o r) = Len(l) + Len(r)
    BY <2>1, ConcatProperties
  <2>3. \A j \in 1..(Len(l) + Len(r)) : (l \o r)[j] = IF j <= Len(l) THEN l[j] ELSE r[j - Len(l)]
    BY <2>1, ConcatProperties
  <2>4. Len(l) = d - 1 /\ Len(l) + Len(r) = Len(c) - 1
    BY <1>1, <1>3, <1>4
  <2>5. QED
    BY <2>2, <2>3, <2>4
<1>6. \A j \in 1..(Len(c) - 1) : (l \o r)[j] = IF j < d THEN c[j] ELSE c[j + 1]
  <2> TAKE j \in 1..(Len(c) - 1)
  <2>1. CASE j < d
    BY <1>1, <1>3, <1>5, <2>1
  <2>2. CASE ~(j < d)
    <3>1. j - (d - 1) \in 1..(Len(c) - d) /\ d + (j - (d - 1)) = j + 1
      BY <1>1, <2>2
    <3>2. QED
      BY <1>1, <1>4, <1>5, <2>2, <3>1
  <2>3. QED
    BY <2>1, <2>2
<1>7. RemoveAt(c, d) = l \o r
  BY DEF RemoveAt, l, r
<1>8. QED
  BY <1>5, <1>6, <1>7

(* What an LRUCache is after a request: one entry at most was dropped, the *)
(* request's own or, when the cache is full, the earliest used.            *)
LEMMA UsedDropsOne ==
  ASSUME CacheTyped, NEW w \in Workers, Len(cache[w]) <= MaxCacheSize,
         NEW r \in (1..MaxCalls) \X Samples, NEW s \in Servers
  PROVE  \E d \in 1..(Len(cache[w]) + 1) :
           LET c == cache[w]
               u == Used(w, r, s)
           IN  /\ u \in Seq(Entries) /\ Len(u) <= MaxCacheSize
               /\ Len(u) = IF d <= Len(c) THEN Len(c) ELSE Len(c) + 1
               /\ u[Len(u)] = [request |-> r, server |-> s]
               /\ \A j \in 1..(Len(u) - 1) : u[j] = IF j < d THEN c[j] ELSE c[j + 1]
               /\ Cached(w, r) => d <= Len(c) /\ c[d].request = r
               /\ ~Cached(w, r) /\ d <= Len(c) => d = 1 /\ Len(c) = MaxCacheSize
<1> DEFINE c == cache[w]
           e == [request |-> r, server |-> s]
<1>1. /\ c \in Seq(Entries) /\ e \in Entries /\ Len(c) \in Nat
      /\ MaxCacheSize \in Nat \ {0} /\ DOMAIN c = 1..Len(c)
  BY LenProperties, AgentLoopAssumption DEF CacheTyped, Entries
<1>2. CASE Cached(w, r)
  <2> DEFINE d == Entry(w, r)
             o == RemoveAt(c, d)
  <2>1. d \in 1..Len(c) /\ c[d].request = r
    <3>1. \E k \in DOMAIN c : c[k].request = r
      BY <1>2 DEF Cached
    <3>2. d \in DOMAIN c /\ c[d].request = r
      BY <3>1 DEF Entry
    <3>3. QED
      BY <1>1, <3>2
  <2>2. Used(w, r, s) = Append(IF Len(o) >= MaxCacheSize THEN Tail(o) ELSE o, e)
    BY <1>2 DEF Used
  <2> HIDE DEF d, c, e
  <2>3. /\ o \in Seq(Entries) /\ Len(o) = Len(c) - 1
        /\ \A j \in 1..(Len(c) - 1) : o[j] = IF j < d THEN c[j] ELSE c[j + 1]
    BY <1>1, <2>1, DropOne
  <2>4. Len(c) <= MaxCacheSize
    BY DEF c
  <2>5. Used(w, r, s) = Append(o, e)
    BY <1>1, <2>1, <2>2, <2>3, <2>4
  <2> HIDE DEF o
  <2>6. /\ Append(o, e) \in Seq(Entries) /\ Len(Append(o, e)) = Len(c)
        /\ Append(o, e)[Len(c)] = e
        /\ \A j \in 1..(Len(c) - 1) : Append(o, e)[j] = o[j]
    <3>1. /\ Append(o, e) \in Seq(Entries) /\ Len(Append(o, e)) = Len(o) + 1
          /\ Append(o, e)[Len(o) + 1] = e
          /\ \A j \in 1..Len(o) : Append(o, e)[j] = o[j]
      <4>1. o \in Seq(Entries) /\ e \in Entries
        BY <1>1, <2>3
      <4>2. QED
        BY <4>1, AppendProperties
    <3>2. Len(o) + 1 = Len(c) /\ 1..Len(o) = 1..(Len(c) - 1)
      <4> HIDE DEF c
      <4>1. QED
        BY <1>1, <2>3
    <3> HIDE DEF c, e
    <3>3. QED
      BY <3>1, <3>2
  <2>7. /\ Used(w, r, s) \in Seq(Entries) /\ Len(Used(w, r, s)) = Len(c)
        /\ Used(w, r, s)[Len(c)] = e
        /\ \A j \in 1..(Len(c) - 1) : Used(w, r, s)[j] = IF j < d THEN c[j] ELSE c[j + 1]
    BY <2>3, <2>5, <2>6
  <2>8. d \in 1..(Len(c) + 1) /\ d <= Len(c)
    BY <1>1, <2>1
  <2>9. QED
    BY <1>1, <1>2, <2>1, <2>4, <2>7, <2>8 DEF c, e
<1>3. CASE ~Cached(w, r) /\ Len(c) < MaxCacheSize
  <2>1. Used(w, r, s) = Append(c, e)
    BY <1>1, <1>3 DEF Used
  <2> HIDE DEF c, e
  <2>2. /\ Append(c, e) \in Seq(Entries) /\ Len(Append(c, e)) = Len(c) + 1
        /\ Append(c, e)[Len(c) + 1] = e
        /\ \A j \in 1..Len(c) : Append(c, e)[j] = c[j]
    BY <1>1, AppendProperties, LenProperties
  <2> DEFINE d == Len(c) + 1
  <2>3. d \in 1..(Len(c) + 1) /\ ~(d <= Len(c)) /\ \A j \in 1..Len(c) : j < d
    BY <1>1
  <2>4. QED
    BY SMTT(30), <1>1, <1>3, <2>1, <2>2, <2>3 DEF c, e
<1>4. CASE ~Cached(w, r) /\ Len(c) = MaxCacheSize
  <2>1. Used(w, r, s) = Append(Tail(c), e)
    BY <1>1, <1>4 DEF Used
  <2> HIDE DEF c, e
  <2>2. /\ Tail(c) \in Seq(Entries) /\ Len(Tail(c)) = Len(c) - 1
        /\ \A j \in 1..(Len(c) - 1) : Tail(c)[j] = c[j + 1]
    <3>1. c # <<>>
      BY <1>1, <1>4, EmptySeq
    <3>2. QED
      BY <1>1, <3>1, HeadTailProperties
  <2>3. /\ Append(Tail(c), e) \in Seq(Entries) /\ Len(Append(Tail(c), e)) = Len(c)
        /\ Append(Tail(c), e)[Len(c)] = e
        /\ \A j \in 1..(Len(c) - 1) : Append(Tail(c), e)[j] = c[j + 1]
    BY <1>1, <2>2, AppendProperties, LenProperties
  <2>4. 1 \in 1..(Len(c) + 1) /\ 1 <= Len(c) /\ \A j \in 1..(Len(c) - 1) : ~(j < 1)
    BY <1>1, <1>4
  <2>5. QED
    BY <1>1, <1>4, <2>1, <2>3, <2>4 DEF c, e
<1>5. QED
  BY <1>1, <1>2, <1>3, <1>4

(* The worker of a sample, and the samples of a worker: size \div          *)
(* NumWorkers in a row.                                                    *)
LEMMA WorkerInRange ==
  ASSUME TypeOK, RequestsOK, manager = "running", NEW i \in Batch
  PROVE  /\ size \div NumWorkers \in Nat \ {0} /\ i \in Samples /\ WorkerOf(i) \in Workers
         /\ i - 1 \in Nat
         /\ (WorkerOf(i) - 1) * (size \div NumWorkers) <= i - 1
         /\ i - 1 < (WorkerOf(i) - 1) * (size \div NumWorkers) + (size \div NumWorkers)
<1>1. size \in Sizes /\ size \in Nat \ {0} /\ size % NumWorkers = 0 /\ NumWorkers \in Nat \ {0}
  BY BatchesFit, AgentLoopAssumption DEF RequestsOK
<1>2. PICK q \in Nat : q = size \div NumWorkers
  BY <1>1
<1>3. size = q * NumWorkers /\ q > 0
  BY <1>1, <1>2
<1>4. i \in Samples /\ i \in 1..size /\ i - 1 \in Nat
  BY <1>1, BatchesFit DEF Batch
<1>5. PICK v \in Nat : v = (i - 1) \div q
  BY <1>3, <1>4
<1>6. v * q <= i - 1 /\ i - 1 < v * q + q
  BY <1>3, <1>4, <1>5
<1>7. v < NumWorkers
  <2>1. v * q < NumWorkers * q
    BY <1>1, <1>3, <1>4, <1>6
  <2>2. QED
    BY <1>1, <1>3, <2>1
<1>8. WorkerOf(i) = v + 1
  BY <1>2, <1>5 DEF WorkerOf
<1>9. QED
  BY <1>1, <1>2, <1>3, <1>4, <1>6, <1>7, <1>8 DEF Workers

(* heapreplace finds a server that was given the fewest conversations.     *)
LEMMA LeastExists ==
  ASSUME TypeOK, NEW w \in Workers
  PROVE  Least(w) \in Servers /\ \A t \in Servers : weighted[w][Least(w)] <= weighted[w][t]
<1> DEFINE f == weighted[w]
           Counts == {f[s] : s \in Servers}
<1>1. f \in [Servers -> Nat] /\ 1 \in Servers /\ \A s \in Servers : s \in Nat
  BY AgentLoopAssumption DEF TypeOK, Servers
<1> HIDE DEF f
<1>2. PICK m \in Counts : \A k \in Counts : m <= k
  <2>1. Counts \in SUBSET Nat /\ Counts # {}
    BY <1>1
  <2> HIDE DEF Counts
  <2>2. QED
    BY <2>1, LeastNatural
<1> DEFINE Lightest == {s \in Servers : f[s] = m}
<1>3. Lightest \in SUBSET Nat /\ Lightest # {}
  BY <1>1, <1>2
<1>4. PICK s \in Lightest : \A t \in Lightest : s <= t
  BY <1>3, LeastNatural
<1>5. m \in Nat /\ s \in Nat /\ f[s] = m /\ s \in Servers
  BY <1>1, <1>4
<1>6. \A t \in Servers : f[t] \in Nat /\ f[s] <= f[t] /\ (f[t] = m => s <= t)
  BY <1>1, <1>2, <1>4
<1>7. \A t \in Servers : f[s] < f[t] \/ (f[s] = f[t] /\ s <= t)
  BY <1>5, <1>6
<1>8. /\ Least(w) \in Servers
      /\ \A t \in Servers : f[Least(w)] < f[t] \/ (f[Least(w)] = f[t] /\ Least(w) <= t)
  BY <1>5, <1>7 DEF Least, f
<1>9. QED
  BY <1>1, <1>8 DEF f

LEMMA ChosenIsServer ==
  ASSUME TypeOK, CacheTyped, NEW w \in Workers, NEW r
  PROVE  Chosen(w, r) \in Servers
<1>1. CASE Cached(w, r)
  <2>1. cache[w] \in Seq(Entries) /\ DOMAIN cache[w] = 1..Len(cache[w])
    BY LenProperties DEF CacheTyped
  <2>2. \E k \in DOMAIN cache[w] : cache[w][k].request = r
    BY <1>1 DEF Cached
  <2>3. Entry(w, r) \in DOMAIN cache[w]
    BY <2>2 DEF Entry
  <2>4. cache[w][Entry(w, r)] \in Entries
    BY <2>1, <2>3, ElementOfSeq
  <2>5. QED
    BY <1>1, <2>4 DEF Chosen, Entries
<1>2. CASE ~Cached(w, r)
  BY <1>2, LeastExists DEF Chosen
<1>3. QED
  BY <1>1, <1>2

LEMMA InitIInv == Init => IInv
<1> SUFFICES ASSUME Init PROVE IInv
  OBVIOUS
<1>1. Batch = {} /\ Len(<<>>) = 0 /\ 1..0 = {} /\ DOMAIN <<>> = {}
  <2>1. Len(<<>>) = 0 /\ DOMAIN <<>> = 1..0
    BY EmptySeq, LenProperties
  <2>2. QED
    BY <2>1 DEF Init, Batch
<1>2. TypeOK
  BY <1>1, EmptySeq, AgentLoopAssumption DEF Init, TypeOK
<1>3. CacheTyped
  BY EmptySeq DEF Init, CacheTyped
<1>4. LoadIsBalanced
  BY DEF Init, LoadIsBalanced
<1>5. QED
  BY <1>1, <1>2, <1>3, <1>4 DEF Init, IInv, SamplesOK, RequestsOK, ExecutorOK, RowsAreOwn,
     NoRequestToSleepers

LEMMA GenerateSequencesPreserves ==
  ASSUME IInv, NEW n \in Sizes, GenerateSequences(n)
  PROVE  IInv'
<1> USE DEF GenerateSequences, batch, lb, rm
<1>1. TypeOK /\ SamplesOK /\ RequestsOK /\ ExecutorOK
  BY DEF IInv
<1>2. CASE manager' = "raised" /\ UNCHANGED batch
  <2>1. calls' \in 0..MaxCalls
    BY <1>1, Bounds DEF TypeOK
  <2>2. TypeOK'
    BY <1>1, <1>2, <2>1 DEF TypeOK
  <2>3. SamplesOK' /\ RequestsOK' /\ ExecutorOK'
    BY <1>1, <1>2 DEF SamplesOK, SampleOK, RequestsOK, ExecutorOK, NoRequestToSleepers,
       Submitted, Batch
  <2>4. QED
    BY <2>2, <2>3 DEF IInv, CacheTyped, LoadIsBalanced, RowsAreOwn
<1>3. CASE /\ n % NumWorkers = 0 /\ manager' = "running" /\ size' = n /\ asleep' = FALSE
           /\ task' = [i \in Samples |-> IF i <= n THEN "turn" ELSE "none"]
           /\ server' = [i \in Samples |-> 0] /\ visited' = [i \in Samples |-> {}]
           /\ score' = [i \in Samples |-> 0]
  <2>1. TypeOK'
    <3>1. calls' \in 0..MaxCalls
      BY <1>1, Bounds DEF TypeOK
    <3>2. QED
      BY <1>1, <1>3, <3>1 DEF TypeOK
  <2>2. queue = <<>> /\ items = <<>> /\ Len(<<>>) = 0 /\ 1..0 = {}
    BY <1>1, EmptySeq DEF ExecutorOK
  <2>3. Batch' = 1..n /\ 1..n \subseteq Samples
    BY <1>3, BatchesFit DEF Batch
  <2>4. \A i \in Batch' : task'[i] = "turn"
    BY <1>3, <2>3
  <2>5. SamplesOK' /\ RequestsOK'
    BY <1>1, <1>3, <2>4 DEF SamplesOK, SampleOK, RequestsOK, NoRequestToSleepers, TypeOK
  <2>6. ExecutorOK'
    BY <2>2 DEF ExecutorOK
  <2>7. QED
    BY <2>1, <2>5, <2>6 DEF IInv, CacheTyped, LoadIsBalanced, RowsAreOwn
<1>4. QED
  BY <1>2, <1>3

LEMMA ReturnPreserves ==
  ASSUME IInv, Return
  PROVE  IInv'
<1> USE DEF Return, batch, lb, rm
<1>1. TypeOK /\ SamplesOK /\ RequestsOK /\ ExecutorOK
  BY DEF IInv
<1>2. \A i \in Batch : task[i] = "done"
  BY DEF AllWorkers, Finished
<1>3. Batch' = Batch
  BY DEF Batch
<1>4. TypeOK'
  BY <1>1 DEF TypeOK
<1>5. SamplesOK' /\ RequestsOK'
  BY <1>1, <1>2, <1>3 DEF SamplesOK, SampleOK, RequestsOK, NoRequestToSleepers
<1>6. queue = <<>> /\ items = <<>>
  <2>1. queue \in Seq(Samples) /\ items \in Seq(Samples)
    BY <1>1 DEF TypeOK
  <2>2. 1 \notin 1..Len(queue) /\ 1 \notin 1..Len(items)
    BY <1>1, <1>2 DEF ExecutorOK, Submitted
  <2>3. QED
    BY <2>1, <2>2, EmptySeq
<1>7. ExecutorOK'
  BY <1>6, EmptySeq DEF ExecutorOK
<1>8. RowsAreOwn'
  BY <1>1, <1>2 DEF RowsAreOwn, Row, SamplesOK, SampleOK
<1>9. QED
  BY <1>4, <1>5, <1>7, <1>8 DEF IInv, CacheTyped, LoadIsBalanced

LEMMA RaisePreserves ==
  ASSUME IInv, Raise
  PROVE  IInv'
<1> USE DEF Raise, batch, lb, rm
<1>1. Batch' = Batch
  BY DEF Batch
<1>2. TypeOK'
  BY DEF TypeOK, IInv
<1>3. QED
  BY <1>1, <1>2 DEF IInv, CacheTyped, LoadIsBalanced, RowsAreOwn, SamplesOK, SampleOK,
     RequestsOK, NoRequestToSleepers, ExecutorOK, Submitted

(* A coroutine the executor has nothing of goes on.                        *)
LEMMA ExecutorUntouched ==
  ASSUME IInv, NEW i \in Samples, task[i] # "executor", NEW s, task' = [task EXCEPT ![i] = s],
         UNCHANGED <<manager, size, queue, items>>
  PROVE  ExecutorOK'
<1>1. \A j : Submitted(j) /\ j \in Samples => Submitted(j)'
  BY DEF Submitted, Batch, IInv, TypeOK
<1>2. queue \in Seq(Samples) /\ items \in Seq(Samples)
  BY DEF IInv, TypeOK
<1>3. /\ \A k \in 1..Len(queue) : queue[k] \in Samples
      /\ \A k \in 1..Len(items) : items[k] \in Samples
  BY <1>2, ElementOfSeq
<1>4. ExecutorOK
  BY DEF IInv
<1>5. /\ manager' # "raised" => \A k \in 1..Len(queue') : Submitted(queue[k])'
      /\ manager' # "raised" => \A k \in 1..Len(items') : Submitted(items[k])'
  BY <1>1, <1>3, <1>4 DEF ExecutorOK, Submitted, Batch
<1>6. QED
  BY <1>4, <1>5 DEF ExecutorOK

LEMMA GeneratePreserves ==
  ASSUME IInv, NEW i \in Samples, Generate(i)
  PROVE  IInv'
<1> DEFINE w == WorkerOf(i)
           r == Request(i)
           s == Chosen(w, r)
<1> USE DEF Generate, Waits, rm
<1>1. TypeOK /\ SamplesOK /\ RequestsOK /\ ExecutorOK /\ LoadIsBalanced /\ CacheTyped
  BY DEF IInv
<1>2. w \in Workers
  BY <1>1, WorkerInRange
<1>3. s \in Servers
  BY <1>1, <1>2, ChosenIsServer
<1>4. r \in (1..MaxCalls) \X Samples
  BY <1>1, Bounds DEF TypeOK, RequestsOK, Request
<1>5. Len(cache[w]) <= MaxCacheSize
  BY <1>1, <1>2 DEF TypeOK
<1> HIDE DEF w, r, s
<1>6. Used(w, r, s) \in Seq(Entries) /\ Len(Used(w, r, s)) <= MaxCacheSize
  BY <1>1, <1>2, <1>3, <1>4, <1>5, UsedDropsOne
<1>7. cache' = [cache EXCEPT ![w] = Used(w, r, s)]
  BY DEF w, r, s
<1>8. CacheTyped' /\ \A v \in Workers : Len(cache'[v]) <= MaxCacheSize
  BY <1>1, <1>2, <1>6, <1>7 DEF CacheTyped, TypeOK
<1>9. /\ weighted' \in [Workers -> [Servers -> Nat]]
      /\ LoadIsBalanced'
  <2>1. CASE Cached(w, r)
    <3>1. weighted' = weighted
      BY <2>1 DEF w, r
    <3>2. QED
      BY <1>1, <3>1 DEF LoadIsBalanced, TypeOK
  <2>2. CASE ~Cached(w, r)
    <3>1. weighted' = [weighted EXCEPT ![w][s] = @ + 1]
      BY <2>2 DEF w, r, s
    <3>2. \A t \in Servers : weighted[w][s] <= weighted[w][t]
      BY <1>1, <1>2, <2>2, LeastExists DEF Chosen, s
    <3>3. weighted \in [Workers -> [Servers -> Nat]]
      BY <1>1 DEF TypeOK
    <3>4. /\ weighted' \in [Workers -> [Servers -> Nat]]
          /\ weighted'[w][s] = weighted[w][s] + 1
          /\ \A v \in Workers, t \in Servers :
               (v # w \/ t # s) => weighted'[v][t] = weighted[v][t]
      BY <1>2, <1>3, <3>1, <3>3
    <3>5. \A v \in Workers : \A t, u \in Servers : weighted'[v][t] <= weighted'[v][u] + 1
      <4> TAKE v \in Workers
      <4> TAKE t, u \in Servers
      <4>1. /\ weighted[v][t] \in Nat /\ weighted[v][u] \in Nat
            /\ weighted[v][t] <= weighted[v][u] + 1
        BY <1>1, <3>3 DEF LoadIsBalanced
      <4>2. CASE v = w /\ t = s
        <5>1. weighted'[v][t] = weighted[v][t] + 1 /\ weighted[v][t] <= weighted[v][u]
          BY <3>2, <3>4, <4>2
        <5>2. weighted'[v][u] = weighted[v][u] \/ weighted'[v][u] = weighted[v][u] + 1
          BY <3>4, <4>2
        <5>3. QED
          BY <4>1, <5>1, <5>2
      <4>3. CASE ~(v = w /\ t = s)
        <5>1. weighted'[v][t] = weighted[v][t]
          BY <3>4, <4>3
        <5>2. weighted'[v][u] = weighted[v][u] \/ weighted'[v][u] = weighted[v][u] + 1
          BY <3>4
        <5>3. QED
          BY <4>1, <5>1, <5>2
      <4>4. QED
        BY <4>2, <4>3
    <3>6. QED
      BY <3>4, <3>5 DEF LoadIsBalanced
  <2>3. QED
    BY <2>1, <2>2
<1>10. server' = [server EXCEPT ![i] = s] /\ visited' = [visited EXCEPT ![i] = @ \cup {s}]
  BY DEF s, w, r
<1>11. TypeOK'
  BY <1>1, <1>3, <1>8, <1>9, <1>10 DEF TypeOK
<1>12. SamplesOK' /\ RequestsOK'
  BY <1>1, <1>3, <1>10 DEF SamplesOK, SampleOK, RequestsOK, NoRequestToSleepers, TypeOK, Batch
<1>13. ExecutorOK'
  BY ExecutorUntouched
<1>14. QED
  BY <1>8, <1>9, <1>11, <1>12, <1>13 DEF IInv, RowsAreOwn

(* A coroutine that asks no server and submits nothing.                    *)
LEMMA CoroutinePreserves ==
  ASSUME IInv, NEW i \in Samples, manager = "running", i \in Batch,
         task[i] \in {"server", "thread", "answered"},
         NEW next \in {"turn", "thread", "answered", "done", "raised"},
         task' = [task EXCEPT ![i] = next], turns' \in 0..MaxTurns, faults' \in 0..MaxFaults,
         \/ task[i] = "server" /\ server' = [server EXCEPT ![i] = 0]
         \/ task[i] # "server" /\ server' = server,
         \/ score' = score
         \/ task[i] = "answered" /\ score' = [score EXCEPT ![i] = i],
         next = "answered" => world = 0,
         next = "done" => score'[i] = i,
         UNCHANGED <<world, threads, manager, calls, asleep, size, visited, lb, rm, output>>
  PROVE  IInv'
<1> USE DEF lb, rm
<1>1. TypeOK /\ SamplesOK /\ RequestsOK /\ ExecutorOK
  BY DEF IInv
<1>2. server' \in [Samples -> Servers \cup {0}] /\ score' \in [Samples -> Samples \cup {0}]
  BY <1>1 DEF TypeOK
<1>3. TypeOK'
  BY <1>1, <1>2 DEF TypeOK
<1>4. Batch' = Batch
  BY DEF Batch
<1>5. task'[i] = next /\ \A j \in Samples \ {i} : task'[j] = task[j] /\ score'[j] = score[j]
  BY <1>1 DEF TypeOK
<1>6. SamplesOK'
  <2>1. SampleOK(i)'
    BY <1>1, <1>5 DEF SampleOK
  <2>2. \A j \in Batch \ {i} : j \in Samples
    BY <1>1, BatchesFit DEF RequestsOK, Batch
  <2>3. \A j \in Batch \ {i} : SampleOK(j)'
    BY <1>1, <1>5, <2>2 DEF SamplesOK, SampleOK
  <2>4. QED
    BY <1>4, <2>1, <2>3 DEF SamplesOK
<1>7. RequestsOK'
  BY <1>1, <1>4, <1>5 DEF RequestsOK, NoRequestToSleepers, TypeOK
<1>8. ExecutorOK'
  BY ExecutorUntouched
<1>9. QED
  BY <1>3, <1>6, <1>7, <1>8 DEF IInv, CacheTyped, LoadIsBalanced, RowsAreOwn

LEMMA AnsweredPreserves ==
  ASSUME IInv, NEW i \in Samples, NEW next \in {"turn", "thread"}, Answered(i, next)
  PROVE  IInv'
<1> USE DEF Answered, Waits
<1>1. turns' \in 0..MaxTurns /\ faults' \in 0..MaxFaults
  BY Bounds DEF IInv, TypeOK
<1>2. QED
  BY <1>1, CoroutinePreserves

LEMMA AgentRaisesPreserves ==
  ASSUME IInv, NEW i \in Samples, AgentRaises(i)
  PROVE  IInv'
<1> USE DEF AgentRaises, Waits
<1>1. turns' \in 0..MaxTurns /\ faults' \in 0..MaxFaults
  BY Bounds DEF IInv, TypeOK
<1>2. QED
  BY <1>1, CoroutinePreserves

LEMMA ScorePreserves ==
  ASSUME IInv, NEW i \in Samples, Score(i)
  PROVE  IInv'
<1> USE DEF Score, Waits
<1>1. turns' \in 0..MaxTurns /\ faults' \in 0..MaxFaults
  BY DEF IInv, TypeOK
<1>2. CASE world > 0
  <2>1. score' = score /\ score'[i] = i
    BY <1>2 DEF IInv, TypeOK, SamplesOK, SampleOK
  <2>2. QED
    BY <1>1, <2>1, CoroutinePreserves
<1>3. CASE ~(world > 0)
  <2>1. score' = [score EXCEPT ![i] = i] /\ score'[i] = i
    BY <1>3 DEF IInv, TypeOK
  <2>2. QED
    BY <1>1, <2>1, CoroutinePreserves
<1>4. QED
  BY <1>2, <1>3

(* A thread submits its sample to the executor and waits, or scores it     *)
(* itself.                                                                 *)
LEMMA SubmitPreserves ==
  ASSUME IInv, NEW i \in Samples, Submit(i)
  PROVE  IInv'
<1> USE DEF Submit, Waits
<1>1. TypeOK /\ SamplesOK /\ RequestsOK /\ ExecutorOK
  BY DEF IInv
<1>2. CASE world > 0
  <2>1. task' = [task EXCEPT ![i] = "executor"] /\ queue' = Append(queue, i)
    BY <1>2
  <2>2. queue \in Seq(Samples) /\ items \in Seq(Samples)
    BY <1>1 DEF TypeOK
  <2>3. /\ queue' \in Seq(Samples) /\ Len(queue') = Len(queue) + 1 /\ Len(queue) \in Nat
        /\ queue'[Len(queue) + 1] = i
        /\ \A k \in 1..Len(queue) : queue'[k] = queue[k]
    BY <2>1, <2>2, AppendProperties, LenProperties
  <2>4. /\ \A k \in 1..Len(queue) : queue[k] \in Samples /\ Submitted(queue[k]) /\ queue[k] # i
        /\ \A k \in 1..Len(items) : items[k] \in Samples /\ Submitted(items[k]) /\ items[k] # i
    BY <1>1, <2>2, ElementOfSeq DEF ExecutorOK, Submitted
  <2>5. task'[i] = "executor" /\ \A j \in Samples \ {i} : task'[j] = task[j]
    BY <1>1, <2>1 DEF TypeOK
  <2>6. TypeOK'
    BY <1>1, <2>1, <2>3 DEF TypeOK, lb
  <2>7. Batch' = Batch
    BY DEF Batch
  <2>8. SamplesOK'
    BY <1>1, <2>5, <2>7, BatchesFit DEF SamplesOK, SampleOK, RequestsOK, Batch
  <2>9. RequestsOK'
    BY <1>1, <2>5, <2>7 DEF RequestsOK, NoRequestToSleepers
  <2>10. ExecutorOK'
    BY SMTT(30), <1>1, <2>3, <2>4, <2>5, <2>7 DEF ExecutorOK, Submitted
  <2>11. QED
    BY <2>6, <2>8, <2>9, <2>10 DEF IInv, CacheTyped, LoadIsBalanced, RowsAreOwn, lb
<1>3. CASE ~(world > 0)
  <2>1. world = 0
    BY <1>1, <1>3, AgentLoopAssumption DEF TypeOK
  <2>2. turns' \in 0..MaxTurns /\ faults' \in 0..MaxFaults
    BY <1>1 DEF TypeOK
  <2>3. QED
    BY <1>3, <2>1, <2>2, CoroutinePreserves DEF rm
<1>4. QED
  BY <1>2, <1>3

LEMMA TakePreserves ==
  ASSUME IInv, Take
  PROVE  IInv'
<1> USE DEF Take, batch, lb
<1>1. TypeOK /\ SamplesOK /\ RequestsOK /\ ExecutorOK
  BY DEF IInv
<1>2. queue \in Seq(Samples) /\ items \in Seq(Samples)
  BY <1>1 DEF TypeOK
<1>3. /\ Len(queue) \in Nat \ {0} /\ Head(queue) = queue[1] /\ Head(queue) \in Samples
      /\ Tail(queue) \in Seq(Samples) /\ Len(Tail(queue)) = Len(queue) - 1
      /\ \A k \in 1..Len(Tail(queue)) : Tail(queue)[k] = queue[k + 1]
  BY <1>2, HeadTailProperties, EmptySeq, LenProperties
<1>4. /\ items' \in Seq(Samples) /\ Len(items') = Len(items) + 1 /\ Len(items) \in Nat
      /\ items'[Len(items) + 1] = queue[1]
      /\ \A k \in 1..Len(items) : items'[k] = items[k]
  BY <1>2, <1>3, AppendProperties, LenProperties
<1>5. TypeOK'
  BY <1>1, <1>3, <1>4 DEF TypeOK
<1>6. SamplesOK' /\ RequestsOK'
  BY <1>1 DEF SamplesOK, SampleOK, RequestsOK, NoRequestToSleepers, Batch
<1>7. ExecutorOK'
  <2>1. \A j : Submitted(j)' = Submitted(j)
    BY DEF Submitted, Batch
  <2>2. /\ \A k \in 1..Len(queue') : k + 1 \in 1..Len(queue) /\ queue'[k] = queue[k + 1]
        /\ \A k \in 1..Len(items') : k = Len(items) + 1 \/ k \in 1..Len(items)
        /\ 1 \in 1..Len(queue)
    BY <1>3, <1>4
  <2>3. \A k, l \in 1..Len(queue') : k # l => queue'[k] # queue'[l]
    BY <1>1, <1>3, <2>2 DEF ExecutorOK
  <2>4. \A k \in 1..Len(queue'), l \in 1..Len(items') : queue'[k] # items'[l]
    <3> TAKE k \in 1..Len(queue'), l \in 1..Len(items')
    <3>1. k + 1 # 1 /\ k + 1 \in 1..Len(queue) /\ queue'[k] = queue[k + 1]
      BY <1>3, <2>2
    <3>2. CASE l \in 1..Len(items)
      BY <1>1, <1>4, <3>1, <3>2 DEF ExecutorOK
    <3>3. CASE l = Len(items) + 1
      BY <1>1, <1>4, <2>2, <3>1, <3>3 DEF ExecutorOK
    <3>4. QED
      BY <2>2, <3>2, <3>3
  <2>5. ASSUME manager # "raised"
        PROVE  /\ \A k \in 1..Len(queue') : Submitted(queue'[k])
               /\ \A k \in 1..Len(items') : Submitted(items'[k])
    BY <1>1, <1>4, <2>2, <2>5 DEF ExecutorOK
  <2>6. manager' = manager /\ manager # "idle"
    OBVIOUS
  <2> HIDE DEF Take
  <2>7. QED
    BY <2>1, <2>3, <2>4, <2>5, <2>6 DEF ExecutorOK
<1>8. QED
  BY <1>5, <1>6, <1>7 DEF IInv, CacheTyped, LoadIsBalanced, RowsAreOwn

LEMMA QueueEmptyPreserves ==
  ASSUME IInv, QueueEmpty
  PROVE  IInv'
<1> USE DEF QueueEmpty, batch, lb
<1>1. TypeOK'
  BY DEF IInv, TypeOK
<1>2. QED
  BY <1>1 DEF IInv, CacheTyped, LoadIsBalanced, RowsAreOwn, SamplesOK, SampleOK, RequestsOK,
     NoRequestToSleepers, ExecutorOK, Submitted, Batch

(* The items that leave the executor: what the queue still holds waits on. *)
LEMMA ItemsLeave ==
  ASSUME IInv, manager = "running", NEW next \in {"answered", "raised"},
         task' = [i \in Samples |-> IF i \in ToSet(items) THEN next ELSE task[i]],
         items' = <<>>, UNCHANGED <<world, threads, manager, calls, asleep, size, turns, server,
                                    visited, lb, queue, output>>,
         executor' = "first", faults' \in 0..MaxFaults,
         score' \in [Samples -> Samples \cup {0}],
         \A i \in Samples : IF i \in ToSet(items) THEN next = "answered" => score'[i] = i
                                                  ELSE score'[i] = score[i]
  PROVE  IInv'
<1> USE DEF lb
<1>1. TypeOK /\ SamplesOK /\ RequestsOK /\ ExecutorOK
  BY DEF IInv
<1>2. queue \in Seq(Samples) /\ items \in Seq(Samples) /\ DOMAIN items = 1..Len(items)
  BY <1>1, LenProperties DEF TypeOK
<1>3. \A i \in ToSet(items) : i \in Samples /\ Submitted(i)
  BY <1>1, <1>2, ElementOfSeq DEF ToSet, ExecutorOK
<1>4. Batch' = Batch /\ \A i \in Batch : i \in Samples
  BY <1>1, BatchesFit DEF Batch, RequestsOK
<1>5. TypeOK'
  <2>1. <<>> \in Seq(Samples)
    BY EmptySeq
  <2>2. QED
    BY <1>1, <2>1 DEF TypeOK
<1>6. SamplesOK'
  BY <1>1, <1>3, <1>4 DEF SamplesOK, SampleOK
<1>7. RequestsOK'
  BY <1>1, <1>3, <1>4 DEF RequestsOK, NoRequestToSleepers, Submitted
<1>8. ExecutorOK'
  <2>1. \A k \in 1..Len(queue) : queue[k] \in Samples /\ queue[k] \notin ToSet(items)
    BY <1>1, <1>2, ElementOfSeq DEF ToSet, ExecutorOK
  <2>2. \A k \in 1..Len(queue') : Submitted(queue[k]) /\ task'[queue[k]] = task[queue[k]]
    BY <1>1, <2>1 DEF ExecutorOK
  <2>3. Len(items') = 0 /\ 1..0 = {}
    BY EmptySeq
  <2>4. QED
    BY <1>1, <1>4, <2>2, <2>3 DEF ExecutorOK, Submitted
<1>9. QED
  BY <1>5, <1>6, <1>7, <1>8 DEF IInv, CacheTyped, LoadIsBalanced, RowsAreOwn

(* The future at a place of the batch gets the result of that place.       *)
LEMMA RunPreserves ==
  ASSUME IInv, Run
  PROVE  IInv'
<1>1. TypeOK
  BY DEF IInv
<1>2. \A i \in ToSet(items) : items[CHOOSE k \in DOMAIN items : Future(k) = i] = i
  BY DEF ToSet, Future
<1>3. \A i \in Samples : score'[i] = IF i \in ToSet(items) THEN i ELSE score[i]
  BY <1>2 DEF Run
<1>4. score' \in [Samples -> Samples \cup {0}]
  BY <1>1, <1>2 DEF TypeOK, Run
<1>5. faults' \in 0..MaxFaults
  BY <1>1 DEF TypeOK, Run
<1>6. QED
  BY <1>3, <1>4, <1>5, ItemsLeave DEF Run

LEMMA RunRaisesPreserves ==
  ASSUME IInv, RunRaises
  PROVE  IInv'
<1>1. faults' \in 0..MaxFaults /\ score' \in [Samples -> Samples \cup {0}]
  BY Bounds DEF IInv, TypeOK, RunRaises
<1>2. \A i \in Samples : score'[i] = score[i]
  BY DEF RunRaises
<1>3. QED
  BY <1>1, <1>2, ItemsLeave DEF RunRaises

LEMMA NextIInv == IInv /\ [Next]_vars => IInv'
<1> SUFFICES ASSUME IInv, [Next]_vars PROVE IInv'
  OBVIOUS
<1>1. ASSUME NEW n \in Sizes, GenerateSequences(n) PROVE IInv'
  BY <1>1, GenerateSequencesPreserves
<1>2. ASSUME NEW i \in Samples, Coroutine(i) \/ AgentRaises(i) PROVE IInv'
  BY <1>2, GeneratePreserves, AnsweredPreserves, AgentRaisesPreserves, SubmitPreserves,
     ScorePreserves DEF Coroutine
<1>3. CASE Return \/ Raise
  BY <1>3, ReturnPreserves, RaisePreserves
<1>4. CASE Take \/ QueueEmpty \/ Run \/ RunRaises
  BY <1>4, TakePreserves, QueueEmptyPreserves, RunPreserves, RunRaisesPreserves
<1>5. CASE UNCHANGED vars
  BY <1>5 DEF vars, batch, lb, rm, IInv, TypeOK, CacheTyped, LoadIsBalanced, RowsAreOwn,
     SamplesOK, SampleOK, RequestsOK, NoRequestToSleepers, ExecutorOK, Submitted, Batch
<1>6. QED
  BY <1>1, <1>2, <1>3, <1>4, <1>5 DEF Next

(* Between any two steps, the coroutines, the servers, the executor's      *)
(* queue and the rows that were returned fit together.                     *)
THEOREM Invariance == Spec => []IInv
BY InitIInv, NextIInv, PTL DEF Spec

(* For any workers, servers, batches and world sizes: a row that is        *)
(* returned is its prompt's and has the score of that prompt's             *)
(* conversation (AgentLoopManager.generate_sequences, BatchExecutor).      *)
THEOREM RowsCorrect == Spec => []RowsAreOwn
<1>1. IInv => RowsAreOwn
  BY DEF IInv
<1>2. QED
  BY <1>1, Invariance, PTL

(* A worker's cache holds its part of any batch. With the code's default,  *)
(* ten thousand entries, that is a batch of ten thousand for each worker.  *)
PartsFitCache == \A n \in Sizes : n \div NumWorkers <= MaxCacheSize

(* The requests in a worker's cache are different and in the order of      *)
(* their calls, so the entries of earlier calls go first.                  *)
CacheOK(w) ==
  /\ \A j, k \in 1..Len(cache[w]) : j # k => cache[w][j].request # cache[w][k].request
  /\ \A j, k \in 1..Len(cache[w]) : j < k => cache[w][j].request[1] <= cache[w][k].request[1]
  /\ \A k \in 1..Len(cache[w]) : cache[w][k].request[1] <= calls

(* During a call, a worker's cache says of each of its conversations where *)
(* it went.                                                                *)
Recorded(w, e) ==
  e.request[1] = calls =>
    /\ e.request[2] \in Batch /\ WorkerOf(e.request[2]) = w
    /\ visited[e.request[2]] = {e.server}

Remembered(i) ==
  visited[i] # {} => \E k \in 1..Len(cache[WorkerOf(i)]) :
                       cache[WorkerOf(i)][k].request = Request(i)

SessionsOK ==
  /\ \A w \in Workers : CacheOK(w)
  /\ manager = "running" =>
       /\ \A w \in Workers : \A k \in 1..Len(cache[w]) : Recorded(w, cache[w][k])
       /\ \A i \in Batch : Remembered(i)
  /\ \A i \in Batch : visited[i] = {} \/ \E s \in Servers : visited[i] = {s}

LEMMA EntryTypes ==
  ASSUME CacheTyped, NEW w \in Workers
  PROVE  /\ cache[w] \in Seq(Entries) /\ Len(cache[w]) \in Nat
         /\ DOMAIN cache[w] = 1..Len(cache[w])
         /\ \A k \in 1..Len(cache[w]) :
              /\ cache[w][k] \in Entries /\ cache[w][k].request[1] \in Nat
              /\ cache[w][k].request[2] \in Samples
              /\ cache[w][k].request = <<cache[w][k].request[1], cache[w][k].request[2]>>
<1>1. cache[w] \in Seq(Entries)
  BY DEF CacheTyped
<1>2. \A k \in 1..Len(cache[w]) : cache[w][k] \in Entries
  BY <1>1, ElementOfSeq
<1>3. \A e \in Entries : /\ e.request[1] \in Nat /\ e.request[2] \in Samples
                         /\ e.request = <<e.request[1], e.request[2]>>
  BY DEF Entries
<1>4. QED
  BY <1>1, <1>2, <1>3, LenProperties

(* A worker has a part of the batch, of size \div NumWorkers samples.      *)
LEMMA PartIsSmall ==
  ASSUME TypeOK, RequestsOK, manager = "running", NEW w \in Workers, PartsFitCache
  PROVE  LET part == {i \in Batch : WorkerOf(i) = w}
         IN  IsFiniteSet(part) /\ Cardinality(part) \in Nat /\ Cardinality(part) <= MaxCacheSize
<1> DEFINE part == {i \in Batch : WorkerOf(i) = w}
           q == size \div NumWorkers
<1>1. CASE part = {}
  BY <1>1, FS_EmptySet, Bounds
<1>2. CASE part # {}
  <2>1. q \in Nat \ {0} /\ q <= MaxCacheSize /\ w \in Nat
    BY <1>2, WorkerInRange DEF RequestsOK, PartsFitCache, Workers
  <2>2. \A i \in part : i - 1 \in Nat /\ (w - 1) * q <= i - 1 /\ i - 1 < (w - 1) * q + q
    BY WorkerInRange
  <2>3. PICK b \in Int : b = (w - 1) * q
    BY <2>1
  <2> DEFINE range == (b + 1)..(b + q)
  <2>4. b + 1 \in Int /\ b + q \in Int /\ \A i \in part : i \in range
    <3>1. \A i \in part : i \in Nat
      BY DEF Batch
    <3> HIDE DEF part, q
    <3>2. QED
      BY <2>1, <2>2, <2>3, <3>1
  <2>5. IsFiniteSet(range) /\ Cardinality(range) = q
    <3> HIDE DEF q
    <3>1. QED
      BY <2>1, <2>4, FS_Interval
  <2> HIDE DEF part, range, q
  <2>6. part \in SUBSET range
    BY <2>4
  <2>7. IsFiniteSet(part) /\ Cardinality(part) <= q
    BY <2>5, <2>6, FS_Subset
  <2>8. QED
    BY <2>1, <2>7, FS_CardinalityType, Bounds DEF part
<1>3. QED
  BY <1>1, <1>2

(* A cache that is full, and is asked for a conversation it has not, still *)
(* holds an entry of an earlier call: else the worker's part of the batch  *)
(* would be larger than the cache.                                         *)
LEMMA EarliestIsOld ==
  ASSUME IInv, SessionsOK, PartsFitCache, manager = "running",
         NEW i \in Batch, NEW w \in Workers, w = WorkerOf(i),
         ~Cached(w, Request(i)), Len(cache[w]) = MaxCacheSize
  PROVE  cache[w][1].request[1] # calls
<1> DEFINE c == cache[w]
           n == Len(c) + 1
           part == {j \in Batch : WorkerOf(j) = w}
           f == [k \in 1..n |-> IF k < n THEN c[k].request[2] ELSE i]
<1>1. SUFFICES ASSUME c[1].request[1] = calls PROVE FALSE
  OBVIOUS
<1>2. /\ Len(c) \in Nat \ {0} /\ n \in Nat /\ DOMAIN c = 1..Len(c) /\ calls \in Nat
      /\ \A k \in 1..Len(c) : /\ c[k].request[1] \in Nat
                              /\ c[k].request = <<c[k].request[1], c[k].request[2]>>
  BY EntryTypes, Bounds DEF IInv, TypeOK
<1>3. \A k \in 1..Len(c) : c[k].request[1] = calls
  <2> TAKE k \in 1..Len(c)
  <2>1. c[k].request[1] <= calls /\ c[k].request[1] >= calls
    BY <1>1, <1>2 DEF SessionsOK, CacheOK
  <2>2. QED
    BY <1>2, <2>1
<1>4. \A k \in 1..Len(c) : c[k].request[2] \in part /\ c[k].request[2] # i
  BY <1>2, <1>3 DEF SessionsOK, Recorded, Cached, Request
<1>5. IsFiniteSet(part) /\ Cardinality(part) \in Nat /\ Cardinality(part) <= Len(c)
  BY PartIsSmall DEF IInv
<1>6. IsFiniteSet(1..n) /\ Cardinality(1..n) = n
  BY <1>2, FS_Interval
<1>7. f \in [1..n -> part] /\ Cardinality(part) < Cardinality(1..n)
  <2>1. i \in part /\ \A k \in 1..n : k < n => k \in 1..Len(c)
    BY <1>2
  <2>2. \A k \in 1..n : f[k] \in part
    BY <1>4, <2>1
  <2> HIDE DEF part
  <2>3. QED
    BY <1>2, <1>5, <1>6, <2>2
<1>8. PICK x, y \in 1..n : x # y /\ f[x] = f[y]
  <2> HIDE DEF f, part, n
  <2>1. QED
    BY <1>5, <1>6, <1>7, FS_PigeonHole
<1>9. CASE x < n /\ y < n
  <2>1. x \in 1..Len(c) /\ y \in 1..Len(c)
    BY <1>2, <1>9
  <2>2. c[x].request = c[y].request
    BY SMTT(30), <1>2, <1>3, <1>8, <1>9, <2>1
  <2>3. QED
    BY <1>8, <2>1, <2>2 DEF SessionsOK, CacheOK
<1>10. CASE ~(x < n /\ y < n)
  <2>1. \E k \in 1..Len(c) : c[k].request[2] = i
    BY <1>2, <1>8, <1>10
  <2>2. QED
    BY <1>4, <2>1
<1>11. QED
  BY <1>9, <1>10

(* A turn goes where the conversation's earlier turns went: their entry is *)
(* still there, because only an older one or none was dropped.             *)
LEMMA GenerateIsSticky ==
  ASSUME IInv, SessionsOK, PartsFitCache, NEW i \in Samples, Generate(i)
  PROVE  SessionsOK'
<1> DEFINE w == WorkerOf(i)
           r == Request(i)
           s == Chosen(w, r)
           c == cache[w]
           u == Used(w, r, s)
<1>1. TypeOK /\ CacheTyped /\ RequestsOK
  BY DEF IInv
<1>2. /\ manager = "running" /\ i \in Batch /\ w \in Workers /\ calls' = calls
      /\ manager' = manager /\ size' = size
  BY <1>1, WorkerInRange DEF Generate, Waits
<1>3. Batch' = Batch /\ \A j : WorkerOf(j)' = WorkerOf(j) /\ Request(j)' = Request(j)
  BY <1>2 DEF Batch, WorkerOf, Request
<1>4. /\ visited' = [visited EXCEPT ![i] = @ \cup {s}] /\ cache' = [cache EXCEPT ![w] = u]
      /\ visited \in [Samples -> SUBSET Servers] /\ cache \in [Workers -> Seq(Entries)]
  BY <1>1 DEF Generate, TypeOK, CacheTyped
<1>5. s \in Servers /\ r \in (1..MaxCalls) \X Samples /\ r = <<calls, i>> /\ Len(c) <= MaxCacheSize
  BY <1>1, <1>2, ChosenIsServer, Bounds DEF TypeOK, RequestsOK, Request
<1>6. /\ c \in Seq(Entries) /\ Len(c) \in Nat /\ DOMAIN c = 1..Len(c) /\ calls \in Nat
      /\ \A k \in 1..Len(c) : /\ c[k] \in Entries /\ c[k].request[1] \in Nat
                              /\ c[k].request = <<c[k].request[1], c[k].request[2]>>
  <2>1. calls \in Nat
    BY <1>1, Bounds DEF TypeOK
  <2>2. /\ c \in Seq(Entries) /\ Len(c) \in Nat /\ DOMAIN c = 1..Len(c)
        /\ \A k \in 1..Len(c) : /\ c[k] \in Entries /\ c[k].request[1] \in Nat
                                /\ c[k].request = <<c[k].request[1], c[k].request[2]>>
    <3> HIDE DEF w, r, s, u
    <3>1. QED
      BY <1>1, <1>2, EntryTypes
  <2>3. QED
    BY <2>1, <2>2
<1>7. /\ \A j, k \in 1..Len(c) : j # k => c[j].request # c[k].request
      /\ \A j, k \in 1..Len(c) : j < k => c[j].request[1] <= c[k].request[1]
      /\ \A k \in 1..Len(c) : c[k].request[1] <= calls /\ Recorded(w, c[k])
  BY <1>2 DEF SessionsOK, CacheOK
<1>8. PICK d \in 1..(Len(c) + 1) :
        /\ u \in Seq(Entries) /\ Len(u) = IF d <= Len(c) THEN Len(c) ELSE Len(c) + 1
        /\ u[Len(u)] = [request |-> r, server |-> s]
        /\ \A j \in 1..(Len(u) - 1) : u[j] = IF j < d THEN c[j] ELSE c[j + 1]
        /\ Cached(w, r) => d <= Len(c) /\ c[d].request = r
        /\ ~Cached(w, r) /\ d <= Len(c) => d = 1 /\ Len(c) = MaxCacheSize
  BY <1>1, <1>2, <1>5, UsedDropsOne
<1> DEFINE g(j) == IF j < d THEN j ELSE j + 1
<1>9. visited'[i] = {s} /\ \A j \in Samples \ {i} : visited'[j] = visited[j]
  <2>1. visited[i] = {} \/ visited[i] = {s}
    <3>1. CASE Cached(w, r)
      <4>1. \E k \in DOMAIN c : c[k].request = r
        BY <3>1 DEF Cached
      <4>2. Entry(w, r) \in DOMAIN c /\ c[Entry(w, r)].request = r
        BY <4>1 DEF Entry
      <4>3. s = c[Entry(w, r)].server
        BY <3>1 DEF Chosen
      <4>4. PICK k \in 1..Len(c) : k = Entry(w, r)
        BY <1>6, <4>2
      <4>5. c[k].request[1] = calls /\ c[k].request[2] = i
        BY <1>5, <4>2, <4>4
      <4>6. visited[i] = {c[k].server}
        BY <1>7, <4>5 DEF Recorded
      <4>7. QED
        BY <4>3, <4>4, <4>6
    <3>2. CASE ~Cached(w, r)
      <4>1. Remembered(i)
        BY <1>2 DEF SessionsOK
      <4>2. QED
        BY <1>6, <3>2, <4>1 DEF Remembered, Cached
    <3>3. QED
      BY <3>1, <3>2
  <2>2. QED
    BY <1>4, <2>1
<1> HIDE DEF s, c, u, r, w
<1>10. /\ Len(u) \in Nat \ {0} /\ \A j \in 1..(Len(u) - 1) :
             /\ g(j) \in 1..Len(c) /\ g(j) # d /\ u[j] = c[g(j)] /\ c[g(j)].request # r
       /\ \A j, k \in 1..(Len(u) - 1) : (j < k => g(j) < g(k)) /\ (j # k => g(j) # g(k))
  <2>1. /\ Len(u) \in Nat \ {0}
        /\ \A j \in 1..(Len(u) - 1) : g(j) \in 1..Len(c) /\ g(j) # d /\ u[j] = c[g(j)]
        /\ \A j, k \in 1..(Len(u) - 1) : (j < k => g(j) < g(k)) /\ (j # k => g(j) # g(k))
    BY <1>6, <1>8
  <2>2. \A k \in 1..Len(c) : c[k].request = r => k = d
    <3>1. CASE Cached(w, r)
      <4>1. d \in 1..Len(c) /\ c[d].request = r
        BY <1>6, <1>8, <3>1
      <4>2. QED
        BY <1>7, <4>1
    <3>2. CASE ~Cached(w, r)
      BY <1>6, <3>2 DEF Cached, c
    <3>3. QED
      BY <3>1, <3>2
  <2> HIDE DEF g
  <2>3. QED
    BY <2>1, <2>2
<1>11. cache'[w] = u /\ \A v \in Workers \ {w} : cache'[v] = cache[v]
  BY <1>2, <1>4
<1>12. u[Len(u)].request = r /\ u[Len(u)].server = s /\ r[1] = calls /\ r[2] = i
  BY <1>5, <1>8
<1> HIDE DEF g
<1>13. \A v \in Workers : CacheOK(v)'
  <2>1. \A j, k \in 1..Len(u) : j # k => u[j].request # u[k].request
    <3> TAKE j, k \in 1..Len(u)
    <3>1. (j \in 1..(Len(u) - 1) \/ j = Len(u)) /\ (k \in 1..(Len(u) - 1) \/ k = Len(u))
      BY <1>10
    <3>2. QED
      BY <1>7, <1>10, <1>12, <3>1
  <2>2. \A k \in 1..Len(u) : u[k].request[1] <= calls
    <3> TAKE k \in 1..Len(u)
    <3>1. k \in 1..(Len(u) - 1) \/ k = Len(u)
      BY <1>10
    <3>2. QED
      BY <1>6, <1>7, <1>10, <1>12, <3>1
  <2>3. \A j, k \in 1..Len(u) : j < k => u[j].request[1] <= u[k].request[1]
    <3> TAKE j, k \in 1..Len(u)
    <3>1. SUFFICES ASSUME j < k PROVE u[j].request[1] <= u[k].request[1]
      OBVIOUS
    <3>2. j \in 1..(Len(u) - 1)
      BY <1>10, <3>1
    <3>3. CASE k = Len(u)
      BY <1>12, <2>2, <3>3
    <3>4. CASE k \in 1..(Len(u) - 1)
      BY <1>7, <1>10, <3>1, <3>2, <3>4
    <3>5. QED
      BY <1>10, <3>3, <3>4
  <2>4. \A v \in Workers \ {w} : CacheOK(v)'
    BY SMTT(30), <1>2, <1>11 DEF SessionsOK, CacheOK
  <2>5. \A v \in Workers : v = w => CacheOK(v)'
    BY <1>2, <1>11, <2>1, <2>2, <2>3 DEF CacheOK
  <2>6. QED
    BY <2>4, <2>5
<1>14. \A v \in Workers : \A k \in 1..Len(cache'[v]) : Recorded(v, cache[v][k])'
  <2> TAKE v \in Workers
  <2> TAKE k \in 1..Len(cache'[v])
  <2> DEFINE e == cache'[v][k]
  <2>1. SUFFICES ASSUME e.request[1] = calls
                 PROVE  /\ e.request[2] \in Batch /\ WorkerOf(e.request[2]) = v
                        /\ visited'[e.request[2]] = {e.server}
    BY <1>2, <1>3 DEF Recorded
  <2>2. CASE v # w
    <3>1. k \in 1..Len(cache[v]) /\ e = cache[v][k] /\ Recorded(v, e)
      BY <1>2, <1>11, <2>2 DEF SessionsOK
    <3>2. e.request[2] \in Samples
      BY <1>1, <3>1, EntryTypes
    <3>3. e.request[2] # i
      BY <2>1, <2>2, <3>1 DEF Recorded, w
    <3>4. QED
      BY <1>9, <2>1, <3>1, <3>2, <3>3 DEF Recorded
  <2>3. CASE v = w /\ k = Len(u)
    BY <1>2, <1>9, <1>11, <1>12, <2>3 DEF w
  <2>4. CASE v = w /\ k \in 1..(Len(u) - 1)
    <3>1. /\ e = c[g(k)] /\ g(k) \in 1..Len(c) /\ Recorded(w, e) /\ e.request # r
          /\ e.request = <<e.request[1], e.request[2]>>
      BY <1>6, <1>7, <1>10, <1>11, <2>4
    <3>2. e.request[2] \in Samples
      BY <1>1, <1>2, <3>1, EntryTypes DEF c
    <3>3. e.request[2] # i
      BY <1>5, <2>1, <3>1
    <3>4. QED
      BY <1>9, <2>1, <2>4, <3>1, <3>2, <3>3 DEF Recorded
  <2>5. QED
    BY <1>10, <1>11, <2>2, <2>3, <2>4
<1>15. \A j \in Batch : Remembered(j)'
  <2> TAKE j \in Batch
  <2>1. SUFFICES ASSUME visited'[j] # {}
                 PROVE  \E k \in 1..Len(cache'[WorkerOf(j)]) :
                          cache'[WorkerOf(j)][k].request = <<calls, j>>
    BY <1>2, <1>3 DEF Remembered, Request
  <2>2. j \in Samples /\ WorkerOf(j) \in Workers
    BY <1>1, <1>2, WorkerInRange
  <2>3. CASE j = i
    BY <1>5, <1>10, <1>11, <1>12, <2>3 DEF w
  <2>4. CASE j # i /\ WorkerOf(j) # w
    BY <1>2, <1>9, <1>11, <2>1, <2>2, <2>4 DEF SessionsOK, Remembered, Request
  <2>5. CASE j # i /\ WorkerOf(j) = w
    <3>1. PICK k \in 1..Len(c) : c[k].request = <<calls, j>>
      BY <1>2, <1>9, <2>1, <2>2, <2>5 DEF SessionsOK, Remembered, Request, c
    <3>2. k # d
      <4>1. CASE Cached(w, r)
        BY <1>5, <1>8, <2>5, <3>1, <4>1
      <4>2. CASE ~Cached(w, r) /\ k = d
        <5>1. k = 1 /\ Len(c) = MaxCacheSize
          BY <1>6, <1>8, <3>1, <4>2
        <5>2. c[1].request[1] # calls
          BY <1>2, <4>2, <5>1, EarliestIsOld DEF w, r, c
        <5>3. QED
          BY <3>1, <5>1, <5>2
      <4>3. QED
        BY <4>1, <4>2
    <3>3. PICK l \in 1..(Len(u) - 1) : g(l) = k
      <4>1. CASE k < d
        <5>1. k \in 1..(Len(u) - 1) /\ g(k) = k
          BY <1>6, <1>8, <4>1 DEF g
        <5>2. QED
          BY <5>1
      <4>2. CASE k > d
        <5>1. k - 1 \in 1..(Len(u) - 1) /\ g(k - 1) = k
          BY <1>6, <1>8, <4>2 DEF g
        <5>2. QED
          BY <5>1
      <4>3. QED
        BY <1>6, <3>2, <4>1, <4>2
    <3>4. l \in 1..Len(u) /\ u[l].request = <<calls, j>>
      BY <1>10, <3>1, <3>3
    <3>5. QED
      BY <1>11, <1>2, <2>5, <3>4
  <2>6. QED
    BY <2>3, <2>4, <2>5
<1>16. \A j \in Batch : visited'[j] = {} \/ \E t \in Servers : visited'[j] = {t}
  <2> TAKE j \in Batch
  <2>1. CASE j = i
    BY <1>5, <1>9, <2>1
  <2>2. CASE j # i
    <3>1. j \in Samples
      BY <1>1, <1>2, WorkerInRange
    <3>2. QED
      BY <1>9, <2>2, <3>1 DEF SessionsOK
  <2>3. QED
    BY <2>1, <2>2
<1>17. QED
  BY <1>3, <1>13, <1>14, <1>15, <1>16 DEF SessionsOK

LEMMA GenerateSequencesStartsSessions ==
  ASSUME IInv, SessionsOK, NEW n \in Sizes, GenerateSequences(n)
  PROVE  SessionsOK'
<1> USE DEF GenerateSequences, batch, lb
<1>1. TypeOK /\ CacheTyped
  BY DEF IInv
<1>2. calls \in Nat /\ calls' = calls + 1 /\ cache' = cache
  BY <1>1, Bounds DEF TypeOK
<1>3. \A w \in Workers : \A k \in 1..Len(cache[w]) :
        cache[w][k].request[1] \in Nat /\ cache[w][k].request[1] <= calls
  BY <1>1, EntryTypes DEF SessionsOK, CacheOK
<1>4. \A w \in Workers : CacheOK(w)'
  BY <1>2, <1>3 DEF SessionsOK, CacheOK
<1>5. CASE manager' = "raised" /\ UNCHANGED batch
  BY <1>4, <1>5 DEF SessionsOK, Batch
<1>6. CASE /\ manager' = "running" /\ size' = n /\ visited' = [i \in Samples |-> {}]
  <2>1. \A i \in Batch' : visited'[i] = {}
    BY <1>6, BatchesFit DEF Batch
  <2>2. \A w \in Workers : \A k \in 1..Len(cache'[w]) : Recorded(w, cache[w][k])'
    BY <1>2, <1>3 DEF Recorded
  <2>3. QED
    BY <1>4, <2>1, <2>2 DEF SessionsOK, Remembered
<1>7. QED
  BY <1>5, <1>6

(* The steps that choose no server.                                        *)
LEMMA SessionsUntouched ==
  ASSUME SessionsOK, UNCHANGED <<calls, size, visited, cache>>,
         manager' = "running" => manager = "running"
  PROVE  SessionsOK'
<1>1. /\ Batch' = Batch /\ \A i : WorkerOf(i)' = WorkerOf(i) /\ Request(i)' = Request(i)
      /\ \A w \in Workers : CacheOK(w)' = CacheOK(w)
  BY DEF Batch, WorkerOf, Request, CacheOK
<1>2. \A w \in Workers : \A k \in 1..Len(cache[w]) :
        Recorded(w, cache[w][k])' = Recorded(w, cache[w][k])
  BY <1>1 DEF Recorded
<1>3. \A i \in Batch : Remembered(i)' = Remembered(i)
  BY <1>1 DEF Remembered
<1>4. QED
  BY <1>1, <1>2, <1>3 DEF SessionsOK

LEMMA NextSessions ==
  ASSUME PartsFitCache
  PROVE  IInv /\ SessionsOK /\ [Next]_vars => SessionsOK'
<1> SUFFICES ASSUME IInv, SessionsOK, [Next]_vars PROVE SessionsOK'
  OBVIOUS
<1>1. ASSUME NEW n \in Sizes, GenerateSequences(n) PROVE SessionsOK'
  BY <1>1, GenerateSequencesStartsSessions
<1>2. ASSUME NEW i \in Samples, Generate(i) PROVE SessionsOK'
  BY <1>2, GenerateIsSticky
<1>3. ASSUME NEW i \in Samples,
             \/ Answered(i, "turn") \/ Answered(i, "thread") \/ Submit(i) \/ Score(i)
             \/ AgentRaises(i)
      PROVE  SessionsOK'
  BY <1>3, SessionsUntouched DEF Answered, Submit, Score, AgentRaises, lb
<1>4. CASE Return \/ Raise
  BY <1>4, SessionsUntouched DEF Return, Raise, batch, lb
<1>5. CASE Take \/ QueueEmpty \/ Run \/ RunRaises
  BY <1>5, SessionsUntouched DEF Take, QueueEmpty, Run, RunRaises, batch, lb
<1>6. CASE UNCHANGED vars
  BY <1>6, SessionsUntouched DEF vars, batch, lb
<1>7. QED
  BY <1>1, <1>2, <1>3, <1>4, <1>5, <1>6 DEF Next, Coroutine

LEMMA InitSessions == Init => SessionsOK
<1> SUFFICES ASSUME Init PROVE SessionsOK
  OBVIOUS
<1>1. Batch = {} /\ Len(<<>>) = 0 /\ 1..0 = {}
  BY EmptySeq DEF Init, Batch
<1>2. QED
  BY <1>1 DEF Init, SessionsOK, CacheOK

LEMMA SessionsImply == IInv /\ SessionsOK => SessionsAreSound
<1> SUFFICES ASSUME IInv, SessionsOK PROVE SessionsAreSound
  OBVIOUS
<1>1. \A i \in Batch : Cardinality(visited[i]) <= 1
  <2>1. Cardinality({}) = 0 /\ \A s : Cardinality({s}) = 1
    BY FS_EmptySet, FS_Singleton
  <2> TAKE i \in Batch
  <2>2. CASE visited[i] = {}
    BY <2>1, <2>2
  <2>3. CASE \E s \in Servers : visited[i] = {s}
    <3>1. Cardinality(visited[i]) = 1
      BY <2>1, <2>3
    <3>2. QED
      BY <3>1
  <2>4. QED
    BY <2>2, <2>3 DEF SessionsOK
<1>2. QED
  BY <1>1 DEF IInv, RequestsOK, SessionsAreSound, SessionsAreSticky

(* For any workers, servers and batches: requests go to servers that are   *)
(* awake, no server gets two conversations more than another, and all      *)
(* turns of a conversation go to one server, provided a worker's cache     *)
(* holds its part of a batch (AsyncLLMServerManager: max_cache_size).      *)
THEOREM SessionsCorrect ==
  ASSUME PartsFitCache
  PROVE  Spec => []SessionsAreSound
<1>1. Init => SessionsOK
  BY InitSessions
<1>2. IInv /\ SessionsOK /\ [Next]_vars => SessionsOK'
  BY NextSessions
<1>3. IInv /\ SessionsOK => SessionsAreSound
  BY SessionsImply
<1>4. QED
  BY <1>1, <1>2, <1>3, InitIInv, NextIInv, PTL DEF Spec

(* What needs no bound on the cache: whatever the batches, no request is   *)
(* under way at a server whose cache has been freed, and the load is       *)
(* balanced.                                                               *)
THEOREM ServersAreSound == Spec => [](TypeOK /\ LoadIsBalanced /\ NoRequestToSleepers)
<1>1. IInv => TypeOK /\ LoadIsBalanced /\ NoRequestToSleepers
  BY DEF IInv, RequestsOK
<1>2. QED
  BY <1>1, Invariance, PTL
----------------------------------------------------------------------------
(* One conversation.                                                       *)
(*                                                                         *)
(* The lists of a conversation are concatenated as the rows of a rollout   *)
(* call are; the lemmas on sequences are those of RolloutDispatch_proofs.  *)
Rows == INSTANCE RolloutDispatch_proofs WITH
          MaxBatch <- 1, MaxWorld <- 1, world_size <- 1, infer_size <- 1, prompts <- <<>>,
          padded <- <<>>, no_padding_mask <- <<>>, output <- <<>>, responses <- <<>>,
          status <- "idle"

(* The sizes of that module play no part in its lemmas on sequences.       *)
LEMMA OneRow == Rows!DispatchAssumption
BY DEF Rows!DispatchAssumption

(* FlattenSeq is the same operator there and here.                         *)
LEMMA SameFlatten == \A seqs : Rows!FlattenSeq(seqs) = FlattenSeq(seqs)
BY DEF FlattenSeq, Rows!FlattenSeq

(* A function on 1..n is a sequence of length n.                           *)
LEMMA FunctionIsSequence ==
  ASSUME NEW S, NEW n \in Nat, NEW f \in [1..n -> S]
  PROVE  f \in Seq(S) /\ Len(f) = n
BY IsASeq

(* The concatenation of one sequence more.                                 *)
LEMMA FlattenAppend ==
  ASSUME NEW S, NEW seqs \in Seq(Seq(S)), NEW more \in Seq(S)
  PROVE  FlattenSeq(Append(seqs, more)) = FlattenSeq(seqs) \o more
BY OneRow, SameFlatten, Rows!FlattenAppend

(* A concatenation of sequences of S is one.                               *)
LEMMA FlattenTyped ==
  ASSUME NEW S
  PROVE  \A seqs \in Seq(Seq(S)) : FlattenSeq(seqs) \in Seq(S)
BY OneRow, SameFlatten, Rows!FlattenTyped

(* The elements and the length of a concatenation of two.                  *)
LEMMA ConcatElements ==
  ASSUME NEW S, NEW a \in Seq(S), NEW b \in Seq(S)
  PROVE  /\ a \o b \in Seq(S) /\ Len(a \o b) = Len(a) + Len(b)
         /\ \A i \in 1..Len(a) : (a \o b)[i] = a[i]
         /\ \A i \in 1..Len(b) : (a \o b)[Len(a) + i] = b[i]
<1>1. a \o b \in Seq(S) /\ Len(a \o b) = Len(a) + Len(b)
  BY OneRow, Rows!ConcatElements
<1>2. \A i \in 1..Len(a) : (a \o b)[i] = a[i]
  BY OneRow, Rows!ConcatElements
<1>3. \A i \in 1..Len(b) : (a \o b)[Len(a) + i] = b[i]
  BY OneRow, Rows!ConcatElements
<1>4. QED
  BY <1>1, <1>2, <1>3

(* A concatenation, appended to.                                           *)
LEMMA ConcatMore ==
  ASSUME NEW S, NEW a \in Seq(S), NEW b \in Seq(S), NEW x \in S
  PROVE  a \o Append(b, x) = Append(a \o b, x) /\ a \o b \in Seq(S)
OBVIOUS

(* Concatenation is associative.                                           *)
LEMMA ConcatThree ==
  ASSUME NEW S, NEW a \in Seq(S), NEW b \in Seq(S), NEW c \in Seq(S)
  PROVE  (a \o b) \o c = a \o (b \o c)
OBVIOUS

(* Two lists of sequences, concatenated.                                   *)
LEMMA FlattenConcat ==
  ASSUME NEW S, NEW a \in Seq(Seq(S))
  PROVE  \A b \in Seq(Seq(S)) : FlattenSeq(a \o b) = FlattenSeq(a) \o FlattenSeq(b)
<1> DEFINE Good(b) == FlattenSeq(a \o b) = FlattenSeq(a) \o FlattenSeq(b)
           Bad == {n \in Nat : \E b \in Seq(Seq(S)) : Len(b) = n /\ ~Good(b)}
<1>1. SUFFICES Bad = {}
  <2>1. \A b \in Seq(Seq(S)) : Len(b) \in Nat
    BY LenProperties
  <2>2. QED
    BY <2>1
<1>2. SUFFICES ASSUME Bad # {} PROVE FALSE
  OBVIOUS
<1>3. PICK n \in Bad : \A k \in Bad : n <= k
  <2>1. Bad \in SUBSET Nat
    OBVIOUS
  <2> HIDE DEF Bad
  <2>2. QED
    BY <1>2, <2>1, LeastNatural
<1>4. PICK b \in Seq(Seq(S)) : Len(b) = n /\ ~Good(b)
  BY <1>3
<1>5. FlattenSeq(a) \in Seq(S)
  BY FlattenTyped
<1>6. CASE b = <<>>
  <2>1. FlattenSeq(b) = <<>>
    BY <1>6 DEF FlattenSeq
  <2>2. a \o b = a /\ FlattenSeq(a) \o <<>> = FlattenSeq(a)
    BY <1>5, <1>6, ConcatEmptySeq
  <2>3. QED
    BY <1>4, <2>1, <2>2
<1>7. CASE b # <<>>
  <2>1. PICK early \in Seq(Seq(S)), last \in Seq(S) : b = Append(early, last)
    BY <1>7, SequenceEmptyOrAppend
  <2>2. Len(early) \in Nat /\ n = Len(early) + 1
    BY <1>4, <2>1, LenProperties, AppendProperties
  <2>3. Good(early)
    <3>1. Len(early) \notin Bad
      <4> HIDE DEF Bad
      <4>1. QED
        BY <1>3, <2>2
    <3> HIDE DEF Good
    <3>2. QED
      BY <2>2, <3>1
  <2>4. a \o b = Append(a \o early, last) /\ a \o early \in Seq(Seq(S))
    <3> HIDE DEF Good, Bad
    <3>1. QED
      BY <2>1, ConcatMore
  <2>5. FlattenSeq(a \o b) = FlattenSeq(a \o early) \o last
    BY <2>4, FlattenAppend
  <2>6. FlattenSeq(b) = FlattenSeq(early) \o last /\ FlattenSeq(early) \in Seq(S)
    BY <2>1, FlattenAppend, FlattenTyped
  <2>7. (FlattenSeq(a) \o FlattenSeq(early)) \o last = FlattenSeq(a) \o (FlattenSeq(early) \o last)
    <3> DEFINE x == FlattenSeq(a)
               y == FlattenSeq(early)
    <3>1. x \in Seq(S) /\ y \in Seq(S)
      BY <1>5, <2>6
    <3> HIDE DEF x, y, Good, Bad
    <3>2. QED
      BY <3>1, ConcatThree
  <2>8. QED
    BY <1>4, <2>3, <2>5, <2>6, <2>7
<1>8. QED
  BY <1>6, <1>7
----------------------------------------------------------------------------
(* The tokens of one kind.                                                 *)
Singles(tokens, who) ==
  [k \in DOMAIN tokens |-> IF tokens[k].by = who THEN <<tokens[k]>> ELSE <<>>]

(* The tokens of a kind are a sequence of the tokens' set.                 *)
LEMMA SinglesTyped ==
  ASSUME NEW S, NEW tokens \in Seq(S), NEW who
  PROVE  /\ Singles(tokens, who) \in Seq(Seq(S))
         /\ Kind(tokens, who) = FlattenSeq(Singles(tokens, who))
         /\ Kind(tokens, who) \in Seq(S)
<1>1. Len(tokens) \in Nat /\ DOMAIN tokens = 1..Len(tokens)
  BY LenProperties
<1>2. Singles(tokens, who) \in [1..Len(tokens) -> Seq(S)]
  <2>1. ASSUME NEW k \in 1..Len(tokens)
        PROVE  (IF tokens[k].by = who THEN <<tokens[k]>> ELSE <<>>) \in Seq(S)
    BY ElementOfSeq
  <2>2. QED
    BY <1>1, <2>1 DEF Singles
<1>3. Singles(tokens, who) \in Seq(Seq(S))
  BY <1>1, <1>2, FunctionIsSequence
<1>4. Kind(tokens, who) = FlattenSeq(Singles(tokens, who))
  BY DEF Kind, Singles
<1>5. QED
  BY <1>3, <1>4, FlattenTyped

(* Of no tokens: none.                                                     *)
LEMMA KindEmpty == \A who : Kind(<<>>, who) = <<>>
<1>1. \A who : DOMAIN [k \in DOMAIN <<>> |-> IF <<>>[k].by = who THEN <<<<>>[k]>> ELSE <<>>] = {}
  OBVIOUS
<1>2. QED
  BY DEF Kind, FlattenSeq

(* Of a concatenation: those of its parts.                                 *)
LEMMA KindConcat ==
  ASSUME NEW S, NEW a \in Seq(S), NEW b \in Seq(S), NEW who
  PROVE  Kind(a \o b, who) = Kind(a, who) \o Kind(b, who)
<1> DEFINE c == a \o b
<1>1. /\ c \in Seq(S) /\ Len(c) = Len(a) + Len(b) /\ Len(a) \in Nat /\ Len(b) \in Nat
      /\ DOMAIN c = 1..(Len(a) + Len(b)) /\ DOMAIN a = 1..Len(a) /\ DOMAIN b = 1..Len(b)
  BY ConcatElements, LenProperties
<1>2. \A i \in 1..Len(a) : c[i] = a[i]
  BY ConcatElements
<1>3. \A i \in 1..Len(b) : c[Len(a) + i] = b[i]
  BY ConcatElements
<1> HIDE DEF c
<1> DEFINE x == Singles(a, who)
           y == Singles(b, who)
           z == Singles(c, who)
<1>4. x \in Seq(Seq(S)) /\ y \in Seq(Seq(S)) /\ z \in Seq(Seq(S))
  BY <1>1, SinglesTyped
<1>5. Len(x) = Len(a) /\ Len(y) = Len(b) /\ Len(z) = Len(a) + Len(b)
  BY <1>1 DEF Singles
<1>6. /\ x \o y \in Seq(Seq(S)) /\ Len(x \o y) = Len(a) + Len(b)
      /\ \A i \in 1..(Len(a) + Len(b)) :
           (x \o y)[i] = IF i <= Len(a) THEN x[i] ELSE y[i - Len(a)]
  <2> HIDE DEF x, y, z
  <2>1. /\ x \o y \in Seq(Seq(S)) /\ Len(x \o y) = Len(x) + Len(y)
        /\ \A i \in 1..(Len(x) + Len(y)) :
             (x \o y)[i] = IF i <= Len(x) THEN x[i] ELSE y[i - Len(x)]
    BY <1>4, ConcatProperties
  <2>2. QED
    BY <1>5, <2>1
<1>7. ASSUME NEW i \in 1..(Len(a) + Len(b))
      PROVE  z[i] = (x \o y)[i]
  <2>1. CASE i <= Len(a)
    <3>1. i \in 1..Len(a)
      BY <1>1, <2>1
    <3>2. z[i] = x[i]
      BY <1>1, <1>2, <3>1 DEF Singles
    <3> HIDE DEF x, y, z
    <3>3. QED
      BY <1>6, <2>1, <3>2
  <2>2. CASE ~(i <= Len(a))
    <3> DEFINE j == i - Len(a)
    <3>1. j \in 1..Len(b) /\ i = Len(a) + j
      BY <1>1, <2>2
    <3> HIDE DEF j
    <3>2. z[i] = y[j]
      BY <1>1, <1>3, <3>1 DEF Singles
    <3> HIDE DEF x, y, z
    <3>3. (x \o y)[i] = y[i - Len(a)]
      BY <1>6, <2>2
    <3>4. QED
      BY <3>2, <3>3 DEF j
  <2>3. QED
    BY <2>1, <2>2
<1> HIDE DEF x, y, z
<1>8. z = x \o y
  BY <1>4, <1>5, <1>6, <1>7, SeqEqual
<1>9. FlattenSeq(z) = FlattenSeq(x) \o FlattenSeq(y)
  BY <1>4, <1>8, FlattenConcat
<1>10. /\ Kind(a, who) = FlattenSeq(x) /\ Kind(b, who) = FlattenSeq(y)
       /\ Kind(c, who) = FlattenSeq(z)
  BY <1>1, SinglesTyped DEF x, y, z
<1>11. QED
  BY <1>9, <1>10 DEF c

(* Of tokens that are all of another kind: none.                           *)
LEMMA KindNone ==
  ASSUME NEW S, NEW tokens \in Seq(S), NEW who, \A k \in DOMAIN tokens : tokens[k].by # who
  PROVE  Kind(tokens, who) = <<>>
<1>1. Len(tokens) \in Nat /\ DOMAIN tokens = 1..Len(tokens)
  BY LenProperties
<1>2. Singles(tokens, who) \in [1..Len(tokens) -> Seq({})]
  BY <1>1 DEF Singles
<1>3. Singles(tokens, who) \in Seq(Seq({}))
  BY <1>1, <1>2, FunctionIsSequence
<1>4. FlattenSeq(Singles(tokens, who)) \in Seq({})
  BY <1>3, FlattenTyped
<1>5. Kind(tokens, who) = FlattenSeq(Singles(tokens, who))
  BY SinglesTyped
<1>6. \A s \in Seq({}) : s = <<>>
  OBVIOUS
<1>7. QED
  BY <1>4, <1>5, <1>6

(* What is kept are tokens of the list, of the kind.                       *)
LEMMA KindElements ==
  ASSUME NEW S, NEW tokens \in Seq(S), NEW who, NEW T,
         \A k \in DOMAIN tokens : tokens[k].by = who => tokens[k] \in T
  PROVE  Kind(tokens, who) \in Seq(T)
<1>1. Len(tokens) \in Nat /\ DOMAIN tokens = 1..Len(tokens)
  BY LenProperties
<1>2. Singles(tokens, who) \in [1..Len(tokens) -> Seq(T)]
  BY <1>1 DEF Singles
<1>3. Singles(tokens, who) \in Seq(Seq(T))
  BY <1>1, <1>2, FunctionIsSequence
<1>4. FlattenSeq(Singles(tokens, who)) \in Seq(T)
  BY <1>3, FlattenTyped
<1>5. QED
  BY <1>4, SinglesTyped

(* Of one token.                                                           *)
LEMMA KindOne ==
  ASSUME NEW S, NEW t \in S, NEW who, NEW one, one = <<t>>
  PROVE  Kind(one, who) = IF t.by = who THEN <<t>> ELSE <<>>
<1>1. one \in Seq(S) /\ Len(one) = 1 /\ DOMAIN one = 1..1 /\ one[1] = t
  OBVIOUS
<1> DEFINE s == IF t.by = who THEN <<t>> ELSE <<>>
<1>2. s \in Seq(S) /\ <<>> \in Seq(Seq(S))
  OBVIOUS
<1>3. Singles(one, who) = Append(<<>>, s)
  BY <1>1 DEF Singles
<1> HIDE DEF s
<1>4. FlattenSeq(Append(<<>>, s)) = FlattenSeq(<<>>) \o s
  BY <1>2, FlattenAppend
<1>5. FlattenSeq(<<>>) = <<>>
  BY DEF FlattenSeq
<1>6. <<>> \o s = s
  BY <1>2, ConcatEmptySeq
<1>7. QED
  BY <1>1, <1>3, <1>4, <1>5, <1>6, SinglesTyped DEF s

(* Of tokens that are all of the kind: themselves.                         *)
LEMMA KindAll ==
  ASSUME NEW S, NEW tokens \in Seq(S), NEW who, \A k \in DOMAIN tokens : tokens[k].by = who
  PROVE  Kind(tokens, who) = tokens
<1> DEFINE Own(s) == \A k \in DOMAIN s : s[k].by = who
           Good(s) == Own(s) => Kind(s, who) = s
           Bad == {n \in Nat : \E s \in Seq(S) : Len(s) = n /\ ~Good(s)}
<1>1. SUFFICES ASSUME ~Good(tokens) PROVE FALSE
  OBVIOUS
<1>2. Bad # {} /\ Bad \in SUBSET Nat
  <2>1. Len(tokens) \in Nat
    BY LenProperties
  <2> HIDE DEF Good
  <2>2. QED
    BY <1>1, <2>1
<1>3. PICK n \in Bad : \A k \in Bad : n <= k
  <2> HIDE DEF Bad
  <2>1. QED
    BY <1>2, LeastNatural
<1>4. PICK s \in Seq(S) : Len(s) = n /\ ~Good(s)
  <2> HIDE DEF Good
  <2>1. QED
    BY <1>3
<1>5. Own(s) /\ Kind(s, who) # s
  BY <1>4
<1>6. s # <<>>
  BY <1>5, KindEmpty
<1>7. PICK early \in Seq(S), last \in S : s = Append(early, last)
  BY <1>6, SequenceEmptyOrAppend
<1>8. /\ Len(early) \in Nat /\ n = Len(early) + 1
      /\ \A k \in 1..Len(early) : s[k] = early[k]
      /\ s[Len(early) + 1] = last /\ DOMAIN s = 1..(Len(early) + 1) /\ DOMAIN early = 1..Len(early)
  BY <1>4, <1>7, LenProperties, AppendProperties
<1>9. Own(early) /\ last.by = who
  BY <1>5, <1>8
<1>10. Kind(early, who) = early
  <2>1. Len(early) \notin Bad
    <3> HIDE DEF Bad
    <3>1. QED
      BY <1>3, <1>8
  <2>2. Good(early)
    <3> HIDE DEF Good
    <3>1. QED
      BY <1>8, <2>1
  <2>3. QED
    BY <1>9, <2>2
<1> DEFINE one == <<last>>
<1>11. s = early \o one /\ one \in Seq(S)
  BY <1>7, AppendIsConcat
<1>12. Kind(one, who) = one
  BY <1>9, KindOne
<1> HIDE DEF one
<1>13. Kind(early \o one, who) = Kind(early, who) \o Kind(one, who)
  BY <1>11, KindConcat
<1>14. QED
  BY <1>5, <1>10, <1>11, <1>12, <1>13
----------------------------------------------------------------------------
(* The invariant: the types of the fields, the four lists in step, the     *)
(* length of the response, who spoke last, and what the tools answered.    *)
Tokens      == [by : {"text", "image", "model", "tool", "user", "assistant"}, call : 0..MaxParallelCalls]
ImageTokens == [by : {"image", "further"}, call : 0..MaxParallelCalls]
Coroutines  == [at : {"create", "execute", "release", "returned", "raised"}, images : 0..MaxImages]

ConversationTypes ==
  /\ vision \in BOOLEAN /\ logs \in BOOLEAN /\ interacts \in BOOLEAN
  /\ prompt \in Seq(Tokens) /\ prompt # <<>>
  /\ state \in {"PENDING", "GENERATING", "PROCESSING_TOOLS", "INTERACTING", "TERMINATED", "RAISED"}
  /\ prompt_ids \in Seq(Tokens)
  /\ response_mask \in Seq({0, 1})
  /\ image_data \in Seq(ImageTokens)
  /\ tool \in Seq(Coroutines) /\ Len(tool) <= MaxParallelCalls
  /\ assistant_turns \in Nat /\ user_turns \in Nat

Aligned(text, tokens, mask) ==
  /\ Len(tokens) = Len(text) + Len(mask)
  /\ \A k \in 1..Len(text) : tokens[k] = text[k]
  /\ \A k \in 1..Len(mask) : mask[k] = 1 <=> tokens[Len(text) + k].by = "model"

ListsInStep ==
  /\ logprobs = IF logs THEN response_mask ELSE <<>>
  /\ state = "PENDING" => prompt_ids = <<>> /\ response_mask = <<>>
  /\ state # "PENDING" => Aligned(prompt, prompt_ids, response_mask)

ResponseBounded ==
  /\ state \in {"PROCESSING_TOOLS", "INTERACTING", "TERMINATED"} => response_mask # <<>>
  /\ state = "PROCESSING_TOOLS" => Len(response_mask) < ResponseLength
  /\ state = "GENERATING" /\ ~interacts => Len(response_mask) < ResponseLength
  /\ state = "INTERACTING" => interacts

LastSpeaker ==
  /\ state = "PENDING" => tool = <<>>
  /\ state \in {"PROCESSING_TOOLS", "INTERACTING"} => prompt_ids[Len(prompt_ids)].by = "model"
  /\ state = "INTERACTING" => tool = <<>>

ImagesInStep ==
  state \in {"GENERATING", "PROCESSING_TOOLS", "INTERACTING"} =>
    Images(prompt_ids) = Kind(image_data, "image")

ConversationInv ==
  /\ ConversationTypes
  /\ ListsInStep
  /\ ResponseBounded
  /\ LastSpeaker
  /\ ResponsesFollowCalls
  /\ ImagesInStep
----------------------------------------------------------------------------
(* The bounds, one by one.                                                 *)
LEMMA ConversationBounds ==
  /\ PromptLength \in Nat /\ ResponseLength \in Nat /\ ResponseLength > 0 /\ MaxPrompt \in Nat
  /\ MaxAnswer \in Nat /\ MaxParallelCalls \in Nat /\ MaxParallelCalls > 0
  /\ MaxToolCalls \in Nat /\ MaxImages \in Nat
  /\ MaxAssistantTurns \in Nat /\ MaxUserTurns \in Nat
BY ToolAgentAssumption

(* What is repeated, and how often.                                        *)
LEMMA RepeatedIs ==
  ASSUME NEW S, NEW n \in Nat, NEW x \in S
  PROVE  Repeated(n, x) \in Seq(S) /\ Len(Repeated(n, x)) = n /\ \A k \in 1..n : Repeated(n, x)[k] = x
<1>1. Repeated(n, x) \in [1..n -> S] /\ \A k \in 1..n : Repeated(n, x)[k] = x
  BY DEF Repeated
<1>2. QED
  BY <1>1, FunctionIsSequence

(* The images of a call: one of them is its first, unless it has none.     *)
LEMMA ImagesOfCall ==
  ASSUME NEW c \in 1..Len(tool), tool \in Seq(Coroutines), Len(tool) <= MaxParallelCalls
  PROVE  /\ ImagesFrom(c) \in Seq(ImageTokens)
         /\ Kind(ImagesFrom(c), "image") = IF tool[c].images > 0 THEN <<Token("image", c)>> ELSE <<>>
<1>1. Len(tool) \in Nat /\ tool[c] \in Coroutines
  BY LenProperties, ElementOfSeq
<1>2. tool[c].images \in Nat
  BY <1>1, ConversationBounds DEF Coroutines
<1>3. c \in 0..MaxParallelCalls
  BY <1>1, ConversationBounds
<1> DEFINE i == Token("image", c)
           f == Token("further", c)
<1>4. i \in ImageTokens /\ i.by = "image" /\ f \in ImageTokens /\ f.by = "further"
  BY <1>3 DEF ImageTokens, Token
<1>5. ImagesFrom(c) = IF tool[c].images = 0 THEN <<>> ELSE <<i>> \o Repeated(tool[c].images - 1, f)
  BY DEF ImagesFrom
<1> HIDE DEF i, f
<1>6. CASE tool[c].images = 0
  <2>1. <<>> \in Seq(ImageTokens)
    BY EmptySeq
  <2>2. QED
    BY <1>5, <1>6, <2>1, KindEmpty
<1>7. CASE tool[c].images # 0
  <2> DEFINE n == tool[c].images - 1
             ones == <<i>>
             rest == Repeated(n, f)
  <2>1. n \in Nat /\ tool[c].images > 0
    BY <1>2, <1>7
  <2> HIDE DEF n
  <2>2. rest \in Seq(ImageTokens) /\ Len(rest) = n /\ \A k \in 1..n : rest[k] = f
    BY <1>4, <2>1, RepeatedIs
  <2>3. ones \in Seq(ImageTokens) /\ Kind(ones, "image") = <<i>>
    BY <1>4, KindOne
  <2>4. ImagesFrom(c) = ones \o rest
    BY <1>5, <1>7 DEF n
  <2> HIDE DEF ones, rest
  <2>5. Kind(rest, "image") = <<>>
    <3>1. \A k \in DOMAIN rest : rest[k].by # "image"
      BY <1>4, <2>1, <2>2, LenProperties
    <3>2. QED
      BY <2>2, <3>1, KindNone
  <2>6. Kind(ones \o rest, "image") = Kind(ones, "image") \o Kind(rest, "image")
    BY <2>2, <2>3, KindConcat
  <2>7. <<i>> \o <<>> = <<i>>
    BY <1>4
  <2>8. ones \o rest \in Seq(ImageTokens)
    BY <2>2, <2>3, ConcatProperties
  <2>9. QED
    BY <2>1, <2>3, <2>4, <2>5, <2>6, <2>7, <2>8 DEF i
<1>8. QED
  BY <1>6, <1>7

(* The message of a call: one token of the tool, and one for its image.    *)
ToolTokens == {t \in Tokens : t.by \in {"tool", "image"}}

LEMMA MessageOfCall ==
  ASSUME NEW c \in 1..Len(tool), tool \in Seq(Coroutines), Len(tool) <= MaxParallelCalls
  PROVE  /\ Message(c) \in Seq(ToolTokens)
         /\ Kind(Message(c), "tool") = <<Token("tool", c)>>
         /\ Kind(Message(c), "image") = IF tool[c].images > 0 THEN <<Token("image", c)>> ELSE <<>>
<1>1. Len(tool) \in Nat /\ tool[c] \in Coroutines
  BY LenProperties, ElementOfSeq
<1>2. c \in 0..MaxParallelCalls
  BY <1>1, ConversationBounds
<1> DEFINE i == Token("image", c)
           t == Token("tool", c)
<1>3. /\ i \in ToolTokens /\ i \in Tokens /\ i.by = "image" /\ i.call = c
      /\ t \in ToolTokens /\ t \in Tokens /\ t.by = "tool" /\ t.call = c
  BY <1>2 DEF ToolTokens, Tokens, Token
<1>5. Message(c) = IF tool[c].images > 0 THEN <<i, t>> ELSE <<t>>
  BY DEF Message
<1> HIDE DEF i, t
<1> DEFINE ones == <<i>>
           lasts == <<t>>
<1>6. /\ Kind(ones, "tool") = <<>> /\ Kind(ones, "image") = <<i>>
      /\ Kind(lasts, "tool") = <<t>> /\ Kind(lasts, "image") = <<>>
  BY <1>3, KindOne
<1>7. ones \in Seq(Tokens) /\ lasts \in Seq(Tokens) /\ <<i, t>> = ones \o lasts
  <2>1. ones \in Seq(Tokens) /\ lasts \in Seq(Tokens)
    BY <1>3
  <2>2. <<i, t>> = <<i>> \o <<t>>
    <3>1. <<i, t>> = Append(<<i>>, t)
      OBVIOUS
    <3>2. QED
      BY <1>3, <2>1, <3>1, AppendIsConcat
  <2>3. QED
    BY <2>1, <2>2
<1>8. /\ Kind(ones \o lasts, "tool") = Kind(ones, "tool") \o Kind(lasts, "tool")
      /\ Kind(ones \o lasts, "image") = Kind(ones, "image") \o Kind(lasts, "image")
  <2>1. ones \in Seq(Tokens) /\ lasts \in Seq(Tokens)
    BY <1>7
  <2> HIDE DEF ones, lasts
  <2>2. Kind(ones \o lasts, "tool") = Kind(ones, "tool") \o Kind(lasts, "tool")
    BY <2>1, KindConcat
  <2>3. Kind(ones \o lasts, "image") = Kind(ones, "image") \o Kind(lasts, "image")
    BY <2>1, KindConcat
  <2>4. QED
    BY <2>2, <2>3
<1>9. CASE tool[c].images > 0
  <2>1. Message(c) = ones \o lasts /\ Message(c) \in Seq(ToolTokens)
    BY <1>3, <1>5, <1>7, <1>9
  <2>2. <<>> \o <<t>> = <<t>> /\ <<i>> \o <<>> = <<i>>
    BY <1>3
  <2>3. Kind(Message(c), "tool") = <<t>> /\ Kind(Message(c), "image") = <<i>>
    <3> HIDE DEF ones, lasts
    <3>1. QED
      BY <1>6, <1>8, <2>1, <2>2
  <2>4. QED
    BY <1>9, <2>1, <2>3 DEF i, t
<1>10. CASE ~(tool[c].images > 0)
  <2>1. Message(c) = lasts /\ Message(c) \in Seq(ToolTokens)
    BY <1>3, <1>5, <1>10
  <2>2. QED
    BY <1>6, <1>10, <2>1 DEF t
<1>11. QED
  BY <1>9, <1>10

(* The messages of the first n calls, and the images of their responses.   *)
MessagesOf(n) == FlattenSeq([k \in 1..n |-> Message(k)])

ImagesOf(n) == FlattenSeq([k \in 1..n |-> ImagesFrom(k)])

AnswersInOrder(n) ==
  /\ MessagesOf(n) \in Seq(ToolTokens)
  /\ Kind(MessagesOf(n), "tool") = [c \in 1..n |-> Token("tool", c)]
  /\ ImagesOf(n) \in Seq(ImageTokens)
  /\ Kind(MessagesOf(n), "image") = Kind(ImagesOf(n), "image")

(* Every prefix of the calls has its messages and images in their order.   *)
LEMMA MessagesInOrder ==
  ASSUME tool \in Seq(Coroutines), Len(tool) <= MaxParallelCalls
  PROVE  \A n \in 0..Len(tool) : AnswersInOrder(n)
<1> DEFINE Bad == {n \in 0..Len(tool) : ~AnswersInOrder(n)}
<1>1. Len(tool) \in Nat
  BY LenProperties
<1>2. SUFFICES ASSUME Bad # {} PROVE FALSE
  OBVIOUS
<1>3. PICK n \in Bad : \A k \in Bad : n <= k
  <2>1. Bad \in SUBSET Nat
    BY <1>1
  <2> HIDE DEF Bad
  <2>2. QED
    BY <1>2, <2>1, LeastNatural
<1>4. n \in 0..Len(tool) /\ ~AnswersInOrder(n)
  BY <1>3
<1>5. CASE n = 0
  <2>1. [k \in 1..0 |-> Message(k)] = <<>> /\ [k \in 1..0 |-> ImagesFrom(k)] = <<>>
    OBVIOUS
  <2>3. MessagesOf(0) = <<>> /\ ImagesOf(0) = <<>>
    BY <2>1 DEF MessagesOf, ImagesOf, FlattenSeq
  <2>4. Kind(<<>>, "tool") = <<>> /\ Kind(<<>>, "image") = <<>>
    BY KindEmpty
  <2>5. [c \in 1..0 |-> Token("tool", c)] = <<>>
    OBVIOUS
  <2>6. AnswersInOrder(0)
    <3>1. MessagesOf(0) \in Seq(ToolTokens) /\ ImagesOf(0) \in Seq(ImageTokens)
      BY <2>3, EmptySeq
    <3>2. Kind(MessagesOf(0), "tool") = [c \in 1..0 |-> Token("tool", c)]
      BY <2>3, <2>4, <2>5
    <3>3. Kind(MessagesOf(0), "image") = Kind(ImagesOf(0), "image")
      BY <2>3
    <3>4. QED
      BY <3>1, <3>2, <3>3 DEF AnswersInOrder
  <2>7. QED
    BY <1>4, <1>5, <2>6
<1>6. CASE n # 0
  <2> DEFINE m == n - 1
  <2>1. m \in 0..Len(tool) /\ m \in Nat /\ n \in 1..Len(tool) /\ n = m + 1 /\ ~(n <= m)
    BY <1>1, <1>4, <1>6
  <2>2. AnswersInOrder(m)
    <3> HIDE DEF m
    <3>1. m \notin Bad
      <4> HIDE DEF Bad
      <4>1. QED
        BY <1>3, <2>1
    <3>2. QED
      BY <2>1, <3>1
  <2> HIDE DEF m, Bad
  <2>3. \A c \in 1..Len(tool) :
          /\ Message(c) \in Seq(ToolTokens)
          /\ Kind(Message(c), "tool") = <<Token("tool", c)>>
          /\ ImagesFrom(c) \in Seq(ImageTokens)
          /\ Kind(Message(c), "image") = Kind(ImagesFrom(c), "image")
    BY MessageOfCall, ImagesOfCall
  <2> DEFINE messages == [k \in 1..m |-> Message(k)]
             images == [k \in 1..m |-> ImagesFrom(k)]
  <2>4. messages \in Seq(Seq(ToolTokens)) /\ Len(messages) = m
    <3>1. messages \in [1..m -> Seq(ToolTokens)]
      BY <2>1, <2>3
    <3> HIDE DEF messages
    <3>2. QED
      BY <2>1, <3>1, FunctionIsSequence
  <2>6. images \in Seq(Seq(ImageTokens)) /\ Len(images) = m
    <3>1. images \in [1..m -> Seq(ImageTokens)]
      BY <2>1, <2>3
    <3> HIDE DEF images
    <3>2. QED
      BY <2>1, <3>1, FunctionIsSequence
  <2>7. [k \in 1..n |-> Message(k)] = Append(messages, Message(n))
    BY <2>1
  <2>8. [k \in 1..n |-> ImagesFrom(k)] = Append(images, ImagesFrom(n))
    BY <2>1
  <2>9. MessagesOf(n) = MessagesOf(m) \o Message(n)
    <3>1. FlattenSeq(Append(messages, Message(n))) = FlattenSeq(messages) \o Message(n)
      <4> HIDE DEF messages
      <4>1. QED
        BY <2>1, <2>3, <2>4, FlattenAppend
    <3>2. QED
      BY <2>7, <3>1 DEF MessagesOf
  <2>10. ImagesOf(n) = ImagesOf(m) \o ImagesFrom(n)
    <3>1. FlattenSeq(Append(images, ImagesFrom(n))) = FlattenSeq(images) \o ImagesFrom(n)
      <4> HIDE DEF images
      <4>1. QED
        BY <2>1, <2>3, <2>6, FlattenAppend
    <3>2. QED
      BY <2>8, <3>1 DEF ImagesOf
  <2> DEFINE a == MessagesOf(m)
             b == Message(n)
  <2>11. /\ a \in Seq(ToolTokens) /\ b \in Seq(ToolTokens) /\ a \o b \in Seq(ToolTokens)
         /\ a \in Seq(Tokens) /\ b \in Seq(Tokens)
    <3>1. a \in Seq(ToolTokens) /\ b \in Seq(ToolTokens)
      BY <2>1, <2>2, <2>3 DEF AnswersInOrder
    <3>2. \A s \in Seq(ToolTokens) : s \in Seq(Tokens)
      BY DEF ToolTokens
    <3> HIDE DEF a, b
    <3>3. QED
      BY <3>1, <3>2, ConcatProperties
  <2>12. Kind(MessagesOf(n), "tool") = [c \in 1..n |-> Token("tool", c)]
    <3>1. Kind(a \o b, "tool") = Kind(a, "tool") \o Kind(b, "tool")
      <4> HIDE DEF a, b
      <4>1. QED
        BY <2>11, KindConcat
    <3>2. Kind(a, "tool") = [c \in 1..m |-> Token("tool", c)] /\ Kind(b, "tool") = <<Token("tool", n)>>
      BY <2>1, <2>2, <2>3 DEF AnswersInOrder
    <3>3. [c \in 1..m |-> Token("tool", c)] \o <<Token("tool", n)>> = [c \in 1..n |-> Token("tool", c)]
      <4>1. [c \in 1..n |-> Token("tool", c)] = Append([c \in 1..m |-> Token("tool", c)], Token("tool", n))
        BY <2>1
      <4>2. [c \in 1..m |-> Token("tool", c)] \in Seq(Tokens) /\ Token("tool", n) \in Tokens
        <5>1. \A c \in 1..n : c \in 0..MaxParallelCalls
          BY <1>1, <2>1, ConversationBounds
        <5>2. \A c \in 1..n : Token("tool", c) \in Tokens
          BY <5>1 DEF Token, Tokens
        <5>3. [c \in 1..m |-> Token("tool", c)] \in [1..m -> Tokens] /\ Token("tool", n) \in Tokens
          BY <2>1, <5>2
        <5>4. QED
          BY <2>1, <5>3, FunctionIsSequence
      <4> DEFINE s == [c \in 1..m |-> Token("tool", c)]
                 t == Token("tool", n)
      <4>3. Append(s, t) = s \o <<t>>
        <5> HIDE DEF s, t
        <5>1. QED
          BY <4>2, AppendIsConcat
      <4>4. QED
        BY <4>1, <4>3
    <3>4. QED
      BY <2>9, <3>1, <3>2, <3>3
  <2> DEFINE p == ImagesOf(m)
             q == ImagesFrom(n)
  <2>13. p \in Seq(ImageTokens) /\ q \in Seq(ImageTokens) /\ ImagesOf(n) \in Seq(ImageTokens)
    <3>1. p \in Seq(ImageTokens) /\ q \in Seq(ImageTokens)
      BY <2>1, <2>2, <2>3 DEF AnswersInOrder
    <3>2. p \o q \in Seq(ImageTokens)
      <4> HIDE DEF p, q
      <4>1. QED
        BY <3>1, ConcatProperties
    <3>3. QED
      BY <2>10, <3>1, <3>2
  <2>14. Kind(MessagesOf(n), "image") = Kind(ImagesOf(n), "image")
    <3>1. /\ Kind(a \o b, "image") = Kind(a, "image") \o Kind(b, "image")
          /\ Kind(p \o q, "image") = Kind(p, "image") \o Kind(q, "image")
      <4> HIDE DEF a, b, p, q
      <4>1. Kind(a \o b, "image") = Kind(a, "image") \o Kind(b, "image")
        BY <2>11, KindConcat
      <4>2. Kind(p \o q, "image") = Kind(p, "image") \o Kind(q, "image")
        BY <2>13, KindConcat
      <4>3. QED
        BY <4>1, <4>2
    <3>2. Kind(a, "image") = Kind(p, "image") /\ Kind(b, "image") = Kind(q, "image")
      BY <2>1, <2>2, <2>3 DEF AnswersInOrder
    <3>3. QED
      BY <2>9, <2>10, <3>1, <3>2
  <2>15. AnswersInOrder(n)
    BY <2>9, <2>11, <2>12, <2>13, <2>14 DEF AnswersInOrder
  <2>16. QED
    BY <1>4, <2>15
<1>7. QED
  BY <1>5, <1>6
----------------------------------------------------------------------------
(* What the template renders after the system prompt: the messages, and    *)
(* the prompt for the next answer.                                         *)
LEMMA NewIdsAre ==
  ASSUME NEW f \in Seq(Tokens)
  PROVE  /\ NewIds(f) = Append(f, Token("assistant", 0))
         /\ NewIds(f) \in Seq(Tokens) /\ Len(NewIds(f)) = Len(f) + 1
         /\ \A k \in 1..Len(f) : NewIds(f)[k] = f[k]
         /\ NewIds(f)[Len(f) + 1] = Token("assistant", 0)
<1> DEFINE s == Token("system", 0)
           a == Token("assistant", 0)
           All == Tokens \cup {s}
<1>1. /\ f \in Seq(All) /\ a \in Tokens /\ a \in All /\ s \in All
      /\ Len(f) \in Nat
  <2>1. a \in Tokens
    <3>1. 0 \in 0..MaxParallelCalls
      BY ConversationBounds
    <3>2. QED
      BY <3>1 DEF Tokens, Token
  <2>2. a \in All /\ s \in All
    BY <2>1
  <2>3. f \in Seq(All)
    <3>1. \A t \in Tokens : t \in All
      OBVIOUS
    <3> HIDE DEF All
    <3>2. QED
      BY <3>1
  <2>4. QED
    BY <2>1, <2>2, <2>3, LenProperties
<1> HIDE DEF s, a, All
<1> DEFINE whole == (<<s>> \o f) \o <<a>>
<1>2. /\ whole \in Seq(All) /\ Len(whole) = Len(f) + 2
      /\ \A k \in 1..Len(f) : whole[k + 1] = f[k]
      /\ whole[Len(f) + 2] = a
  <2> DEFINE front == <<s>> \o f
  <2>1. /\ front \in Seq(All) /\ Len(front) = Len(f) + 1
        /\ \A k \in 1..Len(f) : front[k + 1] = f[k]
    BY <1>1
  <2> HIDE DEF front
  <2>2. whole = Append(front, a)
    BY <1>1, <2>1, AppendIsConcat DEF front
  <2> HIDE DEF whole
  <2>3. QED
    BY <1>1, <2>1, <2>2
<1>3. NewIds(f) = SubSeq(whole, 2, Len(f) + 2)
  BY <1>2 DEF NewIds, Rendered, System, s, a
<1> HIDE DEF whole
<1> DEFINE new == SubSeq(whole, 2, Len(f) + 2)
<1>4. /\ Len(new) = Len(f) + 1
      /\ \A i \in 1..(Len(f) + 1) : new[i] = whole[i + 1]
      /\ new \in Seq(All)
  BY <1>1, <1>2
<1> HIDE DEF new
<1>5. new = Append(f, a)
  <2>1. Append(f, a) \in Seq(All) /\ Len(Append(f, a)) = Len(f) + 1
    BY <1>1
  <2>2. ASSUME NEW i \in 1..(Len(f) + 1)
        PROVE  new[i] = Append(f, a)[i]
    <3>1. CASE i <= Len(f)
      BY <1>1, <1>2, <1>4, <3>1
    <3>2. CASE ~(i <= Len(f))
      <4>1. i = Len(f) + 1 /\ i + 1 = Len(f) + 2
        BY <1>1, <3>2
      <4>2. QED
        BY <1>1, <1>2, <1>4, <4>1
    <3>3. QED
      BY <3>1, <3>2
  <2>3. QED
    BY <1>4, <2>1, <2>2, SeqEqual
<1>6. NewIds(f) = Append(f, a)
  BY <1>3, <1>5 DEF new
<1>7. QED
  BY <1>1, <1>6, AppendProperties DEF a

(* The lists stay aligned when they are extended together.                 *)
LEMMA AlignedExtended ==
  ASSUME NEW text \in Seq(Tokens), NEW tokens \in Seq(Tokens), NEW mask \in Seq({0, 1}),
         Aligned(text, tokens, mask),
         NEW more \in Seq(Tokens), NEW bits \in Seq({0, 1}), Len(bits) = Len(more),
         \A k \in 1..Len(more) : bits[k] = 1 <=> more[k].by = "model"
  PROVE  Aligned(text, tokens \o more, mask \o bits)
<1> DEFINE long == tokens \o more
           masked == mask \o bits
<1>1. Len(text) \in Nat /\ Len(mask) \in Nat /\ Len(more) \in Nat
  BY LenProperties
<1>2. /\ Len(tokens) = Len(text) + Len(mask)
      /\ \A k \in 1..Len(text) : tokens[k] = text[k]
      /\ \A k \in 1..Len(mask) : mask[k] = 1 <=> tokens[Len(text) + k].by = "model"
  BY DEF Aligned
<1>3. Len(long) = Len(tokens) + Len(more)
  BY ConcatElements
<1>4. \A k \in 1..Len(tokens) : long[k] = tokens[k]
  BY ConcatElements
<1>5. \A k \in 1..Len(more) : long[Len(tokens) + k] = more[k]
  BY ConcatElements
<1>6. Len(masked) = Len(mask) + Len(more)
  <2>1. Len(masked) = Len(mask) + Len(bits)
    BY ConcatElements
  <2>2. QED
    BY <2>1
<1>7. \A k \in 1..Len(mask) : masked[k] = mask[k]
  BY ConcatElements
<1>8. \A k \in 1..Len(more) : masked[Len(mask) + k] = bits[k]
  BY ConcatElements
<1> HIDE DEF long, masked
<1>9. Len(long) = Len(text) + Len(masked)
  BY <1>1, <1>2, <1>3, <1>6
<1>10. \A k \in 1..Len(text) : long[k] = text[k]
  BY <1>1, <1>2, <1>4
<1>11. ASSUME NEW k \in 1..Len(masked)
       PROVE  masked[k] = 1 <=> long[Len(text) + k].by = "model"
  <2>1. CASE k <= Len(mask)
    <3>1. k \in 1..Len(mask) /\ Len(text) + k \in 1..Len(tokens)
      BY <1>1, <1>2, <1>6, <2>1
    <3>2. masked[k] = mask[k] /\ long[Len(text) + k] = tokens[Len(text) + k]
      BY <1>4, <1>7, <3>1
    <3>3. QED
      BY <1>2, <3>1, <3>2
  <2>2. CASE ~(k <= Len(mask))
    <3> DEFINE j == k - Len(mask)
    <3>1. j \in 1..Len(more) /\ k = Len(mask) + j /\ Len(text) + k = Len(tokens) + j
      BY <1>1, <1>2, <1>6, <2>2
    <3> HIDE DEF j
    <3>2. masked[k] = bits[j] /\ long[Len(text) + k] = more[j]
      BY <1>5, <1>8, <3>1
    <3>3. QED
      BY <3>1, <3>2
  <2>3. QED
    BY <2>1, <2>2
<1>12. QED
  BY <1>9, <1>10, <1>11 DEF Aligned, long, masked

(* What a handler appends with Extend keeps ids, mask and log-             *)
(* probabilities in step; the mask of what is not the model's is never the *)
(* first.                                                                  *)
LEMMA ExtendKeepsStep ==
  ASSUME ConversationTypes, ListsInStep, state # "PENDING",
         NEW more \in Seq(Tokens), NEW bit \in {0, 1}, Extend(more, bit),
         \A k \in 1..Len(more) : bit = 1 <=> more[k].by = "model",
         bit = 0 => response_mask # <<>>,
         UNCHANGED config, state' # "PENDING"
  PROVE  /\ prompt_ids' = prompt_ids \o more /\ prompt_ids' \in Seq(Tokens)
         /\ response_mask' \in Seq({0, 1})
         /\ Len(response_mask') = Len(response_mask) + Len(more)
         /\ ListsInStep'
<1> DEFINE bits == Repeated(Len(more), bit)
<1>1. Len(more) \in Nat
  BY LenProperties
<1>2. bits \in Seq({0, 1}) /\ Len(bits) = Len(more) /\ \A k \in 1..Len(more) : bits[k] = bit
  BY <1>1 DEF Repeated
<1>3. prompt_ids \in Seq(Tokens) /\ response_mask \in Seq({0, 1}) /\ prompt \in Seq(Tokens)
  BY DEF ConversationTypes
<1>4. /\ prompt_ids' = prompt_ids \o more
      /\ response_mask' = response_mask \o bits
      /\ logprobs' = IF (bit = 1 /\ logs) \/ logprobs # <<>> THEN logprobs \o bits ELSE logprobs
      /\ prompt' = prompt /\ logs' = logs
  BY DEF Extend, config
<1> HIDE DEF bits
<1>5. prompt_ids' \in Seq(Tokens)
  BY <1>3, <1>4, ConcatProperties
<1>6. response_mask' \in Seq({0, 1}) /\ Len(response_mask') = Len(response_mask) + Len(more)
  <2>1. response_mask \o bits \in Seq({0, 1})
    BY <1>2, <1>3, ConcatElements
  <2>2. Len(response_mask \o bits) = Len(response_mask) + Len(bits)
    BY <1>2, <1>3, ConcatElements
  <2>3. QED
    BY <1>2, <1>4, <2>1, <2>2
<1>7. logprobs' = IF logs' THEN response_mask' ELSE <<>>
  <2>1. logprobs = IF logs THEN response_mask ELSE <<>>
    BY DEF ListsInStep
  <2>2. CASE logs
    <3>1. logprobs = response_mask /\ ((bit = 1 /\ logs) \/ logprobs # <<>>)
      BY <2>1, <2>2
    <3>2. QED
      BY <1>4, <2>2, <3>1
  <2>3. CASE ~logs
    BY <1>4, <2>1, <2>3
  <2>4. QED
    BY <2>2, <2>3
<1>8. Aligned(prompt, prompt_ids, response_mask)
  BY DEF ListsInStep
<1>9. Aligned(prompt, prompt_ids \o more, response_mask \o bits)
  BY <1>2, <1>3, <1>8, AlignedExtended
<1>10. Aligned(prompt', prompt_ids', response_mask')
  BY <1>4, <1>9 DEF Aligned
<1>11. QED
  BY <1>4, <1>5, <1>6, <1>7, <1>10 DEF ListsInStep

(* The smaller of two numbers.                                             *)
LEMMA Smaller ==
  ASSUME NEW a \in Nat, NEW b \in Nat
  PROVE  Min({a, b}) = IF a <= b THEN a ELSE b
BY DEF Min

(* The invariant holds when a conversation begins.                         *)
LEMMA ConversationInitially == ConversationInit => ConversationInv
<1> SUFFICES ASSUME ConversationInit PROVE ConversationInv
  OBVIOUS
<1>1. prompt \in Seq(Tokens) /\ prompt # <<>>
  <2> DEFINE Said == {Token("text", 0), Token("image", 0)}
  <2>1. /\ prompt \in SeqOf(Said, MaxPrompt)
        /\ prompt # <<>>
    BY DEF ConversationInit
  <2>2. PICK n \in 0..MaxPrompt : prompt \in [1..n -> Said]
    <3> HIDE DEF Said
    <3>1. QED
      BY <2>1, ConversationBounds DEF SeqOf
  <2>3. n \in Nat
    BY <2>2, ConversationBounds
  <2>4. prompt \in Seq(Said) /\ Len(prompt) = n
    <3> HIDE DEF Said
    <3>1. QED
      BY <2>2, <2>3, FunctionIsSequence
  <2>5. \A t \in Said : t \in Tokens
    <3>1. 0 \in 0..MaxParallelCalls
      BY ConversationBounds
    <3>2. QED
      BY <3>1 DEF Tokens, Token
  <2> HIDE DEF Said
  <2>6. prompt \in Seq(Tokens)
    BY <2>4, <2>5
  <2>7. QED
    BY <2>1, <2>6
<1>2. /\ state = "PENDING" /\ prompt_ids = <<>> /\ response_mask = <<>> /\ logprobs = <<>>
      /\ image_data = <<>> /\ tool = <<>> /\ assistant_turns = 0 /\ user_turns = 0
      /\ vision \in BOOLEAN /\ logs \in BOOLEAN /\ interacts \in BOOLEAN
  BY DEF ConversationInit
<1>3. \A S : <<>> \in Seq(S)
  BY EmptySeq
<1>4. ConversationTypes
  BY <1>1, <1>2, <1>3, ConversationBounds DEF ConversationTypes
<1>5. ListsInStep
  BY <1>2 DEF ListsInStep
<1>6. ResponseBounded /\ LastSpeaker /\ ResponsesFollowCalls /\ ImagesInStep
  BY <1>2 DEF ResponseBounded, LastSpeaker, ResponsesFollowCalls, ImagesInStep
<1>7. QED
  BY <1>4, <1>5, <1>6 DEF ConversationInv
----------------------------------------------------------------------------
(* The steps that leave the lists alone.                                   *)
LEMMA HandlePendingKeeps ==
  ASSUME ConversationInv, HandlePending
  PROVE  ConversationInv'
<1>1. /\ ConversationTypes /\ ListsInStep /\ state = "PENDING" /\ state' = "GENERATING"
      /\ prompt_ids' = prompt /\ response_mask' = response_mask /\ logprobs' = logprobs
      /\ image_data' = Images(prompt)
      /\ tool' = tool /\ prompt' = prompt /\ vision' = vision /\ logs' = logs
      /\ interacts' = interacts /\ assistant_turns' = assistant_turns /\ user_turns' = user_turns
      /\ tool = <<>>
  BY DEF ConversationInv, HandlePending, config, turnCounts, LastSpeaker
<1>2. response_mask = <<>>
  BY <1>1 DEF ListsInStep
<1> DEFINE images == Images(prompt)
           Shown == {t \in Tokens : t.by = "image"}
<1>3. images \in Seq(Shown)
  <2>1. prompt \in Seq(Tokens)
    BY <1>1 DEF ConversationTypes
  <2>2. \A k \in DOMAIN prompt : prompt[k] \in Tokens
    BY <2>1, LenProperties, ElementOfSeq
  <2>3. \A k \in DOMAIN prompt : prompt[k].by = "image" => prompt[k] \in Shown
    BY <2>2
  <2> HIDE DEF Shown
  <2>4. QED
    BY <2>1, <2>3, KindElements DEF Images
<1>4. Kind(images, "image") = images
  <2>1. \A k \in DOMAIN images : images[k] \in Shown
    <3> HIDE DEF images, Shown
    <3>1. QED
      BY <1>3, LenProperties, ElementOfSeq
  <2>2. \A k \in DOMAIN images : images[k].by = "image"
    BY <2>1
  <2> HIDE DEF images, Shown
  <2>3. QED
    BY <1>3, <2>2, KindAll
<1>5. image_data' \in Seq(ImageTokens)
  <2>1. \A t \in Shown : t \in ImageTokens
    BY DEF Tokens, ImageTokens
  <2> HIDE DEF images, Shown
  <2>2. images \in Seq(ImageTokens)
    BY <1>3, <2>1
  <2>3. QED
    BY <1>1, <2>2 DEF images
<1>6. ConversationTypes'
  BY <1>1, <1>5 DEF ConversationTypes
<1>7. Aligned(prompt, prompt, <<>>)
  <2>1. Len(prompt) \in Nat
    BY <1>1, LenProperties DEF ConversationTypes
  <2>2. QED
    BY <2>1 DEF Aligned
<1>8. ListsInStep'
  <2>1. Aligned(prompt', prompt_ids', response_mask')
    BY <1>1, <1>2, <1>7
  <2>2. logprobs' = IF logs' THEN response_mask' ELSE <<>>
    BY <1>1 DEF ListsInStep
  <2>3. QED
    BY <1>1, <2>1, <2>2 DEF ListsInStep
<1>9. ResponseBounded'
  BY <1>1, <1>2, ConversationBounds DEF ResponseBounded
<1>10. LastSpeaker' /\ ResponsesFollowCalls'
  BY <1>1 DEF LastSpeaker, ResponsesFollowCalls
<1>11. ImagesInStep'
  BY <1>1, <1>4 DEF ImagesInStep
<1>12. QED
  BY <1>6, <1>8, <1>9, <1>10, <1>11 DEF ConversationInv

(* Whatever raises leaves everything else as it was.                       *)
LEMMA RaisedKeeps ==
  ASSUME ConversationInv, state # "PENDING", state' = "RAISED",
         UNCHANGED <<config, ids, tool, turnCounts>>
  PROVE  ConversationInv'
<1>1. /\ UNCHANGED <<vision, logs, interacts, prompt, prompt_ids, response_mask, logprobs>>
      /\ UNCHANGED <<image_data, tool, assistant_turns, user_turns>>
  BY DEF config, ids, turnCounts
<1>2. ConversationTypes' /\ ListsInStep'
  BY <1>1 DEF ConversationInv, ConversationTypes, ListsInStep
<1>3. ResponseBounded' /\ LastSpeaker' /\ ResponsesFollowCalls' /\ ImagesInStep'
  BY DEF ResponseBounded, LastSpeaker, ResponsesFollowCalls, ImagesInStep
<1>4. QED
  BY <1>2, <1>3 DEF ConversationInv

(* A coroutine of a call moves on; it touches none of the lists.           *)
LEMMA MovesKeeps ==
  ASSUME ConversationInv, NEW c, NEW from,
         NEW to \in {"create", "execute", "release", "returned", "raised"},
         NEW images \in 0..MaxImages, Moves(c, from, to, images)
  PROVE  ConversationInv'
<1>1. /\ UNCHANGED <<vision, logs, interacts, prompt, state, prompt_ids, response_mask, logprobs>>
      /\ UNCHANGED <<image_data, assistant_turns, user_turns>>
      /\ state \in {"PROCESSING_TOOLS", "RAISED"} /\ c \in DOMAIN tool
      /\ tool' = [tool EXCEPT ![c] = [at |-> to, images |-> images]]
      /\ ConversationTypes
  BY DEF ConversationInv, Moves, config, ids, turnCounts
<1>2. tool \in Seq(Coroutines) /\ Len(tool) <= MaxParallelCalls
  BY <1>1 DEF ConversationTypes
<1>3. [at |-> to, images |-> images] \in Coroutines
  BY DEF Coroutines
<1>4. tool' \in Seq(Coroutines) /\ Len(tool') = Len(tool)
  <2> DEFINE r == [at |-> to, images |-> images]
  <2>1. Len(tool) \in Nat /\ DOMAIN tool = 1..Len(tool) /\ tool \in [1..Len(tool) -> Coroutines]
    BY <1>2, LenProperties
  <2>2. r \in Coroutines
    BY <1>3
  <2> HIDE DEF r
  <2>3. [tool EXCEPT ![c] = r] \in [1..Len(tool) -> Coroutines]
    BY <2>1, <2>2
  <2>4. [tool EXCEPT ![c] = r] \in Seq(Coroutines) /\ Len([tool EXCEPT ![c] = r]) = Len(tool)
    BY <2>1, <2>3, FunctionIsSequence
  <2>5. QED
    BY <1>1, <2>4 DEF r
<1>5. ConversationTypes'
  BY <1>1, <1>2, <1>4 DEF ConversationTypes
<1>6. ListsInStep'
  BY <1>1 DEF ConversationInv, ListsInStep
<1>7. ResponseBounded' /\ LastSpeaker' /\ ResponsesFollowCalls'
  BY <1>1 DEF ConversationInv, ResponseBounded, LastSpeaker, ResponsesFollowCalls
<1>8. ImagesInStep'
  BY <1>1 DEF ConversationInv, ImagesInStep
<1>9. QED
  BY <1>5, <1>6, <1>7, <1>8 DEF ConversationInv

(* Each step of a coroutine is such a move.                                *)
LEMMA ToolStepKeeps ==
  ASSUME ConversationInv, NEW c, ToolStep(c)
  PROVE  ConversationInv'
<1>1. 0 \in 0..MaxImages
  BY ConversationBounds
<1>2. CASE CallFails(c)
  BY <1>1, <1>2, MovesKeeps DEF CallFails
<1>3. CASE Create(c)
  BY <1>1, <1>3, MovesKeeps DEF Create
<1>4. CASE Execute(c)
  BY <1>4, MovesKeeps DEF Execute
<1>5. CASE Release(c)
  <2>1. tool[c] \in Coroutines
    BY <1>5, LenProperties, ElementOfSeq DEF Release, Moves, ConversationInv, ConversationTypes
  <2>2. tool[c].images \in 0..MaxImages
    BY <2>1 DEF Coroutines
  <2>3. QED
    BY <1>5, <2>2, MovesKeeps DEF Release
<1>6. CASE ReleaseRaises(c)
  BY <1>1, <1>6, MovesKeeps DEF ReleaseRaises
<1>7. QED
  BY <1>2, <1>3, <1>4, <1>5, <1>6 DEF ToolStep
----------------------------------------------------------------------------
(* The steps that extend the lists.                                        *)
(* The images stay in step when what is said has none.                     *)
LEMMA NoImages ==
  ASSUME NEW tokens \in Seq(Tokens), NEW more \in Seq(Tokens),
         \A k \in DOMAIN more : more[k].by # "image"
  PROVE  Images(tokens \o more) = Images(tokens)
<1>1. Kind(tokens \o more, "image") = Kind(tokens, "image") \o Kind(more, "image")
  BY KindConcat
<1>2. Kind(more, "image") = <<>>
  BY KindNone
<1>3. Kind(tokens, "image") \in Seq(Tokens)
  BY SinglesTyped
<1>4. QED
  BY <1>1, <1>2, <1>3, ConcatEmptySeq DEF Images

(* The model answers.                                                      *)
LEMMA AnswerKeeps ==
  ASSUME ConversationInv, NEW n \in 1..MaxAnswer, NEW asked \in 0..MaxToolCalls, Answer(n, asked)
  PROVE  ConversationInv'
<1> DEFINE model == Token("model", 0)
           more == Repeated(n, model)
<1>1. /\ ConversationTypes /\ ListsInStep /\ state = "GENERATING" /\ Extend(more, 1)
      /\ UNCHANGED config /\ image_data' = image_data /\ user_turns' = user_turns
      /\ assistant_turns' = assistant_turns + 1
      /\ state' = AfterAnswer(Len(response_mask) + n, asked)
      /\ tool' = IF state' = "PROCESSING_TOOLS" THEN Called(asked) ELSE <<>>
      /\ n \in Nat /\ n >= 1 /\ asked \in Nat
  BY ConversationBounds DEF ConversationInv, Answer
<1>2. vision' = vision /\ logs' = logs /\ interacts' = interacts /\ prompt' = prompt
  BY <1>1 DEF config
<1>3. more \in Seq(Tokens) /\ Len(more) = n /\ \A k \in 1..n : more[k].by = "model"
  <2>1. model \in Tokens /\ model.by = "model"
    BY ConversationBounds DEF Token, Tokens
  <2> HIDE DEF model
  <2>2. QED
    BY <1>1, <2>1, RepeatedIs
<1> HIDE DEF more
<1>4. /\ state' \in {"PROCESSING_TOOLS", "INTERACTING", "TERMINATED"}
      /\ state' \in {"PROCESSING_TOOLS", "INTERACTING"} => ~(Len(response_mask) + n >= ResponseLength)
      /\ state' = "INTERACTING" => interacts
  BY <1>1 DEF AfterAnswer
<1>5. /\ prompt_ids' = prompt_ids \o more /\ prompt_ids' \in Seq(Tokens)
      /\ response_mask' \in Seq({0, 1})
      /\ Len(response_mask') = Len(response_mask) + n
      /\ ListsInStep'
  <2>1. /\ \A k \in 1..Len(more) : 1 = 1 <=> more[k].by = "model"
        /\ 1 = 0 => response_mask # <<>>
        /\ state # "PENDING" /\ state' # "PENDING"
        /\ 1 \in {0, 1}
    BY <1>1, <1>3, <1>4
  <2> DEFINE bit == 1
  <2>2. /\ bit \in {0, 1} /\ Extend(more, bit)
        /\ \A k \in 1..Len(more) : bit = 1 <=> more[k].by = "model"
        /\ bit = 0 => response_mask # <<>>
    BY <1>1, <2>1
  <2> HIDE DEF bit
  <2>3. QED
    BY <1>1, <1>3, <2>1, <2>2, ExtendKeepsStep
<1>6. Len(response_mask) \in Nat /\ Len(prompt_ids) \in Nat
  BY <1>1, LenProperties DEF ConversationTypes
<1>7. Called(asked) \in Seq(Coroutines) /\ Len(Called(asked)) <= MaxParallelCalls
  <2> DEFINE m == Min({asked, MaxParallelCalls})
             r == [at |-> "create", images |-> 0]
  <2>1. m \in Nat /\ m <= MaxParallelCalls
    BY <1>1, ConversationBounds, Smaller
  <2>2. r \in Coroutines
    BY ConversationBounds DEF Coroutines
  <2>3. Called(asked) = [c \in 1..m |-> r]
    BY DEF Called
  <2> HIDE DEF m, r
  <2>4. Called(asked) \in [1..m -> Coroutines]
    BY <2>2, <2>3
  <2>5. QED
    BY <2>1, <2>4, FunctionIsSequence
<1>8. tool' \in Seq(Coroutines) /\ Len(tool') <= MaxParallelCalls
  <2>1. <<>> \in Seq(Coroutines) /\ Len(<<>>) = 0
    BY EmptySeq
  <2>2. QED
    BY <1>1, <1>7, <2>1, ConversationBounds
<1>9. ConversationTypes'
  BY <1>1, <1>2, <1>4, <1>5, <1>8 DEF ConversationTypes
<1>10. response_mask' # <<>>
  BY <1>1, <1>5, <1>6
<1>11. ResponseBounded'
  BY <1>2, <1>4, <1>5, <1>6, <1>10, <1>1, ConversationBounds DEF ResponseBounded
<1>12. prompt_ids'[Len(prompt_ids')].by = "model"
  <2>1. /\ Len(prompt_ids \o more) = Len(prompt_ids) + n
        /\ (prompt_ids \o more)[Len(prompt_ids) + n] = more[n]
    <3>1. prompt_ids \in Seq(Tokens)
      BY <1>1 DEF ConversationTypes
    <3>2. Len(prompt_ids \o more) = Len(prompt_ids) + n
      BY <1>3, <3>1, ConcatElements
    <3>3. (prompt_ids \o more)[Len(prompt_ids) + n] = more[n]
      BY <1>1, <1>3, <3>1, ConcatElements
    <3>4. QED
      BY <3>2, <3>3
  <2>2. n \in 1..n
    BY <1>1
  <2>3. QED
    BY <1>3, <1>5, <2>1, <2>2
<1>13. LastSpeaker'
  BY <1>1, <1>4, <1>12 DEF LastSpeaker
<1>14. ResponsesFollowCalls'
  BY <1>4 DEF ResponsesFollowCalls
<1>15. ImagesInStep'
  <2>1. Images(prompt_ids) = Kind(image_data, "image")
    BY <1>1 DEF ConversationInv, ImagesInStep
  <2>2. Images(prompt_ids \o more) = Images(prompt_ids)
    <3>1. prompt_ids \in Seq(Tokens) /\ \A k \in DOMAIN more : more[k].by # "image"
      BY <1>1, <1>3, LenProperties DEF ConversationTypes
    <3>2. QED
      BY <1>3, <3>1, NoImages
  <2>3. QED
    BY <1>1, <1>5, <2>1, <2>2 DEF ImagesInStep
<1>16. QED
  BY <1>5, <1>9, <1>11, <1>13, <1>14, <1>15 DEF ConversationInv

(* The simulated user answers: none of its calls are open, no image is     *)
(* sent.                                                                   *)
LEMMA UserAnswersKeeps ==
  ASSUME ConversationInv, NEW n \in 1..MaxAnswer, NEW end, UserAnswers(n, end)
  PROVE  ConversationInv'
<1> DEFINE said == Repeated(n, Token("user", 0))
           more == NewIds(said)
<1>1. /\ ConversationTypes /\ ListsInStep /\ state = "INTERACTING" /\ Extend(more, 0)
      /\ UNCHANGED config /\ image_data' = image_data /\ user_turns' = user_turns + 1
      /\ tool' = tool /\ assistant_turns' = assistant_turns
      /\ state' \in {"TERMINATED", "GENERATING"}
      /\ n \in Nat /\ n >= 1
  BY ConversationBounds DEF ConversationInv, UserAnswers
<1>2. vision' = vision /\ logs' = logs /\ interacts' = interacts /\ prompt' = prompt
  BY <1>1 DEF config
<1>3. /\ tool = <<>> /\ interacts /\ response_mask # <<>>
  BY <1>1 DEF ConversationInv, LastSpeaker, ResponseBounded
<1>4. more \in Seq(Tokens) /\ \A k \in DOMAIN more : more[k].by \in {"user", "assistant"}
  <2> DEFINE user == Token("user", 0)
  <2>1. user \in Tokens /\ user.by = "user" /\ Token("assistant", 0).by = "assistant"
    BY ConversationBounds DEF Token, Tokens
  <2> HIDE DEF user
  <2>2. said \in Seq(Tokens) /\ Len(said) = n /\ \A k \in 1..n : said[k].by = "user"
    BY <1>1, <2>1, RepeatedIs DEF user
  <2> HIDE DEF said
  <2>3. /\ more \in Seq(Tokens) /\ Len(more) = n + 1
        /\ \A k \in 1..n : more[k] = said[k]
        /\ more[n + 1] = Token("assistant", 0)
    BY <2>2, NewIdsAre
  <2> HIDE DEF more
  <2>4. DOMAIN more = 1..(n + 1)
    BY <1>1, <2>3, LenProperties
  <2>5. QED
    BY <1>1, <2>1, <2>2, <2>3, <2>4
<1> HIDE DEF more
<1>5. /\ prompt_ids' = prompt_ids \o more /\ prompt_ids' \in Seq(Tokens)
      /\ response_mask' \in Seq({0, 1})
      /\ Len(response_mask') = Len(response_mask) + Len(more)
      /\ ListsInStep'
  <2> DEFINE bit == 0
  <2>1. /\ bit \in {0, 1} /\ Extend(more, bit)
        /\ \A k \in 1..Len(more) : bit = 1 <=> more[k].by = "model"
        /\ bit = 0 => response_mask # <<>>
        /\ state # "PENDING" /\ state' # "PENDING"
    BY <1>1, <1>3, <1>4, LenProperties
  <2> HIDE DEF bit
  <2>2. QED
    BY <1>1, <1>4, <2>1, ExtendKeepsStep
<1>6. Len(response_mask) \in Nat /\ Len(more) \in Nat /\ Len(response_mask) > 0
  BY <1>1, <1>3, <1>4, LenProperties, EmptySeq DEF ConversationTypes
<1>7. ConversationTypes'
  BY <1>1, <1>2, <1>5 DEF ConversationTypes
<1>8. ResponseBounded'
  <2>1. response_mask' # <<>>
    BY <1>5, <1>6
  <2>2. QED
    BY <1>1, <1>2, <1>3, <2>1 DEF ResponseBounded
<1>9. LastSpeaker' /\ ResponsesFollowCalls'
  BY <1>1, <1>3 DEF LastSpeaker, ResponsesFollowCalls
<1>10. ImagesInStep'
  <2>1. Images(prompt_ids) = Kind(image_data, "image")
    BY <1>1 DEF ConversationInv, ImagesInStep
  <2>2. Images(prompt_ids \o more) = Images(prompt_ids)
    <3>1. prompt_ids \in Seq(Tokens) /\ \A k \in DOMAIN more : more[k].by # "image"
      BY <1>1, <1>4 DEF ConversationTypes
    <3>2. QED
      BY <1>4, <3>1, NoImages
  <2>3. QED
    BY <1>1, <1>5, <2>1, <2>2 DEF ImagesInStep
<1>11. QED
  BY <1>5, <1>7, <1>8, <1>9, <1>10 DEF ConversationInv

(* The end of a concatenation.                                             *)
LEMMA EndOfConcat ==
  ASSUME NEW S, NEW a \in Seq(S), NEW b \in Seq(S)
  PROVE  SubSeq(a \o b, Len(a) + 1, Len(a) + Len(b)) = b
<1> DEFINE c == a \o b
           d == SubSeq(c, Len(a) + 1, Len(a) + Len(b))
<1>1. c \in Seq(S) /\ Len(c) = Len(a) + Len(b) /\ Len(a) \in Nat /\ Len(b) \in Nat
  BY ConcatElements, LenProperties
<1>2. \A i \in 1..Len(b) : c[Len(a) + i] = b[i]
  BY ConcatElements
<1> HIDE DEF c
<1>3. /\ d \in Seq(S) /\ Len(d) = Len(b)
      /\ \A i \in 1..Len(b) : d[i] = c[Len(a) + i]
  BY <1>1
<1> HIDE DEF d
<1>4. \A i \in 1..Len(b) : d[i] = b[i]
  BY <1>2, <1>3
<1>5. d = b
  BY <1>1, <1>3, <1>4, SeqEqual
<1>6. QED
  BY <1>1, <1>5 DEF d, c

(* The ids of the responses: a message per call, and the assistant prompt. *)
LEMMA ToolIdsAre ==
  ASSUME tool \in Seq(Coroutines), Len(tool) <= MaxParallelCalls
  PROVE  /\ ToolIds \in Seq(Tokens)
         /\ \A k \in DOMAIN ToolIds : ToolIds[k].by \in {"tool", "image", "assistant"}
         /\ Kind(ToolIds, "tool") = [c \in DOMAIN tool |-> Token("tool", c)]
         /\ NewImages \in Seq(ImageTokens)
         /\ Images(ToolIds) = Kind(NewImages, "image")
<1> DEFINE n == Len(tool)
           f == MessagesOf(n)
           a == Token("assistant", 0)
<1>1. n \in Nat /\ DOMAIN tool = 1..n
  BY LenProperties
<1>2. AnswersInOrder(n)
  BY <1>1, MessagesInOrder
<1>3. ToolIds = NewIds(f) /\ NewImages = ImagesOf(n)
  BY <1>1 DEF ToolIds, NewImages, Responses, MessagesOf, ImagesOf
<1>4. /\ f \in Seq(ToolTokens) /\ Kind(f, "tool") = [c \in DOMAIN tool |-> Token("tool", c)]
      /\ ImagesOf(n) \in Seq(ImageTokens) /\ Kind(f, "image") = Kind(ImagesOf(n), "image")
  BY <1>1, <1>2 DEF AnswersInOrder
<1>5. a \in Tokens /\ a.by = "assistant"
  BY ConversationBounds DEF Token, Tokens
<1> HIDE DEF n, f, a
<1>6. f \in Seq(Tokens) /\ \A k \in DOMAIN f : f[k].by \in {"tool", "image"}
  <2>1. \A t \in ToolTokens : t \in Tokens /\ t.by \in {"tool", "image"}
    BY DEF ToolTokens
  <2>2. \A k \in DOMAIN f : f[k] \in ToolTokens
    BY <1>4, LenProperties, ElementOfSeq
  <2>3. QED
    BY <1>4, <2>1, <2>2
<1> DEFINE ones == <<a>>
<1>7. /\ ones \in Seq(Tokens)
      /\ Kind(ones, "tool") = <<>> /\ Kind(ones, "image") = <<>>
  BY <1>5, KindOne
<1> HIDE DEF ones
<1>8. NewIds(f) = f \o ones
  BY <1>5, <1>6, NewIdsAre, AppendIsConcat DEF ones, a
<1>9. ASSUME NEW who \in {"tool", "image"}
      PROVE  Kind(NewIds(f), who) = Kind(f, who)
  <2>1. Kind(f \o ones, who) = Kind(f, who) \o Kind(ones, who)
    <3>1. f \in Seq(Tokens) /\ ones \in Seq(Tokens)
      BY <1>6, <1>7
    <3>2. Kind(f \o ones, "tool") = Kind(f, "tool") \o Kind(ones, "tool")
      BY <3>1, KindConcat
    <3>3. Kind(f \o ones, "image") = Kind(f, "image") \o Kind(ones, "image")
      BY <3>1, KindConcat
    <3>4. QED
      BY <3>2, <3>3
  <2>2. Kind(f, who) \in Seq(Tokens)
    BY <1>6, SinglesTyped
  <2>3. Kind(ones, who) = <<>>
    BY <1>7
  <2>4. QED
    BY <1>8, <2>1, <2>2, <2>3, ConcatEmptySeq
<1>10. /\ NewIds(f) \in Seq(Tokens)
       /\ \A k \in DOMAIN NewIds(f) : NewIds(f)[k].by \in {"tool", "image", "assistant"}
  <2>1. /\ NewIds(f) \in Seq(Tokens) /\ Len(NewIds(f)) = Len(f) + 1
        /\ \A k \in 1..Len(f) : NewIds(f)[k] = f[k]
        /\ NewIds(f)[Len(f) + 1] = a
    BY <1>6, NewIdsAre DEF a
  <2>2. Len(f) \in Nat /\ DOMAIN f = 1..Len(f) /\ DOMAIN NewIds(f) = 1..(Len(f) + 1)
    BY <1>6, <2>1, LenProperties
  <2>3. QED
    BY <1>5, <1>6, <2>1, <2>2
<1>11. QED
  BY <1>3, <1>4, <1>9, <1>10 DEF Images

(* Where the model spoke last.                                             *)
LastSaid(tokens) == Max({0} \cup {k \in DOMAIN tokens : tokens[k].by = "model"})

LEMMA LastAnswer ==
  ASSUME NEW p \in Seq(Tokens), NEW more \in Seq(Tokens), p # <<>>, p[Len(p)].by = "model",
         \A k \in DOMAIN more : more[k].by # "model",
         NEW q, q = p \o more
  PROVE  LastSaid(q) = Len(p)
<1>1. /\ q \in Seq(Tokens) /\ Len(q) = Len(p) + Len(more) /\ Len(p) \in Nat /\ Len(more) \in Nat
      /\ DOMAIN q = 1..(Len(p) + Len(more)) /\ Len(p) > 0 /\ DOMAIN more = 1..Len(more)
  <2>1. Len(q) = Len(p) + Len(more) /\ q \in Seq(Tokens)
    BY ConcatElements
  <2>2. QED
    BY <2>1, LenProperties, EmptySeq
<1>2. \A i \in 1..Len(p) : q[i] = p[i]
  BY ConcatElements
<1>3. \A i \in 1..Len(more) : q[Len(p) + i] = more[i]
  BY ConcatElements
<1> DEFINE Spoken == {0} \cup {k \in DOMAIN q : q[k].by = "model"}
<1>4. Len(p) \in Spoken
  <2>1. Len(p) \in 1..Len(p) /\ Len(p) \in DOMAIN q
    BY <1>1
  <2>2. q[Len(p)] = p[Len(p)]
    BY <1>2, <2>1
  <2>3. QED
    BY <2>1, <2>2
<1>5. ASSUME NEW k \in Spoken
      PROVE  k \in Nat /\ k <= Len(p)
  <2>1. CASE k = 0
    BY <1>1, <2>1
  <2>2. CASE k # 0
    <3>1. k \in 1..(Len(p) + Len(more)) /\ q[k].by = "model"
      BY <1>1, <2>2
    <3> DEFINE j == k - Len(p)
    <3>2. ASSUME ~(k <= Len(p)) PROVE FALSE
      <4>1. j \in 1..Len(more) /\ k = Len(p) + j
        BY <1>1, <3>1, <3>2
      <4> HIDE DEF j
      <4>2. q[k] = more[j]
        BY <1>3, <4>1
      <4>3. QED
        BY <1>1, <3>1, <4>1, <4>2
    <3>3. QED
      BY <1>1, <3>1, <3>2
  <2>3. QED
    BY <2>1, <2>2
<1> HIDE DEF Spoken
<1>6. Max(Spoken) = Len(p)
  <2>1. Max(Spoken) \in Spoken /\ \A k \in Spoken : Max(Spoken) >= k
    BY <1>4, <1>5 DEF Max
  <2>2. QED
    BY <1>1, <1>4, <1>5, <2>1
<1>7. QED
  BY <1>6 DEF Spoken, LastSaid

(* The responses are appended, are left out, or cannot be seen.            *)
LEMMA HandleResponsesKeeps ==
  ASSUME ConversationInv, HandleResponses
  PROVE  ConversationInv'
<1>1. ConversationTypes /\ ListsInStep /\ state = "PROCESSING_TOOLS" /\ UNCHANGED <<config, tool>>
  BY DEF ConversationInv, HandleResponses
<1>2. CASE NewImages # <<>> /\ ~vision
  <2>1. state' = "RAISED" /\ UNCHANGED <<config, ids, tool, turnCounts>> /\ state # "PENDING"
    BY <1>1, <1>2 DEF HandleResponses
  <2>2. QED
    BY <2>1, RaisedKeeps
<1>3. CASE ~(NewImages # <<>> /\ ~vision)
  <2> DEFINE more == ToolIds
             new == NewImages
  <2>1. /\ more \in Seq(Tokens) /\ \A k \in DOMAIN more : more[k].by \in {"tool", "image", "assistant"}
        /\ Kind(more, "tool") = [c \in DOMAIN tool |-> Token("tool", c)]
        /\ new \in Seq(ImageTokens) /\ Images(more) = Kind(new, "image")
    BY <1>1, ToolIdsAre DEF ConversationTypes
  <2>2. /\ image_data' = image_data \o new
        /\ IF Fits(more)
           THEN /\ Extend(more, 0) /\ user_turns' = user_turns + 1 /\ state' = "GENERATING"
                /\ assistant_turns' = assistant_turns
           ELSE /\ state' = "TERMINATED"
                /\ UNCHANGED <<prompt_ids, response_mask, logprobs, turnCounts>>
    BY <1>3 DEF HandleResponses
  <2> HIDE DEF more, new
  <2>3. vision' = vision /\ logs' = logs /\ interacts' = interacts /\ prompt' = prompt /\ tool' = tool
    BY <1>1 DEF config
  <2>4. image_data \in Seq(ImageTokens) /\ image_data' \in Seq(ImageTokens)
    BY <1>1, <2>1, <2>2, ConcatProperties DEF ConversationTypes
  <2>5. response_mask # <<>> /\ Len(response_mask) < ResponseLength
    BY <1>1 DEF ConversationInv, ResponseBounded
  <2>6. prompt_ids \in Seq(Tokens) /\ prompt_ids # <<>> /\ prompt_ids[Len(prompt_ids)].by = "model"
    <3>1. prompt_ids \in Seq(Tokens) /\ prompt \in Seq(Tokens) /\ prompt # <<>>
      BY <1>1 DEF ConversationTypes
    <3>2. Len(prompt_ids) = Len(prompt) + Len(response_mask)
      BY <1>1 DEF ListsInStep, Aligned
    <3>3. Len(prompt) > 0 /\ Len(prompt) \in Nat /\ Len(response_mask) \in Nat
      BY <1>1, <3>1, EmptySeq, LenProperties DEF ConversationTypes
    <3>4. prompt_ids # <<>>
      BY <3>2, <3>3
    <3>5. QED
      BY <1>1, <3>1, <3>4 DEF ConversationInv, LastSpeaker
  <2>7. CASE ~Fits(more)
    <3>1. /\ UNCHANGED <<prompt_ids, response_mask, logprobs, assistant_turns, user_turns>>
          /\ state' = "TERMINATED"
      BY <2>2, <2>7 DEF turnCounts
    <3>2. ConversationTypes'
      BY <1>1, <2>3, <2>4, <3>1 DEF ConversationTypes
    <3>3. ListsInStep'
      BY <1>1, <2>3, <3>1 DEF ListsInStep
    <3>4. ResponseBounded' /\ LastSpeaker' /\ ResponsesFollowCalls' /\ ImagesInStep'
      BY <2>5, <3>1 DEF ResponseBounded, LastSpeaker, ResponsesFollowCalls, ImagesInStep
    <3>5. QED
      BY <3>2, <3>3, <3>4 DEF ConversationInv
  <2>8. CASE Fits(more)
    <3>1. /\ Extend(more, 0) /\ user_turns' = user_turns + 1 /\ state' = "GENERATING"
          /\ assistant_turns' = assistant_turns
          /\ Len(response_mask) + Len(more) < ResponseLength
      BY <2>2, <2>8 DEF Fits
    <3>2. /\ prompt_ids' = prompt_ids \o more /\ prompt_ids' \in Seq(Tokens)
          /\ response_mask' \in Seq({0, 1})
          /\ Len(response_mask') = Len(response_mask) + Len(more)
          /\ ListsInStep'
      <4> DEFINE bit == 0
      <4>1. /\ bit \in {0, 1} /\ Extend(more, bit)
            /\ \A k \in 1..Len(more) : bit = 1 <=> more[k].by = "model"
            /\ bit = 0 => response_mask # <<>>
            /\ state # "PENDING" /\ state' # "PENDING"
        BY <1>1, <2>1, <2>5, <3>1, LenProperties
      <4> HIDE DEF bit
      <4>2. QED
        BY <1>1, <2>1, <4>1, ExtendKeepsStep
    <3>3. ConversationTypes'
      BY <1>1, <2>3, <2>4, <3>1, <3>2 DEF ConversationTypes
    <3>4. ResponseBounded' /\ LastSpeaker'
      BY <3>1, <3>2 DEF ResponseBounded, LastSpeaker
    <3>5. ResponsesFollowCalls'
      <4>1. \A k \in DOMAIN more : more[k].by # "model"
        BY <2>1
      <4>2. PICK q : q = prompt_ids'
        OBVIOUS
      <4>3. q = prompt_ids \o more
        BY <3>2, <4>2
      <4>4. LastSaid(q) = Len(prompt_ids)
        BY <2>1, <2>6, <4>1, <4>3, LastAnswer
      <4>5. Len(q) = Len(prompt_ids) + Len(more) /\ Len(prompt_ids) \in Nat /\ Len(more) \in Nat
        <5>1. Len(prompt_ids \o more) = Len(prompt_ids) + Len(more)
          BY <2>1, <2>6, ConcatElements
        <5>2. QED
          BY <2>1, <2>6, <4>3, <5>1, LenProperties
      <4>6. SinceAnswer' = Len(more)
        <5>1. SinceAnswer' = Len(q) - LastSaid(q)
          BY <4>2 DEF SinceAnswer, LastSaid
        <5>2. QED
          BY <4>4, <4>5, <5>1
      <4>7. SubSeq(q, Len(q) - SinceAnswer' + 1, Len(q)) = more
        <5>1. SubSeq(prompt_ids \o more, Len(prompt_ids) + 1, Len(prompt_ids) + Len(more)) = more
          BY <2>1, <2>6, EndOfConcat
        <5>2. Len(q) - SinceAnswer' + 1 = Len(prompt_ids) + 1
          BY <4>5, <4>6
        <5>3. QED
          BY <4>3, <4>5, <5>1, <5>2
      <4>8. Kind(SubSeq(q, Len(q) - SinceAnswer' + 1, Len(q)), "tool")
              = [c \in DOMAIN tool' |-> Token("tool", c)]
        BY <2>1, <2>3, <4>7
      <4>9. QED
        BY <4>2, <4>8 DEF ResponsesFollowCalls
    <3>6. ImagesInStep'
      <4>1. Images(prompt_ids) = Kind(image_data, "image")
        BY <1>1 DEF ConversationInv, ImagesInStep
      <4>2. Images(prompt_ids \o more) = Images(prompt_ids) \o Images(more)
        BY <2>1, <2>6, KindConcat DEF Images
      <4>3. Kind(image_data \o new, "image") = Kind(image_data, "image") \o Kind(new, "image")
        <5>1. image_data \in Seq(ImageTokens) /\ new \in Seq(ImageTokens)
          BY <2>1, <2>4
        <5>2. QED
          BY ONLY <5>1, KindConcat
      <4>4. Images(prompt_ids') = Kind(image_data', "image")
        BY <2>1, <2>2, <3>2, <4>1, <4>2, <4>3
      <4>5. QED
        BY <4>4 DEF ImagesInStep
    <3>7. QED
      BY <3>2, <3>3, <3>4, <3>5, <3>6 DEF ConversationInv
  <2>9. QED
    BY <2>7, <2>8
<1>4. QED
  BY <1>2, <1>3
----------------------------------------------------------------------------
(* Every step keeps the invariant.                                         *)
LEMMA ConversationNextKeeps ==
  ConversationInv /\ [ConversationNext]_conversation => ConversationInv'
<1> SUFFICES ASSUME ConversationInv, [ConversationNext]_conversation PROVE ConversationInv'
  OBVIOUS
<1>1. CASE HandlePending
  BY <1>1, HandlePendingKeeps
<1>2. CASE ServerRaises
  BY <1>2, RaisedKeeps DEF ServerRaises
<1>3. CASE HandleResponses
  BY <1>3, HandleResponsesKeeps
<1>4. CASE GatherRaises
  BY <1>4, RaisedKeeps DEF GatherRaises
<1>5. CASE UserRaises
  BY <1>5, RaisedKeeps DEF UserRaises
<1>6. ASSUME NEW n \in 1..MaxAnswer, NEW asked \in 0..MaxToolCalls, Answer(n, asked)
      PROVE  ConversationInv'
  BY <1>6, AnswerKeeps
<1>7. ASSUME NEW n \in 1..MaxAnswer, NEW end \in BOOLEAN, UserAnswers(n, end)
      PROVE  ConversationInv'
  BY <1>7, UserAnswersKeeps
<1>8. ASSUME NEW c \in 1..MaxParallelCalls, ToolStep(c)
      PROVE  ConversationInv'
  BY <1>8, ToolStepKeeps
<1>9. CASE UNCHANGED conversation
  <2>1. /\ UNCHANGED <<vision, logs, interacts, prompt, state, prompt_ids, response_mask, logprobs>>
        /\ UNCHANGED <<image_data, tool, assistant_turns, user_turns>>
    BY <1>9 DEF conversation, config, ids, turnCounts
  <2>2. ConversationTypes' /\ ListsInStep'
    BY <2>1 DEF ConversationInv, ConversationTypes, ListsInStep
  <2>3. ResponseBounded' /\ LastSpeaker'
    BY <2>1 DEF ConversationInv, ResponseBounded, LastSpeaker
  <2>4. ResponsesFollowCalls'
    <3>1. SinceAnswer' = SinceAnswer
      BY <2>1 DEF SinceAnswer
    <3>2. QED
      BY <2>1, <3>1 DEF ConversationInv, ResponsesFollowCalls
  <2>5. ImagesInStep'
    BY <2>1 DEF ConversationInv, ImagesInStep
  <2>6. QED
    BY <2>2, <2>3, <2>4, <2>5 DEF ConversationInv
<1>10. QED
  BY <1>1, <1>2, <1>3, <1>4, <1>5, <1>6, <1>7, <1>8, <1>9 DEF ConversationNext

(* The invariant holds in every conversation.                              *)
THEOREM ConversationInvariance == ConversationSpec => []ConversationInv
BY ConversationInitially, ConversationNextKeeps, PTL DEF ConversationSpec

(* What is cut to response_length.                                         *)
LEMMA TruncatedIs ==
  ASSUME NEW S, NEW s \in Seq(S), NEW n, n = IF Len(s) <= ResponseLength THEN Len(s) ELSE ResponseLength
  PROVE  /\ Truncated(s) \in Seq(S) /\ Len(Truncated(s)) = n /\ n \in 0..ResponseLength /\ n <= Len(s)
         /\ \A k \in 1..n : Truncated(s)[k] = s[k]
<1>1. Len(s) \in Nat /\ ResponseLength \in Nat
  BY LenProperties, ConversationBounds
<1>2. Truncated(s) = SubSeq(s, 1, n)
  <2>1. Min({Len(s), ResponseLength}) = n
    BY <1>1, Smaller
  <2>2. QED
    BY <2>1 DEF Truncated
<1>3. n \in 0..Len(s) /\ n \in 0..ResponseLength
  BY <1>1
<1>4. SubSeq(s, 1, n) \in Seq(S) /\ Len(SubSeq(s, 1, n)) = n /\ \A k \in 1..n : SubSeq(s, 1, n)[k] = s[k]
  BY <1>1, <1>3
<1>5. QED
  BY <1>2, <1>3, <1>4

(* What a conversation returns: the sample's prompt, and tokens with their *)
(* masks and log-probabilities, for any lengths of prompts, answers and    *)
(* responses, any numbers of calls and of images and any limits on turns.  *)
THEOREM OutputCorrect == ConversationSpec => []OutputIsAligned
<1>1. ASSUME ConversationInv PROVE OutputIsAligned
  <2> SUFFICES ASSUME state = "TERMINATED" PROVE
        /\ Output.prompt_ids = prompt
        /\ Len(Output.response_ids) <= ResponseLength
        /\ Len(Output.response_mask) = Len(Output.response_ids)
        /\ \A k \in DOMAIN Output.response_mask :
             Output.response_mask[k] = 1 <=> Output.response_ids[k].by = "model"
        /\ Output.response_logprobs = IF logs THEN Output.response_mask ELSE <<>>
    BY DEF OutputIsAligned
  <2> DEFINE r == Response
             n == IF Len(response_mask) <= ResponseLength THEN Len(response_mask) ELSE ResponseLength
  <2>1. /\ ConversationTypes /\ ListsInStep /\ response_mask # <<>>
        /\ prompt_ids \in Seq(Tokens) /\ prompt \in Seq(Tokens) /\ response_mask \in Seq({0, 1})
        /\ Len(prompt) \in Nat /\ Len(response_mask) \in Nat
    <3>1. ConversationTypes /\ ListsInStep /\ response_mask # <<>>
      BY <1>1 DEF ConversationInv, ResponseBounded
    <3>2. prompt_ids \in Seq(Tokens) /\ prompt \in Seq(Tokens) /\ response_mask \in Seq({0, 1})
      BY <3>1 DEF ConversationTypes
    <3>3. QED
      BY <3>1, <3>2, LenProperties
  <2>2. /\ Len(prompt_ids) = Len(prompt) + Len(response_mask)
        /\ \A k \in 1..Len(prompt) : prompt_ids[k] = prompt[k]
        /\ \A k \in 1..Len(response_mask) :
             response_mask[k] = 1 <=> prompt_ids[Len(prompt) + k].by = "model"
    BY <2>1 DEF ListsInStep, Aligned
  <2>3. Output.prompt_ids = prompt
    <3>1. SubSeq(prompt_ids, 1, Len(prompt)) \in Seq(Tokens) /\ Len(SubSeq(prompt_ids, 1, Len(prompt))) = Len(prompt)
          /\ \A k \in 1..Len(prompt) : SubSeq(prompt_ids, 1, Len(prompt))[k] = prompt_ids[k]
      BY <2>1, <2>2
    <3>2. SubSeq(prompt_ids, 1, Len(prompt)) = prompt
      <4> DEFINE p == SubSeq(prompt_ids, 1, Len(prompt))
      <4>1. p \in Seq(Tokens) /\ Len(p) = Len(prompt) /\ \A k \in 1..Len(prompt) : p[k] = prompt[k]
        BY <2>2, <3>1
      <4> HIDE DEF p
      <4>2. p = prompt
        BY <2>1, <4>1, SeqEqual
      <4>3. QED
        BY <4>2 DEF p
    <3>3. Len(prompt_ids) - Len(response_mask) = Len(prompt)
      BY <2>1, <2>2
    <3>4. QED
      BY <3>2, <3>3 DEF Output
  <2>4. /\ r \in Seq(Tokens) /\ Len(r) = Len(response_mask)
        /\ \A k \in 1..Len(response_mask) : r[k] = prompt_ids[Len(prompt) + k]
    <3>1. r = SubSeq(prompt_ids, Len(prompt) + 1, Len(prompt) + Len(response_mask))
      BY <2>1, <2>2 DEF Response
    <3> HIDE DEF r
    <3>2. QED
      BY <2>1, <2>2, <3>1
  <2> HIDE DEF r
  <2>5. n \in 0..ResponseLength /\ n <= Len(response_mask) /\ n \in Nat
    BY <2>1, ConversationBounds
  <2>6. /\ Len(Truncated(response_mask)) = n /\ Truncated(response_mask) \in Seq({0, 1})
        /\ \A k \in 1..n : Truncated(response_mask)[k] = response_mask[k]
    BY <2>1, TruncatedIs
  <2>7. /\ Len(Truncated(r)) = n
        /\ \A k \in 1..n : Truncated(r)[k] = r[k]
    BY <2>4, TruncatedIs
  <2> HIDE DEF n
  <2>8. Output.response_ids = Truncated(r) /\ Output.response_mask = Truncated(response_mask)
        /\ Output.response_logprobs = Truncated(logprobs)
    BY DEF Output, r
  <2>9. DOMAIN Truncated(response_mask) = 1..n
    BY <2>6, LenProperties
  <2>10. \A k \in 1..n : Truncated(response_mask)[k] = 1 <=> Truncated(r)[k].by = "model"
    <3> SUFFICES ASSUME NEW k \in 1..n
                 PROVE  Truncated(response_mask)[k] = 1 <=> Truncated(r)[k].by = "model"
      OBVIOUS
    <3>1. k \in 1..Len(response_mask)
      BY <2>1, <2>5
    <3>2. Truncated(response_mask)[k] = response_mask[k] /\ Truncated(r)[k] = prompt_ids[Len(prompt) + k]
      BY <2>4, <2>6, <2>7, <3>1
    <3>3. response_mask[k] = 1 <=> prompt_ids[Len(prompt) + k].by = "model"
      BY <2>2, <3>1
    <3>4. QED
      BY <3>2, <3>3
  <2>11. Truncated(logprobs) = IF logs THEN Truncated(response_mask) ELSE <<>>
    <3>1. logprobs = IF logs THEN response_mask ELSE <<>>
      BY <2>1 DEF ListsInStep
    <3>2. Truncated(<<>>) = <<>>
      <4>1. <<>> \in Seq({0, 1}) /\ Len(<<>>) = 0 /\ 0 = IF Len(<<>>) <= ResponseLength THEN Len(<<>>) ELSE ResponseLength
        BY ConversationBounds
      <4>2. Truncated(<<>>) \in Seq({0, 1}) /\ Len(Truncated(<<>>)) = 0
        BY <4>1, TruncatedIs
      <4>3. QED
        BY <4>2, EmptySeq
    <3>3. QED
      BY <3>1, <3>2
  <2>12. QED
    BY <2>3, <2>5, <2>6, <2>7, <2>8, <2>9, <2>10, <2>11
<1>2. QED
  BY <1>1, ConversationInvariance, PTL

(* What a request carries, for any prompts and any numbers of calls and of *)
(* images: the room for an answer that the prompt leaves, an image per     *)
(* placeholder, the first of its response, in the order of the calls, and  *)
(* one response per call, in that order too, however the calls interleaved *)
(* and failed.                                                             *)
THEOREM RequestsCorrect == ConversationSpec => []RequestsAreConsistent
<1>1. ASSUME ConversationInv PROVE RequestsAreConsistent
  <2>1. ConversationTypes /\ ListsInStep /\ ResponseBounded /\ ResponsesFollowCalls /\ ImagesInStep
    BY <1>1 DEF ConversationInv
  <2>2. prompt \in Seq(Tokens) /\ prompt_ids \in Seq(Tokens) /\ response_mask \in Seq({0, 1})
    BY <2>1 DEF ConversationTypes
  <2>3. ConversationTypeOK
    <3>1. \A t \in ToSet(prompt_ids) : t \in Tokens
      BY <2>2, LenProperties, ElementOfSeq DEF ToSet
    <3>2. \A t \in ToSet(prompt_ids) : t.by \in {"text", "image", "model", "tool", "user", "assistant"}
      BY <3>1 DEF Tokens
    <3>3. logprobs \in Seq({0, 1})
      <4>1. <<>> \in Seq({0, 1})
        BY EmptySeq
      <4>2. QED
        BY <2>1, <2>2, <4>1 DEF ListsInStep
    <3>4. QED
      BY <2>1, <3>2, <3>3 DEF ConversationTypes, ConversationTypeOK, Coroutines, ImageTokens
  <2>4. RequestsFit
    <3> SUFFICES ASSUME state = "GENERATING", ~interacts
                 PROVE  Room > PromptLength - Len(prompt)
      BY DEF RequestsFit
    <3>1. Len(prompt_ids) = Len(prompt) + Len(response_mask)
      BY <2>1 DEF ListsInStep, Aligned
    <3>2. Len(response_mask) < ResponseLength
      BY <2>1 DEF ResponseBounded
    <3>3. Len(prompt) \in Nat /\ Len(response_mask) \in Nat
      BY <2>2, LenProperties
    <3>4. QED
      BY <3>1, <3>2, <3>3, ConversationBounds DEF Room, MaxModelLen
  <2>5. ImagesHaveTokens
    BY <2>1 DEF ImagesInStep, ImagesHaveTokens
  <2>6. QED
    BY <2>1, <2>3, <2>4, <2>5 DEF RequestsAreConsistent
<1>2. QED
  BY <1>1, ConversationInvariance, PTL
=============================================================================
