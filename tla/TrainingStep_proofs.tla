------------------------ MODULE TrainingStep_proofs ------------------------
(***************************************************************************)
(* Proofs about TrainingStep, for any batch, number of ranks and contexts. *)
(*                                                                         *)
(* First what the driver makes of the rows of the loop (IInv): rewards and *)
(* advantages reach the rows of their own sample, the two paddings and     *)
(* their removal leave every row what it was, and padding hides no image.  *)
(*                                                                         *)
(* Then what the ranks do with their shares (RInv): the Karmarkar-Karp cut *)
(* of a mini-batch divides it, its results go back to the order of its     *)
(* rows, and every row is trained on once per epoch.                       *)
(***************************************************************************)
EXTENDS TrainingStep, SequenceTheorems, FunctionTheorems, FiniteSetTheorems, TLAPS

(* The batch is padded and split for an update by the functions that pad   *)
(* and split the batch of a rollout call; the lemmas on them are there.    *)
Dispatch == INSTANCE RolloutDispatch_proofs WITH
              MaxBatch <- 1, infer_size <- 1, prompts <- gen_batch_output,
              padded <- batch, responses <- <<>>, status <- phase

(* What is asked of the constants, one by one.                             *)
LEMMA ConstantsAre ==
  /\ Prompts \in Nat \ {0} /\ RolloutN \in Nat \ {0} /\ MaxChunks \in Nat \ {0}
  /\ MaxWorld \in Nat \ {0} /\ MaxWorld <= Prompts * RolloutN
  /\ MaxSeqLen \in Nat \ {0} /\ MaxTokenLen \in Nat \ {0}
  /\ MiniBatchSize \in Nat \ {0} /\ PpoEpochs \in Nat \ {0}
<1>1. Prompts * RolloutN \in Nat
  BY TrainingAssumption
<1>2. QED
  BY <1>1, TrainingAssumption

(* The operators are the same ones.                                        *)
LEMMA SameAssumption == Dispatch!DispatchAssumption
BY ConstantsAre DEF Dispatch!DispatchAssumption

LEMMA SameCardinality == \A S : Dispatch!Cardinality(S) = Cardinality(S)
BY DEF Cardinality, Dispatch!Cardinality

LEMMA SameSetPlaces == \A mask : Dispatch!SetPlaces(mask) = SetPlaces(mask)
BY DEF SetPlaces, Dispatch!SetPlaces, Cardinality, Dispatch!Cardinality

LEMMA SameMask == \A n, groups : Dispatch!NoPaddingMask(n, groups) = NoPaddingMask(n, groups)
BY DEF NoPaddingMask, Dispatch!NoPaddingMask

LEMMA SameReverse == \A index : Dispatch!ReverseIndices(index) = ReverseIndices(index)
BY DEF ReverseIndices, Dispatch!ReverseIndices, Cardinality, Dispatch!Cardinality

(* What RolloutDispatch_proofs shows, in the words of this module.         *)
LEMMA LeastNatural ==
  ASSUME NEW T \in SUBSET Nat, T # {}
  PROVE  \E m \in T : \A k \in T : m <= k
BY SameAssumption, Dispatch!LeastNatural

LEMMA PartsExist ==
  ASSUME NEW seqs, NEW n \in Nat, n # 0
  PROVE  \E g : g = [i \in 1..n |-> IF i = 1 THEN seqs[i] ELSE g[i - 1] \o seqs[i]]
BY SameAssumption, Dispatch!PartsExist, Zenon

LEMMA ConcatElements ==
  ASSUME NEW S, NEW a \in Seq(S), NEW b \in Seq(S)
  PROVE  /\ a \o b \in Seq(S) /\ Len(a \o b) = Len(a) + Len(b)
         /\ \A i \in 1..Len(a) : (a \o b)[i] = a[i]
         /\ \A i \in 1..Len(b) : (a \o b)[Len(a) + i] = b[i]
<1>1. a \o b \in Seq(S) /\ Len(a \o b) = Len(a) + Len(b)
  BY SameAssumption, Dispatch!ConcatElements
<1>2. \A i \in 1..Len(a) : (a \o b)[i] = a[i]
  BY SameAssumption, Dispatch!ConcatElements
<1>3. \A i \in 1..Len(b) : (a \o b)[Len(a) + i] = b[i]
  BY SameAssumption, Dispatch!ConcatElements
<1>4. QED
  BY <1>1, <1>2, <1>3

LEMMA FunctionIsSequence ==
  ASSUME NEW S, NEW n \in Nat, NEW f \in [1..n -> S]
  PROVE  f \in Seq(S) /\ Len(f) = n /\ DOMAIN f = 1..n
BY SameAssumption, Dispatch!FunctionIsSequence

LEMMA Division ==
  ASSUME NEW a \in Nat, NEW d \in Nat, d > 0
  PROVE  /\ a \div d \in Nat /\ a % d \in Nat /\ a % d < d
         /\ a = d * (a \div d) + (a % d)
BY SameAssumption, Dispatch!Division

LEMMA DivisionUnique ==
  ASSUME NEW d \in Nat, NEW q \in Nat, NEW r \in Nat, r < d
  PROVE  (d * q + r) \div d = q /\ (d * q + r) % d = r
BY SameAssumption, Dispatch!DivisionUnique

LEMMA SetPlacesRank ==
  ASSUME NEW size \in Nat, NEW mask \in [1..size -> BOOLEAN]
  PROVE  LET n == Cardinality({k \in 1..size : mask[k]})
         IN  /\ n \in Nat
             /\ SetPlaces(mask) \in [1..n -> 1..size]
             /\ \A i \in 1..n : /\ mask[SetPlaces(mask)[i]]
                                /\ Cardinality({j \in 1..SetPlaces(mask)[i] : mask[j]}) = i
<1>1. LET n == Dispatch!Cardinality({k \in 1..size : mask[k]})
      IN  /\ n \in Nat
          /\ Dispatch!SetPlaces(mask) \in [1..n -> 1..size]
          /\ \A i \in 1..n :
               /\ mask[Dispatch!SetPlaces(mask)[i]]
               /\ Dispatch!Cardinality({j \in 1..Dispatch!SetPlaces(mask)[i] : mask[j]}) = i
  BY SameAssumption, Dispatch!SetPlacesRank, Zenon
<1>2. QED
  BY <1>1, SameCardinality, SameSetPlaces, Zenon

(* The mask of a batch: fewer slots than rows and ranks together, and a    *)
(* real slot for every row.                                                *)
LEMMA MaskOfBatch ==
  ASSUME NEW n \in Nat, n > 0, NEW groups \in Nat, groups > 0
  PROVE  \E size \in Nat :
           /\ size > 0 /\ size < n + groups
           /\ NoPaddingMask(n, groups) \in [1..size -> BOOLEAN]
           /\ Cardinality({k \in 1..size : NoPaddingMask(n, groups)[k]}) = n
<1> DEFINE q == Dispatch!GroupSize(n, groups)
           size == groups * q
<1>1. q \in Nat /\ q > 0 /\ size \in Nat
  BY SameAssumption, Dispatch!GroupSizeType
<1>2. NoPaddingMask(n, groups) \in [1..size -> BOOLEAN]
  <2>1. Dispatch!NoPaddingMask(n, groups) \in [1..(groups * Dispatch!GroupSize(n, groups)) -> BOOLEAN]
    BY SameAssumption, Dispatch!MaskType
  <2>2. QED
    BY <2>1, SameMask
<1>3. Cardinality({k \in 1..size : NoPaddingMask(n, groups)[k]}) = n
  <2>1. Dispatch!Cardinality({k \in 1..(groups * Dispatch!GroupSize(n, groups)) :
                                Dispatch!NoPaddingMask(n, groups)[k]}) = n
    BY SameAssumption, Dispatch!MaskCount
  <2>2. QED
    BY <2>1, SameMask, SameCardinality
<1>4. size < n + groups
  <2>1. /\ n \div groups \in Nat /\ n % groups \in Nat
        /\ n = groups * (n \div groups) + (n % groups)
    BY Division
  <2> DEFINE d == n \div groups
             r == n % groups
  <2>2. groups * d \in Nat /\ groups * (d + 1) = groups * d + groups
    BY <2>1
  <2>3. q = IF r = 0 THEN d ELSE d + 1
    BY DEF Dispatch!GroupSize
  <2> HIDE DEF d, r, q
  <2>4. CASE r = 0
    <3>1. q = d
      BY <2>3, <2>4
    <3>2. QED
      BY <2>1, <2>2, <2>4, <3>1 DEF d, r
  <2>5. CASE r # 0
    <3>1. size = groups * d + groups
      BY <2>2, <2>3, <2>5
    <3>2. QED
      BY <2>1, <2>2, <2>5, <3>1 DEF d, r
  <2>6. QED
    BY <2>4, <2>5
<1>5. size > 0
  BY <1>1
<1>6. QED
  BY <1>1, <1>2, <1>3, <1>4, <1>5, Zenon

(* The samples: RolloutN of them side by side for every prompt.            *)
NumSamples == Prompts * RolloutN

LEMMA NumSamplesType ==
  /\ NumSamples \in Nat /\ NumSamples > 0 /\ Samples = 1..NumSamples
  /\ Prompts \in Nat /\ Prompts > 0 /\ RolloutN \in Nat /\ RolloutN > 0
<1>1. Prompts \in Nat /\ Prompts > 0 /\ RolloutN \in Nat /\ RolloutN > 0
  BY ConstantsAre
<1>2. Prompts * RolloutN \in Nat /\ Prompts * RolloutN > 0
  BY <1>1
<1>3. QED
  BY <1>1, <1>2 DEF NumSamples, Samples

LEMMA PromptOfSample ==
  ASSUME NEW p \in 1..Prompts, NEW s \in Int
  PROVE  /\ (p - 1) * RolloutN \in Nat
         /\ s \in Samples /\ PromptOf(s) = p
              <=> s \in ((p - 1) * RolloutN + 1)..((p - 1) * RolloutN + RolloutN)
<1> DEFINE a == (p - 1) * RolloutN
<1>1. /\ Prompts \in Nat /\ RolloutN \in Nat /\ RolloutN > 0
      /\ Samples = 1..(Prompts * RolloutN) /\ Prompts * RolloutN \in Nat
  BY NumSamplesType DEF NumSamples
<1>2. p \in Nat /\ p - 1 \in Nat /\ p <= Prompts
  BY <1>1
<1>3. a \in Nat /\ a = RolloutN * (p - 1)
  BY <1>1, <1>2
<1>4. a + RolloutN <= Prompts * RolloutN
  <2>1. a + RolloutN = p * RolloutN
    BY <1>1, <1>2
  <2>2. p * RolloutN <= Prompts * RolloutN
    BY <1>1, <1>2
  <2>3. QED
    BY <2>1, <2>2
<1>5. ASSUME s \in Samples, PromptOf(s) = p
      PROVE  s \in (a + 1)..(a + RolloutN)
  <2> DEFINE q == (s - 1) \div RolloutN
             r == (s - 1) % RolloutN
  <2>1. s - 1 \in Nat
    BY <1>1, <1>5
  <2>2. q \in Nat /\ r \in Nat /\ r < RolloutN /\ s - 1 = RolloutN * q + r
    BY <1>1, <2>1, Division
  <2>3. q + 1 = p
    BY <1>5 DEF PromptOf
  <2> HIDE DEF q, r
  <2>4. q = p - 1
    BY <1>2, <2>2, <2>3
  <2>5. s - 1 = a + r
    BY <1>3, <2>2, <2>4
  <2> HIDE DEF a
  <2>6. QED
    BY <1>1, <1>3, <2>2, <2>5
<1>6. ASSUME s \in (a + 1)..(a + RolloutN)
      PROVE  s \in Samples /\ PromptOf(s) = p
  <2> DEFINE r == s - 1 - a
  <2> HIDE DEF a
  <2>1. r \in Nat /\ r < RolloutN /\ s - 1 = a + r
    BY <1>1, <1>3, <1>6
  <2>2. s \in 1..(Prompts * RolloutN)
    BY <1>1, <1>3, <1>4, <1>6
  <2>3. (RolloutN * (p - 1) + r) \div RolloutN = p - 1
    BY <1>1, <1>2, <2>1, DivisionUnique, Zenon
  <2>4. (s - 1) \div RolloutN = p - 1
    BY <1>3, <2>1, <2>3
  <2>5. QED
    BY <1>1, <1>2, <2>2, <2>4 DEF PromptOf
<1>7. QED
  BY <1>3, <1>5, <1>6

(* A prompt has RolloutN samples, every sample a prompt.                   *)
LEMMA SamplesOfPrompt ==
  /\ \A s \in Samples : PromptOf(s) \in 1..Prompts
  /\ \A p \in 1..Prompts : /\ \E s \in Samples : PromptOf(s) = p
                           /\ IsFiniteSet({s \in Samples : PromptOf(s) = p})
                           /\ Cardinality({s \in Samples : PromptOf(s) = p}) = RolloutN
<1>1. /\ Prompts \in Nat /\ RolloutN \in Nat /\ RolloutN > 0
      /\ Samples = 1..(Prompts * RolloutN) /\ Prompts * RolloutN \in Nat
  BY NumSamplesType DEF NumSamples
<1>2. ASSUME NEW s \in Samples
      PROVE  PromptOf(s) \in 1..Prompts
  <2> DEFINE q == (s - 1) \div RolloutN
             r == (s - 1) % RolloutN
  <2>1. s - 1 \in Nat /\ s - 1 < Prompts * RolloutN
    BY <1>1
  <2>2. q \in Nat /\ r \in Nat /\ s - 1 = RolloutN * q + r
    BY <1>1, <2>1, Division
  <2> HIDE DEF q, r
  <2>3. q < Prompts
    <3> SUFFICES ASSUME Prompts <= q PROVE FALSE
      BY <1>1, <2>2
    <3>1. Prompts * RolloutN <= RolloutN * q
      BY <1>1, <2>2
    <3>2. RolloutN * q \in Nat
      BY <1>1, <2>2
    <3>3. QED
      BY <1>1, <2>1, <2>2, <3>1, <3>2
  <2>4. q + 1 \in 1..Prompts
    BY <1>1, <2>2, <2>3
  <2>5. QED
    BY <2>4 DEF PromptOf, q
<1>3. ASSUME NEW p \in 1..Prompts
      PROVE  /\ \E s \in Samples : PromptOf(s) = p
             /\ IsFiniteSet({s \in Samples : PromptOf(s) = p})
             /\ Cardinality({s \in Samples : PromptOf(s) = p}) = RolloutN
  <2> DEFINE a == (p - 1) * RolloutN
  <2>1. a \in Nat
    BY PromptOfSample
  <2>2. {s \in Samples : PromptOf(s) = p} = (a + 1)..(a + RolloutN)
    <3>1. Samples \in SUBSET Int
      BY <1>1
    <3>2. \A s \in Int : s \in Samples /\ PromptOf(s) = p <=> s \in (a + 1)..(a + RolloutN)
      BY PromptOfSample
    <3>3. \A s : s \in (a + 1)..(a + RolloutN) => s \in Int
      BY <1>1, <2>1
    <3> HIDE DEF a
    <3>4. QED
      BY <3>1, <3>2, <3>3, Zenon
  <2> HIDE DEF a
  <2>3. a + 1 \in Int /\ a + RolloutN \in Int /\ a + 1 <= a + RolloutN
        /\ (a + RolloutN) - (a + 1) + 1 = RolloutN
    BY <1>1, <2>1
  <2>4. /\ IsFiniteSet((a + 1)..(a + RolloutN))
        /\ Cardinality((a + 1)..(a + RolloutN)) = (a + RolloutN) - (a + 1) + 1
    BY <2>3, FS_Interval
  <2>5. a + 1 \in (a + 1)..(a + RolloutN)
    BY <1>1, <2>1
  <2>6. QED
    BY <2>2, <2>3, <2>4, <2>5, Zenon
<1>4. QED
  BY <1>2, <1>3

(* A list of sequences concatenated is a sequence of their elements, and   *)
(* empty only if all of them are.                                          *)
LEMMA FlattenType ==
  ASSUME NEW S, NEW seqs \in Seq(Seq(S)), NEW j \in 1..Len(seqs), seqs[j] # <<>>
  PROVE  FlattenSeq(seqs) \in Seq(S) /\ FlattenSeq(seqs) # <<>>
<1> DEFINE n == Len(seqs)
<1>1. n \in Nat /\ n # 0 /\ j \in 1..n
  BY LenProperties
<1>2. PICK f : /\ f = [i \in 1..n |-> IF i = 1 THEN seqs[i] ELSE f[i - 1] \o seqs[i]]
               /\ FlattenSeq(seqs) = f[n]
  <2>1. Len(seqs) # 0
    BY <1>1
  <2>2. \E g : g = [i \in 1..n |-> IF i = 1 THEN seqs[i] ELSE g[i - 1] \o seqs[i]]
    <3> HIDE DEF n
    <3>1. QED
      BY <1>1, PartsExist, Zenon
  <2>3. QED
    BY <2>1, <2>2, Zenon DEF FlattenSeq
<1>3. \A i \in 1..n : seqs[i] \in Seq(S)
  BY ElementOfSeq
<1> HIDE DEF n
<1>4. \A i \in 1..n : f[i] = IF i = 1 THEN seqs[i] ELSE f[i - 1] \o seqs[i]
  BY <1>2, Zenon
<1> DEFINE Good(i) == f[i] \in Seq(S) /\ (j <= i => f[i] # <<>>)
           Bad == {i \in 1..n : ~Good(i)}
<1>5. Bad = {}
  <2> SUFFICES ASSUME Bad # {} PROVE FALSE
    OBVIOUS
  <2>1. Bad \in SUBSET Nat
    <3>1. \A i \in 1..n : i \in Nat
      BY <1>1
    <3> HIDE DEF Good
    <3>2. QED
      BY <3>1
  <2>2. PICK i \in Bad : \A k \in Bad : i <= k
    <3> HIDE DEF Bad
    <3>1. QED
      BY <2>1, LeastNatural, Zenon
  <2>3. i \in 1..n /\ ~Good(i) /\ i \in Nat
    <3> HIDE DEF Good
    <3>1. QED
      BY <2>1, <2>2
  <2>4. i # 1
    <3> SUFFICES ASSUME i = 1 PROVE FALSE
      OBVIOUS
    <3>1. f[1] = seqs[1] /\ seqs[1] \in Seq(S)
      BY <1>3, <1>4, <2>3
    <3>2. j <= 1 => j = 1
      BY <1>1
    <3>3. QED
      BY <2>3, <3>1, <3>2
  <2>5. i - 1 \in 1..n /\ ~(i <= i - 1)
    BY <1>1, <2>3, <2>4
  <2>6. Good(i - 1)
    <3> HIDE DEF Good
    <3>1. QED
      BY <2>2, <2>5
  <2>7. f[i] = f[i - 1] \o seqs[i] /\ seqs[i] \in Seq(S)
    BY <1>3, <1>4, <2>3, <2>4, Zenon
  <2>8. f[i] \in Seq(S) /\ Len(f[i]) = Len(f[i - 1]) + Len(seqs[i])
    BY <2>6, <2>7, ConcatProperties
  <2>9. j <= i => f[i] # <<>>
    <3> SUFFICES ASSUME j <= i, f[i] = <<>> PROVE FALSE
      OBVIOUS
    <3> DEFINE before == Len(f[i - 1])
               here   == Len(seqs[i])
    <3>1. before \in Nat /\ here \in Nat
      BY <2>6, <2>7, LenProperties, Zenon
    <3>2. before + here = 0
      BY <2>8, Zenon
    <3>3. before = 0 /\ here = 0
      <4> HIDE DEF before, here
      <4>1. QED
        BY <3>1, <3>2
    <3>4. f[i - 1] = <<>> /\ seqs[i] = <<>>
      BY <2>6, <2>7, <3>3, EmptySeq
    <3>5. j # i /\ ~(j <= i - 1)
      BY <2>6, <3>4
    <3>6. QED
      BY <1>1, <2>3, <3>5
  <2>10. QED
    BY <2>3, <2>8, <2>9
<1>6. n \in 1..n /\ j <= n
  BY <1>1
<1>7. Good(n)
  <2> HIDE DEF Good
  <2>1. QED
    BY <1>5, <1>6
<1>8. QED
  BY <1>2, <1>6, <1>7

(* The setting of a step, fixed at its start.                              *)
SetupOK ==
  /\ world_size \in 1..MaxWorld
  /\ triple \in BOOLEAN
  /\ chunks \in [1..Prompts -> 0..MaxChunks]
  /\ \E p \in 1..Prompts : chunks[p] > 0
  /\ seq_len \in [Samples -> 1..MaxSeqLen]

MemoryRow == [sample : Samples, kind : {"memorize"}]
AnyRow    == [sample : Samples, kind : {"memorize"} \cup Objectives]

(* A chunk turn has rows of samples that have such a chunk; the first one  *)
(* has a row.                                                              *)
LEMMA ChunkTurnType ==
  ASSUME SetupOK, NEW t \in Nat
  PROVE  /\ ChunkTurn(t) \in Seq(MemoryRow)
         /\ t = 1 => ChunkTurn(t) # <<>>
<1> DEFINE mask == [s \in Samples |-> chunks[PromptOf(s)] >= t]
           reading == SetPlaces(mask)
           set == {k \in Samples : mask[k]}
           n == Cardinality(set)
<1>1. NumSamples \in Nat /\ Samples = 1..NumSamples
  BY NumSamplesType
<1>2. mask \in [1..NumSamples -> BOOLEAN]
  BY <1>1
<1>3. n \in Nat /\ reading \in [1..n -> Samples]
  <2> HIDE DEF mask
  <2>1. LET m == Cardinality({k \in 1..NumSamples : mask[k]})
        IN  m \in Nat /\ SetPlaces(mask) \in [1..m -> 1..NumSamples]
    BY <1>1, <1>2, SetPlacesRank, Zenon
  <2>2. QED
    BY <1>1, <2>1
<1>4. ChunkTurn(t) = [k \in 1..n |-> [sample |-> reading[k], kind |-> "memorize"]]
  <2>1. ChunkTurn(t) = [k \in DOMAIN reading |-> [sample |-> reading[k], kind |-> "memorize"]]
    BY DEF ChunkTurn
  <2> HIDE DEF reading, n
  <2>2. DOMAIN reading = 1..n
    BY <1>3
  <2>3. QED
    BY <2>1, <2>2
<1> HIDE DEF reading
<1>5. ChunkTurn(t) \in Seq(MemoryRow) /\ Len(ChunkTurn(t)) = n
  <2>1. ChunkTurn(t) \in [1..n -> MemoryRow]
    <3> HIDE DEF n
    <3>1. QED
      BY <1>3, <1>4 DEF MemoryRow
  <2> HIDE DEF n
  <2>2. QED
    BY <1>3, <2>1, FunctionIsSequence
<1>6. ASSUME t = 1
      PROVE  ChunkTurn(t) # <<>>
  <2>1. PICK p \in 1..Prompts : chunks[p] > 0
    BY DEF SetupOK
  <2>2. PICK s \in Samples : PromptOf(s) = p
    BY SamplesOfPrompt, Zenon
  <2>3. chunks[p] \in Nat
    BY DEF SetupOK
  <2>4. mask[s]
    <3>1. chunks[p] >= 1
      BY <2>1, <2>3
    <3>2. chunks[PromptOf(s)] >= t
      BY <1>6, <2>2, <3>1
    <3>3. QED
      BY <3>2, Zenon
  <2>5. s \in set
    BY <2>4
  <2>6. IsFiniteSet(set)
    <3>1. IsFiniteSet(1..NumSamples)
      BY <1>1, FS_Interval
    <3>2. set \subseteq 1..NumSamples
      BY <1>1
    <3> HIDE DEF set
    <3>3. QED
      BY <3>1, <3>2, FS_Subset, Zenon
  <2> HIDE DEF set
  <2>7. n # 0
    BY <2>5, <2>6, FS_EmptySet
  <2>8. QED
    BY <1>5, <2>7
<1>7. QED
  BY <1>5, <1>6

(* The rows of the chunk turns, together.                                  *)
ChunkRows == FlattenSeq([t \in 1..MaxChunks |-> ChunkTurn(t)])

LEMMA ChunkRowsType ==
  ASSUME SetupOK
  PROVE  /\ ChunkRows \in Seq(MemoryRow)
         /\ Len(ChunkRows) \in Nat /\ Len(ChunkRows) > 0
<1> DEFINE turns == [t \in 1..MaxChunks |-> ChunkTurn(t)]
<1>1. MaxChunks \in Nat /\ MaxChunks > 0
  BY ConstantsAre
<1>2. \A t \in 1..MaxChunks : t \in Nat
  BY <1>1
<1>3. turns \in [1..MaxChunks -> Seq(MemoryRow)]
  BY <1>2, ChunkTurnType
<1>4. turns \in Seq(Seq(MemoryRow)) /\ Len(turns) = MaxChunks
  <2> HIDE DEF turns
  <2>1. QED
    BY <1>1, <1>3, FunctionIsSequence
<1>5. 1 \in 1..Len(turns) /\ turns[1] # <<>>
  <2>1. 1 \in 1..MaxChunks /\ turns[1] = ChunkTurn(1)
    BY <1>1
  <2>2. ChunkTurn(1) # <<>>
    BY ChunkTurnType
  <2>3. QED
    BY <1>4, <2>1, <2>2, Zenon
<1>6. ChunkRows \in Seq(MemoryRow) /\ ChunkRows # <<>>
  <2>1. FlattenSeq(turns) \in Seq(MemoryRow) /\ FlattenSeq(turns) # <<>>
    <3> HIDE DEF turns
    <3>1. QED
      BY <1>4, <1>5, FlattenType
  <2>2. QED
    BY <2>1 DEF ChunkRows
<1>7. QED
  BY <1>6, EmptySeq

(* A final turn has a row of every sample, in their order.                 *)
LEMMA FinalTurnType ==
  ASSUME NEW o
  PROVE  /\ FinalTurn(o) \in Seq([sample : Samples, kind : {o}])
         /\ Len(FinalTurn(o)) = NumSamples
         /\ \A s \in Samples : FinalTurn(o)[s] = [sample |-> s, kind |-> o]
<1>1. NumSamples \in Nat /\ Samples = 1..NumSamples
  BY NumSamplesType
<1>2. FinalTurn(o) \in [1..NumSamples -> [sample : Samples, kind : {o}]]
  BY <1>1 DEF FinalTurn
<1>3. QED
  BY <1>1, <1>2, FunctionIsSequence DEF FinalTurn

(* The rows of the loop: those of the chunk turns, then a block of final   *)
(* rows per objective, and nothing else of that objective.                 *)
IsBlockOf(rows, o, a) ==
  /\ a \in Nat /\ a + NumSamples <= Len(rows)
  /\ \A k \in 1..Len(rows) : rows[k].kind = o <=> k \in (a + 1)..(a + NumSamples)
  /\ \A s \in Samples : rows[a + s] = [sample |-> s, kind |-> o]

(* Where the rows of a turn are.                                           *)
LEMMA LoopRowsParts ==
  ASSUME SetupOK
  PROVE  LET m == Len(ChunkRows)
             n == NumSamples
         IN  /\ LoopRows \in Seq(AnyRow)
             /\ Len(LoopRows) = m + (IF triple THEN 3 * n ELSE n)
             /\ \A k \in 1..m : LoopRows[k].kind = "memorize"
             /\ \A s \in 1..n : LoopRows[m + s] = [sample |-> s, kind |-> "answer"]
             /\ triple => \A s \in 1..n :
                  /\ LoopRows[m + n + s] = [sample |-> s, kind |-> "subsampled"]
                  /\ LoopRows[m + n + n + s] = [sample |-> s, kind |-> "gap_fill"]
<1> DEFINE m == Len(ChunkRows)
           n == NumSamples
           A == FinalTurn("answer")
           B == FinalTurn("subsampled")
           C == FinalTurn("gap_fill")
           D == ChunkRows \o A
<1>1. n \in Nat /\ n > 0 /\ Samples = 1..n /\ m \in Nat
  BY NumSamplesType, ChunkRowsType
<1>2. ChunkRows \in Seq(AnyRow) /\ \A k \in 1..m : ChunkRows[k].kind = "memorize"
  <2>1. ChunkRows \in Seq(MemoryRow)
    BY ChunkRowsType
  <2>2. \A k \in 1..m : ChunkRows[k] \in MemoryRow
    BY <2>1, ElementOfSeq
  <2>3. \A x \in MemoryRow : x \in AnyRow /\ x.kind = "memorize"
    BY DEF MemoryRow, AnyRow
  <2>4. ChunkRows \in [1..m -> AnyRow]
    BY <2>1, <2>2, <2>3
  <2> HIDE DEF m
  <2>5. QED
    BY <1>1, <2>2, <2>3, <2>4, FunctionIsSequence
<1>3. ASSUME NEW o \in Objectives
      PROVE  /\ FinalTurn(o) \in Seq(AnyRow) /\ Len(FinalTurn(o)) = n
             /\ \A s \in 1..n : FinalTurn(o)[s] = [sample |-> s, kind |-> o]
  <2>1. /\ FinalTurn(o) \in Seq([sample : Samples, kind : {o}])
        /\ Len(FinalTurn(o)) = n
        /\ \A s \in 1..n : FinalTurn(o)[s] = [sample |-> s, kind |-> o]
    BY <1>1, FinalTurnType, Zenon
  <2>2. \A s \in 1..n : FinalTurn(o)[s] \in AnyRow
    BY <1>1, <2>1 DEF AnyRow
  <2>3. FinalTurn(o) \in [1..n -> AnyRow]
    BY <2>1, <2>2
  <2> HIDE DEF n
  <2>4. QED
    BY <1>1, <2>1, <2>3, FunctionIsSequence
<1>4. /\ A \in Seq(AnyRow) /\ Len(A) = n
      /\ \A s \in 1..n : A[s] = [sample |-> s, kind |-> "answer"]
  <2>1. "answer" \in Objectives
    BY DEF Objectives
  <2>2. QED
    BY <1>3, <2>1
<1> HIDE DEF m, n, A
<1>5. /\ D \in Seq(AnyRow) /\ Len(D) = m + n
      /\ \A k \in 1..m : D[k] = ChunkRows[k]
      /\ \A s \in 1..n : D[m + s] = A[s]
  <2>1. /\ ChunkRows \o A \in Seq(AnyRow) /\ Len(ChunkRows \o A) = Len(ChunkRows) + Len(A)
        /\ \A i \in 1..Len(ChunkRows) : (ChunkRows \o A)[i] = ChunkRows[i]
        /\ \A i \in 1..Len(A) : (ChunkRows \o A)[Len(ChunkRows) + i] = A[i]
    <3>1. ChunkRows \in Seq(AnyRow) /\ A \in Seq(AnyRow)
      BY <1>2, <1>4
    <3>2. ChunkRows \o A \in Seq(AnyRow)
      BY <3>1, ConcatElements
    <3>3. Len(ChunkRows \o A) = Len(ChunkRows) + Len(A)
      BY <3>1, ConcatElements
    <3>4. \A i \in 1..Len(ChunkRows) : (ChunkRows \o A)[i] = ChunkRows[i]
      BY <3>1, ConcatElements
    <3>5. \A i \in 1..Len(A) : (ChunkRows \o A)[Len(ChunkRows) + i] = A[i]
      BY <3>1, ConcatElements
    <3>6. QED
      BY <3>2, <3>3, <3>4, <3>5
  <2>2. QED
    BY <1>4, <2>1 DEF m
<1>6. LoopRows = D \o (IF triple THEN B \o C ELSE <<>>)
  BY DEF LoopRows, ChunkRows, A
<1> HIDE DEF D
<1>7. CASE ~triple
  <2>1. LoopRows = D
    BY <1>5, <1>6, <1>7, ConcatEmptySeq
  <2>2. QED
    BY <1>2, <1>4, <1>5, <1>7, <2>1 DEF m, n
<1>8. CASE triple
  <2>1. "subsampled" \in Objectives /\ "gap_fill" \in Objectives
    BY <1>8 DEF Objectives
  <2>2. /\ B \in Seq(AnyRow) /\ Len(B) = n
        /\ \A s \in 1..n : B[s] = [sample |-> s, kind |-> "subsampled"]
    BY <1>3, <2>1
  <2>3. /\ C \in Seq(AnyRow) /\ Len(C) = n
        /\ \A s \in 1..n : C[s] = [sample |-> s, kind |-> "gap_fill"]
    BY <1>3, <2>1
  <2> DEFINE E == B \o C
             L == D \o E
  <2> HIDE DEF B, C
  <2>4. /\ E \in Seq(AnyRow) /\ Len(E) = n + n
        /\ \A s \in 1..n : E[s] = B[s]
        /\ \A s \in 1..n : E[n + s] = C[s]
    <3>1. /\ B \o C \in Seq(AnyRow) /\ Len(B \o C) = Len(B) + Len(C)
          /\ \A i \in 1..Len(B) : (B \o C)[i] = B[i]
          /\ \A i \in 1..Len(C) : (B \o C)[Len(B) + i] = C[i]
      <4>1. B \in Seq(AnyRow) /\ C \in Seq(AnyRow)
        BY <2>2, <2>3
      <4>2. B \o C \in Seq(AnyRow)
        BY <4>1, ConcatElements
      <4>3. Len(B \o C) = Len(B) + Len(C)
        BY <4>1, ConcatElements
      <4>4. \A i \in 1..Len(B) : (B \o C)[i] = B[i]
        BY <4>1, ConcatElements
      <4>5. \A i \in 1..Len(C) : (B \o C)[Len(B) + i] = C[i]
        BY <4>1, ConcatElements
      <4>6. QED
        BY <4>2, <4>3, <4>4, <4>5
    <3>2. QED
      BY <2>2, <2>3, <3>1, Zenon
  <2> HIDE DEF E
  <2>5. /\ L \in Seq(AnyRow) /\ Len(L) = (m + n) + (n + n)
        /\ \A i \in 1..(m + n) : L[i] = D[i]
        /\ \A i \in 1..(n + n) : L[(m + n) + i] = E[i]
    <3>1. /\ D \o E \in Seq(AnyRow) /\ Len(D \o E) = Len(D) + Len(E)
          /\ \A i \in 1..Len(D) : (D \o E)[i] = D[i]
          /\ \A i \in 1..Len(E) : (D \o E)[Len(D) + i] = E[i]
      <4>1. D \in Seq(AnyRow) /\ E \in Seq(AnyRow)
        BY <1>5, <2>4
      <4>2. D \o E \in Seq(AnyRow)
        BY <4>1, ConcatElements
      <4>3. Len(D \o E) = Len(D) + Len(E)
        BY <4>1, ConcatElements
      <4>4. \A i \in 1..Len(D) : (D \o E)[i] = D[i]
        BY <4>1, ConcatElements
      <4>5. \A i \in 1..Len(E) : (D \o E)[Len(D) + i] = E[i]
        BY <4>1, ConcatElements
      <4>6. QED
        BY <4>2, <4>3, <4>4, <4>5
    <3>2. QED
      BY <1>5, <2>4, <3>1, Zenon
  <2>6. LoopRows = L
    BY <1>6, <1>8, Zenon DEF E
  <2> HIDE DEF L
  <2>7. Len(L) = m + 3 * n
    BY <1>1, <2>5
  <2>8. \A k \in 1..m : L[k].kind = "memorize"
    <3>1. \A k \in 1..m : k \in 1..(m + n)
      BY <1>1
    <3>2. QED
      BY <1>2, <1>5, <2>5, <3>1
  <2>9. \A s \in 1..n : L[m + s] = [sample |-> s, kind |-> "answer"]
    <3>1. \A s \in 1..n : m + s \in 1..(m + n)
      BY <1>1
    <3>2. QED
      BY <1>4, <1>5, <2>5, <3>1
  <2>10. \A s \in 1..n : L[m + n + s] = [sample |-> s, kind |-> "subsampled"]
    <3>1. \A s \in 1..n : s \in 1..(n + n)
      BY <1>1
    <3>2. QED
      BY <2>2, <2>4, <2>5, <3>1
  <2>11. \A s \in 1..n : L[m + n + n + s] = [sample |-> s, kind |-> "gap_fill"]
    <3>1. \A s \in 1..n : n + s \in 1..(n + n) /\ (m + n) + (n + s) = m + n + n + s
      BY <1>1
    <3>2. \A s \in 1..n : L[(m + n) + (n + s)] = E[n + s]
      BY <2>5, <3>1
    <3>3. \A s \in 1..n : L[m + n + n + s] = E[n + s]
      BY <3>1, <3>2
    <3>4. QED
      BY <2>3, <2>4, <3>3
  <2>12. QED
    BY <1>8, <2>5, <2>6, <2>7, <2>8, <2>9, <2>10, <2>11 DEF m, n
<1>9. QED
  BY <1>7, <1>8 DEF SetupOK

(* Every objective has its block, and the first row is that of a chunk.    *)
LEMMA LoopRowsShape ==
  ASSUME SetupOK
  PROVE  /\ LoopRows \in Seq(AnyRow)
         /\ Len(LoopRows) \in Nat /\ Len(LoopRows) > 0
         /\ LoopRows[1].kind = "memorize"
         /\ \A o \in Objectives : \E a \in Nat : IsBlockOf(LoopRows, o, a)
<1> DEFINE m == Len(ChunkRows)
           n == NumSamples
           L == LoopRows
<1>1. /\ n \in Nat /\ n > 0 /\ Samples = 1..n /\ m \in Nat /\ m > 0
      /\ triple \in BOOLEAN
  BY NumSamplesType, ChunkRowsType, Zenon DEF SetupOK
<1>2. /\ L \in Seq(AnyRow)
      /\ Len(L) = m + (IF triple THEN 3 * n ELSE n)
      /\ \A k \in 1..m : L[k].kind = "memorize"
      /\ \A s \in 1..n : L[m + s] = [sample |-> s, kind |-> "answer"]
      /\ triple => \A s \in 1..n :
           /\ L[m + n + s] = [sample |-> s, kind |-> "subsampled"]
           /\ L[m + n + n + s] = [sample |-> s, kind |-> "gap_fill"]
  BY LoopRowsParts
<1> HIDE DEF m, n, L
<1>3. /\ \A s \in 1..n : L[m + s].kind = "answer"
      /\ triple => \A s \in 1..n : L[m + n + s].kind = "subsampled"
      /\ triple => \A s \in 1..n : L[m + n + n + s].kind = "gap_fill"
  <2>1. \A s \in 1..n : L[m + s].kind = "answer"
    <3> SUFFICES ASSUME NEW s \in 1..n PROVE L[m + s].kind = "answer"
      OBVIOUS
    <3>1. L[m + s] = [sample |-> s, kind |-> "answer"]
      BY <1>2
    <3>2. QED
      BY <3>1
  <2>2. triple => \A s \in 1..n : L[m + n + s].kind = "subsampled"
    <3> SUFFICES ASSUME triple, NEW s \in 1..n PROVE L[m + n + s].kind = "subsampled"
      OBVIOUS
    <3>1. L[m + n + s] = [sample |-> s, kind |-> "subsampled"]
      BY <1>2, Zenon
    <3>2. QED
      BY <3>1
  <2>3. triple => \A s \in 1..n : L[m + n + n + s].kind = "gap_fill"
    <3> SUFFICES ASSUME triple, NEW s \in 1..n PROVE L[m + n + n + s].kind = "gap_fill"
      OBVIOUS
    <3>1. L[m + n + n + s] = [sample |-> s, kind |-> "gap_fill"]
      BY <1>2, Zenon
    <3>2. QED
      BY <3>1
  <2>4. QED
    BY <2>1, <2>2, <2>3
<1>4. Len(L) \in Nat /\ Len(L) > 0 /\ L[1].kind = "memorize"
  <2>1. 1 \in 1..m
    BY <1>1
  <2>2. Len(L) \in Nat /\ Len(L) > 0
    BY <1>1, <1>2
  <2>3. QED
    BY <1>2, <2>1, <2>2
<1>5. \A k \in 1..Len(L) :
        \/ k \in 1..m /\ L[k].kind = "memorize"
        \/ k \in (m + 1)..(m + n) /\ L[k].kind = "answer"
        \/ triple /\ k \in (m + n + 1)..(m + n + n) /\ L[k].kind = "subsampled"
        \/ triple /\ k \in (m + n + n + 1)..(m + n + n + n) /\ L[k].kind = "gap_fill"
  <2> SUFFICES ASSUME NEW k \in 1..Len(L)
               PROVE  \/ k \in 1..m /\ L[k].kind = "memorize"
                      \/ k \in (m + 1)..(m + n) /\ L[k].kind = "answer"
                      \/ triple /\ k \in (m + n + 1)..(m + n + n) /\ L[k].kind = "subsampled"
                      \/ triple /\ k \in (m + n + n + 1)..(m + n + n + n) /\ L[k].kind = "gap_fill"
    OBVIOUS
  <2>1. k \in Nat /\ k >= 1 /\ k <= m + (IF triple THEN 3 * n ELSE n)
    BY <1>2, <1>4
  <2>2. CASE k <= m
    BY <1>1, <1>2, <2>1, <2>2
  <2>3. CASE m < k /\ k <= m + n
    <3> DEFINE s == k - (m)
    <3>1. s \in 1..n /\ k = m + s /\ k \in (m + 1)..(m + n)
      BY <1>1, <2>1, <2>3
    <3> HIDE DEF s
    <3>2. L[m + s].kind = "answer"
      BY <1>3, <3>1
    <3>3. QED
      BY <3>1, <3>2
  <2>4. CASE m + n < k /\ k <= m + n + n
    <3> DEFINE s == k - (m + n)
    <3>1. triple /\ k <= m + n + n
      BY <1>1, <2>1, <2>4
    <3>2. s \in 1..n /\ k = m + n + s /\ k \in (m + n + 1)..(m + n + n)
      BY <1>1, <2>1, <2>4, <3>1
    <3> HIDE DEF s
    <3>3. L[m + n + s].kind = "subsampled"
      BY <1>3, <3>1, <3>2
    <3>4. QED
      BY <3>1, <3>2, <3>3
  <2>5. CASE m + n + n < k
    <3> DEFINE s == k - (m + n + n)
    <3>1. triple /\ k <= m + n + n + n
      BY <1>1, <2>1, <2>5
    <3>2. s \in 1..n /\ k = m + n + n + s /\ k \in (m + n + n + 1)..(m + n + n + n)
      BY <1>1, <2>1, <2>5, <3>1
    <3> HIDE DEF s
    <3>3. L[m + n + n + s].kind = "gap_fill"
      BY <1>3, <3>1, <3>2
    <3>4. QED
      BY <3>1, <3>2, <3>3
  <2>6. QED
    BY <1>1, <2>1, <2>2, <2>3, <2>4, <2>5
<1>6. ASSUME NEW o \in Objectives
      PROVE  \E a \in Nat : IsBlockOf(L, o, a)
  <2>1. \/ o = "answer"
        \/ triple /\ o = "subsampled"
        \/ triple /\ o = "gap_fill"
    BY DEF Objectives
  <2>2. CASE o = "answer"
    <3>1. \A k \in 1..Len(L) : L[k].kind = o <=> k \in (m + 1)..(m + n)
      <4>1. \A k \in 1..Len(L) : k \in (m + 1)..(m + n) =>
              ~(k \in 1..m) /\ ~(k \in (m + n + 1)..(m + n + n))
              /\ ~(k \in (m + n + n + 1)..(m + n + n + n))
        BY <1>1
      <4>2. QED
        BY <1>5, <2>2, <4>1
    <3>2. m \in Nat /\ m + n <= Len(L)
      BY <1>1, <1>2
    <3>3. IsBlockOf(L, o, m)
      BY <1>1, <1>2, <2>2, <3>1, <3>2 DEF IsBlockOf, n
    <3>4. QED
      BY <3>2, <3>3
  <2>3. CASE triple /\ o = "subsampled"
    <3>1. \A k \in 1..Len(L) : L[k].kind = o <=> k \in (m + n + 1)..(m + n + n)
      <4>1. \A k \in 1..Len(L) : k \in (m + n + 1)..(m + n + n) =>
              ~(k \in 1..m) /\ ~(k \in (m + 1)..(m + n))
              /\ ~(k \in (m + n + n + 1)..(m + n + n + n))
        BY <1>1
      <4>2. QED
        BY <1>5, <2>3, <4>1
    <3>2. m + n \in Nat /\ (m + n) + n <= Len(L)
      BY <1>1, <1>2, <2>3
    <3>3. IsBlockOf(L, o, m + n)
      BY <1>1, <1>2, <2>3, <3>1, <3>2, Zenon DEF IsBlockOf, n
    <3>4. QED
      BY <3>2, <3>3
  <2>4. CASE triple /\ o = "gap_fill"
    <3>1. \A k \in 1..Len(L) : L[k].kind = o <=> k \in (m + n + n + 1)..(m + n + n + n)
      <4>1. \A k \in 1..Len(L) : k \in (m + n + n + 1)..(m + n + n + n) =>
              ~(k \in 1..m) /\ ~(k \in (m + 1)..(m + n))
              /\ ~(k \in (m + n + 1)..(m + n + n))
        BY <1>1
      <4>2. QED
        BY <1>5, <2>4, <4>1
    <3>2. m + n + n \in Nat /\ (m + n + n) + n <= Len(L)
      BY <1>1, <1>2, <2>4
    <3>3. IsBlockOf(L, o, m + n + n)
      BY <1>1, <1>2, <2>4, <3>1, <3>2, Zenon DEF IsBlockOf, n
    <3>4. QED
      BY <3>2, <3>3
  <2>5. QED
    BY <2>1, <2>2, <2>3, <2>4
<1>7. QED
  BY <1>2, <1>4, <1>6 DEF L

(* The image of a finite set under an injection is as large.               *)
LEMMA ImageCardinality ==
  ASSUME NEW S, IsFiniteSet(S), NEW f,
         \A x, y \in S : f[x] = f[y] => x = y
  PROVE  /\ IsFiniteSet({f[x] : x \in S})
         /\ Cardinality({f[x] : x \in S}) = Cardinality(S)
<1> DEFINE T == {f[x] : x \in S}
           g == [x \in S |-> f[x]]
<1>1. g \in [S -> T]
  OBVIOUS
<1>2. \A x, y \in S : g[x] = g[y] => x = y
  OBVIOUS
<1>3. \A y \in T : \E x \in S : g[x] = y
  OBVIOUS
<1> HIDE DEF T, g
<1>4. g \in Bijection(S, T)
  BY <1>1, <1>2, <1>3 DEF Bijection, Injection, Surjection, IsInjective
<1>5. ExistsBijection(S, T)
  BY <1>4 DEF ExistsBijection
<1>6. IsFiniteSet(T) /\ Cardinality(T) = Cardinality(S)
  BY <1>5, FS_Bijection
<1>7. QED
  BY <1>6 DEF T

(* The rows of the batch before anything was computed for them.            *)
Source == [k \in DOMAIN LoopRows |-> TrainingRow(k, LoopRows[k].sample)]

LEMMA DomainOfRows ==
  ASSUME SetupOK
  PROVE  /\ DOMAIN LoopRows = 1..Len(LoopRows)
         /\ \A k \in 1..Len(LoopRows) : LoopRows[k] \in AnyRow
<1>1. LoopRows \in Seq(AnyRow)
  BY LoopRowsShape
<1>2. QED
  BY <1>1, ElementOfSeq

(* The places of a block, in their order.                                  *)
LEMMA PlacesOfBlock ==
  ASSUME NEW size \in Nat, NEW a \in Nat, NEW n \in Nat, a + n <= size,
         NEW mask \in [1..size -> BOOLEAN], Dispatch!MarksBlock(mask, a, n)
  PROVE  SetPlaces(mask) = [i \in 1..n |-> a + i]
<1>1. Dispatch!SetPlaces(mask) = [i \in 1..n |-> a + i]
  BY SameAssumption, Dispatch!PlacesOfBlock
<1>2. QED
  BY <1>1, SameSetPlaces

(* Indices that stand in order are put in order by leaving them.           *)
LEMMA ReverseOfOrdered ==
  ASSUME NEW n \in Nat
  PROVE  ReverseIndices([i \in 1..n |-> i]) = [i \in 1..n |-> i]
BY SameAssumption, SameReverse, Dispatch!ReverseOfOrdered

(* The reward of an objective reaches the sample whose answer it scores.   *)
LEMMA RewardIsOwn ==
  ASSUME SetupOK, gen_batch_output = LoopRows, batch = Source, NEW o \in Objectives
  PROVE  /\ DOMAIN RewardTensor(o) = Samples
         /\ \A s \in Samples : IsScoreOf(RewardTensor(o)[s], o, s)
<1> DEFINE n == NumSamples
           size == Len(LoopRows)
           mask == MaskOf(o)
           final == FinalBatch(batch, mask, sample_index)
<1>1. n \in Nat /\ n > 0 /\ Samples = 1..n /\ size \in Nat
  BY NumSamplesType, LoopRowsShape
<1>2. PICK a \in Nat : IsBlockOf(LoopRows, o, a)
  BY LoopRowsShape
<1>3. /\ a + n <= size
      /\ \A k \in 1..size : LoopRows[k].kind = o <=> k \in (a + 1)..(a + n)
      /\ \A s \in 1..n : LoopRows[a + s] = [sample |-> s, kind |-> o]
  BY <1>1, <1>2 DEF IsBlockOf
<1>4. DOMAIN LoopRows = 1..size
  BY DomainOfRows
<1>5. mask = [k \in 1..size |-> LoopRows[k].kind = o]
  BY <1>4 DEF MaskOf
<1>6. SetPlaces(mask) = [i \in 1..n |-> a + i]
  <2>1. mask \in [1..size -> BOOLEAN]
    <3> HIDE DEF mask, size
    <3>1. QED
      BY <1>5
  <2>2. \A k \in 1..size : mask[k] <=> k \in (a + 1)..(a + n)
    <3> HIDE DEF mask, size, n
    <3>1. QED
      BY <1>3, <1>5, Zenon
  <2>3. size \in Nat /\ a + n <= size
    BY <1>1, <1>3
  <2>4. Dispatch!MarksBlock(mask, a, n)
    <3> HIDE DEF mask, size, n
    <3>1. DOMAIN mask = 1..size
      BY <2>1
    <3>2. QED
      BY <2>2, <3>1 DEF Dispatch!MarksBlock
  <2> HIDE DEF mask, size, n
  <2>5. QED
    BY <1>1, <2>1, <2>3, <2>4, PlacesOfBlock
<1> HIDE DEF mask, size, n
<1>7. ASSUME NEW s \in 1..n
      PROVE  a + s \in 1..size
  BY <1>1, <1>3
<1>8. SelectRows(sample_index, mask) = [i \in 1..n |-> i]
  <2>1. \A s \in 1..n : sample_index[a + s] = s
    <3> SUFFICES ASSUME NEW s \in 1..n PROVE sample_index[a + s] = s
      OBVIOUS
    <3>1. LoopRows[a + s] = [sample |-> s, kind |-> o]
      BY <1>3
    <3>2. sample_index[a + s] = LoopRows[a + s].sample
      BY <1>4, <1>7 DEF sample_index
    <3>3. QED
      BY <3>1, <3>2
  <2>2. SelectRows(sample_index, mask) = [i \in 1..n |-> sample_index[a + i]]
    BY <1>6 DEF SelectRows, TakeRows
  <2>3. QED
    BY <2>1, <2>2
<1>9. ReverseIndices(SelectRows(sample_index, mask)) = [i \in 1..n |-> i]
  BY <1>1, <1>8, ReverseOfOrdered
<1>10. SelectRows(batch, mask) = [i \in 1..n |-> batch[a + i]]
  BY <1>6 DEF SelectRows, TakeRows
<1>11. final = [i \in 1..n |-> batch[a + i]]
  <2>1. FinalBatch(batch, mask, sample_index)
          = [k \in DOMAIN [i \in 1..n |-> i] |-> [i \in 1..n |-> batch[a + i]][[i \in 1..n |-> i][k]]]
    BY <1>9, <1>10 DEF FinalBatch, TakeRows
  <2>2. QED
    BY <2>1
<1>12. ASSUME NEW s \in 1..n
       PROVE  final[s].row = a + s
  <2>1. final[s] = batch[a + s]
    BY <1>11
  <2>2. batch[a + s] = TrainingRow(a + s, LoopRows[a + s].sample)
    BY <1>4, <1>7 DEF Source
  <2>3. QED
    BY <2>1, <2>2 DEF TrainingRow
<1>13. RewardTensor(o) = [s \in 1..n |-> [response |-> final[s].row, truth |-> <<o, s>>]]
  BY <1>1 DEF RewardTensor, mask
<1> HIDE DEF final
<1>14. \A s \in 1..n : RewardTensor(o)[s] = [response |-> a + s, truth |-> <<o, s>>]
  BY <1>12, <1>13
<1>15. ASSUME NEW s \in 1..n
       PROVE  IsScoreOf(RewardTensor(o)[s], o, s)
  <2>1. RewardTensor(o)[s] = [response |-> a + s, truth |-> <<o, s>>]
    BY <1>14
  <2>2. LoopRows[a + s] = [sample |-> s, kind |-> o]
    BY <1>3
  <2>3. QED
    BY <2>1, <2>2 DEF IsScoreOf
<1>16. DOMAIN RewardTensor(o) = 1..n
  BY <1>13
<1>17. QED
  BY <1>1, <1>15, <1>16

(* The uid of a sample tells its prompt.                                   *)
LEMMA UidIsPrompt ==
  ASSUME uid = Repeat([p \in 1..Prompts |-> p], RolloutN)
  PROVE  \A s \in Samples : uid[s] = PromptOf(s)
<1> DEFINE rows == [p \in 1..Prompts |-> p]
<1>1. /\ Prompts \in Nat /\ RolloutN \in Nat /\ Samples = 1..(Prompts * RolloutN)
      /\ Prompts * RolloutN = RolloutN * Prompts
  BY NumSamplesType DEF NumSamples
<1>2. rows \in [1..Prompts -> 1..Prompts]
  OBVIOUS
<1>3. Len(rows) = Prompts
  <2> HIDE DEF rows
  <2>1. QED
    BY <1>1, <1>2, FunctionIsSequence
<1>4. uid = [k \in 1..(RolloutN * Prompts) |-> rows[((k - 1) \div RolloutN) + 1]]
  <2>1. Repeat(rows, RolloutN) = [k \in 1..(RolloutN * Len(rows)) |-> rows[((k - 1) \div RolloutN) + 1]]
    BY DEF Repeat
  <2> HIDE DEF rows
  <2>2. QED
    BY <1>3, <2>1, Zenon DEF rows
<1>5. ASSUME NEW s \in Samples
      PROVE  uid[s] = PromptOf(s)
  <2>1. PromptOf(s) \in 1..Prompts
    BY SamplesOfPrompt
  <2>2. s \in 1..(RolloutN * Prompts)
    BY <1>1
  <2>3. uid[s] = rows[PromptOf(s)]
    <3> HIDE DEF rows
    <3>1. QED
      BY <1>4, <2>2 DEF PromptOf
  <2>4. QED
    BY <2>1, <2>3
<1>6. QED
  BY <1>5

(* An advantage compares the score of the sample with those of the samples *)
(* of its prompt, one each.                                                *)
ScoresOK ==
  \A o \in Objectives : \A s \in Samples : IsScoreOf(scores[o][s], o, s)

LEMMA AdvantageOfSample ==
  ASSUME ScoresOK, uid = Repeat([p \in 1..Prompts |-> p], RolloutN),
         NEW o \in Objectives, NEW s \in Samples
  PROVE  IsAdvantageOf(AdvantageScalar(o)[s], o, s)
<1> DEFINE T == {t \in Samples : uid[t] = uid[s]}
           G == {t \in Samples : PromptOf(t) = PromptOf(s)}
           f == scores[o]
           group == {f[t] : t \in T}
<1>1. \A t \in Samples : uid[t] = PromptOf(t)
  BY UidIsPrompt
<1>2. T = G
  BY <1>1
<1>3. IsFiniteSet(G) /\ Cardinality(G) = RolloutN
  BY SamplesOfPrompt
<1>4. \A t \in Samples : IsScoreOf(f[t], o, t)
  BY DEF ScoresOK
<1>5. \A x, y \in T : f[x] = f[y] => x = y
  <2> SUFFICES ASSUME NEW x \in Samples, NEW y \in Samples, f[x] = f[y] PROVE x = y
    OBVIOUS
  <2>1. f[x].truth = <<o, x>> /\ f[y].truth = <<o, y>>
    BY <1>4, Zenon DEF IsScoreOf
  <2>2. <<o, x>> = <<o, y>>
    BY <2>1
  <2>3. QED
    BY <2>2
<1>6. Cardinality(group) = RolloutN
  <2>1. IsFiniteSet(T) /\ Cardinality(T) = RolloutN
    <3> HIDE DEF T, G
    <3>1. QED
      BY <1>2, <1>3
  <2> HIDE DEF T, f
  <2>2. Cardinality({f[x] : x \in T}) = Cardinality(T)
    BY <1>5, <2>1, ImageCardinality
  <2>3. QED
    BY <2>1, <2>2
<1>7. AdvantageScalar(o)[s] = [own |-> f[s], group |-> group]
  BY DEF AdvantageScalar
<1>8. \A score \in group : \E t \in Samples : PromptOf(t) = PromptOf(s) /\ IsScoreOf(score, o, t)
  <2> SUFFICES ASSUME NEW t \in T
               PROVE  \E u \in Samples : PromptOf(u) = PromptOf(s) /\ IsScoreOf(f[t], o, u)
    OBVIOUS
  <2>1. t \in Samples /\ PromptOf(t) = PromptOf(s)
    BY <1>2
  <2>2. IsScoreOf(f[t], o, t)
    BY <1>4, <2>1
  <2>3. QED
    BY <2>1, <2>2
<1>9. IsScoreOf(f[s], o, s)
  BY <1>4
<1> HIDE DEF group, f
<1>10. AdvantageScalar(o)[s].own = f[s] /\ AdvantageScalar(o)[s].group = group
  BY <1>7
<1>11. QED
  BY <1>6, <1>8, <1>9, <1>10 DEF IsAdvantageOf

(* The advantage of a row is made of those of the objectives it serves.    *)
IsOwn(source, terms) ==
  /\ {t.objective : t \in terms} =
       IF source.kind = "memorize" THEN Objectives ELSE {source.kind}
  /\ Cardinality({t.objective : t \in terms}) = Cardinality(terms)
  /\ \A t \in terms : IsAdvantageOf(t.advantage, t.objective, source.sample)

LEMMA AdvantageOfRow ==
  ASSUME SetupOK, gen_batch_output = LoopRows, ScoresOK,
         uid = Repeat([p \in 1..Prompts |-> p], RolloutN),
         NEW k \in 1..Len(LoopRows)
  PROVE  IsOwn(LoopRows[k], WorkingAdvantage(k))
<1> DEFINE source == LoopRows[k]
           serves == {o \in Objectives : source.kind \in {"memorize", o}}
           term == [o \in serves |-> Term(o, k)]
           terms == {term[o] : o \in serves}
<1>1. /\ DOMAIN LoopRows = 1..Len(LoopRows)
      /\ source.sample \in Samples /\ source.kind \in {"memorize"} \cup Objectives
  BY DomainOfRows DEF AnyRow
<1>2. sample_index[k] = source.sample
  BY <1>1 DEF sample_index
<1>3. WorkingAdvantage(k) = terms
  <2>1. WorkingAdvantage(k) = {Term(o, k) : o \in serves}
    BY DEF WorkingAdvantage
  <2> HIDE DEF serves
  <2>2. QED
    BY <2>1
<1>4. \A o \in serves : /\ term[o].objective = o
                        /\ term[o].advantage = AdvantageScalar(o)[source.sample]
  <2> HIDE DEF serves, source
  <2>1. QED
    BY <1>2 DEF Term
<1>5. serves = IF source.kind = "memorize" THEN Objectives ELSE {source.kind}
  <2>1. "memorize" \notin Objectives
    BY DEF Objectives
  <2> HIDE DEF source
  <2>2. QED
    BY <1>1, <2>1
<1>6. IsFiniteSet(serves)
  <2>1. IsFiniteSet({"answer", "subsampled", "gap_fill"})
    <3>1. IsFiniteSet({})
      BY FS_EmptySet
    <3>2. IsFiniteSet({} \cup {"answer"})
      BY <3>1, FS_AddElement
    <3>3. IsFiniteSet(({} \cup {"answer"}) \cup {"subsampled"})
      BY <3>2, FS_AddElement
    <3>4. IsFiniteSet((({} \cup {"answer"}) \cup {"subsampled"}) \cup {"gap_fill"})
      BY <3>3, FS_AddElement
    <3>5. (({} \cup {"answer"}) \cup {"subsampled"}) \cup {"gap_fill"}
            = {"answer", "subsampled", "gap_fill"}
      OBVIOUS
    <3>6. QED
      BY <3>4, <3>5
  <2>2. serves \subseteq {"answer", "subsampled", "gap_fill"}
    BY DEF Objectives
  <2> HIDE DEF serves
  <2>3. QED
    BY <2>1, <2>2, FS_Subset, Zenon
<1>7. serves \subseteq Objectives
  OBVIOUS
<1> HIDE DEF serves, term, source
<1>8. {t.objective : t \in terms} = serves
  BY <1>4
<1>9. Cardinality(terms) = Cardinality(serves)
  <2>1. \A x, y \in serves : term[x] = term[y] => x = y
    BY <1>4
  <2>2. QED
    BY <1>6, <2>1, ImageCardinality
<1>10. \A t \in terms : IsAdvantageOf(t.advantage, t.objective, source.sample)
  <2> SUFFICES ASSUME NEW o \in serves
               PROVE  IsAdvantageOf(term[o].advantage, term[o].objective, source.sample)
    OBVIOUS
  <2>1. IsAdvantageOf(AdvantageScalar(o)[source.sample], o, source.sample)
    BY <1>1, <1>7, AdvantageOfSample
  <2>2. QED
    BY <1>4, <2>1
<1> HIDE DEF terms
<1>11. IsOwn(source, terms)
  BY <1>5, <1>8, <1>9, <1>10, Zenon DEF IsOwn
<1>12. QED
  BY <1>3, <1>11 DEF source

(* A function on 1..n is a sequence of n elements.                         *)
LEMMA LengthOfFunction ==
  ASSUME NEW n \in Nat, NEW f, f = [k \in 1..n |-> f[k]]
  PROVE  /\ f \in Seq({f[k] : k \in 1..n})
         /\ Len(f) = n /\ DOMAIN f = 1..n
<1> DEFINE S == {f[k] : k \in 1..n}
<1>1. f \in [1..n -> S]
  OBVIOUS
<1> HIDE DEF S
<1>2. f \in Seq(S) /\ Len(f) = n /\ DOMAIN f = 1..n
  BY <1>1, FunctionIsSequence
<1>3. QED
  BY <1>2 DEF S

(* The batch as the rollout leaves it: a row for every row of the loop.    *)
LEMMA SourceRows ==
  ASSUME SetupOK
  PROVE  LET n == Len(LoopRows)
         IN  /\ n \in Nat /\ n > 0
             /\ Len(Source) = n /\ DOMAIN Source = 1..n
             /\ \A k \in 1..n : Source[k] = TrainingRow(k, LoopRows[k].sample)
<1> DEFINE n == Len(LoopRows)
<1>1. n \in Nat /\ n > 0 /\ DOMAIN LoopRows = 1..n
  BY LoopRowsShape, DomainOfRows
<1> HIDE DEF n
<1>2. Source = [k \in 1..n |-> TrainingRow(k, LoopRows[k].sample)]
  BY <1>1 DEF Source
<1>3. \A k \in 1..n : Source[k] = TrainingRow(k, LoopRows[k].sample)
  BY <1>2
<1>4. Source = [k \in 1..n |-> Source[k]]
  BY <1>2
<1>5. Len(Source) = n /\ DOMAIN Source = 1..n
  BY <1>1, <1>4, LengthOfFunction
<1>6. QED
  BY <1>1, <1>3, <1>5 DEF n

(* Padded for the log probabilities, the batch has fewer repeated rows     *)
(* than ranks, and its own rows first.                                     *)
LEMMA PaddedRows ==
  ASSUME SetupOK
  PROVE  LET n    == Len(LoopRows)
             pad  == PadSize(n, world_size)
             rows == PadToDivisor(Source, world_size)
         IN  /\ pad \in Nat /\ pad < world_size
             /\ Len(rows) = n + pad /\ DOMAIN rows = 1..(n + pad)
             /\ \A k \in 1..(n + pad) : \E r \in 1..n : rows[k] = Source[r]
             /\ \A k \in 1..n : rows[k] = Source[k]
<1> DEFINE n    == Len(LoopRows)
           W    == world_size
           pad  == PadSize(n, W)
           rows == PadToDivisor(Source, W)
           place(k) == ((k - 1) % n) + 1
<1>1. /\ n \in Nat /\ n > 0 /\ Len(Source) = n
      /\ W \in Nat /\ W > 0
  <2>1. W \in Nat /\ W > 0
    BY ConstantsAre DEF SetupOK
  <2>2. QED
    BY <2>1, SourceRows
<1> HIDE DEF n
<1>2. pad \in Nat /\ pad < W
  <2>1. n % W \in Nat /\ n % W < W
    BY <1>1, Division
  <2>2. W - (n % W) \in Nat
    BY <1>1, <2>1
  <2>3. (W - (n % W)) % W \in Nat /\ (W - (n % W)) % W < W
    BY <1>1, <2>2, Division
  <2>4. QED
    BY <2>3 DEF PadSize
<1> HIDE DEF pad
<1>3. rows = [k \in 1..(n + pad) |-> Source[place(k)]]
  BY <1>1 DEF PadToDivisor, pad
<1>4. \A k \in 1..(n + pad) : place(k) \in 1..n
  <2> SUFFICES ASSUME NEW k \in 1..(n + pad) PROVE place(k) \in 1..n
    OBVIOUS
  <2>1. k - 1 \in Nat
    BY <1>1, <1>2
  <2>2. (k - 1) % n \in Nat /\ (k - 1) % n < n
    BY <1>1, <2>1, Division
  <2>3. QED
    BY <1>1, <2>2
<1>5. \A k \in 1..n : place(k) = k /\ k \in 1..(n + pad)
  <2> SUFFICES ASSUME NEW k \in 1..n PROVE place(k) = k /\ k \in 1..(n + pad)
    OBVIOUS
  <2>1. k - 1 \in Nat /\ k - 1 < n /\ n * 0 + (k - 1) = k - 1 /\ 0 \in Nat
    BY <1>1
  <2>2. (n * 0 + (k - 1)) % n = k - 1
    BY <1>1, <2>1, DivisionUnique
  <2>3. (k - 1) % n = k - 1
    BY <2>1, <2>2
  <2>4. place(k) = k
    BY <2>3, <1>1
  <2>5. k \in 1..(n + pad)
    BY <1>1, <1>2
  <2>6. QED
    BY <2>4, <2>5
<1> HIDE DEF rows, place
<1>6. \A k \in 1..(n + pad) : \E r \in 1..n : rows[k] = Source[r]
  BY <1>3, <1>4
<1>7. \A k \in 1..n : rows[k] = Source[k]
  BY <1>3, <1>5
<1>8. Len(rows) = n + pad /\ DOMAIN rows = 1..(n + pad)
  <2>1. n + pad \in Nat
    BY <1>1, <1>2
  <2>2. rows = [k \in 1..(n + pad) |-> rows[k]]
    BY <1>3
  <2>3. QED
    BY <2>1, <2>2, LengthOfFunction
<1>9. QED
  BY <1>2, <1>6, <1>7, <1>8 DEF n, W, pad, rows

(* Removing the repeated rows leaves the first n.                          *)
LEMMA UnpaddedRows ==
  ASSUME NEW n \in Nat, NEW pad \in Nat, NEW rows,
         rows = [k \in 1..(n + pad) |-> rows[k]]
  PROVE  /\ DOMAIN Unpadded(rows, pad) = 1..n
         /\ \A k \in 1..n : Unpadded(rows, pad)[k] = rows[k]
<1> DEFINE S == {rows[k] : k \in 1..(n + pad)}
           u == SubSeq(rows, 1, n)
<1>1. n + pad \in Nat /\ (n + pad) - pad = n
  OBVIOUS
<1>2. rows \in Seq(S) /\ Len(rows) = n + pad
  BY <1>1, LengthOfFunction
<1> HIDE DEF S
<1>3. Unpadded(rows, pad) = u
  BY <1>1, <1>2 DEF Unpadded
<1>4. \A i \in 1..n : rows[i] \in S
  <2>1. \A i \in 1..n : i \in 1..Len(rows)
    BY <1>2
  <2>2. QED
    BY <1>2, <2>1, ElementOfSeq
<1>5. /\ u \in Seq(S)
      /\ Len(u) = n
      /\ \A i \in 1..n : u[i] = rows[i]
  <2>1. n \in Int /\ 1 \in Int
    OBVIOUS
  <2>2. /\ SubSeq(rows, 1, n) \in Seq(S)
        /\ Len(SubSeq(rows, 1, n)) = IF 1 <= n THEN n - 1 + 1 ELSE 0
        /\ \A i \in 1..(n - 1 + 1) : SubSeq(rows, 1, n)[i] = rows[1 + i - 1]
    BY <1>4, <2>1, SubSeqProperties, SMTT(20)
  <2>3. n - 1 + 1 = n /\ (IF 1 <= n THEN n - 1 + 1 ELSE 0) = n
    OBVIOUS
  <2>4. \A i \in 1..n : 1 + i - 1 = i
    OBVIOUS
  <2>5. u = SubSeq(rows, 1, n)
    OBVIOUS
  <2> HIDE DEF u
  <2>6. u \in Seq(S) /\ Len(u) = n
    BY <2>2, <2>3, <2>5, Zenon
  <2>7. \A i \in 1..n : u[i] = rows[i]
    BY <2>2, <2>3, <2>4, <2>5
  <2>8. QED
    BY <2>6, <2>7, Zenon
<1>6. DOMAIN u = 1..n
  BY <1>5, LenProperties
<1>7. \A k \in 1..n : u[k] = rows[k]
  BY <1>5
<1>8. QED
  BY <1>3, <1>6, <1>7

(* A row of the batch, whatever has been computed for it.                  *)
IsRow(r, k, tokens) ==
  r = [row |-> k, tokens |-> tokens, log_prob |-> r.log_prob, advantage |-> r.advantage]

OwnRows(rows) ==
  \A k \in DOMAIN rows : /\ rows[k].row \in 1..Len(LoopRows)
                         /\ IsOwn(LoopRows[rows[k].row], rows[k].advantage)

(* The two columns of the batch that Advantage fills.                      *)
WithLogProbs(rows, logs) ==
  [k \in DOMAIN rows |-> [rows[k] EXCEPT !.log_prob = logs[k].row]]

WithAdvantages(rows) ==
  [k \in DOMAIN rows |-> [rows[k] EXCEPT !.advantage = WorkingAdvantage(k)]]

(* The batch with its advantages: the repeated rows are gone again.        *)
LEMMA AdvantageRows ==
  ASSUME SetupOK, gen_batch_output = LoopRows, ScoresOK,
         uid = Repeat([p \in 1..Prompts |-> p], RolloutN),
         batch = PadToDivisor(Source, world_size),
         pad_size = PadSize(Len(LoopRows), world_size),
         NEW logs, NEW result,
         result = WithAdvantages(Unpadded(WithLogProbs(batch, logs), pad_size))
  PROVE  /\ DOMAIN result = 1..Len(LoopRows)
         /\ result = [k \in 1..Len(LoopRows) |-> result[k]]
         /\ \A k \in 1..Len(LoopRows) : IsRow(result[k], k, seq_len[LoopRows[k].sample])
         /\ \A k \in 1..Len(LoopRows) : result[k].log_prob = logs[k].row
         /\ OwnRows(result)
<1> DEFINE n == Len(LoopRows)
           joined == WithLogProbs(batch, logs)
           rows == Unpadded(joined, pad_size)
<1>1. n \in Nat /\ n > 0 /\ \A k \in 1..n : Source[k] = TrainingRow(k, LoopRows[k].sample)
  BY SourceRows
<1>2. /\ pad_size \in Nat /\ DOMAIN batch = 1..(n + pad_size)
      /\ \A k \in 1..n : batch[k] = Source[k]
  BY PaddedRows
<1> HIDE DEF n
<1>3. joined = [k \in 1..(n + pad_size) |-> [batch[k] EXCEPT !.log_prob = logs[k].row]]
  BY <1>2 DEF WithLogProbs
<1> HIDE DEF joined
<1>4. joined = [k \in 1..(n + pad_size) |-> joined[k]]
  BY <1>3
<1>5. DOMAIN rows = 1..n /\ \A k \in 1..n : rows[k] = joined[k]
  <2>1. n \in Nat /\ pad_size \in Nat
    BY <1>1, <1>2
  <2>2. DOMAIN Unpadded(joined, pad_size) = 1..n
    BY <1>4, <2>1, UnpaddedRows
  <2>3. \A k \in 1..n : Unpadded(joined, pad_size)[k] = joined[k]
    BY <1>4, <2>1, UnpaddedRows
  <2>4. QED
    BY <2>2, <2>3
<1> HIDE DEF rows
<1>6. result = [k \in 1..n |-> [rows[k] EXCEPT !.advantage = WorkingAdvantage(k)]]
  BY <1>5 DEF rows, joined, WithAdvantages
<1>7. DOMAIN result = 1..n /\ result = [k \in 1..n |-> result[k]]
  BY <1>6
<1>8. ASSUME NEW k \in 1..n
      PROVE  /\ IsRow(result[k], k, seq_len[LoopRows[k].sample])
             /\ result[k].row = k
             /\ result[k].log_prob = logs[k].row
             /\ result[k].advantage = WorkingAdvantage(k)
  <2> DEFINE t == seq_len[LoopRows[k].sample]
  <2>1. k \in 1..(n + pad_size)
    BY <1>1, <1>2
  <2>2. joined[k] = [Source[k] EXCEPT !.log_prob = logs[k].row]
    BY <1>2, <1>3, <2>1
  <2>3. Source[k] = [row |-> k, tokens |-> t, log_prob |-> 0, advantage |-> {}]
    BY <1>1 DEF TrainingRow
  <2> HIDE DEF t
  <2>4. rows[k] = [row |-> k, tokens |-> t, log_prob |-> logs[k].row, advantage |-> {}]
    BY <1>5, <2>2, <2>3
  <2>5. result[k] = [rows[k] EXCEPT !.advantage = WorkingAdvantage(k)]
    BY <1>6
  <2>6. result[k] = [row |-> k, tokens |-> t, log_prob |-> logs[k].row,
                     advantage |-> WorkingAdvantage(k)]
    BY <2>4, <2>5
  <2>7. IsRow(result[k], k, t)
    BY <2>6 DEF IsRow
  <2>8. QED
    BY <2>6, <2>7 DEF t
<1>9. OwnRows(result)
  <2> SUFFICES ASSUME NEW k \in 1..n
               PROVE  result[k].row \in 1..n /\ IsOwn(LoopRows[result[k].row], result[k].advantage)
    BY <1>7 DEF OwnRows, n
  <2>1. IsOwn(LoopRows[k], WorkingAdvantage(k))
    BY AdvantageOfRow DEF n
  <2>2. QED
    BY <1>8, <2>1
<1>10. QED
  BY <1>7, <1>8, <1>9 DEF n

(* A slot of the padded batch holds a row of the batch; a padding slot     *)
(* holds the first.                                                        *)
LEMMA IndexOfSlot ==
  ASSUME NEW n \in Nat, n > 0, NEW size \in Nat, NEW mask \in [1..size -> BOOLEAN],
         Cardinality({k \in 1..size : mask[k]}) = n
  PROVE  /\ DOMAIN PaddingIndex(mask) = 1..size
         /\ \A k \in 1..size : /\ PaddingIndex(mask)[k] \in 1..n
                               /\ ~mask[k] => PaddingIndex(mask)[k] = 1
                               /\ mask[k] => PaddingIndex(mask)[k]
                                               = Cardinality({j \in 1..k : mask[j]})
<1> DEFINE index == PaddingIndex(mask)
           set == {k \in 1..size : mask[k]}
           upTo(k) == {j \in 1..k : mask[j]}
<1>1. index = [k \in 1..size |-> IF mask[k] THEN Cardinality(upTo(k)) ELSE 1]
  BY DEF PaddingIndex
<1>2. IsFiniteSet(set)
  <2>1. IsFiniteSet(1..size)
    BY FS_Interval
  <2>2. QED
    BY <2>1, FS_Subset
<1>3. ASSUME NEW k \in 1..size, mask[k]
      PROVE  Cardinality(upTo(k)) \in 1..n
  <2>1. \A j \in 1..k : j \in 1..size
    OBVIOUS
  <2>2. upTo(k) \subseteq set
    BY <2>1
  <2>3. k \in upTo(k)
    BY <1>3
  <2> HIDE DEF set, upTo
  <2>4. IsFiniteSet(upTo(k)) /\ Cardinality(upTo(k)) <= Cardinality(set)
    BY <1>2, <2>2, FS_Subset
  <2>5. Cardinality(upTo(k)) \in Nat /\ Cardinality(upTo(k)) # 0
    BY <2>3, <2>4, FS_EmptySet, FS_CardinalityType
  <2>6. Cardinality(set) = n
    BY DEF set
  <2>7. QED
    BY <2>4, <2>5, <2>6
<1> HIDE DEF index, upTo
<1>4. DOMAIN index = 1..size
  BY <1>1
<1>5. ASSUME NEW k \in 1..size
      PROVE  /\ index[k] \in 1..n
             /\ ~mask[k] => index[k] = 1
             /\ mask[k] => index[k] = Cardinality(upTo(k))
  <2>1. 1 \in 1..n
    OBVIOUS
  <2>2. CASE mask[k]
    BY <1>1, <1>3, <2>2
  <2>3. CASE ~mask[k]
    BY <1>1, <2>1, <2>3
  <2>4. QED
    BY <2>2, <2>3
<1>6. QED
  BY <1>4, <1>5 DEF index, upTo

(* The batch padded for the update: masked rows are copies of the first.   *)
IsPadded(result, rows, mask) ==
  /\ result = [k \in DOMAIN mask |-> result[k]]
  /\ \A k \in DOMAIN mask : /\ result[k].row = PaddingIndex(mask)[k]
                            /\ result[k].tokens \in 0..MaxSeqLen
                            /\ result[k].tokens = 0 <=> ~mask[k]
  /\ \A k \in DOMAIN mask : \E j \in DOMAIN rows : /\ result[k].row = rows[j].row
                                                   /\ result[k].log_prob = rows[j].log_prob

LEMMA UpdateRows ==
  ASSUME SetupOK, gen_batch_output = LoopRows,
         batch = [k \in 1..Len(LoopRows) |-> batch[k]],
         \A k \in 1..Len(LoopRows) : IsRow(batch[k], k, seq_len[LoopRows[k].sample]),
         OwnRows(batch),
         NEW mask, mask = NoPaddingMask(Len(LoopRows), world_size),
         NEW result, result = MaskPadding(TakeRows(batch, PaddingRows(mask)), mask)
  PROVE  IsPadded(result, batch, mask) /\ OwnRows(result)
<1> DEFINE n == Len(LoopRows)
           index == PaddingIndex(mask)
           taken == TakeRows(batch, index)
<1>1. /\ n \in Nat /\ n > 0 /\ world_size \in Nat /\ world_size > 0
      /\ DOMAIN LoopRows = 1..n /\ \A k \in 1..n : LoopRows[k] \in AnyRow
  <2>1. world_size \in Nat /\ world_size > 0
    BY ConstantsAre, SMTT(20) DEF SetupOK
  <2>2. QED
    BY <2>1, LoopRowsShape, DomainOfRows
<1>2. \A k \in 1..n : IsRow(batch[k], k, seq_len[LoopRows[k].sample])
  OBVIOUS
<1>3. ASSUME NEW k \in 1..n
      PROVE  seq_len[LoopRows[k].sample] \in 1..MaxSeqLen
  <2>1. LoopRows[k].sample \in Samples
    BY <1>1 DEF AnyRow
  <2>2. QED
    BY <2>1 DEF SetupOK
<1>4. DOMAIN batch = 1..n
  OBVIOUS
<1> HIDE DEF n
<1>5. PICK size \in Nat : /\ size > 0 /\ mask \in [1..size -> BOOLEAN]
                          /\ Cardinality({k \in 1..size : mask[k]}) = n
  <2>1. mask = NoPaddingMask(n, world_size)
    BY DEF n
  <2>2. \E size \in Nat :
           /\ size > 0 /\ size < n + world_size
           /\ NoPaddingMask(n, world_size) \in [1..size -> BOOLEAN]
           /\ Cardinality({k \in 1..size : NoPaddingMask(n, world_size)[k]}) = n
    BY <1>1, MaskOfBatch, Zenon
  <2>3. QED
    BY <2>1, <2>2, Zenon
<1>6. DOMAIN index = 1..size /\ \A k \in 1..size : index[k] \in 1..n
  <2>1. DOMAIN PaddingIndex(mask) = 1..size
    BY <1>5 DEF PaddingIndex
  <2>2. \A k \in 1..size : PaddingIndex(mask)[k] \in 1..n
    BY <1>1, <1>5, IndexOfSlot, ZenonT(40)
  <2>3. QED
    BY <2>1, <2>2
<1> HIDE DEF index
<1>7. DOMAIN taken = 1..size /\ \A k \in 1..size : taken[k] = batch[index[k]]
  BY <1>6 DEF TakeRows
<1>8. result = [k \in 1..size |-> [taken[k] EXCEPT !.tokens = IF mask[k] THEN @ ELSE 0]]
  <2>1. result = MaskPadding(taken, mask)
    BY DEF PaddingRows, index
  <2> HIDE DEF taken
  <2>2. QED
    BY <1>7, <2>1, Zenon DEF MaskPadding
<1> HIDE DEF taken
<1>9. ASSUME NEW k \in 1..size
      PROVE  /\ result[k].row = index[k]
             /\ result[k].advantage = batch[index[k]].advantage
             /\ result[k].log_prob = batch[index[k]].log_prob
             /\ result[k].tokens \in 0..MaxSeqLen
             /\ result[k].tokens = 0 <=> ~mask[k]
  <2> DEFINE r == batch[index[k]]
             t == seq_len[LoopRows[index[k]].sample]
             u == IF mask[k] THEN t ELSE 0
  <2>1. index[k] \in 1..n
    BY <1>6
  <2>2. t \in 1..MaxSeqLen /\ MaxSeqLen \in Nat
    BY <1>3, <2>1, ConstantsAre, Zenon
  <2>3. r = [row |-> index[k], tokens |-> t, log_prob |-> r.log_prob, advantage |-> r.advantage]
    <3>1. IsRow(r, index[k], t)
      BY <1>2, <2>1
    <3> HIDE DEF r, t
    <3>2. QED
      BY <3>1 DEF IsRow
  <2>4. result[k] = [r EXCEPT !.tokens = IF mask[k] THEN @ ELSE 0]
    <3>1. taken[k] = r
      BY <1>7
    <3> HIDE DEF r, t
    <3>2. QED
      BY <1>8, <3>1, Zenon
  <2> HIDE DEF r, t
  <2>5. result[k] = [row |-> index[k], tokens |-> u, log_prob |-> r.log_prob,
                     advantage |-> r.advantage]
    <3>1. result[k] = [r EXCEPT !.tokens = u]
      BY <2>3, <2>4
    <3> HIDE DEF u
    <3>2. QED
      BY <2>3, <3>1
  <2>6. u \in 0..MaxSeqLen /\ (u = 0 <=> ~mask[k])
    BY <2>2
  <2> HIDE DEF u
  <2>7. /\ result[k].row = index[k] /\ result[k].tokens = u
        /\ result[k].advantage = r.advantage /\ result[k].log_prob = r.log_prob
    BY <2>5
  <2>8. QED
    BY <2>6, <2>7 DEF r
<1>10. DOMAIN mask = 1..size /\ DOMAIN result = 1..size /\ result = [k \in 1..size |-> result[k]]
  BY <1>5, <1>8
<1>11. OwnRows(result)
  <2> SUFFICES ASSUME NEW k \in 1..size
               PROVE  result[k].row \in 1..n /\ IsOwn(LoopRows[result[k].row], result[k].advantage)
    BY <1>10, Zenon DEF OwnRows, n
  <2>1. index[k] \in 1..n /\ index[k] \in DOMAIN batch
    BY <1>4, <1>6, Zenon
  <2>2. IsOwn(LoopRows[batch[index[k]].row], batch[index[k]].advantage)
    BY <2>1 DEF OwnRows
  <2>3. batch[index[k]].row = index[k]
    BY <1>2, <2>1 DEF IsRow
  <2>4. QED
    BY <1>9, <2>1, <2>2, <2>3
<1>12. \A k \in 1..size : \E j \in DOMAIN batch : /\ result[k].row = batch[j].row
                                                  /\ result[k].log_prob = batch[j].log_prob
  <2> SUFFICES ASSUME NEW k \in 1..size
               PROVE  index[k] \in DOMAIN batch /\ batch[index[k]].row = index[k]
    BY <1>9, ZenonT(40)
  <2>1. index[k] \in 1..n
    BY <1>6
  <2>2. IsRow(batch[index[k]], index[k], seq_len[LoopRows[index[k]].sample])
    BY <1>2, <2>1
  <2>3. batch[index[k]].row = index[k]
    BY <2>2 DEF IsRow
  <2>4. QED
    BY <1>4, <2>1, <2>3, Zenon
<1>13. \A k \in DOMAIN mask : /\ result[k].row = PaddingIndex(mask)[k]
                              /\ result[k].tokens \in 0..MaxSeqLen
                              /\ result[k].tokens = 0 <=> ~mask[k]
  BY <1>9, <1>10 DEF index
<1>14. \A k \in DOMAIN mask : \E j \in DOMAIN batch : /\ result[k].row = batch[j].row
                                                   /\ result[k].log_prob = batch[j].log_prob
  BY <1>10, <1>12
<1>15. result = [k \in DOMAIN mask |-> result[k]]
  BY <1>10
<1>16. IsPadded(result, batch, mask)
  BY ONLY <1>13, <1>14, <1>15 DEF IsPadded
<1>17. QED
  BY <1>11, <1>16

(* Without its padding the batch is again that of the loop.                *)
LEMMA MetricRows ==
  ASSUME SetupOK, gen_batch_output = LoopRows,
         no_padding_mask = NoPaddingMask(Len(LoopRows), world_size),
         batch = [k \in DOMAIN no_padding_mask |-> batch[k]],
         \A k \in DOMAIN no_padding_mask : batch[k].row = PaddingIndex(no_padding_mask)[k],
         OwnRows(batch),
         NEW result, result = SelectRows(batch, no_padding_mask)
  PROVE  /\ DOMAIN result = 1..Len(LoopRows)
         /\ result = [k \in 1..Len(LoopRows) |-> result[k]]
         /\ \A k \in 1..Len(LoopRows) : result[k].row = k
         /\ \A k \in 1..Len(LoopRows) : \E j \in DOMAIN batch : result[k] = batch[j]
         /\ OwnRows(result)
<1> DEFINE n == Len(LoopRows)
           mask == no_padding_mask
           P == SetPlaces(mask)
<1>1. n \in Nat /\ n > 0 /\ world_size \in Nat /\ world_size > 0
  <2>1. world_size \in Nat /\ world_size > 0
    BY ConstantsAre, SMTT(20) DEF SetupOK
  <2>2. QED
    BY <2>1, LoopRowsShape
<1> HIDE DEF n
<1>2. PICK size \in Nat : /\ size > 0 /\ mask \in [1..size -> BOOLEAN]
                          /\ Cardinality({k \in 1..size : mask[k]}) = n
  <2>1. mask = NoPaddingMask(n, world_size)
    BY DEF n
  <2> HIDE DEF mask
  <2>2. \E size \in Nat :
           /\ size > 0 /\ size < n + world_size
           /\ NoPaddingMask(n, world_size) \in [1..size -> BOOLEAN]
           /\ Cardinality({k \in 1..size : NoPaddingMask(n, world_size)[k]}) = n
    BY <1>1, MaskOfBatch, Zenon
  <2>3. QED
    BY <2>1, <2>2, Zenon
<1>3. /\ P \in [1..n -> 1..size]
      /\ \A i \in 1..n : mask[P[i]] /\ Cardinality({j \in 1..P[i] : mask[j]}) = i
  <2> HIDE DEF P
  <2>1. LET m == Cardinality({k \in 1..size : mask[k]})
        IN  /\ SetPlaces(mask) \in [1..m -> 1..size]
            /\ \A i \in 1..m : /\ mask[SetPlaces(mask)[i]]
                               /\ Cardinality({j \in 1..SetPlaces(mask)[i] : mask[j]}) = i
    BY <1>2, SetPlacesRank, ZenonT(40)
  <2>2. QED
    BY <1>2, <2>1, Zenon DEF P
<1>4. \A k \in 1..size : mask[k] => PaddingIndex(mask)[k] = Cardinality({j \in 1..k : mask[j]})
  <2> HIDE DEF mask
  <2>1. \A k \in 1..size : /\ PaddingIndex(mask)[k] \in 1..n
                           /\ ~mask[k] => PaddingIndex(mask)[k] = 1
                           /\ mask[k] => PaddingIndex(mask)[k]
                                           = Cardinality({j \in 1..k : mask[j]})
    BY <1>1, <1>2, IndexOfSlot, Zenon
  <2>2. QED
    BY <2>1
<1>5. DOMAIN mask = 1..size /\ DOMAIN batch = 1..size
  BY <1>2
<1>6. \A i \in 1..n : P[i] \in 1..size
  <2> HIDE DEF P
  <2>1. QED
    BY <1>3
<1> HIDE DEF P
<1>7. result = [i \in 1..n |-> batch[P[i]]]
  <2>1. DOMAIN P = 1..n
    BY <1>3
  <2>2. QED
    BY <2>1 DEF SelectRows, TakeRows, P
<1>8. ASSUME NEW i \in 1..n
      PROVE  result[i] = batch[P[i]] /\ result[i].row = i
  <2>1. result[i] = batch[P[i]] /\ P[i] \in 1..size
    BY <1>6, <1>7
  <2>2. batch[P[i]].row = PaddingIndex(mask)[P[i]]
    BY <1>5, <2>1
  <2>3. PaddingIndex(mask)[P[i]] = i
    BY <1>3, <1>4, <2>1, Zenon
  <2>4. QED
    BY <2>1, <2>2, <2>3
<1>9. DOMAIN result = 1..n /\ result = [k \in 1..n |-> result[k]]
  BY <1>7, Zenon
<1>10. OwnRows(result)
  <2> SUFFICES ASSUME NEW k \in 1..n
               PROVE  result[k].row \in 1..n /\ IsOwn(LoopRows[result[k].row], result[k].advantage)
    BY <1>9 DEF OwnRows, n
  <2>1. P[k] \in DOMAIN batch
    BY <1>5, <1>6
  <2>2. batch[P[k]].row \in 1..n /\ IsOwn(LoopRows[batch[P[k]].row], batch[P[k]].advantage)
    BY <2>1 DEF OwnRows, n
  <2>3. QED
    BY <1>8, <2>2, Zenon
<1>11. \A k \in 1..n : \E j \in DOMAIN batch : result[k] = batch[j]
  BY <1>5, <1>6, <1>8, ZenonT(40)
<1>12. QED
  BY <1>8, <1>9, <1>10, <1>11 DEF n

(* The inductive invariant: what the driver holds in each of its phases,   *)
(* in terms of what the loop returned. AdvantageIsOwn alone is not         *)
(* inductive: it says nothing of the batch before the advantages, nor of   *)
(* the order of the rows, by which they are found again.                   *)
LoopOK ==
  /\ phase \in {"rollout", "reward", "log_prob", "advantage", "update", "done"}
  /\ phase = "rollout" => gen_batch_output = <<>>
  /\ phase # "rollout" => /\ gen_batch_output = LoopRows
                          /\ uid = Repeat([p \in 1..Prompts |-> p], RolloutN)
  /\ phase = "log_prob" => ScoresOK
  /\ phase \notin {"update", "done"} => no_padding_mask = <<>>

BatchOK ==
  /\ phase = "rollout" => batch = <<>>
  /\ phase = "reward" => batch = Source
  /\ phase = "log_prob" => /\ batch = PadToDivisor(Source, world_size)
                           /\ pad_size = PadSize(Len(LoopRows), world_size)
  /\ phase = "advantage" =>
       /\ batch = [k \in 1..Len(LoopRows) |-> batch[k]]
       /\ \A k \in 1..Len(LoopRows) : IsRow(batch[k], k, seq_len[LoopRows[k].sample])
  /\ phase = "update" =>
       /\ no_padding_mask = NoPaddingMask(Len(LoopRows), world_size)
       /\ batch = [k \in DOMAIN no_padding_mask |-> batch[k]]
       /\ \A k \in DOMAIN no_padding_mask :
            /\ batch[k].row = PaddingIndex(no_padding_mask)[k]
            /\ batch[k].tokens \in 0..MaxSeqLen
            /\ batch[k].tokens = 0 <=> ~no_padding_mask[k]
  /\ phase = "done" =>
       /\ batch = [k \in 1..Len(LoopRows) |-> batch[k]]
       /\ \A k \in 1..Len(LoopRows) : batch[k].row = k
  /\ phase \in {"advantage", "update", "done"} => OwnRows(batch)

Standing == [call : {"none", "compute_log_prob", "update_actor"},
             mini : Nat \ {0}, micro : Nat \ {0}, entered : BOOLEAN]

IInv ==
  /\ SetupOK
  /\ LoopOK
  /\ BatchOK
  /\ at \in [Ranks -> Standing]

(* Where a rank goes from where it stands.                                 *)
LEMMA StandingMoves ==
  ASSUME NEW r \in Standing
  PROVE  /\ \A name \in {"compute_log_prob", "update_actor"} : [r EXCEPT !.call = name] \in Standing
         /\ [r EXCEPT !.entered = TRUE] \in Standing
         /\ [r EXCEPT !.micro = 1, !.entered = FALSE] \in Standing
         /\ [r EXCEPT !.micro = @ + 1, !.entered = FALSE] \in Standing
         /\ [r EXCEPT !.mini = @ + 1, !.micro = 1, !.entered = FALSE] \in Standing
<1>1. ASSUME NEW x \in Standing
      PROVE  /\ [x EXCEPT !.micro = 1] \in Standing
             /\ [x EXCEPT !.entered = FALSE] \in Standing
  <2>1. [x EXCEPT !.micro = 1] \in Standing
    BY DEF Standing
  <2>2. [x EXCEPT !.entered = FALSE] \in Standing
    BY Zenon DEF Standing
  <2>3. QED
    BY <2>1, <2>2
<1>2. [r EXCEPT !.micro = 1, !.entered = FALSE] \in Standing
  <2>1. [r EXCEPT !.micro = 1, !.entered = FALSE] = [[r EXCEPT !.micro = 1] EXCEPT !.entered = FALSE]
    OBVIOUS
  <2>2. QED
    BY <1>1, <2>1, Zenon
<1>3. [r EXCEPT !.micro = @ + 1, !.entered = FALSE] \in Standing
  <2>1. [r EXCEPT !.micro = @ + 1, !.entered = FALSE]
          = [[r EXCEPT !.micro = @ + 1] EXCEPT !.entered = FALSE]
    OBVIOUS
  <2>2. [r EXCEPT !.micro = @ + 1] \in Standing
    BY DEF Standing
  <2>3. QED
    BY <1>1, <2>1, <2>2, Zenon
<1>4. [r EXCEPT !.mini = @ + 1, !.micro = 1, !.entered = FALSE] \in Standing
  <2>1. [r EXCEPT !.mini = @ + 1, !.micro = 1, !.entered = FALSE]
          = [[[r EXCEPT !.mini = @ + 1] EXCEPT !.micro = 1] EXCEPT !.entered = FALSE]
    OBVIOUS
  <2>2. [r EXCEPT !.mini = @ + 1] \in Standing
    BY DEF Standing
  <2>3. QED
    BY <1>1, <2>1, <2>2, Zenon
<1>5. \A name \in {"compute_log_prob", "update_actor"} : [r EXCEPT !.call = name] \in Standing
  BY DEF Standing
<1>6. [r EXCEPT !.entered = TRUE] \in Standing
  BY Zenon DEF Standing
<1>7. QED
  BY <1>2, <1>3, <1>4, <1>5, <1>6

(* What the setting determines does not change.                            *)
LEMMA SetupUnchanged ==
  ASSUME SetupOK, UNCHANGED fixed
  PROVE  /\ SetupOK' /\ LoopRows' = LoopRows /\ Source' = Source
         /\ Objectives' = Objectives /\ Ranks' = Ranks
<1>1. /\ world_size' = world_size /\ triple' = triple
      /\ chunks' = chunks /\ seq_len' = seq_len
  BY DEF fixed
<1>2. SetupOK'
  BY <1>1 DEF SetupOK
<1>3. \A t : ChunkTurn(t)' = ChunkTurn(t)
  BY <1>1 DEF ChunkTurn
<1>4. LoopRows' = LoopRows
  BY <1>1, <1>3, Zenon DEF LoopRows
<1>5. Source' = Source
  BY <1>1, <1>4 DEF Source, TrainingRow
<1>6. Objectives' = Objectives /\ Ranks' = Ranks
  BY <1>1 DEF Objectives, Ranks
<1>7. QED
  BY <1>2, <1>4, <1>5, <1>6

LEMMA OwnUnchanged ==
  ASSUME SetupOK, UNCHANGED <<fixed, gen_batch_output>>, OwnRows(batch')
  PROVE  OwnRows(batch)'
<1>1. /\ LoopRows' = LoopRows /\ Objectives' = Objectives
      /\ gen_batch_output' = gen_batch_output
  BY SetupUnchanged
<1>2. \A score, o, s : IsScoreOf(score, o, s)' <=> IsScoreOf(score, o, s)
  BY <1>1 DEF IsScoreOf
<1>3. \A advantage, o, s : IsAdvantageOf(advantage, o, s)' <=> IsAdvantageOf(advantage, o, s)
  BY <1>2 DEF IsAdvantageOf
<1>4. \A source, terms : IsOwn(source, terms)' <=> IsOwn(source, terms)
  BY <1>1, <1>3, Zenon DEF IsOwn
<1>5. QED
  BY <1>1, <1>4 DEF OwnRows

(* The steps of the ranks leave what the driver holds alone.               *)
LEMMA DriverUnchanged ==
  ASSUME SetupOK, LoopOK, BatchOK, UNCHANGED <<fixed, driver>>
  PROVE  SetupOK' /\ LoopOK' /\ BatchOK'
<1>1. /\ SetupOK' /\ LoopRows' = LoopRows /\ Source' = Source /\ Objectives' = Objectives
      /\ world_size' = world_size /\ seq_len' = seq_len
  BY SetupUnchanged DEF fixed
<1>2. /\ phase' = phase /\ uid' = uid /\ gen_batch_output' = gen_batch_output
      /\ scores' = scores /\ batch' = batch /\ pad_size' = pad_size
      /\ no_padding_mask' = no_padding_mask
  BY DEF driver
<1>3. ScoresOK' <=> ScoresOK
  BY <1>1, <1>2 DEF ScoresOK, IsScoreOf
<1>4. LoopOK'
  BY <1>1, <1>2, <1>3 DEF LoopOK
<1>5. ASSUME OwnRows(batch)
      PROVE  OwnRows(batch)'
  BY <1>2, <1>5, OwnUnchanged
<1>6. BatchOK'
  BY <1>1, <1>2, <1>5 DEF BatchOK
<1>7. QED
  BY <1>1, <1>4, <1>6

LEMMA InitInv == Init => IInv
<1> SUFFICES ASSUME Init PROVE IInv
  OBVIOUS
<1>1. SetupOK
  <2>1. chunks \in [1..Prompts -> 0..MaxChunks] /\ \E p \in 1..Prompts : chunks[p] > 0
    BY DEF Init
  <2>2. QED
    BY <2>1 DEF Init, SetupOK
<1>2. LoopOK
  BY DEF Init, LoopOK
<1>3. BatchOK
  BY DEF Init, BatchOK
<1>4. at \in [Ranks -> Standing]
  BY DEF Init, Idle, Standing
<1>5. QED
  BY <1>1, <1>2, <1>3, <1>4 DEF IInv

(* A call starts all ranks.                                                *)
LEMMA CallStarts ==
  ASSUME UNCHANGED fixed, NEW name \in {"compute_log_prob", "update_actor"}, NEW rows,
         Call(name, rows)
  PROVE  (at \in [Ranks -> Standing])'
<1>1. at' = [w \in Ranks |-> [Idle EXCEPT !.call = name]] /\ Ranks' = Ranks
  BY SMTT(20) DEF Call, fixed, Ranks
<1>2. [Idle EXCEPT !.call = name] \in Standing
  <2>1. Idle \in Standing
    BY DEF Idle, Standing
  <2>2. QED
    BY <2>1, StandingMoves, Zenon
<1>3. at' \in [Ranks -> Standing]
  BY <1>1, <1>2
<1>4. QED
  BY <1>1, <1>3 DEF Standing

LEMMA RolloutInv == IInv /\ Rollout => IInv'
<1> SUFFICES ASSUME IInv, Rollout PROVE IInv'
  OBVIOUS
<1> USE DEF IInv
<1>1. /\ UNCHANGED <<fixed, no_padding_mask, at>> /\ phase = "rollout" /\ phase' = "reward"
      /\ gen_batch_output' = LoopRows /\ uid' = Repeat([p \in 1..Prompts |-> p], RolloutN)
      /\ batch' = Source
  BY DEF Rollout, Source, ranks
<1>2. /\ SetupOK' /\ LoopRows' = LoopRows /\ Source' = Source /\ Ranks' = Ranks
  BY <1>1, SetupUnchanged
<1>3. LoopOK'
  BY <1>1, <1>2 DEF LoopOK
<1>4. BatchOK'
  BY <1>1, <1>2 DEF BatchOK
<1>5. QED
  BY <1>1, <1>2, <1>3, <1>4 DEF Standing

LEMMA RewardInv == IInv /\ Reward => IInv'
<1> SUFFICES ASSUME IInv, Reward PROVE IInv'
  OBVIOUS
<1> USE DEF IInv
<1>1. /\ UNCHANGED <<fixed, uid, gen_batch_output, no_padding_mask>>
      /\ phase = "reward" /\ phase' = "log_prob"
      /\ scores' = [o \in Objectives |-> RewardTensor(o)]
      /\ pad_size' = PadSize(Len(batch), world_size)
      /\ batch' = PadToDivisor(batch, world_size)
      /\ Call("compute_log_prob", batch')
  BY DEF Reward
<1>2. /\ SetupOK' /\ LoopRows' = LoopRows /\ Source' = Source
      /\ Objectives' = Objectives /\ world_size' = world_size
      /\ gen_batch_output' = gen_batch_output /\ uid' = uid
      /\ no_padding_mask' = no_padding_mask
  BY <1>1, SetupUnchanged DEF fixed
<1>3. /\ gen_batch_output = LoopRows /\ uid = Repeat([p \in 1..Prompts |-> p], RolloutN)
      /\ batch = Source /\ Len(batch) = Len(LoopRows)
  BY <1>1, SourceRows DEF LoopOK, BatchOK
<1>4. ScoresOK'
  <2>1. \A o \in Objectives : \A s \in Samples : IsScoreOf(RewardTensor(o)[s], o, s)
    BY <1>3, RewardIsOwn
  <2>2. \A o \in Objectives : scores'[o] = RewardTensor(o)
    BY <1>1
  <2>3. \A o \in Objectives : \A s \in Samples : IsScoreOf(scores'[o][s], o, s)
    BY <2>1, <2>2
  <2>4. QED
    BY <1>2, <2>3, Zenon DEF ScoresOK, IsScoreOf
<1>5. LoopOK'
  BY <1>1, <1>2, <1>3, <1>4 DEF LoopOK
<1>6. BatchOK'
  BY <1>1, <1>2, <1>3 DEF BatchOK
<1>7. (at \in [Ranks -> Standing])'
  BY <1>1, CallStarts
<1>8. QED
  BY <1>2, <1>5, <1>6, <1>7

LEMMA AdvantageInv == IInv /\ Advantage => IInv'
<1> SUFFICES ASSUME IInv, Advantage PROVE IInv'
  OBVIOUS
<1> USE DEF IInv
<1> DEFINE logs == FlattenSeq(output)
<1>1. /\ UNCHANGED <<fixed, uid, gen_batch_output, no_padding_mask, at>>
      /\ phase = "log_prob" /\ phase' = "advantage"
  BY DEF Advantage
<1>2. batch' = WithAdvantages(Unpadded(WithLogProbs(batch, logs), pad_size))
  BY DEF Advantage, WithAdvantages, WithLogProbs
<1>3. /\ SetupOK' /\ LoopRows' = LoopRows /\ Ranks' = Ranks
      /\ gen_batch_output' = gen_batch_output /\ uid' = uid
      /\ no_padding_mask' = no_padding_mask /\ seq_len' = seq_len
  BY <1>1, SetupUnchanged DEF fixed
<1>4. /\ gen_batch_output = LoopRows /\ uid = Repeat([p \in 1..Prompts |-> p], RolloutN)
      /\ ScoresOK /\ batch = PadToDivisor(Source, world_size)
      /\ pad_size = PadSize(Len(LoopRows), world_size)
  BY <1>1 DEF LoopOK, BatchOK
<1> HIDE DEF logs
<1>5. /\ batch' = [k \in 1..Len(LoopRows) |-> batch'[k]]
      /\ \A k \in 1..Len(LoopRows) : IsRow(batch'[k], k, seq_len[LoopRows[k].sample])
  BY <1>2, <1>4, AdvantageRows
<1>6. OwnRows(batch')
  BY <1>2, <1>4, AdvantageRows
<1>7. OwnRows(batch)'
  BY <1>1, <1>6, OwnUnchanged
<1>8. LoopOK'
  BY <1>1, <1>3, <1>4 DEF LoopOK
<1>9. BatchOK'
  BY <1>1, <1>3, <1>5, <1>7 DEF BatchOK, IsRow
<1>10. QED
  BY <1>1, <1>3, <1>8, <1>9 DEF Standing

LEMMA UpdateActorInv == IInv /\ UpdateActor => IInv'
<1> SUFFICES ASSUME IInv, UpdateActor PROVE IInv'
  OBVIOUS
<1> USE DEF IInv
<1> DEFINE n == Len(LoopRows)
           mask == NoPaddingMask(n, world_size)
<1>1. phase = "advantage"
  BY DEF UpdateActor
<1>2. /\ gen_batch_output = LoopRows /\ uid = Repeat([p \in 1..Prompts |-> p], RolloutN)
      /\ batch = [k \in 1..n |-> batch[k]]
      /\ \A k \in 1..n : IsRow(batch[k], k, seq_len[LoopRows[k].sample])
      /\ OwnRows(batch)
  BY <1>1 DEF LoopOK, BatchOK
<1>3. Len(batch) = n
  <2>1. n \in Nat
    BY LoopRowsShape
  <2> HIDE DEF n
  <2>2. QED
    BY <1>2, <2>1, LengthOfFunction
<1>4. /\ UNCHANGED <<fixed, uid, gen_batch_output>> /\ phase' = "update"
      /\ no_padding_mask' = mask
      /\ batch' = MaskPadding(TakeRows(batch, PaddingRows(mask)), mask)
      /\ Call("update_actor", batch')
  <2> HIDE DEF n
  <2>1. UpdateMask(Len(batch)) = mask
    BY <1>3 DEF UpdateMask
  <2> HIDE DEF mask
  <2>2. QED
    BY <2>1 DEF UpdateActor
<1>5. /\ SetupOK' /\ LoopRows' = LoopRows /\ world_size' = world_size
      /\ gen_batch_output' = gen_batch_output /\ uid' = uid
  BY <1>4, SetupUnchanged DEF fixed
<1>6. /\ batch' = [k \in DOMAIN mask |-> batch'[k]]
      /\ \A k \in DOMAIN mask : /\ batch'[k].row = PaddingIndex(mask)[k]
                                /\ batch'[k].tokens \in 0..MaxSeqLen
                                /\ batch'[k].tokens = 0 <=> ~mask[k]
  <2> HIDE DEF n, mask
  <2>1. IsPadded(batch', batch, mask)
    BY <1>2, <1>4, UpdateRows DEF n, mask
  <2>2. QED
    BY <2>1 DEF IsPadded
<1>7. OwnRows(batch')
  BY <1>2, <1>4, UpdateRows
<1>8. OwnRows(batch)'
  BY <1>4, <1>7, OwnUnchanged
<1>9. LoopOK'
  BY <1>2, <1>4, <1>5 DEF LoopOK
<1>10. (no_padding_mask = NoPaddingMask(Len(LoopRows), world_size))'
  BY <1>4, <1>5
<1>11. BatchOK'
  <2> HIDE DEF mask
  <2>1. QED
    BY <1>4, <1>6, <1>8, <1>10 DEF BatchOK
<1>12. (at \in [Ranks -> Standing])'
  BY <1>4, CallStarts
<1>13. QED
  BY <1>5, <1>9, <1>11, <1>12

LEMMA MetricsInv == IInv /\ Metrics => IInv'
<1> SUFFICES ASSUME IInv, Metrics PROVE IInv'
  OBVIOUS
<1> USE DEF IInv
<1>1. /\ UNCHANGED <<fixed, uid, gen_batch_output, no_padding_mask, at>>
      /\ phase = "update" /\ phase' = "done"
      /\ batch' = SelectRows(batch, no_padding_mask)
  BY DEF Metrics, ranks
<1>2. /\ SetupOK' /\ LoopRows' = LoopRows /\ Ranks' = Ranks
      /\ gen_batch_output' = gen_batch_output /\ uid' = uid
  BY <1>1, SetupUnchanged DEF fixed
<1>3. /\ gen_batch_output = LoopRows /\ uid = Repeat([p \in 1..Prompts |-> p], RolloutN)
      /\ no_padding_mask = NoPaddingMask(Len(LoopRows), world_size)
      /\ batch = [k \in DOMAIN no_padding_mask |-> batch[k]]
      /\ \A k \in DOMAIN no_padding_mask : batch[k].row = PaddingIndex(no_padding_mask)[k]
      /\ OwnRows(batch)
  BY <1>1 DEF LoopOK, BatchOK
<1>4. /\ batch' = [k \in 1..Len(LoopRows) |-> batch'[k]]
      /\ \A k \in 1..Len(LoopRows) : batch'[k].row = k
  BY <1>1, <1>3, MetricRows, SMTT(20)
<1>5. OwnRows(batch')
  BY <1>1, <1>3, MetricRows
<1>6. OwnRows(batch)'
  BY <1>1, <1>5, OwnUnchanged
<1>7. LoopOK'
  BY <1>1, <1>2, <1>3 DEF LoopOK
<1>8. BatchOK'
  BY <1>1, <1>2, <1>4, <1>6 DEF BatchOK
<1>9. QED
  BY <1>1, <1>2, <1>7, <1>8 DEF Standing

(* What a rank does changes only where it stands and what it computed.     *)
LEMMA RanksInv == IInv /\ (Collective \/ \E w \in Ranks : Rank(w)) => IInv'
<1> SUFFICES ASSUME IInv, Collective \/ \E w \in Ranks : Rank(w) PROVE IInv'
  BY SMTT(20)
<1>1. UNCHANGED <<fixed, driver>>
  BY Zenon DEF Collective, Count, Forward, OptimizerStep, Rank, Enter, ReturnLogProb, ReturnUpdate
<1>2. SetupOK' /\ LoopOK' /\ BatchOK'
  BY <1>1, DriverUnchanged DEF IInv
<1>3. Ranks' = Ranks /\ at \in [Ranks -> Standing]
  BY <1>1 DEF fixed, Ranks, IInv
<1>4. at' \in [Ranks -> Standing]
  <2>1. \A w \in Ranks : at[w] \in Standing
    BY <1>3
  <2>2. CASE Count
    <3>1. at' = [w \in Ranks |-> [at[w] EXCEPT !.micro = 1, !.entered = FALSE]]
      BY <2>2, ZenonT(40) DEF Count
    <3>2. ASSUME NEW w \in Ranks
          PROVE  [at[w] EXCEPT !.micro = 1, !.entered = FALSE] \in Standing
      BY <2>1, StandingMoves, Zenon
    <3>3. QED
      BY <3>1, <3>2, Zenon
  <2>3. CASE Forward
    <3>1. at' = [w \in Ranks |-> [at[w] EXCEPT !.micro = @ + 1, !.entered = FALSE]]
      BY <2>3, ZenonT(40) DEF Forward
    <3>2. ASSUME NEW w \in Ranks
          PROVE  [at[w] EXCEPT !.micro = @ + 1, !.entered = FALSE] \in Standing
      BY <2>1, StandingMoves, Zenon
    <3>3. QED
      BY <3>1, <3>2, Zenon
  <2>4. CASE OptimizerStep
    <3>1. at' = [w \in Ranks |-> [at[w] EXCEPT !.mini = @ + 1, !.micro = 1, !.entered = FALSE]]
      BY <2>4, ZenonT(40) DEF OptimizerStep
    <3>2. ASSUME NEW w \in Ranks
          PROVE  [at[w] EXCEPT !.mini = @ + 1, !.micro = 1, !.entered = FALSE] \in Standing
      BY <2>1, StandingMoves, Zenon
    <3>3. QED
      BY <3>1, <3>2, Zenon
  <2>5. ASSUME NEW w \in Ranks, Rank(w)
        PROVE  at' \in [Ranks -> Standing]
    <3>1. CASE Enter(w)
      <4>1. at' = [at EXCEPT ![w].entered = TRUE]
        BY <3>1 DEF Enter
      <4>2. [at[w] EXCEPT !.entered = TRUE] \in Standing
        BY <2>1, Zenon DEF Standing
      <4>3. QED
        BY <1>3, <4>1, <4>2
    <3>2. CASE ReturnLogProb(w) \/ ReturnUpdate(w)
      <4>1. at' = [at EXCEPT ![w] = Idle]
        BY <3>2 DEF ReturnLogProb, ReturnUpdate
      <4>2. Idle \in Standing
        BY DEF Idle, Standing
      <4>3. QED
        BY <1>3, <4>1, <4>2
    <3>3. QED
      BY <2>5, <3>1, <3>2 DEF Rank
  <2>6. QED
    BY <2>2, <2>3, <2>4, <2>5 DEF Collective
<1>5. QED
  BY <1>2, <1>3, <1>4 DEF IInv, Standing

(* The invariant holds throughout a step of the trainer.                   *)
THEOREM Invariance == Spec => []IInv
<1>1. Init => IInv
  BY InitInv
<1>2. IInv /\ [Next]_vars => IInv'
  <2> SUFFICES ASSUME IInv, [Next]_vars PROVE IInv'
    OBVIOUS
  <2>1. CASE Drive
    BY <2>1, RolloutInv, RewardInv, AdvantageInv, UpdateActorInv, MetricsInv DEF Drive
  <2>2. CASE Collective \/ \E w \in Ranks : Rank(w)
    BY <2>2, RanksInv
  <2>3. CASE UNCHANGED vars
    <3>1. UNCHANGED <<fixed, driver>> /\ at' = at
      BY <2>3 DEF vars, ranks
    <3>2. SetupOK' /\ LoopOK' /\ BatchOK'
      BY <3>1, DriverUnchanged DEF IInv
    <3>3. Ranks' = Ranks
      BY <3>1 DEF fixed, Ranks
    <3>4. QED
      BY <3>1, <3>2, <3>3 DEF IInv, Standing
  <2>4. QED
    BY <2>1, <2>2, <2>3 DEF Next
<1>3. QED
  BY <1>1, <1>2, PTL DEF Spec

(* Types: in every phase the batch has fewer rows than the loop returned   *)
(* and ranks together, each a row of the loop, and the padding mask of an  *)
(* update is as long as its batch.                                         *)
THEOREM TypeCorrect == Spec => []TypeOK
<1>1. IInv => TypeOK
  <2> SUFFICES ASSUME IInv PROVE TypeOK
    OBVIOUS
  <2> USE DEF IInv
  <2> DEFINE n == Len(LoopRows)
             W == world_size
  <2>1. n \in Nat /\ n > 0 /\ DOMAIN LoopRows = 1..n /\ W \in Nat /\ W > 0
    <3>1. W \in Nat /\ W > 0
      BY ConstantsAre DEF SetupOK
    <3>2. QED
      BY <3>1, LoopRowsShape, DomainOfRows
  <2>2. phase \in {"rollout", "reward", "log_prob", "advantage", "update", "done"}
    BY DEF LoopOK
  <2> DEFINE Sizes == /\ Len(batch) < Len(gen_batch_output) + W
                      /\ \A k \in DOMAIN batch : batch[k].row \in DOMAIN gen_batch_output
                      /\ \/ DOMAIN no_padding_mask = {} \/ phase = "done"
                         \/ DOMAIN no_padding_mask = DOMAIN batch
  <2>3. ASSUME phase = "rollout"
        PROVE  Sizes
    <3>1. gen_batch_output = <<>> /\ batch = <<>> /\ no_padding_mask = <<>>
      BY <2>3 DEF LoopOK, BatchOK
    <3>2. QED
      BY <2>1, <3>1
  <2>4. ASSUME phase # "rollout"
        PROVE  gen_batch_output = LoopRows
    BY <2>4 DEF LoopOK
  <2>5. ASSUME phase \in {"reward", "log_prob", "advantage"}
        PROVE  DOMAIN no_padding_mask = {}
    <3>1. no_padding_mask = <<>>
      BY <2>5 DEF LoopOK
    <3>2. QED
      BY <3>1
  <2>6. ASSUME phase = "reward"
        PROVE  Sizes
    <3>1. /\ batch = Source /\ Len(Source) = n /\ DOMAIN Source = 1..n
          /\ \A k \in 1..n : Source[k] = TrainingRow(k, LoopRows[k].sample)
      BY <2>6, SourceRows DEF BatchOK
    <3> HIDE DEF n
    <3>2. \A k \in 1..n : batch[k].row = k
      BY <3>1 DEF TrainingRow
    <3>3. QED
      BY <2>1, <2>4, <2>5, <2>6, <3>1, <3>2 DEF n
  <2>7. ASSUME phase = "log_prob"
        PROVE  Sizes
    <3> DEFINE pad == PadSize(n, W)
    <3>1. batch = PadToDivisor(Source, W)
      BY <2>7 DEF BatchOK
    <3>2. \A k \in 1..n : Source[k] = TrainingRow(k, LoopRows[k].sample)
      BY SourceRows
    <3>3. pad \in Nat /\ pad < W /\ Len(batch) = n + pad /\ DOMAIN batch = 1..(n + pad)
      BY <3>1, PaddedRows
    <3>4. \A k \in 1..(n + pad) : \E r \in 1..n : batch[k] = Source[r]
      BY <3>1, PaddedRows
    <3> HIDE DEF n, pad
    <3>5. \A k \in 1..(n + pad) : batch[k].row \in 1..n
      <4>1. ASSUME NEW r \in 1..n
            PROVE  Source[r].row = r
        <5>1. Source[r] = TrainingRow(r, LoopRows[r].sample)
          BY <3>2
        <5>2. QED
          BY <5>1 DEF TrainingRow
      <4>2. QED
        BY <3>4, <4>1
    <3>6. Len(batch) < n + W
      BY <2>1, <3>3
    <3>7. QED
      BY <2>1, <2>4, <2>5, <2>7, <3>3, <3>5, <3>6 DEF n
  <2>8. ASSUME phase \in {"advantage", "update", "done"}
        PROVE  \A k \in DOMAIN batch : batch[k].row \in 1..n
    BY <2>8 DEF BatchOK, OwnRows
  <2>9. ASSUME phase \in {"advantage", "done"}
        PROVE  Sizes
    <3>1. batch = [k \in 1..n |-> batch[k]]
      BY <2>9 DEF BatchOK
    <3> HIDE DEF n
    <3>2. Len(batch) = n
      BY <2>1, <3>1, LengthOfFunction
    <3>3. n < n + W
      BY <2>1
    <3>4. QED
      BY <2>1, <2>4, <2>5, <2>8, <2>9, <3>2, <3>3 DEF n
  <2>10. ASSUME phase = "update"
        PROVE  Sizes
    <3> DEFINE mask == no_padding_mask
    <3>1. mask = NoPaddingMask(n, W) /\ batch = [k \in DOMAIN mask |-> batch[k]]
      BY <2>10 DEF BatchOK
    <3> HIDE DEF n
    <3>2. PICK size \in Nat : size > 0 /\ size < n + W /\ mask \in [1..size -> BOOLEAN]
      <4>1. \E size \in Nat : /\ size > 0 /\ size < n + W
                              /\ NoPaddingMask(n, W) \in [1..size -> BOOLEAN]
                              /\ Cardinality({k \in 1..size : NoPaddingMask(n, W)[k]}) = n
        BY <2>1, MaskOfBatch, Zenon
      <4>2. QED
        BY <3>1, <4>1
    <3>3. DOMAIN mask = 1..size
      BY <3>2
    <3>4. Len(batch) = size /\ DOMAIN batch = DOMAIN mask
      BY <3>1, <3>2, <3>3, LengthOfFunction
    <3>5. QED
      BY <2>1, <2>4, <2>8, <2>10, <3>2, <3>4 DEF n
  <2>11. Sizes
    BY <2>2, <2>3, <2>6, <2>7, <2>9, <2>10
  <2>12. world_size \in 1..MaxWorld
    BY DEF SetupOK
  <2>13. QED
    BY <2>2, <2>11, <2>12 DEF TypeOK, Standing
<1>2. QED
  BY <1>1, Invariance, PTL

(* Every row is trained with the advantage of its own sample, from the     *)
(* score of the answer that sample gave to the objective, against its own  *)
(* ground truth, compared with the rollouts of the same prompt, one each   *)
(* (reward, compute_1D_grpo_advantage, working_advantages in fit).         *)
THEOREM AdvantageCorrect == Spec => []AdvantageIsOwn
<1>1. IInv => AdvantageIsOwn
  <2> SUFFICES ASSUME IInv, phase \in {"advantage", "update", "done"}, NEW k \in DOMAIN batch
               PROVE  IsOwn(gen_batch_output[batch[k].row], batch[k].advantage)
    BY Zenon DEF AdvantageIsOwn, IsOwn
  <2>1. gen_batch_output = LoopRows /\ OwnRows(batch)
    BY DEF IInv, LoopOK, BatchOK
  <2>2. QED
    BY <2>1 DEF OwnRows
<1>2. QED
  BY <1>1, Invariance, PTL

(* A masked row carries no image: it is a copy of the first row, which is  *)
(* that of a chunk turn (graceful_padding, the masks set to zero in fit).  *)
THEOREM PaddingHidesNoImage == Spec => []NoImageWithoutTokens
<1>1. IInv => NoImageWithoutTokens
  <2> SUFFICES ASSUME IInv, phase = "update", NEW k \in DOMAIN batch, batch[k].tokens = 0
               PROVE  ~HasImage(batch[k].row)
    BY DEF NoImageWithoutTokens
  <2> DEFINE n == Len(LoopRows)
             mask == no_padding_mask
  <2>1. /\ SetupOK /\ gen_batch_output = LoopRows
        /\ mask = NoPaddingMask(n, world_size)
        /\ k \in DOMAIN mask
        /\ batch[k].row = PaddingIndex(mask)[k] /\ ~mask[k]
    BY DEF IInv, LoopOK, BatchOK
  <2>2. batch[k].row = 1
    BY <2>1 DEF PaddingIndex
  <2>3. LoopRows[1].kind = "memorize"
    BY <2>1, LoopRowsShape
  <2>4. QED
    BY <2>1, <2>2, <2>3 DEF HasImage
<1>2. QED
  BY <1>1, Invariance, PTL

(* The metrics see the rows of the loop, in their order, none of them      *)
(* twice and no padding (indexing_proto with the mask, in fit).            *)
MetricsSeeTheLoop ==
  phase = "done" => [k \in DOMAIN batch |-> batch[k].row] = [k \in 1..Len(LoopRows) |-> k]

THEOREM MetricsCorrect == Spec => []MetricsSeeTheLoop
<1>1. IInv => MetricsSeeTheLoop
  <2> SUFFICES ASSUME IInv, phase = "done" PROVE MetricsSeeTheLoop
    BY DEF MetricsSeeTheLoop
  <2>1. /\ batch = [k \in 1..Len(LoopRows) |-> batch[k]]
        /\ \A k \in 1..Len(LoopRows) : batch[k].row = k
    BY DEF IInv, BatchOK
  <2>2. DOMAIN batch = 1..Len(LoopRows)
    BY <2>1
  <2>3. QED
    BY <2>1, <2>2 DEF MetricsSeeTheLoop
<1>2. QED
  BY <1>1, Invariance, PTL

(* Induction over an interval, and the functions it defines.               *)
LEMMA StepByStep ==
  ASSUME NEW n \in Nat, NEW T \in SUBSET (0..n), 0 \in T,
         \A i \in 0..(n - 1) : i \in T => i + 1 \in T
  PROVE  \A i \in 0..n : i \in T
<1> DEFINE Bad == {i \in 0..n : i \notin T}
<1> SUFFICES ASSUME Bad # {} PROVE FALSE
  OBVIOUS
<1>1. \A i \in Bad : i \in Nat
  OBVIOUS
<1>2. PICK m \in Bad : \A k \in Bad : m <= k
  <2> HIDE DEF Bad
  <2>1. QED
    BY <1>1, LeastNatural
<1>3. m \in 0..n /\ m \notin T /\ m # 0
  OBVIOUS
<1>4. m - 1 \in 0..(n - 1) /\ m - 1 \in 0..n /\ ~(m <= m - 1) /\ (m - 1) + 1 = m
  BY <1>3
<1>5. m - 1 \in T
  BY <1>2, <1>4
<1>6. QED
  BY <1>3, <1>4, <1>5

IsIterate(g, F, x, n) == g = [i \in 0..n |-> IF i = 0 THEN x ELSE F[i][g[i - 1]]]

LEMMA IterateExists ==
  ASSUME NEW F, NEW x, NEW n \in Nat
  PROVE  \E g : IsIterate(g, F, x, n)
<1> DEFINE Is(g, m) == g = [i \in 0..m |-> IF i = 0 THEN x ELSE F[i][g[i - 1]]]
           T == {m \in 0..n : \E g : Is(g, m)}
<1>1. 0 \in T
  <2> DEFINE g == [i \in 0..0 |-> x]
  <2>1. \A i \in 0..0 : i = 0
    OBVIOUS
  <2>2. [i \in 0..0 |-> IF i = 0 THEN x ELSE F[i][g[i - 1]]] = g
    BY <2>1
  <2>3. Is(g, 0)
    BY <2>2
  <2> HIDE DEF Is
  <2>4. QED
    BY <2>3
<1>2. ASSUME NEW m \in 0..(n - 1), m \in T PROVE m + 1 \in T
  <2>1. PICK g : Is(g, m)
    BY <1>2
  <2> DEFINE h == [i \in 0..(m + 1) |-> IF i <= m THEN g[i] ELSE F[m + 1][g[m]]]
  <2>2. m \in Nat /\ m + 1 \in 0..n
    OBVIOUS
  <2>3. \A i \in 0..m : g[i] = IF i = 0 THEN x ELSE F[i][g[i - 1]]
    BY <2>1
  <2>4. \A i \in 0..(m + 1) : h[i] = IF i = 0 THEN x ELSE F[i][h[i - 1]]
    <3> TAKE i \in 0..(m + 1)
    <3>1. CASE i = 0
      <4>1. i <= m /\ i \in 0..m
        BY <2>2, <3>1
      <4>2. QED
        BY <2>3, <3>1, <4>1
    <3>2. CASE i # 0
      <4>1. i - 1 \in 0..(m + 1) /\ i - 1 <= m /\ i - 1 \in 0..m
        BY <2>2, <3>2
      <4>2. h[i - 1] = g[i - 1]
        BY <4>1
      <4>3. CASE i <= m
        <5>1. i \in 0..m /\ h[i] = g[i]
          BY <2>2, <4>3
        <5>2. QED
          BY <2>3, <3>2, <4>2, <5>1
      <4>4. CASE i = m + 1
        <5>1. h[i] = F[m + 1][g[m]] /\ i - 1 = m
          BY <2>2, <4>4
        <5>2. QED
          BY <3>2, <4>2, <5>1
      <4>5. QED
        BY <2>2, <4>3, <4>4
    <3>3. QED
      BY <3>1, <3>2
  <2>5. h = [i \in 0..(m + 1) |-> h[i]]
    OBVIOUS
  <2>6. Is(h, m + 1)
    <3> HIDE DEF h
    <3>1. QED
      BY <2>4, <2>5, Zenon
  <2>7. QED
    BY <2>2, <2>6, Zenon
<1>3. n \in T
  <2>1. \A i \in T : i \in 0..n
    OBVIOUS
  <2> HIDE DEF T
  <2>2. \A i \in 0..n : i \in T
    BY <1>1, <1>2, <2>1, StepByStep
  <2>3. QED
    BY <2>2
<1>4. QED
  BY <1>3 DEF IsIterate

IsInserted(r, S, s, n, e) ==
  /\ r \in Seq(S) /\ Len(r) = Len(s) + 1
  /\ \A j \in 1..n : r[j] = s[j]
  /\ r[n + 1] = e
  /\ \A j \in (n + 1)..Len(s) : r[j + 1] = s[j]

LEMMA InsertedAt ==
  ASSUME NEW S, NEW s \in Seq(S), NEW e \in S, NEW n \in 0..Len(s)
  PROVE  IsInserted(InsertAt(s, n + 1, e), S, s, n, e)
<1> DEFINE l == SubSeq(s, 1, n)
           r == SubSeq(s, n + 1, Len(s))
           m == <<e>>
<1>1. Len(s) \in Nat /\ n \in Nat /\ n <= Len(s) /\ (n + 1) - 1 = n /\ 1 \in Int /\ n + 1 \in Int
  BY LenProperties
<1>2. \A j \in 1..Len(s) : s[j] \in S
  BY ElementOfSeq
<1>3. l \in Seq(S) /\ Len(l) = n /\ \A j \in 1..n : l[j] = s[j]
  BY <1>1, <1>2, SubSeqProperties
<1>4. r \in Seq(S) /\ Len(r) = Len(s) - n /\ \A j \in 1..(Len(s) - n) : r[j] = s[n + j]
  <2>1. \A k \in (n + 1)..Len(s) : s[k] \in S
    BY <1>1, <1>2
  <2>2. CASE n + 1 <= Len(s)
    BY <1>1, <2>1, <2>2, SubSeqProperties
  <2>3. CASE n = Len(s)
    BY <1>1, <2>1, <2>3, SubSeqProperties
  <2>4. QED
    BY <1>1, <2>2, <2>3
<1>5. m \in Seq(S) /\ Len(m) = 1 /\ m[1] = e
  OBVIOUS
<1>6. InsertAt(s, n + 1, e) = (l \o m) \o r
  BY <1>1, Zenon DEF InsertAt
<1> HIDE DEF l, m, r
<1>7. /\ l \o m \in Seq(S) /\ Len(l \o m) = n + 1
      /\ \A j \in 1..n : (l \o m)[j] = s[j]
      /\ (l \o m)[n + 1] = e
  <2>1. /\ l \o m \in Seq(S) /\ Len(l \o m) = Len(l) + Len(m)
        /\ \A i \in 1..Len(l) : (l \o m)[i] = l[i]
        /\ \A i \in 1..Len(m) : (l \o m)[Len(l) + i] = m[i]
    <3>1. l \in Seq(S) /\ m \in Seq(S)
      BY <1>3, <1>5
    <3>2. l \o m \in Seq(S) /\ Len(l \o m) = Len(l) + Len(m)
      BY <3>1, ConcatElements
    <3>3. \A i \in 1..Len(l) : (l \o m)[i] = l[i]
      BY <3>1, ConcatElements
    <3>4. \A i \in 1..Len(m) : (l \o m)[Len(l) + i] = m[i]
      BY <3>1, ConcatElements
    <3>5. QED
      BY <3>2, <3>3, <3>4
  <2>2. 1 \in 1..Len(m)
    BY <1>5
  <2>3. (l \o m)[n + 1] = e
    BY <1>3, <1>5, <2>1, <2>2
  <2>4. QED
    BY <1>3, <1>5, <2>1, <2>3
<1> DEFINE b == l \o m
<1> HIDE DEF b
<1>8. b \in Seq(S) /\ Len(b) = n + 1 /\ (\A j \in 1..n : b[j] = s[j]) /\ b[n + 1] = e
  BY <1>7 DEF b
<1>9. /\ b \o r \in Seq(S) /\ Len(b \o r) = Len(b) + Len(r)
      /\ \A i \in 1..Len(b) : (b \o r)[i] = b[i]
      /\ \A i \in 1..Len(r) : (b \o r)[Len(b) + i] = r[i]
  <2>1. b \in Seq(S) /\ r \in Seq(S)
    BY <1>4, <1>8
  <2>2. b \o r \in Seq(S) /\ Len(b \o r) = Len(b) + Len(r)
    BY <2>1, ConcatElements
  <2>3. \A i \in 1..Len(b) : (b \o r)[i] = b[i]
    BY <2>1, ConcatElements
  <2>4. \A i \in 1..Len(r) : (b \o r)[Len(b) + i] = r[i]
    BY <2>1, ConcatElements
  <2>5. QED
    BY <2>2, <2>3, <2>4
<1>10. Len(b \o r) = Len(s) + 1
  BY <1>1, <1>4, <1>8, <1>9
<1>11. \A j \in 1..n : (b \o r)[j] = s[j]
  BY <1>1, <1>8, <1>9
<1>12. (b \o r)[n + 1] = e
  BY <1>1, <1>8, <1>9
<1>13. \A j \in (n + 1)..Len(s) : (b \o r)[j + 1] = s[j]
  <2> TAKE j \in (n + 1)..Len(s)
  <2> DEFINE i == j - n
  <2>1. i \in 1..Len(r) /\ i \in 1..(Len(s) - n) /\ Len(b) + i = j + 1 /\ n + i = j
    BY <1>1, <1>4, <1>8
  <2> HIDE DEF i
  <2>2. (b \o r)[Len(b) + i] = r[i]
    BY <1>9, <2>1
  <2>3. r[i] = s[n + i]
    BY <1>4, <2>1
  <2>4. QED
    BY <2>1, <2>2, <2>3, Zenon
<1>14. QED
  BY <1>6, <1>9, <1>10, <1>11, <1>12, <1>13, Zenon DEF b, IsInserted

(* The order of a sort, and what is meant by sorted.                       *)
Ordering(S, R) ==
  /\ \A x, y \in S : <<x, y>> \in R => <<y, x>> \notin R
  /\ \A x, y, z \in S : <<x, y>> \notin R /\ <<y, z>> \notin R => <<x, z>> \notin R

InOrder(s, R) == \A i, j \in 1..Len(s) : i < j => <<s[j], s[i]>> \notin R

(* An item has a place in a sorted sequence: behind those it does not      *)
(* precede, before the others.                                             *)
LEMMA PlaceExists ==
  ASSUME NEW S, NEW R, Ordering(S, R), NEW s \in Seq(S), InOrder(s, R), NEW e \in S
  PROVE  \E n \in 0..Len(s) :
           /\ \A j \in 1..n : <<e, s[j]>> \notin R
           /\ \A j \in (n + 1)..Len(s) : <<e, s[j]>> \in R
<1> DEFINE T == {j \in 1..Len(s) : <<e, s[j]>> \in R}
<1>1. Len(s) \in Nat /\ \A j \in 1..Len(s) : s[j] \in S
  BY LenProperties, ElementOfSeq
<1>2. CASE T = {}
  <2>1. Len(s) \in 0..Len(s) /\ (Len(s) + 1)..Len(s) = {}
    BY <1>1
  <2>2. \A j \in 1..Len(s) : <<e, s[j]>> \notin R
    BY <1>2, Zenon
  <2>3. QED
    BY <2>1, <2>2
<1>3. CASE T # {}
  <2>1. \A j \in T : j \in Nat /\ j \in 1..Len(s) /\ <<e, s[j]>> \in R
    BY <1>1
  <2>2. \A j \in 1..Len(s) : j \notin T => <<e, s[j]>> \notin R
    OBVIOUS
  <2> HIDE DEF T
  <2>3. PICK m \in T : \A k \in T : m <= k
    <3>1. \A j \in T : j \in Nat
      BY <2>1, Zenon
    <3>2. QED
      BY <1>3, <3>1, LeastNatural, Zenon
  <2>4. m - 1 \in 0..Len(s) /\ (m - 1) + 1 = m /\ m \in 1..Len(s)
    <3>1. m \in 1..Len(s)
      BY <2>1, Zenon
    <3> HIDE DEF T
    <3>2. QED
      BY <1>1, <3>1
  <2>5. \A j \in 1..(m - 1) : <<e, s[j]>> \notin R
    <3> TAKE j \in 1..(m - 1)
    <3>1. j \in 1..Len(s) /\ ~(m <= j)
      BY <2>4
    <3>2. QED
      BY <2>2, <2>3, <3>1
  <2>6. \A j \in m..Len(s) : <<e, s[j]>> \in R
    <3> TAKE j \in m..Len(s)
    <3>1. j \in 1..Len(s) /\ (j = m \/ m < j)
      BY <2>4
    <3>2. CASE j = m
      BY <2>1, <3>2
    <3>3. CASE m < j
      <4>1. <<s[j], s[m]>> \notin R
        BY <2>4, <3>1, <3>3 DEF InOrder
      <4>2. <<e, s[m]>> \in R
        BY <2>1
      <4>3. e \in S /\ s[j] \in S /\ s[m] \in S
        BY <1>1, <2>4, <3>1
      <4>4. QED
        BY <4>1, <4>2, <4>3 DEF Ordering
    <3>4. QED
      BY <3>1, <3>2, <3>3
  <2>7. QED
    BY <2>4, <2>5, <2>6, Zenon
<1>4. QED
  BY <1>2, <1>3, Zenon

(* The first n items of s are those of t, in another order.                *)
Rearranges(s, t, n) ==
  \E p \in [1..n -> 1..n] :
    /\ \A j \in 1..n : \E i \in 1..n : p[i] = j
    /\ \A i, j \in 1..n : p[i] = p[j] => i = j
    /\ \A i \in 1..n : s[i] = t[p[i]]

LEMMA SurjectionIsInjective ==
  ASSUME NEW n \in Nat, NEW p \in [1..n -> 1..n], \A j \in 1..n : \E i \in 1..n : p[i] = j
  PROVE  \A i, j \in 1..n : p[i] = p[j] => i = j
<1>1. p \in Surjection(1..n, 1..n)
  BY Zenon DEF Surjection
<1>2. IsFiniteSet(1..n)
  BY FS_Interval
<1>3. p \in Injection(1..n, 1..n)
  <2>1. Cardinality(1..n) = Cardinality(1..n) <=> p \in Injection(1..n, 1..n)
    BY <1>1, <1>2, FS_Surjection
  <2>2. QED
    BY <2>1
<1>4. QED
  BY <1>3 DEF Injection, IsInjective

LEMMA InsertionSorts ==
  ASSUME NEW S, NEW R, Ordering(S, R), NEW seq \in Seq(S), NEW m \in Nat, m < Len(seq),
         NEW s \in Seq(S), Len(s) = m, InOrder(s, R), Rearranges(s, seq, m),
         NEW n \in 0..m,
         \A j \in 1..n : <<seq[m + 1], s[j]>> \notin R,
         \A j \in (n + 1)..m : <<seq[m + 1], s[j]>> \in R,
         NEW r, r = InsertAt(s, n + 1, seq[m + 1])
  PROVE  r \in Seq(S) /\ Len(r) = m + 1 /\ InOrder(r, R) /\ Rearranges(r, seq, m + 1)
<1> DEFINE e == seq[m + 1]
<1>1. e \in S
  <2>1. m + 1 \in 1..Len(seq)
    BY LenProperties
  <2>2. QED
    BY <2>1, ElementOfSeq
<1> HIDE DEF e
<1>2. n \in 0..Len(s) /\ n \in Nat /\ n <= m /\ m + 1 \in Nat
  OBVIOUS
<1>3. /\ r \in Seq(S) /\ Len(r) = m + 1
      /\ \A j \in 1..n : r[j] = s[j]
      /\ r[n + 1] = e
      /\ \A j \in (n + 1)..m : r[j + 1] = s[j]
  <2>0. s \in Seq(S) /\ e \in S /\ n \in 0..Len(s)
    BY <1>1, <1>2
  <2>1. r = InsertAt(s, n + 1, e)
    BY DEF e
  <2>2. IsInserted(r, S, s, n, e)
    BY <2>0, <2>1, InsertedAt
  <2>3. QED
    BY <2>2 DEF IsInserted
<1>4. \A j \in 1..m : s[j] \in S
  BY ElementOfSeq
<1>5. /\ \A j \in 1..n : <<e, s[j]>> \notin R
      /\ \A j \in (n + 1)..m : <<e, s[j]>> \in R
  BY DEF e
(* Where an item of r comes from.                                          *)
<1>6. \A j \in 1..(m + 1) : \/ j \in 1..n /\ r[j] = s[j]
                            \/ j = n + 1 /\ r[j] = e
                            \/ j - 1 \in (n + 1)..m /\ r[j] = s[j - 1]
  <2> TAKE j \in 1..(m + 1)
  <2>1. CASE j <= n
    BY <1>2, <1>3, <2>1
  <2>2. CASE j = n + 1
    BY <1>3, <2>2
  <2>3. CASE j > n + 1
    <3>1. j - 1 \in (n + 1)..m /\ (j - 1) + 1 = j
      BY <1>2, <2>3
    <3>2. r[(j - 1) + 1] = s[j - 1]
      BY <1>3, <3>1
    <3>3. QED
      BY <3>1, <3>2
  <2>4. QED
    BY <1>2, <2>1, <2>2, <2>3
<1>7. InOrder(r, R)
  <2> SUFFICES ASSUME NEW i \in 1..(m + 1), NEW j \in 1..(m + 1), i < j PROVE <<r[j], r[i]>> \notin R
    BY <1>3 DEF InOrder
  <2>1. \A a, b \in 1..m : a < b => <<s[b], s[a]>> \notin R
    BY DEF InOrder
  <2>2. \A x, y \in S : <<x, y>> \in R => <<y, x>> \notin R
    BY DEF Ordering
  <2>3. CASE j \in 1..n /\ r[j] = s[j]
    <3>1. i \in 1..n /\ r[i] = s[i] /\ i \in 1..m /\ j \in 1..m
      BY <1>2, <1>3, <2>3
    <3>2. QED
      BY <2>1, <2>3, <3>1
  <2>4. CASE j = n + 1 /\ r[j] = e
    <3>1. i \in 1..n /\ r[i] = s[i]
      BY <1>2, <1>3, <2>4
    <3>2. QED
      BY <1>5, <2>4, <3>1
  <2>5. CASE j - 1 \in (n + 1)..m /\ r[j] = s[j - 1]
    <3>1. j - 1 \in 1..m
      BY <1>2, <2>5
    <3>2. CASE i \in 1..n /\ r[i] = s[i]
      <4>1. i \in 1..m /\ i < j - 1
        BY <1>2, <2>5, <3>2
      <4>2. QED
        BY <2>1, <2>5, <3>1, <3>2, <4>1
    <3>3. CASE i = n + 1 /\ r[i] = e
      <4>1. <<e, s[j - 1]>> \in R
        BY <1>5, <2>5
      <4>2. QED
        BY <1>1, <1>4, <2>2, <2>5, <3>1, <3>3, <4>1
    <3>4. CASE i - 1 \in (n + 1)..m /\ r[i] = s[i - 1]
      <4>1. i - 1 \in 1..m /\ i - 1 < j - 1
        BY <1>2, <3>4
      <4>2. QED
        BY <2>1, <2>5, <3>1, <3>4, <4>1
    <3>5. QED
      BY <1>6, <3>2, <3>3, <3>4
  <2>6. QED
    BY <1>6, <2>3, <2>4, <2>5
<1>8. PICK p \in [1..m -> 1..m] : /\ \A j \in 1..m : \E i \in 1..m : p[i] = j
                                  /\ \A i \in 1..m : s[i] = seq[p[i]]
  BY Zenon DEF Rearranges
<1> DEFINE q == [j \in 1..(m + 1) |-> IF j <= n THEN p[j] ELSE IF j = n + 1 THEN m + 1 ELSE p[j - 1]]
<1>9. \A j \in 1..(m + 1) : \/ j \in 1..n /\ q[j] = p[j] /\ j \in 1..m
                            \/ j = n + 1 /\ q[j] = m + 1
                            \/ j - 1 \in (n + 1)..m /\ q[j] = p[j - 1] /\ j - 1 \in 1..m /\ j # n + 1 /\ ~(j <= n)
  <2> TAKE j \in 1..(m + 1)
  <2>1. CASE j <= n
    BY <1>2, <2>1
  <2>2. CASE j = n + 1
    BY <1>2, <2>2
  <2>3. CASE j > n + 1
    BY <1>2, <2>3
  <2>4. QED
    BY <1>2, <2>1, <2>2, <2>3
<1>10. q \in [1..(m + 1) -> 1..(m + 1)]
  <2>1. \A j \in 1..(m + 1) : q[j] \in 1..(m + 1)
    <3>1. \A i \in 1..m : p[i] \in 1..(m + 1)
      BY <1>2
    <3> HIDE DEF q
    <3>2. QED
      BY <1>2, <1>9, <3>1, SMTT(20)
  <2>2. q = [j \in 1..(m + 1) |-> q[j]]
    OBVIOUS
  <2> HIDE DEF q
  <2>3. QED
    BY <2>1, <2>2
<1>11. \A j \in 1..(m + 1) : \E i \in 1..(m + 1) : q[i] = j
  <2> TAKE j \in 1..(m + 1)
  <2>1. CASE j = m + 1
    <3>1. n + 1 \in 1..(m + 1) /\ q[n + 1] = m + 1
      BY <1>2
    <3>2. QED
      BY <2>1, <3>1
  <2>2. CASE j # m + 1
    <3>1. j \in 1..m
      BY <1>2, <2>2
    <3>2. PICK i \in 1..m : p[i] = j
      BY <1>8, <3>1
    <3>3. CASE i <= n
      <4>1. i \in 1..(m + 1) /\ q[i] = p[i]
        BY <1>2, <3>3
      <4>2. QED
        BY <3>2, <4>1
    <3>4. CASE i > n
      <4>1. i + 1 \in 1..(m + 1) /\ ~(i + 1 <= n) /\ i + 1 # n + 1 /\ (i + 1) - 1 = i
        BY <1>2, <3>4
      <4>2. q[i + 1] = p[i]
        BY <4>1
      <4>3. QED
        BY <3>2, <4>1, <4>2, Zenon
    <3>5. QED
      BY <1>2, <3>3, <3>4
  <2>3. QED
    BY <2>1, <2>2
<1>12. \A j \in 1..(m + 1) : r[j] = seq[q[j]]
  <2> TAKE j \in 1..(m + 1)
  <2> HIDE DEF q
  <2>1. CASE j <= n
    <3>1. j \in 1..n /\ r[j] = s[j]
      BY <1>2, <1>3, <2>1, SMTT(20)
    <3>2. q[j] = p[j] /\ j \in 1..m
      BY <1>2, <1>9, <2>1
    <3>3. QED
      BY <1>8, <3>1, <3>2, Zenon
  <2>2. CASE j = n + 1
    <3>1. q[j] = m + 1
      BY <1>2, <1>9, <2>2
    <3>2. QED
      BY <1>3, <2>2, <3>1 DEF e
  <2>3. CASE j > n + 1
    <3>1. q[j] = p[j - 1] /\ j - 1 \in 1..m
      <4>1. j \notin 1..n /\ j # n + 1
        BY <1>2, <2>3
      <4>2. QED
        BY <1>9, <4>1
    <3>2. r[j] = s[j - 1]
      <4>1. j \notin 1..n /\ j # n + 1
        BY <1>2, <2>3
      <4>2. QED
        BY <1>6, <4>1
    <3>3. QED
      BY <1>8, <3>1, <3>2, Zenon
  <2>4. QED
    BY <1>2, <2>1, <2>2, <2>3
<1>13. Rearranges(r, seq, m + 1)
  <2> HIDE DEF q
  <2>1. \A i, j \in 1..(m + 1) : q[i] = q[j] => i = j
    BY <1>2, <1>10, <1>11, SurjectionIsInjective, Zenon
  <2>2. QED
    BY <1>10, <1>11, <1>12, <2>1, Zenon DEF Rearranges
<1>14. QED
  BY <1>3, <1>7, <1>13

(* Sorted sorts, whatever the order and the items are.                     *)
LEMMA SortedIs ==
  ASSUME NEW S, NEW seq \in Seq(S), NEW R, Ordering(ToSet(seq), R)
  PROVE  /\ Sorted(seq, R) \in Seq(S) /\ Len(Sorted(seq, R)) = Len(seq)
         /\ InOrder(Sorted(seq, R), R)
         /\ Rearranges(Sorted(seq, R), seq, Len(seq))
<1> DEFINE I == ToSet(seq)
           item(items) == seq[Len(items) + 1]
           place(items) == CHOOSE n \in 0..Len(items) :
                             /\ \A j \in 1..n : <<item(items), items[j]>> \notin R
                             /\ \A j \in (n + 1)..Len(items) : <<item(items), items[j]>> \in R
           insert == [items \in Seq(I) |-> InsertAt(items, place(items) + 1, item(items))]
           N == Len(seq)
           sorted == CHOOSE g : g = [n \in 0..N |-> IF n = 0 THEN <<>> ELSE insert[g[n - 1]]]
<1>1. N \in Nat /\ \A j \in 1..N : seq[j] \in S
  BY LenProperties, ElementOfSeq
<1>2. seq \in Seq(I) /\ \A i \in I : i \in S
  <2>1. DOMAIN seq = 1..N
    BY LenProperties
  <2>2. \A j \in 1..N : seq[j] \in I
    BY <2>1 DEF ToSet
  <2>3. seq = [j \in 1..N |-> seq[j]]
    BY <2>1
  <2>4. \A i \in I : i \in S
    BY <1>1, <2>1 DEF ToSet
  <2> HIDE DEF I
  <2>5. seq \in [1..N -> I]
    BY <2>2, <2>3
  <2>6. QED
    BY <1>1, <2>4, <2>5, FunctionIsSequence
<1>3. Sorted(seq, R) = sorted[N]
  BY DEF Sorted
<1>4. sorted = [n \in 0..N |-> IF n = 0 THEN <<>> ELSE insert[sorted[n - 1]]]
  <2> HIDE DEF insert, N
  <2> DEFINE F == [n \in 0..N |-> insert]
  <2>1. PICK g : IsIterate(g, F, <<>>, N)
    <3> HIDE DEF F
    <3>1. QED
      BY <1>1, IterateExists, Zenon
  <2>2. g = [n \in 0..N |-> IF n = 0 THEN <<>> ELSE insert[g[n - 1]]]
    BY <2>1, Zenon DEF IsIterate
  <2>3. QED
    BY <2>2, Zenon
<1> HIDE DEF sorted
<1> DEFINE OK(s, n) == s \in Seq(I) /\ Len(s) = n /\ InOrder(s, R) /\ Rearranges(s, seq, n)
           T == {n \in 0..N : OK(sorted[n], n)}
<1>5. 0 \in T
  <2>1. sorted[0] = <<>>
    BY <1>1, <1>4
  <2>2. <<>> \in Seq(I) /\ Len(<<>>) = 0 /\ 1..0 = {}
    BY EmptySeq
  <2>3. InOrder(<<>>, R)
    BY <2>2 DEF InOrder
  <2>4. Rearranges(<<>>, seq, 0)
    <3>1. [i \in {} |-> i] \in [1..0 -> 1..0]
      BY <2>2
    <3>2. QED
      BY <2>2, <3>1, Zenon DEF Rearranges
  <2>5. OK(sorted[0], 0)
    BY <2>1, <2>2, <2>3, <2>4
  <2>6. 0 \in 0..N
    BY <1>1
  <2> HIDE DEF OK, N
  <2>7. QED
    BY <2>5, <2>6
<1>6. ASSUME NEW m \in 0..(N - 1), m \in T PROVE m + 1 \in T
  <2>1. m \in Nat /\ m \in 0..N /\ m + 1 \in 0..N /\ m + 1 \in 1..N /\ m < N
    BY <1>1
  <2>2. PICK s : s = sorted[m]
    OBVIOUS
  <2>3. s \in Seq(I) /\ Len(s) = m /\ InOrder(s, R) /\ Rearranges(s, seq, m)
    BY <1>6, <2>2
  <2>4. sorted[m + 1] = insert[s]
    <3>1. m + 1 # 0 /\ (m + 1) - 1 = m
      BY <2>1
    <3> HIDE DEF insert, N
    <3>2. QED
      BY <1>4, <2>1, <2>2, <3>1
  <2> DEFINE e == seq[m + 1]
  <2>5. item(s) = e
    BY <2>3
  <2>6. e \in I
    <3> HIDE DEF I
    <3>1. QED
      BY <1>2, <2>1, ElementOfSeq
  <2>7. PICK n : n = place(s)
    BY Zenon
  <2>8. /\ n \in 0..m
        /\ \A j \in 1..n : <<e, s[j]>> \notin R
        /\ \A j \in (n + 1)..m : <<e, s[j]>> \in R
    <3> HIDE DEF I, e
    <3>1. \E k \in 0..Len(s) : /\ \A j \in 1..k : <<e, s[j]>> \notin R
                               /\ \A j \in (k + 1)..Len(s) : <<e, s[j]>> \in R
      <4>1. Ordering(I, R)
        BY DEF I
      <4>2. QED
        BY <2>3, <2>6, <4>1, PlaceExists, Zenon
    <3>2. n = CHOOSE k \in 0..Len(s) : /\ \A j \in 1..k : <<e, s[j]>> \notin R
                                       /\ \A j \in (k + 1)..Len(s) : <<e, s[j]>> \in R
      BY <2>5, <2>7
    <3>3. QED
      BY <2>3, <3>1, <3>2, Zenon
  <2>9. insert[s] = InsertAt(s, n + 1, e)
    <3> HIDE DEF place, item, I, e
    <3>1. QED
      BY <2>3, <2>5, <2>7
  <2>10. PICK r : r = InsertAt(s, n + 1, e)
    OBVIOUS
  <2>11. r \in Seq(I) /\ Len(r) = m + 1 /\ InOrder(r, R) /\ Rearranges(r, seq, m + 1)
    <3>1. Ordering(I, R)
      OBVIOUS
    <3> HIDE DEF I, place, item, insert, OK, T
    <3>2. seq \in Seq(I) /\ m \in Nat /\ m < Len(seq)
      BY <1>2, <2>1
    <3>3. QED
      BY <2>3, <2>8, <2>10, <3>1, <3>2, InsertionSorts, SMTT(20)
  <2>12. OK(sorted[m + 1], m + 1)
    <3> HIDE DEF insert
    <3>1. QED
      BY <2>4, <2>9, <2>10, <2>11
  <2>13. QED
    BY <2>1, <2>12
<1>7. OK(sorted[N], N)
  <2>1. \A n \in T : n \in 0..N /\ OK(sorted[n], n)
    OBVIOUS
  <2>2. N \in 0..N
    BY <1>1
  <2> HIDE DEF T, OK
  <2>3. T \in SUBSET (0..N)
    BY <2>1
  <2> HIDE DEF N
  <2>4. \A n \in 0..N : n \in T
    BY <1>1, <1>5, <1>6, <2>3, StepByStep, Zenon
  <2>5. QED
    BY <2>1, <2>2, <2>4
<1>8. Sorted(seq, R) \in Seq(S)
  <2>1. PICK s : s = sorted[N]
    OBVIOUS
  <2>2. s \in Seq(I)
    BY <1>7, <2>1
  <2> HIDE DEF I
  <2>3. Len(s) \in Nat /\ DOMAIN s = 1..Len(s) /\ \A j \in 1..Len(s) : s[j] \in S
    BY <1>2, <2>2, LenProperties, ElementOfSeq
  <2>4. s \in [1..Len(s) -> I] /\ s = [j \in 1..Len(s) |-> s[j]]
    BY <2>2, LenProperties
  <2>5. s \in [1..Len(s) -> S]
    BY <2>3, <2>4
  <2>6. s \in Seq(S)
    BY <2>3, <2>5, FunctionIsSequence
  <2>7. QED
    BY <1>3, <2>1, <2>6
<1>9. QED
  BY <1>3, <1>7, <1>8

(* A total is at least each of its items, and at most what they are bound  *)
(* by.                                                                     *)
LEMMA TotalIs ==
  ASSUME NEW seq \in Seq(Nat)
  PROVE  /\ Total(seq) \in Nat
         /\ \A i \in 1..Len(seq) : seq[i] <= Total(seq)
         /\ \A b \in Nat : (\A i \in 1..Len(seq) : seq[i] <= b) => Total(seq) <= Len(seq) * b
<1> DEFINE N == Len(seq)
           sum == CHOOSE g : g = [n \in 0..N |-> IF n = 0 THEN 0 ELSE g[n - 1] + seq[n]]
<1>1. N \in Nat /\ \A j \in 1..N : seq[j] \in Nat
  BY LenProperties, ElementOfSeq
<1>2. Total(seq) = sum[N]
  BY DEF Total
<1> HIDE DEF N
<1>3. sum = [n \in 0..N |-> IF n = 0 THEN 0 ELSE sum[n - 1] + seq[n]]
  <2> DEFINE F == [n \in 0..N |-> [v \in Nat |-> v + seq[n]]]
  <2>1. PICK g : IsIterate(g, F, 0, N)
    <3> HIDE DEF F
    <3>1. QED
      BY <1>1, IterateExists, Zenon
  <2>2. g = [n \in 0..N |-> IF n = 0 THEN 0 ELSE F[n][g[n - 1]]]
    BY <2>1, Zenon DEF IsIterate
  <2> DEFINE T == {n \in 0..N : g[n] \in Nat}
  <2>3. 0 \in T
    BY <1>1, <2>2
  <2>4. ASSUME NEW m \in 0..(N - 1), m \in T PROVE m + 1 \in T
    <3>1. m \in Nat /\ m + 1 \in 0..N /\ m + 1 \in 1..N /\ m + 1 # 0 /\ (m + 1) - 1 = m /\ g[m] \in Nat
      BY <1>1, <2>4
    <3>2. g[m + 1] = F[m + 1][g[m]]
      <4> HIDE DEF F
      <4>1. QED
        BY <2>2, <3>1, Zenon
    <3>3. g[m + 1] = g[m] + seq[m + 1] /\ seq[m + 1] \in Nat
      BY <1>1, <3>1, <3>2
    <3>4. g[m + 1] \in Nat
      BY <3>1, <3>3
    <3>5. QED
      BY <3>1, <3>4
  <2>5. \A n \in 0..N : g[n] \in Nat
    <3>1. T \in SUBSET (0..N) /\ \A n \in T : g[n] \in Nat
      OBVIOUS
    <3> HIDE DEF T
    <3>2. \A n \in 0..N : n \in T
      BY <1>1, <2>3, <2>4, <3>1, StepByStep, Zenon
    <3>3. QED
      BY <3>1, <3>2
  <2>6. \A n \in 0..N : g[n] = IF n = 0 THEN 0 ELSE g[n - 1] + seq[n]
    <3> TAKE n \in 0..N
    <3>1. CASE n = 0
      BY <2>2, <3>1
    <3>2. CASE n # 0
      <4>1. n - 1 \in 0..N
        BY <1>1, <3>2
      <4>2. g[n - 1] \in Nat
        BY <2>5, <4>1
      <4>3. F[n][g[n - 1]] = g[n - 1] + seq[n]
        BY <4>2
      <4>4. g[n] = F[n][g[n - 1]]
        <5> HIDE DEF F
        <5>1. QED
          BY <2>2, <3>2, Zenon
      <4>5. QED
        BY <3>2, <4>3, <4>4
    <3>3. QED
      BY <3>1, <3>2
  <2>7. g = [n \in 0..N |-> g[n]]
    <3> HIDE DEF F
    <3>1. QED
      BY <2>2
  <2>8. g = [n \in 0..N |-> IF n = 0 THEN 0 ELSE g[n - 1] + seq[n]]
    BY <2>6, <2>7, Zenon
  <2>9. QED
    BY <2>8, Zenon
<1> HIDE DEF sum
<1> DEFINE OK(n) == /\ sum[n] \in Nat
                    /\ \A i \in 1..n : seq[i] <= sum[n]
                    /\ \A b \in Nat : (\A i \in 1..N : seq[i] <= b) => sum[n] <= n * b
           T == {n \in 0..N : OK(n)}
<1>4. 0 \in T
  <2>1. sum[0] = 0 /\ 1..0 = {} /\ 0 \in 0..N
    BY <1>1, <1>3
  <2>2. QED
    BY <2>1
<1>5. ASSUME NEW m \in 0..(N - 1), m \in T PROVE m + 1 \in T
  <2>1. m \in Nat /\ m + 1 \in 0..N /\ m + 1 \in 1..N /\ m + 1 # 0 /\ (m + 1) - 1 = m
    BY <1>1
  <2>2. sum[m + 1] = sum[m] + seq[m + 1] /\ sum[m] \in Nat /\ seq[m + 1] \in Nat
    BY <1>1, <1>3, <1>5, <2>1
  <2>3. \A i \in 1..m : seq[i] <= sum[m]
    BY <1>5
  <2>4. \A i \in 1..(m + 1) : seq[i] <= sum[m + 1]
    <3> TAKE i \in 1..(m + 1)
    <3>1. CASE i = m + 1
      BY <2>2, <3>1
    <3>2. CASE i \in 1..m
      <4>1. seq[i] \in Nat
        BY <1>1, <2>1, <3>2
      <4>2. QED
        BY <2>2, <2>3, <3>2, <4>1, SMTT(20)
    <3>3. QED
      BY <2>1, <3>1, <3>2
  <2>5. ASSUME NEW b \in Nat, \A i \in 1..N : seq[i] <= b PROVE sum[m + 1] <= (m + 1) * b
    <3>1. sum[m] <= m * b
      BY <1>5, <2>5
    <3>2. seq[m + 1] <= b
      BY <2>1, <2>5
    <3>3. (m + 1) * b = (m * b) + b /\ m * b \in Nat
      BY <2>1
    <3>4. QED
      BY <2>2, <3>1, <3>2, <3>3
  <2>6. OK(m + 1)
    BY <2>2, <2>4, <2>5
  <2> HIDE DEF OK
  <2>7. QED
    BY <2>1, <2>6
<1>6. OK(N)
  <2> HIDE DEF OK
  <2>1. T \in SUBSET (0..N) /\ (\A n \in T : OK(n)) /\ N \in 0..N
    BY <1>1
  <2> HIDE DEF T
  <2>2. \A n \in 0..N : n \in T
    BY <1>1, <1>4, <1>5, <2>1, StepByStep, Zenon
  <2>3. QED
    BY <2>1, <2>2
<1>7. QED
  BY <1>2, <1>6 DEF N

(* A part of a division, and the order of parts.                           *)
Part == [sum : Nat, items : Seq(Nat)]

Size(p) == Len(p.items)

LEMMA PartIs ==
  ASSUME NEW p \in Part
  PROVE  /\ p.sum \in Nat /\ p.items \in Seq(Nat) /\ Size(p) \in Nat
         /\ p.items # <<>> => Head(p.items) \in Nat
         /\ p.items = <<>> <=> Size(p) = 0
<1>1. p.sum \in Nat /\ p.items \in Seq(Nat)
  BY DEF Part
<1>2. Size(p) \in Nat
  BY <1>1, LenProperties DEF Size
<1>3. p.items # <<>> => Head(p.items) \in Nat
  BY <1>1
<1>4. p.items = <<>> <=> Size(p) = 0
  BY <1>1, EmptySeq DEF Size
<1>5. QED
  BY <1>1, <1>2, <1>3, <1>4

LEMMA SetLessOrders ==
  /\ \A a, b \in Part : SetLess(a, b) => ~SetLess(b, a)
  /\ \A a, b, c \in Part : ~SetLess(a, b) /\ ~SetLess(b, c) => ~SetLess(a, c)
<1>1. ASSUME NEW a \in Part, NEW b \in Part, SetLess(a, b) PROVE ~SetLess(b, a)
  <2>1. /\ a.sum \in Nat /\ Size(a) \in Nat /\ (a.items # <<>> => Head(a.items) \in Nat)
        /\ a.items = <<>> <=> Size(a) = 0
    BY PartIs
  <2>2. /\ b.sum \in Nat /\ Size(b) \in Nat /\ (b.items # <<>> => Head(b.items) \in Nat)
        /\ b.items = <<>> <=> Size(b) = 0
    BY PartIs
  <2>3. QED
    BY <1>1, <2>1, <2>2 DEF SetLess, Size
<1>2. ASSUME NEW a \in Part, NEW b \in Part, NEW c \in Part, ~SetLess(a, b), ~SetLess(b, c)
      PROVE  ~SetLess(a, c)
  <2>1. /\ a.sum \in Nat /\ Size(a) \in Nat /\ (a.items # <<>> => Head(a.items) \in Nat)
        /\ a.items = <<>> <=> Size(a) = 0
    BY PartIs
  <2>2. /\ b.sum \in Nat /\ Size(b) \in Nat /\ (b.items # <<>> => Head(b.items) \in Nat)
        /\ b.items = <<>> <=> Size(b) = 0
    BY PartIs
  <2>3. /\ c.sum \in Nat /\ Size(c) \in Nat /\ (c.items # <<>> => Head(c.items) \in Nat)
        /\ c.items = <<>> <=> Size(c) = 0
    BY PartIs
  <2>4. QED
    BY <1>2, <2>1, <2>2, <2>3 DEF SetLess, Size
<1>3. QED
  BY <1>1, <1>2

(* A cut divides rows: no row is in two places, a part has tokens if one   *)
(* of its rows has, and a part is empty only as long as none has two rows. *)
Apart(s) ==
  \A i, j \in 1..Len(s) : \A a \in 1..Size(s[i]), b \in 1..Size(s[j]) :
    s[i].items[a] = s[j].items[b] => i = j /\ a = b

Weighs(s, len) ==
  \A i \in 1..Len(s) :
    s[i].sum > 0 <=> \E a \in 1..Size(s[i]) : len[s[i].items[a]] > 0

Sparse(s) ==
  \A i, j \in 1..Len(s) : Size(s[i]) = 0 => Size(s[j]) <= 1

RowsOf(s) == {r \in Nat : \E i \in 1..Len(s) : \E a \in 1..Size(s[i]) : s[i].items[a] = r}

IsCut(s, k, len) == s \in Seq(Part) /\ Len(s) = k /\ Apart(s) /\ Weighs(s, len) /\ Sparse(s)

Descending(s) == \A i, j \in 1..Len(s) : i < j => ~SetLess(s[i], s[j])

IsState(s, k, len) == IsCut(s, k, len) /\ Descending(s)

LEMMA CutRearranged ==
  ASSUME NEW k \in Nat, NEW len, NEW u, IsCut(u, k, len), NEW v \in Seq(Part), Len(v) = k,
         Rearranges(v, u, k)
  PROVE  IsCut(v, k, len) /\ RowsOf(v) = RowsOf(u)
<1>1. PICK p \in [1..k -> 1..k] : /\ \A j \in 1..k : \E i \in 1..k : p[i] = j
                                  /\ \A i, j \in 1..k : p[i] = p[j] => i = j
                                  /\ \A i \in 1..k : v[i] = u[p[i]]
  BY Zenon DEF Rearranges
<1>2. \A i \in 1..k : p[i] \in 1..k
  OBVIOUS
<1>3. Len(u) = k /\ Apart(u) /\ Weighs(u, len) /\ Sparse(u)
  BY DEF IsCut
<1>4. Apart(v)
  <2> SUFFICES ASSUME NEW i \in 1..k, NEW j \in 1..k, NEW a \in 1..Size(v[i]),
                      NEW b \in 1..Size(v[j]), v[i].items[a] = v[j].items[b]
               PROVE  i = j /\ a = b
    BY DEF Apart
  <2>1. PICK x \in 1..k, y \in 1..k : x = p[i] /\ y = p[j]
    BY <1>2
  <2>2. v[i] = u[x] /\ v[j] = u[y]
    BY <1>1, <2>1, Zenon
  <2>3. a \in 1..Size(u[x]) /\ b \in 1..Size(u[y]) /\ u[x].items[a] = u[y].items[b]
    BY <2>2
  <2>4. x = y /\ a = b
    <3>1. \A i1, j1 \in 1..k : \A a1 \in 1..Size(u[i1]), b1 \in 1..Size(u[j1]) :
            u[i1].items[a1] = u[j1].items[b1] => i1 = j1 /\ a1 = b1
      BY <1>3, Zenon DEF Apart
    <3>2. QED
      BY ONLY <2>3, <3>1, x \in 1..k, y \in 1..k
  <2>5. QED
    BY <1>1, <2>1, <2>4, ZenonT(40)
<1>5. Weighs(v, len)
  <2> SUFFICES ASSUME NEW i \in 1..k
               PROVE  v[i].sum > 0 <=> \E a \in 1..Size(v[i]) : len[v[i].items[a]] > 0
    BY Zenon DEF Weighs
  <2>1. v[i] = u[p[i]] /\ p[i] \in 1..k
    BY <1>1, <1>2
  <2>2. QED
    BY <1>3, <2>1 DEF Weighs
<1>6. Sparse(v)
  <2> SUFFICES ASSUME NEW i \in 1..k, NEW j \in 1..k, Size(v[i]) = 0
               PROVE  Size(v[j]) <= 1
    BY DEF Sparse
  <2>1. PICK x \in 1..k, y \in 1..k : x = p[i] /\ y = p[j]
    BY <1>2
  <2>2. v[i] = u[x] /\ v[j] = u[y]
    BY <1>1, <2>1, Zenon
  <2>3. QED
    BY <1>3, <2>2 DEF Sparse
<1>7. RowsOf(v) = RowsOf(u)
  <2>1. ASSUME NEW r \in RowsOf(v) PROVE r \in RowsOf(u)
    <3>1. PICK i \in 1..k : \E a \in 1..Size(v[i]) : v[i].items[a] = r
      BY Zenon DEF RowsOf
    <3>2. v[i] = u[p[i]] /\ p[i] \in 1..k
      BY <1>1, <1>2
    <3>3. r \in Nat
      BY DEF RowsOf
    <3>4. QED
      BY <1>3, <3>1, <3>2, <3>3, Zenon DEF RowsOf
  <2>2. ASSUME NEW r \in RowsOf(u) PROVE r \in RowsOf(v)
    <3>1. PICK j \in 1..k : \E a \in 1..Size(u[j]) : u[j].items[a] = r
      BY <1>3 DEF RowsOf
    <3>2. PICK i \in 1..k : p[i] = j
      BY <1>1
    <3>3. v[i] = u[j]
      BY <1>1, <3>2, Zenon
    <3>4. r \in Nat
      BY DEF RowsOf
    <3>5. QED
      BY <3>1, <3>3, <3>4, Zenon DEF RowsOf
  <2>3. QED
    BY <2>1, <2>2, Zenon
<1>8. QED
  BY <1>3, <1>4, <1>5, <1>6, <1>7 DEF IsCut

LEMMA DecreasingIs ==
  ASSUME NEW k \in Nat, NEW len, NEW u, IsCut(u, k, len)
  PROVE  /\ IsState(Decreasing[u], k, len) /\ RowsOf(Decreasing[u]) = RowsOf(u)
         /\ Rearranges(Decreasing[u], u, k)
<1> DEFINE I == ToSet(u)
           R == {p \in Pairs(u) : SetLess(p[2], p[1])}
           v == Sorted(u, R)
<1>1. u \in Seq(Part) /\ Len(u) = k /\ DOMAIN u = 1..k /\ \A i \in 1..k : u[i] \in Part
  <2>1. u \in Seq(Part) /\ Len(u) = k
    BY DEF IsCut
  <2>2. QED
    BY <2>1, LenProperties, ElementOfSeq
<1>2. \A x \in I : x \in Part
  BY <1>1 DEF ToSet
<1>3. \A x, y \in I : <<x, y>> \in R <=> SetLess(y, x)
  BY DEF Pairs
<1>4. Decreasing[u] = v
  <2>1. u \in States
    BY <1>1 DEF States, Part
  <2>2. QED
    BY <2>1 DEF Decreasing
<1>5. Ordering(I, R)
  <2> HIDE DEF I, R
  <2>1. QED
    BY <1>2, <1>3, SetLessOrders DEF Ordering
<1>6. v \in Seq(Part) /\ Len(v) = k /\ InOrder(v, R) /\ Rearranges(v, u, k)
  <2>1. \A Q : Ordering(ToSet(u), Q) =>
          /\ Sorted(u, Q) \in Seq(Part) /\ Len(Sorted(u, Q)) = Len(u)
          /\ InOrder(Sorted(u, Q), Q)
          /\ Rearranges(Sorted(u, Q), u, Len(u))
    BY <1>1, SortedIs
  <2> HIDE DEF R
  <2>2. QED
    BY <1>1, <1>5, <2>1
<1> HIDE DEF v, R
<1>7. IsCut(v, k, len) /\ RowsOf(v) = RowsOf(u)
  BY <1>6, CutRearranged
<1>8. Descending(v)
  <2>1. \A i \in 1..k : v[i] \in I
    <3>1. PICK p \in [1..k -> 1..k] : \A i \in 1..k : v[i] = u[p[i]]
      BY <1>6, Zenon DEF Rearranges
    <3>2. QED
      BY <1>1, <3>1 DEF ToSet
  <2> HIDE DEF I
  <2>2. QED
    BY <1>3, <1>6, <2>1, Zenon DEF Descending, InOrder
<1>9. QED
  BY <1>4, <1>6, <1>7, <1>8 DEF IsState

(* A state for one row, and the merge of two states.                       *)
LEMMA SingleRowIs ==
  ASSUME NEW k \in Nat, k > 0, NEW len, NEW r \in Nat, len[r] \in Nat
  PROVE  IsState(SingleRow(r, len[r], k), k, len) /\ RowsOf(SingleRow(r, len[r], k)) = {r}
<1> DEFINE s == SingleRow(r, len[r], k)
<1>1. s \in Seq(Part) /\ Len(s) = k
  <2>1. [sum |-> len[r], items |-> <<r>>] \in Part /\ [sum |-> 0, items |-> <<>>] \in Part
    BY DEF Part
  <2>2. s \in [1..k -> Part]
    BY <2>1 DEF SingleRow, Size
  <2> HIDE DEF s
  <2>3. QED
    BY <2>2, FunctionIsSequence
<1>2. 1 \in 1..k /\ s[1].sum = len[r] /\ s[1].items = <<r>> /\ Size(s[1]) = 1 /\ s[1].items[1] = r
  BY DEF SingleRow, Size
<1>3. \A i \in 1..k : i # 1 => s[i].sum = 0 /\ s[i].items = <<>> /\ Size(s[i]) = 0
  BY DEF SingleRow, Size
<1> HIDE DEF s
<1>4. \A i \in 1..k : \A a \in 1..Size(s[i]) : i = 1 /\ a = 1
  BY <1>2, <1>3
<1>5. Apart(s)
  BY <1>1, <1>4 DEF Apart
<1>6. Weighs(s, len)
  <2> SUFFICES ASSUME NEW i \in 1..k
               PROVE  s[i].sum > 0 <=> \E a \in 1..Size(s[i]) : len[s[i].items[a]] > 0
    BY <1>1 DEF Weighs
  <2>1. CASE i = 1
    BY <1>2, <2>1
  <2>2. CASE i # 1
    BY <1>3, <2>2
  <2>3. QED
    BY <2>1, <2>2
<1>7. Sparse(s)
  <2>1. \A i \in 1..k : Size(s[i]) <= 1
    BY <1>2, <1>3
  <2>2. QED
    BY <1>1, <2>1 DEF Sparse
<1>8. Descending(s)
  <2> SUFFICES ASSUME NEW i \in 1..k, NEW j \in 1..k, i < j PROVE ~SetLess(s[i], s[j])
    BY <1>1 DEF Descending
  <2>1. s[j].sum = 0 /\ Size(s[j]) = 0
    BY <1>3
  <2>2. s[i].sum \in Nat /\ Size(s[i]) \in Nat
    BY <1>2, <1>3
  <2>3. Size(s[i]) = 0 => s[i].items = <<>>
    BY <1>2, <1>3
  <2>4. QED
    BY <2>1, <2>2, <2>3 DEF SetLess, Size
<1>9. RowsOf(s) = {r}
  <2>1. \A q \in RowsOf(s) : q = r
    BY <1>1, <1>2, <1>4 DEF RowsOf
  <2>2. r \in RowsOf(s)
    BY <1>1, <1>2 DEF RowsOf
  <2>3. QED
    BY <2>1, <2>2, Zenon
<1>10. QED
  BY <1>1, <1>5, <1>6, <1>7, <1>8, <1>9 DEF s, IsState, IsCut

(* An empty part is the last of a state or followed by empty parts.        *)
LEMMA EmptyPartsLast ==
  ASSUME NEW k \in Nat, NEW len, NEW s, IsState(s, k, len), NEW i \in 1..k, NEW j \in 1..k,
         Size(s[i]) = 0, i <= j
  PROVE  Size(s[j]) = 0
<1>1. s \in Seq(Part) /\ Len(s) = k /\ Weighs(s, len) /\ Descending(s)
  BY DEF IsState, IsCut
<1>2. s[i] \in Part /\ s[j] \in Part
  BY <1>1, ElementOfSeq
<1>3. Size(s[j]) \in Nat /\ s[i].sum \in Nat /\ s[j].sum \in Nat
  BY <1>2, PartIs
<1>4. s[i].sum = 0
  <2>1. ~(s[i].sum > 0)
    BY <1>1 DEF Weighs
  <2>2. QED
    BY <1>3, <2>1
<1>5. i # j => ~SetLess(s[i], s[j])
  BY <1>1 DEF Descending
<1>6. QED
  BY <1>3, <1>4, <1>5 DEF SetLess, Size

LEMMA MergeIs ==
  ASSUME NEW k \in Nat, NEW len,
         NEW s, IsState(s, k, len), NEW t, IsState(t, k, len),
         \A r \in RowsOf(s) : r \notin RowsOf(t)
  PROVE  /\ IsState(Merge[<<s, t>>], k, len)
         /\ \A r : r \in RowsOf(Merge[<<s, t>>]) <=> r \in RowsOf(s) \/ r \in RowsOf(t)
         /\ (\A i \in 1..k : s[i].sum > 0) => \A i \in 1..k : Merge[<<s, t>>][i].sum > 0
         /\ (\A i \in 1..k : t[i].sum > 0) => \A i \in 1..k : Merge[<<s, t>>][i].sum > 0
<1> DEFINE w == [i \in 1..k |-> t[k + 1 - i]]
           u == [i \in 1..k |-> [sum   |-> s[i].sum + w[i].sum,
                                 items |-> s[i].items \o w[i].items]]
<1>1. /\ s \in Seq(Part) /\ Len(s) = k /\ Apart(s) /\ Weighs(s, len) /\ Sparse(s)
      /\ t \in Seq(Part) /\ Len(t) = k
  BY DEF IsState, IsCut
<1>2. Merge[<<s, t>>] = Decreasing[u]
  <2>1. <<s, t>> \in States \X States
    BY <1>1 DEF States, Part
  <2>2. u = [i \in 1..k |-> [sum   |-> s[i].sum + t[k + 1 - i].sum,
                             items |-> s[i].items \o t[k + 1 - i].items]]
    OBVIOUS
  <2>3. QED
    BY <1>1, <2>1, <2>2, Zenon DEF Merge
<1>3. /\ w \in Seq(Part) /\ Len(w) = k /\ Apart(w) /\ Weighs(w, len) /\ Sparse(w)
      /\ RowsOf(w) = RowsOf(t)
      /\ \A i \in 1..k : s[i] \in Part /\ w[i] \in Part
      /\ \A i, j \in 1..k : Size(w[i]) = 0 /\ j <= i => Size(w[j]) = 0
  <2>1. \A i \in 1..k : s[i] \in Part /\ t[i] \in Part
    BY <1>1, ElementOfSeq
  <2>2. \A i \in 1..k : k + 1 - i \in 1..k /\ w[i] = t[k + 1 - i]
    OBVIOUS
  <2>3. w \in [1..k -> Part]
    BY <2>1, <2>2
  <2>4. Rearranges(w, t, k)
    <3> DEFINE p == [i \in 1..k |-> k + 1 - i]
    <3>1. p \in [1..k -> 1..k]
      BY <2>2
    <3>2. \A j \in 1..k : p[k + 1 - j] = j /\ k + 1 - j \in 1..k
      OBVIOUS
    <3>3. \A i, j \in 1..k : p[i] = p[j] => i = j
      OBVIOUS
    <3>4. \A i \in 1..k : w[i] = t[p[i]]
      OBVIOUS
    <3> HIDE DEF p, w
    <3>5. QED
      BY <3>1, <3>2, <3>3, <3>4 DEF Rearranges
  <2>5. ASSUME NEW i \in 1..k, NEW j \in 1..k, Size(w[i]) = 0, j <= i PROVE Size(w[j]) = 0
    <3>1. PICK x \in 1..k, y \in 1..k : x = k + 1 - i /\ y = k + 1 - j
      BY <2>2
    <3>2. w[i] = t[x] /\ w[j] = t[y] /\ x <= y
      BY <2>5, <3>1
    <3>3. QED
      BY <2>5, <3>2, EmptyPartsLast
  <2> HIDE DEF w
  <2>6. w \in Seq(Part) /\ Len(w) = k
    BY <2>3, FunctionIsSequence
  <2>7. IsCut(w, k, len) /\ RowsOf(w) = RowsOf(t)
    BY <2>4, <2>6, CutRearranged DEF IsState
  <2>8. \A i \in 1..k : s[i] \in Part /\ w[i] \in Part
    BY <2>1, <2>3
  <2>9. QED
    BY <2>5, <2>6, <2>7, <2>8 DEF IsCut
<1> HIDE DEF w
<1>4. \A i \in 1..k : /\ u[i].sum = s[i].sum + w[i].sum
                      /\ u[i].items = s[i].items \o w[i].items
  BY Zenon
(* The items of a merged part.                                             *)
<1>5. \A i \in 1..k :
        /\ s[i].sum \in Nat /\ w[i].sum \in Nat
        /\ s[i].items \in Seq(Nat) /\ w[i].items \in Seq(Nat)
        /\ Size(s[i]) \in Nat /\ Size(w[i]) \in Nat
  BY <1>3, PartIs
<1>6. \A i \in 1..k :
        /\ u[i].items \in Seq(Nat)
        /\ Size(u[i]) = Size(s[i]) + Size(w[i])
        /\ \A a \in 1..Size(s[i]) : u[i].items[a] = s[i].items[a]
        /\ \A a \in 1..Size(w[i]) :
             u[i].items[Size(s[i]) + a] = w[i].items[a]
  <2> TAKE i \in 1..k
  <2>1. PICK a, b : a = s[i].items /\ b = w[i].items
    OBVIOUS
  <2>2. a \in Seq(Nat) /\ b \in Seq(Nat)
    BY <1>5, <2>1
  <2>3. a \o b \in Seq(Nat) /\ Len(a \o b) = Len(a) + Len(b)
    BY <2>2, ConcatElements
  <2>4. \A c \in 1..Len(a) : (a \o b)[c] = a[c]
    BY <2>2, ConcatElements
  <2>5. \A c \in 1..Len(b) : (a \o b)[Len(a) + c] = b[c]
    BY <2>2, ConcatElements, SMTT(20)
  <2>6. u[i].items = a \o b
    BY <1>4, <2>1, Zenon
  <2> HIDE DEF u
  <2>7. Size(s[i]) = Len(a) /\ Size(w[i]) = Len(b) /\ Size(u[i]) = Len(a \o b)
    BY <2>1, <2>6 DEF Size
  <2>8. QED
    BY <2>1, <2>3, <2>4, <2>5, <2>6, <2>7, Zenon
<1>7. u \in Seq(Part) /\ Len(u) = k
  <2>1. \A i \in 1..k : u[i] \in Part
    <3> TAKE i \in 1..k
    <3>1. s[i].sum + w[i].sum \in Nat
      BY <1>5
    <3>2. s[i].items \o w[i].items \in Seq(Nat)
      BY <1>4, <1>6, Zenon
    <3>3. QED
      BY <3>1, <3>2 DEF Part
  <2>2. u = [i \in 1..k |-> u[i]]
    OBVIOUS
  <2> HIDE DEF u
  <2>3. u \in [1..k -> Part]
    BY <2>1, <2>2
  <2>4. QED
    BY <2>3, FunctionIsSequence
<1> HIDE DEF u
<1>8. \A i \in 1..k : \A a \in 1..Size(u[i]) :
        \/ a \in 1..Size(s[i]) /\ u[i].items[a] = s[i].items[a]
        \/ /\ a - Size(s[i]) \in 1..Size(w[i])
           /\ u[i].items[a] = w[i].items[a - Size(s[i])]
  <2> SUFFICES ASSUME NEW i \in 1..k, NEW a \in 1..Size(u[i])
               PROVE  \/ a \in 1..Size(s[i]) /\ u[i].items[a] = s[i].items[a]
                      \/ /\ a - Size(s[i]) \in 1..Size(w[i])
                         /\ u[i].items[a] = w[i].items[a - Size(s[i])]
    OBVIOUS
  <2>1. Size(s[i]) \in Nat /\ Size(w[i]) \in Nat
    BY <1>5
  <2>2. Size(u[i]) = Size(s[i]) + Size(w[i])
    BY <1>6
  <2>3. CASE a <= Size(s[i])
    <3>1. a \in 1..Size(s[i])
      BY <2>1, <2>2, <2>3
    <3>2. QED
      BY <1>6, <3>1
  <2>4. CASE a > Size(s[i])
    <3> DEFINE c == a - Size(s[i])
    <3>1. c \in 1..Size(w[i]) /\ Size(s[i]) + c = a
      BY <2>1, <2>2, <2>4
    <3>2. u[i].items[Size(s[i]) + c] = w[i].items[c]
      BY <1>6, <3>1, Zenon
    <3>3. QED
      BY <3>1, <3>2
  <2>5. QED
    BY <2>1, <2>2, <2>3, <2>4
<1>9. /\ \A i \in 1..k : \A a \in 1..Size(s[i]) : s[i].items[a] \in RowsOf(s)
      /\ \A i \in 1..k : \A a \in 1..Size(w[i]) : w[i].items[a] \in RowsOf(t)
  <2>1. \A i \in 1..k : /\ \A a \in 1..Size(s[i]) : s[i].items[a] \in Nat
                        /\ \A a \in 1..Size(w[i]) : w[i].items[a] \in Nat
    <3> TAKE i \in 1..k
    <3>1. PICK a, b : a = s[i].items /\ b = w[i].items
      OBVIOUS
    <3>2. a \in Seq(Nat) /\ b \in Seq(Nat) /\ Len(a) = Size(s[i]) /\ Len(b) = Size(w[i])
      BY <1>5, <3>1 DEF Size
    <3>3. (\A c \in 1..Len(a) : a[c] \in Nat) /\ (\A c \in 1..Len(b) : b[c] \in Nat)
      BY <3>2, ElementOfSeq, Zenon
    <3>4. QED
      BY <3>1, <3>2, <3>3, Zenon
  <2>2. RowsOf(w) = RowsOf(t)
    BY <1>3
  <2>3. QED
    BY <1>1, <1>3, <2>1, <2>2, Zenon DEF RowsOf
<1>10. Apart(u)
  <2> SUFFICES ASSUME NEW i \in 1..k, NEW j \in 1..k, NEW a \in 1..Size(u[i]),
                      NEW b \in 1..Size(u[j]), u[i].items[a] = u[j].items[b]
               PROVE  i = j /\ a = b
    BY <1>7 DEF Apart
  <2> DEFINE m == Size(s[i])
             n == Size(s[j])
  <2>1. m \in Nat /\ n \in Nat
    BY <1>5
  <2>2. a \in Int /\ b \in Int
    BY <1>5, <1>6
  <2>3. \/ a \in 1..m /\ u[i].items[a] = s[i].items[a]
        \/ a - m \in 1..Size(w[i]) /\ u[i].items[a] = w[i].items[a - m]
    BY <1>8
  <2>4. \/ b \in 1..n /\ u[j].items[b] = s[j].items[b]
        \/ b - n \in 1..Size(w[j]) /\ u[j].items[b] = w[j].items[b - n]
    BY <1>8
  <2>5. CASE /\ a \in 1..m /\ u[i].items[a] = s[i].items[a]
             /\ b \in 1..n /\ u[j].items[b] = s[j].items[b]
    <3>1. s[i].items[a] = s[j].items[b]
      BY <2>5, Zenon
    <3>2. \A i1, j1 \in 1..k : \A a1 \in 1..Size(s[i1]), b1 \in 1..Size(s[j1]) :
            s[i1].items[a1] = s[j1].items[b1] => i1 = j1 /\ a1 = b1
      BY <1>1 DEF Apart
    <3>3. QED
      BY <2>5, <3>1, <3>2
  <2>6. CASE /\ a \in 1..m /\ u[i].items[a] = s[i].items[a]
             /\ b - n \in 1..Size(w[j]) /\ u[j].items[b] = w[j].items[b - n]
    <3>1. s[i].items[a] \in RowsOf(s) /\ w[j].items[b - n] \in RowsOf(t)
      BY <1>9, <2>1, <2>6
    <3>2. QED
      BY <2>6, <3>1, Zenon
  <2>7. CASE /\ a - m \in 1..Size(w[i]) /\ u[i].items[a] = w[i].items[a - m]
             /\ b \in 1..n /\ u[j].items[b] = s[j].items[b]
    <3>1. s[j].items[b] \in RowsOf(s) /\ w[i].items[a - m] \in RowsOf(t)
      BY <1>9, <2>1, <2>7
    <3>2. QED
      BY <2>7, <3>1, Zenon
  <2>8. CASE /\ a - m \in 1..Size(w[i]) /\ u[i].items[a] = w[i].items[a - m]
             /\ b - n \in 1..Size(w[j]) /\ u[j].items[b] = w[j].items[b - n]
    <3>1. w[i].items[a - m] = w[j].items[b - n]
      BY <2>8, Zenon
    <3>2. \A i1, j1 \in 1..k : \A a1 \in 1..Size(w[i1]), b1 \in 1..Size(w[j1]) :
            w[i1].items[a1] = w[j1].items[b1] => i1 = j1 /\ a1 = b1
      BY <1>3 DEF Apart
    <3>3. i = j /\ a - m = b - n
      BY ONLY <2>8, <3>1, <3>2, i \in 1..k, j \in 1..k
    <3>4. m = n
      BY <3>3
    <3> HIDE DEF m, n
    <3>5. QED
      BY <2>1, <2>2, <3>3, <3>4
  <2>9. QED
    BY <2>3, <2>4, <2>5, <2>6, <2>7, <2>8
<1>11. Weighs(u, len)
  <2> SUFFICES ASSUME NEW i \in 1..k
               PROVE  u[i].sum > 0 <=> \E a \in 1..Size(u[i]) : len[u[i].items[a]] > 0
    BY <1>7 DEF Weighs
  <2> DEFINE m == Size(s[i])
  <2>1. m \in Nat /\ Size(w[i]) \in Nat /\ s[i].sum \in Nat /\ w[i].sum \in Nat
    BY <1>5
  <2>2. s[i].sum > 0 <=> \E a \in 1..m : len[s[i].items[a]] > 0
    BY <1>1 DEF Weighs
  <2>3. w[i].sum > 0 <=> \E a \in 1..Size(w[i]) : len[w[i].items[a]] > 0
    BY <1>3 DEF Weighs
  <2>4. u[i].sum = s[i].sum + w[i].sum /\ Size(u[i]) = m + Size(w[i])
    BY <1>4, <1>6, Zenon
  <2>5. ASSUME u[i].sum > 0 PROVE \E a \in 1..Size(u[i]) : len[u[i].items[a]] > 0
    <3>1. CASE s[i].sum > 0
      <4>1. PICK a \in 1..m : len[s[i].items[a]] > 0
        BY <2>2, <3>1
      <4>2. a \in 1..Size(u[i])
        BY <2>1, <2>4
      <4>3. u[i].items[a] = s[i].items[a]
        BY <1>6
      <4>4. QED
        BY <4>1, <4>2, <4>3
    <3>2. CASE w[i].sum > 0
      <4>1. PICK a \in 1..Size(w[i]) : len[w[i].items[a]] > 0
        BY <2>3, <3>2
      <4>2. m + a \in 1..Size(u[i])
        BY <2>1, <2>4
      <4>3. u[i].items[m + a] = w[i].items[a]
        BY <1>6
      <4>4. QED
        BY <4>1, <4>2, <4>3
    <3>3. QED
      BY <2>1, <2>4, <2>5, <3>1, <3>2
  <2>6. ASSUME NEW a \in 1..Size(u[i]), len[u[i].items[a]] > 0 PROVE u[i].sum > 0
    <3>1. \/ a \in 1..m /\ u[i].items[a] = s[i].items[a]
          \/ a - m \in 1..Size(w[i]) /\ u[i].items[a] = w[i].items[a - m]
      BY <1>8
    <3>2. s[i].sum > 0 \/ w[i].sum > 0
      BY <2>2, <2>3, <2>6, <3>1
    <3>3. QED
      BY <2>1, <2>4, <3>2
  <2>7. QED
    BY <2>5, <2>6
<1>12. Sparse(u)
  <2> SUFFICES ASSUME NEW i \in 1..k, NEW j \in 1..k, Size(u[i]) = 0
               PROVE  Size(u[j]) <= 1
    BY <1>7 DEF Sparse
  <2>2. /\ Size(s[i]) \in Nat /\ Size(w[i]) \in Nat
        /\ Size(s[j]) \in Nat /\ Size(w[j]) \in Nat
    BY <1>5
  <2>3. /\ Size(u[i]) = Size(s[i]) + Size(w[i])
        /\ Size(u[j]) = Size(s[j]) + Size(w[j])
    BY <1>6
  <2>4. Size(s[i]) = 0 /\ Size(w[i]) = 0
    BY <2>2, <2>3
  <2>5. Size(s[j]) <= 1 /\ Size(w[j]) <= 1
    BY <1>1, <1>3, <2>4 DEF Sparse
  <2>6. i <= j \/ j <= i
    OBVIOUS
  <2>7. i <= j => Size(s[j]) = 0
    BY <2>4, EmptyPartsLast
  <2>8. j <= i => Size(w[j]) = 0
    BY <1>3, <2>4
  <2>9. QED
    BY <2>2, <2>3, <2>5, <2>6, <2>7, <2>8
<1>13. IsCut(u, k, len)
  BY <1>7, <1>10, <1>11, <1>12 DEF IsCut
<1>14. /\ IsState(Decreasing[u], k, len) /\ RowsOf(Decreasing[u]) = RowsOf(u)
       /\ Rearranges(Decreasing[u], u, k)
  BY <1>13, DecreasingIs
<1>15. \A r : r \in RowsOf(u) <=> r \in RowsOf(s) \/ r \in RowsOf(t)
  <2>1. ASSUME NEW r \in RowsOf(u) PROVE r \in RowsOf(s) \/ r \in RowsOf(t)
    <3>1. PICK i \in 1..k : \E a \in 1..Size(u[i]) : u[i].items[a] = r
      BY <1>7 DEF RowsOf
    <3>2. PICK a \in 1..Size(u[i]) : u[i].items[a] = r
      BY <3>1
    <3>3. QED
      BY <1>3, <1>8, <1>9, <3>2
  <2>2. ASSUME NEW r \in RowsOf(s) PROVE r \in RowsOf(u)
    <3>1. PICK i \in 1..k : \E a \in 1..Size(s[i]) : s[i].items[a] = r
      BY <1>1 DEF RowsOf
    <3>2. PICK a \in 1..Size(s[i]) : s[i].items[a] = r
      BY <3>1
    <3>3. a \in 1..Size(u[i])
      <4>1. Size(s[i]) \in Nat /\ Size(w[i]) \in Nat /\ Size(u[i]) = Size(s[i]) + Size(w[i])
        BY <1>5, <1>6
      <4>2. QED
        BY <4>1
    <3>4. u[i].items[a] = r /\ r \in Nat
      BY <1>6, <3>2, Zenon DEF RowsOf
    <3>5. QED
      BY <1>7, <3>3, <3>4 DEF RowsOf
  <2>3. ASSUME NEW r \in RowsOf(t) PROVE r \in RowsOf(u)
    <3>1. PICK i \in 1..k : \E a \in 1..Size(w[i]) : w[i].items[a] = r
      BY <1>3, Zenon DEF RowsOf
    <3>2. PICK a \in 1..Size(w[i]) : w[i].items[a] = r
      BY <3>1
    <3>3. Size(s[i]) \in Nat /\ Size(w[i]) \in Nat /\ Size(u[i]) = Size(s[i]) + Size(w[i])
      BY <1>5, <1>6
    <3>4. Size(s[i]) + a \in 1..Size(u[i])
      BY <3>3
    <3>5. u[i].items[Size(s[i]) + a] = r /\ r \in Nat
      BY <1>6, <3>2, Zenon DEF RowsOf
    <3>6. QED
      BY <1>7, <3>4, <3>5 DEF RowsOf
  <2>4. QED
    BY <2>1, <2>2, <2>3
<1>16. ASSUME \A i \in 1..k : u[i].sum > 0 PROVE \A i \in 1..k : Decreasing[u][i].sum > 0
  <2>1. PICK v : v = Decreasing[u]
    OBVIOUS
  <2>2. PICK p \in [1..k -> 1..k] : \A i \in 1..k : v[i] = u[p[i]]
    BY <1>14, <2>1, Zenon DEF Rearranges
  <2>3. QED
    BY <1>16, <2>1, <2>2, Zenon
<1>17. (\A i \in 1..k : s[i].sum > 0) => \A i \in 1..k : u[i].sum > 0
  <2> SUFFICES ASSUME \A i \in 1..k : s[i].sum > 0, NEW i \in 1..k PROVE u[i].sum > 0
    OBVIOUS
  <2>1. s[i].sum > 0
    OBVIOUS
  <2>2. s[i].sum \in Nat /\ w[i].sum \in Nat
    BY <1>5
  <2>3. u[i].sum = s[i].sum + w[i].sum
    BY <1>4, Zenon
  <2>4. QED
    BY ONLY <2>1, <2>2, <2>3
<1>18. (\A i \in 1..k : t[i].sum > 0) => \A i \in 1..k : u[i].sum > 0
  <2> SUFFICES ASSUME \A i \in 1..k : t[i].sum > 0, NEW i \in 1..k PROVE u[i].sum > 0
    OBVIOUS
  <2>1. w[i].sum > 0
    BY DEF w
  <2>2. s[i].sum \in Nat /\ w[i].sum \in Nat
    BY <1>5
  <2>3. u[i].sum = s[i].sum + w[i].sum
    BY <1>4, Zenon
  <2>4. QED
    BY ONLY <2>1, <2>2, <2>3
<1>19. QED
  BY <1>2, <1>14, <1>15, <1>16, <1>17, <1>18

(* The order of the heap: it has a first state.                            *)
LEMMA SpreadIs ==
  ASSUME NEW k \in Nat, k > 0, NEW s \in Seq(Part), Len(s) = k
  PROVE  /\ Spread(s) \in Int /\ Head(s) \in Part /\ Last(s) \in Part
         /\ Head(s) = s[1] /\ Last(s) = s[k] /\ Spread(s) = Head(s).sum - Last(s).sum
<1>1. 1 \in 1..k /\ k \in 1..k
  OBVIOUS
<1>2. s[1] \in Part /\ s[k] \in Part
  BY <1>1, ElementOfSeq
<1>3. s # <<>>
  BY EmptySeq
<1>4. Head(s) = s[1] /\ Last(s) = s[k]
  BY <1>3, HeadTailProperties DEF Last
<1>5. s[1].sum \in Nat /\ s[k].sum \in Nat
  BY <1>2, PartIs
<1>6. QED
  BY <1>2, <1>4, <1>5 DEF Spread

LEMMA PoppedBeforeOrders ==
  ASSUME NEW k \in Nat, k > 0, NEW H, \A s \in H : s \in Seq(Part) /\ Len(s) = k
  PROVE  /\ \A s, t \in H : PoppedBefore(s, t) => ~PoppedBefore(t, s)
         /\ \A s, t, u \in H : ~PoppedBefore(s, t) /\ ~PoppedBefore(t, u) => ~PoppedBefore(s, u)
<1>1. \A s \in H : Spread(s) \in Int /\ Head(s) \in Part
  BY SpreadIs
<1>2. ASSUME NEW s \in H, NEW t \in H, PoppedBefore(s, t) PROVE ~PoppedBefore(t, s)
  <2>1. Spread(s) \in Int /\ Spread(t) \in Int
    BY <1>1
  <2>2. SetLess(Head(t), Head(s)) => ~SetLess(Head(s), Head(t))
    BY <1>1, SetLessOrders
  <2>3. QED
    BY <1>2, <2>1, <2>2 DEF PoppedBefore
<1>3. ASSUME NEW s \in H, NEW t \in H, NEW u \in H, ~PoppedBefore(s, t), ~PoppedBefore(t, u)
      PROVE  ~PoppedBefore(s, u)
  <2>1. Spread(s) \in Int /\ Spread(t) \in Int /\ Spread(u) \in Int
    BY <1>1
  <2>2. ~SetLess(Head(u), Head(t)) /\ ~SetLess(Head(t), Head(s)) => ~SetLess(Head(u), Head(s))
    BY <1>1, SetLessOrders
  <2>3. QED
    BY <1>3, <2>1, <2>2 DEF PoppedBefore
<1>4. QED
  BY <1>2, <1>3

LEMMA FirstIs ==
  ASSUME NEW k \in Nat, k > 0, NEW H, IsFiniteSet(H), H # {},
         \A s \in H : s \in Seq(Part) /\ Len(s) = k
  PROVE  First(H) \in H /\ \A t \in H : ~PoppedBefore(t, First(H))
<1> DEFINE m == Cardinality(H)
           R == {p \in H \X H : PoppedBefore(p[1], p[2])}
<1>1. m \in Nat /\ m # 0
  BY FS_CardinalityType, FS_EmptySet
<1>2. PICK f : f \in Bijection(1..m, H)
  BY FS_CardinalityType DEF ExistsBijection
<1> HIDE DEF m
<1>3. f \in [1..m -> H] /\ \A t \in H : \E i \in 1..m : f[i] = t
  BY <1>2 DEF Bijection, Injection, Surjection
<1>4. f \in Seq(H) /\ Len(f) = m /\ DOMAIN f = 1..m
  BY <1>1, <1>3, FunctionIsSequence
<1>5. ToSet(f) = H
  <2>1. \A t \in ToSet(f) : t \in H
    BY <1>3, <1>4 DEF ToSet
  <2>2. \A t \in H : t \in ToSet(f)
    BY <1>3, <1>4 DEF ToSet
  <2>3. QED
    BY <2>1, <2>2, Zenon
<1>6. Ordering(H, R)
  <2>1. \A s, t \in H : <<s, t>> \in R <=> PoppedBefore(s, t)
    OBVIOUS
  <2> HIDE DEF R
  <2>2. QED
    BY <2>1, PoppedBeforeOrders DEF Ordering
<1>7. PICK r : /\ r \in Seq(H) /\ Len(r) = m /\ InOrder(r, R)
               /\ Rearranges(r, f, m)
  <2>1. \A Q : Ordering(ToSet(f), Q) =>
          /\ Sorted(f, Q) \in Seq(H) /\ Len(Sorted(f, Q)) = Len(f)
          /\ InOrder(Sorted(f, Q), Q)
          /\ Rearranges(Sorted(f, Q), f, Len(f))
    BY <1>4, SortedIs
  <2> HIDE DEF R
  <2>2. QED
    BY <1>4, <1>5, <1>6, <2>1
<1>8. \A t \in H : \E i \in 1..m : r[i] = t
  <2>1. PICK p \in [1..m -> 1..m] : /\ \A j \in 1..m : \E i \in 1..m : p[i] = j
                                    /\ \A i \in 1..m : r[i] = f[p[i]]
    BY <1>7, Zenon DEF Rearranges
  <2> TAKE t \in H
  <2>2. PICK j \in 1..m : f[j] = t
    BY <1>3
  <2>3. PICK i \in 1..m : p[i] = j
    BY <2>1
  <2>4. QED
    BY <2>1, <2>2, <2>3, Zenon
<1>9. 1 \in 1..m /\ r[1] \in H
  <2>1. 1 \in 1..m
    BY <1>1
  <2>2. QED
    BY <1>7, <2>1, ElementOfSeq
<1>10. \A t \in H : ~PoppedBefore(t, r[1])
  <2> SUFFICES ASSUME NEW t \in H, PoppedBefore(t, r[1]) PROVE FALSE
    OBVIOUS
  <2>1. PICK i \in 1..m : r[i] = t
    BY <1>8
  <2>2. <<t, r[1]>> \in R
    BY <1>9
  <2>3. i # 1
    BY <1>6, <2>1, <2>2, <1>9 DEF Ordering
  <2> HIDE DEF R
  <2>4. 1 < i
    BY <1>1, <2>3
  <2>5. QED
    BY <1>7, <1>9, <2>1, <2>2, <2>4 DEF InOrder
<1>11. \E s \in H : \A t \in H : ~PoppedBefore(t, s)
  BY <1>9, <1>10
<1>12. QED
  BY <1>11 DEF First

(* A state of as many rows as parts, or more, has rows in every part, and  *)
(* tokens if all its rows have.                                            *)
LEMMA NoEmptyPart ==
  ASSUME NEW k \in Nat, NEW len, NEW s, IsState(s, k, len), IsFiniteSet(RowsOf(s)),
         Cardinality(RowsOf(s)) >= k
  PROVE  \A i \in 1..k : Size(s[i]) # 0
<1>1. s \in Seq(Part) /\ Len(s) = k /\ Apart(s) /\ Weighs(s, len) /\ Sparse(s)
  BY DEF IsState, IsCut
<1>2. \A i \in 1..k : Size(s[i]) \in Nat /\ s[i].items \in Seq(Nat)
  <2>1. \A i \in 1..k : s[i] \in Part
    BY <1>1, ElementOfSeq
  <2>2. QED
    BY <2>1, PartIs
<1> SUFFICES ASSUME NEW e \in 1..k PROVE Size(s[e]) # 0
  OBVIOUS
<1>3. Size(s[e]) # 0
  <2> SUFFICES ASSUME Size(s[e]) = 0 PROVE FALSE
    OBVIOUS
  <2>1. \A i \in 1..k : \A a \in 1..Size(s[i]) : i # e /\ a = 1
    <3> SUFFICES ASSUME NEW i \in 1..k, NEW a \in 1..Size(s[i]) PROVE i # e /\ a = 1
      OBVIOUS
    <3>1. Size(s[i]) <= 1 /\ Size(s[i]) \in Nat
      BY <1>1, <1>2 DEF Sparse
    <3>2. QED
      BY <3>1
  <2> DEFINE Q == RowsOf(s)
             T == (1..k) \ {e}
             place(r) == CHOOSE i \in 1..k : \E a \in 1..Size(s[i]) : s[i].items[a] = r
             f == [r \in Q |-> place(r)]
  <2>2. \A r \in Q : \E i \in 1..k : \E a \in 1..Size(s[i]) : s[i].items[a] = r
    BY <1>1 DEF RowsOf
  <2> HIDE DEF Q
  <2>3. \A r \in Q : place(r) \in 1..k /\ \E a \in 1..Size(s[place(r)]) : s[place(r)].items[a] = r
    BY <2>2, Zenon
  <2> HIDE DEF place
  <2>4. f \in [Q -> T]
    BY <2>1, <2>3
  <2>5. IsFiniteSet(T) /\ Cardinality(T) < Cardinality(Q)
    <3>1. IsFiniteSet(1..k) /\ Cardinality(1..k) = k
      BY FS_Interval
    <3>2. IsFiniteSet(T) /\ Cardinality(T) = k - 1
      BY <3>1, FS_RemoveElement, Zenon
    <3>3. Cardinality(Q) \in Nat /\ Cardinality(Q) >= k
      BY FS_CardinalityType DEF Q
    <3> HIDE DEF T
    <3>4. QED
      BY <3>2, <3>3
  <2> HIDE DEF T
  <2>6. PICK x \in Q, y \in Q : x # y /\ f[x] = f[y]
    <3>1. IsFiniteSet(Q)
      BY DEF Q
    <3> HIDE DEF f
    <3>2. QED
      BY <2>4, <2>5, <3>1, FS_PigeonHole
  <2>7. PICK i : i = place(x) /\ i = place(y)
    BY <2>6
  <2>8. i \in 1..k /\ (\E a \in 1..Size(s[i]) : s[i].items[a] = x)
                   /\ (\E a \in 1..Size(s[i]) : s[i].items[a] = y)
    BY <2>3, <2>6, <2>7
  <2>9. s[i].items[1] = x /\ s[i].items[1] = y
    BY <2>1, <2>8
  <2>10. QED
    BY <2>6, <2>9
<1>4. QED
  BY <1>3

LEMMA FullCut ==
  ASSUME NEW k \in Nat, NEW len, NEW s, IsState(s, k, len), IsFiniteSet(RowsOf(s)),
         Cardinality(RowsOf(s)) >= k, \A r \in RowsOf(s) : len[r] > 0
  PROVE  \A i \in 1..k : s[i].sum > 0
<1>1. s \in Seq(Part) /\ Len(s) = k /\ Apart(s) /\ Weighs(s, len) /\ Sparse(s)
  BY DEF IsState, IsCut
<1>2. \A i \in 1..k : Size(s[i]) \in Nat /\ s[i].items \in Seq(Nat)
  <2>1. \A i \in 1..k : s[i] \in Part
    BY <1>1, ElementOfSeq
  <2>2. QED
    BY <2>1, PartIs
<1> SUFFICES ASSUME NEW e \in 1..k PROVE s[e].sum > 0
  OBVIOUS
<1>3. Size(s[e]) # 0
  BY NoEmptyPart
<1>4. 1 \in 1..Size(s[e])
  BY <1>2, <1>3
<1>5. s[e].items[1] \in RowsOf(s)
  <2>1. s[e].items[1] \in Nat
    <3>1. PICK a : a = s[e].items
      OBVIOUS
    <3>2. a \in Seq(Nat) /\ Len(a) = Size(s[e])
      BY <1>2, <3>1 DEF Size
    <3>3. \A c \in 1..Len(a) : a[c] \in Nat
      BY <3>2, ElementOfSeq
    <3>4. QED
      BY <1>4, <3>1, <3>2, <3>3
  <2>2. QED
    BY <1>1, <1>4, <2>1 DEF RowsOf
<1>6. QED
  BY <1>1, <1>4, <1>5 DEF Weighs

(* The heap: its states divide the rows, and m merges have been made.      *)
IsHeap(H, m, n, k, len) ==
  /\ IsFiniteSet(H) /\ Cardinality(H) = n - m
  /\ \A s \in H : IsState(s, k, len) /\ RowsOf(s) # {} /\ \A r \in RowsOf(s) : r \in 1..n
  /\ \A s, t \in H : \A r \in RowsOf(s) : r \in RowsOf(t) => s = t
  /\ \A r \in 1..n : \E s \in H : r \in RowsOf(s)

LEMMA HeapStarts ==
  ASSUME NEW n \in Nat, n > 0, NEW k \in Nat, k > 0, NEW len \in [1..n -> Nat],
         NEW H, H = {SingleRow(i, len[i], k) : i \in 1..n}
  PROVE  IsHeap(H, 0, n, k, len)
<1>1. \A i \in 1..n : /\ IsState(SingleRow(i, len[i], k), k, len)
                      /\ RowsOf(SingleRow(i, len[i], k)) = {i}
  <2> TAKE i \in 1..n
  <2>1. i \in Nat /\ len[i] \in Nat
    OBVIOUS
  <2>2. IsState(SingleRow(i, len[i], k), k, len)
    BY <2>1, SingleRowIs
  <2>3. RowsOf(SingleRow(i, len[i], k)) = {i}
    BY <2>1, SingleRowIs, Zenon
  <2>4. QED
    BY <2>2, <2>3
<1> DEFINE f == [i \in 1..n |-> SingleRow(i, len[i], k)]
<1>2. \A i \in 1..n : f[i] = SingleRow(i, len[i], k) /\ f[i] \in H
  OBVIOUS
<1>3. \A s \in H : \E i \in 1..n : s = f[i]
  OBVIOUS
<1>4. f \in [1..n -> H]
  OBVIOUS
<1> HIDE DEF f
<1>5. \A i, j \in 1..n : f[i] = f[j] => i = j
  <2> SUFFICES ASSUME NEW i \in 1..n, NEW j \in 1..n, f[i] = f[j] PROVE i = j
    OBVIOUS
  <2>1. RowsOf(f[i]) = {i} /\ RowsOf(f[j]) = {j}
    BY <1>1, <1>2, Zenon
  <2>2. {i} = {j}
    BY <2>1, Zenon
  <2>3. QED
    BY <2>2
<1>6. IsFiniteSet(H) /\ Cardinality(H) = n - 0
  <2>1. f \in Bijection(1..n, H)
    BY <1>3, <1>4, <1>5, Zenon DEF Bijection, Injection, IsInjective, Surjection
  <2>2. IsFiniteSet(1..n) /\ Cardinality(1..n) = n
    BY FS_Interval
  <2>3. ExistsBijection(1..n, H)
    BY <2>1 DEF ExistsBijection
  <2>4. QED
    BY <2>2, <2>3, FS_Bijection
<1>7. \A s \in H : IsState(s, k, len) /\ RowsOf(s) # {} /\ \A r \in RowsOf(s) : r \in 1..n
  <2> TAKE s \in H
  <2>1. PICK i \in 1..n : s = f[i]
    BY <1>3
  <2>2. IsState(s, k, len) /\ RowsOf(s) = {i}
    BY <1>1, <1>2, <2>1, Zenon
  <2>3. QED
    BY <2>2
<1>8. \A s, t \in H : \A r \in RowsOf(s) : r \in RowsOf(t) => s = t
  <2> SUFFICES ASSUME NEW s \in H, NEW t \in H, NEW r \in RowsOf(s), r \in RowsOf(t) PROVE s = t
    OBVIOUS
  <2>1. PICK i \in 1..n : s = f[i]
    BY <1>3, Zenon
  <2>2. PICK j \in 1..n : t = f[j]
    BY <1>3, Zenon
  <2>3. RowsOf(s) = {i} /\ RowsOf(t) = {j}
    BY <1>1, <1>2, <2>1, <2>2, Zenon
  <2>4. r = i /\ r = j
    BY <2>3
  <2>5. QED
    BY <2>1, <2>2, <2>4
<1>9. \A r \in 1..n : \E s \in H : r \in RowsOf(s)
  <2> TAKE r \in 1..n
  <2>1. f[r] \in H /\ RowsOf(f[r]) = {r}
    BY <1>1, <1>2
  <2>2. QED
    BY <2>1, Zenon
<1>10. QED
  BY <1>6, <1>7, <1>8, <1>9, Zenon DEF IsHeap

(* One step of the method: the two first states of the heap are merged.    *)
TakesFirstTwo(H, s, t) ==
  /\ s \in H /\ t \in H /\ s # t
  /\ s = First(H) /\ t = First(H \ {s})
  /\ MergeFirstTwo[H] = (H \ {s, t}) \cup {Merge[<<s, t>>]}

LEMMA HeapStep ==
  ASSUME NEW n \in Nat, NEW k \in Nat, k > 0, NEW len, NEW m \in Nat, m < n - 1,
         NEW H, IsHeap(H, m, n, k, len)
  PROVE  (\E s, t : TakesFirstTwo(H, s, t)) /\ IsHeap(MergeFirstTwo[H], m + 1, n, k, len)
<1> DEFINE s == First(H)
           t == First(H \ {s})
           x == Merge[<<s, t>>]
           G == H \ {s, t}
<1>1. /\ IsFiniteSet(H) /\ Cardinality(H) = n - m
      /\ \A a \in H : IsState(a, k, len) /\ RowsOf(a) # {} /\ \A r \in RowsOf(a) : r \in 1..n
      /\ \A a, b \in H : \A r \in RowsOf(a) : r \in RowsOf(b) => a = b
      /\ \A r \in 1..n : \E a \in H : r \in RowsOf(a)
  BY DEF IsHeap
<1>2. \A a \in H : a \in Seq(Part) /\ Len(a) = k
  BY <1>1 DEF IsState, IsCut
<1>3. s \in H
  <2>1. H # {}
    BY <1>1, FS_EmptySet
  <2>2. QED
    BY <1>1, <1>2, <2>1, FirstIs, Zenon
<1> HIDE DEF s
<1>4. IsFiniteSet(H \ {s}) /\ Cardinality(H \ {s}) = n - m - 1
  BY <1>1, <1>3, FS_RemoveElement, Zenon
<1>5. t \in H \ {s}
  <2>1. H \ {s} # {}
    BY <1>4, FS_EmptySet
  <2>2. \A a \in H \ {s} : a \in Seq(Part) /\ Len(a) = k
    BY <1>2
  <2> DEFINE J == H \ {s}
  <2> HIDE DEF J
  <2>3. IsFiniteSet(J) /\ J # {} /\ \A a \in J : a \in Seq(Part) /\ Len(a) = k
    BY <1>4, <2>1, <2>2 DEF J
  <2>4. First(J) \in J
    BY <2>3, FirstIs
  <2>5. QED
    BY <2>4 DEF J
<1> HIDE DEF t
<1>6. s \in H /\ t \in H /\ s # t
  BY <1>3, <1>5
<1>7. MergeFirstTwo[H] = G \cup {x}
  <2>1. H \in SUBSET States
    <3>1. \A a \in H : a \in States
      BY <1>2 DEF States, Part
    <3>2. QED
      BY <3>1
  <2>2. QED
    BY <2>1 DEF MergeFirstTwo, s, t
<1>8. IsFiniteSet(G) /\ Cardinality(G) = n - m - 2
  <2>1. G = (H \ {s}) \ {t}
    OBVIOUS
  <2>2. QED
    BY <1>4, <1>5, <2>1, FS_RemoveElement
<1>9. \A r \in RowsOf(s) : r \notin RowsOf(t)
  BY <1>1, <1>6
<1>10. IsState(s, k, len) /\ IsState(t, k, len)
  BY <1>1, <1>6
<1>11. IsState(x, k, len)
  BY <1>9, <1>10, MergeIs
<1>12. \A r : r \in RowsOf(x) <=> r \in RowsOf(s) \/ r \in RowsOf(t)
  BY <1>9, <1>10, MergeIs
<1> HIDE DEF x
<1>13. x \notin G
  <2> SUFFICES ASSUME x \in G PROVE FALSE
    OBVIOUS
  <2>1. PICK r : r \in RowsOf(s)
    BY <1>1, <1>6
  <2>2. r \in RowsOf(x) /\ x \in H
    BY <1>12, <2>1
  <2>3. x = s
    BY <1>1, <1>6, <2>1, <2>2
  <2>4. QED
    BY <2>3
<1> HIDE DEF G
<1>14. \A a \in G : a \in H /\ a # s /\ a # t
  BY DEF G
<1>15. \A a \in H : a = s \/ a = t \/ a \in G
  BY DEF G
<1> DEFINE K == G \cup {x}
<1>16. IsFiniteSet(K) /\ Cardinality(K) = n - (m + 1)
  BY <1>8, <1>13, FS_AddElement
<1>17. \A a \in K : IsState(a, k, len) /\ RowsOf(a) # {} /\ \A r \in RowsOf(a) : r \in 1..n
  <2>1. RowsOf(x) # {} /\ \A r \in RowsOf(x) : r \in 1..n
    BY <1>1, <1>6, <1>12
  <2>2. QED
    BY <1>1, <1>11, <1>14, <2>1
<1>18. \A a, b \in K : \A r \in RowsOf(a) : r \in RowsOf(b) => a = b
  <2>1. ASSUME NEW a \in G, NEW r \in RowsOf(a), r \in RowsOf(x) PROVE FALSE
    <3>1. r \in RowsOf(s) \/ r \in RowsOf(t)
      BY <1>12, <2>1
    <3>2. QED
      BY <1>1, <1>6, <1>14, <2>1, <3>1
  <2> SUFFICES ASSUME NEW a \in K, NEW b \in K, NEW r \in RowsOf(a), r \in RowsOf(b) PROVE a = b
    OBVIOUS
  <2>2. CASE a \in G /\ b \in G
    BY <1>1, <1>14, <2>2
  <2>3. CASE a \in G /\ b = x
    BY <2>1, <2>3
  <2>4. CASE a = x /\ b \in G
    BY <2>1, <2>4
  <2>5. CASE a = x /\ b = x
    BY <2>5
  <2>6. QED
    BY <2>2, <2>3, <2>4, <2>5
<1>19. \A r \in 1..n : \E a \in K : r \in RowsOf(a)
  <2> TAKE r \in 1..n
  <2>1. PICK a \in H : r \in RowsOf(a)
    BY <1>1
  <2>2. CASE a = s \/ a = t
    <3>1. r \in RowsOf(x)
      BY <1>12, <2>1, <2>2
    <3>2. QED
      BY <3>1
  <2>3. CASE a \in G
    BY <2>1, <2>3
  <2>4. QED
    BY <1>15, <2>2, <2>3
<1> HIDE DEF K
<1>20. IsHeap(K, m + 1, n, k, len)
  BY <1>16, <1>17, <1>18, <1>19 DEF IsHeap
<1>21. TakesFirstTwo(H, s, t)
  BY <1>6, <1>7 DEF TakesFirstTwo, s, t, x, G
<1>22. QED
  BY <1>7, <1>20, <1>21 DEF K

(* The state of a row without tokens is popped after every other.          *)
LEMMA EmptyRowIsLast ==
  ASSUME NEW n \in Nat, NEW k \in Nat, k > 0, NEW len \in [1..n -> Nat], NEW m \in Nat,
         NEW H, IsHeap(H, m, n, k, len),
         NEW z \in 1..n, len[z] = 0, \A r \in 1..n : r # z => len[r] > 0,
         SingleRow(z, len[z], k) \in H,
         NEW s \in H, s # SingleRow(z, len[z], k)
  PROVE  /\ PoppedBefore(s, SingleRow(z, len[z], k))
         /\ \A r \in RowsOf(s) : r # z
<1> DEFINE c == SingleRow(z, len[z], k)
<1>1. RowsOf(c) = {z}
  <2>1. z \in Nat /\ len[z] \in Nat
    OBVIOUS
  <2>2. QED
    BY <2>1, SingleRowIs, Zenon
<1>2. /\ IsState(s, k, len) /\ RowsOf(s) # {}
      /\ \A r \in RowsOf(s) : r \in 1..n /\ r # z
  BY <1>1, Zenon DEF IsHeap
<1>3. s \in Seq(Part) /\ Len(s) = k /\ Weighs(s, len) /\ Descending(s)
  BY <1>2 DEF IsState, IsCut
<1>4. PICK i \in 1..k : \E a \in 1..Size(s[i]) : s[i].items[a] \in RowsOf(s)
  <2>1. PICK r : r \in RowsOf(s)
    BY <1>2
  <2>2. PICK i \in 1..Len(s) : \E a \in 1..Size(s[i]) : s[i].items[a] = r
    BY <2>1 DEF RowsOf
  <2>3. i \in 1..k /\ \E a \in 1..Size(s[i]) : s[i].items[a] \in RowsOf(s)
    BY <1>3, <2>1, <2>2
  <2>4. QED
    BY <2>3
<1>5. s[i].sum > 0
  BY <1>2, <1>3, <1>4, Zenon DEF Weighs
<1>6. s[1].sum \in Nat /\ s[k].sum \in Nat /\ s[i].sum \in Nat /\ 1 \in 1..k /\ k \in 1..k
  <2>1. \A j \in 1..k : s[j] \in Part
    BY <1>3, ElementOfSeq
  <2>2. \A j \in 1..k : s[j].sum \in Nat
    BY <2>1, PartIs, Zenon
  <2>3. QED
    BY <2>2
<1>7. s[1].sum >= s[i].sum /\ s[1].sum >= s[k].sum
  <2>1. \A j \in 1..k : j # 1 => ~SetLess(s[1], s[j])
    BY <1>3, <1>6 DEF Descending
  <2>2. \A j \in 1..k : j # 1 => ~(s[1].sum < s[j].sum)
    BY <2>1 DEF SetLess
  <2>3. i # 1 => ~(s[1].sum < s[i].sum)
    BY <2>2
  <2>4. k # 1 => ~(s[1].sum < s[k].sum)
    BY <1>6, <2>2, Zenon
  <2>5. QED
    BY <1>6, <2>3, <2>4, SMTT(20)
<1>8. /\ Spread(s) \in Int /\ Spread(s) = s[1].sum - s[k].sum /\ Head(s) = s[1]
  BY <1>3, SpreadIs
<1>9. c \in Seq(Part) /\ Len(c) = k
  <2>1. IsState(c, k, len)
    BY SingleRowIs
  <2>2. QED
    BY <2>1 DEF IsState, IsCut
<1>10. c[1].sum = 0 /\ c[k].sum = 0
  <2>1. \A j \in 1..k : c[j].sum = IF j = 1 THEN len[z] ELSE 0
    BY DEF SingleRow
  <2>2. QED
    BY <1>6, <2>1, Zenon
<1> HIDE DEF c
<1>11. Spread(c) = 0 /\ Head(c) = c[1]
  BY <1>9, <1>10, SpreadIs
<1>12. SetLess(Head(c), Head(s))
  BY <1>5, <1>6, <1>7, <1>8, <1>10, <1>11, SMTT(20) DEF SetLess
<1>13. PoppedBefore(s, c)
  BY <1>6, <1>7, <1>8, <1>11, <1>12 DEF PoppedBefore
<1>14. QED
  BY <1>2, <1>13 DEF c

(* The method divides the rows: every row is in one part, and in one place *)
(* of it, and no part is empty. If there are more rows than parts, one row *)
(* may be without tokens, and every part still has tokens.                 *)
LEMMA KarmarkarKarpDivides ==
  ASSUME NEW len \in Seq(Nat), Len(len) > 0, NEW k \in 1..Len(len)
  PROVE  LET s == KarmarkarKarp(len, k)
         IN  /\ IsState(s, k, len) /\ \A r : r \in RowsOf(s) <=> r \in 1..Len(len)
             /\ \A i \in 1..k : Size(s[i]) # 0
             /\ \A z \in 1..Len(len) :
                  k < Len(len) /\ (\A r \in 1..Len(len) : r # z => len[r] > 0) =>
                    \A i \in 1..k : s[i].sum > 0
<1> DEFINE n == Len(len)
           last == n - 1
           start == {SingleRow(i, len[i], k) : i \in DOMAIN len}
           heap == CHOOSE g : g = [j \in 0..last |->
                                     IF j = 0 THEN start ELSE MergeFirstTwo[g[j - 1]]]
           s == KarmarkarKarp(len, k)
<1>1. /\ n \in Nat /\ n > 0 /\ k \in Nat /\ k > 0 /\ last \in Nat /\ last + 1 = n
      /\ len \in [1..n -> Nat] /\ DOMAIN len = 1..n
  BY LenProperties
<1>2. s = First(heap[last])
  BY DEF KarmarkarKarp
<1> HIDE DEF s, n
<1>3. start = {SingleRow(i, len[i], k) : i \in 1..n}
  BY <1>1
<1> HIDE DEF start
<1>4. heap = [j \in 0..last |-> IF j = 0 THEN start ELSE MergeFirstTwo[heap[j - 1]]]
  <2> DEFINE F == [j \in 0..last |-> MergeFirstTwo]
  <2>1. PICK g : IsIterate(g, F, start, last)
    <3> HIDE DEF F, last
    <3>1. QED
      BY <1>1, IterateExists, Zenon
  <2> HIDE DEF last
  <2>2. g = [j \in 0..last |-> IF j = 0 THEN start ELSE MergeFirstTwo[g[j - 1]]]
    BY <2>1, Zenon DEF IsIterate
  <2>3. QED
    BY <2>2, Zenon
<1> HIDE DEF heap, last
<1>5. heap[0] = start /\ \A j \in 0..(last - 1) : heap[j + 1] = MergeFirstTwo[heap[j]]
  <2>1. heap[0] = start
    BY <1>1, <1>4
  <2>2. ASSUME NEW j \in 0..(last - 1) PROVE heap[j + 1] = MergeFirstTwo[heap[j]]
    <3>1. j + 1 \in 0..last /\ j + 1 # 0 /\ (j + 1) - 1 = j
      BY <1>1
    <3>2. QED
      BY <1>4, <3>1, Zenon
  <2>3. QED
    BY <2>1, <2>2
<1>6. \A j \in 0..last : IsHeap(heap[j], j, n, k, len)
  <2> DEFINE T == {j \in 0..last : IsHeap(heap[j], j, n, k, len)}
  <2>1. 0 \in T
    <3>1. IsHeap(heap[0], 0, n, k, len)
      BY <1>1, <1>3, <1>5, HeapStarts, Zenon
    <3>2. QED
      BY <1>1, <3>1
  <2>2. ASSUME NEW j \in 0..(last - 1), j \in T PROVE j + 1 \in T
    <3>1. j \in Nat /\ j < n - 1 /\ j + 1 \in 0..last
      BY <1>1 DEF last
    <3>2. IsHeap(heap[j], j, n, k, len)
      BY <2>2
    <3>3. IsHeap(MergeFirstTwo[heap[j]], j + 1, n, k, len)
      BY <1>1, <3>1, <3>2, HeapStep, Zenon
    <3>4. QED
      BY <1>5, <3>1, <3>3
  <2>3. T \in SUBSET (0..last) /\ \A j \in T : IsHeap(heap[j], j, n, k, len)
    OBVIOUS
  <2> HIDE DEF T
  <2>4. \A j \in 0..last : j \in T
    BY <1>1, <2>1, <2>2, <2>3, StepByStep, Zenon
  <2>5. QED
    BY <2>3, <2>4
<1>7. heap[last] = {s} /\ IsHeap({s}, last, n, k, len)
  <2>1. IsHeap(heap[last], last, n, k, len)
    BY <1>1, <1>6
  <2>2. IsFiniteSet(heap[last]) /\ Cardinality(heap[last]) = 1
    BY <1>1, <2>1 DEF IsHeap
  <2>3. PICK x : heap[last] = {x}
    BY <2>2, FS_Singleton, Zenon
  <2>4. IsState(x, k, len)
    BY <2>1, <2>3 DEF IsHeap
  <2>5. First({x}) \in {x}
    <3>1. x \in Seq(Part) /\ Len(x) = k
      BY <2>4 DEF IsState, IsCut
    <3>2. IsFiniteSet({x}) /\ {x} # {} /\ \A a \in {x} : a \in Seq(Part) /\ Len(a) = k
      BY <2>2, <2>3, <3>1
    <3>3. QED
      BY <1>1, <3>2, FirstIs, Zenon
  <2>6. x = s
    BY <1>2, <2>3, <2>5
  <2>7. QED
    BY <2>1, <2>3, <2>6
<1>8. IsState(s, k, len) /\ \A r : r \in RowsOf(s) <=> r \in 1..n
  BY <1>7 DEF IsHeap
<1>9. IsFiniteSet(RowsOf(s)) /\ Cardinality(RowsOf(s)) = n
  <2>1. RowsOf(s) = 1..n
    BY <1>8, Zenon
  <2>2. QED
    BY <1>1, <2>1, FS_Interval
<1>10. ASSUME \A r \in 1..n : len[r] > 0 PROVE \A i \in 1..k : s[i].sum > 0
  <2>1. \A r \in RowsOf(s) : len[r] > 0
    BY <1>8, <1>10
  <2>2. Cardinality(RowsOf(s)) >= k
    BY <1>1, <1>9 DEF n
  <2>3. QED
    BY <1>1, <1>8, <1>9, <2>1, <2>2, FullCut, Zenon
<1>11. ASSUME NEW z \in 1..n, k < n, len[z] = 0, \A r \in 1..n : r # z => len[r] > 0
       PROVE  \A i \in 1..k : s[i].sum > 0
  <2> DEFINE c == SingleRow(z, len[z], k)
(* It stays in the heap until it is the last to be merged.                 *)
  <2>1. 1 <= last
    BY <1>1, <1>11
  <2>2. \A j \in 0..(last - 1) : c \in heap[j]
    <3> DEFINE T == {j \in 0..(last - 1) : c \in heap[j]}
    <3>1. 0 \in T
      BY <1>1, <1>3, <1>5, <2>1
    <3>2. ASSUME NEW j \in 0..((last - 1) - 1), j \in T PROVE j + 1 \in T
      <4>1. /\ j \in Nat /\ j < n - 1 /\ j + 1 \in 0..(last - 1)
            /\ j \in 0..last /\ j \in 0..(last - 1) /\ n - j >= 3
        BY <1>1, <2>1 DEF last
      <4>2. PICK H : H = heap[j]
        OBVIOUS
      <4>3. IsHeap(H, j, n, k, len) /\ c \in H
        BY <1>6, <3>2, <4>1, <4>2
      <4>4. PICK a, b :
              /\ a \in H /\ b \in H /\ a # b
              /\ a = First(H) /\ b = First(H \ {a})
              /\ MergeFirstTwo[H] = (H \ {a, b}) \cup {Merge[<<a, b>>]}
        <5>1. PICK a, b : TakesFirstTwo(H, a, b)
          BY <1>1, <4>1, <4>3, HeapStep
        <5>2. QED
          BY <5>1, Zenon DEF TakesFirstTwo
      <4>5. \A x \in H : x # c => PoppedBefore(x, c)
        BY <1>1, <1>11, <4>1, <4>3, EmptyRowIsLast, Zenon
      <4>6. \A x \in H : x \in Seq(Part) /\ Len(x) = k
        BY <4>3 DEF IsHeap, IsState, IsCut
      <4> HIDE DEF c
      <4>7. a # c
        <5>1. \A x \in H : ~PoppedBefore(x, a)
          <6>1. IsFiniteSet(H) /\ H # {}
            BY <4>3 DEF IsHeap
          <6>2. QED
            BY <1>1, <4>4, <4>6, <6>1, FirstIs, Zenon
        <5>2. QED
          BY <4>4, <4>5, <5>1
      <4>8. b # c
        <5> DEFINE J == H \ {a}
        <5>1. IsFiniteSet(H) /\ Cardinality(H) = n - j
          BY <4>3 DEF IsHeap
        <5>2. IsFiniteSet(J) /\ Cardinality(J) = n - j - 1
          BY <4>4, <5>1, FS_RemoveElement, Zenon
        <5>3. J # {} /\ \A x \in J : x \in Seq(Part) /\ Len(x) = k
          BY <4>4, <4>6
        <5>4. \A x \in J : ~PoppedBefore(x, b)
          <6>1. b = First(J)
            BY <4>4
          <6> HIDE DEF J
          <6>2. QED
            BY <1>1, <5>2, <5>3, <6>1, FirstIs, Zenon
        <5>5. \E x \in J : x # b
          <6>1. J # {b}
            <7> SUFFICES ASSUME J = {b} PROVE FALSE
              OBVIOUS
            <7>1. Cardinality(J) = 1
              BY FS_Singleton, Zenon
            <7> HIDE DEF J
            <7>2. QED
              BY <1>1, <4>1, <5>2, <7>1
          <6>2. b \in J
            BY <4>4
          <6>3. QED
            BY <6>1, <6>2
        <5>6. QED
          BY <4>4, <4>5, <5>4, <5>5, Zenon
      <4>9. c \in heap[j + 1]
        BY <1>5, <4>1, <4>2, <4>3, <4>4, <4>7, <4>8, Zenon
      <4>10. QED
        BY <4>1, <4>9
    <3>3. T \in SUBSET (0..(last - 1)) /\ \A j \in T : c \in heap[j]
      OBVIOUS
    <3>4. last - 1 \in Nat
      BY <1>1, <2>1
    <3> HIDE DEF T, c
    <3>5. \A j \in 0..(last - 1) : j \in T
      BY <3>1, <3>2, <3>3, <3>4, StepByStep, Zenon
    <3>6. QED
      BY <3>3, <3>5
(* The other rows are as many as the parts, or more.                       *)
  <2>3. PICK j, H : j = last - 1 /\ H = heap[j]
    OBVIOUS
  <2>4. j \in Nat /\ j < n - 1 /\ j \in 0..last /\ j \in 0..(last - 1) /\ j + 1 = last /\ n - j = 2
    BY <1>1, <2>1, <2>3 DEF last
  <2>5. IsHeap(H, j, n, k, len) /\ c \in H
    BY <1>6, <2>2, <2>3, <2>4
  <2>6. PICK a, b :
          /\ a \in H /\ b \in H /\ a # b
          /\ a = First(H) /\ b = First(H \ {a})
          /\ MergeFirstTwo[H] = (H \ {a, b}) \cup {Merge[<<a, b>>]}
    <3> HIDE DEF c
    <3>1. PICK a, b : TakesFirstTwo(H, a, b)
      BY <1>1, <2>4, <2>5, HeapStep
    <3>2. QED
      BY <3>1, Zenon DEF TakesFirstTwo
  <2>7. s = Merge[<<a, b>>]
    <3>1. MergeFirstTwo[H] = {s}
      BY <1>5, <1>7, <2>3, <2>4, Zenon
    <3>2. QED
      BY <2>6, <3>1, Zenon
  <2>8. IsState(a, k, len) /\ IsState(b, k, len) /\ \A r \in RowsOf(a) : r \notin RowsOf(b)
    BY <2>5, <2>6, Zenon DEF IsHeap
  <2>9. ASSUME NEW x \in H, x # c PROVE \A r \in RowsOf(x) : r # z
    <3>1. x # SingleRow(z, len[z], k) /\ SingleRow(z, len[z], k) \in H /\ IsHeap(H, j, n, k, len)
      BY <2>5, <2>9
    <3>2. n \in Nat /\ k \in Nat /\ k > 0 /\ len \in [1..n -> Nat] /\ j \in Nat
      BY <1>1, <2>4
    <3>3. /\ PoppedBefore(x, SingleRow(z, len[z], k))
          /\ \A r \in RowsOf(x) : r # z
      BY <1>11, <3>1, <3>2, EmptyRowIsLast, SMTT(20)
    <3>4. QED
      BY <3>3
  <2>10. \A x \in H : x = a \/ x = b
    <3>1. IsFiniteSet(H) /\ Cardinality(H) = 2
      BY <2>4, <2>5 DEF IsHeap
    <3>2. IsFiniteSet(H \ {a}) /\ Cardinality(H \ {a}) = 1
      <4>1. a \in H
        BY <2>6
      <4>2. IsFiniteSet(H \ {a}) /\ Cardinality(H \ {a}) = Cardinality(H) - 1
        BY <3>1, <4>1, FS_RemoveElement, Zenon
      <4>3. QED
        BY <3>1, <4>2
    <3>3. PICK y : H \ {a} = {y}
      BY <3>2, FS_Singleton, Zenon
    <3>4. QED
      BY <2>6, <3>3
  <2>11. ASSUME NEW x \in H, x # c, NEW y \in H, y = c,
                IsState(x, k, len), \A r : r \in RowsOf(s) <=> r \in RowsOf(x) \/ r \in RowsOf(y)
         PROVE  \A i \in 1..k : x[i].sum > 0
    <3>1. RowsOf(c) = {z}
      <4>1. z \in Nat /\ len[z] \in Nat
        BY <1>1
      <4>2. QED
        BY <1>1, <4>1, SingleRowIs, Zenon
    <3>2. RowsOf(x) = (1..n) \ {z}
      <4>1. \A r \in RowsOf(x) : r # z
        BY <2>9, <2>11
      <4> HIDE DEF c
      <4>2. QED
        BY <1>8, <2>11, <3>1, <4>1
    <3>3. IsFiniteSet(1..n) /\ Cardinality(1..n) = n
      BY <1>1, FS_Interval
    <3>4. IsFiniteSet(RowsOf(x)) /\ Cardinality(RowsOf(x)) = n - 1
      BY <3>2, <3>3, FS_RemoveElement, ZenonT(40)
    <3>5. Cardinality(RowsOf(x)) >= k
      BY <1>1, <1>11, <3>4
    <3>6. \A r \in RowsOf(x) : len[r] > 0
      BY <1>11, <3>2
    <3>7. QED
      BY <1>1, <2>11, <3>4, <3>5, <3>6, FullCut, Zenon
  <2>12. \A r : r \in RowsOf(s) <=> r \in RowsOf(a) \/ r \in RowsOf(b)
    BY <1>1, <2>7, <2>8, MergeIs, Zenon
  <2> HIDE DEF c
  <2>13. CASE b = c
    <3>1. \A i \in 1..k : a[i].sum > 0
      BY <2>6, <2>8, <2>11, <2>12, <2>13, Zenon
    <3>2. QED
      BY <1>1, <2>7, <2>8, <3>1, MergeIs, Zenon
  <2>14. CASE a = c
    <3>1. \A i \in 1..k : b[i].sum > 0
      BY <2>6, <2>8, <2>11, <2>12, <2>14, Zenon
    <3>2. QED
      BY <1>1, <2>7, <2>8, <3>1, MergeIs, Zenon
  <2>15. QED
    BY <2>5, <2>10, <2>13, <2>14
<1>12. \A i \in 1..k : Size(s[i]) # 0
  <2>1. Cardinality(RowsOf(s)) >= k
    BY <1>1, <1>9 DEF n
  <2>2. QED
    BY <1>1, <1>8, <1>9, <2>1, NoEmptyPart, Zenon
<1>13. ASSUME NEW z \in 1..n, k < n, \A r \in 1..n : r # z => len[r] > 0
       PROVE  \A i \in 1..k : s[i].sum > 0
  <2>1. CASE len[z] = 0
    BY <1>11, <1>13, <2>1
  <2>2. CASE len[z] # 0
    <3>1. len[z] \in Nat
      BY <1>1
    <3>2. \A r \in 1..n : len[r] > 0
      BY <1>13, <2>2, <3>1
    <3>3. QED
      BY <1>10, <3>2
  <2>3. QED
    BY <2>1, <2>2
<1>14. QED
  BY <1>8, <1>12, <1>13 DEF s, n

(* What a division of rows is: every row is in one place of one part, and  *)
(* no part is empty. Whether every part has a row with tokens.             *)
Divides(parts, k, n) ==
  /\ parts \in Seq(Seq(Nat)) /\ Len(parts) = k
  /\ \A i, j \in 1..k : \A a \in 1..Len(parts[i]), b \in 1..Len(parts[j]) :
       parts[i][a] = parts[j][b] => i = j /\ a = b
  /\ \A i \in 1..k : \A a \in 1..Len(parts[i]) : parts[i][a] \in 1..n
  /\ \A r \in 1..n : \E i \in 1..k : \E a \in 1..Len(parts[i]) : parts[i][a] = r
  /\ \A i \in 1..k : Len(parts[i]) > 0

EachHasTokens(parts, k, len) ==
  \A i \in 1..k : \E a \in 1..Len(parts[i]) : len[parts[i][a]] > 0

LEMMA IncreasingIs ==
  ASSUME NEW items \in Seq(Nat)
  PROVE  /\ Increasing(items) \in Seq(Nat) /\ Len(Increasing(items)) = Len(items)
         /\ Rearranges(Increasing(items), items, Len(items))
<1> DEFINE I == ToSet(items)
           R == {p \in Pairs(items) : p[1] < p[2]}
<1>1. \A x \in I : x \in Nat
  <2>1. DOMAIN items = 1..Len(items) /\ \A j \in 1..Len(items) : items[j] \in Nat
    BY LenProperties, ElementOfSeq
  <2>2. QED
    BY <2>1 DEF ToSet
<1>2. \A x, y \in I : <<x, y>> \in R <=> x < y
  BY DEF Pairs
<1>3. Ordering(I, R)
  <2> HIDE DEF I, R
  <2>1. QED
    BY <1>1, <1>2 DEF Ordering
<1>4. \A Q : Ordering(ToSet(items), Q) =>
        /\ Sorted(items, Q) \in Seq(Nat) /\ Len(Sorted(items, Q)) = Len(items)
        /\ InOrder(Sorted(items, Q), Q)
        /\ Rearranges(Sorted(items, Q), items, Len(items))
  BY SortedIs
<1>5. Increasing(items) = Sorted(items, R)
  BY DEF Increasing
<1> HIDE DEF R
<1>6. QED
  BY <1>3, <1>4, <1>5

LEMMA PartitionsDivide ==
  ASSUME NEW k \in Nat, NEW n \in Nat, NEW len, NEW s, IsState(s, k, len),
         \A r : r \in RowsOf(s) <=> r \in 1..n, \A i \in 1..k : Size(s[i]) # 0
  PROVE  /\ Divides(Partitions[s], k, n)
         /\ (\A i \in 1..k : s[i].sum > 0) => EachHasTokens(Partitions[s], k, len)
<1> DEFINE q == Partitions[s]
<1>1. s \in Seq(Part) /\ Len(s) = k /\ DOMAIN s = 1..k /\ Apart(s) /\ Weighs(s, len)
  <2>1. s \in Seq(Part) /\ Len(s) = k /\ Apart(s) /\ Weighs(s, len)
    BY DEF IsState, IsCut
  <2>2. QED
    BY <2>1, LenProperties
<1>2. q = [i \in 1..k |-> Increasing(s[i].items)]
  <2>1. s \in States
    BY <1>1 DEF States, Part
  <2>2. QED
    BY <1>1, <2>1 DEF Partitions
<1> HIDE DEF q
<1>3. \A i \in 1..k : /\ q[i] \in Seq(Nat) /\ Len(q[i]) = Size(s[i])
                      /\ Rearranges(q[i], s[i].items, Size(s[i]))
  <2> TAKE i \in 1..k
  <2>1. PICK items : items = s[i].items
    OBVIOUS
  <2>2. items \in Seq(Nat) /\ Size(s[i]) = Len(items)
    <3>1. s[i] \in Part
      BY <1>1, ElementOfSeq
    <3>2. QED
      BY <2>1, <3>1, PartIs DEF Size
  <2>3. /\ Increasing(items) \in Seq(Nat) /\ Len(Increasing(items)) = Len(items)
        /\ Rearranges(Increasing(items), items, Len(items))
    BY <2>2, IncreasingIs
  <2>4. q[i] = Increasing(items)
    BY <1>2, <2>1
  <2>5. QED
    BY <2>1, <2>2, <2>3, <2>4
<1>4. q \in Seq(Seq(Nat)) /\ Len(q) = k
  <2>1. q \in [1..k -> Seq(Nat)]
    BY <1>2, <1>3
  <2>2. QED
    BY <2>1, FunctionIsSequence
(* The places of the items of a part.                                      *)
<1>5. \A i \in 1..k : \E p \in [1..Size(s[i]) -> 1..Size(s[i])] :
        /\ \A b \in 1..Size(s[i]) : \E a \in 1..Size(s[i]) : p[a] = b
        /\ \A a, b \in 1..Size(s[i]) : p[a] = p[b] => a = b
        /\ \A a \in 1..Size(s[i]) : q[i][a] = s[i].items[p[a]]
  BY <1>3, Zenon DEF Rearranges
<1>6. \A i \in 1..k : \A a \in 1..Len(q[i]) : \E b \in 1..Size(s[i]) : q[i][a] = s[i].items[b]
  <2> SUFFICES ASSUME NEW i \in 1..k, NEW a \in 1..Len(q[i])
               PROVE  \E b \in 1..Size(s[i]) : q[i][a] = s[i].items[b]
    OBVIOUS
  <2>1. PICK p \in [1..Size(s[i]) -> 1..Size(s[i])] : \A c \in 1..Size(s[i]) : q[i][c] = s[i].items[p[c]]
    BY <1>5
  <2>2. a \in 1..Size(s[i])
    BY <1>3
  <2>3. QED
    BY <2>1, <2>2, Zenon
<1>7. \A i \in 1..k : \A b \in 1..Size(s[i]) : \E a \in 1..Len(q[i]) : q[i][a] = s[i].items[b]
  <2> SUFFICES ASSUME NEW i \in 1..k, NEW b \in 1..Size(s[i])
               PROVE  \E a \in 1..Size(s[i]) : q[i][a] = s[i].items[b]
    BY <1>3, Zenon
  <2>1. PICK p \in [1..Size(s[i]) -> 1..Size(s[i])] :
          /\ \A d \in 1..Size(s[i]) : \E c \in 1..Size(s[i]) : p[c] = d
          /\ \A c \in 1..Size(s[i]) : q[i][c] = s[i].items[p[c]]
    BY <1>5, ZenonT(40)
  <2>2. PICK a \in 1..Size(s[i]) : p[a] = b
    BY <2>1
  <2>3. QED
    BY <2>1, <2>2, Zenon
<1>8. \A i \in 1..k : \A b \in 1..Size(s[i]) : s[i].items[b] \in RowsOf(s)
  <2> TAKE i \in 1..k
  <2>1. PICK items : items = s[i].items
    OBVIOUS
  <2>2. items \in Seq(Nat) /\ Size(s[i]) = Len(items)
    <3>1. s[i] \in Part
      BY <1>1, ElementOfSeq
    <3>2. QED
      BY <2>1, <3>1, PartIs DEF Size
  <2>3. \A b \in 1..Len(items) : items[b] \in Nat
    BY <2>2, ElementOfSeq
  <2>4. QED
    BY <1>1, <2>1, <2>2, <2>3, Zenon DEF RowsOf
<1>9. ASSUME NEW i \in 1..k, NEW j \in 1..k, NEW a \in 1..Len(q[i]), NEW b \in 1..Len(q[j]),
             q[i][a] = q[j][b]
      PROVE  i = j /\ a = b
  <2>1. PICK x \in 1..Size(s[i]) : q[i][a] = s[i].items[x]
    BY <1>6
  <2>2. PICK y \in 1..Size(s[j]) : q[j][b] = s[j].items[y]
    BY <1>6
  <2>3. \A i1, j1 \in 1..k : \A a1 \in 1..Size(s[i1]), b1 \in 1..Size(s[j1]) :
          s[i1].items[a1] = s[j1].items[b1] => i1 = j1 /\ a1 = b1
    BY <1>1 DEF Apart
  <2>4. s[i].items[x] = s[j].items[y]
    BY <1>9, <2>1, <2>2, Zenon
  <2>5. i = j
    BY ONLY <2>3, <2>4, i \in 1..k, j \in 1..k, x \in 1..Size(s[i]), y \in 1..Size(s[j])
  <2>6. PICK p \in [1..Size(s[i]) -> 1..Size(s[i])] :
          /\ \A d \in 1..Size(s[i]) : \E c \in 1..Size(s[i]) : p[c] = d
          /\ \A c, d \in 1..Size(s[i]) : p[c] = p[d] => c = d
          /\ \A c \in 1..Size(s[i]) : q[i][c] = s[i].items[p[c]]
    BY <1>5, Zenon
  <2>7. a \in 1..Size(s[i]) /\ b \in 1..Size(s[i])
    BY <1>3, <2>5, Zenon
  <2>8. PICK c \in 1..Size(s[i]), d \in 1..Size(s[i]) : c = p[a] /\ d = p[b]
    BY <2>6, <2>7, Zenon
  <2>9. s[i].items[c] = s[i].items[d]
    BY <1>9, <2>5, <2>6, <2>7, <2>8, Zenon
  <2>10. c = d
    BY ONLY <2>3, <2>9, i \in 1..k, c \in 1..Size(s[i]), d \in 1..Size(s[i]), SMTT(20)
  <2>11. p[a] = p[b]
    BY <2>8, <2>10
  <2>12. \A e, f \in 1..Size(s[i]) : p[e] = p[f] => e = f
    BY <2>6
  <2>13. a = b
    BY ONLY <2>7, <2>11, <2>12
  <2>14. QED
    BY <2>5, <2>13
<1>10. \A i \in 1..k : \A a \in 1..Len(q[i]) : q[i][a] \in 1..n
  <2> SUFFICES ASSUME NEW i \in 1..k, NEW a \in 1..Len(q[i]) PROVE q[i][a] \in 1..n
    OBVIOUS
  <2>1. PICK b \in 1..Size(s[i]) : q[i][a] = s[i].items[b]
    BY <1>6, Zenon
  <2>2. s[i].items[b] \in RowsOf(s)
    BY <1>8
  <2>3. QED
    BY <2>1, <2>2
<1>11. \A r \in 1..n : \E i \in 1..k : \E a \in 1..Len(q[i]) : q[i][a] = r
  <2> TAKE r \in 1..n
  <2>1. PICK i \in 1..k : \E b \in 1..Size(s[i]) : s[i].items[b] = r
    BY <1>1, Zenon DEF RowsOf
  <2>2. QED
    BY <1>7, <2>1, SMTT(20)
<1>12. ASSUME \A i \in 1..k : s[i].sum > 0
       PROVE  EachHasTokens(q, k, len)
  <2> SUFFICES ASSUME NEW i \in 1..k PROVE \E a \in 1..Len(q[i]) : len[q[i][a]] > 0
    BY DEF EachHasTokens
  <2>1. PICK b \in 1..Size(s[i]) : len[s[i].items[b]] > 0
    BY <1>1, <1>12 DEF Weighs
  <2>2. PICK a \in 1..Len(q[i]) : q[i][a] = s[i].items[b]
    BY <1>7
  <2>3. QED
    BY <2>1, <2>2
<1>13. \A i \in 1..k : Len(q[i]) > 0
  <2> TAKE i \in 1..k
  <2>1. q[i] \in Seq(Nat) /\ Len(q[i]) # 0
    BY <1>3
  <2>2. Len(q[i]) \in Nat
    BY <2>1, LenProperties
  <2>3. QED
    BY <2>1, <2>2
<1>14. Divides(q, k, n)
  BY <1>4, <1>9, <1>10, <1>11, <1>13 DEF Divides
<1>15. QED
  BY <1>12, <1>14 DEF q

(* The order of the parts.                                                 *)
LEMMA WorkIs ==
  ASSUME NEW n \in Nat, NEW len \in [1..n -> Nat], NEW part \in Seq(Nat),
         \A a \in 1..Len(part) : part[a] \in 1..n
  PROVE  Work(part, len) \in Nat
<1> DEFINE f == [j \in DOMAIN part |-> len[part[j]] * len[part[j]]]
<1>1. DOMAIN part = 1..Len(part) /\ Len(part) \in Nat
  BY LenProperties
<1>2. \A j \in 1..Len(part) : len[part[j]] * len[part[j]] \in Nat
  <2> TAKE j \in 1..Len(part)
  <2>1. PICK x : x = len[part[j]]
    OBVIOUS
  <2>2. x \in Nat
    BY <2>1
  <2>3. x * x \in Nat
    BY <2>2
  <2>4. QED
    BY <2>1, <2>3
<1>3. f \in [1..Len(part) -> Nat]
  BY <1>1, <1>2
<1> HIDE DEF f
<1>4. f \in Seq(Nat)
  BY <1>1, <1>3, FunctionIsSequence, Zenon
<1>5. Total(f) \in Nat
  BY <1>4, TotalIs
<1>6. QED
  BY <1>5 DEF Work, f

LEMMA PartsOrdered ==
  ASSUME NEW k \in Nat, NEW n \in Nat, NEW len \in [1..n -> Nat], NEW q, Divides(q, k, n)
  PROVE  Ordering(ToSet(q), {p \in Pairs(q) : MoreWork(p[1], p[2], len)})
<1> DEFINE I == ToSet(q)
           R == {p \in Pairs(q) : MoreWork(p[1], p[2], len)}
<1>1. /\ q \in Seq(Seq(Nat)) /\ Len(q) = k
      /\ \A i \in 1..k : \A a \in 1..Len(q[i]) : q[i][a] \in 1..n
      /\ \A i \in 1..k : Len(q[i]) > 0
  BY Zenon DEF Divides
<1>2. \A i \in 1..k : Work(q[i], len) \in Nat /\ Head(q[i]) \in Nat
  <2> TAKE i \in 1..k
  <2>1. PICK x : x = q[i]
    OBVIOUS
  <2>2. x \in Seq(Nat) /\ \A a \in 1..Len(x) : x[a] \in 1..n
    <3>1. q[i] \in Seq(Nat)
      BY <1>1, ElementOfSeq
    <3>2. QED
      BY <1>1, <2>1, <3>1
  <2>3. x # <<>>
    <3>1. Len(x) > 0
      BY <1>1, <2>1, Zenon
    <3>2. Len(<<>>) = 0
      OBVIOUS
    <3>3. QED
      BY <3>1, <3>2
  <2>4. Head(x) \in Nat
    BY <2>2, <2>3
  <2>5. Work(x, len) \in Nat
    BY <2>2, WorkIs, Zenon
  <2>6. QED
    BY <2>1, <2>4, <2>5
<1>3. \A x \in I : Work(x, len) \in Nat /\ Head(x) \in Nat
  <2>1. DOMAIN q = 1..k
    BY <1>1, LenProperties
  <2>2. QED
    BY <1>2, <2>1 DEF ToSet
<1>4. \A x, y \in I : <<x, y>> \in R <=> MoreWork(x, y, len)
  BY DEF Pairs
<1> HIDE DEF I, R
<1>5. ASSUME NEW x \in I, NEW y \in I, <<x, y>> \in R PROVE <<y, x>> \notin R
  <2>1. Work(x, len) \in Nat /\ Head(x) \in Nat /\ Work(y, len) \in Nat /\ Head(y) \in Nat
    BY <1>3
  <2>2. MoreWork(x, y, len)
    BY <1>4, <1>5
  <2>3. ~MoreWork(y, x, len)
    BY <2>1, <2>2 DEF MoreWork
  <2>4. QED
    BY <1>4, <2>3
<1>6. ASSUME NEW x \in I, NEW y \in I, NEW z \in I, <<x, y>> \notin R, <<y, z>> \notin R
      PROVE  <<x, z>> \notin R
  <2>1. /\ Work(x, len) \in Nat /\ Head(x) \in Nat /\ Work(y, len) \in Nat /\ Head(y) \in Nat
        /\ Work(z, len) \in Nat /\ Head(z) \in Nat
    BY <1>3
  <2>2. ~MoreWork(x, y, len) /\ ~MoreWork(y, z, len)
    BY <1>4, <1>6
  <2>3. ~MoreWork(x, z, len)
    BY <2>1, <2>2 DEF MoreWork
  <2>4. QED
    BY <1>4, <2>3
<1>7. QED
  BY <1>5, <1>6 DEF Ordering, I, R

LEMMA DividesRearranged ==
  ASSUME NEW k \in Nat, NEW n \in Nat, NEW len, NEW q, Divides(q, k, n),
         NEW v \in Seq(Seq(Nat)), Len(v) = k, Rearranges(v, q, k)
  PROVE  Divides(v, k, n) /\ (EachHasTokens(q, k, len) => EachHasTokens(v, k, len))
<1>1. PICK p \in [1..k -> 1..k] : /\ \A j \in 1..k : \E i \in 1..k : p[i] = j
                                  /\ \A i, j \in 1..k : p[i] = p[j] => i = j
                                  /\ \A i \in 1..k : v[i] = q[p[i]]
  BY Zenon DEF Rearranges
<1>2. /\ \A i, j \in 1..k : \A a \in 1..Len(q[i]), b \in 1..Len(q[j]) :
           q[i][a] = q[j][b] => i = j /\ a = b
      /\ \A i \in 1..k : \A a \in 1..Len(q[i]) : q[i][a] \in 1..n
      /\ \A r \in 1..n : \E i \in 1..k : \E a \in 1..Len(q[i]) : q[i][a] = r
      /\ \A i \in 1..k : Len(q[i]) > 0
  BY DEF Divides
<1>3. \A i \in 1..k : \E x \in 1..k : x = p[i] /\ v[i] = q[x]
  BY <1>1, Zenon
<1>4. ASSUME NEW i \in 1..k, NEW j \in 1..k, NEW a \in 1..Len(v[i]), NEW b \in 1..Len(v[j]),
             v[i][a] = v[j][b]
      PROVE  i = j /\ a = b
  <2>1. PICK x \in 1..k : x = p[i] /\ v[i] = q[x]
    BY <1>3
  <2>2. PICK y \in 1..k : y = p[j] /\ v[j] = q[y]
    BY <1>3
  <2>3. a \in 1..Len(q[x]) /\ b \in 1..Len(q[y]) /\ q[x][a] = q[y][b]
    BY <1>4, <2>1, <2>2
  <2>4. \A i1, j1 \in 1..k : \A a1 \in 1..Len(q[i1]), b1 \in 1..Len(q[j1]) :
           q[i1][a1] = q[j1][b1] => i1 = j1 /\ a1 = b1
    BY <1>2, Zenon
  <2>5. x = y /\ a = b
    BY ONLY <2>3, <2>4, x \in 1..k, y \in 1..k, ZenonT(40)
  <2>6. \A i1, j1 \in 1..k : p[i1] = p[j1] => i1 = j1
    BY <1>1
  <2>7. p[i] = p[j]
    BY <2>1, <2>2, <2>5
  <2>8. i = j
    BY ONLY <2>6, <2>7, i \in 1..k, j \in 1..k
  <2>9. QED
    BY <2>5, <2>8
<1>5. \A i \in 1..k : \A a \in 1..Len(v[i]) : v[i][a] \in 1..n
  <2> TAKE i \in 1..k
  <2>1. PICK x \in 1..k : x = p[i] /\ v[i] = q[x]
    BY <1>3
  <2>2. QED
    BY <1>2, <2>1, Zenon
<1>6. \A r \in 1..n : \E i \in 1..k : \E a \in 1..Len(v[i]) : v[i][a] = r
  <2> TAKE r \in 1..n
  <2>1. PICK x \in 1..k : \E a \in 1..Len(q[x]) : q[x][a] = r
    BY <1>2, Zenon
  <2>2. PICK i \in 1..k : p[i] = x
    BY <1>1
  <2>3. v[i] = q[x]
    BY <1>1, <2>2, Zenon
  <2>4. QED
    BY <2>1, <2>3, Zenon
<1>7. \A i \in 1..k : Len(v[i]) > 0
  <2> TAKE i \in 1..k
  <2>1. PICK x \in 1..k : x = p[i] /\ v[i] = q[x]
    BY <1>3, Zenon
  <2>2. QED
    BY <1>2, <2>1, Zenon
<1>8. EachHasTokens(q, k, len) => EachHasTokens(v, k, len)
  <2> SUFFICES ASSUME EachHasTokens(q, k, len), NEW i \in 1..k
               PROVE  \E a \in 1..Len(v[i]) : len[v[i][a]] > 0
    BY DEF EachHasTokens
  <2>1. PICK x \in 1..k : x = p[i] /\ v[i] = q[x]
    BY <1>3, Zenon
  <2>2. QED
    BY <2>1 DEF EachHasTokens
<1>9. QED
  BY <1>4, <1>5, <1>6, <1>7, <1>8, Zenon DEF Divides

(* rearrange_micro_batches: every row of the mini-batch is in one place of *)
(* one micro-batch and no micro-batch is without rows, so the assertions   *)
(* of get_seqlen_balanced_partitions hold. None is without tokens, if at   *)
(* most one row is and fewer micro-batches than rows are asked for.        *)
THEOREM MicroBatchesDivide ==
  ASSUME NEW len \in Seq(Nat), Len(len) > 0, NEW k \in 1..Len(len)
  PROVE  /\ Divides(RearrangeMicroBatches(len, k), k, Len(len))
         /\ \A z \in 1..Len(len) :
              k < Len(len) /\ (\A r \in 1..Len(len) : r # z => len[r] > 0) =>
                EachHasTokens(RearrangeMicroBatches(len, k), k, len)
<1> DEFINE n == Len(len)
           s == KarmarkarKarp(len, k)
           q == Partitions[s]
           OneWithout == k < n /\ \E z \in 1..n : \A r \in 1..n : r # z => len[r] > 0
<1>1. n \in Nat /\ k \in Nat /\ k > 0 /\ len \in [1..n -> Nat]
  BY LenProperties
<1>2. /\ IsState(s, k, len) /\ \A r : r \in RowsOf(s) <=> r \in 1..n
      /\ \A i \in 1..k : Size(s[i]) # 0
  BY KarmarkarKarpDivides
<1>3. OneWithout => \A i \in 1..k : s[i].sum > 0
  <2>1. \A z \in 1..n : k < n /\ (\A r \in 1..n : r # z => len[r] > 0) =>
          \A i \in 1..k : s[i].sum > 0
    BY KarmarkarKarpDivides
  <2> HIDE DEF s, n
  <2>2. QED
    BY <2>1
<1> HIDE DEF n, s, OneWithout
<1>4. Divides(q, k, n) /\ (OneWithout => EachHasTokens(q, k, len))
  <2>1. /\ Divides(Partitions[s], k, n)
        /\ (\A i \in 1..k : s[i].sum > 0) => EachHasTokens(Partitions[s], k, len)
    BY <1>1, <1>2, PartitionsDivide
  <2>2. QED
    BY <1>3, <2>1
<1> HIDE DEF q
<1>5. q \in Seq(Seq(Nat)) /\ Len(q) = k
  BY <1>4 DEF Divides
<1> DEFINE R == {p \in Pairs(q) : MoreWork(p[1], p[2], len)}
<1>6. RearrangeMicroBatches(len, k) = Sorted(q, R)
  BY <1>5 DEF RearrangeMicroBatches, q, s
<1>7. Ordering(ToSet(q), R)
  BY <1>1, <1>4, PartsOrdered, Zenon
<1> HIDE DEF R
<1>8. Sorted(q, R) \in Seq(Seq(Nat)) /\ Len(Sorted(q, R)) = k /\ Rearranges(Sorted(q, R), q, k)
  <2>1. \A Q : Ordering(ToSet(q), Q) =>
          /\ Sorted(q, Q) \in Seq(Seq(Nat)) /\ Len(Sorted(q, Q)) = Len(q)
          /\ InOrder(Sorted(q, Q), Q)
          /\ Rearranges(Sorted(q, Q), q, Len(q))
    BY <1>5, SortedIs
  <2>2. QED
    BY <1>5, <1>7, <2>1
<1>9. /\ Divides(Sorted(q, R), k, n)
      /\ EachHasTokens(q, k, len) => EachHasTokens(Sorted(q, R), k, len)
  BY <1>1, <1>4, <1>8, DividesRearranged
<1> DEFINE v == RearrangeMicroBatches(len, k)
<1>10. Divides(v, k, n) /\ (OneWithout => EachHasTokens(v, k, len))
  BY <1>4, <1>6, <1>9
<1> HIDE DEF v
<1>11. \A z \in 1..n : k < n /\ (\A r \in 1..n : r # z => len[r] > 0) => EachHasTokens(v, k, len)
  BY <1>10, Zenon DEF OneWithout
<1>12. QED
  BY <1>10, <1>11 DEF n, v

(* What was computed per micro-batch, put end to end: an entry for every   *)
(* row, each once.                                                         *)
PlacesApart(parts) ==
  \A i, j \in 1..Len(parts) : \A a \in 1..Len(parts[i]), b \in 1..Len(parts[j]) :
    parts[i][a] = parts[j][b] => i = j /\ a = b

HoldsParts(u, parts, i) ==
  /\ u \in Seq(Nat)
  /\ \A j \in 1..Len(u) : \E m \in 1..i : \E a \in 1..Len(parts[m]) : u[j] = parts[m][a]
  /\ \A m \in 1..i : \A a \in 1..Len(parts[m]) : \E j \in 1..Len(u) : u[j] = parts[m][a]
  /\ \A j, l \in 1..Len(u) : u[j] = u[l] => j = l

LEMMA PartsExtended ==
  ASSUME NEW parts \in Seq(Seq(Nat)), PlacesApart(parts), NEW i \in 0..(Len(parts) - 1),
         NEW u, HoldsParts(u, parts, i), NEW p, p = parts[i + 1]
  PROVE  HoldsParts(u \o p, parts, i + 1)
<1> DEFINE v == u \o p
<1>1. /\ i \in Nat /\ i + 1 \in 1..Len(parts) /\ p \in Seq(Nat) /\ u \in Seq(Nat)
      /\ \A m \in 1..i : m \in 1..Len(parts) /\ m \in 1..(i + 1) /\ m # i + 1
      /\ \A m \in 1..(i + 1) : m \in 1..i \/ m = i + 1
  <2>1. Len(parts) \in Nat /\ i + 1 \in 1..Len(parts)
    BY LenProperties
  <2>2. p \in Seq(Nat)
    BY <2>1, ElementOfSeq
  <2>3. QED
    BY <2>1, <2>2 DEF HoldsParts
<1>2. /\ v \in Seq(Nat) /\ Len(v) = Len(u) + Len(p) /\ Len(u) \in Nat /\ Len(p) \in Nat
      /\ \A j \in 1..Len(u) : v[j] = u[j]
      /\ \A j \in 1..Len(p) : v[Len(u) + j] = p[j]
  BY <1>1, ConcatElements, LenProperties
<1> HIDE DEF v
<1>3. \A j \in 1..Len(v) : \/ j \in 1..Len(u) /\ v[j] = u[j]
                           \/ \E a \in 1..Len(p) : j = Len(u) + a /\ v[j] = p[a]
  <2> TAKE j \in 1..Len(v)
  <2>1. CASE j <= Len(u)
    BY <1>2, <2>1, SMTT(20)
  <2>2. CASE ~(j <= Len(u))
    <3>1. j - Len(u) \in 1..Len(p) /\ j = Len(u) + (j - Len(u))
      BY <1>2, <2>2
    <3>2. QED
      BY <1>2, <3>1, Zenon
  <2>3. QED
    BY <2>1, <2>2, Zenon
<1>4. \A j \in 1..Len(v) : \E m \in 1..(i + 1) : \E a \in 1..Len(parts[m]) : v[j] = parts[m][a]
  <2> TAKE j \in 1..Len(v)
  <2>1. CASE j \in 1..Len(u) /\ v[j] = u[j]
    <3>1. PICK m \in 1..i : \E a \in 1..Len(parts[m]) : u[j] = parts[m][a]
      BY <2>1, Zenon DEF HoldsParts
    <3>2. QED
      BY <1>1, <2>1, <3>1, Zenon
  <2>2. CASE \E a \in 1..Len(p) : v[j] = p[a]
    <3>1. i + 1 \in 1..(i + 1)
      BY <1>1
    <3>2. QED
      BY <2>2, <3>1
  <2>3. QED
    BY <1>3, <2>1, <2>2
<1>5. \A m \in 1..(i + 1) : \A a \in 1..Len(parts[m]) : \E j \in 1..Len(v) : v[j] = parts[m][a]
  <2> TAKE m \in 1..(i + 1)
  <2> TAKE a \in 1..Len(parts[m])
  <2>1. CASE m \in 1..i
    <3>1. PICK j \in 1..Len(u) : u[j] = parts[m][a]
      BY <2>1 DEF HoldsParts
    <3>2. j \in 1..Len(v) /\ v[j] = u[j]
      BY <1>2
    <3>3. QED
      BY <3>1, <3>2
  <2>2. CASE m = i + 1
    <3>1. a \in 1..Len(p) /\ p[a] = parts[m][a]
      BY <2>2
    <3>2. v[Len(u) + a] = p[a]
      BY <1>2, <3>1, Zenon
    <3>3. Len(u) + a \in 1..Len(v)
      <4>1. a \in Nat /\ 1 <= a /\ a <= Len(p)
        BY <1>2, <3>1
      <4>2. QED
        BY ONLY <1>2, <4>1
    <3>4. QED
      BY <3>1, <3>2, <3>3
  <2>3. QED
    BY <1>1, <2>1, <2>2
<1>6. ASSUME NEW j \in 1..Len(u), NEW a \in 1..Len(p)
      PROVE  u[j] # p[a]
  <2>1. PICK m \in 1..i : \E b \in 1..Len(parts[m]) : u[j] = parts[m][b]
    BY Zenon DEF HoldsParts
  <2>2. m \in 1..Len(parts) /\ m # i + 1
    BY <1>1
  <2>3. QED
    BY <1>1, <2>1, <2>2, Zenon DEF PlacesApart
<1>7. ASSUME NEW j \in 1..Len(v), NEW l \in 1..Len(v), v[j] = v[l]
      PROVE  j = l
  <2>1. CASE j \in 1..Len(u) /\ l \in 1..Len(u)
    BY <1>2, <1>7, <2>1, ZenonT(40) DEF HoldsParts
  <2>2. ASSUME NEW a \in 1..Len(p), j = Len(u) + a, v[j] = p[a],
               NEW b \in 1..Len(p), l = Len(u) + b, v[l] = p[b]
        PROVE  j = l
    <3>1. p[a] = p[b]
      BY <1>7, <2>2, Zenon
    <3>2. a = b
      BY <1>1, <3>1 DEF PlacesApart
    <3>3. QED
      BY <2>2, <3>2
  <2>3. ASSUME NEW a \in 1..Len(p), v[l] = p[a], j \in 1..Len(u), v[j] = u[j]
        PROVE  FALSE
    BY <1>6, <1>7, <2>3
  <2>4. ASSUME NEW a \in 1..Len(p), v[j] = p[a], l \in 1..Len(u), v[l] = u[l]
        PROVE  FALSE
    BY <1>6, <1>7, <2>4, Zenon
  <2>5. QED
    BY <1>3, <2>1, <2>2, <2>3, <2>4, Zenon
<1>8. QED
  BY <1>2, <1>4, <1>5, <1>7, Zenon DEF HoldsParts, v

LEMMA FlattenPlaces ==
  ASSUME NEW parts \in Seq(Seq(Nat)), Len(parts) > 0, PlacesApart(parts)
  PROVE  HoldsParts(FlattenSeq(parts), parts, Len(parts))
<1> DEFINE n == Len(parts)
<1>1. n \in Nat /\ n # 0 /\ n >= 1
  BY LenProperties
<1>2. PICK g : g = [i \in 1..n |-> IF i = 1 THEN parts[i] ELSE g[i - 1] \o parts[i]]
  <2> HIDE DEF n
  <2>1. QED
    BY <1>1, PartsExist, Zenon
<1>3. FlattenSeq(parts) = g[n]
  BY <1>1, <1>2, SameAssumption, Dispatch!FlattenByParts, Zenon DEF FlattenSeq, Dispatch!FlattenSeq
<1> HIDE DEF n
<1> DEFINE T == {i \in 0..(n - 1) : HoldsParts(g[i + 1], parts, i + 1)}
<1>4. 0 \in T
  <2>1. HoldsParts(<<>>, parts, 0)
    <3>1. <<>> \in Seq(Nat) /\ Len(<<>>) = 0 /\ 1..0 = {}
      BY EmptySeq
    <3>2. QED
      BY <3>1 DEF HoldsParts
  <2>2. 0 \in 0..(Len(parts) - 1) /\ 0 + 1 = 1
    BY <1>1 DEF n
  <2>3. HoldsParts(<<>> \o parts[1], parts, 1)
    BY <2>1, <2>2, PartsExtended, Zenon
  <2>4. parts[1] \in Seq(Nat)
    BY <1>1, ElementOfSeq DEF n
  <2>5. <<>> \o parts[1] = parts[1]
    BY <2>4, ConcatEmptySeq
  <2>6. g[1] = parts[1]
    BY <1>1, <1>2
  <2>7. QED
    BY <1>1, <2>3, <2>5, <2>6
<1>5. ASSUME NEW i \in 0..((n - 1) - 1), i \in T PROVE i + 1 \in T
  <2>1. /\ i + 1 \in 0..(n - 1) /\ i + 1 \in 0..(Len(parts) - 1)
        /\ (i + 1) + 1 \in 1..n /\ (i + 1) + 1 # 1 /\ ((i + 1) + 1) - 1 = i + 1
    BY <1>1 DEF n
  <2>2. g[(i + 1) + 1] = g[i + 1] \o parts[(i + 1) + 1]
    BY <1>2, <2>1, Zenon
  <2>3. HoldsParts(g[i + 1], parts, i + 1)
    BY <1>5
  <2>4. HoldsParts(g[i + 1] \o parts[(i + 1) + 1], parts, (i + 1) + 1)
    BY <2>1, <2>3, PartsExtended
  <2>5. QED
    BY <2>1, <2>2, <2>4, Zenon
<1>6. n - 1 \in T
  <2>1. T \in SUBSET (0..(n - 1)) /\ n - 1 \in Nat /\ n - 1 \in 0..(n - 1)
    BY <1>1
  <2> HIDE DEF T
  <2>2. \A i \in 0..(n - 1) : i \in T
    BY <1>4, <1>5, <2>1, StepByStep, Zenon
  <2>3. QED
    BY <2>1, <2>2
<1>7. (n - 1) + 1 = n
  BY <1>1
<1>8. QED
  BY <1>3, <1>6, <1>7 DEF n

(* What was computed entry by entry stays so when put end to end.          *)
Reads(v, u, f, S) ==
  /\ u \in Seq(Nat) /\ v \in Seq(S) /\ Len(v) = Len(u)
  /\ \A j \in 1..Len(u) : v[j] = f[u[j]]

LEMMA ReadsConcat ==
  ASSUME NEW S, NEW f, NEW u, NEW v, Reads(v, u, f, S), NEW p, NEW q, Reads(q, p, f, S)
  PROVE  Reads(v \o q, u \o p, f, S)
<1> DEFINE x == u \o p
           y == v \o q
<1>1. /\ u \in Seq(Nat) /\ p \in Seq(Nat) /\ v \in Seq(S) /\ q \in Seq(S)
      /\ Len(v) = Len(u) /\ Len(q) = Len(p) /\ Len(u) \in Nat /\ Len(p) \in Nat
  BY LenProperties DEF Reads
<1>2. /\ x \in Seq(Nat) /\ Len(x) = Len(u) + Len(p)
      /\ \A j \in 1..Len(u) : x[j] = u[j]
      /\ \A j \in 1..Len(p) : x[Len(u) + j] = p[j]
  BY <1>1, ConcatElements
<1>3. /\ y \in Seq(S) /\ Len(y) = Len(u) + Len(p)
      /\ \A j \in 1..Len(u) : y[j] = v[j]
      /\ \A j \in 1..Len(p) : y[Len(u) + j] = q[j]
  <2>1. /\ y \in Seq(S) /\ Len(y) = Len(v) + Len(q)
        /\ \A j \in 1..Len(v) : y[j] = v[j]
        /\ \A j \in 1..Len(q) : y[Len(v) + j] = q[j]
    <3>1. v \in Seq(S) /\ q \in Seq(S)
      BY <1>1
    <3>2. QED
      BY ONLY <3>1, ConcatElements
  <2>2. QED
    BY <1>1, <2>1
<1> HIDE DEF x, y
<1>4. ASSUME NEW j \in 1..Len(x)
      PROVE  y[j] = f[x[j]]
  <2>1. CASE j <= Len(u)
    <3>1. j \in 1..Len(u)
      BY <1>1, <1>2, <2>1
    <3>2. y[j] = v[j] /\ x[j] = u[j] /\ v[j] = f[u[j]]
      BY <1>2, <1>3, <3>1 DEF Reads
    <3>3. QED
      BY <3>2
  <2>2. CASE ~(j <= Len(u))
    <3>1. PICK a \in 1..Len(p) : j = Len(u) + a
      <4>1. j - Len(u) \in 1..Len(p) /\ j = Len(u) + (j - Len(u))
        BY <1>1, <1>2, <2>2
      <4>2. QED
        BY <4>1
    <3>2. y[j] = q[a] /\ x[j] = p[a] /\ q[a] = f[p[a]]
      BY <1>2, <1>3, <3>1 DEF Reads
    <3>3. QED
      BY <3>2
  <2>3. QED
    BY <2>1, <2>2
<1>5. Reads(y, x, f, S)
  BY <1>2, <1>3, <1>4 DEF Reads
<1>6. QED
  BY <1>5 DEF x, y

LEMMA FlattenData ==
  ASSUME NEW parts \in Seq(Seq(Nat)), Len(parts) > 0, NEW S, NEW f,
         NEW data \in Seq(Seq(S)), Len(data) = Len(parts),
         \A m \in 1..Len(parts) : Reads(data[m], parts[m], f, S)
  PROVE  Reads(FlattenSeq(data), FlattenSeq(parts), f, S)
<1> DEFINE n == Len(parts)
<1>1. n \in Nat /\ n # 0 /\ n >= 1 /\ Len(data) = n
  BY LenProperties
<1>2. PICK g : g = [i \in 1..n |-> IF i = 1 THEN parts[i] ELSE g[i - 1] \o parts[i]]
  <2> HIDE DEF n
  <2>1. QED
    BY <1>1, PartsExist, Zenon
<1>3. PICK h : h = [i \in 1..n |-> IF i = 1 THEN data[i] ELSE h[i - 1] \o data[i]]
  <2> HIDE DEF n
  <2>1. QED
    BY <1>1, PartsExist, Zenon
<1>4. FlattenSeq(parts) = g[n]
  BY <1>1, <1>2, SameAssumption, Dispatch!FlattenByParts, Zenon DEF FlattenSeq, Dispatch!FlattenSeq
<1>5. FlattenSeq(data) = h[n]
  <2>1. h = [i \in 1..Len(data) |-> IF i = 1 THEN data[i] ELSE h[i - 1] \o data[i]]
    BY <1>1, <1>3, Zenon
  <2>2. FlattenSeq(data) = h[Len(data)]
    BY <1>1, <2>1, SameAssumption, Dispatch!FlattenByParts, Zenon DEF FlattenSeq, Dispatch!FlattenSeq
  <2>3. QED
    BY <1>1, <2>2
<1>6. \A m \in 1..n : Reads(data[m], parts[m], f, S)
  OBVIOUS
<1> HIDE DEF n
<1> DEFINE T == {i \in 0..(n - 1) : Reads(h[i + 1], g[i + 1], f, S)}
<1>7. 0 \in T
  <2>1. g[1] = parts[1] /\ h[1] = data[1] /\ 1 \in 1..n /\ 0 + 1 = 1 /\ 0 \in 0..(n - 1)
    BY <1>1, <1>2, <1>3
  <2>2. Reads(h[1], g[1], f, S)
    BY <1>6, <2>1
  <2>3. QED
    BY <2>1, <2>2
<1>8. ASSUME NEW i \in 0..((n - 1) - 1), i \in T PROVE i + 1 \in T
  <2>1. /\ i + 1 \in 0..(n - 1)
        /\ (i + 1) + 1 \in 1..n /\ (i + 1) + 1 # 1 /\ ((i + 1) + 1) - 1 = i + 1
    BY <1>1
  <2>2. g[(i + 1) + 1] = g[i + 1] \o parts[(i + 1) + 1]
    BY <1>2, <2>1, Zenon
  <2>3. h[(i + 1) + 1] = h[i + 1] \o data[(i + 1) + 1]
    BY <1>3, <2>1, Zenon
  <2>4. Reads(h[i + 1], g[i + 1], f, S)
    BY <1>8
  <2>5. Reads(data[(i + 1) + 1], parts[(i + 1) + 1], f, S)
    BY <1>6, <2>1
  <2>6. Reads(h[i + 1] \o data[(i + 1) + 1], g[i + 1] \o parts[(i + 1) + 1], f, S)
    BY <2>4, <2>5, ReadsConcat
  <2>7. QED
    BY <2>1, <2>2, <2>3, <2>6, Zenon
<1>9. n - 1 \in T
  <2>1. T \in SUBSET (0..(n - 1)) /\ n - 1 \in Nat /\ n - 1 \in 0..(n - 1)
    BY <1>1
  <2> HIDE DEF T
  <2>2. \A i \in 0..(n - 1) : i \in T
    BY <1>7, <1>8, <2>1, StepByStep, Zenon
  <2>3. QED
    BY <2>1, <2>2
<1>10. (n - 1) + 1 = n
  BY <1>1
<1>11. QED
  BY <1>4, <1>5, <1>9, <1>10

(* Put back into the order of the rows, every row has its own.             *)
ResultsOf(parts, f) == [m \in 1..Len(parts) |-> [a \in DOMAIN parts[m] |-> f[parts[m][a]]]]

Each(n, f) == [r \in 1..n |-> f[r]]

LEMMA RestoreIs ==
  ASSUME NEW parts, NEW n \in Nat, Divides(parts, Len(parts), n), parts # <<>>,
         NEW f
  PROVE  RestoreDynamicBatch(FlattenSeq(ResultsOf(parts, f)), parts) = Each(n, f)
<1> DEFINE k == Len(parts)
           S == {f[r] : r \in 1..n}
           flat == FlattenSeq(parts)
           data == ResultsOf(parts, f)
           all == FlattenSeq(data)
<1>0. data = [m \in 1..k |-> [a \in DOMAIN parts[m] |-> f[parts[m][a]]]]
  BY DEF ResultsOf
<1> HIDE DEF data
<1>1. /\ parts \in Seq(Seq(Nat)) /\ k \in Nat /\ k > 0 /\ PlacesApart(parts)
      /\ \A i \in 1..k : \A a \in 1..Len(parts[i]) : parts[i][a] \in 1..n
      /\ \A r \in 1..n : \E i \in 1..k : \E a \in 1..Len(parts[i]) : parts[i][a] = r
  <2>1. parts \in Seq(Seq(Nat))
    BY DEF Divides
  <2>2. k \in Nat /\ k > 0
    BY <2>1, LenProperties, EmptySeq
  <2>3. QED
    BY <2>1, <2>2 DEF Divides, PlacesApart
<1>2. HoldsParts(flat, parts, k)
  BY <1>1, FlattenPlaces
<1>3. Reads(all, flat, f, S)
  <2>1. \A m \in 1..k : data[m] = [a \in DOMAIN parts[m] |-> f[parts[m][a]]]
    BY <1>0
  <2>2. ASSUME NEW m \in 1..k
        PROVE  Reads(data[m], parts[m], f, S) /\ data[m] \in Seq(S)
    <3>1. PICK p : p = parts[m]
      OBVIOUS
    <3>2. p \in Seq(Nat) /\ DOMAIN p = 1..Len(p) /\ Len(p) \in Nat
      BY <1>1, <3>1, ElementOfSeq, LenProperties
    <3>3. \A a \in 1..Len(p) : f[p[a]] \in S
      BY <1>1, <3>1, Zenon
    <3> HIDE DEF S
    <3>4. PICK d : d = [a \in 1..Len(p) |-> f[p[a]]]
      BY Zenon
    <3>5. d \in [1..Len(p) -> S]
      BY <3>3, <3>4
    <3>6. d \in Seq(S) /\ Len(d) = Len(p)
      BY <3>2, <3>5, FunctionIsSequence, Zenon
    <3>7. Reads(d, p, f, S)
      BY <3>2, <3>4, <3>6 DEF Reads
    <3>8. data[m] = d
      BY <2>1, <3>1, <3>2, <3>4, Zenon
    <3>9. QED
      BY <3>1, <3>6, <3>7, <3>8
  <2>3. data \in [1..k -> Seq(S)]
    BY <1>0, <2>2, Zenon
  <2> HIDE DEF S
  <2>4. data \in Seq(Seq(S)) /\ Len(data) = k
    BY <1>1, <2>3, FunctionIsSequence, Zenon
  <2>5. QED
    BY <1>1, <2>2, <2>4, FlattenData, Zenon
<1> HIDE DEF flat, all, S
<1>4. /\ flat \in Seq(Nat) /\ Len(flat) \in Nat /\ DOMAIN flat = 1..Len(flat)
      /\ Len(all) = Len(flat) /\ DOMAIN all = 1..Len(flat)
  <2>1. flat \in Seq(Nat) /\ all \in Seq(S) /\ Len(all) = Len(flat)
    BY <1>3 DEF Reads
  <2>2. QED
    BY <2>1, LenProperties
<1>5. \A j \in 1..Len(flat) : flat[j] \in 1..n
  BY <1>1, <1>2, ZenonT(40) DEF HoldsParts
<1>6. \A r \in 1..n : \E j \in 1..Len(flat) : flat[j] = r
  <2> TAKE r \in 1..n
  <2>1. PICK i \in 1..k : \E a \in 1..Len(parts[i]) : parts[i][a] = r
    BY <1>1
  <2>2. PICK a \in 1..Len(parts[i]) : parts[i][a] = r
    BY <2>1
  <2>3. \E j \in 1..Len(flat) : flat[j] = parts[i][a]
    BY <1>2 DEF HoldsParts
  <2>4. QED
    BY <2>2, <2>3
<1>7. \A j, l \in 1..Len(flat) : flat[j] = flat[l] => j = l
  BY <1>2 DEF HoldsParts
<1>8. Len(flat) = n
  <2> DEFINE L == Len(flat)
  <2>1. flat \in [1..L -> 1..n]
    <3>1. flat = [j \in 1..L |-> flat[j]]
      BY <1>4, LenProperties
    <3>2. QED
      BY <1>5, <3>1
  <2> HIDE DEF L
  <2>2. flat \in Bijection(1..L, 1..n)
    BY <1>6, <1>7, <2>1 DEF Bijection, Injection, Surjection, IsInjective, L
  <2>3. ExistsBijection(1..L, 1..n)
    BY <2>2 DEF ExistsBijection
  <2>4. L \in Nat
    BY <1>4 DEF L
  <2>5. IsFiniteSet(1..L) /\ Cardinality(1..L) = L /\ Cardinality(1..n) = n
    <3>1. \A x \in Nat : IsFiniteSet(1..x) /\ Cardinality(1..x) = IF 1 > x THEN 0 ELSE x - 1 + 1
      BY FS_Interval
    <3>2. QED
      BY <2>4, <3>1
  <2>6. Cardinality(1..n) = Cardinality(1..L)
    BY <2>3, <2>5, FS_Bijection
  <2>7. QED
    BY <2>5, <2>6 DEF L
<1> DEFINE place(r) == CHOOSE j \in 1..n : flat[j] = r
<1>9. RestoreDynamicBatch(all, parts) = [r \in 1..n |-> all[place(r)]]
  BY <1>4, <1>8 DEF RestoreDynamicBatch, flat
<1>10. ASSUME NEW r \in 1..n
       PROVE  all[place(r)] = f[r]
  <2>1. place(r) \in 1..n /\ flat[place(r)] = r
    BY <1>6, <1>8, Zenon
  <2> HIDE DEF place
  <2>2. all[place(r)] = f[flat[place(r)]]
    BY <1>3, <1>8, <2>1 DEF Reads
  <2>3. QED
    BY <2>1, <2>2
<1> HIDE DEF place
<1>11. RestoreDynamicBatch(all, parts) = [r \in 1..n |-> f[r]]
  BY <1>9, <1>10
<1>12. QED
  BY <1>11 DEF all, data, Each

(* What a rank computes for the rows in its slots: the tokens it is given, *)
(* and the passes over the first n micro-batches of a mini-batch.          *)
Pass(rows, slot) == [row |-> rows[slot].row, tokens |-> rows[slot].tokens]

TokensOf(rows, mini) == [k \in DOMAIN mini |-> rows[mini[k]].tokens]

PassesOf(rows, mini, parts, n) ==
  [m \in 1..n |-> [a \in DOMAIN parts[m] |-> Pass(rows, mini[parts[m][a]])]]

TokensInAll(mini, rows) == \A a \in 1..Len(mini) : rows[mini[a]].tokens > 0

(* A mini-batch is divided, and its micro-batches have tokens, but where   *)
(* there are as many of them as rows.                                      *)
IsCutOf(parts, mini, rows) ==
  /\ parts # <<>> /\ Divides(parts, Len(parts), Len(mini))
  /\ \/ Len(parts) = Len(mini)
     \/ EachHasTokens(parts, Len(parts), TokensOf(rows, mini))

(* A mini-batch as the ranks have them: at most one row is without tokens. *)
IsMini(mini, rows) ==
  /\ mini \in Seq(Nat) /\ Len(mini) > 0
  /\ \A a \in 1..Len(mini) : rows[mini[a]].tokens \in 0..MaxSeqLen
  /\ \E z \in 1..Len(mini) :
       \A a \in 1..Len(mini) : a # z => rows[mini[a]].tokens > 0

(* The number of micro-batches a rank wants: as many as it has rows only   *)
(* if all of them but one do not have enough room for its tokens.          *)
LEMMA SmallerOfTwo ==
  ASSUME NEW a \in Nat, NEW b \in Nat
  PROVE  /\ Min({a, b}) \in {a, b} /\ Min({a, b}) <= a /\ Min({a, b}) <= b
<1>1. \E x \in {a, b} : \A y \in {a, b} : x <= y
  <2>1. CASE a <= b
    BY <2>1
  <2>2. CASE b <= a
    BY <2>2
  <2>3. QED
    BY <2>1, <2>2
<1>2. Min({a, b}) \in {a, b} /\ \A y \in {a, b} : Min({a, b}) <= y
  BY <1>1 DEF Min
<1>3. QED
  BY <1>2

LEMMA CeilDivIs ==
  ASSUME NEW t \in Nat, NEW m \in Nat, m > 0
  PROVE  /\ CeilDiv(t, m) \in Nat /\ (t > 0 => CeilDiv(t, m) > 0)
         /\ \A b \in Nat : b > 0 /\ b <= CeilDiv(t, m) => t > (b - 1) * m
<1> DEFINE q == (t + m - 1) \div m
           r == (t + m - 1) % m
<1>1. t + m - 1 \in Nat
  OBVIOUS
<1>2. q \in Nat /\ r \in Nat /\ r < m /\ t + m - 1 = m * q + r
  BY <1>1, Division
<1>3. CeilDiv(t, m) = q
  BY DEF CeilDiv
<1> HIDE DEF q, r
<1>4. t > 0 => q # 0
  <2>1. q = 0 => m * q = 0
    OBVIOUS
  <2>2. QED
    BY <1>2, <2>1
<1>5. ASSUME NEW b \in Nat, b > 0, b <= q
      PROVE  t > (b - 1) * m
  <2>1. m * b <= m * q /\ m * b = (b - 1) * m + m
    BY <1>2, <1>5
  <2>2. m * q \in Nat /\ m * b \in Nat /\ (b - 1) * m \in Nat
    BY <1>2, <1>5
  <2>3. QED
    BY <1>2, <2>1, <2>2
<1>6. QED
  BY <1>2, <1>3, <1>4, <1>5

LEMMA WantedIs ==
  ASSUME NEW len \in Seq(Nat), Len(len) > 0
  PROVE  LET wanted == WantedMicroBatches(len, MaxTokenLen)
         IN  /\ wanted \in 0..Len(len)
             /\ (\E r \in 1..Len(len) : len[r] > 0) => wanted > 0
             /\ wanted = Len(len) => Total(len) > (Len(len) - 1) * MaxTokenLen
<1> DEFINE t == Total(len)
           L == Len(len)
           c == CeilDiv(t, MaxTokenLen)
<1>1. MaxTokenLen \in Nat /\ MaxTokenLen > 0
  BY ConstantsAre
<1>2. L \in Nat /\ L > 0 /\ t \in Nat
  BY LenProperties, TotalIs
<1>3. (\E r \in 1..L : len[r] > 0) => t > 0
  <2> SUFFICES ASSUME NEW r \in 1..L, len[r] > 0 PROVE t > 0
    OBVIOUS
  <2>1. len[r] \in Nat /\ len[r] <= t
    BY ElementOfSeq, TotalIs
  <2>2. QED
    BY <1>2, <2>1
<1>4. WantedMicroBatches(len, MaxTokenLen) = Min({L, c})
  BY DEF WantedMicroBatches
<1> HIDE DEF t, L
<1>5. /\ c \in Nat /\ (t > 0 => c > 0)
      /\ L <= c => t > (L - 1) * MaxTokenLen
  BY <1>1, <1>2, CeilDivIs
<1> HIDE DEF c
<1>6. Min({L, c}) \in {L, c} /\ Min({L, c}) <= L /\ Min({L, c}) <= c
  BY <1>2, <1>5, SmallerOfTwo, Zenon
<1>7. /\ Min({L, c}) \in 0..L /\ (t > 0 => Min({L, c}) > 0)
      /\ Min({L, c}) = L => L <= c
  BY <1>2, <1>5, <1>6
<1>8. QED
  BY <1>3, <1>4, <1>5, <1>7 DEF t, L

LEMMA MaxIs ==
  ASSUME NEW b \in Nat, NEW S, S # {}, \A x \in S : x \in 0..b
  PROVE  Max(S) \in S /\ \A x \in S : x <= Max(S)
<1> DEFINE T == {b - x : x \in S}
<1>1. PICK x0 : x0 \in S
  OBVIOUS
<1>2. T \in SUBSET Nat /\ T # {}
  BY <1>1
<1>3. PICK m \in T : \A k \in T : m <= k
  <2> HIDE DEF T
  <2>1. QED
    BY <1>2, LeastNatural
<1>4. PICK x \in S : m = b - x
  BY <1>3
<1>5. \A y \in S : b - x <= b - y
  BY <1>3, <1>4
<1>6. \A y \in S : x >= y
  BY <1>4, <1>5
<1>7. Max(S) \in S /\ \A y \in S : Max(S) >= y
  BY <1>4, <1>6 DEF Max
<1>8. QED
  BY <1>7

(* The tokens of a mini-batch.                                             *)
LEMMA TokensAre ==
  ASSUME NEW rows, NEW mini, IsMini(mini, rows)
  PROVE  /\ TokensOf(rows, mini) \in Seq(Nat) /\ Len(TokensOf(rows, mini)) = Len(mini)
         /\ Len(mini) \in Nat /\ Len(mini) > 0
         /\ \A a \in 1..Len(mini) : TokensOf(rows, mini)[a] = rows[mini[a]].tokens
         /\ \E z \in 1..Len(mini) :
              \A a \in 1..Len(mini) : a # z => TokensOf(rows, mini)[a] > 0
<1> DEFINE len == TokensOf(rows, mini)
           n == Len(mini)
<1>1. /\ mini \in Seq(Nat) /\ n \in Nat /\ n > 0 /\ DOMAIN mini = 1..n
      /\ \A a \in 1..n : rows[mini[a]].tokens \in 0..MaxSeqLen
      /\ \E z \in 1..n : \A a \in 1..n : a # z => rows[mini[a]].tokens > 0
      /\ MaxSeqLen \in Nat
  BY ConstantsAre, LenProperties DEF IsMini
<1> HIDE DEF n
<1>2. len = [a \in 1..n |-> rows[mini[a]].tokens]
  BY <1>1 DEF TokensOf
<1>3. \A a \in 1..n : rows[mini[a]].tokens \in Nat
  BY <1>1
<1>4. len \in [1..n -> Nat]
  BY <1>2, <1>3
<1>5. len \in Seq(Nat) /\ Len(len) = n
  BY <1>1, <1>4, FunctionIsSequence
<1> HIDE DEF len
<1>6. \A a \in 1..n : len[a] = rows[mini[a]].tokens
  BY <1>2
<1>7. \E z \in 1..n : \A a \in 1..n : a # z => len[a] > 0
  BY <1>1, <1>6
<1>8. QED
  BY <1>1, <1>5, <1>6, <1>7 DEF len, n

LEMMA WantedOfMini ==
  ASSUME NEW rows, NEW mini, IsMini(mini, rows)
  PROVE  LET wanted == WantedMicroBatches(TokensOf(rows, mini), MaxTokenLen)
         IN  /\ wanted \in 0..Len(mini)
             /\ TokensInAll(mini, rows) => wanted > 0
             /\ wanted = Len(mini) =>
                  Total(TokensOf(rows, mini)) > (Len(mini) - 1) * MaxTokenLen
<1> DEFINE len == TokensOf(rows, mini)
<1>1. /\ len \in Seq(Nat) /\ Len(len) = Len(mini) /\ Len(mini) \in Nat /\ Len(mini) > 0
      /\ \A a \in 1..Len(mini) : len[a] = rows[mini[a]].tokens
  BY TokensAre
<1> HIDE DEF len
<1>2. TokensInAll(mini, rows) => \E r \in 1..Len(len) : len[r] > 0
  <2> SUFFICES ASSUME TokensInAll(mini, rows) PROVE \E r \in 1..Len(len) : len[r] > 0
    OBVIOUS
  <2>1. 1 \in 1..Len(mini)
    BY <1>1
  <2>2. rows[mini[1]].tokens > 0
    BY <2>1 DEF TokensInAll
  <2>3. QED
    BY <1>1, <2>1, <2>2
<1>3. /\ WantedMicroBatches(len, MaxTokenLen) \in 0..Len(len)
      /\ (\E r \in 1..Len(len) : len[r] > 0) => WantedMicroBatches(len, MaxTokenLen) > 0
      /\ WantedMicroBatches(len, MaxTokenLen) = Len(len) =>
           Total(len) > (Len(len) - 1) * MaxTokenLen
  BY <1>1, WantedIs
<1>4. QED
  BY <1>1, <1>2, <1>3 DEF len

(* Cut into as many micro-batches as it has rows, or fewer, a mini-batch   *)
(* is divided.                                                             *)
LEMMA CutIs ==
  ASSUME NEW rows, NEW mini, IsMini(mini, rows), NEW k \in 1..Len(mini),
         NEW parts, parts = RearrangeMicroBatches(TokensOf(rows, mini), k)
  PROVE  IsCutOf(parts, mini, rows) /\ Len(parts) = k
<1> DEFINE len == TokensOf(rows, mini)
<1>1. /\ len \in Seq(Nat) /\ Len(len) = Len(mini) /\ Len(mini) \in Nat /\ Len(mini) > 0
      /\ \E z \in 1..Len(mini) : \A a \in 1..Len(mini) : a # z => len[a] > 0
  BY TokensAre
<1>2. parts = RearrangeMicroBatches(len, k)
  OBVIOUS
<1> HIDE DEF len
<1>3. Len(len) > 0 /\ k \in 1..Len(len) /\ k > 0 /\ k \in Nat
  BY <1>1
<1>4. /\ Divides(parts, k, Len(len))
      /\ \A z \in 1..Len(len) :
           k < Len(len) /\ (\A r \in 1..Len(len) : r # z => len[r] > 0) =>
             EachHasTokens(parts, k, len)
  BY <1>1, <1>2, <1>3, MicroBatchesDivide, Zenon
<1>5. k < Len(mini) => EachHasTokens(parts, k, len)
  BY <1>1, <1>4, Zenon
<1>6. Len(parts) = k /\ parts # <<>>
  <2>1. parts \in Seq(Seq(Nat)) /\ Len(parts) = k
    BY <1>4 DEF Divides
  <2>2. Len(<<>>) = 0
    BY EmptySeq
  <2>3. QED
    BY <1>3, <2>1, <2>2
<1>7. k = Len(mini) \/ k < Len(mini)
  BY <1>1, <1>3
<1>8. QED
  BY <1>1, <1>4, <1>5, <1>6, <1>7, Zenon DEF IsCutOf, len

(* All ranks cut into the number the most demanding of them wants. A rank  *)
(* that has as many rows as any other cuts them into single rows only if   *)
(* some rank has more tokens than all rows but one may fill.               *)
MostWanted(rows, mini, R) ==
  Max({WantedMicroBatches(TokensOf(rows, mini[v]), MaxTokenLen) : v \in R})

CanCut(rows, mini, R) ==
  /\ \A v \in R : IsMini(mini[v], rows)
  /\ \E b \in Nat : \A v \in R : Len(mini[v]) <= b
  /\ \E u \in R : TokensInAll(mini[u], rows)

CutIsSound(parts, k, rows, mini, R, w) ==
  /\ IsCutOf(parts, mini[w], rows) /\ Len(parts) = k
  /\ \E v \in R :
       k = Len(mini[v]) => Total(TokensOf(rows, mini[v])) > (k - 1) * MaxTokenLen

LEMMA CountCuts ==
  ASSUME NEW rows, NEW R, NEW mini, CanCut(rows, mini, R),
         NEW w \in R, MostWanted(rows, mini, R) <= Len(mini[w])
  PROVE  CutIsSound(RearrangeMicroBatches(TokensOf(rows, mini[w]), MostWanted(rows, mini, R)),
                    MostWanted(rows, mini, R), rows, mini, R, w)
<1> DEFINE k == MostWanted(rows, mini, R)
           parts == RearrangeMicroBatches(TokensOf(rows, mini[w]), k)
<1>1. \A v \in R : IsMini(mini[v], rows)
  BY DEF CanCut
<1>2. PICK b \in Nat : \A v \in R : Len(mini[v]) <= b
  BY DEF CanCut
<1>3. PICK u \in R : TokensInAll(mini[u], rows)
  BY DEF CanCut
<1>4. k <= Len(mini[w])
  OBVIOUS
<1> DEFINE wanted(v) == WantedMicroBatches(TokensOf(rows, mini[v]), MaxTokenLen)
           S == {wanted(v) : v \in R}
<1>5. \A v \in R : /\ wanted(v) \in 0..Len(mini[v])
                   /\ TokensInAll(mini[v], rows) => wanted(v) > 0
                   /\ wanted(v) = Len(mini[v]) =>
                        Total(TokensOf(rows, mini[v])) > (Len(mini[v]) - 1) * MaxTokenLen
  BY <1>1, WantedOfMini
<1>6. \A v \in R : Len(mini[v]) \in Nat
  <2>1. \A v \in R : mini[v] \in Seq(Nat)
    BY <1>1 DEF IsMini
  <2>2. QED
    BY <2>1, LenProperties
<1> HIDE DEF wanted
<1>7. \A v \in R : wanted(v) \in 0..b
  <2> TAKE v \in R
  <2>1. PICK l \in Nat : l = Len(mini[v])
    BY <1>6
  <2>2. wanted(v) \in 0..l /\ l <= b
    BY <1>5, <1>2, <2>1
  <2>3. QED
    BY <2>2
<1>8. Max(S) \in S /\ \A x \in S : x <= Max(S)
  <2>1. S # {} /\ \A x \in S : x \in 0..b
    BY <1>7
  <2> HIDE DEF S
  <2>2. QED
    BY <2>1, MaxIs
<1>9. k = Max(S)
  BY DEF MostWanted, wanted
<1> HIDE DEF k
<1>10. PICK v \in R : k = wanted(v)
  BY <1>8, <1>9, Zenon
<1>11. wanted(u) <= k /\ wanted(u) > 0 /\ wanted(u) \in Nat
  <2>1. wanted(u) \in S
    OBVIOUS
  <2> HIDE DEF S
  <2>2. wanted(u) <= k
    BY <1>8, <1>9, <2>1
  <2>3. QED
    BY <1>5, <1>7, <1>3, <2>2
<1>12. k \in 1..Len(mini[w])
  <2>1. k \in Nat /\ Len(mini[w]) \in Nat
    BY <1>6, <1>7, <1>10
  <2>2. QED
    BY <1>11, <1>4, <2>1
<1>13. IsCutOf(parts, mini[w], rows) /\ Len(parts) = k
  BY <1>12, <1>1, CutIs
<1>14. k = Len(mini[v]) => Total(TokensOf(rows, mini[v])) > (k - 1) * MaxTokenLen
  BY <1>5, <1>10
<1>15. QED
  BY <1>13, <1>14 DEF CutIsSound, k

(* The share of a rank: its slots of the batch, as many for every rank.    *)
LEMMA ShareIs ==
  ASSUME SetupOK, NEW rows, NEW size \in Nat, size > 0, Len(rows) = world_size * size,
         NEW w \in Ranks
  PROVE  /\ ShareOf(w, rows) \in Seq(Nat) /\ Len(ShareOf(w, rows)) = size
         /\ \A k \in 1..size : /\ ShareOf(w, rows)[k] = (w - 1) * size + k
                               /\ (w - 1) * size + k \in 1..(world_size * size)
<1> DEFINE W == world_size
           share == ShareOf(w, rows)
<1>1. W \in Nat /\ W > 0 /\ w \in Nat /\ w >= 1 /\ w <= W /\ w - 1 \in Nat
  BY ConstantsAre DEF SetupOK, Ranks
<1> HIDE DEF W
<1>2. Len(rows) \div W = size
  <2>1. (W * size + 0) \div W = size
    BY <1>1, DivisionUnique
  <2>2. W * size + 0 = W * size
    BY <1>1
  <2>3. QED
    BY <2>1, <2>2 DEF W
<1>3. share = [k \in 1..size |-> ((w - 1) * size) + k]
  BY <1>2 DEF ShareOf, W
<1> HIDE DEF share
<1>4. /\ (w - 1) * size \in Nat /\ W * size \in Nat
      /\ (w - 1) * size + size <= W * size
  <2>1. (w - 1) * size \in Nat /\ W * size \in Nat
    BY <1>1
  <2>2. (w - 1) * size + size = w * size /\ w * size <= W * size
    BY <1>1
  <2>3. QED
    BY <2>1, <2>2
<1>5. \A k \in 1..size : (w - 1) * size + k \in 1..(W * size) /\ (w - 1) * size + k \in Nat
  <2> DEFINE a == (w - 1) * size
             b == W * size
  <2> HIDE DEF a, b
  <2>1. a \in Nat /\ b \in Nat /\ a + size <= b
    BY <1>4 DEF a, b
  <2>2. \A k \in 1..size : a + k \in 1..b /\ a + k \in Nat
    BY <2>1
  <2>3. QED
    BY <2>2 DEF a, b
<1>6. \A k \in 1..size : share[k] = (w - 1) * size + k
  BY <1>3
<1>7. share \in [1..size -> Nat]
  BY <1>3, <1>5
<1>8. share \in Seq(Nat) /\ Len(share) = size
  BY <1>7, FunctionIsSequence
<1>9. QED
  BY <1>5, <1>6, <1>8 DEF share, W

(* A share cut into mini-batches: the same number of rows in all of them,  *)
(* but for the last, which may have fewer.                                 *)
PartLen(L, b, m) == IF m * b <= L THEN b ELSE L - (m - 1) * b

LEMMA SplitIs ==
  ASSUME NEW slots \in Seq(Nat), Len(slots) > 0, NEW b \in Nat, b > 0
  PROVE  LET parts == Split(slots, b)
             c == CeilDiv(Len(slots), b)
         IN  /\ c \in Nat /\ c > 0
             /\ parts \in Seq(Seq(Nat)) /\ Len(parts) = c
             /\ \A m \in 1..c :
                  /\ PartLen(Len(slots), b, m) \in 1..b
                  /\ b <= Len(slots) => PartLen(Len(slots), b, 1) = b
                  /\ Len(parts[m]) = PartLen(Len(slots), b, m)
                  /\ \A a \in 1..PartLen(Len(slots), b, m) :
                       /\ (m - 1) * b + a \in 1..Len(slots)
                       /\ parts[m][a] = slots[(m - 1) * b + a]
<1> DEFINE L == Len(slots)
           parts == Split(slots, b)
           c == CeilDiv(L, b)
           l(m) == PartLen(L, b, m)
<1>1. L \in Nat /\ L > 0
  BY LenProperties
<1>2. \A i \in 1..L : slots[i] \in Nat
  BY ElementOfSeq
<1>3. parts = [m \in 1..c |-> [k \in 1..l(m) |-> slots[(m - 1) * b + k]]]
  BY DEF Split, PartLen
<1> HIDE DEF L, parts
(* The last mini-batch is not empty.                                       *)
<1>4. c \in Nat /\ c > 0 /\ (c - 1) * b < L /\ c - 1 \in Nat
  <2> DEFINE q == (L + b - 1) \div b
             r == (L + b - 1) % b
  <2>1. L + b - 1 \in Nat
    BY <1>1
  <2>2. q \in Nat /\ r \in Nat /\ r < b /\ L + b - 1 = b * q + r
    BY <2>1, Division, Zenon
  <2>3. c = q
    BY DEF CeilDiv
  <2> HIDE DEF q, r, c
  <2>4. q # 0
    <3>1. q = 0 => b * q = 0
      OBVIOUS
    <3>2. QED
      BY <1>1, <2>2, <3>1
  <2>5. (q - 1) * b = b * q - b /\ b * q \in Nat
    BY <2>2
  <2>6. (q - 1) * b < L
    BY <1>1, <2>2, <2>5
  <2>7. QED
    BY <2>2, <2>3, <2>4, <2>6
<1> HIDE DEF c
<1>5. ASSUME NEW m \in 1..c
      PROVE  /\ l(m) \in 1..b /\ (m - 1) * b \in Nat
             /\ (m - 1) * b + l(m) <= L
  <2>1. m \in Nat /\ m - 1 \in Nat /\ m - 1 <= c - 1
    BY <1>4
  <2>2. (m - 1) * b <= (c - 1) * b /\ (m - 1) * b \in Nat /\ (c - 1) * b \in Nat
    BY <1>4, <2>1
  <2>3. m * b = (m - 1) * b + b
    BY <2>1
  <2> DEFINE x == (m - 1) * b
  <2> HIDE DEF x
  <2>4. x \in Nat /\ x < L /\ m * b = x + b
    BY <1>1, <1>4, <2>2, <2>3 DEF x
  <2>5. l(m) = IF x + b <= L THEN b ELSE L - x
    BY <2>4 DEF PartLen, x
  <2>6. l(m) \in 1..b /\ x + l(m) <= L
    BY <1>1, <2>4, <2>5
  <2>7. QED
    BY <2>2, <2>6 DEF x
<1>6. b <= L => l(1) = b
  BY <1>1 DEF PartLen
<1> HIDE DEF l
<1>7. ASSUME NEW m \in 1..c
      PROVE  /\ parts[m] \in Seq(Nat) /\ Len(parts[m]) = l(m)
             /\ \A a \in 1..l(m) : /\ (m - 1) * b + a \in 1..L
                                   /\ parts[m][a] = slots[(m - 1) * b + a]
  <2> DEFINE x == (m - 1) * b
             p == [k \in 1..l(m) |-> slots[x + k]]
  <2>1. x \in Nat /\ l(m) \in Nat /\ x + l(m) <= L
    BY <1>1, <1>5
  <2> HIDE DEF x
  <2>2. \A a \in 1..l(m) : x + a \in 1..L
    BY <1>1, <2>1
  <2>3. p \in [1..l(m) -> Nat]
    BY <1>2, <2>2
  <2>4. p \in Seq(Nat) /\ Len(p) = l(m)
    BY <2>1, <2>3, FunctionIsSequence, Zenon
  <2>5. \A a \in 1..l(m) : p[a] = slots[x + a]
    OBVIOUS
  <2>6. parts[m] = p
    BY <1>3 DEF x
  <2> HIDE DEF p
  <2>7. QED
    BY <2>2, <2>4, <2>5, <2>6 DEF x
<1>8. parts \in Seq(Seq(Nat)) /\ Len(parts) = c
  <2>1. parts \in [1..c -> Seq(Nat)]
    BY <1>3, <1>7, Zenon
  <2>2. QED
    BY <1>4, <2>1, FunctionIsSequence
<1>9. \A m \in 1..c : l(m) \in 1..b
  BY <1>5
<1>10. QED
  BY <1>4, <1>6, <1>7, <1>8, <1>9, Zenon DEF L, parts, c, l

(* For the log probabilities: the ranks share the padded batch evenly, and *)
(* all of its rows have tokens.                                            *)
LEMMA PaddedLength ==
  ASSUME NEW n \in Nat, n > 0, NEW W \in Nat, W > 0
  PROVE  \E size \in Nat : size > 0 /\ n + PadSize(n, W) = W * size
<1> DEFINE d == n \div W
           r == n % W
<1>1. d \in Nat /\ r \in Nat /\ r < W /\ n = W * d + r
  BY Division
<1>2. PadSize(n, W) = (W - r) % W
  BY DEF PadSize
<1> HIDE DEF d, r
<1>3. CASE r = 0
  <2>1. (W * 1 + 0) % W = 0
    BY DivisionUnique
  <2>2. W * 1 + 0 = W - r
    BY <1>3
  <2>3. n + PadSize(n, W) = W * d
    BY <1>1, <1>2, <1>3, <2>1, <2>2
  <2>4. d # 0
    <3>1. d = 0 => W * d = 0
      OBVIOUS
    <3>2. QED
      BY <1>1, <1>3, <3>1
  <2>5. QED
    BY <1>1, <2>3, <2>4
<1>4. CASE r # 0
  <2>1. W - r \in Nat /\ W - r < W
    BY <1>1, <1>4
  <2>2. (W * 0 + (W - r)) % W = W - r
    BY <2>1, DivisionUnique
  <2>3. W * 0 + (W - r) = W - r
    BY <2>1
  <2>4. W * (d + 1) = W * d + W /\ W * d \in Nat
    BY <1>1
  <2>5. n + PadSize(n, W) = W * (d + 1)
    BY <1>1, <1>2, <2>2, <2>3, <2>4
  <2>6. d + 1 \in Nat /\ d + 1 > 0
    BY <1>1
  <2>7. QED
    BY <2>5, <2>6, Zenon
<1>5. QED
  BY <1>3, <1>4

LEMMA LogProbShares ==
  ASSUME SetupOK, NEW rows, rows = PadToDivisor(Source, world_size)
  PROVE  \E size \in Nat :
           /\ size > 0 /\ Len(rows) = world_size * size /\ DOMAIN rows = 1..(world_size * size)
           /\ Len(LoopRows) <= world_size * size
           /\ \A w \in Ranks : /\ Len(ShareOf(w, rows)) = size
                               /\ IsMini(ShareOf(w, rows), rows)
                               /\ TokensInAll(ShareOf(w, rows), rows)
<1> DEFINE n == Len(LoopRows)
           W == world_size
           pad == PadSize(n, W)
<1>1. /\ n \in Nat /\ n > 0 /\ W \in Nat /\ W > 0 /\ MaxSeqLen \in Nat
      /\ DOMAIN LoopRows = 1..n /\ \A k \in 1..n : LoopRows[k] \in AnyRow
  <2>1. W \in Nat /\ W > 0 /\ MaxSeqLen \in Nat
    BY ConstantsAre DEF SetupOK
  <2>2. QED
    BY <2>1, LoopRowsShape, DomainOfRows
<1>2. /\ pad \in Nat /\ Len(rows) = n + pad /\ DOMAIN rows = 1..(n + pad)
      /\ \A k \in 1..(n + pad) : \E r \in 1..n : rows[k] = Source[r]
  BY PaddedRows
<1>3. \A k \in 1..n : Source[k] = TrainingRow(k, LoopRows[k].sample)
  BY SourceRows
<1> HIDE DEF n
<1>4. PICK size \in Nat : size > 0 /\ n + pad = W * size
  BY <1>1, PaddedLength, Zenon
<1> HIDE DEF pad, W
<1>5. \A k \in 1..n : Source[k].tokens \in 1..MaxSeqLen
  <2> TAKE k \in 1..n
  <2>1. LoopRows[k].sample \in Samples
    BY <1>1 DEF AnyRow
  <2>2. seq_len[LoopRows[k].sample] \in 1..MaxSeqLen
    BY <2>1 DEF SetupOK
  <2>3. Source[k] = TrainingRow(k, LoopRows[k].sample)
    BY <1>3
  <2>4. QED
    BY <2>2, <2>3 DEF TrainingRow
<1>6. \A k \in 1..(W * size) : rows[k].tokens \in 1..MaxSeqLen
  BY <1>2, <1>4, <1>5
<1>7. ASSUME NEW w \in Ranks
      PROVE  /\ Len(ShareOf(w, rows)) = size
             /\ IsMini(ShareOf(w, rows), rows) /\ TokensInAll(ShareOf(w, rows), rows)
  <2> DEFINE share == ShareOf(w, rows)
  <2>0. Len(rows) = world_size * size
    BY <1>2, <1>4 DEF W
  <2>1. /\ share \in Seq(Nat) /\ Len(share) = size
        /\ \A k \in 1..size : /\ share[k] = (w - 1) * size + k
                              /\ (w - 1) * size + k \in 1..(W * size)
    BY <1>4, <2>0, ShareIs DEF W
  <2> HIDE DEF share
  <2>2. \A k \in 1..size : rows[share[k]].tokens \in 1..MaxSeqLen
    BY <1>6, <2>1
  <2>3. \A k \in 1..size : rows[share[k]].tokens > 0 /\ rows[share[k]].tokens \in 0..MaxSeqLen
    BY <1>1, <2>2
  <2>4. TokensInAll(share, rows)
    BY <2>1, <2>3 DEF TokensInAll
  <2>5. IsMini(share, rows)
    <3>1. 1 \in 1..size
      BY <1>4
    <3>2. QED
      BY <1>4, <2>1, <2>3, <3>1 DEF IsMini
  <2>6. QED
    BY <2>1, <2>4, <2>5 DEF share
<1>8. n <= W * size
  BY <1>1, <1>2, <1>4
<1>9. QED
  BY <1>2, <1>4, <1>7, <1>8 DEF n, W

(* For the update: a rank has at most one row without tokens, the first of *)
(* its share, and the first rank has none.                                 *)
LEMMA MaskedSlots ==
  ASSUME SetupOK
  PROVE  LET mask == NoPaddingMask(Len(LoopRows), world_size)
         IN  \E size \in Nat :
               /\ size > 0 /\ mask \in [1..(world_size * size) -> BOOLEAN]
               /\ \A w \in Ranks : \A k \in 1..size :
                    /\ (w - 1) * size + k \in 1..(world_size * size)
                    /\ ~mask[(w - 1) * size + k] => k = 1 /\ w # 1
<1> DEFINE n == Len(LoopRows)
           W == world_size
           size == Dispatch!GroupSize(n, W)
           mask == NoPaddingMask(n, W)
<1>1. n \in Nat /\ n > 0 /\ W \in Nat /\ W > 0
  <2>1. W \in Nat /\ W > 0
    BY ConstantsAre DEF SetupOK
  <2>2. QED
    BY <2>1, LoopRowsShape
<1>2. n % W \in Nat
  BY <1>1, Division
<1>3. \A w \in Ranks : w \in Nat /\ w - 1 \in 0..(W - 1)
  BY <1>1 DEF Ranks
<1> HIDE DEF n, W
<1>4. size \in Nat /\ size > 0
  BY <1>1, SameAssumption, Dispatch!GroupSizeType
<1>5. mask \in [1..(W * size) -> BOOLEAN]
  <2>1. Dispatch!NoPaddingMask(n, W) \in [1..(W * Dispatch!GroupSize(n, W)) -> BOOLEAN]
    BY <1>1, SameAssumption, Dispatch!MaskType
  <2>2. QED
    BY <2>1, SameMask
<1>6. ASSUME NEW w \in Ranks, NEW k \in 1..size
      PROVE  /\ (w - 1) * size + k \in 1..(W * size)
             /\ ~mask[(w - 1) * size + k] => k = 1 /\ w # 1
  <2> DEFINE i == w - 1
             j == k - 1
             slot == (w - 1) * size + k
  <2>1. i \in 0..(W - 1) /\ i \in Nat
    BY <1>1, <1>3
  <2>2. k \in Nat /\ j \in 0..(size - 1)
    BY <1>4
  <2>3. slot = size * i + j + 1
    <3> HIDE DEF size
    <3>1. (w - 1) * size = size * i /\ size * i \in Int
      BY <1>4, <2>1
    <3>2. QED
      BY <2>2, <3>1
  <2> HIDE DEF i, j
  <2>4. slot \in 1..(W * size)
    <3> HIDE DEF slot, size
    <3>1. size * (i + 1) = size * i + size /\ size * i \in Nat
      BY <1>4, <2>1
    <3>2. size * (i + 1) <= W * size /\ W * size \in Nat
      BY <1>1, <1>4, <2>1
    <3>3. j \in Nat /\ j + 1 <= size
      BY <1>4, <2>2
    <3>4. QED
      BY <1>4, <2>3, <3>1, <3>2, <3>3
  <2>5. ASSUME ~mask[slot]
        PROVE  k = 1 /\ w # 1
    <3>1. n % W # 0
      <4> SUFFICES ASSUME n % W = 0 PROVE FALSE
        OBVIOUS
      <4>1. size = n \div W /\ n = W * (n \div W) + (n % W)
        BY <1>1, Division DEF Dispatch!GroupSize
      <4>2. n = W * size
        BY <1>1, <1>4, <4>1
      <4>3. mask = [x \in 1..n |-> TRUE]
        BY DEF NoPaddingMask
      <4> HIDE DEF size, slot, mask
      <4>4. QED
        BY <2>4, <2>5, <4>2, <4>3
    <3>2. Dispatch!NoPaddingMask(n, W)[size * i + j + 1] <=> (i < n % W \/ j # 0)
      BY <1>1, <2>1, <2>2, <3>1, SameAssumption, Dispatch!MaskOfSlot
    <3>3. j = 0 /\ ~(i < n % W)
      BY <2>3, <2>5, <3>2, SameMask
    <3>4. k = 1
      BY <2>2, <3>3 DEF j
    <3>5. w # 1
      BY <1>2, <3>1, <3>3 DEF i
    <3>6. QED
      BY <3>4, <3>5
  <2>6. QED
    BY <2>4, <2>5
<1>7. QED
  BY <1>4, <1>5, <1>6 DEF n, W

LEMMA MiniBatchesAre ==
  ASSUME NEW share \in Seq(Nat), Len(share) > 0
  PROVE  LET parts == Split(share, MiniBatchSize)
             c == CeilDiv(Len(share), MiniBatchSize)
             minis == MiniBatches("update_actor", share)
         IN  /\ c \in Nat /\ c > 0 /\ PpoEpochs * c \in Nat
             /\ DOMAIN minis = 1..(PpoEpochs * c) /\ Len(minis) = PpoEpochs * c
             /\ \A i \in 1..(PpoEpochs * c) :
                  ((i - 1) % c) + 1 \in 1..c /\ minis[i] = parts[((i - 1) % c) + 1]
<1> DEFINE parts == Split(share, MiniBatchSize)
           c == CeilDiv(Len(share), MiniBatchSize)
           N == PpoEpochs * c
           minis == MiniBatches("update_actor", share)
<1>1. /\ MiniBatchSize \in Nat /\ MiniBatchSize > 0 /\ PpoEpochs \in Nat
  BY ConstantsAre
<1>2. c \in Nat /\ c > 0 /\ Len(parts) = c
  BY <1>1, SplitIs
<1>3. minis = [i \in 1..(PpoEpochs * Len(parts)) |-> parts[((i - 1) % Len(parts)) + 1]]
  BY DEF MiniBatches
<1> HIDE DEF minis, parts, c
<1>4. N \in Nat /\ minis = [i \in 1..N |-> parts[((i - 1) % c) + 1]]
  BY <1>1, <1>2, <1>3
<1>5. Len(minis) = N /\ DOMAIN minis = 1..N
  <2> HIDE DEF N
  <2>1. minis = [i \in 1..N |-> minis[i]]
    BY <1>4
  <2>2. QED
    BY <1>4, <2>1, LengthOfFunction
<1>6. ASSUME NEW i \in 1..N
      PROVE  ((i - 1) % c) + 1 \in 1..c
  <2>1. i - 1 \in Nat
    BY <1>4
  <2>2. (i - 1) % c \in Nat /\ (i - 1) % c < c
    BY <1>2, <2>1, Division
  <2>3. QED
    BY <1>2, <2>2
<1>7. \A i \in 1..N : minis[i] = parts[((i - 1) % c) + 1]
  BY <1>4
<1>8. QED
  BY <1>2, <1>4, <1>5, <1>6, <1>7 DEF minis, parts, c

(* The batch of an update and the mini-batches of the ranks.               *)
IsUpdateBatch(rows, size) ==
  LET mask == NoPaddingMask(Len(LoopRows), world_size)
  IN  /\ size \in Nat /\ size > 0
      /\ mask \in [1..(world_size * size) -> BOOLEAN]
      /\ DOMAIN rows = 1..(world_size * size) /\ Len(rows) = world_size * size
      /\ \A k \in 1..(world_size * size) : /\ rows[k].row = PaddingIndex(mask)[k]
                                           /\ rows[k].tokens \in 0..MaxSeqLen
                                           /\ rows[k].tokens = 0 <=> ~mask[k]
      /\ \A w \in Ranks : \A k \in 1..size :
           /\ (w - 1) * size + k \in 1..(world_size * size)
           /\ rows[(w - 1) * size + k].tokens = 0 => k = 1 /\ w # 1

LEMMA UpdateMinis ==
  ASSUME SetupOK, NEW rows, NEW size, IsUpdateBatch(rows, size), NEW w \in Ranks
  PROVE  LET minis == MiniBatches("update_actor", ShareOf(w, rows))
             c == CeilDiv(size, MiniBatchSize)
         IN  /\ Len(minis) = PpoEpochs * c
             /\ \A i \in 1..Len(minis) :
                  /\ IsMini(minis[i], rows) /\ Len(minis[i]) <= MiniBatchSize
                  /\ w = 1 => TokensInAll(minis[i], rows)
                  /\ Len(minis[i]) = PartLen(size, MiniBatchSize, ((i - 1) % c) + 1)
<1> DEFINE share == ShareOf(w, rows)
           b == MiniBatchSize
           parts == Split(share, b)
           c == CeilDiv(Len(share), b)
           minis == MiniBatches("update_actor", share)
<1>1. /\ size \in Nat /\ size > 0 /\ Len(rows) = world_size * size
      /\ b \in Nat /\ b > 0
      /\ \A k \in 1..(world_size * size) : rows[k].tokens \in 0..MaxSeqLen
      /\ \A k \in 1..size : rows[(w - 1) * size + k].tokens = 0 => k = 1 /\ w # 1
  <2>1. b \in Nat /\ b > 0
    BY ConstantsAre
  <2>2. QED
    BY <2>1 DEF IsUpdateBatch
<1>2. /\ share \in Seq(Nat) /\ Len(share) = size
      /\ \A k \in 1..size : /\ share[k] = (w - 1) * size + k
                            /\ (w - 1) * size + k \in 1..(world_size * size)
  BY <1>1, ShareIs, Zenon
<1> HIDE DEF share, b
<1>3. \A k \in 1..size : /\ rows[share[k]].tokens \in 0..MaxSeqLen
                         /\ rows[share[k]].tokens = 0 => k = 1 /\ w # 1
  BY <1>1, <1>2
<1>4. /\ c \in Nat /\ c > 0 /\ parts \in Seq(Seq(Nat)) /\ Len(parts) = c
      /\ \A m \in 1..c :
           /\ PartLen(size, b, m) \in 1..b
           /\ b <= size => PartLen(size, b, 1) = b
           /\ Len(parts[m]) = PartLen(size, b, m)
           /\ \A a \in 1..PartLen(size, b, m) :
                (m - 1) * b + a \in 1..size /\ parts[m][a] = share[(m - 1) * b + a]
  <2>1. share \in Seq(Nat) /\ Len(share) > 0 /\ Len(share) = size /\ b \in Nat /\ b > 0
    BY <1>1, <1>2
  <2>2. QED
    BY ONLY <2>1, SplitIs, ZenonT(40)
<1> HIDE DEF parts
<1>5. ASSUME NEW m \in 1..c
      PROVE  /\ IsMini(parts[m], rows) /\ Len(parts[m]) <= b
             /\ w = 1 => TokensInAll(parts[m], rows)
             /\ Len(parts[m]) = PartLen(size, b, m)
  <2>1. PICK p : p = parts[m]
    OBVIOUS
  <2>2. PICK l : l = PartLen(size, b, m)
    OBVIOUS
  <2>3. p \in Seq(Nat) /\ Len(p) = l /\ l \in 1..b
    BY <1>4, <2>1, <2>2, ElementOfSeq, Zenon
  <2>4. \A a \in 1..l : (m - 1) * b + a \in 1..size /\ p[a] = share[(m - 1) * b + a]
    BY <1>4, <2>1, <2>2, Zenon
  <2>5. \A a \in 1..l : rows[p[a]].tokens \in 0..MaxSeqLen
    BY <1>3, <2>4
  <2>6. \A a \in 1..l : rows[p[a]].tokens = 0 => (m - 1) * b + a = 1 /\ w # 1
    BY <1>3, <2>4
(* Only its first row may be without tokens.                               *)
  <2>7. \A a \in 1..l : rows[p[a]].tokens = 0 => a = 1 /\ w # 1
    <3> SUFFICES ASSUME NEW a \in 1..l, rows[p[a]].tokens = 0 PROVE a = 1 /\ w # 1
      OBVIOUS
    <3>1. (m - 1) * b + a = 1 /\ w # 1
      BY <2>6
    <3>2. m \in Nat /\ m >= 1 /\ a \in Nat /\ a >= 1
      BY <1>4, <2>3
    <3>3. (m - 1) * b \in Nat
      BY <1>1, <3>2
    <3>4. QED
      BY <3>1, <3>2, <3>3
  <2>8. MaxSeqLen \in Nat
    BY ConstantsAre
  <2>9. \A a \in 1..l : rows[p[a]].tokens = 0 \/ rows[p[a]].tokens > 0
    BY <2>5, <2>8
  <2>10. \E z \in 1..l : \A a \in 1..l : a # z => rows[p[a]].tokens > 0
    <3>1. 1 \in 1..l
      BY <2>3
    <3>2. \A a \in 1..l : a # 1 => rows[p[a]].tokens > 0
      BY <2>7, <2>9
    <3>3. QED
      BY <3>1, <3>2
  <2>11. Len(p) > 0
    BY <2>3
  <2>12. IsMini(p, rows)
    BY <2>3, <2>5, <2>10, <2>11 DEF IsMini
  <2>13. Len(p) <= b
    BY <1>1, <2>3
  <2>14. w = 1 => TokensInAll(p, rows)
    BY <2>3, <2>7, <2>9 DEF TokensInAll
  <2>15. QED
    BY <2>1, <2>2, <2>3, <2>12, <2>13, <2>14
<1>6. /\ Len(minis) = PpoEpochs * c
      /\ \A i \in 1..Len(minis) :
           ((i - 1) % c) + 1 \in 1..c /\ minis[i] = parts[((i - 1) % c) + 1]
  <2>1. share \in Seq(Nat) /\ Len(share) > 0
    BY <1>1, <1>2
  <2>2. /\ Len(minis) = PpoEpochs * c
        /\ \A i \in 1..(PpoEpochs * c) :
             ((i - 1) % c) + 1 \in 1..c /\ minis[i] = parts[((i - 1) % c) + 1]
    BY <2>1, MiniBatchesAre DEF b, parts
  <2>3. QED
    BY <2>2
<1>7. c = CeilDiv(size, b)
  BY <1>2
<1> HIDE DEF minis, c
<1>8. \A i \in 1..Len(minis) :
        /\ IsMini(minis[i], rows) /\ Len(minis[i]) <= b
        /\ w = 1 => TokensInAll(minis[i], rows)
        /\ Len(minis[i]) = PartLen(size, b, ((i - 1) % c) + 1)
  <2> TAKE i \in 1..Len(minis)
  <2>1. PICK m \in 1..c : m = ((i - 1) % c) + 1 /\ minis[i] = parts[m]
    BY <1>6
  <2>2. QED
    BY <1>5, <2>1
<1>9. QED
  BY <1>6, <1>7, <1>8 DEF minis, share, b

(* Where a rank stands in the work of a call: before the mini-batch is     *)
(* cut, or so many passes into it.                                         *)
Working(a, mini, parts, out, rows) ==
  \/ parts = <<>> /\ out = <<>> /\ a.micro = 1
  \/ /\ IsCutOf(parts, mini, rows)
     /\ a.micro \in 1..(Len(parts) + 1)
     /\ out = PassesOf(rows, mini, parts, a.micro - 1)

LogProbRank(a, minis, parts, out, share, rows) ==
  /\ minis = <<share>>
  /\ \/ a.call = "compute_log_prob" /\ a.mini = 1 /\ Working(a, share, parts, out, rows)
     \/ /\ a.call = "none" /\ parts = <<>>
        /\ out = [r \in 1..Len(share) |-> Pass(rows, share[r])]

(* The steps of the optimizer, each after the passes over a mini-batch.    *)
Trained(st, n, minis, rows) ==
  /\ st = [i \in 1..n |-> st[i]]
  /\ \A i \in 1..n : \E parts : /\ IsCutOf(parts, minis[i], rows)
                                /\ st[i] = PassesOf(rows, minis[i], parts, Len(parts))

UpdateRank(a, minis, parts, out, st, share, rows) ==
  /\ minis = MiniBatches("update_actor", share)
  /\ \/ /\ a.call = "update_actor" /\ a.mini \in 1..(Len(minis) + 1)
        /\ Trained(st, a.mini - 1, minis, rows)
        /\ Working(a, minis[a.mini], parts, out, rows)
        /\ parts # <<>> => a.mini <= Len(minis)
     \/ a.call = "none" /\ parts = <<>> /\ out = <<>> /\ Trained(st, Len(minis), minis, rows)

RankOK(p, a, minis, parts, out, st, share, rows) ==
  /\ p \in {"rollout", "reward", "advantage"} =>
       a.call = "none" /\ parts = <<>> /\ out = <<>> /\ st = <<>>
  /\ p = "log_prob" => st = <<>> /\ LogProbRank(a, minis, parts, out, share, rows)
  /\ p = "update" => UpdateRank(a, minis, parts, out, st, share, rows)
  /\ p = "done" => a.call = "none" /\ parts = <<>>

(* One more element on a sequence that is given as a function.             *)
LEMMA AppendIs ==
  ASSUME NEW n \in Nat, NEW f, f = [i \in 1..n |-> f[i]], NEW x
  PROVE  Append(f, x) = [i \in 1..(n + 1) |-> IF i <= n THEN f[i] ELSE x]
<1> DEFINE S == {f[i] : i \in 1..n} \cup {x}
           g == Append(f, x)
<1>1. f \in [1..n -> S] /\ x \in S
  OBVIOUS
<1> HIDE DEF S
<1>2. f \in Seq(S) /\ Len(f) = n
  BY <1>1, FunctionIsSequence
<1>3. /\ g \in Seq(S) /\ Len(g) = n + 1
      /\ \A i \in 1..n : g[i] = f[i]
      /\ g[n + 1] = x
  BY <1>1, <1>2, AppendProperties
<1> HIDE DEF g
<1>4. g = [i \in 1..(n + 1) |-> g[i]]
  BY <1>3, LenProperties
<1>5. \A i \in 1..(n + 1) : g[i] = IF i <= n THEN f[i] ELSE x
  <2> TAKE i \in 1..(n + 1)
  <2>1. CASE i <= n
    BY <1>3, <2>1
  <2>2. CASE ~(i <= n)
    <3>1. i = n + 1
      BY <2>2
    <3>2. QED
      BY <1>3, <2>2, <3>1
  <2>3. QED
    BY <2>1, <2>2
<1>6. QED
  BY <1>4, <1>5 DEF g

LEMMA NoPasses ==
  ASSUME NEW rows, NEW mini, NEW parts
  PROVE  PassesOf(rows, mini, parts, 0) = <<>>
<1>1. 1..0 = {}
  OBVIOUS
<1>2. QED
  BY <1>1 DEF PassesOf

LEMMA PassesGrow ==
  ASSUME NEW rows, NEW mini, NEW parts, NEW m \in Nat
  PROVE  Append(PassesOf(rows, mini, parts, m),
                [a \in DOMAIN parts[m + 1] |-> Pass(rows, mini[parts[m + 1][a]])])
           = PassesOf(rows, mini, parts, m + 1)
<1> DEFINE f == PassesOf(rows, mini, parts, m)
           pass(i) == [a \in DOMAIN parts[i] |-> Pass(rows, mini[parts[i][a]])]
<1>1. f = [i \in 1..m |-> pass(i)] /\ PassesOf(rows, mini, parts, m + 1) = [i \in 1..(m + 1) |-> pass(i)]
  BY DEF PassesOf
<1> HIDE DEF f, pass
<1>2. f = [i \in 1..m |-> f[i]]
  BY <1>1
<1>3. Append(f, pass(m + 1)) = [i \in 1..(m + 1) |-> IF i <= m THEN f[i] ELSE pass(m + 1)]
  BY <1>2, AppendIs
<1>4. \A i \in 1..(m + 1) : (IF i <= m THEN f[i] ELSE pass(m + 1)) = pass(i)
  <2> TAKE i \in 1..(m + 1)
  <2>1. CASE i <= m
    <3>1. i \in 1..m
      BY <2>1
    <3>2. QED
      BY <1>1, <2>1, <3>1
  <2>2. CASE ~(i <= m)
    <3>1. i = m + 1
      BY <2>2
    <3>2. QED
      BY <2>2, <3>1
  <2>3. QED
    BY <2>1, <2>2
<1>5. QED
  BY <1>1, <1>3, <1>4 DEF f, pass

(* What a rank does, one operation at a time.                              *)
Phases == {"rollout", "reward", "log_prob", "advantage", "update", "done"}

LEMMA SameStanding ==
  ASSUME NEW p, NEW a, NEW minis, NEW parts, NEW out, NEW st, NEW share, NEW rows,
         RankOK(p, a, minis, parts, out, st, share, rows),
         NEW b, b.call = a.call, b.mini = a.mini, b.micro = a.micro
  PROVE  RankOK(p, b, minis, parts, out, st, share, rows)
<1>1. \A mini : Working(a, mini, parts, out, rows) => Working(b, mini, parts, out, rows)
  BY DEF Working
<1>2. LogProbRank(a, minis, parts, out, share, rows) => LogProbRank(b, minis, parts, out, share, rows)
  BY <1>1 DEF LogProbRank
<1>3. UpdateRank(a, minis, parts, out, st, share, rows)
        => UpdateRank(b, minis, parts, out, st, share, rows)
  BY <1>1 DEF UpdateRank
<1>4. QED
  BY <1>2, <1>3 DEF RankOK

(* The phase and the call belong together.                                 *)
LEMMA PhaseOfCall ==
  ASSUME NEW p \in Phases, NEW a, NEW minis, NEW parts, NEW out, NEW st, NEW share, NEW rows,
         RankOK(p, a, minis, parts, out, st, share, rows), a.call # "none"
  PROVE  \/ /\ p = "log_prob" /\ a.call = "compute_log_prob" /\ st = <<>>
            /\ minis = <<share>> /\ a.mini = 1 /\ Working(a, share, parts, out, rows)
         \/ /\ p = "update" /\ a.call = "update_actor"
            /\ minis = MiniBatches("update_actor", share)
            /\ a.mini \in 1..(Len(minis) + 1)
            /\ Trained(st, a.mini - 1, minis, rows)
            /\ Working(a, minis[a.mini], parts, out, rows)
            /\ parts # <<>> => a.mini <= Len(minis)
<1>1. CASE p \in {"rollout", "reward", "advantage", "done"}
  BY <1>1 DEF RankOK
<1>2. CASE p = "log_prob"
  BY <1>2 DEF RankOK, LogProbRank
<1>3. CASE p = "update"
  BY <1>3 DEF RankOK, UpdateRank
<1>4. QED
  BY <1>1, <1>2, <1>3 DEF Phases

LEMMA CountKeeps ==
  ASSUME NEW p \in Phases, NEW a \in Standing, NEW minis, NEW parts, NEW out, NEW st,
         NEW share, NEW rows, RankOK(p, a, minis, parts, out, st, share, rows),
         a.call # "none", a.mini <= Len(minis), parts = <<>>,
         NEW cut, IsCutOf(cut, minis[a.mini], rows),
         NEW b, b = [a EXCEPT !.micro = 1, !.entered = FALSE]
  PROVE  RankOK(p, b, minis, cut, out, st, share, rows)
<1>1. b.call = a.call /\ b.mini = a.mini /\ b.micro = 1
  BY DEF Standing
<1>2. cut # <<>> /\ Len(cut) \in Nat
  <2>1. cut # <<>> /\ cut \in Seq(Seq(Nat))
    BY DEF IsCutOf, Divides
  <2>2. QED
    BY <2>1, LenProperties
<1>3. ASSUME NEW mini, Working(a, mini, parts, out, rows), IsCutOf(cut, mini, rows)
      PROVE  Working(b, mini, cut, out, rows)
  <2>1. out = <<>>
    BY <1>3 DEF Working, IsCutOf
  <2>2. b.micro \in 1..(Len(cut) + 1) /\ b.micro - 1 = 0
    BY <1>1, <1>2
  <2>3. out = PassesOf(rows, mini, cut, b.micro - 1)
    BY <2>1, <2>2, NoPasses
  <2>4. QED
    BY <1>3, <2>2, <2>3 DEF Working
<1>4. CASE /\ p = "log_prob" /\ a.call = "compute_log_prob" /\ st = <<>>
           /\ minis = <<share>> /\ a.mini = 1 /\ Working(a, share, parts, out, rows)
  <2>1. minis[a.mini] = share
    BY <1>4
  <2>2. Working(b, share, cut, out, rows)
    BY <1>3, <1>4, <2>1
  <2>3. QED
    BY <1>1, <1>4, <2>2 DEF RankOK, LogProbRank
<1>5. CASE /\ p = "update" /\ a.call = "update_actor"
           /\ minis = MiniBatches("update_actor", share)
           /\ a.mini \in 1..(Len(minis) + 1)
           /\ Trained(st, a.mini - 1, minis, rows)
           /\ Working(a, minis[a.mini], parts, out, rows)
           /\ parts # <<>> => a.mini <= Len(minis)
  <2>1. Working(b, minis[a.mini], cut, out, rows)
    BY <1>3, <1>5
  <2>2. UpdateRank(b, minis, cut, out, st, share, rows)
    BY <1>1, <1>5, <2>1 DEF UpdateRank
  <2>3. QED
    BY <1>5, <2>2 DEF RankOK
<1>6. QED
  BY <1>4, <1>5, PhaseOfCall

LEMMA ForwardKeeps ==
  ASSUME NEW p \in Phases, NEW a \in Standing, NEW minis, NEW parts, NEW out, NEW st,
         NEW share, NEW rows, RankOK(p, a, minis, parts, out, st, share, rows),
         a.call # "none", parts # <<>>, a.micro <= Len(parts),
         NEW more, more = [k \in DOMAIN parts[a.micro] |->
                             Pass(rows, minis[a.mini][parts[a.micro][k]])],
         NEW b, b = [a EXCEPT !.micro = @ + 1, !.entered = FALSE]
  PROVE  RankOK(p, b, minis, parts, Append(out, more), st, share, rows)
<1>1. b.call = a.call /\ b.mini = a.mini /\ b.micro = a.micro + 1 /\ a.micro \in Nat /\ a.micro > 0
  BY DEF Standing
<1>2. ASSUME NEW mini, mini = minis[a.mini], Working(a, mini, parts, out, rows)
      PROVE  Working(b, mini, parts, Append(out, more), rows)
  <2>1. /\ IsCutOf(parts, mini, rows)
        /\ out = PassesOf(rows, mini, parts, a.micro - 1)
    BY <1>2 DEF Working
  <2>2. Len(parts) \in Nat
    <3>1. parts \in Seq(Seq(Nat))
      BY <2>1 DEF IsCutOf, Divides
    <3>2. QED
      BY <3>1, LenProperties
  <2>3. b.micro \in 1..(Len(parts) + 1) /\ b.micro - 1 = a.micro
    BY <1>1, <2>2
  <2>4. Append(out, more) = PassesOf(rows, mini, parts, a.micro)
    <3>1. PICK m \in Nat : m = a.micro - 1 /\ m + 1 = a.micro
      BY <1>1
    <3>2. Append(PassesOf(rows, mini, parts, m),
                 [k \in DOMAIN parts[m + 1] |-> Pass(rows, mini[parts[m + 1][k]])])
            = PassesOf(rows, mini, parts, m + 1)
      BY PassesGrow, Zenon
    <3>3. more = [k \in DOMAIN parts[m + 1] |-> Pass(rows, mini[parts[m + 1][k]])]
      BY <1>2, <3>1
    <3>4. QED
      BY <2>1, <3>1, <3>2, <3>3
  <2>5. QED
    BY <2>1, <2>3, <2>4 DEF Working
<1>3. CASE /\ p = "log_prob" /\ a.call = "compute_log_prob" /\ st = <<>>
           /\ minis = <<share>> /\ a.mini = 1 /\ Working(a, share, parts, out, rows)
  <2>1. minis[a.mini] = share
    BY <1>3
  <2>2. Working(b, share, parts, Append(out, more), rows)
    BY <1>2, <1>3, <2>1
  <2>3. QED
    BY <1>1, <1>3, <2>2 DEF RankOK, LogProbRank
<1>4. CASE /\ p = "update" /\ a.call = "update_actor"
           /\ minis = MiniBatches("update_actor", share)
           /\ a.mini \in 1..(Len(minis) + 1)
           /\ Trained(st, a.mini - 1, minis, rows)
           /\ Working(a, minis[a.mini], parts, out, rows)
           /\ parts # <<>> => a.mini <= Len(minis)
  <2>1. Working(b, minis[a.mini], parts, Append(out, more), rows)
    BY <1>2, <1>4
  <2>2. UpdateRank(b, minis, parts, Append(out, more), st, share, rows)
    BY <1>1, <1>4, <2>1 DEF UpdateRank
  <2>3. QED
    BY <1>4, <2>2 DEF RankOK
<1>5. QED
  BY <1>3, <1>4, PhaseOfCall

LEMMA StepKeeps ==
  ASSUME NEW p \in Phases, NEW a \in Standing, NEW minis, NEW parts, NEW out, NEW st,
         NEW share \in Seq(Nat), Len(share) > 0, NEW rows,
         RankOK(p, a, minis, parts, out, st, share, rows),
         a.call # "none", a.call # "compute_log_prob", parts # <<>>, ~(a.micro <= Len(parts)),
         NEW b, b = [a EXCEPT !.mini = @ + 1, !.micro = 1, !.entered = FALSE]
  PROVE  RankOK(p, b, minis, <<>>, <<>>, Append(st, out), share, rows)
<1>1. b.call = a.call /\ b.mini = a.mini + 1 /\ b.micro = 1 /\ a.micro \in Nat /\ a.mini \in Nat
  BY DEF Standing
<1>2. /\ p = "update" /\ a.call = "update_actor"
      /\ minis = MiniBatches("update_actor", share)
      /\ a.mini \in 1..(Len(minis) + 1)
      /\ Trained(st, a.mini - 1, minis, rows)
      /\ Working(a, minis[a.mini], parts, out, rows)
      /\ a.mini <= Len(minis)
  BY PhaseOfCall
<1>3. Len(minis) \in Nat
  BY <1>2, MiniBatchesAre
<1>4. /\ IsCutOf(parts, minis[a.mini], rows)
      /\ out = PassesOf(rows, minis[a.mini], parts, Len(parts))
  <2>1. /\ IsCutOf(parts, minis[a.mini], rows)
        /\ a.micro \in 1..(Len(parts) + 1)
        /\ out = PassesOf(rows, minis[a.mini], parts, a.micro - 1)
    BY <1>2 DEF Working
  <2>2. Len(parts) \in Nat
    <3>1. parts \in Seq(Seq(Nat))
      BY <2>1 DEF IsCutOf, Divides
    <3>2. QED
      BY <3>1, LenProperties
  <2>3. a.micro - 1 = Len(parts)
    BY <1>1, <2>1, <2>2
  <2>4. QED
    BY <2>1, <2>3
<1>5. Trained(Append(st, out), b.mini - 1, minis, rows)
  <2>1. PICK n \in Nat : n = a.mini - 1 /\ n + 1 = a.mini /\ b.mini - 1 = n + 1
    BY <1>1, <1>2
  <2>2. /\ st = [i \in 1..n |-> st[i]]
        /\ \A i \in 1..n : \E cut : /\ IsCutOf(cut, minis[i], rows)
                                    /\ st[i] = PassesOf(rows, minis[i], cut, Len(cut))
    BY <1>2, <2>1 DEF Trained
  <2> DEFINE s == Append(st, out)
  <2>3. s = [i \in 1..(n + 1) |-> IF i <= n THEN st[i] ELSE out]
    BY <2>2, AppendIs
  <2> HIDE DEF s
  <2>4. s = [i \in 1..(n + 1) |-> s[i]]
    BY <2>3
  <2>5. ASSUME NEW i \in 1..(n + 1)
        PROVE  \E cut : /\ IsCutOf(cut, minis[i], rows)
                        /\ s[i] = PassesOf(rows, minis[i], cut, Len(cut))
    <3>1. CASE i <= n
      <4>1. i \in 1..n /\ s[i] = st[i]
        BY <2>3, <3>1
      <4>2. QED
        BY <2>2, <4>1
    <3>2. CASE ~(i <= n)
      <4>1. i = a.mini
        BY <2>1, <3>2
      <4>2. s[i] = out
        BY <2>3, <3>2
      <4>3. QED
        BY <1>4, <4>1, <4>2
    <3>3. QED
      BY <3>1, <3>2
  <2>6. Trained(s, n + 1, minis, rows)
    BY <2>4, <2>5 DEF Trained
  <2>7. QED
    BY <2>1, <2>6 DEF s
<1>6. b.mini \in 1..(Len(minis) + 1)
  BY <1>1, <1>2, <1>3
<1>7. Working(b, minis[b.mini], <<>>, <<>>, rows)
  BY <1>1 DEF Working
<1>8. UpdateRank(b, minis, <<>>, <<>>, Append(st, out), share, rows)
  BY <1>1, <1>2, <1>5, <1>6, <1>7 DEF UpdateRank
<1>9. QED
  BY <1>2, <1>8 DEF RankOK

LEMMA ReturnLogProbKeeps ==
  ASSUME NEW p \in Phases, NEW a \in Standing, NEW minis, NEW parts, NEW out, NEW st,
         NEW share \in Seq(Nat), NEW rows,
         RankOK(p, a, minis, parts, out, st, share, rows),
         a.call = "compute_log_prob", parts # <<>>,
         a.mini > Len(minis) \/ ~(a.micro <= Len(parts))
  PROVE  RankOK(p, Idle, minis, <<>>, RestoreDynamicBatch(FlattenSeq(out), parts), st, share, rows)
<1>1. /\ p = "log_prob" /\ st = <<>> /\ minis = <<share>> /\ a.mini = 1
      /\ Working(a, share, parts, out, rows)
  BY PhaseOfCall
<1>2. /\ IsCutOf(parts, share, rows)
      /\ a.micro \in 1..(Len(parts) + 1)
      /\ out = PassesOf(rows, share, parts, a.micro - 1)
  BY <1>1 DEF Working
<1>3. Len(parts) \in Nat
  <2>1. parts \in Seq(Seq(Nat))
    BY <1>2 DEF IsCutOf, Divides
  <2>2. QED
    BY <2>1, LenProperties
<1>4. ~(a.micro <= Len(parts))
  BY <1>1
<1>5. a.micro - 1 = Len(parts)
  BY <1>2, <1>3, <1>4
<1> DEFINE n == Len(share)
           f == [r \in 1..n |-> Pass(rows, share[r])]
<1>6. n \in Nat
  BY LenProperties
<1>7. Divides(parts, Len(parts), n)
  BY <1>2 DEF IsCutOf
<1>8. out = [m \in 1..Len(parts) |-> [k \in DOMAIN parts[m] |-> f[parts[m][k]]]]
  <2>1. out = [m \in 1..Len(parts) |-> [k \in DOMAIN parts[m] |-> Pass(rows, share[parts[m][k]])]]
    BY <1>2, <1>5 DEF PassesOf
  <2>2. \A m \in 1..Len(parts) : \A k \in DOMAIN parts[m] : parts[m][k] \in 1..n
    <3> TAKE m \in 1..Len(parts)
    <3>1. parts[m] \in Seq(Nat)
      <4>1. parts \in Seq(Seq(Nat))
        BY <1>7 DEF Divides
      <4>2. QED
        BY <4>1, ElementOfSeq
    <3>2. DOMAIN parts[m] = 1..Len(parts[m])
      BY <3>1, LenProperties
    <3>3. QED
      BY <1>7, <3>2, Zenon DEF Divides
  <2>3. \A r \in 1..n : f[r] = Pass(rows, share[r])
    OBVIOUS
  <2> HIDE DEF n, f
  <2>4. \A m \in 1..Len(parts) :
          [k \in DOMAIN parts[m] |-> f[parts[m][k]]]
            = [k \in DOMAIN parts[m] |-> Pass(rows, share[parts[m][k]])]
    BY <2>2, <2>3
  <2>5. QED
    BY <2>1, <2>4, Zenon
<1> HIDE DEF n, f
<1>9. RestoreDynamicBatch(FlattenSeq(out), parts) = [r \in 1..n |-> f[r]]
  <2>1. Divides(parts, Len(parts), n) /\ parts # <<>>
    BY <1>7
  <2>2. RestoreDynamicBatch(FlattenSeq(ResultsOf(parts, f)), parts) = Each(n, f)
    BY ONLY <2>1, <1>6, RestoreIs
  <2>3. out = ResultsOf(parts, f) /\ Each(n, f) = [r \in 1..n |-> f[r]]
    BY <1>8 DEF ResultsOf, Each
  <2>4. QED
    BY ONLY <2>2, <2>3
<1>10. RestoreDynamicBatch(FlattenSeq(out), parts) = [r \in 1..Len(share) |-> Pass(rows, share[r])]
  BY <1>9 DEF f, n
<1>11. Idle.call = "none"
  BY DEF Idle
<1>12. LogProbRank(Idle, minis, <<>>, RestoreDynamicBatch(FlattenSeq(out), parts), share, rows)
  BY <1>1, <1>10, <1>11 DEF LogProbRank
<1>13. QED
  BY <1>1, <1>12 DEF RankOK

LEMMA ReturnUpdateKeeps ==
  ASSUME NEW p \in Phases, NEW a \in Standing, NEW minis, NEW parts, NEW out, NEW st,
         NEW share \in Seq(Nat), Len(share) > 0, NEW rows,
         RankOK(p, a, minis, parts, out, st, share, rows),
         a.call = "update_actor", a.mini > Len(minis)
  PROVE  RankOK(p, Idle, minis, parts, out, st, share, rows)
<1>1. /\ p = "update" /\ minis = MiniBatches("update_actor", share)
      /\ a.mini \in 1..(Len(minis) + 1)
      /\ Trained(st, a.mini - 1, minis, rows)
      /\ Working(a, minis[a.mini], parts, out, rows)
      /\ parts # <<>> => a.mini <= Len(minis)
  BY PhaseOfCall
<1>2. Len(minis) \in Nat
  BY <1>1, MiniBatchesAre
<1>3. a.mini - 1 = Len(minis) /\ ~(a.mini <= Len(minis))
  BY <1>1, <1>2
<1>4. parts = <<>>
  BY <1>1, <1>3
<1>5. out = <<>>
  BY <1>1, <1>4 DEF Working, IsCutOf
<1>6. Idle.call = "none"
  BY DEF Idle
<1>7. UpdateRank(Idle, minis, parts, out, st, share, rows)
  BY <1>1, <1>3, <1>4, <1>5, <1>6 DEF UpdateRank
<1>8. QED
  BY <1>1, <1>7 DEF RankOK

(* The invariant of the ranks, beside that of the driver: how far each is  *)
(* in its share, and what it has computed there. ForwardsAreSound and      *)
(* EveryRowTrainedOnce say nothing of the calls under way, nor             *)
(* LogProbsAreOwn of the results before they are joined.                   *)
ShapesOK ==
  /\ mini_batches = [w \in Ranks |-> mini_batches[w]]
  /\ micro_batches = [w \in Ranks |-> micro_batches[w]]
  /\ output = [w \in Ranks |-> output[w]]
  /\ steps = [w \in Ranks |-> steps[w]]

RanksOK ==
  \A w \in Ranks : RankOK(phase, at[w], mini_batches[w], micro_batches[w], output[w],
                          steps[w], ShareOf(w, batch), batch)

LogsOwn(rows) == \A k \in DOMAIN rows : rows[k].log_prob = rows[k].row

LogsOK == phase \in {"advantage", "update", "done"} => LogsOwn(batch)

TrainedOK == phase = "done" => \A k \in 1..Len(LoopRows) : TimesTrained(k) = PpoEpochs

RInv == ShapesOK /\ RanksOK /\ LogsOK /\ TrainedOK

LEMMA SomeRank ==
  ASSUME IInv
  PROVE  1 \in Ranks /\ world_size \in Nat /\ world_size > 0 /\ phase \in Phases
<1>1. world_size \in 1..MaxWorld /\ MaxWorld \in Nat
  BY ConstantsAre DEF IInv, SetupOK
<1>2. QED
  BY <1>1 DEF Ranks, IInv, LoopOK, Phases

(* The batch of an update, as the driver's invariant has it.               *)
LEMMA UpdateBatchIs ==
  ASSUME IInv, phase = "update"
  PROVE  \E size : IsUpdateBatch(batch, size)
<1> DEFINE mask == NoPaddingMask(Len(LoopRows), world_size)
<1>1. PICK size \in Nat :
        /\ size > 0 /\ mask \in [1..(world_size * size) -> BOOLEAN]
        /\ \A w \in Ranks : \A k \in 1..size :
             /\ (w - 1) * size + k \in 1..(world_size * size)
             /\ ~mask[(w - 1) * size + k] => k = 1 /\ w # 1
  BY MaskedSlots DEF IInv
<1>2. /\ batch = [k \in DOMAIN mask |-> batch[k]]
      /\ \A k \in DOMAIN mask : /\ batch[k].row = PaddingIndex(mask)[k]
                                /\ batch[k].tokens \in 0..MaxSeqLen
                                /\ batch[k].tokens = 0 <=> ~mask[k]
  BY DEF IInv, BatchOK
<1> DEFINE L == world_size * size
<1>3. L \in Nat
  BY SomeRank
<1>4. mask \in [1..L -> BOOLEAN] /\ DOMAIN mask = 1..L
  BY <1>1
<1> HIDE DEF mask, L
<1>5. DOMAIN batch = 1..L /\ Len(batch) = L
  <2>1. batch = [k \in 1..L |-> batch[k]]
    BY <1>2, <1>4
  <2>2. QED
    BY <1>3, <2>1, LengthOfFunction
<1>6. \A k \in 1..L : /\ batch[k].row = PaddingIndex(mask)[k]
                      /\ batch[k].tokens \in 0..MaxSeqLen
                      /\ batch[k].tokens = 0 <=> ~mask[k]
  BY <1>2, <1>4
<1>7. \A w \in Ranks : \A k \in 1..size :
        /\ (w - 1) * size + k \in 1..L
        /\ batch[(w - 1) * size + k].tokens = 0 => k = 1 /\ w # 1
  <2>1. \A w \in Ranks : \A k \in 1..size :
          /\ (w - 1) * size + k \in 1..L
          /\ ~mask[(w - 1) * size + k] => k = 1 /\ w # 1
    BY <1>1 DEF mask, L
  <2>2. QED
    BY <1>6, <2>1
<1>8. IsUpdateBatch(batch, size)
  BY <1>1, <1>4, <1>5, <1>6, <1>7 DEF IsUpdateBatch, mask, L
<1>9. QED
  BY <1>8

LEMMA UpdateShare ==
  ASSUME SetupOK, NEW rows, NEW size, IsUpdateBatch(rows, size), NEW w \in Ranks
  PROVE  ShareOf(w, rows) \in Seq(Nat) /\ Len(ShareOf(w, rows)) = size /\ size > 0
<1>1. size \in Nat /\ size > 0 /\ Len(rows) = world_size * size
  BY DEF IsUpdateBatch
<1>2. QED
  BY <1>1, ShareIs

(* In a call every rank has a share.                                       *)
LEMMA SharesAre ==
  ASSUME IInv, phase \in {"log_prob", "update"}, NEW w \in Ranks
  PROVE  ShareOf(w, batch) \in Seq(Nat) /\ Len(ShareOf(w, batch)) > 0
<1>1. CASE phase = "log_prob"
  <2>1. batch = PadToDivisor(Source, world_size)
    BY <1>1 DEF IInv, BatchOK
  <2>2. IsMini(ShareOf(w, batch), batch)
    BY <2>1, LogProbShares DEF IInv
  <2>3. QED
    BY <2>2 DEF IsMini
<1>2. CASE phase = "update"
  <2>1. PICK size : IsUpdateBatch(batch, size)
    BY <1>2, UpdateBatchIs
  <2>2. QED
    BY <2>1, UpdateShare DEF IInv
<1>3. QED
  BY <1>1, <1>2

(* A rank in a call: the phase is that of the call.                        *)
LEMMA CallOfRank ==
  ASSUME IInv, RInv, NEW w \in Ranks, at[w].call # "none"
  PROVE  LET share == ShareOf(w, batch)
         IN  \/ /\ phase = "log_prob" /\ at[w].call = "compute_log_prob" /\ steps[w] = <<>>
                /\ mini_batches[w] = <<share>> /\ at[w].mini = 1
                /\ Working(at[w], share, micro_batches[w], output[w], batch)
             \/ /\ phase = "update" /\ at[w].call = "update_actor"
                /\ mini_batches[w] = MiniBatches("update_actor", share)
                /\ at[w].mini \in 1..(Len(mini_batches[w]) + 1)
                /\ Trained(steps[w], at[w].mini - 1, mini_batches[w], batch)
                /\ Working(at[w], mini_batches[w][at[w].mini], micro_batches[w], output[w], batch)
                /\ micro_batches[w] # <<>> => at[w].mini <= Len(mini_batches[w])
<1> DEFINE share == ShareOf(w, batch)
<1>1. RankOK(phase, at[w], mini_batches[w], micro_batches[w], output[w], steps[w], share, batch)
  BY DEF RInv, RanksOK
<1>2. phase \in Phases
  BY SomeRank
<1> HIDE DEF share
<1>3. \/ /\ phase = "log_prob" /\ at[w].call = "compute_log_prob" /\ steps[w] = <<>>
         /\ mini_batches[w] = <<share>> /\ at[w].mini = 1
         /\ Working(at[w], share, micro_batches[w], output[w], batch)
      \/ /\ phase = "update" /\ at[w].call = "update_actor"
         /\ mini_batches[w] = MiniBatches("update_actor", share)
         /\ at[w].mini \in 1..(Len(mini_batches[w]) + 1)
         /\ Trained(steps[w], at[w].mini - 1, mini_batches[w], batch)
         /\ Working(at[w], mini_batches[w][at[w].mini], micro_batches[w], output[w], batch)
         /\ micro_batches[w] # <<>> => at[w].mini <= Len(mini_batches[w])
  BY ONLY <1>1, <1>2, at[w].call # "none", PhaseOfCall
<1>4. QED
  BY <1>3 DEF share

(* A step of the ranks that leaves each of them right.                     *)
LEMMA RanksStep ==
  ASSUME IInv, RInv, UNCHANGED <<fixed, driver>>, phase # "done",
         mini_batches' = [w \in Ranks |-> mini_batches'[w]],
         micro_batches' = [w \in Ranks |-> micro_batches'[w]],
         output' = [w \in Ranks |-> output'[w]],
         steps' = [w \in Ranks |-> steps'[w]],
         \A w \in Ranks : RankOK(phase, at'[w], mini_batches'[w], micro_batches'[w],
                                 output'[w], steps'[w], ShareOf(w, batch), batch)
  PROVE  RInv'
<1>1. phase' = phase /\ batch' = batch /\ world_size' = world_size
  BY DEF driver, fixed
<1>2. Ranks' = Ranks /\ \A w, rows : ShareOf(w, rows)' = ShareOf(w, rows')
  BY <1>1 DEF Ranks, ShareOf
<1>3. ShapesOK'
  BY <1>2 DEF ShapesOK
<1>4. \A w : ShareOf(w, batch)' = ShareOf(w, batch)
  BY <1>1 DEF ShareOf
<1>5. RanksOK'
  BY <1>1, <1>2, <1>4 DEF RanksOK
<1>6. LogsOK'
  BY <1>1 DEF RInv, LogsOK
<1>7. TrainedOK'
  BY <1>1 DEF TrainedOK
<1>8. QED
  BY <1>3, <1>5, <1>6, <1>7 DEF RInv

(* One operation after another leaves every rank right.                    *)
LEMMA EnterRanks ==
  ASSUME IInv, RInv, NEW v \in Ranks, Enter(v)
  PROVE  RInv'
<1>1. /\ UNCHANGED <<fixed, driver>> /\ at' = [at EXCEPT ![v].entered = TRUE]
      /\ mini_batches' = mini_batches /\ micro_batches' = micro_batches
      /\ output' = output /\ steps' = steps
      /\ at[v].call # "none"
  BY DEF Enter, NextOperation
<1>2. at \in [Ranks -> Standing] /\ ShapesOK /\ RanksOK
  BY DEF IInv, RInv
<1>3. phase # "done"
  BY <1>1, CallOfRank
<1>4. ASSUME NEW w \in Ranks
      PROVE  at'[w].call = at[w].call /\ at'[w].mini = at[w].mini /\ at'[w].micro = at[w].micro
  <2>1. at[v] \in Standing /\ at[w] \in Standing
    BY <1>2
  <2>2. CASE w = v
    <3>1. at'[w] = [at[v] EXCEPT !.entered = TRUE]
      BY <1>1, <1>2, <2>2
    <3>2. QED
      BY <2>1, <2>2, <3>1 DEF Standing
  <2>3. CASE w # v
    BY <1>1, <1>2, <2>3
  <2>4. QED
    BY <2>2, <2>3
<1>5. ASSUME NEW w \in Ranks
      PROVE  RankOK(phase, at'[w], mini_batches'[w], micro_batches'[w], output'[w], steps'[w],
                    ShareOf(w, batch), batch)
  <2>1. RankOK(phase, at[w], mini_batches[w], micro_batches[w], output[w], steps[w],
               ShareOf(w, batch), batch)
    BY <1>2 DEF RanksOK
  <2>2. RankOK(phase, at'[w], mini_batches[w], micro_batches[w], output[w], steps[w],
               ShareOf(w, batch), batch)
    BY <1>4, <2>1, SameStanding
  <2>3. QED
    BY <1>1, <2>2
<1>6. /\ mini_batches' = [w \in Ranks |-> mini_batches'[w]]
      /\ micro_batches' = [w \in Ranks |-> micro_batches'[w]]
      /\ output' = [w \in Ranks |-> output'[w]]
      /\ steps' = [w \in Ranks |-> steps'[w]]
  BY <1>1, <1>2 DEF ShapesOK
<1>7. QED
  BY <1>1, <1>3, <1>5, <1>6, RanksStep, Zenon

(* A rank with no more mini-batches has been past the last.                *)
LEMMA MiniOfRank ==
  ASSUME IInv, RInv, NEW w \in Ranks, at[w].call # "none"
  PROVE  /\ Len(mini_batches[w]) \in Nat /\ at[w].mini \in Nat
         /\ ~(at[w].mini > Len(mini_batches[w])) => at[w].mini <= Len(mini_batches[w])
<1> DEFINE share == ShareOf(w, batch)
<1>1. CASE phase = "log_prob" /\ mini_batches[w] = <<share>> /\ at[w].mini = 1
  BY <1>1
<1>2. CASE /\ phase = "update" /\ mini_batches[w] = MiniBatches("update_actor", share)
           /\ at[w].mini \in 1..(Len(mini_batches[w]) + 1)
  <2>1. share \in Seq(Nat) /\ Len(share) > 0
    BY <1>2, SharesAre
  <2> HIDE DEF share
  <2>2. Len(mini_batches[w]) \in Nat
    BY <1>2, <2>1, MiniBatchesAre
  <2>3. QED
    BY <1>2, <2>2
<1>3. QED
  BY <1>1, <1>2, CallOfRank

(* The mini-batches the ranks agree on, and what they agree on cuts the    *)
(* mini-batch of each of them.                                             *)
Current == [v \in Ranks |-> mini_batches[v][at[v].mini]]

LEMMA AgreedMinis ==
  ASSUME IInv, RInv, AllEnteredFor("count")
  PROVE  /\ \A v \in Ranks : at[v].call # "none" /\ at[v].mini <= Len(mini_batches[v])
         /\ \A v \in Ranks : IsMini(Current[v], batch)
         /\ \E b \in Nat : \A v \in Ranks : Len(Current[v]) <= b
         /\ TokensInAll(Current[1], batch)
<1>1. \A v \in Ranks : at[v].call # "none" /\ at[v].mini <= Len(mini_batches[v])
  <2> TAKE v \in Ranks
  <2>1. at[v].call # "none" /\ ~(at[v].mini > Len(mini_batches[v]))
    BY DEF AllEnteredFor, NextOperation
  <2>2. QED
    BY <2>1, MiniOfRank
<1>2. 1 \in Ranks /\ \A v \in Ranks : Current[v] = mini_batches[v][at[v].mini]
  BY SomeRank DEF Current
<1>3. CASE phase = "log_prob"
  <2>1. batch = PadToDivisor(Source, world_size) /\ SetupOK
    BY <1>3 DEF IInv, BatchOK
  <2>2. PICK size \in Nat :
          \A v \in Ranks : /\ Len(ShareOf(v, batch)) = size
                           /\ IsMini(ShareOf(v, batch), batch)
                           /\ TokensInAll(ShareOf(v, batch), batch)
    BY <2>1, LogProbShares
  <2>3. \A v \in Ranks : Current[v] = ShareOf(v, batch)
    <3> TAKE v \in Ranks
    <3>1. mini_batches[v] = <<ShareOf(v, batch)>> /\ at[v].mini = 1
      BY <1>1, <1>3, CallOfRank
    <3>2. QED
      BY <1>2, <3>1
  <2>4. \A v \in Ranks : Len(Current[v]) <= size
    BY <2>2, <2>3
  <2>5. QED
    BY <1>1, <1>2, <2>2, <2>3, <2>4
<1>4. CASE phase = "update"
  <2>1. PICK size : IsUpdateBatch(batch, size)
    BY <1>4, UpdateBatchIs
  <2>2. SetupOK /\ MiniBatchSize \in Nat
    BY ConstantsAre DEF IInv
  <2>3. ASSUME NEW v \in Ranks
        PROVE  /\ IsMini(Current[v], batch) /\ Len(Current[v]) <= MiniBatchSize
               /\ v = 1 => TokensInAll(Current[v], batch)
    <3> DEFINE share == ShareOf(v, batch)
               minis == MiniBatches("update_actor", share)
    <3>1. mini_batches[v] = minis /\ at[v].mini \in 1..(Len(minis) + 1)
          /\ at[v].mini <= Len(minis)
      BY <1>1, <1>4, CallOfRank
    <3>2. Len(minis) \in Nat
      <4>1. share \in Seq(Nat) /\ Len(share) > 0
        BY <1>4, SharesAre
      <4> HIDE DEF share
      <4>2. QED
        BY <4>1, MiniBatchesAre
    <3>3. \A i \in 1..Len(minis) : /\ IsMini(minis[i], batch) /\ Len(minis[i]) <= MiniBatchSize
                                   /\ v = 1 => TokensInAll(minis[i], batch)
      BY <2>1, <2>2, UpdateMinis, Zenon
    <3> HIDE DEF minis
    <3>4. at[v].mini \in 1..Len(minis)
      BY <3>1, <3>2
    <3>5. QED
      BY <1>2, <3>1, <3>3, <3>4
  <2>4. QED
    BY <1>1, <1>2, <2>2, <2>3
<1>5. QED
  BY <1>1, <1>2, <1>3, <1>4, CallOfRank

LEMMA AgreedCuts ==
  ASSUME IInv, RInv, AllEnteredFor("count"), NEW w \in Ranks,
         NumMicroBatches(w) <= Len(mini_batches[w][at[w].mini]),
         NEW parts,
         parts = RearrangeMicroBatches(Tokens(mini_batches[w][at[w].mini]), NumMicroBatches(w))
  PROVE  /\ IsCutOf(parts, mini_batches[w][at[w].mini], batch)
         /\ \E v \in Ranks :
              Len(parts) = Len(mini_batches[v][at[v].mini]) =>
                Total(Tokens(mini_batches[v][at[v].mini])) > (Len(parts) - 1) * MaxTokenLen
<1> DEFINE mini == Current
           k == NumMicroBatches(w)
<1>1. \A v \in Ranks : mini[v] = mini_batches[v][at[v].mini]
  BY DEF Current
<1> HIDE DEF mini
<1>2. \A v \in Ranks : Tokens(mini_batches[v][at[v].mini]) = TokensOf(batch, mini[v])
  BY <1>1 DEF Tokens, TokensOf
<1>3. k = MostWanted(batch, mini, Ranks)
  <2>1. \A v \in Ranks : Wanted(v) = WantedMicroBatches(TokensOf(batch, mini[v]), MaxTokenLen)
    BY <1>2 DEF Wanted
  <2>2. {Wanted(v) : v \in Ranks}
          = {WantedMicroBatches(TokensOf(batch, mini[v]), MaxTokenLen) : v \in Ranks}
    BY <2>1
  <2>3. QED
    BY <2>2, Zenon DEF NumMicroBatches, MostWanted
<1>4. /\ \A v \in Ranks : IsMini(mini[v], batch)
      /\ TokensInAll(mini[1], batch) /\ 1 \in Ranks
  BY AgreedMinis, SomeRank DEF mini
<1>5. CanCut(batch, mini, Ranks)
  <2>1. \E b \in Nat : \A v \in Ranks : Len(mini[v]) <= b
    BY AgreedMinis DEF mini
  <2>2. QED
    BY <1>4, <2>1 DEF CanCut
<1>6. k <= Len(mini[w]) /\ parts = RearrangeMicroBatches(TokensOf(batch, mini[w]), k)
  BY <1>1, <1>2
<1> HIDE DEF k
<1>7. CutIsSound(parts, k, batch, mini, Ranks, w)
  <2> DEFINE m == MostWanted(batch, mini, Ranks)
  <2>1. m <= Len(mini[w])
    BY <1>3, <1>6
  <2>2. CutIsSound(RearrangeMicroBatches(TokensOf(batch, mini[w]), m), m, batch, mini, Ranks, w)
    BY <1>5, <2>1, CountCuts, Zenon
  <2>3. QED
    BY <1>3, <1>6, <2>2
<1>8. QED
  BY <1>1, <1>2, <1>7 DEF CutIsSound

LEMMA CountRanks ==
  ASSUME IInv, RInv, Count
  PROVE  RInv'
<1> DEFINE cut(w) == RearrangeMicroBatches(Tokens(mini_batches[w][at[w].mini]), NumMicroBatches(w))
<1>1. /\ AllEnteredFor("count")
      /\ \A w \in Ranks : NumMicroBatches(w) <= Len(mini_batches[w][at[w].mini])
      /\ micro_batches' = [w \in Ranks |-> cut(w)]
      /\ at' = [w \in Ranks |-> [at[w] EXCEPT !.micro = 1, !.entered = FALSE]]
      /\ UNCHANGED <<fixed, driver>> /\ mini_batches' = mini_batches
      /\ output' = output /\ steps' = steps
  BY Zenon DEF Count
<1>2. ASSUME NEW w \in Ranks
      PROVE  IsCutOf(cut(w), mini_batches[w][at[w].mini], batch)
  BY <1>1, AgreedCuts, Zenon
<1> HIDE DEF cut
<1>3. at \in [Ranks -> Standing] /\ ShapesOK /\ RanksOK /\ phase \in Phases
  BY SomeRank DEF IInv, RInv
<1>4. \A w \in Ranks : /\ at[w].call # "none" /\ at[w].mini <= Len(mini_batches[w])
                       /\ micro_batches[w] = <<>>
  <2> TAKE w \in Ranks
  <2>1. /\ at[w].call # "none" /\ ~(at[w].mini > Len(mini_batches[w]))
        /\ micro_batches[w] = <<>>
    BY <1>1 DEF AllEnteredFor, NextOperation
  <2>2. QED
    BY <2>1, MiniOfRank
<1>5. phase # "done"
  BY <1>4, SomeRank, CallOfRank
<1>6. ASSUME NEW w \in Ranks
      PROVE  RankOK(phase, at'[w], mini_batches'[w], micro_batches'[w], output'[w], steps'[w],
                    ShareOf(w, batch), batch)
  <2>1. RankOK(phase, at[w], mini_batches[w], micro_batches[w], output[w], steps[w],
               ShareOf(w, batch), batch)
    BY <1>3 DEF RanksOK
  <2>2. at'[w] = [at[w] EXCEPT !.micro = 1, !.entered = FALSE] /\ at[w] \in Standing
        /\ micro_batches'[w] = cut(w)
    BY <1>1, <1>3, Zenon
  <2>3. RankOK(phase, at'[w], mini_batches[w], cut(w), output[w], steps[w],
               ShareOf(w, batch), batch)
    BY <1>2, <1>3, <1>4, <2>1, <2>2, CountKeeps, Zenon
  <2>4. QED
    BY <1>1, <2>2, <2>3, Zenon
<1>7. /\ mini_batches' = [w \in Ranks |-> mini_batches'[w]]
      /\ micro_batches' = [w \in Ranks |-> micro_batches'[w]]
      /\ output' = [w \in Ranks |-> output'[w]]
      /\ steps' = [w \in Ranks |-> steps'[w]]
  BY <1>1, <1>3, Zenon DEF ShapesOK
<1>8. QED
  BY <1>1, <1>5, <1>6, <1>7, RanksStep, Zenon

LEMMA ForwardRanks ==
  ASSUME IInv, RInv, Forward
  PROVE  RInv'
<1> DEFINE more(w) == LET slots == SlotsIn(w, at[w].micro)
                      IN  [k \in DOMAIN slots |-> Passed(slots[k])]
<1>1. /\ AllEnteredFor("forward")
      /\ output' = [w \in Ranks |-> Append(output[w], more(w))]
      /\ at' = [w \in Ranks |-> [at[w] EXCEPT !.micro = @ + 1, !.entered = FALSE]]
      /\ UNCHANGED <<fixed, driver>> /\ mini_batches' = mini_batches
      /\ micro_batches' = micro_batches /\ steps' = steps
  BY ZenonT(40) DEF Forward
<1>2. ASSUME NEW w \in Ranks
      PROVE  more(w) = [k \in DOMAIN micro_batches[w][at[w].micro] |->
                          Pass(batch, mini_batches[w][at[w].mini][micro_batches[w][at[w].micro][k]])]
  <2>1. PICK part : part = micro_batches[w][at[w].micro]
    OBVIOUS
  <2>2. PICK slots : slots = [k \in DOMAIN part |-> mini_batches[w][at[w].mini][part[k]]]
    BY Zenon
  <2>3. SlotsIn(w, at[w].micro) = slots
    BY <2>1, <2>2 DEF SlotsIn
  <2>4. more(w) = [k \in DOMAIN slots |-> Passed(slots[k])]
    BY <2>3
  <2>5. DOMAIN slots = DOMAIN part
        /\ \A k \in DOMAIN part : slots[k] = mini_batches[w][at[w].mini][part[k]]
    BY <2>2
  <2>6. \A k \in DOMAIN part :
          Passed(slots[k]) = Pass(batch, mini_batches[w][at[w].mini][part[k]])
    BY <2>5 DEF Passed, Pass
  <2> HIDE DEF more
  <2>7. more(w) = [k \in DOMAIN part |-> Pass(batch, mini_batches[w][at[w].mini][part[k]])]
    BY <2>4, <2>5, <2>6
  <2>8. QED
    BY <2>1, <2>7
<1> HIDE DEF more
<1>3. at \in [Ranks -> Standing] /\ ShapesOK /\ RanksOK /\ phase \in Phases
  BY SomeRank DEF IInv, RInv
<1>4. \A w \in Ranks : /\ at[w].call # "none" /\ micro_batches[w] # <<>>
                       /\ at[w].micro <= Len(micro_batches[w])
  BY <1>1, Zenon DEF AllEnteredFor, NextOperation
<1>5. phase # "done"
  BY <1>4, SomeRank, CallOfRank
<1>6. ASSUME NEW w \in Ranks
      PROVE  RankOK(phase, at'[w], mini_batches'[w], micro_batches'[w], output'[w], steps'[w],
                    ShareOf(w, batch), batch)
  <2>1. RankOK(phase, at[w], mini_batches[w], micro_batches[w], output[w], steps[w],
               ShareOf(w, batch), batch)
    BY <1>3 DEF RanksOK
  <2>2. at'[w] = [at[w] EXCEPT !.micro = @ + 1, !.entered = FALSE] /\ at[w] \in Standing
        /\ output'[w] = Append(output[w], more(w))
    BY <1>1, <1>3, ZenonT(40)
  <2>3. RankOK(phase, at'[w], mini_batches[w], micro_batches[w], Append(output[w], more(w)),
               steps[w], ShareOf(w, batch), batch)
    BY <1>2, <1>3, <1>4, <2>1, <2>2, ForwardKeeps, Zenon
  <2>4. QED
    BY <1>1, <2>2, <2>3, Zenon
<1>7. /\ mini_batches' = [w \in Ranks |-> mini_batches'[w]]
      /\ micro_batches' = [w \in Ranks |-> micro_batches'[w]]
      /\ output' = [w \in Ranks |-> output'[w]]
      /\ steps' = [w \in Ranks |-> steps'[w]]
  BY <1>1, <1>3, Zenon DEF ShapesOK
<1>8. QED
  BY <1>1, <1>5, <1>6, <1>7, RanksStep, Zenon

LEMMA StepRanks ==
  ASSUME IInv, RInv, OptimizerStep
  PROVE  RInv'
<1>1. /\ AllEnteredFor("step")
      /\ steps' = [w \in Ranks |-> Append(steps[w], output[w])]
      /\ output' = [w \in Ranks |-> <<>>]
      /\ micro_batches' = [w \in Ranks |-> <<>>]
      /\ at' = [w \in Ranks |-> [at[w] EXCEPT !.mini = @ + 1, !.micro = 1, !.entered = FALSE]]
      /\ UNCHANGED <<fixed, driver>> /\ mini_batches' = mini_batches
  BY Zenon DEF OptimizerStep
<1>2. at \in [Ranks -> Standing] /\ ShapesOK /\ RanksOK /\ phase \in Phases
  BY SomeRank DEF IInv, RInv
<1>3. \A w \in Ranks : /\ at[w].call # "none" /\ at[w].call # "compute_log_prob"
                       /\ micro_batches[w] # <<>> /\ ~(at[w].micro <= Len(micro_batches[w]))
  BY <1>1, Zenon DEF AllEnteredFor, NextOperation
<1>4. phase = "update"
  BY <1>3, SomeRank, CallOfRank
<1>5. ASSUME NEW w \in Ranks
      PROVE  RankOK(phase, at'[w], mini_batches'[w], micro_batches'[w], output'[w], steps'[w],
                    ShareOf(w, batch), batch)
  <2> DEFINE share == ShareOf(w, batch)
  <2>1. RankOK(phase, at[w], mini_batches[w], micro_batches[w], output[w], steps[w],
               share, batch)
    BY <1>2 DEF RanksOK
  <2>2. /\ at'[w] = [at[w] EXCEPT !.mini = @ + 1, !.micro = 1, !.entered = FALSE]
        /\ at[w] \in Standing /\ steps'[w] = Append(steps[w], output[w])
        /\ output'[w] = <<>> /\ micro_batches'[w] = <<>>
    BY <1>1, <1>2, Zenon
  <2>3. share \in Seq(Nat) /\ Len(share) > 0
    BY <1>4, SharesAre
  <2> HIDE DEF share
  <2>4. RankOK(phase, at'[w], mini_batches[w], <<>>, <<>>, Append(steps[w], output[w]),
               share, batch)
    BY <1>2, <1>3, <2>1, <2>2, <2>3, StepKeeps, Zenon
  <2>5. QED
    BY <1>1, <2>2, <2>4, Zenon DEF share
<1>6. /\ mini_batches' = [w \in Ranks |-> mini_batches'[w]]
      /\ micro_batches' = [w \in Ranks |-> micro_batches'[w]]
      /\ output' = [w \in Ranks |-> output'[w]]
      /\ steps' = [w \in Ranks |-> steps'[w]]
  BY <1>1, <1>2, Zenon DEF ShapesOK
<1>7. QED
  BY <1>1, <1>4, <1>5, <1>6, RanksStep, Zenon

LEMMA ReturnLogProbRanks ==
  ASSUME IInv, RInv, NEW v \in Ranks, ReturnLogProb(v)
  PROVE  RInv'
<1> DEFINE restored == RestoreDynamicBatch(FlattenSeq(output[v]), micro_batches[v])
<1>1. /\ at[v].call = "compute_log_prob" /\ micro_batches[v] # <<>>
      /\ NextOperation(v) = "none"
      /\ output' = [output EXCEPT ![v] = restored]
      /\ micro_batches' = [micro_batches EXCEPT ![v] = <<>>]
      /\ at' = [at EXCEPT ![v] = Idle]
      /\ UNCHANGED <<fixed, driver>> /\ mini_batches' = mini_batches /\ steps' = steps
  BY DEF ReturnLogProb
<1>2. at \in [Ranks -> Standing] /\ ShapesOK /\ RanksOK /\ phase \in Phases
  BY SomeRank DEF IInv, RInv
<1>3. phase = "log_prob"
  BY <1>1, CallOfRank
<1>4. at[v].mini > Len(mini_batches[v]) \/ ~(at[v].micro <= Len(micro_batches[v]))
  BY <1>1 DEF NextOperation
<1> HIDE DEF restored
<1>5. /\ output' = [w \in Ranks |-> IF w = v THEN restored ELSE output[w]]
      /\ micro_batches' = [w \in Ranks |-> IF w = v THEN <<>> ELSE micro_batches[w]]
      /\ at' = [w \in Ranks |-> IF w = v THEN Idle ELSE at[w]]
  BY <1>1, <1>2, Zenon DEF ShapesOK
<1>6. ASSUME NEW w \in Ranks
      PROVE  RankOK(phase, at'[w], mini_batches'[w], micro_batches'[w], output'[w], steps'[w],
                    ShareOf(w, batch), batch)
  <2>1. RankOK(phase, at[w], mini_batches[w], micro_batches[w], output[w], steps[w],
               ShareOf(w, batch), batch)
    BY <1>2 DEF RanksOK
  <2>2. CASE w = v
    <3> DEFINE share == ShareOf(v, batch)
    <3>1. share \in Seq(Nat) /\ at[v] \in Standing
      BY <1>2, <1>3, SharesAre
    <3>2. at'[w] = Idle /\ micro_batches'[w] = <<>> /\ output'[w] = restored
      BY <1>5, <2>2
    <3>3. RankOK(phase, at[v], mini_batches[v], micro_batches[v], output[v], steps[v],
                 share, batch)
      BY <2>1, <2>2
    <3> HIDE DEF share
    <3>4. RankOK(phase, Idle, mini_batches[v], <<>>, restored, steps[v], share, batch)
      BY <1>1, <1>2, <1>4, <3>1, <3>3, ReturnLogProbKeeps DEF restored
    <3>5. QED
      BY <1>1, <2>2, <3>2, <3>4 DEF share
  <2>3. CASE w # v
    BY <1>1, <1>5, <2>1, <2>3
  <2>4. QED
    BY <2>2, <2>3
<1>7. /\ mini_batches' = [w \in Ranks |-> mini_batches'[w]]
      /\ micro_batches' = [w \in Ranks |-> micro_batches'[w]]
      /\ output' = [w \in Ranks |-> output'[w]]
      /\ steps' = [w \in Ranks |-> steps'[w]]
  BY <1>1, <1>2, <1>5, Zenon DEF ShapesOK
<1>8. QED
  BY <1>1, <1>3, <1>6, <1>7, RanksStep

LEMMA ReturnUpdateRanks ==
  ASSUME IInv, RInv, NEW v \in Ranks, ReturnUpdate(v)
  PROVE  RInv'
<1>1. /\ at[v].call = "update_actor" /\ NextOperation(v) = "none"
      /\ at' = [at EXCEPT ![v] = Idle]
      /\ UNCHANGED <<fixed, driver>> /\ mini_batches' = mini_batches /\ steps' = steps
      /\ micro_batches' = micro_batches /\ output' = output
  BY DEF ReturnUpdate
<1>2. at \in [Ranks -> Standing] /\ ShapesOK /\ RanksOK /\ phase \in Phases
  BY SomeRank DEF IInv, RInv
<1>3. phase = "update"
  BY <1>1, CallOfRank
<1>4. at[v].mini > Len(mini_batches[v])
  BY <1>1 DEF NextOperation
<1>5. at' = [w \in Ranks |-> IF w = v THEN Idle ELSE at[w]]
  BY <1>1, <1>2, Zenon
<1>6. ASSUME NEW w \in Ranks
      PROVE  RankOK(phase, at'[w], mini_batches'[w], micro_batches'[w], output'[w], steps'[w],
                    ShareOf(w, batch), batch)
  <2>1. RankOK(phase, at[w], mini_batches[w], micro_batches[w], output[w], steps[w],
               ShareOf(w, batch), batch)
    BY <1>2 DEF RanksOK
  <2>2. CASE w = v
    <3> DEFINE share == ShareOf(v, batch)
    <3>1. share \in Seq(Nat) /\ Len(share) > 0 /\ at[v] \in Standing
      BY <1>2, <1>3, SharesAre
    <3>2. at'[w] = Idle
      BY <1>5, <2>2
    <3>3. RankOK(phase, at[v], mini_batches[v], micro_batches[v], output[v], steps[v],
                 share, batch)
      BY <2>1, <2>2
    <3> HIDE DEF share
    <3>4. RankOK(phase, Idle, mini_batches[v], micro_batches[v], output[v], steps[v],
                 share, batch)
      BY <1>1, <1>2, <1>4, <3>1, <3>3, ReturnUpdateKeeps
    <3>5. QED
      BY <1>1, <2>2, <3>2, <3>4 DEF share
  <2>3. CASE w # v
    BY <1>1, <1>5, <2>1, <2>3
  <2>4. QED
    BY <2>2, <2>3
<1>7. /\ mini_batches' = [w \in Ranks |-> mini_batches'[w]]
      /\ micro_batches' = [w \in Ranks |-> micro_batches'[w]]
      /\ output' = [w \in Ranks |-> output'[w]]
      /\ steps' = [w \in Ranks |-> steps'[w]]
  BY <1>1, <1>2 DEF ShapesOK
<1>8. QED
  BY <1>1, <1>3, <1>6, <1>7, RanksStep

(* Ranks that have no call.                                                *)
LEMMA NoCall ==
  ASSUME NEW p \in {"rollout", "reward", "advantage"}, NEW a, NEW minis, NEW parts, NEW out,
         NEW st, NEW share, NEW rows
  PROVE  RankOK(p, a, minis, parts, out, st, share, rows)
           <=> a.call = "none" /\ parts = <<>> /\ out = <<>> /\ st = <<>>
BY DEF RankOK

LEMMA InitRanks == Init => RInv
<1> SUFFICES ASSUME Init PROVE RInv
  OBVIOUS
<1>1. /\ phase = "rollout"
      /\ at = [w \in Ranks |-> Idle] /\ mini_batches = [w \in Ranks |-> <<>>]
      /\ micro_batches = [w \in Ranks |-> <<>>] /\ output = [w \in Ranks |-> <<>>]
      /\ steps = [w \in Ranks |-> <<>>]
  BY DEF Init
<1>2. ShapesOK
  BY <1>1 DEF ShapesOK
<1>3. RanksOK
  <2>1. \A w \in Ranks : /\ at[w].call = "none" /\ micro_batches[w] = <<>>
                         /\ output[w] = <<>> /\ steps[w] = <<>>
    BY <1>1 DEF Idle
  <2>2. QED
    BY <1>1, <2>1, NoCall DEF RanksOK
<1>4. QED
  BY <1>1, <1>2, <1>3 DEF RInv, LogsOK, TrainedOK

LEMMA RolloutRanks ==
  ASSUME IInv, RInv, Rollout
  PROVE  RInv'
<1>1. phase = "rollout" /\ phase' = "reward" /\ UNCHANGED <<fixed, ranks>>
  BY DEF Rollout
<1>2. /\ at' = at /\ mini_batches' = mini_batches /\ micro_batches' = micro_batches
      /\ output' = output /\ steps' = steps /\ Ranks' = Ranks
  BY <1>1 DEF ranks, fixed, Ranks
<1>3. ShapesOK'
  BY <1>2 DEF RInv, ShapesOK
<1>4. RanksOK'
  <2>1. \A w \in Ranks : /\ at[w].call = "none" /\ micro_batches[w] = <<>>
                         /\ output[w] = <<>> /\ steps[w] = <<>>
    BY <1>1, NoCall DEF RInv, RanksOK
  <2>2. \A w \in Ranks : /\ at'[w].call = "none" /\ micro_batches'[w] = <<>>
                         /\ output'[w] = <<>> /\ steps'[w] = <<>>
    BY <1>2, <2>1
  <2>3. QED
    BY <1>1, <1>2, <2>2, NoCall DEF RanksOK
<1>5. QED
  BY <1>1, <1>3, <1>4 DEF RInv, LogsOK, TrainedOK

(* A call that has just begun.                                             *)
LEMMA CallBegins ==
  ASSUME NEW a, NEW minis, NEW share, NEW rows, a.mini = 1, a.micro = 1
  PROVE  /\ a.call = "compute_log_prob" /\ minis = <<share>> =>
              RankOK("log_prob", a, minis, <<>>, <<>>, <<>>, share, rows)
         /\ a.call = "update_actor" /\ minis = MiniBatches("update_actor", share)
            /\ Len(minis) \in Nat =>
              RankOK("update", a, minis, <<>>, <<>>, <<>>, share, rows)
<1>1. \A mini : Working(a, mini, <<>>, <<>>, rows)
  BY DEF Working
<1>2. ASSUME a.call = "compute_log_prob", minis = <<share>>
      PROVE  RankOK("log_prob", a, minis, <<>>, <<>>, <<>>, share, rows)
  BY <1>1, <1>2 DEF RankOK, LogProbRank
<1>3. Trained(<<>>, a.mini - 1, minis, rows)
  <2>1. a.mini - 1 = 0 /\ 1..0 = {}
    OBVIOUS
  <2>2. Trained(<<>>, 0, minis, rows)
    BY <2>1 DEF Trained
  <2>3. QED
    BY <2>1, <2>2
<1>4. ASSUME a.call = "update_actor", minis = MiniBatches("update_actor", share),
             Len(minis) \in Nat
      PROVE  RankOK("update", a, minis, <<>>, <<>>, <<>>, share, rows)
  <2>1. a.mini \in 1..(Len(minis) + 1)
    BY <1>4
  <2>2. UpdateRank(a, minis, <<>>, <<>>, <<>>, share, rows)
    BY <1>1, <1>3, <1>4, <2>1 DEF UpdateRank
  <2>3. QED
    BY <2>2 DEF RankOK
<1>5. QED
  BY <1>2, <1>4

LEMMA RewardRanks ==
  ASSUME IInv, RInv, Reward
  PROVE  RInv'
<1>1. /\ phase = "reward" /\ phase' = "log_prob" /\ UNCHANGED fixed
      /\ at' = [w \in Ranks |-> [Idle EXCEPT !.call = "compute_log_prob"]]
      /\ mini_batches' = [w \in Ranks |-> MiniBatches("compute_log_prob", ShareOf(w, batch'))]
      /\ micro_batches' = micro_batches /\ output' = output /\ steps' = steps
  BY DEF Reward, Call
<1>2. Ranks' = Ranks /\ world_size' = world_size
  BY <1>1 DEF fixed, Ranks
<1>3. ShapesOK'
  BY <1>1, <1>2 DEF RInv, ShapesOK
<1>4. \A w \in Ranks : micro_batches[w] = <<>> /\ output[w] = <<>> /\ steps[w] = <<>>
  BY <1>1, NoCall DEF RInv, RanksOK
<1>5. ASSUME NEW w \in Ranks
      PROVE  RankOK(phase', at'[w], mini_batches'[w], micro_batches'[w], output'[w], steps'[w],
                    ShareOf(w, batch'), batch')
  <2>1. /\ at'[w].call = "compute_log_prob" /\ at'[w].mini = 1 /\ at'[w].micro = 1
        /\ mini_batches'[w] = <<ShareOf(w, batch')>>
    BY <1>1 DEF Idle, MiniBatches
  <2>2. RankOK("log_prob", at'[w], mini_batches'[w], <<>>, <<>>, <<>>, ShareOf(w, batch'), batch')
    BY <2>1, CallBegins
  <2>3. QED
    BY <1>1, <1>4, <2>2
<1>6. \A w : ShareOf(w, batch)' = ShareOf(w, batch')
  BY <1>2 DEF ShareOf
<1>7. RanksOK'
  BY <1>2, <1>5, <1>6 DEF RanksOK
<1>8. QED
  BY <1>1, <1>3, <1>7 DEF RInv, LogsOK, TrainedOK

LEMMA UpdateActorRanks ==
  ASSUME IInv, RInv, UpdateActor
  PROVE  RInv'
<1> DEFINE n == Len(LoopRows)
           mask == NoPaddingMask(n, world_size)
<1>1. phase = "advantage" /\ SetupOK /\ gen_batch_output = LoopRows
      /\ batch = [k \in 1..n |-> batch[k]]
      /\ (\A k \in 1..n : IsRow(batch[k], k, seq_len[LoopRows[k].sample]))
      /\ OwnRows(batch) /\ LogsOwn(batch)
  BY DEF UpdateActor, IInv, LoopOK, BatchOK, RInv, LogsOK
<1>2. Len(batch) = n /\ n \in Nat
  <2>1. n \in Nat
    BY <1>1, LoopRowsShape
  <2> HIDE DEF n
  <2>2. QED
    BY <1>1, <2>1, LengthOfFunction
<1>3. /\ phase' = "update" /\ UNCHANGED fixed
      /\ batch' = MaskPadding(TakeRows(batch, PaddingRows(mask)), mask)
      /\ at' = [w \in Ranks |-> [Idle EXCEPT !.call = "update_actor"]]
      /\ mini_batches' = [w \in Ranks |-> MiniBatches("update_actor", ShareOf(w, batch'))]
      /\ micro_batches' = micro_batches /\ output' = output /\ steps' = steps
  <2> HIDE DEF n
  <2>1. UpdateMask(Len(batch)) = mask
    BY <1>2 DEF UpdateMask
  <2> HIDE DEF mask
  <2>2. QED
    BY <2>1 DEF UpdateActor, Call
<1>4. Ranks' = Ranks /\ world_size' = world_size
  BY <1>3 DEF fixed, Ranks
<1>5. IsPadded(batch', batch, mask)
  BY <1>1, <1>3, UpdateRows
<1>6. PICK size \in Nat : size > 0 /\ mask \in [1..(world_size * size) -> BOOLEAN]
  BY <1>1, MaskedSlots
<1> HIDE DEF n, mask
<1>7. /\ batch' = [k \in DOMAIN mask |-> batch'[k]]
      /\ \A k \in DOMAIN mask : \E j \in DOMAIN batch : /\ batch'[k].row = batch[j].row
                                                        /\ batch'[k].log_prob = batch[j].log_prob
  BY <1>5 DEF IsPadded
<1>8. LogsOwn(batch')
  BY <1>1, <1>7 DEF LogsOwn
<1>9. ASSUME NEW w \in Ranks
      PROVE  Len(MiniBatches("update_actor", ShareOf(w, batch'))) \in Nat
  <2> DEFINE L == world_size * size
             rows == batch'
  <2>1. L \in Nat
    BY <1>6, SomeRank
  <2>2. Len(rows) = L
    <3>1. rows = [k \in 1..L |-> rows[k]]
      BY <1>6, <1>7
    <3> HIDE DEF rows, L
    <3>2. QED
      BY <2>1, <3>1, LengthOfFunction
  <2> HIDE DEF rows
  <2>3. ShareOf(w, rows) \in Seq(Nat) /\ Len(ShareOf(w, rows)) = size
    BY <1>1, <1>6, <2>2, ShareIs
  <2>4. Len(MiniBatches("update_actor", ShareOf(w, rows))) \in Nat
    BY <1>6, <2>3, MiniBatchesAre
  <2>5. QED
    BY <2>4 DEF rows
<1>10. \A w \in Ranks : micro_batches[w] = <<>> /\ output[w] = <<>> /\ steps[w] = <<>>
  <2>1. phase = "advantage" /\ RanksOK
    BY <1>1 DEF RInv
  <2>2. QED
    BY ONLY <2>1, NoCall DEF RanksOK
<1>11. ASSUME NEW w \in Ranks
       PROVE  RankOK(phase', at'[w], mini_batches'[w], micro_batches'[w], output'[w], steps'[w],
                     ShareOf(w, batch'), batch')
  <2>1. /\ at'[w].call = "update_actor" /\ at'[w].mini = 1 /\ at'[w].micro = 1
        /\ mini_batches'[w] = MiniBatches("update_actor", ShareOf(w, batch'))
    BY <1>3 DEF Idle
  <2>2. RankOK("update", at'[w], mini_batches'[w], <<>>, <<>>, <<>>, ShareOf(w, batch'), batch')
    BY <1>9, <2>1, CallBegins
  <2>3. QED
    BY <1>3, <1>10, <2>2
<1>12. \A w : ShareOf(w, batch)' = ShareOf(w, batch')
  BY <1>4 DEF ShareOf
<1>13. RanksOK'
  BY <1>4, <1>11, <1>12 DEF RanksOK
<1>14. ShapesOK'
  BY <1>3, <1>4 DEF RInv, ShapesOK
<1>15. LogsOwn(batch)'
  BY <1>8 DEF LogsOwn
<1>16. QED
  BY <1>3, <1>13, <1>14, <1>15 DEF RInv, LogsOK, TrainedOK

LEMMA SameFlatten == \A seqs : Dispatch!FlattenSeq(seqs) = FlattenSeq(seqs)
BY DEF FlattenSeq, Dispatch!FlattenSeq

(* The results of the ranks, concatenated, are in the order of the batch.  *)
AreResults(out, rows) ==
  /\ out = [w \in Ranks |-> out[w]]
  /\ \A w \in Ranks :
       out[w] = [r \in 1..Len(ShareOf(w, rows)) |-> Pass(rows, ShareOf(w, rows)[r])]

LEMMA JoinedResults ==
  ASSUME SetupOK, NEW rows, NEW size \in Nat, size > 0, Len(rows) = world_size * size,
         NEW out, AreResults(out, rows)
  PROVE  \A k \in 1..(world_size * size) : FlattenSeq(out)[k] = Pass(rows, k)
<1> DEFINE W == world_size
           L == W * size
           whole == [k \in 1..L |-> Pass(rows, k)]
           S == {Pass(rows, k) : k \in 1..L}
           shard(w) == SubSeq(whole, (w - 1) * size + 1, w * size)
<1>1. W \in Nat /\ W >= 1 /\ L \in Nat /\ Ranks = 1..W
  <2>1. W \in Nat /\ W >= 1
    BY ConstantsAre DEF SetupOK
  <2>2. QED
    BY <2>1 DEF Ranks
<1>2. whole \in Seq(S) /\ Len(whole) = L
  <2>1. whole \in [1..L -> S]
    OBVIOUS
  <2> HIDE DEF whole, S, L
  <2>2. QED
    BY <1>1, <2>1, FunctionIsSequence
<1>3. ASSUME NEW w \in Ranks
      PROVE  out[w] = shard(w)
  <2> DEFINE x == (w - 1) * size
  <2>1. /\ Len(ShareOf(w, rows)) = size
        /\ \A r \in 1..size : ShareOf(w, rows)[r] = x + r /\ x + r \in 1..L
    BY ShareIs
  <2>2. x \in Nat /\ w * size = x + size /\ x + size \in 1..L
    <3>1. w \in Nat /\ w >= 1 /\ w <= W
      BY <1>1
    <3>2. w - 1 \in Nat /\ w * size = (w - 1) * size + size
      BY <3>1
    <3>3. x \in Nat
      BY <3>2
    <3>4. size \in 1..size
      OBVIOUS
    <3>5. x + size \in 1..L
      BY <2>1, <3>4
    <3> HIDE DEF x, L
    <3>6. w * size = x + size
      BY <3>2 DEF x
    <3>7. QED
      BY <3>3, <3>5, <3>6
  <2>3. out[w] = [r \in 1..size |-> Pass(rows, x + r)]
    <3> HIDE DEF x
    <3>1. out[w] = [r \in 1..size |-> Pass(rows, ShareOf(w, rows)[r])]
      BY <2>1, Zenon DEF AreResults
    <3>2. \A r \in 1..size : Pass(rows, ShareOf(w, rows)[r]) = Pass(rows, x + r)
      BY <2>1
    <3>3. QED
      BY <3>1, <3>2
  <2> DEFINE u == SubSeq(whole, x + 1, x + size)
  <2>4. u = [r \in 1..size |-> whole[x + r]]
    <3> HIDE DEF x, whole, L, S
    <3>1. /\ x + 1 \in Int /\ x + size \in Int /\ x + size - (x + 1) + 1 = size
          /\ x + 1 <= x + size
      BY <2>2
    <3>2. \A r \in 1..size : x + 1 + r - 1 = x + r
      BY <2>2
    <3>3. \A i \in (x + 1)..(x + size) : whole[i] \in S
      <4>1. \A i \in (x + 1)..(x + size) : i \in 1..Len(whole)
        BY <1>2, <2>2
      <4>2. QED
        BY <1>2, <4>1, ElementOfSeq
    <3>4. /\ SubSeq(whole, x + 1, x + size) \in Seq(S)
          /\ Len(SubSeq(whole, x + 1, x + size)) = size
          /\ \A i \in 1..size : SubSeq(whole, x + 1, x + size)[i] = whole[x + i]
      <4>1. PICK y \in Int : y = x + 1
        BY <3>1
      <4>2. PICK z \in Int : z = x + size
        BY <3>1
      <4>3. y <= z /\ z - y + 1 = size /\ \A i \in 1..size : y + i - 1 = x + i
        BY <3>1, <3>2, <4>1, <4>2
      <4>4. \A i \in y..z : whole[i] \in S
        BY <3>3, <4>1, <4>2
      <4>5. /\ SubSeq(whole, y, z) \in Seq(S)
            /\ Len(SubSeq(whole, y, z)) = IF y <= z THEN z - y + 1 ELSE 0
            /\ \A i \in 1..(z - y + 1) : SubSeq(whole, y, z)[i] = whole[y + i - 1]
        BY ONLY <4>4, y \in Int, z \in Int, SubSeqProperties
      <4>6. QED
        BY <4>1, <4>2, <4>3, <4>5, Zenon
    <3>5. u = SubSeq(whole, x + 1, x + size)
      OBVIOUS
    <3> HIDE DEF u
    <3>6. u \in Seq(S) /\ Len(u) = size /\ \A i \in 1..size : u[i] = whole[x + i]
      BY <3>1, <3>2, <3>4, <3>5, Zenon
    <3>7. u = [r \in 1..size |-> u[r]]
      BY <3>6, LenProperties
    <3>8. QED
      BY <3>6, <3>7
  <2>5. \A r \in 1..size : whole[x + r] = Pass(rows, x + r)
    <3>1. \A r \in 1..size : x + r \in 1..L
      BY <2>1
    <3> HIDE DEF x
    <3>2. QED
      BY <3>1
  <2> HIDE DEF whole, L
  <2>6. u = [r \in 1..size |-> Pass(rows, x + r)]
    <3> HIDE DEF u, x
    <3>1. QED
      BY <2>4, <2>5
  <2>7. shard(w) = u
    <3>1. w * size = x + size
      BY <2>2
    <3>2. QED
      BY <3>1, Zenon
  <2> HIDE DEF u, x, shard
  <2>8. QED
    BY <2>3, <2>6, <2>7
<1>4. out = [w \in 1..W |-> shard(w)]
  <2> HIDE DEF shard, W
  <2>1. out = [w \in 1..W |-> out[w]]
    BY <1>1 DEF AreResults
  <2>2. \A w \in 1..W : out[w] = shard(w)
    BY <1>1, <1>3
  <2>3. QED
    BY <2>1, <2>2
<1>5. FlattenSeq([w \in 1..W |-> shard(w)]) = whole
  <2> HIDE DEF whole, S, L, W
  <2>1. Len(whole) = W * size
    BY <1>2 DEF L
  <2>2. Dispatch!FlattenSeq([w \in 1..W |-> shard(w)]) = whole
    BY <1>1, <1>2, <2>1, SameAssumption, Dispatch!FlattenShards, ZenonT(40)
  <2> HIDE DEF shard
  <2>3. QED
    BY <2>2, SameFlatten
<1> HIDE DEF shard, whole
<1>6. FlattenSeq(out) = whole
  BY <1>4, <1>5
<1>7. \A k \in 1..L : whole[k] = Pass(rows, k)
  BY DEF whole
<1>8. QED
  BY <1>6, <1>7

LEMMA AdvantageRanks ==
  ASSUME IInv, RInv, Advantage
  PROVE  RInv'
<1> DEFINE n == Len(LoopRows)
           logs == FlattenSeq(output)
<1>1. /\ phase = "log_prob" /\ AllReturned /\ phase' = "advantage"
      /\ UNCHANGED <<fixed, at, mini_batches, micro_batches, steps>>
      /\ output' = [w \in Ranks |-> <<>>]
  BY DEF Advantage
<1>2. batch' = WithAdvantages(Unpadded(WithLogProbs(batch, logs), pad_size))
  BY DEF Advantage, WithAdvantages, WithLogProbs
<1>3. /\ SetupOK /\ gen_batch_output = LoopRows
      /\ uid = Repeat([p \in 1..Prompts |-> p], RolloutN)
      /\ ScoresOK /\ batch = PadToDivisor(Source, world_size)
      /\ pad_size = PadSize(Len(LoopRows), world_size)
  BY <1>1 DEF IInv, LoopOK, BatchOK
<1>4. Ranks' = Ranks
  BY <1>1 DEF fixed, Ranks
<1>5. \A w \in Ranks : /\ at[w].call = "none" /\ steps[w] = <<>> /\ micro_batches[w] = <<>>
                       /\ output[w] = [r \in 1..Len(ShareOf(w, batch)) |->
                                         Pass(batch, ShareOf(w, batch)[r])]
  <2> TAKE w \in Ranks
  <2>1. at[w].call = "none"
    BY <1>1 DEF AllReturned
  <2>2. /\ steps[w] = <<>>
        /\ LogProbRank(at[w], mini_batches[w], micro_batches[w], output[w], ShareOf(w, batch), batch)
    <3>1. phase = "log_prob" /\ RanksOK
      BY <1>1 DEF RInv
    <3>2. QED
      BY ONLY <3>1, w \in Ranks DEF RanksOK, RankOK
  <2>3. QED
    BY <2>1, <2>2 DEF LogProbRank
<1>6. \A k \in 1..n : logs[k].row = k
  <2>1. PICK size \in Nat : /\ size > 0 /\ Len(batch) = world_size * size
                            /\ Len(LoopRows) <= world_size * size
    BY <1>3, LogProbShares
  <2>2. AreResults(output, batch)
    BY <1>5 DEF RInv, ShapesOK, AreResults
  <2>3. \A k \in 1..(world_size * size) : logs[k] = Pass(batch, k)
    BY <1>3, <2>1, <2>2, JoinedResults
  <2>4. n \in Nat /\ \A k \in 1..n : k \in 1..(world_size * size)
    <3>1. n \in Nat
      BY <1>3, LoopRowsShape
    <3>2. world_size * size \in Nat
      BY SomeRank
    <3>3. QED
      BY <2>1, <3>1, <3>2
  <2>5. \A k \in 1..n : batch[k] = TrainingRow(k, LoopRows[k].sample)
    <3>1. \A k \in 1..n : batch[k] = Source[k]
      BY <1>3, PaddedRows
    <3>2. \A k \in 1..n : Source[k] = TrainingRow(k, LoopRows[k].sample)
      BY <1>3, SourceRows
    <3>3. QED
      BY <3>1, <3>2
  <2>6. \A k \in 1..n : batch[k].row = k
    <3>1. \A k, s : TrainingRow(k, s).row = k
      BY DEF TrainingRow
    <3>2. QED
      BY <2>5, <3>1
  <2> HIDE DEF logs, n
  <2>7. \A k : Pass(batch, k).row = batch[k].row
    BY DEF Pass
  <2>8. QED
    BY <2>3, <2>4, <2>6, <2>7
<1> HIDE DEF logs, n
<1>7. /\ DOMAIN batch' = 1..n
      /\ \A k \in 1..n : IsRow(batch'[k], k, seq_len[LoopRows[k].sample])
      /\ \A k \in 1..n : batch'[k].log_prob = logs[k].row
  BY <1>2, <1>3, AdvantageRows DEF n
<1>8. LogsOwn(batch')
  <2>1. \A k \in 1..n : batch'[k].row = k
    BY <1>7 DEF IsRow
  <2>2. QED
    BY <1>6, <1>7, <2>1 DEF LogsOwn
<1>9. LogsOwn(batch)'
  BY <1>8 DEF LogsOwn
<1>10. RanksOK'
  <2>1. \A w \in Ranks : /\ at'[w].call = "none" /\ micro_batches'[w] = <<>>
                         /\ output'[w] = <<>> /\ steps'[w] = <<>>
    BY <1>1, <1>5, Zenon
  <2>2. phase' = "advantage"
    BY <1>1
  <2>3. QED
    BY ONLY <1>4, <2>1, <2>2, NoCall DEF RanksOK
<1>11. ShapesOK'
  BY <1>1, <1>4 DEF RInv, ShapesOK
<1>12. QED
  BY <1>1, <1>9, <1>10, <1>11 DEF RInv, LogsOK, TrainedOK

(* Places counted off in groups of one size.                               *)
LEMMA Grouped ==
  ASSUME NEW size \in Nat, size > 0, NEW s \in Nat, s > 0
  PROVE  LET g == ((s - 1) \div size) + 1
             r == ((s - 1) % size) + 1
         IN  /\ g \in Nat /\ g > 0 /\ r \in 1..size /\ s = (g - 1) * size + r
             /\ \A h \in Nat \ {0} : \A q \in 1..size : s = (h - 1) * size + q => h = g /\ q = r
<1> DEFINE d == (s - 1) \div size
           m == (s - 1) % size
<1>1. s - 1 \in Nat
  OBVIOUS
<1>2. d \in Nat /\ m \in Nat /\ m < size /\ s - 1 = size * d + m
  BY <1>1, Division
<1>3. ASSUME NEW h \in Nat \ {0}, NEW q \in 1..size, s = (h - 1) * size + q
      PROVE  h = d + 1 /\ q = m + 1
  <2>1. h - 1 \in Nat /\ q - 1 \in Nat /\ q - 1 < size
    OBVIOUS
  <2>2. (size * (h - 1) + (q - 1)) \div size = h - 1 /\ (size * (h - 1) + (q - 1)) % size = q - 1
    BY <2>1, DivisionUnique
  <2>3. size * (h - 1) + (q - 1) = s - 1
    <3> DEFINE y == (h - 1) * size
    <3>1. size * (h - 1) = y /\ y \in Nat
      BY <2>1
    <3> HIDE DEF y
    <3>2. s = y + q
      BY <1>3 DEF y
    <3>3. QED
      BY <3>1, <3>2
  <2>4. d = h - 1 /\ m = q - 1
    BY <2>2, <2>3
  <2> HIDE DEF d, m
  <2>5. QED
    BY <2>1, <2>4
<1> HIDE DEF d, m
<1>4. d + 1 \in Nat /\ d + 1 > 0 /\ m + 1 \in 1..size /\ s = ((d + 1) - 1) * size + (m + 1)
  <2>1. (d + 1) - 1 = d /\ size * d = d * size /\ d * size \in Nat
    BY <1>2
  <2>2. QED
    BY <1>2, <2>1
<1>5. QED
  BY <1>3, <1>4 DEF d, m

(* Every row of the loop has one slot of the padded batch that is real.    *)
LEMMA SlotOfRow ==
  ASSUME NEW n \in Nat, n > 0, NEW size \in Nat, NEW mask \in [1..size -> BOOLEAN],
         Cardinality({k \in 1..size : mask[k]}) = n, NEW k \in 1..n
  PROVE  \E s \in 1..size :
           /\ mask[s] /\ PaddingIndex(mask)[s] = k
           /\ \A t \in 1..size : mask[t] /\ PaddingIndex(mask)[t] = k => t = s
<1> DEFINE upTo(s) == {j \in 1..s : mask[j]}
           index == PaddingIndex(mask)
<1>1. \A s \in 1..size : mask[s] => index[s] = Cardinality(upTo(s))
  BY IndexOfSlot
<1>2. PICK s \in 1..size : mask[s] /\ Cardinality(upTo(s)) = k
  <2>1. /\ SetPlaces(mask) \in [1..n -> 1..size]
        /\ mask[SetPlaces(mask)[k]]
        /\ Cardinality({j \in 1..SetPlaces(mask)[k] : mask[j]}) = k
    BY SetPlacesRank, ZenonT(40)
  <2>2. QED
    BY <2>1, Zenon
<1>3. ASSUME NEW t \in 1..size, NEW u \in 1..size, mask[t], mask[u], t < u
      PROVE  Cardinality(upTo(t)) # Cardinality(upTo(u))
  <2>1. upTo(t) \in SUBSET upTo(u)
    <3>1. \A j \in 1..t : j \in 1..u
      BY <1>3
    <3>2. QED
      BY <3>1
  <2>2. u \in upTo(u) /\ u \notin upTo(t)
    BY <1>3
  <2>3. IsFiniteSet(upTo(u))
    <3>1. IsFiniteSet(1..u)
      BY FS_Interval
    <3>2. QED
      BY <3>1, FS_Subset
  <2> HIDE DEF upTo
  <2>4. QED
    BY <2>1, <2>2, <2>3, FS_Subset
<1> HIDE DEF upTo, index
<1>4. ASSUME NEW t \in 1..size, mask[t], index[t] = k
      PROVE  t = s
  <2>1. Cardinality(upTo(t)) = Cardinality(upTo(s))
    BY <1>1, <1>2, <1>4
  <2>2. ~(t < s) /\ ~(s < t)
    BY <1>2, <1>3, <1>4, <2>1
  <2>3. QED
    BY <2>2
<1>5. index[s] = k
  BY <1>1, <1>2
<1>6. QED
  BY <1>2, <1>4, <1>5 DEF index

(* And so one place in the share of one rank.                              *)
IsTrainedRow(rows, slot, k) == rows[slot].row = k /\ rows[slot].tokens > 0

LEMMA PlaceOfRow ==
  ASSUME SetupOK, NEW rows, NEW size, IsUpdateBatch(rows, size), NEW k \in 1..Len(LoopRows)
  PROVE  \E v \in Ranks : \E q \in 1..size :
           \A w \in Ranks : \A r \in 1..size :
             IsTrainedRow(rows, (w - 1) * size + r, k) <=> w = v /\ r = q
<1> DEFINE n == Len(LoopRows)
           mask == NoPaddingMask(n, world_size)
           W == world_size
           L == W * size
<1>1. n \in Nat /\ n > 0 /\ W \in Nat /\ W > 0 /\ Ranks = 1..W
  <2>1. W \in Nat /\ W > 0
    BY ConstantsAre DEF SetupOK
  <2>2. QED
    BY <2>1, LoopRowsShape DEF Ranks
<1>2. /\ size \in Nat /\ size > 0 /\ mask \in [1..L -> BOOLEAN]
      /\ \A s \in 1..L : /\ rows[s].row = PaddingIndex(mask)[s]
                         /\ rows[s].tokens \in 0..MaxSeqLen
                         /\ rows[s].tokens = 0 <=> ~mask[s]
      /\ \A w \in Ranks : \A r \in 1..size : (w - 1) * size + r \in 1..L
  BY DEF IsUpdateBatch
<1>3. L \in Nat
  BY <1>1, <1>2
<1>4. Cardinality({s \in 1..L : mask[s]}) = n
  <2> HIDE DEF n, W
  <2>1. PICK z \in Nat : mask \in [1..z -> BOOLEAN] /\ Cardinality({s \in 1..z : mask[s]}) = n
    BY <1>1, MaskOfBatch, Zenon DEF W
  <2> HIDE DEF mask, L
  <2>2. DOMAIN mask = 1..z /\ DOMAIN mask = 1..L
    BY <1>2, <2>1
  <2>3. QED
    BY <2>1, <2>2, Zenon
<1> HIDE DEF n, W, mask, L
<1>5. PICK s \in 1..L :
        /\ mask[s] /\ PaddingIndex(mask)[s] = k
        /\ \A t \in 1..L : mask[t] /\ PaddingIndex(mask)[t] = k => t = s
  <2>1. k \in 1..n
    BY DEF n
  <2>2. QED
    BY <1>1, <1>2, <1>3, <1>4, <2>1, SlotOfRow, SMTT(20)
<1>6. \A t \in 1..L : IsTrainedRow(rows, t, k) <=> t = s
  <2> TAKE t \in 1..L
  <2>1. rows[t].tokens > 0 <=> mask[t]
    <3>1. rows[t].tokens \in 0..MaxSeqLen /\ (rows[t].tokens = 0 <=> ~mask[t])
      BY <1>2
    <3>2. rows[t].tokens \in Nat
      BY <3>1, ConstantsAre
    <3>3. QED
      BY <3>1, <3>2
  <2>2. rows[t].row = PaddingIndex(mask)[t]
    BY <1>2
  <2>3. QED
    BY <1>5, <2>1, <2>2 DEF IsTrainedRow
<1>7. PICK v \in Nat \ {0} : \E q \in 1..size :
        /\ s = (v - 1) * size + q
        /\ \A h \in Nat \ {0} : \A r \in 1..size : s = (h - 1) * size + r => h = v /\ r = q
  <2>1. s \in Nat /\ s > 0
    BY <1>3
  <2> DEFINE g == ((s - 1) \div size) + 1
             r == ((s - 1) % size) + 1
  <2>2. /\ g \in Nat /\ g > 0 /\ r \in 1..size /\ s = (g - 1) * size + r
        /\ \A h \in Nat \ {0} : \A p \in 1..size : s = (h - 1) * size + p => h = g /\ p = r
    BY <1>2, <2>1, Grouped, Zenon
  <2> HIDE DEF g, r
  <2>3. g \in Nat \ {0}
    BY <2>2
  <2>4. QED
    BY <2>2, <2>3
<1>8. PICK q \in 1..size :
        /\ s = (v - 1) * size + q
        /\ \A h \in Nat \ {0} : \A r \in 1..size : s = (h - 1) * size + r => h = v /\ r = q
  BY <1>7
<1>9. v \in Ranks
  <2>1. SUFFICES ASSUME v > W PROVE FALSE
    BY <1>1
  <2>2. PICK e \in Nat : v - 1 = W + e
    <3>1. v - 1 - W \in Nat /\ v - 1 = W + (v - 1 - W)
      BY <1>1, <2>1
    <3>2. QED
      BY <3>1
  <2>3. (v - 1) * size = W * size + e * size /\ e * size \in Nat /\ W * size = L
    BY <1>1, <1>2, <2>2 DEF L
  <2>4. s <= L
    BY <1>3
  <2>5. QED
    BY <1>2, <1>3, <1>8, <2>3, <2>4
<1>10. ASSUME NEW w \in Ranks, NEW r \in 1..size
       PROVE  IsTrainedRow(rows, (w - 1) * size + r, k) <=> w = v /\ r = q
  <2>1. (w - 1) * size + r \in 1..L
    BY <1>2
  <2>2. w \in Nat \ {0}
    BY <1>1
  <2>3. IsTrainedRow(rows, (w - 1) * size + r, k) <=> (w - 1) * size + r = s
    BY <1>6, <2>1
  <2>4. (w - 1) * size + r = s <=> w = v /\ r = q
    BY <1>8, <2>2
  <2>5. QED
    BY <2>3, <2>4
<1>11. QED
  BY <1>9, <1>10

(* One place in one mini-batch of one rank, in every epoch.                *)
IsMiniOf(rows, k, c, v, p, a) ==
  \A w \in Ranks :
    LET minis == MiniBatches("update_actor", ShareOf(w, rows))
    IN  \A i \in 1..(PpoEpochs * c) :
          /\ w = v /\ ((i - 1) % c) + 1 = p => a \in 1..Len(minis[i])
          /\ \A j \in 1..Len(minis[i]) :
               IsTrainedRow(rows, minis[i][j], k) <=> w = v /\ ((i - 1) % c) + 1 = p /\ j = a

OnePart(size, b, q, c) ==
  \E p \in 1..c : \E a \in 1..PartLen(size, b, p) :
    \A m \in 1..c : \A j \in 1..b : (m - 1) * b + j = q <=> m = p /\ j = a

LEMMA PartOfPlace ==
  ASSUME NEW size \in Nat, NEW b \in Nat, b > 0, NEW q \in 1..size
  PROVE  OnePart(size, b, q, CeilDiv(size, b))
<1> DEFINE c == CeilDiv(size, b)
           r == (size + b - 1) % b
<1>1. c \in Nat /\ r \in Nat /\ r < b /\ size + b - 1 = b * c + r /\ b * c \in Nat
  <2>1. size + b - 1 \in Nat
    OBVIOUS
  <2>2. CeilDiv(size, b) = (size + b - 1) \div b
    BY DEF CeilDiv
  <2>3. /\ (size + b - 1) \div b \in Nat /\ r \in Nat /\ r < b
        /\ size + b - 1 = b * ((size + b - 1) \div b) + r
    BY <2>1, Division
  <2> HIDE DEF r
  <2>4. QED
    BY <2>2, <2>3
<1> HIDE DEF c, r
<1>2. size <= b * c
  BY <1>1
<1> DEFINE p == ((q - 1) \div b) + 1
           a == ((q - 1) % b) + 1
<1>3. /\ p \in Nat /\ p > 0 /\ a \in 1..b /\ q = (p - 1) * b + a
      /\ \A h \in Nat \ {0} : \A j \in 1..b : q = (h - 1) * b + j => h = p /\ j = a
  <2>1. q \in Nat /\ q > 0
    OBVIOUS
  <2>2. QED
    BY <2>1, Grouped
<1> HIDE DEF p, a
<1>4. p <= c
  <2>1. SUFFICES ASSUME p > c PROVE FALSE
    BY <1>1, <1>3
  <2>2. PICK e \in Nat : p - 1 = c + e
    <3>1. p - 1 - c \in Nat /\ p - 1 = c + (p - 1 - c)
      BY <1>1, <1>3, <2>1
    <3>2. QED
      BY <3>1
  <2>3. (p - 1) * b = b * c + e * b /\ e * b \in Nat
    BY <1>1, <2>2
  <2>4. QED
    BY <1>1, <1>2, <1>3, <2>3
<1>5. a \in 1..PartLen(size, b, p)
  <2>1. CASE p * b <= size
    BY <1>3, <2>1 DEF PartLen
  <2>2. CASE ~(p * b <= size)
    <3>1. (p - 1) * b \in Nat
      BY <1>3
    <3>2. size - (p - 1) * b \in Nat /\ a <= size - (p - 1) * b
      BY <1>3, <3>1
    <3>3. PartLen(size, b, p) = size - (p - 1) * b
      BY <2>2 DEF PartLen
    <3>4. QED
      BY <1>3, <3>2, <3>3
  <2>3. QED
    BY <2>1, <2>2
<1>6. p \in 1..c
  BY <1>1, <1>3, <1>4
<1>7. \A m \in 1..c : \A j \in 1..b : (m - 1) * b + j = q <=> m = p /\ j = a
  <2>1. \A m \in 1..c : m \in Nat \ {0}
    OBVIOUS
  <2>2. QED
    BY <1>3, <2>1
<1>8. QED
  BY <1>5, <1>6, <1>7, Zenon DEF c, OnePart

LEMMA MiniOfRow ==
  ASSUME SetupOK, NEW rows, NEW size, IsUpdateBatch(rows, size), NEW k \in 1..Len(LoopRows)
  PROVE  LET c == CeilDiv(size, MiniBatchSize)
         IN  \E v \in Ranks : \E p \in 1..c : \E a \in Nat : IsMiniOf(rows, k, c, v, p, a)
<1> DEFINE b == MiniBatchSize
           c == CeilDiv(size, b)
<1>1. b \in Nat /\ b > 0 /\ size \in Nat /\ size > 0 /\ Len(rows) = world_size * size
  BY ConstantsAre DEF IsUpdateBatch
<1>2. PICK v \in Ranks : \E q \in 1..size :
        \A w \in Ranks : \A r \in 1..size :
          IsTrainedRow(rows, (w - 1) * size + r, k) <=> w = v /\ r = q
  BY PlaceOfRow
<1>3. PICK q \in 1..size :
        \A w \in Ranks : \A r \in 1..size :
          IsTrainedRow(rows, (w - 1) * size + r, k) <=> w = v /\ r = q
  BY <1>2
<1> HIDE DEF b
<1>4. PICK p \in 1..c : \E a \in 1..PartLen(size, b, p) :
        \A m \in 1..c : \A j \in 1..b : (m - 1) * b + j = q <=> m = p /\ j = a
  <2>1. OnePart(size, b, q, c)
    BY <1>1, PartOfPlace
  <2> HIDE DEF c
  <2>2. QED
    BY <2>1 DEF OnePart
<1>5. PICK a \in 1..PartLen(size, b, p) :
        \A m \in 1..c : \A j \in 1..b : (m - 1) * b + j = q <=> m = p /\ j = a
  BY <1>4
<1>6. ASSUME NEW w \in Ranks
      PROVE  LET minis == MiniBatches("update_actor", ShareOf(w, rows))
             IN  \A i \in 1..(PpoEpochs * c) :
                   /\ w = v /\ ((i - 1) % c) + 1 = p => a \in 1..Len(minis[i])
                   /\ \A j \in 1..Len(minis[i]) :
                        IsTrainedRow(rows, minis[i][j], k)
                          <=> w = v /\ ((i - 1) % c) + 1 = p /\ j = a
  <2> DEFINE share == ShareOf(w, rows)
             minis == MiniBatches("update_actor", share)
             parts == Split(share, b)
  <2>1. /\ share \in Seq(Nat) /\ Len(share) = size
        /\ \A r \in 1..size : share[r] = (w - 1) * size + r
    BY <1>1, ShareIs
  <2> HIDE DEF share
  <2>2. \A m \in 1..c :
          /\ PartLen(size, b, m) \in 1..b
          /\ Len(parts[m]) = PartLen(size, b, m)
          /\ \A j \in 1..PartLen(size, b, m) :
               (m - 1) * b + j \in 1..size /\ parts[m][j] = share[(m - 1) * b + j]
    <3>1. LET ps == Split(share, b)
              n == CeilDiv(Len(share), b)
          IN  \A m \in 1..n :
                /\ PartLen(Len(share), b, m) \in 1..b
                /\ Len(ps[m]) = PartLen(Len(share), b, m)
                /\ \A j \in 1..PartLen(Len(share), b, m) :
                     (m - 1) * b + j \in 1..Len(share) /\ ps[m][j] = share[(m - 1) * b + j]
      BY <1>1, <2>1, SplitIs, Zenon
    <3>2. QED
      BY <2>1, <3>1, Zenon
  <2>3. \A i \in 1..(PpoEpochs * c) :
          ((i - 1) % c) + 1 \in 1..c /\ minis[i] = parts[((i - 1) % c) + 1]
    <3>1. LET ps == Split(share, MiniBatchSize)
              n == CeilDiv(Len(share), MiniBatchSize)
              ms == MiniBatches("update_actor", share)
          IN  \A i \in 1..(PpoEpochs * n) :
                ((i - 1) % n) + 1 \in 1..n /\ ms[i] = ps[((i - 1) % n) + 1]
      BY <1>1, <2>1, MiniBatchesAre, Zenon
    <3>2. QED
      BY <2>1, <3>1 DEF b
  <2> HIDE DEF minis, parts, c
  <2>4. ASSUME NEW m \in 1..c, NEW j \in 1..PartLen(size, b, m)
        PROVE  IsTrainedRow(rows, parts[m][j], k) <=> w = v /\ m = p /\ j = a
    <3>1. j \in 1..b /\ (m - 1) * b + j \in 1..size
      <4>1. PartLen(size, b, m) \in 1..b
        BY <2>2
      <4>2. j \in 1..b
        BY <1>1, <4>1
      <4>3. (m - 1) * b + j \in 1..size
        BY <2>2
      <4>4. QED
        BY <4>2, <4>3
    <3> DEFINE r == (m - 1) * b + j
    <3>2. parts[m][j] = (w - 1) * size + r /\ r \in 1..size
      BY <2>1, <2>2, <2>4, <3>1
    <3>3. r = q <=> m = p /\ j = a
      BY <1>5, <3>1
    <3> HIDE DEF r
    <3>4. IsTrainedRow(rows, (w - 1) * size + r, k) <=> w = v /\ r = q
      BY <1>3, <3>2
    <3>5. QED
      BY <3>2, <3>3, <3>4
  <2>5. ASSUME NEW i \in 1..(PpoEpochs * c)
        PROVE  /\ w = v /\ ((i - 1) % c) + 1 = p => a \in 1..Len(minis[i])
               /\ \A j \in 1..Len(minis[i]) :
                    IsTrainedRow(rows, minis[i][j], k)
                      <=> w = v /\ ((i - 1) % c) + 1 = p /\ j = a
    <3>1. PICK m \in 1..c : m = ((i - 1) % c) + 1 /\ minis[i] = parts[m]
      BY <2>3
    <3>2. Len(minis[i]) = PartLen(size, b, m)
      BY <2>2, <3>1, Zenon
    <3>3. m = p => a \in 1..Len(minis[i])
      BY <1>5, <3>2
    <3>4. \A j \in 1..Len(minis[i]) :
            IsTrainedRow(rows, minis[i][j], k) <=> w = v /\ m = p /\ j = a
      BY <2>4, <3>1, <3>2
    <3>5. QED
      BY <3>1, <3>3, <3>4
  <2>6. QED
    BY <2>5, Zenon DEF minis, share
<1> HIDE DEF c
<1>7. IsMiniOf(rows, k, c, v, p, a)
  BY <1>6, Zenon DEF IsMiniOf
<1>8. a \in Nat
  OBVIOUS
<1>9. QED
  BY <1>7, <1>8 DEF c, b

(* What the passes over a mini-batch that is cut have to do with a row.    *)
IsPassOf(x, k, m, j) ==
  m \in DOMAIN x /\ j \in DOMAIN x[m] /\ x[m][j].row = k /\ x[m][j].tokens > 0

OneTrained(rows, mini, k, a, u, v) ==
  /\ u = v => a \in 1..Len(mini)
  /\ \A j \in 1..Len(mini) : IsTrainedRow(rows, mini[j], k) <=> u = v /\ j = a

OnePass(x, k, u, v) ==
  /\ \A m, j : IsPassOf(x, k, m, j) => u = v
  /\ \A m, j, n, l : IsPassOf(x, k, m, j) /\ IsPassOf(x, k, n, l) => m = n /\ j = l
  /\ u = v => \E m, j : IsPassOf(x, k, m, j)

LEMMA PassOfRow ==
  ASSUME NEW rows, NEW mini, NEW cut, IsCutOf(cut, mini, rows),
         NEW k, NEW a, NEW u, NEW v, OneTrained(rows, mini, k, a, u, v)
  PROVE  OnePass(PassesOf(rows, mini, cut, Len(cut)), k, u, v)
<1> DEFINE x == PassesOf(rows, mini, cut, Len(cut))
<1>0. /\ u = v => a \in 1..Len(mini)
      /\ \A j \in 1..Len(mini) : IsTrainedRow(rows, mini[j], k) <=> u = v /\ j = a
  BY DEF OneTrained
<1>1. /\ cut \in Seq(Seq(Nat)) /\ Len(cut) \in Nat
      /\ \A i \in 1..Len(cut) : \A l \in 1..Len(cut[i]) : cut[i][l] \in 1..Len(mini)
      /\ \A r \in 1..Len(mini) : \E i \in 1..Len(cut) : \E l \in 1..Len(cut[i]) : cut[i][l] = r
      /\ \A i, h \in 1..Len(cut) : \A l \in 1..Len(cut[i]) : \A n \in 1..Len(cut[h]) :
           cut[i][l] = cut[h][n] => i = h /\ l = n
  BY LenProperties, Zenon DEF IsCutOf, Divides
<1>2. \A m \in 1..Len(cut) : cut[m] \in Seq(Nat) /\ DOMAIN cut[m] = 1..Len(cut[m])
  BY <1>1, ElementOfSeq, LenProperties
<1>3. DOMAIN x = 1..Len(cut)
      /\ \A m \in 1..Len(cut) : x[m] = [l \in DOMAIN cut[m] |-> Pass(rows, mini[cut[m][l]])]
  BY DEF PassesOf
<1>4. \A m \in 1..Len(cut) : DOMAIN x[m] = 1..Len(cut[m])
        /\ \A l \in 1..Len(cut[m]) : x[m][l] = Pass(rows, mini[cut[m][l]])
  BY <1>2, <1>3
<1> HIDE DEF x
<1>5. ASSUME NEW m, NEW j
      PROVE  IsPassOf(x, k, m, j)
               <=> m \in 1..Len(cut) /\ j \in 1..Len(cut[m]) /\ u = v /\ cut[m][j] = a
  <2>1. CASE m \in 1..Len(cut) /\ j \in 1..Len(cut[m])
    <3>1. x[m][j].row = rows[mini[cut[m][j]]].row /\ x[m][j].tokens = rows[mini[cut[m][j]]].tokens
      <4>1. x[m][j] = Pass(rows, mini[cut[m][j]])
        BY <1>4, <2>1
      <4>2. \A s : Pass(rows, s).row = rows[s].row /\ Pass(rows, s).tokens = rows[s].tokens
        BY DEF Pass
      <4>3. QED
        BY <4>1, <4>2
    <3>2. IsTrainedRow(rows, mini[cut[m][j]], k) <=> u = v /\ cut[m][j] = a
      BY <1>0, <1>1, <2>1, Zenon
    <3>3. m \in DOMAIN x /\ j \in DOMAIN x[m]
      BY <1>3, <1>4, <2>1
    <3>4. QED
      BY <2>1, <3>1, <3>2, <3>3 DEF IsPassOf, IsTrainedRow
  <2>2. CASE ~(m \in 1..Len(cut) /\ j \in 1..Len(cut[m]))
    BY <1>3, <1>4, <2>2 DEF IsPassOf
  <2>3. QED
    BY <2>1, <2>2
<1>6. \A m, j : IsPassOf(x, k, m, j) => u = v
  BY <1>5
<1>7. \A m, j, n, l : IsPassOf(x, k, m, j) /\ IsPassOf(x, k, n, l) => m = n /\ j = l
  <2> SUFFICES ASSUME NEW m, NEW j, NEW n, NEW l, IsPassOf(x, k, m, j), IsPassOf(x, k, n, l)
               PROVE  m = n /\ j = l
    OBVIOUS
  <2>1. /\ m \in 1..Len(cut) /\ j \in 1..Len(cut[m]) /\ cut[m][j] = a
        /\ n \in 1..Len(cut) /\ l \in 1..Len(cut[n]) /\ cut[n][l] = a
    BY <1>5
  <2>2. cut[m][j] = cut[n][l] => m = n /\ j = l
    <3>1. \A i, h \in 1..Len(cut) : \A q \in 1..Len(cut[i]) : \A r \in 1..Len(cut[h]) :
            cut[i][q] = cut[h][r] => i = h /\ q = r
      BY <1>1, Zenon
    <3>2. QED
      BY ONLY <2>1, <3>1
  <2>3. QED
    BY <2>1, <2>2
<1>8. ASSUME u = v
      PROVE  \E m, j : IsPassOf(x, k, m, j)
  <2>1. a \in 1..Len(mini)
    BY <1>0, <1>8
  <2>2. PICK m \in 1..Len(cut) : \E j \in 1..Len(cut[m]) : cut[m][j] = a
    BY <1>1, <2>1, Zenon
  <2>3. PICK j \in 1..Len(cut[m]) : cut[m][j] = a
    BY <2>2
  <2>4. IsPassOf(x, k, m, j)
    BY <1>5, <1>8, <2>3
  <2>5. QED
    BY <2>4
<1>9. QED
  BY <1>6, <1>7, <1>8 DEF OnePass, x

(* The mini-batches of an epoch are those of the others.                   *)
OncePerEpoch(c, E, p) ==
  /\ \A i \in 1..(E * c) : ((i - 1) % c) + 1 = p =>
       /\ ((i - 1) \div c) + 1 \in 1..E
       /\ i = ((((i - 1) \div c) + 1) - 1) * c + p
  /\ \A e \in 1..E : \E i \in 1..(E * c) : /\ ((i - 1) % c) + 1 = p
                                           /\ ((i - 1) \div c) + 1 = e

LEMMA EpochOf ==
  ASSUME NEW c \in Nat, c > 0, NEW E \in Nat, NEW p \in 1..c
  PROVE  OncePerEpoch(c, E, p)
<1>1. ASSUME NEW i \in 1..(E * c), ((i - 1) % c) + 1 = p
      PROVE  /\ ((i - 1) \div c) + 1 \in 1..E
             /\ i = ((((i - 1) \div c) + 1) - 1) * c + p
  <2> DEFINE g == ((i - 1) \div c) + 1
             r == ((i - 1) % c) + 1
  <2>1. i \in Nat /\ i > 0 /\ E * c \in Nat /\ i <= E * c
    OBVIOUS
  <2>2. g \in Nat /\ g > 0 /\ r \in 1..c /\ i = (g - 1) * c + r
    BY <2>1, Grouped
  <2>3. r = p
    BY <1>1
  <2> HIDE DEF g, r
  <2>4. g <= E
    <3>1. SUFFICES ASSUME g > E PROVE FALSE
      BY <2>2
    <3>2. PICK d \in Nat : g - 1 = E + d
      <4>1. g - 1 - E \in Nat /\ g - 1 = E + (g - 1 - E)
        BY <2>2, <3>1
      <4>2. QED
        BY <4>1
    <3>3. (g - 1) * c = E * c + d * c /\ d * c \in Nat
      BY <3>2
    <3>4. QED
      BY <2>1, <2>2, <3>3
  <2>5. g \in 1..E /\ i = (g - 1) * c + p
    BY <2>2, <2>3, <2>4
  <2>6. QED
    BY <2>5 DEF g
<1>2. ASSUME NEW e \in 1..E
      PROVE  \E i \in 1..(E * c) : /\ ((i - 1) % c) + 1 = p
                                   /\ ((i - 1) \div c) + 1 = e
  <2> DEFINE y == (e - 1) * c
             i == y + p
  <2>1. y \in Nat /\ y + c = e * c /\ e * c <= E * c /\ E * c \in Nat /\ e * c \in Nat
    <3>1. e \in Nat /\ e - 1 \in Nat /\ E - e \in Nat
      OBVIOUS
    <3>2. (e - 1) * c \in Nat /\ (E - e) * c \in Nat /\ e * c \in Nat /\ E * c \in Nat
      BY <3>1
    <3>3. (e - 1) * c + c = e * c /\ e * c + (E - e) * c = E * c
      BY <3>1
    <3>4. QED
      BY <3>2, <3>3
  <2>2. i \in 1..(E * c)
    <3> HIDE DEF y
    <3>1. QED
      BY <2>1
  <2>3. i \in Nat /\ i > 0 /\ e \in Nat \ {0}
    BY <2>1
  <2>4. \A h \in Nat \ {0} : \A q \in 1..c : i = (h - 1) * c + q =>
          h = ((i - 1) \div c) + 1 /\ q = ((i - 1) % c) + 1
    <3> HIDE DEF i
    <3>1. QED
      BY <2>3, Grouped
  <2>5. i = (e - 1) * c + p
    OBVIOUS
  <2> HIDE DEF i, y
  <2>6. e = ((i - 1) \div c) + 1 /\ p = ((i - 1) % c) + 1
    BY <2>3, <2>4, <2>5
  <2>7. QED
    BY <2>2, <2>6
<1>3. QED
  BY <1>1, <1>2 DEF OncePerEpoch

(* A set whose elements are numbered from 1 to E.                          *)
LEMMA Numbered ==
  ASSUME NEW T, NEW E \in Nat, NEW of, of = [y \in T |-> of[y]],
         \A y \in T : of[y] \in 1..E,
         \A e \in 1..E : \E y \in T : of[y] = e,
         \A y, z \in T : of[y] = of[z] => y = z
  PROVE  Cardinality(T) = E
<1>1. of \in [T -> 1..E]
  OBVIOUS
<1>2. of \in Bijection(T, 1..E)
  BY <1>1 DEF Bijection, Injection, Surjection, IsInjective
<1>3. ExistsBijection(T, 1..E)
  BY <1>2 DEF ExistsBijection
<1>4. IsFiniteSet(1..E) /\ Cardinality(1..E) = E
  <2>1. \A x \in Nat : IsFiniteSet(1..x) /\ Cardinality(1..x) = IF 1 > x THEN 0 ELSE x - 1 + 1
    BY FS_Interval, SMTT(20)
  <2>2. QED
    BY <2>1
<1>5. ExistsBijection(1..E, T)
  BY <1>3, Fun_ExistsBijSymmetric
<1>6. IsFiniteSet(T) /\ Cardinality(T) = Cardinality(1..E)
  BY <1>4, <1>5, FS_Bijection
<1>7. QED
  BY <1>4, <1>6

(* The places of the optimizer steps where a row has been trained.         *)
PlacesTrained(st, k) ==
  UNION {UNION {UNION {
    {<<w, n, m, j>> : j \in {j \in DOMAIN st[w][n][m] :
                               /\ st[w][n][m][j].row = k
                               /\ st[w][n][m][j].tokens > 0}}
      : m \in DOMAIN st[w][n]} : n \in DOMAIN st[w]} : w \in Ranks}

LEMMA PlacesTrainedAre ==
  ASSUME NEW st, NEW k
  PROVE  /\ \A y \in PlacesTrained(st, k) : \E w \in Ranks : \E i \in DOMAIN st[w] : \E m, j :
              y = <<w, i, m, j>> /\ IsPassOf(st[w][i], k, m, j)
         /\ \A w \in Ranks : \A i \in DOMAIN st[w] : \A m, j :
              IsPassOf(st[w][i], k, m, j) => <<w, i, m, j>> \in PlacesTrained(st, k)
<1> DEFINE at4(w, n, m) == {<<w, n, m, j>> : j \in {j \in DOMAIN st[w][n][m] :
                               /\ st[w][n][m][j].row = k
                               /\ st[w][n][m][j].tokens > 0}}
           at3(w, n) == UNION {at4(w, n, m) : m \in DOMAIN st[w][n]}
           at2(w) == UNION {at3(w, n) : n \in DOMAIN st[w]}
<1>1. PlacesTrained(st, k) = UNION {at2(w) : w \in Ranks}
  BY DEF PlacesTrained
<1>2. \A w, n, m, y : y \in at4(w, n, m) =>
        \E j \in DOMAIN st[w][n][m] : /\ y = <<w, n, m, j>> /\ st[w][n][m][j].row = k
                                      /\ st[w][n][m][j].tokens > 0
  OBVIOUS
<1>3. \A w, n, m : \A j \in DOMAIN st[w][n][m] :
        st[w][n][m][j].row = k /\ st[w][n][m][j].tokens > 0 => <<w, n, m, j>> \in at4(w, n, m)
  OBVIOUS
<1> HIDE DEF at4
<1>4. \A w, n, y : y \in at3(w, n) <=> \E m \in DOMAIN st[w][n] : y \in at4(w, n, m)
  OBVIOUS
<1> HIDE DEF at3
<1>5. \A w, y : y \in at2(w) <=> \E n \in DOMAIN st[w] : y \in at3(w, n)
  OBVIOUS
<1> HIDE DEF at2
<1>6. \A y : y \in PlacesTrained(st, k) <=> \E w \in Ranks : y \in at2(w)
  BY <1>1
<1>7. ASSUME NEW y \in PlacesTrained(st, k)
      PROVE  \E w \in Ranks : \E i \in DOMAIN st[w] : \E m, j :
               y = <<w, i, m, j>> /\ IsPassOf(st[w][i], k, m, j)
  <2>1. PICK w \in Ranks : y \in at2(w)
    BY <1>6
  <2>2. PICK i \in DOMAIN st[w] : y \in at3(w, i)
    BY <1>5, <2>1
  <2>3. PICK m \in DOMAIN st[w][i] : y \in at4(w, i, m)
    BY <1>4, <2>2
  <2>4. PICK j \in DOMAIN st[w][i][m] : /\ y = <<w, i, m, j>> /\ st[w][i][m][j].row = k
                                        /\ st[w][i][m][j].tokens > 0
    BY <1>2, <2>3
  <2>5. IsPassOf(st[w][i], k, m, j)
    BY <2>3, <2>4 DEF IsPassOf
  <2>6. QED
    BY <2>4, <2>5
<1>8. ASSUME NEW w \in Ranks, NEW i \in DOMAIN st[w], NEW m, NEW j, IsPassOf(st[w][i], k, m, j)
      PROVE  <<w, i, m, j>> \in PlacesTrained(st, k)
  <2>1. /\ m \in DOMAIN st[w][i] /\ j \in DOMAIN st[w][i][m]
        /\ st[w][i][m][j].row = k /\ st[w][i][m][j].tokens > 0
    BY <1>8 DEF IsPassOf
  <2>2. <<w, i, m, j>> \in at4(w, i, m)
    BY <1>3, <2>1
  <2>3. QED
    BY <1>4, <1>5, <1>6, <2>1, <2>2
<1>9. QED
  BY <1>7, <1>8

(* Every row has been trained once in every epoch.                         *)
LEMMA TrainedCount ==
  ASSUME SetupOK, NEW rows, NEW size, IsUpdateBatch(rows, size), NEW st,
         \A w \in Ranks :
           LET minis == MiniBatches("update_actor", ShareOf(w, rows))
           IN  Trained(st[w], Len(minis), minis, rows),
         NEW k \in 1..Len(LoopRows)
  PROVE  Cardinality(PlacesTrained(st, k)) = PpoEpochs
<1> DEFINE c == CeilDiv(size, MiniBatchSize)
           E == PpoEpochs
           N == E * c
           minis(w) == MiniBatches("update_actor", ShareOf(w, rows))
           T == PlacesTrained(st, k)
<1>1. PICK v \in Ranks : \E p \in 1..c : \E a \in Nat : IsMiniOf(rows, k, c, v, p, a)
  BY MiniOfRow
<1>2. PICK p \in 1..c : \E a \in Nat : IsMiniOf(rows, k, c, v, p, a)
  BY <1>1
<1>3. PICK a \in Nat : IsMiniOf(rows, k, c, v, p, a)
  BY <1>2
<1>4. ASSUME NEW w \in Ranks
      PROVE  c \in Nat /\ c > 0 /\ Len(minis(w)) = N
  <2>1. ShareOf(w, rows) \in Seq(Nat) /\ Len(ShareOf(w, rows)) = size /\ size > 0
    BY UpdateShare
  <2>2. LET d == CeilDiv(Len(ShareOf(w, rows)), MiniBatchSize)
            ms == MiniBatches("update_actor", ShareOf(w, rows))
        IN  d \in Nat /\ d > 0 /\ Len(ms) = PpoEpochs * d
    <3>1. Len(ShareOf(w, rows)) > 0
      BY <2>1
    <3>2. QED
      BY <2>1, <3>1, MiniBatchesAre
  <2>3. QED
    BY <2>1, <2>2
<1>5. c \in Nat /\ c > 0 /\ E \in Nat
  BY <1>4, ConstantsAre
<1> HIDE DEF c, E, N, minis
<1>6. ASSUME NEW w \in Ranks
      PROVE  /\ DOMAIN st[w] = 1..N
             /\ \A i \in 1..N : \E cut : /\ IsCutOf(cut, minis(w)[i], rows)
                                         /\ st[w][i] = PassesOf(rows, minis(w)[i], cut, Len(cut))
  <2>1. Trained(st[w], Len(minis(w)), minis(w), rows)
    BY DEF minis
  <2>2. Trained(st[w], N, minis(w), rows)
    BY <1>4, <2>1
  <2>3. st[w] = [i \in 1..N |-> st[w][i]]
    BY <2>2 DEF Trained
  <2>4. QED
    BY <2>2, <2>3 DEF Trained
<1>7. ASSUME NEW w \in Ranks, NEW i \in 1..N
      PROVE  LET B == w = v /\ ((i - 1) % c) + 1 = p
             IN  /\ \A m, j : IsPassOf(st[w][i], k, m, j) => B
                 /\ \A m, j, n, l :
                      IsPassOf(st[w][i], k, m, j) /\ IsPassOf(st[w][i], k, n, l) => m = n /\ j = l
                 /\ B => \E m, j : IsPassOf(st[w][i], k, m, j)
  <2> DEFINE here == <<w, ((i - 1) % c) + 1>>
             mini == minis(w)[i]
             x == st[w][i]
  <2>1. PICK cut : IsCutOf(cut, mini, rows) /\ x = PassesOf(rows, mini, cut, Len(cut))
    BY <1>6
  <2>2. here = <<v, p>> <=> w = v /\ ((i - 1) % c) + 1 = p
    OBVIOUS
  <2> HIDE DEF here
  <2>3. /\ here = <<v, p>> => a \in 1..Len(mini)
        /\ \A j \in 1..Len(mini) : IsTrainedRow(rows, mini[j], k) <=> here = <<v, p>> /\ j = a
    <3>1. i \in 1..(PpoEpochs * c)
      BY DEF N, E
    <3>2. /\ w = v /\ ((i - 1) % c) + 1 = p => a \in 1..Len(mini)
          /\ \A j \in 1..Len(mini) :
               IsTrainedRow(rows, mini[j], k) <=> w = v /\ ((i - 1) % c) + 1 = p /\ j = a
      BY <1>3, <3>1 DEF IsMiniOf, minis
    <3> HIDE DEF mini
    <3>3. QED
      BY <2>2, <3>2
  <2> HIDE DEF mini, x
  <2> DEFINE there == <<v, p>>
  <2>4. OneTrained(rows, mini, k, a, here, there)
    BY <2>3 DEF OneTrained
  <2> HIDE DEF there
  <2>5. OnePass(x, k, here, there)
    BY <2>1, <2>4, PassOfRow
  <2>6. QED
    BY <2>2, <2>5 DEF OnePass, x, there
<1>8. /\ \A y \in T : \E w \in Ranks : \E i \in DOMAIN st[w] : \E m, j :
           y = <<w, i, m, j>> /\ IsPassOf(st[w][i], k, m, j)
      /\ \A w \in Ranks : \A i \in DOMAIN st[w] : \A m, j :
           IsPassOf(st[w][i], k, m, j) => <<w, i, m, j>> \in T
  BY PlacesTrainedAre
<1> HIDE DEF T
<1> DEFINE epoch(i) == ((i - 1) \div c) + 1
           place(i) == ((i - 1) % c) + 1
           of == [y \in T |-> epoch(y[2])]
<1>9. /\ \A i \in 1..N : place(i) = p => epoch(i) \in 1..E /\ i = (epoch(i) - 1) * c + p
      /\ \A e \in 1..E : \E i \in 1..N : place(i) = p /\ epoch(i) = e
  <2>1. OncePerEpoch(c, E, p)
    BY <1>5, EpochOf
  <2>2. QED
    BY <2>1 DEF OncePerEpoch, N
<1>10. \A w \in Ranks : \A i \in 1..N : \A m, j : IsPassOf(st[w][i], k, m, j) => w = v /\ place(i) = p
  BY <1>7
<1>11. \A i \in 1..N : place(i) = p => \E m, j : IsPassOf(st[v][i], k, m, j)
  BY <1>7
<1>12. \A i \in 1..N : \A m, j, n, l :
         IsPassOf(st[v][i], k, m, j) /\ IsPassOf(st[v][i], k, n, l) => m = n /\ j = l
  BY <1>7, Zenon
<1> HIDE DEF epoch, place
<1>13. \A y \in T : \E i \in 1..N : \E m, j :
         y = <<v, i, m, j>> /\ IsPassOf(st[v][i], k, m, j) /\ place(i) = p
  <2> TAKE y \in T
  <2>1. PICK w \in Ranks : \E i \in DOMAIN st[w] : \E m, j :
          y = <<w, i, m, j>> /\ IsPassOf(st[w][i], k, m, j)
    BY <1>8
  <2>2. PICK i \in DOMAIN st[w] : \E m, j :
          y = <<w, i, m, j>> /\ IsPassOf(st[w][i], k, m, j)
    BY <2>1
  <2>3. PICK m, j : y = <<w, i, m, j>> /\ IsPassOf(st[w][i], k, m, j)
    BY <2>2
  <2>4. i \in 1..N
    BY <1>6, Zenon
  <2>5. w = v /\ place(i) = p
    BY <1>10, <2>3, <2>4
  <2>6. QED
    BY <2>3, <2>4, <2>5
<1>14. \A y \in T : of[y] = epoch(y[2])
  OBVIOUS
<1>15. of = [y \in T |-> of[y]]
  OBVIOUS
<1> HIDE DEF of
<1>16. \A y \in T : of[y] \in 1..E
  <2> TAKE y \in T
  <2>1. PICK i \in 1..N : y[2] = i /\ place(i) = p
    BY <1>13
  <2>2. QED
    BY <1>9, <1>14, <2>1
<1>17. \A e \in 1..E : \E y \in T : of[y] = e
  <2> TAKE e \in 1..E
  <2>1. PICK i \in 1..N : place(i) = p /\ epoch(i) = e
    BY <1>9
  <2>2. PICK m, j : IsPassOf(st[v][i], k, m, j)
    BY <1>11, <2>1
  <2>3. <<v, i, m, j>> \in T
    BY <1>6, <1>8, <2>2, ZenonT(40)
  <2>4. of[<<v, i, m, j>>] = e
    BY <1>14, <2>1, <2>3
  <2>5. QED
    BY <2>3, <2>4
<1>18. \A y, z \in T : of[y] = of[z] => y = z
  <2> SUFFICES ASSUME NEW y \in T, NEW z \in T, of[y] = of[z] PROVE y = z
    OBVIOUS
  <2>1. PICK i \in 1..N : \E m, j :
          y = <<v, i, m, j>> /\ IsPassOf(st[v][i], k, m, j) /\ place(i) = p
    BY <1>13
  <2>2. PICK m, j : y = <<v, i, m, j>> /\ IsPassOf(st[v][i], k, m, j) /\ place(i) = p
    BY <2>1
  <2>3. PICK h \in 1..N : \E n, l :
          z = <<v, h, n, l>> /\ IsPassOf(st[v][h], k, n, l) /\ place(h) = p
    BY <1>13
  <2>4. PICK n, l : z = <<v, h, n, l>> /\ IsPassOf(st[v][h], k, n, l) /\ place(h) = p
    BY <2>3
  <2>5. epoch(i) = epoch(h)
    BY <1>14, <2>2, <2>4
  <2>6. i = (epoch(i) - 1) * c + p /\ h = (epoch(h) - 1) * c + p
    BY <1>9, <2>2, <2>4
  <2>7. i = h
    BY <2>5, <2>6
  <2>8. m = n /\ j = l
    BY <1>12, <2>2, <2>4, <2>7
  <2>9. QED
    BY <2>2, <2>4, <2>7, <2>8
<1>19. Cardinality(T) = E
  BY <1>5, <1>15, <1>16, <1>17, <1>18, Numbered
<1>20. QED
  BY <1>19 DEF T, E

LEMMA MetricsRanks ==
  ASSUME IInv, RInv, Metrics
  PROVE  RInv'
<1>1. /\ phase = "update" /\ AllReturned /\ phase' = "done" /\ UNCHANGED fixed
      /\ batch' = SelectRows(batch, no_padding_mask)
      /\ at' = at /\ mini_batches' = mini_batches /\ micro_batches' = micro_batches
      /\ output' = output /\ steps' = steps
  BY DEF Metrics, ranks
<1>2. Ranks' = Ranks /\ LoopRows' = LoopRows /\ SetupOK
  BY <1>1, SetupUnchanged DEF IInv
<1>3. /\ gen_batch_output = LoopRows
      /\ no_padding_mask = NoPaddingMask(Len(LoopRows), world_size)
      /\ batch = [k \in DOMAIN no_padding_mask |-> batch[k]]
      /\ \A k \in DOMAIN no_padding_mask : batch[k].row = PaddingIndex(no_padding_mask)[k]
      /\ OwnRows(batch)
  BY <1>1 DEF IInv, LoopOK, BatchOK
<1>4. LogsOwn(batch)
  BY <1>1 DEF RInv, LogsOK
<1>5. /\ DOMAIN batch' = 1..Len(LoopRows)
      /\ \A k \in 1..Len(LoopRows) : \E j \in DOMAIN batch : batch'[k] = batch[j]
  <2>1. SetupOK /\ batch' = SelectRows(batch, no_padding_mask)
    BY <1>1 DEF IInv
  <2>2. batch' = [k \in 1..Len(LoopRows) |-> batch'[k]]
    BY <1>3, <2>1, MetricRows
  <2>3. \A k \in 1..Len(LoopRows) : \E j \in DOMAIN batch : batch'[k] = batch[j]
    BY <1>3, <2>1, MetricRows
  <2>4. QED
    BY <2>2, <2>3
<1>6. LogsOwn(batch')
  BY <1>4, <1>5 DEF LogsOwn
<1>7. LogsOwn(batch)'
  BY <1>6 DEF LogsOwn
<1>8. \A w \in Ranks :
        /\ at[w].call = "none" /\ micro_batches[w] = <<>>
        /\ LET minis == MiniBatches("update_actor", ShareOf(w, batch))
           IN  Trained(steps[w], Len(minis), minis, batch)
  <2> TAKE w \in Ranks
  <2>1. at[w].call = "none"
    BY <1>1 DEF AllReturned
  <2>2. UpdateRank(at[w], mini_batches[w], micro_batches[w], output[w], steps[w],
                   ShareOf(w, batch), batch)
    <3>1. phase = "update" /\ RanksOK
      BY <1>1 DEF RInv
    <3>2. QED
      BY ONLY <3>1, w \in Ranks DEF RanksOK, RankOK
  <2>3. QED
    BY <2>1, <2>2 DEF UpdateRank
<1>9. PICK size : IsUpdateBatch(batch, size)
  BY <1>1, UpdateBatchIs
<1>10. ASSUME NEW k \in 1..Len(LoopRows)
       PROVE  TimesTrained(k)' = PpoEpochs
  <2>1. \A w \in Ranks :
          LET minis == MiniBatches("update_actor", ShareOf(w, batch))
          IN  Trained(steps[w], Len(minis), minis, batch)
    BY <1>8
  <2>2. Cardinality(PlacesTrained(steps, k)) = PpoEpochs
    BY <1>2, <1>9, <2>1, TrainedCount
  <2>3. TimesTrained(k) = Cardinality(PlacesTrained(steps, k))
    BY DEF TimesTrained, PlacesTrained
  <2>4. TimesTrained(k)' = TimesTrained(k)
    BY <1>1, <1>2 DEF TimesTrained
  <2>5. QED
    BY <2>2, <2>3, <2>4
<1>11. TrainedOK'
  BY <1>2, <1>10 DEF TrainedOK
<1>12. RanksOK'
  <2>1. \A w \in Ranks : at'[w].call = "none" /\ micro_batches'[w] = <<>>
    BY <1>1, <1>8
  <2>2. phase' = "done"
    BY <1>1
  <2>3. QED
    BY ONLY <1>2, <2>1, <2>2 DEF RanksOK, RankOK
<1>13. ShapesOK'
  BY <1>1, <1>2 DEF RInv, ShapesOK
<1>14. QED
  BY <1>7, <1>11, <1>12, <1>13 DEF RInv, LogsOK

LEMMA RanksStutter ==
  ASSUME IInv, RInv, UNCHANGED vars
  PROVE  RInv'
<1>1. /\ world_size' = world_size /\ triple' = triple /\ chunks' = chunks /\ seq_len' = seq_len
      /\ phase' = phase /\ batch' = batch /\ at' = at /\ mini_batches' = mini_batches
      /\ micro_batches' = micro_batches /\ output' = output /\ steps' = steps
      /\ UNCHANGED fixed
  BY DEF vars, fixed, driver, ranks
<1>2. Ranks' = Ranks /\ LoopRows' = LoopRows
  BY <1>1, SetupUnchanged DEF IInv
<1>3. ShapesOK' /\ LogsOK'
  BY <1>1, <1>2 DEF RInv, ShapesOK, LogsOK
<1>4. RanksOK'
  <2>1. \A w : ShareOf(w, batch)' = ShareOf(w, batch)
    BY <1>1 DEF ShareOf
  <2>2. QED
    BY <1>1, <1>2, <2>1 DEF RInv, RanksOK
<1>5. TrainedOK'
  <2>1. \A k : TimesTrained(k)' = TimesTrained(k)
    BY <1>1, <1>2 DEF TimesTrained
  <2>2. QED
    BY <1>1, <1>2, <2>1 DEF RInv, TrainedOK
<1>6. QED
  BY <1>3, <1>4, <1>5 DEF RInv

(* What a rank has done is right throughout a step of the trainer, beside  *)
(* what the driver holds.                                                  *)
THEOREM RanksInvariance == Spec => []RInv
<1>1. Init => RInv
  BY InitRanks
<1>2. IInv /\ RInv /\ [Next]_vars => RInv'
  <2> SUFFICES ASSUME IInv, RInv, [Next]_vars PROVE RInv'
    OBVIOUS
  <2>1. CASE Drive
    BY <2>1, RolloutRanks, RewardRanks, AdvantageRanks, UpdateActorRanks, MetricsRanks DEF Drive
  <2>2. CASE Collective
    BY <2>2, CountRanks, ForwardRanks, StepRanks DEF Collective
  <2>3. CASE \E w \in Ranks : Rank(w)
    <3>1. PICK w \in Ranks : Enter(w) \/ ReturnLogProb(w) \/ ReturnUpdate(w)
      BY <2>3 DEF Rank
    <3>2. QED
      BY <3>1, EnterRanks, ReturnLogProbRanks, ReturnUpdateRanks
  <2>4. CASE UNCHANGED vars
    BY <2>4, RanksStutter
  <2>5. QED
    BY <2>1, <2>2, <2>3, <2>4 DEF Next
<1>3. QED
  BY <1>1, <1>2, Invariance, PTL DEF Spec

(* A row is updated against its own old log probabilities: however the     *)
(* batch was padded and shared out, and a share cut into micro-batches,    *)
(* the results come back in the order of the rows (prepare_dynamic_batch,  *)
(* restore_dynamic_batch, the concatenation of the ranks' results, union). *)
THEOREM LogProbsCorrect == Spec => []LogProbsAreOwn
<1>1. RInv => LogProbsAreOwn
  BY DEF RInv, LogsOK, LogsOwn, LogProbsAreOwn
<1>2. QED
  BY <1>1, RanksInvariance, PTL

(* A mini-batch cut into as many parts as it has rows: a row in each.      *)
LEMMA OneRowEach ==
  ASSUME NEW parts, NEW n \in Nat, Divides(parts, n, n), NEW i \in 1..n
  PROVE  Len(parts[i]) = 1
<1>1. /\ parts \in Seq(Seq(Nat)) /\ Len(parts) = n
      /\ \A j, l \in 1..n : \A a \in 1..Len(parts[j]), b \in 1..Len(parts[l]) :
           parts[j][a] = parts[l][b] => j = l /\ a = b
      /\ \A j \in 1..n : \A a \in 1..Len(parts[j]) : parts[j][a] \in 1..n
      /\ \A j \in 1..n : Len(parts[j]) > 0
  BY DEF Divides
<1>2. \A j \in 1..n : Len(parts[j]) \in Nat
  BY <1>1, ElementOfSeq, LenProperties
<1>3. SUFFICES ASSUME Len(parts[i]) # 1 PROVE FALSE
  OBVIOUS
<1>4. 1 \in 1..Len(parts[i]) /\ 2 \in 1..Len(parts[i])
  <2>1. PICK l \in Nat : l = Len(parts[i])
    BY <1>2
  <2>2. l > 0 /\ l # 1
    BY <1>1, <1>3, <2>1
  <2>3. 1 \in 1..l /\ 2 \in 1..l
    BY <2>2
  <2>4. QED
    BY <2>1, <2>3
<1> DEFINE x == parts[i][2]
           f == [j \in 1..n |-> parts[j][1]]
           T == (1..n) \ {x}
<1>5. \A j \in 1..n : 1 \in 1..Len(parts[j])
  BY <1>1, <1>2
<1>6. f \in [1..n -> T]
  <2>1. ASSUME NEW j \in 1..n
        PROVE  parts[j][1] \in 1..n /\ parts[j][1] # x
    BY <1>1, <1>4, <1>5
  <2>2. QED
    BY <2>1
<1>7. IsFiniteSet(1..n) /\ Cardinality(1..n) = n /\ n > 0
  <2>1. IsFiniteSet(1..n) /\ Cardinality(1..n) = IF 1 > n THEN 0 ELSE n - 1 + 1
    BY FS_Interval
  <2>2. QED
    BY <2>1
<1>8. x \in 1..n
  BY <1>1, <1>4
<1> HIDE DEF x, f
<1>9. IsFiniteSet(T) /\ Cardinality(T) = n - 1
  BY <1>7, <1>8, FS_RemoveElement
<1>10. PICK j, l \in 1..n : j # l /\ f[j] = f[l]
  <2>1. Cardinality(T) < Cardinality(1..n)
    BY <1>7, <1>9
  <2> HIDE DEF T
  <2>2. QED
    BY <1>6, <1>7, <1>9, <2>1, FS_PigeonHole
<1>11. parts[j][1] = parts[l][1]
  BY <1>10 DEF f
<1>12. QED
  BY <1>1, <1>5, <1>10, <1>11

(* The ranks go through an update together, and one that has cut its       *)
(* mini-batch into single rows did so because some rank has more tokens    *)
(* than all rows of its mini-batch but one may fill.                       *)
IsFull(R, a, minis, rows, w) ==
  \E v \in R :
    /\ a[v].call # "none" /\ a[v].mini = a[w].mini
    /\ Total(TokensOf(rows, minis[v][a[v].mini]))
         > (Len(minis[w][a[w].mini]) - 1) * MaxTokenLen

InStep(R, a) ==
  \A v, w \in R : a[v].call # "none" /\ a[w].call # "none" => a[v].mini = a[w].mini

CutsOK(p, R, a, minis, parts, rows) ==
  p = "update" =>
    /\ InStep(R, a)
    /\ \A w \in R :
         parts[w] # <<>> /\ Len(parts[w]) = Len(minis[w][a[w].mini]) =>
           IsFull(R, a, minis, rows, w)

CInv == CutsOK(phase, Ranks, at, mini_batches, micro_batches, batch)

LEMMA SameCuts ==
  ASSUME NEW p, NEW R, NEW a, NEW minis, NEW parts, NEW rows,
         CutsOK(p, R, a, minis, parts, rows),
         NEW b, \A w \in R : b[w].call = a[w].call /\ b[w].mini = a[w].mini
  PROVE  CutsOK(p, R, b, minis, parts, rows)
<1>1. InStep(R, a) => InStep(R, b)
  BY DEF InStep
<1>2. \A w \in R : IsFull(R, a, minis, rows, w) => IsFull(R, b, minis, rows, w)
  <2> SUFFICES ASSUME NEW w \in R, IsFull(R, a, minis, rows, w)
               PROVE  IsFull(R, b, minis, rows, w)
    OBVIOUS
  <2>1. PICK v \in R :
          /\ a[v].call # "none" /\ a[v].mini = a[w].mini
          /\ Total(TokensOf(rows, minis[v][a[v].mini]))
               > (Len(minis[w][a[w].mini]) - 1) * MaxTokenLen
    BY DEF IsFull
  <2>2. /\ b[v].call = a[v].call /\ b[v].mini = a[v].mini /\ b[w].mini = a[w].mini
    OBVIOUS
  <2>3. QED
    BY <2>1, <2>2 DEF IsFull
<1>3. QED
  BY <1>1, <1>2 DEF CutsOK

(* A rank with micro-batches is in its call, at one of its mini-batches,   *)
(* and what it has are those of that mini-batch.                           *)
LEMMA CutOfRank ==
  ASSUME IInv, RInv, NEW w \in Ranks, micro_batches[w] # <<>>
  PROVE  /\ at[w].call # "none" /\ at[w].mini <= Len(mini_batches[w])
         /\ IsCutOf(micro_batches[w], mini_batches[w][at[w].mini], batch)
<1> DEFINE parts == micro_batches[w]
           mini == mini_batches[w][at[w].mini]
           share == ShareOf(w, batch)
<1>1. at[w].call # "none"
  <2>1. RankOK(phase, at[w], mini_batches[w], parts, output[w], steps[w], share, batch)
        /\ phase \in Phases
    BY SomeRank DEF RInv, RanksOK
  <2> HIDE DEF parts, share
  <2>2. parts # <<>>
    BY DEF parts
  <2>3. QED
    BY <2>1, <2>2 DEF RankOK, LogProbRank, UpdateRank, Phases
<1>2. \/ mini_batches[w] = <<share>> /\ at[w].mini = 1 /\ Working(at[w], share, parts, output[w], batch)
      \/ at[w].mini <= Len(mini_batches[w]) /\ Working(at[w], mini, parts, output[w], batch)
  BY <1>1, CallOfRank
<1> HIDE DEF share
<1>3. Working(at[w], mini, parts, output[w], batch) /\ at[w].mini <= Len(mini_batches[w])
  <2>1. CASE mini_batches[w] = <<share>> /\ at[w].mini = 1
             /\ Working(at[w], share, parts, output[w], batch)
    BY <2>1
  <2>2. QED
    BY <1>2, <2>1
<1> HIDE DEF mini, parts
<1>4. parts # <<>>
  BY DEF parts
<1>5. IsCutOf(parts, mini, batch)
  BY <1>3, <1>4 DEF Working
<1>6. QED
  BY <1>1, <1>3, <1>5 DEF parts, mini

(* In an update the ranks have as many mini-batches, and mini-batches of   *)
(* as many rows.                                                           *)
LEMMA EqualMinis ==
  ASSUME IInv, RInv, phase = "update", NEW v \in Ranks, NEW w \in Ranks,
         at[v].call # "none", at[w].call # "none"
  PROVE  /\ Len(mini_batches[v]) = Len(mini_batches[w])
         /\ at[v].mini = at[w].mini /\ at[w].mini <= Len(mini_batches[w]) =>
              Len(mini_batches[v][at[v].mini]) = Len(mini_batches[w][at[w].mini])
<1>1. PICK size : IsUpdateBatch(batch, size)
  BY UpdateBatchIs
<1> DEFINE c == CeilDiv(size, MiniBatchSize)
           length(i) == PartLen(size, MiniBatchSize, ((i - 1) % c) + 1)
<1>2. ASSUME NEW u \in Ranks, at[u].call # "none"
      PROVE  /\ Len(mini_batches[u]) = PpoEpochs * c /\ Len(mini_batches[u]) \in Nat
             /\ at[u].mini \in Nat /\ at[u].mini > 0
             /\ \A i \in 1..Len(mini_batches[u]) : Len(mini_batches[u][i]) = length(i)
  <2> DEFINE minis == MiniBatches("update_actor", ShareOf(u, batch))
  <2>1. mini_batches[u] = minis /\ at[u].mini \in 1..(Len(mini_batches[u]) + 1)
    BY <1>2, CallOfRank
  <2>2. SetupOK
    BY DEF IInv
  <2>3. Len(minis) = PpoEpochs * c
        /\ \A i \in 1..Len(minis) : Len(minis[i]) = length(i)
    BY <1>1, <2>2, UpdateMinis, Zenon
  <2>4. Len(mini_batches[u]) \in Nat
    BY <1>2, MiniOfRank
  <2> HIDE DEF minis, length, c
  <2>5. QED
    BY <2>1, <2>3, <2>4
<1> HIDE DEF c, length
<1>3. Len(mini_batches[v]) = Len(mini_batches[w])
  BY <1>2
<1>4. ASSUME at[v].mini = at[w].mini, at[w].mini <= Len(mini_batches[w])
      PROVE  Len(mini_batches[v][at[v].mini]) = Len(mini_batches[w][at[w].mini])
  <2>1. at[w].mini \in 1..Len(mini_batches[w]) /\ at[v].mini \in 1..Len(mini_batches[v])
    BY <1>2, <1>3, <1>4
  <2>2. QED
    BY <1>2, <1>4, <2>1
<1>5. QED
  BY <1>3, <1>4

LEMMA CountInStep ==
  ASSUME IInv, RInv, CInv, Count
  PROVE  CInv'
<1> DEFINE cut(w) == RearrangeMicroBatches(Tokens(mini_batches[w][at[w].mini]), NumMicroBatches(w))
<1>1. /\ AllEnteredFor("count")
      /\ \A w \in Ranks : NumMicroBatches(w) <= Len(mini_batches[w][at[w].mini])
      /\ micro_batches' = [w \in Ranks |-> cut(w)]
      /\ at' = [w \in Ranks |-> [at[w] EXCEPT !.micro = 1, !.entered = FALSE]]
      /\ UNCHANGED <<fixed, driver>> /\ mini_batches' = mini_batches
  BY Zenon DEF Count
<1>2. phase' = phase /\ batch' = batch /\ Ranks' = Ranks
  BY <1>1 DEF driver, fixed, Ranks
<1>3. ASSUME NEW w \in Ranks
      PROVE  \E v \in Ranks :
               Len(cut(w)) = Len(mini_batches[v][at[v].mini]) =>
                 Total(Tokens(mini_batches[v][at[v].mini])) > (Len(cut(w)) - 1) * MaxTokenLen
  BY <1>1, AgreedCuts, Zenon
<1> HIDE DEF cut
<1>4. \A v \in Ranks : Tokens(mini_batches[v][at[v].mini]) = TokensOf(batch, mini_batches[v][at[v].mini])
  BY DEF Tokens, TokensOf
<1>5. \A v \in Ranks : at[v].call # "none" /\ at[v].mini <= Len(mini_batches[v])
  BY <1>1, AgreedMinis
<1>6. ASSUME phase = "update", NEW w \in Ranks, Len(cut(w)) = Len(mini_batches[w][at[w].mini])
      PROVE  IsFull(Ranks, at, mini_batches, batch, w)
  <2>1. PICK v \in Ranks :
          Len(cut(w)) = Len(mini_batches[v][at[v].mini]) =>
            Total(Tokens(mini_batches[v][at[v].mini])) > (Len(cut(w)) - 1) * MaxTokenLen
    BY <1>3
  <2>2. at[v].mini = at[w].mini
    BY <1>5, <1>6 DEF CInv, CutsOK, InStep
  <2>3. Len(mini_batches[v][at[v].mini]) = Len(mini_batches[w][at[w].mini])
    BY <1>5, <1>6, <2>2, EqualMinis
  <2>4. Total(Tokens(mini_batches[v][at[v].mini])) > (Len(mini_batches[w][at[w].mini]) - 1) * MaxTokenLen
    BY <1>6, <2>1, <2>3
  <2>5. Total(TokensOf(batch, mini_batches[v][at[v].mini]))
          > (Len(mini_batches[w][at[w].mini]) - 1) * MaxTokenLen
    BY <1>4, <2>4
  <2>6. QED
    BY <1>5, <2>2, <2>5 DEF IsFull
<1>7. \A w \in Ranks : micro_batches'[w] = cut(w)
  BY <1>1
<1>8. CutsOK(phase, Ranks, at, mini_batches, micro_batches', batch)
  BY <1>6, <1>7 DEF CInv, CutsOK
<1>9. \A w \in Ranks : at'[w].call = at[w].call /\ at'[w].mini = at[w].mini
  <2>1. at \in [Ranks -> Standing]
    BY DEF IInv
  <2> TAKE w \in Ranks
  <2>2. at'[w] = [at[w] EXCEPT !.micro = 1, !.entered = FALSE] /\ at[w] \in Standing
    BY <1>1, <2>1
  <2>3. QED
    BY <2>2 DEF Standing
<1>10. CutsOK(phase, Ranks, at', mini_batches, micro_batches', batch)
  BY <1>8, <1>9, SameCuts
<1>11. QED
  BY <1>1, <1>2, <1>10 DEF CInv

LEMMA ForwardInStep ==
  ASSUME IInv, CInv, Forward
  PROVE  CInv'
<1>1. /\ at' = [w \in Ranks |-> [at[w] EXCEPT !.micro = @ + 1, !.entered = FALSE]]
      /\ UNCHANGED <<fixed, driver>> /\ mini_batches' = mini_batches
      /\ micro_batches' = micro_batches
  BY DEF Forward
<1>2. phase' = phase /\ batch' = batch /\ Ranks' = Ranks
  BY <1>1 DEF driver, fixed, Ranks
<1>3. \A w \in Ranks : at'[w].call = at[w].call /\ at'[w].mini = at[w].mini
  <2>1. at \in [Ranks -> Standing]
    BY DEF IInv
  <2> TAKE w \in Ranks
  <2>2. at'[w] = [at[w] EXCEPT !.micro = @ + 1, !.entered = FALSE] /\ at[w] \in Standing
    BY <1>1, <2>1
  <2>3. QED
    BY <2>2 DEF Standing
<1>4. CutsOK(phase, Ranks, at', mini_batches, micro_batches, batch)
  BY <1>3, SameCuts DEF CInv
<1>5. QED
  BY <1>1, <1>2, <1>4 DEF CInv

LEMMA EnterInStep ==
  ASSUME IInv, CInv, NEW u \in Ranks, Enter(u)
  PROVE  CInv'
<1>1. /\ at' = [at EXCEPT ![u].entered = TRUE]
      /\ UNCHANGED <<fixed, driver>> /\ mini_batches' = mini_batches
      /\ micro_batches' = micro_batches
  BY DEF Enter
<1>2. phase' = phase /\ batch' = batch /\ Ranks' = Ranks
  BY <1>1 DEF driver, fixed, Ranks
<1>3. \A w \in Ranks : at'[w].call = at[w].call /\ at'[w].mini = at[w].mini
  <2>1. at \in [Ranks -> Standing]
    BY DEF IInv
  <2> TAKE w \in Ranks
  <2>2. at'[w] = at[w] \/ at'[w] = [at[w] EXCEPT !.entered = TRUE]
    BY <1>1, <2>1
  <2>3. at[w] \in Standing
    BY <2>1
  <2>4. QED
    BY <2>2, <2>3 DEF Standing
<1>4. CutsOK(phase, Ranks, at', mini_batches, micro_batches, batch)
  BY <1>3, SameCuts DEF CInv
<1>5. QED
  BY <1>1, <1>2, <1>4 DEF CInv

(* After a step of the optimizer all ranks go on to the next mini-batch,   *)
(* which none has cut.                                                     *)
LEMMA StepInStep ==
  ASSUME IInv, RInv, CInv, OptimizerStep
  PROVE  CInv'
<1>1. /\ AllEnteredFor("step")
      /\ micro_batches' = [w \in Ranks |-> <<>>]
      /\ at' = [w \in Ranks |-> [at[w] EXCEPT !.mini = @ + 1, !.micro = 1, !.entered = FALSE]]
      /\ UNCHANGED <<fixed, driver>>
  BY Zenon DEF OptimizerStep
<1>2. phase' = phase /\ batch' = batch /\ Ranks' = Ranks
  BY <1>1 DEF driver, fixed, Ranks
<1>3. \A w \in Ranks : /\ at[w].call # "none" /\ at'[w].call = at[w].call
                       /\ at'[w].mini = at[w].mini + 1
  <2>1. at \in [Ranks -> Standing]
    BY DEF IInv
  <2> TAKE w \in Ranks
  <2>2. at[w].call # "none"
    BY <1>1 DEF AllEnteredFor, NextOperation
  <2>3. at'[w] = [at[w] EXCEPT !.mini = @ + 1, !.micro = 1, !.entered = FALSE]
        /\ at[w] \in Standing
    BY <1>1, <2>1
  <2>4. QED
    BY <2>2, <2>3 DEF Standing
<1>4. phase = "update" => InStep(Ranks, at')
  <2> SUFFICES ASSUME phase = "update", NEW v \in Ranks, NEW w \in Ranks
               PROVE  at'[v].mini = at'[w].mini
    BY DEF InStep
  <2>1. at[v].mini = at[w].mini
    BY <1>3 DEF CInv, CutsOK, InStep
  <2>2. QED
    BY <1>3, <2>1
<1>5. \A w \in Ranks : micro_batches'[w] = <<>>
  BY <1>1
<1>6. CutsOK(phase, Ranks, at', mini_batches', micro_batches', batch)
  BY <1>4, <1>5 DEF CutsOK
<1>7. QED
  BY <1>2, <1>6 DEF CInv

(* A rank that returns is past its last mini-batch: it is none of those    *)
(* with a mini-batch in work.                                              *)
LEMMA ReturnInStep ==
  ASSUME IInv, RInv, CInv, NEW u \in Ranks, ReturnUpdate(u)
  PROVE  CInv'
<1>1. /\ at[u].call = "update_actor" /\ NextOperation(u) = "none"
      /\ at' = [at EXCEPT ![u] = Idle]
      /\ UNCHANGED <<fixed, driver>> /\ mini_batches' = mini_batches
      /\ micro_batches' = micro_batches
  BY DEF ReturnUpdate
<1>2. phase' = phase /\ batch' = batch /\ Ranks' = Ranks
  BY <1>1 DEF driver, fixed, Ranks
<1>3. at[u].mini > Len(mini_batches[u]) /\ phase = "update" /\ at[u].call # "none"
  BY <1>1, CallOfRank DEF NextOperation
<1>4. at \in [Ranks -> Standing] /\ Idle.call = "none"
  BY DEF IInv, Idle
<1>5. /\ at'[u].call = "none"
      /\ \A w \in Ranks : w # u => at'[w] = at[w]
  BY <1>1, <1>4
<1>6. InStep(Ranks, at')
  <2>1. InStep(Ranks, at)
    BY <1>3 DEF CInv, CutsOK
  <2>2. \A v \in Ranks : at'[v].call # "none" => v # u /\ at'[v] = at[v]
    BY <1>5
  <2>3. QED
    BY <2>1, <2>2 DEF InStep
<1>7. ASSUME NEW w \in Ranks, micro_batches[w] # <<>>,
             Len(micro_batches[w]) = Len(mini_batches[w][at'[w].mini])
      PROVE  IsFull(Ranks, at', mini_batches, batch, w)
  <2>1. at[w].call # "none" /\ at[w].mini <= Len(mini_batches[w])
    BY <1>7, CutOfRank
  <2>2. /\ Len(mini_batches[u]) \in Nat /\ at[u].mini \in Nat
        /\ Len(mini_batches[w]) \in Nat /\ at[w].mini \in Nat
    BY <1>3, <2>1, MiniOfRank
  <2>3. Len(mini_batches[u]) = Len(mini_batches[w])
    BY <1>3, <2>1, EqualMinis
  <2>4. at[u].mini # at[w].mini /\ w # u
    BY <1>3, <2>1, <2>2, <2>3
  <2>5. at'[w] = at[w]
    BY <1>5, <2>4
  <2>6. IsFull(Ranks, at, mini_batches, batch, w)
    BY <1>3, <1>7, <2>5 DEF CInv, CutsOK
  <2>7. PICK v \in Ranks :
          /\ at[v].call # "none" /\ at[v].mini = at[w].mini
          /\ Total(TokensOf(batch, mini_batches[v][at[v].mini]))
               > (Len(mini_batches[w][at[w].mini]) - 1) * MaxTokenLen
    BY <2>6 DEF IsFull
  <2>8. at'[v] = at[v]
    BY <1>5, <2>4, <2>7
  <2>9. QED
    BY <2>5, <2>7, <2>8 DEF IsFull
<1>8. CutsOK(phase, Ranks, at', mini_batches, micro_batches, batch)
  BY <1>6, <1>7 DEF CutsOK
<1>9. QED
  BY <1>1, <1>2, <1>8 DEF CInv

LEMMA UpdateActorInStep ==
  ASSUME RInv, UpdateActor
  PROVE  CInv'
<1>1. /\ phase = "advantage" /\ UNCHANGED fixed
      /\ at' = [w \in Ranks |-> [Idle EXCEPT !.call = "update_actor"]]
      /\ micro_batches' = micro_batches
  BY DEF UpdateActor, Call
<1>2. Ranks' = Ranks
  BY <1>1 DEF fixed, Ranks
<1>3. \A w \in Ranks : at'[w].mini = 1 /\ micro_batches'[w] = <<>>
  <2>1. RanksOK
    BY DEF RInv
  <2>2. \A w \in Ranks : micro_batches[w] = <<>>
    BY ONLY <1>1, <2>1, NoCall DEF RanksOK
  <2>3. QED
    BY <1>1, <2>2 DEF Idle
<1>4. CutsOK(phase', Ranks, at', mini_batches', micro_batches', batch')
  BY <1>3 DEF CutsOK, InStep
<1>5. QED
  BY <1>2, <1>4 DEF CInv

(* The ranks go through the mini-batches of an update together, and cut    *)
(* one into single rows only for a rank with more tokens in it than all    *)
(* rows but one may fill (rearrange_micro_batches, update_policy).         *)
THEOREM CutsInvariance == Spec => []CInv
<1>1. Init => CInv
  BY DEF Init, CInv, CutsOK
<1>2. IInv /\ RInv /\ CInv /\ [Next]_vars => CInv'
  <2> SUFFICES ASSUME IInv, RInv, CInv, [Next]_vars PROVE CInv'
    OBVIOUS
  <2>1. CASE Rollout \/ Reward \/ Advantage \/ Metrics
    <3>1. phase' # "update"
      BY <2>1 DEF Rollout, Reward, Advantage, Metrics
    <3>2. QED
      BY <3>1 DEF CInv, CutsOK
  <2>2. CASE UpdateActor
    BY <2>2, UpdateActorInStep
  <2>3. CASE Collective
    BY <2>3, CountInStep, ForwardInStep, StepInStep DEF Collective
  <2>4. CASE \E w \in Ranks : Rank(w)
    <3>1. PICK w \in Ranks : Enter(w) \/ ReturnLogProb(w) \/ ReturnUpdate(w)
      BY <2>4 DEF Rank
    <3>2. CASE ReturnLogProb(w)
      <4>1. at[w].call = "compute_log_prob" /\ phase' = phase
        BY <3>2 DEF ReturnLogProb, driver
      <4>2. phase # "update"
        BY <4>1, CallOfRank
      <4>3. QED
        BY <4>1, <4>2 DEF CInv, CutsOK
    <3>3. QED
      BY <3>1, <3>2, EnterInStep, ReturnInStep
  <2>5. CASE UNCHANGED vars
    <3>1. /\ phase' = phase /\ at' = at /\ mini_batches' = mini_batches
          /\ micro_batches' = micro_batches /\ batch' = batch /\ Ranks' = Ranks
      BY <2>5 DEF vars, fixed, driver, ranks, Ranks
    <3>2. QED
      BY <3>1 DEF CInv
  <2>6. QED
    BY <2>1, <2>2, <2>3, <2>4, <2>5 DEF Next, Drive
<1>3. QED
  BY <1>1, <1>2, Invariance, RanksInvariance, PTL DEF Spec

(* The slots of a micro-batch have the tokens of their rows.               *)
SlotsAre(w, m, part, mini) ==
  /\ Len(SlotsIn(w, m)) = Len(part) /\ DOMAIN SlotsIn(w, m) = 1..Len(part)
  /\ Len(part) > 0 /\ Len(part) \in Nat
  /\ \A a \in 1..Len(part) :
       /\ part[a] \in 1..Len(mini)
       /\ Tokens(SlotsIn(w, m))[a] = batch[mini[part[a]]].tokens

LEMMA SlotsOfPart ==
  ASSUME NEW w, NEW m, NEW parts, NEW mini, parts = micro_batches[w],
         mini = mini_batches[w][at[w].mini], mini \in Seq(Nat),
         IsCutOf(parts, mini, batch), m \in 1..Len(parts)
  PROVE  SlotsAre(w, m, parts[m], mini)
<1> DEFINE slots == SlotsIn(w, m)
<1>1. /\ parts \in Seq(Seq(Nat)) /\ Len(parts[m]) > 0
      /\ \A a \in 1..Len(parts[m]) : parts[m][a] \in 1..Len(mini)
  BY DEF IsCutOf, Divides
<1>2. parts[m] \in Seq(Nat) /\ DOMAIN parts[m] = 1..Len(parts[m]) /\ Len(parts[m]) \in Nat
  BY <1>1, ElementOfSeq, LenProperties
<1>3. slots = [k \in 1..Len(parts[m]) |-> mini[parts[m][k]]]
  BY <1>2 DEF SlotsIn
<1> HIDE DEF slots
<1>4. Len(slots) = Len(parts[m]) /\ DOMAIN slots = 1..Len(parts[m])
  <2>1. DOMAIN mini = 1..Len(mini) /\ \A j \in 1..Len(mini) : mini[j] \in Nat
    BY LenProperties, ElementOfSeq
  <2>2. slots \in [1..Len(parts[m]) -> Nat]
    BY <1>1, <1>3, <2>1
  <2>3. QED
    BY <1>2, <2>2, FunctionIsSequence
<1>5. \A a \in 1..Len(parts[m]) : Tokens(slots)[a] = batch[mini[parts[m][a]]].tokens
  BY <1>3, <1>4 DEF Tokens
<1>6. QED
  BY <1>1, <1>2, <1>4, <1>5 DEF slots, SlotsAre

(* The mini-batch of a rank that has micro-batches; for the log            *)
(* probabilities, all its rows have tokens.                                *)
LEMMA MiniInWork ==
  ASSUME IInv, RInv, NEW w \in Ranks, micro_batches[w] # <<>>
  PROVE  /\ phase \in {"log_prob", "update"}
         /\ mini_batches[w][at[w].mini] \in Seq(Nat)
         /\ phase = "log_prob" => TokensInAll(mini_batches[w][at[w].mini], batch)
<1> DEFINE share == ShareOf(w, batch)
<1>1. at[w].call # "none" /\ at[w].mini <= Len(mini_batches[w])
  BY CutOfRank
<1>2. CASE phase = "log_prob" /\ mini_batches[w] = <<share>> /\ at[w].mini = 1
  <2>1. batch = PadToDivisor(Source, world_size) /\ SetupOK
    BY <1>2 DEF IInv, BatchOK
  <2>2. IsMini(share, batch) /\ TokensInAll(share, batch)
    BY <2>1, LogProbShares
  <2> HIDE DEF share
  <2>3. mini_batches[w][at[w].mini] = share
    BY <1>2
  <2>4. QED
    BY <1>2, <2>2, <2>3 DEF IsMini
<1>3. CASE /\ phase = "update" /\ mini_batches[w] = MiniBatches("update_actor", share)
           /\ at[w].mini \in 1..(Len(mini_batches[w]) + 1)
  <2>1. PICK size : IsUpdateBatch(batch, size)
    BY <1>3, UpdateBatchIs
  <2>2. Len(mini_batches[w]) \in Nat
    BY <1>1, MiniOfRank
  <2>3. at[w].mini \in 1..Len(mini_batches[w])
    BY <1>1, <1>3, <2>2
  <2>4. SetupOK
    BY DEF IInv
  <2>5. \A i \in 1..Len(mini_batches[w]) : IsMini(mini_batches[w][i], batch)
    BY <1>3, <2>1, <2>4, UpdateMinis
  <2>6. QED
    BY <1>3, <2>3, <2>5 DEF IsMini
<1>4. QED
  BY <1>1, <1>2, <1>3, CallOfRank

(* No rank runs the model on nothing, in a forward pass for the log        *)
(* probabilities or for an update, but on the padding row of a mini-batch  *)
(* that is cut into single rows; and that takes a rank whose mini-batch    *)
(* has more tokens than all its rows but one may fill. Every image has its *)
(* tokens. All this although every rank cuts into the number of            *)
(* micro-batches that one of them wants, and a padding row has no tokens   *)
(* of its own (rearrange_micro_batches with the number reduced over the    *)
(* ranks, graceful_padding).                                               *)
THEOREM ForwardsCorrect == Spec => []ForwardsAreSound
<1>1. IInv /\ RInv /\ CInv => PaddingAloneOnlyIfFull
  <2> SUFFICES ASSUME IInv, RInv, CInv, NEW w \in Ranks, NEW m \in DOMAIN micro_batches[w]
               PROVE  \/ HasTokens(w, m)
                      \/ phase = "update" /\ Len(SlotsIn(w, m)) = 1 /\ CutIntoRows(w)
    BY DEF PaddingAloneOnlyIfFull
  <2> DEFINE parts == micro_batches[w]
             mini == mini_batches[w][at[w].mini]
  <2>1. parts # <<>>
    OBVIOUS
  <2>2. IsCutOf(parts, mini, batch) /\ at[w].call # "none" /\ at[w].mini <= Len(mini_batches[w])
    BY <2>1, CutOfRank
  <2>3. /\ phase \in {"log_prob", "update"} /\ mini \in Seq(Nat)
        /\ phase = "log_prob" => TokensInAll(mini, batch)
    BY <2>1, MiniInWork
  <2>4. parts \in Seq(Seq(Nat)) /\ m \in 1..Len(parts)
    <3>1. parts \in Seq(Seq(Nat))
      BY <2>2 DEF IsCutOf, Divides
    <3>2. QED
      BY <3>1, LenProperties
  <2>5. CInv /\ parts = micro_batches[w] /\ mini = mini_batches[w][at[w].mini]
    OBVIOUS
  <2> HIDE DEF mini, parts
  <2>6. SlotsAre(w, m, parts[m], mini)
    BY <2>2, <2>3, <2>4, <2>5, SlotsOfPart, Zenon
  <2>7. DOMAIN mini = 1..Len(mini) /\ Len(mini) \in Nat
    BY <2>3, LenProperties
  <2>8. CASE phase = "log_prob"
    <3>1. 1 \in 1..Len(parts[m])
      BY <2>6 DEF SlotsAre
    <3>2. Tokens(SlotsIn(w, m))[1] > 0
      BY <2>3, <2>6, <2>8, <3>1 DEF TokensInAll, SlotsAre
    <3>3. QED
      BY <2>6, <3>1, <3>2 DEF HasTokens, SlotsAre
  <2>9. CASE EachHasTokens(parts, Len(parts), TokensOf(batch, mini))
    <3>1. PICK a \in 1..Len(parts[m]) : TokensOf(batch, mini)[parts[m][a]] > 0
      BY <2>4, <2>9 DEF EachHasTokens
    <3>2. TokensOf(batch, mini)[parts[m][a]] = batch[mini[parts[m][a]]].tokens
      BY <2>6, <2>7 DEF TokensOf, SlotsAre
    <3>3. Tokens(SlotsIn(w, m))[a] > 0
      BY <2>6, <3>1, <3>2 DEF SlotsAre
    <3>4. QED
      BY <2>6, <3>3 DEF HasTokens, SlotsAre
  <2>10. CASE phase = "update" /\ Len(parts) = Len(mini)
    <3>1. Divides(parts, Len(mini), Len(mini))
      BY <2>2, <2>10 DEF IsCutOf
    <3>2. Len(SlotsIn(w, m)) = 1
      BY <2>4, <2>6, <2>7, <2>10, <3>1, OneRowEach DEF SlotsAre
    <3>3. IsFull(Ranks, at, mini_batches, batch, w)
      BY <2>1, <2>5, <2>10 DEF CInv, CutsOK
    <3>4. PICK v \in Ranks :
            /\ at[v].call # "none" /\ at[v].mini = at[w].mini
            /\ Total(TokensOf(batch, mini_batches[v][at[v].mini])) > (Len(mini) - 1) * MaxTokenLen
      BY <2>5, <3>3 DEF IsFull
    <3>5. Tokens(mini_batches[v][at[v].mini]) = TokensOf(batch, mini_batches[v][at[v].mini])
      BY DEF Tokens, TokensOf
    <3>6. Total(Tokens(mini_batches[v][at[v].mini])) > (Len(mini) - 1) * MaxTokenLen
      BY <3>4, <3>5
    <3>7. CutIntoRows(w)
      BY <2>5, <2>10, <3>6 DEF CutIntoRows
    <3>8. QED
      BY <2>10, <3>2, <3>7
  <2>11. QED
    BY <2>2, <2>3, <2>8, <2>9, <2>10 DEF IsCutOf
<1>2. QED
  BY <1>1, Invariance, RanksInvariance, CutsInvariance, TypeCorrect, PaddingHidesNoImage, PTL
     DEF ForwardsAreSound

(* The policy is trained on every row of the loop once per epoch and on    *)
(* nothing else, and the metrics see the rows of the loop in their order:  *)
(* for any number of rows, ranks, mini-batches and micro-batches           *)
(* (DataProto.chunk, split, prepare_dynamic_batch, update_policy).         *)
THEOREM TrainedOnceCorrect == Spec => []EveryRowTrainedOnce
<1>1. IInv /\ RInv /\ MetricsSeeTheLoop => EveryRowTrainedOnce
  <2> SUFFICES ASSUME IInv, RInv, MetricsSeeTheLoop, phase = "done"
               PROVE  /\ [k \in DOMAIN batch |-> batch[k].row] = [k \in DOMAIN gen_batch_output |-> k]
                      /\ \A k \in DOMAIN gen_batch_output : TimesTrained(k) = PpoEpochs
    BY DEF EveryRowTrainedOnce
  <2>1. gen_batch_output = LoopRows /\ DOMAIN LoopRows = 1..Len(LoopRows)
    BY DomainOfRows DEF IInv, LoopOK
  <2>2. [k \in DOMAIN batch |-> batch[k].row] = [k \in 1..Len(LoopRows) |-> k]
    BY DEF MetricsSeeTheLoop
  <2>3. \A k \in 1..Len(LoopRows) : TimesTrained(k) = PpoEpochs
    BY DEF RInv, TrainedOK
  <2>4. QED
    BY <2>1, <2>2, <2>3
<1>2. QED
  BY <1>1, Invariance, RanksInvariance, MetricsCorrect, PTL
=============================================================================
