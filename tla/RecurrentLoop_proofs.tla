----------------------- MODULE RecurrentLoop_proofs -----------------------
(***************************************************************************)
(* Proofs about RecurrentLoop for batches of any size, any number of       *)
(* chunks and any chunk size: its types, that every memory was drafted     *)
(* from a prefix of its own context, that rows, indices and masks of all   *)
(* turns stay in step, that the loop implements a sequential reader of     *)
(* every sample by itself, and that the result of a call is complete.      *)
(*                                                                         *)
(* None of them is inductive by itself. What a turn writes to the          *)
(* memory depends on the prompts built before the generation call, so the  *)
(* invariant below also says what the rows of the turn in progress are,    *)
(* and that the mask used to scatter the responses is still the mask the   *)
(* prompts were gathered with.                                             *)
(***************************************************************************)
EXTENDS RecurrentLoop, SequenceTheorems, FunctionTheorems, FiniteSetTheorems,
        TLAPS

TurnRows == IF pc = "generate" THEN messages ELSE gen_output

(* Between action() and the end of update() the last index and mask are    *)
(* those of the turn in progress, and in a chunk turn its rows hold what   *)
(* the memories of the active samples become.                              *)
TurnInProgress ==
  LET n == Len(sample_index_list)
  IN  pc \in {"generate", "update"} =>
        /\ n = Len(gen_output_list) + 1
        /\ TurnMatches(TurnRows, sample_index_list[n], final_mask_list[n])
        /\ ~is_final =>
             /\ active_mask = Active
             /\ sample_index_list[n] \in ArangeWhere(Active)
             /\ \A k \in DOMAIN TurnRows :
                  TurnRows[k].seen = ReadAfter(TurnRows[k].sample, step + 1)

(* Between turns every turn has its responses.                             *)
TurnsComplete ==
  pc \in {"loop", "generate_subsampled", "generate_gap_fill"} =>
    Len(sample_index_list) = Len(gen_output_list)

(* From the final turn on every context is used up, and there is one       *)
(* prompt and one image per sample for the two extra turns to work on.     *)
FinalTurn ==
  /\ pc \in {"generate_subsampled", "generate_gap_fill"} => is_final
  /\ (is_final /\ pc # "failed") =>
       /\ Len(messages) = Len(ctx_length)
       /\ Len(images) = Len(ctx_length)
       /\ \A s \in Samples : ctx_length[s] <= ChunkSize * step

IInv ==
  /\ TypeOK
  /\ MemoryIsReadPrefix
  /\ RowsMatchIndex
  /\ TurnInProgress
  /\ TurnsComplete
  /\ FinalTurn
----------------------------------------------------------------------------
(* Sequences built as functions on an interval.                            *)
LEMMA FunctionIsSequence ==
  ASSUME NEW S, NEW n \in Nat, NEW f \in [1..n -> S]
  PROVE  f \in Seq(S) /\ Len(f) = n /\ DOMAIN f = 1..n
OBVIOUS

(* The arithmetic of chunk boundaries that the provers need spelled out.   *)
LEMMA ChunkBoundary ==
  ASSUME NEW n \in Nat
  PROVE  /\ ChunkSize * n \in Nat
         /\ n * ChunkSize = ChunkSize * n
         /\ ChunkSize * (n + 1) = ChunkSize * n + ChunkSize
         /\ ChunkSize * n < ChunkSize * (n + 1)
<1>1. ChunkSize \in Nat /\ ChunkSize > 0
  BY LoopAssumption
<1>2. QED
  BY <1>1

(* Samples are numbered from 1, and a context is a sequence of tokens.     *)
LEMMA ContextType ==
  ASSUME TypeOK, NEW s \in Samples
  PROVE  /\ s \in 1..MaxBatchSize /\ s \in 1..Len(ctx_length)
         /\ ctx_length[s] \in 0..MaxPromptLength
         /\ ctx_length[s] \in Nat
         /\ Context(s) \in Seq(Tokens)
         /\ Len(Context(s)) = ctx_length[s]
<1>1. MaxPromptLength \in Nat
  BY LoopAssumption DEF MaxPromptLength
<1>2. s \in 1..MaxBatchSize /\ s \in 1..Len(ctx_length) /\ ctx_length[s] \in 0..MaxPromptLength
  BY <1>1, LoopAssumption DEF TypeOK, Samples
<1>3. ctx_length[s] \in Nat
  BY <1>1, <1>2
<1>4. Context(s) \in [1..ctx_length[s] -> Tokens]
  BY <1>1, <1>2, <1>3 DEF Context, Tokens
<1>5. QED
  BY <1>2, <1>3, <1>4, FunctionIsSequence

(* What was read after n turns is a sequence of tokens; a chunk turn       *)
(* appends its chunk to it, and a context that is used up adds nothing.    *)
LEMMA ReadAfterType ==
  ASSUME TypeOK, NEW s \in Samples, NEW n \in Nat
  PROVE  ReadAfter(s, n) \in Seq(Tokens)
<1>1. ChunkSize * n \in Nat
  BY ChunkBoundary
<1>2. Smaller(ChunkSize * n, ctx_length[s]) \in 0..ctx_length[s]
  BY <1>1, ContextType DEF Smaller
<1>3. \A i \in 1..Smaller(ChunkSize * n, ctx_length[s]) : Context(s)[i] \in Tokens
  BY <1>2, ContextType, LenProperties
<1>4. QED
  BY <1>2, <1>3, SubSeqProperties, ContextType DEF ReadAfter

LEMMA ChunkType ==
  ASSUME TypeOK, NEW s \in Active
  PROVE  /\ Chunk(s) \in Seq(Tokens)
         /\ ReadAfter(s, step) \o Chunk(s) = ReadAfter(s, step + 1)
<1>1. s \in Samples /\ step \in Nat
  BY DEF Active, TypeOK
<1> DEFINE from == ChunkSize * step
           to   == Smaller(ChunkSize * (step + 1), ctx_length[s])
<1>2. /\ from \in Nat
      /\ ChunkSize * (step + 1) \in Nat
      /\ from < ChunkSize * (step + 1)
      /\ from < ctx_length[s]
  BY <1>1, ChunkBoundary, ContextType DEF Active
<1>3. to \in from..ctx_length[s]
  BY <1>1, <1>2, ContextType DEF Smaller
<1>4. ReadAfter(s, step) = SubSeq(Context(s), 1, from)
  BY <1>1, <1>2, ContextType DEF ReadAfter, Smaller
<1>5. \A i \in (from + 1)..to : Context(s)[i] \in Tokens
  BY <1>1, <1>2, <1>3, ContextType, LenProperties
<1>6. Chunk(s) = SubSeq(Context(s), from + 1, to)
  BY DEF Chunk
<1>7. Chunk(s) \in Seq(Tokens)
  <2> HIDE DEF from, to
  <2> QED
    BY <1>1, <1>2, <1>3, <1>5, <1>6, SubSeqProperties, ContextType
<1>8. SubSeq(Context(s), 1, from) \o SubSeq(Context(s), from + 1, to)
        = SubSeq(Context(s), 1, to)
  <2> HIDE DEF from, to
  <2>1. /\ from \in (1 - 1)..Len(Context(s))
        /\ to \in from..Len(Context(s))
        /\ 1 \in 1..(Len(Context(s)) + 1)
    BY <1>1, <1>2, <1>3, ContextType
  <2> QED
    BY <1>1, <2>1, ContextType, ConcatAdjacentSubSeq
<1>9. QED
  BY <1>4, <1>6, <1>7, <1>8 DEF ReadAfter

LEMMA NothingLeft ==
  ASSUME TypeOK, NEW s \in Samples, ctx_length[s] <= ChunkSize * step
  PROVE  ReadAfter(s, step + 1) = ReadAfter(s, step)
<1>1. step \in Nat
  BY DEF TypeOK
<1>2. ctx_length[s] \in Nat
  BY ContextType
<1>3. /\ ChunkSize * step \in Nat
      /\ ChunkSize * (step + 1) \in Nat
      /\ ChunkSize * step < ChunkSize * (step + 1)
  BY <1>1, ChunkBoundary
<1>4. QED
  BY <1>1, <1>2, <1>3 DEF ReadAfter, Smaller

(* Sets of samples are finite, so that arange(bsz)[mask] has a length.     *)
LEMMA SampleSets ==
  ASSUME TypeOK, NEW S \in SUBSET Samples
  PROVE  IsFiniteSet(S) /\ Cardinality(S) \in Nat
<1>1. Samples = 1..Len(ctx_length) /\ Len(ctx_length) \in Nat
  BY LenProperties DEF TypeOK, Samples
<1>2. IsFiniteSet(Samples)
  BY <1>1, FS_Interval
<1>3. QED
  BY <1>2, FS_Subset, FS_CardinalityType

(* An increasing enumeration puts as many elements before s as there are   *)
(* smaller ones, and so a set has one enumeration only: rows gathered with *)
(* a mask and scattered with the same mask return to where they came from. *)
LEMMA PlaceInArange ==
  ASSUME NEW S \in SUBSET Int, IsFiniteSet(S),
         NEW f \in ArangeWhere(S), NEW k \in 1..Cardinality(S)
  PROVE  Cardinality({s \in S : s <= f[k]}) = k
<1> DEFINE T == {s \in S : s <= f[k]}
           h == [j \in 1..k |-> f[j]]
<1>1. Cardinality(S) \in Nat
  BY FS_CardinalityType
<1>2. /\ f \in [1..Cardinality(S) -> S]
      /\ \A i, j \in 1..Cardinality(S) : i < j => f[i] < f[j]
      /\ \A s \in S : \E j \in 1..Cardinality(S) : f[j] = s
      /\ \A s \in S : s \in Int
      /\ \A j \in 1..Cardinality(S) : f[j] \in S /\ f[j] \in Int
  BY DEF ArangeWhere
<1>3. h \in [1..k -> T]
  <2>1. \A j \in 1..k : j \in 1..Cardinality(S) /\ (j < k \/ j = k)
    BY <1>1
  <2>2. \A j \in 1..k : f[j] \in S /\ f[j] <= f[k]
    BY <1>2, <2>1
  <2>3. QED
    BY <2>2
<1>4. \A i, j \in 1..k : h[i] = h[j] => i = j
  <2>1. \A i, j \in 1..k : i < j => f[i] < f[j]
    BY <1>1, <1>2
  <2>2. \A i, j \in 1..k : i < j \/ j < i \/ i = j
    BY <1>1
  <2>3. \A i \in 1..k : f[i] \in Int
    BY <1>1, <1>2
  <2>4. QED
    BY <2>1, <2>2, <2>3
<1>5. \A s \in T : \E j \in 1..k : h[j] = s
  <2>1. TAKE s \in T
  <2>2. PICK j \in 1..Cardinality(S) : f[j] = s
    BY <1>2
  <2>3. /\ f[j] <= f[k]
        /\ f[j] \in Int /\ f[k] \in Int
    BY <1>2, <2>2
  <2>4. j <= k
    BY <1>1, <1>2, <2>3
  <2>5. QED
    BY <1>1, <2>2, <2>4
<1>6. h \in Bijection(1..k, T)
  BY <1>3, <1>4, <1>5, Fun_IsBij
<1>7. ExistsBijection(1..k, T)
  BY <1>6, Fun_ExistsBij
<1>8. QED
  BY <1>1, <1>7, FS_CountingElements

LEMMA ArangeUnique ==
  ASSUME NEW S \in SUBSET Int, IsFiniteSet(S),
         NEW f \in ArangeWhere(S), NEW g \in ArangeWhere(S)
  PROVE  f = g
<1>1. /\ f \in [1..Cardinality(S) -> S]
      /\ g \in [1..Cardinality(S) -> S]
      /\ \A s \in S : \E j \in 1..Cardinality(S) : g[j] = s
  BY DEF ArangeWhere
<1>2. ASSUME NEW k \in 1..Cardinality(S)
      PROVE  f[k] = g[k]
  <2>1. PICK j \in 1..Cardinality(S) : g[j] = f[k]
    BY <1>1
  <2>2. /\ Cardinality({s \in S : s <= f[k]}) = k
        /\ Cardinality({s \in S : s <= g[j]}) = j
    BY PlaceInArange
  <2>3. QED
    BY <2>1, <2>2
<1>3. f = [k \in 1..Cardinality(S) |-> f[k]] /\ g = [k \in 1..Cardinality(S) |-> g[k]]
  BY <1>1
<1>4. QED
  BY <1>2, <1>3
----------------------------------------------------------------------------
(* The initial state, a fresh batch, and a restart of the process.         *)
LEMMA EmptyValues ==
  /\ \A S : <<>> \in Seq(S)
  /\ Len(<<>>) = 0
  /\ DOMAIN <<>> = {}
  /\ \A S : <<>> \in [DOMAIN <<>> -> S]
  /\ 0 <= MaxBatchSize
BY LoopAssumption

LEMMA InitEstablishes == Init => IInv
<1> SUFFICES ASSUME Init PROVE IInv
  OBVIOUS
<1>1. TypeOK
  BY EmptyValues DEF Init, TypeOK, Samples
<1>2. MemoryIsReadPrefix /\ RowsMatchIndex
  BY DEF Init, MemoryIsReadPrefix, RowsMatchIndex, Samples
<1>3. TurnInProgress /\ TurnsComplete /\ FinalTurn
  BY DEF Init, TurnInProgress, TurnsComplete, FinalTurn
<1>4. QED
  BY <1>1, <1>2, <1>3 DEF IInv

LEMMA RestartPreserves == Restart => IInv'
<1> SUFFICES ASSUME Restart PROVE IInv'
  OBVIOUS
<1>1. TypeOK'
  BY EmptyValues DEF Restart, TypeOK, Samples
<1>2. MemoryIsReadPrefix' /\ RowsMatchIndex'
  BY DEF Restart, MemoryIsReadPrefix, RowsMatchIndex, Samples
<1>3. TurnInProgress' /\ TurnsComplete' /\ FinalTurn'
  BY DEF Restart, TurnInProgress, TurnsComplete, FinalTurn
<1>4. QED
  BY <1>1, <1>2, <1>3 DEF IInv

LEMMA StartPreserves ==
  ASSUME IInv, NEW n \in 1..MaxBatchSize,
         NEW lengths \in [1..n -> 0..MaxPromptLength],
         NEW m \in {"single", "triple"}, Start(m, lengths)
  PROVE  IInv'
<1>1. n \in Nat /\ n <= MaxBatchSize
  BY LoopAssumption
<1>2. /\ lengths \in Seq(0..MaxPromptLength)
      /\ Len(lengths) = n
      /\ DOMAIN lengths = 1..n
  BY <1>1, FunctionIsSequence
<1>3. ctx_length' = lengths /\ Samples' = 1..n
  BY <1>2 DEF Start, Samples
<1>4. memory' = [s \in 1..n |-> <<>>] /\ step' = 0
  BY <1>2 DEF Start
<1>5. TypeOK'
  <2>1. memory' \in [Samples' -> Seq(Tokens)]
    BY <1>3, <1>4, EmptyValues
  <2>2. image_pixels' \in {"vanilla", "quarter"}
    BY DEF Start, TypeOK, IInv
  <2>3. /\ pc' = "loop" /\ mode' \in {"single", "triple"} /\ step' = 0
        /\ is_final' = FALSE /\ active_mask' = {}
        /\ final_mask_list' = <<>> /\ sample_index_list' = <<>>
        /\ messages' = <<>> /\ images' = <<>>
        /\ gen_output' = <<>> /\ gen_output_list' = <<>>
    BY DEF Start
  <2>4. ctx_length' \in Seq(0..MaxPromptLength) /\ Len(ctx_length') <= MaxBatchSize
    BY <1>1, <1>2, <1>3
  <2>5. QED
    BY <2>1, <2>2, <2>3, <2>4, EmptyValues DEF TypeOK
<1>6. MemoryIsReadPrefix'
  <2> SUFFICES ASSUME NEW s \in Samples'
               PROVE  memory'[s] = ReadAfter(s, step)'
    BY DEF MemoryIsReadPrefix
  <2>1. ctx_length'[s] \in Nat
    BY <1>2, <1>3, LoopAssumption DEF MaxPromptLength
  <2>2. Smaller(ChunkSize * 0, ctx_length'[s]) = 0
    BY <2>1, LoopAssumption DEF Smaller
  <2>3. ReadAfter(s, step)' = SubSeq(Context(s)', 1, 0)
    BY <1>4, <2>2 DEF ReadAfter
  <2>4. QED
    BY <1>3, <1>4, <2>3, SubSeqEmpty
<1>7. RowsMatchIndex'
  BY DEF Start, RowsMatchIndex
<1>8. TurnInProgress' /\ TurnsComplete' /\ FinalTurn'
  BY DEF Start, TurnInProgress, TurnsComplete, FinalTurn
<1>9. QED
  BY <1>5, <1>6, <1>7, <1>8 DEF IInv

(* A chunk turn is prepared: the index of the turn enumerates the active   *)
(* samples, and the prompt of an active sample holds what its memory will  *)
(* be after the turn.                                                      *)
LEMMA ActiveSamples ==
  ASSUME TypeOK, NEW idx \in ArangeWhere(Active)
  PROVE  /\ idx \in Seq(Samples)
         /\ Len(idx) = Cardinality(Active)
         /\ DOMAIN idx = 1..Cardinality(Active)
         /\ Cardinality(Active) \in Nat
         /\ \A k \in 1..Cardinality(Active) : idx[k] \in Active
<1>1. Active \in SUBSET Samples
  BY DEF Active
<1>2. Cardinality(Active) \in Nat
  BY <1>1, SampleSets
<1>3. idx \in [1..Cardinality(Active) -> Active]
  BY DEF ArangeWhere
<1>4. idx \in [1..Cardinality(Active) -> Samples]
  BY <1>1, <1>3
<1>5. QED
  BY <1>2, <1>3, <1>4, FunctionIsSequence

(* action() appends an index and a mask for the turn it prepares.          *)
LEMMA NewTurn ==
  ASSUME TypeOK, RowsMatchIndex, TurnsComplete, pc = "loop",
         NEW idx \in Seq(Samples), NEW mask \in Seq(BOOLEAN),
         sample_index_list' = Append(sample_index_list, idx),
         final_mask_list' = Append(final_mask_list, mask),
         gen_output_list' = gen_output_list
  PROVE  /\ sample_index_list' \in Seq(Seq(Samples))
         /\ final_mask_list' \in Seq(Seq(BOOLEAN))
         /\ Len(sample_index_list') = Len(gen_output_list') + 1
         /\ sample_index_list'[Len(sample_index_list')] = idx
         /\ final_mask_list'[Len(sample_index_list')] = mask
         /\ RowsMatchIndex'
<1>1. /\ sample_index_list \in Seq(Seq(Samples))
      /\ final_mask_list \in Seq(Seq(BOOLEAN))
      /\ gen_output_list \in Seq(Seq(Rows))
      /\ Len(final_mask_list) = Len(sample_index_list)
      /\ Len(gen_output_list) = Len(sample_index_list)
  BY DEF TypeOK, RowsMatchIndex, TurnsComplete
<1>2. /\ sample_index_list' \in Seq(Seq(Samples))
      /\ Len(sample_index_list') = Len(sample_index_list) + 1
      /\ sample_index_list'[Len(sample_index_list) + 1] = idx
      /\ \A t \in 1..Len(sample_index_list) : sample_index_list'[t] = sample_index_list[t]
  BY <1>1, AppendProperties
<1>3. /\ final_mask_list' \in Seq(Seq(BOOLEAN))
      /\ Len(final_mask_list') = Len(sample_index_list) + 1
      /\ final_mask_list'[Len(sample_index_list) + 1] = mask
      /\ \A t \in 1..Len(sample_index_list) : final_mask_list'[t] = final_mask_list[t]
  BY <1>1, AppendProperties
<1>4. /\ DOMAIN gen_output_list = 1..Len(sample_index_list)
      /\ DOMAIN sample_index_list = 1..Len(sample_index_list)
  BY <1>1, LenProperties
<1>5. RowsMatchIndex'
  BY <1>2, <1>3, <1>4 DEF RowsMatchIndex
<1>6. QED
  BY <1>1, <1>2, <1>3, <1>5

LEMMA MemorizeRowType ==
  ASSUME IInv, NEW s \in Active
  PROVE  /\ MemorizeRow(s) \in Rows
         /\ MemorizeRow(s).sample = s
         /\ MemorizeRow(s).kind = "memorize"
         /\ MemorizeRow(s).seen = ReadAfter(s, step + 1)
<1>1. s \in Samples /\ TypeOK /\ memory[s] = ReadAfter(s, step)
  BY DEF IInv, MemoryIsReadPrefix, Active
<1>2. step \in Nat /\ image_pixels \in {"vanilla", "quarter"}
  BY <1>1 DEF TypeOK
<1>3. s \in 1..MaxBatchSize
  BY <1>1, ContextType
<1>4. memory[s] \o Chunk(s) = ReadAfter(s, step + 1)
  BY <1>1, ChunkType
<1>5. ReadAfter(s, step + 1) \in Seq(Tokens)
  BY <1>1, <1>2, ReadAfterType
<1>6. QED
  BY <1>2, <1>3, <1>4, <1>5 DEF MemorizeRow, Rows

LEMMA ActionChunkPreserves ==
  ASSUME IInv, ActionChunk
  PROVE  IInv'
<1>1. PICK idx \in ArangeWhere(Active) :
        /\ messages' = [k \in DOMAIN idx |-> MemorizeRow(idx[k])]
        /\ sample_index_list' = Append(sample_index_list, idx)
        /\ final_mask_list' = Append(final_mask_list, [k \in DOMAIN idx |-> FALSE])
  BY DEF ActionChunk
<1> DEFINE n == Cardinality(Active)
           mask == [k \in DOMAIN idx |-> FALSE]
<1>2. TypeOK /\ RowsMatchIndex /\ MemoryIsReadPrefix /\ TurnsComplete
  BY DEF IInv
<1>3. /\ pc = "loop" /\ pc' = "generate" /\ ~is_final /\ ~is_final'
      /\ active_mask' = Active
      /\ images' = <<>>
      /\ UNCHANGED <<mode, ctx_length, step, is_final, memory, image_pixels,
                     gen_output, gen_output_list>>
  BY DEF ActionChunk
<1>4. /\ Samples' = Samples
      /\ Active' = Active
      /\ \A s, k : ReadAfter(s, k)' = ReadAfter(s, k)
  BY <1>3 DEF Samples, Active, ReadAfter, Context
<1>5. /\ idx \in Seq(Samples) /\ Len(idx) = n /\ DOMAIN idx = 1..n /\ n \in Nat
      /\ \A k \in 1..n : idx[k] \in Active
  BY <1>2, ActiveSamples
<1>6. /\ \A k \in 1..n : messages'[k] = MemorizeRow(idx[k])
      /\ messages' \in [1..n -> Rows]
  BY <1>1, <1>5, MemorizeRowType
<1>7. messages' \in Seq(Rows) /\ Len(messages') = n /\ DOMAIN messages' = 1..n
  BY <1>5, <1>6, FunctionIsSequence
<1>8. mask \in Seq(BOOLEAN) /\ Len(mask) = n /\ \A k \in 1..n : mask[k] = FALSE
  BY <1>5, FunctionIsSequence
<1>9. /\ sample_index_list' \in Seq(Seq(Samples))
      /\ final_mask_list' \in Seq(Seq(BOOLEAN))
      /\ Len(sample_index_list') = Len(gen_output_list') + 1
      /\ sample_index_list'[Len(sample_index_list')] = idx
      /\ final_mask_list'[Len(sample_index_list')] = mask
      /\ RowsMatchIndex'
  <2>1. /\ sample_index_list' = Append(sample_index_list, idx)
        /\ final_mask_list' = Append(final_mask_list, mask)
    BY <1>1
  <2> HIDE DEF mask
  <2>2. QED
    BY <1>2, <1>3, <1>5, <1>8, <2>1, NewTurn
<1>10. TypeOK'
  <2>1. active_mask' \subseteq Samples'
    BY <1>3, <1>4 DEF Active
  <2>2. images' \in Seq([seen : Seq(Tokens), scale : {"none", "full"}])
    BY <1>3
  <2>3. QED
    BY <1>2, <1>3, <1>4, <1>7, <1>9, <2>1, <2>2 DEF TypeOK
<1>11. MemoryIsReadPrefix'
  BY <1>2, <1>3, <1>4 DEF MemoryIsReadPrefix
<1>12. TurnInProgress'
  <2>1. TurnRows' = messages'
    BY <1>3 DEF TurnRows
  <2>2. TurnMatches(messages', idx, mask)
    BY <1>5, <1>6, <1>7, <1>8, MemorizeRowType DEF TurnMatches
  <2>3. \A k \in DOMAIN messages' :
          messages'[k].seen = ReadAfter(messages'[k].sample, step + 1)
    BY <1>5, <1>6, <1>7, MemorizeRowType
  <2> HIDE DEF mask
  <2>4. QED
    BY <1>3, <1>4, <1>9, <2>1, <2>2, <2>3 DEF TurnInProgress
<1>13. TurnsComplete' /\ FinalTurn'
  BY <1>3 DEF TurnsComplete, FinalTurn
<1>14. QED
  BY <1>9, <1>10, <1>11, <1>12, <1>13 DEF IInv

(* The final turn is prepared: every context is used up, and there is one  *)
(* image and one prompt per sample.                                        *)
LEMMA SamplesInterval ==
  ASSUME TypeOK
  PROVE  /\ Len(ctx_length) \in Nat
         /\ Samples = 1..Len(ctx_length)
         /\ \A s \in Samples : s \in 1..MaxBatchSize
BY SMTT(30), LenProperties, LoopAssumption DEF TypeOK, Samples

LEMMA ImageRowType ==
  ASSUME NEW s \in 1..MaxBatchSize,
         NEW kind \in {"answer", "subsampled", "gap_fill"},
         NEW img \in [seen : Seq(Tokens), scale : {"none", "full", "quarter"}],
         NEW pixels \in {"vanilla", "quarter"}
  PROVE  /\ ImageRow(s, kind, img, pixels) \in Rows
         /\ ImageRow(s, kind, img, pixels).sample = s
         /\ ImageRow(s, kind, img, pixels).kind = kind
BY DEF ImageRow, Rows

LEMMA ActionFinalPreserves ==
  ASSUME IInv, ActionFinal
  PROVE  IInv'
<1> DEFINE idx == [s \in Samples |-> s]
           mask == [s \in Samples |-> TRUE]
           n == Len(ctx_length)
           Images == [seen : Seq(Tokens), scale : {"none", "full"}]
<1>1. TypeOK /\ RowsMatchIndex /\ MemoryIsReadPrefix /\ TurnsComplete
  BY DEF IInv
<1>2. /\ pc = "loop" /\ pc' = "generate" /\ is_final'
      /\ Active = {} /\ active_mask' = {}
      /\ sample_index_list' = Append(sample_index_list, idx)
      /\ final_mask_list' = Append(final_mask_list, mask)
      /\ messages' = [s \in Samples |-> ImageRow(s, "answer", images'[s], image_pixels)]
      /\ UNCHANGED <<mode, ctx_length, step, memory, image_pixels, gen_output,
                     gen_output_list>>
  BY DEF ActionFinal
<1>3. PICK lost \in SUBSET Samples : images' = [s \in Samples |-> ImageOf(s, lost)]
  BY DEF ActionFinal
<1>4. /\ n \in Nat /\ Samples = 1..n
      /\ \A s \in Samples : s \in 1..MaxBatchSize
  BY <1>1, SamplesInterval
<1>5. Samples' = Samples /\ \A s, k : ReadAfter(s, k)' = ReadAfter(s, k)
  BY <1>2 DEF Samples, ReadAfter, Context
<1>6. /\ images' \in Seq(Images) /\ Len(images') = n
      /\ \A s \in Samples : images'[s] \in Images
  <2>1. \A s \in Samples : memory[s] \in Seq(Tokens)
    BY <1>1 DEF TypeOK
  <2>2. \A s \in Samples : ImageOf(s, lost) \in Images
    BY <2>1, EmptyValues DEF ImageOf
  <2>3. images' \in [1..n -> Images]
    BY <1>3, <1>4, <2>2
  <2>4. QED
    BY <1>4, <2>3, FunctionIsSequence
<1>7. /\ messages' \in Seq(Rows) /\ Len(messages') = n /\ DOMAIN messages' = 1..n
      /\ \A s \in Samples : messages'[s].sample = s /\ messages'[s].kind = "answer"
  <2>1. image_pixels \in {"vanilla", "quarter"}
    BY <1>1 DEF TypeOK
  <2>2. \A s \in Samples :
          images'[s] \in [seen : Seq(Tokens), scale : {"none", "full", "quarter"}]
    BY <1>6
  <2>3. \A s \in Samples :
          LET row == ImageRow(s, "answer", images'[s], image_pixels)
          IN  row \in Rows /\ row.sample = s /\ row.kind = "answer"
    BY <1>4, <2>1, <2>2, ImageRowType
  <2>4. messages' \in [1..n -> Rows]
    BY <1>2, <1>4, <2>3
  <2>5. QED
    BY <1>2, <1>4, <2>3, <2>4, FunctionIsSequence
<1>8. /\ idx \in Seq(Samples) /\ Len(idx) = n /\ mask \in Seq(BOOLEAN) /\ Len(mask) = n
      /\ \A s \in Samples : idx[s] = s /\ mask[s] = TRUE
  <2>1. idx \in [1..n -> Samples] /\ mask \in [1..n -> BOOLEAN]
    BY <1>4
  <2>2. QED
    BY <1>4, <2>1, FunctionIsSequence
<1> HIDE DEF idx, mask, Images
<1>9. /\ sample_index_list' \in Seq(Seq(Samples))
      /\ final_mask_list' \in Seq(Seq(BOOLEAN))
      /\ Len(sample_index_list') = Len(gen_output_list') + 1
      /\ sample_index_list'[Len(sample_index_list')] = idx
      /\ final_mask_list'[Len(sample_index_list')] = mask
      /\ RowsMatchIndex'
  BY <1>1, <1>2, <1>8, NewTurn
<1>10. TypeOK'
  BY <1>1, <1>2, <1>5, <1>6, <1>7, <1>9 DEF TypeOK, Images
<1>11. MemoryIsReadPrefix'
  BY <1>1, <1>2, <1>5 DEF MemoryIsReadPrefix
<1>12. TurnInProgress'
  <2>1. TurnRows' = messages'
    BY <1>2 DEF TurnRows
  <2>2. TurnMatches(messages', idx, mask)
    BY <1>4, <1>7, <1>8 DEF TurnMatches
  <2>3. QED
    BY <1>2, <1>9, <2>1, <2>2 DEF TurnInProgress
<1>13. FinalTurn'
  <2>1. step \in Nat
    BY <1>1 DEF TypeOK
  <2>2. \A s \in Samples : ctx_length[s] <= ChunkSize * step
    <3> SUFFICES ASSUME NEW s \in Samples
                 PROVE  ctx_length[s] <= ChunkSize * step
      OBVIOUS
    <3>1. ctx_length[s] \in Nat
      BY <1>1, ContextType
    <3>2. ~(ctx_length[s] > step * ChunkSize)
      BY <1>2 DEF Active
    <3>3. ChunkSize * step \in Nat /\ step * ChunkSize = ChunkSize * step
      BY <2>1, ChunkBoundary
    <3>4. QED
      BY <3>1, <3>2, <3>3
  <2>3. QED
    BY <1>2, <1>5, <1>6, <1>7, <2>2 DEF FinalTurn
<1>14. TurnsComplete'
  BY <1>2 DEF TurnsComplete
<1>15. QED
  BY <1>9, <1>10, <1>11, <1>12, <1>13, <1>14 DEF IInv

(* The responses of a turn are, row by row, those of its prompts.          *)
LEMMA GeneratePreserves ==
  ASSUME IInv, Generate
  PROVE  IInv'
<1>1. /\ TypeOK /\ RowsMatchIndex /\ MemoryIsReadPrefix /\ TurnInProgress
      /\ FinalTurn
  BY DEF IInv
<1>2. /\ pc = "generate" /\ pc' = "update"
      /\ UNCHANGED <<mode, ctx_length, step, is_final, active_mask, memory,
                     final_mask_list, sample_index_list, image_pixels, messages,
                     images, gen_output_list>>
  BY DEF Generate, agent_vars
<1>3. gen_output' = messages
  <2>1. messages \in [1..Len(messages) -> Rows] /\ DOMAIN messages = 1..Len(messages)
    BY <1>1, LenProperties DEF TypeOK
  <2>2. QED
    BY <2>1 DEF Generate, Respond
<1>4. /\ Samples' = Samples
      /\ Active' = Active
      /\ \A s, k : ReadAfter(s, k)' = ReadAfter(s, k)
  BY <1>2 DEF Samples, Active, ReadAfter, Context
<1>5. TypeOK'
  BY <1>1, <1>2, <1>3, <1>4 DEF TypeOK
<1>6. MemoryIsReadPrefix' /\ RowsMatchIndex'
  BY <1>1, <1>2, <1>4 DEF MemoryIsReadPrefix, RowsMatchIndex
<1>7. TurnInProgress'
  <2>1. TurnRows' = TurnRows
    BY <1>2, <1>3 DEF TurnRows
  <2>2. QED
    BY <1>1, <1>2, <1>4, <2>1 DEF TurnInProgress
<1>8. FinalTurn' /\ TurnsComplete'
  BY <1>1, <1>2, <1>4 DEF FinalTurn, TurnsComplete
<1>9. QED
  BY <1>5, <1>6, <1>7, <1>8 DEF IInv

(* The responses of a chunk turn become the memories of the active         *)
(* samples: the mask enumerates the samples in the order of the rows,      *)
(* because a set has only one increasing enumeration.                      *)
LEMMA UpdatedMemory ==
  ASSUME IInv, pc = "update", ~is_final,
         Len(gen_output) = Cardinality(active_mask),
         NEW idx \in ArangeWhere(active_mask)
  PROVE  Updated(idx) = [s \in Samples |-> ReadAfter(s, step + 1)]
<1>1. TypeOK /\ MemoryIsReadPrefix /\ TurnInProgress
  BY DEF IInv
<1> DEFINE turn == sample_index_list[Len(sample_index_list)]
<1>2. /\ active_mask = Active
      /\ turn \in ArangeWhere(Active)
      /\ \A k \in DOMAIN gen_output :
           /\ gen_output[k].sample = turn[k]
           /\ gen_output[k].seen = ReadAfter(gen_output[k].sample, step + 1)
  BY <1>1 DEF TurnInProgress, TurnRows, TurnMatches
<1>3. Active \in SUBSET Samples /\ Active \in SUBSET Int /\ IsFiniteSet(Active)
  <2>1. Active \in SUBSET Samples
    BY DEF Active
  <2>2. QED
    BY <1>1, <2>1, SampleSets, SamplesInterval
<1> HIDE DEF turn
<1>4. idx = turn
  BY <1>2, <1>3, ArangeUnique
<1>5. /\ DOMAIN idx = 1..Cardinality(Active)
      /\ DOMAIN gen_output = 1..Cardinality(Active)
      /\ \A s \in Active : \E k \in 1..Cardinality(Active) : idx[k] = s
  <2>1. gen_output \in Seq(Rows)
    BY <1>1 DEF TypeOK
  <2>2. QED
    BY <1>2, <2>1, LenProperties DEF ArangeWhere
<1>6. ASSUME NEW s \in Active
      PROVE  gen_output[CHOOSE k \in DOMAIN idx : idx[k] = s].seen = ReadAfter(s, step + 1)
  <2> DEFINE k == CHOOSE k \in DOMAIN idx : idx[k] = s
  <2>1. k \in DOMAIN idx /\ idx[k] = s
    BY <1>5
  <2> HIDE DEF k
  <2>2. QED
    BY <1>2, <1>4, <1>5, <2>1 DEF k
<1>7. ASSUME NEW s \in Samples, s \notin Active
      PROVE  memory[s] = ReadAfter(s, step + 1)
  <2>1. step \in Nat
    BY <1>1 DEF TypeOK
  <2>2. ctx_length[s] \in Nat
    BY <1>1, ContextType
  <2>3. ~(ctx_length[s] > step * ChunkSize)
    BY <1>7 DEF Active
  <2>4. ChunkSize * step \in Nat /\ step * ChunkSize = ChunkSize * step
    BY <2>1, ChunkBoundary
  <2>5. ctx_length[s] <= ChunkSize * step
    BY <2>2, <2>3, <2>4
  <2>6. QED
    BY <1>1, <2>5, NothingLeft DEF MemoryIsReadPrefix
<1>8. QED
  BY <1>2, <1>6, <1>7 DEF Updated

LEMMA UpdatePreserves ==
  ASSUME IInv, Update
  PROVE  IInv'
<1>1. /\ TypeOK /\ RowsMatchIndex /\ MemoryIsReadPrefix /\ TurnInProgress
      /\ FinalTurn
  BY DEF IInv
<1>2. /\ pc = "update" /\ pc' = "loop"
      /\ step' = step + 1
      /\ gen_output_list' = Append(gen_output_list, gen_output)
      /\ UNCHANGED <<mode, ctx_length, is_final, active_mask, final_mask_list,
                     sample_index_list, image_pixels, messages, images, gen_output>>
  BY DEF Update
<1>3. /\ Samples' = Samples
      /\ \A s, k : ReadAfter(s, k)' = ReadAfter(s, k)
      /\ step \in Nat
  BY <1>1, <1>2 DEF Samples, ReadAfter, Context, TypeOK
<1>4. memory' = [s \in Samples |-> ReadAfter(s, step + 1)]
  <2>1. CASE is_final
    <3>1. memory \in [Samples -> Seq(Tokens)] /\ memory' = memory
      BY <1>1, <2>1 DEF TypeOK, Update
    <3>2. \A s \in Samples : ctx_length[s] <= ChunkSize * step
      BY <1>1, <1>2, <2>1 DEF FinalTurn
    <3>3. \A s \in Samples : memory[s] = ReadAfter(s, step + 1)
      BY <1>1, <3>2, NothingLeft DEF MemoryIsReadPrefix
    <3>4. QED
      BY <3>1, <3>3
  <2>2. CASE ~is_final
    <3>1. PICK idx \in ArangeWhere(active_mask) : memory' = Updated(idx)
      BY <2>2 DEF Update
    <3>2. Len(gen_output) = Cardinality(active_mask)
      BY <2>2 DEF Update
    <3>3. QED
      BY <1>2, <2>2, <3>1, <3>2, UpdatedMemory
  <2>3. QED
    BY <2>1, <2>2
<1>5. /\ gen_output_list \in Seq(Seq(Rows)) /\ gen_output \in Seq(Rows)
      /\ Len(sample_index_list) = Len(gen_output_list) + 1
      /\ TurnMatches(gen_output, sample_index_list[Len(sample_index_list)],
                     final_mask_list[Len(sample_index_list)])
  BY <1>1, <1>2 DEF TypeOK, TurnInProgress, TurnRows
<1>6. /\ gen_output_list' \in Seq(Seq(Rows))
      /\ Len(gen_output_list') = Len(sample_index_list)
      /\ gen_output_list'[Len(sample_index_list)] = gen_output
      /\ \A t \in 1..Len(gen_output_list) : gen_output_list'[t] = gen_output_list[t]
  BY <1>2, <1>5, AppendProperties
<1>7. TypeOK'
  <2>1. memory' \in [Samples' -> Seq(Tokens)]
    BY <1>1, <1>3, <1>4, ReadAfterType
  <2>2. step' \in Nat
    BY <1>2, <1>3
  <2>3. QED
    BY <1>1, <1>2, <1>3, <1>6, <2>1, <2>2 DEF TypeOK
<1>8. MemoryIsReadPrefix'
  BY <1>2, <1>3, <1>4 DEF MemoryIsReadPrefix
<1>9. RowsMatchIndex'
  <2>1. sample_index_list \in Seq(Seq(Samples))
    BY <1>1 DEF TypeOK
  <2>2. /\ DOMAIN sample_index_list = 1..Len(sample_index_list)
        /\ DOMAIN gen_output_list = 1..Len(gen_output_list)
        /\ DOMAIN gen_output_list' = 1..Len(sample_index_list)
        /\ Len(gen_output_list) \in Nat
    BY <1>5, <1>6, <2>1, LenProperties
  <2>3. ASSUME NEW t \in 1..Len(sample_index_list)
        PROVE  TurnMatches(gen_output_list'[t], sample_index_list[t], final_mask_list[t])
    <3>1. t = Len(sample_index_list) \/ t \in 1..Len(gen_output_list)
      BY <1>5, <2>2
    <3>2. QED
      BY <1>1, <1>5, <1>6, <2>2, <3>1 DEF RowsMatchIndex
  <2>4. Len(final_mask_list) = Len(sample_index_list)
    BY <1>1 DEF RowsMatchIndex
  <2>5. QED
    BY <1>2, <2>2, <2>3, <2>4 DEF RowsMatchIndex
<1>10. FinalTurn'
  <2>1. ASSUME NEW s \in Samples, ctx_length[s] <= ChunkSize * step
        PROVE  ctx_length[s] <= ChunkSize * (step + 1)
    <3>1. ctx_length[s] \in Nat
      BY <1>1, ContextType
    <3>2. QED
      BY <1>3, <2>1, <3>1, ChunkBoundary
  <2>2. QED
    BY <1>1, <1>2, <1>3, <2>1 DEF FinalTurn
<1>11. TurnInProgress' /\ TurnsComplete'
  BY <1>2, <1>6 DEF TurnInProgress, TurnsComplete
<1>12. QED
  BY <1>7, <1>8, <1>9, <1>10, <1>11 DEF IInv

(* The end of a batch. The two extra turns of the triple mode replace the  *)
(* prompts, one per sample, and append their responses to the list; the    *)
(* turns that have an index are not touched.                               *)
LEMMA EndSinglePreserves ==
  ASSUME IInv, EndSingle
  PROVE  IInv'
<1>1. /\ TypeOK /\ RowsMatchIndex /\ MemoryIsReadPrefix /\ FinalTurn
      /\ pc = "loop" /\ pc' = "returned"
      /\ UNCHANGED <<mode, ctx_length, step, is_final, active_mask, memory,
                     final_mask_list, sample_index_list, image_pixels, messages,
                     images, gen_output, gen_output_list>>
  BY DEF IInv, EndSingle, agent_vars
<1>2. /\ Samples' = Samples
      /\ \A s, k : ReadAfter(s, k)' = ReadAfter(s, k)
  BY <1>1 DEF Samples, ReadAfter, Context
<1>3. TypeOK'
  BY <1>1, <1>2 DEF TypeOK
<1>4. MemoryIsReadPrefix' /\ RowsMatchIndex' /\ FinalTurn'
  BY <1>1, <1>2 DEF MemoryIsReadPrefix, RowsMatchIndex, FinalTurn
<1>5. TurnInProgress' /\ TurnsComplete'
  BY <1>1 DEF TurnInProgress, TurnsComplete
<1>6. QED
  BY <1>3, <1>4, <1>5 DEF IInv

LEMMA FailurePreserves ==
  ASSUME IInv, RenderFails \/ GenerateFails
  PROVE  IInv'
<1>1. /\ TypeOK /\ RowsMatchIndex /\ MemoryIsReadPrefix
      /\ pc' = "failed" /\ is_final' \in BOOLEAN /\ active_mask' \subseteq active_mask
      /\ UNCHANGED <<mode, ctx_length, step, memory, final_mask_list,
                     sample_index_list, image_pixels, messages, images,
                     gen_output, gen_output_list>>
  BY DEF IInv, TypeOK, RenderFails, GenerateFails, agent_vars
<1>2. /\ Samples' = Samples
      /\ \A s, k : ReadAfter(s, k)' = ReadAfter(s, k)
  BY <1>1 DEF Samples, ReadAfter, Context
<1>3. TypeOK'
  BY <1>1, <1>2 DEF TypeOK
<1>4. MemoryIsReadPrefix' /\ RowsMatchIndex'
  BY <1>1, <1>2 DEF MemoryIsReadPrefix, RowsMatchIndex
<1>5. TurnInProgress' /\ TurnsComplete' /\ FinalTurn'
  BY <1>1 DEF TurnInProgress, TurnsComplete, FinalTurn
<1>6. QED
  BY <1>3, <1>4, <1>5 DEF IInv

(* The prompts of an extra turn: one well-formed row per sample.           *)
LEMMA ExtraTurnRows ==
  ASSUME TypeOK, NEW kind \in {"subsampled", "gap_fill"},
         NEW of \in [Samples -> 1..MaxBatchSize],
         NEW img \in [Samples -> [seen : Seq(Tokens), scale : {"none", "full", "quarter"}]],
         NEW pixels \in {"vanilla", "quarter"}
  PROVE  LET rows == [s \in Samples |-> ImageRow(of[s], kind, img[s], pixels)]
         IN  rows \in Seq(Rows) /\ Len(rows) = Len(ctx_length)
<1>1. Len(ctx_length) \in Nat /\ Samples = 1..Len(ctx_length)
  BY SamplesInterval
<1>2. \A s \in Samples : ImageRow(of[s], kind, img[s], pixels) \in Rows
  BY ImageRowType
<1> DEFINE rows == [s \in Samples |-> ImageRow(of[s], kind, img[s], pixels)]
<1>3. rows \in [1..Len(ctx_length) -> Rows]
  BY <1>1, <1>2
<1>4. QED
  BY <1>1, <1>3, FunctionIsSequence

LEMMA ImagesOfSamples ==
  ASSUME TypeOK, Len(images) = Len(ctx_length), NEW s \in Samples
  PROVE  /\ images[s] \in [seen : Seq(Tokens), scale : {"none", "full", "quarter"}]
         /\ Subsampled(images[s]) \in [seen : Seq(Tokens), scale : {"none", "full", "quarter"}]
<1>1. images \in Seq([seen : Seq(Tokens), scale : {"none", "full"}])
  BY DEF TypeOK
<1>2. s \in 1..Len(images)
  BY SamplesInterval
<1>3. images[s] \in [seen : Seq(Tokens), scale : {"none", "full"}]
  BY <1>1, <1>2, ElementOfSeq
<1>4. QED
  BY <1>3 DEF Subsampled

LEMMA EndTriplePreserves ==
  ASSUME IInv, EndTriple
  PROVE  IInv'
<1>1. /\ TypeOK /\ RowsMatchIndex /\ MemoryIsReadPrefix /\ FinalTurn /\ TurnsComplete
      /\ pc = "loop" /\ is_final /\ pc' = "generate_subsampled"
      /\ image_pixels' = "quarter"
      /\ UNCHANGED <<mode, ctx_length, step, is_final, active_mask, memory,
                     final_mask_list, sample_index_list, images, gen_output,
                     gen_output_list>>
  BY DEF IInv, EndTriple
<1>2. /\ Samples' = Samples
      /\ \A s, k : ReadAfter(s, k)' = ReadAfter(s, k)
  BY <1>1 DEF Samples, ReadAfter, Context
<1>3. Len(messages) = Len(ctx_length) /\ Len(images) = Len(ctx_length)
  BY <1>1 DEF FinalTurn
<1>4. messages' \in Seq(Rows) /\ Len(messages') = Len(ctx_length)
  <2> DEFINE of == [s \in Samples |-> messages[s].sample]
             img == [s \in Samples |-> Subsampled(images[s])]
  <2>1. \A s \in Samples : messages[s] \in Rows
    <3>1. messages \in Seq(Rows)
      BY <1>1 DEF TypeOK
    <3>2. QED
      BY <1>1, <1>3, <3>1, SamplesInterval, ElementOfSeq
  <2>2. of \in [Samples -> 1..MaxBatchSize]
    BY <2>1 DEF Rows
  <2>3. img \in [Samples -> [seen : Seq(Tokens), scale : {"none", "full", "quarter"}]]
    BY <1>1, <1>3, ImagesOfSamples
  <2>4. image_pixels \in {"vanilla", "quarter"}
    BY <1>1 DEF TypeOK
  <2>5. messages' = [s \in Samples |-> ImageRow(of[s], "subsampled", img[s], image_pixels)]
    BY DEF EndTriple
  <2> HIDE DEF of, img
  <2>6. LET rows == [s \in Samples |-> ImageRow(of[s], "subsampled", img[s], image_pixels)]
        IN  rows \in Seq(Rows) /\ Len(rows) = Len(ctx_length)
    <3>1. TypeOK
      BY <1>1
    <3>2. QED
      BY <2>2, <2>3, <2>4, <3>1, ExtraTurnRows
  <2>7. QED
    BY <2>5, <2>6
<1>5. TypeOK'
  BY <1>1, <1>2, <1>4 DEF TypeOK
<1>6. MemoryIsReadPrefix' /\ RowsMatchIndex'
  BY <1>1, <1>2 DEF MemoryIsReadPrefix, RowsMatchIndex
<1>7. FinalTurn'
  BY <1>1, <1>2, <1>4 DEF FinalTurn
<1>8. TurnInProgress' /\ TurnsComplete'
  BY <1>1 DEF TurnInProgress, TurnsComplete
<1>9. QED
  BY <1>5, <1>6, <1>7, <1>8 DEF IInv

LEMMA GenerateSubsampledPreserves ==
  ASSUME IInv, GenerateSubsampled
  PROVE  IInv'
<1>1. /\ TypeOK /\ RowsMatchIndex /\ MemoryIsReadPrefix /\ FinalTurn /\ TurnsComplete
      /\ pc = "generate_subsampled" /\ pc' = "generate_gap_fill"
      /\ image_pixels' = "vanilla"
      /\ UNCHANGED <<mode, ctx_length, step, is_final, active_mask, memory,
                     final_mask_list, sample_index_list, images, gen_output_list>>
  BY DEF IInv, GenerateSubsampled
<1>2. /\ Samples' = Samples
      /\ \A s, k : ReadAfter(s, k)' = ReadAfter(s, k)
  BY <1>1 DEF Samples, ReadAfter, Context
<1>3. gen_output' = messages
  <2>1. messages \in [1..Len(messages) -> Rows] /\ DOMAIN messages = 1..Len(messages)
    BY <1>1, LenProperties DEF TypeOK
  <2>2. QED
    BY <2>1 DEF GenerateSubsampled, Respond
<1>4. is_final /\ Len(images) = Len(ctx_length)
  BY <1>1 DEF FinalTurn
<1>5. messages' \in Seq(Rows) /\ Len(messages') = Len(ctx_length)
  <2> DEFINE of == [s \in Samples |-> s]
             img == [s \in Samples |-> images[s]]
  <2>1. of \in [Samples -> 1..MaxBatchSize]
    BY <1>1, SamplesInterval
  <2>2. img \in [Samples -> [seen : Seq(Tokens), scale : {"none", "full", "quarter"}]]
    BY <1>1, <1>4, ImagesOfSamples
  <2>3. messages' = [s \in Samples |-> ImageRow(of[s], "gap_fill", img[s], "vanilla")]
    BY DEF GenerateSubsampled
  <2>4. "gap_fill" \in {"subsampled", "gap_fill"} /\ "vanilla" \in {"vanilla", "quarter"}
    OBVIOUS
  <2> HIDE DEF of, img
  <2>5. LET rows == [s \in Samples |-> ImageRow(of[s], "gap_fill", img[s], "vanilla")]
        IN  rows \in Seq(Rows) /\ Len(rows) = Len(ctx_length)
    <3>1. TypeOK
      BY <1>1
    <3>2. QED
      BY <2>1, <2>2, <2>4, <3>1, ExtraTurnRows
  <2>6. QED
    BY <2>3, <2>5
<1>6. TypeOK'
  BY <1>1, <1>2, <1>3, <1>5 DEF TypeOK
<1>7. MemoryIsReadPrefix' /\ RowsMatchIndex'
  BY <1>1, <1>2 DEF MemoryIsReadPrefix, RowsMatchIndex
<1>8. FinalTurn'
  BY <1>1, <1>2, <1>4, <1>5 DEF FinalTurn
<1>9. TurnInProgress' /\ TurnsComplete'
  BY <1>1 DEF TurnInProgress, TurnsComplete
<1>10. QED
  BY <1>6, <1>7, <1>8, <1>9 DEF IInv

LEMMA GenerateGapFillPreserves ==
  ASSUME IInv, GenerateGapFill
  PROVE  IInv'
<1>1. /\ TypeOK /\ RowsMatchIndex /\ MemoryIsReadPrefix /\ FinalTurn /\ TurnsComplete
      /\ pc = "generate_gap_fill" /\ pc' = "returned"
      /\ gen_output_list' = gen_output_list \o <<gen_output, Respond(messages)>>
      /\ UNCHANGED <<mode, ctx_length, step, is_final, active_mask, memory,
                     final_mask_list, sample_index_list, image_pixels, messages,
                     images, gen_output>>
  BY DEF IInv, GenerateGapFill, agent_vars
<1>2. /\ Samples' = Samples
      /\ \A s, k : ReadAfter(s, k)' = ReadAfter(s, k)
  BY <1>1 DEF Samples, ReadAfter, Context
<1>3. Respond(messages) \in Seq(Rows)
  <2>1. messages \in [1..Len(messages) -> Rows] /\ DOMAIN messages = 1..Len(messages)
        /\ messages \in Seq(Rows)
    BY <1>1, LenProperties DEF TypeOK
  <2>2. QED
    BY <2>1 DEF Respond
<1> DEFINE extra == <<gen_output, Respond(messages)>>
<1>4. gen_output_list \in Seq(Seq(Rows)) /\ extra \in Seq(Seq(Rows))
  BY <1>1, <1>3 DEF TypeOK
<1> HIDE DEF extra
<1>5. /\ gen_output_list' \in Seq(Seq(Rows))
      /\ \A t \in 1..Len(gen_output_list) : gen_output_list'[t] = gen_output_list[t]
  BY <1>1, <1>4, ConcatProperties DEF extra
<1>6. TypeOK'
  BY <1>1, <1>2, <1>5 DEF TypeOK
<1>7. RowsMatchIndex'
  <2>1. sample_index_list \in Seq(Seq(Samples)) /\ Len(sample_index_list) = Len(gen_output_list)
    BY <1>1 DEF TypeOK, TurnsComplete
  <2>2. /\ DOMAIN sample_index_list = 1..Len(gen_output_list)
        /\ DOMAIN gen_output_list = 1..Len(gen_output_list)
    BY <1>4, <2>1, LenProperties
  <2>3. QED
    BY <1>1, <1>5, <2>2 DEF RowsMatchIndex
<1>8. MemoryIsReadPrefix' /\ FinalTurn'
  BY <1>1, <1>2 DEF MemoryIsReadPrefix, FinalTurn
<1>9. TurnInProgress' /\ TurnsComplete'
  BY <1>1 DEF TurnInProgress, TurnsComplete
<1>10. QED
  BY <1>6, <1>7, <1>8, <1>9 DEF IInv

LEMMA StutterPreserves ==
  ASSUME IInv, UNCHANGED vars
  PROVE  IInv'
<1>1. /\ TypeOK /\ RowsMatchIndex /\ MemoryIsReadPrefix /\ TurnInProgress
      /\ FinalTurn /\ TurnsComplete
      /\ UNCHANGED <<pc, mode, ctx_length, step, is_final, active_mask, memory,
                     final_mask_list, sample_index_list, image_pixels, messages,
                     images, gen_output, gen_output_list>>
  BY DEF IInv, vars, agent_vars
<1>2. /\ Samples' = Samples
      /\ Active' = Active
      /\ TurnRows' = TurnRows
      /\ \A s, k : ReadAfter(s, k)' = ReadAfter(s, k)
  BY <1>1 DEF Samples, Active, TurnRows, ReadAfter, Context
<1>3. TypeOK'
  BY <1>1, <1>2 DEF TypeOK
<1>4. MemoryIsReadPrefix' /\ RowsMatchIndex' /\ FinalTurn' /\ TurnsComplete'
  BY <1>1, <1>2 DEF MemoryIsReadPrefix, RowsMatchIndex, FinalTurn, TurnsComplete
<1>5. TurnInProgress'
  BY <1>1, <1>2 DEF TurnInProgress
<1>6. QED
  BY <1>3, <1>4, <1>5 DEF IInv
----------------------------------------------------------------------------
(* The invariant is inductive: it holds initially, and every action of the *)
(* manager, the agent and the launcher preserves it.                       *)
THEOREM Invariance == Spec => []IInv
<1>1. Init => IInv
  BY InitEstablishes
<1>2. IInv /\ [Next]_vars => IInv'
  <2> SUFFICES ASSUME IInv, [Next]_vars
               PROVE  IInv'
    OBVIOUS
  <2>1. ASSUME NEW n \in 1..MaxBatchSize, NEW lengths \in [1..n -> 0..MaxPromptLength],
               NEW m \in {"single", "triple"}, Start(m, lengths)
        PROVE  IInv'
    BY <2>1, StartPreserves
  <2>2. CASE ActionChunk
    BY <2>2, ActionChunkPreserves
  <2>3. CASE ActionFinal
    BY <2>3, ActionFinalPreserves
  <2>4. CASE Generate
    BY <2>4, GeneratePreserves
  <2>5. CASE Update
    BY <2>5, UpdatePreserves
  <2>6. CASE EndSingle
    BY <2>6, EndSinglePreserves
  <2>7. CASE EndTriple
    BY <2>7, EndTriplePreserves
  <2>8. CASE GenerateSubsampled
    BY <2>8, GenerateSubsampledPreserves
  <2>9. CASE GenerateGapFill
    BY <2>9, GenerateGapFillPreserves
  <2>10. CASE RenderFails \/ GenerateFails
    BY <2>10, FailurePreserves
  <2>11. CASE Restart
    BY <2>11, RestartPreserves
  <2>12. CASE UNCHANGED vars
    BY <2>12, StutterPreserves
  <2>13. QED
    BY <2>1, <2>2, <2>3, <2>4, <2>5, <2>6, <2>7, <2>8, <2>9, <2>10, <2>11, <2>12
       DEF Next, Drive
<1>3. QED
  BY <1>1, <1>2, PTL DEF Spec

(* Types, for batches of any size and contexts of any length.              *)
THEOREM TypeCorrect == Spec => []TypeOK
<1>1. IInv => TypeOK
  BY DEF IInv
<1>2. QED
  BY <1>1, Invariance, PTL

(* Whatever the lengths of the contexts, and whenever a sample drops out   *)
(* of the turns, its memory was drafted from a prefix of its own context,  *)
(* without gap, repetition or a token of another sample.                   *)
THEOREM MemoryCorrect == Spec => []MemoryIsReadPrefix
<1>1. IInv => MemoryIsReadPrefix
  BY DEF IInv
<1>2. QED
  BY <1>1, Invariance, PTL

(* Responses, indices and masks of all turns stay in step row by row.      *)
THEOREM RowsCorrect == Spec => []RowsMatchIndex
<1>1. IInv => RowsMatchIndex
  BY DEF IInv
<1>2. QED
  BY <1>1, Invariance, PTL
----------------------------------------------------------------------------
(* The loop implements sequential reading. A turn of the loop reads the    *)
(* chunks of its active samples, the final turn answers every question;    *)
(* all else is invisible to a reader, which takes that no other turn makes *)
(* a row that answers.                                                     *)
RowKinds ==
  /\ pc \in {"generate", "update"} /\ ~is_final =>
       active_mask # {} /\ \A k \in DOMAIN TurnRows : TurnRows[k].kind = "memorize"
  /\ pc \in {"generate", "update"} /\ is_final =>
       /\ DOMAIN TurnRows = Samples
       /\ \A s \in Samples : /\ TurnRows[s].kind = "answer" /\ TurnRows[s].sample = s
                             /\ TurnRows[s].seen = <<>> \/ TurnRows[s].seen = memory[s]
  /\ pc = "generate_subsampled" => \A k \in DOMAIN messages : messages[k].kind = "subsampled"
  /\ pc = "generate_gap_fill" =>
       /\ \A k \in DOMAIN gen_output : gen_output[k].kind = "subsampled"
       /\ \A k \in DOMAIN messages : messages[k].kind = "gap_fill"
  /\ ~is_final \/ pc \in {"generate", "update"} => \A s \in Samples : AnswersTo(s) = {}

(* The rows of a list of turns.                                            *)
LEMMA GeneratedRows ==
  \A row : row \in Generated <=>
             \E t \in DOMAIN gen_output_list : \E k \in DOMAIN gen_output_list[t] :
               row = gen_output_list[t][k]
BY DEF Generated, Range

(* A turn appended to the list adds its rows.                              *)
LEMMA AppendedRows ==
  ASSUME TypeOK, NEW turn \in Seq(Rows), gen_output_list' = Append(gen_output_list, turn)
  PROVE  \A row : row \in Generated' <=> row \in Generated \/ \E k \in DOMAIN turn : row = turn[k]
<1>1. /\ gen_output_list \in Seq(Seq(Rows)) /\ Len(gen_output_list) \in Nat
      /\ DOMAIN gen_output_list = 1..Len(gen_output_list)
  BY LenProperties DEF TypeOK
<1>2. PICK n \in Nat : n = Len(gen_output_list)
  BY <1>1
<1>3. PICK new : new = gen_output_list'
  OBVIOUS
<1>4. /\ new \in Seq(Seq(Rows)) /\ Len(new) = n + 1
      /\ new[n + 1] = turn
      /\ \A t \in 1..n : new[t] = gen_output_list[t]
  BY <1>1, <1>2, <1>3, AppendProperties
<1>5. DOMAIN new = 1..(n + 1)
  BY <1>4, LenProperties
<1>6. \A t : t \in 1..(n + 1) <=> t \in 1..n \/ t = n + 1
  BY <1>2
<1>7. \A row : row \in Generated <=> \E t \in 1..n : \E k \in DOMAIN gen_output_list[t] :
                                       row = gen_output_list[t][k]
  BY <1>1, <1>2, GeneratedRows
<1>8. \A row : row \in Generated' <=> \E t \in 1..(n + 1) : \E k \in DOMAIN new[t] :
                                        row = new[t][k]
  BY SMTT(30), <1>3, <1>5 DEF Generated, Range
<1>9. ASSUME NEW row
      PROVE  row \in Generated' <=> row \in Generated \/ \E k \in DOMAIN turn : row = turn[k]
  <2>1. ASSUME row \in Generated'
        PROVE  row \in Generated \/ \E k \in DOMAIN turn : row = turn[k]
    <3>1. PICK t \in 1..(n + 1) : \E k \in DOMAIN new[t] : row = new[t][k]
      BY <1>8, <2>1
    <3>2. CASE t \in 1..n
      BY <1>4, <1>7, <3>1, <3>2
    <3>3. CASE t = n + 1
      BY <1>4, <3>1, <3>3
    <3>4. QED
      BY <1>6, <3>2, <3>3
  <2>2. ASSUME row \in Generated
        PROVE  row \in Generated'
    <3>1. PICK t \in 1..n : \E k \in DOMAIN gen_output_list[t] : row = gen_output_list[t][k]
      BY <1>7, <2>2
    <3>2. t \in 1..(n + 1) /\ new[t] = gen_output_list[t]
      BY <1>4, <1>6
    <3>3. QED
      BY <1>8, <3>1, <3>2
  <2>3. ASSUME NEW k \in DOMAIN turn, row = turn[k]
        PROVE  row \in Generated'
    <3>1. n + 1 \in 1..(n + 1)
      BY <1>6
    <3>2. QED
      BY <1>4, <1>8, <2>3, <3>1
  <2>4. QED
    BY <2>1, <2>2, <2>3
<1>10. QED
  BY <1>9

(* A step that leaves the responses, the memories and the contexts alone   *)
(* leaves the reader alone.                                                *)
LEMMA AnswersUntouched ==
  ASSUME gen_output_list' = gen_output_list
  PROVE  \A s : AnswersTo(s)' = AnswersTo(s)
BY DEF AnswersTo, Generated

LEMMA ReaderRests ==
  ASSUME UNCHANGED <<ctx_length, memory, gen_output_list>>
  PROVE  UNCHANGED Reading!vars
<1>1. Samples' = Samples
  BY DEF Samples
<1>2. \A s : AnswersTo(s)' = AnswersTo(s)
  BY AnswersUntouched
<1>3. Answers' = Answers
  BY <1>1, <1>2 DEF Answers
<1>4. QED
  BY <1>3 DEF Reading!vars

LEMMA InitReads == Init => RowKinds /\ Reading!Init
<1> SUFFICES ASSUME Init PROVE RowKinds /\ Reading!Init
  OBVIOUS
<1>1. Samples = {}
  BY EmptyValues DEF Init, Samples
<1>2. RowKinds
  BY <1>1 DEF Init, RowKinds
<1>3. Answers = <<>>
  BY <1>1 DEF Answers
<1>4. QED
  BY <1>2, <1>3 DEF Init, Reading!Init

LEMMA StartReads ==
  ASSUME NEW n \in 1..MaxBatchSize, NEW lengths \in [1..n -> 0..MaxPromptLength],
         NEW m \in {"single", "triple"}, Start(m, lengths)
  PROVE  RowKinds' /\ Reading!NewBatch
<1>1. /\ ctx_length' = lengths /\ Samples' = 1..n /\ gen_output_list' = <<>>
      /\ memory' = [s \in 1..n |-> <<>>] /\ pc' = "loop" /\ is_final' = FALSE
  BY DEF Start, Samples
<1>2. \A row : row \notin Generated'
  BY <1>1, EmptyValues DEF Generated, Range
<1>3. \A s : AnswersTo(s)' = {}
  BY <1>2 DEF AnswersTo
<1>4. Answers' = [s \in 1..n |-> NoAnswer]
  BY <1>1, <1>3 DEF Answers, AnswerIn
<1>5. RowKinds'
  BY <1>1, <1>3 DEF RowKinds
<1>6. QED
  BY <1>1, <1>4, <1>5 DEF Reading!NewBatch

LEMMA RestartReads ==
  ASSUME Restart
  PROVE  RowKinds' /\ Reading!Abandon
<1>1. /\ ctx_length' = <<>> /\ memory' = <<>> /\ pc' = "idle" /\ Samples' = {}
  BY EmptyValues DEF Restart, Samples
<1>2. Answers' = <<>>
  BY <1>1 DEF Answers
<1>3. RowKinds'
  BY <1>1 DEF RowKinds
<1>4. QED
  BY <1>1, <1>2, <1>3 DEF Reading!Abandon

LEMMA ActionReads ==
  ASSUME IInv, RowKinds, ActionChunk \/ ActionFinal
  PROVE  RowKinds' /\ UNCHANGED Reading!vars
<1>1. /\ UNCHANGED <<ctx_length, memory, gen_output_list>> /\ ~is_final /\ pc' = "generate"
      /\ Samples' = Samples /\ TurnRows' = messages'
  BY DEF ActionChunk, ActionFinal, Samples, TurnRows
<1>2. UNCHANGED Reading!vars
  BY <1>1, ReaderRests
<1>3. \A s \in Samples' : AnswersTo(s)' = {}
  BY <1>1, AnswersUntouched DEF RowKinds
<1>4. CASE ActionChunk
  <2>1. active_mask' # {} /\ ~is_final'
    BY <1>4 DEF ActionChunk
  <2>2. \A k \in DOMAIN messages' : messages'[k].kind = "memorize"
    BY <1>4 DEF ActionChunk, MemorizeRow
  <2>3. QED
    BY <1>1, <1>2, <1>3, <2>1, <2>2 DEF RowKinds
<1>5. CASE ActionFinal
  <2>1. is_final'
    BY <1>5 DEF ActionFinal
  <2>2. PICK lost \in SUBSET Samples : images' = [s \in Samples |-> ImageOf(s, lost)]
    BY <1>5 DEF ActionFinal
  <2>3. messages' = [s \in Samples |-> ImageRow(s, "answer", images'[s], image_pixels)]
    BY <1>5 DEF ActionFinal
  <2>4. DOMAIN messages' = Samples
    BY <2>3
  <2>5. ASSUME NEW s \in Samples
        PROVE  /\ messages'[s].kind = "answer" /\ messages'[s].sample = s
               /\ messages'[s].seen = <<>> \/ messages'[s].seen = memory[s]
    <3>1. images'[s].seen = <<>> \/ images'[s].seen = memory[s]
      BY <2>2 DEF ImageOf
    <3>2. messages'[s] = ImageRow(s, "answer", images'[s], image_pixels)
      BY <2>3
    <3>3. QED
      BY <3>1, <3>2 DEF ImageRow
  <2>6. QED
    BY <1>1, <1>2, <1>3, <2>1, <2>4, <2>5 DEF RowKinds
<1>6. QED
  BY <1>4, <1>5

LEMMA GenerateReads ==
  ASSUME IInv, RowKinds, Generate
  PROVE  RowKinds' /\ UNCHANGED Reading!vars
<1>1. /\ pc = "generate" /\ pc' = "update"
      /\ UNCHANGED <<ctx_length, memory, gen_output_list, is_final, active_mask, messages>>
  BY DEF Generate, agent_vars
<1>2. messages \in Seq(Rows)
  BY DEF IInv, TypeOK
<1>3. gen_output' = messages
  <2>1. messages \in [1..Len(messages) -> Rows] /\ DOMAIN messages = 1..Len(messages)
    BY <1>2, LenProperties
  <2>2. QED
    BY <2>1 DEF Generate, Respond
<1>4. TurnRows' = TurnRows /\ Samples' = Samples
  BY <1>1, <1>3 DEF TurnRows, Samples
<1>5. \A s \in Samples' : AnswersTo(s)' = {}
  BY <1>1, <1>4, AnswersUntouched DEF RowKinds
<1>6. QED
  BY <1>1, <1>4, <1>5, ReaderRests DEF RowKinds

(* The chunk a reader takes next is the chunk the agent slices, and a      *)
(* sample is unread as long as it is active.                               *)
LEMMA NextChunkIsChunk ==
  ASSUME TypeOK, MemoryIsReadPrefix, NEW s \in Active
  PROVE  s \in Reading!Unread /\ Reading!NextChunk(s) = Chunk(s)
<1> DEFINE from == ChunkSize * step
<1>1. s \in Samples /\ step \in Nat /\ memory[s] = ReadAfter(s, step)
  BY DEF TypeOK, MemoryIsReadPrefix, Active
<1>2. /\ ctx_length[s] \in Nat /\ Context(s) \in Seq(Tokens)
      /\ Len(Context(s)) = ctx_length[s]
  BY <1>1, ContextType
<1>3. from \in Nat /\ ChunkSize \in Nat /\ ChunkSize * (step + 1) = from + ChunkSize
  BY <1>1, ChunkBoundary, LoopAssumption
<1>4. from < ctx_length[s]
  BY <1>1, <1>2, ChunkBoundary DEF Active
<1> HIDE DEF from
<1>5. Smaller(from, ctx_length[s]) = from
  BY <1>2, <1>3, <1>4 DEF Smaller
<1>6. memory[s] = SubSeq(Context(s), 1, from)
  BY <1>1, <1>5 DEF ReadAfter, from
<1>7. Len(memory[s]) = from
  <2>1. \A i \in 1..from : Context(s)[i] \in Tokens
    <3>1. \A i \in 1..from : i \in 1..Len(Context(s))
      BY <1>2, <1>3, <1>4
    <3>2. QED
      BY <1>2, <3>1, ElementOfSeq
  <2>2. Len(SubSeq(Context(s), 1, from)) = from
    BY <1>3, <2>1, SubSeqProperties
  <2>3. QED
    BY <1>6, <2>2
<1>8. s \in Reading!Unread
  BY <1>1, <1>4, <1>7 DEF Reading!Unread, Samples
<1>9. Smaller(ChunkSize * (step + 1), ctx_length[s])
        = IF from + 1 + ChunkSize - 1 <= ctx_length[s] THEN from + 1 + ChunkSize - 1
          ELSE ctx_length[s]
  BY <1>2, <1>3 DEF Smaller
<1>10. Reading!Context(s) = Context(s)
  BY DEF Reading!Context, Context
<1>11. QED
  BY <1>7, <1>8, <1>9, <1>10 DEF Reading!NextChunk, Chunk, from

(* The responses of a chunk turn move the memories of the active samples   *)
(* on by one chunk each and answer nothing.                                *)
LEMMA ChunkTurnReads ==
  ASSUME IInv, RowKinds, Update, ~is_final
  PROVE  RowKinds' /\ Reading!ReadChunks
<1>1. TypeOK /\ MemoryIsReadPrefix /\ TurnInProgress
  BY DEF IInv
<1>2. /\ pc = "update" /\ pc' = "loop"
      /\ gen_output_list' = Append(gen_output_list, gen_output)
      /\ UNCHANGED <<ctx_length, is_final, active_mask>>
      /\ Len(gen_output) = Cardinality(active_mask)
  BY DEF Update
<1>3. PICK idx \in ArangeWhere(active_mask) : memory' = Updated(idx)
  BY DEF Update
<1>4. memory' = [s \in Samples |-> ReadAfter(s, step + 1)]
  BY <1>2, <1>3, UpdatedMemory
<1>5. active_mask = Active /\ Active # {} /\ TurnRows = gen_output
  BY <1>1, <1>2 DEF TurnInProgress, RowKinds, TurnRows
<1>6. \A k \in DOMAIN gen_output : gen_output[k].kind = "memorize"
  BY <1>2, <1>5 DEF RowKinds
<1>7. Samples' = Samples
  BY <1>2 DEF Samples
<1>8. \A s \in Samples : AnswersTo(s) = {}
  BY DEF RowKinds
<1>9. \A s \in Samples : AnswersTo(s)' = {}
  <2>1. gen_output \in Seq(Rows)
    BY <1>1 DEF TypeOK
  <2>2. \A row : row \in Generated'
                   <=> row \in Generated \/ \E k \in DOMAIN gen_output : row = gen_output[k]
    BY <1>1, <1>2, <2>1, AppendedRows
  <2>3. ASSUME NEW s \in Samples, NEW row \in Generated', row.kind = "answer", row.sample = s
        PROVE  FALSE
    <3>1. row \in Generated
      BY <1>6, <2>2, <2>3
    <3>2. row \in AnswersTo(s)
      BY <2>3, <3>1 DEF AnswersTo
    <3>3. QED
      BY <1>8, <3>2
  <2>4. QED
    BY <2>3 DEF AnswersTo
<1>10. Answers' = Answers
  BY <1>7, <1>8, <1>9 DEF Answers
<1>11. RowKinds'
  BY <1>2, <1>7, <1>9 DEF RowKinds
<1>12. DOMAIN memory = Samples
  BY <1>1 DEF TypeOK
<1>13. ASSUME NEW s \in Samples
       PROVE  ReadAfter(s, step + 1)
                = IF s \in Active THEN memory[s] \o Reading!NextChunk(s) ELSE memory[s]
  <2>1. memory[s] = ReadAfter(s, step)
    BY <1>1 DEF MemoryIsReadPrefix
  <2>2. CASE s \in Active
    BY <1>1, <2>1, <2>2, NextChunkIsChunk, ChunkType
  <2>3. CASE s \notin Active
    <3>1. step \in Nat /\ ctx_length[s] \in Nat
      BY <1>1, ContextType DEF TypeOK
    <3>2. ~(ctx_length[s] > step * ChunkSize)
      BY <2>3 DEF Active
    <3>3. ChunkSize * step \in Nat /\ step * ChunkSize = ChunkSize * step
      BY <3>1, ChunkBoundary
    <3>4. ctx_length[s] <= ChunkSize * step
      BY <3>1, <3>2, <3>3
    <3>5. QED
      BY <1>1, <2>1, <2>3, <3>4, NothingLeft
  <2>4. QED
    BY <2>2, <2>3
<1>14. memory' = [s \in DOMAIN memory |->
                    IF s \in Active THEN memory[s] \o Reading!NextChunk(s) ELSE memory[s]]
  BY <1>4, <1>12, <1>13
<1>15. Active \in (SUBSET Reading!Unread) \ {{}}
  BY <1>1, <1>5, NextChunkIsChunk
<1>16. Reading!ReadChunks
  BY <1>2, <1>10, <1>14, <1>15 DEF Reading!ReadChunks
<1>17. QED
  BY <1>11, <1>16

(* The responses of the final turn answer every question, each from the    *)
(* memory of its own sample, which is of the whole context.                *)
LEMMA FinalTurnReads ==
  ASSUME IInv, RowKinds, Update, is_final
  PROVE  RowKinds' /\ Reading!AnswerAll
<1>1. TypeOK /\ MemoryIsReadPrefix /\ FinalTurn
  BY DEF IInv
<1>2. /\ pc = "update" /\ pc' = "loop"
      /\ gen_output_list' = Append(gen_output_list, gen_output)
      /\ UNCHANGED <<ctx_length, memory, is_final>>
  BY DEF Update
<1>3. TurnRows = gen_output
  BY <1>2 DEF TurnRows
<1>4. /\ DOMAIN gen_output = Samples
      /\ \A s \in Samples : /\ gen_output[s].kind = "answer" /\ gen_output[s].sample = s
                            /\ gen_output[s].seen = <<>> \/ gen_output[s].seen = memory[s]
  BY <1>2, <1>3 DEF RowKinds
<1>5. Samples' = Samples
  BY <1>2 DEF Samples
<1>6. \A s \in Samples : AnswersTo(s) = {}
  BY <1>2 DEF RowKinds
<1>7. \A s \in Samples : AnswersTo(s)' = {gen_output[s]}
  <2>1. gen_output \in Seq(Rows)
    BY <1>1 DEF TypeOK
  <2>2. \A row : row \in Generated'
                   <=> row \in Generated \/ \E k \in DOMAIN gen_output : row = gen_output[k]
    BY <1>1, <1>2, <2>1, AppendedRows
  <2>3. ASSUME NEW s \in Samples, NEW row \in Generated', row.kind = "answer", row.sample = s
        PROVE  row = gen_output[s]
    <3>1. row \notin Generated
      BY <1>6, <2>3 DEF AnswersTo
    <3>2. PICK k \in Samples : row = gen_output[k]
      BY <1>4, <2>2, <2>3, <3>1
    <3>3. k = s
      BY <1>4, <2>3, <3>2
    <3>4. QED
      BY <3>2, <3>3
  <2>4. ASSUME NEW s \in Samples
        PROVE  gen_output[s] \in Generated' /\ gen_output[s].kind = "answer"
               /\ gen_output[s].sample = s
    BY <1>4, <2>2
  <2>5. QED
    BY <2>3, <2>4 DEF AnswersTo
<1>8. \A s \in Samples : Answers[s] = NoAnswer
  BY <1>6 DEF Answers, AnswerIn
<1>9. Answers' = [s \in Samples |-> gen_output[s].seen]
  BY <1>5, <1>7 DEF Answers, AnswerIn
<1> DEFINE lost == {s \in Samples : gen_output[s].seen # memory[s]}
<1>10. \A s \in Samples : gen_output[s].seen = IF s \in lost THEN <<>> ELSE memory[s]
  BY <1>4
<1>11. lost \in SUBSET Samples
  OBVIOUS
<1> HIDE DEF lost
<1>12. DOMAIN Answers = Samples /\ DOMAIN ctx_length = Samples
  BY DEF Answers, Samples
<1>13. Answers' = [s \in DOMAIN Answers |-> IF s \in lost THEN <<>> ELSE memory[s]]
  BY <1>9, <1>10, <1>12
<1>14. Reading!Unread = {}
  <2> SUFFICES ASSUME NEW s \in Samples
               PROVE  ~(Len(memory[s]) < ctx_length[s])
    BY <1>12 DEF Reading!Unread
  <2>1. ctx_length[s] \in Nat /\ Context(s) \in Seq(Tokens) /\ Len(Context(s)) = ctx_length[s]
    BY <1>1, ContextType
  <2>2. step \in Nat /\ ctx_length[s] <= ChunkSize * step
    BY <1>1, <1>2 DEF FinalTurn, TypeOK
  <2>3. ChunkSize * step \in Nat
    BY <2>2, ChunkBoundary
  <2>4. Smaller(ChunkSize * step, ctx_length[s]) = ctx_length[s]
    BY <2>1, <2>2, <2>3 DEF Smaller
  <2>5. memory[s] = SubSeq(Context(s), 1, ctx_length[s])
    BY <1>1, <2>4 DEF MemoryIsReadPrefix, ReadAfter
  <2>6. Len(SubSeq(Context(s), 1, ctx_length[s])) = ctx_length[s]
    BY <2>1, SubSeqProperties, ElementOfSeq
  <2>7. QED
    BY <2>1, <2>5, <2>6
<1>15. Reading!AnswerAll
  BY <1>2, <1>8, <1>11, <1>12, <1>13, <1>14 DEF Reading!AnswerAll
<1>16. RowKinds'
  BY <1>2 DEF RowKinds
<1>17. QED
  BY <1>15, <1>16

LEMMA UpdateReads ==
  ASSUME IInv, RowKinds, Update
  PROVE  RowKinds' /\ (Reading!ReadChunks \/ Reading!AnswerAll)
<1>1. CASE is_final
  BY <1>1, FinalTurnReads
<1>2. CASE ~is_final
  BY <1>2, ChunkTurnReads
<1>3. QED
  BY <1>1, <1>2

(* The end of a batch: the two extra turns answer other questions.         *)
LEMMA EndReads ==
  ASSUME IInv, RowKinds, EndSingle \/ EndTriple \/ GenerateSubsampled
  PROVE  RowKinds' /\ UNCHANGED Reading!vars
<1>1. UNCHANGED <<ctx_length, memory, gen_output_list, is_final>>
  BY DEF EndSingle, EndTriple, GenerateSubsampled, agent_vars
<1>2. UNCHANGED Reading!vars
  BY <1>1, ReaderRests
<1>3. is_final
  BY DEF EndSingle, EndTriple, GenerateSubsampled, IInv, FinalTurn
<1>4. RowKinds'
  <2>1. CASE EndSingle
    BY <1>1, <1>3, <2>1 DEF RowKinds, EndSingle
  <2>2. CASE EndTriple
    <3>1. \A k \in DOMAIN messages' : messages'[k].kind = "subsampled"
      BY <2>2 DEF EndTriple, ImageRow
    <3>2. pc' = "generate_subsampled"
      BY <2>2 DEF EndTriple
    <3>3. QED
      BY <1>1, <1>3, <3>1, <3>2 DEF RowKinds
  <2>3. CASE GenerateSubsampled
    <3>1. \A k \in DOMAIN messages' : messages'[k].kind = "gap_fill"
      BY <2>3 DEF GenerateSubsampled, ImageRow
    <3>2. \A k \in DOMAIN gen_output' : gen_output'[k].kind = "subsampled"
      BY <2>3 DEF GenerateSubsampled, Respond, RowKinds
    <3>3. pc' = "generate_gap_fill"
      BY <2>3 DEF GenerateSubsampled
    <3>4. QED
      BY <1>1, <1>3, <3>1, <3>2, <3>3 DEF RowKinds
  <2>4. QED
    BY <2>1, <2>2, <2>3
<1>5. QED
  BY <1>2, <1>4

LEMMA GapFillReads ==
  ASSUME IInv, RowKinds, GenerateGapFill
  PROVE  RowKinds' /\ UNCHANGED Reading!vars
<1>1. /\ TypeOK /\ is_final
      /\ pc = "generate_gap_fill" /\ pc' = "returned"
      /\ gen_output_list' = gen_output_list \o <<gen_output, Respond(messages)>>
      /\ UNCHANGED <<ctx_length, memory, is_final>>
  BY DEF IInv, GenerateGapFill, FinalTurn, agent_vars
<1>2. RowKinds'
  BY <1>1 DEF RowKinds
<1> DEFINE gaps == Respond(messages)
<1>3. gaps \in Seq(Rows) /\ \A k \in DOMAIN gaps : gaps[k].kind = "gap_fill"
  <2>1. messages \in [1..Len(messages) -> Rows] /\ DOMAIN messages = 1..Len(messages)
        /\ messages \in Seq(Rows)
    BY <1>1, LenProperties DEF TypeOK
  <2>2. gaps = messages
    BY <2>1 DEF Respond
  <2>3. QED
    BY <1>1, <2>1, <2>2 DEF RowKinds
<1> HIDE DEF gaps
<1>4. /\ gen_output \in Seq(Rows) /\ gen_output_list \in Seq(Seq(Rows))
      /\ \A k \in DOMAIN gen_output : gen_output[k].kind = "subsampled"
  BY <1>1 DEF TypeOK, RowKinds
<1>5. PICK n \in Nat : n = Len(gen_output_list)
  BY <1>4, LenProperties
<1>6. PICK new : new = gen_output_list'
  OBVIOUS
<1>7. /\ new \in Seq(Seq(Rows)) /\ Len(new) = n + 2
      /\ \A t \in 1..n : new[t] = gen_output_list[t]
      /\ new[n + 1] = gen_output /\ new[n + 2] = gaps
  <2> DEFINE extra == <<gen_output, gaps>>
  <2>1. /\ extra \in Seq(Seq(Rows)) /\ Len(extra) = 2
        /\ extra[1] = gen_output /\ extra[2] = gaps
    BY <1>3, <1>4
  <2>2. new = gen_output_list \o extra
    BY <1>1, <1>6 DEF gaps
  <2> HIDE DEF extra
  <2>3. /\ new \in Seq(Seq(Rows))
        /\ Len(new) = Len(gen_output_list) + Len(extra)
        /\ \A t \in 1..(Len(gen_output_list) + Len(extra)) :
             new[t] = IF t <= Len(gen_output_list) THEN gen_output_list[t]
                      ELSE extra[t - Len(gen_output_list)]
    BY <1>4, <2>1, <2>2, ConcatProperties
  <2>4. /\ Len(new) = n + 2
        /\ \A t \in 1..(n + 2) : new[t] = IF t <= n THEN gen_output_list[t] ELSE extra[t - n]
    BY <1>5, <2>1, <2>3
  <2>5. /\ \A t \in 1..n : t \in 1..(n + 2) /\ t <= n
        /\ n + 1 \in 1..(n + 2) /\ ~(n + 1 <= n) /\ (n + 1) - n = 1
        /\ n + 2 \in 1..(n + 2) /\ ~(n + 2 <= n) /\ (n + 2) - n = 2
    BY <1>5
  <2>6. \A t \in 1..n : new[t] = gen_output_list[t]
    BY <2>4, <2>5
  <2>7. new[n + 1] = gen_output /\ new[n + 2] = gaps
    BY <2>1, <2>4, <2>5
  <2>8. QED
    BY <2>3, <2>4, <2>6, <2>7
<1>8. /\ DOMAIN new = 1..(n + 2) /\ DOMAIN gen_output_list = 1..n
      /\ \A t : t \in 1..(n + 2) <=> t \in 1..n \/ t = n + 1 \/ t = n + 2
  BY <1>4, <1>5, <1>7, LenProperties
<1>9. \A row : row.kind = "answer" => (row \in Generated' <=> row \in Generated)
  <2> SUFFICES ASSUME NEW row, row.kind = "answer"
               PROVE  row \in Generated' <=> row \in Generated
    OBVIOUS
  <2>1. row \in Generated' <=> \E t \in 1..(n + 2) : \E k \in DOMAIN new[t] : row = new[t][k]
    BY <1>6, <1>8 DEF Generated, Range
  <2>2. row \in Generated <=> \E t \in 1..n : \E k \in DOMAIN gen_output_list[t] :
                                row = gen_output_list[t][k]
    BY <1>8, GeneratedRows
  <2>3. ASSUME NEW t \in {n + 1, n + 2}, NEW k \in DOMAIN new[t], row = new[t][k]
        PROVE  FALSE
    BY <1>3, <1>4, <1>7, <2>3
  <2>4. ASSUME row \in Generated'
        PROVE  row \in Generated
    <3>1. PICK t \in 1..(n + 2) : \E k \in DOMAIN new[t] : row = new[t][k]
      BY <2>1, <2>4
    <3>2. t \in 1..n
      BY <1>8, <2>3, <3>1
    <3>3. QED
      BY <1>7, <2>2, <3>1, <3>2
  <2>5. ASSUME row \in Generated
        PROVE  row \in Generated'
    <3>1. PICK t \in 1..n : \E k \in DOMAIN gen_output_list[t] : row = gen_output_list[t][k]
      BY <2>2, <2>5
    <3>2. t \in 1..(n + 2) /\ new[t] = gen_output_list[t]
      BY <1>7, <1>8
    <3>3. QED
      BY <2>1, <3>1, <3>2
  <2>6. QED
    BY <2>4, <2>5
<1>10. \A s : AnswersTo(s)' = AnswersTo(s)
  BY <1>9 DEF AnswersTo
<1>11. Samples' = Samples
  BY <1>1 DEF Samples
<1>12. Answers' = Answers
  BY <1>10, <1>11 DEF Answers
<1>13. QED
  BY <1>1, <1>2, <1>12 DEF Reading!vars

LEMMA FailureReads ==
  ASSUME RowKinds, RenderFails \/ GenerateFails
  PROVE  RowKinds' /\ UNCHANGED Reading!vars
<1>1. /\ UNCHANGED <<ctx_length, memory, gen_output_list>> /\ pc' = "failed"
      /\ is_final' \/ (is_final' = is_final /\ pc \in {"generate", "generate_subsampled",
                                                      "generate_gap_fill"})
  BY DEF RenderFails, GenerateFails, agent_vars
<1>2. UNCHANGED Reading!vars
  BY <1>1, ReaderRests
<1>3. Samples' = Samples /\ \A s : AnswersTo(s)' = AnswersTo(s)
  BY <1>1, AnswersUntouched DEF Samples
<1>4. RowKinds'
  BY <1>1, <1>3 DEF RowKinds
<1>5. QED
  BY <1>2, <1>4

LEMMA StutterReads ==
  ASSUME RowKinds, UNCHANGED vars
  PROVE  RowKinds' /\ UNCHANGED Reading!vars
<1>1. UNCHANGED <<pc, ctx_length, is_final, active_mask, memory, messages, gen_output,
                  gen_output_list>>
  BY DEF vars, agent_vars
<1>2. Samples' = Samples /\ TurnRows' = TurnRows /\ \A s : AnswersTo(s)' = AnswersTo(s)
  BY <1>1, AnswersUntouched DEF Samples, TurnRows
<1>3. RowKinds'
  BY <1>1, <1>2 DEF RowKinds
<1>4. QED
  BY <1>1, <1>3, ReaderRests

(* A step of the loop is a step of the readers or leaves them alone.       *)
LEMMA ReadingStep ==
  ASSUME IInv, RowKinds, [Next]_vars
  PROVE  RowKinds' /\ [Reading!Next]_(Reading!vars)
<1>1. ASSUME NEW n \in 1..MaxBatchSize, NEW lengths \in [1..n -> 0..MaxPromptLength],
             NEW m \in {"single", "triple"}, Start(m, lengths)
      PROVE  RowKinds' /\ Reading!Next
  BY <1>1, StartReads DEF Reading!Next
<1>2. CASE ActionChunk \/ ActionFinal
  BY <1>2, ActionReads
<1>3. CASE Generate
  BY <1>3, GenerateReads
<1>4. CASE Update
  BY <1>4, UpdateReads DEF Reading!Next
<1>5. CASE EndSingle \/ EndTriple \/ GenerateSubsampled
  BY <1>5, EndReads
<1>6. CASE GenerateGapFill
  BY <1>6, GapFillReads
<1>7. CASE RenderFails \/ GenerateFails
  BY <1>7, FailureReads
<1>8. CASE Restart
  BY <1>8, RestartReads DEF Reading!Next
<1>9. CASE UNCHANGED vars
  BY <1>9, StutterReads
<1>10. QED
  BY <1>1, <1>2, <1>3, <1>4, <1>5, <1>6, <1>7, <1>8, <1>9 DEF Next, Drive

(* The loop, its turns over the whole batch, its masks and its row         *)
(* indices implement a reader per sample: every step of the driver and its *)
(* agent reads the next chunk of the samples that have one, answers every  *)
(* question from the memory of its own sample, begins or abandons a batch, *)
(* or is invisible to the readers.                                         *)
THEOREM LoopImplementsReading == Spec => ImplementsReading
<1>1. Init => RowKinds /\ Reading!Init
  BY InitReads
<1>2. IInv /\ RowKinds /\ [Next]_vars => RowKinds' /\ [Reading!Next]_(Reading!vars)
  BY ReadingStep
<1>3. QED
  BY <1>1, <1>2, Invariance, PTL DEF Spec, ImplementsReading, Reading!Spec
----------------------------------------------------------------------------
(* The rows of a result are picked out of the concatenated turns by the    *)
(* functions that pick a batch out of a padded one; the lemmas on them are *)
(* those of the rollout call.                                              *)
Dispatch == INSTANCE RolloutDispatch_proofs WITH
              MaxBatch <- 1, MaxWorld <- 1, world_size <- step, infer_size <- step,
              prompts <- messages, padded <- gen_output, no_padding_mask <- masks,
              output <- gen_output, responses <- gen_output, status <- pc

(* The operators are the same ones.                                        *)
LEMMA SameAssumption == Dispatch!DispatchAssumption
BY DEF Dispatch!DispatchAssumption

LEMMA SameCardinality == \A S : Dispatch!Cardinality(S) = Cardinality(S)
BY DEF Cardinality, Dispatch!Cardinality

LEMMA SameSetPlaces == \A mask : Dispatch!SetPlaces(mask) = SetPlaces(mask)
BY DEF SetPlaces, Dispatch!SetPlaces, Cardinality, Dispatch!Cardinality

LEMMA SameReverse == \A index : Dispatch!ReverseIndices(index) = ReverseIndices(index)
BY DEF ReverseIndices, Dispatch!ReverseIndices, Cardinality, Dispatch!Cardinality

LEMMA SameFlatten == \A seqs : Dispatch!FlattenSeq(seqs) = FlattenSeq(seqs)
BY DEF FlattenSeq, Dispatch!FlattenSeq

(* What RolloutDispatch_proofs shows, in the words of this module.         *)
LEMMA LeastNatural ==
  ASSUME NEW T \in SUBSET Nat, T # {}
  PROVE  \E m \in T : \A k \in T : m <= k
BY SameAssumption, Dispatch!LeastNatural

LEMMA FlattenAppend ==
  ASSUME NEW S, NEW seqs \in Seq(Seq(S)), NEW more \in Seq(S)
  PROVE  FlattenSeq(Append(seqs, more)) = FlattenSeq(seqs) \o more
BY SameAssumption, SameFlatten, Dispatch!FlattenAppend

LEMMA FlattenTyped ==
  ASSUME NEW S, NEW seqs \in Seq(Seq(S))
  PROVE  FlattenSeq(seqs) \in Seq(S)
BY SameAssumption, SameFlatten, Dispatch!FlattenTyped

LEMMA ConcatElements ==
  ASSUME NEW S, NEW a \in Seq(S), NEW b \in Seq(S)
  PROVE  /\ a \o b \in Seq(S) /\ Len(a \o b) = Len(a) + Len(b)
         /\ \A i \in 1..Len(a) : (a \o b)[i] = a[i]
         /\ \A i \in 1..Len(b) : (a \o b)[Len(a) + i] = b[i]
<1>1. a \o b \in Seq(S) /\ Len(a \o b) = Len(a) + Len(b)
  BY SameAssumption, Dispatch!ConcatElements
<1>2. \A i \in 1..Len(a) : (a \o b)[i] = a[i]
  BY SameAssumption, Dispatch!ConcatElements
<1>3. \A i \in 1..Len(b) : (a \o b)[Len(a) + i] = b[i]
  BY SameAssumption, Dispatch!ConcatElements
<1>4. QED
  BY <1>1, <1>2, <1>3

LEMMA DivisionUnique ==
  ASSUME NEW d \in Nat, NEW q \in Nat, NEW r \in Nat, r < d
  PROVE  (d * q + r) \div d = q /\ (d * q + r) % d = r
BY SameAssumption, Dispatch!DivisionUnique

LEMMA SetPlacesRank ==
  ASSUME NEW size \in Nat, NEW mask \in [1..size -> BOOLEAN]
  PROVE  LET n == Cardinality({k \in 1..size : mask[k]})
         IN  /\ n \in Nat
             /\ SetPlaces(mask) \in [1..n -> 1..size]
             /\ \A i \in 1..n : /\ mask[SetPlaces(mask)[i]]
                                /\ Cardinality({j \in 1..SetPlaces(mask)[i] : mask[j]}) = i
<1>1. LET n == Dispatch!Cardinality({k \in 1..size : mask[k]})
      IN  /\ n \in Nat
          /\ Dispatch!SetPlaces(mask) \in [1..n -> 1..size]
          /\ \A i \in 1..n :
               /\ mask[Dispatch!SetPlaces(mask)[i]]
               /\ Dispatch!Cardinality({j \in 1..Dispatch!SetPlaces(mask)[i] : mask[j]}) = i
  BY SameAssumption, Dispatch!SetPlacesRank
<1>2. QED
  BY <1>1, SameCardinality, SameSetPlaces

LEMMA PlacesOfBlock ==
  ASSUME NEW size \in Nat, NEW a \in Nat, NEW n \in Nat, a + n <= size,
         NEW mask \in [1..size -> BOOLEAN], Dispatch!MarksBlock(mask, a, n)
  PROVE  SetPlaces(mask) = [i \in 1..n |-> a + i]
<1>1. Dispatch!SetPlaces(mask) = [i \in 1..n |-> a + i]
  BY SameAssumption, Dispatch!PlacesOfBlock
<1>2. QED
  BY <1>1, SameSetPlaces

LEMMA ReverseOfOrdered ==
  ASSUME NEW n \in Nat
  PROVE  ReverseIndices([i \in 1..n |-> i]) = [i \in 1..n |-> i]
BY SameAssumption, SameReverse, Dispatch!ReverseOfOrdered
----------------------------------------------------------------------------
(* The result. What the caller gets is cut out of the concatenation of all *)
(* turns by masks and indices, so the invariant follows the concatenation: *)
(* which rows of a sample are in it so far, and that the rows of the final *)
(* turns follow those of the chunks as blocks, one row per sample.         *)
ChunkRowsOf(rows, s) ==
  {k \in DOMAIN rows : rows[k].kind = "memorize" /\ rows[k].sample = s}

(* After so many turns: a sample has a row for each of its chunks read.    *)
ChunksCollected(rows, turns, s) ==
  LET own == ChunkRowsOf(rows, s)
      n   == Cardinality(own)
  IN  /\ n \in 0..turns
      /\ n > 0 => ChunkSize * (n - 1) < ctx_length[s]
      /\ n = turns \/ ctx_length[s] <= ChunkSize * n
      /\ \A k \in own : rows[k].seen = ReadAfter(s, Cardinality({j \in own : j <= k}))

(* The final row of a sample for an objective.                             *)
FinalRow(s, kind, img) == ImageRow(s, kind, img, "vanilla")
Row(kind) == [s \in Samples |-> FinalRow(s, kind, images[s])]
SmallRow  == [s \in Samples |-> FinalRow(s, "subsampled", Subsampled(images[s]))]

OnlyChunks(rows, n) == \A k \in 1..n : rows[k].kind = "memorize"

(* Images of what the memories hold, but for those that were lost.         *)
ImageOK(s) == \/ images[s] = [seen |-> <<>>, scale |-> "none"]
              \/ images[s] = [seen |-> memory[s], scale |-> "full"]

InBatch == pc \in {"loop", "generate", "update", "generate_subsampled", "generate_gap_fill"}

FinalTurnOK ==
  is_final /\ pc # "failed" =>
    /\ images = [s \in Samples |-> images[s]]
    /\ \A s \in Samples : ImageOK(s)
    /\ Len(sample_index_list) > 0
    /\ sample_index_list[Len(sample_index_list)] = [s \in Samples |-> s]
    /\ final_mask_list[Len(sample_index_list)] = [s \in Samples |-> TRUE]
    /\ pc \in {"loop", "generate", "update"} => messages = Row("answer")
    /\ pc = "generate_subsampled" => messages = SmallRow
    /\ pc = "generate_gap_fill" => gen_output = SmallRow /\ messages = Row("gap_fill")
    /\ pc \in {"generate_subsampled", "generate_gap_fill"} => masks = TripleMasks /\ mode = "triple"

PixelsOK == pc \notin {"generate_subsampled", "failed"} => image_pixels = "vanilla"

Answered == is_final /\ pc \notin {"generate", "update"}

RowsCollected ==
  InBatch =>
    /\ pc = "update" => gen_output = messages
    /\ \A s \in Samples : ChunksCollected(FlattenSeq(gen_output_list), step, s)
    /\ ~Answered => OnlyChunks(FlattenSeq(gen_output_list), Len(FlattenSeq(gen_output_list)))
    /\ Answered => \E early \in Seq(Rows) :
                     /\ OnlyChunks(early, Len(early))
                     /\ FlattenSeq(gen_output_list) = early \o Row("answer")

(* The rows of one kind of final answer: a block, in the order of the      *)
(* samples, where the mask is set.                                         *)
BlockAt(rows, mask, index, a, final) ==
  /\ a \in Nat /\ a + Len(ctx_length) <= Len(rows)
  /\ mask \in [1..Len(rows) -> BOOLEAN]
  /\ \A k \in 1..Len(rows) : mask[k] <=> k \in (a + 1)..(a + Len(ctx_length))
  /\ \A s \in Samples : rows[a + s] = final[s] /\ index[a + s] = s

ResultShape ==
  pc = "returned" =>
    LET rows == result.rows
        m    == result.masks
        n    == Len(ctx_length)
    IN  /\ is_final
        /\ rows \in Seq(Rows) /\ DOMAIN m.sample_index = 1..Len(rows)
        /\ \A s \in Samples : ChunksCollected(rows, step, s)
        /\ mode = "single" =>
             \E a \in Nat : BlockAt(rows, m.final, m.sample_index, a, Row("answer"))
        /\ mode = "triple" =>
             /\ \E a \in Nat :
                  /\ Len(rows) = a + n + n + n
                  /\ \A k \in 1..Len(rows) : m.final[k] <=> k > a
                  /\ BlockAt(rows, m.vanilla, m.sample_index, a, Row("answer"))
                  /\ BlockAt(rows, m.subsampled, m.sample_index, a + n, SmallRow)
                  /\ BlockAt(rows, m.gap_fill, m.sample_index, a + n + n, Row("gap_fill"))
             /\ result.gap_fill_answers = memory

Collected == FinalTurnOK /\ PixelsOK /\ RowsCollected /\ ResultShape
----------------------------------------------------------------------------
(* If the rows of every turn match the index and the mask of the turn,     *)
(* then so do the concatenations.                                          *)
TurnsMatch(turns, indices, turn_masks) ==
  /\ Len(indices) = Len(turns) /\ Len(turn_masks) = Len(turns)
  /\ \A t \in 1..Len(turns) : TurnMatches(turns[t], indices[t], turn_masks[t])

LEMMA MatchesConcat ==
  ASSUME NEW I, NEW a \in Seq(Rows), NEW b \in Seq(Rows),
         NEW i \in Seq(I), NEW j \in Seq(I), NEW m \in Seq(BOOLEAN), NEW n \in Seq(BOOLEAN),
         TurnMatches(a, i, m), TurnMatches(b, j, n)
  PROVE  TurnMatches(a \o b, i \o j, m \o n)
<1>1. /\ Len(i) = Len(a) /\ Len(m) = Len(a) /\ Len(j) = Len(b) /\ Len(n) = Len(b)
      /\ Len(a) \in Nat /\ Len(b) \in Nat
      /\ DOMAIN a = 1..Len(a) /\ DOMAIN b = 1..Len(b)
  BY LenProperties DEF TurnMatches
<1>2. /\ \A k \in 1..Len(a) : a[k].sample = i[k] /\ (m[k] <=> a[k].kind = "answer")
      /\ \A k \in 1..Len(b) : b[k].sample = j[k] /\ (n[k] <=> b[k].kind = "answer")
  BY <1>1 DEF TurnMatches
<1>3. /\ a \o b \in Seq(Rows) /\ Len(a \o b) = Len(a) + Len(b)
      /\ \A k \in 1..Len(a) : (a \o b)[k] = a[k]
      /\ \A k \in 1..Len(b) : (a \o b)[Len(a) + k] = b[k]
  BY ConcatElements
<1>4. /\ Len(i \o j) = Len(a) + Len(b)
      /\ \A k \in 1..Len(a) : (i \o j)[k] = i[k]
      /\ \A k \in 1..Len(b) : (i \o j)[Len(a) + k] = j[k]
  <2>1. /\ Len(i \o j) = Len(i) + Len(j)
        /\ \A k \in 1..Len(i) : (i \o j)[k] = i[k]
        /\ \A k \in 1..Len(j) : (i \o j)[Len(i) + k] = j[k]
    BY ConcatElements
  <2>2. QED
    BY <1>1, <2>1
<1>5. /\ Len(m \o n) = Len(a) + Len(b)
      /\ \A k \in 1..Len(a) : (m \o n)[k] = m[k]
      /\ \A k \in 1..Len(b) : (m \o n)[Len(a) + k] = n[k]
  <2>1. /\ Len(m \o n) = Len(m) + Len(n)
        /\ \A k \in 1..Len(m) : (m \o n)[k] = m[k]
        /\ \A k \in 1..Len(n) : (m \o n)[Len(m) + k] = n[k]
    BY ConcatElements
  <2>2. QED
    BY <1>1, <2>1
<1>6. DOMAIN (a \o b) = 1..(Len(a) + Len(b))
  BY <1>3, LenProperties
<1>7. ASSUME NEW k \in DOMAIN (a \o b)
      PROVE  /\ (a \o b)[k].sample = (i \o j)[k]
             /\ (m \o n)[k] <=> (a \o b)[k].kind = "answer"
  <2>1. CASE k \in 1..Len(a)
    <3>1. (a \o b)[k] = a[k] /\ (i \o j)[k] = i[k] /\ (m \o n)[k] = m[k]
      BY <1>3, <1>4, <1>5, <2>1
    <3>2. a[k].sample = i[k] /\ (m[k] <=> a[k].kind = "answer")
      BY <1>2, <2>1
    <3>3. QED
      BY <3>1, <3>2
  <2>2. CASE k \notin 1..Len(a)
    <3>1. PICK p \in 1..Len(b) : k = Len(a) + p
      <4>1. k \in Nat /\ k - Len(a) \in 1..Len(b) /\ k = Len(a) + (k - Len(a))
        BY <1>1, <1>6, <2>2
      <4>2. QED
        BY <4>1
    <3>2. (a \o b)[k] = b[p] /\ (i \o j)[k] = j[p] /\ (m \o n)[k] = n[p]
      BY <1>3, <1>4, <1>5, <3>1
    <3>3. b[p].sample = j[p] /\ (n[p] <=> b[p].kind = "answer")
      BY <1>2, <3>1
    <3>4. QED
      BY <3>2, <3>3
  <2>3. QED
    BY <2>1, <2>2
<1>8. QED
  BY <1>3, <1>4, <1>5, <1>7 DEF TurnMatches

LEMMA FlattenMatches ==
  ASSUME NEW I
  PROVE  \A turns \in Seq(Seq(Rows)), indices \in Seq(Seq(I)), turn_masks \in Seq(Seq(BOOLEAN)) :
           TurnsMatch(turns, indices, turn_masks) =>
             TurnMatches(FlattenSeq(turns), FlattenSeq(indices), FlattenSeq(turn_masks))
<1> DEFINE Wrong(turns, indices, turn_masks) ==
             /\ TurnsMatch(turns, indices, turn_masks)
             /\ ~TurnMatches(FlattenSeq(turns), FlattenSeq(indices), FlattenSeq(turn_masks))
           Bad == {n \in Nat : \E turns \in Seq(Seq(Rows)), indices \in Seq(Seq(I)),
                                  turn_masks \in Seq(Seq(BOOLEAN)) :
                                 Len(turns) = n /\ Wrong(turns, indices, turn_masks)}
<1>1. SUFFICES Bad = {}
  <2>1. \A turns \in Seq(Seq(Rows)) : Len(turns) \in Nat
    BY LenProperties
  <2>2. QED
    BY <2>1
<1>2. SUFFICES ASSUME Bad # {} PROVE FALSE
  OBVIOUS
<1>3. PICK n \in Bad : \A k \in Bad : n <= k
  <2>1. Bad \in SUBSET Nat
    OBVIOUS
  <2> HIDE DEF Bad
  <2>2. QED
    BY <1>2, <2>1, LeastNatural
<1>4. PICK turns \in Seq(Seq(Rows)), indices \in Seq(Seq(I)), turn_masks \in Seq(Seq(BOOLEAN)) :
        Len(turns) = n /\ Wrong(turns, indices, turn_masks)
  BY <1>3
<1>5. /\ Len(turns) = n /\ Len(indices) = n /\ Len(turn_masks) = n /\ n \in Nat
      /\ \A t \in 1..n : TurnMatches(turns[t], indices[t], turn_masks[t])
  BY <1>4, LenProperties DEF TurnsMatch
<1>6. n # 0
  <2>1. ASSUME n = 0 PROVE FALSE
    <3>1. turns = <<>> /\ indices = <<>> /\ turn_masks = <<>>
      BY <1>5, <2>1, EmptySeq
    <3>2. FlattenSeq(<<>>) = <<>>
      BY EmptySeq DEF FlattenSeq
    <3>3. TurnMatches(<<>>, <<>>, <<>>)
      BY EmptyValues DEF TurnMatches
    <3>4. QED
      BY <1>4, <3>1, <3>2, <3>3
  <2>2. QED
    BY <2>1
<1>7. turns # <<>> /\ indices # <<>> /\ turn_masks # <<>>
  BY <1>5, <1>6, EmptySeq
<1>8. PICK e1 \in Seq(Seq(Rows)), l1 \in Seq(Rows) : turns = Append(e1, l1)
  BY <1>7, SequenceEmptyOrAppend
<1>9. PICK e2 \in Seq(Seq(I)), l2 \in Seq(I) : indices = Append(e2, l2)
  BY <1>7, SequenceEmptyOrAppend
<1>10. PICK e3 \in Seq(Seq(BOOLEAN)), l3 \in Seq(BOOLEAN) : turn_masks = Append(e3, l3)
  BY <1>7, SequenceEmptyOrAppend
<1>11. PICK p \in Nat : p + 1 = n
  <2>1. n - 1 \in Nat /\ (n - 1) + 1 = n
    BY <1>5, <1>6
  <2>2. QED
    BY <2>1
<1>12. Len(e1) = p /\ (\A t \in 1..p : turns[t] = e1[t]) /\ turns[n] = l1
  <2>1. Len(e1) \in Nat
    BY LenProperties
  <2>2. /\ Len(Append(e1, l1)) = Len(e1) + 1
        /\ \A t \in 1..Len(e1) : Append(e1, l1)[t] = e1[t]
        /\ Append(e1, l1)[Len(e1) + 1] = l1
    BY AppendProperties
  <2>3. QED
    BY <1>5, <1>8, <1>11, <2>1, <2>2
<1>13. Len(e2) = p /\ (\A t \in 1..p : indices[t] = e2[t]) /\ indices[n] = l2
  <2>1. Len(e2) \in Nat
    BY LenProperties
  <2>2. /\ Len(Append(e2, l2)) = Len(e2) + 1
        /\ \A t \in 1..Len(e2) : Append(e2, l2)[t] = e2[t]
        /\ Append(e2, l2)[Len(e2) + 1] = l2
    BY AppendProperties
  <2>3. QED
    BY <1>5, <1>9, <1>11, <2>1, <2>2
<1>14. Len(e3) = p /\ (\A t \in 1..p : turn_masks[t] = e3[t]) /\ turn_masks[n] = l3
  <2>1. Len(e3) \in Nat
    BY LenProperties
  <2>2. /\ Len(Append(e3, l3)) = Len(e3) + 1
        /\ \A t \in 1..Len(e3) : Append(e3, l3)[t] = e3[t]
        /\ Append(e3, l3)[Len(e3) + 1] = l3
    BY AppendProperties
  <2>3. QED
    BY <1>5, <1>10, <1>11, <2>1, <2>2
<1>15. TurnsMatch(e1, e2, e3) /\ TurnMatches(l1, l2, l3)
  <2>1. \A t \in 1..p : t \in 1..n
    BY <1>11
  <2>2. n \in 1..n
    BY <1>5, <1>6
  <2>3. TurnMatches(l1, l2, l3)
    BY <1>5, <1>12, <1>13, <1>14, <2>2
  <2>4. \A t \in 1..p : TurnMatches(e1[t], e2[t], e3[t])
    BY <1>5, <1>12, <1>13, <1>14, <2>1
  <2>5. QED
    BY <1>12, <1>13, <1>14, <2>3, <2>4 DEF TurnsMatch
<1>16. p \notin Bad
  <2> HIDE DEF Bad
  <2>1. QED
    BY <1>3, <1>5, <1>11
<1>17. TurnMatches(FlattenSeq(e1), FlattenSeq(e2), FlattenSeq(e3))
  BY <1>12, <1>15, <1>16
<1>18. /\ FlattenSeq(turns) = FlattenSeq(e1) \o l1
       /\ FlattenSeq(indices) = FlattenSeq(e2) \o l2
       /\ FlattenSeq(turn_masks) = FlattenSeq(e3) \o l3
  BY <1>8, <1>9, <1>10, FlattenAppend
<1>19. /\ FlattenSeq(e1) \in Seq(Rows) /\ FlattenSeq(e2) \in Seq(I)
       /\ FlattenSeq(e3) \in Seq(BOOLEAN)
  BY FlattenTyped
<1>20. TurnMatches(FlattenSeq(turns), FlattenSeq(indices), FlattenSeq(turn_masks))
  BY <1>15, <1>17, <1>18, <1>19, MatchesConcat
<1>21. QED
  BY <1>4, <1>20
----------------------------------------------------------------------------
(* The rows of a sample in a list of turns that grows: those of a new turn *)
(* come after all others.                                                  *)
LEMMA ChunkRowsAppend ==
  ASSUME NEW rows \in Seq(Rows), NEW turn \in Seq(Rows), NEW s
  PROVE  /\ ChunkRowsOf(rows \o turn, s)
              = ChunkRowsOf(rows, s) \cup {Len(rows) + k : k \in ChunkRowsOf(turn, s)}
         /\ \A k \in ChunkRowsOf(rows, s) :
              k \in Nat /\ k <= Len(rows) /\ (rows \o turn)[k] = rows[k]
         /\ \A k \in ChunkRowsOf(turn, s) :
              k \in Nat /\ k > 0 /\ (rows \o turn)[Len(rows) + k] = turn[k]
<1>1. /\ Len(rows) \in Nat /\ Len(turn) \in Nat
      /\ DOMAIN rows = 1..Len(rows) /\ DOMAIN turn = 1..Len(turn)
  BY LenProperties
<1>2. /\ rows \o turn \in Seq(Rows) /\ Len(rows \o turn) = Len(rows) + Len(turn)
      /\ \A k \in 1..Len(rows) : (rows \o turn)[k] = rows[k]
      /\ \A k \in 1..Len(turn) : (rows \o turn)[Len(rows) + k] = turn[k]
  BY ConcatElements
<1>3. DOMAIN (rows \o turn) = 1..(Len(rows) + Len(turn))
  BY <1>2, LenProperties
<1> DEFINE all == rows \o turn
<1>4. PICK a \in Nat, b \in Nat : a = Len(rows) /\ b = Len(turn)
  BY <1>1
<1>5. \A k \in ChunkRowsOf(all, s) :
        k \in ChunkRowsOf(rows, s) \/ \E p \in ChunkRowsOf(turn, s) : k = a + p
  <2> SUFFICES ASSUME NEW k \in ChunkRowsOf(all, s)
               PROVE  k \in ChunkRowsOf(rows, s) \/ \E p \in ChunkRowsOf(turn, s) : k = a + p
    OBVIOUS
  <2>1. k \in 1..(a + b) /\ all[k].kind = "memorize" /\ all[k].sample = s
    BY <1>3, <1>4 DEF ChunkRowsOf
  <2>2. CASE k \in 1..a
    <3>1. all[k] = rows[k]
      BY <1>2, <1>4, <2>2
    <3>2. QED
      BY <1>1, <1>4, <2>1, <2>2, <3>1 DEF ChunkRowsOf
  <2>3. CASE k \notin 1..a
    <3>1. k - a \in 1..b /\ a + (k - a) = k
      BY <1>4, <2>1, <2>3
    <3>2. PICK p \in 1..b : k = a + p
      BY <3>1
    <3>3. all[k] = turn[p]
      BY <1>2, <1>4, <3>2
    <3>4. p \in ChunkRowsOf(turn, s)
      BY <1>1, <1>4, <2>1, <3>2, <3>3 DEF ChunkRowsOf
    <3>5. QED
      BY <3>2, <3>4
  <2>4. QED
    BY <2>2, <2>3
<1>6. ASSUME NEW k \in ChunkRowsOf(rows, s)
      PROVE  k \in Nat /\ k <= a /\ all[k] = rows[k] /\ k \in ChunkRowsOf(all, s)
  <2>1. k \in 1..a /\ rows[k].kind = "memorize" /\ rows[k].sample = s
    BY <1>1, <1>4 DEF ChunkRowsOf
  <2>2. all[k] = rows[k]
    BY <1>2, <1>4, <2>1
  <2>3. k \in Nat /\ k <= a /\ k \in 1..(a + b)
    BY <1>4, <2>1
  <2>4. QED
    BY <1>3, <1>4, <2>1, <2>2, <2>3 DEF ChunkRowsOf
<1>7. ASSUME NEW k \in ChunkRowsOf(turn, s)
      PROVE  k \in Nat /\ k > 0 /\ all[a + k] = turn[k] /\ a + k \in ChunkRowsOf(all, s)
  <2>1. k \in 1..b /\ turn[k].kind = "memorize" /\ turn[k].sample = s
    BY <1>1, <1>4 DEF ChunkRowsOf
  <2>2. all[a + k] = turn[k]
    BY <1>2, <1>4, <2>1
  <2>3. k \in Nat /\ k > 0 /\ a + k \in 1..(a + b)
    BY <1>4, <2>1
  <2>4. QED
    BY <1>3, <1>4, <2>1, <2>2, <2>3 DEF ChunkRowsOf
<1>8. ChunkRowsOf(all, s) = ChunkRowsOf(rows, s) \cup {a + k : k \in ChunkRowsOf(turn, s)}
  BY <1>5, <1>6, <1>7
<1>9. QED
  BY <1>4, <1>6, <1>7, <1>8

LEMMA ChunkRowsFinite ==
  ASSUME NEW rows \in Seq(Rows), NEW s
  PROVE  /\ IsFiniteSet(ChunkRowsOf(rows, s))
         /\ Cardinality(ChunkRowsOf(rows, s)) \in Nat
<1>1. Len(rows) \in Nat /\ DOMAIN rows = 1..Len(rows)
  BY LenProperties
<1>2. IsFiniteSet(1..Len(rows)) /\ ChunkRowsOf(rows, s) \in SUBSET (1..Len(rows))
  BY <1>1, FS_Interval DEF ChunkRowsOf
<1>3. QED
  BY <1>2, FS_Subset, FS_CardinalityType

(* A turn without a row of the sample adds nothing to what was collected.  *)
LEMMA TurnAdds ==
  ASSUME NEW rows \in Seq(Rows), NEW turn \in Seq(Rows), NEW s, NEW t,
         ChunkRowsOf(turn, s) = {}, ChunksCollected(rows, t, s)
  PROVE  ChunksCollected(rows \o turn, t, s)
<1>1. ChunkRowsOf(rows \o turn, s) = ChunkRowsOf(rows, s)
  <2>1. ChunkRowsOf(rows \o turn, s)
          = ChunkRowsOf(rows, s) \cup {Len(rows) + k : k \in ChunkRowsOf(turn, s)}
    BY ChunkRowsAppend
  <2>2. {Len(rows) + k : k \in ChunkRowsOf(turn, s)} = {}
    OBVIOUS
  <2>3. QED
    BY <2>1, <2>2
<1>2. \A k \in ChunkRowsOf(rows, s) : (rows \o turn)[k] = rows[k]
  BY ChunkRowsAppend
<1>3. QED
  BY <1>1, <1>2 DEF ChunksCollected

(* More turns never read less.                                             *)
LEMMA ChunksMonotone ==
  ASSUME NEW n \in Nat, NEW t \in Nat, n <= t
  PROVE  ChunkSize * n <= ChunkSize * t
BY LoopAssumption

(* A sample whose context is used up needs no row in the next turn.        *)
LEMMA TurnSkipped ==
  ASSUME TypeOK, NEW rows \in Seq(Rows), NEW s \in Samples, NEW t \in Nat,
         ctx_length[s] <= ChunkSize * t, ChunksCollected(rows, t, s)
  PROVE  ChunksCollected(rows, t + 1, s)
<1> DEFINE n == Cardinality(ChunkRowsOf(rows, s))
<1>1. n \in 0..t /\ (n = t \/ ctx_length[s] <= ChunkSize * n)
  BY DEF ChunksCollected
<1>2. n \in 0..(t + 1) /\ ctx_length[s] <= ChunkSize * n
  <2> HIDE DEF n
  <2>1. QED
    BY <1>1
<1>3. QED
  BY <1>2 DEF ChunksCollected

(* A sample with context left has one, and it holds the next chunk.        *)
LEMMA TurnTaken ==
  ASSUME TypeOK, NEW rows \in Seq(Rows), NEW turn \in Seq(Rows), NEW s \in Samples,
         NEW t \in Nat, NEW p, ctx_length[s] > ChunkSize * t, ChunksCollected(rows, t, s),
         ChunkRowsOf(turn, s) = {p}, turn[p].seen = ReadAfter(s, t + 1)
  PROVE  ChunksCollected(rows \o turn, t + 1, s)
<1> DEFINE own == ChunkRowsOf(rows, s)
           all == rows \o turn
           new == ChunkRowsOf(all, s)
           q   == Len(rows) + p
<1>1. /\ Cardinality(own) \in 0..t
      /\ Cardinality(own) = t \/ ctx_length[s] <= ChunkSize * Cardinality(own)
      /\ \A k \in own : rows[k].seen = ReadAfter(s, Cardinality({j \in own : j <= k}))
  BY DEF ChunksCollected
<1>2. /\ new = own \cup {q}
      /\ \A k \in own : k \in Nat /\ k <= Len(rows) /\ all[k] = rows[k]
      /\ p \in Nat /\ p > 0 /\ all[q] = turn[p]
  <2>1. new = own \cup {Len(rows) + k : k \in ChunkRowsOf(turn, s)}
    BY ChunkRowsAppend
  <2>2. new = own \cup {q}
    BY <2>1
  <2>3. \A k \in own : k \in Nat /\ k <= Len(rows) /\ all[k] = rows[k]
    BY ChunkRowsAppend
  <2>4. p \in ChunkRowsOf(turn, s)
    OBVIOUS
  <2>5. p \in Nat /\ p > 0 /\ all[q] = turn[p]
    BY <2>4, ChunkRowsAppend
  <2>6. QED
    BY <2>2, <2>3, <2>5
<1>3. IsFiniteSet(own) /\ Cardinality(own) \in Nat
  BY ChunkRowsFinite
<1>4. Len(rows) \in Nat
  BY LenProperties
<1>5. q \in Nat /\ q > Len(rows)
  BY <1>2, <1>4
<1> HIDE DEF own, new, q, all
<1>6. Cardinality(own) = t
  <2>1. ctx_length[s] \in Nat
    BY ContextType
  <2>2. ChunkSize * Cardinality(own) <= ChunkSize * t
    BY <1>1, <1>3, ChunksMonotone
  <2>3. ChunkSize * Cardinality(own) \in Nat /\ ChunkSize * t \in Nat
    BY <1>3, ChunkBoundary
  <2>4. QED
    BY <1>1, <2>1, <2>2, <2>3
<1>7. q \notin own
  BY <1>2, <1>4, <1>5
<1>8. Cardinality(new) = t + 1
  BY <1>2, <1>3, <1>6, <1>7, FS_AddElement
<1>9. ASSUME NEW k \in new
      PROVE  all[k].seen = ReadAfter(s, Cardinality({j \in new : j <= k}))
  <2>1. CASE k = q
    <3>1. {j \in new : j <= k} = new
      <4>1. \A j \in own : j <= q
        BY <1>2, <1>4, <1>5
      <4>2. q <= q
        BY <1>5
      <4>3. QED
        BY <1>2, <2>1, <4>1, <4>2
    <3>2. all[k].seen = ReadAfter(s, t + 1)
      BY <1>2, <2>1
    <3>3. QED
      BY <1>8, <3>1, <3>2
  <2>2. CASE k \in own
    <3>1. ~(q <= k)
      BY <1>2, <1>4, <1>5, <2>2
    <3>2. {j \in new : j <= k} = {j \in own : j <= k}
      BY <1>2, <3>1
    <3>3. QED
      BY <1>1, <1>2, <2>2, <3>2
  <2>3. QED
    BY <1>2, <2>1, <2>2
<1>10. t + 1 \in 0..(t + 1) /\ (t + 1) - 1 = t
  OBVIOUS
<1>11. QED
  BY <1>8, <1>9, <1>10 DEF ChunksCollected, new, all
----------------------------------------------------------------------------
(* Within a batch the contexts do not change, nor what was collected.      *)
LEMMA SameContexts ==
  ASSUME UNCHANGED ctx_length
  PROVE  /\ Samples' = Samples
         /\ \A rows, t, s : ChunksCollected(rows, t, s)' <=> ChunksCollected(rows, t, s)
<1>1. Samples' = Samples /\ \A s, k : ReadAfter(s, k)' = ReadAfter(s, k)
  BY DEF Samples, ReadAfter, Context
<1>2. QED
  BY <1>1 DEF ChunksCollected, ChunkRowsOf

LEMMA SameFinalRows ==
  ASSUME UNCHANGED <<ctx_length, images>>
  PROVE  /\ \A kind : Row(kind)' = Row(kind)
         /\ SmallRow' = SmallRow
<1>1. Samples' = Samples
  BY DEF Samples
<1>2. QED
  BY <1>1 DEF Row, SmallRow, FinalRow, ImageRow, Subsampled

(* A step that ends no turn collects nothing.                              *)
LEMMA NothingCollected ==
  ASSUME RowsCollected, InBatch, UNCHANGED <<ctx_length, step, gen_output_list>>,
         pc' = "update" => gen_output' = messages',
         Answered' => Answered /\ UNCHANGED images,
         ~Answered' => ~Answered
  PROVE  RowsCollected'
<1>1. PICK rows : rows = FlattenSeq(gen_output_list)
  OBVIOUS
<1>2. rows = FlattenSeq(gen_output_list)'
  BY <1>1
<1>3. \A s \in Samples' : ChunksCollected(rows, step, s)'
  <2>1. \A s \in Samples : ChunksCollected(rows, step, s)
    BY <1>1 DEF RowsCollected
  <2>2. QED
    BY <2>1, SameContexts
<1>4. ~Answered' => OnlyChunks(rows, Len(rows))
  BY <1>1 DEF RowsCollected
<1>5. Answered' => \E early \in Seq(Rows) : OnlyChunks(early, Len(early))
                                            /\ rows = early \o Row("answer")'
  <2> SUFFICES ASSUME Answered'
               PROVE  \E early \in Seq(Rows) : OnlyChunks(early, Len(early))
                                               /\ rows = early \o Row("answer")'
    OBVIOUS
  <2>1. Answered /\ UNCHANGED images
    OBVIOUS
  <2>2. Row("answer")' = Row("answer")
    BY <2>1, SameFinalRows
  <2>3. QED
    BY <1>1, <2>1, <2>2 DEF RowsCollected
<1>6. QED
  BY <1>2, <1>3, <1>4, <1>5 DEF RowsCollected, OnlyChunks

LEMMA InitCollects == Init => Collected
<1> SUFFICES ASSUME Init PROVE Collected
  OBVIOUS
<1>1. pc = "idle" /\ is_final = FALSE /\ image_pixels = "vanilla"
  BY DEF Init
<1>2. QED
  BY <1>1 DEF Collected, FinalTurnOK, PixelsOK, RowsCollected, InBatch, ResultShape

LEMMA RestartCollects == Restart => Collected'
<1> SUFFICES ASSUME Restart PROVE Collected'
  OBVIOUS
<1>1. pc' = "idle" /\ is_final' = FALSE /\ image_pixels' = "vanilla"
  BY DEF Restart
<1>2. QED
  BY <1>1 DEF Collected, FinalTurnOK, PixelsOK, RowsCollected, InBatch, ResultShape

LEMMA FailureCollects == RenderFails \/ GenerateFails => Collected'
<1> SUFFICES ASSUME RenderFails \/ GenerateFails PROVE Collected'
  OBVIOUS
<1>1. pc' = "failed"
  BY DEF RenderFails, GenerateFails
<1>2. QED
  BY <1>1 DEF Collected, FinalTurnOK, PixelsOK, RowsCollected, InBatch, ResultShape

(* Nothing is collected of a batch that begins.                            *)
LEMMA NoChunks ==
  \A s : ChunkRowsOf(<<>>, s) = {} /\ Cardinality(ChunkRowsOf(<<>>, s)) = 0
BY EmptyValues, FS_EmptySet DEF ChunkRowsOf

LEMMA StartCollects ==
  ASSUME Collected, NEW m, NEW lengths, Start(m, lengths)
  PROVE  Collected'
<1>1. /\ pc \in {"idle", "returned"} /\ pc' = "loop" /\ is_final' = FALSE /\ step' = 0
      /\ gen_output_list' = <<>> /\ UNCHANGED image_pixels
  BY DEF Start
<1>2. image_pixels' = "vanilla"
  BY <1>1 DEF Collected, PixelsOK
<1>3. FlattenSeq(gen_output_list)' = <<>>
  <2>1. FlattenSeq(<<>>) = <<>>
    BY EmptySeq DEF FlattenSeq
  <2>2. FlattenSeq(gen_output_list)' = FlattenSeq(gen_output_list')
    OBVIOUS
  <2>3. QED
    BY <1>1, <2>1, <2>2
<1>4. \A s : ChunksCollected(<<>>, 0, s)'
  BY NoChunks DEF ChunksCollected
<1>5. RowsCollected'
  <2>1. \A s \in Samples' : ChunksCollected(FlattenSeq(gen_output_list), step, s)'
    BY <1>1, <1>3, <1>4
  <2>2. OnlyChunks(<<>>, Len(<<>>))
    BY EmptyValues DEF OnlyChunks
  <2>3. ~Answered' /\ pc' # "update"
    BY <1>1 DEF Answered
  <2>4. QED
    BY <1>3, <2>1, <2>2, <2>3 DEF RowsCollected, OnlyChunks
<1>6. QED
  BY <1>1, <1>2, <1>5 DEF Collected, FinalTurnOK, PixelsOK, ResultShape

(* The turns are built and generated.                                      *)
LEMMA ActionChunkCollects ==
  ASSUME Collected, ActionChunk
  PROVE  Collected'
<1>1. /\ pc = "loop" /\ pc' = "generate" /\ ~is_final /\ is_final' = is_final
      /\ UNCHANGED <<ctx_length, step, gen_output_list, image_pixels>>
  BY DEF ActionChunk
<1>2. RowsCollected'
  <2>1. RowsCollected /\ InBatch /\ ~Answered /\ ~Answered' /\ pc' # "update"
    BY <1>1 DEF Collected, InBatch, Answered
  <2>2. QED
    BY <1>1, <2>1, NothingCollected
<1>3. QED
  BY <1>1, <1>2 DEF Collected, FinalTurnOK, PixelsOK, ResultShape

LEMMA ActionFinalCollects ==
  ASSUME IInv, Collected, ActionFinal
  PROVE  Collected'
<1>1. /\ pc = "loop" /\ pc' = "generate" /\ ~is_final /\ is_final'
      /\ UNCHANGED <<ctx_length, step, memory, gen_output_list, image_pixels>>
      /\ sample_index_list' = Append(sample_index_list, [s \in Samples |-> s])
      /\ final_mask_list' = Append(final_mask_list, [s \in Samples |-> TRUE])
      /\ messages' = [s \in Samples |-> ImageRow(s, "answer", images'[s], image_pixels)]
  BY DEF ActionFinal
<1>2. PICK lost \in SUBSET Samples : images' = [s \in Samples |-> ImageOf(s, lost)]
  BY DEF ActionFinal
<1>3. Samples' = Samples
  BY <1>1 DEF Samples
<1>4. RowsCollected'
  <2>1. RowsCollected /\ InBatch /\ ~Answered /\ ~Answered' /\ pc' # "update"
    BY <1>1 DEF Collected, InBatch, Answered
  <2>2. QED
    BY <1>1, <2>1, NothingCollected
<1>5. image_pixels = "vanilla"
  BY <1>1 DEF Collected, PixelsOK
<1>6. images' = [s \in Samples |-> images'[s]] /\ \A s \in Samples : ImageOK(s)'
  BY <1>1, <1>2 DEF ImageOf, ImageOK
<1>7. messages' = Row("answer")'
  BY <1>1, <1>3, <1>5 DEF Row, FinalRow
<1>8. /\ Len(sample_index_list') > 0
      /\ sample_index_list'[Len(sample_index_list')] = [s \in Samples |-> s]
      /\ final_mask_list'[Len(sample_index_list')] = [s \in Samples |-> TRUE]
  <2>1. /\ sample_index_list \in Seq(Seq(Samples)) /\ final_mask_list \in Seq(Seq(BOOLEAN))
        /\ Len(final_mask_list) = Len(sample_index_list)
        /\ Len(sample_index_list) \in Nat
    BY LenProperties DEF IInv, TypeOK, RowsMatchIndex
  <2> DEFINE idx == [s \in Samples |-> s]
             mask == [s \in Samples |-> TRUE]
  <2>2. idx \in Seq(Samples) /\ mask \in Seq(BOOLEAN)
    <3>1. Len(ctx_length) \in Nat /\ Samples = 1..Len(ctx_length)
      BY SamplesInterval DEF IInv
    <3>2. idx \in [1..Len(ctx_length) -> Samples] /\ mask \in [1..Len(ctx_length) -> BOOLEAN]
      BY <3>1
    <3>3. QED
      BY <3>1, <3>2, FunctionIsSequence
  <2>3. sample_index_list' = Append(sample_index_list, idx)
        /\ final_mask_list' = Append(final_mask_list, mask)
    BY <1>1
  <2> HIDE DEF idx, mask
  <2>4. /\ Len(sample_index_list') = Len(sample_index_list) + 1
        /\ sample_index_list'[Len(sample_index_list) + 1] = idx
    BY <2>1, <2>2, <2>3, AppendProperties
  <2>5. final_mask_list'[Len(final_mask_list) + 1] = mask
    BY <2>1, <2>2, <2>3, AppendProperties
  <2>6. QED
    BY <2>1, <2>4, <2>5 DEF idx, mask
<1>9. FinalTurnOK'
  BY <1>1, <1>3, <1>6, <1>7, <1>8 DEF FinalTurnOK
<1>10. QED
  BY <1>1, <1>4, <1>5, <1>9 DEF Collected, PixelsOK, ResultShape

LEMMA GenerateCollects ==
  ASSUME IInv, Collected, Generate
  PROVE  Collected'
<1>1. /\ pc = "generate" /\ pc' = "update"
      /\ UNCHANGED <<mode, ctx_length, step, is_final, memory, final_mask_list,
                     sample_index_list, image_pixels, messages, images, gen_output_list>>
  BY DEF Generate, agent_vars
<1>2. gen_output' = messages'
  <2>1. messages \in Seq(Rows)
    BY DEF IInv, TypeOK
  <2>2. messages \in [1..Len(messages) -> Rows] /\ DOMAIN messages = 1..Len(messages)
    BY <2>1, LenProperties
  <2>3. QED
    BY <1>1, <2>2 DEF Generate, Respond
<1>3. RowsCollected'
  <2>1. RowsCollected /\ InBatch /\ ~Answered /\ ~Answered'
    BY <1>1 DEF Collected, InBatch, Answered
  <2>2. QED
    BY <1>1, <1>2, <2>1, NothingCollected
<1>4. Samples' = Samples /\ Row("answer")' = Row("answer") /\ \A s : ImageOK(s)' <=> ImageOK(s)
  BY <1>1, SameFinalRows DEF Samples, ImageOK
<1>5. FinalTurnOK'
  BY <1>1, <1>4 DEF Collected, FinalTurnOK
<1>6. QED
  BY <1>1, <1>3, <1>5 DEF Collected, PixelsOK, ResultShape

(* The responses of a chunk turn are collected: one row for every sample   *)
(* with context left, and none for the others.                             *)
LEMMA RowsOfTurn ==
  ASSUME IInv, RowKinds, pc = "update", ~is_final, NEW s \in Samples
  PROVE  /\ s \in Active => \E p : /\ ChunkRowsOf(gen_output, s) = {p}
                                   /\ gen_output[p].seen = ReadAfter(s, step + 1)
         /\ s \notin Active => ChunkRowsOf(gen_output, s) = {}
<1>1. TypeOK /\ TurnInProgress /\ TurnRows = gen_output
  BY DEF IInv, TurnRows
<1>2. PICK idx : idx = sample_index_list[Len(sample_index_list)]
  OBVIOUS
<1>3. /\ idx \in ArangeWhere(Active)
      /\ Len(gen_output) = Len(idx)
      /\ \A k \in DOMAIN gen_output : /\ gen_output[k].sample = idx[k]
                                      /\ gen_output[k].seen = ReadAfter(idx[k], step + 1)
                                      /\ gen_output[k].kind = "memorize"
  BY <1>1, <1>2 DEF TurnInProgress, TurnMatches, RowKinds
<1>4. PICK n \in Nat : n = Cardinality(Active)
  BY <1>1, <1>3, ActiveSamples
<1>5. DOMAIN gen_output = 1..n /\ \A k \in 1..n : idx[k] \in Active
  <2>1. gen_output \in Seq(Rows) /\ Len(idx) = n
    BY <1>1, <1>3, <1>4, ActiveSamples DEF TypeOK
  <2>2. QED
    BY <1>1, <1>3, <1>4, <2>1, ActiveSamples, LenProperties
<1>6. CASE s \in Active
  <2>1. PICK p \in 1..n : idx[p] = s
    BY <1>3, <1>4, <1>6 DEF ArangeWhere
  <2>2. ASSUME NEW k \in 1..n, idx[k] = s
        PROVE  k = p
    <3>1. Active \in SUBSET Int /\ IsFiniteSet(Active)
      <4>1. Active \in SUBSET Samples
        BY DEF Active
      <4>2. QED
        BY <1>1, <4>1, SampleSets, SamplesInterval
    <3>2. Cardinality({j \in Active : j <= idx[k]}) = k
      BY <1>3, <1>4, <3>1, PlaceInArange
    <3>3. Cardinality({j \in Active : j <= idx[p]}) = p
      BY <1>3, <1>4, <3>1, PlaceInArange
    <3>4. QED
      BY <2>1, <2>2, <3>2, <3>3
  <2>3. ChunkRowsOf(gen_output, s) = {p}
    BY <1>3, <1>5, <2>1, <2>2 DEF ChunkRowsOf
  <2>4. gen_output[p].seen = ReadAfter(s, step + 1)
    BY <1>3, <1>5, <2>1
  <2>5. QED
    BY <1>6, <2>3, <2>4
<1>7. CASE s \notin Active
  BY <1>3, <1>5, <1>7 DEF ChunkRowsOf
<1>8. QED
  BY <1>6, <1>7

LEMMA ActiveHasContext ==
  ASSUME TypeOK, NEW s \in Samples
  PROVE  s \in Active <=> ctx_length[s] > ChunkSize * step
<1>1. step \in Nat
  BY DEF TypeOK
<1>2. step * ChunkSize = ChunkSize * step
  BY <1>1, ChunkBoundary
<1>3. QED
  BY <1>2 DEF Active

LEMMA UpdateCollects ==
  ASSUME IInv, RowKinds, Collected, Update
  PROVE  Collected'
<1>1. /\ pc = "update" /\ pc' = "loop" /\ step' = step + 1
      /\ gen_output_list' = Append(gen_output_list, gen_output)
      /\ UNCHANGED <<mode, ctx_length, is_final, final_mask_list, sample_index_list,
                     image_pixels, messages, images, gen_output>>
      /\ is_final => UNCHANGED memory
  BY DEF Update
<1>2. TypeOK /\ FinalTurn /\ TurnRows = gen_output
  BY <1>1 DEF IInv, TurnRows
<1>3. /\ gen_output \in Seq(Rows) /\ gen_output_list \in Seq(Seq(Rows))
      /\ step \in Nat /\ DOMAIN gen_output = 1..Len(gen_output) /\ Len(gen_output) \in Nat
  BY <1>2, LenProperties DEF TypeOK
<1>4. PICK rows \in Seq(Rows) : rows = FlattenSeq(gen_output_list)
  BY <1>3, FlattenTyped
<1>5. FlattenSeq(gen_output_list)' = rows \o gen_output
  <2>1. FlattenSeq(Append(gen_output_list, gen_output)) = rows \o gen_output
    BY <1>3, <1>4, FlattenAppend
  <2>2. QED
    BY <1>1, <2>1
<1>6. \A s \in Samples : ChunksCollected(rows, step, s)
  BY <1>1, <1>4 DEF Collected, RowsCollected, InBatch
<1>7. OnlyChunks(rows, Len(rows)) /\ gen_output = messages
  BY <1>1, <1>4 DEF Collected, RowsCollected, InBatch, Answered
<1>8. ASSUME NEW s \in Samples
      PROVE  ChunksCollected(rows \o gen_output, step + 1, s)
  <2>1. ChunksCollected(rows, step, s) /\ ctx_length[s] \in Nat /\ ChunkSize * step \in Nat
    BY <1>2, <1>3, <1>6, ContextType, ChunkBoundary
  <2>2. CASE ~is_final /\ s \in Active
    <3>1. PICK p : /\ ChunkRowsOf(gen_output, s) = {p}
                   /\ gen_output[p].seen = ReadAfter(s, step + 1)
      BY <1>1, <2>2, RowsOfTurn
    <3>2. ctx_length[s] > ChunkSize * step
      BY <1>2, <2>2, ActiveHasContext
    <3>3. QED
      BY <1>2, <1>3, <2>1, <3>1, <3>2, TurnTaken
  <2>3. CASE is_final \/ s \notin Active
    <3>1. ChunkRowsOf(gen_output, s) = {}
      <4>1. CASE is_final
        <5>1. /\ DOMAIN gen_output = Samples
              /\ \A k \in Samples : gen_output[k].kind = "answer"
          BY <1>1, <1>2, <4>1 DEF RowKinds
        <5>2. QED
          BY <5>1 DEF ChunkRowsOf
      <4>2. CASE ~is_final
        BY <1>1, <2>3, <4>2, RowsOfTurn
      <4>3. QED
        BY <4>1, <4>2
    <3>2. ctx_length[s] <= ChunkSize * step
      <4>1. CASE is_final
        BY <1>1, <1>2, <4>1 DEF FinalTurn
      <4>2. CASE s \notin Active
        BY <1>2, <2>1, <4>2, ActiveHasContext
      <4>3. QED
        BY <2>3, <4>1, <4>2
    <3>3. ChunksCollected(rows \o gen_output, step, s)
      BY <1>3, <2>1, <3>1, TurnAdds
    <3>4. rows \o gen_output \in Seq(Rows)
      BY <1>3, ConcatElements
    <3>5. QED
      BY <1>2, <1>3, <3>2, <3>3, <3>4, TurnSkipped
  <2>4. QED
    BY <2>2, <2>3
<1>9. RowsCollected'
  <2>1. PICK all, t : all = rows \o gen_output /\ t = step + 1
    OBVIOUS
  <2>2. all = FlattenSeq(gen_output_list)' /\ t = step'
    BY <1>1, <1>5, <2>1
  <2>3. \A s \in Samples' : ChunksCollected(all, t, s)'
    <3>1. UNCHANGED ctx_length
      BY <1>1
    <3>2. Samples' = Samples /\ \A s : ChunksCollected(all, t, s)' <=> ChunksCollected(all, t, s)
      BY <3>1, SameContexts
    <3>3. \A s \in Samples : ChunksCollected(all, t, s)
      BY <1>8, <2>1
    <3>4. QED
      BY <3>2, <3>3
  <2>4. \A s \in Samples' : ChunksCollected(FlattenSeq(gen_output_list), step, s)'
    BY <2>2, <2>3
  <2>5. CASE is_final
    <3>1. gen_output = Row("answer")
      BY <1>1, <1>7, <2>5 DEF Collected, FinalTurnOK
    <3>2. Row("answer")' = Row("answer")
      BY <1>1, SameFinalRows
    <3>3. FlattenSeq(gen_output_list)' = rows \o Row("answer")'
      BY <1>5, <3>1, <3>2
    <3>4. Answered' /\ pc' # "update"
      BY <1>1, <2>5 DEF Answered
    <3>5. QED
      BY <1>7, <2>4, <3>3, <3>4 DEF RowsCollected, OnlyChunks
  <2>6. CASE ~is_final
    <3>1. \A k \in 1..Len(gen_output) : gen_output[k].kind = "memorize"
      BY <1>1, <1>2, <1>3, <2>6 DEF RowKinds
    <3>2. OnlyChunks(all, Len(all))
      <4>1. Len(rows) \in Nat
        BY LenProperties
      <4>2. /\ Len(all) = Len(rows) + Len(gen_output)
            /\ \A k \in 1..Len(rows) : all[k] = rows[k]
            /\ \A k \in 1..Len(gen_output) : all[Len(rows) + k] = gen_output[k]
        BY <1>3, <2>1, ConcatElements
      <4>3. ASSUME NEW k \in 1..(Len(rows) + Len(gen_output)), k \notin 1..Len(rows)
            PROVE  \E p \in 1..Len(gen_output) : k = Len(rows) + p
        <5>1. k - Len(rows) \in 1..Len(gen_output) /\ k = Len(rows) + (k - Len(rows))
          BY <1>3, <4>1, <4>3
        <5>2. QED
          BY <5>1
      <4>4. ASSUME NEW k \in 1..Len(all)
            PROVE  all[k].kind = "memorize"
        <5>1. CASE k \in 1..Len(rows)
          BY <1>7, <4>2, <5>1 DEF OnlyChunks
        <5>2. CASE k \notin 1..Len(rows)
          <6>1. k \in 1..(Len(rows) + Len(gen_output))
            BY <4>2
          <6>2. PICK p \in 1..Len(gen_output) : k = Len(rows) + p
            BY <4>3, <5>2, <6>1
          <6>3. all[k] = gen_output[p]
            BY <4>2, <6>2
          <6>4. QED
            BY <3>1, <6>3
        <5>3. QED
          BY <5>1, <5>2
      <4>5. QED
        BY <4>4 DEF OnlyChunks
    <3>3. ~Answered' /\ pc' # "update"
      BY <1>1, <2>6 DEF Answered
    <3>4. QED
      BY <2>2, <2>4, <3>2, <3>3 DEF RowsCollected, OnlyChunks
  <2>7. QED
    BY <2>5, <2>6
<1>10. FinalTurnOK'
  <2>1. Samples' = Samples /\ Row("answer")' = Row("answer")
    BY <1>1, SameFinalRows DEF Samples
  <2>2. is_final => \A s \in Samples : ImageOK(s)' <=> ImageOK(s)
    BY <1>1 DEF ImageOK
  <2>3. QED
    BY <1>1, <2>1, <2>2 DEF Collected, FinalTurnOK
<1>11. QED
  BY <1>1, <1>9, <1>10 DEF Collected, PixelsOK, ResultShape

(* The two extra turns of the triple mode ask and answer in the order of   *)
(* the samples.                                                            *)
LEMMA EndTripleCollects ==
  ASSUME IInv, Collected, EndTriple
  PROVE  Collected'
<1>1. /\ pc = "loop" /\ is_final /\ mode = "triple" /\ pc' = "generate_subsampled"
      /\ masks' = TripleMasks
      /\ messages' = [s \in Samples |-> ImageRow(messages[s].sample, "subsampled",
                                                 Subsampled(images[s]), image_pixels)]
      /\ UNCHANGED <<mode, ctx_length, step, is_final, memory, final_mask_list,
                     sample_index_list, images, gen_output, gen_output_list>>
  BY DEF EndTriple
<1>2. Samples' = Samples /\ SmallRow' = SmallRow /\ \A s : ImageOK(s)' <=> ImageOK(s)
  BY <1>1, SameFinalRows DEF Samples, ImageOK
<1>3. masks' = TripleMasks'
  BY <1>1, <1>2 DEF TripleMasks, All
<1>4. messages = Row("answer") /\ image_pixels = "vanilla"
  BY <1>1 DEF Collected, FinalTurnOK, PixelsOK
<1>5. messages' = SmallRow'
  <2>1. \A s \in Samples : messages[s].sample = s
    BY <1>4 DEF Row, FinalRow, ImageRow
  <2>2. messages' = SmallRow
    BY <1>1, <1>4, <2>1 DEF SmallRow, FinalRow
  <2>3. QED
    BY <1>2, <2>2
<1>6. FinalTurnOK'
  BY <1>1, <1>2, <1>3, <1>5 DEF Collected, FinalTurnOK
<1>7. RowsCollected'
  <2>1. RowsCollected /\ InBatch /\ Answered /\ Answered' /\ pc' # "update"
    BY <1>1 DEF Collected, InBatch, Answered
  <2>2. QED
    BY <1>1, <2>1, NothingCollected
<1>8. QED
  BY <1>1, <1>6, <1>7 DEF Collected, PixelsOK, ResultShape

LEMMA GenerateSubsampledCollects ==
  ASSUME IInv, Collected, GenerateSubsampled
  PROVE  Collected'
<1>1. /\ pc = "generate_subsampled" /\ pc' = "generate_gap_fill"
      /\ gen_output' = Respond(messages) /\ image_pixels' = "vanilla"
      /\ messages' = [s \in Samples |-> ImageRow(s, "gap_fill", images[s], image_pixels')]
      /\ UNCHANGED <<mode, ctx_length, step, is_final, memory, final_mask_list,
                     sample_index_list, images, gen_output_list, masks>>
  BY DEF GenerateSubsampled
<1>2. is_final
  BY <1>1 DEF IInv, FinalTurn
<1>3. /\ Samples' = Samples /\ SmallRow' = SmallRow
      /\ Row("gap_fill")' = Row("gap_fill") /\ \A s : ImageOK(s)' <=> ImageOK(s)
  BY <1>1, SameFinalRows DEF Samples, ImageOK
<1>4. masks = TripleMasks /\ mode = "triple" /\ messages = SmallRow
  BY <1>1, <1>2 DEF Collected, FinalTurnOK
<1>5. TripleMasks' = TripleMasks
  BY <1>1, <1>3 DEF TripleMasks, All
<1>6. gen_output' = SmallRow'
  <2>1. Respond(SmallRow) = SmallRow
    BY DEF Respond, SmallRow
  <2>2. QED
    BY <1>1, <1>3, <1>4, <2>1
<1>7. messages' = Row("gap_fill")'
  <2>1. messages' = Row("gap_fill")
    BY <1>1 DEF Row, FinalRow
  <2>2. QED
    BY <1>3, <2>1
<1>8. FinalTurnOK'
  BY <1>1, <1>2, <1>3, <1>4, <1>5, <1>6, <1>7 DEF Collected, FinalTurnOK
<1>9. RowsCollected'
  <2>1. RowsCollected /\ InBatch /\ Answered /\ Answered' /\ pc' # "update"
    BY <1>1, <1>2 DEF Collected, InBatch, Answered
  <2>2. QED
    BY <1>1, <2>1, NothingCollected
<1>10. QED
  BY <1>1, <1>8, <1>9 DEF Collected, PixelsOK, ResultShape

LEMMA StutterCollects ==
  ASSUME Collected, UNCHANGED vars
  PROVE  Collected'
<1>1. UNCHANGED <<pc, mode, ctx_length, step, is_final, memory, final_mask_list,
                  sample_index_list, image_pixels, messages, images, gen_output,
                  gen_output_list, masks, result>>
  BY DEF vars, agent_vars
<1>2. /\ Samples' = Samples /\ SmallRow' = SmallRow
      /\ \A kind : Row(kind)' = Row(kind)
      /\ \A s : ImageOK(s)' <=> ImageOK(s)
      /\ \A rows, t, s : ChunksCollected(rows, t, s)' <=> ChunksCollected(rows, t, s)
  BY <1>1, SameFinalRows, SameContexts DEF Samples, ImageOK
<1>3. TripleMasks' = TripleMasks
  BY <1>1, <1>2 DEF TripleMasks, All
<1>4. FinalTurnOK'
  BY <1>1, <1>2, <1>3 DEF Collected, FinalTurnOK
<1>5. PixelsOK'
  BY <1>1 DEF Collected, PixelsOK
<1>6. RowsCollected'
  <2>1. CASE InBatch
    <3>1. RowsCollected /\ (Answered' <=> Answered)
      BY <1>1 DEF Collected, Answered
    <3>2. pc' = "update" => gen_output' = messages'
      BY <1>1, <2>1, <3>1 DEF RowsCollected
    <3>3. QED
      BY <1>1, <2>1, <3>1, <3>2, NothingCollected
  <2>2. CASE ~InBatch
    BY <1>1, <2>2 DEF RowsCollected, InBatch
  <2>3. QED
    BY <2>1, <2>2
<1>7. ResultShape'
  <2>1. \A rows, mask, index, a, final :
          BlockAt(rows, mask, index, a, final)' <=> BlockAt(rows, mask, index, a, final)
    BY <1>1, <1>2 DEF BlockAt
  <2>2. QED
    BY <1>1, <1>2, <2>1 DEF Collected, ResultShape
<1>8. QED
  BY <1>4, <1>5, <1>6, <1>7 DEF Collected
----------------------------------------------------------------------------
(* The end of a call. The rows of the final turns are well formed, one per *)
(* sample.                                                                 *)
LEMMA FinalRowTypes ==
  ASSUME IInv, is_final, pc # "failed"
  PROVE  /\ \A kind \in {"answer", "gap_fill"} :
              /\ Row(kind) \in [1..Len(ctx_length) -> Rows]
              /\ \A s \in Samples : Row(kind)[s].kind = kind /\ Row(kind)[s].sample = s
         /\ SmallRow \in [1..Len(ctx_length) -> Rows]
         /\ \A s \in Samples : SmallRow[s].kind = "subsampled" /\ SmallRow[s].sample = s
         /\ Len(ctx_length) \in Nat /\ Samples = 1..Len(ctx_length)
<1>1. TypeOK /\ Len(images) = Len(ctx_length)
  BY DEF IInv, FinalTurn
<1>2. /\ Len(ctx_length) \in Nat /\ Samples = 1..Len(ctx_length)
      /\ \A s \in Samples : s \in 1..MaxBatchSize
  BY <1>1, SamplesInterval
<1> DEFINE Imgs == [seen : Seq(Tokens), scale : {"none", "full", "quarter"}]
<1>3. \A s \in Samples : images[s] \in Imgs /\ Subsampled(images[s]) \in Imgs
  BY <1>1, ImagesOfSamples
<1>4. ASSUME NEW kind \in {"answer", "gap_fill"}, NEW s \in Samples
      PROVE  Row(kind)[s] \in Rows /\ Row(kind)[s].kind = kind /\ Row(kind)[s].sample = s
  <2>1. Row(kind)[s] = ImageRow(s, kind, images[s], "vanilla")
    BY DEF Row, FinalRow
  <2>2. kind \in {"answer", "subsampled", "gap_fill"} /\ "vanilla" \in {"vanilla", "quarter"}
    OBVIOUS
  <2>3. QED
    BY <1>2, <1>3, <2>1, <2>2, ImageRowType
<1>5. ASSUME NEW s \in Samples
      PROVE  SmallRow[s] \in Rows /\ SmallRow[s].kind = "subsampled" /\ SmallRow[s].sample = s
  <2>1. SmallRow[s] = ImageRow(s, "subsampled", Subsampled(images[s]), "vanilla")
    BY DEF SmallRow, FinalRow
  <2>2. "subsampled" \in {"answer", "subsampled", "gap_fill"} /\ "vanilla" \in {"vanilla", "quarter"}
    OBVIOUS
  <2>3. QED
    BY <1>2, <1>3, <2>1, <2>2, ImageRowType
<1>6. \A kind : DOMAIN Row(kind) = Samples /\ Row(kind) = [s \in Samples |-> Row(kind)[s]]
  BY DEF Row
<1>7. SmallRow = [s \in Samples |-> SmallRow[s]]
  BY DEF SmallRow
<1>8. \A kind \in {"answer", "gap_fill"} : Row(kind) \in [1..Len(ctx_length) -> Rows]
  BY <1>2, <1>4, <1>6
<1>9. SmallRow \in [1..Len(ctx_length) -> Rows]
  BY <1>2, <1>5, <1>7
<1>10. QED
  BY <1>2, <1>4, <1>5, <1>8, <1>9

(* Four sequences end to end, the last three of the same length.           *)
InBlocks(all, e, x, y, z) ==
  /\ Len(all) = Len(e) + Len(x) + Len(x) + Len(x)
  /\ \A k \in 1..Len(e) : all[k] = e[k]
  /\ \A k \in 1..Len(x) : /\ all[Len(e) + k] = x[k]
                          /\ all[Len(e) + Len(x) + k] = y[k]
                          /\ all[Len(e) + Len(x) + Len(x) + k] = z[k]

LEMMA FourBlocks ==
  ASSUME NEW S, NEW e \in Seq(S), NEW x \in Seq(S), NEW y \in Seq(S), NEW z \in Seq(S),
         Len(y) = Len(x), Len(z) = Len(x), NEW all, all = ((e \o x) \o y) \o z
  PROVE  all \in Seq(S) /\ InBlocks(all, e, x, y, z)
<1>1. PICK n \in Nat : n = Len(x) /\ n = Len(y) /\ n = Len(z)
  BY LenProperties
<1>2. PICK a \in Nat : a = Len(e)
  BY LenProperties
<1> DEFINE ex == e \o x
           exy == ex \o y
<1>3. /\ ex \in Seq(S) /\ Len(ex) = a + n
      /\ \A k \in 1..a : ex[k] = e[k]
      /\ \A k \in 1..n : ex[a + k] = x[k]
  <2>1. ex \in Seq(S) /\ Len(ex) = Len(e) + Len(x)
    BY ConcatElements
  <2>2. \A k \in 1..Len(e) : ex[k] = e[k]
    BY ConcatElements
  <2>3. \A k \in 1..Len(x) : ex[Len(e) + k] = x[k]
    BY ConcatElements
  <2>4. QED
    BY <1>1, <1>2, <2>1, <2>2, <2>3
<1> HIDE DEF ex
<1>4. /\ exy \in Seq(S) /\ Len(exy) = a + n + n
      /\ \A k \in 1..(a + n) : exy[k] = ex[k]
      /\ \A k \in 1..n : exy[a + n + k] = y[k]
  <2>0. ex \in Seq(S)
    BY <1>3
  <2>1. exy \in Seq(S) /\ Len(exy) = Len(ex) + Len(y)
    BY <2>0, ConcatElements
  <2>2. \A k \in 1..Len(ex) : exy[k] = ex[k]
    BY <2>0, ConcatElements
  <2>3. \A k \in 1..Len(y) : exy[Len(ex) + k] = y[k]
    BY <2>0, ConcatElements
  <2>4. QED
    BY <1>1, <1>3, <2>1, <2>2, <2>3
<1>0. all = exy \o z
  BY DEF ex
<1> HIDE DEF exy
<1>5. /\ all \in Seq(S) /\ Len(all) = a + n + n + n
      /\ \A k \in 1..(a + n + n) : all[k] = exy[k]
      /\ \A k \in 1..n : all[a + n + n + k] = z[k]
  <2>0. exy \in Seq(S)
    BY <1>4
  <2>1. exy \o z \in Seq(S) /\ Len(exy \o z) = Len(exy) + Len(z)
    BY <2>0, ConcatElements
  <2>2. \A k \in 1..Len(exy) : (exy \o z)[k] = exy[k]
    BY <2>0, ConcatElements
  <2>3. \A k \in 1..Len(z) : (exy \o z)[Len(exy) + k] = z[k]
    BY <2>0, ConcatElements
  <2>4. QED
    BY <1>0, <1>1, <1>4, <2>1, <2>2, <2>3
<1>6. ASSUME NEW k \in 1..a
      PROVE  all[k] = e[k]
  <2>1. k \in 1..(a + n) /\ k \in 1..(a + n + n)
    BY <1>2
  <2>2. QED
    BY <1>3, <1>4, <1>5, <2>1
<1>7. ASSUME NEW k \in 1..n
      PROVE  all[a + k] = x[k] /\ all[a + n + k] = y[k] /\ all[a + n + n + k] = z[k]
  <2>1. a + k \in 1..(a + n) /\ a + k \in 1..(a + n + n) /\ a + n + k \in 1..(a + n + n)
    BY <1>2
  <2>2. all[a + k] = x[k]
    BY <1>3, <1>4, <1>5, <2>1
  <2>3. all[a + n + k] = y[k]
    BY <1>4, <1>5, <2>1
  <2>4. QED
    BY <1>5, <2>2, <2>3
<1>8. QED
  BY <1>1, <1>2, <1>5, <1>6, <1>7 DEF InBlocks

(* Turns appended to a list.                                               *)
LEMMA FlattenTwoMore ==
  ASSUME NEW S, NEW seqs \in Seq(Seq(S)), NEW x \in Seq(S), NEW y \in Seq(S),
         NEW more, more = <<x, y>>
  PROVE  FlattenSeq(seqs \o more) = (FlattenSeq(seqs) \o x) \o y
<1>1. seqs \o more = Append(Append(seqs, x), y)
  OBVIOUS
<1>2. Append(seqs, x) \in Seq(Seq(S))
  BY AppendProperties
<1>3. FlattenSeq(Append(Append(seqs, x), y)) = FlattenSeq(Append(seqs, x)) \o y
  BY <1>2, FlattenAppend
<1>4. FlattenSeq(Append(seqs, x)) = FlattenSeq(seqs) \o x
  BY FlattenAppend
<1>5. QED
  BY <1>1, <1>3, <1>4

LEMMA FlattenThreeMore ==
  ASSUME NEW S, NEW seqs \in Seq(Seq(S)), NEW x \in Seq(S), NEW y \in Seq(S), NEW z \in Seq(S),
         NEW more, more = <<x, y, z>>
  PROVE  FlattenSeq(seqs \o more) = ((FlattenSeq(seqs) \o x) \o y) \o z
<1>1. more = Append(<<x, y>>, z)
  OBVIOUS
<1>2. Append(seqs, x) \in Seq(Seq(S)) /\ Append(Append(seqs, x), y) \in Seq(Seq(S))
  BY AppendProperties
<1>3. seqs \o more = Append(Append(Append(seqs, x), y), z)
  <2>1. seqs \o Append(<<x, y>>, z) = Append(seqs \o <<x, y>>, z)
    OBVIOUS
  <2>2. seqs \o <<x, y>> = Append(Append(seqs, x), y)
    OBVIOUS
  <2>3. QED
    BY <1>1, <2>1, <2>2
<1>4. FlattenSeq(Append(Append(Append(seqs, x), y), z)) = FlattenSeq(Append(Append(seqs, x), y)) \o z
  BY <1>2, FlattenAppend
<1>5. FlattenSeq(Append(Append(seqs, x), y)) = FlattenSeq(Append(seqs, x)) \o y
  BY <1>2, FlattenAppend
<1>6. FlattenSeq(Append(seqs, x)) = FlattenSeq(seqs) \o x
  BY FlattenAppend
<1>7. QED
  BY <1>3, <1>4, <1>5, <1>6

LEMMA FlattenFront ==
  ASSUME NEW S, NEW seqs \in Seq(Seq(S)), Len(seqs) > 0
  PROVE  /\ Front(seqs) \in Seq(Seq(S)) /\ Last(seqs) = seqs[Len(seqs)] /\ Last(seqs) \in Seq(S)
         /\ FlattenSeq(seqs) = FlattenSeq(Front(seqs)) \o Last(seqs)
<1>1. seqs # <<>>
  BY EmptyValues
<1>2. PICK early \in Seq(Seq(S)), last \in Seq(S) : seqs = Append(early, last)
  BY <1>1, SequenceEmptyOrAppend
<1>3. Len(early) \in Nat
  BY LenProperties
<1>4. /\ Len(Append(early, last)) = Len(early) + 1
      /\ \A k \in 1..Len(early) : Append(early, last)[k] = early[k]
      /\ Append(early, last)[Len(early) + 1] = last
  BY AppendProperties
<1>5. Last(seqs) = last
  BY <1>2, <1>4 DEF Last
<1>6. Front(seqs) = early
  <2>1. Front(seqs) = SubSeq(seqs, 1, Len(early))
    BY <1>2, <1>3, <1>4 DEF Front
  <2>2. QED
    BY <1>2, <1>3, <1>4, <2>1
<1>7. QED
  BY <1>2, <1>5, <1>6, FlattenAppend DEF Last

(* What was collected stays in step, row by row.                           *)
LEMMA RowsInStep ==
  ASSUME IInv, pc \in {"loop", "generate_gap_fill"}
  PROVE  /\ FlattenSeq(gen_output_list) \in Seq(Rows)
         /\ FlattenSeq(sample_index_list) \in Seq(Samples)
         /\ FlattenSeq(final_mask_list) \in Seq(BOOLEAN)
         /\ TurnMatches(FlattenSeq(gen_output_list), FlattenSeq(sample_index_list),
                        FlattenSeq(final_mask_list))
<1>1. /\ gen_output_list \in Seq(Seq(Rows)) /\ sample_index_list \in Seq(Seq(Samples))
      /\ final_mask_list \in Seq(Seq(BOOLEAN))
      /\ Len(sample_index_list) = Len(gen_output_list)
      /\ Len(final_mask_list) = Len(sample_index_list)
      /\ \A t \in DOMAIN sample_index_list \cap DOMAIN gen_output_list :
           TurnMatches(gen_output_list[t], sample_index_list[t], final_mask_list[t])
  BY DEF IInv, TypeOK, TurnsComplete, RowsMatchIndex
<1>2. /\ DOMAIN sample_index_list = 1..Len(gen_output_list)
      /\ DOMAIN gen_output_list = 1..Len(gen_output_list)
  BY <1>1, LenProperties
<1>3. TurnsMatch(gen_output_list, sample_index_list, final_mask_list)
  BY <1>1, <1>2 DEF TurnsMatch
<1>4. TurnMatches(FlattenSeq(gen_output_list), FlattenSeq(sample_index_list),
                  FlattenSeq(final_mask_list))
  BY <1>1, <1>3, FlattenMatches
<1>5. QED
  BY <1>1, <1>4, FlattenTyped

LEMMA EndSingleCollects ==
  ASSUME IInv, Collected, EndSingle
  PROVE  Collected'
<1> DEFINE rows == FlattenSeq(gen_output_list)
           index == FlattenSeq(sample_index_list)
           mask == FlattenSeq(final_mask_list)
           n == Len(ctx_length)
           answers == Row("answer")
<1>1. /\ pc = "loop" /\ is_final /\ mode = "single" /\ pc' = "returned"
      /\ result' = [rows |-> rows, masks |-> SingleMasks]
      /\ UNCHANGED <<mode, ctx_length, step, is_final, memory, final_mask_list,
                     sample_index_list, image_pixels, messages, images, gen_output,
                     gen_output_list>>
  BY DEF EndSingle, agent_vars
<1>2. /\ Samples' = Samples /\ answers' = answers
      /\ \A s : ImageOK(s)' <=> ImageOK(s)
      /\ \A all, t, s : ChunksCollected(all, t, s)' <=> ChunksCollected(all, t, s)
  BY <1>1, SameFinalRows, SameContexts DEF Samples, ImageOK
<1>3. FinalTurnOK'
  BY <1>1, <1>2 DEF Collected, FinalTurnOK
<1>4. PixelsOK' /\ RowsCollected'
  BY <1>1 DEF Collected, PixelsOK, RowsCollected, InBatch
<1>5. PICK early \in Seq(Rows) : OnlyChunks(early, Len(early)) /\ rows = early \o answers
  BY <1>1 DEF Collected, RowsCollected, InBatch, Answered
<1>6. \A s \in Samples : ChunksCollected(rows, step, s)
  BY <1>1 DEF Collected, RowsCollected, InBatch
<1>7. /\ rows \in Seq(Rows) /\ index \in Seq(Samples) /\ mask \in Seq(BOOLEAN)
      /\ TurnMatches(rows, index, mask)
  BY <1>1, RowsInStep
<1>8. /\ n \in Nat /\ Samples = 1..n
      /\ answers \in Seq(Rows) /\ Len(answers) = n
      /\ \A s \in Samples : answers[s].kind = "answer" /\ answers[s].sample = s
  <2>1. /\ n \in Nat /\ Samples = 1..n
        /\ answers \in [1..n -> Rows]
        /\ \A s \in Samples : answers[s].kind = "answer" /\ answers[s].sample = s
    BY <1>1, FinalRowTypes
  <2> HIDE DEF answers, n
  <2>2. QED
    BY <2>1, FunctionIsSequence
<1>9. PICK a \in Nat : a = Len(early)
  BY LenProperties
<1> HIDE DEF rows, index, mask, n, answers
<1>10. /\ Len(rows) = a + n
       /\ \A k \in 1..a : rows[k] = early[k]
       /\ \A s \in 1..n : rows[a + s] = answers[s]
  <2>0. answers \in Seq(Rows)
    BY <1>8
  <2>1. /\ Len(early \o answers) = Len(early) + Len(answers)
        /\ \A k \in 1..Len(early) : (early \o answers)[k] = early[k]
        /\ \A k \in 1..Len(answers) : (early \o answers)[Len(early) + k] = answers[k]
    BY <2>0, ConcatElements
  <2>2. QED
    BY <1>5, <1>8, <1>9, <2>1
<1>11. /\ DOMAIN rows = 1..(a + n) /\ Len(index) = a + n /\ Len(mask) = a + n
       /\ \A k \in 1..(a + n) : /\ rows[k].sample = index[k]
                                /\ mask[k] <=> rows[k].kind = "answer"
  BY <1>7, <1>10, LenProperties DEF TurnMatches
<1>12. index \in [1..(a + n) -> Samples] /\ mask \in [1..(a + n) -> BOOLEAN]
       /\ DOMAIN index = 1..(a + n)
  BY <1>7, <1>11, LenProperties
<1>13. \A s \in 1..n : rows[a + s] = answers[s] /\ index[a + s] = s
  <2> SUFFICES ASSUME NEW s \in 1..n
               PROVE  rows[a + s] = answers[s] /\ index[a + s] = s
    OBVIOUS
  <2>1. a + s \in 1..(a + n)
    BY <1>8
  <2>2. QED
    BY <1>8, <1>10, <1>11, <2>1
<1>14. \A k \in 1..(a + n) : mask[k] <=> k \in (a + 1)..(a + n)
  <2> SUFFICES ASSUME NEW k \in 1..(a + n)
               PROVE  mask[k] <=> k \in (a + 1)..(a + n)
    OBVIOUS
  <2>1. CASE k \in 1..a
    <3>1. rows[k].kind = "memorize"
      BY <1>5, <1>9, <1>10, <2>1 DEF OnlyChunks
    <3>2. ~mask[k]
      BY <1>11, <3>1
    <3>3. k \notin (a + 1)..(a + n)
      BY <2>1
    <3>4. QED
      BY <3>2, <3>3
  <2>2. CASE k \notin 1..a
    <3>1. k \in (a + 1)..(a + n) /\ k - a \in 1..n /\ a + (k - a) = k
      BY <1>8, <2>2
    <3>2. PICK s \in 1..n : k = a + s
      BY <3>1
    <3>3. rows[k].kind = "answer"
      BY <1>8, <1>10, <3>2
    <3>4. QED
      BY <1>11, <3>1, <3>3
  <2>3. QED
    BY <2>1, <2>2
<1>15. BlockAt(rows, mask, index, a, answers)
  BY <1>8, <1>10, <1>12, <1>13, <1>14 DEF BlockAt, n
<1>16. ResultShape'
  <2>1. /\ result'.rows = rows /\ result'.masks.final = mask
        /\ result'.masks.sample_index = index
    BY <1>1 DEF SingleMasks, mask, index
  <2>2. \A all, set, idx, b, final :
          BlockAt(all, set, idx, b, final)' <=> BlockAt(all, set, idx, b, final)
    BY <1>1, <1>2 DEF BlockAt
  <2>3. PICK res, ans : res = result' /\ ans = Row("answer")'
    OBVIOUS
  <2>4. BlockAt(res.rows, res.masks.final, res.masks.sample_index, a, ans)'
    BY <1>2, <1>15, <2>1, <2>2, <2>3 DEF answers
  <2>5. \A s \in Samples' : ChunksCollected(res.rows, step, s)'
    BY <1>1, <1>2, <1>6, <2>1, <2>3
  <2>6. res.rows \in Seq(Rows) /\ DOMAIN res.masks.sample_index = 1..Len(res.rows)
    BY <1>7, <1>10, <1>12, <2>1, <2>3
  <2>7. QED
    BY <1>1, <2>3, <2>4, <2>5, <2>6 DEF ResultShape
<1>17. QED
  BY <1>3, <1>4, <1>16 DEF Collected

(* In triple mode the masks of the three objectives agree up to the final  *)
(* turn, and from there on each marks its own third.                       *)
LEMMA TripleMasksExpand ==
  ASSUME IInv, FinalTurnOK, pc = "generate_gap_fill"
  PROVE  \E m0 \in Seq(BOOLEAN), i0 \in Seq(Samples) :
           LET idx == [s \in Samples |-> s]
           IN  /\ FlattenSeq(final_mask_list) = m0 \o All(TRUE)
               /\ FlattenSeq(sample_index_list) = i0 \o idx
               /\ masks.final = ((m0 \o All(TRUE)) \o All(TRUE)) \o All(TRUE)
               /\ masks.vanilla = ((m0 \o All(TRUE)) \o All(FALSE)) \o All(FALSE)
               /\ masks.subsampled = ((m0 \o All(FALSE)) \o All(TRUE)) \o All(FALSE)
               /\ masks.gap_fill = ((m0 \o All(FALSE)) \o All(FALSE)) \o All(TRUE)
               /\ masks.sample_index = ((i0 \o idx) \o idx) \o idx
               /\ \A b \in BOOLEAN : All(b) \in Seq(BOOLEAN) /\ Len(All(b)) = Len(ctx_length)
               /\ idx \in Seq(Samples) /\ Len(idx) = Len(ctx_length)
<1> DEFINE idx == [s \in Samples |-> s]
           n == Len(ctx_length)
<1>1. /\ is_final /\ masks = TripleMasks
      /\ Len(sample_index_list) > 0
      /\ sample_index_list[Len(sample_index_list)] = idx
      /\ final_mask_list[Len(sample_index_list)] = [s \in Samples |-> TRUE]
  BY DEF IInv, FinalTurn, FinalTurnOK
<1>2. /\ final_mask_list \in Seq(Seq(BOOLEAN)) /\ sample_index_list \in Seq(Seq(Samples))
      /\ Len(final_mask_list) = Len(sample_index_list)
  BY DEF IInv, TypeOK, RowsMatchIndex
<1>3. n \in Nat /\ Samples = 1..n
  BY SamplesInterval DEF IInv
<1>4. /\ \A b \in BOOLEAN : All(b) \in Seq(BOOLEAN) /\ Len(All(b)) = n
      /\ idx \in Seq(Samples) /\ Len(idx) = n
  <2>1. \A b \in BOOLEAN : All(b) \in [1..n -> BOOLEAN]
    BY <1>3 DEF All
  <2>2. idx \in [1..n -> Samples]
    BY <1>3
  <2> HIDE DEF idx, n
  <2>3. \A b \in BOOLEAN : All(b) \in Seq(BOOLEAN) /\ Len(All(b)) = n
    BY <1>3, <2>1, FunctionIsSequence
  <2>4. idx \in Seq(Samples) /\ Len(idx) = n
    BY <1>3, <2>2, FunctionIsSequence
  <2>5. QED
    BY <2>3, <2>4
<1> HIDE DEF idx, n
<1> DEFINE T == All(TRUE)
           F == All(FALSE)
           front == Front(final_mask_list)
           m0 == FlattenSeq(front)
           i0 == FlattenSeq(Front(sample_index_list))
<1>5. T \in Seq(BOOLEAN) /\ F \in Seq(BOOLEAN)
  BY <1>4
<1>6. /\ front \in Seq(Seq(BOOLEAN)) /\ Last(final_mask_list) = T
      /\ FlattenSeq(final_mask_list) = m0 \o T
  <2>1. /\ front \in Seq(Seq(BOOLEAN))
        /\ Last(final_mask_list) = final_mask_list[Len(final_mask_list)]
        /\ FlattenSeq(final_mask_list) = m0 \o Last(final_mask_list)
    BY <1>1, <1>2, FlattenFront
  <2>2. final_mask_list[Len(final_mask_list)] = T
    BY <1>1, <1>2 DEF All
  <2>3. QED
    BY <2>1, <2>2
<1>7. /\ Last(sample_index_list) = idx
      /\ FlattenSeq(sample_index_list) = i0 \o idx
      /\ i0 \in Seq(Samples)
  <2>1. /\ Front(sample_index_list) \in Seq(Seq(Samples))
        /\ Last(sample_index_list) = sample_index_list[Len(sample_index_list)]
        /\ FlattenSeq(sample_index_list) = i0 \o Last(sample_index_list)
    BY <1>1, <1>2, FlattenFront
  <2>2. QED
    BY <1>1, <2>1, FlattenTyped
<1>8. m0 \in Seq(BOOLEAN)
  BY <1>6, FlattenTyped
<1> DEFINE L == final_mask_list
           X == sample_index_list
           B == BOOLEAN
<1>9. /\ masks.final = FlattenSeq(L \o <<T, T>>)
      /\ masks.vanilla = FlattenSeq(L \o <<F, F>>)
      /\ masks.subsampled = FlattenSeq(front \o <<F, T, F>>)
      /\ masks.gap_fill = FlattenSeq(front \o <<F, F, T>>)
      /\ masks.sample_index = FlattenSeq(X \o <<idx, idx>>)
  BY <1>1, <1>7 DEF TripleMasks
<1> HIDE DEF T, F, front, m0, i0, L, X, B
<1>10. masks.final = ((m0 \o T) \o T) \o T
  <2>1. L \in Seq(Seq(B)) /\ T \in Seq(B)
    BY <1>2, <1>5 DEF L, B
  <2>2. FlattenSeq(L \o <<T, T>>) = (FlattenSeq(L) \o T) \o T
    BY <2>1, FlattenTwoMore
  <2>3. QED
    BY <1>6, <1>9, <2>2 DEF L
<1>11. masks.vanilla = ((m0 \o T) \o F) \o F
  <2>1. L \in Seq(Seq(B)) /\ F \in Seq(B)
    BY <1>2, <1>5 DEF L, B
  <2>2. FlattenSeq(L \o <<F, F>>) = (FlattenSeq(L) \o F) \o F
    BY <2>1, FlattenTwoMore
  <2>3. QED
    BY <1>6, <1>9, <2>2 DEF L
<1>12. masks.subsampled = ((m0 \o F) \o T) \o F
  <2>1. front \in Seq(Seq(B)) /\ T \in Seq(B) /\ F \in Seq(B)
    BY <1>5, <1>6 DEF B
  <2>2. FlattenSeq(front \o <<F, T, F>>) = ((FlattenSeq(front) \o F) \o T) \o F
    BY <2>1, FlattenThreeMore
  <2>3. QED
    BY <1>9, <2>2 DEF m0
<1>13. masks.gap_fill = ((m0 \o F) \o F) \o T
  <2>1. front \in Seq(Seq(B)) /\ T \in Seq(B) /\ F \in Seq(B)
    BY <1>5, <1>6 DEF B
  <2>2. FlattenSeq(front \o <<F, F, T>>) = ((FlattenSeq(front) \o F) \o F) \o T
    BY <2>1, FlattenThreeMore
  <2>3. QED
    BY <1>9, <2>2 DEF m0
<1>14. masks.sample_index = ((i0 \o idx) \o idx) \o idx
  <2>1. FlattenSeq(X \o <<idx, idx>>) = (FlattenSeq(X) \o idx) \o idx
    BY <1>2, <1>4, FlattenTwoMore DEF X
  <2>2. QED
    BY <1>7, <1>9, <2>1 DEF X
<1>15. QED
  BY <1>4, <1>6, <1>7, <1>8, <1>10, <1>11, <1>12, <1>13, <1>14 DEF T, F, idx, n

(* A mask that is clear up to the final turn marks the thirds of the final *)
(* rows that are set in it.                                                *)
NoneSet(mask) == \A k \in DOMAIN mask : ~mask[k]
AllSet(mask)  == \A k \in DOMAIN mask : mask[k]

InThird(k, a, n) == \E s \in 1..n : k = a + s \/ k = a + n + s \/ k = a + n + n + s

LEMMA PlaceInThird ==
  ASSUME NEW a \in Nat, NEW n \in Nat, NEW k \in 1..(a + n + n + n), k \notin 1..a
  PROVE  InThird(k, a, n)
<1> USE DEF InThird
<1>1. CASE k <= a + n
  <2>1. k - a \in 1..n /\ k = a + (k - a)
    BY <1>1
  <2>2. QED
    BY <2>1
<1>2. CASE k > a + n /\ k <= a + n + n
  <2>1. k - (a + n) \in 1..n /\ k = a + n + (k - (a + n))
    BY <1>2
  <2>2. QED
    BY <2>1
<1>3. CASE k > a + n + n
  <2>1. k - (a + n + n) \in 1..n /\ k = a + n + n + (k - (a + n + n))
    BY <1>3
  <2>2. QED
    BY <2>1
<1>4. QED
  BY <1>1, <1>2, <1>3

MarksThirds(m, m0, x, y, z) ==
  LET a == Len(m0)
      n == Len(x)
  IN  /\ m \in [1..(a + n + n + n) -> BOOLEAN]
      /\ \A k \in 1..(a + n + n + n) :
           m[k] <=> \/ AllSet(x) /\ k \in (a + 1)..(a + n)
                    \/ AllSet(y) /\ k \in (a + n + 1)..(a + n + n)
                    \/ AllSet(z) /\ k \in (a + n + n + 1)..(a + n + n + n)

LEMMA MaskOfThirds ==
  ASSUME NEW m0 \in Seq(BOOLEAN), NoneSet(m0),
         NEW x \in Seq(BOOLEAN), NEW y \in Seq(BOOLEAN), NEW z \in Seq(BOOLEAN),
         Len(y) = Len(x), Len(z) = Len(x),
         AllSet(x) \/ NoneSet(x), AllSet(y) \/ NoneSet(y), AllSet(z) \/ NoneSet(z),
         NEW m, m = ((m0 \o x) \o y) \o z
  PROVE  MarksThirds(m, m0, x, y, z)
<1>0. PICK a \in Nat, n \in Nat : a = Len(m0) /\ n = Len(x) /\ n = Len(y) /\ n = Len(z)
  BY LenProperties
<1>1. /\ m \in Seq(BOOLEAN) /\ Len(m) = a + n + n + n
      /\ \A k \in 1..a : m[k] = m0[k]
      /\ \A k \in 1..n : m[a + k] = x[k] /\ m[a + n + k] = y[k] /\ m[a + n + n + k] = z[k]
  <2>1. m \in Seq(BOOLEAN) /\ InBlocks(m, m0, x, y, z)
    BY FourBlocks
  <2>2. QED
    BY <1>0, <2>1 DEF InBlocks
<1>2. m \in [1..(a + n + n + n) -> BOOLEAN]
  BY <1>1, LenProperties
<1>3. /\ \A k \in 1..a : m[k] = FALSE
      /\ \A k \in 1..n : /\ m[a + k] <=> AllSet(x)
                         /\ m[a + n + k] <=> AllSet(y)
                         /\ m[a + n + n + k] <=> AllSet(z)
  <2>1. DOMAIN m0 = 1..a /\ DOMAIN x = 1..n /\ DOMAIN y = 1..n /\ DOMAIN z = 1..n
    BY <1>0, LenProperties
  <2>2. \A k \in 1..a : m0[k] = FALSE
    <3>1. \A k \in 1..a : m0[k] \in BOOLEAN
      BY <2>1, ElementOfSeq
    <3>2. \A k \in 1..a : ~m0[k]
      BY <2>1 DEF NoneSet
    <3>3. QED
      BY <3>1, <3>2, Zenon
  <2>3. \A k \in 1..a : m[k] = FALSE
    BY <1>1, <2>2
  <2>4. \A k \in 1..n : /\ m[a + k] <=> AllSet(x)
                        /\ m[a + n + k] <=> AllSet(y)
                        /\ m[a + n + n + k] <=> AllSet(z)
    <3>1. \A k \in 1..n : (x[k] <=> AllSet(x)) /\ (y[k] <=> AllSet(y)) /\ (z[k] <=> AllSet(z))
      BY <2>1 DEF AllSet, NoneSet
    <3>2. QED
      BY <1>1, <3>1
  <2>5. QED
    BY <2>3, <2>4
<1>4. ASSUME NEW k \in 1..(a + n + n + n)
      PROVE  m[k] <=> \/ AllSet(x) /\ k \in (a + 1)..(a + n)
                      \/ AllSet(y) /\ k \in (a + n + 1)..(a + n + n)
                      \/ AllSet(z) /\ k \in (a + n + n + 1)..(a + n + n + n)
  <2>1. CASE k \in 1..a
    <3>1. /\ k \notin (a + 1)..(a + n) /\ k \notin (a + n + 1)..(a + n + n)
          /\ k \notin (a + n + n + 1)..(a + n + n + n)
      BY <2>1
    <3>2. QED
      BY <1>3, <2>1, <3>1
  <2>2. CASE k \notin 1..a
    <3>1. PICK s \in 1..n : k = a + s \/ k = a + n + s \/ k = a + n + n + s
      <4>1. InThird(k, a, n)
        BY <2>2, PlaceInThird
      <4>2. QED
        BY <4>1 DEF InThird
    <3>2. CASE k = a + s
      <4>1. /\ k \in (a + 1)..(a + n) /\ k \notin (a + n + 1)..(a + n + n)
            /\ k \notin (a + n + n + 1)..(a + n + n + n)
        BY <3>2
      <4>2. QED
        BY <1>3, <3>2, <4>1
    <3>3. CASE k = a + n + s
      <4>1. /\ k \notin (a + 1)..(a + n) /\ k \in (a + n + 1)..(a + n + n)
            /\ k \notin (a + n + n + 1)..(a + n + n + n)
        BY <3>3
      <4>2. QED
        BY <1>3, <3>3, <4>1
    <3>4. CASE k = a + n + n + s
      <4>1. /\ k \notin (a + 1)..(a + n) /\ k \notin (a + n + 1)..(a + n + n)
            /\ k \in (a + n + n + 1)..(a + n + n + n)
        BY <3>4
      <4>2. QED
        BY <1>3, <3>4, <4>1
    <3>5. QED
      BY <3>1, <3>2, <3>3, <3>4
  <2>3. QED
    BY <2>1, <2>2
<1>5. QED
  BY <1>0, <1>2, <1>4 DEF MarksThirds

LEMMA GenerateGapFillCollects ==
  ASSUME IInv, Collected, GenerateGapFill
  PROVE  Collected'
<1> DEFINE rows == FlattenSeq(gen_output_list \o <<gen_output, Respond(messages)>>)
           index == masks.sample_index
           n == Len(ctx_length)
           answers == Row("answer")
           small == SmallRow
           gaps == Row("gap_fill")
           idx == [s \in Samples |-> s]
           T == All(TRUE)
           F == All(FALSE)
<1>1. /\ pc = "generate_gap_fill" /\ pc' = "returned" /\ is_final
      /\ result' = [rows |-> rows, masks |-> masks, gap_fill_answers |-> memory]
      /\ UNCHANGED <<mode, ctx_length, step, is_final, memory, final_mask_list,
                     sample_index_list, image_pixels, messages, images, gen_output,
                     masks>>
  BY DEF GenerateGapFill, agent_vars, IInv, FinalTurn
<1>2. mode = "triple" /\ gen_output = small /\ Respond(messages) = gaps
  <2>1. mode = "triple" /\ gen_output = small /\ messages = gaps
    BY <1>1 DEF Collected, FinalTurnOK
  <2>2. Respond(gaps) = gaps
    BY DEF Respond, Row
  <2>3. QED
    BY <2>1, <2>2
<1>3. /\ Samples' = Samples
      /\ answers' = answers /\ small' = small /\ gaps' = gaps
      /\ \A s : ImageOK(s)' <=> ImageOK(s)
      /\ \A all, t, s : ChunksCollected(all, t, s)' <=> ChunksCollected(all, t, s)
  BY <1>1, SameFinalRows, SameContexts DEF Samples, ImageOK
<1>4. FinalTurnOK' /\ PixelsOK' /\ RowsCollected'
  BY <1>1, <1>3 DEF Collected, FinalTurnOK, PixelsOK, RowsCollected, InBatch
<1>5. PICK early \in Seq(Rows) : /\ OnlyChunks(early, Len(early))
                                 /\ FlattenSeq(gen_output_list) = early \o answers
  BY <1>1 DEF Collected, RowsCollected, InBatch, Answered
<1>6. PICK m0 \in Seq(BOOLEAN), i0 \in Seq(Samples) :
        /\ FlattenSeq(final_mask_list) = m0 \o T
        /\ FlattenSeq(sample_index_list) = i0 \o idx
        /\ masks.final = ((m0 \o T) \o T) \o T
        /\ masks.vanilla = ((m0 \o T) \o F) \o F
        /\ masks.subsampled = ((m0 \o F) \o T) \o F
        /\ masks.gap_fill = ((m0 \o F) \o F) \o T
        /\ index = ((i0 \o idx) \o idx) \o idx
        /\ T \in Seq(BOOLEAN) /\ Len(T) = n /\ F \in Seq(BOOLEAN) /\ Len(F) = n
        /\ idx \in Seq(Samples) /\ Len(idx) = n
  BY <1>1, TripleMasksExpand DEF Collected
<1>7. \A s \in Samples : ChunksCollected(FlattenSeq(gen_output_list), step, s)
  BY <1>1 DEF Collected, RowsCollected, InBatch
<1>8. /\ n \in Nat /\ Samples = 1..n
      /\ answers \in Seq(Rows) /\ Len(answers) = n /\ DOMAIN answers = 1..n
      /\ small \in Seq(Rows) /\ Len(small) = n /\ DOMAIN small = 1..n
      /\ gaps \in Seq(Rows) /\ Len(gaps) = n /\ DOMAIN gaps = 1..n
      /\ \A s \in 1..n : /\ answers[s].kind = "answer" /\ small[s].kind = "subsampled"
                         /\ gaps[s].kind = "gap_fill"
  <2>1. /\ n \in Nat /\ Samples = 1..n
        /\ answers \in [1..n -> Rows] /\ small \in [1..n -> Rows] /\ gaps \in [1..n -> Rows]
        /\ \A s \in Samples : /\ answers[s].kind = "answer" /\ small[s].kind = "subsampled"
                              /\ gaps[s].kind = "gap_fill"
    BY <1>1, FinalRowTypes
  <2> HIDE DEF answers, small, gaps, n
  <2>2. QED
    BY <2>1, FunctionIsSequence
<1>9. /\ T \in Seq(BOOLEAN) /\ AllSet(T) /\ Len(T) = n
      /\ F \in Seq(BOOLEAN) /\ NoneSet(F) /\ Len(F) = n
      /\ n > 0 => ~AllSet(F)
      /\ \A s \in 1..n : idx[s] = s
  <2>1. /\ AllSet(T) /\ NoneSet(F)
        /\ n > 0 => ~AllSet(F)
    BY <1>8 DEF AllSet, NoneSet, All
  <2>2. QED
    BY <1>6, <1>8, <2>1
<1>10. /\ FlattenSeq(gen_output_list) \in Seq(Rows)
       /\ TurnMatches(FlattenSeq(gen_output_list), i0 \o idx, m0 \o T)
  BY <1>1, <1>6, RowsInStep
<1>11. gen_output_list \in Seq(Seq(Rows))
  BY DEF IInv, TypeOK
<1> HIDE DEF n, answers, small, gaps, idx, T, F
<1>12. rows = ((early \o answers) \o small) \o gaps
  <2>1. FlattenSeq(gen_output_list \o <<small, gaps>>)
          = (FlattenSeq(gen_output_list) \o small) \o gaps
    BY <1>8, <1>11, FlattenTwoMore
  <2>2. QED
    BY <1>2, <1>5, <2>1
<1> HIDE DEF rows, index
<1>13. PICK a \in Nat : a = Len(early)
  BY LenProperties
<1>14. /\ rows \in Seq(Rows) /\ Len(rows) = a + n + n + n
       /\ \A k \in 1..n : /\ rows[a + k] = answers[k]
                          /\ rows[a + n + k] = small[k]
                          /\ rows[a + n + n + k] = gaps[k]
  <2>1. rows \in Seq(Rows) /\ InBlocks(rows, early, answers, small, gaps)
    BY <1>8, <1>12, FourBlocks
  <2>2. QED
    BY <1>8, <1>13, <2>1 DEF InBlocks
<1>15. Len(m0) = a /\ Len(i0) = a /\ NoneSet(m0)
  <2>1. /\ Len(early \o answers) = a + n
        /\ \A k \in 1..a : (early \o answers)[k] = early[k]
    <3>1. Len(early \o answers) = Len(early) + Len(answers)
      BY <1>8, ConcatElements
    <3>2. \A k \in 1..Len(early) : (early \o answers)[k] = early[k]
      BY <1>8, ConcatElements
    <3>3. QED
      BY <1>8, <1>13, <3>1, <3>2
  <2>2. Len(i0 \o idx) = Len(i0) + n /\ Len(i0) \in Nat
    <3>1. Len(i0 \o idx) = Len(i0) + Len(idx)
      BY <1>6, ConcatElements
    <3>2. QED
      BY <1>6, <3>1, LenProperties
  <2>3. /\ Len(m0 \o T) = Len(m0) + n /\ Len(m0) \in Nat
        /\ \A k \in 1..Len(m0) : (m0 \o T)[k] = m0[k]
    <3>1. Len(m0 \o T) = Len(m0) + Len(T)
      BY <1>9, ConcatElements
    <3>2. \A k \in 1..Len(m0) : (m0 \o T)[k] = m0[k]
      BY <1>9, ConcatElements
    <3>3. QED
      BY <1>9, <3>1, <3>2, LenProperties
  <2>4. /\ Len(i0 \o idx) = a + n /\ Len(m0 \o T) = a + n
        /\ \A k \in DOMAIN (early \o answers) :
             (m0 \o T)[k] <=> (early \o answers)[k].kind = "answer"
    BY <1>5, <1>10, <2>1 DEF TurnMatches
  <2>5. DOMAIN (early \o answers) = 1..(a + n)
    BY <1>5, <1>10, <2>1, LenProperties
  <2>6. Len(m0) = a /\ Len(i0) = a
    <3>1. n \in Nat /\ a \in Nat
      BY <1>8
    <3>2. /\ Len(i0 \o idx) = Len(i0) + n /\ Len(i0) \in Nat /\ Len(i0 \o idx) = a + n
          /\ Len(m0 \o T) = Len(m0) + n /\ Len(m0) \in Nat
          /\ Len(m0 \o T) = a + n
      BY <2>2, <2>3, <2>4
    <3>3. QED
      BY <3>1, <3>2
  <2>7. ASSUME NEW k \in DOMAIN m0
        PROVE  ~m0[k]
    <3>1. k \in 1..a /\ k \in 1..(a + n)
      BY <1>8, <2>6, LenProperties
    <3>2. (early \o answers)[k].kind = "memorize"
      BY <1>5, <1>13, <2>1, <3>1 DEF OnlyChunks
    <3>3. ~(m0 \o T)[k]
      BY <2>4, <2>5, <3>1, <3>2
    <3>4. (m0 \o T)[k] = m0[k]
      BY <2>3, <2>6, <3>1
    <3>5. QED
      BY <3>3, <3>4
  <2>8. QED
    BY <2>6, <2>7 DEF NoneSet
<1>16. /\ DOMAIN index = 1..(a + n + n + n)
       /\ \A k \in 1..n : /\ index[a + k] = k /\ index[a + n + k] = k
                          /\ index[a + n + n + k] = k
  <2>1. /\ index \in Seq(Samples) /\ Len(index) = a + n + n + n
        /\ \A k \in 1..n : /\ index[a + k] = idx[k]
                           /\ index[a + n + k] = idx[k]
                           /\ index[a + n + n + k] = idx[k]
    <3>1. index \in Seq(Samples) /\ InBlocks(index, i0, idx, idx, idx)
      BY <1>6, FourBlocks
    <3>2. QED
      BY <1>6, <1>15, <3>1 DEF InBlocks
  <2>2. QED
    BY <1>9, <2>1, LenProperties
<1>17. /\ masks.vanilla \in [1..(a + n + n + n) -> BOOLEAN]
       /\ \A k \in 1..(a + n + n + n) :
            masks.vanilla[k] <=> k \in (a + 1)..(a + n)
  <2>1. MarksThirds(masks.vanilla, m0, T, F, F)
    BY <1>6, <1>9, <1>15, MaskOfThirds
  <2>2. /\ masks.vanilla \in [1..(a + n + n + n) -> BOOLEAN]
        /\ \A k \in 1..(a + n + n + n) :
             masks.vanilla[k] <=> \/ AllSet(T) /\ k \in (a + 1)..(a + n)
                                  \/ AllSet(F) /\ k \in (a + n + 1)..(a + n + n)
                                  \/ AllSet(F) /\ k \in (a + n + n + 1)..(a + n + n + n)
    BY <1>8, <1>9, <1>15, <2>1 DEF MarksThirds
  <2>3. AllSet(F) => \A k \in 1..(a + n + n + n) :
                       k \notin (a + n + 1)..(a + n + n) /\ k \notin (a + n + n + 1)..(a + n + n + n)
    BY <1>8, <1>9
  <2>4. QED
    BY <1>9, <2>2, <2>3
<1>18. /\ masks.subsampled \in [1..(a + n + n + n) -> BOOLEAN]
       /\ \A k \in 1..(a + n + n + n) :
            masks.subsampled[k] <=> k \in (a + n + 1)..(a + n + n)
  <2>1. MarksThirds(masks.subsampled, m0, F, T, F)
    BY <1>6, <1>9, <1>15, MaskOfThirds
  <2>2. /\ masks.subsampled \in [1..(a + n + n + n) -> BOOLEAN]
        /\ \A k \in 1..(a + n + n + n) :
             masks.subsampled[k] <=> \/ AllSet(F) /\ k \in (a + 1)..(a + n)
                                     \/ AllSet(T) /\ k \in (a + n + 1)..(a + n + n)
                                     \/ AllSet(F) /\ k \in (a + n + n + 1)..(a + n + n + n)
    BY <1>8, <1>9, <1>15, <2>1 DEF MarksThirds
  <2>3. AllSet(F) => \A k \in 1..(a + n + n + n) :
                       k \notin (a + 1)..(a + n) /\ k \notin (a + n + n + 1)..(a + n + n + n)
    BY <1>8, <1>9
  <2>4. QED
    BY <1>9, <2>2, <2>3
<1>19. /\ masks.gap_fill \in [1..(a + n + n + n) -> BOOLEAN]
       /\ \A k \in 1..(a + n + n + n) :
            masks.gap_fill[k] <=> k \in (a + n + n + 1)..(a + n + n + n)
  <2>1. MarksThirds(masks.gap_fill, m0, F, F, T)
    BY <1>6, <1>9, <1>15, MaskOfThirds
  <2>2. /\ masks.gap_fill \in [1..(a + n + n + n) -> BOOLEAN]
        /\ \A k \in 1..(a + n + n + n) :
             masks.gap_fill[k] <=> \/ AllSet(F) /\ k \in (a + 1)..(a + n)
                                   \/ AllSet(F) /\ k \in (a + n + 1)..(a + n + n)
                                   \/ AllSet(T) /\ k \in (a + n + n + 1)..(a + n + n + n)
    BY <1>8, <1>9, <1>15, <2>1 DEF MarksThirds
  <2>3. AllSet(F) => \A k \in 1..(a + n + n + n) :
                       k \notin (a + 1)..(a + n) /\ k \notin (a + n + 1)..(a + n + n)
    BY <1>8, <1>9
  <2>4. QED
    BY <1>9, <2>2, <2>3
<1>20. \A k \in 1..(a + n + n + n) : masks.final[k] <=> k > a
  <2>1. MarksThirds(masks.final, m0, T, T, T)
    BY <1>6, <1>9, <1>15, MaskOfThirds
  <2>2. \A k \in 1..(a + n + n + n) :
          k > a <=> \/ k \in (a + 1)..(a + n)
                    \/ k \in (a + n + 1)..(a + n + n)
                    \/ k \in (a + n + n + 1)..(a + n + n + n)
    BY <1>8
  <2>3. QED
    BY <1>8, <1>9, <1>15, <2>1, <2>2 DEF MarksThirds
<1>21. /\ BlockAt(rows, masks.vanilla, index, a, answers)
       /\ BlockAt(rows, masks.subsampled, index, a + n, small)
       /\ BlockAt(rows, masks.gap_fill, index, a + n + n, gaps)
  <2>1. BlockAt(rows, masks.vanilla, index, a, answers)
    BY <1>8, <1>14, <1>16, <1>17 DEF BlockAt, n
  <2>2. BlockAt(rows, masks.subsampled, index, a + n, small)
    BY <1>8, <1>14, <1>16, <1>18 DEF BlockAt, n
  <2>3. BlockAt(rows, masks.gap_fill, index, a + n + n, gaps)
    BY <1>8, <1>14, <1>16, <1>19 DEF BlockAt, n
  <2>4. QED
    BY <2>1, <2>2, <2>3
<1>22. \A s \in Samples : ChunksCollected(rows, step, s)
  <2> SUFFICES ASSUME NEW s \in Samples PROVE ChunksCollected(rows, step, s)
    OBVIOUS
  <2>1. early \o answers \in Seq(Rows) /\ (early \o answers) \o small \in Seq(Rows)
    BY <1>8, ConcatElements
  <2>2. ChunkRowsOf(small, s) = {} /\ ChunkRowsOf(gaps, s) = {}
    BY <1>8 DEF ChunkRowsOf
  <2>3. ChunksCollected(early \o answers, step, s)
    BY <1>5, <1>7
  <2>4. ChunksCollected((early \o answers) \o small, step, s)
    BY <1>8, <2>1, <2>2, <2>3, TurnAdds
  <2>5. QED
    BY <1>8, <1>12, <2>1, <2>2, <2>4, TurnAdds
<1>23. ResultShape'
  <2>1. /\ result'.rows = rows /\ result'.masks = masks
        /\ result'.masks.sample_index = index
        /\ result'.gap_fill_answers = memory
    BY <1>1 DEF index
  <2>2. \A all, set, x, b, final :
          BlockAt(all, set, x, b, final)' <=> BlockAt(all, set, x, b, final)
    BY <1>1, <1>3 DEF BlockAt
  <2>3. PICK res, one, two, three : /\ res = result' /\ one = Row("answer")'
                                    /\ two = SmallRow' /\ three = Row("gap_fill")'
    OBVIOUS
  <2>4. one = answers /\ two = small /\ three = gaps
    BY <1>3, <2>3 DEF answers, small, gaps
  <2>5. n = Len(ctx_length) /\ n' = n
    BY <1>1 DEF n
  <2>6. /\ BlockAt(res.rows, res.masks.vanilla, res.masks.sample_index, a, one)'
        /\ BlockAt(res.rows, res.masks.subsampled, res.masks.sample_index, a + n, two)'
        /\ BlockAt(res.rows, res.masks.gap_fill, res.masks.sample_index, a + n + n, three)'
    <3>1. BlockAt(res.rows, res.masks.vanilla, res.masks.sample_index, a, one)'
      BY <1>21, <2>1, <2>2, <2>3, <2>4
    <3>2. BlockAt(res.rows, res.masks.subsampled, res.masks.sample_index, a + n, two)'
      BY <1>21, <2>1, <2>2, <2>3, <2>4, <2>5
    <3>3. BlockAt(res.rows, res.masks.gap_fill, res.masks.sample_index, a + n + n, three)'
      BY <1>21, <2>1, <2>2, <2>3, <2>4, <2>5
    <3>4. QED
      BY <3>1, <3>2, <3>3
  <2>7. \A s \in Samples' : ChunksCollected(res.rows, step, s)'
    BY <1>1, <1>3, <1>22, <2>1, <2>3
  <2>8. /\ res.rows \in Seq(Rows) /\ DOMAIN res.masks.sample_index = 1..Len(res.rows)
        /\ Len(res.rows) = a + n + n + n
        /\ \A k \in 1..Len(res.rows) : res.masks.final[k] <=> k > a
        /\ res.gap_fill_answers = memory
    BY <1>14, <1>16, <1>20, <2>1, <2>3
  <2>9. QED
    BY <1>1, <1>2, <2>3, <2>6, <2>7, <2>8, <2>5 DEF ResultShape
<1>24. QED
  BY <1>4, <1>23 DEF Collected

LEMMA CollectedStep ==
  ASSUME IInv, RowKinds, Collected, [Next]_vars
  PROVE  Collected'
<1>1. ASSUME NEW n \in 1..MaxBatchSize, NEW lengths \in [1..n -> 0..MaxPromptLength],
             NEW m \in {"single", "triple"}, Start(m, lengths)
      PROVE  Collected'
  BY <1>1, StartCollects
<1>2. CASE ActionChunk
  BY <1>2, ActionChunkCollects
<1>3. CASE ActionFinal
  BY <1>3, ActionFinalCollects
<1>4. CASE Generate
  BY <1>4, GenerateCollects
<1>5. CASE Update
  BY <1>5, UpdateCollects
<1>6. CASE EndSingle
  BY <1>6, EndSingleCollects
<1>7. CASE EndTriple
  BY <1>7, EndTripleCollects
<1>8. CASE GenerateSubsampled
  BY <1>8, GenerateSubsampledCollects
<1>9. CASE GenerateGapFill
  BY <1>9, GenerateGapFillCollects
<1>10. CASE RenderFails \/ GenerateFails
  BY <1>10, FailureCollects
<1>11. CASE Restart
  BY <1>11, RestartCollects
<1>12. CASE UNCHANGED vars
  BY <1>12, StutterCollects
<1>13. QED
  BY <1>1, <1>2, <1>3, <1>4, <1>5, <1>6, <1>7, <1>8, <1>9, <1>10, <1>11, <1>12
     DEF Next, Drive
----------------------------------------------------------------------------
(* What final_batch cuts out of the rows is the block its mask marks.      *)
LEMMA BlockSelected ==
  ASSUME NEW rows \in Seq(Rows), NEW mask, NEW index, NEW a, NEW final,
         Len(ctx_length) \in Nat, Samples = 1..Len(ctx_length),
         DOMAIN index = 1..Len(rows), BlockAt(rows, mask, index, a, final)
  PROVE  FinalBatch(rows, mask, index) = [s \in Samples |-> final[s]]
<1> DEFINE n == Len(ctx_length)
<1>1. /\ n \in Nat /\ a \in Nat /\ a + n <= Len(rows) /\ Len(rows) \in Nat
      /\ mask \in [1..Len(rows) -> BOOLEAN]
      /\ \A k \in 1..Len(rows) : mask[k] <=> k \in (a + 1)..(a + n)
      /\ \A s \in 1..n : rows[a + s] = final[s] /\ index[a + s] = s
      /\ Samples = 1..n
  BY LenProperties DEF BlockAt
<1> HIDE DEF n
<1>2. SetPlaces(mask) = [i \in 1..n |-> a + i]
  <2>1. PICK size \in Nat : size = Len(rows)
    BY <1>1
  <2>2. /\ mask \in [1..size -> BOOLEAN] /\ a \in Nat /\ a + n <= size
        /\ Dispatch!MarksBlock(mask, a, n)
    BY <1>1, <2>1 DEF Dispatch!MarksBlock
  <2>3. QED
    BY <1>1, <2>2, PlacesOfBlock
<1>3. SelectRows(rows, mask) = [i \in 1..n |-> final[i]]
  BY <1>1, <1>2 DEF SelectRows, TakeRows
<1>4. SelectRows(index, mask) = [i \in 1..n |-> i]
  BY <1>1, <1>2 DEF SelectRows, TakeRows
<1>5. ReverseIndices(SelectRows(index, mask)) = [i \in 1..n |-> i]
  BY <1>1, <1>4, ReverseOfOrdered
<1>6. QED
  BY <1>1, <1>3, <1>5 DEF FinalBatch, TakeRows

(* In the end every memory is of the whole context.                        *)
LEMMA WholeMemory ==
  ASSUME IInv, is_final, pc # "failed", NEW s \in Samples
  PROVE  memory[s] = Context(s)
<1>1. TypeOK /\ MemoryIsReadPrefix /\ FinalTurn
  BY DEF IInv
<1>2. ctx_length[s] \in Nat /\ Context(s) \in Seq(Tokens) /\ Len(Context(s)) = ctx_length[s]
  BY <1>1, ContextType
<1>3. step \in Nat /\ ctx_length[s] <= ChunkSize * step
  BY <1>1 DEF FinalTurn, TypeOK
<1>4. ChunkSize * step \in Nat
  BY <1>3, ChunkBoundary
<1>5. Smaller(ChunkSize * step, ctx_length[s]) = ctx_length[s]
  BY <1>2, <1>3, <1>4 DEF Smaller
<1>6. memory[s] = SubSeq(Context(s), 1, ctx_length[s])
  BY <1>1, <1>5 DEF MemoryIsReadPrefix, ReadAfter
<1>7. SubSeq(Context(s), 1, ctx_length[s]) = Context(s)
  <2>1. \A k \in 1..ctx_length[s] : Context(s)[k] \in Tokens
    BY <1>2, ElementOfSeq, LenProperties
  <2>2. /\ SubSeq(Context(s), 1, ctx_length[s]) \in Seq(Tokens)
        /\ Len(SubSeq(Context(s), 1, ctx_length[s])) = ctx_length[s]
        /\ \A k \in 1..ctx_length[s] : SubSeq(Context(s), 1, ctx_length[s])[k] = Context(s)[k]
    BY <1>2, <2>1, SubSeqProperties
  <2>3. QED
    BY <1>2, <2>2, SeqEqual
<1>8. QED
  BY <1>6, <1>7

(* The rows of the final turns are what an objective asks for.             *)
Expected(kind, scale) ==
  [s \in Samples |->
     [sample |-> s, kind |-> kind,
      seen   |-> IF images[s].scale = "none" THEN <<>> ELSE Context(s),
      image  |-> IF images[s].scale = "none" THEN "none" ELSE scale,
      pixels |-> IF images[s].scale = "none" THEN "none" ELSE "vanilla"]]

LEMMA FinalRowsExpected ==
  ASSUME IInv, FinalTurnOK, is_final, pc # "failed"
  PROVE  /\ Row("answer") = Expected("answer", "full")
         /\ Row("gap_fill") = Expected("gap_fill", "full")
         /\ SmallRow = Expected("subsampled", "quarter")
<1>1. \A s \in Samples : \/ images[s] = [seen |-> <<>>, scale |-> "none"]
                         \/ images[s] = [seen |-> Context(s), scale |-> "full"]
  BY WholeMemory DEF FinalTurnOK, ImageOK
<1>2. ASSUME NEW kind, NEW s \in Samples
      PROVE  FinalRow(s, kind, images[s]) = Expected(kind, "full")[s]
  <2>1. CASE images[s] = [seen |-> <<>>, scale |-> "none"]
    BY <2>1 DEF FinalRow, ImageRow, Expected
  <2>2. CASE images[s] = [seen |-> Context(s), scale |-> "full"]
    BY <2>2 DEF FinalRow, ImageRow, Expected
  <2>3. QED
    BY <1>1, <2>1, <2>2
<1>3. \A kind : Row(kind) = Expected(kind, "full")
  BY <1>2 DEF Row, Expected
<1>4. ASSUME NEW s \in Samples
      PROVE  FinalRow(s, "subsampled", Subsampled(images[s]))
               = Expected("subsampled", "quarter")[s]
  <2>1. CASE images[s] = [seen |-> <<>>, scale |-> "none"]
    BY <2>1 DEF Subsampled, FinalRow, ImageRow, Expected
  <2>2. CASE images[s] = [seen |-> Context(s), scale |-> "full"]
    <3>1. Subsampled(images[s]) = [seen |-> Context(s), scale |-> "quarter"]
      BY <2>2 DEF Subsampled
    <3>2. QED
      BY <2>2, <3>1 DEF FinalRow, ImageRow, Expected
  <2>3. QED
    BY <1>1, <2>1, <2>2
<1>5. SmallRow = Expected("subsampled", "quarter")
  BY <1>4 DEF SmallRow, Expected
<1>6. QED
  BY <1>3, <1>5

LEMMA AnswersExpected ==
  ASSUME NEW mask, NEW kind, NEW scale,
         FinalBatch(result.rows, mask, result.masks.sample_index) = Expected(kind, scale)
  PROVE  AnswerOf(mask, kind, scale)
<1>1. Expected(kind, scale)
        = [s \in Samples |->
             [sample |-> s, kind |-> kind,
              seen |-> (IF images[s].scale = "none"
                       THEN [seen |-> <<>>, image |-> "none", pixels |-> "none"]
                       ELSE [seen |-> Context(s), image |-> scale, pixels |-> "vanilla"]).seen,
              image |-> (IF images[s].scale = "none"
                        THEN [seen |-> <<>>, image |-> "none", pixels |-> "none"]
                        ELSE [seen |-> Context(s), image |-> scale, pixels |-> "vanilla"]).image,
              pixels |-> (IF images[s].scale = "none"
                         THEN [seen |-> <<>>, image |-> "none", pixels |-> "none"]
                         ELSE [seen |-> Context(s), image |-> scale, pixels |-> "vanilla"]).pixels]]
  BY DEF Expected
<1>2. QED
  BY <1>1 DEF AnswerOf

(* A sample has as many chunks as rows were collected for it.              *)
LEMMA ChunkCount ==
  ASSUME NEW l \in Nat, NEW n \in Nat, n > 0 => ChunkSize * (n - 1) < l,
         l <= ChunkSize * n
  PROVE  (l + ChunkSize - 1) \div ChunkSize = n
<1>1. ChunkSize \in Nat /\ ChunkSize > 0 /\ ChunkSize * n \in Nat
  BY LoopAssumption
<1>2. ChunkSize * n < l + ChunkSize
  <2>1. CASE n = 0
    BY <1>1, <2>1
  <2>2. CASE n > 0
    <3>1. n - 1 \in Nat /\ (n - 1) + 1 = n
      BY <2>2
    <3>2. ChunkSize * n = ChunkSize * (n - 1) + ChunkSize /\ ChunkSize * (n - 1) \in Nat
      BY <3>1, ChunkBoundary
    <3>3. QED
      BY <1>1, <2>2, <3>2
  <2>3. QED
    BY <2>1, <2>2
<1>3. PICK p \in Nat : p = ChunkSize * n
  BY <1>1
<1>4. PICK r \in Nat : r = l + ChunkSize - 1 - p
  <2>1. l + ChunkSize - 1 - p \in Nat
    BY <1>1, <1>2, <1>3
  <2>2. QED
    BY <2>1
<1>5. r < ChunkSize /\ p + r = l + ChunkSize - 1
  BY <1>1, <1>3, <1>4
<1>6. QED
  BY <1>1, <1>3, <1>5, DivisionUnique

LEMMA ChunksComplete ==
  ASSUME IInv, is_final, pc # "failed", NEW s \in Samples, result.rows \in Seq(Rows),
         ChunksCollected(result.rows, step, s)
  PROVE  LET turns == MemorizeRowsOf(s)
             chunks == (ctx_length[s] + ChunkSize - 1) \div ChunkSize
         IN  /\ Len(turns) = chunks
             /\ \A k \in 1..chunks : turns[k].seen = ReadAfter(s, k)
<1> DEFINE rows == result.rows
           own == ChunkRowsOf(rows, s)
           size == Len(rows)
           mask == [k \in DOMAIN rows |-> rows[k].kind = "memorize" /\ rows[k].sample = s]
<1>1. PICK n \in Nat : n = Cardinality(own)
  BY ChunkRowsFinite
<1>2. size \in Nat /\ DOMAIN rows = 1..size
  BY LenProperties
<1>3. mask \in [1..size -> BOOLEAN] /\ own = {k \in 1..size : mask[k]}
  BY <1>2 DEF ChunkRowsOf
<1>4. /\ n \in 0..step /\ (n > 0 => ChunkSize * (n - 1) < ctx_length[s])
      /\ n = step \/ ctx_length[s] <= ChunkSize * n
      /\ \A k \in own : rows[k].seen = ReadAfter(s, Cardinality({j \in own : j <= k}))
  BY <1>1 DEF ChunksCollected
<1>5. (ctx_length[s] + ChunkSize - 1) \div ChunkSize = n
  <2>1. ctx_length[s] \in Nat /\ ctx_length[s] <= ChunkSize * step
    BY ContextType DEF IInv, FinalTurn
  <2>2. ctx_length[s] <= ChunkSize * n
    BY <1>4, <2>1
  <2>3. QED
    BY <1>4, <2>1, <2>2, ChunkCount
<1> HIDE DEF mask
<1>6. /\ SetPlaces(mask) \in [1..n -> 1..size]
      /\ \A i \in 1..n : /\ mask[SetPlaces(mask)[i]]
                         /\ Cardinality({j \in 1..SetPlaces(mask)[i] : mask[j]}) = i
  BY <1>1, <1>2, <1>3, SetPlacesRank
<1>7. PICK places : places = SetPlaces(mask)
  OBVIOUS
<1>8. MemorizeRowsOf(s) = [i \in 1..n |-> rows[places[i]]]
  BY <1>6, <1>7 DEF MemorizeRowsOf, SelectRows, TakeRows, mask
<1>9. ASSUME NEW i \in 1..n
      PROVE  rows[places[i]].seen = ReadAfter(s, i)
  <2>1. places[i] \in 1..size /\ places[i] \in own
    BY <1>3, <1>6, <1>7
  <2>2. {j \in own : j <= places[i]} = {j \in 1..places[i] : mask[j]}
    BY <1>2, <1>3, <2>1
  <2>3. QED
    BY <1>4, <1>6, <1>7, <2>1, <2>2
<1>10. Len(MemorizeRowsOf(s)) = n
  BY <1>8
<1>11. QED
  BY <1>5, <1>8, <1>9, <1>10

(* The result is complete once what was collected has its shape.           *)
LEMMA ResultFollows ==
  ASSUME IInv, Collected
  PROVE  ResultIsComplete
<1> SUFFICES ASSUME pc = "returned"
             PROVE  ResultIsComplete
  BY DEF ResultIsComplete, ResultAnswersEverySample, ObjectivesPartitionFinalRows,
         OneRowPerChunk
<1> DEFINE rows == result.rows
           m == result.masks
           index == m.sample_index
<1>1. PICK n \in Nat : n = Len(ctx_length) /\ Samples = 1..n
  BY SamplesInterval DEF IInv
<1>2. /\ is_final /\ mode \in {"single", "triple"}
      /\ rows \in Seq(Rows) /\ DOMAIN index = 1..Len(rows)
      /\ \A s \in Samples : ChunksCollected(rows, step, s)
  BY DEF IInv, TypeOK, Collected, ResultShape
<1>3. /\ Row("answer") = Expected("answer", "full")
      /\ Row("gap_fill") = Expected("gap_fill", "full")
      /\ SmallRow = Expected("subsampled", "quarter")
  BY <1>2, FinalRowsExpected DEF Collected
<1>4. ASSUME NEW mask, NEW a, NEW kind, NEW scale,
             BlockAt(rows, mask, index, a, Expected(kind, scale))
      PROVE  /\ FinalBatch(rows, mask, index) = Expected(kind, scale)
             /\ AnswerOf(mask, kind, scale)
  <2>1. FinalBatch(rows, mask, index) = [s \in Samples |-> Expected(kind, scale)[s]]
    BY <1>1, <1>2, <1>4, BlockSelected
  <2>2. FinalBatch(rows, mask, index) = Expected(kind, scale)
    BY <2>1 DEF Expected
  <2>3. QED
    BY <2>2, AnswersExpected
<1>5. OneRowPerChunk
  BY <1>2, ChunksComplete DEF OneRowPerChunk
<1>6. CASE mode = "single"
  <2>1. PICK a \in Nat : BlockAt(rows, m.final, index, a, Row("answer"))
    BY <1>6 DEF Collected, ResultShape
  <2>2. AnswerOf(m.final, "answer", "full")
    BY <1>3, <1>4, <2>1
  <2>3. QED
    BY <1>5, <1>6, <2>2
       DEF ResultIsComplete, ResultAnswersEverySample, ObjectivesPartitionFinalRows
<1>7. CASE mode = "triple"
  <2>1. PICK a \in Nat :
          /\ Len(rows) = a + n + n + n
          /\ \A k \in 1..Len(rows) : m.final[k] <=> k > a
          /\ BlockAt(rows, m.vanilla, index, a, Row("answer"))
          /\ BlockAt(rows, m.subsampled, index, a + n, SmallRow)
          /\ BlockAt(rows, m.gap_fill, index, a + n + n, Row("gap_fill"))
    BY <1>1, <1>7 DEF Collected, ResultShape
  <2>2. result.gap_fill_answers = memory
    BY <1>7 DEF Collected, ResultShape
  <2>3. /\ AnswerOf(m.vanilla, "answer", "full")
        /\ AnswerOf(m.subsampled, "subsampled", "quarter")
        /\ AnswerOf(m.gap_fill, "gap_fill", "full")
        /\ FinalBatch(rows, m.gap_fill, index) = Expected("gap_fill", "full")
    BY <1>3, <1>4, <2>1
  <2>4. ASSUME NEW k \in DOMAIN rows
        PROVE  m.final[k] <=> Cardinality({o \in {"vanilla", "subsampled", "gap_fill"} :
                                              m[o][k]}) = 1
    <3>1. k \in 1..(a + n + n + n) /\ k \in 1..Len(rows)
      BY <1>2, <2>1, <2>4, LenProperties
    <3>2. /\ m.vanilla[k] <=> k \in (a + 1)..(a + n)
          /\ m.subsampled[k] <=> k \in (a + n + 1)..(a + n + n)
          /\ m.gap_fill[k] <=> k \in (a + n + n + 1)..(a + n + n + n)
      BY <1>1, <2>1, <3>1 DEF BlockAt
    <3> DEFINE set == {o \in {"vanilla", "subsampled", "gap_fill"} : m[o][k]}
    <3>3. /\ "vanilla" \in set <=> k \in (a + 1)..(a + n)
          /\ "subsampled" \in set <=> k \in (a + n + 1)..(a + n + n)
          /\ "gap_fill" \in set <=> k \in (a + n + n + 1)..(a + n + n + n)
          /\ \A o \in set : o \in {"vanilla", "subsampled", "gap_fill"}
      BY <3>2
    <3> HIDE DEF set
    <3>4. CASE k > a
      <4>1. \/ k \in (a + 1)..(a + n)
            \/ k \in (a + n + 1)..(a + n + n)
            \/ k \in (a + n + n + 1)..(a + n + n + n)
        BY <1>1, <3>1, <3>4
      <4>2. \/ set = {"vanilla"}
            \/ set = {"subsampled"}
            \/ set = {"gap_fill"}
        <5>1. CASE k \in (a + 1)..(a + n)
          <6>1. k \notin (a + n + 1)..(a + n + n) /\ k \notin (a + n + n + 1)..(a + n + n + n)
            BY <1>1, <5>1
          <6>2. QED
            BY <3>3, <5>1, <6>1
        <5>2. CASE k \in (a + n + 1)..(a + n + n)
          <6>1. k \notin (a + 1)..(a + n) /\ k \notin (a + n + n + 1)..(a + n + n + n)
            BY <1>1, <5>2
          <6>2. QED
            BY <3>3, <5>2, <6>1
        <5>3. CASE k \in (a + n + n + 1)..(a + n + n + n)
          <6>1. k \notin (a + 1)..(a + n) /\ k \notin (a + n + 1)..(a + n + n)
            BY <1>1, <5>3
          <6>2. QED
            BY <3>3, <5>3, <6>1
        <5>4. QED
          BY <4>1, <5>1, <5>2, <5>3
      <4>3. Cardinality(set) = 1
        BY <4>2, FS_Singleton
      <4>4. QED
        BY <2>1, <3>1, <3>4, <4>3 DEF set
    <3>5. CASE ~(k > a)
      <4>1. /\ k \notin (a + 1)..(a + n) /\ k \notin (a + n + 1)..(a + n + n)
            /\ k \notin (a + n + n + 1)..(a + n + n + n)
        BY <1>1, <3>1, <3>5
      <4>2. set = {}
        BY <3>3, <4>1
      <4>3. Cardinality(set) = 0
        BY <4>2, FS_EmptySet
      <4>4. QED
        BY <2>1, <3>1, <3>5, <4>3 DEF set
    <3>6. QED
      BY <3>4, <3>5
  <2>5. \A s \in Samples :
          LET gaps == FinalBatch(rows, m.gap_fill, index)
          IN  gaps[s].image = "none" \/ gaps[s].seen = result.gap_fill_answers[s]
    <3> SUFFICES ASSUME NEW s \in Samples
                 PROVE  \/ Expected("gap_fill", "full")[s].image = "none"
                        \/ Expected("gap_fill", "full")[s].seen = memory[s]
      BY <2>2, <2>3
    <3>1. memory[s] = Context(s)
      BY <1>2, WholeMemory
    <3>2. QED
      BY <3>1 DEF Expected
  <2>6. ObjectivesPartitionFinalRows
    BY <2>4, <2>5 DEF ObjectivesPartitionFinalRows
  <2>7. ResultAnswersEverySample
    BY <1>7, <2>3 DEF ResultAnswersEverySample
  <2>8. QED
    BY <1>5, <2>6, <2>7 DEF ResultIsComplete
<1>8. QED
  BY <1>2, <1>6, <1>7

(* What the caller of the loop gets is complete, whatever the sizes of the *)
(* batch, the chunks and the contexts, and whichever images are lost: the  *)
(* rows final_batch cuts out for an objective are the answers to every     *)
(* question, in the order of the samples and from the whole context, the   *)
(* three objectives share no row and leave none out, and the training rows *)
(* of a sample are one for each of its chunks.                             *)
THEOREM ResultCorrect == Spec => []ResultIsComplete
<1>1. Init => RowKinds /\ Collected
  BY InitReads, InitCollects
<1>2. IInv /\ RowKinds /\ Collected /\ [Next]_vars => RowKinds' /\ Collected'
  BY ReadingStep, CollectedStep
<1>3. IInv /\ Collected => ResultIsComplete
  BY ResultFollows
<1>4. QED
  BY <1>1, <1>2, <1>3, Invariance, PTL DEF Spec
=============================================================================
