---------------------------- MODULE TrainingStep ----------------------------
(***************************************************************************)
(* One step of RayPPOTrainer.fit with the recurrent rollout: what the      *)
(* trainer makes of the result of the loop (RecurrentLoop), and what the   *)
(* ranks of the actor do with it (fsdp_workers.py, dp_actor.py).           *)
(*                                                                         *)
(* The loop returns rows of all turns, chunk turns first, final turns      *)
(* last, with a mask per objective and the sample of every row. The driver *)
(* scores the final rows per objective, has the log probabilities of all   *)
(* rows computed, gives every row the advantage of its sample, and has the *)
(* actor updated. The number of rows depends on the contexts, so the batch *)
(* is padded twice: for the log probabilities by rows repeated at the end, *)
(* for the update by masked rows spread over the ranks.                    *)
(*                                                                         *)
(* A rank works through its share in mini-batches and micro-batches. Every *)
(* step of it is a collective operation (the number of micro-batches is    *)
(* agreed on, the sharded model is gathered for a forward pass, the norm   *)
(* of the gradient is reduced), which ends once every rank has entered the *)
(* same one.                                                               *)
(*                                                                         *)
(* Numbers are modelled by where they come from: a score by the response   *)
(* and the ground truth it was computed from, an advantage by the score    *)
(* and those it was compared with, a log probability by its row.           *)
(***************************************************************************)
EXTENDS BatchIndexing, SeqlenBalancing

CONSTANTS Prompts,        \* data.train_batch_size
          RolloutN,       \* actor_rollout_ref.rollout.n
          MaxChunks,      \* bound on the chunks of a context
          MaxWorld,       \* bound on the ranks
          MaxSeqLen,      \* bound on the tokens of a row
          MaxTokenLen,    \* ppo_max_token_len_per_gpu, log_prob_max_token_len_per_gpu
          MiniBatchSize,  \* ppo_mini_batch_size of one rank
          PpoEpochs       \* ppo_epochs

(* Contexts have a chunk to read, the configuration check asks for at      *)
(* least one row per rank, and rearrange_micro_batches for a token budget  *)
(* of a row at least.                                                      *)
ASSUME TrainingAssumption ==
  /\ Prompts \in Nat \ {0} /\ RolloutN \in Nat \ {0} /\ MaxChunks \in Nat \ {0}
  /\ MaxWorld \in 1..(Prompts * RolloutN)
  /\ MaxSeqLen \in Nat \ {0} /\ MaxTokenLen \in Nat /\ MaxTokenLen >= MaxSeqLen
  /\ MiniBatchSize \in Nat \ {0} /\ PpoEpochs \in Nat \ {0}

VARIABLES
  world_size,       \* ranks of the actor, fixed at start
  triple,           \* enable_triple_turn
  chunks,           \* chunks of the context of each prompt
  seq_len,          \* tokens of the rows of each sample
  phase,            \* of the driver
  uid,              \* prompt of each sample, after repeat
  gen_batch_output, \* the rows the loop returned
  scores,           \* per objective and sample, the reward tensors
  batch,            \* the training batch
  pad_size,         \* rows repeated for the log probabilities
  no_padding_mask,  \* rows that are real, for the update
  at,               \* where each rank stands in the call in progress
  mini_batches,     \* the mini-batches of the share of each rank
  micro_batches,    \* micro-batches of the mini-batch of each rank
  output,           \* what each rank has computed for its share
  steps             \* per rank, the micro-batches of every optimizer step

driver == <<phase, uid, gen_batch_output, scores, batch, pad_size, no_padding_mask>>
ranks  == <<at, mini_batches, micro_batches, output, steps>>
fixed  == <<world_size, triple, chunks, seq_len>>
vars   == <<fixed, driver, ranks>>

Ranks      == 1..world_size
Samples    == 1..(Prompts * RolloutN)
Objectives == IF triple THEN {"answer", "subsampled", "gap_fill"} ELSE {"answer"}
----------------------------------------------------------------------------
(* What the loop returns, as RecurrentLoop guarantees it (RowsMatchIndex,  *)
(* OneRowPerChunk, ObjectivesPartitionFinalRows): a turn for every chunk   *)
(* with the samples that have one, then one final turn per objective. The  *)
(* prompts of chunk turns are text, those of final turns carry an image.   *)
PromptOf(s) == ((s - 1) \div RolloutN) + 1

ChunkTurn(t) ==
  LET reading == SetPlaces([s \in Samples |-> chunks[PromptOf(s)] >= t])
  IN  [k \in DOMAIN reading |-> [sample |-> reading[k], kind |-> "memorize"]]

FinalTurn(kind) == [s \in Samples |-> [sample |-> s, kind |-> kind]]

LoopRows ==
  FlattenSeq([t \in 1..MaxChunks |-> ChunkTurn(t)])
    \o FinalTurn("answer")
    \o (IF triple THEN FinalTurn("subsampled") \o FinalTurn("gap_fill") ELSE <<>>)

sample_index == [k \in DOMAIN gen_batch_output |-> gen_batch_output[k].sample]
MaskOf(kind) == [k \in DOMAIN gen_batch_output |-> gen_batch_output[k].kind = kind]
HasImage(k)  == gen_batch_output[k].kind # "memorize"

Idle == [call |-> "none", mini |-> 1, micro |-> 1, entered |-> FALSE]

Init ==
  /\ world_size \in 1..MaxWorld
  /\ triple \in BOOLEAN
  /\ chunks \in {c \in [1..Prompts -> 0..MaxChunks] : \E p \in 1..Prompts : c[p] > 0}
  /\ seq_len \in [Samples -> 1..MaxSeqLen]
  /\ phase = "rollout"
  /\ uid = <<>>
  /\ gen_batch_output = <<>>
  /\ scores = <<>>
  /\ batch = <<>>
  /\ pad_size = 0
  /\ no_padding_mask = <<>>
  /\ at = [w \in Ranks |-> Idle]
  /\ mini_batches = [w \in Ranks |-> <<>>]
  /\ micro_batches = [w \in Ranks |-> <<>>]
  /\ output = [w \in Ranks |-> <<>>]
  /\ steps = [w \in Ranks |-> <<>>]
----------------------------------------------------------------------------
(* DataProto.repeat: the rows of a prompt side by side (interleave).       *)
Repeat(rows, n) == [k \in 1..(n * Len(rows)) |-> rows[((k - 1) \div n) + 1]]

(* A row of the training batch: the row of the loop it is a copy of, its   *)
(* tokens (the sum of its attention mask), the row its log probability was *)
(* computed for, and its advantage.                                        *)
TrainingRow(k, s) == [row |-> k, tokens |-> seq_len[s], log_prob |-> 0, advantage |-> {}]

(* The batch is repeated, as the prompts of the loop are, every prompt     *)
(* with a uid of its own, and the loop returns.                            *)
Rollout ==
  /\ phase = "rollout"
  /\ uid' = Repeat([p \in 1..Prompts |-> p], RolloutN)
  /\ gen_batch_output' = LoopRows
  /\ batch' = [k \in DOMAIN LoopRows |-> TrainingRow(k, LoopRows[k].sample)]
  /\ phase' = "reward"
  /\ UNCHANGED <<fixed, scores, pad_size, no_padding_mask, ranks>>

(* pad_dataproto_to_divisor and unpad_dataproto.                           *)
PadSize(n, size_divisor) == (size_divisor - (n % size_divisor)) % size_divisor

PadToDivisor(rows, size_divisor) ==
  [k \in 1..(Len(rows) + PadSize(Len(rows), size_divisor)) |->
     rows[((k - 1) % Len(rows)) + 1]]

Unpadded(rows, pad) == SubSeq(rows, 1, Len(rows) - pad)

(* compute_reward of one objective: final_batch puts the final rows in the *)
(* order of the samples, union joins them with the samples, and the reward *)
(* function scores each response against the ground truth at its place;    *)
(* for gap_fill that is the hidden word of the memory of the sample.       *)
RewardTensor(o) ==
  LET final == FinalBatch(batch, MaskOf(o), sample_index)
  IN  [s \in Samples |-> [response |-> final[s].row, truth |-> <<o, s>>]]

(* The shares of a call and the mini-batches of a rank: DataProto.chunk,   *)
(* and DataProto.split for the update, once per epoch.                     *)
ShareOf(w, rows) ==
  LET size == Len(rows) \div world_size
  IN  [k \in 1..size |-> ((w - 1) * size) + k]

Split(slots, size) ==
  [m \in 1..CeilDiv(Len(slots), size) |->
     [k \in 1..(IF m * size <= Len(slots) THEN size ELSE Len(slots) - (m - 1) * size) |->
        slots[(m - 1) * size + k]]]

MiniBatches(name, share) ==
  IF name = "compute_log_prob"
  THEN <<share>>
  ELSE LET parts == Split(share, MiniBatchSize)
       IN  [n \in 1..(PpoEpochs * Len(parts)) |-> parts[((n - 1) % Len(parts)) + 1]]

Call(name, rows) ==
  /\ at' = [w \in Ranks |-> [Idle EXCEPT !.call = name]]
  /\ mini_batches' = [w \in Ranks |-> MiniBatches(name, ShareOf(w, rows))]

(* Rewards, the padding for the forward passes, and the call of            *)
(* compute_log_prob. compute_ref_log_prob, if there is a reference policy, *)
(* takes the same way; one call stands for both.                           *)
Reward ==
  /\ phase = "reward"
  /\ scores' = [o \in Objectives |-> RewardTensor(o)]
  /\ pad_size' = PadSize(Len(batch), world_size)
  /\ batch' = PadToDivisor(batch, world_size)
  /\ Call("compute_log_prob", batch')
  /\ phase' = "log_prob"
  /\ UNCHANGED <<fixed, uid, gen_batch_output, no_padding_mask, micro_batches, output, steps>>
----------------------------------------------------------------------------
(* The ranks.                                                              *)

Tokens(slots) == [k \in DOMAIN slots |-> batch[slots[k]].tokens]

(* The collective operation a rank comes to next: agreeing on the number   *)
(* of micro-batches, a forward pass, a step of the optimizer, or none      *)
(* once its mini-batches are done.                                         *)
NextOperation(w) ==
  IF at[w].call = "none" \/ at[w].mini > Len(mini_batches[w]) THEN "none"
  ELSE IF micro_batches[w] = <<>> THEN "count"
  ELSE IF at[w].micro <= Len(micro_batches[w]) THEN "forward"
  ELSE IF at[w].call = "compute_log_prob" THEN "none"
  ELSE "step"

Enter(w) ==
  /\ NextOperation(w) # "none"
  /\ ~at[w].entered
  /\ at' = [at EXCEPT ![w].entered = TRUE]
  /\ UNCHANGED <<fixed, driver, mini_batches, micro_batches, output, steps>>

AllEnteredFor(operation) ==
  \A w \in Ranks : at[w].entered /\ NextOperation(w) = operation

(* all_reduce with MAX. A slip: every rank keeps the number it wants.      *)
Wanted(w) == WantedMicroBatches(Tokens(mini_batches[w][at[w].mini]), MaxTokenLen)

NumMicroBatches_Own(w) == Wanted(w)

NumMicroBatches(w) == Max({Wanted(v) : v \in Ranks})

(* prepare_dynamic_batch, after the collective. Micro-batches hold places  *)
(* of the mini-batch.                                                      *)
Count ==
  /\ AllEnteredFor("count")
  /\ \A w \in Ranks : NumMicroBatches(w) <= Len(mini_batches[w][at[w].mini])
  /\ micro_batches' = [w \in Ranks |->
       RearrangeMicroBatches(Tokens(mini_batches[w][at[w].mini]), NumMicroBatches(w))]
  /\ at' = [w \in Ranks |-> [at[w] EXCEPT !.micro = 1, !.entered = FALSE]]
  /\ UNCHANGED <<fixed, driver, mini_batches, output, steps>>

(* The slots of the batch in a micro-batch.                                *)
SlotsIn(w, m) ==
  LET mini == mini_batches[w][at[w].mini]
  IN  [k \in DOMAIN micro_batches[w][m] |-> mini[micro_batches[w][m][k]]]

(* A forward pass: in compute_log_prob its result is kept, in update_actor *)
(* its gradient is added up until the optimizer steps.                     *)
Passed(slot) == [row |-> batch[slot].row, tokens |-> batch[slot].tokens]

Forward ==
  /\ AllEnteredFor("forward")
  /\ output' = [w \in Ranks |->
       LET slots == SlotsIn(w, at[w].micro)
       IN  Append(output[w], [k \in DOMAIN slots |-> Passed(slots[k])])]
  /\ at' = [w \in Ranks |-> [at[w] EXCEPT !.micro = @ + 1, !.entered = FALSE]]
  /\ UNCHANGED <<fixed, driver, mini_batches, micro_batches, steps>>

(* _optimizer_step, at the end of a mini-batch of update_policy.           *)
OptimizerStep ==
  /\ AllEnteredFor("step")
  /\ steps' = [w \in Ranks |-> Append(steps[w], output[w])]
  /\ output' = [w \in Ranks |-> <<>>]
  /\ micro_batches' = [w \in Ranks |-> <<>>]
  /\ at' = [w \in Ranks |-> [at[w] EXCEPT !.mini = @ + 1, !.micro = 1, !.entered = FALSE]]
  /\ UNCHANGED <<fixed, driver, mini_batches>>

(* The end of compute_log_prob on a rank: its share is one mini-batch, and *)
(* the results go back to the order of its rows.                           *)
ReturnLogProb(w) ==
  /\ at[w].call = "compute_log_prob"
  /\ micro_batches[w] # <<>>
  /\ NextOperation(w) = "none"
  /\ at' = [at EXCEPT ![w] = Idle]
  /\ output' = [output EXCEPT ![w] =
       RestoreDynamicBatch(FlattenSeq(@), micro_batches[w])]
  /\ micro_batches' = [micro_batches EXCEPT ![w] = <<>>]
  /\ UNCHANGED <<fixed, driver, mini_batches, steps>>

(* The end of update_actor on a rank, after its last mini-batch.           *)
ReturnUpdate(w) ==
  /\ at[w].call = "update_actor"
  /\ NextOperation(w) = "none"
  /\ at' = [at EXCEPT ![w] = Idle]
  /\ UNCHANGED <<fixed, driver, mini_batches, micro_batches, output, steps>>

AllReturned == \A w \in Ranks : at[w].call = "none"
----------------------------------------------------------------------------
(* The driver, once compute_log_prob has returned on every rank.           *)

(* compute_1D_grpo_advantage: a score is compared with the scores of the   *)
(* same uid.                                                               *)
AdvantageScalar(o) ==
  [s \in Samples |->
     [own   |-> scores[o][s],
      group |-> {scores[o][t] : t \in {t \in Samples : uid[t] = uid[s]}}]]

(* working_advantages: chunk turns take the weighted mean over the         *)
(* objectives, a final turn the advantage of its own objective. A slip:    *)
(* final turns keep the sum as well.                                       *)
Weight(o) == CASE o = "answer"     -> "1"
               [] o = "subsampled" -> "subsampled_qa_reward_weight"
               [] o = "gap_fill"   -> "gap_fill_reward_weight"

Term(o, k) == [objective |-> o, weight |-> Weight(o),
               advantage |-> AdvantageScalar(o)[sample_index[k]]]

WorkingAdvantage_SumForAll(k) == {Term(o, k) : o \in Objectives}

WorkingAdvantage(k) ==
  {Term(o, k) : o \in {o \in Objectives : gen_batch_output[k].kind \in {"memorize", o}}}

(* The log probabilities of all ranks, concatenated, join the batch; the   *)
(* repeated rows are dropped and every row gets its advantage.             *)
Advantage ==
  /\ phase = "log_prob" /\ AllReturned
  /\ LET old_log_prob == FlattenSeq(output)
         joined == [k \in DOMAIN batch |->
                      [batch[k] EXCEPT !.log_prob = old_log_prob[k].row]]
         rows   == Unpadded(joined, pad_size)
     IN  batch' = [k \in DOMAIN rows |->
                     [rows[k] EXCEPT !.advantage = WorkingAdvantage(k)]]
  /\ output' = [w \in Ranks |-> <<>>]
  /\ phase' = "advantage"
  /\ UNCHANGED <<fixed, uid, gen_batch_output, scores, pad_size, no_padding_mask,
                 at, mini_batches, micro_batches, steps>>

(* graceful_padding for the update, indexing_proto, and the masks of the   *)
(* padding rows set to zero. A slip: the last row pads, as the comment     *)
(* beside the code has it.                                                 *)
PaddingRows_Last(mask) ==
  LET index == PaddingIndex(mask)
  IN  [k \in DOMAIN mask |-> IF mask[k] THEN index[k] ELSE Len(batch)]

PaddingRows(mask) == PaddingIndex(mask)

MaskPadding(rows, mask) == [k \in DOMAIN rows |-> [rows[k] EXCEPT !.tokens = IF mask[k] THEN @ ELSE 0]]

(* A slip: a batch that does not divide evenly is sent as it is, short of  *)
(* the rows left over.                                                     *)
UpdateMask_Unpadded(bsz) ==
  [k \in 1..(bsz - (bsz % world_size)) |-> TRUE]

UpdateMask(bsz) == NoPaddingMask(bsz, world_size)

UpdateActor ==
  /\ phase = "advantage"
  /\ LET mask == UpdateMask(Len(batch))
     IN  /\ no_padding_mask' = mask
         /\ batch' = MaskPadding(TakeRows(batch, PaddingRows(mask)), mask)
  /\ Call("update_actor", batch')
  /\ phase' = "update"
  /\ UNCHANGED <<fixed, uid, gen_batch_output, scores, pad_size, micro_batches, output, steps>>

(* After update_actor has returned: the metrics are computed from the      *)
(* batch without its padding.                                              *)
Metrics ==
  /\ phase = "update" /\ AllReturned
  /\ batch' = SelectRows(batch, no_padding_mask)
  /\ phase' = "done"
  /\ UNCHANGED <<fixed, uid, gen_batch_output, scores, pad_size, no_padding_mask, ranks>>

Drive == Rollout \/ Reward \/ Advantage \/ UpdateActor \/ Metrics

Collective == Count \/ Forward \/ OptimizerStep

Rank(w) == Enter(w) \/ ReturnLogProb(w) \/ ReturnUpdate(w)

Next ==
  \/ Drive
  \/ Collective
  \/ \E w \in Ranks : Rank(w)

(* The driver goes on once its call has returned; ranks go on to their     *)
(* next operation, and one that all ranks have entered ends.               *)
Fairness ==
  /\ WF_vars(Drive)
  /\ WF_vars(Collective)
  /\ \A w \in 1..MaxWorld : WF_vars(w \in Ranks /\ Rank(w))

Spec == Init /\ [][Next]_vars /\ Fairness
----------------------------------------------------------------------------
(* Types. The driver never has more rows than the loop returned and one    *)
(* padding row per rank.                                                   *)
TypeOK ==
  /\ world_size \in 1..MaxWorld
  /\ phase \in {"rollout", "reward", "log_prob", "advantage", "update", "done"}
  /\ Len(batch) < Len(gen_batch_output) + world_size
  /\ \A k \in DOMAIN batch : batch[k].row \in DOMAIN gen_batch_output
  /\ DOMAIN no_padding_mask = {} \/ phase = "done" \/ DOMAIN no_padding_mask = DOMAIN batch
  /\ at \in [Ranks -> [call : {"none", "compute_log_prob", "update_actor"},
                       mini : Nat \ {0}, micro : Nat \ {0}, entered : BOOLEAN]]

(* Every row is trained with the advantage of its own sample: a final row  *)
(* with that of its own objective, a chunk row with those of all of them,  *)
(* each from the score of the answer the sample gave to that objective,    *)
(* against its own ground truth, and compared with the rollouts of the     *)
(* same prompt and no others (reward, compute_1D_grpo_advantage, the       *)
(* broadcast with sample_index and working_advantages in fit).             *)
IsScoreOf(score, o, s) ==
  /\ gen_batch_output[score.response] = [sample |-> s, kind |-> o]
  /\ score.truth = <<o, s>>

IsAdvantageOf(advantage, o, s) ==
  /\ IsScoreOf(advantage.own, o, s)
  /\ \A score \in advantage.group :
       \E t \in Samples : PromptOf(t) = PromptOf(s) /\ IsScoreOf(score, o, t)
  /\ Cardinality(advantage.group) = RolloutN

AdvantageIsOwn ==
  phase \in {"advantage", "update", "done"} =>
    \A k \in DOMAIN batch :
      LET source == gen_batch_output[batch[k].row]
          terms  == batch[k].advantage
      IN  /\ {t.objective : t \in terms} =
               IF source.kind = "memorize" THEN Objectives ELSE {source.kind}
          /\ Cardinality({t.objective : t \in terms}) = Cardinality(terms)
          /\ \A t \in terms : IsAdvantageOf(t.advantage, t.objective, source.sample)

(* A row is updated against its own old log probabilities, although they   *)
(* are computed by other ranks than those that use them, in micro-batches  *)
(* of another order (compute_log_prob, restore_dynamic_batch, union).      *)
LogProbsAreOwn ==
  phase \in {"advantage", "update", "done"} =>
    \A k \in DOMAIN batch : batch[k].log_prob = batch[k].row

(* The images of a row are passed to the model beside its tokens, and      *)
(* masking hides only the tokens; the model refuses images without tokens  *)
(* (qwen2_vl.py). So a padding row must be a copy of a row without images: *)
(* the first row is one, the last is not.                                  *)
NoImageWithoutTokens ==
  phase = "update" =>
    \A k \in DOMAIN batch : batch[k].tokens = 0 => ~HasImage(batch[k].row)

(* Whether a rank runs the model on nothing: it may be made to cut its     *)
(* mini-batch into more micro-batches than it wants, and one of them may   *)
(* be a padding row alone. That takes a mini-batch of which some rank has  *)
(* more tokens than all its rows but one may fill, so that it is cut into  *)
(* single rows; in every other micro-batch there are tokens.               *)
HasTokens(w, m) == \E k \in DOMAIN SlotsIn(w, m) : Tokens(SlotsIn(w, m))[k] > 0

CutIntoRows(w) ==
  LET rows == Len(mini_batches[w][at[w].mini])
  IN  /\ Len(micro_batches[w]) = rows
      /\ \E v \in Ranks :
           Total(Tokens(mini_batches[v][at[v].mini])) > (rows - 1) * MaxTokenLen

PaddingAloneOnlyIfFull ==
  \A w \in Ranks : \A m \in DOMAIN micro_batches[w] :
    \/ HasTokens(w, m)
    \/ phase = "update" /\ Len(SlotsIn(w, m)) = 1 /\ CutIntoRows(w)

(* The model is given tokens at every forward pass of any rank, but for    *)
(* the padding row of a mini-batch that is cut into single rows, and       *)
(* tokens for every image, whatever the two paddings added.                *)
ForwardsAreSound == TypeOK /\ NoImageWithoutTokens /\ PaddingAloneOnlyIfFull

(* The policy is trained on every row of the loop once per epoch, on       *)
(* whichever rank, and on nothing else; what the metrics see are the rows  *)
(* of the loop in their order.                                             *)
TimesTrained(k) ==
  Cardinality(UNION {UNION {UNION {
    {<<w, n, m, j>> : j \in {j \in DOMAIN steps[w][n][m] :
                               /\ steps[w][n][m][j].row = k
                               /\ steps[w][n][m][j].tokens > 0}}
      : m \in DOMAIN steps[w][n]} : n \in DOMAIN steps[w]} : w \in Ranks})

EveryRowTrainedOnce ==
  phase = "done" =>
    /\ [k \in DOMAIN batch |-> batch[k].row] = [k \in DOMAIN gen_batch_output |-> k]
    /\ \A k \in DOMAIN gen_batch_output : TimesTrained(k) = PpoEpochs

(* The step ends: no rank waits in a collective operation that another     *)
(* rank does not come to.                                                  *)
StepCompletes == <>(phase = "done")
=============================================================================
