--------------------------- MODULE RecurrentLoop ---------------------------
(***************************************************************************)
(* LLMGenerationManager.run_llm_loop_vl and run_llm_loop_vl_triple_turn    *)
(* driving a MemoryAgent (memory_img_final_only_triple.py, the canonical   *)
(* agent). One manager and one agent object serve all batches of a trainer *)
(* process, training and validation alike.                                 *)
(*                                                                         *)
(* The agent walks the contexts of a batch chunk by chunk. Samples whose   *)
(* context is used up drop out of the turn, so the rows of a turn belong   *)
(* to the active samples only and every turn may have another length; when *)
(* no sample is active there is one final turn for all of them. In triple  *)
(* mode two more final turns follow, one with subsampled images and one    *)
(* with gap-fill questions. What ties the rows of all turns to samples and *)
(* objectives are the index and mask tensors the agent collects.           *)
(*                                                                         *)
(* Tokens: <<s, p>> is token p of the context of sample s. A memory is     *)
(* modelled by the sequence of context tokens it was drafted from, <<>>    *)
(* for no memory. A prompt row names the sample whose question it asks,    *)
(* the kind of turn, the tokens that reach the model through the memory,   *)
(* the chunk or the image, and the pixel budget of the image. A response   *)
(* is modelled by the prompt row it was generated from: that a call        *)
(* returns one response per row, in order, is what RolloutDispatch shows.  *)
(***************************************************************************)
EXTENDS BatchIndexing

CONSTANTS MaxBatchSize,   \* bound on the samples of a batch
          MaxChunks,      \* recurrent config: max_chunks
          ChunkSize,      \* recurrent config: chunk_size
          NoAnswer        \* marks a question not yet answered

ASSUME LoopAssumption ==
  /\ MaxBatchSize \in Nat \ {0}
  /\ MaxChunks \in Nat
  /\ ChunkSize \in Nat \ {0}

(* The dataset truncates and pads every context to this width.             *)
MaxPromptLength == MaxChunks * ChunkSize

VARIABLES
  pc,                  \* where the manager stands
  mode,                \* "single" or "triple", chosen by the caller per batch
  ctx_length,          \* agent: context length of each sample
  step,                \* agent: turn counter
  is_final,            \* agent: the final turn has been built
  active_mask,         \* agent: the set of active samples of the turn
  memory,              \* agent: per sample
  final_mask_list,     \* agent: one mask per turn
  sample_index_list,   \* agent: one index per turn
  image_pixels,        \* agent: min/max_image_pixels, "vanilla" or "quarter"
  messages,            \* manager: prompt rows of the turn
  images,              \* manager: images of the final turn, one per sample
  gen_output,          \* manager: responses of the turn
  gen_output_list,     \* manager: responses of the turns so far
  masks,               \* manager: what agent.end() returned
  result               \* what the call returned

agent_vars   == <<ctx_length, step, is_final, active_mask, memory,
                  final_mask_list, sample_index_list, image_pixels>>
vars == <<pc, mode, agent_vars, messages, images, gen_output, gen_output_list,
          masks, result>>

Samples  == DOMAIN ctx_length
NoMasks  == <<>>
NoResult == <<>>

Context(s) == [p \in 1..ctx_length[s] |-> <<s, p>>]
Smaller(a, b) == IF a <= b THEN a ELSE b

Init ==
  /\ pc = "idle"
  /\ mode = "single"
  /\ ctx_length = <<>>
  /\ step = 0
  /\ is_final = FALSE
  /\ active_mask = {}
  /\ memory = <<>>
  /\ final_mask_list = <<>>
  /\ sample_index_list = <<>>
  /\ image_pixels = "vanilla"
  /\ messages = <<>>
  /\ images = <<>>
  /\ gen_output = <<>>
  /\ gen_output_list = <<>>
  /\ masks = NoMasks
  /\ result = NoResult
----------------------------------------------------------------------------
(* A slip: start() keeps the memory of the batch before.                   *)
Start_KeepsMemory(m, lengths) ==
  /\ pc \in {"idle", "returned"}
  /\ pc' = "loop"
  /\ mode' = m
  /\ ctx_length' = lengths
  /\ step' = 0
  /\ is_final' = FALSE
  /\ active_mask' = {}
  /\ final_mask_list' = <<>>
  /\ sample_index_list' = <<>>
  /\ messages' = <<>>
  /\ images' = <<>>
  /\ gen_output' = <<>>
  /\ gen_output_list' = <<>>
  /\ masks' = NoMasks
  /\ result' = NoResult
  /\ UNCHANGED <<memory, image_pixels>>

(* A call of run_llm_loop_vl (mode "single") or of its triple-turn variant *)
(* and agent.start(): every attribute of the agent but the pixel budget is *)
(* set anew.                                                               *)
Start(m, lengths) ==
  /\ pc \in {"idle", "returned"}
  /\ pc' = "loop"
  /\ mode' = m
  /\ ctx_length' = lengths
  /\ step' = 0
  /\ is_final' = FALSE
  /\ active_mask' = {}
  /\ memory' = [s \in DOMAIN lengths |-> <<>>]
  /\ final_mask_list' = <<>>
  /\ sample_index_list' = <<>>
  /\ messages' = <<>>
  /\ images' = <<>>
  /\ gen_output' = <<>>
  /\ gen_output_list' = <<>>
  /\ masks' = NoMasks
  /\ result' = NoResult
  /\ UNCHANGED image_pixels

(* active_mask: the samples with context left at this step.                *)
Active == {s \in Samples : ctx_length[s] > step * ChunkSize}

(* torch.arange(bsz)[mask]: the increasing enumeration of a set of samples *)
(* (a set with exactly one element).                                       *)
ArangeWhere(S) ==
  {idx \in [1..Cardinality(S) -> S] :
     /\ \A j, k \in 1..Cardinality(S) : j < k => idx[j] < idx[k]
     /\ \A s \in S : \E k \in 1..Cardinality(S) : idx[k] = s}

(* context_ids[s, chunk_size * step : chunk_size * (step + 1)], decoded    *)
(* without the padding to the right of the context. A slip: a slice with   *)
(* its end included.                                                       *)
Chunk_EndIncluded(s) ==
  SubSeq(Context(s), ChunkSize * step + 1,
         Smaller(ChunkSize * (step + 1) + 1, ctx_length[s]))

Chunk(s) ==
  SubSeq(Context(s), ChunkSize * step + 1,
         Smaller(ChunkSize * (step + 1), ctx_length[s]))

(* The prompts of a chunk turn show the model its old memory and a chunk.  *)
MemorizeRow(s) ==
  [sample |-> s, kind |-> "memorize", seen |-> memory[s] \o Chunk(s),
   image |-> "none", pixels |-> "none"]

(* The prompts of the final turns show an image of the memory. Only an     *)
(* image brings a pixel budget into the prompt (_build_messages).          *)
ImageRow(s, kind, img, pixels) ==
  [sample |-> s, kind |-> kind, seen |-> img.seen,
   image |-> img.scale,
   pixels |-> IF img.scale = "none" THEN "none" ELSE pixels]

(* agent.action() while some sample is active, and process_messages_vl.    *)
ActionChunk ==
  /\ pc = "loop" /\ ~is_final
  /\ Active # {}
  /\ active_mask' = Active
  /\ \E idx \in ArangeWhere(Active) :
       /\ messages' = [k \in DOMAIN idx |-> MemorizeRow(idx[k])]
       /\ sample_index_list' = Append(sample_index_list, idx)
       /\ final_mask_list' = Append(final_mask_list, [k \in DOMAIN idx |-> FALSE])
  /\ images' = <<>>
  /\ pc' = "generate"
  /\ UNCHANGED <<mode, ctx_length, step, is_final, memory, image_pixels,
                 gen_output, gen_output_list, masks, result>>

(* agent.action() when no sample is active: the memories of all samples    *)
(* are rendered and every question is asked. batch_generate_images leaves  *)
(* None for an image it cannot decode; _build_messages then leaves the     *)
(* image out of the prompt, and subsampling passes None on.                *)
ImageOf(s, lost) ==
  IF s \in lost THEN [seen |-> <<>>, scale |-> "none"]
                ELSE [seen |-> memory[s], scale |-> "full"]

ActionFinal ==
  /\ pc = "loop" /\ ~is_final
  /\ Active = {}
  /\ is_final' = TRUE
  /\ active_mask' = {}
  /\ \E lost \in SUBSET Samples : images' = [s \in Samples |-> ImageOf(s, lost)]
  /\ messages' = [s \in Samples |-> ImageRow(s, "answer", images'[s], image_pixels)]
  /\ sample_index_list' = Append(sample_index_list, [s \in Samples |-> s])
  /\ final_mask_list' = Append(final_mask_list, [s \in Samples |-> TRUE])
  /\ pc' = "generate"
  /\ UNCHANGED <<mode, ctx_length, step, memory, image_pixels, gen_output,
                 gen_output_list, masks, result>>

(* batch_generate_images raises when one request fails for good. Nothing   *)
(* between the agent and the trainer's main catches it.                    *)
RenderFails ==
  /\ pc = "loop" /\ ~is_final
  /\ Active = {}
  /\ is_final' = TRUE
  /\ active_mask' = {}
  /\ pc' = "failed"
  /\ UNCHANGED <<mode, ctx_length, step, memory, final_mask_list,
                 sample_index_list, image_pixels, messages, images, gen_output,
                 gen_output_list, masks, result>>

(* generate_with_graceful_padding_vl: one response per prompt, in order.   *)
(* A slip: out of order.                                                   *)
Respond_Reversed(rows) == Reverse(rows)

Respond(rows) == [k \in DOMAIN rows |-> rows[k]]

Generate ==
  /\ pc = "generate"
  /\ gen_output' = Respond(messages)
  /\ pc' = "update"
  /\ UNCHANGED <<mode, agent_vars, messages, images, gen_output_list, masks,
                 result>>

(* A rollout rank fails while a turn is generated; see RolloutDispatch.    *)
GenerateFails ==
  /\ pc \in {"generate", "generate_subsampled", "generate_gap_fill"}
  /\ pc' = "failed"
  /\ UNCHANGED <<mode, agent_vars, messages, images, gen_output,
                 gen_output_list, masks, result>>

(* self.memory[self.active_mask] = unpad(responses): the k-th response     *)
(* goes to the k-th active sample. A slip: the memory of the others is     *)
(* lost.                                                                   *)
Updated_OthersLost(idx) ==
  [s \in Samples |->
     IF s \in active_mask
     THEN gen_output[CHOOSE k \in DOMAIN idx : idx[k] = s].seen
     ELSE <<>>]

Updated(idx) ==
  [s \in Samples |->
     IF s \in active_mask
     THEN gen_output[CHOOSE k \in DOMAIN idx : idx[k] = s].seen
     ELSE memory[s]]

(* agent.update() and the append to gen_output_list. The code asserts that *)
(* there is a response for every active sample.                            *)
Update ==
  /\ pc = "update"
  /\ IF is_final
     THEN UNCHANGED memory
     ELSE /\ Len(gen_output) = Cardinality(active_mask)
          /\ \E idx \in ArangeWhere(active_mask) : memory' = Updated(idx)
  /\ step' = step + 1
  /\ gen_output_list' = Append(gen_output_list, gen_output)
  /\ pc' = "loop"
  /\ UNCHANGED <<mode, ctx_length, is_final, active_mask, final_mask_list,
                 sample_index_list, image_pixels, messages, images, gen_output,
                 masks, result>>
----------------------------------------------------------------------------
(* agent.end(): the masks and indices of all turns, concatenated. In       *)
(* triple mode the last turn is counted three times, and one mask per      *)
(* objective marks its own third of the final rows.                        *)
All(b) == [s \in Samples |-> b]

SingleMasks ==
  [final        |-> FlattenSeq(final_mask_list),
   sample_index |-> FlattenSeq(sample_index_list)]

(* Slips: subsampled and gap-fill thirds exchanged, the last turn counted  *)
(* only twice.                                                             *)
TripleMasks_Exchanged ==
  LET memorize == Front(final_mask_list)
      index    == Last(sample_index_list)
      Cat(tail) == FlattenSeq(memorize \o tail)
  IN  [final        |-> FlattenSeq(final_mask_list \o <<All(TRUE), All(TRUE)>>),
       vanilla      |-> FlattenSeq(final_mask_list \o <<All(FALSE), All(FALSE)>>),
       subsampled   |-> Cat(<<All(FALSE), All(FALSE), All(TRUE)>>),
       gap_fill     |-> Cat(<<All(FALSE), All(TRUE), All(FALSE)>>),
       sample_index |-> FlattenSeq(sample_index_list \o <<index, index>>)]

TripleMasks_CountedTwice ==
  LET memorize == Front(final_mask_list)
      index    == Last(sample_index_list)
  IN  [final        |-> FlattenSeq(final_mask_list \o <<All(TRUE)>>),
       vanilla      |-> FlattenSeq(final_mask_list \o <<All(FALSE)>>),
       subsampled   |-> FlattenSeq(memorize \o <<All(FALSE), All(TRUE)>>),
       gap_fill     |-> FlattenSeq(memorize \o <<All(FALSE), All(TRUE)>>),
       sample_index |-> FlattenSeq(sample_index_list \o <<index>>)]

TripleMasks ==
  LET memorize == Front(final_mask_list)
      index    == Last(sample_index_list)
      Cat(tail) == FlattenSeq(memorize \o tail)
  IN  [final        |-> FlattenSeq(final_mask_list \o <<All(TRUE), All(TRUE)>>),
       vanilla      |-> FlattenSeq(final_mask_list \o <<All(FALSE), All(FALSE)>>),
       subsampled   |-> Cat(<<All(FALSE), All(TRUE), All(FALSE)>>),
       gap_fill     |-> Cat(<<All(FALSE), All(FALSE), All(TRUE)>>),
       sample_index |-> FlattenSeq(sample_index_list \o <<index, index>>)]

(* The end of run_llm_loop_vl: agent.end(), the two assertions, and the    *)
(* concatenation of the turns.                                             *)
CountTrue(mask) == Cardinality({k \in DOMAIN mask : mask[k]})

EndSingle ==
  /\ pc = "loop" /\ is_final /\ mode = "single"
  /\ LET rows == FlattenSeq(gen_output_list)
     IN  /\ Len(SingleMasks.sample_index) = Len(rows)
         /\ CountTrue(SingleMasks.final) = Len(ctx_length)
         /\ result' = [rows |-> rows, masks |-> SingleMasks]
  /\ masks' = SingleMasks
  /\ pc' = "returned"
  /\ UNCHANGED <<mode, agent_vars, messages, images, gen_output, gen_output_list>>

(* agent.end(triple_answer_turn=True), batch_subsample_images on the       *)
(* images of the final turn and process_messages_vl with the texts of the  *)
(* final turn. The pixel budget the prompts carry is the agent's at this   *)
(* point; it is lowered only afterwards, around the generation.            *)
Subsampled(img) ==
  IF img.scale = "none" THEN img ELSE [img EXCEPT !.scale = "quarter"]

EndTriple ==
  /\ pc = "loop" /\ is_final /\ mode = "triple"
  /\ Len(Last(final_mask_list)) = Len(ctx_length)
  /\ CountTrue(Last(final_mask_list)) = Len(ctx_length)
  /\ masks' = TripleMasks
  /\ messages' = [s \in Samples |->
                    ImageRow(messages[s].sample, "subsampled",
                             Subsampled(images[s]), image_pixels)]
  /\ image_pixels' = "quarter"
  /\ pc' = "generate_subsampled"
  /\ UNCHANGED <<mode, ctx_length, step, is_final, active_mask, memory,
                 final_mask_list, sample_index_list, images, gen_output,
                 gen_output_list, result>>

(* The subsampled turn is generated, the pixel budget restored, and the    *)
(* gap-fill prompts are built: the question of row s hides a word of the   *)
(* memory of sample s, the image is the full-size one.                     *)
GenerateSubsampled ==
  /\ pc = "generate_subsampled"
  /\ gen_output' = Respond(messages)
  /\ image_pixels' = "vanilla"
  /\ messages' = [s \in Samples |->
                    ImageRow(s, "gap_fill", images[s], image_pixels')]
  /\ pc' = "generate_gap_fill"
  /\ UNCHANGED <<mode, ctx_length, step, is_final, active_mask, memory,
                 final_mask_list, sample_index_list, images, gen_output_list,
                 masks, result>>

(* The gap-fill turn is generated, both extra turns are appended, the      *)
(* assertions on the lengths are made and the call returns. The hidden     *)
(* words, collected by agent.end() memory by memory, go to the caller.     *)
GenerateGapFill ==
  /\ pc = "generate_gap_fill"
  /\ LET turns == gen_output_list \o <<gen_output, Respond(messages)>>
         rows  == FlattenSeq(turns)
     IN  /\ Len(masks.sample_index) = Len(rows)
         /\ Len(masks.final) = Len(rows)
         /\ CountTrue(masks.final) = 3 * Len(ctx_length)
         /\ CountTrue(masks.vanilla) = Len(ctx_length)
         /\ CountTrue(masks.subsampled) = Len(ctx_length)
         /\ CountTrue(masks.gap_fill) = Len(ctx_length)
         /\ gen_output_list' = turns
         /\ result' = [rows |-> rows, masks |-> masks,
                       gap_fill_answers |-> memory]
  /\ pc' = "returned"
  /\ UNCHANGED <<mode, agent_vars, messages, images, gen_output, masks>>

(* After an exception the trainer process ends. A new process starts with  *)
(* a new manager and a new agent.                                          *)
Restart ==
  /\ pc = "failed"
  /\ pc' = "idle"
  /\ mode' = "single"
  /\ ctx_length' = <<>>
  /\ step' = 0
  /\ is_final' = FALSE
  /\ active_mask' = {}
  /\ memory' = <<>>
  /\ final_mask_list' = <<>>
  /\ sample_index_list' = <<>>
  /\ image_pixels' = "vanilla"
  /\ messages' = <<>>
  /\ images' = <<>>
  /\ gen_output' = <<>>
  /\ gen_output_list' = <<>>
  /\ masks' = NoMasks
  /\ result' = NoResult

(* The steps the driver takes by itself once a call was made.              *)
Drive ==
  \/ ActionChunk
  \/ ActionFinal
  \/ Generate
  \/ Update
  \/ EndSingle
  \/ EndTriple
  \/ GenerateSubsampled
  \/ GenerateGapFill

Next ==
  \/ \E n \in 1..MaxBatchSize : \E lengths \in [1..n -> 0..MaxPromptLength] :
       \E m \in {"single", "triple"} : Start(m, lengths)
  \/ Drive
  \/ RenderFails
  \/ GenerateFails
  \/ Restart

(* The driver is one thread that runs the loop without waiting for anybody *)
(* but the calls it makes; those return or raise (RolloutDispatch,         *)
(* MemoryRendering).                                                       *)
Fairness == WF_vars(Drive)

Spec == Init /\ [][Next]_vars /\ Fairness
----------------------------------------------------------------------------
Tokens  == (1..MaxBatchSize) \X (1..MaxPromptLength)
Rows    == [sample : 1..MaxBatchSize,
            kind   : {"memorize", "answer", "subsampled", "gap_fill"},
            seen   : Seq(Tokens),
            image  : {"none", "full", "quarter"},
            pixels : {"none", "vanilla", "quarter"}]

(* Types of the variables that TLAPS and TLC both follow.                  *)
TypeOK ==
  /\ pc \in {"idle", "loop", "generate", "update", "generate_subsampled",
             "generate_gap_fill", "returned", "failed"}
  /\ mode \in {"single", "triple"}
  /\ ctx_length \in Seq(0..MaxPromptLength) /\ Len(ctx_length) <= MaxBatchSize
  /\ step \in Nat
  /\ is_final \in BOOLEAN
  /\ active_mask \subseteq Samples
  /\ memory \in [Samples -> Seq(Tokens)]
  /\ final_mask_list \in Seq(Seq(BOOLEAN))
  /\ sample_index_list \in Seq(Seq(Samples))
  /\ image_pixels \in {"vanilla", "quarter"}
  /\ messages \in Seq(Rows)
  /\ images \in Seq([seen : Seq(Tokens), scale : {"none", "full"}])
  /\ gen_output \in Seq(Rows)
  /\ gen_output_list \in Seq(Seq(Rows))

(* What is read of a context after n turns.                                *)
ReadAfter(s, n) == SubSeq(Context(s), 1, Smaller(ChunkSize * n, ctx_length[s]))

(* At every moment of a batch the memory of a sample was drafted from a    *)
(* prefix of its own context, in order and without gap or repetition: as   *)
(* many chunks as turns have passed, or the whole context once it is used  *)
(* up (the slicing in action() against the mask, step and assignment in    *)
(* update()).                                                              *)
MemoryIsReadPrefix == \A s \in Samples : memory[s] = ReadAfter(s, step)

(* The rows of one turn against the index and the mask of the turn.        *)
TurnMatches(rows, index, mask) ==
  /\ Len(index) = Len(rows)
  /\ Len(mask) = Len(rows)
  /\ \A k \in DOMAIN rows :
       /\ rows[k].sample = index[k]
       /\ mask[k] <=> rows[k].kind = "answer"

(* The tensors the agent collects and the responses the manager collects   *)
(* stay row by row in step: entry k of the index of a turn names the       *)
(* sample of response k, and the final mask is set exactly on answers      *)
(* (action() and update() against gen_output_list.append).                 *)
RowsMatchIndex ==
  /\ Len(final_mask_list) = Len(sample_index_list)
  /\ \A t \in DOMAIN sample_index_list \cap DOMAIN gen_output_list :
       TurnMatches(gen_output_list[t], sample_index_list[t], final_mask_list[t])

(* What the caller gets out of the result with final_batch, for each       *)
(* objective: row s is the answer to the question of sample s, drawn from  *)
(* an image of a memory of the whole context of sample s and of nothing    *)
(* else, in the resolution of the objective and the full pixel budget;     *)
(* only an image that could not be decoded is missing, and then from all   *)
(* objectives alike.                                                       *)
AnswerOf(mask, kind, scale) ==
  LET answers == FinalBatch(result.rows, mask, result.masks.sample_index)
      Seen(s) == IF images[s].scale = "none"
                 THEN [seen |-> <<>>, image |-> "none", pixels |-> "none"]
                 ELSE [seen |-> Context(s), image |-> scale, pixels |-> "vanilla"]
  IN  answers = [s \in Samples |->
                   [sample |-> s, kind |-> kind, seen |-> Seen(s).seen,
                    image |-> Seen(s).image, pixels |-> Seen(s).pixels]]

ResultAnswersEverySample ==
  (pc = "returned") =>
    IF mode = "single"
    THEN AnswerOf(result.masks.final, "answer", "full")
    ELSE /\ AnswerOf(result.masks.vanilla, "answer", "full")
         /\ AnswerOf(result.masks.subsampled, "subsampled", "quarter")
         /\ AnswerOf(result.masks.gap_fill, "gap_fill", "full")

(* The three objectives divide the final rows among themselves, and the    *)
(* hidden word the trainer scores gap-fill row s against is of the memory  *)
(* the image of that row was drawn from (end(triple_answer_turn=True)).    *)
ObjectivesPartitionFinalRows ==
  (pc = "returned" /\ mode = "triple") =>
    LET m == result.masks
        gaps == FinalBatch(result.rows, m.gap_fill, m.sample_index)
    IN  /\ \A k \in DOMAIN result.rows :
             m.final[k] <=> Cardinality({o \in {"vanilla", "subsampled", "gap_fill"} :
                                            m[o][k]}) = 1
        /\ \A s \in Samples :
             gaps[s].image = "none" \/ gaps[s].seen = result.gap_fill_answers[s]

(* The training rows of a sample are one per chunk of its context and in   *)
(* the order of the chunks: no sample is trained on an empty chunk, on a   *)
(* chunk twice or without one of its chunks.                               *)
MemorizeRowsOf(s) ==
  SelectRows(result.rows, [k \in DOMAIN result.rows |->
                            result.rows[k].kind = "memorize" /\ result.rows[k].sample = s])

OneRowPerChunk ==
  (pc = "returned") =>
    \A s \in Samples :
      LET turns == MemorizeRowsOf(s)
          chunks == (ctx_length[s] + ChunkSize - 1) \div ChunkSize
      IN  /\ Len(turns) = chunks
          /\ \A k \in 1..chunks :
               turns[k].seen = ReadAfter(s, k)

(* The DataProto a batch ends with is complete: every sample is answered,  *)
(* once per objective, from all it read, and trained on all its chunks     *)
(* (end() of the agent and the concatenation in the generation manager).   *)
ResultIsComplete ==
  ResultAnswersEverySample /\ ObjectivesPartitionFinalRows /\ OneRowPerChunk

(* The loop implements sequential reading of every sample by itself. The   *)
(* answer of a sample is the row generated for its question.               *)
Generated == UNION {Range(turn) : turn \in Range(gen_output_list)}

AnswersTo(s) == {row \in Generated : row.kind = "answer" /\ row.sample = s}

AnswerIn(rows) == IF rows = {} THEN NoAnswer ELSE (CHOOSE row \in rows : TRUE).seen

Answers == [s \in Samples |-> AnswerIn(AnswersTo(s))]

Reading == INSTANCE SequentialReading WITH
             length <- ctx_length, read <- memory, answer <- Answers

ImplementsReading == Reading!Spec

(* A batch does not keep the driver forever: the call returns, or the      *)
(* process fails.                                                          *)
BatchCompletes == pc = "loop" ~> pc \in {"returned", "failed"}

(* What run_llm_loop_vl_triple_turn logs for the subsampled turn           *)
(* ("Subsampled images generation with min_pixels ... and max_pixels"):    *)
(* every prompt that shows an image carries the lowered pixel budget. The  *)
(* prompts were built before the budget was lowered.                       *)
SubsampledTurnHasLowerBudget ==
  pc = "generate_subsampled" =>
    \A k \in DOMAIN messages :
      messages[k].image # "none" => messages[k].pixels = "quarter"
=============================================================================
