# A TLA+ model of MemOCR

MemOCR trains and evaluates a language model that reads a long context chunk by chunk, drafts a
markdown memory after every chunk, renders the last memory as an image and answers the question
from that image. The repository holds the recurrent generation loop (`recurrent/`), the rendering
service and its client (`md2img/`, `recurrent/impls/call_md_renderer.py`), experiment tooling
(`src/experiment.py`, `scripts/`), evaluation clients (`taskutils/`) and a modified copy of the
verl trainer (`verl/`, `recipe/`). This directory models what is MemOCR's own, and those parts of
verl it leans on: the training step, checkpoints, the agent loop, and the one recipe in which
training and generation overlap. Paths below are relative to the root of the repository.

Contents: 1 the system, 2 the modules, 3 what the runs show, 4 fairness, 5 proofs, 6 findings,
7 what is not modelled, 8 plan.

## 1. The system

### Components and how they meet

```
 scripts/memory_train.py, memory_eval.py         verl/trainer/ppo/ray_trainer.py (driver process)
   | start_run / save_checkpoint / end_run         |        |         | _save_checkpoint,
   v                                               |        |         v _load_checkpoint
 src/experiment.py --- registry.jsonl, run dirs    |        |   utils/checkpoint/*.py (ranks, files)
   ^                                               |        | compute_log_prob, update_actor
   | one process per trial                         |        v
 scripts/memory_sweep.py                           |   workers/actor/dp_actor.py (ranks, collectives)
                                                   | run_llm_loop_vl(_triple_turn), one per batch
                                                   v
                                        recurrent/generation_manager.py
                                           | start/action/update/end   | generate_with_
                                           v                           | graceful_padding
                               impls/memory_img_final_only_triple.py   v
                                           | batch_generate_images   recurrent/utils.py,
                                           v  (threads, HTTP, retries) verl worker group
                               impls/call_md_renderer.py             (ranks, Ray)
                                           v
                               md2img/markdown_api_server.py <--- taskutils/memory_eval (coroutines,
                                  (queue, threads, a browser each)      result files)

 verl/experimental/agent_loop/agent_loop.py        recipe/one_step_off_policy/ray_trainer.py
   manager -> workers -> inference servers           driver -> actor ranks     (queue of calls)
   workers -> reward threads -> BatchExecutor               -> rollout ranks   (queue of calls)
   worker -> tool_agent_loop.py, one per sample             -> reward tasks
```

The generation manager and the agent share one object graph in the driver process and call each
other directly. The manager talks to the ranks through blocking remote calls, the agent to the
rendering service through HTTP. Experiment processes share only files, and so do the processes of
one training run, which resume from its checkpoints, and those of an evaluation, which append to
its result file. The two systems at the bottom take the place of the recurrent loop in other
configurations of the trainer.

| component | state it keeps | operations | what is hard | what makes it correct |
|---|---|---|---|---|
| Batch index arithmetic (`recurrent/utils.py`) | none | `graceful_padding`, `indexing_proto`, `reverse_indices`, `final_batch` | boundaries: batch smaller than, equal to, just above a multiple of the world size | padding is spread and can be undone |
| Rollout dispatch (`generation_manager.py`, `decorator.py`) | rows and mask of the call, answers of ranks | `generate_with_graceful_padding(_vl)`, dispatch, collect | ranks finish in any order; several ranks answer one shard; one fails | response k belongs to prompt k, one per prompt |
| Recurrent loop (`generation_manager.py`, `memory_img_final_only_triple.py`) | memories, active mask, masks and indices per turn, responses per turn, pixel budget | `start`, `action`, `update`, `end`, three final turns | samples drop out at different turns; three objectives share rows; one agent serves all batches | every answer and every training row goes to its own sample and objective |
| Rendering client (`call_md_renderer.py`) | futures, attempts, results by index | `batch_generate_images`, retries | timeouts racing late answers; completion order | an image belongs to its text; the call ends |
| Rendering service (`markdown_api_server.py`) | request queue, thread-local browsers | render a request, launch a browser | a launch that fails or a browser that dies, for a thread that lives on | the queue drains |
| Training step (`ray_trainer.py`, `dp_actor.py`, `seqlen_balancing.py`) | the training batch, shares, mini- and micro-batches | rewards and advantages of three objectives, log probabilities, update | rows taken apart and put together by index, twice padded; collectives all ranks must enter | every row is trained once, with the numbers of its own sample and objective; no rank waits for ever |
| Checkpoint and resume (`ray_trainer.py`, `checkpoint_manager.py`, `fsdp_checkpoint_manager.py`) | shards, data loader, tracker, paths saved | save, rotate, load, three resume modes | a kill between any two effects on files | the tracked checkpoint is whole; all processes are one training |
| Experiment lifecycle (`experiment.py`, `memory_train.py`, `memory_eval.py`) | the active run, aggregator, registry, checkpoints | `start_run`, `log_metrics`, `save_checkpoint`, `end_run` | an exception or a kill between any two effects; trials sharing a directory | the registry tells the truth about files and exit codes |
| Evaluation clients (`taskutils/memory_eval`) | coroutines, answers, result and readout files | `async_main`, `async_query_llm`, `get_pred` | items that fail while others run; kills; resuming from a file | no answer lost, doubled or given to another item |
| Tool agent (`tool_agent_loop.py`) | ids, masks, log-probabilities, images of a conversation | generate, call tools, interact | concurrent tools; four lists that grow in four places; lengths | they stay in step; the conversation ends |
| Agent loop (`agent_loop.py`) | loads and sticky sessions, the reward executor's queue | `generate_sequences`, `generate`, `compute_score`, batching | shared caches between awaits; threads waiting for an executor that waits for threads | rows in order with their own scores; every call ends |
| One-step-off trainer (`recipe/one_step_off_policy`) | weights of two groups, the batch in flight, loader | sync, generate ahead, train, validate, save | training and generation side by side; kills with a batch in flight | which weights generate, train, are evaluated and saved |
| Sweep driver (`memory_sweep.py`) | a process pool | start a trial, count exit codes | trials that fail | counts agree with outcomes |
| Metric logging (`src/verl_logging.py`) | per-step metrics | collective reduction, gated logging | a collective only some ranks enter | all ranks enter or none |
| Asynchronous memory agents (`async_generation_manager.py`, `async_utils.py`) | conversations as coroutines | start, chat completion, end | disabled by the trainer | |

The last three are not modelled; section 7 says why.

## 2. The modules

| module | models | kind |
|---|---|---|
| `BatchIndexing` | index arithmetic | operators |
| `RowwiseGeneration` | what a generation call promises | abstract specification |
| `RolloutDispatch` | one generation call over ranks and replicas | implements `RowwiseGeneration` |
| `RolloutDispatch_proofs` | | theorems |
| `SequentialReading` | what recurrent reading promises each sample | abstract specification |
| `RecurrentLoop` | manager and agent, batch after batch | implements `SequentialReading`; extends `BatchIndexing` |
| `RecurrentLoop_proofs` | | theorems |
| `BatchRendering` | what `batch_generate_images` promises | abstract specification |
| `MemoryRendering` | client threads, service queue, threads, browsers | implements `BatchRendering` |
| `MemoryRendering_proofs` | | theorems, those of `EvaluationClient` among them |
| `ExperimentLifecycle` | experiment manager driven by the scripts | |
| `ExperimentLifecycle_proofs` | | theorems |
| `SeqlenBalancing` | micro-batches by tokens | operators |
| `TrainingStep` | trainer and ranks, one step from the rows of the loop | extends `BatchIndexing`, `SeqlenBalancing` |
| `TrainingStep_proofs` | | theorems; uses the lemmas of `RolloutDispatch_proofs` |
| `DurableTraining` | what checkpoints promise | abstract specification |
| `CheckpointResume` | files, ranks and processes of a run | implements `DurableTraining` |
| `CheckpointResume_proofs` | | theorems |
| `EvaluationClient` | both evaluation scripts over their result file | extends `BatchIndexing` |
| `ToolAgentLoop` | one conversation | |
| `AgentLoop` | manager, workers, reward executor | a conversation is its turns |
| `AgentLoop_proofs` | | theorems, those of `ToolAgentLoop` among them |
| `OneStepOff` | driver and two groups of workers | a checkpoint is one step |
| `OneStepOff_proofs` | | theorems |

The instances are small enough to be given in the `.cfg` files themselves: every bound is a
CONSTANT of its module. Operators named `X_Something` are slips: `X` with a plausible mistake.
They are not used by the specifications. Each stands before the definition it varies, and serves to
confirm that the properties notice the mistake.

### BatchIndexing and RolloutDispatch

A batch of rows is a sequence; index 0 of the code is 1 here. `NoPaddingMask` and `PaddingIndex`
are the two results of `graceful_padding`: with `bsz = q * world_size + r`, `r > 0`, every rank gets
`q + 1` slots, and the groups from `r` on begin with a padding slot. `SelectRows`/`TakeRows` are
`indexing_proto` with a boolean mask and with integers; `FinalBatch` is `final_batch`. `SetPlaces`
lists the places where a mask is set: the k-th is the one with k set places up to it. It is stated
that way, without a recursion over the mask, so that it can be reasoned about.

`RolloutDispatch` is one `generate_sequences` call: `GenerateSequences` pads, `RankGenerates(w)` is
a rank working on the shard of its replica, `RankFails(w)` an exception that `ray.get` raises, and
`Return` collects the first rank of every replica in rank order and drops padding slots. The module
picks the world size and the replica size in `Init`. A response remembers the slot it was made in,
which is how padding that survives is told from the row it duplicates. After a failure no further
call is made: nothing between the call and the trainer's `main` catches it.

### RecurrentLoop

`Start` is a call of the loop and `agent.start()`. `ActionChunk` and `ActionFinal` are the two
branches of `agent.action()` together with the manager's `process_messages_vl`; `Generate` is the
generation call, `Update` is `agent.update()` and the append to `gen_output_list`. `EndSingle`,
`EndTriple`, `GenerateSubsampled`, `GenerateGapFill` are the rest of the two loop functions, with
the assertions of the code as guards, so that a failing assertion would show as a batch that does
not complete. `RenderFails`, `GenerateFails` and `Restart` are exceptions, and the new process that
follows. `Drive` collects what the driver does by itself.

Data is abstracted to what decides whether rows are mixed up. A token is its sample and position;
a memory is the sequence of tokens it was drafted from; a prompt row is the sample it asks about,
its kind, what it sees, its image and its pixel budget, which only a row with an image has, as
`_build_messages` attaches it to the image; a response is the prompt it came from.
Two boundaries of the module are the subjects of others: that a generation call returns one
response per row in order (`RowwiseGeneration`, shown of `RolloutDispatch`), and that the images of
a batch come back in order or the call raises (`BatchRendering`, shown of `MemoryRendering`). An
image that arrives but cannot be decoded is in `ActionFinal` as the set `lost`.

### MemoryRendering

The client half is `batch_generate_images`: a text is queued, posted by a thread of the pool,
answered or not, retried after a sleep up to `MaxRetries` times; the main thread takes futures in
the order they complete. The service half is the executor's queue, its threads, and the browser of
each thread. A timeout of the client (`AttemptFails`) does not remove the request from the service,
so abandoned requests are rendered later, possibly in the next call; `Awaited` says whom an answer
reaches. `LaunchFails` sets the thread-local mark without a browser, as the code does, and
`BrowserDies` leaves the mark in place.

### ExperimentLifecycle

Every process runs one script with one manager and one run; `pc` is its place in the script.
`StartRun` and `RecordRunning` are the two halves of `start_run`, `Epoch`, `OpenMetadata` and
`WriteMetadata` are `train_loop` and `save_checkpoint`, `RecordCompleted` and `Finish` are
`end_run`. `Handle` and `FinishFailed` are the except clause of the scripts. `Fault` is an
exception at any place where a call may raise, `Kill` a killed process. Steps are as fine as the
effects another process, or the registry's reader, can tell apart: opening `metadata.json` empties
it, and writing it comes later. `Tick` moves the clock from which run directories take their name.

What can be relied on afterwards differs between the scripts, and the properties say how.
`memory_eval.py` exits with 0 exactly if its run completed, up to one exception
(`ExitCodesAreSound`); `memory_train.py` never does, so of a training only the registry tells
(`OneFaultIsRecorded`, section 6). A completed training has its own, loadable checkpoints if its
directory is its own (`CompletedMeansSaved`); in a directory that trials share the files exist, and
whose they are is open (section 6).

### SeqlenBalancing and TrainingStep

`TrainingStep` starts where `RecurrentLoop` ends: `LoopRows` is what that module guarantees of the
result (`RowsMatchIndex`, `OneRowPerChunk`, `ObjectivesPartitionFinalRows`). `Rollout`, `Reward`,
`Advantage`, `UpdateActor` and `Metrics` are the driver's stages of `fit`; between them two calls
run on the ranks. A rank's operations are collectives: `Enter(w)` is the rank's arrival, `Count`,
`Forward` and `OptimizerStep` happen when all are there, and `AllEnteredFor` demands that they came
for the same one, which is how disagreement shows as waiting for ever. Numbers are their origins: a
score is the response and the ground truth it was computed from, an advantage the scores it
compares, a log probability its row. `KarmarkarKarp` is the partition as the code computes it, heap
order included, because which rows share a micro-batch with a padding row depends on it. The heap is
the set of its states, of which no two compare equal, and `heap[n]` is what it holds after `n`
merges; sorting is by insertion. All of them are functions over the numbers or the sequences they
work on, which the prover can reason about where a recursive operator is out of its reach.

A micro-batch may be a padding row alone, on which the model runs with no token at all.
`PaddingAloneOnlyIfFull` says exactly when: a mini-batch is cut into single rows, because some rank
has more tokens in it than all its rows but one may fill. Nothing rules that out. The checks of the
mini-batch size are skipped with `use_dynamic_bsz` (`workers/config/actor.py:152-157`),
`rearrange_micro_batches` asks only that a row fits into the budget, and the longest rows
`scripts/train.sh` admits make a mini-batch of 4 that takes 4 * 14,336 = 57,344 tokens where three
micro-batches of 16,384 have room for 49,152.

### CheckpointResume

Files are absent, partial or complete; opening and closing are different actions, for a kill
may come in between. `RemoveFile`, `MakeFolder`, `OpenShard`, `CloseShard` and `AllWritten` are
`save_checkpoint` on the ranks, between its barriers; `OpenData` to `CloseTracker` the rest of
`_save_checkpoint`. `StartAuto`, `StartAtPath` and `StartDisabled` are the resume modes. A model is
the sequence of batches it was trained on, each marked with the process that did it, so that two
trainings of one batch differ. An operator who goes back behind the tracked step by hand is
remembered in `followed`; what is promised is promised to runs that follow the tracker.

### EvaluationClient

`Acquire`, `Answered` and `Failed` are a coroutine at its awaits: the semaphore, a chunk, the
question. `Gather` ends `async_main`, `WriteLine` and `Finish` are `get_pred`. Lines are buffered
and reach the file at the end, or in part when the process is killed, the last one possibly cut
(`Cut`); what is appended to a cut line becomes part of it (`Flushed`). `script` chooses between
`ruler_hqa.py`, which asks one question per item and skips items of the file, and `test_qa.py` with
`memocr_md.py`, which reads chunks, renders the memory and asks for everything again.

### ToolAgentLoop and AgentLoop

`ToolAgentLoop` is one run of the state machine: `Answer` is the generating state, the `ToolStep`
actions are the coroutines of `_call_tool`, `HandleResponses` is what follows `gather`, and
`UserAnswers` the interacting state. A token says who said it; `Output` is what `run` returns, with
Python's slice from `-0`. A coroutine of a conversation that raised runs on, as asyncio leaves it.
A prompt may be longer than `prompt_length`, up to the bound `MaxPrompt`: the data set measures it
without the tools that are rendered into it. A response may have several images, of which the first
is the one with a placeholder (`ImagesFrom`). `RequestsFit` and `ImagesHaveTokens` say what holds
in spite of that, section 6 what does not.

`AgentLoop` has the conversations as turns. `Generate` chooses a server through the LRU cache and
the heap of loads, `Submit` occupies a thread of the worker's pool until the executor answers,
`Take`, `QueueEmpty` and `Run` are the executor's loop with its three places to wait. Whether it
waits for ever depends on how many `threads` a pool has, which is fixed at the start;
`ThreadsSuffice` is the condition under which `EveryCallEnds` says that it does not.

### OneStepOff

The driver's `phase` is its place in `fit`. Two groups of Ray actors have a queue of calls each;
`Sync` is at the head of both at once, being a collective. `Launch` and `LaunchGeneration` are the
two halves of `_async_gen_next_batch`, with a wait between them. Weights are the sequence of
updates that made them, so that the version that generated a batch can be compared with the one it
trains. `Balance` takes any order that `_balance_batch` can give.

## 3. What the runs show

| run | bounds | distinct states | what it shows |
|---|---|---|---|
| `dispatch` | batches of up to 7, up to 4 ranks, every replica size | 1,044 | `CallIsConsistent` (`PaddingIsDropped`), `WorkIsBalanced`, refinement of `RowwiseGeneration`, `CallCompletes` |
| `loop` | up to 3 samples, 0 to 4 tokens each, chunks of 2 | 18,305 | `MemoryIsReadPrefix`, `RowsMatchIndex`, `ResultIsComplete` (`ResultAnswersEverySample`, `ObjectivesPartitionFinalRows`, `OneRowPerChunk`), refinement of `SequentialReading`, `BatchCompletes` |
| `loop_pixels` | 1 sample, 1 token | | finding 1 |
| `rendering` | 2 texts, 2 calls, 2 client and 2 service threads, 2 attempts, 1 browser fault | 938,945 | `RenderingIsConsistent` (`ReturnsEveryImage`, `RaisedForAReason`), refinement of `BatchRendering`, `CallEnds`, `ServiceDrains` |
| `lifecycle` | two trials and an evaluation, 3 epochs, a checkpoint every 2, clock 0..1, up to 2 exceptions each | 1,254,221 | `RecordsInOrder`, `CompletedMeansSaved`, `OutcomesAreRecorded` (`ExitCodesAreSound`, `OneFaultIsRecorded`), `ScriptsEnd` |
| `training_step` | 2 prompts with 2 rollouts each, up to 2 chunks, up to 4 ranks, rows of 1 or 2 tokens, a budget of 3, mini-batches of 3 | 101,050 | `ForwardsAreSound` (`NoImageWithoutTokens`, `PaddingAloneOnlyIfFull`), `AdvantageIsOwn`, `LogProbsAreOwn`, `EveryRowTrainedOnce`, `StepCompletes` |
| `checkpoint` | 2 ranks, 4 steps, a checkpoint every 2, two or all kept, 3 processes | 724,949 | `RunIsConsistent` (`EveryBatchOnce`, `RotatesOwnCheckpoints`), `TrackedIsWhole`, `RunEnds`, refinement of `DurableTraining` |
| `evaluation` | 3 items, up to 2 chunks, a semaphore of 2, 2 attempts, 2 processes | 599,346 | `FilesAreConsistent` (`OneLinePerItem`, `ReadoutsCoverLines`), `AnswersAreOwn`, `EvaluationEnds` |
| `tool_agent` | 2 prompt and 9 response tokens, prompts of up to 3, answers of up to 2 tokens and 3 calls of which 2 run, up to 2 images per response, no limit on turns | 544,676 | `RequestsAreConsistent` (`RequestsFit`, `ImagesHaveTokens`, `ResponsesFollowCalls`), `OutputIsAligned`, `ConversationEnds` |
| `agent_loop` | 2 workers, 2 servers, batches of 2 to 4, 0, 2 or 4 reward ranks, pools of 1 or 2 threads, a cache of 2, 2 calls, 1 exception | 666,862 | `SessionsAreSound` (`SessionsAreSticky`, `LoadIsBalanced`, `NoRequestToSleepers`), `RowsAreOwn`, `EveryCallEnds` (if `ThreadsSuffice`) |
| `one_step_off` | 6 steps in 1, 2 or 3 epochs, a checkpoint every 4, validation every 3, 4 rows on 2 ranks, 3 processes, 1 error of the loader | 21,321 | `TrainingIsConsistent` (`TrainedInOrder`, `EndIsSaved`, `EvaluatesRecentWeights`, `RewardsAreOwn`), `OneStepOffPolicy`, `TrainingEnds` |
| `one_step_rewards` | the same | | finding 2 |

Names in brackets are the parts of a conjunction: an invariant of that name gathers what one
mechanism must keep, its type invariant included, and each part is a definition with a comment of
its own. `loop` and `lifecycle` check `TypeOK` by itself, being proved by itself.

Why the bounds are enough to meet the interesting cases:

- `dispatch`: with 7 rows and 4 ranks every remainder occurs, with batches smaller and larger than
  the world; replicas of 1, 2 and 4 ranks occur for the same world.
- `loop`: lengths 0, 1, 2, 3, 4 with chunks of 2 are the empty context, one inside a chunk, and one
  that ends on a boundary, for one and for two chunks; three samples allow a set of active samples
  that is neither a prefix nor a suffix of the batch; batches follow each other on the same agent,
  in either mode, without a bound on their number.
- `rendering`: two texts over two threads complete in both orders; two attempts give one retry; two
  calls let an abandoned request be answered in the next one; two threads of the service let an
  attempt finish after its retry, and one whose browser has died leaves the other to serve.
- `lifecycle`: the third epoch follows the only checkpoint, so that a run may complete without one
  for its last step; one tick separates trials started in the same second from trials that are not;
  two exceptions may strike in the body of a script and then in its except clause.
- `training_step`: contexts of different length make the number of rows indivisible by the ranks
  and by mini-batches; the token budget is met exactly, missed by one and exceeded. A mini-batch of
  three rows wants one, two or three micro-batches, ranks want different numbers of them, and with
  four ranks a padding row shares a mini-batch that another rank wants cut into single rows.
- `checkpoint`: two saves in one process and one more in the next make the rotation work on its own
  paths and leave those of the process before; three processes are a kill in each half of a save
  and a process to end the run.
- `evaluation`: three items over two places make one wait; a kill in the first process leaves the
  second a file with whole lines, a cut one or none.
- `tool_agent`: a prompt inside its length, of that length, and longer by one; no image, one and
  two; more calls than may run at once; every length of the response up to its end.
- `agent_loop`: the two samples of a worker fill its cache, so that the second call drops entries of
  the first; 4 reward ranks need every thread of both workers at once, 2 need items of one worker or
  of both; batches of 2 and 3 are refused by the ranks, or by the workers. With pools of one thread
  a batch of 4 has samples that wait for a thread while others wait for the executor: with 2 ranks
  the threads make a micro batch, with 4 they do not, and without `ThreadsSuffice` TLC finds the
  call that waits for ever.
- `one_step_off`: one epoch, an epoch that ends at a checkpoint, and one that ends before it; the
  resumed process starts within an epoch and between two.

Runs without deadlock checking are those whose system really stops: a dispatch that raised is not
called again, renderings stop after `MaxBatches` calls, scripts exit, a step, a conversation, a run
or an evaluation is over. The loop is checked for deadlock: a failing assertion of the code would be
one. The others say what must happen as liveness properties.

## 4. Fairness

- `RecurrentLoop`: weak fairness of `Drive`. The driver is a single thread that goes on by itself
  after each call returns or raises. Starting a batch, failing and restarting are not fair.
- `RolloutDispatch`: a rank that does not fail answers, and `ray.get` returns once all have. No
  fairness on failures or on new calls.
- `MemoryRendering`: a free thread of the client takes the next text; an attempt ends at the latest
  with its timeout (`AttemptFails`, 30 s); a sleep ends; the main thread takes a completed future.
  A service thread that is free takes a request, and one at work answers it, because every call
  into the browser has a timeout. That browsers die is not fair, nor that launches succeed.
- `ExperimentLifecycle`: a process that is not killed goes on to its next statement.
- `TrainingStep`: the driver goes on when its call has returned, a rank goes on to its next
  collective, and a collective all ranks have entered ends.
- `CheckpointResume`: a process goes on, and a process that is gone is started again in mode
  `auto`, the default, as a job scheduler does; kills are not fair, and `MaxLives` leaves a process
  to end the run. A start that raises is no step: with an empty tracker nothing starts, and
  `RunEnds` says so.
- `EvaluationClient`: the event loop runs what can run, and a request ends by an answer or by its
  timeout. No fairness on answers rather than failures, on kills or on starts.
- `ToolAgentLoop`: servers, tools and users answer; each coroutine that is ready is resumed.
- `AgentLoop`: per sample, its coroutine; the executor's thread; the manager. Calls and exceptions
  are not fair.
- `OneStepOff`: the driver (which includes starting a run that was killed), each kind of call of
  the workers, and the reward tasks. Kills and errors are not fair.

## 5. Proofs

Every theorem holds for all values of the constants that satisfy the named assumption of its
module. They say what the code takes for granted, and no more:

| assumption | says |
|---|---|
| `LoopAssumption` | at least one sample and one token per chunk |
| `DispatchAssumption` | at least one row and one rank |
| `RenderingAssumption` | at least one text, call, thread and attempt |
| `LifecycleAssumption`, `MetadataAssumption` | trainings and evaluations are different processes; none is taken for an empty file |
| `TrainingAssumption` | at least one prompt, rollout, chunk and epoch, and one row per mini-batch (asserted when a worker starts); as many samples as ranks at the least; a budget of a micro-batch that a row fits into (asserted by `rearrange_micro_batches`) |
| `CheckpointAssumption` | at least one rank, step, and process |
| `AgentLoopAssumption` | at least one worker, server, thread and cache entry; batches that are not empty |
| `ToolAgentAssumption` | at least one token of prompt, response and answer, and one call that may run; nothing of how long prompts are or how many images a response has |
| `EvaluationAssumption` | at least one item, one place in the semaphore and one attempt |
| `OneStepOffAssumption` | whole epochs, and rows that divide among the ranks |

Two theorems have a hypothesis besides. `SessionsCorrect` assumes `PartsFitCache`: a worker's part
of a batch is no larger than its cache, whose default is 10,000 entries (`agent_loop.py`,
`max_cache_size`); with a smaller one a conversation may change its server between turns.
`TrackedCorrect` excepts runs that keep a single checkpoint, which remove it before the next is
written (section 6). Everything else of those modules is proved without.

An invariant is seldom inductive as a run states it. Each module below has an `IInv` of named parts
that says what the code relies on between two steps, one lemma per action or group of actions, a
theorem `Invariance`, and the theorems that follow from it. TLC agreed with each `IInv`, and with
`CInv` of the training step, on the instance of its run before it was proved.

**The loop** (`RecurrentLoop_proofs`): `TypeCorrect`, `MemoryCorrect` and `RowsCorrect` are
`TypeOK`, `MemoryIsReadPrefix` and `RowsMatchIndex`. What `Update` writes was fixed by the prompts
that `ActionChunk` built two steps earlier, and which row it is written to by the mask of that
moment. `IInv` therefore adds `TurnInProgress` (between `action()` and `update()` the last index and
mask are those of the turn in progress, the k-th row belongs to the k-th active sample, and what it
has seen is what the memory becomes; `active_mask` is still the mask the prompts were gathered
with), `TurnsComplete` (elsewhere there are as many turns of responses as of indices) and
`FinalTurn` (from the final turn on every context is used up, with one prompt and one image per
sample). The work is in `ChunkType`, that the slice of the next chunk appended to the prefix read
so far is the next prefix, and in `PlaceInArange` with `ArangeUnique`, that the index enumerates
the active samples without repetition, so that scattering with the mask undoes gathering with it.
`LoopImplementsReading` shows each step a step or a stutter of `SequentialReading`: a batch of any
size is as good as a reader of each sample by itself. It needs `RowKinds` besides: a row is an
answer only in the final turn.

`ResultCorrect` is `ResultIsComplete`, the result a caller cuts up with `final_batch`. It follows
the concatenation of the turns instead of the turns: `RowsCollected` says which rows of each sample
are in it so far (`ChunksCollected`: as many chunk rows as turns, or as the context has chunks, and
the n-th of them has read n chunks) and that, once the final turn is in, its rows come last, in the
order of the samples. `FinalTurnOK` says what the two extra turns of the triple mode still have to
work on, `ResultShape` where in the result the block of each objective lies (`BlockAt`): index,
masks and rows are concatenated separately, and `TripleMasksExpand` with `MaskOfThirds` shows that
each mask sets its own third. `BlockSelected` then says that selecting by such a mask and reversing
the indices gives the block in sample order, and `ChunksComplete` that selecting the rows of a
sample gives its chunks. `MemorizeRowsOf` selects by a mask for that, as `SelectRows` does
everywhere else; nothing can be proved of the recursive `SelectSeq`.

**Dispatch** (`RolloutDispatch_proofs`): `CallCorrect` and `BalanceCorrect` are `CallIsConsistent`
and `WorkIsBalanced`, and `DispatchImplementsRowwise` is the refinement of `RowwiseGeneration`, for
every batch, world and replica. `IInv` says what each rank holds in terms of the batch that came in;
that padding, splitting over replicas, collecting the first rank of each and unpadding compose to
the identity is arithmetic of equal groups (`DivisionUnique`, `CollectedIsWhole`), and a count of
the set places of the mask (`IndexOfSlot`). That a concatenation of parts has every item at the
place the lengths say (`FlattenByParts`) is an induction over the parts.

**Rendering** (`MemoryRendering_proofs`): `RenderingCorrect` is `RenderingIsConsistent`: a call
returns every image it received, and raises only if a text has used up its attempts.
`RenderingImplementsBatchRendering` is the refinement; it is the one that says that each image is
that of its own text and that nothing is rendered beside. Both hold whatever threads, timeouts,
retries and browser faults do. `TextsOK` ties a text's future to its attempts and to `pending`, and
`RequestsOK` bounds what an abandoned request can still do: it belongs to this call or an earlier
one, and an answer reaches the attempt that waits for it or nobody.

**The lifecycle** (`ExperimentLifecycle_proofs`): `LifecycleTypes`, `RegistryInOrder`,
`OutcomesCorrect` and `SavesCorrect` are `TypeOK`, `RecordsInOrder`, `OutcomesAreRecorded` and
`CompletedMeansSaved`, for any number of processes, epochs and exceptions. `RegistryAt` says which
lines the registry has at each place of the script; the interesting one is the except clause, which
is reached with an open run, with a run whose closing raised after its line was written, or with no
run at all. `OutcomeAt` and `SavedAt` stand on it: what an exit code says of the registry, and
which checkpoints are in the directory at each place. Others keep them true (`Frame`), as far as
they hold: in a directory of its own a run's checkpoints are its own and whole, in a shared one the
files exist and their content is anyone's. Nor does `OutcomesCorrect` say that exit
code and registry agree: an evaluation exits with 0 only if it completed, and with at most one
exception exactly then; the exit code of a training says nothing, its registry lines do.

**Checkpoints** (`CheckpointResume_proofs`): `RunCorrect` and `TrackedCorrect` are
`RunIsConsistent` and `TrackedIsWhole`, `RunsImplementDurable` the refinement of `DurableTraining`,
for any number of ranks, steps, kills and checkpoints kept. The invariant speaks of files left by
any process: a complete shard of step k holds a model of k batches (`FilesOK`), a process has
written just the shards of the paths it remembers, but for those it is removing or writing
(`ShardsOK`), and as long as processes follow the tracker, the tracked step is whole, the process
continues it, and it is the last path it remembers, so that the rotation does not take it
(`TrackerOK`).

**The agent loop** (`AgentLoop_proofs`): `RowsCorrect` and `SessionsCorrect` are `RowsAreOwn` and
`SessionsAreSound`; `ServersAreSound` is what of the latter needs no bound on the cache. An item of
the reward executor is a sample whose thread waits for it and is in one place only (`ExecutorOK`),
so a thread can only be handed its own score. For the sessions, the entries of the batch at work
are the most recent ones of the cache, and while they fit none of them is dropped.

**A conversation** (`AgentLoop_proofs`, second part): `OutputCorrect` and `RequestsCorrect` are
`OutputIsAligned` and `RequestsAreConsistent`, for any lengths, calls, images and limits on turns.
`ConversationInv` says of the four lists that the ids are the prompt followed by as many tokens as
the mask has, that the mask is set where the model spoke, and that the log-probabilities have the
length of the mask (`Aligned`, `ListsInStep`); in which states the response is not empty and still
has room (`ResponseBounded`), which is what keeps the slice from `-0` away; that the model spoke
last before its calls run (`LastSpeaker`), so that what follows the last answer is just what the
tools said; and that each placeholder is that of the first image of a response, or of an image of
the sample (`ImagesInStep`). The room for an answer (`RequestsFit`) is relative to the prompt: a
prompt within `prompt_length` leaves a token, and one that is longer by `d` takes `d` of the room.
Four places in the code append to the lists, and `ExtendKeepsStep` covers them. The work is in
`MessagesInOrder`: the messages of any number of calls, flattened and rendered, have the responses
in the order of the calls and a placeholder per response with images in that order too. It goes by
induction over the calls, on how flattening and filtering by speaker distribute over concatenation
(`FlattenConcat`, `KindConcat`), and on what the images of one call are (`ImagesOfCall`).

**The evaluation** (`MemoryRendering_proofs`, second part): `AnswersCorrect` and `FilesCorrect` are
`AnswersAreOwn` and `FilesAreConsistent`, for any items, contexts, retries, processes and kills.
`EvaluationInv` follows an answer on its way: a coroutine has read a prefix of its own context, all
of it when it asks the question (`CoroutinesOK`); the k-th answer gathered is that of the k-th item
asked for (`GatheredOK`); the buffer is a prefix of the lines to write (`BufferOK`); and with the
cache what is asked for is not in the file while a process is up, which is why the lines it appends
are new (`FileOK`). `FlushKeeps` is what a flush of any part of the buffer does to a file with a cut
line at its end, `DownKeeps` what remains when a process is gone. The client drops items of the
cache and answers that failed with a selection that the lemmas on rows of a batch apply to
(`SelectedRows`).

**One step off** (`OneStepOff_proofs`): `PolicyCorrect` and `TrainingCorrect` are `OneStepOffPolicy`
and `TrainingIsConsistent`. `CallsOK` gives the calls that wait in both queues at each phase of the
driver, `VersionsOK` the version of the weights of the batch at work and the batch ahead, and
`DataOK` counts batches: given out, trained, at work, ahead, and lost with a process, of which there
is at most one per process. `TrainingIsConsistent` says less of runs that were resumed: their end
may be a step short of saved, or the loader may have ended it; and the bound of two updates on what
is evaluated leaves out the first validation of a process (section 6).

**The training step** (`TrainingStep_proofs`): `TypeCorrect`, `AdvantageCorrect` and
`PaddingHidesNoImage` are `TypeOK`, `AdvantageIsOwn` and `NoImageWithoutTokens`, and
`MetricsCorrect` says that the metrics see the rows of the loop in order, once, without padding;
`LogProbsCorrect`, `ForwardsCorrect` and `TrainedOnceCorrect` are the other invariants of the run.
There are three inductive invariants: what the driver holds (`IInv`), what the ranks do with it
(`RInv`), and how the ranks keep together in an update (`CInv`).
`LoopOK` and `BatchOK` say what the driver holds in each phase in terms of what the loop returned:
the two paddings, for the log probabilities and for the update, are each undone, and an advantage
is carried by its row. The lemmas about padding, as those about selection and concatenation in the
proofs of the loop, are those of the dispatch proofs, by `INSTANCE`.
How ranks cut their share into micro-batches does not matter to `IInv`.

`RInv`, on top of it, says for every rank in every phase where it stands (`RankOK`): the
micro-batches at work are a cut of the current mini-batch (`IsCutOf`), the results are the passes
over the first of them, and every step of the optimizer so far has had the passes over one cut
mini-batch (`Trained`). What needs an argument is that the cut is one. `MicroBatchesDivide` shows,
for any lengths and any number of micro-batches up to that of the rows, that the Karmarkar-Karp
method divides the rows: each row is in one micro-batch and once, and no micro-batch is empty. These
are the assertions of `get_seqlen_balanced_partitions`. If at most one row has no tokens and there
are fewer micro-batches than rows, each micro-batch has tokens. The invariant over the merges
(`IsHeap`) is that the states of the heap hold each row once, in partial sums of decreasing size,
and that a state with an empty partial sum has none of two rows (`Sparse`): merging the largest with
the smallest fills the empty ones first. From there:

- the results of a rank, put end to end, are a permutation of its rows, and `restore_dynamic_batch`
  inverts it (`RestoreIs`); the shares put end to end are the padded batch (`JoinedResults`). That
  is `LogProbsAreOwn`.
- whatever number the ranks agree on, each of them has a cut (`AgreedCuts`), with tokens in every
  micro-batch: for the log probabilities because every row has tokens; for the update because no
  share has two padding rows (`OneRowEach`), unless the mini-batch is cut into single rows. It then
  is because some rank has more tokens in it than all rows but one may fill (`CountCuts`): that is
  `CInv`, which needs that ranks are never at different mini-batches of an update and that theirs
  have equally many rows (`InStep`, `EqualMinis`). With `PaddingHidesNoImage` that is
  `ForwardsAreSound`.
- a row of the loop is in one slot of one share, one mini-batch of it per epoch, and one place of
  one micro-batch of that (`SlotOfRow`, `MiniOfRow`, `PassOfRow`), so that the places where it was
  trained are in bijection with the epochs (`TrainedCount`). That is `EveryRowTrainedOnce`.

That the exception of `PaddingAloneOnlyIfFull` is needed, and that no rank has two padding rows,
came out of this proof. `ActorConfig.validate` asks for `train_batch_size >= ppo_mini_batch_size`,
but only without `use_dynamic_bsz`, which is how `scripts/train.sh` trains; the theorem supposes
neither that nor anything of how the budget and a mini-batch compare.

Some facts about sequences recur and need an induction, which the library offers only with an
operator as parameter. They are proved from a least counterexample (`LeastNatural`: a set of
numbers has a least one), which is first-order: that recursive functions of partial sums exist
(`PartsExist`), that a concatenation consists of its parts (`FlattenByParts`), that flattening
distributes over it (`FlattenConcat`), and that a finite set of numbers has a greatest
(`GreatestOfFinite`).

**Model-checked only**:

- liveness (`BatchCompletes`, `CallCompletes`, `CallEnds`, `ServiceDrains`, `ScriptsEnd`,
  `StepCompletes`, `RunEnds`, `EvaluationEnds`, `ConversationEnds`, `EveryCallEnds`,
  `TrainingEnds`), which the prover does not do.

## 6. Findings

1. *The lowered pixel budget has no effect* (`loop_pixels`). The subsampled turn's prompts are
   built before `min/max_image_pixels` are lowered, and nothing reads the attributes until they are
   restored: every prompt of the turn that has an image carries the full budget (one that has none
   carries none). The log line reports the lowered values.
2. *Rewards of other rows* (`one_step_rewards`). With `launch_reward_fn_async` the one-step-off
   trainer computes rewards in the order of generation and assigns them to rows that
   `_balance_batch` has reordered. The comment there says the order does not matter, the advantage
   being based on `uid`; `uid` moves with its row, the rewards do not. `RewardsAreOwn` holds when
   either option is off.

Remarks, seen while modelling. They are in the behaviours of the modules and no run is spent on
each; where a property would say otherwise, it states what it excepts:

- *Dispatch.* Padding slots repeat the first row: `graceful_padding` maps padding to index 0, its
  docstring says -1 and its caller "Hello" tokens (`recurrent/utils.py:225,254`,
  `generation_manager.py:270`). Results are right (`PaddingIsDropped`); a prompt is generated again.
- *Rendering.* The docstring of `batch_generate_images` promises None for a request that failed
  (`call_md_renderer.py:187`); the call raises (line 214) and all images are lost. A blank memory,
  refused with status 400, does it each time. A thread of the service that has lost its browser
  fails every request it takes from then on, and the service still reports "healthy".
  `ServiceDrains` does not notice: an error is an answer.
- *Lifecycle.* Exit code and registry disagree on every training that completes:
  `memory_train.py:112` asks for the logger after the run was ended, which raises, as does the
  second `end_run`, and the process exits with 1; `memory_sweep.py:87-89` counts it as failed.
  `ExitCodesAreSound` therefore says that a training never exits with 0. Trials started in one
  second share a directory (`memory_sweep.py:59`, `config.yaml:19`) and overwrite each other's
  checkpoints and metadata, where the guide says that results do not collide
  (`docs/experiment-guide.md:49-51`); `CompletedMeansSaved` excepts such a directory (`Shares`). If
  `end_run` raises after its line was written, the run gets a second last line.
- *Training step.* The model may run on a masked row alone, when a mini-batch is cut into single
  rows (`PaddingAloneOnlyIfFull`); whether a kernel takes a pass without tokens is not ours to say.
- *Checkpoints.* A kill between the opening of the tracker, which empties it, and its write leaves
  it empty, and every later start raises (`ray_trainer.py:967`, `checkpoint_manager.py:190`), in
  spite of the comment "for atomic usage" (`ray_trainer.py:963`); `RunEnds` and `ImplementsDurable`
  except a run that met that moment. A process knows only the checkpoints it saved itself, so that
  more than `max_actor_ckpt_to_keep` remain after a restart. With a maximum of 1 the tracked
  checkpoint is removed before the next is written; the run keeps two. Without `data.pt` the loader
  starts over. A finished run started again trains one more step.
- *Evaluation.* `test_qa.py` started again appends every item a second time; a readout after a
  resume averages the items of its own process; a process without an answer raises for lack of
  `f1`; a line cut by a kill makes `ruler_hqa.py` raise at every later start; the rendering request
  of `memocr_md.py` blocks the event loop of all items.
- *Tool agent.* A tool response of several images, which the schema offers (`schemas.py:102-109`),
  gets one placeholder (`tool_agent_loop.py:283`), and all its images are sent (305-310): the run
  has two, and `ImagesHaveTokens` says that the placeholders are those of the first images. The
  prompt is rendered with the tools and never measured (184-207), where the data set filters without
  them (`rl_dataset.py:155-187`): it may be longer than `prompt_length`, the rows of a batch then
  differ in width, and the room for an answer shrinks by as much (`RequestsFit`). Images of tools
  are kept when their ids are left out for length; what a simulated user says is not measured
  against the length; a release that raises fails the whole batch; a conversation without an answer
  would return its prompt as the response (the slice from `-0`).
- *Agent loop.* A call that raises leaves the servers awake, as does a batch the workers cannot
  divide. The executor waits for items to fill a micro batch while the threads that could submit
  them wait for its scores (`agent_loop.py:303`): one thread each in two workers, four samples and a
  world of 4 are enough, or three threads of one worker, four samples and a world of 2. The pool is
  the default one of the event loop, of `min(32, cpu_count + 4)` threads, whatever the world.
  `EveryCallEnds` is stated for calls whose threads suffice. With several workers it does not
  suffice that the threads of each are a multiple of the world: with two threads each and a world of
  2, a worker that has one sample left and one that has three bring three at once, and the executor,
  which has taken all three, waits for a fourth.
- *One-step-off.* The first validation after a resume, and one alone (`val_only`), evaluates the
  pretrained weights, because they are sent before the checkpoint is loaded; the final one is two
  updates late (`EvaluatesRecentWeights`); each resume skips the batch that was in flight
  (`TrainedInOrder` allows it); a run resumed within its first epoch may end a step short and save
  nothing at its end (`EndIsSaved` says how short); an error of the loader ends training silently.

## 7. What is not modelled, and why

- `md2img/html_api_server.py`: the markdown service once more, with a smaller pool.
- `recurrent/impls/memory.py`, `memory_img.py`: the control of the single mode of `RecurrentLoop`,
  with text in place of the image in one of them.
- `recurrent/async_generation_manager.py`, `async_utils.py` and the asynchronous agents: the
  trainer raises `NotImplementedError` before it reaches them (`ray_trainer.py:902`).
- `src/verl_logging.py`: collective reductions that nothing in the repository calls in a
  distributed run; there is no order of calls to model.
- `scripts/memory_sweep.py`: its trials are the processes of `ExperimentLifecycle`; the pool adds
  nothing they see.
- Token padding, chat templates, image trimming and resizing, markdown conversion, scoring: data
  that no property here depends on. `int(os.cpu_count() * 0.8)`, zero on one CPU, is a property of
  one expression.
- The rest of `verl/` and `recipe/`: kernels, engines, losses, configuration, launching, and
  recipes whose trainers repeat the step of `TrainingStep` with another loss. This is most of the
  repository's lines, and it has arithmetic where a model has states.
- In tool calls: that `messages.extend` is called in the loop with the list that grows in it
  (`tool_agent_loop.py:295`), so that a simulated user sees the response of the first call several
  times, while the ids have each once; `None` among the images; and videos. In `test_qa.py`, answers
  that contain `$LANG` are dropped (line 117). No property depends on any of them.
- Within modelled components: the statistics the client prints and the shutdown of the service; the
  state a caller hands to `save_checkpoint`, `load_checkpoint`, and a manager that is used for more
  than one run; critic, KL penalty and other advantage estimators in the training step; checkpoints
  on HDFS; judging and the other query functions of the evaluation.

## 8. Plan

Every safety property of the runs that pass is proved; what is left to the model checker is
liveness.

To model: `load_checkpoint` and a manager used again after a failed `start_run`; the critic's
calls in `TrainingStep`, which have the same collectives.
