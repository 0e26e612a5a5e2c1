----------------------------- MODULE OneStepOff -----------------------------
(***************************************************************************)
(* The one-step-off-policy trainer (recipe/one_step_off_policy): while the *)
(* actor is trained on a batch, the rollout workers, on GPUs of their own, *)
(* generate the next one with the weights they were last sent.             *)
(*                                                                         *)
(* The driver calls two groups of Ray actors, each of which does its calls *)
(* one after another; to send the weights is a collective of both groups.  *)
(* Rewards may be computed by a task of Ray's that waits for the           *)
(* generation. A kill takes all of them; a checkpoint is one step here     *)
(* (CheckpointResume has its parts).                                       *)
(*                                                                         *)
(* Weights are the sequence of the updates that made them (the batch, and  *)
(* the process by its life), a version is their number. Batches are        *)
(* numbered as the data loader gives them out, passes over the data set    *)
(* one after another.                                                      *)
(***************************************************************************)
EXTENDS Integers, Sequences, Functions

CONSTANTS TotalSteps,  \* total_training_steps, all batches of all epochs
          EpochCounts, \* total_epochs to be checked
          SaveFreq,    \* trainer.save_freq
          TestFreq,    \* trainer.test_freq
          Rows,        \* rows of a batch, prompts times rollout.n
          World,       \* ranks of the actor
          MaxLives,    \* bound on the processes of a run
          MaxFaults    \* bound on the errors of the data loader

ASSUME OneStepOffAssumption ==
  /\ TotalSteps \in Nat \ {0} /\ SaveFreq \in Nat \ {0} /\ TestFreq \in Nat \ {0}
  /\ EpochCounts # {} /\ \A e \in EpochCounts : e \in Nat \ {0} /\ TotalSteps % e = 0
  /\ World \in Nat \ {0} /\ Rows \in Nat \ {0} /\ Rows % World = 0
  /\ MaxLives \in Nat \ {0} /\ MaxFaults \in Nat

VARIABLES
  total_epochs,
  launch_reward_fn_async,
  balance_batch,
  phase,          \* of the driver
  global_steps,
  loader,         \* batches given out; does a pass start anew (iterator is finished)
  left,           \* batches continuous_iterator has still to give
  actor,          \* the weights of the actor
  rollout,        \* the version of the weights of the rollout workers
  actor_calls,
  rollout_calls,
  batch_data_future,
  batch,          \* the batch of this step
  scored,         \* batches whose future_reward is there
  checkpoint,
  life,
  faults          \* of the data loader, in this process

config == <<total_epochs, launch_reward_fn_async, balance_batch>>
data   == <<loader, left>>
groups == <<actor, rollout, actor_calls, rollout_calls>>
vars   == <<config, phase, global_steps, data, groups, batch_data_future, batch, scored,
            checkpoint, life, faults>>

Pending == -1
None    == [number |-> 0, version |-> Pending, order |-> <<>>, rewards |-> <<>>]

AsGenerated == [i \in 1..Rows |-> i]

(* What is left of the data when a run starts with this loader: the rest   *)
(* of its pass, and an epoch less; the loop over epochs starts at 0.       *)
EpochLength == TotalSteps \div total_epochs

InPass(l) == IF l.finished \/ l.given = 0 THEN 0 ELSE ((l.given - 1) % EpochLength) + 1

LeftFor(l) == total_epochs * EpochLength - InPass(l)

FreshLoader == [given |-> 0, finished |-> FALSE]

Init ==
  /\ total_epochs \in EpochCounts
  /\ launch_reward_fn_async \in BOOLEAN
  /\ balance_batch \in BOOLEAN
  /\ phase = "down"
  /\ global_steps = 0
  /\ loader = FreshLoader /\ left = 0
  /\ actor = <<>> /\ rollout = 0
  /\ actor_calls = <<>> /\ rollout_calls = <<>>
  /\ batch_data_future = None
  /\ batch = None
  /\ scored = {}
  /\ checkpoint = [step |-> 0, weights |-> <<>>, loader |-> FreshLoader]
  /\ life = 0
  /\ faults = 0
----------------------------------------------------------------------------
(* init_workers sends the weights of the pretrained model, then fit loads  *)
(* the checkpoint. A slip: the position of the loader is not restored.     *)
RestoredLoader_Never == FreshLoader

RestoredLoader == checkpoint.loader

Start ==
  /\ phase = "down" /\ life < MaxLives
  /\ life' = life + 1
  /\ global_steps' = checkpoint.step
  /\ actor' = checkpoint.weights
  /\ rollout' = 0
  /\ loader' = RestoredLoader
  /\ left' = LeftFor(RestoredLoader)
  /\ rollout_calls' = <<"validate">>
  /\ phase' = "validating_first"
  /\ UNCHANGED <<config, actor_calls, batch_data_future, batch, scored, checkpoint, faults>>

ValidatedFirst ==
  /\ phase = "validating_first" /\ rollout_calls = <<>>
  /\ global_steps' = global_steps + 1
  /\ phase' = "launch"
  /\ UNCHANGED <<config, data, groups, batch_data_future, batch, scored, checkpoint, life, faults>>

IsLastStep == global_steps >= TotalSteps

(* The loop waits for the generated batch; the launch of the next is left  *)
(* out of the last step.                                                   *)
Get ==
  /\ phase = "wait"
  /\ batch_data_future # None /\ batch_data_future.version # Pending
  /\ batch' = batch_data_future
  /\ phase' = IF IsLastStep THEN "balance" ELSE "launch"
  /\ UNCHANGED <<config, global_steps, data, groups, batch_data_future, scored, checkpoint, life,
                 faults>>

LeaveLoop ==
  /\ phase = "wait" /\ batch_data_future = None
  /\ phase' = "done"
  /\ UNCHANGED <<config, global_steps, data, groups, batch_data_future, batch, scored, checkpoint,
                 life, faults>>

(* sync_rollout_weights. Slips: the weights are sent for the first batch   *)
(* of a process alone; the actor is not told to take part.                 *)
SyncCalls_FirstOnly == IF batch = None THEN <<"sync">> ELSE <<>>

SyncCalls == <<"sync">>

ActorSyncCalls_Missing == <<>>

ActorSyncCalls == SyncCalls

(* _async_gen_next_batch: the next batch of the data, and the weights.     *)
Launch ==
  /\ phase = "launch" /\ left > 0
  /\ loader' = [given |-> loader.given + 1, finished |-> FALSE]
  /\ left' = left - 1
  /\ actor_calls' = actor_calls \o ActorSyncCalls
  /\ rollout_calls' = rollout_calls \o SyncCalls
  /\ phase' = "syncing"
  /\ UNCHANGED <<config, global_steps, actor, rollout, batch_data_future, batch, scored, checkpoint,
                 life, faults>>

AfterLaunch == phase' = IF batch = None THEN "wait" ELSE "balance"

(* ray.get waits for the rollout workers, then they are told to generate.  *)
LaunchGeneration ==
  /\ phase = "syncing" /\ rollout_calls = <<>>
  /\ rollout_calls' = <<"generate">>
  /\ batch_data_future' = [None EXCEPT !.number = loader.given, !.order = AsGenerated]
  /\ AfterLaunch
  /\ UNCHANGED <<config, global_steps, data, actor, rollout, actor_calls, batch, scored, checkpoint,
                 life, faults>>

(* StopIteration, and any other exception: no batch comes after this one.  *)
NothingToLaunch ==
  /\ phase = "launch"
  /\ \/ /\ left = 0
        /\ loader' = [loader EXCEPT !.finished = TRUE]
        /\ UNCHANGED faults
     \/ /\ left > 0 /\ faults < MaxFaults
        /\ faults' = faults + 1
        /\ UNCHANGED loader
  /\ left' = 0
  /\ batch_data_future' = None
  /\ AfterLaunch
  /\ UNCHANGED <<config, global_steps, groups, batch, scored, checkpoint, life>>

(* _balance_batch: the rows of a rank stand together, in ascending order;  *)
(* which rank gets which depends on their lengths.                         *)
Block(i) == (i - 1) \div (Rows \div World)

Balanced ==
  {order \in Bijection(1..Rows, 1..Rows) :
     \A i, j \in 1..Rows : i < j /\ Block(i) = Block(j) => order[i] < order[j]}

Balance ==
  /\ phase = "balance"
  /\ \E order \in IF balance_batch THEN Balanced ELSE {AsGenerated} :
       batch' = [batch EXCEPT !.order = order]
  /\ phase' = "reward"
  /\ UNCHANGED <<config, global_steps, data, groups, batch_data_future, scored, checkpoint, life,
                 faults>>

(* The reward of each row: computed now, or by the task (one row after     *)
(* another as they were generated).                                        *)
Rewards == IF launch_reward_fn_async THEN AsGenerated ELSE batch.order

Reward ==
  /\ phase = "reward"
  /\ launch_reward_fn_async => batch.number \in scored
  /\ batch' = [batch EXCEPT !.rewards = Rewards]
  /\ actor_calls' = Append(actor_calls, "update")
  /\ phase' = "updating"
  /\ UNCHANGED <<config, global_steps, data, actor, rollout, rollout_calls, batch_data_future,
                 scored, checkpoint, life, faults>>

Updated ==
  /\ phase = "updating" /\ actor_calls = <<>>
  /\ IF IsLastStep \/ global_steps % TestFreq = 0
     THEN /\ rollout_calls' = Append(rollout_calls, "validate")
          /\ phase' = "validating"
     ELSE /\ UNCHANGED rollout_calls
          /\ phase' = "save"
  /\ UNCHANGED <<config, global_steps, data, actor, rollout, actor_calls, batch_data_future, batch,
                 scored, checkpoint, life, faults>>

Validated ==
  /\ phase = "validating" /\ rollout_calls = <<>>
  /\ phase' = "save"
  /\ UNCHANGED <<config, global_steps, data, groups, batch_data_future, batch, scored, checkpoint,
                 life, faults>>

EndStep ==
  /\ phase = "save"
  /\ checkpoint' = IF IsLastStep \/ global_steps % SaveFreq = 0
                   THEN [step |-> global_steps, weights |-> actor, loader |-> loader]
                   ELSE checkpoint
  /\ batch' = None
  /\ global_steps' = global_steps + 1
  /\ phase' = IF IsLastStep THEN "done" ELSE "wait"
  /\ UNCHANGED <<config, data, groups, batch_data_future, scored, life, faults>>

Driver ==
  \/ Start \/ ValidatedFirst \/ Get \/ LeaveLoop \/ Launch \/ LaunchGeneration \/ NothingToLaunch
  \/ Balance \/ Reward \/ Updated \/ Validated \/ EndStep
----------------------------------------------------------------------------
(* The groups of workers.                                                  *)

Calls(queue, call) == queue # <<>> /\ Head(queue) = call

Sync ==
  /\ Calls(actor_calls, "sync") /\ Calls(rollout_calls, "sync")
  /\ rollout' = Len(actor)
  /\ actor_calls' = Tail(actor_calls)
  /\ rollout_calls' = Tail(rollout_calls)
  /\ UNCHANGED <<config, phase, global_steps, data, actor, batch_data_future, batch, scored,
                 checkpoint, life, faults>>

Generate ==
  /\ Calls(rollout_calls, "generate")
  /\ batch_data_future' = [batch_data_future EXCEPT !.version = rollout]
  /\ rollout_calls' = Tail(rollout_calls)
  /\ UNCHANGED <<config, phase, global_steps, data, actor, rollout, actor_calls, batch, scored,
                 checkpoint, life, faults>>

GenerateForValidation ==
  /\ Calls(rollout_calls, "validate")
  /\ rollout_calls' = Tail(rollout_calls)
  /\ UNCHANGED <<config, phase, global_steps, data, actor, rollout, actor_calls, batch_data_future,
                 batch, scored, checkpoint, life, faults>>

UpdateActor ==
  /\ Calls(actor_calls, "update")
  /\ actor' = Append(actor, [number |-> batch.number, life |-> life])
  /\ actor_calls' = Tail(actor_calls)
  /\ UNCHANGED <<config, phase, global_steps, data, rollout, rollout_calls, batch_data_future,
                 batch, scored, checkpoint, life, faults>>

Workers == Sync \/ Generate \/ GenerateForValidation \/ UpdateActor

(* _launch_individual_rewards, for a batch that is generated.              *)
LaunchIndividualRewards ==
  /\ launch_reward_fn_async
  /\ \E b \in {batch, batch_data_future} :
       /\ b # None /\ b.version # Pending /\ b.number \notin scored
       /\ scored' = scored \cup {b.number}
  /\ UNCHANGED <<config, phase, global_steps, data, groups, batch_data_future, batch, checkpoint,
                 life, faults>>

(* The bound on lives leaves a process to go on after every kill.          *)
Kill ==
  /\ phase \notin {"down", "done"} /\ life < MaxLives
  /\ phase' = "down"
  /\ global_steps' = 0
  /\ loader' = FreshLoader /\ left' = 0
  /\ actor' = <<>> /\ rollout' = 0
  /\ actor_calls' = <<>> /\ rollout_calls' = <<>>
  /\ batch_data_future' = None
  /\ batch' = None
  /\ scored' = {}
  /\ faults' = 0
  /\ UNCHANGED <<config, checkpoint, life>>

Next == Driver \/ Workers \/ LaunchIndividualRewards \/ Kill

(* The driver and the workers go on; a run that was killed is started.     *)
Fairness ==
  /\ WF_vars(Driver) /\ WF_vars(Sync) /\ WF_vars(Generate)
  /\ WF_vars(GenerateForValidation) /\ WF_vars(UpdateActor)
  /\ WF_vars(LaunchIndividualRewards)

Spec == Init /\ [][Next]_vars /\ Fairness
----------------------------------------------------------------------------
(* Types; a batch keeps its rows, whatever their order, and at most one    *)
(* generation and one validation wait for the rollout workers.             *)
TypeOK ==
  /\ total_epochs \in EpochCounts
  /\ launch_reward_fn_async \in BOOLEAN /\ balance_batch \in BOOLEAN
  /\ phase \in {"down", "validating_first", "launch", "syncing", "wait", "balance", "reward",
                "updating", "validating", "save", "done"}
  /\ global_steps \in 0..(TotalSteps + 1)
  /\ loader.given \in 0..(TotalSteps + MaxLives) /\ left \in 0..TotalSteps
  /\ Len(actor) <= TotalSteps /\ rollout \in 0..Len(actor)
  /\ actor_calls \in {<<>>, <<"sync">>, <<"update">>}
  /\ rollout_calls \in {<<>>, <<"sync">>, <<"generate">>, <<"validate">>, <<"generate", "validate">>}
  /\ batch # None => batch.order \in Bijection(1..Rows, 1..Rows)
  /\ scored \subseteq 1..(TotalSteps + MaxLives)
  /\ checkpoint.step = Len(checkpoint.weights)
  /\ life \in 0..MaxLives /\ faults \in 0..MaxFaults

(* "generation and training parameters maintain a one-step off policy"     *)
(* (README.md of the recipe): a batch is trained on with weights one       *)
(* update newer than those that generated it, the first batch of a process *)
(* with the same; the two groups get their calls from one driver, and do   *)
(* them at their own pace.                                                 *)
OneStepOffPolicy ==
  phase = "updating" /\ actor_calls # <<>> =>
    \/ batch.version = Len(actor) - 1
    \/ batch.version = Len(actor) /\ \A i \in DOMAIN actor : actor[i].life < life

(* The policy is evaluated no more than two updates late, once a step has  *)
(* been trained (_validate runs on the rollout workers): the final         *)
(* validation is that of the last weights sent, two updates before the     *)
(* checkpoint it is reported with.                                         *)
EvaluatesRecentWeights ==
  phase = "validating" => Len(actor) - rollout \in {1, 2}

(* A row is rewarded for its own response, whatever the order of the rows  *)
(* (_balance_batch, then the reward), if the reward is computed then or    *)
(* the rows stay in order.                                                 *)
RewardsAreOwn ==
  phase = "updating" /\ ~(launch_reward_fn_async /\ balance_batch) => batch.rewards = batch.order

(* "NOTE: This usually changes the order of data in the `batch`, which     *)
(* won't affect the advantage calculation (since it's based on uid)": so   *)
(* says fit where it balances the batch. The reward it is computed from is *)
(* that of the row.                                                        *)
BalanceKeepsRewards == phase = "updating" => batch.rewards = batch.order

(* The weights were trained on batches in order, none twice, and no more   *)
(* of them were left out than processes were lost: the batch that was      *)
(* generated ahead when the position of the data loader was saved.         *)
TrainedInOrder ==
  /\ \A i, j \in 1..Len(actor) : i < j => actor[i].number < actor[j].number
  /\ Len(actor) > 0 => actor[Len(actor)].number - Len(actor) \in 0..(life - 1)

(* A run that ends has saved the weights it ends with at its last step,    *)
(* unless the data loader raised or the run was started again: a batch     *)
(* left out of the first epoch is missing at the end, and the last step is *)
(* then never reached, one step for each such start.                       *)
EndIsSaved ==
  phase = "done" /\ faults = 0 =>
    \/ checkpoint.step = TotalSteps /\ checkpoint.weights = actor
    \/ life > 1 /\ Len(actor) >= TotalSteps - (life - 1)

(* What is trained, rewarded, evaluated and saved belongs together, over   *)
(* all processes of a run and although generation is a batch ahead.        *)
TrainingIsConsistent ==
  TypeOK /\ TrainedInOrder /\ EndIsSaved /\ EvaluatesRecentWeights /\ RewardsAreOwn

(* Training ends, with all groups at rest: the calls the driver waits for  *)
(* are answered (a collective needs both groups at it).                    *)
TrainingEnds == <>[](phase = "done" /\ actor_calls = <<>> /\ rollout_calls = <<>>)
=============================================================================
