-------------------------- MODULE CheckpointResume --------------------------
(***************************************************************************)
(* How a training run survives its processes: RayPPOTrainer saves and      *)
(* loads checkpoints (ray_trainer.py), the ranks of the actor write and    *)
(* rotate their shards (fsdp_checkpoint_manager.py), and a tracker file    *)
(* names the checkpoint to resume from (checkpoint_manager.py).            *)
(*                                                                         *)
(* The directory of a run holds, per step, the folder global_step_k with   *)
(* the shard of every rank and the state of the data loader. A file that   *)
(* is being written is partial until it is closed. A kill takes the driver *)
(* and all ranks at once and leaves the files as they are.                 *)
(*                                                                         *)
(* A model is the sequence of the batches it was trained on. Training is   *)
(* not deterministic, so that a batch trained on by another process (life) *)
(* gives another model; nothing is trained twice by one process.           *)
(***************************************************************************)
EXTENDS Integers, FiniteSets, Sequences, SequencesExt

CONSTANTS Ranks,       \* ranks of the actor
          TotalSteps,  \* total_training_steps
          SaveFreq,    \* trainer.save_freq
          Keeps,       \* max_actor_ckpt_to_keep to be checked, 0 for null
          MaxLives     \* bound on the processes that get to train

ASSUME CheckpointAssumption ==
  /\ Ranks # {} /\ IsFiniteSet(Ranks)
  /\ TotalSteps \in Nat \ {0} /\ SaveFreq \in Nat \ {0} /\ MaxLives \in Nat \ {0}
  /\ Keeps # {} /\ Keeps \subseteq Nat

(* A run that is over may be started again: it trains one step more.       *)
Steps == 1..(TotalSteps + 1)

Missing == 0   \* there is no tracker file

VARIABLES
  max_ckpt_to_keep,
  shards,               \* per step and rank, model_.., optim_.. and extra_state_..pt
  data,                 \* per step, data.pt
  folders,              \* steps whose folder exists
  tracker,              \* the step written to latest_checkpointed_iteration.txt last
  truncated,            \* that file is empty: opened for writing and not closed
  phase,                \* of the process
  global_steps,
  model,                \* the model each rank holds
  position,             \* batches the data loader has given out
  previous_saved_paths, \* of rank 0: the steps it saved
  life,                 \* counts the processes that trained
  followed              \* no process started from anything but the tracked step

disk   == <<shards, data, folders, tracker, truncated>>
memory == <<phase, global_steps, model, position, previous_saved_paths>>
vars   == <<max_ckpt_to_keep, disk, memory, life, followed>>

Absent      == [state |-> "absent",   value |-> <<>>]
Partial     == [state |-> "partial",  value |-> <<>>]
Complete(v) == [state |-> "complete", value |-> v]

Batches(n) == [i \in 1..n |-> i]

NoModel == [w \in Ranks |-> <<>>]

Init ==
  /\ max_ckpt_to_keep \in Keeps
  /\ shards = [k \in Steps |-> [w \in Ranks |-> Absent]]
  /\ data = [k \in Steps |-> Absent]
  /\ folders = {}
  /\ tracker = Missing
  /\ truncated = FALSE
  /\ phase = "down"
  /\ global_steps = 0
  /\ model = NoModel
  /\ position = 0
  /\ previous_saved_paths = <<>>
  /\ life = 0
  /\ followed = TRUE

Down ==
  /\ phase' = "down"
  /\ global_steps' = 0
  /\ model' = NoModel
  /\ position' = 0
  /\ previous_saved_paths' = <<>>
----------------------------------------------------------------------------
(* _load_checkpoint. A start that raises (the tracker is empty, a file is  *)
(* missing or cut short) leaves everything as it was and is no step here.  *)

Starts ==
  /\ phase = "down" /\ life < MaxLives
  /\ phase' = "fit"
  /\ life' = life + 1
  /\ UNCHANGED <<max_ckpt_to_keep, disk, previous_saved_paths>>

FromScratch ==
  /\ global_steps' = 1
  /\ UNCHANGED <<model, position>>

(* The position of the data loader. A slip: the loader is not restored.    *)
RestoredPosition_Never(k) == 0

RestoredPosition(k) == IF data[k].state = "absent" THEN 0 ELSE Len(data[k].value)

(* The ranks load their shards; without data.pt the loader starts over.    *)
Load(k) ==
  /\ k <= TotalSteps
  /\ \A w \in Ranks : shards[k][w].state = "complete"
  /\ data[k].state # "partial"
  /\ model' = [w \in Ranks |-> shards[k][w].value]
  /\ position' = RestoredPosition(k)
  /\ global_steps' = k + 1

(* find_latest_ckpt_path: the step the tracker names, Missing if there is  *)
(* no tracker or no such folder. A slip: the newest folder.                *)
LatestPath_Newest ==
  IF folders = {} THEN Missing ELSE CHOOSE k \in folders : \A j \in folders : j <= k

LatestPath == IF tracker \in folders THEN tracker ELSE Missing

(* resume_mode "auto".                                                     *)
StartAuto ==
  /\ Starts
  /\ ~truncated
  /\ IF LatestPath = Missing THEN FromScratch ELSE Load(LatestPath)
  /\ UNCHANGED followed

(* resume_mode "resume_path". The tracker is read here, too.               *)
StartAtPath ==
  /\ Starts
  /\ ~truncated
  /\ \E k \in folders :
       /\ Load(k)
       /\ followed' = (followed /\ k = LatestPath)

(* resume_mode "disable".                                                  *)
StartDisabled ==
  /\ Starts
  /\ FromScratch
  /\ followed' = (followed /\ LatestPath = Missing /\ ~truncated)
----------------------------------------------------------------------------
(* The end of a turn of the loop of fit.                                   *)
IsLastStep == global_steps >= TotalSteps

NextTurn ==
  IF IsLastStep
  THEN Down
  ELSE /\ phase' = "fit"
       /\ global_steps' = global_steps + 1
       /\ UNCHANGED <<model, position, previous_saved_paths>>

(* A turn: all ranks are trained on the next batch, and a checkpoint is    *)
(* saved when it is due, or when the capacity of the server expires soon.  *)
Train ==
  /\ phase = "fit"
  /\ model' = [w \in Ranks |-> Append(model[w], [batch |-> position + 1, life |-> life])]
  /\ position' = position + 1
  /\ \/ /\ phase' = "remove"
        /\ UNCHANGED global_steps
     \/ /\ ~IsLastStep /\ global_steps % SaveFreq # 0
        /\ phase' = "fit"
        /\ global_steps' = global_steps + 1
  /\ UNCHANGED <<max_ckpt_to_keep, disk, previous_saved_paths, life, followed>>

(* save_checkpoint of the manager: rank 0 removes what it saved too long   *)
(* ago (the paths up to keep_start), file by file, before anything is      *)
(* written. The folder and its data.pt stay. A slip: one checkpoint more.  *)
KeepStart_OneMore ==
  IF max_ckpt_to_keep > 0 /\ Len(previous_saved_paths) >= max_ckpt_to_keep
  THEN Len(previous_saved_paths) - max_ckpt_to_keep + 2 ELSE 0

KeepStart ==
  IF max_ckpt_to_keep > 0 /\ Len(previous_saved_paths) >= max_ckpt_to_keep
  THEN Len(previous_saved_paths) - max_ckpt_to_keep + 1 ELSE 0

Obsolete == ToSet(SubSeq(previous_saved_paths, 1, KeepStart))

RemoveFile ==
  /\ phase = "remove"
  /\ \E k \in Obsolete, w \in Ranks :
       /\ shards[k][w] # Absent
       /\ shards' = [shards EXCEPT ![k][w] = Absent]
  /\ UNCHANGED <<max_ckpt_to_keep, data, folders, tracker, truncated, memory, life, followed>>

MakeFolder ==
  /\ phase = "remove"
  /\ \A k \in Obsolete, w \in Ranks : shards[k][w] = Absent
  /\ previous_saved_paths' =
       SubSeq(previous_saved_paths, KeepStart + 1, Len(previous_saved_paths))
  /\ folders' = folders \cup {global_steps}
  /\ phase' = "write"
  /\ UNCHANGED <<max_ckpt_to_keep, shards, data, tracker, truncated, global_steps, model, position,
                 life, followed>>

(* The ranks write side by side, between two barriers.                     *)
Written(w) == shards[global_steps][w] = Complete(model[w])

OpenShard(w) ==
  /\ phase = "write"
  /\ ~Written(w) /\ shards[global_steps][w] # Partial
  /\ shards' = [shards EXCEPT ![global_steps][w] = Partial]
  /\ UNCHANGED <<max_ckpt_to_keep, data, folders, tracker, truncated, memory, life, followed>>

CloseShard(w) ==
  /\ phase = "write"
  /\ shards[global_steps][w] = Partial
  /\ shards' = [shards EXCEPT ![global_steps][w] = Complete(model[w])]
  /\ UNCHANGED <<max_ckpt_to_keep, data, folders, tracker, truncated, memory, life, followed>>

AllWritten ==
  /\ phase = "write"
  /\ \A w \in Ranks : Written(w)
  /\ previous_saved_paths' = Append(previous_saved_paths, global_steps)
  /\ phase' = "data"
  /\ UNCHANGED <<max_ckpt_to_keep, disk, global_steps, model, position, life, followed>>

(* _save_checkpoint, once the ranks have returned: the data loader, then   *)
(* the tracker.                                                            *)
OpenData ==
  /\ phase = "data"
  /\ data' = [data EXCEPT ![global_steps] = Partial]
  /\ phase' = "data_open"
  /\ UNCHANGED <<max_ckpt_to_keep, shards, folders, tracker, truncated, global_steps, model, position,
                 previous_saved_paths, life, followed>>

CloseData ==
  /\ phase = "data_open"
  /\ data' = [data EXCEPT ![global_steps] = Complete(Batches(position))]
  /\ phase' = "tracker"
  /\ UNCHANGED <<max_ckpt_to_keep, shards, folders, tracker, truncated, global_steps, model, position,
                 previous_saved_paths, life, followed>>

OpenTracker ==
  /\ phase = "tracker"
  /\ truncated' = TRUE
  /\ phase' = "tracker_open"
  /\ UNCHANGED <<max_ckpt_to_keep, shards, data, folders, tracker, global_steps, model, position,
                 previous_saved_paths, life, followed>>

CloseTracker ==
  /\ phase = "tracker_open"
  /\ tracker' = global_steps
  /\ truncated' = FALSE
  /\ NextTurn
  /\ UNCHANGED <<max_ckpt_to_keep, shards, data, folders, life, followed>>

(* The bound on lives leaves a process to go on after every kill.          *)
Kill ==
  /\ phase # "down" /\ life < MaxLives
  /\ Down
  /\ UNCHANGED <<max_ckpt_to_keep, disk, life, followed>>

Save ==
  \/ RemoveFile \/ MakeFolder \/ AllWritten
  \/ \E w \in Ranks : OpenShard(w) \/ CloseShard(w)
  \/ OpenData \/ CloseData \/ OpenTracker \/ CloseTracker

Next == StartAuto \/ StartAtPath \/ StartDisabled \/ Train \/ Save \/ Kill

(* A process goes on, and somebody starts a process that is gone, in the   *)
(* default mode.                                                           *)
Fairness == WF_vars(Train \/ Save) /\ WF_vars(StartAuto)

Spec == Init /\ [][Next]_vars /\ Fairness
----------------------------------------------------------------------------
(* Types; the rotation works on steps whose folders exist, each once.      *)
TypeOK ==
  /\ max_ckpt_to_keep \in Keeps
  /\ \A k \in Steps, w \in Ranks :
       /\ shards[k][w].state \in {"absent", "partial", "complete"}
       /\ Len(shards[k][w].value) <= Cardinality(Steps)
  /\ data \in [Steps -> {Absent, Partial} \cup {Complete(Batches(n)) : n \in Steps}]
  /\ folders \subseteq Steps
  /\ tracker \in Steps \cup {Missing} /\ truncated \in BOOLEAN
  /\ phase \in {"down", "fit", "remove", "write", "data", "data_open", "tracker",
                "tracker_open"}
  /\ global_steps \in Steps \cup {0}
  /\ position \in Steps \cup {0}
  /\ life \in 0..MaxLives
  /\ followed \in BOOLEAN
  /\ IsInjective(previous_saved_paths) /\ ToSet(previous_saved_paths) \subseteq folders

(* The batches a model was trained on are the first n, each once.          *)
TrainedOn(m, n) == [i \in DOMAIN m |-> m[i].batch] = Batches(n)

(* The checkpoint the tracker names is whole, at every moment at which a   *)
(* kill may leave it behind: the shards of all ranks and the position of   *)
(* the data loader, of one and the same model (_save_checkpoint writes the *)
(* tracker last; the rotation keeps the tracked step if it keeps two). An  *)
(* operator who goes back behind it forgoes that: the steps written over   *)
(* include the tracked one.                                                *)
TrackedIsWhole ==
  followed /\ tracker \in Steps =>
    /\ tracker \in folders
    /\ data[tracker] = Complete(Batches(tracker))
    /\ \A v, w \in Ranks :
         /\ shards[tracker][w].state = "complete"
         /\ shards[tracker][w].value = shards[tracker][v].value
         /\ TrainedOn(shards[tracker][w].value, tracker)

(* However often it was killed, what trains is one model on all ranks,     *)
(* trained on every batch once and in order, and the counter of steps and  *)
(* the data loader agree with it (_load_checkpoint restores the three from *)
(* three files).                                                           *)
EveryBatchOnce ==
  followed /\ phase # "down" =>
    /\ \A v, w \in Ranks : model[v] = model[w]
    /\ \A w \in Ranks : TrainedOn(model[w], position)
    /\ position = IF phase = "fit" THEN global_steps - 1 ELSE global_steps

(* A process keeps no more of its own checkpoints than it was told to      *)
(* (the rotation of previous_saved_paths).                                 *)
SavedByThisLife ==
  {k \in Steps : \E w \in Ranks :
     /\ shards[k][w].state = "complete"
     /\ Last(shards[k][w].value).life = life}

RotatesOwnCheckpoints ==
  phase = "fit" =>
    /\ SavedByThisLife = ToSet(previous_saved_paths)
    /\ max_ckpt_to_keep > 0 => Cardinality(SavedByThisLife) <= max_ckpt_to_keep

(* Whatever a kill left behind, what trains and what is kept are of one    *)
(* run: its files and its memory, its model, its counter and its data.     *)
RunIsConsistent == TypeOK /\ EveryBatchOnce /\ RotatesOwnCheckpoints

(* Training gets to its last step, if processes are killed only so often,  *)
(* unless one of them was killed while the tracker was open: that leaves   *)
(* it empty, and no process starts from it again.                          *)
RunEnds == <>[](followed => truncated \/ tracker >= TotalSteps)

(* The processes of a run are one run, as DurableTraining says, as long as *)
(* they follow the tracker.                                                *)
AnyRank == CHOOSE w \in Ranks : TRUE

Durable ==
  INSTANCE DurableTraining
    WITH running   <- phase # "down",
         trained   <- model[AnyRank],
         published <- IF tracker = Missing THEN <<>> ELSE shards[tracker][AnyRank].value,
         readable  <- ~truncated

ImplementsDurable ==
  Durable!Init /\ [][followed' => Durable!Next \/ UNCHANGED Durable!vars]_vars
=============================================================================
