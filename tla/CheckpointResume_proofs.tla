---------------------- MODULE CheckpointResume_proofs ----------------------
(***************************************************************************)
(* Proofs about CheckpointResume, for any ranks, any number of steps, any  *)
(* frequency and rotation of checkpoints and any number of kills: the      *)
(* types and the rotation, that the tracked checkpoint is whole, that      *)
(* every batch is trained on once, and that every step is a step or a      *)
(* stutter of DurableTraining.                                             *)
(***************************************************************************)
EXTENDS CheckpointResume, SequenceTheorems, FiniteSetTheorems, TLAPS

(* A model is a sequence of batches, each with the process that trained.   *)
Trained    == [batch : Nat, life : Nat]
ShardFiles == [state : {"absent", "partial", "complete"}, value : Seq(Trained)]

(* What a file can hold, of whichever process it is: a shard of step k a   *)
(* model of k batches, by a process that has lived; data.pt a position no  *)
(* further than its step.                                                  *)
FilesOK ==
  /\ max_ckpt_to_keep \in Keeps
  /\ shards \in [Steps -> [Ranks -> ShardFiles]]
  /\ \A k \in Steps, w \in Ranks :
       /\ shards[k][w].state # "complete" => shards[k][w].value = <<>>
       /\ shards[k][w].state = "complete" =>
            Len(shards[k][w].value) = k /\ shards[k][w].value[k].life <= life
  /\ data \in [Steps -> {Absent, Partial} \cup {Complete(Batches(n)) : n \in Steps}]
  /\ \A k \in Steps : Len(data[k].value) <= k
  /\ folders \in SUBSET Steps
  /\ tracker \in Steps \cup {Missing} /\ truncated \in BOOLEAN

(* Batches the model has been trained on.                                  *)
Done == IF phase = "fit" THEN global_steps - 1 ELSE global_steps

Saving == phase \in {"remove", "write", "data", "data_open", "tracker", "tracker_open"}
Saved  == phase \in {"data", "data_open", "tracker", "tracker_open"}

(* A process that is down holds nothing; one that is up has trained its    *)
(* model on Done batches, the last of them itself when it saves.           *)
ProcessOK ==
  /\ life \in 0..MaxLives /\ followed \in BOOLEAN
  /\ model \in [Ranks -> Seq(Trained)]
  /\ \/ /\ phase = "down" /\ global_steps = 0 /\ position = 0
        /\ model = NoModel /\ previous_saved_paths = <<>>
     \/ /\ phase = "fit" \/ Saving
        /\ life > 0
        /\ global_steps \in Steps
        /\ position \in 0..Done
        /\ \A w \in Ranks : Len(model[w]) = Done
        /\ Saving => /\ position > 0
                     /\ \A w \in Ranks : model[w][global_steps].life = life

(* The paths rank 0 remembers ascend, and are no more than it may keep.    *)
PathsOK ==
  LET p == previous_saved_paths IN
  /\ p \in Seq(Steps)
  /\ \A i, j \in 1..Len(p) : i < j => p[i] < p[j]
  /\ \A i \in 1..Len(p) : p[i] \in folders
  /\ \A i \in 1..Len(p) : p[i] <= global_steps /\ (~Saved => p[i] < global_steps)
  /\ max_ckpt_to_keep > 0 => /\ Len(p) <= max_ckpt_to_keep
                             /\ phase = "write" => Len(p) < max_ckpt_to_keep
  /\ phase = "write" => global_steps \in folders
  /\ Saved => Len(p) > 0 /\ p[Len(p)] = global_steps

Remembered == {previous_saved_paths[i] : i \in 1..Len(previous_saved_paths)}

Own(k, w) == shards[k][w].state = "complete" /\ shards[k][w].value[k].life = life

(* The shards this process has written are those of the paths it           *)
(* remembers, but for those it is removing or writing.                     *)
ShardsOK ==
  /\ phase # "down" =>
       \A k \in Steps, w \in Ranks :
         /\ k \in Remembered /\ ~(phase = "remove" /\ k \in Obsolete) => Own(k, w)
         /\ Own(k, w) => k \in Remembered \/ (phase = "write" /\ k = global_steps)
  /\ Saved => \A w \in Ranks : Written(w)

(* A checkpoint written by whoever followed the tracker. If one checkpoint *)
(* only is kept, its shards are removed before the next one is written.    *)
Whole(k) ==
  /\ k \in folders
  /\ data[k] = Complete(Batches(k))
  /\ \A w \in Ranks :
       /\ \/ shards[k][w].state = "complete"
          \/ max_ckpt_to_keep = 1 /\ shards[k][w] = Absent
       /\ shards[k][w].state = "complete" =>
            /\ \A v \in Ranks :
                 shards[k][v].state = "complete" => shards[k][w].value = shards[k][v].value
            /\ \A i \in 1..k : shards[k][w].value[i].batch = i

(* While the tracker is followed: the tracked step is whole, the process   *)
(* continues it, and it is the last path remembered.                       *)
TrackerOK ==
  followed =>
    /\ tracker \in Steps => Whole(tracker)
    /\ phase # "down" =>
         /\ tracker < global_steps
         /\ position = Done
         /\ \A w \in Ranks :
              /\ \A v \in Ranks : model[w] = model[v]
              /\ \A i \in 1..Done : model[w][i].batch = i
              /\ tracker \in Steps /\ shards[tracker][w].state = "complete" =>
                   \A i \in 1..tracker : shards[tracker][w].value[i] = model[w][i]
         /\ truncated <=> phase = "tracker_open"
    /\ phase \in {"fit", "remove"} /\ previous_saved_paths # <<>> =>
         previous_saved_paths[Len(previous_saved_paths)] = tracker
    /\ phase \in {"tracker", "tracker_open"} => data[global_steps] = Complete(Batches(global_steps))

IInv == FilesOK /\ ProcessOK /\ PathsOK /\ ShardsOK /\ TrackerOK

----------------------------------------------------------------------------
(* What the actions do to sequences, and the constants.                    *)

LEMMA Constants ==
  /\ TotalSteps \in Nat \ {0} /\ MaxLives \in Nat \ {0}
  /\ \A k \in Steps : k \in Nat /\ k > 0
  /\ 0 \notin Steps /\ Missing \notin Steps /\ Missing = 0
  /\ 1 \in Steps
BY CheckpointAssumption DEF Steps, Missing

LEMMA NoBatches ==
  /\ Absent.value = <<>> /\ Partial.value = <<>>
  /\ Absent \in ShardFiles /\ Partial \in ShardFiles
  /\ Absent.state = "absent" /\ Partial.state = "partial"
  /\ \A v : Complete(v).value = v /\ Complete(v).state = "complete"
  /\ \A v \in Seq(Trained) : Complete(v) \in ShardFiles
BY EmptySeq DEF Absent, Partial, Complete, ShardFiles

LEMMA LenBatches ==
  ASSUME NEW n \in Nat
  PROVE  /\ Len(Batches(n)) = n
         /\ Batches(n) \in Seq(Nat)
         /\ \A i \in 1..n : Batches(n)[i] = i
BY DEF Batches

LEMMA ModelAppended ==
  ASSUME NEW m \in Seq(Trained), NEW n \in Nat, Len(m) = n, NEW p \in Nat, NEW l \in Nat
  PROVE  LET a == Append(m, [batch |-> p, life |-> l])
         IN  /\ a \in Seq(Trained) /\ Len(a) = n + 1
             /\ \A i \in 1..n : a[i] = m[i]
             /\ a[n + 1] = [batch |-> p, life |-> l]
BY [batch |-> p, life |-> l] \in Trained, AppendProperties DEF Trained

(* The rotation takes no path or the oldest, because it takes one at every *)
(* save.                                                                   *)
LEMMA RotationTakesOne ==
  ASSUME FilesOK, ProcessOK, PathsOK
  PROVE  LET p == previous_saved_paths IN
         /\ Len(p) \in Nat
         /\ KeepStart = IF max_ckpt_to_keep > 0 /\ Len(p) = max_ckpt_to_keep THEN 1 ELSE 0
         /\ KeepStart = 0 => Obsolete = {}
         /\ KeepStart = 1 => Len(p) > 0 /\ Obsolete = {p[1]}
<1> DEFINE p == previous_saved_paths
<1>1. /\ p \in Seq(Steps) /\ Len(p) \in Nat /\ max_ckpt_to_keep \in Nat
      /\ max_ckpt_to_keep > 0 => Len(p) <= max_ckpt_to_keep
  BY CheckpointAssumption, LenProperties DEF FilesOK, PathsOK
<1>2. KeepStart = IF max_ckpt_to_keep > 0 /\ Len(p) = max_ckpt_to_keep THEN 1 ELSE 0
  BY <1>1 DEF KeepStart
<1>3. ASSUME KeepStart = 0 PROVE Obsolete = {}
  <2>1. SubSeq(p, 1, KeepStart) = <<>>
    BY <1>3, SubSeqEmpty
  <2>2. DOMAIN SubSeq(p, 1, KeepStart) = {}
    BY <2>1, EmptySeq, LenProperties, 1..0 = {}
  <2>3. QED
    BY <2>2 DEF Obsolete, ToSet
<1>4. ASSUME KeepStart = 1 PROVE Len(p) > 0 /\ Obsolete = {p[1]}
  <2>1. Len(p) > 0 /\ p[1] \in Steps
    BY <1>1, <1>2, <1>4, ElementOfSeq
  <2> DEFINE q == SubSeq(p, 1, 1)
  <2>2. q \in Seq(Steps) /\ Len(q) = 1 /\ q[1] = p[1]
    BY <2>1, SubSeqProperties
  <2>3. DOMAIN q = {1}
    BY <2>2, LenProperties
  <2>4. ToSet(q) = {p[1]}
    BY <2>2, <2>3 DEF ToSet
  <2>5. QED
    BY <1>4, <2>1, <2>4 DEF Obsolete
<1>5. QED
  BY <1>1, <1>2, <1>3, <1>4

LEMMA InitIInv == Init => IInv
<1> SUFFICES ASSUME Init PROVE IInv
  OBVIOUS
<1>1. /\ <<>> \in Seq(Trained) /\ Len(<<>>) = 0 /\ <<>> \in Seq(Steps)
      /\ Absent \in ShardFiles /\ Absent.state = "absent" /\ Absent.value = <<>>
      /\ Len(previous_saved_paths) = 0
  BY EmptySeq, NoBatches DEF Init
<1>2. FilesOK
  <2>1. \A k \in Steps : Len(data[k].value) <= k
    BY <1>1, Constants DEF Init
  <2>2. QED
    BY <1>1, <2>1, Constants DEF Init, FilesOK
<1>3. ProcessOK
  BY <1>1, Constants DEF Init, ProcessOK, NoModel
<1>4. PathsOK
  BY <1>1, Constants, CheckpointAssumption DEF Init, PathsOK, Saved
<1>5. ShardsOK
  BY DEF Init, ShardsOK, Saved
<1>6. TrackerOK
  BY Constants DEF Init, TrackerOK
<1>7. QED
  BY <1>2, <1>3, <1>4, <1>5, <1>6 DEF IInv

(* A kill leaves the files, and nothing in memory.                         *)
LEMMA KillPreserves ==
  ASSUME IInv, Kill
  PROVE  IInv'
<1>1. /\ phase' = "down" /\ global_steps' = 0 /\ model' = NoModel /\ position' = 0
      /\ previous_saved_paths' = <<>>
      /\ UNCHANGED <<max_ckpt_to_keep, shards, data, folders, tracker, truncated, life, followed>>
  BY DEF Kill, Down, disk
<1>2. /\ <<>> \in Seq(Trained) /\ Len(<<>>) = 0 /\ <<>> \in Seq(Steps)
  BY EmptySeq
<1>3. FilesOK'
  BY <1>1 DEF IInv, FilesOK
<1>4. ProcessOK'
  BY <1>1, <1>2 DEF IInv, ProcessOK, NoModel
<1>5. PathsOK'
  BY <1>1, <1>2, CheckpointAssumption DEF IInv, PathsOK, Saved, FilesOK
<1>6. ShardsOK'
  BY <1>1 DEF ShardsOK, Saved
<1>7. TrackerOK'
  BY <1>1 DEF IInv, TrackerOK, Whole
<1>8. QED
  BY <1>3, <1>4, <1>5, <1>6, <1>7 DEF IInv

(* Every way to start: a process of its own life, with no path of its own, *)
(* that continues nothing or a checkpoint that is complete.                *)
LEMMA StartsPreserves ==
  ASSUME IInv, Starts, followed' \in BOOLEAN,
         \/ FromScratch
         \/ \E k \in Steps : Load(k),
         followed' =>
           /\ followed /\ ~truncated
           /\ FromScratch => tracker \notin Steps
           /\ ~FromScratch => Load(tracker)
  PROVE  IInv'
<1>1. /\ phase = "down" /\ phase' = "fit" /\ life' = life + 1 /\ life < MaxLives
      /\ previous_saved_paths' = <<>>
      /\ UNCHANGED <<max_ckpt_to_keep, shards, data, folders, tracker, truncated>>
  BY DEF IInv, ProcessOK, Starts, disk, Saving
<1>2. model = NoModel /\ position = 0 /\ global_steps = 0
  BY <1>1 DEF IInv, ProcessOK, Saving
<1>3. /\ <<>> \in Seq(Trained) /\ Len(<<>>) = 0 /\ <<>> \in Seq(Steps)
  BY EmptySeq
<1>4. life \in Nat /\ life' \in 0..MaxLives /\ life' > 0
  BY <1>1, Constants DEF IInv, ProcessOK
<1>5. FilesOK'
  <2>1. ASSUME NEW k \in Steps, NEW w \in Ranks, shards[k][w].state = "complete"
        PROVE  Len(shards[k][w].value) = k /\ shards[k][w].value[k].life <= life + 1
    <3>1. shards[k][w].value \in Seq(Trained) /\ k \in 1..Len(shards[k][w].value)
      BY <2>1 DEF IInv, FilesOK, ShardFiles, Steps
    <3>2. shards[k][w].value[k] \in Trained
      BY <3>1, ElementOfSeq
    <3>3. QED
      BY <1>4, <2>1, <3>2 DEF IInv, FilesOK, Trained
  <2>2. QED
    BY <1>1, <2>1 DEF IInv, FilesOK
<1>6. ASSUME FromScratch
      PROVE  /\ global_steps' = 1 /\ position' = 0 /\ model' = NoModel
             /\ global_steps' \in Steps /\ position' \in 0..Done' /\ Done' = 0
             /\ \A w \in Ranks : model'[w] = <<>> /\ Len(model'[w]) = Done'
             /\ model' \in [Ranks -> Seq(Trained)]
  BY <1>1, <1>2, <1>3, <1>6, Constants DEF FromScratch, Done, NoModel
<1>7. ASSUME NEW k \in Steps, Load(k)
      PROVE  /\ global_steps' = k + 1 /\ Done' = k
             /\ position' = RestoredPosition(k)
             /\ global_steps' \in Steps /\ position' \in 0..Done'
             /\ \A w \in Ranks : /\ shards[k][w].state = "complete"
                                 /\ model'[w] = shards[k][w].value
                                 /\ Len(model'[w]) = Done'
             /\ model' \in [Ranks -> Seq(Trained)]
  <2>1. /\ global_steps' = k + 1 /\ k <= TotalSteps /\ position' = RestoredPosition(k)
        /\ model' = [w \in Ranks |-> shards[k][w].value]
        /\ \A w \in Ranks : shards[k][w].state = "complete"
    BY <1>7 DEF Load
  <2>2. k \in Nat /\ k + 1 \in Steps /\ Done' = k
    BY <1>1, <2>1, Constants DEF Steps, Done
  <2>3. RestoredPosition(k) \in 0..k
    <3>1. data[k] \in {Absent, Partial} \cup {Complete(Batches(n)) : n \in Steps}
      BY DEF IInv, FilesOK
    <3>2. Len(data[k].value) \in Nat
      BY SMTT(30), <1>3, <3>1, NoBatches, LenBatches, Constants
    <3>3. QED
      BY <2>2, <3>2 DEF IInv, FilesOK, RestoredPosition
  <2>4. \A w \in Ranks : shards[k][w].value \in Seq(Trained) /\ Len(shards[k][w].value) = k
    BY <2>1 DEF IInv, FilesOK, ShardFiles
  <2>5. QED
    BY <2>1, <2>2, <2>3, <2>4
<1>8. ProcessOK'
  BY <1>1, <1>4, <1>6, <1>7 DEF ProcessOK, Saving
<1>9. PathsOK'
  BY <1>1, <1>3, CheckpointAssumption DEF IInv, PathsOK, FilesOK, Saved
<1>10. ShardsOK'
  <2>1. ASSUME NEW k \in Steps, NEW w \in Ranks PROVE ~Own(k, w)'
    <3>1. CASE shards[k][w].state = "complete"
      <4>1. /\ shards[k][w].value \in Seq(Trained) /\ k \in 1..Len(shards[k][w].value)
            /\ shards[k][w].value[k].life <= life
        BY <3>1 DEF IInv, FilesOK, ShardFiles, Steps
      <4>2. shards[k][w].value[k] \in Trained
        BY <4>1, ElementOfSeq
      <4>3. shards[k][w].value[k].life \in Nat
        BY <4>2 DEF Trained
      <4>4. shards[k][w].value[k].life # life'
        BY <1>1, <1>4, <4>1, <4>3
      <4>5. QED
        BY <1>1, <4>4 DEF Own
    <3>2. CASE shards[k][w].state # "complete"
      BY <1>1, <3>2 DEF Own
    <3>3. QED
      BY <3>1, <3>2
  <2>2. Remembered' = {}
    BY <1>1, <1>3 DEF Remembered
  <2>3. QED
    BY <1>1, <2>1, <2>2 DEF ShardsOK, Saved
<1>11. TrackerOK'
  <2> SUFFICES ASSUME followed' PROVE TrackerOK'
    BY DEF TrackerOK
  <2>1. tracker \in Steps => Whole(tracker)
    BY <1>1 DEF IInv, TrackerOK
  <2>2. tracker' \in Steps => Whole(tracker)'
    BY <1>1, <2>1 DEF Whole
  <2>3. CASE FromScratch
    <3>1. tracker' \notin Steps /\ tracker = 0
      BY <1>1, <2>3, Constants DEF IInv, FilesOK
    <3>2. QED
      BY <1>1, <1>6, <2>3, <3>1 DEF TrackerOK
  <2>4. CASE ~FromScratch
    <3>1. Load(tracker) /\ tracker \in Steps
      <4>1. Load(tracker)
        BY <1>1, <2>4
      <4>2. PICK k \in Steps : Load(k)
        BY <2>4
      <4>3. /\ tracker \in Nat /\ k \in Nat
            /\ global_steps' = tracker + 1 /\ global_steps' = k + 1
        BY <4>1, <4>2, Constants DEF Load, IInv, FilesOK
      <4>4. QED
        BY <4>1, <4>3, Constants
    <3>2. data[tracker] = Complete(Batches(tracker)) /\ tracker \in Nat
      BY <2>1, <3>1, Constants DEF Whole
    <3>3. RestoredPosition(tracker) = tracker
      BY <3>2, NoBatches, LenBatches DEF RestoredPosition
    <3>4. QED
      BY <1>1, <1>7, <2>1, <2>2, <3>1, <3>2, <3>3 DEF TrackerOK, Whole
  <2>5. QED
    BY <2>3, <2>4
<1>12. QED
  BY <1>5, <1>8, <1>9, <1>10, <1>11 DEF IInv

LEMMA StartAutoPreserves ==
  ASSUME IInv, StartAuto
  PROVE  IInv'
<1>1. Starts /\ ~truncated /\ followed' = followed /\ followed \in BOOLEAN
  BY DEF StartAuto, IInv, ProcessOK
<1>2. folders \subseteq Steps
  BY DEF IInv, FilesOK
<1>3. CASE LatestPath = Missing
  <2>1. FromScratch
    BY <1>3 DEF StartAuto
  <2>2. followed => tracker \notin Steps
    BY <1>3, Constants DEF IInv, TrackerOK, Whole, LatestPath
  <2>3. QED
    BY <1>1, <2>1, <2>2, StartsPreserves
<1>4. CASE LatestPath # Missing
  <2>1. LatestPath = tracker /\ tracker \in Steps
    BY <1>2, <1>4 DEF LatestPath
  <2>2. Load(tracker)
    BY <1>4, <2>1 DEF StartAuto
  <2>3. ~FromScratch
    BY <2>1, <2>2, Constants DEF Load, FromScratch
  <2>4. QED
    BY <1>1, <2>1, <2>2, <2>3, StartsPreserves
<1>5. QED
  BY <1>3, <1>4

LEMMA StartAtPathPreserves ==
  ASSUME IInv, StartAtPath
  PROVE  IInv'
<1>1. Starts /\ ~truncated /\ folders \subseteq Steps /\ followed \in BOOLEAN
  BY DEF StartAtPath, IInv, ProcessOK, FilesOK
<1>2. PICK k \in folders : Load(k) /\ followed' = (followed /\ k = LatestPath)
  BY DEF StartAtPath
<1>3. k \in Steps /\ followed' \in BOOLEAN
  BY <1>1, <1>2
<1>4. ~FromScratch
  BY <1>2, <1>3, Constants DEF Load, FromScratch
<1>5. followed' => followed /\ k = tracker
  BY <1>2, <1>3, Constants DEF LatestPath
<1>6. QED
  BY <1>1, <1>2, <1>3, <1>4, <1>5, StartsPreserves

LEMMA StartDisabledPreserves ==
  ASSUME IInv, StartDisabled
  PROVE  IInv'
<1>1. /\ Starts /\ FromScratch
      /\ followed' = (followed /\ LatestPath = Missing /\ ~truncated)
  BY DEF StartDisabled
<1>2. followed' \in BOOLEAN
  BY <1>1 DEF IInv, ProcessOK
<1>3. followed' => followed /\ LatestPath = Missing /\ ~truncated
  BY <1>1
<1>4. followed' => tracker \notin Steps
  BY <1>3, Constants DEF IInv, TrackerOK, Whole, LatestPath
<1>5. QED
  BY <1>1, <1>2, <1>3, <1>4, StartsPreserves

(* A step of training: one batch more, of this process.                    *)
LEMMA TrainPreserves ==
  ASSUME IInv, Train
  PROVE  IInv'
<1> DEFINE trained == [batch |-> position + 1, life |-> life]
<1>1. /\ phase = "fit"
      /\ model' = [w \in Ranks |-> Append(model[w], trained)]
      /\ position' = position + 1
      /\ \/ phase' = "remove" /\ global_steps' = global_steps
         \/ /\ phase' = "fit" /\ global_steps' = global_steps + 1
            /\ global_steps < TotalSteps
      /\ UNCHANGED <<max_ckpt_to_keep, shards, data, folders, tracker, truncated,
                     previous_saved_paths, life, followed>>
  <2>1. global_steps \in Int
    BY Constants DEF IInv, ProcessOK, Train
  <2>2. QED
    BY <2>1, Constants DEF Train, IsLastStep, disk
<1>2. /\ global_steps \in Steps /\ global_steps \in Nat \ {0} /\ life \in Nat /\ life > 0
      /\ Done = global_steps - 1 /\ position \in 0..Done /\ position \in Nat
      /\ \A w \in Ranks : model[w] \in Seq(Trained) /\ Len(model[w]) = Done
  BY <1>1, Constants DEF IInv, ProcessOK, Done, Saving
<1>3. Done' = global_steps /\ global_steps' \in Steps
  BY <1>1, <1>2, Constants DEF Done, Steps
<1>4. ASSUME NEW w \in Ranks
      PROVE  /\ model'[w] \in Seq(Trained) /\ Len(model'[w]) = global_steps
             /\ \A i \in 1..Done : model'[w][i] = model[w][i]
             /\ model'[w][global_steps] = trained
  <2>1. model'[w] = Append(model[w], trained)
    BY <1>1
  <2>2. Done \in Nat /\ Done + 1 = global_steps /\ position + 1 \in Nat
    BY <1>2
  <2>3. QED
    BY <1>2, <2>1, <2>2, ModelAppended
<1>5. FilesOK'
  BY <1>1 DEF IInv, FilesOK
<1>6. ProcessOK'
  <2>1. model' \in [Ranks -> Seq(Trained)]
    BY <1>1, <1>4
  <2>2. life' > 0 /\ position' \in 0..Done' /\ position' > 0
    BY <1>1, <1>2, <1>3
  <2>3. \A w \in Ranks : Len(model'[w]) = Done'
    BY <1>3, <1>4
  <2>4. Saving' => \A w \in Ranks : model'[w][global_steps'].life = life'
    BY <1>1, <1>4 DEF Saving
  <2>5. QED
    BY <1>1, <1>3, <2>1, <2>2, <2>3, <2>4 DEF IInv, ProcessOK, Saving
<1>7. PathsOK'
  <2> DEFINE p == previous_saved_paths
  <2>1. ~Saved /\ ~Saved' /\ phase # "write" /\ phase' # "write"
    BY <1>1 DEF Saved
  <2>2. \A i \in 1..Len(p) : p[i] < global_steps /\ p[i] \in Nat
    BY <2>1, ElementOfSeq, Constants DEF IInv, PathsOK
  <2>3. \A i \in 1..Len(p) : p[i] <= global_steps' /\ p[i] < global_steps'
    BY <1>1, <1>2, <2>2
  <2>4. QED
    BY <1>1, <2>1, <2>3 DEF IInv, PathsOK
<1>8. ShardsOK'
  <2>1. ASSUME NEW k \in Steps, NEW w \in Ranks
        PROVE  Own(k, w)' = Own(k, w) /\ Remembered' = Remembered /\ Obsolete' = Obsolete
    BY <1>1 DEF Own, Remembered, Obsolete, KeepStart
  <2>2. QED
    BY <1>1, <2>1 DEF IInv, ShardsOK, Saved
<1>9. TrackerOK'
  <2> SUFFICES ASSUME followed PROVE TrackerOK'
    BY <1>1 DEF TrackerOK
  <2>1. tracker' \in Steps => Whole(tracker)'
    BY <1>1 DEF IInv, TrackerOK, Whole
  <2>2. /\ tracker < global_steps /\ position = Done /\ (truncated <=> FALSE)
        /\ \A w \in Ranks :
              /\ \A v \in Ranks : model[w] = model[v]
              /\ \A i \in 1..Done : model[w][i].batch = i
              /\ tracker \in Steps /\ shards[tracker][w].state = "complete" =>
                   \A i \in 1..tracker : shards[tracker][w].value[i] = model[w][i]
    BY <1>1 DEF IInv, TrackerOK
  <2>3. tracker' < global_steps' /\ position' = Done' /\ tracker \in Nat
    BY <1>1, <1>2, <1>3, <2>2, Constants DEF IInv, FilesOK
  <2>4. ASSUME NEW w \in Ranks
        PROVE  /\ \A v \in Ranks : model'[w] = model'[v]
               /\ \A i \in 1..Done' : model'[w][i].batch = i
               /\ tracker' \in Steps /\ shards'[tracker'][w].state = "complete" =>
                    \A i \in 1..tracker : shards'[tracker'][w].value[i] = model'[w][i]
    <3>1. \A v \in Ranks : model'[w] = model'[v]
      BY <1>1, <2>2
    <3>2. ASSUME NEW i \in 1..Done' PROVE model'[w][i].batch = i
      <4>1. CASE i = global_steps
        BY <1>2, <1>4, <2>2, <4>1
      <4>2. CASE i \in 1..Done
        BY <1>4, <2>2, <4>2
      <4>3. QED
        BY <1>2, <1>3, <4>1, <4>2
    <3>3. ASSUME tracker \in Steps, shards[tracker][w].state = "complete", NEW i \in 1..tracker
          PROVE  shards[tracker][w].value[i] = model'[w][i]
      <4>1. i \in 1..Done
        BY <1>2, <2>2, <2>3
      <4>2. QED
        BY <1>4, <2>2, <3>3, <4>1
    <3>4. QED
      BY <1>1, <3>1, <3>2, <3>3
  <2>5. phase' \in {"fit", "remove"} /\ previous_saved_paths' # <<>> =>
          previous_saved_paths'[Len(previous_saved_paths')] = tracker'
    BY <1>1 DEF IInv, TrackerOK
  <2>6. QED
    BY <1>1, <2>1, <2>2, <2>3, <2>4, <2>5 DEF TrackerOK
<1>10. QED
  BY <1>5, <1>6, <1>7, <1>8, <1>9 DEF IInv

(* What IInv says of a process that is up, in the words of the actions.    *)
LEMMA Up ==
  ASSUME IInv, phase # "down"
  PROVE  /\ global_steps \in Steps /\ global_steps \in Nat /\ global_steps > 0
         /\ life \in Nat /\ life > 0 /\ position \in 0..Done
         /\ \A w \in Ranks : model[w] \in Seq(Trained) /\ Len(model[w]) = Done
         /\ Saving => /\ Done = global_steps /\ position \in Steps
                      /\ \A w \in Ranks : model[w][global_steps].life = life
         /\ followed => tracker < global_steps /\ position = Done
<1>1. /\ global_steps \in Steps /\ global_steps \in Nat /\ global_steps > 0
      /\ life \in Nat /\ life > 0 /\ position \in 0..Done
      /\ \A w \in Ranks : model[w] \in Seq(Trained) /\ Len(model[w]) = Done
      /\ Saving => /\ position > 0
                   /\ \A w \in Ranks : model[w][global_steps].life = life
  BY Constants DEF IInv, ProcessOK
<1>2. Saving => Done = global_steps /\ position \in Steps
  BY <1>1, Constants DEF Saving, Done, Steps
<1>3. QED
  BY <1>1, <1>2 DEF IInv, TrackerOK

(* The tracked checkpoint stays whole while its own files stay.            *)
LEMMA WholeStays ==
  ASSUME NEW k \in Steps, Whole(k), folders \subseteq folders', data'[k] = data[k],
         shards'[k] = shards[k], UNCHANGED max_ckpt_to_keep
  PROVE  Whole(k)'
BY DEF Whole

LEMMA RemoveFilePreserves ==
  ASSUME IInv, RemoveFile
  PROVE  IInv'
<1> DEFINE p == previous_saved_paths
<1>1. /\ phase = "remove"
      /\ UNCHANGED <<max_ckpt_to_keep, data, folders, tracker, truncated, phase, global_steps,
                     model, position, previous_saved_paths, life, followed>>
  BY DEF RemoveFile, memory
<1>2. PICK k \in Obsolete, w \in Ranks : shards' = [shards EXCEPT ![k][w] = Absent]
  BY DEF RemoveFile
<1>3. /\ k = p[1] /\ Len(p) \in Nat /\ Len(p) > 0
      /\ max_ckpt_to_keep > 0 /\ Len(p) = max_ckpt_to_keep
  BY <1>2, RotationTakesOne DEF IInv
<1>4. k \in Steps /\ k \in Remembered
  BY <1>3, ElementOfSeq DEF IInv, PathsOK, Remembered
<1>5. /\ shards' \in [Steps -> [Ranks -> ShardFiles]]
      /\ \A j \in Steps : j # k => shards'[j] = shards[j]
      /\ \A v \in Ranks : v # w => shards'[k][v] = shards[k][v]
      /\ shards'[k][w] = Absent
  BY <1>2, <1>4, NoBatches DEF IInv, FilesOK
<1>6. FilesOK'
  <2>1. ASSUME NEW j \in Steps, NEW v \in Ranks
        PROVE  shards'[j][v] = shards[j][v] \/ shards'[j][v] = Absent
    BY <1>5
  <2>2. QED
    BY SMTT(30), <1>1, <1>5, <2>1, NoBatches DEF IInv, FilesOK
<1>7. ProcessOK' /\ PathsOK'
  BY <1>1 DEF IInv, ProcessOK, PathsOK, Saving, Saved, Done, FilesOK
<1>8. ShardsOK'
  <2>1. Remembered' = Remembered /\ Obsolete' = Obsolete
    BY <1>1 DEF Remembered, Obsolete, KeepStart
  <2>2. ASSUME NEW j \in Steps, NEW v \in Ranks
        PROVE  Own(j, v)' => Own(j, v)
    BY <1>1, <1>5, NoBatches DEF Own
  <2>3. ASSUME NEW j \in Steps, NEW v \in Ranks, j # k
        PROVE  Own(j, v)' = Own(j, v)
    BY <1>1, <1>5, <2>3 DEF Own
  <2>4. QED
    BY <1>1, <1>2, <2>1, <2>2, <2>3 DEF IInv, ShardsOK, Saved
<1>9. TrackerOK'
  <2> SUFFICES ASSUME followed PROVE TrackerOK'
    BY <1>1 DEF TrackerOK
  <2>1. /\ tracker \in Steps => Whole(tracker)
        /\ p[Len(p)] = tracker
    BY <1>1, <1>3, EmptySeq DEF IInv, TrackerOK
  <2>2. ASSUME max_ckpt_to_keep # 1 PROVE tracker # k
    <3>1. 1 \in 1..Len(p) /\ Len(p) \in 1..Len(p) /\ 1 < Len(p)
      BY <1>3, <2>2
    <3>2. p[1] < p[Len(p)] /\ p[1] \in Nat
      BY <1>3, <1>4, <3>1, Constants DEF IInv, PathsOK
    <3>3. QED
      BY <1>3, <2>1, <3>2
  <2>3. ASSUME NEW v \in Ranks, tracker \in Steps
        PROVE  \/ shards'[tracker][v] = shards[tracker][v]
               \/ shards'[tracker][v] = Absent /\ max_ckpt_to_keep = 1
    <3>1. CASE tracker = k
      BY <1>5, <2>2, <3>1
    <3>2. CASE tracker # k
      BY <1>5, <2>3, <3>2
    <3>3. QED
      BY <3>1, <3>2
  <2>4. tracker \in Steps => Whole(tracker)'
    BY <1>1, <2>1, <2>3, NoBatches DEF Whole
  <2>5. \A v \in Ranks : tracker \in Steps /\ shards'[tracker][v].state = "complete" =>
          shards'[tracker][v] = shards[tracker][v]
    BY <2>3, NoBatches
  <2>6. QED
    BY <1>1, <2>4, <2>5 DEF IInv, TrackerOK, Done
<1>10. QED
  BY <1>6, <1>7, <1>8, <1>9 DEF IInv

(* The paths left after the rotation.                                      *)
LEMMA RotationDrops ==
  ASSUME IInv
  PROVE  LET p == previous_saved_paths
             q == SubSeq(p, KeepStart + 1, Len(p))
         IN  /\ q \in Seq(Steps) /\ Len(q) = Len(p) - KeepStart
             /\ \A i \in 1..Len(q) : q[i] = p[i + KeepStart] /\ i + KeepStart \in 1..Len(p)
             /\ \A i \in 1..Len(p) : p[i] \notin Obsolete => i - KeepStart \in 1..Len(q)
             /\ \A i \in 1..Len(q) : q[i] \notin Obsolete
<1> DEFINE p == previous_saved_paths
           q == SubSeq(p, KeepStart + 1, Len(p))
<1>1. /\ p \in Seq(Steps) /\ Len(p) \in Nat /\ KeepStart \in 0..1 /\ KeepStart <= Len(p)
      /\ KeepStart = 0 => Obsolete = {}
      /\ KeepStart = 1 => Len(p) > 0 /\ Obsolete = {p[1]}
      /\ \A i, j \in 1..Len(p) : i < j => p[i] < p[j]
      /\ \A i \in 1..Len(p) : p[i] \in Nat
  BY RotationTakesOne, ElementOfSeq, Constants DEF IInv, PathsOK
<1>2. \A i \in KeepStart + 1 .. Len(p) : p[i] \in Steps
  BY <1>1, ElementOfSeq
<1>3. /\ q \in Seq(Steps) /\ Len(q) = Len(p) - KeepStart
      /\ \A i \in 1..Len(p) - KeepStart : q[i] = p[i + KeepStart]
  <2>1. /\ q \in Seq(Steps)
        /\ Len(q) = IF KeepStart + 1 <= Len(p) THEN Len(p) - (KeepStart + 1) + 1 ELSE 0
        /\ \A i \in 1..Len(p) - (KeepStart + 1) + 1 : q[i] = p[(KeepStart + 1) + i - 1]
    BY <1>1, <1>2, SubSeqProperties, KeepStart + 1 \in Int, Len(p) \in Int
  <2>2. QED
    BY <1>1, <2>1
<1>4. \A i \in 1..Len(q) : i + KeepStart \in 1..Len(p)
  BY <1>1, <1>3
<1>5. ASSUME NEW i \in 1..Len(q) PROVE q[i] \notin Obsolete
  <2>1. CASE KeepStart = 1
    <3>1. p[1] < p[i + 1] /\ q[i] = p[i + 1] /\ p[1] \in Nat /\ p[i + 1] \in Nat
      BY <1>1, <1>3, <1>4, <2>1
    <3>2. QED
      BY <1>1, <2>1, <3>1
  <2>2. QED
    BY <1>1, <2>1
<1>6. ASSUME NEW i \in 1..Len(p), p[i] \notin Obsolete PROVE i - KeepStart \in 1..Len(q)
  BY <1>1, <1>3, <1>6
<1>7. QED
  BY <1>3, <1>4, <1>5, <1>6

LEMMA MakeFolderPreserves ==
  ASSUME IInv, MakeFolder
  PROVE  IInv'
<1> DEFINE p == previous_saved_paths
           q == SubSeq(p, KeepStart + 1, Len(p))
<1>1. /\ phase = "remove" /\ phase' = "write"
      /\ \A k \in Obsolete, w \in Ranks : shards[k][w] = Absent
      /\ previous_saved_paths' = q
      /\ folders' = folders \cup {global_steps}
      /\ UNCHANGED <<max_ckpt_to_keep, shards, data, tracker, truncated, global_steps, model,
                     position, life, followed>>
  BY DEF MakeFolder
<1>2. /\ q \in Seq(Steps) /\ Len(q) = Len(p) - KeepStart
      /\ \A i \in 1..Len(q) : q[i] = p[i + KeepStart] /\ i + KeepStart \in 1..Len(p)
      /\ \A i \in 1..Len(p) : p[i] \notin Obsolete => i - KeepStart \in 1..Len(q)
      /\ \A i \in 1..Len(q) : q[i] \notin Obsolete
  BY RotationDrops
<1>3. /\ KeepStart = IF max_ckpt_to_keep > 0 /\ Len(p) = max_ckpt_to_keep THEN 1 ELSE 0
      /\ Len(p) \in Nat /\ max_ckpt_to_keep \in Nat
  BY RotationTakesOne, CheckpointAssumption DEF IInv, FilesOK
<1>4. /\ global_steps \in Steps /\ ~Saved /\ ~Saved' /\ Done' = Done
  BY <1>1, Up DEF Saved, Done
<1>5. FilesOK'
  BY <1>1, <1>4 DEF IInv, FilesOK
<1>6. ProcessOK'
  BY <1>1, <1>4 DEF IInv, ProcessOK, Saving
<1>7. PathsOK'
  <2>1. ASSUME NEW i \in 1..Len(q), NEW j \in 1..Len(q), i < j PROVE q[i] < q[j]
    <3>1. /\ i + KeepStart \in 1..Len(p) /\ j + KeepStart \in 1..Len(p)
          /\ i + KeepStart < j + KeepStart
      BY <1>2, <1>3, <2>1
    <3>2. p[i + KeepStart] < p[j + KeepStart]
      BY <3>1 DEF IInv, PathsOK
    <3>3. QED
      BY <1>2, <3>2
  <2>2. \A i \in 1..Len(q) : /\ q[i] \in folders'
                             /\ q[i] <= global_steps' /\ q[i] < global_steps'
    BY <1>1, <1>2, <1>4 DEF IInv, PathsOK
  <2>3. max_ckpt_to_keep > 0 => Len(q) < max_ckpt_to_keep /\ Len(q) <= max_ckpt_to_keep
    BY <1>2, <1>3 DEF IInv, PathsOK
  <2> HIDE DEF q
  <2>4. QED
    BY <1>1, <1>2, <1>4, <2>1, <2>2, <2>3 DEF PathsOK
<1>8. ShardsOK'
  <2>1. Remembered' = Remembered \ Obsolete
    <3>1. ASSUME NEW k \in Remembered', TRUE PROVE k \in Remembered \ Obsolete
      <4>1. PICK i \in 1..Len(q) : k = q[i]
        BY <1>1, <3>1 DEF Remembered
      <4>2. QED
        BY <1>2, <4>1 DEF Remembered
    <3>2. ASSUME NEW k \in Remembered \ Obsolete PROVE k \in Remembered'
      <4>1. PICK i \in 1..Len(p) : k = p[i]
        BY DEF Remembered
      <4>2. i - KeepStart \in 1..Len(q) /\ q[i - KeepStart] = p[i]
        BY <1>2, <1>3, <4>1
      <4>3. QED
        BY <1>1, <4>1, <4>2 DEF Remembered
    <3>3. QED
      BY <3>1, <3>2
  <2>2. ASSUME NEW k \in Steps, NEW w \in Ranks
        PROVE  /\ Own(k, w)' = Own(k, w)
               /\ k \in Obsolete => ~Own(k, w)
    BY <1>1, NoBatches DEF Own
  <2>3. QED
    BY <1>1, <1>4, <2>1, <2>2 DEF IInv, ShardsOK
<1>9. TrackerOK'
  <2> SUFFICES ASSUME followed PROVE TrackerOK'
    BY <1>1 DEF TrackerOK
  <2>1. tracker' \in Steps => Whole(tracker)'
    BY <1>1 DEF IInv, TrackerOK, Whole
  <2>2. QED
    BY <1>1, <1>4, <2>1 DEF IInv, TrackerOK
<1>10. QED
  BY <1>5, <1>6, <1>7, <1>8, <1>9 DEF IInv

(* A rank opens or closes the shard of the step being saved.               *)
LEMMA WriteShardPreserves ==
  ASSUME IInv, NEW w \in Ranks, phase = "write", ~Written(w),
         NEW file, file \in {Partial, Complete(model[w])},
         shards' = [shards EXCEPT ![global_steps][w] = file],
         UNCHANGED <<max_ckpt_to_keep, data, folders, tracker, truncated, memory, life, followed>>
  PROVE  IInv'
<1>1. /\ phase' = phase
      /\ UNCHANGED <<max_ckpt_to_keep, data, folders, tracker, truncated, global_steps, model,
                     position, previous_saved_paths, life, followed>>
  BY DEF memory
<1>2. /\ global_steps \in Steps /\ global_steps \in Nat /\ global_steps > 0 /\ life \in Nat
      /\ model[w] \in Seq(Trained) /\ Len(model[w]) = global_steps
      /\ model[w][global_steps].life = life
      /\ ~Saved /\ ~Saved'
  BY <1>1, Up DEF Saving, Saved
<1>3. /\ file \in ShardFiles /\ file.state # "absent"
      /\ file.state # "complete" => file.value = <<>>
      /\ file.state = "complete" =>
           Len(file.value) = global_steps /\ file.value[global_steps].life = life
  BY <1>2, NoBatches
<1>4. /\ shards' \in [Steps -> [Ranks -> ShardFiles]]
      /\ \A k \in Steps : k # global_steps => shards'[k] = shards[k]
      /\ \A v \in Ranks : v # w => shards'[global_steps][v] = shards[global_steps][v]
      /\ shards'[global_steps][w] = file
  BY <1>2, <1>3 DEF IInv, FilesOK
<1>5. FilesOK'
  <2>1. ASSUME NEW k \in Steps, NEW v \in Ranks
        PROVE  /\ shards'[k][v].state # "complete" => shards'[k][v].value = <<>>
               /\ shards'[k][v].state = "complete" =>
                    Len(shards'[k][v].value) = k /\ shards'[k][v].value[k].life <= life
    <3>1. CASE k = global_steps /\ v = w
      BY <1>2, <1>3, <1>4, <3>1
    <3>2. CASE ~(k = global_steps /\ v = w)
      <4>1. shards'[k][v] = shards[k][v]
        BY <1>4, <3>2
      <4>2. QED
        BY <4>1 DEF IInv, FilesOK
    <3>3. QED
      BY <3>1, <3>2
  <2>2. QED
    BY <1>1, <1>4, <2>1 DEF IInv, FilesOK
<1>6. ProcessOK' /\ PathsOK'
  BY <1>1 DEF IInv, ProcessOK, PathsOK, Saving, Saved, Done, FilesOK
<1>7. ShardsOK'
  <2>1. Remembered' = Remembered /\ global_steps \notin Remembered
    BY <1>1, <1>2 DEF IInv, PathsOK, Remembered
  <2>2. ASSUME NEW k \in Steps, NEW v \in Ranks, k # global_steps
        PROVE  Own(k, v)' = Own(k, v)
    BY <1>1, <1>4, <2>2 DEF Own
  <2>3. QED
    BY <1>1, <1>2, <2>1, <2>2 DEF IInv, ShardsOK
<1>8. TrackerOK'
  <2> SUFFICES ASSUME followed PROVE TrackerOK'
    BY <1>1 DEF TrackerOK
  <2>1. tracker # global_steps
    BY <1>2, Up
  <2>2. tracker \in Steps => shards'[tracker] = shards[tracker] /\ Whole(tracker)'
    BY <1>1, <1>4, <2>1, WholeStays DEF IInv, TrackerOK
  <2>3. QED
    BY <1>1, <2>2 DEF IInv, TrackerOK, Done
<1>9. QED
  BY <1>5, <1>6, <1>7, <1>8 DEF IInv

LEMMA OpenShardPreserves ==
  ASSUME IInv, NEW w \in Ranks, OpenShard(w)
  PROVE  IInv'
BY WriteShardPreserves DEF OpenShard

LEMMA CloseShardPreserves ==
  ASSUME IInv, NEW w \in Ranks, CloseShard(w)
  PROVE  IInv'
<1>1. ~Written(w)
  BY NoBatches DEF CloseShard, Written
<1>2. QED
  BY <1>1, WriteShardPreserves DEF CloseShard

LEMMA AllWrittenPreserves ==
  ASSUME IInv, AllWritten
  PROVE  IInv'
<1> DEFINE p == previous_saved_paths
           q == Append(p, global_steps)
<1>1. /\ phase = "write" /\ phase' = "data"
      /\ \A w \in Ranks : Written(w)
      /\ previous_saved_paths' = q
      /\ UNCHANGED <<max_ckpt_to_keep, shards, data, folders, tracker, truncated, global_steps,
                     model, position, life, followed>>
  BY DEF AllWritten, disk
<1>2. /\ global_steps \in Steps /\ global_steps \in Nat /\ global_steps > 0 /\ life \in Nat
      /\ \A w \in Ranks : /\ model[w] \in Seq(Trained) /\ Len(model[w]) = global_steps
                          /\ model[w][global_steps].life = life
      /\ Saving /\ Saving' /\ ~Saved /\ Saved' /\ Done' = Done
  BY <1>1, Up DEF Saving, Saved, Done
<1>3. /\ p \in Seq(Steps) /\ Len(p) \in Nat
      /\ q \in Seq(Steps) /\ Len(q) = Len(p) + 1
      /\ \A i \in 1..Len(p) : q[i] = p[i] /\ p[i] \in Nat
      /\ q[Len(p) + 1] = global_steps
  <2>1. p \in Seq(Steps)
    BY DEF IInv, PathsOK
  <2>2. Len(p) \in Nat /\ \A i \in 1..Len(p) : p[i] \in Nat
    BY <2>1, LenProperties, ElementOfSeq, Constants
  <2>3. QED
    BY <1>2, <2>1, <2>2, AppendProperties
<1>4. FilesOK'
  BY <1>1 DEF IInv, FilesOK
<1>5. ProcessOK'
  BY <1>1, <1>2 DEF IInv, ProcessOK, Saving
<1>6. PathsOK'
  <2>1. global_steps \in folders
    BY <1>1 DEF IInv, PathsOK
  <2>2. \A i \in 1..Len(q) : i # Len(p) + 1 => i \in 1..Len(p)
    BY <1>3
  <2>3. \A i, j \in 1..Len(q) : i < j => q[i] < q[j]
    BY <1>2, <1>3, <2>2 DEF IInv, PathsOK
  <2>4. \A i \in 1..Len(q) : q[i] \in folders /\ q[i] <= global_steps
    BY <1>2, <1>3, <2>1, <2>2 DEF IInv, PathsOK
  <2>5. max_ckpt_to_keep > 0 => Len(q) <= max_ckpt_to_keep
    BY <1>1, <1>3, CheckpointAssumption DEF IInv, PathsOK, FilesOK
  <2>6. Len(q) > 0 /\ q[Len(q)] = global_steps
    BY <1>3
  <2> HIDE DEF q
  <2>7. QED
    BY <1>1, <1>2, <1>3, <2>3, <2>4, <2>5, <2>6 DEF PathsOK
<1>7. ShardsOK'
  <2>1. Remembered' = Remembered \cup {global_steps}
    <3>1. DOMAIN q = 1..Len(p) + 1 /\ \A i \in 1..Len(p) + 1 : i = Len(p) + 1 \/ i \in 1..Len(p)
      BY <1>3, LenProperties
    <3>2. QED
      BY <1>1, <1>3, <3>1 DEF Remembered
  <2>2. ASSUME NEW k \in Steps, NEW w \in Ranks PROVE Own(k, w)' = Own(k, w)
    BY <1>1 DEF Own
  <2>3. \A w \in Ranks : Own(global_steps, w)
    BY <1>1, <1>2, NoBatches DEF Own, Written
  <2>4. \A w \in Ranks : Written(w)'
    BY <1>1 DEF Written
  <2>5. QED
    BY <1>1, <2>1, <2>2, <2>3, <2>4 DEF IInv, ShardsOK
<1>8. TrackerOK'
  <2> SUFFICES ASSUME followed PROVE TrackerOK'
    BY <1>1 DEF TrackerOK
  <2>1. tracker' \in Steps => Whole(tracker)'
    BY <1>1 DEF IInv, TrackerOK, Whole
  <2>2. QED
    BY <1>1, <1>2, <2>1 DEF IInv, TrackerOK
<1>9. QED
  BY <1>4, <1>5, <1>6, <1>7, <1>8 DEF IInv

(* From the data loader to the tracker the shards and the paths stay.      *)
LEMMA SavedStays ==
  ASSUME IInv, Saved, Saved',
         UNCHANGED <<max_ckpt_to_keep, shards, folders, global_steps, model, position,
                     previous_saved_paths, life, followed>>
  PROVE  ProcessOK' /\ PathsOK' /\ ShardsOK'
<1>1. ProcessOK' /\ PathsOK'
  BY DEF IInv, ProcessOK, PathsOK, Saving, Saved, Done, FilesOK
<1>2. ShardsOK'
  <2>1. /\ \A k \in Steps, w \in Ranks : Own(k, w)' = Own(k, w)
        /\ Remembered' = Remembered /\ \A w \in Ranks : Written(w)' = Written(w)
    BY DEF Own, Remembered, Written
  <2>2. /\ phase # "down" /\ phase # "write" /\ phase # "remove"
        /\ phase' # "down" /\ phase' # "write" /\ phase' # "remove"
    BY DEF Saved
  <2>3. QED
    BY <2>1, <2>2 DEF IInv, ShardsOK
<1>3. QED
  BY <1>1, <1>2

LEMMA OpenDataPreserves ==
  ASSUME IInv, OpenData
  PROVE  IInv'
<1>1. /\ phase = "data" /\ phase' = "data_open"
      /\ data' = [data EXCEPT ![global_steps] = Partial]
      /\ UNCHANGED <<max_ckpt_to_keep, shards, folders, tracker, truncated, global_steps, model,
                     position, previous_saved_paths, life, followed>>
  BY DEF OpenData
<1>2. /\ global_steps \in Steps /\ global_steps \in Nat /\ Len(<<>>) = 0
      /\ Saved /\ Saved' /\ Done' = Done
  BY <1>1, Up, EmptySeq DEF Saved, Done
<1>3. FilesOK'
  <2>1. \A k \in Steps : Len(data'[k].value) <= k
    BY <1>1, <1>2, NoBatches, Constants DEF IInv, FilesOK
  <2>2. QED
    BY <1>1, <1>2, <2>1 DEF IInv, FilesOK
<1>4. ProcessOK' /\ PathsOK' /\ ShardsOK'
  BY <1>1, <1>2, SavedStays
<1>5. TrackerOK'
  <2> SUFFICES ASSUME followed PROVE TrackerOK'
    BY <1>1 DEF TrackerOK
  <2>1. tracker # global_steps
    BY <1>1, <1>2, Up
  <2>2. tracker \in Steps => Whole(tracker)'
    BY <1>1, <2>1, WholeStays DEF IInv, TrackerOK, FilesOK
  <2>3. QED
    BY <1>1, <1>2, <2>2 DEF IInv, TrackerOK
<1>6. QED
  BY <1>3, <1>4, <1>5 DEF IInv

LEMMA CloseDataPreserves ==
  ASSUME IInv, CloseData
  PROVE  IInv'
<1>1. /\ phase = "data_open" /\ phase' = "tracker"
      /\ data' = [data EXCEPT ![global_steps] = Complete(Batches(position))]
      /\ UNCHANGED <<max_ckpt_to_keep, shards, folders, tracker, truncated, global_steps, model,
                     position, previous_saved_paths, life, followed>>
  BY DEF CloseData
<1>2. /\ global_steps \in Steps /\ global_steps \in Nat /\ position \in Steps
      /\ Saving /\ Saved /\ Saved' /\ Done' = Done /\ Done = global_steps
      /\ position \in Nat /\ position <= global_steps
  BY <1>1, Up, Constants DEF Saving, Saved, Done
<1>3. FilesOK'
  <2>1. Complete(Batches(position)).value = Batches(position) /\ Len(Batches(position)) = position
    BY <1>2, NoBatches, LenBatches
  <2>2. \A k \in Steps : Len(data'[k].value) <= k
    BY <1>1, <1>2, <2>1 DEF IInv, FilesOK
  <2>3. data' \in [Steps -> {Absent, Partial} \cup {Complete(Batches(n)) : n \in Steps}]
    BY <1>1, <1>2 DEF IInv, FilesOK
  <2>4. QED
    BY <1>1, <2>2, <2>3 DEF IInv, FilesOK
<1>4. ProcessOK' /\ PathsOK' /\ ShardsOK'
  BY <1>1, <1>2, SavedStays
<1>5. TrackerOK'
  <2> SUFFICES ASSUME followed PROVE TrackerOK'
    BY <1>1 DEF TrackerOK
  <2>1. tracker # global_steps /\ position = global_steps
    BY <1>1, <1>2, Up
  <2>2. tracker \in Steps => Whole(tracker)'
    BY <1>1, <2>1, WholeStays DEF IInv, TrackerOK, FilesOK
  <2>3. data'[global_steps'] = Complete(Batches(global_steps'))
    BY <1>1, <1>2, <2>1 DEF IInv, FilesOK
  <2>4. QED
    BY <1>1, <1>2, <2>2, <2>3 DEF IInv, TrackerOK
<1>6. QED
  BY <1>3, <1>4, <1>5 DEF IInv

LEMMA OpenTrackerPreserves ==
  ASSUME IInv, OpenTracker
  PROVE  IInv'
<1>1. /\ phase = "tracker" /\ phase' = "tracker_open" /\ truncated' = TRUE
      /\ UNCHANGED <<max_ckpt_to_keep, shards, data, folders, tracker, global_steps, model,
                     position, previous_saved_paths, life, followed>>
  BY DEF OpenTracker
<1>2. Saved /\ Saved' /\ Done' = Done
  BY <1>1 DEF Saved, Done
<1>3. FilesOK'
  BY <1>1 DEF IInv, FilesOK
<1>4. ProcessOK' /\ PathsOK' /\ ShardsOK'
  BY <1>1, <1>2, SavedStays
<1>5. TrackerOK'
  BY <1>1, <1>2 DEF IInv, TrackerOK, Whole
<1>6. QED
  BY <1>3, <1>4, <1>5 DEF IInv

(* The tracker is closed: the step that was saved is the tracked one, and  *)
(* the process is over or goes on with the next.                           *)
LEMMA CloseTrackerPreserves ==
  ASSUME IInv, CloseTracker
  PROVE  IInv'
<1> DEFINE p == previous_saved_paths
<1>1. /\ phase = "tracker_open"
      /\ tracker' = global_steps /\ truncated' = FALSE
      /\ UNCHANGED <<max_ckpt_to_keep, shards, data, folders, life, followed>>
  BY DEF CloseTracker
<1>2. /\ global_steps \in Steps /\ global_steps \in Nat /\ life \in Nat /\ life > 0
      /\ Saving /\ Saved /\ Done = global_steps
      /\ position \in 0..Done
      /\ \A w \in Ranks : Len(model[w]) = Done
  BY <1>1, Up DEF Saving, Saved
<1>3. \/ Down
      \/ /\ phase' = "fit" /\ global_steps' = global_steps + 1 /\ global_steps' \in Steps
         /\ UNCHANGED <<model, position, previous_saved_paths>>
  BY <1>2, Constants DEF CloseTracker, NextTurn, IsLastStep, Steps
<1>4. p \in Seq(Steps) /\ Len(p) \in Nat /\ Len(p) > 0 /\ p[Len(p)] = global_steps
  BY <1>2, LenProperties DEF IInv, PathsOK
<1>5. FilesOK'
  BY <1>1, <1>2 DEF IInv, FilesOK
<1>6. followed => Whole(tracker)'
  <2> SUFFICES ASSUME followed PROVE Whole(tracker)'
    OBVIOUS
  <2>1. global_steps \in folders
    BY <1>4 DEF IInv, PathsOK
  <2>2. data[global_steps] = Complete(Batches(global_steps))
    BY <1>1 DEF IInv, TrackerOK
  <2>3. /\ \A v, w \in Ranks : model[w] = model[v]
        /\ \A w \in Ranks, i \in 1..global_steps : model[w][i].batch = i
    BY <1>1, <1>2 DEF IInv, TrackerOK
  <2>4. \A w \in Ranks : /\ shards[global_steps][w].state = "complete"
                         /\ shards[global_steps][w].value = model[w]
    BY <1>2, NoBatches DEF IInv, ShardsOK, Written
  <2>5. Whole(global_steps)
    BY <2>1, <2>2, <2>3, <2>4 DEF Whole
  <2>6. QED
    BY <1>1, <2>5 DEF Whole
<1>7. CASE Down
  <2>1. <<>> \in Seq(Trained) /\ Len(<<>>) = 0 /\ <<>> \in Seq(Steps)
    BY EmptySeq
  <2>2. /\ phase' = "down" /\ global_steps' = 0 /\ model' = NoModel /\ position' = 0
        /\ previous_saved_paths' = <<>>
    BY <1>7 DEF Down
  <2>3. ProcessOK'
    BY <1>1, <2>1, <2>2 DEF IInv, ProcessOK, NoModel
  <2>4. PathsOK'
    BY <1>1, <2>1, <2>2, CheckpointAssumption DEF IInv, PathsOK, Saved, FilesOK
  <2>5. ShardsOK'
    BY <2>2 DEF ShardsOK, Saved
  <2>6. TrackerOK'
    BY <1>1, <1>6, <2>2 DEF IInv, TrackerOK
  <2>7. QED
    BY <1>5, <2>3, <2>4, <2>5, <2>6 DEF IInv
<1>8. CASE /\ phase' = "fit" /\ global_steps' = global_steps + 1 /\ global_steps' \in Steps
           /\ UNCHANGED <<model, position, previous_saved_paths>>
  <2>1. Done' = Done /\ ~Saved' /\ ~Saving'
    BY <1>2, <1>8 DEF Done, Saved, Saving
  <2>2. ProcessOK'
    BY <1>1, <1>2, <1>8, <2>1 DEF IInv, ProcessOK
  <2>3. PathsOK'
    <3>1. \A i \in 1..Len(p) : p[i] <= global_steps /\ p[i] \in Nat
      BY <1>4, ElementOfSeq, Constants DEF IInv, PathsOK
    <3>2. \A i \in 1..Len(p) : p[i] <= global_steps' /\ p[i] < global_steps'
      BY <1>2, <1>8, <3>1
    <3>3. QED
      BY <1>1, <1>8, <2>1, <3>2 DEF IInv, PathsOK
  <2>4. ShardsOK'
    <3>1. /\ \A k \in Steps, w \in Ranks : Own(k, w)' = Own(k, w)
          /\ Remembered' = Remembered
      BY <1>1, <1>8 DEF Own, Remembered
    <3>2. QED
      BY <1>1, <1>8, <2>1, <3>1 DEF IInv, ShardsOK
  <2>5. TrackerOK'
    <3> SUFFICES ASSUME followed PROVE TrackerOK'
      BY <1>1 DEF TrackerOK
    <3>1. tracker' < global_steps' /\ position' = Done'
      BY <1>1, <1>2, <1>8, <2>1 DEF IInv, TrackerOK
    <3>2. \A w \in Ranks : \A i \in 1..tracker' : shards'[tracker'][w].value[i] = model'[w][i]
      BY <1>1, <1>2, <1>8, NoBatches DEF IInv, ShardsOK, Written
    <3>3. \A w \in Ranks : /\ \A v \in Ranks : model'[w] = model'[v]
                           /\ \A i \in 1..Done' : model'[w][i].batch = i
      BY <1>1, <1>8, <2>1 DEF IInv, TrackerOK
    <3>4. QED
      BY <1>1, <1>4, <1>6, <1>8, <2>1, <3>1, <3>2, <3>3 DEF TrackerOK
  <2>6. QED
    BY <1>5, <2>2, <2>3, <2>4, <2>5 DEF IInv
<1>9. QED
  BY <1>3, <1>7, <1>8

----------------------------------------------------------------------------
(* The invariant that carries the theorems below.                          *)
THEOREM Invariance == Spec => []IInv
<1>1. Init => IInv
  BY InitIInv
<1>2. IInv /\ [Next]_vars => IInv'
  <2> SUFFICES ASSUME IInv, [Next]_vars PROVE IInv'
    OBVIOUS
  <2>1. CASE StartAuto \/ StartAtPath \/ StartDisabled
    BY <2>1, StartAutoPreserves, StartAtPathPreserves, StartDisabledPreserves
  <2>2. CASE Train
    BY <2>2, TrainPreserves
  <2>3. CASE RemoveFile \/ MakeFolder \/ AllWritten
    BY <2>3, RemoveFilePreserves, MakeFolderPreserves, AllWrittenPreserves
  <2>4. CASE \E w \in Ranks : OpenShard(w) \/ CloseShard(w)
    BY <2>4, OpenShardPreserves, CloseShardPreserves
  <2>5. CASE OpenData \/ CloseData \/ OpenTracker \/ CloseTracker
    BY <2>5, OpenDataPreserves, CloseDataPreserves, OpenTrackerPreserves, CloseTrackerPreserves
  <2>6. CASE Kill
    BY <2>6, KillPreserves
  <2>7. CASE UNCHANGED vars
    BY <2>7 DEF vars, disk, memory, IInv, FilesOK, ProcessOK, PathsOK, ShardsOK, TrackerOK, Whole,
                Own, Written, Remembered, Obsolete, KeepStart, Saving, Saved, Done
  <2>8. QED
    BY <2>1, <2>2, <2>3, <2>4, <2>5, <2>6, <2>7 DEF Next, Save
<1>3. QED
  BY <1>1, <1>2, PTL DEF Spec

LEMMA TypesHold ==
  ASSUME IInv
  PROVE  TypeOK
<1>1. /\ Cardinality(Steps) = TotalSteps + 1
      /\ \A k \in Steps : k <= Cardinality(Steps) /\ k \in Nat
      /\ Cardinality(Steps) >= 0
  BY FS_Interval, Constants DEF Steps
<1>2. ASSUME NEW k \in Steps, NEW w \in Ranks
      PROVE  /\ shards[k][w].state \in {"absent", "partial", "complete"}
             /\ Len(shards[k][w].value) <= Cardinality(Steps)
  BY <1>1, EmptySeq DEF IInv, FilesOK, ShardFiles
<1>3. /\ phase \in {"down", "fit", "remove", "write", "data", "data_open", "tracker",
                    "tracker_open"}
      /\ global_steps \in Steps \cup {0}
  BY DEF IInv, ProcessOK, Saving
<1>4. position \in Steps \cup {0}
  <2>1. CASE phase = "down"
    BY <2>1 DEF IInv, ProcessOK, Saving
  <2>2. CASE phase # "down"
    BY <2>2, Up, Constants DEF Done, Steps
  <2>3. QED
    BY <2>1, <2>2
<1>5. IsInjective(previous_saved_paths) /\ ToSet(previous_saved_paths) \subseteq folders
  <2> DEFINE p == previous_saved_paths
  <2>1. /\ DOMAIN p = 1..Len(p) /\ Len(p) \in Nat
        /\ \A i \in 1..Len(p) : p[i] \in Nat
        /\ \A i, j \in 1..Len(p) : i < j => p[i] < p[j]
        /\ \A i \in 1..Len(p) : p[i] \in folders
    BY LenProperties, ElementOfSeq, Constants DEF IInv, PathsOK
  <2>2. ASSUME NEW i \in 1..Len(p), NEW j \in 1..Len(p), p[i] = p[j] PROVE i = j
    BY <2>1, <2>2
  <2>3. QED
    BY <2>1, <2>2 DEF IsInjective, ToSet
<1>6. QED
  BY <1>2, <1>3, <1>4, <1>5 DEF IInv, FilesOK, ProcessOK, TypeOK

(* The batches of a model, as TypeOK and the properties compare them.      *)
LEMMA TrainedInOrder ==
  ASSUME NEW m \in Seq(Trained), NEW n \in Nat, Len(m) = n, \A i \in 1..n : m[i].batch = i
  PROVE  TrainedOn(m, n)
<1>1. DOMAIN m = 1..n
  BY LenProperties
<1>2. QED
  BY <1>1 DEF TrainedOn, Batches

LEMMA EveryBatchOnceHolds ==
  ASSUME IInv
  PROVE  EveryBatchOnce
<1> SUFFICES ASSUME followed, phase # "down" PROVE EveryBatchOnce
  BY DEF EveryBatchOnce
<1>1. /\ \A v, w \in Ranks : model[v] = model[w]
      /\ position = Done /\ Done \in Nat
      /\ \A w \in Ranks : /\ model[w] \in Seq(Trained) /\ Len(model[w]) = Done
                          /\ \A i \in 1..Done : model[w][i].batch = i
  BY Up DEF IInv, TrackerOK, Done
<1>2. \A w \in Ranks : TrainedOn(model[w], position)
  BY <1>1, TrainedInOrder
<1>3. QED
  BY <1>1, <1>2 DEF EveryBatchOnce, Done

LEMMA RotationHolds ==
  ASSUME IInv
  PROVE  RotatesOwnCheckpoints
<1> DEFINE p == previous_saved_paths
<1> SUFFICES ASSUME phase = "fit" PROVE RotatesOwnCheckpoints
  BY DEF RotatesOwnCheckpoints
<1>1. /\ p \in Seq(Steps) /\ Len(p) \in Nat /\ DOMAIN p = 1..Len(p)
      /\ max_ckpt_to_keep > 0 => Len(p) <= max_ckpt_to_keep
      /\ max_ckpt_to_keep \in Nat
  BY LenProperties, CheckpointAssumption DEF IInv, PathsOK, FilesOK
<1>2. ToSet(p) = Remembered /\ Remembered \subseteq Steps
  BY <1>1, ElementOfSeq DEF ToSet, Remembered
<1>3. SavedByThisLife = {k \in Steps : \E w \in Ranks : Own(k, w)}
  <2>1. ASSUME NEW k \in Steps, NEW w \in Ranks, shards[k][w].state = "complete"
        PROVE  Last(shards[k][w].value) = shards[k][w].value[k]
    BY <2>1 DEF Last, IInv, FilesOK
  <2>2. QED
    BY <2>1 DEF SavedByThisLife, Own
<1>4. \A k \in Steps : (\E w \in Ranks : Own(k, w)) <=> k \in Remembered
  BY CheckpointAssumption DEF IInv, ShardsOK
<1>5. SavedByThisLife = Remembered
  BY <1>2, <1>3, <1>4
<1>6. Cardinality(Remembered) <= Len(p)
  <2>1. p \in [1..Len(p) -> Remembered]
    BY <1>1 DEF Remembered
  <2>2. p \in Surjection(1..Len(p), Remembered)
    BY <2>1 DEF Surjection, Remembered
  <2>3. QED
    BY <1>1, <2>2, FS_SurjCardinalityBound DEF ExistsSurjection
<1>7. IsFiniteSet(Remembered) /\ Cardinality(Remembered) \in Nat
  <2>1. IsFiniteSet(Steps)
    BY FS_Interval, Constants DEF Steps
  <2>2. QED
    BY <1>2, <2>1, FS_Subset, FS_CardinalityType
<1>8. QED
  BY <1>1, <1>2, <1>5, <1>6, <1>7 DEF RotatesOwnCheckpoints

LEMMA WholeHolds ==
  ASSUME IInv, max_ckpt_to_keep # 1
  PROVE  TrackedIsWhole
<1> SUFFICES ASSUME followed, tracker \in Steps PROVE TrackedIsWhole
  BY DEF TrackedIsWhole
<1>1. Whole(tracker) /\ tracker \in Nat
  BY Constants DEF IInv, TrackerOK
<1>2. \A v, w \in Ranks :
        /\ shards[tracker][w].state = "complete"
        /\ shards[tracker][w].value = shards[tracker][v].value
        /\ shards[tracker][w].value \in Seq(Trained) /\ Len(shards[tracker][w].value) = tracker
        /\ \A i \in 1..tracker : shards[tracker][w].value[i].batch = i
  BY <1>1 DEF Whole, IInv, FilesOK, ShardFiles
<1>3. \A w \in Ranks : TrainedOn(shards[tracker][w].value, tracker)
  BY <1>1, <1>2, TrainedInOrder
<1>4. QED
  BY <1>1, <1>2, <1>3 DEF TrackedIsWhole, Whole

(* Types, and the rotation: a process keeps of its own checkpoints those   *)
(* it remembers, and no more than it was told to (save_checkpoint of       *)
(* fsdp_checkpoint_manager.py). What trains is one model on all ranks,     *)
(* trained on every batch once and in order, whatever was killed when, as  *)
(* long as processes start from the tracked step.                          *)
THEOREM RunCorrect == Spec => []RunIsConsistent
<1>1. IInv => RunIsConsistent
  BY TypesHold, EveryBatchOnceHolds, RotationHolds DEF RunIsConsistent
<1>2. QED
  BY <1>1, Invariance, PTL

(* Unless only one checkpoint is kept, the checkpoint the tracker names is *)
(* whole at every moment (_save_checkpoint writes the tracker last, and    *)
(* the rotation then never takes the tracked step). Who keeps one only has *)
(* it removed before the next is written.                                  *)
THEOREM TrackedCorrect == Spec => [](max_ckpt_to_keep # 1 => TrackedIsWhole)
<1>1. IInv => (max_ckpt_to_keep # 1 => TrackedIsWhole)
  BY WholeHolds
<1>2. QED
  BY <1>1, Invariance, PTL
----------------------------------------------------------------------------
(* The refinement. What the tracker publishes is the shard of a rank.      *)

Published == IF tracker = Missing THEN <<>> ELSE shards[tracker][AnyRank].value

LEMMA AnyRankIsOne == AnyRank \in Ranks
BY CheckpointAssumption DEF AnyRank

LEMMA InitRefines == Init => Durable!Init
<1> SUFFICES ASSUME Init PROVE Durable!Init
  OBVIOUS
<1>1. model[AnyRank] = <<>>
  BY AnyRankIsOne DEF Init, NoModel
<1>2. QED
  BY <1>1 DEF Init, Durable!Init

LEMMA PublishedStays ==
  ASSUME IInv, tracker' = tracker, tracker \in Steps => shards'[tracker] = shards[tracker]
  PROVE  Published' = Published
BY Constants DEF IInv, FilesOK, Published, Missing

(* A step that leaves the tracked checkpoint and its reading alone.        *)
LEMMA StutterRefines ==
  ASSUME IInv, tracker' = tracker, tracker \in Steps => shards'[tracker] = shards[tracker],
         truncated' = truncated, model' = model, (phase' # "down") = (phase # "down")
  PROVE  UNCHANGED Durable!vars
BY PublishedStays DEF Durable!vars, Published

(* A process that follows the tracker starts from what is published.       *)
LEMMA StartRefines ==
  ASSUME IInv, StartAuto \/ StartAtPath \/ StartDisabled, followed', max_ckpt_to_keep # 1
  PROVE  Durable!Start
<1>1. /\ phase = "down" /\ phase' = "fit" /\ UNCHANGED <<shards, tracker, truncated>>
      /\ model = NoModel
  BY DEF StartAuto, StartAtPath, StartDisabled, Starts, disk, IInv, ProcessOK, Saving
<1>2. followed /\ ~truncated
  BY DEF StartAuto, StartAtPath, StartDisabled, IInv, ProcessOK
<1>3. /\ tracker \in Steps => Whole(tracker)
      /\ folders \subseteq Steps /\ tracker \in Steps \cup {0}
  BY <1>2, Constants DEF IInv, TrackerOK, FilesOK
<1>4. LatestPath = tracker /\ (tracker = Missing <=> tracker \notin Steps)
  BY <1>3, Constants DEF LatestPath, Whole
<1>5. \/ FromScratch /\ tracker = Missing
      \/ Load(tracker) /\ tracker \in Steps
  <2>1. CASE StartAuto
    BY <1>3, <1>4, <2>1 DEF StartAuto
  <2>2. CASE StartAtPath
    <3>1. PICK k \in folders : Load(k) /\ k = LatestPath
      BY <2>2 DEF StartAtPath
    <3>2. QED
      BY <1>3, <1>4, <3>1
  <2>3. CASE StartDisabled
    BY <1>4, <2>3 DEF StartDisabled
  <2>4. QED
    BY <2>1, <2>2, <2>3
<1>6. Published' = Published
  BY <1>1, PublishedStays
<1>7. model'[AnyRank] = Published
  <2>1. CASE FromScratch /\ tracker = Missing
    BY <1>1, <2>1, AnyRankIsOne DEF FromScratch, Published, NoModel
  <2>2. CASE Load(tracker) /\ tracker \in Steps
    BY <1>4, <2>2, AnyRankIsOne DEF Load, Published
  <2>3. QED
    BY <1>5, <2>1, <2>2
<1>8. QED
  BY <1>1, <1>2, <1>6, <1>7 DEF Durable!Start, Published

LEMMA KillRefines ==
  ASSUME IInv, Kill
  PROVE  Durable!Stop
<1>1. /\ phase # "down" /\ phase' = "down" /\ model' = NoModel
      /\ UNCHANGED <<shards, tracker, truncated>>
  BY DEF Kill, Down, disk
<1>2. Published' = Published
  BY <1>1, PublishedStays
<1>3. model'[AnyRank] = <<>>
  BY <1>1, AnyRankIsOne DEF NoModel
<1>4. QED
  BY <1>1, <1>2, <1>3 DEF Durable!Stop, Published

LEMMA TrainRefines ==
  ASSUME IInv, Train, followed
  PROVE  Durable!Train
<1> DEFINE m == model[AnyRank]
           e == [batch |-> position + 1, life |-> life]
<1>1. /\ phase = "fit" /\ phase' # "down"
      /\ model'[AnyRank] = Append(m, e)
      /\ UNCHANGED <<shards, tracker, truncated>>
  BY AnyRankIsOne DEF Train, disk
<1>2. /\ m \in Seq(Trained) /\ Len(m) = position /\ position \in Nat /\ life \in Nat
  BY <1>1, Up, AnyRankIsOne DEF Done
<1>3. /\ Append(m, e) \in Seq(Trained) /\ Len(Append(m, e)) = position + 1
      /\ \A i \in 1..position : Append(m, e)[i] = m[i]
      /\ Append(m, e)[position + 1] = e
  BY <1>2, position + 1 \in Nat, ModelAppended
<1>4. Append(m, e) # <<>>
  <2>1. e \in Trained
    BY <1>2 DEF Trained
  <2>2. QED
    BY <1>2, <2>1, AppendProperties
<1>5. Front(Append(m, e)) = m
  <2> DEFINE f == SubSeq(Append(m, e), 1, position)
  <2>1. \A i \in 1..position : Append(m, e)[i] \in Trained
    BY <1>2, <1>3, ElementOfSeq
  <2>2. f \in Seq(Trained) /\ Len(f) = position /\ \A i \in 1..position : f[i] = Append(m, e)[i]
    <3>1. /\ f \in Seq(Trained)
          /\ Len(f) = IF 1 <= position THEN position - 1 + 1 ELSE 0
          /\ \A i \in 1..position - 1 + 1 : f[i] = Append(m, e)[1 + i - 1]
      BY <1>2, <2>1, SubSeqProperties, 1 \in Int, position \in Int
    <3>2. QED
      BY <1>2, <3>1
  <2>3. f = m
    BY <1>2, <1>3, <2>2, SeqEqual
  <2>4. QED
    BY <1>2, <1>3, <2>3 DEF Front
<1>6. Last(Append(m, e)).batch = Len(Append(m, e))
  BY <1>3 DEF Last
<1>7. Published' = Published
  BY <1>1, PublishedStays
<1>8. /\ model'[AnyRank] # <<>> /\ Durable!Front(model'[AnyRank]) = model[AnyRank]
      /\ Durable!Last(model'[AnyRank]).batch = Len(model'[AnyRank])
  BY <1>1, <1>4, <1>5, <1>6 DEF Front, Last, Durable!Front, Durable!Last
<1>9. QED
  BY <1>1, <1>7, <1>8 DEF Durable!Train, Published

(* While a checkpoint is written the tracked one is not touched.           *)
LEMMA SaveRefines ==
  ASSUME IInv, followed, max_ckpt_to_keep # 1,
         \/ RemoveFile \/ MakeFolder \/ AllWritten \/ OpenData \/ CloseData
         \/ \E w \in Ranks : OpenShard(w) \/ CloseShard(w)
  PROVE  UNCHANGED Durable!vars
<1>1. /\ UNCHANGED <<tracker, truncated, model>>
      /\ phase # "down" /\ phase' # "down"
  BY DEF RemoveFile, MakeFolder, AllWritten, OpenData, CloseData, OpenShard, CloseShard, memory, disk
<1>2. tracker \in Steps => shards'[tracker] = shards[tracker]
  <2>1. CASE MakeFolder \/ AllWritten \/ OpenData \/ CloseData
    BY <2>1 DEF MakeFolder, AllWritten, OpenData, CloseData, disk
  <2>2. CASE \E w \in Ranks : OpenShard(w) \/ CloseShard(w)
    <3>1. tracker # global_steps
      BY <1>1, Up
    <3>2. \A k \in Steps : k # global_steps => shards'[k] = shards[k]
      BY <2>2 DEF OpenShard, CloseShard, IInv, FilesOK
    <3>3. QED
      BY <3>1, <3>2
  <2>3. CASE RemoveFile
    <3> DEFINE p == previous_saved_paths
    <3>1. PICK k \in Obsolete, w \in Ranks : shards' = [shards EXCEPT ![k][w] = Absent]
      BY <2>3 DEF RemoveFile
    <3>2. k = p[1] /\ Len(p) \in Nat /\ Len(p) > 1 /\ p[1] \in Steps
      <4>1. /\ k = p[1] /\ Len(p) \in Nat /\ Len(p) > 0
            /\ max_ckpt_to_keep > 0 /\ Len(p) = max_ckpt_to_keep
        BY <3>1, RotationTakesOne DEF IInv
      <4>2. QED
        BY <4>1, ElementOfSeq DEF IInv, PathsOK
    <3>3. p[1] < p[Len(p)] /\ p[1] \in Nat
      BY <3>2, Constants DEF IInv, PathsOK
    <3>4. p[Len(p)] = tracker
      BY <2>3, <3>2, EmptySeq DEF RemoveFile, IInv, TrackerOK
    <3>5. QED
      BY <3>1, <3>2, <3>3, <3>4 DEF IInv, FilesOK
  <2>4. QED
    BY <2>1, <2>2, <2>3
<1>3. QED
  BY <1>1, <1>2, StutterRefines

LEMMA OpenTrackerRefines ==
  ASSUME IInv, OpenTracker, followed
  PROVE  Durable!Withdraw
<1>1. /\ phase = "tracker" /\ phase' # "down" /\ truncated' = TRUE
      /\ UNCHANGED <<shards, tracker, model>>
  BY DEF OpenTracker
<1>2. ~truncated
  BY <1>1 DEF IInv, TrackerOK
<1>3. Published' = Published
  BY <1>1, PublishedStays
<1>4. QED
  BY <1>1, <1>2, <1>3 DEF Durable!Withdraw, Published

(* What the closed tracker names continues what it named before.           *)
LEMMA CloseTrackerRefines ==
  ASSUME IInv, CloseTracker, followed, max_ckpt_to_keep # 1
  PROVE  Durable!Publish
<1> DEFINE m == model[AnyRank]
<1>1. /\ phase = "tracker_open" /\ tracker' = global_steps /\ truncated' = FALSE
      /\ UNCHANGED <<shards, max_ckpt_to_keep>>
      /\ \/ phase' = "down" /\ model' = NoModel
         \/ phase' # "down" /\ model' = model
  BY DEF CloseTracker, NextTurn, Down
<1>2. truncated
  BY <1>1 DEF IInv, TrackerOK
<1>3. /\ global_steps \in Steps /\ global_steps \in Nat /\ tracker < global_steps
      /\ m \in Seq(Trained) /\ Len(m) = global_steps
      /\ Done = global_steps /\ Saved
  BY <1>1, Up, AnyRankIsOne DEF Saving, Saved
<1>4. Published' = m
  <2>1. shards[global_steps][AnyRank].value = m
    BY <1>3, AnyRankIsOne, NoBatches DEF IInv, ShardsOK, Written
  <2>2. QED
    BY <1>1, <1>3, <2>1, Constants DEF Published
<1>5. IsPrefix(Published, m)
  <2>1. CASE tracker = Missing
    <3>1. SubSeq(<<>>, 1, 0) = <<>> /\ SubSeq(m, 1, 0) = <<>> /\ Len(<<>>) = 0
      BY SubSeqEmpty, EmptySeq
    <3>2. QED
      BY <1>3, <2>1, <3>1 DEF Published, IsPrefix
  <2>2. CASE tracker \in Steps
    <3> DEFINE s == shards[tracker][AnyRank].value
    <3>1. /\ tracker \in Nat /\ s \in Seq(Trained) /\ Len(s) = tracker
          /\ \A i \in 1..tracker : s[i] = m[i] /\ s[i] \in Trained
      <4>1. tracker \in Nat /\ shards[tracker][AnyRank].state = "complete"
        BY <2>2, AnyRankIsOne, Constants DEF IInv, TrackerOK, Whole
      <4>2. s \in Seq(Trained) /\ Len(s) = tracker
        BY <2>2, <4>1, AnyRankIsOne DEF IInv, FilesOK, ShardFiles
      <4>3. \A i \in 1..tracker : s[i] = m[i]
        BY <1>1, <2>2, <4>1, AnyRankIsOne DEF IInv, TrackerOK
      <4>4. QED
        BY <4>1, <4>2, <4>3, ElementOfSeq
    <3>2. /\ SubSeq(s, 1, tracker) \in Seq(Trained) /\ SubSeq(m, 1, tracker) \in Seq(Trained)
          /\ Len(SubSeq(s, 1, tracker)) = Len(SubSeq(m, 1, tracker))
          /\ \A i \in 1..tracker : /\ SubSeq(s, 1, tracker)[i] = s[i]
                                   /\ SubSeq(m, 1, tracker)[i] = m[i]
          /\ Len(SubSeq(s, 1, tracker)) = tracker
      <4>1. \A i \in 1..tracker : s[i] \in Trained /\ m[i] \in Trained
        BY <3>1
      <4>2. /\ SubSeq(s, 1, tracker) \in Seq(Trained)
            /\ Len(SubSeq(s, 1, tracker)) = IF 1 <= tracker THEN tracker - 1 + 1 ELSE 0
            /\ \A i \in 1..tracker - 1 + 1 : SubSeq(s, 1, tracker)[i] = s[1 + i - 1]
        BY <3>1, <4>1, SubSeqProperties, 1 \in Int, tracker \in Int
      <4>3. /\ SubSeq(m, 1, tracker) \in Seq(Trained)
            /\ Len(SubSeq(m, 1, tracker)) = IF 1 <= tracker THEN tracker - 1 + 1 ELSE 0
            /\ \A i \in 1..tracker - 1 + 1 : SubSeq(m, 1, tracker)[i] = m[1 + i - 1]
        BY <3>1, <4>1, SubSeqProperties, 1 \in Int, tracker \in Int
      <4>4. QED
        BY <3>1, <4>2, <4>3
    <3>3. SubSeq(s, 1, tracker) = SubSeq(m, 1, tracker)
      BY <3>1, <3>2, SeqEqual
    <3>4. Published = s
      BY <2>2, Constants DEF Published
    <3>5. QED
      BY <1>3, <3>1, <3>3, <3>4 DEF IsPrefix
  <2>3. QED
    BY <2>1, <2>2, Constants DEF IInv, FilesOK
<1>6. model'[AnyRank] = IF phase' = "down" THEN <<>> ELSE m
  BY <1>1, AnyRankIsOne DEF NoModel
<1>7. QED
  BY <1>1, <1>2, <1>4, <1>5, <1>6 DEF Durable!Publish, Durable!IsPrefix, IsPrefix, Published

(* More than one checkpoint is kept.                                       *)
KeepsSeveral == max_ckpt_to_keep # 1

LEMMA StepRefines ==
  ASSUME IInv, [Next]_vars, KeepsSeveral
  PROVE  [followed' => Durable!Next \/ UNCHANGED Durable!vars]_vars /\ KeepsSeveral'
<1>1. CASE StartAuto \/ StartAtPath \/ StartDisabled
  <2>1. UNCHANGED max_ckpt_to_keep
    BY <1>1 DEF StartAuto, StartAtPath, StartDisabled, Starts
  <2>2. QED
    BY <1>1, <2>1, StartRefines DEF Durable!Next, KeepsSeveral
<1>2. CASE Train
  <2>1. UNCHANGED <<max_ckpt_to_keep, followed>>
    BY <1>2 DEF Train
  <2>2. QED
    BY <1>2, <2>1, TrainRefines DEF Durable!Next, KeepsSeveral
<1>3. CASE Kill
  <2>1. UNCHANGED max_ckpt_to_keep
    BY <1>3 DEF Kill
  <2>2. QED
    BY <1>3, <2>1, KillRefines DEF Durable!Next, KeepsSeveral
<1>4. CASE Save
  <2>1. UNCHANGED <<max_ckpt_to_keep, followed>>
    BY <1>4 DEF Save, RemoveFile, MakeFolder, AllWritten, OpenShard, CloseShard, OpenData,
                CloseData, OpenTracker, CloseTracker
  <2>2. QED
    BY <1>4, <2>1, SaveRefines, OpenTrackerRefines, CloseTrackerRefines
       DEF Save, Durable!Next, KeepsSeveral
<1>5. CASE UNCHANGED vars
  BY <1>5 DEF vars, KeepsSeveral
<1>6. QED
  BY <1>1, <1>2, <1>3, <1>4, <1>5 DEF Next

(* Every step of the processes is a step of one run or none, as long as    *)
(* they follow the tracker and more than one checkpoint is kept.           *)
THEOREM RunsImplementDurable ==
  Spec /\ max_ckpt_to_keep # 1 => ImplementsDurable
<1>1. Init => Durable!Init
  BY InitRefines
<1>2. /\ IInv /\ [Next]_vars /\ KeepsSeveral
      => /\ [followed' => Durable!Next \/ UNCHANGED Durable!vars]_vars
         /\ KeepsSeveral'
  BY StepRefines
<1>3. max_ckpt_to_keep # 1 => KeepsSeveral
  BY DEF KeepsSeveral
<1>4. QED
  BY <1>1, <1>2, <1>3, Invariance, PTL DEF Spec, ImplementsDurable
=============================================================================
