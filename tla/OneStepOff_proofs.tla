-------------------------- MODULE OneStepOff_proofs --------------------------
(***************************************************************************)
(* Proofs about OneStepOff, for any numbers of steps, epochs, rows and     *)
(* ranks and any kills and errors of the data loader.                      *)
(***************************************************************************)
EXTENDS OneStepOff, SequenceTheorems, TLAPS

Phases == {"down", "validating_first", "launch", "syncing", "wait", "balance", "reward",
           "updating", "validating", "save", "done"}
InStep == {"balance", "reward", "updating", "validating", "save"}

Updates == [number : Nat, life : Nat]
Loaders == [given : Nat, finished : BOOLEAN]
Orders  == Bijection(1..Rows, 1..Rows)
Batches == [number : Nat \ {0}, version : Int, order : Orders, rewards : Orders \cup {<<>>}]

(* Types. The calls are in CallsOK.                                        *)
TypesOK ==
  /\ total_epochs \in EpochCounts
  /\ launch_reward_fn_async \in BOOLEAN /\ balance_batch \in BOOLEAN
  /\ phase \in Phases
  /\ global_steps \in Nat
  /\ loader \in Loaders /\ loader.given <= TotalSteps + MaxLives
  /\ left \in 0..TotalSteps
  /\ actor \in Seq(Updates) /\ rollout \in 0..Len(actor)
  /\ batch \in Batches \cup {None} /\ batch_data_future \in Batches \cup {None}
  /\ \A k \in scored : k \in 1..(TotalSteps + MaxLives)
  /\ checkpoint \in [step : Nat, weights : Seq(Updates), loader : Loaders]
  /\ life \in 0..MaxLives /\ faults \in 0..MaxFaults

(* The batch ahead is still to be generated.                               *)
Pends == batch_data_future # None /\ batch_data_future.version = Pending

(* The calls that wait, in each phase of the driver.                       *)
CallsOK ==
  /\ phase \notin {"syncing", "updating"} => actor_calls = <<>>
  /\ phase = "updating" => actor_calls \in {<<>>, <<"update">>}
  /\ phase = "syncing" => \/ actor_calls = <<"sync">> /\ rollout_calls = <<"sync">>
                          \/ actor_calls = <<>> /\ rollout_calls = <<>>
  /\ phase \in {"down", "launch"} => rollout_calls = <<>>
  /\ phase = "validating_first" => rollout_calls \in {<<>>, <<"validate">>}
  /\ phase \in {"wait", "balance", "reward", "updating", "save", "done"} =>
       rollout_calls = IF Pends THEN <<"generate">> ELSE <<>>
  /\ phase = "validating" =>
       \/ Pends /\ rollout_calls = <<"generate", "validate">>
       \/ ~Pends /\ rollout_calls \in {<<"validate">>, <<>>}

(* The batch of the step has been trained on.                              *)
Trained == phase \in {"validating", "save"} \/ (phase = "updating" /\ actor_calls = <<>>)

(* Batches that are given out and not trained on: the step's, and the one  *)
(* that is generated ahead.                                                *)
Untrained == IF batch # None /\ ~Trained THEN 1 ELSE 0

Ahead ==
  IF \/ phase = "syncing"
     \/ phase = "wait" /\ batch_data_future # None
     \/ phase \in InStep /\ batch_data_future # None /\ ~IsLastStep
  THEN 1 ELSE 0

(* Batches that were given out, and lost with their process.               *)
Skipped == loader.given - (Len(actor) + Untrained + Ahead)

AtWork == phase \notin {"down", "done"}

StepsOK ==
  /\ phase \in {"down", "validating_first", "wait", "done"} => batch = None
  /\ phase \in InStep => batch # None
  /\ phase \in {"down", "validating_first"} => batch_data_future = None
  /\ phase = "down" => actor = <<>>
  /\ phase = "validating_first" => global_steps = Len(actor) /\ global_steps < TotalSteps
  /\ AtWork /\ phase # "validating_first" =>
       global_steps = IF Trained THEN Len(actor) ELSE Len(actor) + 1
  /\ phase # "done" => global_steps <= TotalSteps
  /\ global_steps <= TotalSteps + 1 /\ Len(actor) <= TotalSteps
  /\ phase \in {"launch", "syncing"} /\ batch # None => global_steps < TotalSteps

DataOK ==
  /\ AtWork => life > 0 /\ Skipped \in 0..(life - 1)
  /\ AtWork /\ actor # <<>> => actor[Len(actor)].number <= Len(actor) + Skipped
  /\ batch # None => batch.number <= loader.given
  /\ batch # None /\ ~Trained => batch.number = Len(actor) + 1 + Skipped
  /\ batch_data_future # None => /\ batch_data_future.number <= loader.given
                                 /\ batch_data_future.order = AsGenerated
  /\ phase \in InStep \cup {"wait"} =>
       IF batch_data_future = None THEN left = 0 ELSE batch_data_future.number = loader.given
  /\ AtWork /\ faults = 0 => left + Len(actor) + Untrained + Ahead >= TotalSteps - (life - 1)

(* No update was made by this process.                                     *)
First == \A i \in 1..Len(actor) : actor[i].life < life

VersionsOK ==
  /\ phase \in {"validating_first", "launch", "syncing"} /\ batch = None => First
  /\ phase = "syncing" /\ actor_calls = <<>> => rollout = Len(actor)
  /\ phase = "wait" /\ batch_data_future # None =>
       rollout = IF First THEN Len(actor) ELSE Len(actor) - 1
  /\ phase \in InStep \cup {"wait"} /\ batch_data_future # None =>
       batch_data_future.version \in {Pending, rollout}
  /\ batch # None /\ ~Trained =>
       /\ batch.version = IF First THEN Len(actor) ELSE Len(actor) - 1
       /\ phase \in InStep \cup {"launch"} => rollout \in {Len(actor), Len(actor) - 1}
       /\ phase \in InStep /\ Ahead = 1 => rollout = Len(actor)
  /\ batch # None /\ Trained =>
       /\ ~First /\ Len(actor) - rollout \in {1, 2}
       /\ Ahead = 1 => Len(actor) - rollout = 1

RewardsOK ==
  /\ batch # None /\ ~balance_batch => batch.order = AsGenerated
  /\ phase = "updating" => batch.rewards = Rewards

WeightsOK(weights) ==
  /\ \A i, j \in 1..Len(weights) : i < j => weights[i].number < weights[j].number
  /\ weights # <<>> => weights[Len(weights)].number - Len(weights) \in 0..(life - 1)
  /\ \A i \in 1..Len(weights) : weights[i].life <= life

CheckpointOK ==
  /\ WeightsOK(checkpoint.weights)
  /\ checkpoint.step = Len(checkpoint.weights) /\ checkpoint.step <= TotalSteps
  /\ phase # "done" => checkpoint.step < TotalSteps
  /\ checkpoint.loader.given - checkpoint.step \in 0..life
  /\ checkpoint.weights # <<>> =>
       checkpoint.weights[checkpoint.step].number <= checkpoint.loader.given

IInv ==
  /\ TypesOK /\ CallsOK /\ StepsOK /\ DataOK /\ VersionsOK /\ RewardsOK
  /\ WeightsOK(actor) /\ CheckpointOK /\ EndIsSaved

LEMMA AppendPair ==
  ASSUME NEW g, NEW v
  PROVE  Append(<<g>>, v) = <<g, v>>
<1> DEFINE S == {g, v}
<1>1. g \in S /\ v \in S
  OBVIOUS
<1> HIDE DEF S
<1>2. PICK s : s = <<g>>
  OBVIOUS
<1>3. s \in Seq(S) /\ Len(s) = 1 /\ s[1] = g
  BY <1>1, <1>2
<1>4. PICK t : t = <<g, v>>
  OBVIOUS
<1>5. t \in Seq(S) /\ Len(t) = 2 /\ t[1] = g /\ t[2] = v
  BY <1>1, <1>4
<1>6. PICK a : a = Append(s, v)
  OBVIOUS
<1>7. a \in Seq(S) /\ Len(a) = 2 /\ a[1] = g /\ a[2] = v
  <2>1. s \in Seq(S) /\ v \in S
    BY <1>1, <1>3
  <2>2. /\ Append(s, v) \in Seq(S) /\ Len(Append(s, v)) = Len(s) + 1
        /\ \A i \in 1..Len(s) : Append(s, v)[i] = s[i]
        /\ Append(s, v)[Len(s) + 1] = v
    BY <2>1, AppendProperties
  <2>3. 1 \in 1..Len(s)
    BY <1>3
  <2>4. QED
    BY <1>3, <1>6, <2>2, <2>3
<1>8. \A i \in 1..Len(a) : a[i] = t[i]
  BY <1>5, <1>7
<1>9. a = t
  BY <1>5, <1>7, <1>8, SeqEqual
<1>10. QED
  BY <1>2, <1>4, <1>6, <1>9

(* The calls that wait, as sequences.                                      *)
LEMMA CallFacts ==
  /\ <<>> \o <<"sync">> = <<"sync">>
  /\ Append(<<>>, "update") = <<"update">> /\ Append(<<>>, "validate") = <<"validate">>
  /\ Append(<<"generate">>, "validate") = <<"generate", "validate">>
  /\ \A c \in {"sync", "update", "generate", "validate"} :
       <<c>> # <<>> /\ Head(<<c>>) = c /\ Tail(<<c>>) = <<>>
  /\ <<"generate", "validate">> # <<>> /\ Head(<<"generate", "validate">>) = "generate"
  /\ Tail(<<"generate", "validate">>) = <<"validate">>
<1>1. <<>> \o <<"sync">> = <<"sync">>
  OBVIOUS
<1>2. Append(<<>>, "update") = <<"update">> /\ Append(<<>>, "validate") = <<"validate">>
  OBVIOUS
<1>3. Append(<<"generate">>, "validate") = <<"generate", "validate">>
  BY AppendPair
<1>4. \A c \in {"sync", "update", "generate", "validate"} : <<c>> # <<>>
  OBVIOUS
<1>5. \A c \in {"sync", "update", "generate", "validate"} : Head(<<c>>) = c
  OBVIOUS
<1>6. \A c \in {"sync", "update", "generate", "validate"} : Tail(<<c>>) = <<>>
  OBVIOUS
<1>7. <<"generate", "validate">> # <<>> /\ Head(<<"generate", "validate">>) = "generate"
  OBVIOUS
<1>8. Tail(<<"generate", "validate">>) = <<"validate">>
  OBVIOUS
<1>9. QED
  BY <1>1, <1>2, <1>3, <1>4, <1>5, <1>6, <1>7, <1>8

LEMMA AsGeneratedIsOrder == AsGenerated \in Orders
<1>1. \A i \in 1..Rows : AsGenerated[i] = i
  BY DEF AsGenerated
<1>2. AsGenerated \in [1..Rows -> 1..Rows]
  BY DEF AsGenerated
<1>3. QED
  BY <1>1, <1>2 DEF Orders, Bijection, Injection, Surjection, IsInjective

(* What is left of the data for a run that starts: all but the batches of  *)
(* an unfinished pass, at most those the loader has given out.             *)
LEMMA LeftForBounds ==
  ASSUME TypesOK, NEW l \in Loaders
  PROVE  LeftFor(l) \in 0..TotalSteps /\ LeftFor(l) >= TotalSteps - l.given
<1>1. /\ total_epochs \in Nat \ {0} /\ TotalSteps \in Nat \ {0} /\ TotalSteps % total_epochs = 0
      /\ l.given \in Nat
  BY OneStepOffAssumption DEF TypesOK, Loaders
<1>2. PICK e \in Nat : e = EpochLength
  BY <1>1 DEF EpochLength
<1>3. TotalSteps = total_epochs * e /\ e > 0
  BY <1>1, <1>2 DEF EpochLength
<1>4. e <= TotalSteps
  BY <1>1, <1>3
<1>5. InPass(l) \in 0..e /\ InPass(l) <= l.given
  <2>1. CASE l.finished \/ l.given = 0
    BY <1>1, <1>2, <2>1 DEF InPass
  <2>2. CASE ~(l.finished \/ l.given = 0)
    <3>1. l.given - 1 \in Nat /\ (l.given - 1) % e \in 0..(e - 1) /\ (l.given - 1) % e <= l.given - 1
      BY <1>1, <1>3, <2>2
    <3>2. QED
      BY <1>1, <1>2, <2>2, <3>1 DEF InPass
  <2>3. QED
    BY <2>1, <2>2
<1>6. LeftFor(l) = TotalSteps - InPass(l)
  BY <1>2, <1>3 DEF LeftFor
<1>7. QED
  BY <1>1, <1>4, <1>5, <1>6

LEMMA Bounds ==
  /\ TotalSteps \in Nat \ {0} /\ SaveFreq \in Nat \ {0} /\ TestFreq \in Nat \ {0}
  /\ MaxLives \in Nat \ {0} /\ MaxFaults \in Nat /\ Pending = -1
BY OneStepOffAssumption DEF Pending

LEMMA InitIInv == Init => IInv
<1> SUFFICES ASSUME Init PROVE IInv
  OBVIOUS
<1>1. /\ Len(<<>>) = 0 /\ 1..0 = {} /\ <<>> \in Seq(Updates)
      /\ FreshLoader \in Loaders /\ FreshLoader.given = 0
  BY EmptySeq DEF FreshLoader, Loaders
<1>2. TypesOK
  BY <1>1, Bounds DEF Init, TypesOK, Phases
<1>3. CallsOK /\ StepsOK /\ DataOK /\ VersionsOK /\ RewardsOK
  BY <1>1, Bounds DEF Init, CallsOK, StepsOK, DataOK, VersionsOK, RewardsOK, AtWork, InStep, Pends,
     Trained
<1>4. WeightsOK(actor) /\ CheckpointOK
  BY <1>1, Bounds DEF Init, WeightsOK, CheckpointOK
<1>5. QED
  BY <1>2, <1>3, <1>4 DEF Init, IInv, EndIsSaved

(* What is known of the weights when none are made.                        *)
LEMMA StartPreserves ==
  ASSUME IInv, Start
  PROVE  IInv'
<1> USE DEF Start, config
<1>1. TypesOK /\ CallsOK /\ StepsOK /\ CheckpointOK
  BY DEF IInv
<1>2. /\ checkpoint.loader \in Loaders /\ checkpoint.weights \in Seq(Updates)
      /\ checkpoint.step \in Nat /\ checkpoint.step = Len(checkpoint.weights)
      /\ checkpoint.loader.given \in Nat /\ life \in Nat
  BY <1>1, Bounds DEF TypesOK, CheckpointOK, Loaders
<1>3. loader' = checkpoint.loader /\ left' = LeftFor(checkpoint.loader)
  BY DEF RestoredLoader
<1>4. left' \in 0..TotalSteps /\ left' >= TotalSteps - checkpoint.loader.given
  BY <1>1, <1>2, <1>3, LeftForBounds
<1>5. batch = None /\ batch_data_future = None /\ actor_calls = <<>>
  BY <1>1 DEF StepsOK, CallsOK
<1>6. TypesOK'
  BY SMTT(30), <1>1, <1>2, <1>3, <1>4, Bounds DEF TypesOK, Phases, CheckpointOK
<1>7. CallsOK'
  BY <1>1, <1>5 DEF CallsOK
<1>8. StepsOK'
  BY <1>1, <1>2, <1>5, Bounds DEF StepsOK, AtWork, InStep, Trained, CheckpointOK
<1>9. Skipped' = checkpoint.loader.given - checkpoint.step
  BY <1>2, <1>3, <1>5 DEF Skipped, Untrained, Ahead, InStep
<1>10. Untrained' = 0 /\ Ahead' = 0 /\ phase' \notin InStep
  BY <1>5 DEF Untrained, Ahead, InStep
<1>11. DataOK'
  <2>1. life' > 0 /\ Skipped' \in 0..(life' - 1) /\ loader'.given = checkpoint.loader.given
    BY <1>1, <1>2, <1>3, <1>9 DEF CheckpointOK
  <2>2. actor' # <<>> => actor'[Len(actor')].number <= Len(actor') + Skipped'
    <3>1. Len(actor') + Skipped' = checkpoint.loader.given
      BY <1>2, <1>9
    <3>2. QED
      BY <1>1, <1>2, <3>1 DEF CheckpointOK
  <2>3. left' + Len(actor') + Untrained' + Ahead' >= TotalSteps - (life' - 1)
    BY <1>1, <1>2, <1>4, <1>10, Bounds DEF CheckpointOK
  <2>4. batch' = None /\ batch_data_future' = None /\ phase' = "validating_first"
    BY <1>5
  <2> HIDE DEF Start
  <2>5. QED
    BY <1>10, <2>1, <2>2, <2>3, <2>4 DEF DataOK
<1>12. VersionsOK'
  <2>1. First'
    <3>1. \A i \in 1..Len(checkpoint.weights) :
            checkpoint.weights[i].life <= life /\ checkpoint.weights[i].life \in Nat
      <4>1. \A i \in 1..Len(checkpoint.weights) : checkpoint.weights[i] \in Updates
        BY <1>2, ElementOfSeq
      <4>2. QED
        BY <1>1, <4>1 DEF CheckpointOK, WeightsOK, Updates
    <3>2. QED
      BY <1>2, <3>1 DEF First
  <2>2. QED
    BY <1>5, <1>10, <2>1 DEF VersionsOK
<1>13. RewardsOK'
  BY <1>5 DEF RewardsOK
<1>14. WeightsOK(actor)' /\ CheckpointOK'
  <2> DEFINE w == checkpoint.weights
  <2>1. \A i \in 1..Len(w) : w[i].number \in Nat /\ w[i].life \in Nat
    <3>1. w \in Seq(Updates)
      BY <1>2
    <3> HIDE DEF w
    <3>2. \A i \in 1..Len(w) : w[i] \in Updates
      BY <3>1, ElementOfSeq
    <3>3. QED
      BY <3>2 DEF Updates
  <2>2. w # <<>> => w[Len(w)].number - Len(w) \in 0..(life' - 1)
    BY <1>1, <1>2 DEF CheckpointOK, WeightsOK
  <2>3. \A i \in 1..Len(w) : w[i].life <= life'
    BY <1>1, <1>2, <2>1 DEF CheckpointOK, WeightsOK
  <2>4. \A i, j \in 1..Len(w) : i < j => w[i].number < w[j].number
    BY <1>1 DEF CheckpointOK, WeightsOK
  <2>5. actor' = w /\ checkpoint' = checkpoint
    OBVIOUS
  <2> HIDE DEF w
  <2>6. WeightsOK(actor)' /\ WeightsOK(checkpoint.weights)'
    BY <2>2, <2>3, <2>4, <2>5 DEF WeightsOK, w
  <2>7. QED
    BY <1>1, <1>2, <2>5, <2>6 DEF CheckpointOK
<1>15. QED
  BY <1>6, <1>7, <1>8, <1>11, <1>12, <1>13, <1>14 DEF IInv, EndIsSaved

LEMMA NoneIsNoBatch == \A b \in Batches : b # None
<1>1. \A b \in Batches : b.number # 0
  BY DEF Batches
<1>2. None.number = 0
  BY DEF None
<1>3. QED
  BY <1>1, <1>2

(* The numbers of a state.                                                 *)
LEMMA Numbers ==
  ASSUME TypesOK
  PROVE  /\ global_steps \in Nat /\ loader.given \in Nat /\ left \in Nat /\ Len(actor) \in Nat
         /\ rollout \in Nat /\ life \in Nat /\ faults \in Nat
         /\ batch # None => batch \in Batches /\ batch.number \in Nat \ {0} /\ batch.version \in Int
         /\ batch_data_future # None =>
              /\ batch_data_future \in Batches /\ batch_data_future.number \in Nat \ {0}
              /\ batch_data_future.version \in Int
         /\ Untrained \in {0, 1} /\ Ahead \in {0, 1} /\ Skipped \in Int
<1>1. /\ global_steps \in Nat /\ loader.given \in Nat /\ left \in Nat /\ Len(actor) \in Nat
      /\ rollout \in Nat /\ life \in Nat /\ faults \in Nat
  BY Bounds DEF TypesOK, Loaders
<1>2. batch # None => batch \in Batches /\ batch.number \in Nat \ {0} /\ batch.version \in Int
  BY DEF TypesOK, Batches
<1>3. batch_data_future # None =>
        /\ batch_data_future \in Batches /\ batch_data_future.number \in Nat \ {0}
        /\ batch_data_future.version \in Int
  BY DEF TypesOK, Batches
<1>4. Untrained \in {0, 1} /\ Ahead \in {0, 1}
  BY DEF Untrained, Ahead
<1>5. QED
  BY <1>1, <1>2, <1>3, <1>4 DEF Skipped

LEMMA ValidatedFirstPreserves ==
  ASSUME IInv, ValidatedFirst
  PROVE  IInv'
<1> USE DEF ValidatedFirst, config, data, groups
<1>1. /\ TypesOK /\ CallsOK /\ StepsOK /\ DataOK /\ VersionsOK /\ RewardsOK
      /\ WeightsOK(actor) /\ CheckpointOK /\ EndIsSaved
  BY DEF IInv
<1>2. /\ batch = None /\ batch_data_future = None /\ global_steps = Len(actor)
      /\ global_steps < TotalSteps /\ actor_calls = <<>>
  BY <1>1 DEF StepsOK, CallsOK
<1>3. ~Trained' /\ Untrained' = 0 /\ Ahead' = 0 /\ Untrained = 0 /\ Ahead = 0
  BY <1>2 DEF Trained, Untrained, Ahead, InStep
<1>4. Skipped' = Skipped
  BY <1>3 DEF Skipped
<1>5. TypesOK'
  BY <1>1, Numbers DEF TypesOK, Phases
<1>6. CallsOK'
  BY <1>1, <1>2 DEF CallsOK
<1>7. StepsOK'
  BY <1>1, <1>2, <1>3, Numbers, Bounds DEF StepsOK, AtWork, InStep
<1>8. DataOK'
  BY <1>1, <1>2, <1>3, <1>4, Numbers, Bounds DEF DataOK, AtWork, InStep
<1>9. VersionsOK' /\ RewardsOK' /\ EndIsSaved'
  <2>1. First /\ (First' <=> First)
    BY <1>1, <1>2 DEF VersionsOK, First
  <2>2. QED
    BY <1>1, <1>2, <2>1 DEF VersionsOK, RewardsOK, EndIsSaved, InStep
<1>10. WeightsOK(actor)' /\ CheckpointOK'
  BY <1>1 DEF WeightsOK, CheckpointOK
<1>11. QED
  BY <1>5, <1>6, <1>7, <1>8, <1>9, <1>10 DEF IInv

LEMMA GetPreserves ==
  ASSUME IInv, Get
  PROVE  IInv'
<1> USE DEF Get, config, data, groups
<1>1. /\ TypesOK /\ CallsOK /\ StepsOK /\ DataOK /\ VersionsOK /\ RewardsOK
      /\ WeightsOK(actor) /\ CheckpointOK /\ EndIsSaved
  BY DEF IInv
<1>2. /\ batch = None /\ global_steps = Len(actor) + 1 /\ actor_calls = <<>>
      /\ batch_data_future # None /\ ~Pends /\ rollout_calls = <<>>
  BY <1>1 DEF StepsOK, CallsOK, AtWork, Trained, Pends
<1>3. ~Trained /\ ~Trained' /\ Untrained = 0 /\ Untrained' = 1 /\ Ahead = 1 /\ Ahead' = 0
  BY <1>1, <1>2 DEF Trained, Untrained, Ahead, InStep, IsLastStep
<1>4. Skipped' = Skipped
  BY <1>3 DEF Skipped
<1>5. /\ batch' = batch_data_future /\ batch' \in Batches /\ batch' # None
      /\ batch'.number = Len(actor) + 1 + Skipped /\ batch'.number = loader.given
  BY <1>1, <1>2, <1>3, Numbers DEF DataOK, Skipped
<1>6. TypesOK'
  BY <1>1, <1>5 DEF TypesOK, Phases
<1>7. CallsOK'
  BY <1>1, <1>2 DEF CallsOK, Pends
<1>8. StepsOK'
  BY <1>1, <1>2, <1>3, <1>5, Numbers, Bounds DEF StepsOK, AtWork, InStep, IsLastStep
<1>9. DataOK'
  <2>1. /\ Skipped' \in 0..(life' - 1) /\ life' > 0
        /\ actor' # <<>> => actor'[Len(actor')].number <= Len(actor') + Skipped'
    BY <1>1, <1>4 DEF DataOK, AtWork
  <2>2. /\ batch'.number <= loader'.given /\ batch'.number = Len(actor') + 1 + Skipped'
        /\ batch_data_future'.number = loader'.given
    BY <1>2, <1>4, <1>5, <1>1, Numbers
  <2>3. faults = 0 => left' + Len(actor') + Untrained' + Ahead' >= TotalSteps - (life' - 1)
    BY <1>1, <1>3, Numbers, Bounds DEF DataOK, AtWork
  <2>4. batch_data_future' # None /\ batch_data_future'.order = AsGenerated
    BY <1>1, <1>2 DEF DataOK
  <2>5. QED
    BY <2>1, <2>2, <2>3, <2>4 DEF DataOK, AsGenerated
<1>10. VersionsOK'
  <2>1. First' <=> First
    BY DEF First
  <2>2. batch'.version = rollout /\ rollout = IF First THEN Len(actor) ELSE Len(actor) - 1
    BY <1>1, <1>2 DEF VersionsOK, InStep, Pends
  <2>3. QED
    BY <1>1, <1>2, <1>3, <2>1, <2>2, Numbers DEF VersionsOK, InStep
<1>11. RewardsOK' /\ EndIsSaved'
  BY <1>1, <1>2, <1>5 DEF RewardsOK, EndIsSaved, DataOK, AsGenerated
<1>12. WeightsOK(actor)' /\ CheckpointOK'
  BY <1>1 DEF WeightsOK, CheckpointOK
<1>13. QED
  BY <1>6, <1>7, <1>8, <1>9, <1>10, <1>11, <1>12 DEF IInv

LEMMA LeaveLoopPreserves ==
  ASSUME IInv, LeaveLoop
  PROVE  IInv'
<1> USE DEF LeaveLoop, config, data, groups
<1>1. /\ TypesOK /\ CallsOK /\ StepsOK /\ DataOK /\ VersionsOK /\ RewardsOK
      /\ WeightsOK(actor) /\ CheckpointOK /\ EndIsSaved
  BY DEF IInv
<1>2. /\ batch = None /\ actor_calls = <<>> /\ ~Pends /\ rollout_calls = <<>>
  BY <1>1 DEF StepsOK, CallsOK, AtWork, Trained, Pends
<1>3. TypesOK'
  BY <1>1 DEF TypesOK, Phases
<1>4. CallsOK'
  BY <1>1, <1>2 DEF CallsOK, Pends
<1>5. StepsOK' /\ DataOK' /\ VersionsOK' /\ RewardsOK'
  BY <1>1, <1>2 DEF StepsOK, DataOK, VersionsOK, RewardsOK, AtWork, InStep
<1>6. faults = 0 => life > 1 /\ Len(actor) >= TotalSteps - (life - 1)
  <2>1. left = 0 /\ Untrained = 0 /\ Ahead = 0 /\ life > 0
    BY <1>1, <1>2 DEF DataOK, Untrained, Ahead, InStep, AtWork
  <2>2. faults = 0 => Len(actor) >= TotalSteps - (life - 1)
    BY <1>1, <2>1, Numbers, Bounds DEF DataOK, AtWork
  <2>3. Len(actor) + 1 <= TotalSteps
    BY <1>1, <1>2 DEF StepsOK, AtWork, Trained
  <2>4. QED
    BY <1>1, <2>1, <2>2, <2>3, Numbers, Bounds
<1>7. EndIsSaved'
  BY <1>6 DEF EndIsSaved
<1>8. WeightsOK(actor)' /\ CheckpointOK'
  BY <1>1 DEF WeightsOK, CheckpointOK
<1>9. QED
  BY <1>3, <1>4, <1>5, <1>7, <1>8 DEF IInv

LEMMA LaunchPreserves ==
  ASSUME IInv, Launch
  PROVE  IInv'
<1> USE DEF Launch, config
<1>1. /\ TypesOK /\ CallsOK /\ StepsOK /\ DataOK /\ VersionsOK /\ RewardsOK
      /\ WeightsOK(actor) /\ CheckpointOK /\ EndIsSaved
  BY DEF IInv
<1>2. /\ actor_calls' = <<"sync">> /\ rollout_calls' = <<"sync">>
  BY <1>1, CallFacts DEF CallsOK, ActorSyncCalls, SyncCalls
<1>3. /\ ~Trained /\ ~Trained' /\ Untrained' = Untrained /\ Ahead = 0 /\ Ahead' = 1
      /\ Untrained = IF batch # None THEN 1 ELSE 0
  BY DEF Trained, Untrained, Ahead, InStep
<1>4. global_steps = Len(actor) + 1 /\ Len(actor) + Untrained + 1 <= TotalSteps
  BY <1>1, <1>3, Numbers, Bounds DEF StepsOK, AtWork
<1>5. /\ Skipped' = Skipped /\ Skipped \in 0..(life - 1) /\ life > 0
      /\ loader'.given = loader.given + 1 /\ left' = left - 1
  <2>1. loader'.given = loader.given + 1 /\ left' = left - 1 /\ Len(actor') = Len(actor)
    OBVIOUS
  <2>2. Skipped \in 0..(life - 1) /\ life > 0
    BY <1>1 DEF DataOK, AtWork
  <2>3. Skipped = loader.given - (Len(actor) + Untrained + Ahead)
    BY DEF Skipped
  <2>4. Skipped' = loader'.given - (Len(actor') + Untrained' + Ahead')
    BY DEF Skipped
  <2> HIDE DEF Launch
  <2>5. Skipped' = Skipped
    <3>1. loader.given \in Nat /\ Len(actor) \in Nat /\ Untrained \in {0, 1}
      BY <1>1, Numbers
    <3>2. Skipped = loader.given - (Len(actor) + Untrained + 0)
      BY <1>3, <2>3
    <3>3. Skipped' = loader.given + 1 - (Len(actor) + Untrained + 1)
      <4>1. /\ loader'.given = loader.given + 1 /\ Len(actor') = Len(actor)
            /\ Untrained' = Untrained /\ Ahead' = 1
        BY <1>3, <2>1
      <4>2. QED
        BY <2>4, <3>1, <4>1
    <3>4. QED
      BY <3>1, <3>2, <3>3
  <2>6. QED
    BY <2>1, <2>2, <2>5
<1>6. loader'.given <= TotalSteps + MaxLives
  <2> HIDE DEF Launch
  <2>1. /\ loader.given \in Nat /\ Len(actor) \in Nat /\ Untrained \in {0, 1} /\ Skipped \in Int
        /\ life \in Nat
    BY <1>1, Numbers
  <2>2. Skipped = loader.given - (Len(actor) + Untrained + 0)
    BY <1>3 DEF Skipped
  <2>3. loader.given = Skipped + Len(actor) + Untrained
    BY <2>1, <2>2
  <2>4. life <= MaxLives
    BY <1>1, Bounds DEF TypesOK
  <2>5. loader.given + 1 <= TotalSteps + (life - 1)
    BY <1>4, <1>5, <2>1, <2>3, Bounds
  <2>6. QED
    BY <1>5, <2>1, <2>4, <2>5, Bounds
<1>7. TypesOK'
  <2>1. loader' \in Loaders /\ left' \in 0..TotalSteps
    BY <1>1, Numbers, Bounds DEF TypesOK, Loaders
  <2>2. QED
    BY <1>1, <1>6, <2>1 DEF TypesOK, Phases
<1>8. CallsOK'
  BY <1>1, <1>2 DEF CallsOK
<1>9. StepsOK'
  BY <1>1, <1>3, <1>4, Numbers, Bounds DEF StepsOK, AtWork, InStep
<1>10. DataOK'
  <2>1. faults = 0 => left' + Len(actor') + Untrained' + Ahead' >= TotalSteps - (life' - 1)
    BY SMTT(30), <1>1, <1>3, <1>5, Numbers, Bounds DEF DataOK, AtWork
  <2>2. batch # None => batch.number = Len(actor) + 1 + Skipped /\ batch.number <= loader'.given
    BY <1>1, <1>3, <1>5, Numbers DEF DataOK
  <2>3. batch_data_future # None => batch_data_future.number <= loader'.given
    BY <1>1, <1>5, Numbers DEF DataOK
  <2>4. QED
    BY <1>1, <1>3, <1>5, <2>1, <2>2, <2>3 DEF DataOK, AtWork, InStep, AsGenerated
<1>11. VersionsOK'
  <2>1. First' <=> First
    BY DEF First
  <2>2. actor_calls' # <<>>
    BY <1>2, CallFacts
  <2>3. QED
    BY <1>1, <1>3, <2>1, <2>2 DEF VersionsOK, InStep
<1>12. RewardsOK' /\ EndIsSaved'
  BY <1>1 DEF RewardsOK, EndIsSaved, AsGenerated
<1>13. WeightsOK(actor)' /\ CheckpointOK'
  BY <1>1 DEF WeightsOK, CheckpointOK
<1>14. QED
  BY <1>7, <1>8, <1>9, <1>10, <1>11, <1>12, <1>13 DEF IInv

LEMMA SyncPreserves ==
  ASSUME IInv, Sync
  PROVE  IInv'
<1> USE DEF Sync, config, data
<1>1. /\ TypesOK /\ CallsOK /\ StepsOK /\ DataOK /\ VersionsOK /\ RewardsOK
      /\ WeightsOK(actor) /\ CheckpointOK /\ EndIsSaved
  BY DEF IInv
<1>2. phase = "syncing" /\ actor_calls = <<"sync">> /\ rollout_calls = <<"sync">>
  <2>1. "sync" # "update" /\ actor_calls # <<>> /\ Head(actor_calls) = "sync"
    BY DEF Calls
  <2>2. phase # "updating"
    BY <1>1, <2>1, CallFacts DEF CallsOK
  <2>3. QED
    BY <1>1, <2>1, <2>2 DEF CallsOK
<1>3. actor_calls' = <<>> /\ rollout_calls' = <<>> /\ rollout' = Len(actor)
  BY <1>2, CallFacts
<1>4. ~Trained /\ ~Trained' /\ Untrained' = Untrained /\ Ahead' = Ahead /\ Skipped' = Skipped
  BY <1>2 DEF Trained, Untrained, Ahead, Skipped, InStep
<1>5. TypesOK'
  BY <1>1, <1>3, Numbers DEF TypesOK
<1>6. CallsOK'
  BY <1>2, <1>3 DEF CallsOK
<1>7. StepsOK'
  BY <1>1, <1>2, <1>4 DEF StepsOK, AtWork, InStep
<1>8. DataOK'
  BY <1>1, <1>2, <1>4 DEF DataOK, AtWork, InStep, AsGenerated
<1>9. VersionsOK'
  <2>1. First' <=> First
    BY DEF First
  <2>2. QED
    BY <1>1, <1>2, <1>3, <1>4, <2>1 DEF VersionsOK, InStep
<1>10. RewardsOK' /\ EndIsSaved'
  BY <1>1, <1>2 DEF RewardsOK, EndIsSaved, AsGenerated
<1>11. WeightsOK(actor)' /\ CheckpointOK'
  BY <1>1 DEF WeightsOK, CheckpointOK
<1>12. QED
  BY <1>5, <1>6, <1>7, <1>8, <1>9, <1>10, <1>11 DEF IInv

LEMMA LaunchGenerationPreserves ==
  ASSUME IInv, LaunchGeneration
  PROVE  IInv'
<1> USE DEF LaunchGeneration, config, data, AfterLaunch
<1>1. /\ TypesOK /\ CallsOK /\ StepsOK /\ DataOK /\ VersionsOK /\ RewardsOK
      /\ WeightsOK(actor) /\ CheckpointOK /\ EndIsSaved
  BY DEF IInv
<1>2. actor_calls = <<>> /\ rollout = Len(actor)
  BY <1>1, CallFacts DEF CallsOK, VersionsOK
<1>3. /\ ~Trained /\ ~Trained' /\ Untrained' = Untrained /\ Ahead = 1
      /\ Untrained = IF batch # None THEN 1 ELSE 0
  BY DEF Trained, Untrained, Ahead, InStep
<1>4. loader.given > 0
  <2>1. loader.given = Skipped + Len(actor) + Untrained + 1 /\ Skipped >= 0
    BY SMTT(30), <1>1, <1>3, Numbers DEF Skipped, DataOK, AtWork
  <2>2. QED
    BY <1>1, <2>1, Numbers
<1>5. /\ batch_data_future'.number = loader.given /\ batch_data_future'.order = AsGenerated
      /\ batch_data_future'.version = Pending /\ batch_data_future'.rewards = <<>>
      /\ batch_data_future' \in Batches
  <2>1. /\ batch_data_future'.number = loader.given /\ batch_data_future'.order = AsGenerated
        /\ batch_data_future'.version = Pending /\ batch_data_future'.rewards = <<>>
        /\ batch_data_future' = [number |-> loader.given, version |-> Pending,
                                 order |-> AsGenerated, rewards |-> <<>>]
    BY DEF None
  <2>2. loader.given \in Nat \ {0} /\ Pending \in Int
    BY <1>1, <1>4, Numbers, Bounds
  <2> HIDE DEF LaunchGeneration
  <2>3. QED
    BY <2>1, <2>2, AsGeneratedIsOrder DEF Batches
<1>6. batch_data_future' # None /\ Pends'
  BY <1>5, NoneIsNoBatch DEF Pends, None, Pending
<1>7. global_steps = Len(actor) + 1 /\ (batch # None => global_steps < TotalSteps)
  BY <1>1, <1>3 DEF StepsOK, AtWork
<1>8. Ahead' = 1 /\ Skipped' = Skipped
  <2>1. Ahead' = 1
    BY <1>1, <1>6, <1>7, Numbers, Bounds DEF Ahead, InStep, IsLastStep
  <2>2. QED
    BY <2>1, <1>3 DEF Skipped
<1>9. TypesOK'
  BY <1>1, <1>5 DEF TypesOK, Phases
<1>10. CallsOK'
  BY <1>2, <1>6 DEF CallsOK
<1>11. StepsOK'
  BY <1>1, <1>3, <1>7, Numbers, Bounds DEF StepsOK, AtWork, InStep
<1>12. DataOK'
  <2>1. /\ Skipped' \in 0..(life' - 1) /\ life' > 0
        /\ actor' # <<>> => actor'[Len(actor')].number <= Len(actor') + Skipped'
        /\ faults' = 0 => left' + Len(actor') + Untrained' + Ahead' >= TotalSteps - (life' - 1)
    BY <1>1, <1>3, <1>8 DEF DataOK, AtWork
  <2>2. batch' # None => /\ batch'.number = Len(actor') + 1 + Skipped'
                         /\ batch'.number <= loader'.given
    BY <1>1, <1>3, <1>8 DEF DataOK
  <2>3. batch_data_future'.number <= loader'.given /\ batch_data_future'.number = loader'.given
    BY <1>1, <1>5, Numbers
  <2>4. QED
    BY <1>3, <1>5, <1>6, <2>1, <2>2, <2>3 DEF DataOK, AsGenerated
<1>13. VersionsOK'
  <2>1. First' <=> First
    BY DEF First
  <2>2. batch # None => batch.version = IF First THEN Len(actor) ELSE Len(actor) - 1
    BY <1>1, <1>3 DEF VersionsOK
  <2>3. phase' = IF batch = None THEN "wait" ELSE "balance"
    OBVIOUS
  <2>4. batch_data_future'.version = Pending
    BY <1>5
  <2>5. batch = None => First
    BY <1>1 DEF VersionsOK
  <2>6. QED
    BY <1>2, <1>3, <2>1, <2>2, <2>3, <2>4, <2>5 DEF VersionsOK, InStep
<1>14. RewardsOK' /\ EndIsSaved'
  BY <1>1 DEF RewardsOK, EndIsSaved, AsGenerated
<1>15. WeightsOK(actor)' /\ CheckpointOK'
  BY <1>1 DEF WeightsOK, CheckpointOK
<1>16. QED
  BY <1>9, <1>10, <1>11, <1>12, <1>13, <1>14, <1>15 DEF IInv

LEMMA NothingToLaunchPreserves ==
  ASSUME IInv, NothingToLaunch
  PROVE  IInv'
<1> USE DEF NothingToLaunch, config, groups, AfterLaunch
<1>1. /\ TypesOK /\ CallsOK /\ StepsOK /\ DataOK /\ VersionsOK /\ RewardsOK
      /\ WeightsOK(actor) /\ CheckpointOK /\ EndIsSaved
  BY DEF IInv
<1>2. actor_calls = <<>> /\ rollout_calls = <<>> /\ ~Pends' /\ batch_data_future' = None
  BY <1>1 DEF CallsOK, Pends
<1>3. /\ ~Trained /\ ~Trained' /\ Untrained' = Untrained /\ Ahead = 0 /\ Ahead' = 0
      /\ Untrained = IF batch # None THEN 1 ELSE 0
  BY DEF Trained, Untrained, Ahead, InStep
<1>4. loader' \in Loaders /\ loader'.given = loader.given
  <2>1. loader \in Loaders
    BY <1>1 DEF TypesOK
  <2>2. CASE left = 0 /\ loader' = [loader EXCEPT !.finished = TRUE]
    BY <2>1, <2>2 DEF Loaders
  <2>3. CASE loader' = loader
    BY <2>1, <2>3
  <2>4. QED
    BY <2>2, <2>3
<1>5. Skipped' = Skipped
  BY <1>3, <1>4 DEF Skipped
<1>6. faults' \in 0..MaxFaults /\ (faults' = 0 => faults = 0 /\ left' = left)
  <2>1. faults \in 0..MaxFaults /\ faults \in Nat /\ MaxFaults \in Nat
    BY <1>1, Numbers, Bounds DEF TypesOK
  <2>2. CASE left = 0 /\ faults' = faults
    BY <2>1, <2>2
  <2>3. CASE faults < MaxFaults /\ faults' = faults + 1
    BY <2>1, <2>3
  <2>4. QED
    BY <2>2, <2>3
<1>7. TypesOK'
  <2>1. left' \in 0..TotalSteps
    BY Bounds
  <2>2. QED
    BY <1>1, <1>2, <1>4, <1>6, <2>1 DEF TypesOK, Phases
<1>8. CallsOK'
  BY <1>2 DEF CallsOK
<1>9. StepsOK'
  BY <1>1, <1>2, <1>3 DEF StepsOK, AtWork, InStep
<1>10. DataOK'
  <2>1. Skipped' \in 0..(life' - 1) /\ life' > 0
    BY <1>1, <1>5 DEF DataOK, AtWork
  <2>2. actor' # <<>> => actor'[Len(actor')].number <= Len(actor') + Skipped'
    BY <1>1, <1>5 DEF DataOK, AtWork
  <2>3. batch' # None => /\ batch'.number = Len(actor') + 1 + Skipped'
                         /\ batch'.number <= loader'.given
    BY <1>1, <1>3, <1>4, <1>5 DEF DataOK
  <2>4. faults' = 0 => left' + Len(actor') + Untrained' + Ahead' >= TotalSteps - (life' - 1)
    BY <1>1, <1>3, <1>6 DEF DataOK, AtWork
  <2>5. left' = 0
    OBVIOUS
  <2> HIDE DEF NothingToLaunch
  <2>6. QED
    BY <1>2, <1>3, <2>1, <2>2, <2>3, <2>4, <2>5 DEF DataOK, AtWork
<1>11. VersionsOK'
  <2>1. First' <=> First
    BY DEF First
  <2>2. phase = "launch" /\ phase' = (IF batch = None THEN "wait" ELSE "balance")
    OBVIOUS
  <2>3. batch' = batch /\ actor' = actor /\ rollout' = rollout /\ actor_calls' = actor_calls
    OBVIOUS
  <2> HIDE DEF NothingToLaunch
  <2>4. QED
    BY <1>1, <1>2, <1>3, <2>1, <2>2, <2>3 DEF VersionsOK, InStep
<1>12. RewardsOK' /\ EndIsSaved'
  BY <1>1 DEF RewardsOK, EndIsSaved, AsGenerated
<1>13. WeightsOK(actor)' /\ CheckpointOK'
  BY <1>1 DEF WeightsOK, CheckpointOK
<1>14. QED
  BY <1>7, <1>8, <1>9, <1>10, <1>11, <1>12, <1>13 DEF IInv

LEMMA BalancePreserves ==
  ASSUME IInv, Balance
  PROVE  IInv'
<1> USE DEF Balance, config, data, groups
<1>1. /\ TypesOK /\ CallsOK /\ StepsOK /\ DataOK /\ VersionsOK /\ RewardsOK
      /\ WeightsOK(actor) /\ CheckpointOK /\ EndIsSaved
  BY DEF IInv
<1>2. batch # None /\ batch \in Batches
  BY <1>1, Numbers DEF StepsOK, InStep
<1>3. PICK order \in Orders : /\ batch' = [batch EXCEPT !.order = order]
                              /\ ~balance_batch => order = AsGenerated
  BY AsGeneratedIsOrder DEF Balanced, Orders
<1>4. /\ batch' \in Batches /\ batch'.number = batch.number /\ batch'.version = batch.version
      /\ ~balance_batch => batch'.order = AsGenerated
  BY <1>2, <1>3 DEF Batches
<1>5. batch' # None
  BY <1>4, NoneIsNoBatch DEF None, Pending
<1>6. /\ ~Trained /\ ~Trained' /\ Untrained' = Untrained /\ Ahead' = Ahead /\ (Pends' <=> Pends)
      /\ (IsLastStep' <=> IsLastStep) /\ (First' <=> First)
  BY <1>2, <1>5 DEF Trained, Untrained, Ahead, InStep, IsLastStep, Pends, First, None, Pending
<1>7. Skipped' = Skipped
  BY <1>6 DEF Skipped
<1>8. TypesOK'
  BY <1>1, <1>4 DEF TypesOK, Phases
<1>9. CallsOK'
  BY <1>1, <1>6 DEF CallsOK
<1>10. StepsOK'
  BY <1>1, <1>5, <1>6 DEF StepsOK, AtWork, InStep
<1>11. DataOK'
  BY <1>1, <1>2, <1>4, <1>6, <1>7 DEF DataOK, AtWork, InStep, AsGenerated
<1>12. VersionsOK'
  BY <1>1, <1>2, <1>4, <1>6 DEF VersionsOK, InStep
<1>13. RewardsOK' /\ EndIsSaved'
  BY <1>1, <1>4 DEF RewardsOK, EndIsSaved, AsGenerated
<1>14. WeightsOK(actor)' /\ CheckpointOK'
  BY <1>1 DEF WeightsOK, CheckpointOK
<1>15. QED
  BY <1>8, <1>9, <1>10, <1>11, <1>12, <1>13, <1>14 DEF IInv

LEMMA RewardPreserves ==
  ASSUME IInv, Reward
  PROVE  IInv'
<1> USE DEF Reward, config, data
<1>1. /\ TypesOK /\ CallsOK /\ StepsOK /\ DataOK /\ VersionsOK /\ RewardsOK
      /\ WeightsOK(actor) /\ CheckpointOK /\ EndIsSaved
  BY DEF IInv
<1>2. batch # None /\ batch \in Batches /\ actor_calls' = <<"update">> /\ actor_calls' # <<>>
  BY <1>1, Numbers, CallFacts DEF StepsOK, InStep, CallsOK
<1>3. PICK given \in Orders : /\ given = Rewards
                              /\ batch' = [batch EXCEPT !.rewards = given]
  BY <1>2, AsGeneratedIsOrder DEF Rewards, Batches
<1>4. /\ batch' \in Batches /\ batch'.number = batch.number /\ batch'.version = batch.version
      /\ batch'.order = batch.order /\ batch'.rewards = given
  BY <1>2, <1>3 DEF Batches
<1>5. batch' # None
  BY <1>4, NoneIsNoBatch DEF None, Pending
<1>6. batch'.rewards = Rewards'
  BY <1>3, <1>4 DEF Rewards, AsGenerated
<1>7. /\ ~Trained /\ ~Trained' /\ Untrained' = Untrained /\ Ahead' = Ahead /\ (Pends' <=> Pends)
      /\ (IsLastStep' <=> IsLastStep) /\ (First' <=> First)
  BY <1>2, <1>5 DEF Trained, Untrained, Ahead, InStep, IsLastStep, Pends, First, None, Pending
<1>8. Skipped' = Skipped
  BY <1>7 DEF Skipped
<1>9. TypesOK'
  BY <1>1, <1>4 DEF TypesOK, Phases
<1>10. CallsOK'
  BY <1>1, <1>2, <1>7 DEF CallsOK
<1>11. StepsOK'
  BY <1>1, <1>5, <1>7 DEF StepsOK, AtWork, InStep
<1>12. DataOK'
  BY <1>1, <1>2, <1>4, <1>7, <1>8 DEF DataOK, AtWork, InStep, AsGenerated
<1>13. VersionsOK'
  BY <1>1, <1>2, <1>4, <1>7 DEF VersionsOK, InStep
<1>14. RewardsOK' /\ EndIsSaved'
  BY <1>1, <1>2, <1>4, <1>6 DEF RewardsOK, EndIsSaved, AsGenerated
<1>15. WeightsOK(actor)' /\ CheckpointOK'
  BY <1>1 DEF WeightsOK, CheckpointOK
<1>16. QED
  BY <1>9, <1>10, <1>11, <1>12, <1>13, <1>14, <1>15 DEF IInv

LEMMA UpdatedPreserves ==
  ASSUME IInv, Updated
  PROVE  IInv'
<1> USE DEF Updated, config, data
<1>1. /\ TypesOK /\ CallsOK /\ StepsOK /\ DataOK /\ VersionsOK /\ RewardsOK
      /\ WeightsOK(actor) /\ CheckpointOK /\ EndIsSaved
  BY DEF IInv
<1>2. phase' \in {"validating", "save"} /\ batch # None
  BY <1>1 DEF StepsOK, InStep
<1>3. /\ Trained /\ Trained' /\ Untrained' = Untrained /\ Ahead' = Ahead /\ (Pends' <=> Pends)
      /\ (IsLastStep' <=> IsLastStep) /\ (First' <=> First)
  BY <1>2 DEF Trained, Untrained, Ahead, InStep, IsLastStep, Pends, First, None, Pending
<1>4. Skipped' = Skipped
  BY <1>3 DEF Skipped
<1>5. TypesOK'
  BY <1>1, <1>2 DEF TypesOK, Phases
<1>6. CallsOK'
  <2>1. rollout_calls = IF Pends THEN <<"generate">> ELSE <<>>
    BY <1>1 DEF CallsOK
  <2>2. phase' = "validating" => rollout_calls' = IF Pends THEN <<"generate", "validate">>
                                                          ELSE <<"validate">>
    BY <2>1, CallFacts
  <2>3. phase' = "save" => rollout_calls' = rollout_calls
    OBVIOUS
  <2> HIDE DEF Updated
  <2>4. actor_calls' = <<>>
    BY DEF Updated
  <2>5. QED
    BY <1>2, <1>3, <2>1, <2>2, <2>3, <2>4 DEF CallsOK
<1>7. StepsOK'
  BY <1>1, <1>2, <1>3 DEF StepsOK, AtWork, InStep
<1>8. DataOK'
  BY <1>1, <1>2, <1>3, <1>4 DEF DataOK, AtWork, InStep, AsGenerated
<1>9. VersionsOK'
  BY <1>1, <1>2, <1>3 DEF VersionsOK, InStep
<1>10. RewardsOK' /\ EndIsSaved'
  BY <1>1, <1>2 DEF RewardsOK, EndIsSaved, AsGenerated
<1>11. WeightsOK(actor)' /\ CheckpointOK'
  BY <1>1, <1>2 DEF WeightsOK, CheckpointOK
<1>12. QED
  BY <1>5, <1>6, <1>7, <1>8, <1>9, <1>10, <1>11 DEF IInv

LEMMA ValidatedPreserves ==
  ASSUME IInv, Validated
  PROVE  IInv'
<1> USE DEF Validated, config, data, groups
<1>1. /\ TypesOK /\ CallsOK /\ StepsOK /\ DataOK /\ VersionsOK /\ RewardsOK
      /\ WeightsOK(actor) /\ CheckpointOK /\ EndIsSaved
  BY DEF IInv
<1>2. ~Pends /\ actor_calls = <<>>
  BY <1>1, CallFacts DEF CallsOK
<1>3. /\ Trained /\ Trained' /\ Untrained' = Untrained /\ Ahead' = Ahead /\ (Pends' <=> Pends)
      /\ (IsLastStep' <=> IsLastStep) /\ (First' <=> First)
  BY DEF Trained, Untrained, Ahead, InStep, IsLastStep, Pends, First, None, Pending
<1>4. Skipped' = Skipped
  BY <1>3 DEF Skipped
<1>5. TypesOK' /\ CallsOK'
  BY <1>1, <1>2, <1>3 DEF TypesOK, Phases, CallsOK
<1>6. StepsOK' /\ DataOK' /\ VersionsOK'
  BY <1>1, <1>3, <1>4 DEF StepsOK, DataOK, VersionsOK, AtWork, InStep, AsGenerated
<1>7. RewardsOK' /\ EndIsSaved'
  BY <1>1 DEF RewardsOK, EndIsSaved, AsGenerated
<1>8. WeightsOK(actor)' /\ CheckpointOK'
  BY <1>1 DEF WeightsOK, CheckpointOK
<1>9. QED
  BY <1>5, <1>6, <1>7, <1>8 DEF IInv

LEMMA EndStepPreserves ==
  ASSUME IInv, EndStep
  PROVE  IInv'
<1> USE DEF EndStep, config, data, groups
<1>1. /\ TypesOK /\ CallsOK /\ StepsOK /\ DataOK /\ VersionsOK /\ RewardsOK
      /\ WeightsOK(actor) /\ CheckpointOK /\ EndIsSaved
  BY DEF IInv
<1>2. /\ batch' = None /\ phase' = (IF IsLastStep THEN "done" ELSE "wait")
      /\ global_steps' = global_steps + 1 /\ actor' = actor /\ life' = life /\ loader' = loader
      /\ batch_data_future' = batch_data_future /\ rollout' = rollout /\ faults' = faults
      /\ left' = left
  OBVIOUS
<1>3. /\ Trained /\ Untrained = 0 /\ batch # None /\ global_steps = Len(actor)
      /\ Ahead = IF batch_data_future # None /\ ~IsLastStep THEN 1 ELSE 0
  BY <1>1 DEF Trained, Untrained, Ahead, InStep, StepsOK, AtWork
<1>4. /\ ~Trained' /\ Untrained' = 0 /\ (Pends' <=> Pends) /\ (First' <=> First)
      /\ Ahead' = IF batch_data_future # None /\ ~IsLastStep THEN 1 ELSE 0
  BY <1>2 DEF Trained, Untrained, Ahead, InStep, Pends, First, None, Pending
<1>5. Skipped' = Skipped
  BY <1>2, <1>3, <1>4 DEF Skipped
<1>6. /\ actor \in Seq(Updates) /\ loader \in Loaders /\ global_steps \in Nat
      /\ checkpoint \in [step : Nat, weights : Seq(Updates), loader : Loaders]
  BY <1>1 DEF TypesOK
<1>7. /\ checkpoint' \in [step : Nat, weights : Seq(Updates), loader : Loaders]
      /\ CheckpointOK' /\ EndIsSaved'
  <2>1. CASE IsLastStep \/ global_steps % SaveFreq = 0
    <3>1. checkpoint' = [step |-> global_steps, weights |-> actor, loader |-> loader]
      BY <2>1
    <3>2. /\ checkpoint'.step = global_steps /\ checkpoint'.weights = actor
          /\ checkpoint'.loader = loader
          /\ checkpoint' \in [step : Nat, weights : Seq(Updates), loader : Loaders]
      BY <1>6, <3>1
    <3>3. loader.given - global_steps = Skipped + Ahead /\ Skipped \in 0..(life - 1) /\ life > 0
      BY <1>1, <1>3, Numbers DEF Skipped, DataOK, AtWork
    <3>4. actor # <<>> => actor[global_steps].number <= loader.given
      <4>1. actor # <<>> => actor[Len(actor)].number <= Len(actor) + Skipped
        BY <1>1 DEF DataOK, AtWork
      <4>2. Len(actor) + Skipped <= loader.given
        BY <1>1, <1>3, <3>3, Numbers
      <4>3. \A i \in 1..Len(actor) : actor[i].number \in Nat
        <5>1. \A i \in 1..Len(actor) : actor[i] \in Updates
          BY <1>6, ElementOfSeq
        <5>2. QED
          BY <5>1 DEF Updates
      <4>4. actor # <<>> => Len(actor) \in 1..Len(actor)
        BY <1>6, EmptySeq
      <4>5. QED
        BY <1>1, <1>3, <4>1, <4>2, <4>3, <4>4, Numbers
    <3>5. global_steps <= TotalSteps /\ (~IsLastStep => global_steps < TotalSteps)
      BY <1>1, Numbers, Bounds DEF StepsOK, IsLastStep
    <3>6. WeightsOK(checkpoint.weights)'
      BY <1>1, <1>2, <3>2 DEF WeightsOK
    <3>7. CheckpointOK'
      <4>1. checkpoint'.loader.given - checkpoint'.step \in 0..life'
        <5>1. Skipped \in Int /\ Ahead \in {0, 1} /\ life \in Nat
          BY <1>1, Numbers
        <5>2. Skipped + Ahead \in 0..life
          BY <3>3, <5>1
        <5>3. QED
          BY <1>2, <3>2, <3>3, <5>2
      <4> HIDE DEF EndStep
      <4>2. QED
        BY <1>2, <1>3, <3>2, <3>4, <3>5, <3>6, <4>1 DEF CheckpointOK
    <3>8. EndIsSaved'
      BY <1>1, <1>2, <3>2, <3>5, Numbers, Bounds DEF EndIsSaved, IsLastStep
    <3>9. QED
      BY <3>2, <3>7, <3>8
  <2>2. CASE ~(IsLastStep \/ global_steps % SaveFreq = 0)
    <3>1. checkpoint' = checkpoint /\ phase' = "wait" /\ phase = "save"
      BY <2>2
    <3>2. CheckpointOK'
      BY <1>1, <1>2, <3>1 DEF CheckpointOK, WeightsOK
    <3>3. QED
      BY <1>6, <3>1, <3>2 DEF EndIsSaved
  <2>3. QED
    BY <2>1, <2>2
<1> HIDE DEF EndStep
<1>10. config' = config /\ groups' = groups /\ scored' = scored /\ phase = "save"
  BY DEF EndStep
<1> USE DEF config, groups
<1>11. TypesOK'
  BY <1>1, <1>2, <1>7, <1>10, Numbers DEF TypesOK, Phases
<1>12. CallsOK'
  BY <1>1, <1>2, <1>4, <1>10 DEF CallsOK
<1>13. StepsOK'
  BY <1>1, <1>2, <1>3, <1>4, Numbers, Bounds DEF StepsOK, AtWork, InStep, IsLastStep
<1>14. DataOK'
  BY <1>1, <1>2, <1>3, <1>4, <1>5, <1>10 DEF DataOK, AtWork, InStep, AsGenerated
<1>15. VersionsOK'
  <2>1. phase' = "wait" /\ batch_data_future' # None => ~First /\ rollout = Len(actor) - 1
    BY <1>1, <1>2, <1>3, <1>10, Numbers DEF VersionsOK
  <2>2. batch_data_future # None => batch_data_future.version \in {Pending, rollout}
    BY <1>1, <1>10 DEF VersionsOK, InStep
  <2>3. QED
    BY <1>2, <1>4, <2>1, <2>2 DEF VersionsOK, InStep
<1>16. RewardsOK' /\ WeightsOK(actor)'
  BY <1>1, <1>2 DEF RewardsOK, WeightsOK
<1>17. QED
  BY <1>7, <1>11, <1>12, <1>13, <1>14, <1>15, <1>16 DEF IInv

(* Where the rollout workers may be told to generate.                      *)
LEMMA WhenGenerating ==
  ASSUME TypesOK, CallsOK, Calls(rollout_calls, "generate")
  PROVE  /\ phase \in InStep \cup {"wait", "done"} /\ Pends
         /\ IF phase = "validating" THEN rollout_calls = <<"generate", "validate">>
                                    ELSE rollout_calls = <<"generate">>
<1>1. rollout_calls # <<>> /\ Head(rollout_calls) = "generate"
  BY DEF Calls
<1>2. rollout_calls # <<"sync">> /\ rollout_calls # <<"validate">>
  BY <1>1, CallFacts
<1>3. phase \notin {"down", "launch", "validating_first", "syncing"}
  BY <1>1, <1>2 DEF CallsOK
<1>4. CASE phase = "validating"
  BY <1>1, <1>2, <1>4 DEF CallsOK, InStep
<1>5. CASE phase \in {"wait", "balance", "reward", "updating", "save", "done"}
  BY <1>1, <1>5 DEF CallsOK, InStep
<1>6. phase \in {"wait", "balance", "reward", "updating", "save", "done", "validating"}
  BY <1>3 DEF TypesOK, Phases
<1>7. QED
  BY <1>4, <1>5, <1>6

LEMMA GeneratePreserves ==
  ASSUME IInv, Generate
  PROVE  IInv'
<1> USE DEF Generate, config, data
<1>1. /\ TypesOK /\ CallsOK /\ StepsOK /\ DataOK /\ VersionsOK /\ RewardsOK
      /\ WeightsOK(actor) /\ CheckpointOK /\ EndIsSaved
  BY DEF IInv
<1>2. /\ phase \in InStep \cup {"wait", "done"} /\ batch_data_future # None
      /\ rollout_calls' = IF phase = "validating" THEN <<"validate">> ELSE <<>>
  BY <1>1, WhenGenerating, CallFacts DEF Pends
<1>3. /\ batch_data_future' \in Batches /\ batch_data_future'.version = rollout
      /\ batch_data_future'.number = batch_data_future.number
      /\ batch_data_future'.order = batch_data_future.order
  BY <1>1, <1>2, Numbers DEF Batches
<1>4. batch_data_future' # None /\ ~Pends'
  <2>1. batch_data_future' # None
    BY <1>3, NoneIsNoBatch DEF None, Pending
  <2>2. rollout \in Nat /\ rollout # Pending
    BY <1>1, Numbers, Bounds
  <2>3. QED
    BY <1>3, <2>1, <2>2 DEF Pends
<1>5. /\ (Trained' <=> Trained) /\ Untrained' = Untrained /\ Ahead' = Ahead
      /\ (IsLastStep' <=> IsLastStep) /\ (First' <=> First)
  BY <1>2, <1>4 DEF Trained, Untrained, Ahead, InStep, IsLastStep, First, None, Pending
<1>6. Skipped' = Skipped
  BY <1>5 DEF Skipped
<1>7. TypesOK'
  BY <1>1, <1>3 DEF TypesOK
<1>8. CallsOK'
  BY <1>1, <1>2, <1>4 DEF CallsOK, InStep
<1>9. StepsOK'
  BY <1>1, <1>2, <1>5 DEF StepsOK, AtWork, InStep
<1>10. DataOK'
  BY <1>1, <1>2, <1>3, <1>4, <1>5, <1>6 DEF DataOK, AtWork, InStep, AsGenerated
<1>11. VersionsOK'
  BY <1>1, <1>2, <1>3, <1>4, <1>5 DEF VersionsOK, InStep
<1>12. RewardsOK' /\ EndIsSaved'
  BY <1>1 DEF RewardsOK, EndIsSaved, AsGenerated, Rewards
<1>13. WeightsOK(actor)' /\ CheckpointOK'
  BY <1>1 DEF WeightsOK, CheckpointOK
<1>14. QED
  BY <1>7, <1>8, <1>9, <1>10, <1>11, <1>12, <1>13 DEF IInv

LEMMA GenerateForValidationPreserves ==
  ASSUME IInv, GenerateForValidation
  PROVE  IInv'
<1> USE DEF GenerateForValidation, config, data
<1>1. /\ TypesOK /\ CallsOK /\ StepsOK /\ DataOK /\ VersionsOK /\ RewardsOK
      /\ WeightsOK(actor) /\ CheckpointOK /\ EndIsSaved
  BY DEF IInv
<1>2. rollout_calls # <<>> /\ Head(rollout_calls) = "validate"
  BY DEF Calls
<1>3. /\ rollout_calls # <<"sync">> /\ rollout_calls # <<"generate">>
      /\ rollout_calls # <<"generate", "validate">>
  <2>1. "validate" # "sync" /\ "validate" # "generate"
    OBVIOUS
  <2>2. QED
    BY <1>2, <2>1, CallFacts
<1>4. phase \in {"validating_first", "validating"} /\ rollout_calls' = <<>>
  <2>1. phase \in {"validating_first", "validating"}
    BY <1>1, <1>2, <1>3 DEF CallsOK, TypesOK, Phases
  <2>2. rollout_calls = <<"validate">>
    BY <1>1, <1>2, <1>3, <2>1 DEF CallsOK
  <2>3. QED
    BY <2>1, <2>2, CallFacts
<1>5. phase = "validating" => ~Pends
  BY <1>1, <1>3 DEF CallsOK
<1>6. /\ (Trained' <=> Trained) /\ Untrained' = Untrained /\ Ahead' = Ahead /\ (Pends' <=> Pends)
      /\ (IsLastStep' <=> IsLastStep) /\ (First' <=> First)
  BY DEF Trained, Untrained, Ahead, InStep, IsLastStep, Pends, First, None, Pending
<1>7. Skipped' = Skipped
  BY <1>6 DEF Skipped
<1>8. TypesOK'
  BY <1>1 DEF TypesOK
<1>9. CallsOK'
  BY <1>1, <1>4, <1>5, <1>6 DEF CallsOK
<1>10. StepsOK' /\ DataOK' /\ VersionsOK'
  BY <1>1, <1>6, <1>7 DEF StepsOK, DataOK, VersionsOK, AtWork, InStep, AsGenerated
<1>11. RewardsOK' /\ EndIsSaved'
  BY <1>1 DEF RewardsOK, EndIsSaved, AsGenerated, Rewards
<1>12. WeightsOK(actor)' /\ CheckpointOK'
  BY <1>1 DEF WeightsOK, CheckpointOK
<1>13. QED
  BY <1>8, <1>9, <1>10, <1>11, <1>12 DEF IInv

LEMMA UpdateActorPreserves ==
  ASSUME IInv, UpdateActor
  PROVE  IInv'
<1>1. /\ TypesOK /\ CallsOK /\ StepsOK /\ DataOK /\ VersionsOK /\ RewardsOK
      /\ WeightsOK(actor) /\ CheckpointOK /\ EndIsSaved
  BY DEF IInv
<1>2. phase = "updating" /\ actor_calls = <<"update">> /\ actor_calls # <<>>
  <2>1. actor_calls # <<>> /\ Head(actor_calls) = "update"
    BY DEF UpdateActor, Calls
  <2>2. actor_calls # <<"sync">>
    BY <2>1, CallFacts
  <2>3. QED
    BY <1>1, <2>1, <2>2 DEF CallsOK
<1>3. /\ actor_calls' = <<>> /\ actor' = Append(actor, [number |-> batch.number, life |-> life])
      /\ config' = config /\ phase' = phase /\ global_steps' = global_steps /\ data' = data
      /\ rollout' = rollout /\ rollout_calls' = rollout_calls
      /\ batch_data_future' = batch_data_future /\ batch' = batch /\ scored' = scored
      /\ checkpoint' = checkpoint /\ life' = life /\ faults' = faults
  BY <1>2, CallFacts DEF UpdateActor
<1> USE DEF config, data
<1> HIDE DEF UpdateActor
<1>4. PICK u \in Updates : u = [number |-> batch.number, life |-> life] /\ batch # None
                           /\ u.number = batch.number /\ u.life = life
  <2>1. batch # None /\ batch.number \in Nat /\ life \in Nat
    BY <1>1, <1>2, Numbers DEF StepsOK, InStep
  <2>2. [number |-> batch.number, life |-> life] \in Updates
    BY <2>1 DEF Updates
  <2>3. QED
    BY <2>1, <2>2
<1>5. PICK n \in Nat : n = Len(actor)
  BY <1>1, Numbers
<1>6. /\ actor' \in Seq(Updates) /\ Len(actor') = n + 1 /\ actor' # <<>>
      /\ \A i \in 1..n : actor'[i] = actor[i]
      /\ actor'[n + 1] = u
  <2>1. actor \in Seq(Updates)
    BY <1>1 DEF TypesOK
  <2>2. /\ Append(actor, u) \in Seq(Updates) /\ Len(Append(actor, u)) = Len(actor) + 1
        /\ Append(actor, u) # <<>>
        /\ \A i \in 1..Len(actor) : Append(actor, u)[i] = actor[i]
        /\ Append(actor, u)[Len(actor) + 1] = u
    BY <2>1, AppendProperties
  <2>3. actor' = Append(actor, u)
    BY <1>3, <1>4
  <2>4. QED
    BY <1>5, <2>2, <2>3
<1>7. /\ ~Trained /\ Trained' /\ Untrained = 1 /\ Untrained' = 0 /\ Ahead' = Ahead
      /\ (Pends' <=> Pends) /\ (IsLastStep' <=> IsLastStep)
  BY <1>2, <1>3, <1>4 DEF Trained, Untrained, Ahead, InStep, IsLastStep, Pends, None, Pending
<1>8. /\ Skipped' = Skipped /\ Skipped \in 0..(life - 1) /\ life > 0
  <2>1. Skipped = loader.given - (n + 1 + Ahead)
    BY <1>1, <1>5, <1>7, Numbers DEF Skipped
  <2>2. Skipped' = loader.given - (n + 1 + Ahead)
    BY <1>1, <1>3, <1>6, <1>7, Numbers DEF Skipped
  <2>3. QED
    BY <1>1, <1>2, <2>1, <2>2 DEF DataOK, AtWork
<1>9. /\ batch.number = n + 1 + Skipped /\ batch.number <= loader.given
      /\ global_steps = n + 1 /\ n + 1 <= TotalSteps
  BY <1>1, <1>2, <1>4, <1>5, <1>7 DEF DataOK, StepsOK, AtWork
<1>10. ~First'
  <2>1. n + 1 \in 1..Len(actor') /\ actor'[n + 1].life = life' /\ ~(life' < life')
    BY <1>1, <1>3, <1>4, <1>5, <1>6, Numbers
  <2>2. QED
    BY <2>1 DEF First
<1>11. TypesOK'
  <2>1. rollout' \in 0..Len(actor')
    BY <1>1, <1>3, <1>5, <1>6, Numbers DEF TypesOK
  <2>2. QED
    BY <1>1, <1>3, <1>6, <2>1 DEF TypesOK
<1>12. CallsOK'
  BY <1>1, <1>2, <1>3, <1>7 DEF CallsOK
<1>13. StepsOK'
  BY <1>1, <1>2, <1>3, <1>4, <1>5, <1>6, <1>7, <1>9, Numbers, Bounds DEF StepsOK, AtWork, InStep
<1>14. DataOK'
  <2>1. actor'[Len(actor')].number <= Len(actor') + Skipped'
    BY <1>1, <1>4, <1>6, <1>8, <1>9, Numbers
  <2>2. faults' = 0 => left' + Len(actor') + Untrained' + Ahead' >= TotalSteps - (life' - 1)
    BY <1>1, <1>2, <1>3, <1>5, <1>6, <1>7, <1>8, Numbers, Bounds DEF DataOK, AtWork
  <2>3. QED
    BY <1>1, <1>2, <1>3, <1>4, <1>7, <1>8, <2>1, <2>2 DEF DataOK, AtWork, InStep, AsGenerated
<1>15. VersionsOK'
  <2>1. rollout \in {n, n - 1} /\ (Ahead = 1 => rollout = n)
    BY <1>1, <1>2, <1>4, <1>5, <1>7 DEF VersionsOK, InStep
  <2>2. Len(actor') - rollout' \in {1, 2} /\ (Ahead' = 1 => Len(actor') - rollout' = 1)
    BY <1>1, <1>3, <1>5, <1>6, <1>7, <2>1, Numbers
  <2>3. QED
    BY <1>1, <1>2, <1>3, <1>7, <1>10, <2>2 DEF VersionsOK, InStep
<1>16. RewardsOK' /\ EndIsSaved'
  BY <1>1, <1>2, <1>3 DEF RewardsOK, EndIsSaved, AsGenerated, Rewards
<1>17. CheckpointOK'
  BY <1>1, <1>3 DEF WeightsOK, CheckpointOK
<1>18. WeightsOK(actor)'
  <2>1. \A i \in 1..n : /\ actor[i].number \in Nat /\ actor[i].life \in Nat
                        /\ actor[i].number < u.number /\ actor[i].life <= life
    <3>1. SUFFICES ASSUME NEW i \in 1..n
                   PROVE  /\ actor[i].number \in Nat /\ actor[i].life \in Nat
                          /\ actor[i].number < u.number /\ actor[i].life <= life
      OBVIOUS
    <3>2. actor \in Seq(Updates) /\ i \in 1..Len(actor) /\ n \in 1..Len(actor) /\ actor # <<>>
      BY <1>1, <1>5, EmptySeq DEF TypesOK
    <3>3. actor[i] \in Updates /\ actor[n] \in Updates
      BY <3>2, ElementOfSeq
    <3>4. /\ actor[i].number \in Nat /\ actor[i].life \in Nat /\ actor[n].number \in Nat
      BY <3>3 DEF Updates
    <3>5. actor[n].number < u.number
      <4>1. actor[n].number <= n + Skipped
        BY <1>1, <1>2, <1>5, <3>2 DEF DataOK, AtWork
      <4>2. u.number = n + 1 + Skipped /\ Skipped \in Int
        BY <1>1, <1>4, <1>9, Numbers
      <4>3. QED
        BY <1>5, <3>4, <4>1, <4>2
    <3>6. actor[i].number <= actor[n].number
      <4>1. CASE i = n
        BY <3>4, <4>1
      <4>2. CASE i # n
        <5>1. i < n
          BY <1>5, <4>2
        <5>2. actor[i].number < actor[n].number
          BY <1>1, <3>2, <5>1 DEF WeightsOK
        <5>3. QED
          BY <3>4, <5>2
      <4>3. QED
        BY <4>1, <4>2
    <3>7. actor[i].life <= life
      BY <1>1, <3>2 DEF WeightsOK
    <3>8. u.number \in Nat
      BY <1>4 DEF Updates
    <3>9. QED
      BY <3>4, <3>5, <3>6, <3>7, <3>8
  <2>2. \A i \in 1..(n + 1) : i \in 1..n \/ i = n + 1
    BY <1>5
  <2>3. \A i, j \in 1..Len(actor') : i < j => actor'[i].number < actor'[j].number
    <3>1. SUFFICES ASSUME NEW i \in 1..(n + 1), NEW j \in 1..(n + 1), i < j
                   PROVE  actor'[i].number < actor'[j].number
      BY <1>6
    <3>2. i \in 1..n
      BY <1>5, <3>1
    <3>3. CASE j = n + 1
      BY <1>6, <2>1, <3>2, <3>3
    <3>4. CASE j \in 1..n
      BY <1>1, <1>5, <1>6, <3>1, <3>2, <3>4 DEF WeightsOK
    <3>5. QED
      BY <2>2, <3>3, <3>4
  <2>4. actor'[Len(actor')].number - Len(actor') \in 0..(life' - 1)
    BY <1>1, <1>3, <1>4, <1>6, <1>8, <1>9, Numbers
  <2>5. \A i \in 1..Len(actor') : actor'[i].life <= life'
    <3>1. SUFFICES ASSUME NEW i \in 1..(n + 1)
                   PROVE  actor'[i].life <= life
      BY <1>3, <1>6
    <3>2. life <= life
      BY <1>1, Numbers
    <3>3. QED
      BY <1>4, <1>6, <2>1, <2>2, <3>2
  <2>6. QED
    BY <2>3, <2>4, <2>5 DEF WeightsOK
<1>19. QED
  BY <1>11, <1>12, <1>13, <1>14, <1>15, <1>16, <1>17, <1>18 DEF IInv

LEMMA LaunchIndividualRewardsPreserves ==
  ASSUME IInv, LaunchIndividualRewards
  PROVE  IInv'
<1> USE DEF LaunchIndividualRewards, config, data, groups
<1>1. /\ TypesOK /\ CallsOK /\ StepsOK /\ DataOK /\ VersionsOK /\ RewardsOK
      /\ WeightsOK(actor) /\ CheckpointOK /\ EndIsSaved
  BY DEF IInv
<1>2. PICK b \in {batch, batch_data_future} : b # None /\ scored' = scored \cup {b.number}
  OBVIOUS
<1>3. b.number \in Nat \ {0} /\ b.number <= loader.given
  BY <1>1, <1>2, Numbers DEF DataOK
<1>4. b.number \in 1..(TotalSteps + MaxLives)
  <2>1. loader.given <= TotalSteps + MaxLives
    BY <1>1 DEF TypesOK
  <2>2. QED
    BY <1>1, <1>3, <2>1, Numbers, Bounds
<1>5. TypesOK'
  BY <1>1, <1>2, <1>4 DEF TypesOK
<1>6. /\ (Trained' <=> Trained) /\ Untrained' = Untrained /\ Ahead' = Ahead /\ (Pends' <=> Pends)
      /\ (IsLastStep' <=> IsLastStep) /\ (First' <=> First)
  BY DEF Trained, Untrained, Ahead, InStep, IsLastStep, Pends, First, None, Pending
<1>7. Skipped' = Skipped
  BY <1>6 DEF Skipped
<1>8. CallsOK' /\ StepsOK' /\ DataOK' /\ VersionsOK'
  BY <1>1, <1>6, <1>7 DEF CallsOK, StepsOK, DataOK, VersionsOK, AtWork, InStep, AsGenerated
<1>9. RewardsOK' /\ EndIsSaved'
  BY <1>1 DEF RewardsOK, EndIsSaved, AsGenerated, Rewards
<1>10. WeightsOK(actor)' /\ CheckpointOK'
  BY <1>1 DEF WeightsOK, CheckpointOK
<1>11. QED
  BY <1>5, <1>8, <1>9, <1>10 DEF IInv

LEMMA KillPreserves ==
  ASSUME IInv, Kill
  PROVE  IInv'
<1> USE DEF Kill, config
<1>1. TypesOK /\ CheckpointOK /\ AtWork
  BY DEF IInv, AtWork
<1>2. /\ Len(<<>>) = 0 /\ 1..0 = {} /\ <<>> \in Seq(Updates)
      /\ FreshLoader \in Loaders /\ FreshLoader.given = 0
  BY EmptySeq DEF FreshLoader, Loaders
<1>3. TypesOK'
  BY <1>1, <1>2, Bounds DEF TypesOK, Phases
<1>4. CallsOK' /\ StepsOK' /\ DataOK' /\ VersionsOK' /\ RewardsOK'
  BY <1>2, Bounds DEF CallsOK, StepsOK, DataOK, VersionsOK, RewardsOK, AtWork, InStep, Pends, Trained,
     None, Pending
<1>5. WeightsOK(actor)' /\ CheckpointOK'
  BY <1>1, <1>2 DEF AtWork, WeightsOK, CheckpointOK
<1>6. QED
  BY <1>3, <1>4, <1>5 DEF IInv, EndIsSaved

LEMMA NextIInv == IInv /\ [Next]_vars => IInv'
<1> SUFFICES ASSUME IInv, [Next]_vars
             PROVE  IInv'
  OBVIOUS
<1>1. CASE Start
  BY <1>1, StartPreserves
<1>2. CASE ValidatedFirst
  BY <1>2, ValidatedFirstPreserves
<1>3. CASE Get
  BY <1>3, GetPreserves
<1>4. CASE LeaveLoop
  BY <1>4, LeaveLoopPreserves
<1>5. CASE Launch
  BY <1>5, LaunchPreserves
<1>6. CASE LaunchGeneration
  BY <1>6, LaunchGenerationPreserves
<1>7. CASE NothingToLaunch
  BY <1>7, NothingToLaunchPreserves
<1>8. CASE Balance
  BY <1>8, BalancePreserves
<1>9. CASE Reward
  BY <1>9, RewardPreserves
<1>10. CASE Updated
  BY <1>10, UpdatedPreserves
<1>11. CASE Validated
  BY <1>11, ValidatedPreserves
<1>12. CASE EndStep
  BY <1>12, EndStepPreserves
<1>13. CASE Sync
  BY <1>13, SyncPreserves
<1>14. CASE Generate
  BY <1>14, GeneratePreserves
<1>15. CASE GenerateForValidation
  BY <1>15, GenerateForValidationPreserves
<1>16. CASE UpdateActor
  BY <1>16, UpdateActorPreserves
<1>17. CASE LaunchIndividualRewards
  BY <1>17, LaunchIndividualRewardsPreserves
<1>18. CASE Kill
  BY <1>18, KillPreserves
<1>19. CASE UNCHANGED vars
  <2> USE DEF vars, config, data, groups
  <2>1. /\ TypesOK /\ CallsOK /\ StepsOK /\ DataOK /\ VersionsOK /\ RewardsOK
        /\ WeightsOK(actor) /\ CheckpointOK /\ EndIsSaved
    BY DEF IInv
  <2>2. /\ (Trained' <=> Trained) /\ Untrained' = Untrained /\ Ahead' = Ahead /\ (Pends' <=> Pends)
        /\ (IsLastStep' <=> IsLastStep) /\ (First' <=> First)
    BY <1>19 DEF Trained, Untrained, Ahead, InStep, IsLastStep, Pends, First, None, Pending
  <2>3. Skipped' = Skipped
    BY <1>19, <2>2 DEF Skipped
  <2>4. TypesOK' /\ CallsOK'
    BY <1>19, <2>1, <2>2 DEF TypesOK, CallsOK
  <2>5. StepsOK' /\ DataOK' /\ VersionsOK'
    BY <1>19, <2>1, <2>2, <2>3 DEF StepsOK, DataOK, VersionsOK, AtWork, InStep, AsGenerated
  <2>6. RewardsOK' /\ EndIsSaved'
    BY <1>19, <2>1 DEF RewardsOK, EndIsSaved, AsGenerated, Rewards
  <2>7. WeightsOK(actor)' /\ CheckpointOK'
    BY <1>19, <2>1 DEF WeightsOK, CheckpointOK
  <2>8. QED
    BY <2>4, <2>5, <2>6, <2>7 DEF IInv
<1>20. QED
  BY <1>1, <1>2, <1>3, <1>4, <1>5, <1>6, <1>7, <1>8, <1>9, <1>10, <1>11, <1>12, <1>13, <1>14,
     <1>15, <1>16, <1>17, <1>18, <1>19 DEF Next, Driver, Workers

LEMMA IInvImplies == IInv => OneStepOffPolicy /\ TrainingIsConsistent
<1> SUFFICES ASSUME IInv
             PROVE  OneStepOffPolicy /\ TrainingIsConsistent
  OBVIOUS
<1>1. /\ TypesOK /\ CallsOK /\ StepsOK /\ DataOK /\ VersionsOK /\ RewardsOK
      /\ WeightsOK(actor) /\ CheckpointOK /\ EndIsSaved
  BY DEF IInv
<1>2. OneStepOffPolicy
  <2>1. phase = "updating" /\ actor_calls # <<>> => batch # None /\ ~Trained
    BY <1>1 DEF StepsOK, InStep, Trained
  <2>2. First <=> \A i \in DOMAIN actor : actor[i].life < life
    <3>1. DOMAIN actor = 1..Len(actor)
      BY <1>1, LenProperties DEF TypesOK
    <3>2. QED
      BY <3>1 DEF First
  <2>3. QED
    BY <1>1, <2>1, <2>2 DEF VersionsOK, OneStepOffPolicy
<1>3. TypeOK
  <2>1. /\ global_steps \in 0..(TotalSteps + 1) /\ Len(actor) <= TotalSteps
        /\ loader.given \in 0..(TotalSteps + MaxLives)
    BY <1>1, Numbers, Bounds DEF StepsOK, TypesOK
  <2>2. actor_calls \in {<<>>, <<"sync">>, <<"update">>}
    BY <1>1 DEF CallsOK
  <2>3. rollout_calls \in {<<>>, <<"sync">>, <<"generate">>, <<"validate">>,
                           <<"generate", "validate">>}
    <3>1. CASE phase \in {"down", "launch", "syncing", "validating_first", "validating"}
      BY <1>1, <3>1 DEF CallsOK
    <3>2. CASE phase \in {"wait", "balance", "reward", "updating", "save", "done"}
      BY <1>1, <3>2 DEF CallsOK
    <3>3. QED
      BY <1>1, <3>1, <3>2 DEF TypesOK, Phases
  <2>4. batch # None => batch.order \in Bijection(1..Rows, 1..Rows)
    BY <1>1 DEF TypesOK, Batches, Orders
  <2>5. scored \subseteq 1..(TotalSteps + MaxLives)
    BY <1>1 DEF TypesOK
  <2>6. checkpoint.step = Len(checkpoint.weights)
    BY <1>1 DEF CheckpointOK
  <2>7. QED
    BY <1>1, <2>1, <2>2, <2>3, <2>4, <2>5, <2>6 DEF TypesOK, TypeOK, Phases
<1>4. TrainedInOrder
  <2>1. Len(actor) > 0 => actor # <<>>
    BY EmptySeq
  <2>2. QED
    BY <1>1, <2>1 DEF WeightsOK, TrainedInOrder
<1>5. EvaluatesRecentWeights
  BY <1>1 DEF VersionsOK, StepsOK, InStep, Trained, EvaluatesRecentWeights
<1>6. RewardsAreOwn
  BY <1>1 DEF RewardsOK, Rewards, StepsOK, InStep, RewardsAreOwn
<1>7. QED
  BY <1>1, <1>2, <1>3, <1>4, <1>5, <1>6 DEF TrainingIsConsistent

(* Every state a run of the trainer reaches, after any kills, is one the   *)
(* inductive invariant describes: the calls that wait in each phase of     *)
(* fit, the numbers of the batches that were given out and not trained on, *)
(* and the versions of the two groups' weights follow from the phase.      *)
THEOREM Invariance == Spec => []IInv
<1>1. Init => IInv
  BY InitIInv
<1>2. IInv /\ [Next]_vars => IInv'
  BY NextIInv
<1>3. QED
  BY <1>1, <1>2, PTL DEF Spec

(* "one step off": what _update_actor is given was generated by the        *)
(* weights before those it trains, or, the first batch of a process, by    *)
(* the same; for any number of steps, kills and errors of the loader.      *)
THEOREM PolicyCorrect == Spec => []OneStepOffPolicy
<1>1. IInv => OneStepOffPolicy
  BY IInvImplies
<1>2. QED
  BY <1>1, Invariance, PTL

(* fit trains on the batches in order, none twice, leaves out no more of   *)
(* them than processes were lost, evaluates weights at most two updates    *)
(* old, rewards a row for its own response, and ends with its last weights *)
(* saved, unless batches were lost with a process or to the data loader.   *)
THEOREM TrainingCorrect == Spec => []TrainingIsConsistent
<1>1. IInv => TrainingIsConsistent
  BY IInvImplies
<1>2. QED
  BY <1>1, Invariance, PTL

=============================================================================
