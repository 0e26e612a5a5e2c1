------------------------ MODULE ExperimentLifecycle ------------------------
(***************************************************************************)
(* ExperimentManager (src/experiment.py) as the scripts use it:            *)
(* memory_train.py, also when memory_sweep.py starts several trials at     *)
(* once, and memory_eval.py. Each script is a process with one manager and *)
(* one run; they share the registry, and the directory of a run if they    *)
(* read the same second when they compose its name.                        *)
(*                                                                         *)
(* Any call may raise: the logger's metrics sink is a network service, the *)
(* registry and the checkpoints are files. A process may be killed.        *)
(*                                                                         *)
(* A run is named by its process. The metrics of an epoch are the number   *)
(* of the epoch.                                                           *)
(***************************************************************************)
EXTENDS Integers, Sequences, FiniteSets

CONSTANTS Trainings,    \* the processes that run memory_train.py
          Evaluations,  \* the processes that run memory_eval.py
          TotalEpochs,  \* experiment.train.total_epochs
          SaveFreq,     \* experiment.train.save_freq
          MaxTime,      \* bound on the clock, in seconds
          MaxFaults     \* bound on the exceptions that one process meets

ASSUME LifecycleAssumption ==
  /\ Trainings \cap Evaluations = {}
  /\ TotalEpochs \in Nat /\ SaveFreq \in Nat \ {0}
  /\ MaxTime \in Nat /\ MaxFaults \in Nat

Processes == Trainings \cup Evaluations
Times     == 0..MaxTime
Steps     == 1..TotalEpochs

VARIABLES
  clock,
  pc,         \* per process: where it is in its script
  exit,       \* its exit code, once it has exited
  dir,        \* the time its run directory is named after
  active,     \* whether its manager holds a run (_run_id)
  step,       \* epochs begun
  latest,     \* the last epoch in the metric aggregator, 0 for none
  faults,     \* exceptions met
  registry,   \* per run: its lines in registry.jsonl
  disk        \* per directory and step: metadata.json

script == <<pc, exit>>
manager == <<dir, active, step, latest>>
vars == <<clock, script, manager, faults, registry, disk>>

Absent == "absent"    \* no metadata.json
Empty  == "empty"     \* opened for writing, nothing written yet

(* What is written in it names the process.                                *)
ASSUME MetadataAssumption == {Absent, Empty} \cap Trainings = {}

Init ==
  /\ clock = 0
  /\ pc = [p \in Processes |-> "new"]
  /\ exit = [p \in Processes |-> -1]
  /\ dir = [p \in Processes |-> 0]
  /\ active = [p \in Processes |-> FALSE]
  /\ step = [p \in Processes |-> 0]
  /\ latest = [p \in Processes |-> 0]
  /\ faults = [p \in Processes |-> 0]
  /\ registry = [p \in Processes |-> <<>>]
  /\ disk = [d \in Times |-> [s \in Steps |-> Absent]]

Goto(p, label) == pc' = [pc EXCEPT ![p] = label]

Exit(p, code) ==
  /\ Goto(p, "exited")
  /\ exit' = [exit EXCEPT ![p] = code]

Line(p, status) == [status |-> status, final |-> IF status = "running" THEN 0 ELSE latest[p]]

WriteRecord(p, status) == registry' = [registry EXCEPT ![p] = Append(@, Line(p, status))]
----------------------------------------------------------------------------
Tick ==
  /\ clock < MaxTime
  /\ clock' = clock + 1
  /\ UNCHANGED <<script, manager, faults, registry, disk>>

(* start_run up to the logger: the manager has a run from here on.         *)
StartRun(p) ==
  /\ pc[p] = "new"
  /\ Goto(p, "starting")
  /\ dir' = [dir EXCEPT ![p] = clock]
  /\ active' = [active EXCEPT ![p] = TRUE]
  /\ UNCHANGED <<clock, exit, step, latest, faults, registry, disk>>

(* The rest of start_run: the logger, and the line that says it runs.      *)
RecordRunning(p) ==
  /\ pc[p] = "starting"
  /\ WriteRecord(p, "running")
  /\ Goto(p, "working")
  /\ UNCHANGED <<clock, exit, manager, faults, disk>>

(* One epoch of train_loop: its metrics are aggregated, and a checkpoint   *)
(* may be due. Slips: the step is compared before it is counted; there is  *)
(* one epoch too many.                                                     *)
Due(s) == s % SaveFreq = 0

Epoch_SavesLate(p) ==
  /\ pc[p] = "working" /\ p \in Trainings
  /\ step[p] < TotalEpochs
  /\ step' = [step EXCEPT ![p] = @ + 1]
  /\ latest' = [latest EXCEPT ![p] = step'[p]]
  /\ Goto(p, IF Due(step[p]) /\ step[p] > 0 THEN "saving" ELSE "working")
  /\ UNCHANGED <<clock, exit, dir, active, faults, registry, disk>>

Epoch_OneMore(p) ==
  /\ pc[p] = "working" /\ p \in Trainings
  /\ step[p] <= TotalEpochs
  /\ step' = [step EXCEPT ![p] = @ + 1]
  /\ latest' = [latest EXCEPT ![p] = step'[p]]
  /\ Goto(p, "working")
  /\ UNCHANGED <<clock, exit, dir, active, faults, registry, disk>>

Epoch(p) ==
  /\ pc[p] = "working" /\ p \in Trainings
  /\ step[p] < TotalEpochs
  /\ step' = [step EXCEPT ![p] = @ + 1]
  /\ latest' = [latest EXCEPT ![p] = step'[p]]
  /\ Goto(p, IF Due(step'[p]) THEN "saving" ELSE "working")
  /\ UNCHANGED <<clock, exit, dir, active, faults, registry, disk>>

(* save_checkpoint: metadata.json is opened, which empties it, and then    *)
(* written, together with what the aggregator learns.                      *)
SetMetadata(p, content) == disk' = [disk EXCEPT ![dir[p]][step[p]] = content]

OpenMetadata(p) ==
  /\ pc[p] = "saving"
  /\ SetMetadata(p, Empty)
  /\ Goto(p, "writing")
  /\ UNCHANGED <<clock, exit, manager, faults, registry>>

WriteMetadata(p) ==
  /\ pc[p] = "writing"
  /\ SetMetadata(p, p)
  /\ Goto(p, "working")
  /\ UNCHANGED <<clock, exit, manager, faults, registry>>

(* memory_eval.py: every dataset is skipped for lack of predictions, and   *)
(* the results are written; memory_train.py: the last epoch is over.       *)
WorkDone(p) ==
  /\ pc[p] = "working"
  /\ p \in Trainings => step[p] = TotalEpochs
  /\ Goto(p, "ending")
  /\ UNCHANGED <<clock, exit, manager, faults, registry, disk>>

(* end_run("completed"): the record, then wandb's finish, then the manager *)
(* lets the run go.                                                        *)
RecordCompleted(p) ==
  /\ pc[p] = "ending"
  /\ WriteRecord(p, "completed")
  /\ Goto(p, "finishing")
  /\ UNCHANGED <<clock, exit, manager, faults, disk>>

Finish(p) ==
  /\ pc[p] = "finishing"
  /\ active' = [active EXCEPT ![p] = FALSE]
  /\ Goto(p, "ended")
  /\ UNCHANGED <<clock, exit, dir, step, latest, faults, registry, disk>>

(* After end_run memory_eval.py is through. memory_train.py asks the       *)
(* manager for its logger, which raises: there is no run any more.         *)
EvaluationExits(p) ==
  /\ pc[p] = "ended" /\ p \in Evaluations
  /\ Exit(p, 0)
  /\ UNCHANGED <<clock, manager, faults, registry, disk>>

TrainComplete(p) ==
  /\ pc[p] = "ended" /\ p \in Trainings
  /\ Goto(p, "handling")
  /\ UNCHANGED <<clock, exit, manager, faults, registry, disk>>

(* The except clause: end_run("failed"), which raises when the manager has *)
(* no run, then the exception is raised again: the script exits with 1.    *)
(* Slips: the check for a run is missing; the clause tries again until     *)
(* there is a run to end; the exception is swallowed.                      *)
Handle_Unchecked(p) ==
  /\ pc[p] = "handling"
  /\ WriteRecord(p, "failed")
  /\ Goto(p, "failing")
  /\ UNCHANGED <<clock, exit, manager, faults, disk>>

Handle_Again(p) ==
  /\ pc[p] = "handling"
  /\ IF active[p]
     THEN WriteRecord(p, "failed") /\ Goto(p, "failing")
     ELSE UNCHANGED <<pc, registry>>
  /\ UNCHANGED <<clock, exit, manager, faults, disk>>

Handle(p) ==
  /\ pc[p] = "handling"
  /\ IF active[p]
     THEN /\ WriteRecord(p, "failed")
          /\ Goto(p, "failing")
          /\ UNCHANGED exit
     ELSE Exit(p, 1) /\ UNCHANGED registry
  /\ UNCHANGED <<clock, manager, faults, disk>>

FinishFailed_Swallowed(p) ==
  /\ pc[p] = "failing"
  /\ active' = [active EXCEPT ![p] = FALSE]
  /\ Exit(p, 0)
  /\ UNCHANGED <<clock, dir, step, latest, faults, registry, disk>>

FinishFailed(p) ==
  /\ pc[p] = "failing"
  /\ active' = [active EXCEPT ![p] = FALSE]
  /\ Exit(p, 1)
  /\ UNCHANGED <<clock, dir, step, latest, faults, registry, disk>>
----------------------------------------------------------------------------
(* Something raises. start_run is called outside the try; within it the    *)
(* except clause is next; in the except clause the script ends. An epoch   *)
(* whose metrics could not be sent has been aggregated, one whose start    *)
(* could not be logged has not: a fault after, or instead of, Epoch. The   *)
(* line that announces a run has no number for the sink, and cannot raise. *)
Guarded == {"working", "saving", "writing", "ending", "finishing"}
Bare    == {"starting", "handling", "failing"}

Raises(p) ==
  /\ IF pc[p] \in Guarded
     THEN Goto(p, "handling") /\ UNCHANGED exit
     ELSE pc[p] \in Bare /\ Exit(p, 1)
  /\ UNCHANGED <<clock, manager, registry, disk>>

Fault(p) ==
  /\ faults[p] < MaxFaults
  /\ faults' = [faults EXCEPT ![p] = @ + 1]
  /\ Raises(p)

(* The process is killed, or interrupted from the keyboard: no except      *)
(* clause of the scripts catches that.                                     *)
Kill(p) ==
  /\ pc[p] \notin {"new", "exited", "killed"}
  /\ Goto(p, "killed")
  /\ UNCHANGED <<clock, exit, manager, faults, registry, disk>>
----------------------------------------------------------------------------
Step(p) ==
  \/ StartRun(p)
  \/ RecordRunning(p)
  \/ Epoch(p)
  \/ OpenMetadata(p)
  \/ WriteMetadata(p)
  \/ WorkDone(p)
  \/ RecordCompleted(p)
  \/ Finish(p)
  \/ EvaluationExits(p)
  \/ TrainComplete(p)
  \/ Handle(p)
  \/ FinishFailed(p)

Next ==
  \/ Tick
  \/ \E p \in Processes : Step(p)
  \/ \E p \in Processes : Fault(p)
  \/ \E p \in Processes : Kill(p)

(* A process that is not killed runs on.                                   *)
Spec == Init /\ [][Next]_vars /\ \A p \in Processes : WF_vars(Step(p))
----------------------------------------------------------------------------
Labels == Guarded \cup Bare \cup {"new", "ended", "exited", "killed"}

Lines == [status : {"running", "completed", "failed"}, final : 0..TotalEpochs]

TypeOK ==
  /\ clock \in Times
  /\ pc \in [Processes -> Labels]
  /\ exit \in [Processes -> {-1, 0, 1}]
  /\ dir \in [Processes -> Times]
  /\ active \in [Processes -> BOOLEAN]
  /\ step \in [Processes -> 0..TotalEpochs]
  /\ latest \in [Processes -> 0..TotalEpochs]
  /\ faults \in [Processes -> 0..MaxFaults]
  /\ registry \in [Processes -> Seq(Lines)]
  /\ disk \in [Times -> [Steps -> {Absent, Empty} \cup Trainings]]

Statuses(p) == [k \in DOMAIN registry[p] |-> registry[p][k].status]

(* What the registry says of a run: that it runs, then how it ended, once; *)
(* only a run whose closing raised after its line was written has a second *)
(* last line, and that one says "failed" (start_run, end_run).             *)
RecordsInOrder ==
  \A p \in Processes :
    \/ Statuses(p) \in {<<>>, <<"running">>, <<"running", "completed">>, <<"running", "failed">>}
    \/ faults[p] > 0 /\ Statuses(p) = <<"running", "completed", "failed">>

Completed(p) == \E k \in DOMAIN registry[p] : registry[p][k].status = "completed"
Shares(p)    == \E q \in Trainings \ {p} : pc[q] # "new" /\ dir[q] = dir[p]

(* A training recorded as completed reports the metrics of its last epoch, *)
(* and has all its checkpoints: those in a directory of its own are its    *)
(* own and can be loaded. Trials of a sweep that start in the same second  *)
(* share a directory, in which the files exist and nothing more: they may  *)
(* be another trial's, and their metadata empty (train_loop,               *)
(* save_checkpoint, load_checkpoint).                                      *)
CompletedMeansSaved ==
  \A p \in Trainings : Completed(p) =>
    /\ \A k \in DOMAIN registry[p] :
         registry[p][k].status = "completed" => registry[p][k].final = TotalEpochs
    /\ \A s \in Steps : Due(s) =>
         /\ disk[dir[p]][s] # Absent
         /\ ~Shares(p) => disk[dir[p]][s] = p

(* memory_eval.py exits with 0 only if its run is recorded as completed,   *)
(* last of all; and with at most one exception it does so exactly then.    *)
(* memory_train.py never exits with 0, not even when it has completed: it  *)
(* asks for the logger of the run it has just ended. So its exit code and  *)
(* the registry disagree, and memory_sweep.py counts it as failed.         *)
ExitCodesAreSound ==
  \A p \in Processes :
    /\ exit[p] = 0 =>
         p \in Evaluations /\ Statuses(p) = <<"running", "completed">> /\ ~active[p]
    /\ p \in Evaluations /\ pc[p] = "exited" /\ faults[p] <= 1 =>
         (exit[p] = 0 <=> Statuses(p) = <<"running", "completed">>)

(* What the registry says of a script that exited: without an exception    *)
(* the run completed; one exception, wherever it strikes, does not leave a *)
(* run that was recorded as running without a last line (the except        *)
(* clauses of memory_train.py and memory_eval.py). Only a killed process   *)
(* leaves one.                                                             *)
OneFaultIsRecorded ==
  \A p \in Processes : pc[p] = "exited" =>
    /\ faults[p] = 0 => Statuses(p) = <<"running", "completed">>
    /\ faults[p] <= 1 /\ registry[p] # <<>> => Len(registry[p]) > 1

(* How a script ended can be told afterwards: from the registry for both   *)
(* scripts, from the exit code for memory_eval.py alone.                   *)
OutcomesAreRecorded == ExitCodesAreSound /\ OneFaultIsRecorded

(* Every script that is not killed comes to its end.                       *)
ScriptsEnd == <>(\A p \in Processes : pc[p] \in {"exited", "killed"})
=============================================================================
