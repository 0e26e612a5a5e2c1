--------------------------- MODULE DurableTraining ---------------------------
(***************************************************************************)
(* What checkpoints promise: a training run is one sequence of batches,    *)
(* every one trained on once and in order, although the process that runs  *)
(* it is killed now and then and started again from what it published      *)
(* last. Between two publications there is a moment in which nothing is    *)
(* published that can be read (the tracker is overwritten in place); a     *)
(* process killed in it is not resumed.                                    *)
(***************************************************************************)
EXTENDS Integers, Sequences, SequencesExt

VARIABLES running,   \* a process trains
          trained,   \* the batches its model has been trained on
          published, \* what the next process starts from
          readable   \* ... if it can be read

vars == <<running, trained, published, readable>>

Init == running = FALSE /\ trained = <<>> /\ published = <<>> /\ readable = TRUE

Start ==
  /\ ~running /\ readable
  /\ running' = TRUE
  /\ trained' = published
  /\ UNCHANGED <<published, readable>>

Stop ==
  /\ running
  /\ running' = FALSE
  /\ trained' = <<>>
  /\ UNCHANGED <<published, readable>>

Train ==
  /\ running
  /\ trained' # <<>> /\ Front(trained') = trained
  /\ Last(trained').batch = Len(trained')
  /\ UNCHANGED <<running, published, readable>>

Withdraw ==
  /\ running /\ readable
  /\ readable' = FALSE
  /\ UNCHANGED <<running, trained, published>>

(* What is published continues what was published before. The run may be   *)
(* over with it.                                                           *)
Publish ==
  /\ running /\ ~readable
  /\ IsPrefix(published, trained)
  /\ published' = trained
  /\ readable' = TRUE
  /\ \/ UNCHANGED <<running, trained>>
     \/ running' = FALSE /\ trained' = <<>>

Next == Start \/ Stop \/ Train \/ Withdraw \/ Publish

Spec == Init /\ [][Next]_vars
=============================================================================
