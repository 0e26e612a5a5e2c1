------------------------- MODULE RowwiseGeneration -------------------------
(***************************************************************************)
(* What the generation manager promises its agent: a call with a batch of  *)
(* prompts either raises, or returns exactly one response per prompt, in   *)
(* the order of the prompts, each produced from its own prompt and nothing *)
(* else. How many workers there are and how the batch was padded for them  *)
(* cannot be observed.                                                     *)
(***************************************************************************)
EXTENDS Integers, Sequences

CONSTANTS Batches      \* the batches of prompt rows a caller may submit

VARIABLES prompts,     \* the rows of the call in progress, or of the last one
          responses,   \* the rows returned by the last completed call
          status       \* "idle", "busy", "returned" or "raised"

vars == <<prompts, responses, status>>

Init == prompts = <<>> /\ responses = <<>> /\ status = "idle"

Call(batch) ==
  /\ status # "busy"
  /\ status' = "busy"
  /\ prompts' = batch
  /\ responses' = <<>>

Return ==
  /\ status = "busy"
  /\ status' = "returned"
  /\ responses' = prompts
  /\ UNCHANGED prompts

Raise ==
  /\ status = "busy"
  /\ status' = "raised"
  /\ UNCHANGED <<prompts, responses>>

Next ==
  \/ \E batch \in Batches : Call(batch)
  \/ Return
  \/ Raise

Spec == Init /\ [][Next]_vars
=============================================================================
