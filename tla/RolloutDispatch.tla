-------------------------- MODULE RolloutDispatch --------------------------
(***************************************************************************)
(* LLMGenerationManager.generate_with_graceful_padding(_vl) together with  *)
(* the Ray worker group it calls. The driver pads the batch so that every  *)
(* rank gets the same number of rows, splits it over the data-parallel     *)
(* replicas, blocks until every rank has answered, concatenates the        *)
(* answers of the collecting ranks in rank order and drops the padding.    *)
(*                                                                         *)
(* world_size counts all ranks. infer_size of them (the tensor and         *)
(* pipeline parallel ranks of one inference engine) form a replica, work   *)
(* on the same shard, and only the first of them is collected.             *)
(*                                                                         *)
(* A prompt row is an opaque value. A response is modelled by what it was  *)
(* generated from: the prompt row, and the slot of the padded batch.       *)
(***************************************************************************)
EXTENDS BatchIndexing

CONSTANTS MaxBatch,      \* bound on the rows of one call
          MaxWorld       \* bound on the number of ranks

ASSUME DispatchAssumption == MaxBatch \in Nat \ {0} /\ MaxWorld \in Nat \ {0}

VARIABLES world_size,       \* ranks of the worker group, fixed at start
          infer_size,       \* ranks of one inference replica, divides world_size
          prompts,          \* rows of the call in progress or of the last one
          padded,           \* the rows as sent to the workers
          no_padding_mask,  \* which slots of padded are real
          output,           \* per rank: the responses it returned, or Pending
          responses,        \* what the call returned
          status            \* of the call

vars == <<world_size, infer_size, prompts, padded, no_padding_mask, output,
          responses, status>>

Pending == <<>>
Ranks   == 1..world_size

(* The batches a caller submits: n distinct rows, so that a row returned   *)
(* for another one is noticed.                                             *)
Batches == {[k \in 1..n |-> k] : n \in 1..MaxBatch}

Init ==
  /\ world_size \in 1..MaxWorld
  /\ infer_size \in {t \in 1..world_size : world_size % t = 0}
  /\ prompts = <<>>
  /\ padded = <<>>
  /\ no_padding_mask = <<>>
  /\ output = [w \in Ranks |-> Pending]
  /\ responses = <<>>
  /\ status = "idle"

(* The rows and the mask sent to the workers. Only a batch that does not   *)
(* divide evenly is padded; the padding row offered for indexing stands    *)
(* after the last real row (get_paddings, get_paddings_vl), but no entry   *)
(* of the index ever points at it.                                         *)
PaddingRow == 0

PaddedRows(batch, mask) == TakeRows(Append(batch, PaddingRow), PaddingIndex(mask))

GenerateSequences(batch) ==
  /\ status \in {"idle", "returned"}
  /\ LET mask == NoPaddingMask(Len(batch), world_size)
     IN  /\ no_padding_mask' = mask
         /\ padded' = PaddedRows(batch, mask)
  /\ prompts' = batch
  /\ output' = [w \in Ranks |-> Pending]
  /\ responses' = <<>>
  /\ status' = "busy"
  /\ UNCHANGED <<world_size, infer_size>>

(* dispatch_nd_compute: the shard of a rank is that of its replica.        *)
ReplicaOf(w) == (w - 1) \div infer_size + 1
Collects(w)  == (w - 1) % infer_size = 0
Replicas     == world_size \div infer_size

Generated(w) ==
  LET shard == ShardOf(Len(padded), Replicas, ReplicaOf(w))
      first == (ReplicaOf(w) - 1) * (Len(padded) \div Replicas)
  IN  [k \in 1..Cardinality(shard) |->
         [row |-> padded[first + k], slot |-> first + k]]

(* A slip: only the ranks that are collected answer.                       *)
RankGenerates_CollectedOnly(w) ==
  /\ Collects(w)
  /\ status = "busy"
  /\ output[w] = Pending
  /\ output' = [output EXCEPT ![w] = Generated(w)]
  /\ UNCHANGED <<world_size, infer_size, prompts, padded, no_padding_mask,
                 responses, status>>

(* A rank finishes its shard. Ranks run as separate processes and finish   *)
(* in any order.                                                           *)
RankGenerates(w) ==
  /\ status = "busy"
  /\ output[w] = Pending
  /\ output' = [output EXCEPT ![w] = Generated(w)]
  /\ UNCHANGED <<world_size, infer_size, prompts, padded, no_padding_mask,
                 responses, status>>

(* ray.get raises the exception of a failed rank; nothing in the manager,  *)
(* the loop or the trainer catches it, so no further call is made.         *)
RankFails(w) ==
  /\ status = "busy"
  /\ output[w] = Pending
  /\ status' = "raised"
  /\ UNCHANGED <<world_size, infer_size, prompts, padded, no_padding_mask,
                 output, responses>>

(* collect_nd_compute: the answers of the collecting ranks, by global      *)
(* rank, concatenated.                                                     *)
Collected ==
  FlattenSeq([d \in 1..Replicas |->
    output[CHOOSE w \in Ranks : Collects(w) /\ ReplicaOf(w) = d]])

(* The end of generate_with_graceful_padding: if the batch was padded, the *)
(* real slots are kept. A slip: they never are told apart.                 *)
Unpad_Never(rows) == rows

Unpad(rows) == IF Len(prompts) % world_size = 0
               THEN rows
               ELSE SelectRows(rows, no_padding_mask)

(* Once every rank has answered the driver concatenates and unpads.        *)
Return ==
  /\ status = "busy"
  /\ \A w \in Ranks : output[w] # Pending
  /\ responses' = Unpad(Collected)
  /\ status' = "returned"
  /\ UNCHANGED <<world_size, infer_size, prompts, padded, no_padding_mask, output>>

Next ==
  \/ \E batch \in Batches : GenerateSequences(batch)
  \/ \E w \in Ranks : RankGenerates(w)
  \/ \E w \in Ranks : RankFails(w)
  \/ Return

(* A rank that does not fail answers eventually, and the driver that waits *)
(* in ray.get resumes; nobody is obliged to make another call or to fail.  *)
Fairness == WF_vars(Return) /\ \A w \in 1..MaxWorld : WF_vars(w \in Ranks /\ RankGenerates(w))

Spec == Init /\ [][Next]_vars /\ Fairness
----------------------------------------------------------------------------
(* Types. Every row sent to a worker is a row of the batch.                *)
TypeOK ==
  /\ world_size \in 1..MaxWorld
  /\ infer_size \in 1..world_size
  /\ prompts \in Batches \cup {<<>>}
  /\ \A k \in DOMAIN padded : padded[k] \in 1..MaxBatch
  /\ no_padding_mask \in [DOMAIN padded -> BOOLEAN]
  /\ output \in [Ranks -> Seq([row : 1..MaxBatch, slot : DOMAIN padded])]
  /\ responses \in Seq([row : 1..MaxBatch, slot : DOMAIN padded])
  /\ status \in {"idle", "busy", "returned", "raised"}

(* The padded batch splits into equal, non-empty shards, and the padding   *)
(* is spread: two ranks' worth of slots differ by at most one real row, so *)
(* no rank is left without work while another has two rows                 *)
(* (graceful_padding as used by generate_with_graceful_padding).           *)
SlotsOfRank(w) == ShardOf(Len(padded), world_size, w)
RealRowsOfRank(w) == Cardinality({k \in SlotsOfRank(w) : no_padding_mask[k]})

WorkIsBalanced ==
  status = "busy" =>
    /\ Len(padded) % world_size = 0
    /\ \A v, w \in Ranks : RealRowsOfRank(v) <= RealRowsOfRank(w) + 1

(* A response comes from a real slot of the batch, never from a slot that  *)
(* was filled up: although padding duplicates the first row, the answer    *)
(* returned for the first row is the one generated in its own slot.        *)
PaddingIsDropped ==
  status = "returned" =>
    \A k \in DOMAIN responses : no_padding_mask[responses[k].slot]

(* What a call holds is of one batch, from its padding to its answer: rows,*)
(* slots and ranks have their types, and no answer to padding is returned  *)
(* (generate_with_graceful_padding).                                       *)
CallIsConsistent == TypeOK /\ PaddingIsDropped

(* The call refines the row-wise generation its callers rely on: whatever  *)
(* the number of ranks and replicas and the order in which they finish,    *)
(* response k is generated from prompt k, and there is one per prompt.     *)
Rowwise == INSTANCE RowwiseGeneration WITH
             responses <- [k \in DOMAIN responses |-> responses[k].row]

ImplementsRowwise == Rowwise!Spec

(* A call does not hang: it returns, or raises because a rank failed.      *)
CallCompletes == status = "busy" ~> status \in {"returned", "raised"}
=============================================================================
