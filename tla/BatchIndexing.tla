--------------------------- MODULE BatchIndexing ---------------------------
(***************************************************************************)
(* The index arithmetic of recurrent/utils.py and verl/protocol.py: how a  *)
(* batch of rows is padded so that it divides evenly over a group of       *)
(* workers, how the padding is removed again, and how the rows of many     *)
(* turns are selected and put back in sample order.                        *)
(*                                                                         *)
(* A DataProto (or tensor) of n rows is a sequence of length n: row i of   *)
(* the code, counted from 0, is element i + 1 here, and so are the indices *)
(* that point into it.                                                     *)
(***************************************************************************)
EXTENDS Integers, FiniteSets, Sequences, SequencesExt

(* Slips the properties must notice: all padding at the end of the batch,  *)
(* and selection by position.                                              *)
NoPaddingMask_AllAtEnd(bsz, group_nums) ==
  LET size == IF bsz % group_nums = 0 THEN bsz
              ELSE group_nums * (bsz \div group_nums + 1)
  IN  [k \in 1..size |-> k <= bsz]

SelectRows_Truncated(rows, mask) ==
  SubSeq(rows, 1, Cardinality({k \in DOMAIN mask : mask[k]}))

(* graceful_padding, the mask: with bsz = q * group_nums + r and r > 0     *)
(* every group gets q + 1 slots, and in the groups from r on the first     *)
(* slot is padding.                                                        *)
NoPaddingMask(bsz, group_nums) ==
  LET group_size == bsz \div group_nums + 1
      remainder  == bsz % group_nums
  IN  IF remainder = 0
      THEN [k \in 1..bsz |-> TRUE]
      ELSE [k \in 1..(group_nums * group_size) |->
              \/ (k - 1) \div group_size < remainder
              \/ (k - 1) % group_size # 0]

(* graceful_padding, the index: the running count of real slots; a padding *)
(* slot is mapped to the first row (index 0 in the code).                  *)
PaddingIndex(mask) ==
  [k \in DOMAIN mask |->
     IF mask[k] THEN Cardinality({j \in 1..k : mask[j]}) ELSE 1]

(* indexing_proto with an integer index, and with a boolean mask (the rows *)
(* whose mask is set, in their order: place n has n set places up to it).  *)
TakeRows(rows, index) == [k \in DOMAIN index |-> rows[index[k]]]

SetPlaces(mask) ==
  LET set == {k \in DOMAIN mask : mask[k]}
  IN  [n \in 1..Cardinality(set) |->
         CHOOSE k \in set : Cardinality({j \in set : j <= k}) = n]

SelectRows(rows, mask) == TakeRows(rows, SetPlaces(mask))

(* reverse_indices: position k of the result is the place of the k-th      *)
(* smallest index (the code asserts that no index occurs twice).           *)
ReverseIndices(index) ==
  [k \in DOMAIN index |->
     CHOOSE n \in DOMAIN index : Cardinality({m \in DOMAIN index : index[m] <= index[n]}) = k]

(* final_batch: the rows of one kind of final answer, in sample order.     *)
FinalBatch(rows, mask, sample_index) ==
  TakeRows(SelectRows(rows, mask), ReverseIndices(SelectRows(sample_index, mask)))

(* DataProto.chunk: the slots of worker w when n rows are split evenly     *)
(* over the given number of workers.                                       *)
ShardOf(n, workers, w) ==
  LET size == n \div workers IN ((w - 1) * size + 1)..(w * size)
=============================================================================
