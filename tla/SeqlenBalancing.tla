-------------------------- MODULE SeqlenBalancing --------------------------
(***************************************************************************)
(* verl/utils/seqlen_balancing.py as the ranks use it: the rows of a       *)
(* mini-batch are divided into micro-batches of about the same number of   *)
(* tokens by the largest differencing method, and what was computed per    *)
(* micro-batch is put back into the order of the rows.                     *)
(*                                                                         *)
(* A partial sum is a record of a total and of the positions it is made    *)
(* of. A state of the method is a sequence of k of them, largest first.    *)
(***************************************************************************)
EXTENDS Integers, FiniteSets, Sequences, SequencesExt

(* A stable sort by insertion: the next item of seq goes behind those it   *)
(* does not precede.                                                       *)
Sorted(seq, Precedes) ==
  LET insert[items \in Seq(ToSet(seq))] ==
        LET item == seq[Len(items) + 1]
            n == CHOOSE n \in 0..Len(items) :
                   /\ \A j \in 1..n : <<item, items[j]>> \notin Precedes
                   /\ \A j \in (n + 1)..Len(items) : <<item, items[j]>> \in Precedes
        IN  InsertAt(items, n + 1, item)
      sorted[n \in 0..Len(seq)] == IF n = 0 THEN <<>> ELSE insert[sorted[n - 1]]
  IN  sorted[Len(seq)]

Pairs(seq) == ToSet(seq) \X ToSet(seq)

Total(seq) ==
  LET sum[n \in 0..Len(seq)] == IF n = 0 THEN 0 ELSE sum[n - 1] + seq[n]
  IN  sum[Len(seq)]

(* Set.__lt__. No two partial sums share an item, so their lists of items  *)
(* differ at the first place already.                                      *)
SetLess(a, b) ==
  \/ a.sum < b.sum
  \/ a.sum = b.sum /\ Len(a.items) < Len(b.items)
  \/ /\ a.sum = b.sum /\ Len(a.items) = Len(b.items)
     /\ a.items # <<>> /\ Head(a.items) < Head(b.items)

States == Seq([sum : Nat, items : Seq(Nat)])

Decreasing[sets \in States] == Sorted(sets, {p \in Pairs(sets) : SetLess(p[2], p[1])})

(* State.__init__ for one row, and State.merge: the largest with the       *)
(* smallest, the second largest with the second smallest, and so on.       *)
SingleRow(idx, seqlen, k) ==
  [i \in 1..k |-> IF i = 1 THEN [sum |-> seqlen, items |-> <<idx>>]
                           ELSE [sum |-> 0, items |-> <<>>]]

Merge[pair \in States \X States] ==
  LET k == Len(pair[1])
  IN  Decreasing[[i \in 1..k |->
        [sum   |-> pair[1][i].sum + pair[2][k + 1 - i].sum,
         items |-> pair[1][i].items \o pair[2][k + 1 - i].items]]]

(* State.__lt__, the order of the heap: the widest spread first.           *)
Spread(s) == Head(s).sum - Last(s).sum

PoppedBefore(s, t) ==
  \/ Spread(s) > Spread(t)
  \/ Spread(s) = Spread(t) /\ SetLess(Head(t), Head(s))

(* karmarkar_karp, without equal_size: the first two states of the heap    *)
(* are merged until one is left.                                           *)
First(heap) == CHOOSE s \in heap : \A t \in heap : ~PoppedBefore(t, s)

MergeFirstTwo[heap \in SUBSET States] ==
  LET s == First(heap)
      t == First(heap \ {s})
  IN  (heap \ {s, t}) \cup {Merge[<<s, t>>]}

KarmarkarKarp(seqlen_list, k_partitions) ==
  LET last == Len(seqlen_list) - 1
      heap[n \in 0..last] ==
        IF n = 0 THEN {SingleRow(i, seqlen_list[i], k_partitions) : i \in DOMAIN seqlen_list}
                 ELSE MergeFirstTwo[heap[n - 1]]
  IN  First(heap[last])

(* get_seqlen_balanced_partitions and the sort of rearrange_micro_batches: *)
(* the rows of a micro-batch in their order, the micro-batch with most     *)
(* work (the sum of the squared lengths) first.                            *)
Increasing(items) == Sorted(items, {p \in Pairs(items) : p[1] < p[2]})

Partitions[sets \in States] == [i \in DOMAIN sets |-> Increasing(sets[i].items)]

Work(part, seqlen_list) ==
  Total([j \in DOMAIN part |-> seqlen_list[part[j]] * seqlen_list[part[j]]])

MoreWork(a, b, seqlen_list) ==
  LET wa == Work(a, seqlen_list)
      wb == Work(b, seqlen_list)
  IN  wa > wb \/ (wa = wb /\ Head(a) > Head(b))

RearrangeMicroBatches(seqlen_list, num_micro_batches) ==
  LET Ordered[parts \in Seq(Seq(Nat))] ==
        Sorted(parts, {p \in Pairs(parts) : MoreWork(p[1], p[2], seqlen_list)})
  IN  Ordered[Partitions[KarmarkarKarp(seqlen_list, num_micro_batches)]]

(* The number of micro-batches a rank asks for by itself.                  *)
CeilDiv(a, b) == (a + b - 1) \div b

WantedMicroBatches(seqlen_list, max_token_len) ==
  Min({Len(seqlen_list), CeilDiv(Total(seqlen_list), max_token_len)})

(* A slip: the results stay in the order in which they were computed.      *)
RestoreDynamicBatch_AsComputed(data, parts) == data

(* restore_dynamic_batch: data[k] was computed for row flat[k].            *)
RestoreDynamicBatch(data, parts) ==
  LET flat == FlattenSeq(parts)
  IN  [row \in DOMAIN data |-> data[CHOOSE k \in DOMAIN flat : flat[k] = row]]
=============================================================================
