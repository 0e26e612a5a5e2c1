------------------------- MODULE SequentialReading -------------------------
(***************************************************************************)
(* What recurrent reading promises for every sample of a batch, with turns *)
(* over the whole batch, active masks, row indices and padding left out:   *)
(* a sample's context is read in order, one chunk at a time, into its own  *)
(* memory; when every sample is fully read each question is answered from  *)
(* the memory of its own sample, or from no memory at all if its image was *)
(* lost. A batch may be abandoned at any time.                             *)
(***************************************************************************)
EXTENDS Integers, Sequences

CONSTANTS MaxBatchSize, MaxPromptLength, ChunkSize, NoAnswer

VARIABLES length,    \* per sample: number of tokens of its context
          read,      \* per sample: the tokens its memory was made from
          answer     \* per sample: the tokens its answer was made from

vars == <<length, read, answer>>

Context(s) == [p \in 1..length[s] |-> <<s, p>>]
Unread     == {s \in DOMAIN length : Len(read[s]) < length[s]}

(* The next chunk of a sample: ChunkSize tokens, or what is left of it.    *)
NextChunk(s) ==
  LET from == Len(read[s]) + 1
      to   == IF from + ChunkSize - 1 <= length[s]
              THEN from + ChunkSize - 1 ELSE length[s]
  IN  SubSeq(Context(s), from, to)

Init == length = <<>> /\ read = <<>> /\ answer = <<>>

NewBatch ==
  \E n \in 1..MaxBatchSize :
    /\ length' \in [1..n -> 0..MaxPromptLength]
    /\ read' = [s \in 1..n |-> <<>>]
    /\ answer' = [s \in 1..n |-> NoAnswer]

ReadChunks ==
  \E S \in (SUBSET Unread) \ {{}} :
    /\ read' = [s \in DOMAIN read |->
                  IF s \in S THEN read[s] \o NextChunk(s) ELSE read[s]]
    /\ UNCHANGED <<length, answer>>

AnswerAll ==
  /\ Unread = {}
  /\ \A s \in DOMAIN answer : answer[s] = NoAnswer
  /\ \E lost \in SUBSET (DOMAIN length) :
       answer' = [s \in DOMAIN answer |-> IF s \in lost THEN <<>> ELSE read[s]]
  /\ UNCHANGED <<length, read>>

Abandon == length' = <<>> /\ read' = <<>> /\ answer' = <<>>

Next == NewBatch \/ ReadChunks \/ AnswerAll \/ Abandon

Spec == Init /\ [][Next]_vars
=============================================================================
