-------------------------- MODULE EvaluationClient --------------------------
(***************************************************************************)
(* The evaluation scripts of taskutils/memory_eval: test_qa.py, which      *)
(* run_custom.py starts for every test set, with the memory agent of       *)
(* utils/memocr_md.py, and ruler_hqa.py with the single question of        *)
(* utils/openai_api.py.                                                    *)
(*                                                                         *)
(* A process asks for its items concurrently: one coroutine per item on    *)
(* one event loop, under a semaphore (utils/aio.py). A coroutine of the    *)
(* memory agent reads its context chunk by chunk, has the memory rendered, *)
(* and asks the question; requests fail and are repeated. Nothing is       *)
(* written before all coroutines have returned; then the results are       *)
(* appended to the file, which later processes find.                       *)
(*                                                                         *)
(* An answer is modelled by the item and the chunks it was computed from.  *)
(* Lines reach the disk when the buffer is flushed; a kill leaves any      *)
(* number of them, and perhaps a line cut short. The specification and its *)
(* parts are named after the evaluation, as those of MemoryRendering stand *)
(* beside them where both are reasoned about.                              *)
(***************************************************************************)
EXTENDS BatchIndexing

CONSTANTS NumItems,     \* items of the test set
          MaxChunks,    \* bound on the chunks of a context
          MaxWorkers,   \* n_proc
          ChunkRetries, \* max_retries of a chunk
          RetryTimes,   \* retry_times of the question
          MaxRuns       \* bound on the processes started

ASSUME EvaluationAssumption ==
  /\ NumItems \in Nat \ {0} /\ MaxChunks \in Nat /\ MaxRuns \in Nat
  /\ MaxWorkers \in Nat \ {0} /\ ChunkRetries \in Nat \ {0} /\ RetryTimes \in Nat \ {0}

TestItems == 1..NumItems

VARIABLES
  script,    \* "test_qa" or "ruler_hqa"
  force,     \* --force
  chunks,    \* chunks of the context of each item
  phase,     \* of the process
  data,      \* the items it asks for, in order
  tasks,     \* per item, its coroutine
  outputs,   \* what gather returned
  buffer,    \* lines written and not flushed
  out_file,  \* the lines of the file
  readouts,  \* per line of the readout, the items it is the average of
  runs       \* processes started

fixed      == <<script, force, chunks>>
evaluation == <<fixed, phase, data, tasks, outputs, buffer, out_file, readouts, runs>>

Cut == [id |-> 0, answer |-> <<>>]   \* a line that is no JSON

(* A coroutine: what it waits for, the chunks in its memory, the attempt   *)
(* that is under way, and what it returned (<<>> for '').                  *)
NotStarted == [at |-> "semaphore", memory |-> <<>>, attempt |-> 1, answer |-> <<>>]

EvaluationInit ==
  /\ script \in {"test_qa", "ruler_hqa"}
  /\ force \in BOOLEAN
  /\ chunks \in [TestItems -> 0..MaxChunks]
  /\ script = "ruler_hqa" => \A i \in TestItems : chunks[i] = 0
  /\ phase = "down"
  /\ data = <<>>
  /\ tasks = [i \in TestItems |-> NotStarted]
  /\ outputs = <<>>
  /\ buffer = <<>>
  /\ out_file = <<>>
  /\ readouts = <<>>
  /\ runs = 0

Down ==
  /\ phase' = "down"
  /\ data' = <<>>
  /\ tasks' = [i \in TestItems |-> NotStarted]
  /\ outputs' = <<>>
  /\ buffer' = <<>>
----------------------------------------------------------------------------
(* main: ruler_hqa.py leaves out the items the file has (has_data), and    *)
(* raises on a line it cannot parse; test_qa.py asks for all of them. A    *)
(* slip: the file is not looked at.                                        *)
Cached == {out_file[n].id : n \in DOMAIN out_file}

Data_All == [i \in TestItems |-> i]

Data ==
  IF script = "ruler_hqa" /\ ~force
  THEN SelectRows([i \in TestItems |-> i], [i \in TestItems |-> i \notin Cached])
  ELSE [i \in TestItems |-> i]

Start ==
  /\ phase = "down" /\ runs < MaxRuns
  /\ script = "ruler_hqa" => Cut \notin ToSet(out_file)
  /\ data' = Data
  /\ phase' = "asking"
  /\ runs' = runs + 1
  /\ UNCHANGED <<fixed, tasks, outputs, buffer, out_file, readouts>>
----------------------------------------------------------------------------
(* The coroutines.                                                         *)
InFlight == {i \in ToSet(data) : tasks[i].at \in {"chunk", "question"}}

(* A slip: a coroutine that gives up keeps its place.                      *)
Occupied_UntilAnswered ==
  Cardinality({i \in ToSet(data) : tasks[i].at # "semaphore" /\ tasks[i].answer = <<>>})

Occupied == Cardinality(InFlight)

(* Once its context is read, a coroutine has its memory rendered, in one   *)
(* request that blocks the event loop, and sends the question. An image    *)
(* that cannot be had is not caught anywhere: gather raises, and the       *)
(* process ends with nothing written.                                      *)
NextRequest(i, memory) ==
  IF Len(memory) < chunks[i]
  THEN /\ tasks' = [tasks EXCEPT ![i] = [@ EXCEPT !.at = "chunk", !.memory = memory,
                                                  !.attempt = 1]]
       /\ UNCHANGED <<phase, data, outputs, buffer>>
  ELSE \/ /\ tasks' = [tasks EXCEPT ![i] = [@ EXCEPT !.at = "question",
                                                     !.memory = memory, !.attempt = 1]]
          /\ UNCHANGED <<phase, data, outputs, buffer>>
       \/ script = "test_qa" /\ Down

(* The semaphore lets the coroutines in in their order.                    *)
Acquire(i) ==
  /\ phase = "asking"
  /\ i \in ToSet(data) /\ tasks[i].at = "semaphore"
  /\ \A j \in ToSet(data) : j < i => tasks[j].at # "semaphore"
  /\ Occupied < MaxWorkers
  /\ NextRequest(i, <<>>)
  /\ UNCHANGED <<fixed, out_file, readouts, runs>>

(* The attempts a request has.                                             *)
Attempts(i) ==
  IF script = "ruler_hqa" THEN 1
  ELSE IF tasks[i].at = "chunk" THEN ChunkRetries ELSE RetryTimes

(* The memory after an answer. A slip: it has the chunk once per attempt.  *)
Memory_Repeated(i) ==
  tasks[i].memory \o [n \in 1..tasks[i].attempt |-> Len(tasks[i].memory) + 1]

Memory(i) == Append(tasks[i].memory, Len(tasks[i].memory) + 1)

Answered(i) ==
  /\ phase = "asking"
  /\ \/ /\ tasks[i].at = "chunk"
        /\ NextRequest(i, Memory(i))
     \/ /\ tasks[i].at = "question"
        /\ tasks' = [tasks EXCEPT ![i] =
             [@ EXCEPT !.at = "returned", !.answer = <<[item |-> i, read |-> tasks[i].memory]>>]]
        /\ UNCHANGED <<phase, data, outputs, buffer>>
  /\ UNCHANGED <<fixed, out_file, readouts, runs>>

(* An error of the connection or a status other than 200: the request is   *)
(* repeated after a pause, and the item given up after the last attempt.   *)
Failed(i) ==
  /\ phase = "asking"
  /\ i \in InFlight
  /\ tasks' = IF tasks[i].attempt < Attempts(i)
              THEN [tasks EXCEPT ![i].attempt = @ + 1]
              ELSE [tasks EXCEPT ![i].at = "returned"]
  /\ UNCHANGED <<fixed, phase, data, outputs, buffer, out_file, readouts, runs>>

(* gather: the results in the order of the coroutines.                     *)
Gathered == [k \in DOMAIN data |-> tasks[data[k]].answer]

(* The files are opened to append, or from the start with --force.         *)
Opened == IF force THEN <<>> ELSE out_file

Gather ==
  /\ phase = "asking"
  /\ \A i \in ToSet(data) : tasks[i].at = "returned"
  /\ outputs' = Gathered
  /\ out_file' = Opened
  /\ readouts' = IF force THEN <<>> ELSE readouts
  /\ phase' = "writing"
  /\ UNCHANGED <<fixed, data, tasks, buffer, runs>>
----------------------------------------------------------------------------
(* get_pred, after the requests: a line for every item with an answer.     *)
Lines ==
  SelectRows([k \in DOMAIN data |-> [id |-> data[k], answer |-> outputs[k]]],
             [k \in DOMAIN data |-> outputs[k] # <<>>])

WriteLine ==
  /\ phase = "writing"
  /\ Len(buffer) < Len(Lines)
  /\ buffer' = Append(buffer, Lines[Len(buffer) + 1])
  /\ UNCHANGED <<fixed, phase, data, tasks, outputs, out_file, readouts, runs>>

(* What is appended to a line cut short becomes part of it.                *)
Flushed(lines) ==
  IF out_file # <<>> /\ Last(out_file) = Cut /\ lines # <<>>
  THEN out_file \o Tail(lines)
  ELSE out_file \o lines

(* The averages go to the readout. A process without a single answer       *)
(* raises here (metric_scores has no 'f1').                                *)
Scored == {buffer[n].id : n \in DOMAIN buffer}

Finish ==
  /\ phase = "writing"
  /\ Len(buffer) = Len(Lines)
  /\ out_file' = Flushed(buffer)
  /\ readouts' = IF buffer = <<>> THEN readouts ELSE Append(readouts, Scored)
  /\ Down
  /\ UNCHANGED <<fixed, runs>>

Kill ==
  /\ phase # "down"
  /\ \E n \in 0..Len(buffer) :
       \E cut \in (IF n < Len(buffer) THEN BOOLEAN ELSE {FALSE}) :
         out_file' = Flushed(SubSeq(buffer, 1, n) \o (IF cut THEN <<Cut>> ELSE <<>>))
  /\ Down
  /\ UNCHANGED <<fixed, readouts, runs>>

Coroutine(i) == Acquire(i) \/ Answered(i) \/ Failed(i)

EvaluationNext ==
  \/ Start \/ Gather \/ WriteLine \/ Finish \/ Kill
  \/ \E i \in TestItems : Coroutine(i)

(* The event loop runs what can run, and every request comes to an end     *)
(* (the sessions have a timeout).                                          *)
EvaluationFairness ==
  /\ WF_evaluation(Gather \/ WriteLine \/ Finish)
  /\ \A i \in TestItems : WF_evaluation(Coroutine(i))

EvaluationSpec == EvaluationInit /\ [][EvaluationNext]_evaluation /\ EvaluationFairness
----------------------------------------------------------------------------
(* Types; the semaphore is never overdrawn.                                *)
EvaluationTypeOK ==
  /\ phase \in {"down", "asking", "writing"}
  /\ IsInjective(data) /\ ToSet(data) \subseteq TestItems
  /\ \A i \in TestItems :
       /\ tasks[i].at \in {"semaphore", "chunk", "question", "returned"}
       /\ Len(tasks[i].memory) <= chunks[i]
       /\ tasks[i].attempt \in 1..(IF tasks[i].at = "question" THEN RetryTimes
                                  ELSE IF ChunkRetries > RetryTimes THEN ChunkRetries
                                  ELSE RetryTimes)
  /\ Cardinality(InFlight) <= MaxWorkers
  /\ \A n \in DOMAIN buffer : buffer[n].id \in TestItems
  /\ \A n \in DOMAIN out_file : out_file[n] = Cut \/ out_file[n].id \in TestItems
  /\ runs \in 0..MaxRuns

(* The line of an item has the answer to its own question, given from a    *)
(* memory of all its chunks, each read once and in order, whatever was     *)
(* repeated and in whatever order the coroutines returned (gather, the     *)
(* retries of memocr_md.py, and zip in get_pred).                          *)
AnswersAreOwn ==
  \A n \in DOMAIN out_file :
    out_file[n] # Cut =>
      out_file[n].answer =
        <<[item |-> out_file[n].id, read |-> [k \in 1..chunks[out_file[n].id] |-> k]]>>

(* With the cache an item has one line at most, however many processes     *)
(* were started and killed (has_data in main of ruler_hqa.py).             *)
WholeLines == {n \in DOMAIN out_file : out_file[n] # Cut}

OneLinePerItem ==
  script = "ruler_hqa" =>
    \A m, n \in WholeLines : out_file[m].id = out_file[n].id => m = n

(* A line of the readout is the average over items that were answered, at  *)
(* least one (get_pred divides by their number), and that the file has     *)
(* lines of, unless one of them was appended to a line cut short.          *)
ReadoutsCoverLines ==
  Cut \notin ToSet(out_file) =>
    \A n \in DOMAIN readouts :
      /\ readouts[n] # {}
      /\ readouts[n] \subseteq {out_file[m].id : m \in DOMAIN out_file}

(* The files of several processes fit together: lines, their items and the *)
(* averages over them.                                                     *)
FilesAreConsistent == EvaluationTypeOK /\ OneLinePerItem /\ ReadoutsCoverLines

(* A process comes to an end: no coroutine waits for the semaphore for     *)
(* ever, although others are given up.                                     *)
EvaluationEnds == []<>(phase = "down")
=============================================================================
