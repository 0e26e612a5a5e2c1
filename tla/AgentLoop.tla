----------------------------- MODULE AgentLoop -----------------------------
(***************************************************************************)
(* verl's agent loop around the conversations (agent_loop.py): the manager *)
(* wakes the inference servers, hands every worker its part of the batch,  *)
(* and lets the servers sleep when all workers have returned. A worker     *)
(* runs its samples as coroutines, sends the turns of a conversation to    *)
(* one server (AsyncLLMServerManager), and has each finished conversation  *)
(* scored: a thread of its reward worker submits it to the BatchExecutor,  *)
(* which all workers share, and waits for the answer. The executor passes  *)
(* on batches that the reward model's ranks can divide among themselves.   *)
(*                                                                         *)
(* A conversation is modelled by its turns; what it is made of is          *)
(* ToolAgentLoop. A row and a score are modelled by the sample they are    *)
(* from.                                                                   *)
(***************************************************************************)
EXTENDS Integers, FiniteSets, Sequences, SequencesExt, FiniteSetsExt

CONSTANTS NumWorkers,   \* agent.num_workers
          NumServers,   \* rollout replicas
          Sizes,        \* lengths of the batches
          Worlds,       \* world sizes of rm_wg, 0 for none
          ThreadCounts, \* sizes of a reward worker's default executor
          MaxCacheSize, \* max_cache_size
          MaxTurns,     \* bound on the turns after the first of their conversation
          MaxCalls,     \* bound on the calls of generate_sequences
          MaxFaults     \* bound on what raises

ASSUME AgentLoopAssumption ==
  /\ {NumWorkers, NumServers, MaxCacheSize} \subseteq Nat \ {0}
  /\ ThreadCounts \subseteq Nat \ {0}
  /\ IsFiniteSet(Sizes) /\ Sizes # {} /\ Sizes \subseteq Nat \ {0}
  /\ Worlds \subseteq Nat /\ {MaxTurns, MaxCalls, MaxFaults} \subseteq Nat

Workers == 1..NumWorkers
Servers == 1..NumServers      \* in the order of their hashes
Samples == 1..Max(Sizes)

VARIABLES
  world,     \* rm_wg.world_size
  threads,   \* of the default executor of each reward worker
  manager,   \* "idle", "running", "raised"
  calls,     \* of generate_sequences
  size,      \* length of the batch
  asleep,    \* the servers' caches are freed
  task,      \* per sample, what its coroutine waits for
  turns,     \* taken after the first of their conversation
  server,    \* per sample, the server of the request under way, 0 if none
  visited,   \* per sample, the servers its turns went to
  weighted,  \* weighted_serveres of each worker: requests counted per server
  cache,     \* request_id_to_server of each worker, least recently used first
  queue,     \* of the executor
  items,     \* the batch it is collecting
  executor,  \* "first", "remaining", "whole", "run": where its loop is
  score,     \* per sample, the sample its score was computed from, 0 if none
  output,    \* rows of the last batch returned
  faults

batch == <<size, task, server, visited, score>>
lb    == <<weighted, cache>>
rm    == <<queue, items, executor>>
vars  == <<world, threads, manager, calls, asleep, batch, turns, lb, rm, output, faults>>

Init ==
  /\ world \in Worlds /\ threads \in ThreadCounts
  /\ manager = "idle" /\ calls = 0 /\ asleep = TRUE
  /\ size = 0
  /\ task = [i \in Samples |-> "none"]
  /\ turns = 0
  /\ server = [i \in Samples |-> 0]
  /\ visited = [i \in Samples |-> {}]
  /\ score = [i \in Samples |-> 0]
  /\ weighted = [w \in Workers |-> [s \in Servers |-> 0]]
  /\ cache = [w \in Workers |-> <<>>]
  /\ queue = <<>> /\ items = <<>> /\ executor = "first"
  /\ output = <<>> /\ faults = 0

Batch == 1..size

(* DataProto.chunk: the worker of a sample.                                *)
WorkerOf(i) == (i - 1) \div (size \div NumWorkers) + 1
----------------------------------------------------------------------------
(* AgentLoopManager.generate_sequences. A length the reward model's ranks  *)
(* cannot divide is refused; one the workers cannot divide raises in       *)
(* chunk, when the servers are awake. A slip: the length is not looked at. *)
Divides_Any(n) == TRUE

Divides(n) == world = 0 \/ n % world = 0

GenerateSequences(n) ==
  /\ manager = "idle" /\ calls < MaxCalls
  /\ calls' = calls + 1
  /\ IF ~Divides(n)
     THEN manager' = "raised" /\ UNCHANGED <<asleep, batch>>
     ELSE /\ asleep' = FALSE
          /\ IF n % NumWorkers # 0
             THEN manager' = "raised" /\ UNCHANGED batch
             ELSE /\ manager' = "running"
                  /\ size' = n
                  /\ task' = [i \in Samples |-> IF i <= n THEN "turn" ELSE "none"]
                  /\ server' = [i \in Samples |-> 0]
                  /\ visited' = [i \in Samples |-> {}]
                  /\ score' = [i \in Samples |-> 0]
  /\ UNCHANGED <<world, threads, turns, lb, rm, output, faults>>

(* A worker's gather and the manager's concat keep the order of the batch. *)
Row(i) == [sample |-> i, score |-> score[i]]

Finished == {i \in Batch : task[i] = "done"}

(* ray.get waits for all workers.                                          *)
AllWorkers == Batch \subseteq Finished

Return ==
  /\ manager = "running" /\ AllWorkers
  /\ output' = [i \in Batch |-> Row(i)]
  /\ asleep' = TRUE
  /\ manager' = "idle"
  /\ UNCHANGED <<world, threads, calls, batch, turns, lb, rm, faults>>

(* What a coroutine raises leaves gather, ray.get and generate_sequences,  *)
(* with the servers awake; the trainer ends, and with it its actors.       *)
Raise ==
  /\ manager = "running"
  /\ \E i \in Batch : task[i] = "raised"
  /\ manager' = "raised"
  /\ UNCHANGED <<world, threads, calls, asleep, batch, turns, lb, rm, output, faults>>
----------------------------------------------------------------------------
(* AsyncLLMServerManager. The requests of a call are new: a cached entry   *)
(* is one of this call's samples or of an earlier call's.                  *)
Request(i) == <<calls, i>>

Cached(w, r) == \E k \in DOMAIN cache[w] : cache[w][k].request = r

Entry(w, r) == CHOOSE k \in DOMAIN cache[w] : cache[w][k].request = r

(* heapreplace keeps the server with the fewest requests, then the         *)
(* smallest hash, in front.                                                *)
Least(w) ==
  CHOOSE s \in Servers : \A t \in Servers :
    weighted[w][s] < weighted[w][t] \/ (weighted[w][s] = weighted[w][t] /\ s <= t)

(* _choose_server. A slip: the cache is not looked at.                     *)
Chosen_Least(w, r) == Least(w)

Chosen(w, r) ==
  IF Cached(w, r) THEN cache[w][Entry(w, r)].server ELSE Least(w)

(* LRUCache: an entry that is read or written becomes the latest, and the  *)
(* earliest is dropped when there are too many.                            *)
Used(w, r, s) ==
  LET others == IF Cached(w, r) THEN RemoveAt(cache[w], Entry(w, r)) ELSE cache[w]
  IN  Append(IF Len(others) >= MaxCacheSize THEN Tail(others) ELSE others,
             [request |-> r, server |-> s])

(* A coroutine of the call under way, at one of its awaits.                *)
Waits(i, at) == manager = "running" /\ i \in Batch /\ task[i] = at

(* generate: a coroutine's turn goes to the server chosen.                 *)
Generate(i) ==
  LET w == WorkerOf(i)
      s == Chosen(w, Request(i))
  IN
  /\ Waits(i, "turn")
  /\ weighted' = IF Cached(w, Request(i)) THEN weighted
                 ELSE [weighted EXCEPT ![w][s] = @ + 1]
  /\ cache' = [cache EXCEPT ![w] = Used(w, Request(i), s)]
  /\ server' = [server EXCEPT ![i] = s]
  /\ visited' = [visited EXCEPT ![i] = @ \cup {s}]
  /\ task' = [task EXCEPT ![i] = "server"]
  /\ UNCHANGED <<world, threads, manager, calls, asleep, size, turns, score, rm, output, faults>>

(* The server answers: another turn, or the end of the conversation, which *)
(* is then scored.                                                         *)
Answered(i, next) ==
  /\ Waits(i, "server")
  /\ turns' = IF next = "turn" THEN turns + 1 ELSE turns
  /\ turns' <= MaxTurns
  /\ server' = [server EXCEPT ![i] = 0]
  /\ task' = [task EXCEPT ![i] = next]
  /\ UNCHANGED <<world, threads, manager, calls, asleep, size, visited, score, lb, rm, output, faults>>

AgentRaises(i) ==
  /\ Waits(i, "server") /\ faults < MaxFaults
  /\ faults' = faults + 1
  /\ server' = [server EXCEPT ![i] = 0]
  /\ task' = [task EXCEPT ![i] = "raised"]
  /\ UNCHANGED <<world, threads, manager, calls, asleep, size, turns, visited, score, lb, rm, output>>
----------------------------------------------------------------------------
(* RewardManagerWorker.compute_score: reward_wrapper runs in a thread of   *)
(* the pool, which it occupies until the executor has answered.            *)
Occupied(w) == {i \in Batch : WorkerOf(i) = w /\ task[i] \in {"executor", "answered"}}

Submit(i) ==
  /\ Waits(i, "thread")
  /\ Cardinality(Occupied(WorkerOf(i))) < threads
  /\ IF world > 0
     THEN task' = [task EXCEPT ![i] = "executor"] /\ queue' = Append(queue, i)
     ELSE task' = [task EXCEPT ![i] = "answered"] /\ UNCHANGED queue
  /\ UNCHANGED <<world, threads, manager, calls, asleep, size, turns, server, visited, score, lb,
                 items, executor, output, faults>>

(* The reward manager's score; without rm_wg it is computed here.          *)
Score(i) ==
  /\ Waits(i, "answered")
  /\ task' = [task EXCEPT ![i] = "done"]
  /\ score' = [score EXCEPT ![i] = IF world > 0 THEN @ ELSE i]
  /\ UNCHANGED <<world, threads, manager, calls, asleep, size, turns, server, visited, lb, rm,
                 output, faults>>
----------------------------------------------------------------------------
(* BatchExecutor._worker_loop: one item, then all that are queued, then as *)
(* many as are missing for whole micro batches.                            *)
Whole(batch_items) == Len(batch_items) % world = 0

Take ==
  /\ manager = "running" /\ executor \in {"first", "remaining", "whole"} /\ queue # <<>>
  /\ items' = Append(items, Head(queue))
  /\ queue' = Tail(queue)
  /\ executor' = CASE executor = "first" -> "remaining"
                   [] executor = "remaining" -> "remaining"
                   [] executor = "whole" -> IF Whole(items') THEN "run" ELSE "whole"
  /\ UNCHANGED <<world, threads, manager, calls, asleep, batch, turns, lb, output, faults>>

QueueEmpty ==
  /\ manager = "running" /\ executor = "remaining" /\ queue = <<>>
  /\ executor' = IF Whole(items) THEN "run" ELSE "whole"
  /\ UNCHANGED <<world, threads, manager, calls, asleep, batch, turns, lb, queue, items, output, faults>>

(* batch_func scores the items in their order, and the results go to the   *)
(* futures in theirs. A slip: the futures were put in front.               *)
Future_Reversed(k) == items[Len(items) + 1 - k]

Future(k) == items[k]

Run ==
  /\ manager = "running" /\ executor = "run"
  /\ score' = [i \in Samples |->
       IF i \in ToSet(items) THEN items[CHOOSE k \in DOMAIN items : Future(k) = i] ELSE score[i]]
  /\ task' = [i \in Samples |-> IF i \in ToSet(items) THEN "answered" ELSE task[i]]
  /\ items' = <<>> /\ executor' = "first"
  /\ UNCHANGED <<world, threads, manager, calls, asleep, size, turns, server, visited, lb, queue,
                 output, faults>>

RunRaises ==
  /\ manager = "running" /\ executor = "run" /\ faults < MaxFaults
  /\ faults' = faults + 1
  /\ task' = [i \in Samples |-> IF i \in ToSet(items) THEN "raised" ELSE task[i]]
  /\ items' = <<>> /\ executor' = "first"
  /\ UNCHANGED <<world, threads, manager, calls, asleep, size, turns, server, visited, score, lb,
                 queue, output>>
----------------------------------------------------------------------------
Coroutine(i) == Generate(i) \/ Answered(i, "turn") \/ Answered(i, "thread") \/ Submit(i) \/ Score(i)

Next ==
  \/ \E n \in Sizes : GenerateSequences(n)
  \/ Return \/ Raise
  \/ \E i \in Samples : Coroutine(i) \/ AgentRaises(i)
  \/ Take \/ QueueEmpty \/ Run \/ RunRaises

(* Servers answer, the event loops resume what is ready, a pool runs what  *)
(* is submitted, and the executor is a thread. Nothing has to raise, and   *)
(* the trainer need not call again.                                        *)
Fairness ==
  /\ \A i \in Samples : WF_vars(Coroutine(i))
  /\ WF_vars(Take \/ QueueEmpty \/ Run)
  /\ WF_vars(Return \/ Raise)

Spec == Init /\ [][Next]_vars /\ Fairness
----------------------------------------------------------------------------
(* Type correctness of the manager, the workers and the executor.          *)
TypeOK ==
  /\ world \in Worlds /\ threads \in ThreadCounts
  /\ manager \in {"idle", "running", "raised"}
  /\ calls \in 0..MaxCalls /\ size \in Sizes \cup {0} /\ asleep \in BOOLEAN
  /\ task \in [Samples -> {"none", "turn", "server", "thread", "executor", "answered", "done", "raised"}]
  /\ turns \in 0..MaxTurns /\ server \in [Samples -> Servers \cup {0}]
  /\ visited \in [Samples -> SUBSET Servers] /\ score \in [Samples -> Samples \cup {0}]
  /\ weighted \in [Workers -> [Servers -> Nat]]
  /\ \A w \in Workers : Len(cache[w]) <= MaxCacheSize
  /\ {queue, items} \subseteq Seq(Samples)
  /\ executor \in {"first", "remaining", "whole", "run"}
  /\ faults \in 0..MaxFaults

(* Sticky sessions: all turns of a conversation go to one server, while    *)
(* the conversations of earlier calls are dropped from the cache.          *)
SessionsAreSticky == \A i \in Batch : Cardinality(visited[i]) <= 1

(* Load balance: no server of a worker was given two conversations more    *)
(* than another.                                                           *)
LoadIsBalanced ==
  \A w \in Workers : \A s, t \in Servers : weighted[w][s] <= weighted[w][t] + 1

(* No request is under way at a server whose cache has been freed.         *)
NoRequestToSleepers == asleep => \A i \in Samples : server[i] = 0

(* The servers of a call are used as its workers were told: one for each   *)
(* conversation, in equal shares, and none that sleeps                     *)
(* (AsyncLLMServerManager and generate_sequences).                         *)
SessionsAreSound == TypeOK /\ SessionsAreSticky /\ LoadIsBalanced /\ NoRequestToSleepers

(* Every row that is returned is its prompt's, in the order of the batch,  *)
(* with the score the reward model computed from that row, although        *)
(* conversations end, threads run and batches form in any order.           *)
RowsAreOwn == \A i \in DOMAIN output : output[i].sample = i /\ output[i].score = i

(* Threads are enough for the items of a call to come: one for each        *)
(* sample, or micro batches of one item, or of as many as there are        *)
(* threads, or threads of a single worker that hold whole micro batches.   *)
(* Otherwise the executor may wait for an item while every thread waits    *)
(* for the executor, and the samples that are left for a thread.           *)
ThreadsSuffice ==
  \/ world <= 1
  \/ size <= NumWorkers * threads
  \/ world = NumWorkers * threads
  \/ NumWorkers = 1 /\ threads % world = 0

(* Every call whose threads suffice returns or raises: the executor never  *)
(* waits for an item that nobody will submit, although samples wait for    *)
(* threads, and threads for the executor (BatchExecutor, compute_score).   *)
EveryCallEnds == manager = "running" /\ ThreadsSuffice ~> manager # "running"
=============================================================================
