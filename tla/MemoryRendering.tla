-------------------------- MODULE MemoryRendering --------------------------
(***************************************************************************)
(* batch_generate_images (recurrent/impls/call_md_renderer.py) and the     *)
(* service it calls (md2img/markdown_api_server.py).                       *)
(*                                                                         *)
(* The client renders the texts of one batch with a pool of threads, each  *)
(* posting one text at a time and trying again after a failure. The        *)
(* service keeps a queue of requests and a pool of threads, each with a    *)
(* browser of its own. A request the client gave up waiting for is not     *)
(* taken back: the service renders it all the same, also after the call it *)
(* belonged to has ended. The service outlives its clients; a call after a *)
(* call that raised is made by another process.                            *)
(*                                                                         *)
(* A text is its position in the batch, and whether it is blank, like a    *)
(* memory that consists of an end-of-sequence token. An image is the call  *)
(* and the position of the text it shows.                                  *)
(***************************************************************************)
EXTENDS Integers, Sequences, FiniteSets

CONSTANTS MaxItems,        \* bound on the texts of a batch
          MaxBatches,      \* bound on the calls
          ClientThreads,   \* max_workers of the call
          ServerThreads,   \* max_workers of the service's executor
          MaxRetries,      \* retry_on_error: attempts per request
          MaxBrowserFaults \* bound on launches that fail and browsers that die

ASSUME RenderingAssumption ==
  /\ MaxItems \in Nat \ {0} /\ MaxBatches \in Nat \ {0}
  /\ ClientThreads \in Nat \ {0} /\ ServerThreads \in Nat \ {0}
  /\ MaxRetries \in Nat \ {0} /\ MaxBrowserFaults \in Nat

VARIABLES
  batch,      \* number of the current call
  status,     \* of the call: "idle", "running", "raising", "returned", "raised"
  blank,      \* the texts of the batch that are blank
  item,       \* per text: "queued", "posting", "sleeping", "done" or "failed"
  attempt,    \* per text: attempts made
  image,      \* per text: the result of its future
  results,    \* what the main thread has stored, per text
  pending,    \* the futures as_completed has not yielded yet
  queue,      \* service: requests waiting for a thread
  serving,    \* service: the request each thread works on
  browser,    \* service: the browser of each thread
  faults      \* browser faults so far

client == <<batch, status, blank, item, attempt, image, results, pending>>
server == <<queue, serving, browser, faults>>
vars   == <<client, server>>

Items    == DOMAIN item
Threads  == 1..ServerThreads
NoImage  == <<0, 0>>
Nothing  == [batch |-> 0, item |-> 0, attempt |-> 0]

Init ==
  /\ batch = 0
  /\ status = "idle"
  /\ blank = {}
  /\ item = <<>>
  /\ attempt = <<>>
  /\ image = <<>>
  /\ results = <<>>
  /\ pending = {}
  /\ queue = <<>>
  /\ serving = [t \in Threads |-> Nothing]
  /\ browser = [t \in Threads |-> "none"]
  /\ faults = 0
----------------------------------------------------------------------------
(* The client.                                                             *)

Call(n, b) ==
  /\ status \in {"idle", "returned", "raised"}
  /\ batch < MaxBatches
  /\ batch' = batch + 1
  /\ status' = "running"
  /\ blank' = b
  /\ item' = [i \in 1..n |-> "queued"]
  /\ attempt' = [i \in 1..n |-> 0]
  /\ image' = [i \in 1..n |-> NoImage]
  /\ results' = [i \in 1..n |-> NoImage]
  /\ pending' = 1..n
  /\ UNCHANGED server

(* An attempt. Either its request joins the service's queue, or it does    *)
(* not: there is no connection, or the text is blank, which the service    *)
(* answers with status 400 before any of its threads is asked.             *)
Request(i) == [batch |-> batch, item |-> i, attempt |-> attempt[i] + 1]

Post(i) ==
  /\ item' = [item EXCEPT ![i] = "posting"]
  /\ attempt' = [attempt EXCEPT ![i] = @ + 1]
  /\ \/ UNCHANGED queue
     \/ i \notin blank /\ queue' = Append(queue, Request(i))
  /\ UNCHANGED <<batch, status, blank, image, results, pending, serving,
                 browser, faults>>

(* A free thread of the client's pool takes the next text.                 *)
Working == {i \in Items : item[i] \in {"posting", "sleeping"}}

Take(i) ==
  /\ item[i] = "queued"
  /\ \A j \in 1..(i - 1) : item[j] # "queued"
  /\ Cardinality(Working) < ClientThreads
  /\ Post(i)

(* An attempt fails: the service refused the blank text, the connection    *)
(* failed, or 30 seconds passed without an answer. The thread sleeps.      *)
AttemptFails(i) ==
  /\ item[i] = "posting"
  /\ item' = [item EXCEPT ![i] = "sleeping"]
  /\ UNCHANGED <<batch, status, blank, attempt, image, results, pending, server>>

(* retry_on_error: after its sleep the thread tries again, or gives up.    *)
Retry(i) ==
  /\ item[i] = "sleeping"
  /\ attempt[i] < MaxRetries
  /\ Post(i)

(* A slip: the thread sleeps on after its last attempt.                    *)
GiveUp_Never(i) ==
  /\ item[i] = "sleeping"
  /\ attempt[i] > MaxRetries
  /\ UNCHANGED vars

(* A slip: the last attempt is counted as made before it is made.          *)
GiveUp_Early(i) ==
  /\ item[i] = "sleeping"
  /\ attempt[i] >= MaxRetries - 1
  /\ item' = [item EXCEPT ![i] = "failed"]
  /\ UNCHANGED <<batch, status, blank, attempt, image, results, pending, server>>

GiveUp(i) ==
  /\ item[i] = "sleeping"
  /\ attempt[i] = MaxRetries
  /\ item' = [item EXCEPT ![i] = "failed"]
  /\ UNCHANGED <<batch, status, blank, attempt, image, results, pending, server>>

(* The main thread walks the futures in the order they complete and stores *)
(* each image at the place of its text. A slip: in order of completion.    *)
Stored_AsCompleted(i) ==
  [results EXCEPT ![Cardinality(Items \ pending) + 1] = image[i]]

Stored(i) == [results EXCEPT ![i] = image[i]]

Collect(i) ==
  /\ status = "running"
  /\ i \in pending /\ item[i] = "done"
  /\ results' = Stored(i)
  /\ pending' = pending \ {i}
  /\ UNCHANGED <<batch, status, blank, item, attempt, image, server>>

(* A future that failed raises in the main thread, which then waits in the *)
(* executor's __exit__ for all the others, started or not.                 *)
CollectFailure(i) ==
  /\ status = "running"
  /\ i \in pending /\ item[i] = "failed"
  /\ status' = "raising"
  /\ UNCHANGED <<batch, blank, item, attempt, image, results, pending, server>>

Return ==
  /\ status = "running" /\ pending = {}
  /\ status' = "returned"
  /\ UNCHANGED <<batch, blank, item, attempt, image, results, pending, server>>

(* The executor's __exit__ has waited for every thread.                    *)
Raise ==
  /\ status = "raising"
  /\ \A i \in Items : item[i] \in {"done", "failed"}
  /\ status' = "raised"
  /\ UNCHANGED <<batch, blank, item, attempt, image, results, pending, server>>
----------------------------------------------------------------------------
(* The service.                                                            *)

Busy(t) == serving[t] # Nothing

Begin(t) ==
  /\ ~Busy(t)
  /\ queue # <<>>
  /\ serving' = [serving EXCEPT ![t] = Head(queue)]
  /\ queue' = Tail(queue)
  /\ UNCHANGED <<client, browser, faults>>

(* get_thread_local_browser for a thread that has none. The attribute that *)
(* tells a later call not to launch is set before the launch: a launch     *)
(* that fails leaves the thread without a browser for good.                *)
Launch(t) ==
  /\ Busy(t) /\ browser[t] = "none"
  /\ browser' = [browser EXCEPT ![t] = "ready"]
  /\ UNCHANGED <<client, queue, serving, faults>>

(* The request a thread works on is answered. The answer reaches the       *)
(* client only if the client still waits for it.                           *)
Awaited(r) ==
  /\ r.batch = batch
  /\ r.item \in Items
  /\ item[r.item] = "posting"
  /\ attempt[r.item] = r.attempt

Release(t) == serving' = [serving EXCEPT ![t] = Nothing]

(* Status 500.                                                             *)
AnswerError(t) ==
  /\ Release(t)
  /\ item' = IF Awaited(serving[t])
             THEN [item EXCEPT ![serving[t].item] = "sleeping"]
             ELSE item
  /\ UNCHANGED <<batch, status, blank, attempt, image, results, pending, queue>>

(* Status 200 with an image. An answer that cannot be decoded becomes a    *)
(* missing image.                                                          *)
AnswerImage(t) ==
  /\ Release(t)
  /\ LET r == serving[t]
     IN  IF Awaited(r)
         THEN /\ item' = [item EXCEPT ![r.item] = "done"]
              /\ \E img \in {<<r.batch, r.item>>, NoImage} :
                   image' = [image EXCEPT ![r.item] = img]
         ELSE UNCHANGED <<item, image>>
  /\ UNCHANGED <<batch, status, blank, attempt, results, pending, queue, browser, faults>>

LaunchFails(t) ==
  /\ Busy(t) /\ browser[t] = "none"
  /\ faults < MaxBrowserFaults
  /\ faults' = faults + 1
  /\ browser' = [browser EXCEPT ![t] = "wedged"]
  /\ AnswerError(t)

(* A page is opened, shot and closed; or a step of that fails, and the     *)
(* page is closed all the same.                                            *)
Render(t) ==
  /\ Busy(t) /\ browser[t] = "ready"
  /\ AnswerImage(t)

RenderError(t) ==
  /\ Busy(t) /\ browser[t] = "ready"
  /\ AnswerError(t)
  /\ UNCHANGED <<browser, faults>>

(* A thread without a browser, or with one that died, answers 500 to every *)
(* request it takes: nothing replaces a browser.                           *)
(* A slip: the exception ends the thread with its request.                 *)
NoBrowserError_Stuck(t) ==
  /\ Busy(t) /\ browser[t] \in {"wedged", "dead"}
  /\ UNCHANGED vars

NoBrowserError(t) ==
  /\ Busy(t) /\ browser[t] \in {"wedged", "dead"}
  /\ AnswerError(t)
  /\ UNCHANGED <<browser, faults>>

BrowserDies(t) ==
  /\ browser[t] = "ready"
  /\ faults < MaxBrowserFaults
  /\ faults' = faults + 1
  /\ browser' = [browser EXCEPT ![t] = "dead"]
  /\ UNCHANGED <<client, queue, serving>>
----------------------------------------------------------------------------
ClientStep(i) ==
  \/ Take(i)
  \/ AttemptFails(i)
  \/ Retry(i)
  \/ GiveUp(i)
  \/ Collect(i)
  \/ CollectFailure(i)

Answer(t) ==
  \/ Launch(t)
  \/ LaunchFails(t)
  \/ Render(t)
  \/ RenderError(t)
  \/ NoBrowserError(t)

Next ==
  \/ \E n \in 1..MaxItems : \E b \in SUBSET (1..n) : Call(n, b)
  \/ \E i \in Items : ClientStep(i)
  \/ Return
  \/ Raise
  \/ \E t \in Threads : Begin(t)
  \/ \E t \in Threads : Answer(t)
  \/ \E t \in Threads : BrowserDies(t)

(* Every thread of the client runs: it takes a text when it is free, its   *)
(* request ends with an answer or with the timeout, its sleep ends. A      *)
(* thread of the service that is idle takes a request, and every call into *)
(* the browser has a timeout. The steps of a text exclude each other, and  *)
(* so do those of a thread. Nothing makes browsers die.                    *)
Fairness ==
  /\ \A i \in 1..MaxItems : WF_vars(i \in Items /\ ClientStep(i))
  /\ WF_vars(Return \/ Raise)
  /\ \A t \in Threads : WF_vars(Begin(t) \/ Answer(t))

Spec == Init /\ [][Next]_vars /\ Fairness
----------------------------------------------------------------------------
Requests == [batch : 1..MaxBatches, item : 1..MaxItems, attempt : 1..MaxRetries]

TypeOK ==
  /\ batch \in 0..MaxBatches
  /\ status \in {"idle", "running", "raising", "returned", "raised"}
  /\ blank \subseteq Items
  /\ item \in [Items -> {"queued", "posting", "sleeping", "done", "failed"}]
  /\ Items = 1..Cardinality(Items) /\ Cardinality(Items) <= MaxItems
  /\ attempt \in [Items -> 0..MaxRetries]
  /\ image \in [Items -> (1..MaxBatches) \X Items \cup {NoImage}]
  /\ results \in [Items -> (1..MaxBatches) \X Items \cup {NoImage}]
  /\ pending \subseteq Items
  /\ queue \in Seq(Requests)
  /\ serving \in [Threads -> Requests \cup {Nothing}]
  /\ browser \in [Threads -> {"none", "ready", "wedged", "dead"}]
  /\ faults \in 0..MaxBrowserFaults

(* Every image that arrived is handed out: no text of a call that returns  *)
(* lacks an image because its future was not asked for (as_completed in    *)
(* batch_generate_images), however late the answer came.                   *)
ReturnsEveryImage == status = "returned" => results = image

(* The call raises for a reason: some text used up all its attempts. And a *)
(* blank text, which the service always refuses, makes it raise each time. *)
RaisedForAReason ==
  /\ status \in {"raising", "raised"} =>
       \E i \in Items : item[i] = "failed" /\ attempt[i] = MaxRetries
  /\ status = "returned" => blank = {}

(* The call and its threads agree, between any two of their steps, on what *)
(* was tried, answered and given up (batch_generate_images over            *)
(* retry_on_error).                                                        *)
RenderingIsConsistent == TypeOK /\ ReturnsEveryImage /\ RaisedForAReason

(* An image stored for a text shows that text, although requests that were *)
(* given up are still answered, possibly during a later call.              *)
Rendering == INSTANCE BatchRendering WITH
  call    <- batch,
  size    <- Cardinality(Items),
  images  <- IF status = "returned" THEN results ELSE <<>>,
  working <- {i \in Items : item[i] \notin {"done", "failed"}},
  status  <- IF status \in {"running", "raising"} THEN "busy" ELSE status

ImplementsBatchRendering == Rendering!Spec

(* The call ends, whatever the service does (each attempt has a timeout).  *)
CallEnds == []<>(status \in {"idle", "returned", "raised"})

(* The service does not get stuck on requests nobody waits for: what is in *)
(* its queue is answered in the end, also by threads without a browser.    *)
ServiceDrains == []<>(\A t \in Threads : ~Busy(t))
=============================================================================
