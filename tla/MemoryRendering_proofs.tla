------------------------ MODULE MemoryRendering_proofs ------------------------
(***************************************************************************)
(* Proofs about MemoryRendering, for any number of texts, calls, threads   *)
(* and attempts and for any number of browser faults: what a call returns  *)
(* is what its texts were answered with, whenever the answers come, and    *)
(* the client and the service together implement BatchRendering.           *)
(*                                                                         *)
(* From "The evaluation" on, the proofs are about EvaluationClient, which  *)
(* has its memories rendered by such a service, for any number of items,   *)
(* chunks, workers, attempts and processes.                                *)
(***************************************************************************)
EXTENDS MemoryRendering, EvaluationClient, SequenceTheorems, FiniteSetTheorems, TLAPS

Ended == {"done", "failed"}

(* A text: how often it was tried, and what has become of its future. The  *)
(* main thread stores an image when it takes the future off pending.       *)
TextOK(i) ==
  /\ item[i] = "queued" => attempt[i] = 0
  /\ item[i] \in {"posting", "sleeping"} => attempt[i] >= 1
  /\ item[i] = "failed" => attempt[i] = MaxRetries
  /\ item[i] = "done" => i \notin blank
  /\ item[i] # "done" => image[i] = NoImage /\ i \in pending
  /\ image[i] \in {<<batch, i>>, NoImage}
  /\ results[i] = IF i \in pending THEN NoImage ELSE image[i]

(* A request, of this call or an earlier one: a blank text has none.       *)
RequestOK(r) == r.batch <= batch /\ (r.batch = batch => r.item \notin blank)

TextsOK == \A i \in Items : TextOK(i)

RequestsOK ==
  /\ \A k \in 1..Len(queue) : RequestOK(queue[k])
  /\ \A t \in Threads : Busy(t) => RequestOK(serving[t])

CallOK ==
  /\ Cardinality(Items) \in Nat
  /\ batch = 0 => status = "idle"
  /\ status = "idle" => Items = {}
  /\ status \in {"raising", "raised"} => \E i \in Items : item[i] = "failed"
  /\ status = "raised" => \A i \in Items : item[i] \in Ended
  /\ status = "returned" => pending = {}

IInv == TypeOK /\ TextsOK /\ RequestsOK /\ CallOK

LEMMA InitIInv == Init => IInv
<1> SUFFICES ASSUME Init PROVE IInv
  OBVIOUS
<1>1. Items = {} /\ Cardinality(Items) = 0 /\ 1..0 = {}
  BY EmptySeq, LenProperties, FS_EmptySet DEF Init, Items
<1>2. TypeOK
  BY <1>1, EmptySeq, RenderingAssumption DEF Init, TypeOK, Items
<1>3. QED
  BY <1>1, <1>2, EmptySeq DEF Init, IInv, TextsOK, RequestsOK, CallOK, Busy

(* A call finds nothing of its own in the service: what is there is of     *)
(* earlier calls.                                                          *)
LEMMA CallPreserves ==
  ASSUME IInv, NEW n \in 1..MaxItems, NEW b \in SUBSET (1..n), Call(n, b)
  PROVE  IInv'
<1> USE DEF Call, server
<1>1. TypeOK /\ RequestsOK
  BY DEF IInv
<1>2. n \in Nat /\ n >= 1 /\ n <= MaxItems /\ MaxRetries \in Nat
  BY RenderingAssumption
<1>3. Items' = 1..n /\ Cardinality(Items)' = n
  BY <1>2, FS_Interval DEF Items
<1>4. TypeOK'
  BY <1>1, <1>2, <1>3, RenderingAssumption DEF TypeOK, Threads
<1>5. TextsOK'
  BY <1>3 DEF TextsOK, TextOK
<1>6. RequestsOK'
  <2>1. batch \in Nat /\ batch' = batch + 1
    BY <1>1, RenderingAssumption DEF TypeOK
  <2>2. \A r \in Requests : RequestOK(r) => r.batch <= batch' /\ r.batch # batch'
    BY <2>1, RenderingAssumption DEF RequestOK, Requests
  <2>3. /\ \A k \in 1..Len(queue) : queue[k] \in Requests
        /\ \A t \in Threads : Busy(t) => serving[t] \in Requests
    BY <1>1, ElementOfSeq DEF TypeOK, Busy
  <2>4. queue' = queue /\ serving' = serving /\ \A t \in Threads : Busy(t)' = Busy(t)
    BY DEF Busy
  <2> HIDE DEF Call
  <2>5. QED
    BY <1>1, <2>2, <2>3, <2>4 DEF RequestsOK, RequestOK, Threads
<1>7. CallOK'
  BY <1>1, <1>2, <1>3 DEF CallOK, TypeOK
<1>8. QED
  BY <1>4, <1>5, <1>6, <1>7 DEF IInv

(* A text's thread changes the state of that text alone.                   *)
LEMMA SameTexts ==
  ASSUME TypeOK, NEW i \in Items, NEW s, item' = [item EXCEPT ![i] = s]
  PROVE  /\ Items' = Items /\ Cardinality(Items)' = Cardinality(Items)
         /\ item'[i] = s
         /\ \A j \in Items \ {i} : item'[j] = item[j]
BY DEF TypeOK, Items

(* What the service holds stays sound while the call and its blank texts   *)
(* stay the same.                                                          *)
LEMMA SameRequests ==
  ASSUME RequestsOK, UNCHANGED <<batch, blank, queue, serving>>
  PROVE  RequestsOK'
BY DEF RequestsOK, RequestOK, Busy, Threads

LEMMA PostPreserves ==
  ASSUME IInv, NEW i \in Items, item[i] \in {"queued", "sleeping"},
         attempt[i] < MaxRetries, Post(i)
  PROVE  IInv'
<1> USE DEF Post
<1>1. TypeOK /\ TextsOK /\ RequestsOK /\ CallOK /\ TextOK(i)
  BY DEF IInv, TextsOK
<1>2. /\ Items' = Items /\ Cardinality(Items)' = Cardinality(Items)
      /\ item'[i] = "posting" /\ \A j \in Items \ {i} : item'[j] = item[j]
  BY <1>1, SameTexts
<1>3. batch \in 1..MaxBatches /\ MaxRetries \in Nat /\ attempt[i] \in Nat
  BY <1>1, RenderingAssumption DEF TypeOK, CallOK
<1>4. /\ attempt' \in [Items -> 0..MaxRetries]
      /\ attempt'[i] = attempt[i] + 1 /\ \A j \in Items \ {i} : attempt'[j] = attempt[j]
  BY <1>1, <1>3 DEF TypeOK
<1>5. i \notin blank => Request(i) \in Requests /\ RequestOK(Request(i))
  <2>1. i \in 1..MaxItems
    BY <1>1, RenderingAssumption DEF TypeOK, CallOK
  <2>2. attempt[i] + 1 \in 1..MaxRetries
    BY <1>3
  <2>3. QED
    BY <1>3, <2>1, <2>2 DEF Request, Requests, RequestOK
<1>6. queue' \in Seq(Requests) /\ \A k \in 1..Len(queue') : RequestOK(queue'[k])
  <2>1. queue \in Seq(Requests)
    BY <1>1 DEF TypeOK
  <2>2. CASE queue' = queue
    BY <1>1, <2>1, <2>2 DEF RequestsOK
  <2>3. CASE i \notin blank /\ queue' = Append(queue, Request(i))
    <3> HIDE DEF Post
    <3>1. Request(i) \in Requests /\ RequestOK(Request(i))
      BY <1>5, <2>3
    <3>2. /\ queue' \in Seq(Requests) /\ Len(queue') = Len(queue) + 1 /\ Len(queue) \in Nat
          /\ queue'[Len(queue) + 1] = Request(i)
          /\ \A k \in 1..Len(queue) : queue'[k] = queue[k]
      BY <2>1, <2>3, <3>1, AppendProperties, LenProperties
    <3>3. QED
      BY <1>1, <3>1, <3>2 DEF RequestsOK
  <2>4. QED
    BY <2>2, <2>3
<1>7. TypeOK'
  BY <1>1, <1>2, <1>4, <1>6 DEF TypeOK, Threads
<1>8. TextsOK'
  <2>1. TextOK(i)'
    BY <1>1, <1>2, <1>3, <1>4 DEF TextOK
  <2>2. \A j \in Items \ {i} : TextOK(j)'
    BY <1>1, <1>2, <1>4 DEF TextOK, TextsOK
  <2>3. QED
    BY <1>2, <2>1, <2>2 DEF TextsOK
<1>9. RequestsOK'
  BY <1>1, <1>6 DEF RequestsOK, RequestOK, Busy, Threads
<1>10. CallOK'
  BY <1>1, <1>2 DEF CallOK, Ended
<1>11. QED
  BY <1>7, <1>8, <1>9, <1>10 DEF IInv

(* What holds of the service's variables.                                  *)
ServerOK ==
  /\ queue \in Seq(Requests)
  /\ serving \in [Threads -> Requests \cup {Nothing}]
  /\ browser \in [Threads -> {"none", "ready", "wedged", "dead"}]
  /\ faults \in 0..MaxBrowserFaults
  /\ RequestsOK

(* A thread's attempt ends without an image, while the service does any    *)
(* step.                                                                   *)
LEMMA TextMoves ==
  ASSUME IInv, NEW i \in Items, NEW s \in {"sleeping", "failed"},
         item[i] \in {"posting", "sleeping"}, s = "failed" => attempt[i] = MaxRetries,
         item' = [item EXCEPT ![i] = s],
         UNCHANGED <<batch, status, blank, attempt, image, results, pending>>, ServerOK'
  PROVE  IInv'
<1>1. TypeOK /\ TextsOK /\ CallOK /\ TextOK(i)
  BY DEF IInv, TextsOK
<1>2. /\ Items' = Items /\ Cardinality(Items)' = Cardinality(Items)
      /\ item'[i] = s /\ \A j \in Items \ {i} : item'[j] = item[j]
  BY <1>1, SameTexts
<1>3. TypeOK'
  BY <1>1, <1>2 DEF TypeOK, ServerOK
<1>4. TextsOK'
  <2>1. TextOK(i)'
    BY <1>1, <1>2 DEF TextOK
  <2>2. \A j \in Items \ {i} : TextOK(j)'
    BY <1>1, <1>2 DEF TextOK, TextsOK
  <2>3. QED
    BY <1>2, <2>1, <2>2 DEF TextsOK
<1>5. CallOK'
  BY <1>1, <1>2 DEF CallOK, Ended
<1>6. QED
  BY <1>3, <1>4, <1>5 DEF IInv, ServerOK

LEMMA SameServer ==
  ASSUME IInv, UNCHANGED <<batch, blank, server>>
  PROVE  ServerOK'
<1>1. RequestsOK'
  BY SameRequests DEF IInv, server
<1>2. QED
  BY <1>1 DEF IInv, TypeOK, ServerOK, server, Threads

LEMMA AttemptFailsPreserves ==
  ASSUME IInv, NEW i \in Items, AttemptFails(i)
  PROVE  IInv'
BY SameServer, TextMoves DEF AttemptFails

LEMMA GiveUpPreserves ==
  ASSUME IInv, NEW i \in Items, GiveUp(i)
  PROVE  IInv'
BY SameServer, TextMoves DEF GiveUp

LEMMA TakePreserves ==
  ASSUME IInv, NEW i \in Items, Take(i)
  PROVE  IInv'
<1>1. attempt[i] < MaxRetries
  BY RenderingAssumption DEF IInv, TextsOK, TextOK, Take
<1>2. QED
  BY <1>1, PostPreserves DEF Take

LEMMA RetryPreserves ==
  ASSUME IInv, NEW i \in Items, Retry(i)
  PROVE  IInv'
BY PostPreserves DEF Retry

LEMMA CollectPreserves ==
  ASSUME IInv, NEW i \in Items, Collect(i)
  PROVE  IInv'
<1> USE DEF Collect
<1>1. TypeOK /\ TextsOK /\ CallOK /\ TextOK(i)
  BY DEF IInv, TextsOK
<1>2. Items' = Items /\ ServerOK'
  BY SameServer DEF Items
<1>3. /\ results' \in [Items -> (1..MaxBatches) \X Items \cup {NoImage}]
      /\ results'[i] = image[i] /\ \A j \in Items \ {i} : results'[j] = results[j]
  BY <1>1 DEF TypeOK, Stored
<1>4. TypeOK'
  BY <1>1, <1>2, <1>3 DEF TypeOK, ServerOK
<1>5. TextsOK'
  <2>1. TextOK(i)'
    BY <1>1, <1>3 DEF TextOK
  <2>2. \A j \in Items \ {i} : TextOK(j)'
    BY <1>1, <1>3 DEF TextOK, TextsOK
  <2>3. QED
    BY <1>2, <2>1, <2>2 DEF TextsOK
<1>6. CallOK'
  BY <1>1, <1>2 DEF CallOK
<1>7. QED
  BY <1>2, <1>4, <1>5, <1>6 DEF IInv, ServerOK

(* The steps of the main thread that change the status alone.              *)
LEMMA StatusPreserves ==
  ASSUME IInv, NEW s \in {"raising", "returned", "raised"}, status' = s,
         s \in {"raising", "raised"} => \E i \in Items : item[i] = "failed",
         s = "raised" => \A i \in Items : item[i] \in Ended,
         s = "returned" => pending = {},
         status # "idle", batch # 0,
         UNCHANGED <<batch, blank, item, attempt, image, results, pending, server>>
  PROVE  IInv'
<1>1. TypeOK /\ TextsOK /\ CallOK
  BY DEF IInv
<1>2. Items' = Items /\ ServerOK'
  BY SameServer DEF Items
<1>3. TypeOK'
  BY <1>1, <1>2 DEF TypeOK, ServerOK
<1>4. TextsOK' /\ CallOK'
  BY <1>1, <1>2 DEF TextsOK, TextOK, CallOK, Ended
<1>5. QED
  BY <1>2, <1>3, <1>4 DEF IInv, ServerOK

LEMMA CollectFailurePreserves ==
  ASSUME IInv, NEW i \in Items, CollectFailure(i)
  PROVE  IInv'
BY StatusPreserves DEF CollectFailure, IInv, CallOK

LEMMA ReturnPreserves ==
  ASSUME IInv, Return
  PROVE  IInv'
BY StatusPreserves DEF Return, IInv, CallOK

LEMMA RaisePreserves ==
  ASSUME IInv, Raise
  PROVE  IInv'
BY StatusPreserves DEF Raise, IInv, CallOK, Ended

(* A free thread of the service takes the request that waited longest.     *)
LEMMA BeginPreserves ==
  ASSUME IInv, NEW t \in Threads, Begin(t)
  PROVE  IInv'
<1> USE DEF Begin, client
<1>1. TypeOK /\ TextsOK /\ RequestsOK /\ CallOK
  BY DEF IInv
<1>2. queue \in Seq(Requests) /\ serving \in [Threads -> Requests \cup {Nothing}]
  BY <1>1 DEF TypeOK
<1>3. /\ Len(queue) \in Nat \ {0} /\ Head(queue) = queue[1] /\ Head(queue) \in Requests
      /\ Tail(queue) \in Seq(Requests) /\ Len(Tail(queue)) = Len(queue) - 1
      /\ \A k \in 1..Len(Tail(queue)) : Tail(queue)[k] = queue[k + 1]
  BY <1>2, HeadTailProperties, EmptySeq, LenProperties, ElementOfSeq
<1>4. /\ serving'[t] = queue[1] /\ \A u \in Threads \ {t} : serving'[u] = serving[u]
      /\ serving' \in [Threads -> Requests \cup {Nothing}]
  BY <1>2, <1>3
<1>5. RequestsOK'
  <2>1. \A k \in 1..Len(queue) : RequestOK(queue[k])
    BY <1>1 DEF RequestsOK
  <2>2. \A k \in 1..Len(queue') : RequestOK(queue'[k])
    BY <1>3, <2>1
  <2>3. \A u \in Threads : Busy(u)' => RequestOK(serving'[u])
    BY <1>1, <1>3, <1>4, <2>1 DEF RequestsOK, Busy
  <2>4. QED
    BY <2>2, <2>3 DEF RequestsOK, RequestOK, Threads
<1>6. TypeOK'
  BY <1>1, <1>3, <1>4 DEF TypeOK, Items, Threads
<1>7. TextsOK' /\ CallOK'
  BY <1>1 DEF TextsOK, TextOK, CallOK, Items
<1>8. QED
  BY <1>5, <1>6, <1>7 DEF IInv

(* Browsers come and go without the client.                                *)
LEMMA BrowserPreserves ==
  ASSUME IInv, UNCHANGED <<client, queue, serving>>,
         browser' \in [Threads -> {"none", "ready", "wedged", "dead"}],
         faults' \in 0..MaxBrowserFaults
  PROVE  IInv'
<1> USE DEF client
<1>1. RequestsOK'
  BY SameRequests DEF IInv
<1>2. QED
  BY <1>1 DEF IInv, TypeOK, TextsOK, TextOK, CallOK, Items, Threads

LEMMA FaultCounted ==
  ASSUME TypeOK, faults < MaxBrowserFaults, faults' = faults + 1
  PROVE  faults' \in 0..MaxBrowserFaults
BY RenderingAssumption DEF TypeOK

LEMMA LaunchPreserves ==
  ASSUME IInv, NEW t \in Threads, Launch(t)
  PROVE  IInv'
<1>1. browser' \in [Threads -> {"none", "ready", "wedged", "dead"}]
  BY DEF IInv, TypeOK, Launch
<1>2. faults' \in 0..MaxBrowserFaults
  BY DEF IInv, TypeOK, Launch
<1>3. QED
  BY <1>1, <1>2, BrowserPreserves DEF Launch

LEMMA BrowserDiesPreserves ==
  ASSUME IInv, NEW t \in Threads, BrowserDies(t)
  PROVE  IInv'
<1>1. browser' \in [Threads -> {"none", "ready", "wedged", "dead"}]
  BY DEF IInv, TypeOK, BrowserDies
<1>2. faults' \in 0..MaxBrowserFaults
  BY FaultCounted DEF IInv, BrowserDies
<1>3. QED
  BY <1>1, <1>2, BrowserPreserves DEF BrowserDies

(* A thread of the service is free again.                                  *)
LEMMA ReleasePreserves ==
  ASSUME IInv, NEW t \in Threads, Release(t), UNCHANGED <<batch, blank, queue>>,
         browser' \in [Threads -> {"none", "ready", "wedged", "dead"}],
         faults' \in 0..MaxBrowserFaults
  PROVE  ServerOK'
<1>1. serving \in [Threads -> Requests \cup {Nothing}]
  BY DEF IInv, TypeOK
<1>2. /\ serving'[t] = Nothing /\ \A u \in Threads \ {t} : serving'[u] = serving[u]
      /\ serving' \in [Threads -> Requests \cup {Nothing}]
  BY <1>1 DEF Release
<1>3. RequestsOK'
  BY <1>2 DEF IInv, RequestsOK, RequestOK, Busy, Threads, Nothing
<1>4. QED
  BY <1>2, <1>3 DEF IInv, TypeOK, ServerOK, Threads

LEMMA AnswerErrorPreserves ==
  ASSUME IInv, NEW t \in Threads, AnswerError(t),
         browser' \in [Threads -> {"none", "ready", "wedged", "dead"}],
         faults' \in 0..MaxBrowserFaults
  PROVE  IInv'
<1>1. ServerOK'
  BY ReleasePreserves DEF AnswerError
<1>2. CASE Awaited(serving[t])
  <2>1. serving[t].item \in Items /\ item[serving[t].item] = "posting"
    BY <1>2 DEF Awaited
  <2>2. QED
    BY <1>1, <1>2, <2>1, TextMoves DEF AnswerError
<1>3. CASE ~Awaited(serving[t])
  <2>1. UNCHANGED client
    BY <1>3 DEF AnswerError, client
  <2>2. QED
    BY <1>1, <2>1 DEF IInv, TypeOK, TextsOK, TextOK, CallOK, ServerOK, Items, client
<1>4. QED
  BY <1>2, <1>3

LEMMA LaunchFailsPreserves ==
  ASSUME IInv, NEW t \in Threads, LaunchFails(t)
  PROVE  IInv'
<1>1. browser' \in [Threads -> {"none", "ready", "wedged", "dead"}]
  BY DEF IInv, TypeOK, LaunchFails
<1>2. faults' \in 0..MaxBrowserFaults
  BY FaultCounted DEF IInv, LaunchFails
<1>3. QED
  BY <1>1, <1>2, AnswerErrorPreserves DEF LaunchFails

LEMMA RenderErrorPreserves ==
  ASSUME IInv, NEW t \in Threads, RenderError(t)
  PROVE  IInv'
<1>1. /\ browser' \in [Threads -> {"none", "ready", "wedged", "dead"}]
      /\ faults' \in 0..MaxBrowserFaults
  BY DEF IInv, TypeOK, RenderError
<1>2. QED
  BY <1>1, AnswerErrorPreserves DEF RenderError

LEMMA NoBrowserErrorPreserves ==
  ASSUME IInv, NEW t \in Threads, NoBrowserError(t)
  PROVE  IInv'
<1>1. /\ browser' \in [Threads -> {"none", "ready", "wedged", "dead"}]
      /\ faults' \in 0..MaxBrowserFaults
  BY DEF IInv, TypeOK, NoBrowserError
<1>2. QED
  BY <1>1, AnswerErrorPreserves DEF NoBrowserError

(* An image arrives in time, and is the image of its text.                 *)
LEMMA ImageArrives ==
  ASSUME IInv, NEW i \in Items, item[i] = "posting", i \notin blank,
         NEW img \in {<<batch, i>>, NoImage},
         item' = [item EXCEPT ![i] = "done"], image' = [image EXCEPT ![i] = img],
         UNCHANGED <<batch, status, blank, attempt, results, pending>>, ServerOK'
  PROVE  IInv'
<1>1. TypeOK /\ TextsOK /\ CallOK /\ TextOK(i)
  BY DEF IInv, TextsOK
<1>2. /\ Items' = Items /\ Cardinality(Items)' = Cardinality(Items)
      /\ item'[i] = "done" /\ \A j \in Items \ {i} : item'[j] = item[j]
  BY <1>1, SameTexts
<1>3. img \in (1..MaxBatches) \X Items \cup {NoImage}
  BY <1>1, RenderingAssumption DEF CallOK, TypeOK
<1>4. /\ image' \in [Items -> (1..MaxBatches) \X Items \cup {NoImage}]
      /\ image'[i] = img /\ \A j \in Items \ {i} : image'[j] = image[j]
  BY <1>1, <1>3 DEF TypeOK
<1>5. TypeOK'
  BY <1>1, <1>2, <1>4 DEF TypeOK, ServerOK
<1>6. TextsOK'
  <2>1. TextOK(i)'
    BY <1>1, <1>2, <1>4 DEF TextOK
  <2>2. \A j \in Items \ {i} : TextOK(j)'
    BY <1>1, <1>2, <1>4 DEF TextOK, TextsOK
  <2>3. QED
    BY <1>2, <2>1, <2>2 DEF TextsOK
<1>7. CallOK'
  BY <1>1, <1>2 DEF CallOK, Ended
<1>8. QED
  BY <1>5, <1>6, <1>7 DEF IInv, ServerOK

(* An answer that is still awaited answers the request of the text it is   *)
(* stored for, and the text is not blank.                                  *)
LEMMA RenderPreserves ==
  ASSUME IInv, NEW t \in Threads, Render(t)
  PROVE  IInv'
<1> USE DEF Render, AnswerImage
<1>1. TypeOK /\ RequestsOK
  BY DEF IInv
<1>2. /\ browser' \in [Threads -> {"none", "ready", "wedged", "dead"}]
      /\ faults' \in 0..MaxBrowserFaults
  BY <1>1 DEF TypeOK
<1>3. ServerOK'
  BY <1>2, ReleasePreserves
<1>4. CASE Awaited(serving[t])
  <2>1. PICK i \in Items : i = serving[t].item
    BY <1>4 DEF Awaited
  <2>2. serving[t].batch = batch /\ i \notin blank /\ item[i] = "posting"
    BY <1>1, <1>4, <2>1 DEF RequestsOK, RequestOK, Awaited
  <2>3. PICK img \in {<<batch, i>>, NoImage} : image' = [image EXCEPT ![i] = img]
    BY <1>4, <2>1, <2>2
  <2>4. item' = [item EXCEPT ![i] = "done"]
    BY <1>4, <2>1
  <2>5. QED
    BY <1>3, <2>2, <2>3, <2>4, ImageArrives
<1>5. CASE ~Awaited(serving[t])
  <2>1. UNCHANGED client
    BY <1>5 DEF client
  <2>2. QED
    BY <1>3, <2>1 DEF IInv, TypeOK, TextsOK, TextOK, CallOK, ServerOK, Items, client
<1>6. QED
  BY <1>4, <1>5

LEMMA NextIInv == IInv /\ [Next]_vars => IInv'
<1> SUFFICES ASSUME IInv, [Next]_vars PROVE IInv'
  OBVIOUS
<1>1. ASSUME NEW n \in 1..MaxItems, NEW b \in SUBSET (1..n), Call(n, b) PROVE IInv'
  BY <1>1, CallPreserves
<1>2. ASSUME NEW i \in Items, ClientStep(i) PROVE IInv'
  BY <1>2, TakePreserves, AttemptFailsPreserves, RetryPreserves, GiveUpPreserves,
     CollectPreserves, CollectFailurePreserves DEF ClientStep
<1>3. CASE Return
  BY <1>3, ReturnPreserves
<1>4. CASE Raise
  BY <1>4, RaisePreserves
<1>5. ASSUME NEW t \in Threads, Begin(t) \/ Answer(t) \/ BrowserDies(t) PROVE IInv'
  BY <1>5, BeginPreserves, LaunchPreserves, LaunchFailsPreserves, RenderPreserves,
     RenderErrorPreserves, NoBrowserErrorPreserves, BrowserDiesPreserves DEF Answer
<1>6. CASE UNCHANGED vars
  BY <1>6 DEF vars, client, server, IInv, TypeOK, TextsOK, TextOK, RequestsOK, RequestOK,
     CallOK, Busy, Items, Threads
<1>7. QED
  BY <1>1, <1>2, <1>3, <1>4, <1>5, <1>6 DEF Next

LEMMA IInvImplies == IInv => RenderingIsConsistent
<1> SUFFICES ASSUME IInv PROVE RenderingIsConsistent
  OBVIOUS
<1>1. TypeOK /\ TextsOK /\ CallOK
  BY DEF IInv
<1>2. ASSUME status = "returned" PROVE results = image
  <2>1. \A i \in Items : results[i] = image[i]
    BY <1>1, <1>2 DEF TextsOK, TextOK, CallOK
  <2>2. QED
    BY <1>1, <2>1 DEF TypeOK
<1>3. RaisedForAReason
  BY <1>1 DEF RaisedForAReason, CallOK, TextsOK, TextOK, TypeOK
<1>4. QED
  BY <1>1, <1>2, <1>3 DEF RenderingIsConsistent, ReturnsEveryImage

(* Between any two steps, the texts, their futures, the requests the       *)
(* service holds and the status of the call fit together.                  *)
THEOREM Invariance == Spec => []IInv
BY InitIInv, NextIInv, PTL DEF Spec

(* For any batches, threads, attempts and faults: a call that returns has  *)
(* handed out every image that arrived, one that raises has a text that    *)
(* used up its attempts, and one with a blank text never returns           *)
(* (batch_generate_images over retry_on_error).                            *)
THEOREM RenderingCorrect == Spec => []RenderingIsConsistent
BY Invariance, IInvImplies, PTL

(* The steps of the client and the service, as steps of BatchRendering.    *)

LEMMA CallRefines ==
  ASSUME IInv, NEW n \in 1..MaxItems, NEW b \in SUBSET (1..n), Call(n, b)
  PROVE  Rendering!Call
<1> USE DEF Call
<1>1. Items' = 1..n /\ Cardinality(Items)' = n
  BY FS_Interval DEF Items
<1>2. {i \in Items : item[i] \notin {"done", "failed"}}' = 1..n
  BY <1>1
<1>3. QED
  BY <1>1, <1>2 DEF Rendering!Call

(* A text's thread ends, with an image or without, while the call is busy. *)
LEMMA EndRefines ==
  ASSUME IInv, NEW i \in Items, item[i] \in {"posting", "sleeping"}, NEW s \in Ended,
         item' = [item EXCEPT ![i] = s], UNCHANGED <<batch, status, results>>
  PROVE  Rendering!Finish
<1>1. TypeOK /\ TextsOK /\ CallOK /\ TextOK(i)
  BY DEF IInv, TextsOK
<1>2. /\ Items' = Items /\ Cardinality(Items)' = Cardinality(Items)
      /\ item'[i] = s /\ \A j \in Items \ {i} : item'[j] = item[j]
  BY <1>1, SameTexts
<1>3. status \in {"running", "raising"}
  BY <1>1 DEF CallOK, TextOK, TypeOK, Ended
<1>4. {j \in Items : item[j] \notin {"done", "failed"}}'
        = {j \in Items : item[j] \notin {"done", "failed"}} \ {i}
  BY <1>2 DEF Ended
<1>5. QED
  BY <1>2, <1>3, <1>4 DEF Rendering!Finish

(* A text that is still worked on: nothing BatchRendering speaks of        *)
(* changes.                                                                *)
LEMMA WorkStutters ==
  ASSUME IInv, NEW i \in Items, item[i] \notin Ended, NEW s, s \notin Ended,
         item' = [item EXCEPT ![i] = s], UNCHANGED <<batch, status, results>>
  PROVE  UNCHANGED Rendering!vars
<1>1. TypeOK
  BY DEF IInv
<1>2. /\ Items' = Items /\ Cardinality(Items)' = Cardinality(Items)
      /\ item'[i] = s /\ \A j \in Items \ {i} : item'[j] = item[j]
  BY <1>1, SameTexts
<1>3. {j \in Items : item[j] \notin {"done", "failed"}}'
        = {j \in Items : item[j] \notin {"done", "failed"}}
  BY <1>2 DEF Ended
<1>4. QED
  BY <1>2, <1>3 DEF Rendering!vars

LEMMA ClientRefines ==
  ASSUME IInv, NEW i \in Items, ClientStep(i)
  PROVE  Rendering!Finish \/ UNCHANGED Rendering!vars
<1>1. CASE Take(i) \/ Retry(i)
  BY <1>1, WorkStutters DEF Take, Retry, Post, Ended
<1>2. CASE AttemptFails(i)
  BY <1>2, WorkStutters DEF AttemptFails, Ended
<1>3. CASE GiveUp(i)
  BY <1>3, EndRefines DEF GiveUp, Ended
<1>4. CASE Collect(i)
  BY <1>4 DEF Collect, Rendering!vars, Items
<1>5. CASE CollectFailure(i)
  BY <1>5 DEF CollectFailure, Rendering!vars, Items
<1>6. QED
  BY <1>1, <1>2, <1>3, <1>4, <1>5 DEF ClientStep

(* What the call returns shows, for each text, the text itself or nothing. *)
LEMMA ReturnRefines ==
  ASSUME IInv, Return
  PROVE  Rendering!Return
<1> USE DEF Return
<1>1. TypeOK /\ TextsOK /\ CallOK
  BY DEF IInv
<1>2. Items' = Items
  BY DEF Items
<1>3. {i \in Items : item[i] \notin {"done", "failed"}} = {}
  BY <1>1 DEF TextsOK, TextOK
<1> DEFINE shown == {i \in Items : results[i] # NoImage}
<1>4. results = [i \in Items |-> IF i \in shown THEN <<batch, i>> ELSE NoImage]
  BY <1>1 DEF TypeOK, TextsOK, TextOK
<1>5. Items = 1..Cardinality(Items) /\ shown \in SUBSET (1..Cardinality(Items))
  BY <1>1 DEF TypeOK
<1>6. results' = [i \in 1..Cardinality(Items) |-> IF i \in shown THEN <<batch, i>> ELSE NoImage]
  BY <1>4, <1>5
<1> HIDE DEF shown
<1>7. QED
  BY <1>2, <1>3, <1>5, <1>6 DEF Rendering!Return

LEMMA RaiseRefines ==
  ASSUME IInv, Raise
  PROVE  Rendering!Raise
<1> USE DEF Raise
<1>1. Items' = Items
  BY DEF Items
<1>2. {i \in Items : item[i] \notin {"done", "failed"}} = {}
  OBVIOUS
<1>3. QED
  BY <1>1, <1>2 DEF Rendering!Raise

LEMMA SameClient ==
  ASSUME UNCHANGED client
  PROVE  UNCHANGED Rendering!vars
BY DEF client, Rendering!vars, Items

LEMMA ServiceRefines ==
  ASSUME IInv, NEW t \in Threads, Begin(t) \/ Answer(t) \/ BrowserDies(t)
  PROVE  Rendering!Finish \/ UNCHANGED Rendering!vars
<1>1. CASE Begin(t) \/ Launch(t) \/ BrowserDies(t)
  BY <1>1, SameClient DEF Begin, Launch, BrowserDies
<1>2. ASSUME AnswerError(t) PROVE UNCHANGED Rendering!vars
  <2>1. CASE Awaited(serving[t])
    <3>1. serving[t].item \in Items /\ item[serving[t].item] = "posting"
      BY <2>1 DEF Awaited
    <3>2. PICK i \in Items : i = serving[t].item /\ item[i] = "posting"
      BY <3>1
    <3>3. item' = [item EXCEPT ![i] = "sleeping"] /\ UNCHANGED <<batch, status, results>>
      BY <1>2, <2>1, <3>2 DEF AnswerError
    <3>4. "sleeping" \notin Ended /\ item[i] \notin Ended
      BY <3>2 DEF Ended
    <3>5. QED
      BY <3>3, <3>4, WorkStutters
  <2>2. CASE ~Awaited(serving[t])
    BY <1>2, <2>2, SameClient DEF AnswerError, client
  <2>3. QED
    BY <2>1, <2>2
<1>3. CASE Render(t)
  <2>1. CASE Awaited(serving[t])
    <3>1. serving[t].item \in Items /\ item[serving[t].item] = "posting"
      BY <2>1 DEF Awaited
    <3>2. QED
      BY <1>3, <2>1, <3>1, EndRefines DEF Render, AnswerImage, Ended
  <2>2. CASE ~Awaited(serving[t])
    BY <1>3, <2>2, SameClient DEF Render, AnswerImage, client
  <2>3. QED
    BY <2>1, <2>2
<1>4. QED
  BY <1>1, <1>2, <1>3 DEF Answer, LaunchFails, RenderError, NoBrowserError

LEMMA InitRefines == Init => Rendering!Init
<1> SUFFICES ASSUME Init PROVE Rendering!Init
  OBVIOUS
<1>1. Items = {} /\ Cardinality(Items) = 0
  BY EmptySeq, LenProperties, FS_EmptySet DEF Init, Items
<1>2. QED
  BY <1>1 DEF Init, Rendering!Init

LEMMA StepRefines == IInv /\ [Next]_vars => [Rendering!Next]_(Rendering!vars)
<1> SUFFICES ASSUME IInv, [Next]_vars PROVE [Rendering!Next]_(Rendering!vars)
  OBVIOUS
<1>1. ASSUME NEW n \in 1..MaxItems, NEW b \in SUBSET (1..n), Call(n, b) PROVE Rendering!Call
  BY <1>1, CallRefines
<1>2. ASSUME NEW i \in Items, ClientStep(i)
      PROVE  Rendering!Finish \/ UNCHANGED Rendering!vars
  BY <1>2, ClientRefines
<1>3. CASE Return
  BY <1>3, ReturnRefines DEF Rendering!Next
<1>4. CASE Raise
  BY <1>4, RaiseRefines DEF Rendering!Next
<1>5. ASSUME NEW t \in Threads, Begin(t) \/ Answer(t) \/ BrowserDies(t)
      PROVE  Rendering!Finish \/ UNCHANGED Rendering!vars
  BY <1>5, ServiceRefines
<1>6. CASE UNCHANGED vars
  BY <1>6, SameClient DEF vars
<1>7. QED
  BY <1>1, <1>2, <1>3, <1>4, <1>5, <1>6 DEF Next, Rendering!Next

(* The client and the service together implement BatchRendering: whatever  *)
(* is retried, given up, answered late or answered during a later call,    *)
(* the caller sees a list with the image of each text or none at its own   *)
(* place, or an exception, and no thread of the call outlives it.          *)
THEOREM RenderingImplementsBatchRendering == Spec => ImplementsBatchRendering
BY InitRefines, Invariance, StepRefines, PTL DEF Spec, ImplementsBatchRendering, Rendering!Spec
----------------------------------------------------------------------------
(* The evaluation.                                                         *)
(*                                                                         *)
(* The answer that is an item's own, and its line.                         *)
Read(n)    == [k \in 1..n |-> k]
Own(i)     == <<[item |-> i, read |-> Read(chunks[i])]>>
OwnLine(i) == [id |-> i, answer |-> Own(i)]
OwnLines   == {OwnLine(i) : i \in TestItems}

Asked == [at      : {"semaphore", "chunk", "question", "returned"},
          memory  : {Read(n) : n \in Nat},
          attempt : Nat,
          answer  : {<<>>} \cup {Own(i) : i \in TestItems}]

(* The invariant: the types, where each coroutine is, what was gathered,   *)
(* which of it was written, and what the file has.                         *)
EvaluationTypes ==
  /\ script \in {"test_qa", "ruler_hqa"} /\ force \in BOOLEAN
  /\ chunks \in [TestItems -> Nat]
  /\ phase \in {"down", "asking", "writing"}
  /\ data \in Seq(TestItems) /\ IsInjective(data)
  /\ tasks \in [TestItems -> Asked]
  /\ buffer \in Seq(OwnLines)
  /\ out_file \in Seq(OwnLines \cup {Cut})
  /\ readouts \in Seq(SUBSET TestItems)
  /\ runs \in 0..MaxRuns

MostAttempts == IF ChunkRetries > RetryTimes THEN ChunkRetries ELSE RetryTimes

(* A coroutine that asks the question has read its whole context.          *)
TaskOK(i, t) ==
  /\ \E n \in 0..chunks[i] :
       /\ t.memory = Read(n)
       /\ t.at = "question" => n = chunks[i]
       /\ t.at = "chunk" => n # chunks[i]
  /\ t.attempt \in 1..(IF t.at = "question" THEN RetryTimes ELSE MostAttempts)
  /\ t.at = "chunk" => t.attempt <= ChunkRetries
  /\ t.answer \in {<<>>, Own(i)}

CoroutinesOK == \A i \in TestItems : TaskOK(i, tasks[i])

SemaphoreOK == Cardinality(InFlight) <= MaxWorkers

Resting == phase = "down" => tasks = [i \in TestItems |-> NotStarted]

GatheredOK == phase = "writing" => \A k \in DOMAIN data : outputs[k] \in {<<>>, Own(data[k])}

BufferOK ==
  /\ phase # "writing" => buffer = <<>>
  /\ phase = "writing" => /\ Len(buffer) <= Len(Lines)
                          /\ \A n \in 1..Len(buffer) : buffer[n] = Lines[n]

(* What ruler_hqa.py relies on while it runs: no line is cut, and what it  *)
(* asks for is not in the file; with --force the file is empty by the time *)
(* it is written.                                                          *)
FileOK ==
  /\ OneLinePerItem
  /\ script = "ruler_hqa" /\ phase # "down" =>
       /\ Cut \notin ToSet(out_file)
       /\ ~force => \A k \in DOMAIN data : data[k] \notin Cached
  /\ phase = "writing" /\ force => out_file = <<>>

EvaluationInv ==
  /\ EvaluationTypes
  /\ CoroutinesOK
  /\ SemaphoreOK
  /\ Resting
  /\ GatheredOK
  /\ BufferOK
  /\ FileOK
  /\ ReadoutsCoverLines
----------------------------------------------------------------------------
(* What is left out of a list is left out as rows of a batch are; the      *)
(* lemmas on that are those of RolloutDispatch_proofs.                     *)
Rows == INSTANCE RolloutDispatch_proofs WITH
          MaxBatch <- 1, MaxWorld <- 1, world_size <- 1, infer_size <- 1, prompts <- <<>>,
          padded <- <<>>, no_padding_mask <- <<>>, output <- <<>>, responses <- <<>>,
          status <- "idle"

(* The sizes of that module play no part in its lemmas on masks.           *)
LEMMA OneRow == Rows!DispatchAssumption
BY DEF Rows!DispatchAssumption

(* A function on 1..n is a sequence of length n.                           *)
LEMMA FunctionIsSequence ==
  ASSUME NEW S, NEW n \in Nat, NEW f \in [1..n -> S]
  PROVE  f \in Seq(S) /\ Len(f) = n
BY IsASeq

(* The elements and the length of a concatenation of two.                  *)
LEMMA ConcatElements ==
  ASSUME NEW S, NEW a \in Seq(S), NEW b \in Seq(S)
  PROVE  /\ a \o b \in Seq(S) /\ Len(a \o b) = Len(a) + Len(b)
         /\ \A i \in 1..Len(a) : (a \o b)[i] = a[i]
         /\ \A i \in 1..Len(b) : (a \o b)[Len(a) + i] = b[i]
<1>1. a \o b \in Seq(S) /\ Len(a \o b) = Len(a) + Len(b)
  BY OneRow, Rows!ConcatElements
<1>2. \A i \in 1..Len(a) : (a \o b)[i] = a[i]
  BY OneRow, Rows!ConcatElements
<1>3. \A i \in 1..Len(b) : (a \o b)[Len(a) + i] = b[i]
  BY OneRow, Rows!ConcatElements
<1>4. QED
  BY <1>1, <1>2, <1>3

(* Cardinality is the same operator there and here.                        *)
LEMMA SameCardinality == \A S : Rows!Cardinality(S) = Cardinality(S)
BY DEF Cardinality, Rows!Cardinality

(* SetPlaces is the same operator there and here.                          *)
LEMMA SameSetPlaces == \A mask : Rows!SetPlaces(mask) = SetPlaces(mask)
BY DEF SetPlaces, Rows!SetPlaces, Cardinality, Rows!Cardinality

(* The places a mask selects are all different.                            *)
LEMMA PlacesDiffer ==
  ASSUME NEW size \in Nat, NEW mask \in [1..size -> BOOLEAN]
  PROVE  \E n \in Nat :
           /\ SetPlaces(mask) \in [1..n -> 1..size]
           /\ \A i \in 1..n : mask[SetPlaces(mask)[i]]
           /\ \A i, j \in 1..n : SetPlaces(mask)[i] = SetPlaces(mask)[j] => i = j
<1> DEFINE n == Rows!Cardinality({k \in 1..size : mask[k]})
           place == Rows!SetPlaces(mask)
<1>1. /\ n \in Nat /\ place \in [1..n -> 1..size]
      /\ \A i \in 1..n : /\ mask[place[i]]
                         /\ Rows!Cardinality({j \in 1..place[i] : mask[j]}) = i
  BY OneRow, Rows!SetPlacesRank
<1>2. place = SetPlaces(mask)
  BY SameSetPlaces
<1> HIDE DEF place, n
<1>3. \A i, j \in 1..n : place[i] = place[j] => i = j
  BY <1>1
<1>4. QED
  BY <1>1, <1>2, <1>3

(* What is selected are different rows whose mask is set.                  *)
SelectedFrom(chosen, rows, mask) ==
  \E place \in [DOMAIN chosen -> DOMAIN rows] :
    /\ \A i \in DOMAIN chosen : mask[place[i]] /\ chosen[i] = rows[place[i]]
    /\ \A i, j \in DOMAIN chosen : place[i] = place[j] => i = j

(* SelectRows takes its rows from where the mask is set.                   *)
LEMMA SelectedRows ==
  ASSUME NEW S, NEW size \in Nat, NEW rows \in [1..size -> S], NEW mask \in [1..size -> BOOLEAN]
  PROVE  SelectRows(rows, mask) \in Seq(S) /\ SelectedFrom(SelectRows(rows, mask), rows, mask)
<1>1. PICK n \in Nat :
        /\ SetPlaces(mask) \in [1..n -> 1..size]
        /\ \A i \in 1..n : mask[SetPlaces(mask)[i]]
        /\ \A i, j \in 1..n : SetPlaces(mask)[i] = SetPlaces(mask)[j] => i = j
  BY PlacesDiffer
<1> DEFINE place == SetPlaces(mask)
           chosen == SelectRows(rows, mask)
<1>2. chosen = [i \in 1..n |-> rows[place[i]]]
  BY <1>1 DEF SelectRows, TakeRows
<1>3. place \in [1..n -> 1..size]
  BY <1>1
<1>4. \A i \in 1..n : mask[place[i]]
  BY <1>1
<1>5. \A i, j \in 1..n : place[i] = place[j] => i = j
  BY <1>1
<1> HIDE DEF place, chosen
<1>6. chosen \in [1..n -> S]
  BY <1>2, <1>3
<1>7. chosen \in Seq(S)
  BY <1>6, FunctionIsSequence
<1>8. DOMAIN chosen = 1..n /\ DOMAIN rows = 1..size /\ \A i \in 1..n : chosen[i] = rows[place[i]]
  BY <1>2
<1>9. SelectedFrom(chosen, rows, mask)
  BY <1>3, <1>4, <1>5, <1>8 DEF SelectedFrom
<1>10. QED
  BY <1>7, <1>9 DEF chosen
----------------------------------------------------------------------------
(* The bounds, one by one.                                                 *)
LEMMA EvaluationBounds ==
  /\ NumItems \in Nat /\ NumItems > 0 /\ MaxChunks \in Nat /\ MaxRuns \in Nat
  /\ MaxWorkers \in Nat /\ MaxWorkers > 0
  /\ ChunkRetries \in Nat /\ ChunkRetries >= 1 /\ RetryTimes \in Nat /\ RetryTimes >= 1
BY EvaluationAssumption

(* The items a process asks for.                                           *)
LEMMA DataIs ==
  /\ Data \in Seq(TestItems) /\ IsInjective(Data)
  /\ script = "ruler_hqa" /\ ~force => \A k \in DOMAIN Data : Data[k] \notin Cached
<1> DEFINE all == [i \in TestItems |-> i]
           mask == [i \in TestItems |-> i \notin Cached]
<1>1. all \in [1..NumItems -> TestItems] /\ mask \in [1..NumItems -> BOOLEAN] /\ NumItems \in Nat
  BY EvaluationBounds DEF TestItems
<1>2. CASE script = "ruler_hqa" /\ ~force
  <2>1. Data = SelectRows(all, mask)
    BY <1>2 DEF Data
  <2>2. \A i \in 1..NumItems : all[i] = i /\ (mask[i] => i \notin Cached)
    BY DEF TestItems
  <2> HIDE DEF all, mask
  <2>3. SelectRows(all, mask) \in Seq(TestItems) /\ SelectedFrom(SelectRows(all, mask), all, mask)
    BY <1>1, SelectedRows
  <2>4. Data \in Seq(TestItems) /\ SelectedFrom(Data, all, mask)
    BY <2>1, <2>3
  <2>5. PICK place \in [DOMAIN Data -> DOMAIN all] :
          /\ \A i \in DOMAIN Data : mask[place[i]] /\ Data[i] = all[place[i]]
          /\ \A i, j \in DOMAIN Data : place[i] = place[j] => i = j
    BY <2>4 DEF SelectedFrom
  <2>6. \A i \in DOMAIN Data : place[i] \in 1..NumItems
    BY <1>1, <2>5
  <2>7. \A i \in DOMAIN Data : Data[i] = place[i] /\ Data[i] \notin Cached
    BY <2>2, <2>5, <2>6
  <2>8. QED
    BY <2>4, <2>5, <2>7 DEF IsInjective
<1>3. CASE ~(script = "ruler_hqa" /\ ~force)
  <2>1. Data = all
    BY <1>3 DEF Data
  <2>2. all \in Seq(TestItems) /\ IsInjective(all)
    <3>1. all \in Seq(TestItems)
      <4> HIDE DEF all
      <4>1. QED
        BY <1>1, FunctionIsSequence
    <3>2. IsInjective(all)
      BY DEF IsInjective
    <3>3. QED
      BY <3>1, <3>2
  <2>3. QED
    BY <1>3, <2>1, <2>2
<1>4. QED
  BY <1>2, <1>3

(* The lines it writes: the own answers of different items it asked for.   *)
LinesOf(d, o) ==
  SelectRows([k \in DOMAIN d |-> [id |-> d[k], answer |-> o[k]]],
             [k \in DOMAIN d |-> o[k] # <<>>])

(* What gather returned decides the lines: the own answers of different    *)
(* items asked for.                                                        *)
LEMMA LinesAre ==
  ASSUME chunks \in [TestItems -> Nat], NEW d \in Seq(TestItems), IsInjective(d),
         NEW o, \A k \in DOMAIN d : o[k] \in {<<>>, Own(d[k])},
         NEW lines, lines = LinesOf(d, o)
  PROVE  /\ lines \in Seq(OwnLines)
         /\ \A n \in DOMAIN lines : \E k \in DOMAIN d : lines[n].id = d[k]
         /\ \A m, n \in DOMAIN lines : lines[m].id = lines[n].id => m = n
<1> DEFINE size == Len(d)
           rows == [k \in DOMAIN d |-> [id |-> d[k], answer |-> o[k]]]
           mask == [k \in DOMAIN d |-> o[k] # <<>>]
           Composed == {rows[k] : k \in 1..size}
<1>1. d \in Seq(TestItems) /\ IsInjective(d) /\ size \in Nat /\ DOMAIN d = 1..size
  BY LenProperties
<1>2. rows \in [1..size -> Composed] /\ mask \in [1..size -> BOOLEAN]
  BY <1>1
<1>3. lines = SelectRows(rows, mask)
  BY DEF LinesOf
<1>4. ASSUME NEW k \in 1..size, mask[k]
      PROVE  rows[k] = OwnLine(d[k]) /\ rows[k].id = d[k] /\ rows[k] \in OwnLines
  <2>1. o[k] = Own(d[k])
    BY <1>1, <1>4
  <2>2. rows[k] = OwnLine(d[k]) /\ rows[k].id = d[k]
    BY <1>1, <2>1 DEF OwnLine
  <2>3. d[k] \in TestItems
    BY <1>1, ElementOfSeq
  <2>4. QED
    BY <2>2, <2>3 DEF OwnLines
<1> HIDE DEF size, rows, mask, Composed
<1>5. SelectRows(rows, mask) \in Seq(Composed) /\ SelectedFrom(SelectRows(rows, mask), rows, mask)
  BY <1>1, <1>2, SelectedRows
<1> DEFINE n == Len(lines)
<1>6. lines \in Seq(Composed) /\ SelectedFrom(lines, rows, mask)
  BY <1>3, <1>5
<1>7. DOMAIN lines = 1..n /\ n \in Nat /\ DOMAIN rows = 1..size
  BY <1>2, <1>6, LenProperties
<1> HIDE DEF n
<1>8. PICK place \in [DOMAIN lines -> DOMAIN rows] :
        /\ \A i \in DOMAIN lines : mask[place[i]] /\ lines[i] = rows[place[i]]
        /\ \A i, j \in DOMAIN lines : place[i] = place[j] => i = j
  BY <1>6 DEF SelectedFrom
<1>9. ASSUME NEW i \in 1..n
      PROVE  place[i] \in 1..size /\ lines[i] \in OwnLines /\ lines[i].id = d[place[i]]
  <2>1. place[i] \in 1..size /\ mask[place[i]] /\ lines[i] = rows[place[i]]
    BY <1>7, <1>8
  <2>2. QED
    BY <1>4, <2>1
<1>10. lines \in Seq(OwnLines)
  <2>1. lines \in [1..n -> OwnLines]
    <3>1. lines \in [1..n -> Composed]
      BY <1>6, <1>7, LenProperties
    <3>2. QED
      BY <1>9, <3>1
  <2>2. QED
    BY <1>7, <2>1, FunctionIsSequence
<1>11. \A m \in DOMAIN lines : \E k \in DOMAIN d : lines[m].id = d[k]
  BY <1>1, <1>7, <1>9
<1>12. ASSUME NEW i \in 1..n, NEW j \in 1..n, lines[i].id = lines[j].id
       PROVE  i = j
  <2>1. d[place[i]] = d[place[j]] /\ place[i] \in DOMAIN d /\ place[j] \in DOMAIN d
    BY <1>1, <1>9, <1>12
  <2>2. place[i] = place[j]
    BY <1>1, <2>1 DEF IsInjective
  <2>3. QED
    BY <1>7, <1>8, <2>2
<1>13. QED
  BY <1>7, <1>10, <1>11, <1>12
----------------------------------------------------------------------------
(* What depends on the contexts alone stays as it is.                      *)
LEMMA SameAnswers ==
  ASSUME chunks' = chunks
  PROVE  /\ OwnLines' = OwnLines /\ Asked' = Asked
         /\ \A i : Own(i)' = Own(i)
         /\ \A i, t : TaskOK(i, t)' <=> TaskOK(i, t)
<1>1. \A i : Own(i)' = Own(i)
  BY DEF Own
<1>2. OwnLines' = OwnLines
  BY <1>1 DEF OwnLines, OwnLine
<1>3. Asked' = Asked
  BY <1>1 DEF Asked
<1>4. \A i, t : TaskOK(i, t)' <=> TaskOK(i, t)
  BY <1>1 DEF TaskOK
<1>5. QED
  BY <1>1, <1>2, <1>3, <1>4

(* What a memory of n chunks is followed by.                               *)
LEMMA ReadNext ==
  ASSUME NEW n \in Nat
  PROVE  Len(Read(n)) = n /\ Append(Read(n), n + 1) = Read(n + 1)
<1>1. Read(n) \in [1..n -> Nat] /\ Read(n + 1) \in [1..(n + 1) -> Nat]
  BY DEF Read
<1>2. Read(n) \in Seq(Nat) /\ Len(Read(n)) = n /\ Read(n + 1) \in Seq(Nat) /\ Len(Read(n + 1)) = n + 1
  BY <1>1, FunctionIsSequence
<1>3. Append(Read(n), n + 1) \in Seq(Nat) /\ Len(Append(Read(n), n + 1)) = n + 1
  BY <1>2
<1>4. ASSUME NEW k \in 1..(n + 1) PROVE Append(Read(n), n + 1)[k] = Read(n + 1)[k]
  BY <1>2, <1>3 DEF Read
<1>5. QED
  BY <1>2, <1>3, <1>4, SeqEqual

(* A coroutine before its first request.                                   *)
LEMMA NotStartedOK ==
  ASSUME EvaluationTypes, NEW i \in TestItems
  PROVE  NotStarted \in Asked /\ TaskOK(i, NotStarted)
<1>1. <<>> = Read(0) /\ 0 \in Nat /\ 1 \in Nat
  BY DEF Read
<1>2. NotStarted \in Asked
  BY <1>1 DEF NotStarted, Asked
<1>3. 0 \in 0..chunks[i] /\ 1 \in 1..MostAttempts
  BY EvaluationBounds DEF EvaluationTypes, MostAttempts
<1>4. QED
  BY <1>1, <1>2, <1>3 DEF NotStarted, TaskOK

(* The items in flight are items asked for.                                *)
LEMMA InFlightFinite ==
  ASSUME EvaluationTypes
  PROVE  /\ IsFiniteSet(InFlight) /\ Cardinality(InFlight) \in Nat
         /\ \A i \in InFlight : i \in ToSet(data) /\ i \in TestItems
         /\ \A i \in ToSet(data) : i \in TestItems
<1>1. \A i \in ToSet(data) : i \in TestItems
  BY LenProperties, ElementOfSeq DEF ToSet, EvaluationTypes
<1>2. IsFiniteSet(1..NumItems)
  BY FS_Interval, EvaluationBounds
<1>3. InFlight \in SUBSET (1..NumItems)
  BY <1>1 DEF InFlight, TestItems
<1>4. IsFiniteSet(InFlight)
  BY <1>2, <1>3, FS_Subset
<1>5. QED
  BY <1>1, <1>3, <1>4, FS_CardinalityType DEF InFlight

(* The ends of a process: the files are all that is left of it.            *)
LEMMA DownKeeps ==
  ASSUME EvaluationInv, Down, UNCHANGED fixed, runs' = runs,
         out_file' \in Seq(OwnLines \cup {Cut}), readouts' \in Seq(SUBSET TestItems),
         OneLinePerItem', ReadoutsCoverLines'
  PROVE  EvaluationInv'
<1>1. /\ EvaluationTypes /\ script' = script /\ force' = force /\ chunks' = chunks
      /\ phase' = "down" /\ data' = <<>> /\ outputs' = <<>> /\ buffer' = <<>>
      /\ tasks' = [i \in TestItems |-> NotStarted]
  BY DEF EvaluationInv, Down, fixed
<1>2. /\ OwnLines' = OwnLines /\ Asked' = Asked /\ \A i, t : TaskOK(i, t)' <=> TaskOK(i, t)
  BY <1>1, SameAnswers
<1>3. \A i \in TestItems : NotStarted \in Asked /\ TaskOK(i, NotStarted)
  BY <1>1, NotStartedOK
<1>4. <<>> \in Seq(TestItems) /\ <<>> \in Seq(OwnLines) /\ IsInjective(<<>>)
  BY EmptySeq DEF IsInjective
<1>5. tasks' \in [TestItems -> Asked]
  BY <1>1, <1>3
<1>6. EvaluationTypes'
  BY <1>1, <1>2, <1>4, <1>5 DEF EvaluationTypes
<1>7. CoroutinesOK'
  <2> SUFFICES ASSUME NEW i \in TestItems PROVE TaskOK(i, tasks[i])'
    BY DEF CoroutinesOK
  <2>1. tasks'[i] = NotStarted /\ TaskOK(i, NotStarted)
    BY <1>1, <1>3
  <2>2. PICK t : t = tasks'[i]
    OBVIOUS
  <2>3. TaskOK(i, t)
    BY <2>1, <2>2
  <2>4. QED
    BY <1>1, <2>2, <2>3, SameAnswers DEF TaskOK
<1>8. SemaphoreOK'
  <2>1. InFlight' = {}
    BY <1>1 DEF InFlight, ToSet
  <2>2. QED
    BY <2>1, FS_EmptySet, EvaluationBounds DEF SemaphoreOK
<1>9. Resting' /\ GatheredOK' /\ BufferOK' /\ FileOK'
  BY <1>1 DEF Resting, GatheredOK, BufferOK, FileOK
<1>10. QED
  BY <1>6, <1>7, <1>8, <1>9 DEF EvaluationInv

(* One coroutine moves on. It takes a place only when there is one.        *)
LEMMA TaskMoves ==
  ASSUME EvaluationInv, phase = "asking", NEW i \in TestItems, NEW t \in Asked, TaskOK(i, t),
         tasks' = [tasks EXCEPT ![i] = t],
         \/ tasks[i].at \in {"chunk", "question"}
         \/ t.at = "returned"
         \/ Occupied < MaxWorkers,
         UNCHANGED <<fixed, phase, data, outputs, buffer, out_file, readouts, runs>>
  PROVE  EvaluationInv'
<1>1. /\ EvaluationTypes /\ script' = script /\ force' = force /\ chunks' = chunks
      /\ UNCHANGED <<phase, data, outputs, buffer, out_file, readouts, runs>>
      /\ tasks \in [TestItems -> Asked]
  BY DEF EvaluationInv, EvaluationTypes, fixed
<1>2. /\ OwnLines' = OwnLines /\ Asked' = Asked
  BY <1>1, SameAnswers
<1>3. tasks' \in [TestItems -> Asked] /\ tasks'[i] = t /\ \A j \in TestItems \ {i} : tasks'[j] = tasks[j]
  BY <1>1
<1>4. EvaluationTypes'
  BY <1>1, <1>2, <1>3 DEF EvaluationTypes
<1>5. CoroutinesOK'
  <2> SUFFICES ASSUME NEW j \in TestItems PROVE TaskOK(j, tasks[j])'
    BY DEF CoroutinesOK
  <2>1. PICK u : u = tasks'[j]
    OBVIOUS
  <2>2. TaskOK(j, u)
    <3>1. CASE j = i
      BY <1>3, <2>1, <3>1
    <3>2. CASE j # i
      BY <1>3, <2>1, <3>2 DEF EvaluationInv, CoroutinesOK
    <3>3. QED
      BY <3>1, <3>2
  <2>3. QED
    BY <1>1, <2>1, <2>2, SameAnswers DEF TaskOK
<1>6. SemaphoreOK'
  <2>1. IsFiniteSet(InFlight) /\ Cardinality(InFlight) \in Nat /\ Cardinality(InFlight) <= MaxWorkers
    BY <1>1, InFlightFinite DEF EvaluationInv, SemaphoreOK
  <2> DEFINE more == InFlight'
  <2>2. more = {j \in ToSet(data) : tasks'[j].at \in {"chunk", "question"}}
    BY <1>1 DEF InFlight, ToSet
  <2>3. \A j \in ToSet(data) : j \in TestItems
    BY <1>1, InFlightFinite
  <2> HIDE DEF more
  <2>4. CASE tasks[i].at \in {"chunk", "question"} \/ t.at = "returned"
    <3>1. \A j \in more : j \in InFlight
      BY <1>3, <2>2, <2>3, <2>4 DEF InFlight
    <3>2. more \in SUBSET InFlight
      BY <3>1
    <3>3. Cardinality(more) <= Cardinality(InFlight) /\ IsFiniteSet(more)
      BY <2>1, <3>2, FS_Subset
    <3>4. Cardinality(more) \in Nat
      BY <3>3, FS_CardinalityType
    <3>5. QED
      BY <2>1, <3>3, <3>4, EvaluationBounds DEF SemaphoreOK, more
  <2>5. CASE Occupied < MaxWorkers
    <3>1. \A j \in more : j \in InFlight \cup {i}
      BY <1>3, <2>2, <2>3 DEF InFlight
    <3>2. more \in SUBSET (InFlight \cup {i})
      BY <3>1
    <3>3. IsFiniteSet(InFlight \cup {i}) /\ Cardinality(InFlight \cup {i}) <= Cardinality(InFlight) + 1
          /\ Cardinality(InFlight \cup {i}) \in Nat
      <4>1. IsFiniteSet(InFlight \cup {i})
        BY <2>1, FS_AddElement
      <4>2. Cardinality(InFlight \cup {i}) \in Nat
        BY <4>1, FS_CardinalityType
      <4>3. i \notin InFlight => Cardinality(InFlight \cup {i}) = Cardinality(InFlight) + 1
        BY <2>1, FS_AddElement
      <4>4. i \in InFlight => InFlight \cup {i} = InFlight
        OBVIOUS
      <4>5. QED
        BY <2>1, <4>1, <4>2, <4>3, <4>4
    <3>4. Cardinality(more) <= Cardinality(InFlight \cup {i}) /\ IsFiniteSet(more)
      BY <3>2, <3>3, FS_Subset
    <3>5. Cardinality(more) \in Nat
      BY <3>4, FS_CardinalityType
    <3>6. Cardinality(InFlight) + 1 <= MaxWorkers
      BY <2>1, <2>5, EvaluationBounds DEF Occupied
    <3>7. QED
      BY <2>1, <3>3, <3>4, <3>5, <3>6, EvaluationBounds DEF SemaphoreOK, more
  <2>6. QED
    BY <2>4, <2>5
<1>7. Resting' /\ GatheredOK' /\ BufferOK'
  BY <1>1 DEF EvaluationInv, Resting, GatheredOK, BufferOK
<1>8. FileOK' /\ ReadoutsCoverLines'
  BY <1>1 DEF EvaluationInv, FileOK, OneLinePerItem, WholeLines, Cached, ToSet, Cut, ReadoutsCoverLines
<1>9. QED
  BY <1>4, <1>5, <1>6, <1>7, <1>8 DEF EvaluationInv
----------------------------------------------------------------------------
(* Every action. A process that starts asks for what the file lacks.       *)
LEMMA StartKeeps ==
  ASSUME EvaluationInv, Start
  PROVE  EvaluationInv'
<1>1. /\ EvaluationTypes /\ script' = script /\ force' = force /\ chunks' = chunks
      /\ phase = "down" /\ phase' = "asking" /\ data' = Data /\ runs' = runs + 1 /\ runs < MaxRuns
      /\ UNCHANGED <<tasks, outputs, buffer, out_file, readouts>>
      /\ script = "ruler_hqa" => Cut \notin ToSet(out_file)
  BY DEF EvaluationInv, Start, fixed
<1>2. tasks = [i \in TestItems |-> NotStarted]
  BY <1>1 DEF EvaluationInv, Resting
<1>3. OwnLines' = OwnLines /\ Asked' = Asked
  BY <1>1, SameAnswers
<1>4. /\ data' \in Seq(TestItems) /\ IsInjective(data')
      /\ script = "ruler_hqa" /\ ~force => \A k \in DOMAIN data' : data'[k] \notin Cached
  BY <1>1, DataIs
<1>5. EvaluationTypes'
  BY <1>1, <1>3, <1>4, EvaluationBounds DEF EvaluationTypes
<1>6. CoroutinesOK'
  <2> SUFFICES ASSUME NEW i \in TestItems PROVE TaskOK(i, tasks[i])'
    BY DEF CoroutinesOK
  <2>1. PICK u : u = tasks[i]
    OBVIOUS
  <2>2. TaskOK(i, u)
    BY <2>1 DEF EvaluationInv, CoroutinesOK
  <2>3. QED
    BY <1>1, <2>1, <2>2, SameAnswers DEF TaskOK
<1>7. SemaphoreOK'
  <2>1. \A i \in ToSet(data') : i \in TestItems
    BY <1>4, LenProperties, ElementOfSeq DEF ToSet
  <2>2. InFlight' = {}
    BY <1>1, <1>2, <2>1 DEF InFlight, NotStarted, ToSet
  <2>3. QED
    BY <2>2, FS_EmptySet, EvaluationBounds DEF SemaphoreOK
<1>8. GatheredOK' /\ BufferOK' /\ Resting'
  BY <1>1 DEF EvaluationInv, GatheredOK, BufferOK, Resting
<1>9. FileOK' /\ ReadoutsCoverLines'
  <2>1. OneLinePerItem' /\ ReadoutsCoverLines'
    BY <1>1 DEF EvaluationInv, FileOK, OneLinePerItem, WholeLines, Cut, ReadoutsCoverLines, ToSet
  <2>2. Cached' = Cached
    BY <1>1 DEF Cached
  <2>3. QED
    BY <1>1, <1>4, <2>1, <2>2 DEF FileOK, ToSet, Cut
<1>10. QED
  BY <1>5, <1>6, <1>7, <1>8, <1>9 DEF EvaluationInv

(* The next request of a coroutine that has read m chunks.                 *)
LEMMA NextRequestKeeps ==
  ASSUME EvaluationInv, phase = "asking", NEW i \in TestItems, NEW m \in 0..chunks[i],
         NextRequest(i, Read(m)),
         tasks[i].at \in {"chunk", "question"} \/ Occupied < MaxWorkers,
         UNCHANGED <<fixed, out_file, readouts, runs>>
  PROVE  EvaluationInv'
<1>1. /\ tasks[i] \in Asked /\ TaskOK(i, tasks[i]) /\ m \in Nat /\ chunks[i] \in Nat
      /\ out_file \in Seq(OwnLines \cup {Cut}) /\ readouts \in Seq(SUBSET TestItems)
      /\ OneLinePerItem /\ ReadoutsCoverLines
  BY DEF EvaluationInv, EvaluationTypes, CoroutinesOK, FileOK
<1> DEFINE chunk == [tasks[i] EXCEPT !.at = "chunk", !.memory = Read(m), !.attempt = 1]
           question == [tasks[i] EXCEPT !.at = "question", !.memory = Read(m), !.attempt = 1]
<1>2. Len(Read(m)) = m
  BY <1>1, ReadNext
<1>3. 1 \in 1..MostAttempts /\ 1 \in 1..RetryTimes /\ 1 <= ChunkRetries
  BY EvaluationBounds DEF MostAttempts
<1>4. CASE m < chunks[i]
  <2>1. /\ tasks' = [tasks EXCEPT ![i] = chunk]
        /\ UNCHANGED <<phase, data, outputs, buffer>>
    BY <1>2, <1>4 DEF NextRequest
  <2>2. chunk \in Asked
    BY <1>1 DEF Asked
  <2>3. chunk.at = "chunk" /\ chunk.memory = Read(m) /\ chunk.attempt = 1 /\ chunk.answer = tasks[i].answer
    BY <1>1 DEF Asked
  <2>4. m # chunks[i]
    BY <1>1, <1>4
  <2> HIDE DEF chunk
  <2>5. TaskOK(i, chunk)
    BY <1>1, <1>3, <2>3, <2>4 DEF TaskOK
  <2>6. QED
    BY <2>1, <2>2, <2>5, TaskMoves
<1>5. CASE ~(m < chunks[i]) /\ ~Down
  <2>1. /\ tasks' = [tasks EXCEPT ![i] = question]
        /\ UNCHANGED <<phase, data, outputs, buffer>>
    BY <1>2, <1>5 DEF NextRequest
  <2>2. question \in Asked
    BY <1>1 DEF Asked
  <2>3. /\ question.at = "question" /\ question.memory = Read(m) /\ question.attempt = 1
        /\ question.answer = tasks[i].answer
    BY <1>1 DEF Asked
  <2>4. m = chunks[i]
    BY <1>1, <1>5
  <2> HIDE DEF question
  <2>5. TaskOK(i, question)
    BY <1>1, <1>3, <2>3, <2>4 DEF TaskOK
  <2>6. QED
    BY <2>1, <2>2, <2>5, TaskMoves
<1>6. CASE ~(m < chunks[i]) /\ Down
  <2>1. /\ UNCHANGED fixed /\ runs' = runs /\ out_file' \in Seq(OwnLines \cup {Cut})
        /\ readouts' \in Seq(SUBSET TestItems)
    BY <1>1
  <2>2. OneLinePerItem' /\ ReadoutsCoverLines'
    BY <1>1 DEF fixed, OneLinePerItem, WholeLines, Cut, ReadoutsCoverLines, ToSet
  <2>3. QED
    BY <1>6, <2>1, <2>2, DownKeeps
<1>7. QED
  BY <1>4, <1>5, <1>6

(* A coroutine takes a place, has its answer, or fails.                    *)
LEMMA CoroutineKeeps ==
  ASSUME EvaluationInv, NEW i \in TestItems, Coroutine(i)
  PROVE  EvaluationInv'
<1>1. /\ tasks[i] \in Asked /\ TaskOK(i, tasks[i]) /\ chunks[i] \in Nat
  BY DEF EvaluationInv, EvaluationTypes, CoroutinesOK
<1>2. CASE Acquire(i)
  <2>1. /\ phase = "asking" /\ NextRequest(i, <<>>) /\ Occupied < MaxWorkers
        /\ UNCHANGED <<fixed, out_file, readouts, runs>>
    BY <1>2 DEF Acquire
  <2>2. <<>> = Read(0) /\ 0 \in 0..chunks[i]
    BY <1>1 DEF Read
  <2>3. QED
    BY <2>1, <2>2, NextRequestKeeps
<1>3. CASE Answered(i)
  <2>1. phase = "asking" /\ UNCHANGED <<fixed, out_file, readouts, runs>>
    BY <1>3 DEF Answered
  <2>2. CASE tasks[i].at = "chunk" /\ NextRequest(i, Memory(i))
    <3>1. PICK n \in 0..chunks[i] : tasks[i].memory = Read(n) /\ n # chunks[i]
      BY <1>1, <2>2 DEF TaskOK
    <3>2. Memory(i) = Read(n + 1) /\ n + 1 \in 0..chunks[i]
      <4>1. n \in Nat /\ n + 1 \in 0..chunks[i]
        BY <1>1, <3>1
      <4>2. Len(Read(n)) = n /\ Append(Read(n), n + 1) = Read(n + 1)
        BY <4>1, ReadNext
      <4>3. QED
        BY <3>1, <4>1, <4>2 DEF Memory
    <3>3. QED
      BY <2>1, <2>2, <3>2, NextRequestKeeps
  <2>3. CASE ~(tasks[i].at = "chunk" /\ NextRequest(i, Memory(i)))
    <3> DEFINE own == <<[item |-> i, read |-> tasks[i].memory]>>
               t == [tasks[i] EXCEPT !.at = "returned", !.answer = own]
    <3>1. /\ tasks[i].at = "question"
          /\ tasks' = [tasks EXCEPT ![i] = t]
          /\ UNCHANGED <<phase, data, outputs, buffer>>
      BY <1>3, <2>3 DEF Answered
    <3>2. own = Own(i)
      BY <1>1, <3>1 DEF TaskOK, Own
    <3>3. t \in Asked /\ t.at = "returned" /\ t.memory = tasks[i].memory
          /\ t.attempt = tasks[i].attempt /\ t.answer = Own(i)
      BY <1>1, <3>2 DEF Asked
    <3> HIDE DEF t, own
    <3>4. TaskOK(i, t)
      <4>1. tasks[i].attempt \in 1..MostAttempts
        BY <1>1, EvaluationBounds DEF TaskOK, MostAttempts
      <4>2. \E n \in 0..chunks[i] : t.memory = Read(n)
        BY <1>1, <3>3 DEF TaskOK
      <4>3. QED
        BY <3>3, <4>1, <4>2 DEF TaskOK
    <3>5. QED
      BY <2>1, <3>1, <3>3, <3>4, TaskMoves
  <2>4. QED
    BY <2>2, <2>3
<1>4. CASE Failed(i)
  <2>1. /\ phase = "asking" /\ i \in InFlight
        /\ UNCHANGED <<fixed, phase, data, outputs, buffer, out_file, readouts, runs>>
    BY <1>4 DEF Failed
  <2>2. tasks[i].at \in {"chunk", "question"}
    BY <2>1 DEF InFlight
  <2> DEFINE again == [tasks[i] EXCEPT !.attempt = tasks[i].attempt + 1]
             up == [tasks[i] EXCEPT !.at = "returned"]
  <2>3. tasks' = [tasks EXCEPT ![i] = IF tasks[i].attempt < Attempts(i) THEN again ELSE up]
    BY <1>4 DEF Failed
  <2>4. CASE tasks[i].attempt < Attempts(i)
    <3>1. tasks' = [tasks EXCEPT ![i] = again]
      <4> HIDE DEF again, up
      <4>1. QED
        BY <2>4, <2>3
    <3>2. again \in Asked /\ again.at = tasks[i].at /\ again.memory = tasks[i].memory
          /\ again.attempt = tasks[i].attempt + 1 /\ again.answer = tasks[i].answer
      BY <1>1 DEF Asked
    <3> HIDE DEF again
    <3>3. TaskOK(i, again)
      <4>1. tasks[i].attempt \in Nat /\ tasks[i].attempt >= 1
        BY <1>1, EvaluationBounds DEF TaskOK, MostAttempts
      <4>2. Attempts(i) \in Nat /\ (tasks[i].at = "chunk" => Attempts(i) <= ChunkRetries)
            /\ (tasks[i].at = "question" => Attempts(i) <= RetryTimes)
        BY EvaluationBounds DEF Attempts
      <4>3. again.attempt \in 1..(IF again.at = "question" THEN RetryTimes ELSE MostAttempts)
            /\ (again.at = "chunk" => again.attempt <= ChunkRetries)
        BY <2>2, <2>4, <3>2, <4>1, <4>2, EvaluationBounds DEF MostAttempts
      <4>4. QED
        BY <1>1, <3>2, <4>3 DEF TaskOK
    <3>4. QED
      BY <2>1, <2>2, <3>1, <3>2, <3>3, TaskMoves
  <2>5. CASE ~(tasks[i].attempt < Attempts(i))
    <3>1. tasks' = [tasks EXCEPT ![i] = up]
      <4> HIDE DEF again, up
      <4>1. QED
        BY <2>5, <2>3
    <3>2. up \in Asked /\ up.at = "returned" /\ up.memory = tasks[i].memory
          /\ up.attempt = tasks[i].attempt /\ up.answer = tasks[i].answer
      BY <1>1 DEF Asked
    <3> HIDE DEF up
    <3>3. TaskOK(i, up)
      <4>1. up.attempt \in 1..MostAttempts
        BY <1>1, <3>2, EvaluationBounds DEF TaskOK, MostAttempts
      <4>2. \E n \in 0..chunks[i] : up.memory = Read(n)
        BY <1>1, <3>2 DEF TaskOK
      <4>3. QED
        BY <1>1, <3>2, <4>1, <4>2 DEF TaskOK
    <3>4. QED
      BY <2>1, <2>2, <3>1, <3>2, <3>3, TaskMoves
  <2>6. QED
    BY <2>4, <2>5
<1>5. QED
  BY <1>2, <1>3, <1>4 DEF Coroutine
----------------------------------------------------------------------------
(* The lines of a process that is writing.                                 *)
LEMMA LinesInDetail ==
  ASSUME EvaluationInv, phase = "writing"
  PROVE  /\ Lines \in Seq(OwnLines) /\ Len(Lines) \in Nat /\ DOMAIN Lines = 1..Len(Lines)
         /\ \A n \in DOMAIN Lines : \E k \in DOMAIN data : Lines[n].id = data[k]
         /\ \A m, n \in DOMAIN Lines : Lines[m].id = Lines[n].id => m = n
<1>1. /\ chunks \in [TestItems -> Nat] /\ data \in Seq(TestItems) /\ IsInjective(data)
      /\ \A k \in DOMAIN data : outputs[k] \in {<<>>, Own(data[k])}
  BY DEF EvaluationInv, EvaluationTypes, GatheredOK
<1>2. Lines = LinesOf(data, outputs)
  BY DEF Lines, LinesOf
<1>3. /\ Lines \in Seq(OwnLines)
      /\ \A n \in DOMAIN Lines : \E k \in DOMAIN data : Lines[n].id = data[k]
      /\ \A m, n \in DOMAIN Lines : Lines[m].id = Lines[n].id => m = n
  BY <1>1, <1>2, LinesAre
<1>4. QED
  BY <1>3, LenProperties

(* gather has the answers in the order of the items asked for.             *)
LEMMA GatherKeeps ==
  ASSUME EvaluationInv, Gather
  PROVE  EvaluationInv'
<1>1. /\ EvaluationTypes /\ script' = script /\ force' = force /\ chunks' = chunks
      /\ phase = "asking" /\ phase' = "writing" /\ outputs' = Gathered /\ out_file' = Opened
      /\ readouts' = IF force THEN <<>> ELSE readouts
      /\ UNCHANGED <<data, tasks, buffer, runs>>
  BY DEF EvaluationInv, Gather, fixed
<1>2. OwnLines' = OwnLines /\ Asked' = Asked
  BY <1>1, SameAnswers
<1>3. <<>> \in Seq(OwnLines \cup {Cut}) /\ <<>> \in Seq(SUBSET TestItems)
  BY EmptySeq
<1>4. EvaluationTypes'
  BY <1>1, <1>2, <1>3 DEF EvaluationTypes, Opened
<1>5. CoroutinesOK'
  <2> SUFFICES ASSUME NEW i \in TestItems PROVE TaskOK(i, tasks[i])'
    BY DEF CoroutinesOK
  <2>1. PICK u : u = tasks[i]
    OBVIOUS
  <2>2. TaskOK(i, u)
    BY <2>1 DEF EvaluationInv, CoroutinesOK
  <2>3. QED
    BY <1>1, <2>1, <2>2, SameAnswers DEF TaskOK
<1>6. SemaphoreOK' /\ Resting'
  BY <1>1 DEF EvaluationInv, SemaphoreOK, Resting, InFlight, ToSet
<1>7. \A k \in DOMAIN data : outputs'[k] \in {<<>>, Own(data[k])}
  <2> SUFFICES ASSUME NEW k \in DOMAIN data PROVE outputs'[k] \in {<<>>, Own(data[k])}
    OBVIOUS
  <2>1. data[k] \in TestItems
    BY <1>1, LenProperties, ElementOfSeq DEF EvaluationTypes
  <2>2. tasks[data[k]].answer \in {<<>>, Own(data[k])}
    BY <2>1 DEF EvaluationInv, CoroutinesOK, TaskOK
  <2>3. QED
    BY <1>1, <2>2 DEF Gathered
<1>8. GatheredOK'
  BY <1>1, <1>7 DEF GatheredOK, Own
<1>9. BufferOK'
  <2>1. buffer' = <<>> /\ Len(<<>>) = 0
    BY <1>1 DEF EvaluationInv, BufferOK
  <2>2. PICK o : o = outputs'
    OBVIOUS
  <2>3. Lines' = LinesOf(data, o)
    BY <1>1, <2>2 DEF Lines, LinesOf
  <2>4. LinesOf(data, o) \in Seq(OwnLines)
    <3> DEFINE lines == LinesOf(data, o)
    <3>1. /\ chunks \in [TestItems -> Nat] /\ data \in Seq(TestItems) /\ IsInjective(data)
          /\ \A k \in DOMAIN data : o[k] \in {<<>>, Own(data[k])}
      BY <1>1, <1>7, <2>2 DEF EvaluationTypes
    <3>2. lines = LinesOf(data, o)
      OBVIOUS
    <3> HIDE DEF lines
    <3>3. lines \in Seq(OwnLines)
      BY <3>1, <3>2, LinesAre
    <3>4. QED
      BY <3>2, <3>3
  <2>5. Len(Lines') \in Nat
    BY <2>3, <2>4, LenProperties
  <2>6. QED
    BY <1>1, <2>1, <2>5 DEF BufferOK
<1>10. FileOK'
  <2>1. CASE force
    <3>1. out_file' = <<>>
      BY <1>1, <2>1 DEF Opened
    <3>2. DOMAIN <<>> = {}
      OBVIOUS
    <3>3. QED
      BY <1>1, <2>1, <3>1, <3>2 DEF FileOK, OneLinePerItem, WholeLines, ToSet
  <2>2. CASE ~force
    <3>1. out_file' = out_file
      BY <1>1, <2>2 DEF Opened
    <3>2. QED
      BY <1>1, <2>2, <3>1 DEF EvaluationInv, FileOK, OneLinePerItem, WholeLines, ToSet, Cut, Cached
  <2>3. QED
    BY <2>1, <2>2
<1>11. ReadoutsCoverLines'
  <2>1. CASE force
    <3>1. readouts' = <<>> /\ DOMAIN <<>> = {}
      BY <1>1, <2>1
    <3>2. QED
      BY <3>1 DEF ReadoutsCoverLines
  <2>2. CASE ~force
    BY <1>1, <2>2 DEF EvaluationInv, ReadoutsCoverLines, Opened, ToSet, Cut
  <2>3. QED
    BY <2>1, <2>2
<1>12. QED
  BY <1>4, <1>5, <1>6, <1>8, <1>9, <1>10, <1>11 DEF EvaluationInv

(* One line more.                                                          *)
LEMMA WriteLineKeeps ==
  ASSUME EvaluationInv, WriteLine
  PROVE  EvaluationInv'
<1>1. /\ EvaluationTypes /\ script' = script /\ force' = force /\ chunks' = chunks
      /\ phase = "writing" /\ Len(buffer) < Len(Lines)
      /\ buffer' = Append(buffer, Lines[Len(buffer) + 1])
      /\ UNCHANGED <<phase, data, tasks, outputs, out_file, readouts, runs>>
  BY DEF EvaluationInv, WriteLine, fixed
<1>2. OwnLines' = OwnLines /\ Asked' = Asked /\ Lines' = Lines
  BY <1>1, SameAnswers DEF Lines
<1>3. buffer \in Seq(OwnLines) /\ Len(buffer) \in Nat
  BY <1>1, LenProperties DEF EvaluationTypes
<1> DEFINE l == Lines[Len(buffer) + 1]
<1>4. l \in OwnLines /\ Len(Lines) \in Nat
  <2>1. Lines \in Seq(OwnLines) /\ Len(Lines) \in Nat
    BY <1>1, LinesInDetail
  <2>2. Len(buffer) + 1 \in 1..Len(Lines)
    BY <1>1, <1>3, <2>1
  <2>3. QED
    BY <2>1, <2>2, ElementOfSeq
<1> HIDE DEF l
<1>5. /\ buffer' \in Seq(OwnLines) /\ Len(buffer') = Len(buffer) + 1
      /\ \A k \in 1..Len(buffer) : buffer'[k] = buffer[k]
      /\ buffer'[Len(buffer) + 1] = l
  BY <1>1, <1>3, <1>4, AppendProperties DEF l
<1>6. EvaluationTypes'
  BY <1>1, <1>2, <1>5 DEF EvaluationTypes
<1>7. CoroutinesOK'
  <2> SUFFICES ASSUME NEW i \in TestItems PROVE TaskOK(i, tasks[i])'
    BY DEF CoroutinesOK
  <2>1. PICK u : u = tasks[i]
    OBVIOUS
  <2>2. TaskOK(i, u)
    BY <2>1 DEF EvaluationInv, CoroutinesOK
  <2>3. QED
    BY <1>1, <2>1, <2>2, SameAnswers DEF TaskOK
<1>8. SemaphoreOK' /\ Resting' /\ GatheredOK'
  BY <1>1 DEF EvaluationInv, SemaphoreOK, Resting, InFlight, ToSet, GatheredOK, Own
<1>9. BufferOK'
  <2>1. \A n \in 1..Len(buffer) : buffer[n] = Lines[n]
    BY <1>1 DEF EvaluationInv, BufferOK
  <2>2. \A n \in 1..(Len(buffer) + 1) : buffer'[n] = Lines[n]
    BY <1>3, <1>5, <2>1 DEF l
  <2>3. QED
    BY <1>1, <1>2, <1>3, <1>4, <1>5, <2>2 DEF BufferOK
<1>10. FileOK' /\ ReadoutsCoverLines'
  BY <1>1 DEF EvaluationInv, FileOK, OneLinePerItem, WholeLines, Cached, ToSet, Cut, ReadoutsCoverLines
<1>11. QED
  BY <1>6, <1>7, <1>8, <1>9, <1>10 DEF EvaluationInv
----------------------------------------------------------------------------
(* What a process leaves in the file: lines of the buffer, or a line cut.  *)
Written(w) ==
  /\ w \in Seq(OwnLines \cup {Cut})
  /\ \A k \in DOMAIN w : w[k] = Cut \/ (k \in DOMAIN buffer /\ w[k] = buffer[k])

(* A flush: what was cut stays cut.                                        *)
LEMMA FlushedIs ==
  ASSUME NEW S, out_file \in Seq(S), NEW w \in Seq(S)
  PROVE  /\ Flushed(w) \in Seq(S)
         /\ Cut \in ToSet(out_file) => Cut \in ToSet(Flushed(w))
         /\ Cut \notin ToSet(out_file) => Flushed(w) = out_file \o w
         /\ \A k \in DOMAIN Flushed(w) : Flushed(w)[k] \in ToSet(out_file) \cup ToSet(w)
<1>1. Len(out_file) \in Nat /\ DOMAIN out_file = 1..Len(out_file)
  BY LenProperties
<1>2. ASSUME NEW v \in Seq(S), \A k \in DOMAIN v : v[k] \in ToSet(w)
      PROVE  /\ out_file \o v \in Seq(S)
             /\ Cut \in ToSet(out_file) => Cut \in ToSet(out_file \o v)
             /\ \A k \in DOMAIN (out_file \o v) : (out_file \o v)[k] \in ToSet(out_file) \cup ToSet(w)
  <2> DEFINE c == out_file \o v
  <2>1. /\ c \in Seq(S) /\ Len(c) = Len(out_file) + Len(v) /\ Len(v) \in Nat
        /\ DOMAIN c = 1..(Len(out_file) + Len(v)) /\ DOMAIN v = 1..Len(v)
        /\ \A k \in 1..Len(out_file) : c[k] = out_file[k]
        /\ \A k \in 1..Len(v) : c[Len(out_file) + k] = v[k]
    <3>1. c \in Seq(S) /\ Len(c) = Len(out_file) + Len(v)
      BY <1>2, ConcatElements
    <3>2. \A k \in 1..Len(out_file) : c[k] = out_file[k]
      BY <1>2, ConcatElements
    <3>3. \A k \in 1..Len(v) : c[Len(out_file) + k] = v[k]
      BY <1>2, ConcatElements
    <3>4. QED
      BY <1>2, <3>1, <3>2, <3>3, LenProperties
  <2> HIDE DEF c
  <2>2. Cut \in ToSet(out_file) => Cut \in ToSet(c)
    BY <1>1, <2>1 DEF ToSet
  <2>3. ASSUME NEW k \in DOMAIN c PROVE c[k] \in ToSet(out_file) \cup ToSet(w)
    <3>1. CASE k <= Len(out_file)
      BY <1>1, <2>1, <3>1 DEF ToSet
    <3>2. CASE ~(k <= Len(out_file))
      <4> DEFINE j == k - Len(out_file)
      <4>1. j \in 1..Len(v) /\ k = Len(out_file) + j
        BY <1>1, <2>1, <3>2
      <4> HIDE DEF j
      <4>2. c[k] = v[j] /\ v[j] \in ToSet(w)
        BY <1>2, <2>1, <4>1
      <4>3. QED
        BY <4>2
    <3>3. QED
      BY <3>1, <3>2
  <2>4. QED
    BY <2>1, <2>2, <2>3 DEF c
<1>3. CASE out_file # <<>> /\ Last(out_file) = Cut /\ w # <<>>
  <2>1. Cut \in ToSet(out_file)
    <3>1. Len(out_file) \in DOMAIN out_file
      BY <1>1, <1>3, EmptySeq
    <3>2. QED
      BY <1>3, <3>1 DEF Last, ToSet
  <2>2. Flushed(w) = out_file \o Tail(w)
    BY <1>3 DEF Flushed
  <2>3. Tail(w) \in Seq(S) /\ \A k \in DOMAIN Tail(w) : Tail(w)[k] \in ToSet(w)
    <3>1. /\ Tail(w) \in Seq(S) /\ Len(Tail(w)) = Len(w) - 1
          /\ \A k \in 1..(Len(w) - 1) : Tail(w)[k] = w[k + 1]
      BY <1>3
    <3>2. Len(w) \in Nat /\ DOMAIN w = 1..Len(w) /\ DOMAIN Tail(w) = 1..(Len(w) - 1)
      BY <3>1, LenProperties
    <3>3. QED
      BY <3>1, <3>2 DEF ToSet
  <2>4. QED
    BY <1>2, <2>1, <2>2, <2>3
<1>4. CASE ~(out_file # <<>> /\ Last(out_file) = Cut /\ w # <<>>)
  <2>1. Flushed(w) = out_file \o w
    BY <1>4 DEF Flushed
  <2>2. \A k \in DOMAIN w : w[k] \in ToSet(w)
    BY DEF ToSet
  <2>3. QED
    BY <1>2, <2>1, <2>2
<1>5. QED
  BY <1>3, <1>4

(* The lines of the buffer are of different items asked for.               *)
LEMMA BufferedLines ==
  ASSUME EvaluationInv
  PROVE  /\ \A k \in DOMAIN buffer : buffer[k] \in OwnLines
         /\ \A k \in DOMAIN buffer : phase = "writing" /\ \E j \in DOMAIN data : buffer[k].id = data[j]
         /\ \A m, n \in DOMAIN buffer : buffer[m].id = buffer[n].id => m = n
<1>1. buffer \in Seq(OwnLines) /\ Len(buffer) \in Nat /\ DOMAIN buffer = 1..Len(buffer)
  BY LenProperties DEF EvaluationInv, EvaluationTypes
<1>2. \A k \in DOMAIN buffer : buffer[k] \in OwnLines
  BY <1>1, ElementOfSeq
<1>3. CASE phase # "writing"
  BY <1>3 DEF EvaluationInv, BufferOK
<1>4. CASE phase = "writing"
  <2>1. /\ Len(Lines) \in Nat /\ DOMAIN Lines = 1..Len(Lines)
        /\ \A n \in DOMAIN Lines : \E k \in DOMAIN data : Lines[n].id = data[k]
        /\ \A m, n \in DOMAIN Lines : Lines[m].id = Lines[n].id => m = n
    BY <1>4, LinesInDetail
  <2>2. \A k \in DOMAIN buffer : k \in DOMAIN Lines /\ buffer[k] = Lines[k]
    BY <1>1, <1>4, <2>1 DEF EvaluationInv, BufferOK
  <2>3. QED
    BY <1>2, <1>4, <2>1, <2>2
<1>5. QED
  BY <1>3, <1>4

(* Lines of the buffer that reach the file keep what it had and are of     *)
(* items it had not, for a process of ruler_hqa.py.                        *)
LEMMA FlushKeeps ==
  ASSUME EvaluationInv, phase # "down", NEW w, Written(w), NEW file, file = Flushed(w)
  PROVE  /\ file \in Seq(OwnLines \cup {Cut})
         /\ Cut \notin ToSet(file) => Cut \notin ToSet(out_file) /\ file = out_file \o w
         /\ script = "ruler_hqa" =>
              \A m, n \in {k \in DOMAIN file : file[k] # Cut} : file[m].id = file[n].id => m = n
<1> DEFINE S == OwnLines \cup {Cut}
<1>1. out_file \in Seq(S) /\ w \in Seq(S)
  BY DEF EvaluationInv, EvaluationTypes, Written
<1> HIDE DEF S
<1>2. /\ file \in Seq(S)
      /\ Cut \in ToSet(out_file) => Cut \in ToSet(file)
      /\ Cut \notin ToSet(out_file) => file = out_file \o w
  BY <1>1, FlushedIs
<1>3. ASSUME script = "ruler_hqa",
             NEW m \in DOMAIN file, NEW n \in DOMAIN file, file[m] # Cut, file[n] # Cut,
             file[m].id = file[n].id
      PROVE  m = n
  <2>1. Cut \notin ToSet(out_file) /\ (~force => \A k \in DOMAIN data : data[k] \notin Cached)
    BY <1>3 DEF EvaluationInv, FileOK
  <2>2. file = out_file \o w
    BY <1>2, <2>1
  <2>3. /\ Len(out_file) \in Nat /\ DOMAIN out_file = 1..Len(out_file)
        /\ Len(w) \in Nat /\ DOMAIN w = 1..Len(w)
        /\ DOMAIN file = 1..(Len(out_file) + Len(w))
        /\ \A k \in 1..Len(out_file) : file[k] = out_file[k]
        /\ \A k \in 1..Len(w) : file[Len(out_file) + k] = w[k]
    <3>1. Len(out_file \o w) = Len(out_file) + Len(w)
      BY <1>1, ConcatElements
    <3>2. \A k \in 1..Len(out_file) : (out_file \o w)[k] = out_file[k]
      BY <1>1, ConcatElements
    <3>3. \A k \in 1..Len(w) : (out_file \o w)[Len(out_file) + k] = w[k]
      BY <1>1, ConcatElements
    <3>4. QED
      BY <1>1, <1>2, <2>2, <3>1, <3>2, <3>3, LenProperties
  <2>4. \A p, q \in DOMAIN out_file :
          out_file[p] # Cut /\ out_file[q] # Cut /\ out_file[p].id = out_file[q].id => p = q
    BY <1>3 DEF EvaluationInv, FileOK, OneLinePerItem, WholeLines
  <2>5. \A k \in DOMAIN w : w[k] # Cut => k \in DOMAIN buffer /\ w[k] = buffer[k]
    BY DEF Written
  <2>6. \A p, q \in DOMAIN w : w[p] # Cut /\ w[q] # Cut /\ w[p].id = w[q].id => p = q
    BY <2>5, BufferedLines
  <2>7. ASSUME NEW p \in DOMAIN out_file, NEW q \in DOMAIN w, w[q] # Cut
        PROVE  out_file[p].id # w[q].id
    <3>1. q \in DOMAIN buffer /\ w[q] = buffer[q]
      BY <2>5, <2>7
    <3>2. phase = "writing" /\ \E j \in DOMAIN data : buffer[q].id = data[j]
      BY <3>1, BufferedLines
    <3>3. ~force
      BY <2>7, <3>2 DEF EvaluationInv, FileOK
    <3>4. w[q].id \notin Cached
      BY <2>1, <3>1, <3>2, <3>3
    <3>5. QED
      BY <3>4 DEF Cached
  <2>8. CASE m <= Len(out_file) /\ n <= Len(out_file)
    BY <1>3, <2>3, <2>4, <2>8
  <2>9. CASE ~(m <= Len(out_file)) /\ ~(n <= Len(out_file))
    <3> DEFINE p == m - Len(out_file)
               q == n - Len(out_file)
    <3>1. p \in DOMAIN w /\ q \in DOMAIN w /\ m = Len(out_file) + p /\ n = Len(out_file) + q
      BY <2>3, <2>9
    <3> HIDE DEF p, q
    <3>2. file[m] = w[p] /\ file[n] = w[q]
      BY <2>3, <3>1
    <3>3. p = q
      BY <1>3, <2>6, <3>1, <3>2
    <3>4. QED
      BY <3>1, <3>3
  <2>10. CASE m <= Len(out_file) /\ ~(n <= Len(out_file))
    <3> DEFINE q == n - Len(out_file)
    <3>1. m \in DOMAIN out_file /\ q \in DOMAIN w /\ n = Len(out_file) + q
      BY <2>3, <2>10
    <3> HIDE DEF q
    <3>2. file[m] = out_file[m] /\ file[n] = w[q]
      BY <2>3, <3>1
    <3>3. QED
      BY <1>3, <2>7, <3>1, <3>2
  <2>11. CASE ~(m <= Len(out_file)) /\ n <= Len(out_file)
    <3> DEFINE q == m - Len(out_file)
    <3>1. n \in DOMAIN out_file /\ q \in DOMAIN w /\ m = Len(out_file) + q
      BY <2>3, <2>11
    <3> HIDE DEF q
    <3>2. file[n] = out_file[n] /\ file[m] = w[q]
      BY <2>3, <3>1
    <3>3. QED
      BY <1>3, <2>7, <3>1, <3>2
  <2>12. QED
    BY <2>8, <2>9, <2>10, <2>11
<1>4. QED
  BY <1>2, <1>3 DEF S
----------------------------------------------------------------------------
(* A process that comes to its end has the averages of what it wrote.      *)
LEMMA FinishKeeps ==
  ASSUME EvaluationInv, Finish
  PROVE  EvaluationInv'
<1>1. /\ phase = "writing" /\ out_file' = Flushed(buffer)
      /\ readouts' = IF buffer = <<>> THEN readouts ELSE Append(readouts, Scored)
      /\ Down /\ UNCHANGED fixed /\ runs' = runs /\ script' = script
  BY DEF Finish, fixed
<1>2. PICK file : file = out_file'
  OBVIOUS
<1>3. buffer \in Seq(OwnLines) /\ Len(buffer) \in Nat /\ DOMAIN buffer = 1..Len(buffer)
  BY LenProperties DEF EvaluationInv, EvaluationTypes
<1>4. Written(buffer)
  <2>1. \A k \in DOMAIN buffer : buffer[k] \in OwnLines \cup {Cut}
    BY BufferedLines
  <2>2. buffer \in Seq(OwnLines \cup {Cut})
    BY <1>3, <2>1, SeqDef
  <2>3. QED
    BY <2>2 DEF Written
<1>5. phase # "down" /\ file = Flushed(buffer)
  BY <1>1, <1>2
<1>6. file \in Seq(OwnLines \cup {Cut})
  BY <1>4, <1>5, FlushKeeps
<1>7. Cut \notin ToSet(file) => Cut \notin ToSet(out_file) /\ file = out_file \o buffer
  BY <1>4, <1>5, FlushKeeps
<1>8. script = "ruler_hqa" =>
        \A m, n \in {k \in DOMAIN file : file[k] # Cut} : file[m].id = file[n].id => m = n
  BY <1>4, <1>5, FlushKeeps
<1>9. OneLinePerItem'
  BY <1>1, <1>2, <1>8 DEF OneLinePerItem, WholeLines, Cut
<1>10. ReadoutsCoverLines'
  <2> SUFFICES ASSUME Cut \notin ToSet(file), NEW r \in DOMAIN readouts'
               PROVE  readouts'[r] # {} /\ \A i \in readouts'[r] : \E m \in DOMAIN file : i = file[m].id
    BY <1>2 DEF ReadoutsCoverLines, ToSet, Cut
  <2>1. file = out_file \o buffer /\ Cut \notin ToSet(out_file)
    BY <1>7
  <2>2. /\ Len(out_file) \in Nat /\ DOMAIN out_file = 1..Len(out_file)
        /\ DOMAIN file = 1..(Len(out_file) + Len(buffer))
        /\ \A k \in 1..Len(out_file) : file[k] = out_file[k]
        /\ \A k \in 1..Len(buffer) : file[Len(out_file) + k] = buffer[k]
    <3> DEFINE S == OwnLines \cup {Cut}
    <3>1. out_file \in Seq(S) /\ buffer \in Seq(S)
      BY <1>4 DEF EvaluationInv, EvaluationTypes, Written
    <3>2. file \in Seq(S)
      BY <1>6
    <3> HIDE DEF S
    <3>3. Len(out_file \o buffer) = Len(out_file) + Len(buffer)
      BY <3>1, ConcatElements
    <3>4. \A k \in 1..Len(out_file) : (out_file \o buffer)[k] = out_file[k]
      BY <3>1, ConcatElements
    <3>5. \A k \in 1..Len(buffer) : (out_file \o buffer)[Len(out_file) + k] = buffer[k]
      BY <3>1, ConcatElements
    <3>6. QED
      BY <2>1, <3>1, <3>2, <3>3, <3>4, <3>5, LenProperties
  <2>3. \A n \in DOMAIN readouts :
          readouts[n] # {} /\ \A i \in readouts[n] : \E m \in DOMAIN out_file : i = out_file[m].id
    BY <2>1 DEF EvaluationInv, ReadoutsCoverLines
  <2>4. \A n \in DOMAIN readouts :
          readouts[n] # {} /\ \A i \in readouts[n] : \E m \in DOMAIN file : i = file[m].id
    <3> SUFFICES ASSUME NEW n \in DOMAIN readouts
                 PROVE  readouts[n] # {} /\ \A i \in readouts[n] : \E m \in DOMAIN file : i = file[m].id
      OBVIOUS
    <3>1. ASSUME NEW i \in readouts[n] PROVE \E m \in DOMAIN file : i = file[m].id
      <4>1. PICK m \in DOMAIN out_file : i = out_file[m].id
        BY <2>3
      <4>2. m \in DOMAIN file /\ file[m] = out_file[m]
        BY <1>3, <2>2
      <4>3. QED
        BY <4>1, <4>2
    <3>2. QED
      BY <2>3, <3>1
  <2>5. CASE buffer = <<>>
    BY <1>1, <2>4, <2>5
  <2>6. CASE buffer # <<>>
    <3>1. readouts' = Append(readouts, Scored)
      BY <1>1, <2>6
    <3>2. CASE r \in DOMAIN readouts /\ readouts'[r] = readouts[r]
      BY <2>4, <3>2
    <3>3. CASE readouts'[r] = Scored
      <4>1. 1 \in DOMAIN buffer
        BY <1>3, <2>6, EmptySeq
      <4>2. Scored # {}
        BY <4>1 DEF Scored
      <4>3. ASSUME NEW i \in Scored PROVE \E m \in DOMAIN file : i = file[m].id
        <5>1. PICK n \in DOMAIN buffer : i = buffer[n].id
          BY <4>3 DEF Scored
        <5>2. Len(out_file) + n \in DOMAIN file /\ file[Len(out_file) + n] = buffer[n]
          BY <1>3, <2>2
        <5>3. QED
          BY <5>1, <5>2
      <4>4. QED
        BY <3>3, <4>2, <4>3
    <3>4. readouts \in Seq(SUBSET TestItems) /\ Scored \in SUBSET TestItems
      <4>1. \A k \in DOMAIN buffer : buffer[k].id \in TestItems
        BY BufferedLines DEF OwnLines, OwnLine
      <4>2. Scored \in SUBSET TestItems
        BY <4>1 DEF Scored
      <4>3. QED
        BY <4>2 DEF EvaluationInv, EvaluationTypes
    <3>5. /\ DOMAIN readouts = 1..Len(readouts) /\ Len(readouts) \in Nat
          /\ DOMAIN readouts' = 1..(Len(readouts) + 1)
          /\ \A k \in 1..Len(readouts) : readouts'[k] = readouts[k]
          /\ readouts'[Len(readouts) + 1] = Scored
      <4>1. Append(readouts, Scored) \in Seq(SUBSET TestItems)
        BY <3>4, AppendProperties
      <4>2. QED
        BY <3>1, <3>4, <4>1, AppendProperties, LenProperties
    <3>6. QED
      BY <3>2, <3>3, <3>5
  <2>7. QED
    BY <2>5, <2>6
<1>11. out_file' \in Seq(OwnLines \cup {Cut})
  BY <1>2, <1>6
<1>12. readouts' \in Seq(SUBSET TestItems)
  <2>1. readouts \in Seq(SUBSET TestItems)
    BY DEF EvaluationInv, EvaluationTypes
  <2>2. \A k \in DOMAIN buffer : buffer[k].id \in TestItems
    BY BufferedLines DEF OwnLines, OwnLine
  <2>3. Scored \in SUBSET TestItems
    BY <2>2 DEF Scored
  <2>4. QED
    BY <1>1, <2>1, <2>3, AppendProperties
<1>13. QED
  BY <1>1, <1>9, <1>10, <1>11, <1>12, DownKeeps

(* A kill: the readout is written last.                                    *)
LEMMA KillKeeps ==
  ASSUME EvaluationInv, Kill
  PROVE  EvaluationInv'
<1>1. /\ phase # "down" /\ Down /\ UNCHANGED fixed /\ readouts' = readouts /\ runs' = runs /\ script' = script
  BY DEF Kill, fixed
<1>2. PICK n \in 0..Len(buffer), tail \in {<<Cut>>, <<>>} : out_file' = Flushed(SubSeq(buffer, 1, n) \o tail)
  BY DEF Kill
<1> DEFINE S == OwnLines \cup {Cut}
           front == SubSeq(buffer, 1, n)
           w == front \o tail
<1>3. buffer \in Seq(OwnLines) /\ Len(buffer) \in Nat /\ DOMAIN buffer = 1..Len(buffer) /\ n \in Nat
  BY LenProperties DEF EvaluationInv, EvaluationTypes
<1>4. /\ front \in Seq(OwnLines) /\ Len(front) = n
      /\ \A k \in 1..n : front[k] = buffer[k]
  <2>1. front = [k \in 1..n |-> buffer[k]]
    BY <1>3
  <2>2. \A k \in 1..n : buffer[k] \in OwnLines
    BY <1>3, ElementOfSeq
  <2>3. front \in [1..n -> OwnLines]
    BY <2>1, <2>2
  <2>4. QED
    BY <1>3, <2>1, <2>3, FunctionIsSequence
<1>5. Written(w)
  <2>1. front \in Seq(S) /\ tail \in Seq(S)
    <3>1. \A k \in 1..n : front[k] \in S
      BY <1>3, <1>4, ElementOfSeq
    <3>2. front \in Seq(S)
      BY <1>3, <1>4, <3>1, SeqDef, LenProperties
    <3>3. <<Cut>> \in Seq(S) /\ <<>> \in Seq(S)
      OBVIOUS
    <3>4. QED
      BY <3>2, <3>3
  <2>2. \A k \in DOMAIN tail : tail[k] = Cut
    OBVIOUS
  <2> HIDE DEF S, front
  <2>3. w \in Seq(S) /\ Len(w) = n + Len(tail) /\ Len(tail) \in Nat
    BY <1>4, <2>1, ConcatElements, LenProperties
  <2>4. \A k \in 1..n : w[k] = front[k]
    BY <1>4, <2>1, ConcatElements
  <2>5. \A k \in 1..Len(tail) : w[n + k] = tail[k]
    BY <1>4, <2>1, ConcatElements
  <2> HIDE DEF w
  <2>6. DOMAIN w = 1..(n + Len(tail)) /\ DOMAIN tail = 1..Len(tail)
    BY <2>1, <2>3, LenProperties
  <2>7. ASSUME NEW k \in DOMAIN w PROVE w[k] = Cut \/ (k \in DOMAIN buffer /\ w[k] = buffer[k])
    <3>1. CASE k <= n
      BY <1>3, <1>4, <2>4, <2>6, <3>1
    <3>2. CASE ~(k <= n)
      <4> DEFINE j == k - n
      <4>1. j \in 1..Len(tail) /\ k = n + j
        BY <1>3, <2>3, <2>6, <3>2
      <4> HIDE DEF j
      <4>2. QED
        BY <2>2, <2>5, <2>6, <4>1
    <3>3. QED
      BY <3>1, <3>2
  <2>8. QED
    BY <2>3, <2>7 DEF Written, S
<1>6. PICK file : file = out_file'
  OBVIOUS
<1>7. file = Flushed(w)
  BY <1>2, <1>6
<1> HIDE DEF w, front
<1>8. file \in Seq(OwnLines \cup {Cut})
  BY <1>1, <1>5, <1>7, FlushKeeps
<1>9. Cut \notin ToSet(file) => Cut \notin ToSet(out_file) /\ file = out_file \o w
  BY <1>1, <1>5, <1>7, FlushKeeps
<1>10. script = "ruler_hqa" =>
         \A m, p \in {k \in DOMAIN file : file[k] # Cut} : file[m].id = file[p].id => m = p
  BY <1>1, <1>5, <1>7, FlushKeeps
<1>11. OneLinePerItem'
  BY <1>1, <1>6, <1>10 DEF OneLinePerItem, WholeLines, Cut
<1>12. ReadoutsCoverLines'
  <2> SUFFICES ASSUME Cut \notin ToSet(file), NEW r \in DOMAIN readouts
               PROVE  readouts[r] # {} /\ \A i \in readouts[r] : \E m \in DOMAIN file : i = file[m].id
    BY <1>1, <1>6 DEF ReadoutsCoverLines, ToSet, Cut
  <2>1. file = out_file \o w /\ Cut \notin ToSet(out_file)
    BY <1>9
  <2>2. \A m \in DOMAIN out_file : m \in DOMAIN file /\ file[m] = out_file[m]
    <3>1. out_file \in Seq(S) /\ w \in Seq(S)
      BY <1>5 DEF EvaluationInv, EvaluationTypes, Written
    <3>2. file \in Seq(S)
      BY <1>8
    <3> HIDE DEF S
    <3>3. Len(out_file \o w) = Len(out_file) + Len(w)
      BY <3>1, ConcatElements
    <3>4. \A k \in 1..Len(out_file) : (out_file \o w)[k] = out_file[k]
      BY <3>1, ConcatElements
    <3>5. /\ Len(out_file) \in Nat /\ Len(w) \in Nat /\ DOMAIN out_file = 1..Len(out_file)
          /\ DOMAIN file = 1..Len(file)
      BY <3>1, <3>2, LenProperties
    <3>6. QED
      BY <2>1, <3>3, <3>4, <3>5
  <2>3. readouts[r] # {} /\ \A i \in readouts[r] : \E m \in DOMAIN out_file : i = out_file[m].id
    BY <2>1 DEF EvaluationInv, ReadoutsCoverLines
  <2>4. ASSUME NEW i \in readouts[r] PROVE \E m \in DOMAIN file : i = file[m].id
    <3>1. PICK m \in DOMAIN out_file : i = out_file[m].id
      BY <2>3
    <3>2. QED
      BY <2>2, <3>1
  <2>5. QED
    BY <2>3, <2>4
<1>13. out_file' \in Seq(OwnLines \cup {Cut})
  BY <1>6, <1>8
<1>14. readouts' \in Seq(SUBSET TestItems)
  BY <1>1 DEF EvaluationInv, EvaluationTypes
<1>15. QED
  BY <1>1, <1>11, <1>12, <1>13, <1>14, DownKeeps
----------------------------------------------------------------------------
(* At first nothing has been asked and nothing written.                    *)
LEMMA EvaluationInitially == EvaluationInit => EvaluationInv
<1> SUFFICES ASSUME EvaluationInit PROVE EvaluationInv
  OBVIOUS
<1>1. /\ script \in {"test_qa", "ruler_hqa"} /\ force \in BOOLEAN /\ chunks \in [TestItems -> Nat]
      /\ phase = "down" /\ data = <<>> /\ buffer = <<>> /\ out_file = <<>> /\ readouts = <<>> /\ runs = 0
      /\ tasks = [i \in TestItems |-> NotStarted]
  <2>1. \A n \in 0..MaxChunks : n \in Nat
    OBVIOUS
  <2>2. chunks \in [TestItems -> Nat]
    BY <2>1 DEF EvaluationInit
  <2>3. QED
    BY <2>2 DEF EvaluationInit
<1>2. <<>> = Read(0) /\ 0 \in Nat /\ 1 \in Nat
  BY DEF Read
<1>3. NotStarted \in Asked
  BY <1>2 DEF NotStarted, Asked
<1>4. /\ <<>> \in Seq(TestItems) /\ IsInjective(<<>>) /\ <<>> \in Seq(OwnLines)
      /\ <<>> \in Seq(OwnLines \cup {Cut}) /\ <<>> \in Seq(SUBSET TestItems) /\ DOMAIN <<>> = {}
  BY EmptySeq DEF IsInjective
<1>5. EvaluationTypes
  BY <1>1, <1>3, <1>4, EvaluationBounds DEF EvaluationTypes
<1>6. CoroutinesOK
  <2> SUFFICES ASSUME NEW i \in TestItems PROVE TaskOK(i, tasks[i])
    BY DEF CoroutinesOK
  <2>1. QED
    BY <1>1, <1>5, NotStartedOK
<1>7. SemaphoreOK
  <2>1. InFlight = {}
    BY <1>1, <1>4 DEF InFlight, ToSet
  <2>2. QED
    BY <2>1, FS_EmptySet, EvaluationBounds DEF SemaphoreOK
<1>8. Resting /\ GatheredOK /\ BufferOK
  BY <1>1 DEF Resting, GatheredOK, BufferOK
<1>9. FileOK /\ ReadoutsCoverLines
  BY <1>1, <1>4 DEF FileOK, OneLinePerItem, WholeLines, ReadoutsCoverLines
<1>10. QED
  BY <1>5, <1>6, <1>7, <1>8, <1>9 DEF EvaluationInv

(* Every step keeps the invariant.                                         *)
LEMMA EvaluationNextKeeps == EvaluationInv /\ [EvaluationNext]_evaluation => EvaluationInv'
<1> SUFFICES ASSUME EvaluationInv, [EvaluationNext]_evaluation PROVE EvaluationInv'
  OBVIOUS
<1>1. CASE Start
  BY <1>1, StartKeeps
<1>2. CASE Gather
  BY <1>2, GatherKeeps
<1>3. CASE WriteLine
  BY <1>3, WriteLineKeeps
<1>4. CASE Finish
  BY <1>4, FinishKeeps
<1>5. CASE Kill
  BY <1>5, KillKeeps
<1>6. ASSUME NEW i \in TestItems, Coroutine(i) PROVE EvaluationInv'
  BY <1>6, CoroutineKeeps
<1>7. CASE UNCHANGED evaluation
  <2>1. /\ UNCHANGED <<script, force, chunks, phase, data, tasks, outputs, buffer, out_file, readouts, runs>>
        /\ chunks' = chunks
    BY <1>7 DEF evaluation, fixed
  <2>2. OwnLines' = OwnLines /\ Asked' = Asked
    BY <2>1, SameAnswers
  <2>3. EvaluationTypes'
    BY <2>1, <2>2 DEF EvaluationInv, EvaluationTypes
  <2>4. CoroutinesOK'
    <3> SUFFICES ASSUME NEW i \in TestItems PROVE TaskOK(i, tasks[i])'
      BY DEF CoroutinesOK
    <3>1. PICK u : u = tasks[i]
      OBVIOUS
    <3>2. TaskOK(i, u)
      BY <3>1 DEF EvaluationInv, CoroutinesOK
    <3>3. QED
      BY <2>1, <3>1, <3>2, SameAnswers DEF TaskOK
  <2>5. SemaphoreOK' /\ Resting' /\ GatheredOK'
    BY <2>1 DEF EvaluationInv, SemaphoreOK, Resting, InFlight, ToSet, GatheredOK, Own
  <2>6. BufferOK'
    <3>1. Lines' = Lines
      BY <2>1 DEF Lines
    <3>2. QED
      BY <2>1, <3>1 DEF EvaluationInv, BufferOK
  <2>7. FileOK' /\ ReadoutsCoverLines'
    BY <2>1 DEF EvaluationInv, FileOK, OneLinePerItem, WholeLines, Cached, ToSet, Cut, ReadoutsCoverLines
  <2>8. QED
    BY <2>3, <2>4, <2>5, <2>6, <2>7 DEF EvaluationInv
<1>8. QED
  BY <1>1, <1>2, <1>3, <1>4, <1>5, <1>6, <1>7 DEF EvaluationNext

(* The invariant holds in every state: for any number of items, chunks,    *)
(* workers, attempts and processes (the evaluation of                      *)
(* taskutils/memory_eval as a whole).                                      *)
THEOREM EvaluationInvariance == EvaluationSpec => []EvaluationInv
<1>1. QED
  BY EvaluationInitially, EvaluationNextKeeps, PTL DEF EvaluationSpec

(* Every line of the file that can be parsed has the answer to the         *)
(* question of its own item, given from a memory of all the chunks of its  *)
(* context, each read once and in order: whatever requests were repeated,  *)
(* in whatever order the coroutines came back, and wherever a process was  *)
(* killed (gather, the retries of memocr_md.py, and zip in get_pred).      *)
THEOREM AnswersCorrect == EvaluationSpec => []AnswersAreOwn
<1>1. EvaluationInv => AnswersAreOwn
  <2> SUFFICES ASSUME EvaluationInv, NEW n \in DOMAIN out_file, out_file[n] # Cut
               PROVE  out_file[n].answer =
                        <<[item |-> out_file[n].id,
                           read |-> [k \in 1..chunks[out_file[n].id] |-> k]]>>
    BY DEF AnswersAreOwn
  <2>1. out_file[n] \in OwnLines \cup {Cut}
    <3>1. out_file \in Seq(OwnLines \cup {Cut})
      BY DEF EvaluationInv, EvaluationTypes
    <3>2. QED
      BY <3>1, LenProperties, ElementOfSeq
  <2>2. PICK i \in TestItems : out_file[n] = OwnLine(i)
    BY <2>1 DEF OwnLines
  <2>3. out_file[n].id = i /\ out_file[n].answer = Own(i)
    BY <2>2 DEF OwnLine
  <2>4. QED
    BY <2>3 DEF Own, Read
<1>2. QED
  BY <1>1, EvaluationInvariance, PTL

(* The semaphore is never overdrawn, and the files of several processes    *)
(* fit together: with the cache an item has one line at most, however many *)
(* processes were started and killed (has_data in ruler_hqa.py), and a     *)
(* line of the readout is the average over items, at least one, that the   *)
(* file has lines of.                                                      *)
THEOREM FilesCorrect == EvaluationSpec => []FilesAreConsistent
<1>1. EvaluationInv => FilesAreConsistent
  <2> SUFFICES ASSUME EvaluationInv PROVE FilesAreConsistent
    OBVIOUS
  <2>1. EvaluationTypes /\ runs \in 0..MaxRuns /\ phase \in {"down", "asking", "writing"} /\ IsInjective(data)
    BY DEF EvaluationInv, EvaluationTypes
  <2>2. ToSet(data) \subseteq TestItems
    BY <2>1, InFlightFinite
  <2>3. ASSUME NEW i \in TestItems
        PROVE  /\ tasks[i].at \in {"semaphore", "chunk", "question", "returned"}
               /\ Len(tasks[i].memory) <= chunks[i]
               /\ tasks[i].attempt \in 1..(IF tasks[i].at = "question" THEN RetryTimes
                                          ELSE IF ChunkRetries > RetryTimes THEN ChunkRetries
                                          ELSE RetryTimes)
    <3>1. tasks[i] \in Asked /\ TaskOK(i, tasks[i]) /\ chunks[i] \in Nat
      BY DEF EvaluationInv, EvaluationTypes, CoroutinesOK
    <3>2. PICK m \in 0..chunks[i] : tasks[i].memory = Read(m)
      BY <3>1 DEF TaskOK
    <3>3. m \in Nat /\ m <= chunks[i] /\ Len(Read(m)) = m
      BY <3>1, <3>2, ReadNext
    <3>4. tasks[i].at \in {"semaphore", "chunk", "question", "returned"}
      BY <3>1 DEF Asked
    <3>5. QED
      BY <3>1, <3>2, <3>3, <3>4 DEF TaskOK, MostAttempts
  <2>4. \A n \in DOMAIN buffer : buffer[n].id \in TestItems
    BY BufferedLines DEF OwnLines, OwnLine
  <2>5. ASSUME NEW n \in DOMAIN out_file PROVE out_file[n] = Cut \/ out_file[n].id \in TestItems
    <3>1. out_file[n] \in OwnLines \cup {Cut}
      BY <2>1, LenProperties, ElementOfSeq DEF EvaluationTypes
    <3>2. QED
      BY <3>1 DEF OwnLines, OwnLine
  <2>6. Cardinality(InFlight) <= MaxWorkers
    BY DEF EvaluationInv, SemaphoreOK
  <2>7. EvaluationTypeOK
    BY <2>1, <2>2, <2>3, <2>4, <2>5, <2>6 DEF EvaluationTypeOK
  <2>8. QED
    BY <2>7 DEF EvaluationInv, FileOK, FilesAreConsistent
<1>2. QED
  BY <1>1, EvaluationInvariance, PTL
=============================================================================
