-------------------- MODULE ExperimentLifecycle_proofs --------------------
(***************************************************************************)
(* Proofs about ExperimentLifecycle, for any sets of processes, numbers of *)
(* epochs and bounds: its types, the order of the registry's lines, what   *)
(* the exit codes say, and that a completed training has its checkpoints.  *)
(***************************************************************************)
EXTENDS ExperimentLifecycle, SequenceTheorems, TLAPS

Running   == <<"running">>
Succeeded == <<"running", "completed">>
Failed    == <<"running", "failed">>
Both      == <<"running", "completed", "failed">>

(* What the registry says of p at each place of the script. The except     *)
(* clause is reached with a run that is still open, with one whose closing *)
(* raised, or with none, when memory_train.py asked for the logger.        *)
RegistryAt(p) ==
  /\ pc[p] \in {"new", "starting"} => Statuses(p) = <<>>
  /\ pc[p] \in {"working", "saving", "writing", "ending"} => Statuses(p) = Running
  /\ pc[p] \in {"finishing", "ended"} => Statuses(p) = Succeeded
  /\ pc[p] = "ended" => ~active[p]
  /\ pc[p] = "handling" =>
       \/ Statuses(p) = Running
       \/ Statuses(p) = Succeeded /\ (active[p] => faults[p] > 0)
  /\ pc[p] = "failing" =>
       \/ Statuses(p) = Failed
       \/ Statuses(p) = Both /\ faults[p] > 0

SavesAreOfTrainings == \A p \in Processes : pc[p] \in {"saving", "writing"} => p \in Trainings

RegistryFollowsScript == \A p \in Processes : RegistryAt(p)

IInv == TypeOK /\ SavesAreOfTrainings /\ RegistryFollowsScript /\ RecordsInOrder

(* A function with the items of a sequence is that sequence.               *)
LEMMA SequenceByItems ==
  ASSUME NEW n \in Nat, NEW S, NEW g \in Seq(S), Len(g) = n,
         NEW f, f = [k \in 1..n |-> f[k]], \A k \in 1..n : f[k] = g[k]
  PROVE  f = g
<1>1. g \in [1..n -> S]
  BY LenProperties
<1>2. g = [k \in 1..n |-> g[k]]
  BY <1>1
<1>3. QED
  BY <1>2

(* The statuses of a list of lines with one line more.                     *)
LEMMA StatusesAppended ==
  ASSUME NEW S, NEW T, \A x \in S : x.status \in T, NEW s \in Seq(S), NEW e \in S
  PROVE  [k \in DOMAIN Append(s, e) |-> Append(s, e)[k].status]
           = Append([k \in DOMAIN s |-> s[k].status], e.status)
<1> DEFINE old == [k \in DOMAIN s |-> s[k].status]
           new == [k \in DOMAIN Append(s, e) |-> Append(s, e)[k].status]
           n == Len(s) + 1
<1>1. /\ Len(s) \in Nat /\ DOMAIN s = 1..Len(s)
      /\ DOMAIN Append(s, e) = 1..n
      /\ \A k \in 1..Len(s) : Append(s, e)[k] = s[k] /\ s[k] \in S
      /\ Append(s, e)[n] = e
  BY AppendProperties, LenProperties, ElementOfSeq
<1>2. old \in Seq(T) /\ Len(old) = Len(s) /\ \A k \in 1..Len(s) : old[k] = s[k].status
  <2>1. old \in [1..Len(s) -> T]
    BY <1>1
  <2>2. QED
    BY <1>1, <2>1
<1>3. /\ Append(old, e.status) \in Seq(T) /\ Len(Append(old, e.status)) = n
      /\ \A k \in 1..Len(s) : Append(old, e.status)[k] = s[k].status
      /\ Append(old, e.status)[n] = e.status
  <2> HIDE DEF old
  <2>1. e.status \in T
    OBVIOUS
  <2>2. QED
    BY <1>1, <1>2, <2>1, AppendProperties, LenProperties
<1>4. \A k \in 1..n : new[k] = Append(old, e.status)[k]
  <2>1. \A k \in 1..n : new[k] = Append(s, e)[k].status
    BY <1>1
  <2> HIDE DEF old, new
  <2>2. QED
    BY <1>1, <1>3, <2>1
<1>5. new = [k \in 1..n |-> new[k]]
  BY <1>1
<1>6. new = Append(old, e.status)
  <2>1. n \in Nat
    BY <1>1
  <2> HIDE DEF old, new, n
  <2>2. QED
    BY <1>3, <1>4, <1>5, <2>1, SequenceByItems
<1>7. QED
  BY <1>6

(* A line more in the registry is a status more.                           *)
LEMMA StatusAppended ==
  ASSUME TypeOK, NEW p \in Processes, NEW status \in {"running", "completed", "failed"},
         WriteRecord(p, status)
  PROVE  /\ registry' \in [Processes -> Seq(Lines)]
         /\ Statuses(p)' = Append(Statuses(p), status)
         /\ \A q \in Processes \ {p} : Statuses(q)' = Statuses(q)
<1>1. registry \in [Processes -> Seq(Lines)] /\ latest \in [Processes -> 0..TotalEpochs]
  BY DEF TypeOK
<1>2. Line(p, status) \in Lines /\ Line(p, status).status = status
  BY <1>1, LifecycleAssumption DEF Line, Lines
<1>3. registry' = [registry EXCEPT ![p] = Append(@, Line(p, status))]
  BY DEF WriteRecord
<1>4. registry'[p] = Append(registry[p], Line(p, status)) /\ registry[p] \in Seq(Lines)
  BY <1>1, <1>3
<1>5. Statuses(p)' = Append(Statuses(p), status)
  <2>1. \A x \in Lines : x.status \in {"running", "completed", "failed"}
    BY DEF Lines
  <2> DEFINE l == Line(p, status)
             r == registry[p]
  <2>2. l \in Lines /\ r \in Seq(Lines) /\ l.status = status
    BY <1>2, <1>4
  <2>3. Statuses(p) = [k \in DOMAIN r |-> r[k].status]
    BY DEF Statuses
  <2>4. Statuses(p)' = [k \in DOMAIN Append(r, l) |-> Append(r, l)[k].status]
    BY <1>4 DEF Statuses
  <2> HIDE DEF l, r
  <2>5. [k \in DOMAIN Append(r, l) |-> Append(r, l)[k].status]
          = Append([k \in DOMAIN r |-> r[k].status], l.status)
    BY <2>1, <2>2, StatusesAppended
  <2>6. QED
    BY <2>2, <2>3, <2>4, <2>5
<1>6. \A q \in Processes \ {p} : Statuses(q)' = Statuses(q)
  BY <1>1, <1>3 DEF Statuses
<1>7. QED
  BY <1>1, <1>2, <1>3, <1>4, <1>5, <1>6

(* Each step of a script, and the whole of a fault or a kill, moves one    *)
(* process: what is said of the others stays true.                         *)
LEMMA InitIInv == Init => IInv
<1> SUFFICES ASSUME Init PROVE IInv
  OBVIOUS
<1>1. TypeOK
  BY LifecycleAssumption, EmptySeq DEF Init, TypeOK, Times, Labels, Guarded, Bare
<1>2. \A p \in Processes : Statuses(p) = <<>> /\ pc[p] = "new"
  BY DEF Init, Statuses
<1>3. QED
  BY <1>1, <1>2 DEF IInv, SavesAreOfTrainings, RegistryFollowsScript, RegistryAt,
         RecordsInOrder

LEMMA OthersKeep ==
  ASSUME IInv, TypeOK', NEW p \in Processes,
         \A q \in Processes \ {p} :
           /\ Statuses(q)' = Statuses(q) /\ pc'[q] = pc[q]
           /\ active'[q] = active[q] /\ faults'[q] = faults[q],
         pc'[p] \in {"saving", "writing"} => p \in Trainings,
         RegistryAt(p)',
         \/ Statuses(p)' \in {<<>>, Running, Succeeded, Failed}
         \/ faults'[p] > 0 /\ Statuses(p)' = Both
  PROVE  IInv'
<1>1. SavesAreOfTrainings'
  BY DEF IInv, SavesAreOfTrainings, Processes
<1>2. \A q \in Processes \ {p} : RegistryAt(q)'
  BY DEF IInv, RegistryFollowsScript, RegistryAt
<1>3. RegistryFollowsScript'
  BY <1>2 DEF RegistryFollowsScript, Processes
<1>4. RecordsInOrder'
  BY DEF IInv, RecordsInOrder, Processes, Running, Succeeded, Failed, Both
<1>5. QED
  BY <1>1, <1>3, <1>4 DEF IInv

(* The facts every step starts from.                                       *)
LEMMA StepTypes ==
  ASSUME IInv, NEW p \in Processes
  PROVE  /\ TypeOK
         /\ RegistryAt(p)
         /\ pc[p] \in {"saving", "writing"} => p \in Trainings
         /\ \/ Statuses(p) \in {<<>>, Running, Succeeded, Failed}
            \/ faults[p] > 0 /\ Statuses(p) = Both
BY DEF IInv, SavesAreOfTrainings, RegistryFollowsScript, RecordsInOrder,
       Running, Succeeded, Failed, Both

(* A step of p that leaves the registry alone.                             *)
LEMMA SilentPreserves ==
  ASSUME IInv, TypeOK', NEW p \in Processes, UNCHANGED registry,
         \A q \in Processes \ {p} :
           pc'[q] = pc[q] /\ active'[q] = active[q] /\ faults'[q] = faults[q],
         faults'[p] >= faults[p],
         pc'[p] \in {"saving", "writing"} => p \in Trainings,
         RegistryAt(p)'
  PROVE  IInv'
<1>1. \A q \in Processes : Statuses(q)' = Statuses(q)
  BY DEF Statuses
<1>2. faults[p] \in Nat /\ faults'[p] \in Nat
  BY LifecycleAssumption DEF IInv, TypeOK
<1>3. \/ Statuses(p)' \in {<<>>, Running, Succeeded, Failed}
      \/ faults'[p] > 0 /\ Statuses(p)' = Both
  BY <1>1, <1>2, StepTypes
<1>4. QED
  BY <1>1, <1>3, OthersKeep

LEMMA StartRunPreserves ==
  ASSUME IInv, NEW p \in Processes, StartRun(p)
  PROVE  IInv'
<1>1. TypeOK /\ RegistryAt(p) /\ pc[p] = "new"
  BY StepTypes DEF StartRun
<1>2. TypeOK'
  BY <1>1 DEF StartRun, TypeOK, Goto, Labels, Bare
<1>3. pc' = [pc EXCEPT ![p] = "starting"] /\ pc'[p] = "starting"
  BY <1>1 DEF StartRun, Goto, TypeOK
<1>4. UNCHANGED <<registry, faults>> /\ faults[p] \in Nat
  BY <1>1, LifecycleAssumption DEF StartRun, TypeOK
<1>5. \A q \in Processes \ {p} : pc'[q] = pc[q] /\ active'[q] = active[q]
  BY <1>1 DEF StartRun, Goto, TypeOK
<1>6. RegistryAt(p)'
  BY <1>1, <1>3, <1>4 DEF RegistryAt, Statuses
<1>7. QED
  BY <1>2, <1>3, <1>4, <1>5, <1>6, SilentPreserves

(* The steps that write no line, one by one.                               *)
LEMMA EpochPreserves ==
  ASSUME IInv, NEW p \in Processes, Epoch(p)
  PROVE  IInv'
<1>1. TypeOK /\ RegistryAt(p) /\ pc[p] = "working"
  BY StepTypes DEF Epoch
<1>2. TypeOK'
  BY <1>1, LifecycleAssumption DEF Epoch, TypeOK, Goto, Labels, Guarded, Bare
<1>3. /\ pc'[p] \in {"working", "saving"}
      /\ \A q \in Processes \ {p} : pc'[q] = pc[q] /\ active'[q] = active[q]
  BY <1>1 DEF Epoch, Goto, TypeOK
<1>4. UNCHANGED <<registry, faults>> /\ faults[p] \in Nat
  BY <1>1, LifecycleAssumption DEF Epoch, TypeOK
<1>5. RegistryAt(p)'
  BY <1>1, <1>3, <1>4 DEF Epoch, RegistryAt, Statuses
<1>6. QED
  BY <1>1, <1>2, <1>3, <1>4, <1>5, SilentPreserves DEF Epoch

LEMMA OpenMetadataPreserves ==
  ASSUME IInv, NEW p \in Processes, OpenMetadata(p)
  PROVE  IInv'
<1>1. TypeOK /\ RegistryAt(p) /\ pc[p] = "saving" /\ p \in Trainings
  BY StepTypes DEF OpenMetadata
<1>2. TypeOK'
  BY <1>1, LifecycleAssumption DEF OpenMetadata, TypeOK, manager, Goto, Labels,
         Guarded, Bare, SetMetadata, Times, Steps
<1>3. /\ pc'[p] = "writing"
      /\ \A q \in Processes \ {p} : pc'[q] = pc[q] /\ active'[q] = active[q]
  BY <1>1 DEF OpenMetadata, Goto, TypeOK, manager
<1>4. UNCHANGED <<registry, faults>> /\ faults[p] \in Nat
  BY <1>1, LifecycleAssumption DEF OpenMetadata, TypeOK, manager
<1>5. RegistryAt(p)'
  BY <1>1, <1>3, <1>4 DEF OpenMetadata, RegistryAt, Statuses, manager
<1>6. QED
  BY <1>1, <1>2, <1>3, <1>4, <1>5, SilentPreserves

LEMMA WriteMetadataPreserves ==
  ASSUME IInv, NEW p \in Processes, WriteMetadata(p)
  PROVE  IInv'
<1>1. TypeOK /\ RegistryAt(p) /\ pc[p] = "writing" /\ p \in Trainings
  BY StepTypes DEF WriteMetadata
<1>2. TypeOK'
  BY <1>1, LifecycleAssumption DEF WriteMetadata, TypeOK, manager, Goto, Labels,
         Guarded, Bare, SetMetadata, Times, Steps
<1>3. /\ pc'[p] = "working"
      /\ \A q \in Processes \ {p} : pc'[q] = pc[q] /\ active'[q] = active[q]
  BY <1>1 DEF WriteMetadata, Goto, TypeOK, manager
<1>4. UNCHANGED <<registry, faults>> /\ faults[p] \in Nat
  BY <1>1, LifecycleAssumption DEF WriteMetadata, TypeOK, manager
<1>5. RegistryAt(p)'
  BY <1>1, <1>3, <1>4 DEF WriteMetadata, RegistryAt, Statuses, manager
<1>6. QED
  BY <1>1, <1>2, <1>3, <1>4, <1>5, SilentPreserves

LEMMA WorkDonePreserves ==
  ASSUME IInv, NEW p \in Processes, WorkDone(p)
  PROVE  IInv'
<1>1. TypeOK /\ RegistryAt(p) /\ pc[p] = "working"
  BY StepTypes DEF WorkDone
<1>2. TypeOK'
  BY <1>1, LifecycleAssumption DEF WorkDone, TypeOK, manager, Goto, Labels, Guarded,
         Bare
<1>3. /\ pc'[p] = "ending"
      /\ \A q \in Processes \ {p} : pc'[q] = pc[q] /\ active'[q] = active[q]
  BY <1>1 DEF WorkDone, Goto, TypeOK, manager
<1>4. UNCHANGED <<registry, faults>> /\ faults[p] \in Nat
  BY <1>1, LifecycleAssumption DEF WorkDone, TypeOK, manager
<1>5. RegistryAt(p)'
  BY <1>1, <1>3, <1>4 DEF WorkDone, RegistryAt, Statuses, manager
<1>6. QED
  BY <1>1, <1>2, <1>3, <1>4, <1>5, SilentPreserves

LEMMA FinishPreserves ==
  ASSUME IInv, NEW p \in Processes, Finish(p)
  PROVE  IInv'
<1>1. TypeOK /\ RegistryAt(p) /\ pc[p] = "finishing"
  BY StepTypes DEF Finish
<1>2. TypeOK'
  BY <1>1, LifecycleAssumption DEF Finish, TypeOK, Goto, Labels, Guarded, Bare
<1>3. /\ pc'[p] = "ended"
      /\ \A q \in Processes \ {p} : pc'[q] = pc[q] /\ active'[q] = active[q]
  BY <1>1 DEF Finish, Goto, TypeOK
<1>4. UNCHANGED <<registry, faults>> /\ faults[p] \in Nat
  BY <1>1, LifecycleAssumption DEF Finish, TypeOK
<1>5. RegistryAt(p)'
  BY <1>1, <1>3, <1>4 DEF Finish, RegistryAt, Statuses, TypeOK
<1>6. QED
  BY <1>1, <1>2, <1>3, <1>4, <1>5, SilentPreserves

LEMMA EvaluationExitsPreserves ==
  ASSUME IInv, NEW p \in Processes, EvaluationExits(p)
  PROVE  IInv'
<1>1. TypeOK /\ RegistryAt(p) /\ pc[p] = "ended"
  BY StepTypes DEF EvaluationExits
<1>2. TypeOK'
  BY <1>1, LifecycleAssumption DEF EvaluationExits, TypeOK, manager, Goto, Labels,
         Guarded, Bare, Exit
<1>3. /\ pc'[p] = "exited"
      /\ \A q \in Processes \ {p} : pc'[q] = pc[q] /\ active'[q] = active[q]
  BY <1>1 DEF EvaluationExits, Goto, TypeOK, manager, Exit
<1>4. UNCHANGED <<registry, faults>> /\ faults[p] \in Nat
  BY <1>1, LifecycleAssumption DEF EvaluationExits, TypeOK, manager
<1>5. RegistryAt(p)'
  BY <1>1, <1>3, <1>4 DEF EvaluationExits, RegistryAt, Statuses, manager
<1>6. QED
  BY <1>1, <1>2, <1>3, <1>4, <1>5, SilentPreserves

LEMMA TrainCompletePreserves ==
  ASSUME IInv, NEW p \in Processes, TrainComplete(p)
  PROVE  IInv'
<1>1. TypeOK /\ RegistryAt(p) /\ pc[p] = "ended"
  BY StepTypes DEF TrainComplete
<1>2. TypeOK'
  BY <1>1, LifecycleAssumption DEF TrainComplete, TypeOK, manager, Goto, Labels,
         Guarded, Bare
<1>3. /\ pc'[p] = "handling"
      /\ \A q \in Processes \ {p} : pc'[q] = pc[q] /\ active'[q] = active[q]
  BY <1>1 DEF TrainComplete, Goto, TypeOK, manager
<1>4. UNCHANGED <<registry, faults>> /\ faults[p] \in Nat
  BY <1>1, LifecycleAssumption DEF TrainComplete, TypeOK, manager
<1>5. RegistryAt(p)'
  BY <1>1, <1>3, <1>4 DEF TrainComplete, RegistryAt, Statuses, manager
<1>6. QED
  BY <1>1, <1>2, <1>3, <1>4, <1>5, SilentPreserves

LEMMA FinishFailedPreserves ==
  ASSUME IInv, NEW p \in Processes, FinishFailed(p)
  PROVE  IInv'
<1>1. TypeOK /\ RegistryAt(p) /\ pc[p] = "failing"
  BY StepTypes DEF FinishFailed
<1>2. TypeOK'
  BY <1>1, LifecycleAssumption DEF FinishFailed, TypeOK, Goto, Labels, Guarded, Bare,
         Exit
<1>3. /\ pc'[p] = "exited"
      /\ \A q \in Processes \ {p} : pc'[q] = pc[q] /\ active'[q] = active[q]
  BY <1>1 DEF FinishFailed, Goto, TypeOK, Exit
<1>4. UNCHANGED <<registry, faults>> /\ faults[p] \in Nat
  BY <1>1, LifecycleAssumption DEF FinishFailed, TypeOK
<1>5. RegistryAt(p)'
  BY <1>1, <1>3, <1>4 DEF FinishFailed, RegistryAt, Statuses
<1>6. QED
  BY <1>1, <1>2, <1>3, <1>4, <1>5, SilentPreserves

(* A step of p that writes a line.                                         *)
LEMMA WritePreserves ==
  ASSUME IInv, TypeOK', NEW p \in Processes,
         NEW status \in {"running", "completed", "failed"}, WriteRecord(p, status),
         UNCHANGED <<active, faults>>,
         \A q \in Processes \ {p} : pc'[q] = pc[q],
         pc'[p] \notin {"saving", "writing"},
         RegistryAt(p)',
         \/ Statuses(p)' \in {<<>>, Running, Succeeded, Failed}
         \/ faults[p] > 0 /\ Statuses(p)' = Both
  PROVE  IInv'
<1>1. \A q \in Processes \ {p} : Statuses(q)' = Statuses(q)
  BY StatusAppended DEF IInv
<1>2. QED
  BY <1>1, OthersKeep

(* Short tuples, and what they become with one item more.                  *)
LEMMA EqualOfTwo ==
  ASSUME NEW S, NEW s \in Seq(S), NEW t \in Seq(S),
         Len(s) = 2, Len(t) = 2, s[1] = t[1], s[2] = t[2]
  PROVE  s = t
<1>1. \A i \in 1..Len(s) : s[i] = t[i]
  OBVIOUS
<1>2. QED
  BY <1>1, SeqEqual

LEMMA EqualOfThree ==
  ASSUME NEW S, NEW s \in Seq(S), NEW t \in Seq(S),
         Len(s) = 3, Len(t) = 3, s[1] = t[1], s[2] = t[2], s[3] = t[3]
  PROVE  s = t
<1>1. \A i \in 1..Len(s) : s[i] = t[i]
  OBVIOUS
<1>2. QED
  BY <1>1, SeqEqual

LEMMA AppendToOne ==
  ASSUME NEW a, NEW b
  PROVE  Append(<<a>>, b) = <<a, b>>
<1> DEFINE S == {a, b}
           s == Append(<<a>>, b)
           t == <<a, b>>
<1>1. <<a>> \in Seq(S) /\ Len(<<a>>) = 1 /\ <<a>>[1] = a
  OBVIOUS
<1>2. t \in Seq(S) /\ Len(t) = 2 /\ t[1] = a /\ t[2] = b
  OBVIOUS
<1>3. s \in Seq(S) /\ Len(s) = 2 /\ s[1] = a /\ s[2] = b
  BY <1>1, AppendProperties
<1> HIDE DEF S, s, t
<1>4. s = t
  BY <1>2, <1>3, EqualOfTwo
<1>5. QED
  BY <1>4 DEF s, t

LEMMA AppendToTwo ==
  ASSUME NEW a, NEW b, NEW c
  PROVE  Append(<<a, b>>, c) = <<a, b, c>>
<1> DEFINE S == {a, b, c}
           r == <<a, b>>
           s == Append(r, c)
           t == <<a, b, c>>
<1>1. /\ r \in Seq(S) /\ Len(r) = 2 /\ r[1] = a /\ r[2] = b /\ c \in S
  OBVIOUS
<1>2. /\ t \in Seq(S) /\ Len(t) = 3 /\ t[1] = a /\ t[2] = b /\ t[3] = c
  OBVIOUS
<1> HIDE DEF S, r
<1>3. /\ s \in Seq(S) /\ Len(s) = 3 /\ \A i \in 1..2 : s[i] = r[i]
      /\ s[3] = c
  <2>1. /\ s \in Seq(S) /\ Len(s) = Len(r) + 1
        /\ \A i \in 1..Len(r) : s[i] = r[i]
        /\ s[Len(r) + 1] = c
    <3>1. r \in Seq(S) /\ c \in S
      BY <1>1
    <3>2. QED
      BY <3>1, AppendProperties
  <2> HIDE DEF s
  <2>2. QED
    BY <1>1, <2>1
<1> HIDE DEF s, t
<1>4. s = t
  BY <1>1, <1>2, <1>3, EqualOfThree
<1>5. QED
  BY <1>4 DEF r, s, t

LEMMA RecordRunningPreserves ==
  ASSUME IInv, NEW p \in Processes, RecordRunning(p)
  PROVE  IInv'
<1>1. TypeOK /\ RegistryAt(p) /\ pc[p] = "starting" /\ WriteRecord(p, "running")
  BY StepTypes DEF RecordRunning
<1>2. /\ registry' \in [Processes -> Seq(Lines)]
      /\ Statuses(p)' = Append(Statuses(p), "running")
  BY <1>1, StatusAppended
<1>3. TypeOK'
  BY <1>1, <1>2 DEF RecordRunning, TypeOK, manager, Goto, Labels, Guarded
<1>4. /\ pc'[p] = "working" /\ UNCHANGED <<active, faults>>
      /\ \A q \in Processes \ {p} : pc'[q] = pc[q]
  BY <1>1 DEF RecordRunning, manager, Goto, TypeOK
<1>5. Statuses(p)' = Running
  BY <1>1, <1>2 DEF RegistryAt, Running
<1>6. RegistryAt(p)'
  BY <1>4, <1>5 DEF RegistryAt
<1>7. QED
  BY <1>1, <1>3, <1>4, <1>5, <1>6, WritePreserves

LEMMA RecordCompletedPreserves ==
  ASSUME IInv, NEW p \in Processes, RecordCompleted(p)
  PROVE  IInv'
<1>1. TypeOK /\ RegistryAt(p) /\ pc[p] = "ending" /\ WriteRecord(p, "completed")
  BY StepTypes DEF RecordCompleted
<1>2. /\ registry' \in [Processes -> Seq(Lines)]
      /\ Statuses(p)' = Append(Statuses(p), "completed")
  BY <1>1, StatusAppended
<1>3. TypeOK'
  BY <1>1, <1>2 DEF RecordCompleted, TypeOK, manager, Goto, Labels, Guarded
<1>4. /\ pc'[p] = "finishing" /\ UNCHANGED <<active, faults>>
      /\ \A q \in Processes \ {p} : pc'[q] = pc[q]
  BY <1>1 DEF RecordCompleted, manager, Goto, TypeOK
<1>5. Statuses(p)' = Succeeded
  BY <1>1, <1>2, AppendToOne DEF RegistryAt, Running, Succeeded
<1>6. RegistryAt(p)'
  BY <1>4, <1>5 DEF RegistryAt
<1>7. QED
  BY <1>1, <1>3, <1>4, <1>5, <1>6, WritePreserves

(* The except clause closes a run that is open, or one whose closing       *)
(* raised; with no run it only leaves.                                     *)
LEMMA HandlePreserves ==
  ASSUME IInv, NEW p \in Processes, Handle(p)
  PROVE  IInv'
<1>1. TypeOK /\ RegistryAt(p) /\ pc[p] = "handling" /\ UNCHANGED <<active, faults>>
  BY StepTypes DEF Handle, manager
<1>2. CASE active[p]
  <2>1. WriteRecord(p, "failed") /\ UNCHANGED exit
    BY <1>2 DEF Handle
  <2>2. /\ registry' \in [Processes -> Seq(Lines)]
        /\ Statuses(p)' = Append(Statuses(p), "failed")
    BY <1>1, <2>1, StatusAppended
  <2>3. TypeOK'
    BY <1>1, <1>2, <2>1, <2>2 DEF Handle, TypeOK, manager, Goto, Labels, Bare
  <2>4. pc'[p] = "failing" /\ \A q \in Processes \ {p} : pc'[q] = pc[q]
    BY <1>1, <1>2 DEF Handle, Goto, TypeOK
  <2>5. \/ Statuses(p)' = Failed
        \/ Statuses(p)' = Both /\ faults[p] > 0
    BY <1>1, <1>2, <2>2, AppendToOne, AppendToTwo DEF RegistryAt, Running, Succeeded,
         Failed, Both
  <2>6. RegistryAt(p)'
    BY <1>1, <2>4, <2>5 DEF RegistryAt
  <2>7. QED
    BY <1>1, <2>1, <2>3, <2>4, <2>5, <2>6, WritePreserves
<1>3. CASE ~active[p]
  <2>1. UNCHANGED registry /\ faults[p] \in Nat
    BY <1>1, <1>3, LifecycleAssumption DEF Handle, TypeOK
  <2>2. TypeOK'
    BY <1>1, <1>3 DEF Handle, Exit, TypeOK, manager, Goto, Labels
  <2>3. pc'[p] = "exited" /\ \A q \in Processes \ {p} : pc'[q] = pc[q]
    BY <1>1, <1>3 DEF Handle, Exit, Goto, TypeOK
  <2>4. RegistryAt(p)'
    BY <2>3 DEF RegistryAt
  <2>5. QED
    BY <1>1, <2>1, <2>2, <2>3, <2>4, SilentPreserves
<1>4. QED
  BY <1>2, <1>3

(* An exception: the except clause is next, or the script ends. A run that *)
(* has its line "completed" then has a fault to its name.                  *)
LEMMA FaultPreserves ==
  ASSUME IInv, NEW p \in Processes, Fault(p)
  PROVE  IInv'
<1>1. TypeOK /\ RegistryAt(p) /\ pc[p] \in Guarded \cup Bare /\ UNCHANGED <<registry, active>>
  BY StepTypes DEF Fault, Raises, manager
<1>2. TypeOK'
  <2>1. faults' \in [Processes -> 0..MaxFaults]
    BY <1>1, LifecycleAssumption DEF Fault, TypeOK
  <2>2. pc' \in [Processes -> Labels] /\ exit' \in [Processes -> {-1, 0, 1}]
    BY <1>1 DEF Fault, Raises, Exit, TypeOK, Goto, Labels, Bare
  <2>3. UNCHANGED <<clock, dir, active, step, latest, registry, disk>>
    BY DEF Fault, Raises, manager
  <2>4. QED
    BY <1>1, <2>1, <2>2, <2>3 DEF TypeOK
<1>3. /\ faults[p] \in Nat /\ faults'[p] = faults[p] + 1
      /\ \A q \in Processes \ {p} : pc'[q] = pc[q] /\ faults'[q] = faults[q]
      /\ pc'[p] = IF pc[p] \in Guarded THEN "handling" ELSE "exited"
  BY <1>1, LifecycleAssumption DEF Fault, Raises, Exit, Goto, TypeOK
<1>4. Statuses(p)' = Statuses(p)
  BY <1>1 DEF Statuses
<1>5. RegistryAt(p)'
  BY <1>1, <1>3, <1>4 DEF RegistryAt, Guarded
<1>6. QED
  BY <1>1, <1>2, <1>3, <1>5, SilentPreserves

LEMMA KillPreserves ==
  ASSUME IInv, NEW p \in Processes, Kill(p)
  PROVE  IInv'
<1>1. TypeOK /\ UNCHANGED <<registry, active, faults>> /\ faults[p] \in Nat
  BY StepTypes, LifecycleAssumption DEF Kill, manager, TypeOK
<1>2. TypeOK'
  BY <1>1 DEF Kill, TypeOK, manager, Goto, Labels
<1>3. /\ pc'[p] = "killed" /\ \A q \in Processes \ {p} : pc'[q] = pc[q]
  BY <1>1 DEF Kill, Goto, TypeOK
<1>4. RegistryAt(p)'
  BY <1>3 DEF RegistryAt
<1>5. QED
  BY <1>1, <1>2, <1>3, <1>4, SilentPreserves

LEMMA UnchangedPreserves ==
  ASSUME IInv, UNCHANGED <<script, manager, faults, registry, disk>>, clock' \in Times
  PROVE  IInv'
<1>1. UNCHANGED <<pc, exit, dir, active, step, latest>>
  BY DEF script, manager
<1>2. TypeOK'
  BY <1>1 DEF IInv, TypeOK
<1>3. \A p \in Processes : Statuses(p)' = Statuses(p)
  BY DEF Statuses
<1>4. SavesAreOfTrainings'
  BY <1>1 DEF IInv, SavesAreOfTrainings
<1>5. RegistryFollowsScript'
  BY <1>1, <1>3 DEF IInv, RegistryFollowsScript, RegistryAt
<1>6. RecordsInOrder'
  BY <1>1, <1>3 DEF IInv, RecordsInOrder
<1>7. QED
  BY <1>2, <1>4, <1>5, <1>6 DEF IInv

LEMMA StepPreserves ==
  ASSUME IInv, NEW p \in Processes, Step(p)
  PROVE  IInv'
BY StartRunPreserves, RecordRunningPreserves, EpochPreserves, OpenMetadataPreserves,
   WriteMetadataPreserves, WorkDonePreserves, RecordCompletedPreserves, FinishPreserves,
   EvaluationExitsPreserves, TrainCompletePreserves, HandlePreserves, FinishFailedPreserves
   DEF Step

(* The invariant that carries the two theorems below: at every place of    *)
(* the script of a process the registry holds the lines that belong to it. *)
THEOREM LifecycleInvariance == Spec => []IInv
<1>1. Init => IInv
  BY InitIInv
<1>2. IInv /\ [Next]_vars => IInv'
  <2> SUFFICES ASSUME IInv, [Next]_vars PROVE IInv'
    OBVIOUS
  <2>1. CASE Tick
    <3>1. clock' \in Times
      BY <2>1, LifecycleAssumption DEF Tick, IInv, TypeOK, Times
    <3>2. QED
      BY <2>1, <3>1, UnchangedPreserves DEF Tick
  <2>2. CASE \E p \in Processes : Step(p)
    BY <2>2, StepPreserves
  <2>3. CASE \E p \in Processes : Fault(p)
    BY <2>3, FaultPreserves
  <2>4. CASE \E p \in Processes : Kill(p)
    BY <2>4, KillPreserves
  <2>5. CASE UNCHANGED vars
    <3>1. UNCHANGED <<script, manager, faults, registry, disk>> /\ clock' \in Times
      BY <2>5 DEF vars, IInv, TypeOK
    <3>2. QED
      BY <3>1, UnchangedPreserves
  <2>6. QED
    BY <2>1, <2>2, <2>3, <2>4, <2>5 DEF Next
<1>3. QED
  BY <1>1, <1>2, PTL DEF Spec

(* Types of the variables of the lifecycle.                                *)
THEOREM LifecycleTypes == Spec => []TypeOK
<1>1. IInv => TypeOK
  BY DEF IInv
<1>2. QED
  BY <1>1, LifecycleInvariance, PTL

(* The lines of a run in the registry: that it runs, then how it ended,    *)
(* once, unless its closing raised (start_run and end_run), wherever       *)
(* exceptions and kills strike.                                            *)
THEOREM RegistryInOrder == Spec => []RecordsInOrder
<1>1. IInv => RecordsInOrder
  BY DEF IInv
<1>2. QED
  BY <1>1, LifecycleInvariance, PTL
----------------------------------------------------------------------------
(* The outcomes. An invariant on top of IInv: what the exit code, the      *)
(* manager and the faults of p have to do with the lines of the registry.  *)
OutcomeAt(p) ==
  /\ pc[p] # "exited" => exit[p] = -1
  /\ exit[p] = 0 => p \in Evaluations /\ Statuses(p) = Succeeded /\ ~active[p]
  /\ pc[p] \in {"starting", "working", "saving", "writing", "ending", "finishing"} => active[p]
  /\ pc[p] = "handling" /\ Statuses(p) = Running => active[p] /\ faults[p] > 0
  /\ pc[p] = "handling" /\ p \in Evaluations => active[p] /\ faults[p] > 0
  /\ pc[p] = "handling" /\ active[p] => faults[p] > 0
  /\ pc[p] = "failing" => faults[p] > 0
  /\ pc[p] = "exited" => Statuses(p) \in {<<>>, Succeeded, Failed, Both} \/ faults[p] > 1
  /\ pc[p] = "exited" /\ faults[p] = 0 => Statuses(p) = Succeeded
  /\ pc[p] = "exited" /\ exit[p] # 0 /\ p \in Evaluations /\ Statuses(p) = Succeeded =>
       faults[p] > 1

(* A checkpoint of p, as it finds it in its directory.                     *)
Kept(p, s) ==
  /\ disk[dir[p]][s] # Absent
  /\ ~Shares(p) => disk[dir[p]][s] = p

(* The checkpoints that are due up to the epoch p is in are kept, but for  *)
(* the one being written; and all of them once it is recorded as complete. *)
SavedAt(p) ==
  /\ latest[p] = step[p]
  /\ pc[p] \in {"new", "starting"} => step[p] = 0
  /\ pc[p] = "ending" => step[p] = TotalEpochs
  /\ pc[p] \in {"working", "saving", "writing", "ending"} =>
       \A s \in Steps :
         Due(s) /\ (s < step[p] \/ (s = step[p] /\ pc[p] \notin {"saving", "writing"})) =>
           Kept(p, s)
  /\ Completed(p) => \A s \in Steps : Due(s) => Kept(p, s)
  /\ \A k \in DOMAIN registry[p] :
       registry[p][k].status = "completed" => registry[p][k].final = TotalEpochs

OutcomesFollow == \A p \in Processes : OutcomeAt(p)
SavesFollow    == \A p \in Trainings : SavedAt(p)

(* What is the same whatever p does: the other processes, the directories  *)
(* of the runs that have one, and the files other than the one p writes.   *)
Frame(p) ==
  /\ \A q \in Processes \ {p} :
       /\ pc'[q] = pc[q] /\ exit'[q] = exit[q] /\ active'[q] = active[q]
       /\ step'[q] = step[q] /\ latest'[q] = latest[q] /\ faults'[q] = faults[q]
       /\ registry'[q] = registry[q]
  /\ \A q \in Processes : pc[q] # "new" => pc'[q] # "new" /\ dir'[q] = dir[q]
  /\ \A d \in Times, s \in Steps :
       \/ disk'[d][s] = disk[d][s]
       \/ p \in Trainings /\ pc[p] # "new" /\ d = dir[p] /\ disk'[d][s] # Absent

LEMMA StepHasFrame ==
  ASSUME IInv, NEW p \in Processes, Step(p) \/ Fault(p) \/ Kill(p)
  PROVE  Frame(p)
<1>1. TypeOK
  BY DEF IInv
<1>2. CASE StartRun(p) \/ RecordRunning(p) \/ Epoch(p)
  BY <1>1, <1>2 DEF StartRun, RecordRunning, Epoch, Goto, WriteRecord, manager, TypeOK, Frame
<1>3. CASE OpenMetadata(p)
  <2>1. p \in Trainings /\ Empty # Absent
    BY <1>3 DEF IInv, SavesAreOfTrainings, OpenMetadata, Empty, Absent
  <2>2. QED
    BY <1>1, <1>3, <2>1 DEF OpenMetadata, SetMetadata, Goto, manager, TypeOK, Frame
<1>4. CASE WriteMetadata(p)
  <2>1. p \in Trainings /\ p # Absent
    BY <1>4, MetadataAssumption DEF IInv, SavesAreOfTrainings, WriteMetadata
  <2>2. QED
    BY <1>1, <1>4, <2>1 DEF WriteMetadata, SetMetadata, Goto, manager, TypeOK, Frame
<1>5. CASE WorkDone(p) \/ RecordCompleted(p) \/ Finish(p)
  BY <1>1, <1>5 DEF WorkDone, RecordCompleted, Finish, Goto, WriteRecord, manager, TypeOK, Frame
<1>6. CASE EvaluationExits(p) \/ TrainComplete(p) \/ FinishFailed(p)
  BY <1>1, <1>6 DEF EvaluationExits, TrainComplete, FinishFailed, Goto, Exit, manager, TypeOK,
                    Frame
<1>7. CASE Handle(p)
  BY <1>1, <1>7 DEF Handle, Goto, Exit, WriteRecord, manager, TypeOK, Frame
<1>8. CASE Fault(p) \/ Kill(p)
  BY <1>1, <1>8 DEF Fault, Raises, Kill, Goto, Exit, manager, TypeOK, Frame
<1>9. QED
  BY <1>2, <1>3, <1>4, <1>5, <1>6, <1>7, <1>8 DEF Step

(* A checkpoint that was kept is, unless its own process writes it.        *)
LEMMA KeptStays ==
  ASSUME IInv, NEW p \in Processes, Frame(p), NEW q \in Trainings, pc[q] # "new",
         NEW s \in Steps, Kept(q, s),
         q = p => disk'[dir[p]][s] = disk[dir[p]][s]
  PROVE  Kept(q, s)'
<1>1. Shares(q) => Shares(q)'
  BY DEF Shares, Frame, Processes
<1>2. dir'[q] = dir[q] /\ dir[q] \in Times
  BY DEF Frame, Processes, IInv, TypeOK
<1>3. CASE disk'[dir[q]][s] = disk[dir[q]][s]
  BY <1>1, <1>2, <1>3 DEF Kept
<1>4. CASE disk'[dir[q]][s] # disk[dir[q]][s]
  <2>1. p \in Trainings /\ pc[p] # "new" /\ dir[q] = dir[p] /\ disk'[dir[q]][s] # Absent
    BY <1>2, <1>4 DEF Frame
  <2>2. Shares(q)
    BY <1>4, <2>1 DEF Shares
  <2>3. QED
    BY <1>1, <1>2, <2>1, <2>2 DEF Kept
<1>5. QED
  BY <1>3, <1>4

LEMMA OthersStay ==
  ASSUME IInv, OutcomesFollow, SavesFollow, NEW p \in Processes, Frame(p),
         OutcomeAt(p)', p \in Trainings => SavedAt(p)'
  PROVE  OutcomesFollow' /\ SavesFollow'
<1>1. ASSUME NEW q \in Processes \ {p} PROVE OutcomeAt(q)'
  BY DEF OutcomesFollow, OutcomeAt, Frame, Statuses
<1>2. ASSUME NEW q \in Trainings \ {p} PROVE SavedAt(q)'
  <2>1. /\ pc'[q] = pc[q] /\ step'[q] = step[q] /\ latest'[q] = latest[q]
        /\ registry'[q] = registry[q]
        /\ SavedAt(q) /\ q \in Processes
    BY DEF Frame, Processes, SavesFollow
  <2>2. Completed(q)' = Completed(q)
    BY <2>1 DEF Completed
  <2>3. Completed(q) => pc[q] # "new"
    <3>1. pc[q] = "new" => Statuses(q) = <<>> /\ DOMAIN Statuses(q) = DOMAIN registry[q]
      BY <2>1 DEF IInv, RegistryFollowsScript, RegistryAt, Statuses
    <3>2. DOMAIN <<>> = {}
      BY EmptySeq, LenProperties, 1..0 = {}
    <3>3. QED
      BY <3>1, <3>2 DEF Completed
  <2>4. \A s \in Steps : pc[q] # "new" /\ Kept(q, s) => Kept(q, s)'
    BY KeptStays
  <2>5. QED
    BY <2>1, <2>2, <2>3, <2>4 DEF SavedAt
<1>3. QED
  BY <1>1, <1>2 DEF OutcomesFollow, SavesFollow

(* A step that neither trains nor writes: the checkpoints of p stay due or *)
(* kept as they were.                                                      *)
LEMMA QuietSaves ==
  ASSUME IInv, NEW p \in Trainings, SavedAt(p), Frame(p),
         UNCHANGED <<step, latest, registry, disk>>,
         pc[p] # "new", pc'[p] \notin {"new", "starting"},
         pc'[p] = "ending" => step[p] = TotalEpochs,
         pc'[p] \in {"working", "saving", "writing", "ending"} =>
           /\ pc[p] \in {"working", "saving", "writing", "ending"}
           /\ pc[p] \in {"saving", "writing"} => pc'[p] \in {"saving", "writing"}
  PROVE  SavedAt(p)'
<1>1. Completed(p)' = Completed(p)
  BY DEF Completed
<1>2. \A s \in Steps : Kept(p, s) => Kept(p, s)'
  BY KeptStays DEF Processes
<1>3. QED
  BY <1>1, <1>2 DEF SavedAt

(* A line more: a run is complete that was, or with it.                    *)
LEMMA LineAdded ==
  ASSUME TypeOK, NEW p \in Processes, NEW status \in {"running", "completed", "failed"},
         WriteRecord(p, status)
  PROVE  /\ Completed(p)' = (Completed(p) \/ status = "completed")
         /\ (\A k \in DOMAIN registry[p] :
               registry[p][k].status = "completed" => registry[p][k].final = TotalEpochs)
            /\ (status = "completed" => latest[p] = TotalEpochs)
            => \A k \in DOMAIN registry'[p] :
                 registry'[p][k].status = "completed" => registry'[p][k].final = TotalEpochs
<1> DEFINE r == registry[p]
           l == Line(p, status)
<1>1. /\ r \in Seq(Lines) /\ l \in Lines /\ l.status = status
      /\ status = "completed" => l.final = latest[p]
      /\ registry'[p] = Append(r, l)
  <2>1. registry \in [Processes -> Seq(Lines)] /\ latest[p] \in 0..TotalEpochs
    BY DEF TypeOK
  <2>2. l \in Lines /\ l.status = status /\ (status = "completed" => l.final = latest[p])
    BY <2>1, LifecycleAssumption DEF Line, Lines
  <2>3. registry'[p] = Append(r, l) /\ r \in Seq(Lines)
    BY <2>1 DEF WriteRecord
  <2>4. QED
    BY <2>2, <2>3
<1>2. /\ DOMAIN r = 1..Len(r) /\ Len(r) \in Nat
      /\ DOMAIN Append(r, l) = 1..Len(r) + 1
      /\ \A k \in 1..Len(r) : Append(r, l)[k] = r[k]
      /\ Append(r, l)[Len(r) + 1] = l
  <2> HIDE DEF r, l
  <2>1. /\ Append(r, l) \in Seq(Lines) /\ Len(Append(r, l)) = Len(r) + 1
        /\ \A k \in 1..Len(r) : Append(r, l)[k] = r[k]
        /\ Append(r, l)[Len(r) + 1] = l
    BY <1>1, AppendProperties
  <2>2. QED
    BY <1>1, <2>1, LenProperties
<1> HIDE DEF r, l
<1>3. \A k \in 1..Len(r) + 1 : k \in 1..Len(r) \/ k = Len(r) + 1
  BY <1>2
<1>4. Completed(p) <=> \E k \in 1..Len(r) : r[k].status = "completed"
  BY <1>2 DEF Completed, r
<1>5. Completed(p)' <=> \E k \in 1..Len(r) + 1 : Append(r, l)[k].status = "completed"
  BY <1>1, <1>2 DEF Completed
<1>6. (\E k \in 1..Len(r) + 1 : Append(r, l)[k].status = "completed")
        <=> (\E k \in 1..Len(r) : r[k].status = "completed") \/ status = "completed"
  BY <1>1, <1>2, <1>3
<1>7. Completed(p)' = (Completed(p) \/ status = "completed")
  <2>1. Completed(p) \in BOOLEAN /\ Completed(p)' \in BOOLEAN
    BY DEF Completed
  <2>2. QED
    BY <1>4, <1>5, <1>6, <2>1
<1>8. ASSUME \A k \in DOMAIN r : r[k].status = "completed" => r[k].final = TotalEpochs,
             status = "completed" => latest[p] = TotalEpochs,
             NEW k \in DOMAIN registry'[p], registry'[p][k].status = "completed"
      PROVE  registry'[p][k].final = TotalEpochs
  <2>1. CASE k \in 1..Len(r)
    BY <1>1, <1>2, <1>8, <2>1
  <2>2. CASE k = Len(r) + 1
    BY <1>1, <1>2, <1>8, <2>2
  <2>3. QED
    BY <1>1, <1>2, <1>3, <2>1, <2>2
<1>9. QED
  BY <1>7, <1>8 DEF r

LEMMA RunningIsNotCompleted ==
  ASSUME NEW p, Statuses(p) \in {<<>>, Running}
  PROVE  ~Completed(p)
<1>1. DOMAIN Statuses(p) = DOMAIN registry[p]
      /\ \A k \in DOMAIN registry[p] : Statuses(p)[k] = registry[p][k].status
  BY DEF Statuses
<1>2. DOMAIN <<>> = {} /\ DOMAIN Running = {1} /\ Running[1] = "running"
  <2>1. DOMAIN <<>> = {}
    BY EmptySeq, LenProperties, 1..0 = {}
  <2>2. Running \in Seq({"running"}) /\ Len(Running) = 1 /\ Running[1] = "running"
    BY DEF Running
  <2>3. DOMAIN Running = {1}
    BY <2>2, LenProperties, 1..1 = {1}
  <2>4. QED
    BY <2>1, <2>2, <2>3
<1>3. QED
  BY <1>1, <1>2 DEF Completed

(* The facts of one process to start from.                                 *)
LEMMA OutcomeFacts ==
  ASSUME IInv, OutcomesFollow, SavesFollow, NEW p \in Processes
  PROVE  /\ TypeOK /\ RegistryAt(p) /\ OutcomeAt(p)
         /\ p \in Trainings => SavedAt(p)
         /\ faults[p] \in Nat
BY LifecycleAssumption DEF IInv, RegistryFollowsScript, OutcomesFollow, SavesFollow, TypeOK

LEMMA StartRunOutcome ==
  ASSUME IInv, OutcomesFollow, SavesFollow, NEW p \in Processes, StartRun(p)
  PROVE  OutcomesFollow' /\ SavesFollow'
<1>1. TypeOK /\ RegistryAt(p) /\ OutcomeAt(p) /\ (p \in Trainings => SavedAt(p)) /\ Frame(p)
  BY OutcomeFacts, StepHasFrame DEF Step
<1>2. /\ pc[p] = "new" /\ pc'[p] = "starting" /\ active'[p] = TRUE
      /\ UNCHANGED <<exit, step, latest, faults, registry, disk>>
  BY <1>1 DEF StartRun, Goto, TypeOK
<1>3. OutcomeAt(p)'
  BY <1>1, <1>2 DEF OutcomeAt, Statuses
<1>4. p \in Trainings => SavedAt(p)'
  <2>1. ~Completed(p) /\ ~Completed(p)'
    BY <1>1, <1>2, RunningIsNotCompleted DEF RegistryAt, Completed
  <2>2. QED
    BY <1>1, <1>2, <2>1 DEF SavedAt
<1>5. QED
  BY <1>1, <1>3, <1>4, OthersStay

LEMMA RecordRunningOutcome ==
  ASSUME IInv, OutcomesFollow, SavesFollow, NEW p \in Processes, RecordRunning(p)
  PROVE  OutcomesFollow' /\ SavesFollow'
<1>1. TypeOK /\ RegistryAt(p) /\ OutcomeAt(p) /\ (p \in Trainings => SavedAt(p)) /\ Frame(p)
  BY OutcomeFacts, StepHasFrame DEF Step
<1>2. /\ pc[p] = "starting" /\ pc'[p] = "working" /\ WriteRecord(p, "running")
      /\ UNCHANGED <<exit, dir, active, step, latest, faults, disk>>
  BY <1>1 DEF RecordRunning, Goto, TypeOK, manager
<1>3. /\ Statuses(p)' = Append(Statuses(p), "running")
      /\ Completed(p)' = (Completed(p) \/ "running" = "completed")
      /\ (\A k \in DOMAIN registry[p] :
            registry[p][k].status = "completed" => registry[p][k].final = TotalEpochs)
         => \A k \in DOMAIN registry'[p] :
              registry'[p][k].status = "completed" => registry'[p][k].final = TotalEpochs
  BY <1>1, <1>2, StatusAppended, LineAdded
<1>4. OutcomeAt(p)'
  BY <1>1, <1>2 DEF OutcomeAt
<1>5. p \in Trainings => SavedAt(p)'
  <2>1. ~Completed(p) /\ ~Completed(p)'
    <3>1. Statuses(p) = <<>>
      BY <1>1, <1>2 DEF RegistryAt
    <3>2. ~Completed(p)
      BY <3>1, RunningIsNotCompleted
    <3>3. QED
      BY <1>3, <3>2
  <2>2. p \in Trainings => step[p] = 0 /\ \A s \in Steps : ~(s < 0) /\ s # 0
    BY <1>1, <1>2 DEF SavedAt, Steps
  <2>3. QED
    BY <1>1, <1>2, <1>3, <2>1, <2>2 DEF SavedAt
<1>6. QED
  BY <1>1, <1>4, <1>5, OthersStay

LEMMA EpochOutcome ==
  ASSUME IInv, OutcomesFollow, SavesFollow, NEW p \in Processes, Epoch(p)
  PROVE  OutcomesFollow' /\ SavesFollow'
<1>1. TypeOK /\ RegistryAt(p) /\ OutcomeAt(p) /\ SavedAt(p) /\ Frame(p) /\ p \in Trainings
  BY OutcomeFacts, StepHasFrame DEF Step, Epoch
<1>2. /\ pc[p] = "working" /\ step'[p] = step[p] + 1 /\ latest'[p] = step'[p]
      /\ pc'[p] = IF Due(step'[p]) THEN "saving" ELSE "working"
      /\ step[p] \in 0..TotalEpochs
      /\ UNCHANGED <<exit, dir, active, faults, registry, disk>>
  BY <1>1 DEF Epoch, Goto, TypeOK
<1>3. OutcomeAt(p)'
  BY <1>1, <1>2 DEF OutcomeAt, Statuses
<1>4. SavedAt(p)'
  <2>1. ~Completed(p)'
    BY <1>1, <1>2, RunningIsNotCompleted DEF RegistryAt, Completed
  <2>2. ASSUME NEW s \in Steps, Due(s),
               s < step'[p] \/ (s = step'[p] /\ pc'[p] \notin {"saving", "writing"})
        PROVE  Kept(p, s)'
    <3>1. s # step'[p]
      BY <1>2, <2>2
    <3>2. s < step[p] \/ s = step[p]
      BY <1>2, <2>2, <3>1, LifecycleAssumption DEF Steps
    <3>3. Kept(p, s)
      BY <1>1, <1>2, <2>2, <3>2 DEF SavedAt
    <3>4. QED
      BY <1>1, <1>2, <3>3, KeptStays
  <2>3. QED
    BY <1>1, <1>2, <2>1, <2>2 DEF SavedAt
<1>5. QED
  BY <1>1, <1>3, <1>4, OthersStay

LEMMA OpenMetadataOutcome ==
  ASSUME IInv, OutcomesFollow, SavesFollow, NEW p \in Processes, OpenMetadata(p)
  PROVE  OutcomesFollow' /\ SavesFollow'
<1>1. TypeOK /\ RegistryAt(p) /\ OutcomeAt(p) /\ SavedAt(p) /\ Frame(p) /\ p \in Trainings
  BY OutcomeFacts, StepHasFrame DEF Step, OpenMetadata, IInv, SavesAreOfTrainings
<1>2. /\ pc[p] = "saving" /\ pc'[p] = "writing"
      /\ disk' = [disk EXCEPT ![dir[p]][step[p]] = Empty]
      /\ UNCHANGED <<exit, dir, active, step, latest, faults, registry>>
  BY <1>1 DEF OpenMetadata, Goto, TypeOK, manager, SetMetadata
<1>3. OutcomeAt(p)'
  BY <1>1, <1>2 DEF OutcomeAt, Statuses
<1>4. SavedAt(p)'
  <2>1. ~Completed(p)'
    BY <1>1, <1>2, RunningIsNotCompleted DEF RegistryAt, Completed
  <2>2. ASSUME NEW s \in Steps, Due(s), s < step[p] PROVE Kept(p, s)'
    <3>1. Kept(p, s)
      BY <1>1, <1>2, <2>2 DEF SavedAt
    <3>2. s # step[p] /\ dir[p] \in Times
      BY <1>1, <2>2, LifecycleAssumption DEF TypeOK, Steps
    <3>3. disk'[dir[p]][s] = disk[dir[p]][s]
      BY <1>1, <1>2, <3>2 DEF TypeOK
    <3>4. QED
      BY <1>1, <1>2, <3>1, <3>3, KeptStays
  <2>3. QED
    BY <1>1, <1>2, <2>1, <2>2 DEF SavedAt
<1>5. QED
  BY <1>1, <1>3, <1>4, OthersStay

(* The checkpoint that was being written is kept now, too.                 *)
LEMMA WriteMetadataOutcome ==
  ASSUME IInv, OutcomesFollow, SavesFollow, NEW p \in Processes, WriteMetadata(p)
  PROVE  OutcomesFollow' /\ SavesFollow'
<1>1. TypeOK /\ RegistryAt(p) /\ OutcomeAt(p) /\ SavedAt(p) /\ Frame(p) /\ p \in Trainings
  BY OutcomeFacts, StepHasFrame DEF Step, WriteMetadata, IInv, SavesAreOfTrainings
<1>2. /\ pc[p] = "writing" /\ pc'[p] = "working"
      /\ disk' = [disk EXCEPT ![dir[p]][step[p]] = p]
      /\ UNCHANGED <<exit, dir, active, step, latest, faults, registry>>
  BY <1>1 DEF WriteMetadata, Goto, TypeOK, manager, SetMetadata
<1>3. OutcomeAt(p)'
  BY <1>1, <1>2 DEF OutcomeAt, Statuses
<1>4. SavedAt(p)'
  <2>1. ~Completed(p)'
    BY <1>1, <1>2, RunningIsNotCompleted DEF RegistryAt, Completed
  <2>2. dir[p] \in Times /\ p # Absent
    BY <1>1, MetadataAssumption DEF TypeOK
  <2>3. ASSUME NEW s \in Steps, Due(s), s < step[p] PROVE Kept(p, s)'
    <3>1. Kept(p, s)
      BY <1>1, <1>2, <2>3 DEF SavedAt
    <3>2. s # step[p]
      BY <2>3 DEF Steps
    <3>3. disk'[dir[p]][s] = disk[dir[p]][s]
      BY <1>1, <1>2, <2>2, <3>2 DEF TypeOK
    <3>4. QED
      BY <1>1, <1>2, <3>1, <3>3, KeptStays
  <2>4. ASSUME NEW s \in Steps, s = step[p] PROVE Kept(p, s)'
    <3>1. disk'[dir[p]][s] = p
      BY <1>1, <1>2, <2>2, <2>4 DEF TypeOK
    <3>2. QED
      BY <1>2, <2>2, <3>1 DEF Kept
  <2>5. QED
    BY <1>1, <1>2, <2>1, <2>3, <2>4 DEF SavedAt
<1>5. QED
  BY <1>1, <1>3, <1>4, OthersStay

LEMMA WorkDoneOutcome ==
  ASSUME IInv, OutcomesFollow, SavesFollow, NEW p \in Processes, WorkDone(p)
  PROVE  OutcomesFollow' /\ SavesFollow'
<1>1. TypeOK /\ OutcomeAt(p) /\ (p \in Trainings => SavedAt(p)) /\ Frame(p)
  BY OutcomeFacts, StepHasFrame DEF Step
<1>2. /\ pc[p] = "working" /\ pc'[p] = "ending"
      /\ p \in Trainings => step[p] = TotalEpochs
      /\ UNCHANGED <<exit, dir, active, step, latest, faults, registry, disk>>
  BY <1>1 DEF WorkDone, Goto, TypeOK, manager
<1>3. OutcomeAt(p)'
  BY <1>1, <1>2 DEF OutcomeAt, Statuses
<1>4. p \in Trainings => SavedAt(p)'
  BY <1>1, <1>2, QuietSaves
<1>5. QED
  BY <1>1, <1>3, <1>4, OthersStay

(* The last epoch is over: what was due has been kept, and its metrics are *)
(* the latest.                                                             *)
LEMMA RecordCompletedOutcome ==
  ASSUME IInv, OutcomesFollow, SavesFollow, NEW p \in Processes, RecordCompleted(p)
  PROVE  OutcomesFollow' /\ SavesFollow'
<1>1. TypeOK /\ RegistryAt(p) /\ OutcomeAt(p) /\ (p \in Trainings => SavedAt(p)) /\ Frame(p)
  BY OutcomeFacts, StepHasFrame DEF Step
<1>2. /\ pc[p] = "ending" /\ pc'[p] = "finishing" /\ WriteRecord(p, "completed")
      /\ UNCHANGED <<exit, dir, active, step, latest, faults, disk>>
  BY <1>1 DEF RecordCompleted, Goto, TypeOK, manager
<1>3. /\ Completed(p)' = (Completed(p) \/ "completed" = "completed")
      /\ (\A k \in DOMAIN registry[p] :
            registry[p][k].status = "completed" => registry[p][k].final = TotalEpochs)
         /\ latest[p] = TotalEpochs
         => \A k \in DOMAIN registry'[p] :
              registry'[p][k].status = "completed" => registry'[p][k].final = TotalEpochs
  BY <1>1, <1>2, LineAdded
<1>4. OutcomeAt(p)'
  <2>1. exit'[p] = -1 /\ active'[p]
    BY <1>1, <1>2 DEF OutcomeAt
  <2>2. QED
    BY <1>2, <2>1 DEF OutcomeAt
<1>5. p \in Trainings => SavedAt(p)'
  <2> SUFFICES ASSUME p \in Trainings PROVE SavedAt(p)'
    OBVIOUS
  <2>1. latest[p] = TotalEpochs /\ step[p] = TotalEpochs
    BY <1>1, <1>2 DEF SavedAt
  <2>2. ASSUME NEW s \in Steps, Due(s) PROVE Kept(p, s)'
    <3>1. s < step[p] \/ s = step[p]
      BY <2>1, LifecycleAssumption DEF Steps
    <3>2. Kept(p, s)
      BY <1>1, <1>2, <2>2, <3>1 DEF SavedAt
    <3>3. QED
      BY <1>1, <1>2, <3>2, KeptStays
  <2>3. QED
    BY <1>1, <1>2, <1>3, <2>1, <2>2 DEF SavedAt
<1>6. QED
  BY <1>1, <1>4, <1>5, OthersStay

LEMMA EndingOutcome ==
  ASSUME IInv, OutcomesFollow, SavesFollow, NEW p \in Processes,
         Finish(p) \/ EvaluationExits(p) \/ TrainComplete(p) \/ FinishFailed(p)
  PROVE  OutcomesFollow' /\ SavesFollow'
<1>1. TypeOK /\ RegistryAt(p) /\ OutcomeAt(p) /\ (p \in Trainings => SavedAt(p)) /\ Frame(p)
  BY OutcomeFacts, StepHasFrame DEF Step
<1>2. UNCHANGED <<step, latest, registry, disk>>
  BY DEF Finish, EvaluationExits, TrainComplete, FinishFailed, manager
<1>3. /\ faults'[p] = faults[p]
      /\ \/ pc[p] = "finishing" /\ pc'[p] = "ended" /\ exit'[p] = exit[p]
         \/ /\ pc[p] = "ended" /\ pc'[p] = "exited" /\ p \in Evaluations
            /\ exit'[p] = 0 /\ active'[p] = active[p]
         \/ /\ pc[p] = "ended" /\ pc'[p] = "handling" /\ p \in Trainings
            /\ exit'[p] = exit[p] /\ active'[p] = active[p]
         \/ pc[p] = "failing" /\ pc'[p] = "exited" /\ exit'[p] = 1
  BY <1>1 DEF Finish, EvaluationExits, TrainComplete, FinishFailed, Goto, Exit, TypeOK, manager
<1>4. Statuses(p)' = Statuses(p)
  BY <1>2 DEF Statuses
<1>5. Succeeded \notin {Running, Failed, Both}
  <2>1. Len(Succeeded) = 2 /\ Len(Running) = 1 /\ Len(Both) = 3 /\ Succeeded[2] # Failed[2]
    BY DEF Succeeded, Running, Both, Failed
  <2>2. QED
    BY <2>1
<1>6. OutcomeAt(p)'
  <2>1. pc'[p] # "exited" => exit'[p] = -1
    BY <1>1, <1>3 DEF OutcomeAt
  <2>2. CASE pc'[p] = "ended"
    BY <2>1, <2>2 DEF OutcomeAt
  <2>3. CASE pc'[p] = "handling"
    BY <1>1, <1>3, <1>4, <1>5, <2>1, <2>3, LifecycleAssumption DEF OutcomeAt, RegistryAt
  <2>4. CASE pc[p] = "ended" /\ pc'[p] = "exited"
    BY <1>1, <1>3, <1>4, <2>4 DEF OutcomeAt, RegistryAt
  <2>5. CASE pc[p] = "failing"
    BY <1>1, <1>3, <1>4, <1>5, <2>5 DEF OutcomeAt, RegistryAt
  <2>6. QED
    BY <1>3, <2>2, <2>3, <2>4, <2>5
<1>7. p \in Trainings => SavedAt(p)'
  BY <1>1, <1>2, <1>3, QuietSaves
<1>8. QED
  BY <1>1, <1>6, <1>7, OthersStay

LEMMA HandleOutcome ==
  ASSUME IInv, OutcomesFollow, SavesFollow, NEW p \in Processes, Handle(p)
  PROVE  OutcomesFollow' /\ SavesFollow'
<1>1. TypeOK /\ RegistryAt(p) /\ OutcomeAt(p) /\ (p \in Trainings => SavedAt(p)) /\ Frame(p)
  BY OutcomeFacts, StepHasFrame DEF Step
<1>2. pc[p] = "handling" /\ UNCHANGED <<dir, active, step, latest, faults, disk>>
  BY DEF Handle, manager
<1>3. CASE active[p]
  <2>1. pc'[p] = "failing" /\ exit'[p] = exit[p] /\ WriteRecord(p, "failed")
    BY <1>1, <1>3 DEF Handle, Goto, TypeOK
  <2>2. /\ Completed(p)' = (Completed(p) \/ "failed" = "completed")
        /\ (\A k \in DOMAIN registry[p] :
              registry[p][k].status = "completed" => registry[p][k].final = TotalEpochs)
           => \A k \in DOMAIN registry'[p] :
                registry'[p][k].status = "completed" => registry'[p][k].final = TotalEpochs
    BY <1>1, <2>1, LineAdded
  <2>3. OutcomeAt(p)'
    <3>1. exit'[p] = -1 /\ faults'[p] > 0
      BY <1>1, <1>2, <1>3, <2>1 DEF OutcomeAt
    <3>2. QED
      BY <2>1, <3>1 DEF OutcomeAt
  <2>4. p \in Trainings => SavedAt(p)'
    <3>1. p \in Trainings => \A s \in Steps : Kept(p, s) => Kept(p, s)'
      BY <1>1, <1>2, KeptStays
    <3>2. QED
      BY <1>1, <1>2, <2>1, <2>2, <3>1 DEF SavedAt
  <2>5. QED
    BY <1>1, <2>3, <2>4, OthersStay
<1>4. CASE ~active[p]
  <2>1. pc'[p] = "exited" /\ exit'[p] = 1 /\ UNCHANGED registry
    BY <1>1, <1>2, <1>4 DEF Handle, Exit, Goto, TypeOK
  <2>2. Statuses(p)' = Statuses(p)
    BY <2>1 DEF Statuses
  <2>3. OutcomeAt(p)'
    BY <1>1, <1>2, <1>4, <2>1, <2>2 DEF OutcomeAt, RegistryAt
  <2>4. p \in Trainings => SavedAt(p)'
    BY <1>1, <1>2, <2>1, QuietSaves
  <2>5. QED
    BY <1>1, <2>3, <2>4, OthersStay
<1>5. QED
  BY <1>3, <1>4

(* One fault more than the except clause was reached with, if it strikes   *)
(* there.                                                                  *)
LEMMA FaultOutcome ==
  ASSUME IInv, OutcomesFollow, SavesFollow, NEW p \in Processes, Fault(p)
  PROVE  OutcomesFollow' /\ SavesFollow'
<1>1. /\ TypeOK /\ RegistryAt(p) /\ OutcomeAt(p) /\ (p \in Trainings => SavedAt(p)) /\ Frame(p)
      /\ faults[p] \in Nat
  BY OutcomeFacts, StepHasFrame
<1>2. UNCHANGED <<step, latest, registry, disk, active>> /\ faults'[p] = faults[p] + 1
  BY <1>1 DEF Fault, Raises, manager, TypeOK
<1>3. \/ pc[p] \in Guarded /\ pc'[p] = "handling" /\ exit'[p] = exit[p]
      \/ pc[p] \in Bare /\ pc'[p] = "exited" /\ exit'[p] = 1
  BY <1>1 DEF Fault, Raises, Goto, Exit, TypeOK
<1>4. Statuses(p)' = Statuses(p)
  BY <1>2 DEF Statuses
<1>5. OutcomeAt(p)'
  <2>1. CASE pc[p] \in Guarded /\ pc'[p] = "handling" /\ exit'[p] = exit[p]
    <3>1. active'[p] /\ faults'[p] > 0 /\ exit'[p] = -1
      BY <1>1, <1>2, <2>1 DEF OutcomeAt, Guarded
    <3>2. QED
      BY <2>1, <3>1 DEF OutcomeAt
  <2>2. CASE pc[p] \in Bare /\ pc'[p] = "exited" /\ exit'[p] = 1
    <3>1. faults'[p] # 0 /\ (faults[p] > 0 => faults'[p] > 1)
      BY <1>1, <1>2
    <3>2. Statuses(p)' = <<>> \/ faults'[p] > 1 \/ (Statuses(p)' = Succeeded /\ p \notin Evaluations)
      BY <1>1, <1>4, <2>2, <3>1 DEF OutcomeAt, RegistryAt, Bare
    <3>3. <<>> # Succeeded
      <4>1. Len(Succeeded) = 2
        BY DEF Succeeded
      <4>2. QED
        BY <4>1
    <3>4. QED
      BY <2>2, <3>1, <3>2, <3>3 DEF OutcomeAt
  <2>3. QED
    BY <1>3, <2>1, <2>2
<1>6. p \in Trainings => SavedAt(p)'
  BY <1>1, <1>2, <1>3, QuietSaves DEF Guarded, Bare
<1>7. QED
  BY <1>1, <1>5, <1>6, OthersStay

LEMMA KillOutcome ==
  ASSUME IInv, OutcomesFollow, SavesFollow, NEW p \in Processes, Kill(p)
  PROVE  OutcomesFollow' /\ SavesFollow'
<1>1. TypeOK /\ OutcomeAt(p) /\ (p \in Trainings => SavedAt(p)) /\ Frame(p)
  BY OutcomeFacts, StepHasFrame
<1>2. /\ pc[p] # "new" /\ pc[p] # "exited" /\ pc'[p] = "killed"
      /\ UNCHANGED <<exit, step, latest, registry, disk, active, faults>>
  BY <1>1 DEF Kill, Goto, manager, TypeOK
<1>3. OutcomeAt(p)'
  BY <1>1, <1>2 DEF OutcomeAt, Statuses
<1>4. p \in Trainings => SavedAt(p)'
  BY <1>1, <1>2, QuietSaves
<1>5. QED
  BY <1>1, <1>3, <1>4, OthersStay

LEMMA OutcomeInit == Init => OutcomesFollow /\ SavesFollow
<1> SUFFICES ASSUME Init PROVE OutcomesFollow /\ SavesFollow
  OBVIOUS
<1>1. DOMAIN <<>> = {}
  BY EmptySeq, LenProperties, 1..0 = {}
<1>2. \A p \in Processes : registry[p] = <<>>
  BY DEF Init
<1>3. \A p \in Processes : ~Completed(p)
  BY <1>1, <1>2 DEF Completed
<1>4. OutcomesFollow
  BY DEF Init, OutcomesFollow, OutcomeAt
<1>5. SavesFollow
  BY <1>1, <1>2, <1>3 DEF Init, SavesFollow, SavedAt, Processes
<1>6. QED
  BY <1>4, <1>5

(* The lines of the registry, the exit codes and the checkpoints of every  *)
(* run belong together.                                                    *)
THEOREM OutcomeInvariance == Spec => [](OutcomesFollow /\ SavesFollow)
<1>1. Init => OutcomesFollow /\ SavesFollow
  BY OutcomeInit
<1>2. IInv /\ OutcomesFollow /\ SavesFollow /\ [Next]_vars => OutcomesFollow' /\ SavesFollow'
  <2> SUFFICES ASSUME IInv, OutcomesFollow, SavesFollow, [Next]_vars
               PROVE  OutcomesFollow' /\ SavesFollow'
    OBVIOUS
  <2>1. CASE Tick \/ UNCHANGED vars
    <3>1. UNCHANGED <<pc, exit, dir, active, step, latest, faults, registry, disk>>
      BY <2>1 DEF Tick, vars, script, manager
    <3>2. QED
      BY <3>1 DEF OutcomesFollow, SavesFollow, OutcomeAt, SavedAt, Statuses, Completed, Kept, Shares
  <2>2. ASSUME NEW p \in Processes, Step(p) PROVE OutcomesFollow' /\ SavesFollow'
    BY <2>2, StartRunOutcome, RecordRunningOutcome, EpochOutcome, OpenMetadataOutcome,
       WriteMetadataOutcome, WorkDoneOutcome, RecordCompletedOutcome, EndingOutcome,
       HandleOutcome DEF Step
  <2>3. ASSUME NEW p \in Processes, Fault(p) \/ Kill(p) PROVE OutcomesFollow' /\ SavesFollow'
    BY <2>3, FaultOutcome, KillOutcome
  <2>4. QED
    BY <2>1, <2>2, <2>3 DEF Next
<1>3. QED
  BY <1>1, <1>2, LifecycleInvariance, PTL DEF Spec

(* An evaluation exits with 0 only if its run is recorded as completed and *)
(* with at most one exception exactly then; a training never exits with 0. *)
(* The registry tells both: a script that met no exception is recorded as  *)
(* completed, and one exception, wherever it strikes, leaves no run        *)
(* without its last line (memory_train.py, memory_eval.py, end_run).       *)
THEOREM OutcomesCorrect == Spec => []OutcomesAreRecorded
<1>1. IInv /\ OutcomesFollow => OutcomesAreRecorded
  <2> SUFFICES ASSUME IInv, OutcomesFollow PROVE OutcomesAreRecorded
    OBVIOUS
  <2>1. ExitCodesAreSound
    <3> SUFFICES ASSUME NEW p \in Processes
                 PROVE  /\ exit[p] = 0 =>
                             p \in Evaluations /\ Statuses(p) = Succeeded /\ ~active[p]
                        /\ p \in Evaluations /\ pc[p] = "exited" /\ faults[p] <= 1 =>
                             (exit[p] = 0 <=> Statuses(p) = Succeeded)
      BY DEF ExitCodesAreSound, Succeeded
    <3>1. OutcomeAt(p) /\ faults[p] \in Nat
      BY LifecycleAssumption DEF OutcomesFollow, IInv, TypeOK
    <3>2. ~(faults[p] <= 1 /\ faults[p] > 1)
      BY <3>1
    <3>3. QED
      BY <3>1, <3>2 DEF OutcomeAt
  <2>2. ASSUME NEW p \in Processes, pc[p] = "exited", faults[p] <= 1, registry[p] # <<>>
        PROVE  Len(registry[p]) > 1
    <3>1. faults[p] \in Nat /\ registry[p] \in Seq(Lines)
      BY LifecycleAssumption DEF IInv, TypeOK
    <3>2. Statuses(p) \in {<<>>, Succeeded, Failed, Both}
      BY <2>2, <3>1 DEF OutcomesFollow, OutcomeAt
    <3>3. DOMAIN Statuses(p) = 1..Len(registry[p]) /\ Len(registry[p]) \in Nat
      BY <3>1, LenProperties DEF Statuses
    <3>4. Len(registry[p]) > 0
      BY <2>2, <3>1, EmptySeq
    <3>5. 2 \in DOMAIN Succeeded /\ 2 \in DOMAIN Failed /\ 2 \in DOMAIN Both
      <4>1. /\ Succeeded \in Seq({"running", "completed"}) /\ Len(Succeeded) = 2
            /\ Failed \in Seq({"running", "failed"}) /\ Len(Failed) = 2
            /\ Both \in Seq({"running", "completed", "failed"}) /\ Len(Both) = 3
        BY DEF Succeeded, Failed, Both
      <4>2. QED
        BY <4>1, LenProperties
    <3>6. DOMAIN <<>> = {}
      BY EmptySeq, LenProperties, 1..0 = {}
    <3>7. CASE Statuses(p) = <<>>
      BY <3>3, <3>4, <3>6, <3>7
    <3>8. CASE Statuses(p) \in {Succeeded, Failed, Both}
      BY <3>3, <3>5, <3>8
    <3>9. QED
      BY <3>2, <3>7, <3>8
  <2>3. \A p \in Processes : pc[p] = "exited" /\ faults[p] = 0 => Statuses(p) = Succeeded
    BY DEF OutcomesFollow, OutcomeAt
  <2>4. QED
    BY <2>1, <2>2, <2>3 DEF OutcomesAreRecorded, OneFaultIsRecorded, Succeeded
<1>2. QED
  BY <1>1, LifecycleInvariance, OutcomeInvariance, PTL

(* A training recorded as completed reports the metrics of its last epoch, *)
(* and every checkpoint that was due is there: in a directory of its own   *)
(* it is its own and can be loaded; if another trial was given the same    *)
(* directory, a file of that name exists (train_loop, save_checkpoint).    *)
THEOREM SavesCorrect == Spec => []CompletedMeansSaved
<1>1. SavesFollow => CompletedMeansSaved
  BY DEF SavesFollow, SavedAt, Kept, CompletedMeansSaved
<1>2. QED
  BY <1>1, OutcomeInvariance, PTL
=============================================================================
