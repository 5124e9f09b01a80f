--------------------- MODULE DocumentTaskScheduler_proofs ---------------------
(***************************************************************************)
(* Proofs that IInv is an inductive invariant of DocumentTaskScheduler, and *)
(* of the safety properties it contains, for any set of documents, any     *)
(* number of tasks and any number of workers.                              *)
(***************************************************************************)
EXTENDS DocumentTaskScheduler, FiniteSetTheorems, TLAPS

-----------------------------------------------------------------------------
(* Lemmas about the operators of the module *)

\* What is in front of a queue and what is behind it.
LEMMA HeadAndTail ==
  ASSUME NEW S, NEW q \in Seq(S), q # <<>>
  PROVE  /\ Head(q) \in S /\ Head(q) = q[1] /\ Len(q) \in Nat \ {0}
         /\ Tail(q) \in Seq(S)
         /\ Len(Tail(q)) = Len(q) - 1
         /\ \A i \in 1 .. Len(Tail(q)) : i + 1 \in 1 .. Len(q) /\ Tail(q)[i] = q[i + 1]
         /\ \A i \in 1 .. Len(q) : i = 1 \/ (i - 1 \in 1 .. Len(Tail(q)) /\ q[i] = Tail(q)[i - 1])
  OBVIOUS

LEMMA EmptySeq ==
  ASSUME NEW S, NEW q \in Seq(S), Len(q) = 0
  PROVE  q = <<>>
  OBVIOUS

\* What is in a queue to which something is appended.
LEMMA Appended ==
  ASSUME NEW S, NEW q \in Seq(S), NEW x \in S
  PROVE  /\ Append(q, x) \in Seq(S)
         /\ Append(q, x) # <<>>
         /\ Len(q) \in Nat
         /\ Len(Append(q, x)) = Len(q) + 1
         /\ \A i \in 1 .. Len(q) : Append(q, x)[i] = q[i]
         /\ Append(q, x)[Len(q) + 1] = x
  OBVIOUS

\* The reads in flight of a document can be counted.
LEMMA ReadsFinite ==
  ASSUME NEW d
  PROVE  IsFiniteSet(ReadsInFlight(d)) /\ Cardinality(ReadsInFlight(d)) \in Nat
<1>1. IsFiniteSet(Tasks)
  BY FS_Interval, MaxTasksAssumption DEF Tasks
<1>2. ReadsInFlight(d) \subseteq Tasks
  BY DEF ReadsInFlight
<1> QED
  BY <1>1, <1>2, FS_Subset, FS_CardinalityType

-----------------------------------------------------------------------------
(* The initial states *)

LEMMA InitIInv == Init => IInv
<1> SUFFICES ASSUME Init PROVE IInv
  OBVIOUS
<1>1. TypeOK
  <2>1. 0 \in 0 .. MaxTasks
    BY MaxTasksAssumption
  <2>2. queue \in [Documents -> Seq(Tasks)]
    BY DEF Init
  <2>3. readyDocuments \in Seq(Documents) /\ pool \in Seq(Tasks)
    BY DEF Init
  <2>4. /\ phase \in [Tasks -> Phases] /\ wasStillReady \in [Tasks -> BOOLEAN]
        /\ runningWrite \in [Documents -> BOOLEAN] /\ runningReads \in [Documents -> Nat]
    BY DEF Init, Phases
  <2>5. /\ job \in [Tasks -> Jobs]
        /\ schedulerPc \in SchedulerPcs /\ mainPc \in MainPcs /\ shutdown \in BOOLEAN
    BY DEF Init, SchedulerPcs, MainPcs
  <2> QED
    BY <2>1, <2>2, <2>3, <2>4, <2>5 DEF Init, TypeOK
<1>2. \A t \in Tasks : phase[t] = "unscheduled"
  BY DEF Init
<1>3. PhasesFollowCalls
  BY <1>2 DEF Init, PhasesFollowCalls, Tasks
<1>4. QueuesSound /\ DispatchedInOrder
  BY <1>2 DEF Init, QueuesSound, DispatchedInOrder, Dispatched
<1>5. CountersExact
  <2>1. \A d : ReadsInFlight(d) = {}
    BY <1>2 DEF ReadsInFlight, InFlight
  <2> QED
    BY <1>2, <2>1, FS_EmptySet DEF Init, CountersExact, InFlight
<1>6. NothingJoinsAWrite /\ BlockersSound /\ ReadyListSound
  BY <1>2 DEF Init, NothingJoinsAWrite, BlockersSound, ReadyListSound, InFlight, Blocking
<1>7. HandoversSound /\ ThreadsEndInOrder /\ ShutdownDrains
  BY <1>2 DEF Init, HandoversSound, ThreadsEndInOrder, ShutdownDrains
<1> QED
  BY <1>1, <1>3, <1>4, <1>5, <1>6, <1>7 DEF IInv

-----------------------------------------------------------------------------
(* The steps that move only the threads *)

LEMMA ThreadStep ==
  ASSUME IInv,
         UNCHANGED <<job, scheduled, phase, wasStillReady, documentVars, pool>>,
         ScheduleNotify \/ Shutdown \/ ShutdownNotifyAll \/ ShutdownJoin
           \/ StopPool \/ Wait \/ SpuriousWakeup \/ Exit \/ UNCHANGED vars
  PROVE  IInv'
<1> USE DEF IInv, documentVars
<1>1. TypeOK'
  BY DEF TypeOK, ScheduleNotify, Shutdown, ShutdownNotifyAll, ShutdownJoin, StopPool,
         Wait, SpuriousWakeup, Exit, Notify, SchedulerPcs, MainPcs, vars
<1>2. PhasesFollowCalls' /\ QueuesSound' /\ DispatchedInOrder' /\ NothingJoinsAWrite'
      /\ ReadyListSound' /\ BlockersSound'
  BY DEF PhasesFollowCalls, QueuesSound, DispatchedInOrder, NothingJoinsAWrite,
         ReadyListSound, BlockersSound, InFlight, Blocking, Dispatched, SameDocument,
         Document, IsWrite
<1>3. CountersExact'
  BY DEF CountersExact, ReadsInFlight, InFlight, Document, IsWrite
<1>4. schedulerPc = "submitting" <=> schedulerPc' = "submitting"
  BY DEF ScheduleNotify, Shutdown, ShutdownNotifyAll, ShutdownJoin, StopPool,
         Wait, SpuriousWakeup, Exit, Notify, vars
<1>5. HandoversSound'
  BY <1>4 DEF HandoversSound
<1>6. ThreadsEndInOrder'
  BY DEF ThreadsEndInOrder, ScheduleNotify, Shutdown, ShutdownNotifyAll, ShutdownJoin,
         StopPool, Wait, SpuriousWakeup, Exit, Notify, drained, vars
<1>7. ShutdownDrains'
  <2>1. schedulerPc' = "exited" => ~has_any_task
    BY DEF ShutdownDrains, ScheduleNotify, Shutdown, ShutdownNotifyAll, ShutdownJoin,
           StopPool, Wait, SpuriousWakeup, Exit, Notify, drained, vars
  <2>2. ASSUME mainPc' = "stopped", mainPc # "stopped", NEW t \in Tasks, t <= scheduled
        PROVE  phase[t] = "done"
    <3>1. StopPool
      BY <2>2 DEF ScheduleNotify, Shutdown, ShutdownNotifyAll, ShutdownJoin, Wait,
                  SpuriousWakeup, Exit, vars
    <3>2. /\ schedulerPc = "exited" /\ ~has_any_task
          /\ pool = <<>> /\ Busy = {}
      BY <3>1 DEF StopPool, ThreadsEndInOrder, ShutdownDrains
    <3>3. phase[t] # "unscheduled"
      BY <2>2, MaxTasksAssumption DEF PhasesFollowCalls, TypeOK, Tasks
    <3>4. phase[t] # "queued"
      BY <3>2 DEF QueuesSound, has_any_task, TypeOK, Document, Jobs
    <3>5. phase[t] \notin {"handoff", "pooled"}
      BY <3>2 DEF HandoversSound
    <3>6. phase[t] \notin {"executing", "notifying"}
      BY <3>2 DEF Busy
    <3> QED
      BY <3>3, <3>4, <3>5, <3>6 DEF TypeOK, Phases
  <2> QED
    BY <2>1, <2>2 DEF ShutdownDrains, has_any_task
<1> QED
  BY <1>1, <1>2, <1>3, <1>5, <1>6, <1>7

-----------------------------------------------------------------------------
(* The steps on the way of a task through the pool *)

\* These steps leave alone who is counted as running and every queue.
LEMMA SameInFlight ==
  ASSUME IInv, UNCHANGED <<job, wasStillReady, documentVars>>,
         \A t \in Tasks : InFlight(t)' <=> InFlight(t)
  PROVE  CountersExact' /\ NothingJoinsAWrite' /\ ReadyListSound' /\ BlockersSound'
<1> USE DEF IInv, documentVars
<1>1. \A d : ReadsInFlight(d)' = ReadsInFlight(d)
  BY DEF ReadsInFlight, Document, IsWrite
<1>2. CountersExact'
  BY <1>1 DEF CountersExact, Document, IsWrite
<1>3. NothingJoinsAWrite' /\ BlockersSound'
  BY DEF NothingJoinsAWrite, BlockersSound, Blocking, SameDocument, Document, IsWrite
<1>4. ReadyListSound'
  BY DEF ReadyListSound, Document
<1> QED
  BY <1>2, <1>3, <1>4

\* ... and these, too, leave alone which tasks are queued.
LEMMA SameQueued ==
  ASSUME IInv, UNCHANGED <<job, queue>>,
         \A t \in Tasks : phase'[t] = "queued" <=> phase[t] = "queued"
  PROVE  QueuesSound'
<1>1. \A d \in Documents : \A i \in 1 .. Len(queue[d]) : queue[d][i] \in Tasks
  BY DEF IInv, TypeOK
<1> QED
  BY <1>1 DEF IInv, QueuesSound, Document

LEMMA SubmitStep ==
  ASSUME IInv, NEW t \in Tasks, Submit(t)
  PROVE  IInv'
<1> USE DEF IInv, documentVars
<1>1. /\ phase' = [phase EXCEPT ![t] = "pooled"] /\ phase[t] = "handoff"
      /\ pool' = Append(pool, t)
      /\ schedulerPc = "submitting" /\ schedulerPc' = "checking"
      /\ UNCHANGED <<job, scheduled, wasStillReady, documentVars, mainPc, shutdown>>
  BY DEF Submit
<1>2. /\ phase \in [Tasks -> Phases] /\ pool \in Seq(Tasks)
      /\ \A u \in Tasks : phase'[u] = IF u = t THEN "pooled" ELSE phase[u]
  BY <1>1 DEF TypeOK
<1>3. TypeOK'
  BY <1>1, <1>2, Appended DEF TypeOK, Phases, SchedulerPcs
<1>4. PhasesFollowCalls' /\ DispatchedInOrder'
  BY <1>1, <1>2 DEF PhasesFollowCalls, DispatchedInOrder, Dispatched, SameDocument, Document
<1>5. QueuesSound'
  BY <1>1, <1>2, SameQueued
<1>6. \A u \in Tasks : InFlight(u)' <=> InFlight(u)
  BY <1>1, <1>2 DEF InFlight
<1>7. CountersExact' /\ NothingJoinsAWrite' /\ ReadyListSound' /\ BlockersSound'
  BY <1>1, <1>6, SameInFlight
<1>8. HandoversSound'
  <2>1. \A u \in Tasks : phase'[u] # "handoff"
    BY <1>1, <1>2 DEF HandoversSound
  <2>2. /\ Len(pool) \in Nat /\ Len(pool') = Len(pool) + 1 /\ pool'[Len(pool) + 1] = t
        /\ \A i \in 1 .. Len(pool) : pool'[i] = pool[i]
    BY <1>1, <1>2, Appended
  <2>3. \A i \in 1 .. Len(pool) : pool[i] # t /\ pool[i] \in Tasks
    BY <1>1, <1>2 DEF HandoversSound
  <2>4. \A i \in 1 .. Len(pool') : phase'[pool'[i]] = "pooled"
    BY <1>1, <1>2, <2>2, <2>3 DEF HandoversSound
  <2>5. \A i, j \in 1 .. Len(pool') : pool'[i] = pool'[j] => i = j
    BY <2>2, <2>3 DEF HandoversSound
  <2>6. ASSUME NEW u \in Tasks, phase'[u] = "pooled"
        PROVE  \E i \in 1 .. Len(pool') : pool'[i] = u
    BY <1>2, <2>2, <2>6 DEF HandoversSound
  <2> QED
    BY <2>1, <2>4, <2>5, <2>6 DEF HandoversSound
<1>9. ThreadsEndInOrder' /\ ShutdownDrains'
  BY <1>1 DEF ThreadsEndInOrder, ShutdownDrains
<1> QED
  BY <1>3, <1>4, <1>5, <1>7, <1>8, <1>9

LEMMA StartTaskStep ==
  ASSUME IInv, StartTask
  PROVE  IInv'
<1> USE DEF IInv, documentVars
<1> DEFINE t == Head(pool)
<1>1. /\ pool # <<>> /\ pool \in Seq(Tasks) /\ pool' = Tail(pool)
      /\ phase' = [phase EXCEPT ![t] = "executing"]
      /\ UNCHANGED <<job, scheduled, wasStillReady, documentVars, schedulerPc, mainPc, shutdown>>
  BY DEF StartTask, TypeOK
<1>2. /\ t \in Tasks /\ t = pool[1]
      /\ Len(pool) \in Nat \ {0} /\ pool' \in Seq(Tasks) /\ Len(pool') = Len(pool) - 1
      /\ \A i \in 1 .. Len(pool') : i + 1 \in 1 .. Len(pool) /\ pool'[i] = pool[i + 1]
      /\ \A i \in 1 .. Len(pool) : i = 1 \/ (i - 1 \in 1 .. Len(pool') /\ pool[i] = pool'[i - 1])
  BY <1>1, HeadAndTail
<1>3. phase[t] = "pooled"
  BY <1>2 DEF HandoversSound
<1> HIDE DEF t
<1>4. /\ phase \in [Tasks -> Phases]
      /\ \A u \in Tasks : phase'[u] = IF u = t THEN "executing" ELSE phase[u]
  BY <1>1, <1>2 DEF TypeOK
<1>5. TypeOK'
  BY <1>1, <1>2 DEF TypeOK, Phases
<1>6. PhasesFollowCalls' /\ DispatchedInOrder'
  BY <1>1, <1>2, <1>3, <1>4 DEF PhasesFollowCalls, DispatchedInOrder, Dispatched, SameDocument, Document
<1>7. QueuesSound'
  BY <1>1, <1>2, <1>3, <1>4, SameQueued
<1>8. \A u \in Tasks : InFlight(u)' <=> InFlight(u)
  BY <1>3, <1>4 DEF InFlight
<1>9. CountersExact' /\ NothingJoinsAWrite' /\ ReadyListSound' /\ BlockersSound'
  BY <1>1, <1>8, SameInFlight
<1>10. HandoversSound'
  <2>1. \A i \in 1 .. Len(pool') : pool'[i] \in Tasks \ {t} /\ phase'[pool'[i]] = "pooled"
    BY <1>2, <1>3, <1>4 DEF HandoversSound
  <2>2. \A i, j \in 1 .. Len(pool') : pool'[i] = pool'[j] => i = j
    BY <1>2 DEF HandoversSound
  <2>3. ASSUME NEW u \in Tasks, phase'[u] = "pooled"
        PROVE  \E i \in 1 .. Len(pool') : pool'[i] = u
    <3>1. u # t /\ phase[u] = "pooled"
      BY <1>4, <2>3
    <3>2. PICK i \in 1 .. Len(pool) : pool[i] = u
      BY <3>1 DEF HandoversSound
    <3> QED
      BY <1>2, <3>1, <3>2
  <2>4. /\ \A u \in Tasks : phase'[u] = "handoff" => schedulerPc' = "submitting"
        /\ \A u, v \in Tasks : phase'[u] = "handoff" /\ phase'[v] = "handoff" => u = v
    BY <1>1, <1>4 DEF HandoversSound
  <2> QED
    BY <2>1, <2>2, <2>3, <2>4 DEF HandoversSound
<1>11. ThreadsEndInOrder' /\ ShutdownDrains'
  <2>1. mainPc' # "stopped"
    BY <1>1, <1>2, <1>3, MaxTasksAssumption, SMTT(30)
       DEF ShutdownDrains, PhasesFollowCalls, TypeOK, Tasks
  <2> QED
    BY <1>1, <2>1 DEF ThreadsEndInOrder, ShutdownDrains, has_any_task
<1> QED
  BY <1>5, <1>6, <1>7, <1>9, <1>10, <1>11

LEMMA NotifyCompletionStep ==
  ASSUME IInv, NEW t \in Tasks, NotifyCompletion(t)
  PROVE  IInv'
<1> USE DEF IInv, documentVars
<1>1. /\ phase' = [phase EXCEPT ![t] = "done"] /\ phase[t] = "notifying"
      /\ UNCHANGED <<job, scheduled, wasStillReady, documentVars, pool, mainPc, shutdown>>
  BY DEF NotifyCompletion
<1>2. /\ schedulerPc' \in SchedulerPcs
      /\ schedulerPc = "submitting" <=> schedulerPc' = "submitting"
      /\ schedulerPc = "exited" <=> schedulerPc' = "exited"
  BY DEF NotifyCompletion, Notify, TypeOK, SchedulerPcs
<1>3. /\ phase \in [Tasks -> Phases]
      /\ \A u \in Tasks : phase'[u] = IF u = t THEN "done" ELSE phase[u]
  BY <1>1 DEF TypeOK
<1>4. TypeOK'
  BY <1>1, <1>2 DEF TypeOK, Phases
<1>5. PhasesFollowCalls' /\ DispatchedInOrder'
  BY <1>1, <1>3 DEF PhasesFollowCalls, DispatchedInOrder, Dispatched, SameDocument, Document
<1>6. QueuesSound'
  BY <1>1, <1>3, SameQueued
<1>7. \A u \in Tasks : InFlight(u)' <=> InFlight(u)
  BY <1>1, <1>3 DEF InFlight
<1>8. CountersExact' /\ NothingJoinsAWrite' /\ ReadyListSound' /\ BlockersSound'
  BY <1>1, <1>7, SameInFlight
<1>9. HandoversSound'
  <2>1. \A i \in 1 .. Len(pool) : pool[i] \in Tasks
    BY DEF TypeOK
  <2> QED
    BY <1>1, <1>2, <1>3, <2>1 DEF HandoversSound
<1>10. ThreadsEndInOrder' /\ ShutdownDrains'
  BY <1>1, <1>2, <1>3 DEF ThreadsEndInOrder, ShutdownDrains, has_any_task
<1> QED
  BY <1>4, <1>5, <1>6, <1>8, <1>9, <1>10

-----------------------------------------------------------------------------
(* The steps that change the queues, the counters and the ready list *)

LEMMA ScheduleStep ==
  ASSUME IInv, Schedule
  PROVE  IInv'
<1> USE DEF IInv
<1> DEFINE t == scheduled + 1
           d == Document(t)
           q == Append(queue[d], t)
<1>1. t \in Tasks /\ d \in Documents /\ phase[t] = "unscheduled"
  BY MaxTasksAssumption DEF Schedule, TypeOK, Tasks, PhasesFollowCalls, Document, Jobs
<1>2. /\ mainPc = "serving" /\ mainPc' = "notifying" /\ scheduled' = t
      /\ phase' = [phase EXCEPT ![t] = "queued"]
      /\ queue' = [queue EXCEPT ![d] = q]
      /\ readyDocuments' = IF Len(q) = 1 /\ ~runningWrite[d] /\ runningReads[d] = 0
                           THEN Append(readyDocuments, d) ELSE readyDocuments
      /\ UNCHANGED <<job, wasStillReady, runningWrite, runningReads, pool, schedulerPc, shutdown>>
  BY DEF Schedule, enqueued
<1>3. /\ queue[d] \in Seq(Tasks) /\ q \in Seq(Tasks) /\ q # <<>>
      /\ Len(queue[d]) \in Nat /\ Len(q) = Len(queue[d]) + 1 /\ q[Len(q)] = t
      /\ \A i \in 1 .. Len(queue[d]) : q[i] = queue[d][i] /\ q[i] \in Tasks
  <2>1. queue[d] \in Seq(Tasks)
    BY <1>1 DEF TypeOK
  <2>2. \A i \in 1 .. Len(queue[d]) : queue[d][i] \in Tasks
    BY <2>1
  <2> HIDE DEF t, d
  <2> QED
    BY <1>1, <2>1, <2>2, Appended
<1>4. \A i \in 1 .. Len(q) : i \in 1 .. Len(queue[d]) \/ i = Len(q)
  BY <1>3
<1>5. /\ phase \in [Tasks -> Phases] /\ queue \in [Documents -> Seq(Tasks)]
      /\ readyDocuments \in Seq(Documents)
      /\ \A u \in Tasks : phase'[u] = IF u = t THEN "queued" ELSE phase[u]
      /\ \A e \in Documents : queue'[e] = IF e = d THEN q ELSE queue[e]
      /\ \A u \in Tasks : Document(u)' = Document(u) /\ Document(u) \in Documents
  BY <1>1, <1>2 DEF TypeOK, Document, Jobs
<1>6. scheduled \in Nat /\ scheduled' \in 0 .. MaxTasks
  BY <1>1, <1>2, MaxTasksAssumption DEF TypeOK, Tasks
<1> HIDE DEF q, d
<1>7. TypeOK'
  <2>1. readyDocuments' \in Seq(Documents)
    BY <1>1, <1>2, <1>5, Appended
  <2> QED
    BY <1>1, <1>2, <1>3, <1>5, <1>6, <2>1 DEF TypeOK, Phases, MainPcs
<1>8. PhasesFollowCalls'
  BY <1>1, <1>2, <1>5, <1>6 DEF PhasesFollowCalls, Tasks
<1>9. QueuesSound'
  <2>1. \A i \in 1 .. Len(q) : Document(q[i]) = d /\ phase'[q[i]] = "queued"
    <3>1. ASSUME NEW i \in 1 .. Len(queue[d])
          PROVE  Document(q[i]) = d /\ phase'[q[i]] = "queued"
      <4>1. Document(queue[d][i]) = d /\ phase[queue[d][i]] = "queued"
        BY <1>1 DEF QueuesSound
      <4>2. q[i] = queue[d][i] /\ q[i] \in Tasks
        BY <1>3
      <4> HIDE DEF t
      <4> QED
        BY <1>1, <1>5, <4>1, <4>2
    <3>2. Document(q[Len(q)]) = d /\ phase'[q[Len(q)]] = "queued"
      BY <1>1, <1>3, <1>5 DEF d
    <3> QED
      BY <1>4, <3>1, <3>2
  <2>2. \A i \in 1 .. Len(queue[d]) : queue[d][i] < t
    <3>1. \A u \in Tasks : phase[u] = "queued" => u < t
      BY <1>6 DEF PhasesFollowCalls, Tasks
    <3> QED
      BY <1>1, <1>3, <3>1 DEF QueuesSound
  <2>3. \A i, j \in 1 .. Len(q) : i < j => q[i] < q[j]
    BY <1>1, <1>3, <1>4, <2>2 DEF QueuesSound
  <2>4. ASSUME NEW e \in Documents, NEW i \in 1 .. Len(queue'[e])
        PROVE  Document(queue'[e][i]) = e /\ phase'[queue'[e][i]] = "queued"
    <3>1. CASE e = d
      BY <1>5, <2>1, <2>4, <3>1
    <3>2. CASE e # d
      <4>1. queue'[e] = queue[e] /\ i \in 1 .. Len(queue[e]) /\ queue[e] \in Seq(Tasks)
        BY <1>5, <2>4, <3>2
      <4>2. queue[e][i] \in Tasks
        BY <4>1
      <4>3. Document(queue[e][i]) = e /\ phase[queue[e][i]] = "queued"
        BY <4>1 DEF QueuesSound
      <4>4. queue[e][i] # t
        BY <1>1, <3>2, <4>3 DEF d
      <4> QED
        BY <1>5, <4>1, <4>2, <4>3, <4>4
    <3> QED
      BY <3>1, <3>2
  <2>5. \A e \in Documents : \A i, j \in 1 .. Len(queue'[e]) : i < j => queue'[e][i] < queue'[e][j]
    BY <1>5, <2>3 DEF QueuesSound
  <2>6. ASSUME NEW u \in Tasks, phase'[u] = "queued"
        PROVE  \E i \in 1 .. Len(queue'[Document(u)]) : queue'[Document(u)][i] = u
    <3>1. CASE u = t
      <4>1. queue'[Document(u)] = q
        BY <1>1, <1>5, <3>1 DEF d
      <4>2. Len(q) \in 1 .. Len(q) /\ q[Len(q)] = u
        BY <1>1, <1>3, <3>1
      <4> QED
        BY <4>1, <4>2
    <3>2. CASE u # t
      <4>1. PICK i \in 1 .. Len(queue[Document(u)]) : queue[Document(u)][i] = u
        BY <1>5, <2>6, <3>2 DEF QueuesSound
      <4> QED
        <5>1. CASE Document(u) = d
          <6>1. i \in 1 .. Len(q) /\ q[i] = u
            BY <1>3, <4>1, <5>1
          <6> QED
            BY <1>1, <1>5, <5>1, <6>1
        <5>2. CASE Document(u) # d
          BY <1>5, <4>1, <5>2
        <5> QED
          BY <5>1, <5>2
    <3> QED
      BY <3>1, <3>2
  <2> QED
    BY <1>2, <2>4, <2>5, <2>6 DEF QueuesSound, Document
<1>10. /\ \A u \in Tasks : InFlight(u)' <=> InFlight(u)
       /\ \A u \in Tasks : Dispatched(u)' <=> Dispatched(u)
  BY <1>1, <1>5 DEF InFlight, Dispatched
<1>11. DispatchedInOrder' /\ NothingJoinsAWrite'
  BY <1>2, <1>10 DEF DispatchedInOrder, NothingJoinsAWrite, SameDocument, Document, IsWrite
<1>12. CountersExact'
  <2>1. \A e : ReadsInFlight(e)' = ReadsInFlight(e)
    BY <1>2, <1>10 DEF ReadsInFlight, Document, IsWrite
  <2> QED
    BY <1>2, <1>10, <2>1 DEF CountersExact, Document, IsWrite
<1>13. ReadyListSound' /\ BlockersSound'
  <2>1. CASE Len(q) = 1 /\ ~runningWrite[d] /\ runningReads[d] = 0
    <3>1. queue[d] = <<>>
      <4> HIDE DEF t
      <4>1. Len(queue[d]) \in Nat /\ Len(q) = Len(queue[d]) + 1
        BY <1>3
      <4>2. Len(queue[d]) = 0
        <5>1. Len(q) = 1
          BY <2>1
        <5> QED
          BY <4>1, <5>1
      <4> QED
        BY <1>3, <4>2, EmptySeq
    <3>2. \A i \in 1 .. Len(readyDocuments) : readyDocuments[i] # d
      BY <3>1 DEF ReadyListSound
    <3>3. ReadsInFlight(d) = {}
      <4>1. Cardinality(ReadsInFlight(d)) = 0
        BY <1>1, <2>1 DEF CountersExact
      <4> QED
        BY <4>1, ReadsFinite, FS_EmptySet
    <3>4. \A u \in Tasks : InFlight(u) => Document(u) # d
      BY <1>1, <2>1, <3>3 DEF CountersExact, ReadsInFlight
    <3>5. /\ Len(readyDocuments) \in Nat /\ Len(readyDocuments') = Len(readyDocuments) + 1
          /\ readyDocuments'[Len(readyDocuments) + 1] = d
          /\ \A i \in 1 .. Len(readyDocuments) : readyDocuments'[i] = readyDocuments[i]
          /\ \A i \in 1 .. Len(readyDocuments) : readyDocuments[i] \in Documents
      BY <1>1, <1>2, <1>5, <2>1, Appended
    <3>6. ReadyListSound'
      <4>1. ASSUME NEW i \in 1 .. Len(readyDocuments')
            PROVE  /\ queue'[readyDocuments'[i]] # <<>>
                   /\ \A u \in Tasks : InFlight(u) /\ Document(u) = readyDocuments'[i] => wasStillReady[u]
        <5>1. CASE i \in 1 .. Len(readyDocuments)
          BY <1>5, <3>2, <3>5, <5>1 DEF ReadyListSound
        <5>2. CASE i = Len(readyDocuments) + 1
          BY <1>1, <1>3, <1>5, <3>4, <3>5, <5>2
        <5> QED
          BY <3>5, <5>1, <5>2
      <4>2. \A i, j \in 1 .. Len(readyDocuments') : readyDocuments'[i] = readyDocuments'[j] => i = j
        BY <3>2, <3>5 DEF ReadyListSound
      <4> QED
        BY <1>2, <1>5, <1>10, <4>1, <4>2 DEF ReadyListSound
    <3>7. \A i \in 1 .. Len(readyDocuments') : ~runningWrite'[readyDocuments'[i]]
      BY <1>2, <2>1, <3>5 DEF BlockersSound
    <3> QED
      BY <1>2, <1>5, <1>10, <3>6, <3>7 DEF BlockersSound, Blocking, SameDocument, IsWrite
  <2>2. CASE ~(Len(q) = 1 /\ ~runningWrite[d] /\ runningReads[d] = 0)
    <3>1. readyDocuments' = readyDocuments
      BY <1>2, <2>2
    <3>2. \A i \in 1 .. Len(readyDocuments) :
            readyDocuments[i] \in Documents /\ queue'[readyDocuments[i]] # <<>>
      BY <1>3, <1>5 DEF ReadyListSound
    <3>3. ReadyListSound'
      BY <1>2, <1>5, <1>10, <3>1, <3>2 DEF ReadyListSound
    <3> QED
      BY <1>2, <1>5, <1>10, <3>1, <3>3 DEF BlockersSound, Blocking, SameDocument, IsWrite
  <2> QED
    BY <2>1, <2>2
<1>14. HandoversSound'
  <2>1. \A i \in 1 .. Len(pool) : pool[i] \in Tasks
    BY DEF TypeOK
  <2> QED
    BY <1>1, <1>2, <1>5, <2>1 DEF HandoversSound
<1>15. ThreadsEndInOrder' /\ ShutdownDrains'
  BY <1>2 DEF ThreadsEndInOrder, ShutdownDrains
<1> QED
  BY <1>7, <1>8, <1>9, <1>11, <1>12, <1>13, <1>14, <1>15

LEMMA CompleteTaskStep ==
  ASSUME IInv, NEW t \in Tasks, CompleteTask(t)
  PROVE  IInv'
<1> USE DEF IInv
<1> DEFINE d == Document(t)
<1>1. /\ phase[t] = "executing" /\ phase' = [phase EXCEPT ![t] = "notifying"]
      /\ runningWrite' = [runningWrite EXCEPT ![d] = @ /\ ~IsWrite(t)]
      /\ runningReads' = [runningReads EXCEPT ![d] = IF IsWrite(t) THEN @ ELSE @ - 1]
      /\ readyDocuments' = IF ~wasStillReady[t] /\ queue[d] # <<>>
                           THEN Append(readyDocuments, d) ELSE readyDocuments
      /\ UNCHANGED <<job, scheduled, wasStillReady, queue, pool, schedulerPc, mainPc, shutdown>>
  BY DEF CompleteTask, reads_after, continues_queue
<1>2. /\ phase \in [Tasks -> Phases] /\ readyDocuments \in Seq(Documents)
      /\ \A u \in Tasks : phase'[u] = IF u = t THEN "notifying" ELSE phase[u]
      /\ d \in Documents /\ \A u \in Tasks : Document(u) \in Documents
  BY <1>1 DEF TypeOK, Document, Jobs
<1>3. /\ \A u \in Tasks : InFlight(u)' <=> InFlight(u) /\ u # t
      /\ \A u \in Tasks : Dispatched(u)' <=> Dispatched(u)
      /\ InFlight(t)
      /\ \A u \in Tasks : Blocking(u)' <=> Blocking(u) /\ u # t
  BY <1>1, <1>2 DEF InFlight, Dispatched, Blocking
<1>4. /\ \A u \in Tasks : Document(u)' = Document(u)
      /\ \A u \in Tasks : IsWrite(u)' <=> IsWrite(u)
  BY <1>1 DEF Document, IsWrite
<1> HIDE DEF d
<1>5. ASSUME NEW e \in Documents
      PROVE  runningWrite'[e] <=> \E u \in Tasks : InFlight(u)' /\ Document(u)' = e /\ IsWrite(u)'
  <2>1. runningWrite[e] <=> \E u \in Tasks : InFlight(u) /\ Document(u) = e /\ IsWrite(u)
    BY DEF CountersExact
  <2>2. runningWrite'[e] <=> IF e = d THEN runningWrite[e] /\ ~IsWrite(t) ELSE runningWrite[e]
    BY <1>1, <1>2 DEF TypeOK
  <2>3. CASE e # d
    BY <1>3, <1>4, <2>1, <2>2, <2>3 DEF d
  <2>4. CASE e = d /\ ~IsWrite(t)
    BY <1>3, <1>4, <2>1, <2>2, <2>4 DEF d
  <2>5. CASE e = d /\ IsWrite(t)
    <3>1. \A u \in Tasks : InFlight(u) /\ Document(u) = e /\ IsWrite(u) => u = t
      BY <1>3, <2>5 DEF BlockersSound, SameDocument, d
    <3> QED
      BY <1>3, <1>4, <2>2, <2>5, <3>1
  <2> QED
    BY <2>3, <2>4, <2>5
<1>6. ASSUME NEW e \in Documents
      PROVE  runningReads'[e] = Cardinality(ReadsInFlight(e)')
  <2>1. runningReads[e] = Cardinality(ReadsInFlight(e))
    BY DEF CountersExact
  <2>2. runningReads'[e] = IF e = d /\ ~IsWrite(t) THEN runningReads[e] - 1 ELSE runningReads[e]
    BY <1>1, <1>2 DEF TypeOK
  <2>3. CASE e = d /\ ~IsWrite(t)
    <3>1. ReadsInFlight(e)' = ReadsInFlight(e) \ {t} /\ t \in ReadsInFlight(e)
      BY <1>3, <1>4, <2>3 DEF ReadsInFlight, d
    <3>2. IsFiniteSet(ReadsInFlight(e))
      BY ReadsFinite
    <3>3. Cardinality(ReadsInFlight(e) \ {t}) = Cardinality(ReadsInFlight(e)) - 1
      BY <3>1, <3>2, FS_RemoveElement
    <3> QED
      BY <2>1, <2>2, <2>3, <3>1, <3>3
  <2>4. CASE ~(e = d /\ ~IsWrite(t))
    <3>1. ReadsInFlight(e)' = ReadsInFlight(e)
      BY <1>3, <1>4, <2>4 DEF ReadsInFlight, d
    <3> QED
      BY <2>1, <2>2, <2>4, <3>1
  <2> QED
    BY <2>3, <2>4
<1>7. CountersExact'
  BY <1>5, <1>6 DEF CountersExact
<1>8. TypeOK'
  <2>1. readyDocuments' \in Seq(Documents)
    BY <1>1, <1>2, Appended
  <2>2. runningReads' \in [Documents -> Nat]
    <3>1. \A e \in Documents : Cardinality(ReadsInFlight(e)') \in Nat
      <4>1. \A e : ReadsInFlight(e)' \subseteq ReadsInFlight(e)
        BY <1>3, <1>4 DEF ReadsInFlight
      <4> QED
        BY <4>1, ReadsFinite, FS_Subset, FS_CardinalityType
    <3> QED
      BY <1>1, <1>6, <3>1 DEF TypeOK
  <2>3. runningWrite' \in [Documents -> BOOLEAN]
    BY <1>1 DEF TypeOK
  <2>4. phase' \in [Tasks -> Phases]
    BY <1>1, <1>2 DEF Phases
  <2> QED
    BY <1>1, <2>1, <2>2, <2>3, <2>4 DEF TypeOK
<1>9. PhasesFollowCalls' /\ DispatchedInOrder' /\ NothingJoinsAWrite'
  BY <1>1, <1>2, <1>3, <1>4 DEF PhasesFollowCalls, DispatchedInOrder, NothingJoinsAWrite, SameDocument
<1>10. QueuesSound'
  BY <1>1, <1>2, SameQueued
<1>11. ReadyListSound' /\ \A i \in 1 .. Len(readyDocuments') : ~runningWrite'[readyDocuments'[i]]
  <2>1. \A i \in 1 .. Len(readyDocuments) : readyDocuments[i] \in Documents
    BY <1>2
  <2>2. ASSUME NEW i \in 1 .. Len(readyDocuments)
        PROVE  ~runningWrite'[readyDocuments[i]]
    <3>1. ~ \E u \in Tasks : InFlight(u) /\ Document(u) = readyDocuments[i] /\ IsWrite(u)
      BY <2>1 DEF BlockersSound, CountersExact
    <3> QED
      BY <1>3, <1>4, <1>5, <2>1, <3>1
  <2>3. CASE ~(~wasStillReady[t] /\ queue[d] # <<>>)
    <3>1. readyDocuments' = readyDocuments
      BY <1>1, <2>3
    <3> QED
      BY <1>1, <1>3, <1>4, <2>1, <2>2, <3>1 DEF ReadyListSound
  <2>4. CASE ~wasStillReady[t] /\ queue[d] # <<>>
    <3>1. Blocking(t)
      BY <1>3, <2>4 DEF Blocking
    <3>2. \A i \in 1 .. Len(readyDocuments) : readyDocuments[i] # d
      BY <1>3, <2>4 DEF ReadyListSound, d
    <3>3. /\ Len(readyDocuments) \in Nat /\ Len(readyDocuments') = Len(readyDocuments) + 1
          /\ readyDocuments'[Len(readyDocuments) + 1] = d
          /\ \A i \in 1 .. Len(readyDocuments) : readyDocuments'[i] = readyDocuments[i]
      BY <1>1, <1>2, <2>4, Appended
    <3>4. \A u \in Tasks : InFlight(u)' /\ Document(u) = d => wasStillReady[u] /\ ~IsWrite(u)
      BY <1>3, <3>1 DEF BlockersSound, Blocking, SameDocument, d
    <3>5. ASSUME NEW i \in 1 .. Len(readyDocuments')
          PROVE  /\ queue[readyDocuments'[i]] # <<>>
                 /\ \A u \in Tasks : InFlight(u)' /\ Document(u) = readyDocuments'[i] => wasStillReady[u]
                 /\ ~runningWrite'[readyDocuments'[i]]
      <4>1. CASE i \in 1 .. Len(readyDocuments)
        BY <1>3, <2>2, <3>3, <4>1 DEF ReadyListSound
      <4>2. CASE i = Len(readyDocuments) + 1
        <5>1. ~runningWrite'[d]
          BY <1>2, <1>4, <1>5, <3>4
        <5> QED
          BY <2>4, <3>3, <3>4, <4>2, <5>1
      <4> QED
        BY <3>3, <4>1, <4>2
    <3>6. \A i, j \in 1 .. Len(readyDocuments') : readyDocuments'[i] = readyDocuments'[j] => i = j
      BY <3>2, <3>3 DEF ReadyListSound
    <3> QED
      BY <1>1, <1>4, <3>5, <3>6 DEF ReadyListSound
  <2> QED
    BY <2>3, <2>4
<1>12. BlockersSound'
  BY <1>3, <1>4, <1>11 DEF BlockersSound, SameDocument
<1>13. HandoversSound'
  <2>1. \A i \in 1 .. Len(pool) : pool[i] \in Tasks
    BY DEF TypeOK
  <2> QED
    BY <1>1, <1>2, <2>1 DEF HandoversSound
<1>14. ThreadsEndInOrder' /\ ShutdownDrains'
  <2>1. mainPc' # "stopped"
    <3>1. phase[t] = "executing" /\ mainPc' = mainPc
      BY <1>1
    <3>2. t <= scheduled
      BY <3>1, MaxTasksAssumption DEF PhasesFollowCalls, TypeOK, Tasks
    <3> QED
      BY <3>1, <3>2 DEF ShutdownDrains
  <2> QED
    BY <1>1, <2>1 DEF ThreadsEndInOrder, ShutdownDrains, has_any_task
<1> QED
  BY <1>7, <1>8, <1>9, <1>10, <1>11, <1>12, <1>13, <1>14

LEMMA DispatchStep ==
  ASSUME IInv, Dispatch
  PROVE  IInv'
<1> USE DEF IInv
<1> DEFINE d == Head(readyDocuments)
           t == Head(queue[d])
           q == Tail(queue[d])
           w == runningWrite[d] \/ IsWrite(t)
           r == runningReads[d] + (IF IsWrite(t) THEN 0 ELSE 1)
           still == is_queue_ready(q, w, r)
<1>1. /\ schedulerPc = "checking" /\ schedulerPc' = "submitting"
      /\ readyDocuments # <<>>
      /\ phase' = [phase EXCEPT ![t] = "handoff"]
      /\ wasStillReady' = [wasStillReady EXCEPT ![t] = still]
      /\ queue' = [queue EXCEPT ![d] = q]
      /\ runningWrite' = [runningWrite EXCEPT ![d] = w]
      /\ runningReads' = [runningReads EXCEPT ![d] = r]
      /\ readyDocuments' = IF still THEN Append(Tail(readyDocuments), d) ELSE Tail(readyDocuments)
      /\ UNCHANGED <<job, scheduled, pool, mainPc, shutdown>>
  BY DEF Dispatch, has_ready_task
<1>2. /\ readyDocuments \in Seq(Documents) /\ d \in Documents /\ d = readyDocuments[1]
      /\ Len(readyDocuments) \in Nat \ {0} /\ Tail(readyDocuments) \in Seq(Documents)
      /\ Len(Tail(readyDocuments)) = Len(readyDocuments) - 1
      /\ \A i \in 1 .. Len(Tail(readyDocuments)) :
           i + 1 \in 1 .. Len(readyDocuments) /\ Tail(readyDocuments)[i] = readyDocuments[i + 1]
  BY <1>1, HeadAndTail DEF TypeOK
<1>3. queue[d] # <<>> /\ ~runningWrite[d] /\ \A u \in Tasks : InFlight(u) /\ Document(u) = d => wasStillReady[u]
  BY <1>2 DEF ReadyListSound, BlockersSound
<1> HIDE DEF d
<1>4. /\ queue[d] \in Seq(Tasks) /\ t \in Tasks /\ t = queue[d][1]
      /\ Len(queue[d]) \in Nat \ {0} /\ q \in Seq(Tasks) /\ Len(q) = Len(queue[d]) - 1
      /\ \A i \in 1 .. Len(q) : i + 1 \in 1 .. Len(queue[d]) /\ q[i] = queue[d][i + 1]
      /\ \A i \in 1 .. Len(queue[d]) : i = 1 \/ (i - 1 \in 1 .. Len(q) /\ queue[d][i] = q[i - 1])
  <2>1. queue[d] \in Seq(Tasks)
    BY <1>2 DEF TypeOK
  <2> QED
    BY <1>3, <2>1, HeadAndTail
<1>5. phase[t] = "queued" /\ Document(t) = d
  BY <1>2, <1>4 DEF QueuesSound
<1>6. still => q # <<>> /\ ~runningWrite[d] /\ ~IsWrite(t)
  BY DEF is_queue_ready
<1>7. still \in BOOLEAN /\ w \in BOOLEAN /\ r \in Nat
  BY <1>2 DEF is_queue_ready, TypeOK
<1> HIDE DEF t, q, still
<1>8. /\ phase \in [Tasks -> Phases] /\ queue \in [Documents -> Seq(Tasks)]
      /\ \A u \in Tasks : phase'[u] = IF u = t THEN "handoff" ELSE phase[u]
      /\ \A e \in Documents : queue'[e] = IF e = d THEN q ELSE queue[e]
      /\ \A u \in Tasks : Document(u) \in Documents
  BY <1>1, <1>4 DEF TypeOK, Document, Jobs
<1>9. \A u \in Tasks : wasStillReady'[u] = IF u = t THEN still ELSE wasStillReady[u]
  BY <1>1, <1>4 DEF TypeOK
<1>10. /\ \A u \in Tasks : Document(u)' = Document(u)
       /\ \A u \in Tasks : IsWrite(u)' <=> IsWrite(u)
  BY <1>1 DEF Document, IsWrite
<1>11. /\ ~InFlight(t)
       /\ \A u \in Tasks : InFlight(u)' <=> InFlight(u) \/ u = t
       /\ \A u \in Tasks : Dispatched(u)' <=> Dispatched(u) \/ u = t
  BY <1>5, <1>8 DEF InFlight, Dispatched
<1>12. /\ \A u \in Tasks : Blocking(u)' <=> Blocking(u) \/ (u = t /\ ~still)
       /\ \A u \in Tasks : Blocking(u) => Document(u) # d
  BY <1>3, <1>9, <1>11 DEF Blocking
<1>13. \A u \in Tasks : InFlight(u) /\ Document(u) = d => ~IsWrite(u)
  BY <1>2, <1>3 DEF CountersExact
<1>14. ASSUME NEW e \in Documents
       PROVE  runningWrite'[e] <=> \E u \in Tasks : InFlight(u)' /\ Document(u)' = e /\ IsWrite(u)'
  <2>1. runningWrite[e] <=> \E u \in Tasks : InFlight(u) /\ Document(u) = e /\ IsWrite(u)
    BY DEF CountersExact
  <2>2. runningWrite'[e] <=> IF e = d THEN runningWrite[e] \/ IsWrite(t) ELSE runningWrite[e]
    BY <1>1, <1>2 DEF TypeOK
  <2>3. CASE e = d
    BY <1>4, <1>5, <1>10, <1>11, <2>1, <2>2, <2>3
  <2>4. CASE e # d
    BY <1>5, <1>10, <1>11, <2>1, <2>2, <2>4
  <2> QED
    BY <2>3, <2>4
<1>15. ASSUME NEW e \in Documents
       PROVE  runningReads'[e] = Cardinality(ReadsInFlight(e)')
  <2>1. runningReads[e] = Cardinality(ReadsInFlight(e))
    BY DEF CountersExact
  <2>2. runningReads'[e] = IF e = d /\ ~IsWrite(t) THEN runningReads[e] + 1 ELSE runningReads[e]
    BY <1>1, <1>2 DEF TypeOK
  <2>3. CASE e = d /\ ~IsWrite(t)
    <3>1. ReadsInFlight(e)' = ReadsInFlight(e) \cup {t} /\ t \notin ReadsInFlight(e)
      BY <1>4, <1>5, <1>10, <1>11, <2>3 DEF ReadsInFlight
    <3>2. IsFiniteSet(ReadsInFlight(e))
      BY ReadsFinite
    <3>3. Cardinality(ReadsInFlight(e) \cup {t}) = Cardinality(ReadsInFlight(e)) + 1
      BY <3>1, <3>2, FS_AddElement
    <3> QED
      BY <2>1, <2>2, <2>3, <3>1, <3>3
  <2>4. CASE ~(e = d /\ ~IsWrite(t))
    <3>1. ReadsInFlight(e)' = ReadsInFlight(e)
      BY <1>4, <1>5, <1>10, <1>11, <2>4 DEF ReadsInFlight
    <3> QED
      BY <2>1, <2>2, <2>4, <3>1
  <2> QED
    BY <2>3, <2>4
<1>16. CountersExact'
  BY <1>14, <1>15 DEF CountersExact
<1>17. TypeOK'
  <2>1. readyDocuments' \in Seq(Documents)
    BY <1>1, <1>2, Appended
  <2>2. phase' \in [Tasks -> Phases] /\ queue' \in [Documents -> Seq(Tasks)]
    BY <1>1, <1>4, <1>8 DEF Phases
  <2>3. wasStillReady' \in [Tasks -> BOOLEAN] /\ runningWrite' \in [Documents -> BOOLEAN]
    BY <1>1, <1>7 DEF TypeOK
  <2>4. runningReads' \in [Documents -> Nat]
    BY <1>1, <1>7 DEF TypeOK
  <2>5. schedulerPc' \in SchedulerPcs
    BY <1>1 DEF SchedulerPcs
  <2> QED
    BY <1>1, <2>1, <2>2, <2>3, <2>4, <2>5 DEF TypeOK
<1>18. PhasesFollowCalls'
  BY <1>1, <1>4, <1>5, <1>8 DEF PhasesFollowCalls
<1>19. QueuesSound'
  <2>1. \A i \in 1 .. Len(q) : q[i] \in Tasks /\ q[i] # t /\ Document(q[i]) = d /\ phase[q[i]] = "queued"
    <3>1. ASSUME NEW i \in 1 .. Len(q)
          PROVE  q[i] \in Tasks /\ q[i] # t /\ Document(q[i]) = d /\ phase[q[i]] = "queued"
      <4>1. i + 1 \in 1 .. Len(queue[d]) /\ q[i] = queue[d][i + 1] /\ 1 \in 1 .. Len(queue[d]) /\ 1 < i + 1
        BY <1>4
      <4>2. queue[d][1] < queue[d][i + 1] /\ queue[d][1] \in Tasks
        BY <1>2, <1>4, <4>1 DEF QueuesSound
      <4>3. q[i] \in Tasks /\ q[i] # t
        <5>1. q[i] \in Tasks /\ t < q[i] /\ t \in Tasks
          BY <1>4, <4>1, <4>2
        <5> QED
          BY <5>1, MaxTasksAssumption DEF Tasks
      <4> QED
        BY <1>2, <4>1, <4>3 DEF QueuesSound
    <3> QED
      BY <3>1
  <2>2. ASSUME NEW e \in Documents, NEW i \in 1 .. Len(queue'[e])
        PROVE  Document(queue'[e][i]) = e /\ phase'[queue'[e][i]] = "queued"
    <3>1. CASE e = d
      BY <1>8, <2>1, <2>2, <3>1
    <3>2. CASE e # d
      <4>1. queue[e][i] \in Tasks /\ Document(queue[e][i]) = e /\ phase[queue[e][i]] = "queued"
        BY <1>8, <2>2, <3>2 DEF QueuesSound
      <4> QED
        BY <1>5, <1>8, <3>2, <4>1
    <3> QED
      BY <3>1, <3>2
  <2>3. ASSUME NEW i \in 1 .. Len(q), NEW j \in 1 .. Len(q), i < j
        PROVE  q[i] < q[j]
    <3>1. /\ i + 1 \in 1 .. Len(queue[d]) /\ j + 1 \in 1 .. Len(queue[d]) /\ i + 1 < j + 1
          /\ q[i] = queue[d][i + 1] /\ q[j] = queue[d][j + 1]
      BY <1>4, <2>3
    <3> QED
      BY <1>2, <3>1 DEF QueuesSound
  <2>4. \A e \in Documents : \A i, j \in 1 .. Len(queue'[e]) : i < j => queue'[e][i] < queue'[e][j]
    BY <1>8, <2>3 DEF QueuesSound
  <2>5. ASSUME NEW u \in Tasks, phase'[u] = "queued"
        PROVE  \E i \in 1 .. Len(queue'[Document(u)]) : queue'[Document(u)][i] = u
    <3>1. u # t /\ phase[u] = "queued"
      BY <1>8, <2>5
    <3>2. PICK i \in 1 .. Len(queue[Document(u)]) : queue[Document(u)][i] = u
      BY <3>1 DEF QueuesSound
    <3>3. CASE Document(u) = d
      <4>1. i - 1 \in 1 .. Len(q) /\ q[i - 1] = u
        BY <1>4, <3>1, <3>2, <3>3
      <4> QED
        BY <1>2, <1>8, <3>3, <4>1
    <3>4. CASE Document(u) # d
      BY <1>8, <3>2, <3>4
    <3> QED
      BY <3>3, <3>4
  <2> QED
    BY <1>1, <2>2, <2>4, <2>5, SMTT(30) DEF QueuesSound, Document
<1>20. DispatchedInOrder'
  <2>1. ASSUME NEW x \in Tasks, Document(x) = d, x < t
        PROVE  Dispatched(x)
    <3>1. phase[x] # "unscheduled"
      <4>1. scheduled \in Nat /\ t \in Nat /\ x \in Nat
        BY <1>4, MaxTasksAssumption DEF TypeOK, Tasks
      <4>2. ~(t > scheduled)
        BY <1>4, <1>5 DEF PhasesFollowCalls
      <4> QED
        BY <2>1, <4>1, <4>2 DEF PhasesFollowCalls
    <3>2. phase[x] # "queued"
      <4>1. SUFFICES ASSUME phase[x] = "queued" PROVE FALSE
        OBVIOUS
      <4>2. PICK i \in 1 .. Len(queue[d]) : queue[d][i] = x
        BY <2>1, <4>1 DEF QueuesSound
      <4>3. i = 1 \/ t < x
        <5>1. i = 1 \/ (1 \in 1 .. Len(queue[d]) /\ 1 < i)
          BY <1>4, <4>2
        <5>2. t = queue[d][1]
          BY <1>4
        <5> QED
          BY <1>2, <4>2, <5>1, <5>2 DEF QueuesSound
      <4>4. t \in Nat /\ x \in Nat
        BY <1>4, MaxTasksAssumption DEF Tasks
      <4>5. i = 1 => x = t
        BY <1>4, <4>2
      <4> QED
        BY <2>1, <4>3, <4>4, <4>5
    <3> QED
      BY <3>1, <3>2 DEF Dispatched
  <2> QED
    BY <1>5, <1>10, <1>11, <2>1 DEF DispatchedInOrder, SameDocument
<1>21. NothingJoinsAWrite'
  <2>1. ASSUME NEW u \in Tasks, InFlight(u), Document(u) = d
        PROVE  u <= t
    <3>1. Dispatched(u) /\ ~Dispatched(t)
      BY <1>5, <2>1 DEF Dispatched, InFlight
    <3> QED
      BY <1>4, <1>5, <2>1, <3>1, MaxTasksAssumption DEF DispatchedInOrder, SameDocument, Tasks
  <2>2. t <= t
    BY <1>4, MaxTasksAssumption DEF Tasks
  <2> QED
    BY <1>5, <1>10, <1>11, <1>13, <2>1, <2>2 DEF NothingJoinsAWrite, SameDocument
<1>22. ReadyListSound' /\ \A i \in 1 .. Len(readyDocuments') : ~runningWrite'[readyDocuments'[i]]
  <2> DEFINE rest == Tail(readyDocuments)
  <2>1. ASSUME NEW i \in 1 .. Len(rest)
        PROVE  /\ rest[i] \in Documents /\ rest[i] # d /\ queue'[rest[i]] # <<>>
               /\ \A u \in Tasks : InFlight(u)' /\ Document(u) = rest[i] => wasStillReady'[u]
               /\ ~runningWrite'[rest[i]]
    <3>1. i + 1 \in 1 .. Len(readyDocuments) /\ 1 \in 1 .. Len(readyDocuments)
          /\ rest[i] = readyDocuments[i + 1] /\ i + 1 # 1 /\ rest[i] \in Documents
      BY <1>2
    <3>2. rest[i] # d
      BY <1>2, <3>1 DEF ReadyListSound
    <3>3. /\ queue[rest[i]] # <<>> /\ ~runningWrite[rest[i]]
          /\ \A u \in Tasks : InFlight(u) /\ Document(u) = rest[i] => wasStillReady[u]
      BY <3>1 DEF ReadyListSound, BlockersSound
    <3>4. ~runningWrite'[rest[i]]
      BY <1>1, <3>1, <3>2, <3>3 DEF TypeOK
    <3> QED
      BY <1>5, <1>8, <1>9, <1>11, <3>1, <3>2, <3>3, <3>4
  <2>2. \A i, j \in 1 .. Len(rest) : rest[i] = rest[j] => i = j
    BY <1>2 DEF ReadyListSound
  <2>3. CASE ~still
    <3>1. readyDocuments' = rest
      BY <1>1, <2>3
    <3> QED
      BY <1>10, <2>1, <2>2, <3>1 DEF ReadyListSound
  <2>4. CASE still
    <3>1. /\ Len(rest) \in Nat /\ Len(readyDocuments') = Len(rest) + 1
          /\ readyDocuments'[Len(rest) + 1] = d
          /\ \A i \in 1 .. Len(rest) : readyDocuments'[i] = rest[i]
      BY <1>1, <1>2, <2>4, Appended
    <3>2. /\ queue'[d] # <<>> /\ ~runningWrite'[d]
          /\ \A u \in Tasks : InFlight(u)' /\ Document(u) = d => wasStillReady'[u]
      <4>1. queue'[d] # <<>>
        BY <1>2, <1>6, <1>8, <2>4
      <4>2. ~runningWrite'[d]
        BY <1>2, <1>5, <1>6, <1>10, <1>11, <1>13, <1>14, <2>4
      <4>3. \A u \in Tasks : InFlight(u)' /\ Document(u) = d => wasStillReady'[u]
        BY <1>3, <1>9, <1>11, <2>4
      <4> QED
        BY <4>1, <4>2, <4>3
    <3> HIDE DEF rest
    <3>3. ASSUME NEW i \in 1 .. Len(readyDocuments')
          PROVE  /\ queue'[readyDocuments'[i]] # <<>>
                 /\ \A u \in Tasks : InFlight(u)' /\ Document(u) = readyDocuments'[i] => wasStillReady'[u]
                 /\ ~runningWrite'[readyDocuments'[i]]
      <4>1. CASE i \in 1 .. Len(rest)
        BY <2>1, <3>1, <4>1
      <4>2. CASE i = Len(rest) + 1
        BY <3>1, <3>2, <4>2
      <4> QED
        BY <3>1, <4>1, <4>2
    <3>4. \A i, j \in 1 .. Len(readyDocuments') : readyDocuments'[i] = readyDocuments'[j] => i = j
      BY <2>1, <2>2, <3>1
    <3> QED
      BY <1>10, <3>3, <3>4 DEF ReadyListSound
  <2> QED
    BY <2>3, <2>4
<1>23. BlockersSound'
  <2>1. \A u, v \in Tasks : Blocking(u)' /\ Blocking(v)' /\ SameDocument(u, v)' => u = v
    BY <1>5, <1>10, <1>12 DEF BlockersSound, SameDocument
  <2>2. \A u \in Tasks : InFlight(u)' /\ IsWrite(u)' => Blocking(u)'
    BY <1>6, <1>10, <1>11, <1>12 DEF BlockersSound
  <2> QED
    BY <1>22, <2>1, <2>2 DEF BlockersSound
<1>24. HandoversSound'
  <2>1. \A i \in 1 .. Len(pool) : pool[i] \in Tasks
    BY DEF TypeOK
  <2> QED
    BY <1>1, <1>5, <1>8, <2>1 DEF HandoversSound
<1>25. ThreadsEndInOrder' /\ ShutdownDrains'
  <2>1. mainPc' # "stopped" /\ mainPc' # "stopping_pool"
    BY <1>1 DEF ThreadsEndInOrder
  <2> QED
    BY <1>1, <2>1 DEF ThreadsEndInOrder, ShutdownDrains
<1> QED
  BY <1>16, <1>17, <1>18, <1>19, <1>20, <1>21, <1>22, <1>23, <1>24, <1>25

-----------------------------------------------------------------------------
(* The theorems *)

LEMMA NextIInv == IInv /\ [Next]_vars => IInv'
<1> SUFFICES ASSUME IInv, [Next]_vars PROVE IInv'
  OBVIOUS
<1>1. CASE Schedule
  BY <1>1, ScheduleStep
<1>2. CASE ScheduleNotify
  BY <1>2, ThreadStep DEF ScheduleNotify
<1>3. CASE Shutdown
  BY <1>3, ThreadStep DEF Shutdown
<1>4. CASE ShutdownNotifyAll
  BY <1>4, ThreadStep DEF ShutdownNotifyAll
<1>5. CASE ShutdownJoin
  BY <1>5, ThreadStep DEF ShutdownJoin
<1>6. CASE StopPool
  BY <1>6, ThreadStep DEF StopPool
<1>7. CASE Wait
  BY <1>7, ThreadStep DEF Wait
<1>8. CASE Exit
  BY <1>8, ThreadStep DEF Exit
<1>9. CASE Dispatch
  BY <1>9, DispatchStep
<1>10. ASSUME NEW t \in Tasks, Submit(t) PROVE IInv'
  BY <1>10, SubmitStep
<1>11. CASE SpuriousWakeup
  BY <1>11, ThreadStep DEF SpuriousWakeup
<1>12. CASE StartTask
  BY <1>12, StartTaskStep
<1>13. ASSUME NEW t \in Tasks, CompleteTask(t) PROVE IInv'
  BY <1>13, CompleteTaskStep
<1>14. ASSUME NEW t \in Tasks, NotifyCompletion(t) PROVE IInv'
  BY <1>14, NotifyCompletionStep
<1>15. CASE UNCHANGED vars
  BY <1>15, ThreadStep DEF vars, documentVars
<1> QED
  BY <1>1, <1>2, <1>3, <1>4, <1>5, <1>6, <1>7, <1>8, <1>9, <1>10, <1>11, <1>12, <1>13,
     <1>14, <1>15 DEF Next, MainThread, SchedulerThread, Worker

\* IInv holds in every reachable state of the scheduler, its threads and the pool.
THEOREM InductiveInvariant == Spec => []IInv
  BY InitIInv, NextIInv, PTL DEF Spec

\* The types of the variables; in particular running_reads_ never underflows.
THEOREM TypeCorrect == Spec => []TypeOK
<1>1. IInv => TypeOK
  BY DEF IInv
<1> QED
  BY <1>1, InductiveInvariant, PTL

\* Tasks of one document leave its queue in the order of the calls of schedule().
THEOREM TasksDispatchedInOrder == Spec => []DispatchedInOrder
<1>1. IInv => DispatchedInOrder
  BY DEF IInv
<1> QED
  BY <1>1, InductiveInvariant, PTL

\* Nothing is dispatched while a write of the same document is counted as running.
THEOREM WritesNotJoined == Spec => []NothingJoinsAWrite
<1>1. IInv => NothingJoinsAWrite
  BY DEF IInv
<1> QED
  BY <1>1, InductiveInvariant, PTL

\* running_write_ and running_reads_ count exactly the tasks in flight.
THEOREM CountersCorrect == Spec => []CountersExact
<1>1. IInv => CountersExact
  BY DEF IInv
<1> QED
  BY <1>1, InductiveInvariant, PTL

\* ready_documents_ has no duplicates and no document without a queued task.
THEOREM ReadyListCorrect == Spec => []ReadyListSound
<1>1. IInv => ReadyListSound
  BY DEF IInv
<1> QED
  BY <1>1, InductiveInvariant, PTL

\* When serve() deletes the scheduler every scheduled task has been run.
THEOREM ShutdownLosesNothing == Spec => []ShutdownDrains
<1>1. IInv => ShutdownDrains
  BY DEF IInv
<1> QED
  BY <1>1, InductiveInvariant, PTL

-----------------------------------------------------------------------------
(* A load of lone reads gets the whole promise of the class comment *)

\* When a task is dispatched, the one behind it in the queue is not ready beside it.
LEMMA NextIsNotReady ==
  ASSUME IInv, LoneReads, NEW d \in Documents, queue[d] # <<>>,
         NEW q, q = Tail(queue[d]), NEW t, t = Head(queue[d]), NEW r \in Nat,
         ~IsWrite(t) => r # 0
  PROVE  ~is_queue_ready(q, runningWrite[d] \/ IsWrite(t), r)
<1> SUFFICES ASSUME q # <<>>, ~IsWrite(t), ~IsWrite(Head(q)) PROVE FALSE
  BY DEF is_queue_ready
<1> DEFINE u == Head(q)
<1>1. queue[d] \in Seq(Tasks)
  BY DEF IInv, TypeOK
<1>2. t \in Tasks /\ t = queue[d][1] /\ q \in Seq(Tasks) /\ Len(q) = Len(queue[d]) - 1
  BY <1>1, HeadAndTail
<1>3. u \in Tasks /\ u = q[1] /\ Len(q) \in Nat \ {0}
  BY <1>2, HeadAndTail
<1>4. u = queue[d][2] /\ 1 \in 1 .. Len(queue[d]) /\ 2 \in 1 .. Len(queue[d])
  BY <1>1, <1>2, <1>3, HeadAndTail
<1>5. /\ Document(t) = d /\ Document(u) = d /\ t < u
      /\ phase[t] = "queued" /\ phase[u] = "queued"
  BY <1>2, <1>4 DEF IInv, QueuesSound
<1>6. PICK w \in t .. u : SameDocument(t, w) /\ IsWrite(w)
  BY <1>2, <1>3, <1>5 DEF LoneReads, SameDocument
<1>7. t < w /\ w < u /\ w \in Tasks
  <2>1. w \in Int /\ t <= w /\ w <= u /\ w # t /\ w # u
    BY <1>2, <1>3, <1>6 DEF Tasks
  <2> QED
    BY <1>2, <1>3, <2>1, MaxTasksAssumption DEF Tasks
<1>8. phase[w] = "queued"
  <2>1. scheduled \in Nat /\ u <= scheduled
    BY <1>3, <1>5 DEF IInv, TypeOK, PhasesFollowCalls, Tasks
  <2>2. phase[w] # "unscheduled"
    BY <1>3, <1>7, <2>1 DEF IInv, PhasesFollowCalls, Tasks
  <2>3. ~Dispatched(w)
    BY <1>2, <1>5, <1>6, <1>7 DEF IInv, DispatchedInOrder, Dispatched
  <2> QED
    BY <2>2, <2>3 DEF Dispatched
<1>9. PICK i \in 1 .. Len(queue[d]) : queue[d][i] = w
  BY <1>5, <1>6, <1>7, <1>8 DEF IInv, QueuesSound, SameDocument
<1>10. i # 1 /\ i # 2
  BY <1>2, <1>4, <1>7, <1>9 DEF Tasks
<1>11. u < w
  BY <1>1, <1>4, <1>9, <1>10 DEF IInv, QueuesSound
<1> QED
  BY <1>3, <1>7, <1>11 DEF Tasks

LEMMA AllBlockStep ==
  ASSUME IInv, LoneReads, AllBlock, [Next]_vars
  PROVE  LoneReads' /\ AllBlock'
<1>1. job' = job
  BY DEF Next, MainThread, SchedulerThread, Worker, vars, documentVars, Schedule,
         ScheduleNotify, Shutdown, ShutdownNotifyAll, ShutdownJoin, StopPool, Wait,
         SpuriousWakeup, Exit, Dispatch, Submit, StartTask, CompleteTask, NotifyCompletion
<1>2. LoneReads'
  BY <1>1 DEF LoneReads, SameDocument, IsWrite, Document
<1>3. ASSUME wasStillReady' = wasStillReady, \A u \in Tasks : InFlight(u)' => InFlight(u)
      PROVE  AllBlock'
  BY <1>3 DEF AllBlock
<1>4. phase \in [Tasks -> Phases]
  BY DEF IInv, TypeOK
<1>5. CASE Schedule
  <2>1. /\ wasStillReady' = wasStillReady
        /\ phase' = [phase EXCEPT ![scheduled + 1] = "queued"]
    BY <1>5 DEF Schedule
  <2>2. \A u \in Tasks : InFlight(u)' => InFlight(u)
    BY <1>4, <2>1 DEF InFlight
  <2> QED
    BY <1>2, <1>3, <2>1, <2>2
<1>6. CASE Dispatch
  <2> DEFINE d == Head(readyDocuments)
             t == Head(queue[d])
             q == Tail(queue[d])
             r == runningReads[d] + (IF IsWrite(t) THEN 0 ELSE 1)
  <2>1. /\ d \in Documents /\ d = readyDocuments[1] /\ 1 \in 1 .. Len(readyDocuments)
    BY <1>6, HeadAndTail DEF IInv, TypeOK, Dispatch, has_ready_task
  <2>2. queue[d] \in Seq(Tasks) /\ queue[d] # <<>>
    BY <2>1 DEF IInv, TypeOK, ReadyListSound
  <2>3. t \in Tasks
    BY <2>2, HeadAndTail
  <2>4. r \in Nat /\ (~IsWrite(t) => r # 0)
    BY <2>1 DEF IInv, TypeOK, IsWrite
  <2>5. ~is_queue_ready(q, runningWrite[d] \/ IsWrite(t), r)
    BY <2>1, <2>2, <2>4, NextIsNotReady
  <2>6. /\ phase' = [phase EXCEPT ![t] = "handoff"]
        /\ wasStillReady' = [wasStillReady EXCEPT ![t] =
                               is_queue_ready(q, runningWrite[d] \/ IsWrite(t), r)]
    BY <1>6 DEF Dispatch
  <2>7. wasStillReady \in [Tasks -> BOOLEAN]
    BY DEF IInv, TypeOK
  <2>8. ~wasStillReady'[t]
    BY <2>3, <2>5, <2>6, <2>7
  <2>9. \A u \in Tasks : u # t => wasStillReady'[u] = wasStillReady[u] /\ phase'[u] = phase[u]
    BY <1>4, <2>3, <2>6, <2>7
  <2>10. \A u \in Tasks : u # t => (InFlight(u)' => ~wasStillReady'[u])
    BY <2>9 DEF AllBlock, InFlight
  <2> HIDE DEF t
  <2> QED
    BY <1>2, <2>8, <2>10 DEF AllBlock
<1>7. ASSUME NEW t \in Tasks, Submit(t) \/ CompleteTask(t) \/ NotifyCompletion(t)
      PROVE  AllBlock'
  BY <1>3, <1>4, <1>7 DEF Submit, CompleteTask, NotifyCompletion, InFlight
<1>8. CASE StartTask
  <2>1. Head(pool) \in Tasks /\ phase[Head(pool)] = "pooled"
    <3>1. Head(pool) \in Tasks /\ Head(pool) = pool[1] /\ 1 \in 1 .. Len(pool)
      BY <1>8, HeadAndTail DEF StartTask, IInv, TypeOK
    <3> QED
      BY <3>1 DEF IInv, HandoversSound
  <2> QED
    <3>1. /\ wasStillReady' = wasStillReady
          /\ phase' = [phase EXCEPT ![Head(pool)] = "executing"]
      BY <1>8 DEF StartTask
    <3>2. \A u \in Tasks : InFlight(u)' => InFlight(u)
      BY <1>4, <2>1, <3>1 DEF InFlight
    <3> QED
      BY <1>2, <1>3, <3>1, <3>2
<1>9. CASE ScheduleNotify \/ Shutdown \/ ShutdownNotifyAll \/ ShutdownJoin \/ StopPool
           \/ Wait \/ SpuriousWakeup \/ Exit \/ UNCHANGED vars
  <2>1. wasStillReady' = wasStillReady /\ phase' = phase
    BY <1>9 DEF ScheduleNotify, Shutdown, ShutdownNotifyAll, ShutdownJoin,
                    StopPool, Wait, SpuriousWakeup, Exit, vars
  <2> QED
    BY <1>2, <1>3, <2>1 DEF InFlight
<1> QED
  BY <1>2, <1>5, <1>6, <1>7, <1>8, <1>9 DEF Next, MainThread, SchedulerThread, Worker

\* The invariant of such loads.
LEMMA LoneReadsInvariant == Spec /\ LoneReads => [](IInv /\ LoneReads /\ AllBlock)
<1>1. Init => AllBlock
  BY DEF Init, AllBlock, InFlight
<1>2. IInv /\ LoneReads /\ AllBlock /\ [Next]_vars => (LoneReads /\ AllBlock)'
  BY AllBlockStep
<1> QED
  BY <1>1, <1>2, InductiveInvariant, PTL DEF Spec

\* A document that is on the ready list has nothing in flight.
LEMMA ReadyDocumentsIdle ==
  ASSUME IInv, AllBlock, NEW i \in 1 .. Len(readyDocuments)
  PROVE  \A t \in Tasks : InFlight(t) => Document(t) # readyDocuments[i]
  BY DEF IInv, ReadyListSound, AllBlock

LEMMA LoneReadsStep ==
  ASSUME IInv, AllBlock, [Next]_vars
  PROVE  [Promise!Next]_Promise!vars
<1> DEFINE admitted == {t \in Tasks : InFlight(t)}
<1>1. CASE Schedule
  <2> DEFINE t == scheduled + 1
  <2>1. /\ t \in Tasks /\ t # 0 /\ scheduled < MaxTasks /\ phase[t] = "unscheduled"
        /\ phase \in [Tasks -> Phases]
    BY <1>1, MaxTasksAssumption DEF IInv, TypeOK, Schedule, Tasks, PhasesFollowCalls
  <2>2. /\ scheduled' = t /\ job' = job /\ phase' = [phase EXCEPT ![t] = "queued"]
        /\ queue' = [queue EXCEPT ![job[t].document] = Append(@, t)]
    BY <1>1, <2>1 DEF Schedule, enqueued, Document, IInv, TypeOK, Jobs
  <2>3. admitted' = admitted
    BY <2>1, <2>2 DEF InFlight
  <2>4. Promise!Request
    BY <2>1, <2>2, <2>3 DEF Promise!Request
  <2> QED
    BY <2>4 DEF Promise!Next
<1>2. CASE Dispatch
  <2> DEFINE d == Head(readyDocuments)
             t == Head(queue[d])
  <2>1. /\ d \in Documents /\ d = readyDocuments[1] /\ 1 \in 1 .. Len(readyDocuments)
    BY <1>2, HeadAndTail DEF IInv, TypeOK, Dispatch, has_ready_task
  <2>2. queue[d] \in Seq(Tasks) /\ queue[d] # <<>>
    BY <2>1 DEF IInv, TypeOK, ReadyListSound
  <2>3. t \in Tasks /\ t = queue[d][1] /\ 1 \in 1 .. Len(queue[d])
    BY <2>2, HeadAndTail
  <2>4. Document(t) = d
    BY <2>1, <2>3 DEF IInv, QueuesSound
  <2>5. /\ phase' = [phase EXCEPT ![t] = "handoff"] /\ phase \in [Tasks -> Phases]
        /\ queue' = [queue EXCEPT ![d] = Tail(@)] /\ UNCHANGED <<job, scheduled>>
    BY <1>2, <2>1 DEF Dispatch, IInv, TypeOK
  <2>6. admitted' = admitted \cup {t}
    BY <2>3, <2>5 DEF InFlight
  <2>7. Promise!Admissible(t)
    BY <2>1, <2>4, ReadyDocumentsIdle DEF Promise!Admissible, Document
  <2>8. Promise!Admit(d)
    BY <2>2, <2>5, <2>6, <2>7 DEF Promise!Admit
  <2> QED
    BY <2>1, <2>8 DEF Promise!Next
<1>3. ASSUME NEW t \in Tasks, CompleteTask(t) PROVE [Promise!Next]_Promise!vars
  <2>1. /\ phase[t] = "executing" /\ phase' = [phase EXCEPT ![t] = "notifying"]
        /\ phase \in [Tasks -> Phases] /\ UNCHANGED <<job, scheduled, queue>>
    BY <1>3 DEF CompleteTask, IInv, TypeOK
  <2>2. t \in admitted /\ admitted' = admitted \ {t}
    BY <1>3, <2>1 DEF InFlight
  <2>3. Promise!Finish(t)
    BY <2>1, <2>2 DEF Promise!Finish
  <2> QED
    BY <1>3, <2>3 DEF Promise!Next, Promise!Tasks, Tasks
<1>4. ASSUME UNCHANGED <<job, scheduled, queue>>,
             \A u \in Tasks : InFlight(u)' <=> InFlight(u)
      PROVE  [Promise!Next]_Promise!vars
  BY <1>4 DEF Promise!vars
<1>5. ASSUME NEW t \in Tasks, Submit(t) \/ NotifyCompletion(t) PROVE [Promise!Next]_Promise!vars
  <2>1. /\ UNCHANGED <<job, scheduled, queue>> /\ phase \in [Tasks -> Phases]
        /\ \/ phase[t] = "handoff" /\ phase' = [phase EXCEPT ![t] = "pooled"]
           \/ phase[t] = "notifying" /\ phase' = [phase EXCEPT ![t] = "done"]
    BY <1>5 DEF Submit, NotifyCompletion, documentVars, IInv, TypeOK
  <2>2. \A u \in Tasks : InFlight(u)' <=> InFlight(u)
    BY <1>5, <2>1 DEF InFlight
  <2> QED
    BY <1>4, <2>1, <2>2
<1>6. CASE StartTask
  <2> DEFINE t == Head(pool)
  <2>1. t \in Tasks /\ t = pool[1] /\ 1 \in 1 .. Len(pool)
    BY <1>6, HeadAndTail DEF StartTask, IInv, TypeOK
  <2>2. phase[t] = "pooled"
    BY <2>1 DEF IInv, HandoversSound
  <2>3. /\ UNCHANGED <<job, scheduled, queue>> /\ phase \in [Tasks -> Phases]
        /\ phase' = [phase EXCEPT ![t] = "executing"]
    BY <1>6 DEF StartTask, documentVars, IInv, TypeOK
  <2>4. \A u \in Tasks : InFlight(u)' <=> InFlight(u)
    BY <2>1, <2>2, <2>3 DEF InFlight
  <2> QED
    BY <1>4, <2>3, <2>4
<1>7. ASSUME UNCHANGED <<job, scheduled, phase, documentVars>>
      PROVE  [Promise!Next]_Promise!vars
  BY <1>4, <1>7 DEF InFlight, documentVars
<1>8. CASE ScheduleNotify \/ Shutdown \/ ShutdownNotifyAll \/ ShutdownJoin \/ StopPool
  BY <1>7, <1>8 DEF ScheduleNotify, Shutdown, ShutdownNotifyAll, ShutdownJoin, StopPool
<1>9. CASE Wait \/ SpuriousWakeup \/ Exit \/ UNCHANGED vars
  BY <1>7, <1>9 DEF Wait, SpuriousWakeup, Exit, vars, documentVars
<1> QED
  BY <1>1, <1>2, <1>3, <1>5, <1>6, <1>8, <1>9 DEF Next, MainThread, SchedulerThread, Worker

\* However many tasks and workers there are: with lone reads a task that writes
\* has its document for itself.
THEOREM LoneReadsExclusive == Spec /\ LoneReads => []WriteIsExclusive
<1>1. IInv /\ AllBlock => WriteIsExclusive
  <2> SUFFICES ASSUME IInv, AllBlock PROVE WriteIsExclusive
    OBVIOUS
  <2>1. \A t \in Tasks : phase[t] = "executing" => Blocking(t)
    BY DEF InFlight, AllBlock, Blocking
  <2> QED
    BY <2>1 DEF IInv, BlockersSound, WriteIsExclusive
<1> QED
  BY <1>1, LoneReadsInvariant, PTL

\* With lone reads the assertions on is_queue_ready() hold.
THEOREM LoneReadsReady == Spec /\ LoneReads => []ReadyDocumentsAreReady
<1>1. IInv /\ AllBlock => ReadyDocumentsAreReady
  <2> SUFFICES ASSUME IInv, AllBlock, NEW i \in 1 .. Len(readyDocuments)
               PROVE  is_queue_ready(queue[readyDocuments[i]], runningWrite[readyDocuments[i]],
                                     runningReads[readyDocuments[i]])
    BY DEF ReadyDocumentsAreReady
  <2> DEFINE d == readyDocuments[i]
  <2>1. d \in Documents /\ queue[d] # <<>> /\ ~runningWrite[d]
    BY DEF IInv, TypeOK, ReadyListSound, BlockersSound
  <2>2. ReadsInFlight(d) = {}
    BY ReadyDocumentsIdle DEF ReadsInFlight
  <2>3. runningReads[d] = 0
    BY <2>1, <2>2, FS_EmptySet DEF IInv, CountersExact
  <2> QED
    BY <2>1, <2>3 DEF is_queue_ready
<1> QED
  BY <1>1, LoneReadsInvariant, PTL

\* With lone reads the scheduler does what its class comment says: every step is
\* a step of DocumentTasks or leaves its variables alone.
THEOREM LoneReadsImplementPromise == Spec /\ LoneReads => Promise!Spec
<1>1. Init => Promise!Init
  <2> SUFFICES ASSUME Init PROVE Promise!Init
    OBVIOUS
  <2>1. {t \in Tasks : InFlight(t)} = {}
    BY DEF Init, InFlight
  <2> QED
    BY <2>1 DEF Init, Promise!Init, Promise!Tasks, Tasks, Promise!Jobs, Jobs
<1>2. IInv /\ AllBlock /\ [Next]_vars => [Promise!Next]_Promise!vars
  BY LoneReadsStep
<1> QED
  BY <1>1, <1>2, LoneReadsInvariant, PTL DEF Spec, Promise!Spec
=============================================================================
