------------------------- MODULE DocumentTaskScheduler -------------------------
(***************************************************************************)
(* The document task scheduler of the server                               *)
(* (snail/server/detail/document_task_scheduler.{hpp,cpp}) with the three  *)
(* kinds of threads that run its code:                                     *)
(*                                                                         *)
(*   - the main thread, which serves requests: it calls schedule() for     *)
(*     each of them and, once told to exit, shutdown();                    *)
(*   - the scheduler thread, the lambda started by the constructor;        *)
(*   - the workers of the thread pool, which run the lambda that the       *)
(*     scheduler thread submits for every task.                            *)
(*                                                                         *)
(* One action is one critical section of mutex_, one notification of       *)
(* condition_variable_ or one call into the pool; these are the points     *)
(* between which other threads get to run.  The pool is seen here through  *)
(* what it promises: a FIFO of submitted closures, at most MaxWorkers of   *)
(* them running.  Module ThreadPool models the pool itself.                *)
(*                                                                         *)
(* The build modelled is the one with NDEBUG: assert() has no effect, and  *)
(* what the assertions claim is stated as properties.                      *)
(*                                                                         *)
(* A definition that stands directly above the one it varies, and that     *)
(* nothing uses, is the code with a plausible bug in it; README.md says    *)
(* which property notices it.                                              *)
(***************************************************************************)
EXTENDS Integers, Sequences, FiniteSets

CONSTANTS
  Documents,    \* document ids in use
  AccessTypes,  \* the access types the workload uses
  MaxTasks,     \* bound: how many tasks the main thread schedules
  MaxWorkers    \* max_size_ of the thread pool

ASSUME DocumentsAssumption == Documents # {}
ASSUME AccessAssumption    == /\ AccessTypes \subseteq {"read_only", "write"}
                              /\ AccessTypes # {}
ASSUME MaxTasksAssumption   == MaxTasks \in Nat
ASSUME MaxWorkersAssumption == MaxWorkers \in Nat

\* A task is named by its position in the order of the calls of schedule().
Tasks == 1 .. MaxTasks

Jobs == [document : Documents, access : AccessTypes]

\* Where a task is: not scheduled yet; in the queue of its document; popped
\* by the scheduler thread but not submitted yet; in the queue of the pool;
\* running its body; past the critical section that ends it but still to
\* notify; finished.
Phases == {"unscheduled", "queued", "handoff", "pooled",
           "executing", "notifying", "done"}

SchedulerPcs == {"checking", "waiting", "submitting", "exited"}

MainPcs == {"serving", "notifying", "notifying_all", "joining",
            "stopping_pool", "stopped"}

VARIABLES
  job,             \* what each call of schedule() asks for (fixed by Init)
  scheduled,       \* number of tasks scheduled so far
  phase,           \* where each task is
  wasStillReady,   \* was_still_ready, captured by the closure of each task
  queue,           \* document_queues_[d].queue_
  runningWrite,    \* document_queues_[d].running_write_
  runningReads,    \* document_queues_[d].running_reads_
  readyDocuments,  \* ready_documents_
  pool,            \* closures submitted to the pool and not picked up yet
  schedulerPc,     \* where the scheduler thread is
  mainPc,          \* where the main thread is
  shutdown         \* shutdown_

vars == <<job, scheduled, phase, wasStillReady, queue, runningWrite,
          runningReads, readyDocuments, pool, schedulerPc, mainPc, shutdown>>

documentVars == <<queue, runningWrite, runningReads, readyDocuments>>

-----------------------------------------------------------------------------
(* Reading the state *)

Document(t) == job[t].document
IsWrite(t)  == job[t].access = "write"

\* Counted in running_write_ or running_reads_ of its document.
InFlight(t) == phase[t] \in {"handoff", "pooled", "executing"}

\* The workers that are inside a closure.
Busy == {t \in Tasks : phase[t] \in {"executing", "notifying"}}

has_ready_task == readyDocuments # <<>>

has_any_task == \E d \in Documents : queue[d] # <<>>

\* What ends the loop of the scheduler thread.
drained_without_looking == shutdown
drained == shutdown /\ ~has_any_task

\* is_queue_ready(), of a queue with contents q and counters w and r
is_queue_ready_despite_reads(q, w, r) == q # <<>> /\ ~w
is_queue_ready(q, w, r) ==
  /\ q # <<>>
  /\ ~w
  /\ ~IsWrite(Head(q)) \/ r = 0

\* running_reads_ once task t, which is counted in r, has completed
reads_after_keeping(t, r) == r
reads_after(t, r) == IF IsWrite(t) THEN r ELSE r - 1

\* The completion of task t puts its document on the ready list.
continues_always(t) == queue[Document(t)] # <<>>
continues_queue(t) == ~wasStillReady[t] /\ queue[Document(t)] # <<>>

\* queue_.emplace()
enqueued_in_front(q, t) == <<t>> \o q
enqueued(q, t) == Append(q, t)

-----------------------------------------------------------------------------

Init ==
  /\ job \in [Tasks -> Jobs]
  /\ scheduled = 0
  /\ phase = [t \in Tasks |-> "unscheduled"]
  /\ wasStillReady = [t \in Tasks |-> FALSE]
  /\ queue = [d \in Documents |-> <<>>]
  /\ runningWrite = [d \in Documents |-> FALSE]
  /\ runningReads = [d \in Documents |-> 0]
  /\ readyDocuments = <<>>
  /\ pool = <<>>
  /\ schedulerPc = "checking"
  /\ mainPc = "serving"
  /\ shutdown = FALSE

\* notify_one() and notify_all(): only the scheduler thread ever waits.
NotifyNobody == UNCHANGED schedulerPc
Notify == schedulerPc' = IF schedulerPc = "waiting" THEN "checking" ELSE schedulerPc

-----------------------------------------------------------------------------
(* The main thread *)

\* The critical section of schedule().  The branch for a document that has no
\* queue yet creates one and makes the document ready; that is what the other
\* branch does with a queue in which nothing is queued or running.
Schedule ==
  /\ mainPc = "serving"
  /\ scheduled < MaxTasks
  /\ LET t == scheduled + 1
         d == Document(t)
         q == enqueued(queue[d], t)
     IN  /\ scheduled' = t
         /\ phase' = [phase EXCEPT ![t] = "queued"]
         /\ queue' = [queue EXCEPT ![d] = q]
         /\ readyDocuments' =
              IF Len(q) = 1 /\ ~runningWrite[d] /\ runningReads[d] = 0
              THEN Append(readyDocuments, d)
              ELSE readyDocuments
  /\ mainPc' = "notifying"
  /\ UNCHANGED <<job, wasStillReady, runningWrite, runningReads, pool,
                 schedulerPc, shutdown>>

\* The notification after it.
ScheduleNotify ==
  /\ mainPc = "notifying"
  /\ Notify
  /\ mainPc' = "serving"
  /\ UNCHANGED <<job, scheduled, phase, wasStillReady, documentVars, pool, shutdown>>

\* The serving loop has ended: the critical section of shutdown().
Shutdown ==
  /\ mainPc = "serving"
  /\ shutdown' = TRUE
  /\ mainPc' = "notifying_all"
  /\ UNCHANGED <<job, scheduled, phase, wasStillReady, documentVars, pool, schedulerPc>>

ShutdownNotifiesNobody ==
  /\ mainPc = "notifying_all"
  /\ mainPc' = "joining"
  /\ UNCHANGED <<job, scheduled, phase, wasStillReady, documentVars, pool,
                 schedulerPc, shutdown>>
ShutdownNotifyAll ==
  /\ mainPc = "notifying_all"
  /\ Notify
  /\ mainPc' = "joining"
  /\ UNCHANGED <<job, scheduled, phase, wasStillReady, documentVars, pool, shutdown>>

\* thread_.join() at the end of shutdown()
ShutdownJoin ==
  /\ mainPc = "joining"
  /\ schedulerPc = "exited"
  /\ mainPc' = "stopping_pool"
  /\ UNCHANGED <<job, scheduled, phase, wasStillReady, documentVars, pool,
                 schedulerPc, shutdown>>

\* serve() stops the pool, which runs what was submitted and joins the workers,
\* and then deletes the scheduler.
StopPool ==
  /\ mainPc = "stopping_pool"
  /\ pool = <<>>
  /\ Busy = {}
  /\ mainPc' = "stopped"
  /\ UNCHANGED <<job, scheduled, phase, wasStillReady, documentVars, pool,
                 schedulerPc, shutdown>>

-----------------------------------------------------------------------------
(* The scheduler thread *)

\* The predicate of wait() is false.
Wait ==
  /\ schedulerPc = "checking"
  /\ ~has_ready_task
  /\ ~drained
  /\ schedulerPc' = "waiting"
  /\ UNCHANGED <<job, scheduled, phase, wasStillReady, documentVars, pool,
                 mainPc, shutdown>>

\* wait() on a condition variable may return without a notification.
SpuriousWakeup ==
  /\ schedulerPc = "waiting"
  /\ schedulerPc' = "checking"
  /\ UNCHANGED <<job, scheduled, phase, wasStillReady, documentVars, pool,
                 mainPc, shutdown>>

Exit ==
  /\ schedulerPc = "checking"
  /\ drained
  /\ schedulerPc' = "exited"
  /\ UNCHANGED <<job, scheduled, phase, wasStillReady, documentVars, pool,
                 mainPc, shutdown>>

\* The rest of the critical section: pop the next task of the next ready
\* document, count it, and put the document back if it is still ready.
Dispatch ==
  /\ schedulerPc = "checking"
  /\ has_ready_task
  /\ ~drained
  /\ LET d  == Head(readyDocuments)
         t  == Head(queue[d])
         q  == Tail(queue[d])
         w  == runningWrite[d] \/ IsWrite(t)
         r  == runningReads[d] + (IF IsWrite(t) THEN 0 ELSE 1)
         is_still_ready == is_queue_ready(q, w, r)
     IN  /\ phase' = [phase EXCEPT ![t] = "handoff"]
         /\ wasStillReady' = [wasStillReady EXCEPT ![t] = is_still_ready]
         /\ queue' = [queue EXCEPT ![d] = q]
         /\ runningWrite' = [runningWrite EXCEPT ![d] = w]
         /\ runningReads' = [runningReads EXCEPT ![d] = r]
         /\ readyDocuments' = IF is_still_ready
                              THEN Append(Tail(readyDocuments), d)
                              ELSE Tail(readyDocuments)
  /\ schedulerPc' = "submitting"
  /\ UNCHANGED <<job, scheduled, pool, mainPc, shutdown>>

\* pool_->submit(), with the mutex released
Submit(t) ==
  /\ schedulerPc = "submitting"
  /\ phase[t] = "handoff"
  /\ phase' = [phase EXCEPT ![t] = "pooled"]
  /\ pool' = Append(pool, t)
  /\ schedulerPc' = "checking"
  /\ UNCHANGED <<job, scheduled, wasStillReady, documentVars, mainPc, shutdown>>

-----------------------------------------------------------------------------
(* The workers of the pool *)

\* A worker takes the oldest closure and enters task.task_().
StartTask ==
  /\ pool # <<>>
  /\ Cardinality(Busy) < MaxWorkers
  /\ phase' = [phase EXCEPT ![Head(pool)] = "executing"]
  /\ pool' = Tail(pool)
  /\ UNCHANGED <<job, scheduled, wasStillReady, documentVars, schedulerPc,
                 mainPc, shutdown>>

\* task.task_() has returned: the critical section at the end of the closure.
CompleteTask(t) ==
  /\ phase[t] = "executing"
  /\ phase' = [phase EXCEPT ![t] = "notifying"]
  /\ LET d == Document(t)
     IN  /\ runningWrite' = [runningWrite EXCEPT ![d] = @ /\ ~IsWrite(t)]
         /\ runningReads' = [runningReads EXCEPT ![d] = reads_after(t, @)]
         /\ readyDocuments' = IF continues_queue(t)
                              THEN Append(readyDocuments, d)
                              ELSE readyDocuments
  /\ UNCHANGED <<job, scheduled, wasStillReady, queue, pool, schedulerPc,
                 mainPc, shutdown>>

NotifyCompletion(t) ==
  /\ phase[t] = "notifying"
  /\ phase' = [phase EXCEPT ![t] = "done"]
  /\ Notify
  /\ UNCHANGED <<job, scheduled, wasStillReady, documentVars, pool, mainPc, shutdown>>

-----------------------------------------------------------------------------

MainThread ==
  \/ Schedule \/ ScheduleNotify
  \/ Shutdown \/ ShutdownNotifyAll \/ ShutdownJoin \/ StopPool

SchedulerThread == Wait \/ Exit \/ Dispatch \/ \E t \in Tasks : Submit(t)

Worker == StartTask \/ \E t \in Tasks : CompleteTask(t) \/ NotifyCompletion(t)

Next == MainThread \/ SchedulerThread \/ SpuriousWakeup \/ Worker

Spec == Init /\ [][Next]_vars

\* Threads that can take a step of this code do so.  Nothing obliges the main
\* thread to schedule another task or to be told to exit.
ThreadFairness ==
  /\ WF_vars(ScheduleNotify)
  /\ WF_vars(ShutdownNotifyAll \/ ShutdownJoin \/ StopPool)
  /\ WF_vars(SchedulerThread)
  /\ WF_vars(StartTask)
  /\ \A t \in Tasks : WF_vars(NotifyCompletion(t))

\* The bodies of the tasks terminate.
Fairness == ThreadFairness /\ \A t \in Tasks : WF_vars(CompleteTask(t))

FairSpec == Spec /\ Fairness

-----------------------------------------------------------------------------
(* Properties *)

TypeOK ==
  /\ job \in [Tasks -> Jobs]
  /\ scheduled \in 0 .. MaxTasks
  /\ phase \in [Tasks -> Phases]
  /\ wasStillReady \in [Tasks -> BOOLEAN]
  /\ queue \in [Documents -> Seq(Tasks)]
  /\ runningWrite \in [Documents -> BOOLEAN]
  /\ runningReads \in [Documents -> Nat]
  /\ readyDocuments \in Seq(Documents)
  /\ pool \in Seq(Tasks)
  /\ schedulerPc \in SchedulerPcs
  /\ mainPc \in MainPcs
  /\ shutdown \in BOOLEAN

\* Has been popped from the queue of its document.
Dispatched(t) == phase[t] \notin {"unscheduled", "queued"}

SameDocument(t, u) == Document(t) = Document(u)

\* Tasks of one document leave its queue in the order in which schedule() was
\* called ("need to be executed in order").
DispatchedInOrder ==
  \A t, u \in Tasks :
    SameDocument(t, u) /\ t < u /\ Dispatched(u) => Dispatched(t)

\* A writing task that is counted as running is never overtaken: whatever else
\* of its document is counted was dispatched before it.  So two writes never
\* run together, and no read joins a write that runs.
NothingJoinsAWrite ==
  \A t, u \in Tasks :
    InFlight(t) /\ InFlight(u) /\ SameDocument(t, u) /\ IsWrite(t) => u <= t

ReadsInFlight(d) == {t \in Tasks : InFlight(t) /\ Document(t) = d /\ ~IsWrite(t)}

\* running_write_ and running_reads_ are what they are called: the assertions
\* on them in the dispatch and in the completion hold, and neither is ever left
\* behind by a task that has gone.
CountersExact ==
  \A d \in Documents :
    /\ runningReads[d] = Cardinality(ReadsInFlight(d))
    /\ runningWrite[d] <=> \E t \in Tasks : InFlight(t) /\ Document(t) = d /\ IsWrite(t)

\* A document is never in ready_documents_ twice or with nothing to pop, and
\* never while one of its running tasks is going to put it there again.
ReadyListSound ==
  \A i \in 1 .. Len(readyDocuments) :
    LET d == readyDocuments[i]
    IN  /\ queue[d] # <<>>
        /\ \A t \in Tasks : InFlight(t) /\ Document(t) = d => wasStillReady[t]
        /\ \A j \in 1 .. Len(readyDocuments) : readyDocuments[j] = d => i = j

\* Once the scheduler thread is gone nothing is queued any more, and when serve()
\* deletes the scheduler no closure that refers to it is left ("now, all tasks
\* are completed and it is safe to delete the scheduler").
ShutdownDrains ==
  /\ schedulerPc = "exited" => ~has_any_task
  /\ mainPc = "stopped" =>
       \A t \in Tasks : t <= scheduled => phase[t] = "done"

\* A task that writes has its document for itself ("Tasks for a specific
\* document need to be executed in order if they alter the state of the
\* document").
WriteIsExclusive ==
  \A t, u \in Tasks :
    /\ phase[t] = "executing" /\ phase[u] = "executing"
    /\ SameDocument(t, u) /\ IsWrite(t)
    => t = u

\* assert(is_queue_ready(ready_queue)), where a document is taken from
\* ready_documents_ and where one is put there.
ReadyDocumentsAreReady ==
  \A i \in 1 .. Len(readyDocuments) :
    LET d == readyDocuments[i]
    IN  is_queue_ready(queue[d], runningWrite[d], runningReads[d])

\* A task that has been scheduled is run.
EveryTaskRuns ==
  \A t \in Tasks : phase[t] = "queued" ~> phase[t] = "done"

\* serve() gets through its shutdown sequence.
ShutdownEnds == mainPc = "notifying_all" ~> mainPc = "stopped"

\* The tasks 1 .. scheduled have been scheduled, and no others.
PhasesFollowCalls == \A t \in Tasks : phase[t] = "unscheduled" <=> t > scheduled

\* The queue of a document holds its queued tasks, in the order of the calls.
QueuesSound ==
  /\ \A d \in Documents : \A i \in 1 .. Len(queue[d]) :
       Document(queue[d][i]) = d /\ phase[queue[d][i]] = "queued"
  /\ \A d \in Documents : \A i, j \in 1 .. Len(queue[d]) :
       i < j => queue[d][i] < queue[d][j]
  /\ \A t \in Tasks : phase[t] = "queued" =>
       \E i \in 1 .. Len(queue[Document(t)]) : queue[Document(t)][i] = t

\* A running task after whose dispatch the queue was not ready any more: it is
\* the one that will put the document back on the ready list.
Blocking(t) == InFlight(t) /\ ~wasStillReady[t]

\* A document has at most one such task, every write is one, and no write runs
\* while the document is on the ready list.
BlockersSound ==
  /\ \A t, u \in Tasks : Blocking(t) /\ Blocking(u) /\ SameDocument(t, u) => t = u
  /\ \A t \in Tasks : InFlight(t) /\ IsWrite(t) => Blocking(t)
  /\ \A i \in 1 .. Len(readyDocuments) : ~runningWrite[readyDocuments[i]]

\* A task that has been popped is on its way to the pool or in it, once.
HandoversSound ==
  /\ \A t \in Tasks : phase[t] = "handoff" => schedulerPc = "submitting"
  /\ \A t, u \in Tasks : phase[t] = "handoff" /\ phase[u] = "handoff" => t = u
  /\ \A i \in 1 .. Len(pool) : phase[pool[i]] = "pooled"
  /\ \A i, j \in 1 .. Len(pool) : pool[i] = pool[j] => i = j
  /\ \A t \in Tasks : phase[t] = "pooled" => \E i \in 1 .. Len(pool) : pool[i] = t

\* The threads end in the order in which serve() lets them.
ThreadsEndInOrder ==
  /\ schedulerPc = "exited" => shutdown
  /\ shutdown => mainPc \notin {"serving", "notifying"}
  /\ mainPc \in {"stopping_pool", "stopped"} => schedulerPc = "exited"

\* The inductive invariant: the safety properties above and the four facts about
\* queues, blockers, handovers and threads that carry them from step to step.
IInv ==
  /\ TypeOK
  /\ PhasesFollowCalls /\ QueuesSound /\ DispatchedInOrder
  /\ CountersExact /\ NothingJoinsAWrite
  /\ ReadyListSound /\ BlockersSound
  /\ HandoversSound /\ ThreadsEndInOrder /\ ShutdownDrains

\* Between two reads of a document there is always a write of it.  No two reads
\* can then run together, and these are the loads the scheduler is fit for.
LoneReads ==
  \A t, u \in Tasks :
    t < u /\ SameDocument(t, u) /\ ~IsWrite(t) /\ ~IsWrite(u) =>
      \E w \in t .. u : SameDocument(t, w) /\ IsWrite(w)

LoneReadsInit == Init /\ LoneReads

LoneReadsSpec == LoneReadsInit /\ [][Next]_vars /\ Fairness

\* What such a load does to the scheduler: after every dispatch the document is
\* taken from the ready list, and it is the task in flight that puts it back.
AllBlock == \A t \in Tasks : InFlight(t) => ~wasStillReady[t]

\* The promise made by the comment on the class.
Promise ==
  INSTANCE DocumentTasks WITH
    requested <- scheduled,
    waiting   <- queue,
    admitted  <- {t \in Tasks : InFlight(t)}

ImplementsDocumentTasks == Promise!FairSpec
=============================================================================
