-------------------------------- MODULE ThreadPool --------------------------------
(***************************************************************************)
(* The thread pool (snail/common/thread_pool.{hpp,cpp}): the threads that  *)
(* call submit(), the thread that calls stop(), and the workers.           *)
(*                                                                         *)
(* One action is one critical section of mutex_, one notification of       *)
(* condition_variable_, or the test of workers_.size() that submit() makes *)
(* with the mutex released.  Workers are started one by one and named by   *)
(* their position in workers_.                                             *)
(*                                                                         *)
(* stop() iterates over workers_ and writes max_size_, which a submit() in *)
(* progress reads with the mutex released: as in snail_server, whose       *)
(* scheduler thread is joined before the pool is stopped, nobody is inside *)
(* submit() when stop() is called.  A submit() that begins later is        *)
(* modelled: it is ignored.                                                *)
(*                                                                         *)
(* A definition that stands directly above the one it varies, and that     *)
(* nothing uses, is the code with a plausible bug in it; README.md says    *)
(* which property notices it.                                              *)
(***************************************************************************)
EXTENDS Naturals, Sequences, FiniteSets

CONSTANTS
  Submitters,  \* the threads that submit
  Tasks,       \* the tasks they submit, each at most once
  MaxSize      \* the argument of the constructor

ASSUME MaxSizeAssumption == MaxSize \in Nat
ASSUME TasksAssumption   == IsFiniteSet(Tasks) /\ IsFiniteSet(Submitters)

\* Every submission spawns at most one worker.
Workers == 1 .. Cardinality(Tasks)

SubmitterPcs == {"idle", "notifying", "testing", "spawning"}
WorkerPcs    == {"none", "checking", "waiting", "running", "exited"}
StopperPcs   == {"running", "notifying", "joining", "stopped"}

VARIABLES
  fresh,        \* the tasks nobody has submitted yet
  accepted,     \* the tasks that were put into task_queue_
  max_size,     \* max_size_
  stopped,      \* stopped_
  task_queue,   \* task_queue_
  size,         \* workers_.size()
  submitterPc,  \* where each submitter is
  workerPc,     \* where each worker is
  task,         \* what each worker has taken: nothing or one task
  stopperPc     \* where the thread that stops the pool is

vars == <<fresh, accepted, max_size, stopped, task_queue, size, submitterPc,
          workerPc, task, stopperPc>>

Started == {w \in Workers : workerPc[w] # "none"}
-----------------------------------------------------------------------------

\* The workers that wait for condition_variable_.
Idle == {w \in Workers : workerPc[w] = "waiting"}

Init ==
  /\ fresh = Tasks
  /\ accepted = {}
  /\ max_size = MaxSize
  /\ stopped = FALSE
  /\ task_queue = <<>>
  /\ size = 0
  /\ submitterPc = [s \in Submitters |-> "idle"]
  /\ workerPc = [w \in Workers |-> "none"]
  /\ task = [w \in Workers |-> {}]
  /\ stopperPc = "running"

-----------------------------------------------------------------------------
(* submit() *)

\* The first critical section.
SubmitWhenStopped(s, t) ==
  /\ submitterPc[s] = "idle"
  /\ t \in fresh
  /\ fresh' = fresh \ {t}
  /\ accepted' = accepted \cup {t}
  /\ task_queue' = Append(task_queue, t)
  /\ submitterPc' = [submitterPc EXCEPT ![s] = "notifying"]
  /\ UNCHANGED <<max_size, stopped, size, workerPc, task, stopperPc>>
Submit(s, t) ==
  /\ submitterPc[s] = "idle"
  /\ t \in fresh
  /\ fresh' = fresh \ {t}
  /\ IF stopped
     THEN UNCHANGED <<accepted, task_queue, submitterPc>>
     ELSE /\ accepted' = accepted \cup {t}
          /\ task_queue' = Append(task_queue, t)
          /\ submitterPc' = [submitterPc EXCEPT ![s] = "notifying"]
  /\ UNCHANGED <<max_size, stopped, size, workerPc, task, stopperPc>>

\* notify_one() wakes one of the waiting workers, if there are any.
NotifyNobody == UNCHANGED workerPc
NotifyOne ==
  \/ \E w \in Idle : workerPc' = [workerPc EXCEPT ![w] = "checking"]
  \/ Idle = {} /\ UNCHANGED workerPc

SubmitNotify(s) ==
  /\ submitterPc[s] = "notifying"
  /\ NotifyOne
  /\ submitterPc' = [submitterPc EXCEPT ![s] = "testing"]
  /\ UNCHANGED <<fresh, accepted, max_size, stopped, task_queue, size, task, stopperPc>>

\* workers_.size() < max_size_, tested without the mutex
may_spawn == size < max_size

SubmitTest(s) ==
  /\ submitterPc[s] = "testing"
  /\ submitterPc' = [submitterPc EXCEPT ![s] = IF may_spawn THEN "spawning" ELSE "idle"]
  /\ UNCHANGED <<fresh, accepted, max_size, stopped, task_queue, size, workerPc,
                 task, stopperPc>>

\* spawn_thread() appends to workers_.
new_worker == size + 1

\* The second critical section: spawn_thread() unless the queue is empty.
SubmitSpawn(s) ==
  /\ submitterPc[s] = "spawning"
  /\ submitterPc' = [submitterPc EXCEPT ![s] = "idle"]
  /\ IF task_queue # <<>>
     THEN /\ size' = size + 1
          /\ workerPc' = [workerPc EXCEPT ![new_worker] = "checking"]
     ELSE UNCHANGED <<size, workerPc>>
  /\ UNCHANGED <<fresh, accepted, max_size, stopped, task_queue, task, stopperPc>>

-----------------------------------------------------------------------------
(* The loop of a worker *)

WorkerWait(w) ==
  /\ workerPc[w] = "checking"
  /\ ~stopped
  /\ task_queue = <<>>
  /\ workerPc' = [workerPc EXCEPT ![w] = "waiting"]
  /\ UNCHANGED <<fresh, accepted, max_size, stopped, task_queue, size, submitterPc,
                 task, stopperPc>>

\* wait() on a condition variable may return without a notification.
SpuriousWakeup(w) ==
  /\ workerPc[w] = "waiting"
  /\ workerPc' = [workerPc EXCEPT ![w] = "checking"]
  /\ UNCHANGED <<fresh, accepted, max_size, stopped, task_queue, size, submitterPc,
                 task, stopperPc>>

leaves_when_stopped == stopped
leaves == stopped /\ task_queue = <<>>

WorkerExit(w) ==
  /\ workerPc[w] = "checking"
  /\ leaves
  /\ workerPc' = [workerPc EXCEPT ![w] = "exited"]
  /\ UNCHANGED <<fresh, accepted, max_size, stopped, task_queue, size, submitterPc,
                 task, stopperPc>>

WorkerTake(w) ==
  /\ workerPc[w] = "checking"
  /\ task_queue # <<>>
  /\ task' = [task EXCEPT ![w] = {Head(task_queue)}]
  /\ task_queue' = Tail(task_queue)
  /\ workerPc' = [workerPc EXCEPT ![w] = "running"]
  /\ UNCHANGED <<fresh, accepted, max_size, stopped, size, submitterPc, stopperPc>>

\* task() returns.
WorkerFinish(w) ==
  /\ workerPc[w] = "running"
  /\ workerPc' = [workerPc EXCEPT ![w] = "checking"]
  /\ task' = [task EXCEPT ![w] = {}]
  /\ UNCHANGED <<fresh, accepted, max_size, stopped, task_queue, size, submitterPc,
                 stopperPc>>

-----------------------------------------------------------------------------
(* stop() *)

Stop ==
  /\ stopperPc = "running"
  /\ \A s \in Submitters : submitterPc[s] = "idle"
  /\ stopped' = TRUE
  /\ max_size' = 0
  /\ stopperPc' = "notifying"
  /\ UNCHANGED <<fresh, accepted, task_queue, size, submitterPc, workerPc, task>>

StopNotifyAll ==
  /\ stopperPc = "notifying"
  /\ workerPc' = [w \in Workers |-> IF w \in Idle THEN "checking" ELSE workerPc[w]]
  /\ stopperPc' = "joining"
  /\ UNCHANGED <<fresh, accepted, max_size, stopped, task_queue, size, submitterPc, task>>

\* Every worker has been joined; workers_.clear().
StopJoined ==
  /\ stopperPc = "joining"
  /\ \A w \in Started : workerPc[w] = "exited"
  /\ size' = 0
  /\ stopperPc' = "stopped"
  /\ UNCHANGED <<fresh, accepted, max_size, stopped, task_queue, submitterPc, workerPc, task>>

-----------------------------------------------------------------------------

SubmitterStep(s) == SubmitNotify(s) \/ SubmitTest(s) \/ SubmitSpawn(s)

WorkerStep(w) == WorkerWait(w) \/ WorkerExit(w) \/ WorkerTake(w)

StopperStep == StopNotifyAll \/ StopJoined

Next ==
  \/ \E s \in Submitters : SubmitterStep(s) \/ \E t \in Tasks : Submit(s, t)
  \/ \E w \in Workers : WorkerStep(w) \/ WorkerFinish(w) \/ SpuriousWakeup(w)
  \/ Stop \/ StopperStep

Spec == Init /\ [][Next]_vars

\* A thread that can go on in the code of the pool does.  Nothing is assumed of
\* the tasks: they may run forever.
FairSpec ==
  /\ Spec
  /\ \A s \in Submitters : WF_vars(SubmitterStep(s))
  /\ \A w \in Workers : WF_vars(WorkerStep(w))
  /\ WF_vars(StopperStep)

-----------------------------------------------------------------------------
(* Properties *)

TypeOK ==
  /\ fresh \subseteq Tasks
  /\ accepted \subseteq Tasks \ fresh
  /\ max_size \in Nat
  /\ stopped \in BOOLEAN
  /\ task_queue \in Seq(accepted)
  /\ size \in 0 .. Cardinality(Tasks)
  /\ submitterPc \in [Submitters -> SubmitterPcs]
  /\ workerPc \in [Workers -> WorkerPcs]
  /\ task \in [Workers -> SUBSET accepted]
  /\ stopperPc \in StopperPcs
  /\ stopperPc # "stopped" => Started = 1 .. size

\* submit() tests the number of workers and adds one in different critical
\* sections, so that submitters overtake each other: a single one never exceeds
\* the maximum ("Maximum number of worker threads to use when handling
\* requests"), and each further one adds at most one worker.
WorkersBounded ==
  Submitters # {} => Cardinality(Started) <= MaxSize + Cardinality(Submitters) - 1

\* When stop() returns, every task that was accepted has been run and no worker
\* is left ("then, wait for all tasks in the pool to finish").
StopDrains ==
  stopperPc = "stopped" =>
    /\ task_queue = <<>>
    /\ \A w \in Started : workerPc[w] = "exited"

\* Once the pool is stopped nobody is inside submit(), and a worker only leaves a
\* stopped pool whose queue is empty.
StopSound ==
  /\ stopped <=> stopperPc # "running"
  /\ max_size = IF stopped THEN 0 ELSE MaxSize
  /\ stopped => \A s \in Submitters : submitterPc[s] = "idle"
  /\ \A w \in Workers : workerPc[w] = "exited" => stopped /\ task_queue = <<>>

Submitting == {s \in Submitters : submitterPc[s] # "idle"}
Spawning   == {s \in Submitters : submitterPc[s] = "spawning"}

\* A submitter that has passed the test counts as the worker it may spawn, and a
\* submission in progress as the one its task may need.
SpawnsCounted ==
  /\ Submitters # {} =>
       Cardinality(Started) + Cardinality(Spawning) <= MaxSize + Cardinality(Submitters) - 1
  /\ Cardinality(Started) + Cardinality(Submitting) <= Cardinality(accepted)

\* A queued task has a worker, or a submission in progress that will spawn one.
QueueServed ==
  MaxSize > 0 /\ task_queue # <<>> => Started # {} \/ Submitting # {}

\* The inductive invariant.
IInv ==
  /\ TypeOK /\ StopSound /\ SpawnsCounted /\ QueueServed
  /\ MaxSize > 0 => StopDrains

\* With a single submitter the pool does what module TaskPool says, which is all
\* the document task scheduler assumes of it.
Promise ==
  INSTANCE TaskPool WITH
    MaxWorkers <- MaxSize,
    submitted  <- accepted,
    waiting    <- task_queue,
    running    <- UNION {task[w] : w \in Workers},
    state      <- IF stopperPc = "stopped" THEN "stopped"
                  ELSE IF stopped THEN "closed" ELSE "open"

ImplementsTaskPool == Promise!FairSpec
=============================================================================
