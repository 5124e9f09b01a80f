--------------------------------- MODULE TaskPool ---------------------------------
(***************************************************************************)
(* What the thread pool promises to those who submit to it                 *)
(* (snail/common/thread_pool.hpp): tasks are started in the order of their *)
(* submission, at most MaxWorkers of them run at a time, none waits while  *)
(* fewer are running, and stop() returns when all of them have ended.      *)
(* Tasks submitted to a stopped pool are ignored.                          *)
(***************************************************************************)
EXTENDS Naturals, Sequences, FiniteSets

CONSTANTS Tasks, MaxWorkers

VARIABLES
  submitted,  \* the tasks the pool has accepted
  waiting,    \* those of them that have not been started, in order
  running,    \* those that have been started and have not ended
  state       \* "open", then "closed" when stop() begins, "stopped" when it returns

vars == <<submitted, waiting, running, state>>

Init ==
  /\ submitted = {}
  /\ waiting = <<>>
  /\ running = {}
  /\ state = "open"

Submit(t) ==
  /\ state = "open"
  /\ t \notin submitted
  /\ submitted' = submitted \cup {t}
  /\ waiting' = Append(waiting, t)
  /\ UNCHANGED <<running, state>>

Start ==
  /\ waiting # <<>>
  /\ Cardinality(running) < MaxWorkers
  /\ waiting' = Tail(waiting)
  /\ running' = running \cup {Head(waiting)}
  /\ UNCHANGED <<submitted, state>>

Finish(t) ==
  /\ t \in running
  /\ running' = running \ {t}
  /\ UNCHANGED <<submitted, waiting, state>>

Close ==
  /\ state = "open"
  /\ state' = "closed"
  /\ UNCHANGED <<submitted, waiting, running>>

Stopped ==
  /\ state = "closed"
  /\ waiting = <<>>
  /\ running = {}
  /\ state' = "stopped"
  /\ UNCHANGED <<submitted, waiting, running>>

Next ==
  \/ \E t \in Tasks : Submit(t) \/ Finish(t)
  \/ Start \/ Close \/ Stopped

Spec == Init /\ [][Next]_vars

\* Started whenever there is room, and stopped whenever everything has ended.
FairSpec == Spec /\ WF_vars(Start) /\ WF_vars(Stopped)
=============================================================================
