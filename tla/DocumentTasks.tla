------------------------------ MODULE DocumentTasks ------------------------------
(***************************************************************************)
(* What the document task scheduler promises to the server, as the comment *)
(* on the class states it                                                  *)
(* (snail/server/detail/document_task_scheduler.hpp): tasks of different   *)
(* documents run concurrently; the tasks of one document are admitted in   *)
(* the order they were requested, those that only read together, and one   *)
(* that writes alone.                                                      *)
(***************************************************************************)
EXTENDS Naturals, Sequences

CONSTANTS Documents, AccessTypes, MaxTasks

Tasks == 1 .. MaxTasks
Jobs  == [document : Documents, access : AccessTypes]

VARIABLES
  job,        \* the document and the access type of each request
  requested,  \* number of requests made
  waiting,    \* requests of each document that are not admitted yet, in order
  admitted    \* tasks that may be using their document

vars == <<job, requested, waiting, admitted>>

Init ==
  /\ job \in [Tasks -> Jobs]
  /\ requested = 0
  /\ waiting = [d \in Documents |-> <<>>]
  /\ admitted = {}

Request ==
  /\ requested < MaxTasks
  /\ requested' = requested + 1
  /\ waiting' = [waiting EXCEPT ![job[requested'].document] = Append(@, requested')]
  /\ UNCHANGED <<job, admitted>>

\* Nothing that is admitted conflicts with task t.
Admissible(t) ==
  \A u \in admitted :
    job[u].document = job[t].document
      => job[u].access = "read_only" /\ job[t].access = "read_only"

Admit(d) ==
  /\ waiting[d] # <<>>
  /\ Admissible(Head(waiting[d]))
  /\ waiting' = [waiting EXCEPT ![d] = Tail(@)]
  /\ admitted' = admitted \cup {Head(waiting[d])}
  /\ UNCHANGED <<job, requested>>

Finish(t) ==
  /\ t \in admitted
  /\ admitted' = admitted \ {t}
  /\ UNCHANGED <<job, requested, waiting>>

Next ==
  \/ Request
  \/ \E d \in Documents : Admit(d)
  \/ \E t \in Tasks : Finish(t)

Spec == Init /\ [][Next]_vars

FairSpec ==
  /\ Spec
  /\ \A d \in Documents : WF_vars(Admit(d))
  /\ \A t \in Tasks : WF_vars(Finish(t))
=============================================================================
