------------------------------ MODULE MCThreadPool ------------------------------
(* An instance of ThreadPool for TLC. *)
EXTENDS ThreadPool

CONSTANTS scheduler, t1, t2, t3, t4

OneSubmitter == {scheduler}
FourTasks    == {t1, t2, t3, t4}
=============================================================================
