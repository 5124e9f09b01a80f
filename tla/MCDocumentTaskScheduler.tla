----------------------- MODULE MCDocumentTaskScheduler -----------------------
(* Instances of DocumentTaskScheduler for TLC. *)
EXTENDS DocumentTaskScheduler, TLC

CONSTANTS d1, d2

OneDocument  == {d1}
TwoDocuments == {d1, d2}

ReadsAndWrites == {"read_only", "write"}
OnlyReads      == {"read_only"}

\* Documents are interchangeable; used by the runs without liveness.
DocumentSymmetry == Permutations(Documents)
=============================================================================
