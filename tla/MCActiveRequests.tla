--------------------------- MODULE MCActiveRequests ---------------------------
(* An instance of ActiveRequests for TLC. *)
EXTENDS ActiveRequests

\* As many ids as requests: the client may give each its own, or use some again.
MCIds == 1 .. 3
=============================================================================
