--------------------------- MODULE MCJsonRpcServer ---------------------------
(* Instances of JsonRpcServer for TLC. *)
EXTENDS JsonRpcServer

MCWorkers == {"w1", "w2"}

\* Beside a scheduled request there is another one, a scheduled notification, a
\* serial request or a message nobody can dispatch; then the client is gone, or
\* exits, with a shutdown before it or without.
Endings == {<<>>, <<"exit">>, <<"shutdown", "exit">>}
Busy    == {<<"request", second>> \o ending :
              second \in {"request", "notification", "initialize", "malformed"}, ending \in Endings}

\* The other messages, each after a scheduled request: what the server dies of,
\* what it refuses or ignores, and a request after the shutdown.
Single  == {<<"request", second>> :
              second \in Fatal \cup {"unknown request", "unknown notification", "serial notification"}}
              \cup {<<"request", "shutdown", "initialize">>}

MCScripts == Busy \cup Single
=============================================================================
