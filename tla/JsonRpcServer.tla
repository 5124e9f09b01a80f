---------------------------- MODULE JsonRpcServer ----------------------------
(***************************************************************************)
(* The conversation of the server with its client: serve() reads message   *)
(* after message, jsonrpc::server::handle() answers, drops or dispatches   *)
(* it, handlers run in the main thread or on workers, and all of them      *)
(* write into one std::ostream (snail/jsonrpc and                          *)
(* snail/server/snail_server.cpp).                                         *)
(*                                                                         *)
(* A message of the client is what handle() can tell it from the others.   *)
(* A message of the server is put into the stream in two pieces, header    *)
(* and content, each with several operator<<; what the stream buffer does  *)
(* when two threads use it at once is undefined, and here their pieces     *)
(* just come in some order, which is the least that can happen.  Which     *)
(* task the scheduler and the pool start next is DocumentTaskScheduler's   *)
(* and ThreadPool's matter: here it is any.                                *)
(*                                                                         *)
(* A definition that stands directly above the one it varies, and that     *)
(* nothing uses, is the code with a plausible bug in it; README.md says    *)
(* which property notices it.                                              *)
(***************************************************************************)
EXTENDS Naturals, Sequences, FiniteSets

CONSTANTS
  Workers,      \* threads of the pool
  Scripts,      \* what a client may send: sequences of Frames, then the end
  Outcomes,     \* how a scheduled handler may end
  MaxProgress,  \* bounds the progress notifications of one handler
  stdio         \* the connection is std::cin and std::cout (--stdio)

\* No such message can be dispatched: the JSON does not parse (also because
\* the input ended within the content) or is no request, or nobody registered
\* the method.
Undispatchable == {"malformed", "unknown request", "unknown notification"}
\* Exceptions leave serve() for these, and main() has no handler for them.
Fatal  == {"bad header", "bad parameters", "bad id"}
Serial == {"initialize", "shutdown", "serial notification", "exit"}
Scheduled == {"request", "notification"}
Frames == Undispatchable \cup Fatal \cup Serial \cup Scheduled
Calls  == {"initialize", "shutdown", "request"}   \* requests that reach a handler

ASSUME ScriptsAssumption == Scripts \subseteq Seq(Frames)
ASSUME OutcomesAssumption == Outcomes \subseteq {"result", "error", "escape"}
Threads == Workers \cup {"main"}
None == "nobody"

ASSUME ConstantsAssumption ==
  /\ MaxProgress \in Nat /\ stdio \in BOOLEAN
  /\ "main" \notin Workers /\ None \notin Workers

VARIABLES
  script,          \* what this client sends
  read,            \* how many of them serve() has read
  pc,              \* of the main thread: "serving", "draining", "ended", or
                   \* "died" when std::terminate ended the whole process
  queue,           \* the messages whose tasks wait for a worker
  outbox,          \* what each thread is about to write, one after the other
  begun,           \* the threads that have written the header only
  response_mutex_, \* the thread that holds it
  is_shutting_down_,
  stream           \* the pieces written

vars == <<script, read, pc, queue, outbox, begun, response_mutex_, is_shutting_down_, stream>>

\* A message of the server: about which message of the client, and what of it.
About(n, what) == [n |-> n, what |-> what]
Piece(message, part) == [message |-> message, part |-> part]
Messages == [n : Nat, what : {"result", "error", "escape", "refusal", "print", "progress"}]
Pieces == [message : Messages, part : {"header", "content"}]

\* The answers of handlers take response_mutex_; send_request(), the replies to
\* undispatchable messages and what goes to std::cout do not.
locked_results_only(message) == message.what = "result"
locked(message) == message.what \in {"result", "error"}

Init ==
  /\ script \in Scripts
  /\ read = 0
  /\ pc = "serving"
  /\ queue = {}
  /\ outbox = [t \in Threads |-> <<>>]
  /\ begun = {}
  /\ response_mutex_ = None
  /\ is_shutting_down_ = FALSE
  /\ stream = <<>>

-----------------------------------------------------------------------------
(* serve() and handle(), in the main thread.  At the end of the input        *)
(* read_header() skips empty lines for ever: nothing is enabled there.       *)

\* serve_next() returns with a message of one of these kinds.
ReadNext(kinds) ==
  /\ pc = "serving"
  /\ outbox["main"] = <<>>
  /\ read < Len(script)
  /\ script[read + 1] \in kinds
  /\ read' = read + 1

ReadUndispatchable ==
  /\ ReadNext(Undispatchable)
  /\ outbox' = [outbox EXCEPT !["main"] = <<About(read + 1, "refusal")>>]
  /\ UNCHANGED <<script, pc, queue, begun, response_mutex_, is_shutting_down_, stream>>

ReadFatal ==
  /\ ReadNext(Fatal)
  /\ pc' = "died"
  /\ UNCHANGED <<script, queue, outbox, begun, response_mutex_, is_shutting_down_, stream>>

\* The shutdown handler also prints to std::cout.
ReadSerialRequest ==
  LET kind   == script[read + 1]
      answer == <<About(read + 1, "result")>>
  IN  /\ ReadNext({"initialize", "shutdown"})
      /\ is_shutting_down_' = (is_shutting_down_ \/ kind = "shutdown")
      /\ outbox' = [outbox EXCEPT !["main"] =
                      IF stdio /\ kind = "shutdown" THEN <<About(read + 1, "print")>> \o answer ELSE answer]
      /\ UNCHANGED <<script, pc, queue, begun, response_mutex_, stream>>

ReadSerialNotification ==
  /\ ReadNext({"serial notification"})
  /\ UNCHANGED <<script, pc, queue, outbox, begun, response_mutex_, is_shutting_down_, stream>>

ReadExit ==
  /\ ReadNext({"exit"})
  /\ pc' = "draining"
  /\ UNCHANGED <<script, queue, outbox, begun, response_mutex_, is_shutting_down_, stream>>

ReadScheduled ==
  /\ ReadNext(Scheduled)
  /\ queue' = queue \cup {read + 1}
  /\ UNCHANGED <<script, pc, outbox, begun, response_mutex_, is_shutting_down_, stream>>

\* The scheduler and then the pool are shut down, which drains both.
drained_queue_only == queue = {}
drained_after_shutdown == is_shutting_down_ /\ queue = {} /\ \A w \in Workers : outbox[w] = <<>>
drained == queue = {} /\ \A w \in Workers : outbox[w] = <<>>
Stop ==
  /\ pc = "draining"
  /\ drained
  /\ pc' = "ended"
  /\ UNCHANGED <<script, read, queue, outbox, begun, response_mutex_, is_shutting_down_, stream>>

-----------------------------------------------------------------------------
(* Workers, and writing.                                                     *)

Running == pc \in {"serving", "draining"}

\* What a handler writes that ends this way: a notification answers only with
\* its error.
answers(n, outcome) ==
  IF script[n] = "notification" /\ outcome = "result" THEN <<>> ELSE <<About(n, outcome)>>

Progress(n, count) == [i \in 1 .. count |-> About(n, "progress")]

\* A worker takes a task.  Only requests have a progress token; an exception
\* that is no runtime_error is caught by nobody.
Start(w, n) ==
  /\ Running
  /\ outbox[w] = <<>>
  /\ n \in queue
  /\ queue' = queue \ {n}
  /\ \E count \in 0 .. MaxProgress, outcome \in Outcomes :
       /\ script[n] = "notification" => count = 0
       /\ outbox' = [outbox EXCEPT ![w] = Progress(n, count) \o answers(n, outcome)]
  /\ UNCHANGED <<script, read, pc, begun, response_mutex_, is_shutting_down_, stream>>

Escape(w) ==
  /\ Running
  /\ outbox[w] # <<>>
  /\ Head(outbox[w]).what = "escape"
  /\ pc' = "died"
  /\ UNCHANGED <<script, read, queue, outbox, begun, response_mutex_, is_shutting_down_, stream>>

\* A thread begins to write its next message.
WriteHeader(t) ==
  LET message == Head(outbox[t])
  IN  /\ Running
      /\ outbox[t] # <<>> /\ t \notin begun
      /\ message.what # "escape"
      /\ locked(message) => response_mutex_ = None
      /\ response_mutex_' = IF locked(message) THEN t ELSE response_mutex_
      /\ stream' = Append(stream, Piece(message, "header"))
      /\ begun' = begun \cup {t}
      /\ UNCHANGED <<script, read, pc, queue, outbox, is_shutting_down_>>

\* It ends, and the lock guard with it.
WriteContentHoldingTheMutex(t) ==
  LET message == Head(outbox[t])
  IN  /\ Running
      /\ t \in begun
      /\ stream' = Append(stream, Piece(message, "content"))
      /\ outbox' = [outbox EXCEPT ![t] = Tail(@)]
      /\ begun' = begun \ {t}
      /\ UNCHANGED <<script, read, pc, queue, response_mutex_, is_shutting_down_>>
WriteContent(t) ==
  LET message == Head(outbox[t])
  IN  /\ Running
      /\ t \in begun
      /\ stream' = Append(stream, Piece(message, "content"))
      /\ outbox' = [outbox EXCEPT ![t] = Tail(@)]
      /\ begun' = begun \ {t}
      /\ response_mutex_' = IF locked(message) THEN None ELSE response_mutex_
      /\ UNCHANGED <<script, read, pc, queue, is_shutting_down_>>

MainThread ==
  \/ ReadUndispatchable \/ ReadFatal \/ ReadSerialRequest \/ ReadSerialNotification
  \/ ReadExit \/ ReadScheduled \/ Stop
Worker(w) == Escape(w) \/ \E n \in queue : Start(w, n)
Writer(t) == WriteHeader(t) \/ WriteContent(t)

Next == MainThread \/ (\E w \in Workers : Worker(w)) \/ (\E t \in Threads : Writer(t))
Spec == Init /\ [][Next]_vars

\* Threads go on.  Which of the threads that want the mutex gets it is open: each
\* has only so much to write, so the last one finds it free for good.
FairSpec ==
  /\ Spec
  /\ WF_vars(MainThread)
  /\ \A w \in Workers : WF_vars(Worker(w))
  /\ \A t \in Threads : WF_vars(Writer(t))

-----------------------------------------------------------------------------
(* Properties *)

TypeOK ==
  /\ script \in Scripts
  /\ read \in 0 .. Len(script)
  /\ pc \in {"serving", "draining", "ended", "died"}
  /\ queue \subseteq 1 .. read
  /\ outbox \in [Threads -> Seq(Messages)]
  /\ begun \subseteq Threads
  /\ response_mutex_ \in Threads \cup {None}
  /\ is_shutting_down_ \in BOOLEAN
  /\ stream \in Seq(Pieces)

\* Piece i belongs to the answer of a handler.
OfAnswer(i) == stream[i].message.what \in {"result", "error"}
\* Piece i is the last of those before position k.
LastOfAnswers(i, k) == OfAnswer(i) /\ \A j \in i + 1 .. k - 1 : ~OfAnswer(j)

\* Handlers' answers do not tear each other apart: of the pieces of answers, a
\* content comes right after its own header, and nothing else after a header.
\* (What is written without the mutex may still come between the two.)
AnswersWhole ==
  \A k \in 1 .. Len(stream) : OfAnswer(k) =>
    /\ stream[k].part = "content" =>
         \E i \in 1 .. k - 1 : /\ LastOfAnswers(i, k)
                               /\ stream[i] = Piece(stream[k].message, "header")
    /\ \A i \in 1 .. k - 1 : LastOfAnswers(i, k) /\ stream[i].part = "header" =>
         stream[k] = Piece(stream[i].message, "content")

Written(n, what) == {i \in 1 .. Len(stream) :
                       stream[i].part = "content" /\ stream[i].message = About(n, what)}
Answered(n) == Written(n, "result") \cup Written(n, "error") \cup Written(n, "refusal")

\* No message of the client is answered twice, with the wrong kind of answer, or
\* before it was read; a notification that worked is not answered at all; a
\* handler's progress comes before its answer; and when serve() returns, every
\* message that asked for an answer has had it.
EachServedOnce ==
  /\ \A i \in 1 .. Len(stream) : stream[i].message.n \in 1 .. read
  /\ \A n \in 1 .. read :
       /\ Cardinality(Answered(n)) <= 1
       /\ \A i \in Written(n, "progress"), j \in Answered(n) : i < j
       /\ Written(n, "refusal") # {} => script[n] \in Undispatchable
       /\ Written(n, "result") # {} => script[n] \in Calls
       /\ Written(n, "error") # {} => script[n] \in Scheduled
       /\ pc = "ended" /\ script[n] \in Calls \cup Undispatchable => Answered(n) # {}

\* Something the server does not survive: it has read a message it dies of, or a
\* handler ended with an exception nobody catches.
Doomed ==
  \/ \E n \in 1 .. read : script[n] \in Fatal
  \/ \E w \in Workers : \E i \in 1 .. Len(outbox[w]) : outbox[w][i].what = "escape"

\* Every request that was read is answered, whether or not the client goes on
\* (at the end of the input the main thread spins, but workers finish), unless the
\* server is doomed.
EveryCallAnswered ==
  <>[](Doomed \/ \A n \in 1 .. read : script[n] \in Calls => Answered(n) # {})

\* An exit that was read ends the server, unless it is doomed; successfully if and
\* only if the client asked for the shutdown before.
ExitEndsServer ==
  <>[](\/ Doomed
       \/ \A n \in 1 .. read : script[n] # "exit"
       \/ /\ pc = "ended"
          /\ is_shutting_down_ <=> \E n \in 1 .. read : script[n] = "shutdown")
=============================================================================
