---------------------------- MODULE ActiveRequests ----------------------------
(***************************************************************************)
(* The life of a request in snail_server::impl                             *)
(* (snail/server/snail_server.cpp): make_request_task() enters it into     *)
(* active_requests with a cancellation token, its closure runs the         *)
(* handler, answers and removes the entry, and $/cancelRequest looks the   *)
(* token up by the id of the request.                                      *)
(*                                                                         *)
(* A serial request is run by the main thread inside the call that serves  *)
(* it; a scheduled one is handed to the document task scheduler and run    *)
(* by some worker later.  When is the business of DocumentTaskScheduler:   *)
(* here any task that has been handed over may start at any time.          *)
(*                                                                         *)
(* The iterator a closure keeps is the request that inserted the entry it  *)
(* points to: emplace().first is the existing entry when the id is in the  *)
(* map already.                                                            *)
(*                                                                         *)
(* A definition that stands directly above the one it varies, and that     *)
(* nothing uses, is the code with a plausible bug in it; README.md says    *)
(* which property notices it.                                              *)
(***************************************************************************)
EXTENDS Integers, FiniteSets

CONSTANTS
  Ids,          \* request ids
  MaxRequests   \* bound: how many requests the client sends

ASSUME MaxRequestsAssumption == MaxRequests \in Nat

\* A request is named by its position in the order of arrival.
Requests == 1 .. MaxRequests

NoRequest == 0

Kinds == {"serial", "scheduled"}

\* Where a request is: not sent; entered into active_requests; handed to the
\* scheduler; in its handler; the handler returned, or threw; answered, with
\* the entry still to be removed; done with a result, or with an error.
Stages == {"unsent", "registered", "queued", "running", "returned", "thrown",
           "answered", "done", "failed"}

MainPcs == {"serving", "handling", "draining", "stopped"}

VARIABLES
  id,               \* the id of each request (fixed by RequestsInit)
  kind,             \* how each request is registered (fixed by RequestsInit)
  received,         \* number of requests received so far
  stage,            \* where each request is
  active_iter,      \* active_iter, captured by the closure of each request
  active_requests,  \* id -> the request that inserted the entry, or NoRequest
  canceled,         \* cancel_ of the token each request has inserted
  noticed,          \* the handler has seen is_canceled()
  named,            \* history: requests the client cancelled before they were answered
  answers,          \* number of answers sent to each request
  mainPc            \* where the main thread is

request_vars == <<id, kind, received, stage, active_iter, active_requests, canceled,
          noticed, named, answers, mainPc>>

-----------------------------------------------------------------------------

Unanswered == {r \in Requests : stage[r] # "unsent" /\ answers[r] = 0}

\* A client that follows JSON-RPC tells the requests it waits for apart by their
\* ids; it may use the id of an answered one again.
MaySend(r) ==
  \A q \in 1 .. r - 1 : id[q] = id[r] => q \notin Unanswered

\* The entry the closure of r refers to is still in the map.
EntryLives(r) ==
  active_iter[r] # NoRequest /\ active_requests[id[r]] = active_iter[r]

Entered(r) == IF active_requests[id[r]] = NoRequest THEN r ELSE active_requests[id[r]]

\* cancel() of the token in the entry of request q, if there is one.
CanceledAt(q) == IF q = NoRequest THEN canceled ELSE [canceled EXCEPT ![q] = TRUE]

RequestsInit ==
  /\ id \in [Requests -> Ids]
  /\ kind \in [Requests -> Kinds]
  /\ received = 0
  /\ stage = [r \in Requests |-> "unsent"]
  /\ active_iter = [r \in Requests |-> NoRequest]
  /\ active_requests = [i \in Ids |-> NoRequest]
  /\ canceled = [r \in Requests |-> FALSE]
  /\ noticed = [r \in Requests |-> FALSE]
  /\ named = {}
  /\ answers = [r \in Requests |-> 0]
  /\ mainPc = "serving"

-----------------------------------------------------------------------------
(* The main thread *)

\* make_request_task(): emplace() under the mutex.
Receive ==
  /\ mainPc = "serving"
  /\ received < MaxRequests
  /\ LET r == received + 1
     IN  /\ MaySend(r)
         /\ received' = r
         /\ stage' = [stage EXCEPT ![r] = "registered"]
         /\ active_iter' = [active_iter EXCEPT ![r] = Entered(r)]
         /\ active_requests' = [active_requests EXCEPT ![id[r]] = Entered(r)]
  /\ mainPc' = "handling"
  /\ UNCHANGED <<id, kind, canceled, noticed, named, answers>>

\* schedule() of the closure; the main thread goes on to the next message.
HandOver ==
  /\ mainPc = "handling"
  /\ stage[received] = "registered"
  /\ kind[received] = "scheduled"
  /\ stage' = [stage EXCEPT ![received] = "queued"]
  /\ mainPc' = "serving"
  /\ UNCHANGED <<id, kind, received, active_iter, active_requests, canceled,
                 noticed, named, answers>>

\* The closure of a serial request has returned.
HandledSerially ==
  /\ mainPc = "handling"
  /\ stage[received] \in {"done", "failed"}
  /\ mainPc' = "serving"
  /\ UNCHANGED <<id, kind, received, stage, active_iter, active_requests,
                 canceled, noticed, named, answers>>

\* $/cancelRequest for id i: find() and cancel() under the mutex, or nothing if the
\* id is not in the map.
CancelRequestDroppingTheEntry(i) ==
  /\ mainPc = "serving"
  /\ named' = named \cup {r \in Unanswered : id[r] = i}
  /\ canceled' = CanceledAt(active_requests[i])
  /\ active_requests' = [active_requests EXCEPT ![i] = NoRequest]
  /\ UNCHANGED <<id, kind, received, stage, active_iter, noticed, answers, mainPc>>
CancelRequest(i) ==
  /\ mainPc = "serving"
  /\ named' = named \cup {r \in Unanswered : id[r] = i}
  /\ canceled' = CanceledAt(active_requests[i])
  /\ UNCHANGED <<id, kind, received, stage, active_iter, active_requests,
                 noticed, answers, mainPc>>

\* The exit notification ends the serving loop.
Exit ==
  /\ mainPc = "serving"
  /\ mainPc' = "draining"
  /\ UNCHANGED <<id, kind, received, stage, active_iter, active_requests,
                 canceled, noticed, named, answers>>

\* The scheduler and the pool have run every task that was scheduled.
Drained ==
  /\ mainPc = "draining"
  /\ \A r \in 1 .. received : stage[r] \in {"done", "failed"}
  /\ mainPc' = "stopped"
  /\ UNCHANGED <<id, kind, received, stage, active_iter, active_requests,
                 canceled, noticed, named, answers>>

-----------------------------------------------------------------------------
(* The closure of request r, run by the main thread or by a worker *)

StartAfresh(r) ==
  /\ stage[r] = IF kind[r] = "serial" THEN "registered" ELSE "queued"
  /\ stage' = [stage EXCEPT ![r] = "running"]
  /\ canceled' = [canceled EXCEPT ![active_iter[r]] = FALSE]
  /\ UNCHANGED <<id, kind, received, active_iter, active_requests, noticed, named,
                 answers, mainPc>>
Start(r) ==
  /\ stage[r] = IF kind[r] = "serial" THEN "registered" ELSE "queued"
  /\ stage' = [stage EXCEPT ![r] = "running"]
  /\ UNCHANGED <<id, kind, received, active_iter, active_requests, canceled,
                 noticed, named, answers, mainPc>>

\* The handler polls is_canceled() of the token it was given.
Poll(r) ==
  /\ stage[r] = "running"
  /\ canceled[active_iter[r]]
  /\ noticed' = [noticed EXCEPT ![r] = TRUE]
  /\ UNCHANGED <<id, kind, received, stage, active_iter, active_requests,
                 canceled, named, answers, mainPc>>

\* The handler returns a result, a partial one if it noticed the cancellation.
Return(r) ==
  /\ stage[r] = "running"
  /\ stage' = [stage EXCEPT ![r] = "returned"]
  /\ UNCHANGED <<id, kind, received, active_iter, active_requests, canceled,
                 noticed, named, answers, mainPc>>

\* The handler throws a std::runtime_error.
Throw(r) ==
  /\ stage[r] = "running"
  /\ stage' = [stage EXCEPT ![r] = "thrown"]
  /\ UNCHANGED <<id, kind, received, active_iter, active_requests, canceled,
                 noticed, named, answers, mainPc>>

\* report_error(), and return: the entry stays in active_requests.
ReportErrorAndGoOn(r) ==
  /\ stage[r] = "thrown"
  /\ stage' = [stage EXCEPT ![r] = "returned"]
  /\ answers' = [answers EXCEPT ![r] = @ + 1]
  /\ UNCHANGED <<id, kind, received, active_iter, active_requests, canceled,
                 noticed, named, mainPc>>
ReportError(r) ==
  /\ stage[r] = "thrown"
  /\ stage' = [stage EXCEPT ![r] = "failed"]
  /\ answers' = [answers EXCEPT ![r] = @ + 1]
  /\ UNCHANGED <<id, kind, received, active_iter, active_requests, canceled,
                 noticed, named, mainPc>>

Respond(r) ==
  /\ stage[r] = "returned"
  /\ stage' = [stage EXCEPT ![r] = "answered"]
  /\ answers' = [answers EXCEPT ![r] = @ + 1]
  /\ UNCHANGED <<id, kind, received, active_iter, active_requests, canceled,
                 noticed, named, mainPc>>

\* active_requests.erase() under the mutex.  With an iterator to an entry that
\* is gone its effect is undefined: EntriesLive and OnlySharedEntriesDangle say
\* when that can happen, and past it this module claims nothing.
EraseNothing(r) ==
  /\ stage[r] = "answered"
  /\ stage' = [stage EXCEPT ![r] = "done"]
  /\ UNCHANGED <<id, kind, received, active_iter, active_requests, canceled,
                 noticed, named, answers, mainPc>>
Erase(r) ==
  /\ stage[r] = "answered"
  /\ stage' = [stage EXCEPT ![r] = "done"]
  /\ active_requests' =
       IF EntryLives(r) THEN [active_requests EXCEPT ![id[r]] = NoRequest]
                        ELSE active_requests
  /\ UNCHANGED <<id, kind, received, active_iter, canceled, noticed, named, answers, mainPc>>

Closure(r) ==
  \/ Start(r) \/ Poll(r) \/ Return(r) \/ Throw(r)
  \/ ReportError(r) \/ Respond(r) \/ Erase(r)

MainThread ==
  \/ Receive \/ HandOver \/ HandledSerially
  \/ \E i \in Ids : CancelRequest(i)
  \/ Exit \/ Drained

RequestsNext == MainThread \/ \E r \in Requests : Closure(r)

RequestsSpec == RequestsInit /\ [][RequestsNext]_request_vars

-----------------------------------------------------------------------------
(* Properties *)

RequestsTypeOK ==
  /\ id \in [Requests -> Ids]
  /\ kind \in [Requests -> Kinds]
  /\ received \in 0 .. MaxRequests
  /\ stage \in [Requests -> Stages]
  /\ active_iter \in [Requests -> Requests \cup {NoRequest}]
  /\ active_requests \in [Ids -> Requests \cup {NoRequest}]
  /\ canceled \in [Requests -> BOOLEAN]
  /\ noticed \in [Requests -> BOOLEAN]
  /\ named \subseteq Requests
  /\ answers \in [Requests -> 0 .. 1]
  /\ mainPc \in MainPcs

\* The closure still has use for its iterator.
InUse(r) == stage[r] \notin {"unsent", "done", "failed"}

\* No other request has the id of r.
HasIdAlone(r) == \A q \in Requests \ {r} : id[q] # id[r]

\* Unless the client uses its id again: while a closure has use for the entry its
\* iterator points to (to pass the token to the handler, to erase it), the entry
\* is there and is its own.
EntriesLive ==
  \A r \in Requests : InUse(r) /\ HasIdAlone(r) =>
    active_iter[r] = r /\ active_requests[id[r]] = r

\* If the client does use its id again, the only entry a closure can lose is one it
\* shares with another request of the same id, one of which was answered before
\* the other came (respond() before erase()), and which that one has removed.
OnlySharedEntriesDangle ==
  \A r \in Requests : InUse(r) /\ ~EntryLives(r) =>
    \E q \in Requests \ {r} :
      id[q] = id[r] /\ active_iter[q] = active_iter[r] /\ stage[q] = "done"

\* A request is answered once, by a result or by an error, whatever becomes of
\* its handler.
AnsweredOnce ==
  \A r \in Requests :
    answers[r] = IF stage[r] \in {"answered", "done", "failed"} THEN 1 ELSE 0

\* active_requests holds the requests that are being processed and those that
\* have failed: an entry is neither lost nor left behind by a request that has
\* a result.
OnlyFailuresStay ==
  \A i \in Ids : active_requests[i] # NoRequest =>
    /\ id[active_requests[i]] = i
    /\ stage[active_requests[i]] \notin {"unsent", "done"}

\* $/cancelRequest reaches the request it means, or nothing, however it races with
\* the start, the answer and the removal of the request.  If the client names the id
\* of a request that is not answered, the handler sees it from then on, unless its
\* entry is lost (OnlySharedEntriesDangle says to whom).  A handler that sees itself
\* cancelled was named by the client, or found the entry of an answered request
\* under its id when it came: of one that failed, or that was still to be erased.
\* The latter is what a cancellation that comes too late can do: nothing else.
CancellationsReachTheirs ==
  \A r \in Requests :
    /\ r \in named /\ answers[r] = 0 => canceled[active_iter[r]] \/ ~EntryLives(r)
    /\ noticed[r] =>
         \/ r \in named
         \/ active_iter[r] # r /\ answers[active_iter[r]] = 1

\* The inductive invariant: requests arrive in order, one of them is there while
\* the main thread handles it, and who inserted an entry of the map points to it.
RequestsInv ==
  /\ RequestsTypeOK
  /\ mainPc = "handling" => received # 0
  /\ \A r \in Requests : stage[r] = "unsent" <=> r > received
  /\ \A i \in Ids : active_requests[i] # NoRequest =>
       active_iter[active_requests[i]] = active_requests[i]
  /\ AnsweredOnce /\ OnlyFailuresStay /\ EntriesLive

\* What CancellationsReachTheirs needs beside it: who is named was received, and a token
\* that is cancelled is that of a request that was named, or is answered; a request that
\* did not insert an entry of its own found that of an answered one.
CancellationsInv ==
  /\ CancellationsReachTheirs
  /\ \A r \in Requests :
       /\ stage[r] = "unsent" => r \notin named /\ ~canceled[r] /\ ~noticed[r]
       /\ canceled[r] => r \in named \/ answers[r] = 1
       /\ stage[r] # "unsent" =>
            \/ active_iter[r] = r
            \/ active_iter[r] \in Requests /\ answers[active_iter[r]] = 1
=============================================================================
