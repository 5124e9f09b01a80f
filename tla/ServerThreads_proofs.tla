------------------------- MODULE ServerThreads_proofs -------------------------
(***************************************************************************)
(* Proofs about the requests of a client (ActiveRequests) and the threads  *)
(* that work on them (ThreadPool).                                         *)
(*                                                                         *)
(* For any number of requests every one is answered once, the closure of a *)
(* request whose id is used once never uses an entry that is gone, and a   *)
(* cancellation reaches the request it names or nothing.  For any number of*)
(* submitters the workers are as many as the pool may have at most, stop() *)
(* leaves no accepted task behind if there may be workers at all, and with *)
(* a single submitter the pool implements TaskPool.                        *)
(***************************************************************************)
EXTENDS ActiveRequests, ThreadPool, FiniteSetTheorems, TLAPS

-----------------------------------------------------------------------------
(* The requests *)

LEMMA RequestsStart == RequestsInit => RequestsInv
BY MaxRequestsAssumption
DEF RequestsInit, RequestsInv, RequestsTypeOK, AnsweredOnce, OnlyFailuresStay, EntriesLive, InUse,
    HasIdAlone, Requests, Stages, MainPcs, NoRequest

(***************************************************************************)
(* The steps.                                                              *)
(***************************************************************************)

\* The entry that emplace() returns is the new one or one that stayed.
LEMMA EnteredIsARequest ==
  ASSUME RequestsInv, NEW r \in Requests
  PROVE  /\ Entered(r) \in Requests
         /\ Entered(r) = r \/ Entered(r) = active_requests[id[r]]
BY DEF RequestsInv, RequestsTypeOK, Entered, Requests, NoRequest

LEMMA ReceiveStep == RequestsInv /\ Receive => RequestsInv'
<1> SUFFICES ASSUME RequestsInv, Receive PROVE RequestsInv'
  OBVIOUS
<1> DEFINE r == received + 1
<1>1. r \in Requests /\ r # NoRequest /\ received \in Nat
  BY MaxRequestsAssumption DEF RequestsInv, RequestsTypeOK, Receive, Requests, NoRequest
<1>2. /\ received' = r
      /\ stage' = [stage EXCEPT ![r] = "registered"]
      /\ active_iter' = [active_iter EXCEPT ![r] = Entered(r)]
      /\ active_requests' = [active_requests EXCEPT ![id[r]] = Entered(r)]
      /\ mainPc' = "handling"
      /\ UNCHANGED <<id, kind, canceled, noticed, named, answers>>
  BY DEF Receive
<1>3. /\ id[r] \in Ids
      /\ stage[r] = "unsent"
      /\ answers[r] = 0
  BY <1>1 DEF RequestsInv, RequestsTypeOK, AnsweredOnce, Requests
<1>4. Entered(r) \in Requests
  BY <1>1, EnteredIsARequest
<1>5. RequestsTypeOK' /\ (mainPc = "handling" => received # 0)'
  BY <1>1, <1>2, <1>4 DEF RequestsInv, RequestsTypeOK, Requests, Stages, MainPcs, NoRequest
<1>6. (\A q \in Requests : stage[q] = "unsent" <=> q > received)'
  BY <1>1, <1>2 DEF RequestsInv, RequestsTypeOK, Requests
<1>7. AnsweredOnce'
  BY <1>1, <1>2, <1>3 DEF RequestsInv, RequestsTypeOK, AnsweredOnce
<1>8. OnlyFailuresStay'
  <2> SUFFICES ASSUME NEW i \in Ids, active_requests'[i] # NoRequest
               PROVE  /\ id[active_requests'[i]] = i
                      /\ stage'[active_requests'[i]] \notin {"unsent", "done"}
    BY <1>2 DEF OnlyFailuresStay
  <2>1. CASE i = id[r] /\ active_requests[id[r]] = NoRequest
    BY <2>1, <1>1, <1>2 DEF RequestsInv, RequestsTypeOK, Entered
  <2>2. CASE i # id[r] \/ active_requests[id[r]] # NoRequest
    <3>1. active_requests'[i] = active_requests[i]
      BY <2>2, <1>2, <1>3 DEF RequestsInv, RequestsTypeOK, Entered
    <3> QED
      BY <3>1, <1>1, <1>2, <1>3 DEF RequestsInv, RequestsTypeOK, OnlyFailuresStay, NoRequest
  <2> QED
    BY <2>1, <2>2
<1>9. (\A i \in Ids : active_requests[i] # NoRequest =>
         active_iter[active_requests[i]] = active_requests[i])'
  <2> SUFFICES ASSUME NEW i \in Ids, active_requests'[i] # NoRequest
               PROVE  active_iter'[active_requests'[i]] = active_requests'[i]
    OBVIOUS
  <2>1. CASE i = id[r] /\ active_requests[id[r]] = NoRequest
    BY <2>1, <1>1, <1>2 DEF RequestsInv, RequestsTypeOK, Entered
  <2>2. CASE i # id[r] \/ active_requests[id[r]] # NoRequest
    <3>1. active_requests'[i] = active_requests[i]
      BY <2>2, <1>2, <1>3 DEF RequestsInv, RequestsTypeOK, Entered
    <3>2. active_requests[i] \in Requests /\ active_requests[i] # r
      BY <3>1, <1>3 DEF RequestsInv, RequestsTypeOK, OnlyFailuresStay
    <3> QED
      BY <3>1, <3>2, <1>2 DEF RequestsInv, RequestsTypeOK
  <2> QED
    BY <2>1, <2>2
<1>10. EntriesLive'
  <2>1. ASSUME NEW q \in Requests, InUse(q)', HasIdAlone(q)
        PROVE  active_iter'[q] = q /\ active_requests'[id[q]] = q
    <3>1. CASE q = r
      <4>1. active_requests[id[r]] = NoRequest
        <5> SUFFICES ASSUME active_requests[id[r]] # NoRequest PROVE FALSE
          OBVIOUS
        <5> DEFINE p == active_requests[id[r]]
        <5>1. p \in Requests /\ id[p] = id[r] /\ stage[p] # "unsent"
          BY <1>3 DEF RequestsInv, RequestsTypeOK, OnlyFailuresStay
        <5> QED
          BY <5>1, <1>3, <2>1, <3>1 DEF HasIdAlone
      <4> QED
        BY <3>1, <4>1, <1>1, <1>2, <1>3 DEF RequestsInv, RequestsTypeOK, Entered
    <3>2. CASE q # r
      <4>1. InUse(q) /\ active_iter[q] = q /\ active_requests[id[q]] = q
        BY <3>2, <2>1, <1>2 DEF RequestsInv, RequestsTypeOK, InUse, EntriesLive
      <4>2. id[q] # id[r]
        BY <1>1, <2>1, <3>2 DEF HasIdAlone
      <4> QED
        BY <4>1, <4>2, <3>2, <1>1, <1>2 DEF RequestsInv, RequestsTypeOK
    <3> QED
      BY <3>1, <3>2
  <2> QED
    BY <2>1, <1>2 DEF EntriesLive, HasIdAlone
<1> QED
  BY <1>5, <1>6, <1>7, <1>8, <1>9, <1>10, <1>2 DEF RequestsInv

\* A closure, or the hand-over of one, goes from one stage to another and leaves
\* the map alone.
LEMMA StageStep ==
  ASSUME RequestsInv, RequestsTypeOK', (mainPc = "handling" => received # 0)',
         NEW r \in Requests, NEW s \in Stages,
         InUse(r), s \notin {"unsent", "done"},
         stage' = [stage EXCEPT ![r] = s],
         UNCHANGED <<id, received, active_iter, active_requests>>,
         AnsweredOnce'
  PROVE  RequestsInv'
<1>1. (\A q \in Requests : stage[q] = "unsent" <=> q > received)'
  BY DEF RequestsInv, RequestsTypeOK, InUse
<1>2. OnlyFailuresStay'
  BY DEF RequestsInv, RequestsTypeOK, OnlyFailuresStay
<1>3. EntriesLive'
  BY DEF RequestsInv, RequestsTypeOK, EntriesLive, InUse, HasIdAlone
<1> QED
  BY <1>1, <1>2, <1>3 DEF RequestsInv

LEMMA HandOverStep == RequestsInv /\ HandOver => RequestsInv'
<1> SUFFICES ASSUME RequestsInv, HandOver PROVE RequestsInv'
  OBVIOUS
<1>1. received \in Requests /\ stage[received] = "registered"
  BY MaxRequestsAssumption DEF RequestsInv, RequestsTypeOK, HandOver, Requests
<1>2. RequestsTypeOK'
  BY <1>1 DEF RequestsInv, RequestsTypeOK, HandOver, Stages, MainPcs
<1>3. AnsweredOnce'
  BY <1>1 DEF RequestsInv, RequestsTypeOK, HandOver, AnsweredOnce
<1>4. InUse(received)
  BY <1>1 DEF InUse
<1>5. (mainPc = "handling" => received # 0)'
  BY DEF HandOver
<1> QED
  BY <1>1, <1>2, <1>3, <1>4, <1>5, StageStep DEF HandOver, Stages

\* What the closure of a request does before it removes its entry.
BeforeErase(r) ==
  \/ Start(r) \/ Return(r) \/ Throw(r) \/ ReportError(r) \/ Respond(r)

LEMMA BeforeEraseStep ==
  ASSUME RequestsInv, NEW r \in Requests, BeforeErase(r)
  PROVE  RequestsInv'
<1>1. InUse(r)
  BY DEF BeforeErase, Start, Return, Throw, ReportError, Respond, InUse
<1>2. PICK s \in Stages : s \notin {"unsent", "done"} /\ stage' = [stage EXCEPT ![r] = s]
  BY DEF BeforeErase, Start, Return, Throw, ReportError, Respond, Stages
<1>3. /\ UNCHANGED <<id, kind, received, active_iter, active_requests, canceled,
                     noticed, named, mainPc>>
      /\ \/ UNCHANGED answers /\ stage'[r] \in {"running", "returned", "thrown"}
         \/ /\ answers' = [answers EXCEPT ![r] = @ + 1]
            /\ stage[r] \in {"returned", "thrown"}
            /\ stage'[r] \in {"answered", "failed"}
  BY DEF BeforeErase, Start, Return, Throw, ReportError, Respond, RequestsInv, RequestsTypeOK
<1>4. AnsweredOnce'
  BY <1>1, <1>2, <1>3 DEF RequestsInv, RequestsTypeOK, AnsweredOnce, InUse, BeforeErase, Start,
     Return, Throw, ReportError, Respond
<1>5. RequestsTypeOK'
  BY <1>1, <1>2, <1>3 DEF RequestsInv, RequestsTypeOK, AnsweredOnce
<1>6. (mainPc = "handling" => received # 0)'
  BY <1>3 DEF RequestsInv
<1> QED
  BY <1>1, <1>2, <1>3, <1>4, <1>5, <1>6, StageStep

LEMMA EraseStep ==
  ASSUME RequestsInv, NEW r \in Requests, Erase(r)
  PROVE  RequestsInv'
<1>1. /\ stage[r] = "answered"
      /\ stage' = [stage EXCEPT ![r] = "done"]
      /\ active_requests' = IF EntryLives(r)
                            THEN [active_requests EXCEPT ![id[r]] = NoRequest]
                            ELSE active_requests
      /\ UNCHANGED <<id, kind, received, active_iter, canceled, noticed, named, answers, mainPc>>
  BY DEF Erase
<1>2. id[r] \in Ids
  BY DEF RequestsInv, RequestsTypeOK
<1>3. RequestsTypeOK'
  BY <1>1, <1>2 DEF RequestsInv, RequestsTypeOK, Stages
<1>4. AnsweredOnce'
  BY <1>1 DEF RequestsInv, RequestsTypeOK, AnsweredOnce
<1>5. \A i \in Ids : active_requests'[i] # NoRequest =>
        active_requests'[i] = active_requests[i]
  BY <1>1, <1>2 DEF RequestsInv, RequestsTypeOK
<1>6. \A i \in Ids : active_requests'[i] # r
  <2> SUFFICES ASSUME NEW i \in Ids, active_requests'[i] = r PROVE FALSE
    OBVIOUS
  <2>1. r # NoRequest
    BY DEF Requests, NoRequest
  <2>2. active_requests[i] = r /\ id[r] = i /\ active_iter[r] = r
    BY <1>5, <2>1 DEF RequestsInv, OnlyFailuresStay
  <2>3. EntryLives(r)
    BY <2>1, <2>2 DEF EntryLives
  <2> QED
    BY <1>1, <2>1, <2>2, <2>3 DEF RequestsInv, RequestsTypeOK
<1>7. OnlyFailuresStay'
  BY <1>1, <1>5, <1>6 DEF RequestsInv, RequestsTypeOK, OnlyFailuresStay, NoRequest
<1>8. (\A i \in Ids : active_requests[i] # NoRequest =>
         active_iter[active_requests[i]] = active_requests[i])'
  BY <1>1, <1>5 DEF RequestsInv
<1>9. EntriesLive'
  <2>1. ASSUME NEW q \in Requests, InUse(q)', HasIdAlone(q)
        PROVE  active_iter'[q] = q /\ active_requests'[id[q]] = q
    <3>1. q # r
      BY <2>1, <1>1 DEF RequestsInv, RequestsTypeOK, InUse
    <3>2. InUse(q) /\ active_iter[q] = q /\ active_requests[id[q]] = q
      BY <3>1, <2>1, <1>1 DEF RequestsInv, RequestsTypeOK, InUse, EntriesLive
    <3>3. id[q] # id[r]
      BY <2>1, <3>1 DEF HasIdAlone
    <3> QED
      BY <3>2, <3>3, <1>1, <1>2 DEF RequestsInv, RequestsTypeOK
  <2> QED
    BY <2>1, <1>1 DEF EntriesLive, HasIdAlone
<1>10. (\A q \in Requests : stage[q] = "unsent" <=> q > received)'
  BY <1>1 DEF RequestsInv, RequestsTypeOK
<1>11. (mainPc = "handling" => received # 0)'
  BY <1>1 DEF RequestsInv
<1> QED
  BY <1>3, <1>4, <1>7, <1>8, <1>9, <1>10, <1>11, <1>1 DEF RequestsInv

\* Steps that touch neither the stages nor the map.
LEMMA OtherStep ==
  ASSUME RequestsInv, RequestsTypeOK', (mainPc = "handling" => received # 0)',
         UNCHANGED <<id, received, stage, active_iter, active_requests, answers>>
  PROVE  RequestsInv'
BY DEF RequestsInv, AnsweredOnce, OnlyFailuresStay, EntriesLive, InUse, HasIdAlone

LEMMA RequestsStep == RequestsInv /\ [RequestsNext]_request_vars => RequestsInv'
<1> SUFFICES ASSUME RequestsInv, [RequestsNext]_request_vars PROVE RequestsInv'
  OBVIOUS
<1>1. CASE Receive
  BY <1>1, ReceiveStep
<1>2. CASE HandOver
  BY <1>2, HandOverStep
<1>3. CASE HandledSerially
  BY <1>3, OtherStep DEF HandledSerially, RequestsInv, RequestsTypeOK, MainPcs
<1>4. ASSUME NEW i \in Ids, CancelRequest(i) PROVE RequestsInv'
  <2>1. active_requests[i] \in Requests \cup {NoRequest}
    BY <1>4 DEF RequestsInv, RequestsTypeOK
  <2>2. RequestsTypeOK'
    BY <1>4, <2>1 DEF CancelRequest, CanceledAt, Unanswered, RequestsInv, RequestsTypeOK
  <2> QED
    BY <1>4, <2>2, OtherStep DEF CancelRequest, RequestsInv
<1>5. CASE Exit
  BY <1>5, OtherStep DEF Exit, RequestsInv, RequestsTypeOK, MainPcs
<1>6. CASE Drained
  BY <1>6, OtherStep DEF Drained, RequestsInv, RequestsTypeOK, MainPcs
<1>7. ASSUME NEW r \in Requests, Poll(r) PROVE RequestsInv'
  BY <1>7, OtherStep DEF Poll, RequestsInv, RequestsTypeOK
<1>8. ASSUME NEW r \in Requests, BeforeErase(r) PROVE RequestsInv'
  BY <1>8, BeforeEraseStep
<1>9. ASSUME NEW r \in Requests, Erase(r) PROVE RequestsInv'
  BY <1>9, EraseStep
<1>10. CASE UNCHANGED request_vars
  BY <1>10, OtherStep DEF request_vars, RequestsInv, RequestsTypeOK
<1> QED
  BY <1>1, <1>2, <1>3, <1>4, <1>5, <1>6, <1>7, <1>8, <1>9, <1>10
  DEF RequestsNext, MainThread, Closure, BeforeErase

(***************************************************************************)
(* The theorems.                                                           *)
(***************************************************************************)

\* The invariant of the requests, and what it consists of.
THEOREM RequestsInvariant == RequestsSpec => []RequestsInv
BY RequestsStart, RequestsStep, PTL DEF RequestsSpec

\* Every request, whether it is run by the main thread or by a worker, whether
\* its handler returns, is cancelled or throws, is answered exactly once.
THEOREM EveryRequestAnsweredOnce == RequestsSpec => []AnsweredOnce
<1>1. RequestsInv => AnsweredOnce
  BY DEF RequestsInv
<1> QED
  BY <1>1, RequestsInvariant, PTL

\* active_requests holds nothing but requests that are being processed or failed,
\* each under its own id.
THEOREM OnlyFailedRequestsStay == RequestsSpec => []OnlyFailuresStay
<1>1. RequestsInv => OnlyFailuresStay
  BY DEF RequestsInv
<1> QED
  BY <1>1, RequestsInvariant, PTL

\* The closure of a request whose id the client uses for no other never uses an
\* iterator or a token whose entry is gone, and does not share its entry.
THEOREM IdsUsedOnceKeepEntries == RequestsSpec => []EntriesLive
<1>1. RequestsInv => EntriesLive
  BY DEF RequestsInv
<1> QED
  BY <1>1, RequestsInvariant, PTL

(***************************************************************************)
(* Ids that are used again.                                                *)
(***************************************************************************)

\* A closure that has use for its iterator has one, and loses its entry to a request
\* that shares it only.
IteratorsSet == \A r \in Requests : InUse(r) => active_iter[r] # NoRequest
DanglingInv == IteratorsSet /\ OnlySharedEntriesDangle

\* A new request has just found or made its entry; the others keep theirs.
LEMMA ReceiveKeepsSharing ==
  ASSUME RequestsInv, DanglingInv, Receive
  PROVE  DanglingInv'
<1> DEFINE r == received + 1
<1>1. r \in Requests /\ stage[r] = "unsent" /\ id[r] \in Ids
  BY MaxRequestsAssumption DEF RequestsInv, RequestsTypeOK, Receive, Requests
<1>2. Entered(r) \in Requests /\ (Entered(r) = r \/ Entered(r) = active_requests[id[r]])
  BY <1>1, EnteredIsARequest
<1>3. /\ stage' = [stage EXCEPT ![r] = "registered"]
      /\ active_iter' = [active_iter EXCEPT ![r] = Entered(r)]
      /\ active_requests' = [active_requests EXCEPT ![id[r]] = Entered(r)]
      /\ id' = id
  BY DEF Receive
<1>4. /\ active_iter'[r] = Entered(r) /\ active_requests'[id[r]] = Entered(r)
      /\ \A q \in Requests \ {r} : stage'[q] = stage[q] /\ active_iter'[q] = active_iter[q]
      /\ stage'[r] = "registered"
  BY <1>1, <1>3 DEF RequestsInv, RequestsTypeOK
<1>5. IteratorsSet'
  BY <1>2, <1>4 DEF DanglingInv, IteratorsSet, InUse, Requests, NoRequest
<1>6. ASSUME NEW q \in Requests, InUse(q)', ~EntryLives(q)'
      PROVE  \E p \in Requests \ {q} :
               id[p] = id[q] /\ active_iter'[p] = active_iter'[q] /\ stage'[p] = "done"
  <2>1. q # r
    BY <1>3, <1>4, <1>5, <1>6 DEF EntryLives, IteratorsSet
  <2>2. InUse(q) /\ active_iter[q] # NoRequest
    BY <1>4, <1>6, <2>1 DEF InUse, DanglingInv, IteratorsSet
  <2>3. ~EntryLives(q)
    <3> SUFFICES ASSUME EntryLives(q) PROVE FALSE
      OBVIOUS
    <3>1. active_requests[id[q]] = active_iter[q] /\ active_iter[q] # NoRequest
      BY DEF EntryLives
    <3>2. id[q] \in Ids /\ (id[q] = id[r] => Entered(r) = active_iter[q])
      BY <3>1 DEF Entered, RequestsInv, RequestsTypeOK
    <3>3. active_requests'[id[q]] = active_iter[q]
      BY <1>1, <1>3, <3>1, <3>2 DEF RequestsInv, RequestsTypeOK
    <3> QED
      BY <1>3, <1>4, <1>6, <2>1, <3>1, <3>3 DEF EntryLives
  <2>4. PICK p \in Requests \ {q} :
          id[p] = id[q] /\ active_iter[p] = active_iter[q] /\ stage[p] = "done"
    BY <2>2, <2>3 DEF DanglingInv, OnlySharedEntriesDangle
  <2> QED
    BY <1>1, <1>4, <2>1, <2>4
<1> QED
  BY <1>3, <1>5, <1>6 DEF DanglingInv, OnlySharedEntriesDangle

\* Who loses the entry that r removes shares it with r, which is done.
LEMMA EraseLeavesAWitness ==
  ASSUME RequestsInv, DanglingInv, NEW r \in Requests, Erase(r)
  PROVE  DanglingInv'
<1>1. /\ stage[r] = "answered" /\ stage' = [stage EXCEPT ![r] = "done"]
      /\ active_requests' = IF EntryLives(r)
                            THEN [active_requests EXCEPT ![id[r]] = NoRequest]
                            ELSE active_requests
      /\ UNCHANGED <<id, active_iter>>
  BY DEF Erase
<1>2. /\ stage'[r] = "done" /\ \A q \in Requests \ {r} : stage'[q] = stage[q]
      /\ \A q \in Requests : id[q] \in Ids
  BY <1>1 DEF RequestsInv, RequestsTypeOK
<1>3. IteratorsSet'
  BY <1>1, <1>2 DEF DanglingInv, IteratorsSet, InUse
<1>4. ASSUME NEW q \in Requests, InUse(q)', ~EntryLives(q)'
      PROVE  \E p \in Requests \ {q} :
               id[p] = id[q] /\ active_iter[p] = active_iter[q] /\ stage'[p] = "done"
  <2>1. q # r /\ InUse(q)
    BY <1>2, <1>4 DEF InUse
  <2>2. CASE EntryLives(q)
    <3>1. active_requests[id[q]] = active_iter[q] /\ active_iter[q] # NoRequest
      BY <2>2 DEF EntryLives
    <3>2. EntryLives(r) /\ id[q] = id[r]
      BY <1>1, <1>2, <1>4, <3>1 DEF EntryLives, RequestsInv, RequestsTypeOK
    <3>3. active_iter[r] = active_iter[q]
      BY <3>1, <3>2 DEF EntryLives
    <3> QED
      BY <1>2, <2>1, <3>2, <3>3
  <2>3. CASE ~EntryLives(q)
    <3>1. PICK p \in Requests \ {q} :
            id[p] = id[q] /\ active_iter[p] = active_iter[q] /\ stage[p] = "done"
      BY <2>1, <2>3 DEF DanglingInv, OnlySharedEntriesDangle
    <3> QED
      BY <1>2, <3>1
  <2> QED
    BY <2>2, <2>3
<1> QED
  BY <1>1, <1>3, <1>4 DEF DanglingInv, OnlySharedEntriesDangle

\* Nothing else touches an entry or an iterator, or takes back that a request is done.
LEMMA OthersKeepSharing ==
  ASSUME RequestsInv, DanglingInv, UNCHANGED <<id, active_iter, active_requests>>,
         \A q \in Requests : /\ InUse(q)' => InUse(q)
                             /\ stage[q] = "done" => stage'[q] = "done"
  PROVE  DanglingInv'
<1>1. \A q \in Requests : EntryLives(q)' <=> EntryLives(q)
  BY DEF EntryLives
<1> QED
  BY <1>1 DEF DanglingInv, IteratorsSet, OnlySharedEntriesDangle

LEMMA SharingKept ==
  ASSUME RequestsInv, DanglingInv, [RequestsNext]_request_vars
  PROVE  DanglingInv'
<1>1. CASE Receive
  BY <1>1, ReceiveKeepsSharing
<1>2. ASSUME NEW r \in Requests, Erase(r) PROVE DanglingInv'
  BY <1>2, EraseLeavesAWitness
<1>3. CASE HandOver
  <2>1. stage[received] = "registered" /\ stage' = [stage EXCEPT ![received] = "queued"]
    BY <1>3 DEF HandOver
  <2>2. \A q \in Requests : /\ InUse(q)' => InUse(q)
                            /\ stage[q] = "done" => stage'[q] = "done"
    BY <2>1 DEF InUse, RequestsInv, RequestsTypeOK
  <2> QED
    BY <1>3, <2>2, OthersKeepSharing DEF HandOver
<1>4. ASSUME NEW r \in Requests, BeforeErase(r) PROVE DanglingInv'
  <2>1. InUse(r)
    BY <1>4 DEF BeforeErase, Start, Return, Throw, ReportError, Respond, InUse
  <2>2. PICK s : stage' = [stage EXCEPT ![r] = s]
    BY <1>4 DEF BeforeErase, Start, Return, Throw, ReportError, Respond
  <2>3. \A q \in Requests : /\ InUse(q)' => InUse(q)
                            /\ stage[q] = "done" => stage'[q] = "done"
    BY <2>1, <2>2 DEF InUse, RequestsInv, RequestsTypeOK
  <2> QED
    BY <1>4, <2>3, OthersKeepSharing
       DEF BeforeErase, Start, Return, Throw, ReportError, Respond
<1>5. CASE UNCHANGED <<id, stage, active_iter, active_requests>>
  BY <1>5, OthersKeepSharing DEF InUse
<1> QED
  BY <1>1, <1>2, <1>3, <1>4, <1>5
     DEF RequestsNext, MainThread, Closure, BeforeErase, HandledSerially, CancelRequest, Exit,
         Drained, Poll, request_vars

\* However the client uses ids again, a closure only loses an entry that it shares, to a
\* request of the same id that was answered and has removed it.
THEOREM OnlySharedEntriesLost == RequestsSpec => []OnlySharedEntriesDangle
<1>1. RequestsInit => DanglingInv
  BY DEF RequestsInit, DanglingInv, IteratorsSet, OnlySharedEntriesDangle, InUse
<1>2. DanglingInv => OnlySharedEntriesDangle
  BY DEF DanglingInv
<1> QED
  BY <1>1, <1>2, SharingKept, RequestsInvariant, PTL DEF RequestsSpec

(***************************************************************************)
(* Cancellations.                                                          *)
(***************************************************************************)

\* A new request is in no entry of an unanswered one, and has not been named yet.
LEMMA ReceiveKeepsCancellations ==
  ASSUME RequestsInv, CancellationsInv, Receive
  PROVE  CancellationsInv'
<1> DEFINE r == received + 1
<1>1. r \in Requests /\ stage[r] = "unsent" /\ id[r] \in Ids
  BY MaxRequestsAssumption DEF RequestsInv, RequestsTypeOK, Receive, Requests
<1>2. Entered(r) \in Requests /\ (Entered(r) = r \/ Entered(r) = active_requests[id[r]])
  BY <1>1, EnteredIsARequest
<1>3. /\ stage' = [stage EXCEPT ![r] = "registered"]
      /\ active_iter' = [active_iter EXCEPT ![r] = Entered(r)]
      /\ active_requests' = [active_requests EXCEPT ![id[r]] = Entered(r)]
      /\ UNCHANGED <<id, canceled, noticed, named, answers>>
      /\ MaySend(r)
  BY DEF Receive
<1>4. r \notin named /\ ~canceled[r] /\ ~noticed[r]
  BY <1>1 DEF CancellationsInv
<1>5. \A q \in Requests : q # r => active_iter'[q] = active_iter[q] /\ stage'[q] = stage[q]
  BY <1>3 DEF RequestsInv, RequestsTypeOK
<1>6. stage'[r] # "unsent" /\ active_iter'[r] = Entered(r)
  BY <1>1, <1>3 DEF RequestsInv, RequestsTypeOK
<1>7. \A q \in Requests : stage[q] # "unsent" => q \in 1 .. r - 1
  BY MaxRequestsAssumption DEF RequestsInv, RequestsTypeOK, Requests
<1>8. \A q \in Requests : stage[q] # "unsent" /\ id[q] = id[r] => answers[q] = 1
  <2> SUFFICES ASSUME NEW q \in Requests, stage[q] # "unsent", id[q] = id[r]
               PROVE  answers[q] = 1
    OBVIOUS
  <2>1. q \notin Unanswered
    BY <1>3, <1>7 DEF MaySend
  <2>2. answers[q] # 0 /\ answers[q] \in {0, 1}
    BY <2>1 DEF Unanswered, RequestsInv, RequestsTypeOK
  <2> QED
    BY <2>2
<1>9. Entered(r) # r => answers[Entered(r)] = 1
  <2> SUFFICES ASSUME Entered(r) # r PROVE answers[Entered(r)] = 1
    OBVIOUS
  <2>1. Entered(r) = active_requests[id[r]] /\ active_requests[id[r]] # NoRequest
    BY <1>1, <1>2 DEF Requests, NoRequest
  <2>2. id[Entered(r)] = id[r] /\ stage[Entered(r)] # "unsent"
    BY <2>1, <1>1 DEF RequestsInv, OnlyFailuresStay
  <2> QED
    BY <2>2, <1>2, <1>8
<1>10. ASSUME NEW q \in Requests, q \in named', answers'[q] = 0
       PROVE  (canceled[active_iter[q]] \/ ~EntryLives(q))'
  <2>1. q \in named /\ answers[q] = 0 /\ q # r
    BY <1>10, <1>3, <1>4
  <2>2. stage[q] # "unsent"
    BY <2>1 DEF CancellationsInv
  <2>3. id[q] # id[r]
    BY <2>1, <2>2, <1>8
  <2>4. active_requests'[id[q]] = active_requests[id[q]]
    BY <2>3, <1>1, <1>3 DEF RequestsInv, RequestsTypeOK
  <2>5. canceled[active_iter[q]] \/ ~EntryLives(q)
    BY <2>1 DEF CancellationsInv, CancellationsReachTheirs
  <2> QED
    BY <2>1, <2>4, <2>5, <1>3, <1>5 DEF EntryLives
<1>11. ASSUME NEW q \in Requests, noticed'[q]
       PROVE  (q \in named \/ (active_iter[q] # q /\ answers[active_iter[q]] = 1))'
  <2>1. CASE q = r
    BY <2>1, <1>3, <1>11, <1>4
  <2>2. CASE q # r
    BY <2>2, <1>5, <1>3, <1>11 DEF CancellationsInv, CancellationsReachTheirs
  <2> QED
    BY <2>1, <2>2
<1>12. ASSUME NEW q \in Requests
       PROVE  /\ stage'[q] = "unsent" => q \notin named' /\ ~canceled'[q] /\ ~noticed'[q]
              /\ canceled'[q] => q \in named' \/ answers'[q] = 1
              /\ stage'[q] # "unsent" =>
                   \/ active_iter'[q] = q
                   \/ active_iter'[q] \in Requests /\ answers'[active_iter'[q]] = 1
  <2>1. CASE q = r
    BY <2>1, <1>2, <1>4, <1>6, <1>9, <1>3
  <2>2. CASE q # r
    BY <2>2, <1>5, <1>3 DEF CancellationsInv
  <2> QED
    BY <2>1, <2>2
<1> QED
  BY <1>10, <1>11, <1>12 DEF CancellationsInv, CancellationsReachTheirs

\* A cancellation finds the entry of the request it names, or that request has lost it.
LEMMA CancelKeepsCancellations ==
  ASSUME RequestsInv, CancellationsInv, NEW i \in Ids, CancelRequest(i)
  PROVE  CancellationsInv'
<1> DEFINE e == active_requests[i]
<1>1. /\ named' = named \cup {r \in Unanswered : id[r] = i}
      /\ canceled' = CanceledAt(e)
      /\ UNCHANGED <<id, stage, active_iter, active_requests, noticed, answers>>
  BY DEF CancelRequest
<1>2. \A r : canceled[r] => canceled'[r]
  BY <1>1 DEF CanceledAt, RequestsInv, RequestsTypeOK
<1>3. e # NoRequest => e \in Requests /\ canceled'[e]
  BY <1>1 DEF CanceledAt, RequestsInv, RequestsTypeOK
<1>4. \A r \in Requests : canceled'[r] => canceled[r] \/ (r = e /\ e # NoRequest)
  BY <1>1 DEF CanceledAt, RequestsInv, RequestsTypeOK
<1>5. \A r \in Requests : answers[r] \in {0, 1}
  BY DEF RequestsInv, RequestsTypeOK
<1>6. e # NoRequest => id[e] = i /\ stage[e] # "unsent"
  BY DEF RequestsInv, OnlyFailuresStay
<1>7. ASSUME NEW r \in Requests, r \in named', answers'[r] = 0
      PROVE  (canceled[active_iter[r]] \/ ~EntryLives(r))'
  <2>1. CASE r \in named
    BY <2>1, <1>7, <1>1, <1>2 DEF CancellationsInv, CancellationsReachTheirs, EntryLives
  <2>2. CASE id[r] = i
    <3>1. SUFFICES ASSUME EntryLives(r) PROVE canceled'[active_iter'[r]]
      BY <1>1 DEF EntryLives
    <3> QED
      BY <3>1, <2>2, <1>1, <1>3 DEF EntryLives
  <2> QED
    BY <2>1, <2>2, <1>7, <1>1
<1>8. ASSUME NEW r \in Requests, noticed'[r]
      PROVE  (r \in named \/ (active_iter[r] # r /\ answers[active_iter[r]] = 1))'
  BY <1>8, <1>1 DEF CancellationsInv, CancellationsReachTheirs
<1>9. ASSUME NEW r \in Requests
      PROVE  /\ stage'[r] = "unsent" => r \notin named' /\ ~canceled'[r] /\ ~noticed'[r]
             /\ canceled'[r] => r \in named' \/ answers'[r] = 1
             /\ stage'[r] # "unsent" =>
                  \/ active_iter'[r] = r
                  \/ active_iter'[r] \in Requests /\ answers'[active_iter'[r]] = 1
  <2>1. stage[r] = "unsent" => r \notin Unanswered /\ r # e
    BY <1>6 DEF Unanswered, Requests, NoRequest
  <2>2. r = e /\ e # NoRequest => r \in named' \/ answers'[r] = 1
    BY <1>1, <1>5, <1>6 DEF Unanswered
  <2> QED
    BY <2>1, <2>2, <1>1, <1>4 DEF CancellationsInv
<1> QED
  BY <1>7, <1>8, <1>9 DEF CancellationsInv, CancellationsReachTheirs

\* A handler only sees the token it was given.
LEMMA PollKeepsCancellations ==
  ASSUME RequestsInv, CancellationsInv, NEW r \in Requests, Poll(r)
  PROVE  CancellationsInv'
<1>1. /\ stage[r] = "running" /\ canceled[active_iter[r]]
      /\ noticed' = [noticed EXCEPT ![r] = TRUE]
      /\ UNCHANGED <<id, stage, active_iter, active_requests, canceled, named, answers>>
  BY DEF Poll
<1>2. answers[r] = 0
  BY <1>1 DEF RequestsInv, AnsweredOnce
<1>3. r \in named \/ (active_iter[r] # r /\ answers[active_iter[r]] = 1)
  BY <1>1, <1>2 DEF CancellationsInv
<1>4. \A q \in Requests : q # r => noticed'[q] = noticed[q]
  BY <1>1 DEF RequestsInv, RequestsTypeOK
<1> QED
  BY <1>1, <1>3, <1>4 DEF CancellationsInv, CancellationsReachTheirs, EntryLives

\* Other steps only answer, remove entries, or change the stage of who was received.
LEMMA OthersKeepCancellations ==
  ASSUME RequestsInv, CancellationsInv,
         \A q \in Requests : stage'[q] = "unsent" <=> stage[q] = "unsent",
         \A q \in Requests : answers[q] = 1 => answers'[q] = 1,
         \A q \in Requests : answers'[q] = 0 => answers[q] = 0,
         \A i \in Ids : active_requests'[i] \in {active_requests[i], NoRequest},
         UNCHANGED <<id, active_iter, canceled, noticed, named>>
  PROVE  CancellationsInv'
<1>1. \A q \in Requests : id[q] \in Ids /\ active_iter[q] \in Requests \cup {NoRequest}
  BY DEF RequestsInv, RequestsTypeOK
<1>2. \A q \in Requests : EntryLives(q)' => EntryLives(q)
  BY <1>1 DEF EntryLives
<1>3. ASSUME NEW q \in Requests, q \in named', answers'[q] = 0
      PROVE  (canceled[active_iter[q]] \/ ~EntryLives(q))'
  BY <1>3, <1>2 DEF CancellationsInv, CancellationsReachTheirs
<1>4. ASSUME NEW q \in Requests, stage'[q] # "unsent"
      PROVE  \/ active_iter'[q] = q
             \/ active_iter'[q] \in Requests /\ answers'[active_iter'[q]] = 1
  BY <1>4 DEF CancellationsInv
<1>5. ASSUME NEW q \in Requests, noticed'[q]
      PROVE  (q \in named \/ (active_iter[q] # q /\ answers[active_iter[q]] = 1))'
  <2>1. stage'[q] # "unsent"
    BY <1>5 DEF CancellationsInv
  <2> QED
    BY <2>1, <1>4, <1>5 DEF CancellationsInv, CancellationsReachTheirs
<1> QED
  BY <1>3, <1>4, <1>5 DEF CancellationsInv, CancellationsReachTheirs

LEMMA CancellationsKept ==
  ASSUME RequestsInv, RequestsInv', CancellationsInv, [RequestsNext]_request_vars
  PROVE  CancellationsInv'
<1>1. CASE Receive
  BY <1>1, ReceiveKeepsCancellations
<1>2. ASSUME NEW i \in Ids, CancelRequest(i) PROVE CancellationsInv'
  BY <1>2, CancelKeepsCancellations
<1>3. ASSUME NEW r \in Requests, Poll(r) PROVE CancellationsInv'
  BY <1>3, PollKeepsCancellations
<1>4. ASSUME NEW r \in Requests, BeforeErase(r) \/ Erase(r) PROVE CancellationsInv'
  <2>1. /\ stage[r] # "unsent" /\ stage'[r] # "unsent"
        /\ \A q \in Requests : q # r => stage'[q] = stage[q] /\ answers'[q] = answers[q]
        /\ UNCHANGED <<id, received, active_iter, canceled, noticed, named>>
    BY <1>4 DEF BeforeErase, Start, Return, Throw, ReportError, Respond, Erase, RequestsInv,
       RequestsTypeOK
  <2>2. answers[r] = 1 => answers'[r] = 1
    BY <1>4 DEF BeforeErase, Start, Return, Throw, ReportError, Respond, Erase, RequestsInv,
       RequestsTypeOK, AnsweredOnce
  <2>3. answers'[r] = 0 => answers[r] = 0
    BY <1>4 DEF BeforeErase, Start, Return, Throw, ReportError, Respond, Erase, RequestsInv,
       RequestsTypeOK, AnsweredOnce
  <2>4. \A i \in Ids : active_requests'[i] \in {active_requests[i], NoRequest}
    BY <1>4 DEF BeforeErase, Start, Return, Throw, ReportError, Respond, Erase, RequestsInv,
       RequestsTypeOK
  <2> QED
    BY <2>1, <2>2, <2>3, <2>4, OthersKeepCancellations
<1>5. CASE HandOver
  <2>1. stage[received] = "registered" /\ stage' = [stage EXCEPT ![received] = "queued"]
    BY <1>5 DEF HandOver
  <2>2. \A q \in Requests : stage'[q] = "unsent" <=> stage[q] = "unsent"
    BY <2>1 DEF RequestsInv, RequestsTypeOK
  <2> QED
    BY <1>5, <2>2, OthersKeepCancellations DEF HandOver
<1>6. CASE UNCHANGED <<id, stage, active_iter, active_requests, canceled, noticed, named, answers>>
  BY <1>6, OthersKeepCancellations
<1> QED
  BY <1>1, <1>2, <1>3, <1>4, <1>5, <1>6
     DEF RequestsNext, MainThread, Closure, BeforeErase, HandledSerially, Exit, Drained, request_vars

\* However a cancellation races with the start, the answer and the removal of the request,
\* a request that is named while it waits for its answer sees it as long as it has its entry,
\* and no other handler does, but one that found the entry of an answered request of its id.
THEOREM CancellationsFindTheirs == RequestsSpec => []CancellationsReachTheirs
<1>1. RequestsInit => CancellationsInv
  BY DEF RequestsInit, CancellationsInv, CancellationsReachTheirs
<1>2. CancellationsInv => CancellationsReachTheirs
  BY DEF CancellationsInv
<1> QED
  BY <1>1, <1>2, CancellationsKept, RequestsInvariant, PTL DEF RequestsSpec

-----------------------------------------------------------------------------
(* The threads *)

\* The sets whose cardinalities the invariant compares are finite.
LEMMA Countable ==
  /\ IsFiniteSet(Workers) /\ IsFiniteSet(Tasks) /\ IsFiniteSet(Submitters)
  /\ Cardinality(Tasks) \in Nat /\ Cardinality(Submitters) \in Nat
  /\ \A S : S \subseteq Workers \/ S \subseteq Tasks \/ S \subseteq Submitters =>
       IsFiniteSet(S) /\ Cardinality(S) \in Nat
<1>1. IsFiniteSet(Tasks) /\ IsFiniteSet(Submitters)
  BY TasksAssumption
<1>2. Cardinality(Tasks) \in Nat /\ Cardinality(Submitters) \in Nat
  BY <1>1, FS_CardinalityType
<1>3. IsFiniteSet(Workers)
  BY <1>2, FS_Interval DEF Workers
<1> QED
  BY <1>1, <1>2, <1>3, FS_Subset, FS_CardinalityType

LEMMA InitIInv == Init => IInv
<1> SUFFICES ASSUME Init PROVE IInv
  OBVIOUS
<1>1. Started = {} /\ Spawning = {} /\ Submitting = {}
  BY DEF Init, Started, Spawning, Submitting
<1>2. TypeOK
  <2>1. 0 \in 0 .. Cardinality(Tasks)
    BY Countable
  <2>2. Started = 1 .. size
    BY <1>1 DEF Init
  <2>3. task_queue \in Seq(accepted)
    BY DEF Init
  <2>4. submitterPc \in [Submitters -> SubmitterPcs] /\ workerPc \in [Workers -> WorkerPcs]
    BY DEF Init, SubmitterPcs, WorkerPcs
  <2>5. task \in [Workers -> SUBSET accepted]
    BY DEF Init
  <2>6. /\ fresh \subseteq Tasks /\ accepted \subseteq Tasks \ fresh
        /\ max_size \in Nat /\ stopped \in BOOLEAN /\ stopperPc \in StopperPcs
        /\ size \in 0 .. Cardinality(Tasks)
    BY <2>1, MaxSizeAssumption DEF Init, StopperPcs
  <2> QED
    BY <2>2, <2>3, <2>4, <2>5, <2>6 DEF TypeOK
<1>3. StopSound /\ QueueServed /\ StopDrains
  BY DEF Init, StopSound, QueueServed, StopDrains
<1>4. SpawnsCounted
  <2>1. Submitters # {} => Cardinality(Submitters) \in Nat \ {0}
    BY Countable, FS_EmptySet
  <2> QED
    BY <1>1, <2>1, FS_EmptySet, MaxSizeAssumption DEF Init, SpawnsCounted
<1> QED
  BY <1>2, <1>3, <1>4 DEF IInv

-----------------------------------------------------------------------------
(* submit() *)

LEMMA SubmitStep ==
  ASSUME IInv, NEW s \in Submitters, NEW t \in Tasks, Submit(s, t)
  PROVE  IInv'
<1> USE DEF IInv
<1>1. CASE stopped
  <2>1. /\ fresh' = fresh \ {t}
        /\ UNCHANGED <<accepted, task_queue, submitterPc, max_size, stopped, size, workerPc, task, stopperPc>>
    BY <1>1 DEF Submit
  <2>2. TypeOK'
    BY <2>1 DEF TypeOK, Started
  <2> QED
    BY <2>1, <2>2 DEF StopSound, SpawnsCounted, QueueServed, StopDrains, Started, Spawning, Submitting
<1>2. CASE ~stopped
  <2>1. /\ submitterPc[s] = "idle" /\ submitterPc' = [submitterPc EXCEPT ![s] = "notifying"]
        /\ t \in fresh /\ fresh' = fresh \ {t} /\ accepted' = accepted \cup {t}
        /\ task_queue' = Append(task_queue, t)
        /\ UNCHANGED <<max_size, stopped, size, workerPc, task, stopperPc>>
    BY <1>2 DEF Submit
  <2>2. /\ submitterPc \in [Submitters -> SubmitterPcs]
        /\ \A u \in Submitters : submitterPc'[u] = IF u = s THEN "notifying" ELSE submitterPc[u]
    BY <2>1 DEF TypeOK
  <2>3. /\ Started' = Started /\ Spawning' = Spawning
        /\ Submitting' = Submitting \cup {s} /\ s \notin Submitting
    BY <2>1, <2>2 DEF Started, Spawning, Submitting
  <2>4. TypeOK'
    <3>1. task_queue' \in Seq(accepted')
      <4>1. task_queue \in Seq(accepted')
        BY <2>1 DEF TypeOK
      <4> QED
        BY <2>1, <4>1
    <3>2. task' \in [Workers -> SUBSET accepted']
      BY <2>1 DEF TypeOK
    <3>3. submitterPc' \in [Submitters -> SubmitterPcs]
      BY <2>1, <2>2 DEF SubmitterPcs
    <3>4. fresh' \subseteq Tasks /\ accepted' \subseteq Tasks \ fresh'
      BY <2>1 DEF TypeOK
    <3> QED
      BY <2>1, <2>3, <3>1, <3>2, <3>3, <3>4 DEF TypeOK
  <2>5. StopSound'
    BY <1>2, <2>1 DEF StopSound
  <2>6. SpawnsCounted'
    <3>1. /\ t \notin accepted /\ accepted \subseteq Tasks /\ Submitting \subseteq Submitters
          /\ Started \subseteq Workers
      BY <2>1 DEF TypeOK, Submitting, Started
    <3>2. /\ Cardinality(accepted') = Cardinality(accepted) + 1
          /\ Cardinality(Submitting') = Cardinality(Submitting) + 1
      BY <2>1, <2>3, <3>1, Countable, FS_AddElement
    <3>3. /\ Cardinality(Started) \in Nat /\ Cardinality(Submitting) \in Nat
          /\ Cardinality(accepted) \in Nat
      BY <3>1, Countable
    <3> QED
      BY <2>3, <3>2, <3>3 DEF SpawnsCounted
  <2>7. QueueServed' /\ StopDrains'
    BY <1>2, <2>1, <2>3 DEF QueueServed, StopDrains, StopSound
  <2> QED
    BY <2>4, <2>5, <2>6, <2>7
<1> QED
  BY <1>1, <1>2

\* Steps that leave alone which workers there are and who is where in submit().
LEMMA SameCounts ==
  ASSUME IInv, UNCHANGED accepted,
         Started' = Started, Spawning' = Spawning, Submitting' = Submitting
  PROVE  SpawnsCounted'
  BY DEF IInv, SpawnsCounted

LEMMA SubmitNotifyStep ==
  ASSUME IInv, NEW s \in Submitters, SubmitNotify(s)
  PROVE  IInv'
<1> USE DEF IInv
<1>1. /\ submitterPc[s] = "notifying" /\ submitterPc' = [submitterPc EXCEPT ![s] = "testing"]
      /\ UNCHANGED <<fresh, accepted, max_size, stopped, task_queue, size, task, stopperPc>>
      /\ ~stopped
  BY DEF SubmitNotify, StopSound
<1>2. /\ workerPc' \in [Workers -> WorkerPcs]
      /\ \A w \in Workers : workerPc'[w] = workerPc[w] \/ (workerPc[w] = "waiting" /\ workerPc'[w] = "checking")
  BY DEF SubmitNotify, NotifyOne, TypeOK, WorkerPcs, Idle
<1>3. /\ submitterPc' \in [Submitters -> SubmitterPcs]
      /\ \A u \in Submitters : submitterPc'[u] = IF u = s THEN "testing" ELSE submitterPc[u]
  BY <1>1 DEF TypeOK, SubmitterPcs
<1>4. Started' = Started /\ Spawning' = Spawning /\ Submitting' = Submitting
  BY <1>1, <1>2, <1>3 DEF Started, Spawning, Submitting
<1>5. TypeOK'
  BY <1>1, <1>2, <1>3, <1>4 DEF TypeOK
<1>6. StopSound'
  BY <1>1, <1>2 DEF StopSound
<1>7. SpawnsCounted'
  BY <1>1, <1>4, SameCounts
<1>8. QueueServed' /\ StopDrains'
  BY <1>1, <1>4 DEF QueueServed, StopDrains, StopSound
<1> QED
  BY <1>5, <1>6, <1>7, <1>8

LEMMA SubmitTestStep ==
  ASSUME IInv, NEW s \in Submitters, SubmitTest(s)
  PROVE  IInv'
<1> USE DEF IInv
<1>1. /\ submitterPc[s] = "testing"
      /\ submitterPc' = [submitterPc EXCEPT ![s] = IF size < max_size THEN "spawning" ELSE "idle"]
      /\ UNCHANGED <<fresh, accepted, max_size, stopped, task_queue, size, workerPc, task, stopperPc>>
      /\ ~stopped /\ max_size = MaxSize /\ stopperPc = "running"
  BY DEF SubmitTest, may_spawn, StopSound
<1>2. /\ submitterPc' \in [Submitters -> SubmitterPcs]
      /\ \A u \in Submitters : submitterPc'[u] =
           IF u = s THEN IF size < MaxSize THEN "spawning" ELSE "idle" ELSE submitterPc[u]
  BY <1>1 DEF TypeOK, SubmitterPcs
<1>3. Started' = Started /\ Started = 1 .. size /\ size \in Nat /\ Started \subseteq Workers
  BY <1>1, Countable DEF Started, TypeOK
<1>4. Cardinality(Started) = size
  BY <1>3, FS_Interval
<1>5. TypeOK'
  BY <1>1, <1>2, <1>3 DEF TypeOK
<1>6. StopSound' /\ StopDrains'
  BY <1>1 DEF StopSound, StopDrains
<1>7. /\ Submitting \subseteq Submitters /\ Submitting' \subseteq Submitting
      /\ Spawning' \subseteq Submitters
  BY <1>1, <1>2 DEF Submitting, Spawning
<1>8. /\ Cardinality(Submitting') <= Cardinality(Submitting)
      /\ Cardinality(Spawning') <= Cardinality(Submitters)
  BY <1>7, Countable, FS_Subset
<1>9. /\ Cardinality(Submitting) \in Nat /\ Cardinality(Submitting') \in Nat
      /\ Cardinality(Spawning') \in Nat /\ Cardinality(Submitters) \in Nat
      /\ Cardinality(accepted) \in Nat
  <2>1. accepted \subseteq Tasks /\ Submitting' \subseteq Submitters
    BY <1>7 DEF TypeOK
  <2> QED
    BY <1>7, <2>1, Countable
<1>10. SpawnsCounted'
  <2>1. Cardinality(Started) + Cardinality(Submitting') <= Cardinality(accepted)
    BY <1>3, <1>4, <1>8, <1>9 DEF SpawnsCounted
  <2>2. CASE size < MaxSize
    <3>1. Cardinality(Started) + Cardinality(Spawning') <= MaxSize + Cardinality(Submitters) - 1
      BY <1>3, <1>4, <1>8, <1>9, <2>2, MaxSizeAssumption
    <3> QED
      BY <1>1, <1>3, <2>1, <3>1 DEF SpawnsCounted
  <2>3. CASE ~(size < MaxSize)
    <3>1. Spawning' = Spawning
      BY <1>1, <1>2, <2>3 DEF Spawning
    <3> QED
      BY <1>1, <1>3, <2>1, <3>1 DEF SpawnsCounted
  <2> QED
    BY <2>2, <2>3
<1>11. QueueServed'
  <2>1. CASE size < MaxSize
    <3>1. s \in Submitting'
      BY <1>2, <2>1 DEF Submitting
    <3> QED
      BY <3>1 DEF QueueServed
  <2>2. CASE ~(size < MaxSize)
    <3>1. MaxSize > 0 => 1 \in Started
      BY <1>3, <2>2, MaxSizeAssumption
    <3> QED
      BY <1>3, <3>1 DEF QueueServed
  <2> QED
    BY <2>1, <2>2
<1> QED
  BY <1>5, <1>6, <1>10, <1>11

LEMMA SubmitSpawnStep ==
  ASSUME IInv, NEW s \in Submitters, SubmitSpawn(s)
  PROVE  IInv'
<1> USE DEF IInv
<1>1. /\ submitterPc[s] = "spawning" /\ submitterPc' = [submitterPc EXCEPT ![s] = "idle"]
      /\ UNCHANGED <<fresh, accepted, max_size, stopped, task_queue, task, stopperPc>>
      /\ ~stopped /\ stopperPc = "running"
  BY DEF SubmitSpawn, StopSound
<1>2. /\ submitterPc' \in [Submitters -> SubmitterPcs]
      /\ \A u \in Submitters : submitterPc'[u] = IF u = s THEN "idle" ELSE submitterPc[u]
  BY <1>1 DEF TypeOK, SubmitterPcs
<1>3. /\ Submitting' = Submitting \ {s} /\ s \in Submitting
      /\ Spawning' = Spawning \ {s} /\ s \in Spawning
      /\ Submitting \subseteq Submitters /\ Spawning \subseteq Submitters
  BY <1>1, <1>2 DEF Submitting, Spawning
<1>4. /\ Cardinality(Submitting') = Cardinality(Submitting) - 1
      /\ Cardinality(Spawning') = Cardinality(Spawning) - 1
      /\ Cardinality(Submitting) \in Nat \ {0} /\ Cardinality(Spawning) \in Nat \ {0}
  BY <1>3, Countable, FS_RemoveElement, FS_EmptySet
<1>5. /\ Started = 1 .. size /\ size \in Nat /\ accepted \subseteq Tasks
      /\ Cardinality(Started) = size /\ Cardinality(accepted) \in Nat
  <2>1. Started = 1 .. size /\ size \in Nat /\ accepted \subseteq Tasks
    BY <1>1, Countable DEF TypeOK
  <2>2. Cardinality(Started) = size
    BY <2>1, FS_Interval
  <2> QED
    BY <2>1, <2>2, Countable
<1>6. Cardinality(accepted) <= Cardinality(Tasks)
  BY <1>5, Countable, FS_Subset
<1>7. CASE task_queue # <<>>
  <2>1. size' = size + 1 /\ workerPc' = [workerPc EXCEPT ![size + 1] = "checking"]
    BY <1>7 DEF SubmitSpawn, new_worker
  <2>2. size + 1 \in Workers
    BY <1>4, <1>5, <1>6, Countable DEF SpawnsCounted, Workers
  <2>3. /\ workerPc' \in [Workers -> WorkerPcs]
        /\ \A w \in Workers : workerPc'[w] = IF w = size + 1 THEN "checking" ELSE workerPc[w]
    BY <2>1, <2>2 DEF TypeOK, WorkerPcs
  <2>4. Started' = 1 .. size' /\ size' \in Nat
    <3>1. Started' = Started \cup {size + 1}
      BY <2>2, <2>3 DEF Started
    <3> QED
      BY <1>5, <2>1, <3>1
  <2>5. Cardinality(Started') = size + 1
    BY <1>5, <2>1, <2>4, FS_Interval
  <2>6. SpawnsCounted'
    BY <1>1, <1>4, <1>5, <2>5, Countable, MaxSizeAssumption DEF SpawnsCounted
  <2>7. TypeOK'
    <3>1. size' \in 0 .. Cardinality(Tasks)
      BY <1>4, <1>5, <1>6, <2>1, Countable DEF SpawnsCounted
    <3> QED
      BY <1>1, <1>2, <2>3, <2>4, <3>1 DEF TypeOK
  <2>8. StopSound' /\ StopDrains'
    BY <1>1, <2>3 DEF StopSound, StopDrains
  <2>9. QueueServed'
    <3>1. 1 \in Started'
      BY <1>5, <2>1, <2>4
    <3> QED
      BY <3>1 DEF QueueServed
  <2> QED
    BY <2>6, <2>7, <2>8, <2>9
<1>8. CASE task_queue = <<>>
  <2>1. UNCHANGED <<size, workerPc>>
    BY <1>8 DEF SubmitSpawn
  <2>2. Started' = Started
    BY <2>1 DEF Started
  <2>3. SpawnsCounted'
    BY <1>1, <1>4, <1>5, <2>2, Countable, MaxSizeAssumption DEF SpawnsCounted
  <2>4. TypeOK'
    BY <1>1, <1>2, <2>1, <2>2 DEF TypeOK
  <2>5. StopSound' /\ StopDrains' /\ QueueServed'
    BY <1>1, <1>8, <2>1 DEF StopSound, StopDrains, QueueServed
  <2> QED
    BY <2>3, <2>4, <2>5
<1> QED
  BY <1>7, <1>8

-----------------------------------------------------------------------------
(* The workers *)

\* What a worker may do to its own program counter without becoming or ceasing to
\* be a started worker.
LEMMA WorkerMoves ==
  ASSUME IInv, NEW w \in Workers, workerPc[w] # "none", NEW to \in WorkerPcs \ {"none"},
         workerPc' = [workerPc EXCEPT ![w] = to], UNCHANGED submitterPc
  PROVE  /\ workerPc' \in [Workers -> WorkerPcs]
         /\ \A v \in Workers : workerPc'[v] = IF v = w THEN to ELSE workerPc[v]
         /\ Started' = Started /\ Spawning' = Spawning /\ Submitting' = Submitting
<1>1. /\ workerPc' \in [Workers -> WorkerPcs]
      /\ \A v \in Workers : workerPc'[v] = IF v = w THEN to ELSE workerPc[v]
  BY DEF IInv, TypeOK
<1> QED
  BY <1>1 DEF Started, Spawning, Submitting

LEMMA WorkerIdleStep ==
  ASSUME IInv, NEW w \in Workers,
         WorkerWait(w) \/ SpuriousWakeup(w) \/ WorkerExit(w) \/ WorkerFinish(w)
  PROVE  IInv'
<1> USE DEF IInv
<1>1. PICK to \in {"waiting", "checking", "exited"} :
        /\ workerPc[w] \in {"checking", "waiting", "running"}
        /\ workerPc' = [workerPc EXCEPT ![w] = to]
        /\ to = "exited" => stopped /\ task_queue = <<>>
  BY DEF WorkerWait, SpuriousWakeup, WorkerExit, WorkerFinish, leaves
<1>2. /\ UNCHANGED <<fresh, accepted, max_size, stopped, task_queue, size, submitterPc, stopperPc>>
      /\ task' = task \/ task' = [task EXCEPT ![w] = {}]
  BY DEF WorkerWait, SpuriousWakeup, WorkerExit, WorkerFinish
<1>3. /\ workerPc' \in [Workers -> WorkerPcs]
      /\ \A v \in Workers : workerPc'[v] = IF v = w THEN to ELSE workerPc[v]
      /\ Started' = Started /\ Spawning' = Spawning /\ Submitting' = Submitting
  <2>1. workerPc[w] # "none" /\ to \in WorkerPcs \ {"none"} /\ UNCHANGED submitterPc
    BY <1>1, <1>2 DEF WorkerPcs
  <2> QED
    BY <1>1, <2>1, WorkerMoves
<1>4. TypeOK'
  <2>1. task' \in [Workers -> SUBSET accepted]
    BY <1>2 DEF TypeOK
  <2> QED
    BY <1>2, <1>3, <2>1 DEF TypeOK
<1>5. StopSound'
  BY <1>1, <1>2, <1>3 DEF StopSound
<1>6. SpawnsCounted' /\ QueueServed'
  BY <1>2, <1>3, SameCounts DEF QueueServed
<1>7. MaxSize > 0 => StopDrains'
  BY <1>1, <1>2, <1>3 DEF StopDrains, Started
<1> QED
  BY <1>4, <1>5, <1>6, <1>7

LEMMA WorkerTakeStep ==
  ASSUME IInv, NEW w \in Workers, WorkerTake(w)
  PROVE  IInv'
<1> USE DEF IInv
<1>1. /\ workerPc[w] = "checking" /\ workerPc' = [workerPc EXCEPT ![w] = "running"]
      /\ task_queue # <<>> /\ task_queue' = Tail(task_queue)
      /\ task' = [task EXCEPT ![w] = {Head(task_queue)}]
      /\ UNCHANGED <<fresh, accepted, max_size, stopped, size, submitterPc, stopperPc>>
  BY DEF WorkerTake
<1>2. /\ workerPc' \in [Workers -> WorkerPcs]
      /\ \A v \in Workers : workerPc'[v] = IF v = w THEN "running" ELSE workerPc[v]
      /\ Started' = Started /\ Spawning' = Spawning /\ Submitting' = Submitting
  <2>1. "running" \in WorkerPcs \ {"none"} /\ UNCHANGED submitterPc
    BY <1>1 DEF WorkerPcs
  <2> QED
    BY <1>1, <2>1, WorkerMoves
<1>3. task_queue' \in Seq(accepted) /\ Head(task_queue) \in accepted
  BY <1>1 DEF TypeOK
<1>4. TypeOK'
  <2>1. task' \in [Workers -> SUBSET accepted]
    BY <1>1, <1>3 DEF TypeOK
  <2> QED
    BY <1>1, <1>2, <1>3, <2>1 DEF TypeOK
<1>5. StopSound'
  BY <1>1, <1>2 DEF StopSound
<1>6. SpawnsCounted'
  BY <1>1, <1>2, SameCounts
<1>7. w \in Started
  BY <1>1 DEF Started
<1>8. QueueServed'
  BY <1>2, <1>7 DEF QueueServed
<1>9. MaxSize > 0 => StopDrains'
  BY <1>1 DEF StopDrains
<1> QED
  BY <1>4, <1>5, <1>6, <1>8, <1>9

-----------------------------------------------------------------------------
(* stop() *)

LEMMA StopperSteps ==
  ASSUME IInv, Stop \/ StopNotifyAll \/ StopJoined \/ UNCHANGED vars
  PROVE  IInv'
<1> USE DEF IInv
<1>1. CASE Stop
  <2>1. /\ stopperPc = "running" /\ stopperPc' = "notifying" /\ stopped' = TRUE /\ max_size' = 0
        /\ \A s \in Submitters : submitterPc[s] = "idle"
        /\ UNCHANGED <<fresh, accepted, task_queue, size, submitterPc, workerPc, task>>
    BY <1>1 DEF Stop
  <2>2. Started' = Started /\ Spawning' = Spawning /\ Submitting' = Submitting
    BY <2>1 DEF Started, Spawning, Submitting
  <2>3. TypeOK'
    BY <2>1, <2>2 DEF TypeOK, StopperPcs
  <2>4. StopSound' /\ StopDrains'
    BY <2>1 DEF StopSound, StopDrains
  <2>5. SpawnsCounted' /\ QueueServed'
    BY <2>1, <2>2, SameCounts DEF QueueServed
  <2> QED
    BY <2>3, <2>4, <2>5
<1>2. CASE StopNotifyAll
  <2>1. /\ stopperPc = "notifying" /\ stopperPc' = "joining"
        /\ workerPc' = [w \in Workers |-> IF w \in Idle THEN "checking" ELSE workerPc[w]]
        /\ UNCHANGED <<fresh, accepted, max_size, stopped, task_queue, size, submitterPc, task>>
    BY <1>2 DEF StopNotifyAll
  <2>2. /\ workerPc' \in [Workers -> WorkerPcs]
        /\ \A w \in Workers : workerPc'[w] = workerPc[w] \/ (workerPc[w] = "waiting" /\ workerPc'[w] = "checking")
    BY <2>1 DEF TypeOK, WorkerPcs, Idle
  <2>3. Started' = Started /\ Spawning' = Spawning /\ Submitting' = Submitting
    BY <2>1, <2>2 DEF Started, Spawning, Submitting
  <2>4. TypeOK'
    BY <2>1, <2>2, <2>3 DEF TypeOK, StopperPcs
  <2>5. StopSound' /\ StopDrains'
    BY <2>1, <2>2 DEF StopSound, StopDrains
  <2>6. SpawnsCounted' /\ QueueServed'
    BY <2>1, <2>3, SameCounts DEF QueueServed
  <2> QED
    BY <2>4, <2>5, <2>6
<1>3. CASE StopJoined
  <2>1. /\ stopperPc = "joining" /\ stopperPc' = "stopped" /\ size' = 0
        /\ \A w \in Started : workerPc[w] = "exited"
        /\ UNCHANGED <<fresh, accepted, max_size, stopped, task_queue, submitterPc, workerPc, task>>
    BY <1>3 DEF StopJoined
  <2>2. Started' = Started /\ Spawning' = Spawning /\ Submitting' = Submitting
    BY <2>1 DEF Started, Spawning, Submitting
  <2>3. TypeOK'
    BY <2>1, Countable DEF TypeOK, StopperPcs
  <2>4. StopSound'
    BY <2>1 DEF StopSound
  <2>5. SpawnsCounted' /\ QueueServed'
    BY <2>1, <2>2, SameCounts DEF QueueServed
  <2>6. ASSUME MaxSize > 0 PROVE StopDrains'
    <3>1. Submitting = {}
      BY <2>1 DEF StopSound, Submitting
    <3>2. \A w \in Started : task_queue = <<>>
      BY <2>1 DEF StopSound, Started
    <3>3. task_queue = <<>>
      BY <2>6, <3>1, <3>2 DEF QueueServed
    <3> QED
      BY <2>1, <2>2, <3>3 DEF StopDrains
  <2> QED
    BY <2>3, <2>4, <2>5, <2>6
<1>4. CASE UNCHANGED vars
  BY <1>4 DEF vars, TypeOK, StopSound, SpawnsCounted, QueueServed, StopDrains, Started,
              Spawning, Submitting
<1> QED
  BY <1>1, <1>2, <1>3, <1>4

-----------------------------------------------------------------------------
(* The theorems *)

LEMMA NextIInv == IInv /\ [Next]_vars => IInv'
<1> SUFFICES ASSUME IInv, [Next]_vars PROVE IInv'
  OBVIOUS
<1>1. ASSUME NEW s \in Submitters, NEW t \in Tasks, Submit(s, t) PROVE IInv'
  BY <1>1, SubmitStep
<1>2. ASSUME NEW s \in Submitters, SubmitNotify(s) PROVE IInv'
  BY <1>2, SubmitNotifyStep
<1>3. ASSUME NEW s \in Submitters, SubmitTest(s) PROVE IInv'
  BY <1>3, SubmitTestStep
<1>4. ASSUME NEW s \in Submitters, SubmitSpawn(s) PROVE IInv'
  BY <1>4, SubmitSpawnStep
<1>5. ASSUME NEW w \in Workers, WorkerWait(w) \/ SpuriousWakeup(w) \/ WorkerExit(w) \/ WorkerFinish(w)
      PROVE  IInv'
  BY <1>5, WorkerIdleStep
<1>6. ASSUME NEW w \in Workers, WorkerTake(w) PROVE IInv'
  BY <1>6, WorkerTakeStep
<1>7. CASE Stop \/ StopperStep \/ UNCHANGED vars
  BY <1>7, StopperSteps DEF StopperStep
<1> QED
  BY <1>1, <1>2, <1>3, <1>4, <1>5, <1>6, <1>7 DEF Next, SubmitterStep, WorkerStep

\* IInv holds in every reachable state, for any number of submitters, tasks and
\* workers.
THEOREM InductiveInvariant == Spec => []IInv
  BY InitIInv, NextIInv, PTL DEF Spec

\* The pool has at most MaxSize workers if one thread submits, and at most one
\* more for each further one.
THEOREM WorkersAreBounded == Spec => []WorkersBounded
<1>1. IInv => WorkersBounded
  <2> SUFFICES ASSUME IInv, Submitters # {}
               PROVE  Cardinality(Started) <= MaxSize + Cardinality(Submitters) - 1
    BY DEF WorkersBounded
  <2>1. Started \subseteq Workers /\ Spawning \subseteq Submitters
    BY DEF Started, Spawning
  <2>2. /\ Cardinality(Started) \in Nat /\ Cardinality(Spawning) \in Nat
        /\ Cardinality(Submitters) \in Nat
    BY <2>1, Countable
  <2> QED
    BY <2>2, MaxSizeAssumption DEF IInv, SpawnsCounted
<1> QED
  BY <1>1, InductiveInvariant, PTL

\* If the pool may have workers at all, then stop() returns with no accepted task
\* left in the queue and no worker left running.
THEOREM StopLosesNothing ==
  ASSUME MaxSize > 0
  PROVE  Spec => []StopDrains
<1>1. IInv => StopDrains
  BY DEF IInv
<1> QED
  BY <1>1, InductiveInvariant, PTL

-----------------------------------------------------------------------------
(* The pool implements TaskPool *)

\* A worker has a task exactly while it runs one, and no task is in two places:
\* with one worker, with another one, or somewhere in the queue.
TasksInOnePlace ==
  /\ \A w \in Workers : task[w] # {} <=> workerPc[w] = "running"
  /\ \A w \in Workers : \A t, u \in task[w] : t = u
  /\ \A v, w \in Workers : v # w => task[v] \cap task[w] = {}
  /\ \A w \in Workers, i \in 1 .. Len(task_queue) : task_queue[i] \notin task[w]
  /\ \A i, j \in 1 .. Len(task_queue) : task_queue[i] = task_queue[j] => i = j

LEMMA InitTasksInOnePlace == Init => TasksInOnePlace
BY DEF Init, TasksInOnePlace

LEMMA SubmitKeepsTasksInOnePlace ==
  ASSUME IInv, TasksInOnePlace, NEW s \in Submitters, NEW t \in Tasks, Submit(s, t)
  PROVE  TasksInOnePlace'
<1>1. CASE stopped
  BY <1>1 DEF Submit, TasksInOnePlace
<1>2. CASE ~stopped
  <2>1. task_queue' = Append(task_queue, t) /\ UNCHANGED <<workerPc, task>> /\ t \notin accepted
    BY <1>2 DEF Submit, IInv, TypeOK
  <2>2. task_queue \in Seq(accepted) /\ \A w \in Workers : task[w] \subseteq accepted
    BY DEF IInv, TypeOK
  <2>3. /\ Len(task_queue) \in Nat /\ Len(task_queue') = Len(task_queue) + 1
        /\ \A i \in 1 .. Len(task_queue) : task_queue'[i] = task_queue[i] /\ task_queue[i] \in accepted
        /\ task_queue'[Len(task_queue) + 1] = t
    BY <2>1, <2>2
  <2>4. \A i \in 1 .. Len(task_queue') : i \in 1 .. Len(task_queue) \/ i = Len(task_queue) + 1
    BY <2>3
  <2>5. \A w \in Workers, i \in 1 .. Len(task_queue') : task_queue'[i] \notin task[w]
    BY <2>1, <2>2, <2>3, <2>4 DEF TasksInOnePlace
  <2>6. \A i, j \in 1 .. Len(task_queue') : task_queue'[i] = task_queue'[j] => i = j
    BY <2>1, <2>3, <2>4 DEF TasksInOnePlace
  <2> QED
    BY <2>1, <2>5, <2>6 DEF TasksInOnePlace
<1> QED
  BY <1>1, <1>2

LEMMA WorkerTakeKeepsTasksInOnePlace ==
  ASSUME IInv, TasksInOnePlace, NEW w \in Workers, WorkerTake(w)
  PROVE  TasksInOnePlace'
<1> DEFINE h == Head(task_queue)
<1>1. /\ task_queue # <<>> /\ task_queue' = Tail(task_queue)
      /\ workerPc' = [workerPc EXCEPT ![w] = "running"]
      /\ task' = [task EXCEPT ![w] = {h}]
      /\ task_queue \in Seq(accepted)
  BY DEF WorkerTake, IInv, TypeOK
<1>2. /\ \A v \in Workers : task'[v] = IF v = w THEN {h} ELSE task[v]
      /\ \A v \in Workers : workerPc'[v] = IF v = w THEN "running" ELSE workerPc[v]
  BY <1>1 DEF IInv, TypeOK
<1>3. /\ Len(task_queue) \in Nat \ {0} /\ h = task_queue[1]
      /\ Len(task_queue') = Len(task_queue) - 1
      /\ \A i \in 1 .. Len(task_queue') : task_queue'[i] = task_queue[i + 1]
  BY <1>1
<1> HIDE DEF h
<1>4. /\ 1 \in 1 .. Len(task_queue)
      /\ \A i \in 1 .. Len(task_queue') : i + 1 \in 1 .. Len(task_queue) /\ i + 1 # 1
  BY <1>3
<1>5. \A v \in Workers : h \notin task[v]
  BY <1>3, <1>4 DEF TasksInOnePlace
<1>6. \A v \in Workers : task'[v] # {} <=> workerPc'[v] = "running"
  BY <1>2 DEF TasksInOnePlace
<1>7. \A v \in Workers : \A t, u \in task'[v] : t = u
  BY <1>2 DEF TasksInOnePlace
<1>8. \A u, v \in Workers : u # v => task'[u] \cap task'[v] = {}
  BY <1>2, <1>5 DEF TasksInOnePlace
<1>9. \A v \in Workers, i \in 1 .. Len(task_queue') : task_queue'[i] \notin task'[v]
  BY <1>2, <1>3, <1>4 DEF TasksInOnePlace
<1>10. \A i, j \in 1 .. Len(task_queue') : task_queue'[i] = task_queue'[j] => i = j
  <2> SUFFICES ASSUME NEW i \in 1 .. Len(task_queue'), NEW j \in 1 .. Len(task_queue'),
                      task_queue'[i] = task_queue'[j]
               PROVE  i = j
    OBVIOUS
  <2>1. task_queue[i + 1] = task_queue[j + 1]
    BY <1>3
  <2>2. i + 1 = j + 1
    BY <1>4, <2>1 DEF TasksInOnePlace
  <2> QED
    BY <1>3, <2>2
<1> QED
  BY <1>6, <1>7, <1>8, <1>9, <1>10 DEF TasksInOnePlace

\* Steps that neither queue nor take a task, and end one only with its worker's move.
LEMMA OthersKeepTasksInOnePlace ==
  ASSUME IInv, TasksInOnePlace, UNCHANGED task_queue,
         \A v \in Workers : task'[v] \subseteq task[v],
         \A v \in Workers : task'[v] # {} <=> workerPc'[v] = "running"
  PROVE  TasksInOnePlace'
BY DEF TasksInOnePlace

LEMMA NextTasksInOnePlace == IInv /\ TasksInOnePlace /\ [Next]_vars => TasksInOnePlace'
<1> SUFFICES ASSUME IInv, TasksInOnePlace, [Next]_vars PROVE TasksInOnePlace'
  OBVIOUS
<1>1. ASSUME NEW s \in Submitters, NEW t \in Tasks, Submit(s, t) PROVE TasksInOnePlace'
  BY <1>1, SubmitKeepsTasksInOnePlace
<1>2. ASSUME NEW w \in Workers, WorkerTake(w) PROVE TasksInOnePlace'
  BY <1>2, WorkerTakeKeepsTasksInOnePlace
<1>3. ASSUME UNCHANGED <<task_queue, task>>,
             \A v \in Workers : workerPc'[v] = "running" <=> workerPc[v] = "running"
      PROVE  TasksInOnePlace'
  BY <1>3 DEF TasksInOnePlace
<1>4. workerPc \in [Workers -> WorkerPcs] /\ task \in [Workers -> SUBSET accepted]
  BY DEF IInv, TypeOK
<1>5. ASSUME NEW s \in Submitters, SubmitterStep(s) PROVE TasksInOnePlace'
  <2>1. CASE SubmitNotify(s) \/ SubmitTest(s)
    BY <1>3, <1>4, <2>1 DEF SubmitNotify, NotifyOne, Idle, SubmitTest
  <2>2. CASE SubmitSpawn(s)
    <3>1. CASE task_queue = <<>>
      BY <1>3, <2>2, <3>1 DEF SubmitSpawn
    <3>2. CASE task_queue # <<>>
      <4>1. /\ workerPc' = [workerPc EXCEPT ![size + 1] = "checking"]
            /\ UNCHANGED <<task_queue, task>>
        BY <2>2, <3>2 DEF SubmitSpawn, new_worker
      <4>2. Started = 1 .. size /\ size \in Nat
        BY <2>2, Countable DEF SubmitSpawn, IInv, TypeOK, StopSound
      <4>3. size + 1 \in Workers => workerPc[size + 1] = "none"
        BY <4>2 DEF Started
      <4> QED
        BY <1>3, <1>4, <4>1, <4>3
    <3> QED
      BY <3>1, <3>2
  <2> QED
    BY <1>5, <2>1, <2>2 DEF SubmitterStep
<1>6. ASSUME NEW w \in Workers, WorkerWait(w) \/ WorkerExit(w) \/ SpuriousWakeup(w)
      PROVE  TasksInOnePlace'
  BY <1>3, <1>4, <1>6 DEF WorkerWait, WorkerExit, SpuriousWakeup
<1>7. ASSUME NEW w \in Workers, WorkerFinish(w) PROVE TasksInOnePlace'
  <2>1. /\ \A v \in Workers : task'[v] = IF v = w THEN {} ELSE task[v]
        /\ \A v \in Workers : workerPc'[v] = IF v = w THEN "checking" ELSE workerPc[v]
        /\ UNCHANGED task_queue
    BY <1>4, <1>7 DEF WorkerFinish
  <2>2. \A v \in Workers : task'[v] # {} <=> workerPc'[v] = "running"
    BY <2>1 DEF TasksInOnePlace
  <2> QED
    BY <2>1, <2>2, OthersKeepTasksInOnePlace
<1>8. CASE Stop \/ StopperStep \/ UNCHANGED vars
  BY <1>3, <1>4, <1>8 DEF Stop, StopperStep, StopNotifyAll, Idle, StopJoined, vars
<1> QED
  BY <1>1, <1>2, <1>5, <1>6, <1>7, <1>8 DEF Next, WorkerStep

LEMMA TasksStayInOnePlace == Spec => [](IInv /\ TasksInOnePlace)
BY InitIInv, NextIInv, InitTasksInOnePlace, NextTasksInOnePlace, PTL DEF Spec

\* The tasks that run, as the refinement mapping has it.
Running == UNION {task[w] : w \in Workers}

LEMMA RunningTasks == \A t : t \in Running <=> \E w \in Workers : t \in task[w]
BY DEF Running

\* A worker that has no task leaves room for one: there are fewer running tasks than
\* workers, and no more workers than the pool may have.
LEMMA RoomToStart ==
  ASSUME IInv, TasksInOnePlace, Cardinality(Submitters) = 1,
         NEW w \in Workers, workerPc[w] = "checking"
  PROVE  Cardinality(Running) < MaxSize
<1> DEFINE Others == Started \ {w}
           workerOf == [t \in Running |-> CHOOSE v \in Workers : t \in task[v]]
<1>1. \A t \in Running : workerOf[t] \in Workers /\ t \in task[workerOf[t]]
  BY RunningTasks
<1>2. \A t \in Running : workerOf[t] \in Others
  BY <1>1 DEF TasksInOnePlace, Started
<1>3. \A t, u \in Running : workerOf[t] = workerOf[u] => t = u
  BY <1>1 DEF TasksInOnePlace
<1>4. workerOf \in Injection(Running, Others)
  BY <1>2, <1>3 DEF Injection, IsInjective
<1>5. w \in Started /\ IsFiniteSet(Started) /\ Cardinality(Started) \in Nat
  BY Countable DEF Started
<1>6. IsFiniteSet(Others) /\ Cardinality(Others) = Cardinality(Started) - 1
  BY <1>5, FS_RemoveElement
<1>7. Cardinality(Running) <= Cardinality(Others) /\ Cardinality(Running) \in Nat
  BY <1>4, <1>6, FS_Injection, FS_CardinalityType
<1>8. Cardinality(Started) <= MaxSize
  <2>1. Submitters # {} /\ Spawning \subseteq Submitters
    BY FS_EmptySet, Countable DEF Spawning
  <2>2. Cardinality(Spawning) \in Nat
    BY <2>1, Countable
  <2> QED
    BY <1>5, <2>1, <2>2, MaxSizeAssumption DEF IInv, SpawnsCounted
<1> QED
  BY <1>5, <1>6, <1>7, <1>8, MaxSizeAssumption

\* Each step of the pool is a step of the promise or changes nothing the promise talks of.
LEMMA PromiseStep ==
  ASSUME MaxSize > 0, Cardinality(Submitters) = 1,
         IInv, IInv', TasksInOnePlace, TasksInOnePlace', [Next]_vars
  PROVE  [Promise!Next]_Promise!vars
<1> USE DEF Running
<1>1. ASSUME UNCHANGED <<accepted, task_queue, stopped>>, Running' = Running,
             stopperPc' = "stopped" <=> stopperPc = "stopped"
      PROVE  [Promise!Next]_Promise!vars
  BY <1>1 DEF Promise!vars
<1>2. workerPc \in [Workers -> WorkerPcs] /\ task \in [Workers -> SUBSET accepted]
  BY DEF IInv, TypeOK
<1>3. stopped <=> stopperPc # "running"
  BY DEF IInv, StopSound
<1>4. ASSUME NEW s \in Submitters, NEW t \in Tasks, Submit(s, t)
      PROVE  [Promise!Next]_Promise!vars
  <2>1. CASE stopped
    BY <1>1, <1>4, <2>1 DEF Submit
  <2>2. CASE ~stopped
    <3>1. Promise!Submit(t)
      BY <1>3, <1>4, <2>2 DEF Submit, Promise!Submit, IInv, TypeOK
    <3> QED
      BY <3>1 DEF Promise!Next
  <2> QED
    BY <2>1, <2>2
<1>5. ASSUME NEW s \in Submitters, SubmitterStep(s) PROVE [Promise!Next]_Promise!vars
  BY <1>1, <1>5 DEF SubmitterStep, SubmitNotify, SubmitTest, SubmitSpawn
<1>6. ASSUME NEW w \in Workers, WorkerWait(w) \/ WorkerExit(w) \/ SpuriousWakeup(w)
      PROVE  [Promise!Next]_Promise!vars
  BY <1>1, <1>6 DEF WorkerWait, WorkerExit, SpuriousWakeup
<1>7. ASSUME NEW w \in Workers, WorkerTake(w) PROVE [Promise!Next]_Promise!vars
  <2>1. /\ workerPc[w] = "checking" /\ task_queue # <<>>
        /\ task' = [task EXCEPT ![w] = {Head(task_queue)}]
        /\ UNCHANGED <<accepted, stopped, stopperPc>> /\ task_queue' = Tail(task_queue)
    BY <1>7 DEF WorkerTake
  <2>2. task[w] = {}
    BY <2>1 DEF TasksInOnePlace
  <2>3. Running' = Running \cup {Head(task_queue)}
    <3>1. \A v \in Workers : task'[v] = IF v = w THEN {Head(task_queue)} ELSE task[v]
      BY <1>2, <2>1
    <3> QED
      BY <2>2, <3>1
  <2>4. Cardinality(Running) < MaxSize
    BY <2>1, RoomToStart
  <2>5. Promise!Cardinality(Running) < MaxSize
    BY <2>4 DEF Promise!Cardinality, Cardinality
  <2>6. Promise!Start
    BY <2>1, <2>3, <2>5 DEF Promise!Start
  <2> QED
    BY <2>6 DEF Promise!Next
<1>8. ASSUME NEW w \in Workers, WorkerFinish(w) PROVE [Promise!Next]_Promise!vars
  <2>1. /\ workerPc[w] = "running" /\ task' = [task EXCEPT ![w] = {}]
        /\ UNCHANGED <<accepted, task_queue, stopped, stopperPc>>
    BY <1>8 DEF WorkerFinish
  <2>2. PICK t : task[w] = {t}
    <3>1. PICK t : t \in task[w]
      BY <2>1 DEF TasksInOnePlace
    <3>2. \A u \in task[w] : u = t
      BY <3>1 DEF TasksInOnePlace
    <3>3. task[w] = {t}
      BY <3>1, <3>2
    <3> QED
      BY <3>3
  <2>3. t \in Tasks /\ t \in Running
    BY <1>2, <2>2 DEF IInv, TypeOK
  <2>4. Running' = Running \ {t}
    <3>1. \A v \in Workers : task'[v] = IF v = w THEN {} ELSE task[v]
      BY <1>2, <2>1
    <3>2. \A v \in Workers : v # w => t \notin task[v]
      BY <2>2 DEF TasksInOnePlace
    <3> QED
      BY <2>2, <3>1, <3>2
  <2>5. Promise!Finish(t)
    BY <2>1, <2>3, <2>4 DEF Promise!Finish
  <2> QED
    BY <2>3, <2>5 DEF Promise!Next
<1>9. CASE Stop
  <2>1. Promise!Close
    BY <1>3, <1>9 DEF Stop, Promise!Close
  <2> QED
    BY <2>1 DEF Promise!Next
<1>10. CASE StopNotifyAll
  BY <1>1, <1>10 DEF StopNotifyAll
<1>11. CASE StopJoined
  <2>1. /\ stopperPc = "joining" /\ stopperPc' = "stopped"
        /\ \A w \in Started : workerPc[w] = "exited"
        /\ UNCHANGED <<accepted, stopped, task_queue, workerPc, task>>
    BY <1>11 DEF StopJoined
  <2>2. Running = {}
    BY <2>1 DEF TasksInOnePlace, Started
  <2>3. task_queue = <<>>
    BY <2>1 DEF IInv, StopDrains
  <2>4. Promise!Stopped
    BY <1>3, <2>1, <2>2, <2>3 DEF Promise!Stopped
  <2> QED
    BY <2>4 DEF Promise!Next
<1>12. CASE UNCHANGED vars
  BY <1>1, <1>12 DEF vars
<1> QED
  BY <1>4, <1>5, <1>6, <1>7, <1>8, <1>9, <1>10, <1>11, <1>12 DEF Next, WorkerStep, StopperStep

\* With one thread that submits, and room for a worker at all, the pool starts its tasks
\* in the order of their submission, at most MaxSize at a time, each once, and stop()
\* returns only when all of them have ended: it implements TaskPool (the part of
\* ImplementsTaskPool that is about what may happen; what must happen is left to TLC).
THEOREM PoolKeepsItsPromise ==
  ASSUME MaxSize > 0, Cardinality(Submitters) = 1
  PROVE  Spec => Promise!Spec
<1>1. Init => Promise!Init
  BY DEF Init, Promise!Init
<1>2. /\ IInv /\ TasksInOnePlace /\ (IInv /\ TasksInOnePlace)' /\ [Next]_vars
      => [Promise!Next]_Promise!vars
  BY PromiseStep
<1> QED
  BY <1>1, <1>2, TasksStayInOnePlace, PTL DEF Spec, Promise!Spec
=============================================================================
