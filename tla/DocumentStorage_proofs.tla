----------------------- MODULE DocumentStorage_proofs -----------------------
(***************************************************************************)
(* Proofs about DocumentStorage, for any number of documents, filters and  *)
(* requests: the numbers in an answer are those of the filter the client   *)
(* had set, and requests find the documents that were read.                *)
(***************************************************************************)
EXTENDS DocumentStorage, TLAPS

Kind(t)    == request[t].kind
IsWrite(t) == access_type(Kind(t)) = "write"
IsSet(t, d) == Kind(t) = "setSampleFilters" /\ Document(t) = d

\* The steps in which a task uses its document.
StepsOf(kind) ==
  CASE kind = "readDocument"              -> {"reading"}
    [] kind = "closeDocument"             -> {"erasing"}
    [] kind = "setSampleFilters"          -> {"applying"}
    [] kind = "retrieveFunctionsPage"     -> {"analyzing", "sorting", "totalling"}
    [] kind = "retrieveProcessSampleInfo" -> {"counting"}

\* What each request has come to.
TasksTracked ==
  /\ job = [t \in Tasks |-> [document |-> Document(t), access |-> access_type(Kind(t))]]
  /\ \A t \in Tasks :
       /\ step[t] \in {"waiting", "finding", "finished"} \cup StepsOf(Kind(t))
       /\ step[t] # "waiting" => t <= requested
       /\ t \in admitted <=> step[t] \notin {"waiting", "finished"}
       /\ Answered(t) <=> step[t] = "finished"

\* The queue of a document holds its waiting requests in order.
WaitingSound ==
  /\ \A d \in Documents : \A i \in 1 .. Len(waiting[d]) :
       /\ waiting[d][i] <= requested /\ step[waiting[d][i]] = "waiting"
       /\ Document(waiting[d][i]) = d
       /\ \A j \in 1 .. i - 1 : waiting[d][j] < waiting[d][i]
  /\ \A t \in Tasks : t <= requested /\ step[t] = "waiting" =>
       \E i \in 1 .. Len(waiting[Document(t)]) : waiting[Document(t)][i] = t

\* The promise of the scheduler, told by the steps of the tasks.
OrderKept ==
  \A t, u \in Tasks : u < t /\ Document(u) = Document(t) /\ step[t] # "waiting" =>
    /\ step[u] # "waiting"
    /\ IsWrite(u) \/ IsWrite(t) => step[u] = "finished"

\* Each document has its readDocument before everything else.
DocumentsNumbered ==
  /\ \A t \in Tasks : t <= requested =>
       /\ Document(t) < next_document
       /\ Kind(t) # "readDocument" =>
            \E u \in 1 .. t - 1 : /\ Kind(u) = "readDocument" /\ Document(u) = Document(t)
                                  /\ answer[u].outcome = "result"
  /\ creating => /\ requested < MaxTasks
                 /\ Kind(requested + 1) = "readDocument"
                 /\ Document(requested + 1) = next_document

Bookkeeping ==
  TypeOK /\ TasksTracked /\ WaitingSound /\ OrderKept /\ DocumentsNumbered

\* What tasks find of a document.
DocumentsFound ==
  /\ \A d \in Documents : d < next_document /\ d \notin open_documents =>
       \E u \in Tasks : Kind(u) = "closeDocument" /\ Document(u) = d /\ step[u] = "finished"
  /\ \A t \in Tasks : step[t] \notin {"waiting", "finding", "finished"} =>
       Document(t) \in open_documents
  /\ \A t \in Tasks :
       Kind(t) = "readDocument" /\ answer[t].outcome = "result" /\ Document(t) \in open_documents
         => storage[Document(t)].provider # "none"

ErrorsOnlyAfterClose ==
  \A t \in Tasks : answer[t].outcome = "error" /\ Kind(t) # "readDocument" =>
    \E u \in 1 .. t - 1 : Kind(u) = "closeDocument" /\ Document(u) = Document(t)

\* The filters of document d that were set before request t have been applied, ...
AppliedBefore(d, t) == \A u \in Tasks : IsSet(u, d) /\ u < t => step[u] = "finished"
\* ... and no others.
AppliedUpTo(d, t) ==
  /\ AppliedBefore(d, t)
  /\ \A u \in Tasks : IsSet(u, d) /\ step[u] = "finished" => u < t

\* Then the filter of the document is the one the client had set.
FilterFollows ==
  \A d \in open_documents, t \in 1 .. requested + 1 :
    AppliedUpTo(d, t) => storage[d].filter = FilterAt(d, t)

\* Task u has had its turn on document d, and was cancelled as one that reads it, or ...
ReadCanceled(d, u) ==
  u \in canceled /\ step[u] # "waiting" /\ Document(u) = d /\ Kind(u) = "readDocument"
\* ... as one that fills its caches, and the filter has been the same since.
PageCanceled(d, u) ==
  /\ u \in canceled /\ step[u] # "waiting" /\ Document(u) = d
  /\ Kind(u) = "retrieveFunctionsPage"
  /\ \A t \in u .. requested + 1 :
       AppliedBefore(d, t) => storage[d].filter = FilterAt(d, t)

\* Samples are only missing after a cancellation.
MissingForAReason ==
  \A d \in open_documents :
    /\ storage[d].provider = "partial" => \E u \in Tasks : ReadCanceled(d, u)
    /\ \A v \in storage[d].total_samples_counts :
         ~v.complete => \E u \in Tasks : ReadCanceled(d, u)
    /\ \A v \in storage[d].stacks_analysis \cup storage[d].sorted_functions :
         ~v.complete => \E u \in Tasks : ReadCanceled(d, u) \/ PageCanceled(d, u)

IInv ==
  /\ Bookkeeping
  /\ DocumentsFound /\ ErrorsOnlyAfterClose
  /\ FilterFollows /\ MissingForAReason /\ AnswersFollowRequests

LEMMA RequestTypes ==
  ASSUME TypeOK, NEW t \in Tasks
  PROVE  /\ Document(t) \in Documents /\ request[t].filter \in Filters
         /\ Kind(t) \in {"readDocument", "closeDocument", "setSampleFilters",
                         "retrieveFunctionsPage", "retrieveProcessSampleInfo"}
BY FiltersAssumption DEF TypeOK, Requests, Document, Kind

LEMMA TasksAreNumbers == Tasks \subseteq Nat /\ Documents \subseteq Nat
BY DEF Tasks, Documents

(***************************************************************************)
(* Bookkeeping, for the kinds of steps that a task makes.                  *)
(***************************************************************************)

\* A request arrives.
LEMMA Arrives ==
  ASSUME Bookkeeping, Scheduler!Request, UNCHANGED <<request, step, answer>>
  PROVE  /\ requested' = requested + 1 /\ requested' \in Tasks /\ requested \in Nat
         /\ step[requested'] = "waiting"
         /\ job' = job /\ admitted' = admitted
         /\ waiting' = [waiting EXCEPT ![Document(requested')] = Append(@, requested')]
         /\ waiting' \in [Documents -> Seq(Tasks)] /\ requested' \in 0 .. MaxTasks
         /\ TasksTracked' /\ WaitingSound' /\ OrderKept'
<1>1. TypeOK /\ TasksTracked /\ WaitingSound /\ OrderKept
  BY DEF Bookkeeping
<1>2. /\ requested' = requested + 1 /\ requested' \in Tasks /\ requested \in Nat
      /\ requested' \in 0 .. MaxTasks
      /\ job' = job /\ admitted' = admitted
      /\ waiting' = [waiting EXCEPT ![job[requested'].document] = Append(@, requested')]
  BY <1>1, BoundsAssumption DEF Scheduler!Request, TypeOK, Tasks
<1>3. job[requested'].document = Document(requested') /\ Document(requested') \in Documents
  BY <1>1, <1>2, RequestTypes DEF TasksTracked
<1>4. step[requested'] = "waiting"
  BY <1>1, <1>2 DEF TasksTracked
<1>5. /\ waiting' = [waiting EXCEPT ![Document(requested')] = Append(@, requested')]
      /\ waiting' \in [Documents -> Seq(Tasks)]
  BY <1>1, <1>2, <1>3 DEF TypeOK
<1>6. TasksTracked'
  <2>1. \A t \in Tasks : step[t] # "waiting" => t <= requested'
    BY <1>1, <1>2, TasksAreNumbers DEF TasksTracked
  <2> QED
    BY <1>1, <1>2, <2>1 DEF TasksTracked, Answered, Kind, Document
<1>7. OrderKept'
  BY <1>1 DEF OrderKept, IsWrite, Kind, Document
<1>8. WaitingSound'
  <2>1. ASSUME NEW d \in Documents, NEW i \in 1 .. Len(waiting'[d])
        PROVE  /\ waiting'[d][i] <= requested' /\ step[waiting'[d][i]] = "waiting"
               /\ Document(waiting'[d][i]) = d
               /\ \A j \in 1 .. i - 1 : waiting'[d][j] < waiting'[d][i]
    <3>1. waiting[d] \in Seq(Tasks)
      BY <1>1 DEF TypeOK
    <3>2. \A k \in 1 .. Len(waiting[d]) : waiting[d][k] \in Tasks
      BY <3>1
    <3>3. CASE d # Document(requested')
      <4>1. waiting'[d] = waiting[d]
        BY <1>1, <1>5, <3>3 DEF TypeOK
      <4>2. i \in 1 .. Len(waiting[d]) /\ waiting[d][i] \in Nat
        BY <3>2, <4>1, TasksAreNumbers
      <4>3. /\ waiting[d][i] <= requested /\ step[waiting[d][i]] = "waiting"
            /\ Document(waiting[d][i]) = d
            /\ \A j \in 1 .. i - 1 : waiting[d][j] < waiting[d][i]
        BY <1>1, <4>2 DEF WaitingSound
      <4> QED
        BY <1>2, <4>1, <4>2, <4>3
    <3>4. CASE d = Document(requested')
      <4>1. waiting'[d] = Append(waiting[d], requested')
        BY <1>1, <1>5, <3>4 DEF TypeOK
      <4>2. CASE i = Len(waiting[d]) + 1
        <5>1. waiting'[d][i] = requested' /\ \A j \in 1 .. i - 1 : waiting'[d][j] = waiting[d][j]
          BY <3>1, <4>1, <4>2, <1>2
        <5>2. ASSUME NEW j \in 1 .. i - 1 PROVE waiting'[d][j] < waiting'[d][i]
          <6>1. j \in 1 .. Len(waiting[d])
            BY <3>1, <4>2
          <6>2. waiting[d][j] <= requested /\ waiting[d][j] \in Nat
            BY <1>1, <3>2, <6>1, TasksAreNumbers DEF WaitingSound
          <6> QED
            BY <1>2, <5>1, <6>2
        <5> QED
          BY <1>2, <1>4, <3>4, <5>1, <5>2, TasksAreNumbers
      <4>3. CASE i # Len(waiting[d]) + 1
        <5>1. /\ i \in 1 .. Len(waiting[d]) /\ waiting'[d][i] = waiting[d][i]
              /\ \A j \in 1 .. i - 1 : waiting'[d][j] = waiting[d][j]
          BY <3>1, <4>1, <4>3, <1>2
        <5>2. waiting[d][i] \in Nat
          BY <3>2, <5>1, TasksAreNumbers
        <5>3. /\ waiting[d][i] <= requested /\ step[waiting[d][i]] = "waiting"
              /\ Document(waiting[d][i]) = d
              /\ \A j \in 1 .. i - 1 : waiting[d][j] < waiting[d][i]
          BY <1>1, <5>1 DEF WaitingSound
        <5> QED
          BY <1>2, <5>1, <5>2, <5>3
      <4> QED
        BY <4>2, <4>3
    <3> QED
      BY <3>3, <3>4
  <2>2. ASSUME NEW t \in Tasks, t <= requested', step[t] = "waiting"
        PROVE  \E i \in 1 .. Len(waiting'[Document(t)]) : waiting'[Document(t)][i] = t
    <3> DEFINE d == Document(t)
    <3>1. d \in Documents /\ waiting[d] \in Seq(Tasks)
      BY <1>1, RequestTypes DEF TypeOK
    <3>2. CASE t = requested'
      <4>1. waiting'[d] = Append(waiting[d], t)
        BY <1>1, <1>5, <3>1, <3>2 DEF TypeOK
      <4>2. Len(waiting'[d]) \in 1 .. Len(waiting'[d]) /\ waiting'[d][Len(waiting'[d])] = t
        BY <3>1, <4>1
      <4> QED
        BY <4>2
    <3>3. CASE t # requested'
      <4>1. t <= requested
        BY <1>2, <2>2, <3>3, TasksAreNumbers
      <4>2. PICK i \in 1 .. Len(waiting[d]) : waiting[d][i] = t
        BY <1>1, <2>2, <4>1 DEF WaitingSound
      <4>3. waiting'[d] = waiting[d] \/ waiting'[d] = Append(waiting[d], requested')
        BY <1>1, <1>5, <3>1 DEF TypeOK
      <4>4. i \in 1 .. Len(waiting'[d]) /\ waiting'[d][i] = t
        BY <1>2, <3>1, <4>2, <4>3
      <4> QED
        BY <4>4
    <3> QED
      BY <3>2, <3>3
  <2>3. UNCHANGED <<request, step>>
    OBVIOUS
  <2> QED
    BY <2>1, <2>2, <2>3 DEF WaitingSound, Document
<1> QED
  BY <1>2, <1>4, <1>5, <1>6, <1>7, <1>8

\* The first waiting task of document d is admitted.
LEMMA Admits ==
  ASSUME Bookkeeping, NEW d \in Documents, Start(d)
  PROVE  /\ Head(waiting[d]) \in Tasks /\ Document(Head(waiting[d])) = d
         /\ step[Head(waiting[d])] = "waiting" /\ Head(waiting[d]) <= requested
         /\ step' = [step EXCEPT ![Head(waiting[d])] = "finding"]
         /\ UNCHANGED <<request, job, requested, answer, creating, next_document,
                        open_documents, storage, canceled>>
         /\ TypeOK' /\ TasksTracked' /\ WaitingSound' /\ OrderKept'
<1> DEFINE t == Head(waiting[d])
<1>1. TypeOK /\ TasksTracked /\ WaitingSound /\ OrderKept
  BY DEF Bookkeeping
<1>2. /\ waiting[d] # <<>>
      /\ \A u \in admitted : job[u].document = job[t].document
           => job[u].access = "read_only" /\ job[t].access = "read_only"
      /\ waiting' = [waiting EXCEPT ![d] = Tail(waiting[d])]
      /\ admitted' = admitted \cup {t}
      /\ step' = [step EXCEPT ![t] = "finding"]
      /\ UNCHANGED <<request, job, requested, answer, creating, next_document,
                     open_documents, storage, canceled>>
  BY DEF Start, Scheduler!Admit, Scheduler!Admissible
<1>3. waiting[d] \in Seq(Tasks) /\ Len(waiting[d]) \in Nat /\ 1 \in 1 .. Len(waiting[d])
  BY <1>1, <1>2 DEF TypeOK
<1>4. /\ t = waiting[d][1] /\ t \in Tasks /\ Document(t) = d /\ step[t] = "waiting"
      /\ t <= requested
  BY <1>1, <1>2, <1>3 DEF WaitingSound
<1>5. /\ Tail(waiting[d]) \in Seq(Tasks) /\ Len(Tail(waiting[d])) = Len(waiting[d]) - 1
      /\ \A i \in 1 .. Len(waiting[d]) - 1 : Tail(waiting[d])[i] = waiting[d][i + 1]
  BY <1>2, <1>3
<1> HIDE DEF t
<1>6. /\ step'[t] = "finding" /\ \A u \in Tasks : u # t => step'[u] = step[u]
      /\ waiting'[d] = Tail(waiting[d]) /\ \A e \in Documents : e # d => waiting'[e] = waiting[e]
  BY <1>1, <1>2, <1>4 DEF TypeOK
<1>7. TypeOK'
  BY <1>1, <1>2, <1>4, <1>5 DEF TypeOK, Steps
<1>8. TasksTracked'
  BY <1>1, <1>2, <1>4, <1>6 DEF TasksTracked, Answered, Kind, Document
<1>9. ASSUME NEW e \in Documents, NEW i \in 1 .. Len(waiting'[e])
      PROVE  /\ waiting'[e][i] <= requested /\ step'[waiting'[e][i]] = "waiting"
             /\ Document(waiting'[e][i]) = e
             /\ \A j \in 1 .. i - 1 : waiting'[e][j] < waiting'[e][i]
  <2>1. waiting[e] \in Seq(Tasks)
    BY <1>1 DEF TypeOK
  <2>2. CASE e = d
    <3>0. i \in 1 .. Len(waiting[d]) - 1 /\ waiting'[e] = Tail(waiting[d])
      BY <1>5, <1>6, <2>2
    <3>1. /\ waiting'[e][i] = waiting[d][i + 1] /\ i + 1 \in 1 .. Len(waiting[d])
          /\ \A j \in 1 .. i - 1 : /\ waiting'[e][j] = waiting[d][j + 1]
                                   /\ j + 1 \in 1 .. (i + 1) - 1
      BY <1>3, <1>5, <3>0
    <3>2. /\ waiting[d][i + 1] <= requested /\ step[waiting[d][i + 1]] = "waiting"
          /\ Document(waiting[d][i + 1]) = d /\ waiting[d][i + 1] \in Tasks
          /\ \A j \in 1 .. (i + 1) - 1 : waiting[d][j] < waiting[d][i + 1]
      BY <1>1, <1>3, <3>1 DEF WaitingSound
    <3>3. waiting[d][i + 1] # t
      <4>1. 1 \in 1 .. (i + 1) - 1
        OBVIOUS
      <4> QED
        BY <1>4, <3>2, <4>1, TasksAreNumbers
    <3> QED
      BY <1>6, <2>2, <3>1, <3>2, <3>3
  <2>3. CASE e # d
    <3>1. waiting'[e] = waiting[e] /\ waiting[e][i] \in Tasks
      BY <1>6, <2>1, <2>3
    <3>2. Document(waiting[e][i]) = e
      BY <1>1, <3>1 DEF WaitingSound
    <3> QED
      BY <1>1, <1>4, <1>6, <2>3, <3>1, <3>2 DEF WaitingSound
  <2> QED
    BY <2>2, <2>3
<1>10. ASSUME NEW u \in Tasks, u <= requested, step'[u] = "waiting"
       PROVE  \E i \in 1 .. Len(waiting'[Document(u)]) : waiting'[Document(u)][i] = u
  <2>1. u # t /\ step[u] = "waiting" /\ Document(u) \in Documents
    BY <1>1, <1>6, <1>10, RequestTypes
  <2>2. PICK i \in 1 .. Len(waiting[Document(u)]) : waiting[Document(u)][i] = u
    BY <1>1, <1>10, <2>1 DEF WaitingSound
  <2>3. CASE Document(u) = d
    <3>1. i # 1
      BY <1>4, <2>1, <2>2, <2>3
    <3>2. i - 1 \in 1 .. Len(waiting'[d]) /\ waiting'[d][i - 1] = u
      BY <1>3, <1>5, <1>6, <2>2, <2>3, <3>1
    <3> QED
      BY <2>3, <3>2
  <2>4. CASE Document(u) # d
    BY <1>6, <2>1, <2>2, <2>4
  <2> QED
    BY <2>3, <2>4
<1>11. WaitingSound'
  <2>1. requested' = requested /\ \A x : Document(x)' = Document(x)
    BY <1>2 DEF Document
  <2> QED
    BY <1>9, <1>10, <2>1 DEF WaitingSound
<1>12. OrderKept'
  <2> SUFFICES ASSUME NEW v \in Tasks, NEW u \in Tasks, u < v, Document(u) = Document(v),
                      step'[v] # "waiting"
               PROVE  /\ step'[u] # "waiting"
                      /\ IsWrite(u) \/ IsWrite(v) => step'[u] = "finished"
    BY <1>2 DEF OrderKept, IsWrite, Kind, Document
  <2>1. CASE v = t
    <3>1. u # t /\ u <= requested /\ step'[u] = step[u]
      BY <1>4, <1>6, <2>1, TasksAreNumbers, <1>1 DEF TypeOK
    <3>2. step[u] # "waiting"
      <4> SUFFICES ASSUME step[u] = "waiting" PROVE FALSE
        OBVIOUS
      <4>1. PICK i \in 1 .. Len(waiting[d]) : waiting[d][i] = u
        BY <1>1, <1>4, <2>1, <3>1 DEF WaitingSound
      <4>2. i = 1 \/ waiting[d][1] < waiting[d][i]
        <5>1. i # 1 => 1 \in 1 .. i - 1
          OBVIOUS
        <5> QED
          BY <1>1, <5>1 DEF WaitingSound
      <4> QED
        BY <1>4, <2>1, <4>1, <4>2, TasksAreNumbers
    <3>3. ASSUME IsWrite(u) \/ IsWrite(v) PROVE step[u] = "finished"
      <4>1. u \notin admitted
        BY <1>1, <1>2, <2>1, <3>3 DEF TasksTracked, IsWrite
      <4> QED
        BY <1>1, <3>2, <4>1 DEF TasksTracked
    <3> QED
      BY <3>1, <3>2, <3>3
  <2>2. CASE v # t
    <3>1. step[v] # "waiting" /\ step[u] # "waiting"
      BY <1>1, <1>6, <2>2 DEF OrderKept
    <3>2. u # t
      BY <1>4, <3>1
    <3> QED
      BY <1>1, <1>6, <2>2, <3>1, <3>2 DEF OrderKept
  <2> QED
    BY <2>1, <2>2
<1> QED
  BY <1>2, <1>4, <1>7, <1>8, <1>11, <1>12 DEF t

\* Where a task is says what kind of request it is.
LEMMA KindsOfSteps ==
  ASSUME TypeOK, TasksTracked, NEW t \in Tasks
  PROVE  /\ step[t] = "reading" => Kind(t) = "readDocument"
         /\ step[t] = "erasing" => Kind(t) = "closeDocument"
         /\ step[t] = "applying" => Kind(t) = "setSampleFilters"
         /\ step[t] \in {"analyzing", "sorting", "totalling"} => Kind(t) = "retrieveFunctionsPage"
         /\ step[t] = "counting" => Kind(t) = "retrieveProcessSampleInfo"
BY RequestTypes DEF TasksTracked, StepsOf

LEMMA Writes ==
  ASSUME NEW t \in Tasks
  PROVE  IsWrite(t) <=> Kind(t) # "retrieveProcessSampleInfo"
BY DEF IsWrite, access_type

\* What every step of task t has in common; r is its document and a its answer after it.
TaskMoved(t, r, a, open) ==
  /\ step[t] \notin {"waiting", "finished"}
  /\ step' \in [Tasks -> Steps]
  /\ step'[t] \in StepsOf(Kind(t)) \cup {"finished"}
  /\ \A u \in Tasks : u # t => step'[u] = step[u]
  /\ admitted' = IF step'[t] = "finished" THEN admitted \ {t} ELSE admitted
  /\ a \in Answers /\ answer' = [answer EXCEPT ![t] = a]
  /\ a.outcome # "pending" <=> step'[t] = "finished"
  /\ r \in Storage /\ storage' = [storage EXCEPT ![Document(t)] = r]
  /\ open \subseteq open_documents /\ open_documents' = open
  /\ UNCHANGED <<request, job, requested, waiting, creating, next_document, canceled>>

LEMMA Results ==
  ASSUME NEW f \in SUBSET Filters, NEW c \in BOOLEAN
  PROVE  /\ Result(f, c) \in Answers /\ Error \in Answers
         /\ Result(f, c).outcome = "result" /\ Error.outcome = "error"
         /\ Result(f, c).filters = f /\ Result(f, c).complete = c
BY DEF Result, Error, Answers

\* Task t goes on with its work, ...
LEMMA Advances ==
  ASSUME TypeOK, TasksTracked, NEW t \in Tasks, step[t] \notin {"waiting", "finished"},
         NEW s \in StepsOf(Kind(t)), step' = [step EXCEPT ![t] = s],
         NEW r \in Storage, storage' = [storage EXCEPT ![Document(t)] = r],
         UNCHANGED <<request, taskVars, creating, next_document, open_documents,
                     canceled, answer>>
  PROVE  TaskMoved(t, r, answer[t], open_documents)
<1>1. s \in Steps /\ s # "finished"
  BY RequestTypes DEF StepsOf, Steps
<1>2. step' \in [Tasks -> Steps] /\ step'[t] = s /\ \A u \in Tasks : u # t => step'[u] = step[u]
  BY <1>1 DEF TypeOK
<1>3. answer' = [answer EXCEPT ![t] = answer[t]] /\ answer[t] \in Answers
  BY DEF TypeOK
<1>4. answer[t].outcome = "pending"
  BY DEF TasksTracked, Answered
<1> QED
  BY <1>1, <1>2, <1>3, <1>4 DEF TaskMoved, taskVars

\* ... or ends.
LEMMA Ends ==
  ASSUME TypeOK, TasksTracked, NEW t \in Tasks, step[t] \notin {"waiting", "finished"},
         NEW a \in Answers, a.outcome # "pending", Finish(t, a),
         NEW r \in Storage, storage' = [storage EXCEPT ![Document(t)] = r],
         open_documents' \subseteq open_documents,
         UNCHANGED <<request, creating, next_document, canceled>>
  PROVE  TaskMoved(t, r, a, open_documents')
<1>1. /\ step' \in [Tasks -> Steps] /\ step'[t] = "finished"
      /\ \A u \in Tasks : u # t => step'[u] = step[u]
  BY DEF TypeOK, Finish, Steps
<1> QED
  BY <1>1 DEF TaskMoved, Finish, Scheduler!Finish

LEMMA StorageFields ==
  ASSUME NEW s \in Storage
  PROVE  /\ s.provider \in {"none", "partial", "complete"} /\ s.filter \in Filters
         /\ s.total_samples_counts \in Optional(Computed)
         /\ s.stacks_analysis \in Optional(Computed)
         /\ s.sorted_functions \in Optional(Computed)
         /\ \A v \in s.total_samples_counts \cup s.stacks_analysis \cup s.sorted_functions :
              v \in Computed
         /\ \A p \in {"none", "partial", "complete"} : [s EXCEPT !.provider = p] \in Storage
         /\ \A c \in Optional(Computed) :
              /\ [s EXCEPT !.total_samples_counts = c] \in Storage
              /\ [s EXCEPT !.sorted_functions = c] \in Storage
              /\ [s EXCEPT !.stacks_analysis = c, !.sorted_functions = None] \in Storage
         /\ \A f \in Filters : filtered(s, f) \in Storage
<1>1. /\ s.provider \in {"none", "partial", "complete"} /\ s.filter \in Filters
      /\ s.total_samples_counts \in Optional(Computed)
      /\ s.stacks_analysis \in Optional(Computed)
      /\ s.sorted_functions \in Optional(Computed)
  BY DEF Storage
<1>2. None \in Optional(Computed)
  BY DEF Optional
<1>3. \A c \in Optional(Computed) : \A v \in c : v \in Computed
  BY DEF Optional, None
<1> HIDE DEF Optional
<1>4. \A f \in Filters : filtered(s, f) \in Storage
  BY <1>1, <1>2 DEF Storage, filtered
<1> QED
  BY <1>1, <1>2, <1>3, <1>4 DEF Storage

\* Document s once its analysis is a new one.
AnalyzedAs(s, analysis) ==
  [s EXCEPT !.stacks_analysis = analysis, !.sorted_functions = None]

\* What the steps of tasks change in a document, field by field.
LEMMA Updates ==
  ASSUME NEW s \in Storage
  PROVE
    /\ \A x : LET r == [s EXCEPT !.provider = x]
             IN  /\ r.provider = x /\ r.filter = s.filter
                 /\ r.total_samples_counts = s.total_samples_counts
                 /\ r.stacks_analysis = s.stacks_analysis
                 /\ r.sorted_functions = s.sorted_functions
    /\ \A x : LET r == [s EXCEPT !.total_samples_counts = x]
             IN  /\ r.provider = s.provider /\ r.filter = s.filter
                 /\ r.total_samples_counts = x
                 /\ r.stacks_analysis = s.stacks_analysis
                 /\ r.sorted_functions = s.sorted_functions
    /\ \A x : LET r == [s EXCEPT !.sorted_functions = x]
             IN  /\ r.provider = s.provider /\ r.filter = s.filter
                 /\ r.total_samples_counts = s.total_samples_counts
                 /\ r.stacks_analysis = s.stacks_analysis
                 /\ r.sorted_functions = x
    /\ \A x : LET r == AnalyzedAs(s, x)
             IN  /\ r.provider = s.provider /\ r.filter = s.filter
                 /\ r.total_samples_counts = s.total_samples_counts
                 /\ r.stacks_analysis = x /\ r.sorted_functions = None
    /\ \A f : LET r == filtered(s, f)
             IN  \/ r = s /\ s.filter = f
                 \/ /\ r.provider = s.provider /\ r.filter = f
                    /\ r.total_samples_counts = None
                    /\ r.stacks_analysis = None /\ r.sorted_functions = None
BY DEF Storage, filtered, AnalyzedAs

\* The values get_total_samples_counts() returns for document s.
CountsOf(s) ==
  IF s.total_samples_counts # None THEN s.total_samples_counts
  ELSE {[filter |-> s.filter, complete |-> s.provider = "complete"]}
UsedOf(s) == CountsOf(s) \cup s.stacks_analysis \cup s.sorted_functions
SortedOf(s) ==
  IF s.sorted_functions # None THEN s.sorted_functions ELSE s.stacks_analysis
AnalysisOf(s, whole) ==
  {[filter |-> s.filter, complete |-> whole /\ s.provider = "complete"]}

LEMMA UnchangedStorage ==
  ASSUME TypeOK, NEW t \in Tasks
  PROVE  /\ Document(t) \in Documents /\ storage[Document(t)] \in Storage
         /\ storage = [storage EXCEPT ![Document(t)] = storage[Document(t)]]
BY RequestTypes DEF TypeOK

\* Task t leaves its document as r.
LEMMA LeftAs ==
  ASSUME Bookkeeping, NEW t \in Tasks, NEW r, NEW a, NEW open, TaskMoved(t, r, a, open)
  PROVE  /\ storage'[Document(t)] = r /\ step'[t] # "waiting"
         /\ \A d \in Documents : d # Document(t) => storage'[d] = storage[d]
         /\ answer'[t] = a /\ \A u \in Tasks : u # t => answer'[u] = answer[u]
<1>1. TypeOK
  BY DEF Bookkeeping
<1> QED
  BY <1>1, RequestTypes DEF TaskMoved, TypeOK, StepsOf

\* The steps of a task, one by one; s is its document before.
LEMMA FindStep ==
  ASSUME Bookkeeping, NEW t \in Tasks, Find(t), NEW s, s = storage[Document(t)]
  PROVE  TaskMoved(t, s, answer[t], open_documents) /\ Document(t) \in open_documents
<1>1. TypeOK /\ TasksTracked
  BY DEF Bookkeeping
<1>2. /\ s \in Storage /\ Document(t) \in Documents
      /\ storage = [storage EXCEPT ![Document(t)] = s]
      /\ storage \in [Documents -> Storage]
  BY <1>1, UnchangedStorage DEF TypeOK
<1>3. FirstStep(Kind(t)) \in StepsOf(Kind(t))
  BY <1>1, RequestTypes DEF FirstStep, StepsOf
<1> QED
  BY <1>1, <1>2, <1>3, Advances DEF Find, Kind

LEMMA FindNothingStep ==
  ASSUME Bookkeeping, NEW t \in Tasks, FindNothing(t), NEW s, s = storage[Document(t)]
  PROVE  /\ TaskMoved(t, s, IF Kind(t) \in {"readDocument", "closeDocument"}
                            THEN Result({}, TRUE) ELSE Error, open_documents)
         /\ Document(t) \notin open_documents /\ step[t] = "finding"
<1>1. TypeOK /\ TasksTracked
  BY DEF Bookkeeping
<1>2. /\ s \in Storage /\ Document(t) \in Documents
      /\ storage = [storage EXCEPT ![Document(t)] = s]
      /\ storage \in [Documents -> Storage]
  BY <1>1, UnchangedStorage DEF TypeOK
<1>3. {} \in SUBSET Filters /\ {s.filter} \in SUBSET Filters
  BY <1>2, StorageFields
<1> DEFINE a == IF Kind(t) \in {"readDocument", "closeDocument"} THEN Result({}, TRUE) ELSE Error
<1>4. a \in Answers /\ a.outcome # "pending"
  BY <1>3, Results
<1>5. /\ step[t] = "finding" /\ Document(t) \notin open_documents /\ Finish(t, a)
      /\ UNCHANGED <<request, creating, next_document, open_documents, storage, canceled>>
  BY DEF FindNothing, Kind
<1> HIDE DEF a
<1>6. TaskMoved(t, s, a, open_documents')
  BY <1>1, <1>2, <1>4, <1>5, Ends
<1> QED
  BY <1>5, <1>6 DEF a

LEMMA ReadStep ==
  ASSUME Bookkeeping, NEW t \in Tasks, Read(t), NEW s, s = storage[Document(t)]
  PROVE  \E p \in {"complete", "partial"} :
           /\ TaskMoved(t, [s EXCEPT !.provider = p], Result({}, p = "complete"), open_documents)
           /\ storage'[Document(t)] = [s EXCEPT !.provider = p]
           /\ p = "partial" => t \in canceled
<1>1. TypeOK /\ TasksTracked
  BY DEF Bookkeeping
<1>2. /\ s \in Storage /\ Document(t) \in Documents
      /\ storage = [storage EXCEPT ![Document(t)] = s]
      /\ storage \in [Documents -> Storage]
  BY <1>1, UnchangedStorage DEF TypeOK
<1>3. {} \in SUBSET Filters /\ {s.filter} \in SUBSET Filters
  BY <1>2, StorageFields
<1>4. PICK p \in {"complete", "partial"} :
        /\ storage' = [storage EXCEPT ![Document(t)].provider = p]
        /\ Finish(t, Result({}, p = "complete"))
        /\ p = "partial" => t \in canceled
  BY DEF Read
<1>5. step[t] = "reading" /\ UNCHANGED <<request, creating, next_document, open_documents, canceled>>
  BY DEF Read
<1>6. storage' = [storage EXCEPT ![Document(t)] = [s EXCEPT !.provider = p]]
  BY <1>2, <1>4
<1>7. [s EXCEPT !.provider = p] \in Storage
  BY <1>2, StorageFields
<1>8. Result({}, p = "complete") \in Answers /\ Result({}, p = "complete").outcome # "pending"
  BY <1>3, Results
<1>9. TaskMoved(t, [s EXCEPT !.provider = p], Result({}, p = "complete"), open_documents')
  BY <1>1, <1>4, <1>5, <1>6, <1>7, <1>8, Ends
<1>10. storage'[Document(t)] = [s EXCEPT !.provider = p]
  BY <1>2, <1>6
<1> QED
  BY <1>4, <1>5, <1>9, <1>10

LEMMA ReadFailsStep ==
  ASSUME Bookkeeping, NEW t \in Tasks, ReadFails(t), NEW s, s = storage[Document(t)]
  PROVE  TaskMoved(t, s, Error, open_documents)
<1>1. TypeOK /\ TasksTracked
  BY DEF Bookkeeping
<1>2. /\ s \in Storage /\ Document(t) \in Documents
      /\ storage = [storage EXCEPT ![Document(t)] = s]
      /\ storage \in [Documents -> Storage]
  BY <1>1, UnchangedStorage DEF TypeOK
<1>3. {} \in SUBSET Filters /\ {s.filter} \in SUBSET Filters
  BY <1>2, StorageFields
<1>4. Error \in Answers /\ Error.outcome # "pending"
  BY <1>3, Results
<1>5. TaskMoved(t, s, Error, open_documents')
  BY <1>1, <1>2, <1>4, Ends DEF ReadFails
<1> QED
  BY <1>5 DEF ReadFails

LEMMA CloseStep ==
  ASSUME Bookkeeping, NEW t \in Tasks, Close(t), NEW s, s = storage[Document(t)]
  PROVE  TaskMoved(t, s, Result({}, TRUE), open_documents \ {Document(t)})
<1>1. TypeOK /\ TasksTracked
  BY DEF Bookkeeping
<1>2. /\ s \in Storage /\ Document(t) \in Documents
      /\ storage = [storage EXCEPT ![Document(t)] = s]
      /\ storage \in [Documents -> Storage]
  BY <1>1, UnchangedStorage DEF TypeOK
<1>3. {} \in SUBSET Filters /\ {s.filter} \in SUBSET Filters
  BY <1>2, StorageFields
<1>4. Result({}, TRUE) \in Answers /\ Result({}, TRUE).outcome # "pending"
  BY <1>3, Results
<1>5. TaskMoved(t, s, Result({}, TRUE), open_documents')
  BY <1>1, <1>2, <1>4, Ends DEF Close
<1> QED
  BY <1>5 DEF Close

LEMMA ApplyFilterStep ==
  ASSUME Bookkeeping, NEW t \in Tasks, ApplyFilter(t), NEW s, s = storage[Document(t)]
  PROVE  /\ TaskMoved(t, filtered(s, request[t].filter), Result({}, TRUE), open_documents)
         /\ storage'[Document(t)] = filtered(s, request[t].filter)
<1>1. TypeOK /\ TasksTracked
  BY DEF Bookkeeping
<1>2. /\ s \in Storage /\ Document(t) \in Documents
      /\ storage = [storage EXCEPT ![Document(t)] = s]
      /\ storage \in [Documents -> Storage]
  BY <1>1, UnchangedStorage DEF TypeOK
<1>3. {} \in SUBSET Filters /\ {s.filter} \in SUBSET Filters
  BY <1>2, StorageFields
<1>4. Result({}, TRUE) \in Answers /\ Result({}, TRUE).outcome # "pending"
  BY <1>3, Results
<1>5. filtered(s, request[t].filter) \in Storage
  BY <1>1, <1>2, RequestTypes, StorageFields
<1>6. storage' = [storage EXCEPT ![Document(t)] = filtered(s, request[t].filter)]
  BY DEF ApplyFilter
<1>7. /\ step[t] = "applying" /\ Finish(t, Result({}, TRUE))
      /\ UNCHANGED <<request, creating, next_document, open_documents, canceled>>
  BY DEF ApplyFilter
<1>8. TaskMoved(t, filtered(s, request[t].filter), Result({}, TRUE), open_documents')
  BY <1>1, <1>4, <1>5, <1>6, <1>7, Ends
<1>9. storage'[Document(t)] = filtered(s, request[t].filter)
  BY <1>2, <1>6
<1> QED
  BY <1>7, <1>8, <1>9

LEMMA AnalyzeStep ==
  ASSUME Bookkeeping, NEW t \in Tasks, Analyze(t), NEW s, s = storage[Document(t)]
  PROVE  /\ \E r : TaskMoved(t, r, answer[t], open_documents)
         /\ storage'[Document(t)] # s => \E whole \in BOOLEAN :
              /\ storage'[Document(t)] = AnalyzedAs(s, AnalysisOf(s, whole))
              /\ ~whole => t \in canceled
<1>1. TypeOK /\ TasksTracked
  BY DEF Bookkeeping
<1>2. /\ s \in Storage /\ Document(t) \in Documents
      /\ storage = [storage EXCEPT ![Document(t)] = s]
      /\ storage \in [Documents -> Storage]
  BY <1>1, UnchangedStorage DEF TypeOK
<1>3. PICK whole \in BOOLEAN :
        /\ storage' = IF s.stacks_analysis # None THEN storage
                      ELSE [storage EXCEPT ![Document(t)].stacks_analysis = AnalysisOf(s, whole),
                                           ![Document(t)].sorted_functions = None]
        /\ ~whole => t \in canceled
  BY DEF Analyze, AnalysisOf
<1>4. /\ step[t] = "analyzing" /\ step' = [step EXCEPT ![t] = "sorting"]
      /\ UNCHANGED <<request, taskVars, creating, next_document, open_documents, canceled, answer>>
  BY DEF Analyze
<1>5. "sorting" \in StepsOf(Kind(t))
  BY <1>1, <1>4, KindsOfSteps DEF StepsOf
<1>6. CASE s.stacks_analysis # None
  <2>1. TaskMoved(t, s, answer[t], open_documents)
    BY <1>1, <1>2, <1>3, <1>4, <1>5, <1>6, Advances
  <2>2. storage'[Document(t)] = s
    BY <2>1, LeftAs
  <2> QED
    BY <2>1, <2>2
<1>7. CASE s.stacks_analysis = None
  <2> DEFINE r == AnalyzedAs(s, AnalysisOf(s, whole))
  <2>1. AnalysisOf(s, whole) \in Optional(Computed)
    BY <1>2, StorageFields DEF AnalysisOf, Optional, Computed
  <2>2. r \in Storage
    BY <1>2, <2>1, StorageFields DEF AnalyzedAs
  <2>3. storage' = [storage EXCEPT ![Document(t)] = r]
    BY <1>2, <1>3, <1>7 DEF AnalyzedAs
  <2>4. TaskMoved(t, r, answer[t], open_documents)
    BY <1>1, <1>4, <1>5, <2>2, <2>3, Advances
  <2>5. storage'[Document(t)] = r
    BY <1>2, <2>3
  <2> QED
    BY <1>3, <2>4, <2>5
<1> QED
  BY <1>6, <1>7

LEMMA SortStep ==
  ASSUME Bookkeeping, NEW t \in Tasks, Sort(t), NEW s, s = storage[Document(t)]
  PROVE  /\ TaskMoved(t, [s EXCEPT !.sorted_functions = SortedOf(s)], answer[t], open_documents)
         /\ storage'[Document(t)] = [s EXCEPT !.sorted_functions = SortedOf(s)]
<1>1. TypeOK /\ TasksTracked
  BY DEF Bookkeeping
<1>2. /\ s \in Storage /\ Document(t) \in Documents
      /\ storage = [storage EXCEPT ![Document(t)] = s]
      /\ storage \in [Documents -> Storage]
  BY <1>1, UnchangedStorage DEF TypeOK
<1> DEFINE r == [s EXCEPT !.sorted_functions = SortedOf(s)]
<1>3. SortedOf(s) \in Optional(Computed)
  BY <1>2, StorageFields DEF SortedOf
<1>4. r \in Storage
  BY <1>2, <1>3, StorageFields
<1>5. storage' = [storage EXCEPT ![Document(t)] = r]
  BY <1>2 DEF Sort, SortedOf
<1>6. /\ step[t] = "sorting" /\ step' = [step EXCEPT ![t] = "totalling"]
      /\ UNCHANGED <<request, taskVars, creating, next_document, open_documents, canceled, answer>>
  BY DEF Sort
<1>7. "totalling" \in StepsOf(Kind(t))
  BY <1>1, <1>6, KindsOfSteps DEF StepsOf
<1> HIDE DEF r
<1>8. TaskMoved(t, r, answer[t], open_documents)
  BY <1>1, <1>4, <1>5, <1>6, <1>7, Advances
<1>9. storage'[Document(t)] = r
  BY <1>8, LeftAs
<1> QED
  BY <1>8, <1>9 DEF r

LEMMA TotalStep ==
  ASSUME Bookkeeping, NEW t \in Tasks, Total(t), NEW s, s = storage[Document(t)]
  PROVE  \E whole \in BOOLEAN :
           /\ TaskMoved(t, [s EXCEPT !.total_samples_counts = CountsOf(s)],
                        Result({v.filter : v \in UsedOf(s)},
                               whole /\ \A v \in UsedOf(s) : v.complete), open_documents)
           /\ storage'[Document(t)] = [s EXCEPT !.total_samples_counts = CountsOf(s)]
           /\ answer'[t] = Result({v.filter : v \in UsedOf(s)},
                                  whole /\ \A v \in UsedOf(s) : v.complete)
           /\ ~whole => t \in canceled
<1>1. TypeOK /\ TasksTracked
  BY DEF Bookkeeping
<1>2. /\ s \in Storage /\ Document(t) \in Documents
      /\ storage = [storage EXCEPT ![Document(t)] = s]
      /\ storage \in [Documents -> Storage]
  BY <1>1, UnchangedStorage DEF TypeOK
<1> DEFINE a(whole) == Result({v.filter : v \in UsedOf(s)},
                              whole /\ \A v \in UsedOf(s) : v.complete)
           r == [s EXCEPT !.total_samples_counts = CountsOf(s)]
<1>3. PICK whole \in BOOLEAN :
        /\ storage' = [storage EXCEPT ![Document(t)].total_samples_counts = CountsOf(s)]
        /\ Finish(t, a(whole))
        /\ ~whole => t \in canceled
  BY DEF Total, CountsOf, UsedOf
<1>4. /\ step[t] = "totalling"
      /\ UNCHANGED <<request, creating, next_document, open_documents, canceled>>
  BY DEF Total
<1>5. CountsOf(s) \in Optional(Computed) /\ \A v \in UsedOf(s) : v \in Computed
  <2>1. [filter |-> s.filter, complete |-> s.provider = "complete"] \in Computed
    BY <1>2, StorageFields DEF Computed
  <2>2. CountsOf(s) \in Optional(Computed)
    BY <1>2, <2>1, StorageFields DEF CountsOf, Optional
  <2>3. \A v \in CountsOf(s) : v \in Computed
    BY <2>2 DEF Optional, None
  <2> QED
    BY <1>2, <2>2, <2>3, StorageFields DEF UsedOf
<1>6. r \in Storage
  BY <1>2, <1>5, StorageFields
<1>7. storage' = [storage EXCEPT ![Document(t)] = r]
  BY <1>2, <1>3
<1>8. a(whole) \in Answers /\ a(whole).outcome # "pending"
  <2>1. \A v \in UsedOf(s) : v.filter \in Filters
    BY <1>5 DEF Computed
  <2>2. {v.filter : v \in UsedOf(s)} \in SUBSET Filters
    BY <2>1
  <2>3. (whole /\ \A v \in UsedOf(s) : v.complete) \in BOOLEAN
    OBVIOUS
  <2> QED
    BY <2>2, <2>3, Results
<1> HIDE DEF a, r
<1>9. TaskMoved(t, r, a(whole), open_documents')
  BY <1>1, <1>3, <1>4, <1>6, <1>7, <1>8, Ends
<1>10. storage'[Document(t)] = r /\ answer'[t] = a(whole)
  BY <1>9, LeftAs
<1> QED
  BY <1>3, <1>4, <1>9, <1>10 DEF a, r

LEMMA CountStep ==
  ASSUME Bookkeeping, NEW t \in Tasks, Count(t), NEW s, s = storage[Document(t)]
  PROVE  /\ TaskMoved(t, s, Result({s.filter}, s.provider = "complete"), open_documents)
         /\ answer'[t] = Result({s.filter}, s.provider = "complete")
<1>1. TypeOK /\ TasksTracked
  BY DEF Bookkeeping
<1>2. /\ s \in Storage /\ Document(t) \in Documents
      /\ storage = [storage EXCEPT ![Document(t)] = s]
      /\ storage \in [Documents -> Storage]
  BY <1>1, UnchangedStorage DEF TypeOK
<1>3. {} \in SUBSET Filters /\ {s.filter} \in SUBSET Filters
  BY <1>2, StorageFields
<1>4. /\ step[t] = "counting" /\ Finish(t, Result({s.filter}, s.provider = "complete"))
      /\ UNCHANGED <<request, creating, next_document, open_documents, storage, canceled>>
  BY DEF Count
<1>5. /\ Result({s.filter}, s.provider = "complete") \in Answers
      /\ Result({s.filter}, s.provider = "complete").outcome # "pending"
  BY <1>3, Results
<1>6. TaskMoved(t, s, Result({s.filter}, s.provider = "complete"), open_documents')
  BY <1>1, <1>2, <1>4, <1>5, Ends
<1>7. answer'[t] = Result({s.filter}, s.provider = "complete")
  BY <1>6, LeftAs
<1> QED
  BY <1>4, <1>6, <1>7

LEMMA TaskMoves ==
  ASSUME Bookkeeping, NEW t \in Tasks, Task(t)
  PROVE  \E r, a, open : TaskMoved(t, r, a, open)
<1> DEFINE s == storage[Document(t)]
<1> HIDE DEF s
<1>1. CASE Find(t) \/ FindNothing(t) \/ ReadFails(t) \/ Close(t) \/ ApplyFilter(t) \/ Sort(t) \/ Count(t)
  BY <1>1, FindStep, FindNothingStep, ReadFailsStep, CloseStep, ApplyFilterStep,
     SortStep, CountStep DEF s
<1>2. CASE Read(t)
  BY <1>2, ReadStep DEF s
<1>3. CASE Analyze(t)
  BY <1>3, AnalyzeStep DEF s
<1>4. CASE Total(t)
  BY <1>4, TotalStep DEF s
<1> QED
  BY <1>1, <1>2, <1>3, <1>4 DEF Task

LEMMA TaskKeepsBookkeeping ==
  ASSUME Bookkeeping, NEW t \in Tasks, NEW r, NEW a, NEW open, TaskMoved(t, r, a, open)
  PROVE  Bookkeeping'
<1>1. TypeOK /\ TasksTracked /\ WaitingSound /\ OrderKept /\ DocumentsNumbered
  BY DEF Bookkeeping
<1>2. /\ step[t] \notin {"waiting", "finished"}
      /\ step' \in [Tasks -> Steps]
      /\ step'[t] \in StepsOf(Kind(t)) \cup {"finished"}
      /\ \A u \in Tasks : u # t => step'[u] = step[u]
      /\ admitted' = IF step'[t] = "finished" THEN admitted \ {t} ELSE admitted
      /\ a \in Answers /\ answer' = [answer EXCEPT ![t] = a]
      /\ a.outcome # "pending" <=> step'[t] = "finished"
      /\ r \in Storage /\ storage' = [storage EXCEPT ![Document(t)] = r]
      /\ open \subseteq open_documents /\ open_documents' = open
      /\ UNCHANGED <<request, job, requested, waiting, creating, next_document, canceled>>
  BY DEF TaskMoved
<1>3. step'[t] # "waiting" /\ (step'[t] # "finished" => step'[t] \in StepsOf(Kind(t)))
  BY <1>2, RequestTypes, <1>1 DEF StepsOf
<1>4. TypeOK'
  <2>1. answer' \in [Tasks -> Answers] /\ storage' \in [Documents -> Storage]
    BY <1>1, <1>2 DEF TypeOK
  <2> QED
    BY <1>1, <1>2, <2>1 DEF TypeOK
<1>5. TasksTracked'
  <2>1. answer'[t] = a /\ \A u \in Tasks : u # t => answer'[u] = answer[u]
    BY <1>1, <1>2 DEF TypeOK
  <2>2. t \in admitted /\ t <= requested
    BY <1>1, <1>2 DEF TasksTracked
  <2>3. t \in admitted' <=> step'[t] \notin {"waiting", "finished"}
    BY <1>2, <1>3, <2>2
  <2>4. ASSUME NEW u \in Tasks
        PROVE  /\ step'[u] \in {"waiting", "finding", "finished"} \cup StepsOf(Kind(u))
               /\ step'[u] # "waiting" => u <= requested
               /\ u \in admitted' <=> step'[u] \notin {"waiting", "finished"}
               /\ answer'[u].outcome # "pending" <=> step'[u] = "finished"
    <3>1. CASE u = t
      BY <1>2, <1>3, <2>1, <2>2, <2>3, <3>1
    <3>2. CASE u # t
      BY <1>1, <1>2, <2>1, <3>2 DEF TasksTracked, Answered
    <3> QED
      BY <3>1, <3>2
  <2>5. job' = [u \in Tasks |-> [document |-> Document(u)', access |-> access_type(Kind(u)')]]
    BY <1>1, <1>2 DEF TasksTracked, Document, Kind
  <2> QED
    BY <1>2, <2>4, <2>5 DEF TasksTracked, Answered, Kind
<1>6. WaitingSound'
  <2>1. ASSUME NEW d \in Documents, NEW i \in 1 .. Len(waiting[d])
        PROVE  /\ waiting[d][i] <= requested /\ step'[waiting[d][i]] = "waiting"
               /\ Document(waiting[d][i]) = d
               /\ \A j \in 1 .. i - 1 : waiting[d][j] < waiting[d][i]
    <3>1. waiting[d][i] \in Tasks
      BY <1>1 DEF TypeOK
    <3>2. /\ waiting[d][i] <= requested /\ step[waiting[d][i]] = "waiting"
          /\ Document(waiting[d][i]) = d
          /\ \A j \in 1 .. i - 1 : waiting[d][j] < waiting[d][i]
      BY <1>1 DEF WaitingSound
    <3>3. waiting[d][i] # t
      BY <1>2, <3>2
    <3> QED
      BY <1>2, <3>1, <3>2, <3>3
  <2>2. ASSUME NEW u \in Tasks, u <= requested, step'[u] = "waiting"
        PROVE  \E i \in 1 .. Len(waiting[Document(u)]) : waiting[Document(u)][i] = u
    <3>1. step[u] = "waiting"
      BY <1>2, <1>3, <2>2
    <3> QED
      BY <1>1, <2>2, <3>1 DEF WaitingSound
  <2>3. UNCHANGED <<requested, waiting>> /\ \A x : Document(x)' = Document(x)
    BY <1>2 DEF Document
  <2> QED
    BY <2>1, <2>2, <2>3 DEF WaitingSound
<1>7. OrderKept'
  <2>1. ASSUME NEW v \in Tasks, NEW u \in Tasks, u < v, Document(u) = Document(v),
               step'[v] # "waiting"
        PROVE  /\ step'[u] # "waiting"
               /\ IsWrite(u) \/ IsWrite(v) => step'[u] = "finished"
    <3>1. step[v] # "waiting"
      BY <1>2, <2>1
    <3>2. /\ step[u] # "waiting"
          /\ IsWrite(u) \/ IsWrite(v) => step[u] = "finished"
      BY <1>1, <2>1, <3>1 DEF OrderKept
    <3> QED
      BY <1>2, <1>3, <3>2
  <2>2. \A x : Document(x)' = Document(x) /\ IsWrite(x)' = IsWrite(x)
    BY <1>2 DEF Document, IsWrite, Kind
  <2> QED
    BY <2>1, <2>2 DEF OrderKept
<1>8. DocumentsNumbered'
  <2>1. ASSUME NEW v \in Tasks, v <= requested, Kind(v) # "readDocument"
        PROVE  \E u \in 1 .. v - 1 : /\ Kind(u) = "readDocument" /\ Document(u) = Document(v)
                                     /\ answer'[u].outcome = "result"
    <3>1. PICK u \in 1 .. v - 1 : /\ Kind(u) = "readDocument" /\ Document(u) = Document(v)
                                  /\ answer[u].outcome = "result"
      BY <1>1, <2>1 DEF DocumentsNumbered
    <3>2. u \in Tasks
      BY BoundsAssumption DEF Tasks
    <3>3. u # t
      BY <1>1, <1>2, <3>1, <3>2 DEF TasksTracked, Answered
    <3>4. answer'[u] = answer[u]
      BY <1>1, <1>2, <3>2, <3>3 DEF TypeOK
    <3> QED
      BY <3>1, <3>4
  <2>2. \A x : Document(x)' = Document(x) /\ Kind(x)' = Kind(x)
    BY <1>2 DEF Document, Kind
  <2> QED
    BY <1>1, <1>2, <2>1, <2>2 DEF DocumentsNumbered
<1> QED
  BY <1>4, <1>5, <1>6, <1>7, <1>8 DEF Bookkeeping

\* What ScheduleRead and Schedule leave behind: the new request is for document d.
LEMMA ArrivalKeepsBookkeeping ==
  ASSUME Bookkeeping, ScheduleRead \/ Schedule
  PROVE  Bookkeeping' /\ Document(requested') \in Documents
<1>1. TypeOK /\ TasksTracked /\ DocumentsNumbered
  BY DEF Bookkeeping
<1>2. Scheduler!Request /\ UNCHANGED <<request, step, answer, canceled>>
  BY DEF ScheduleRead, Schedule
<1>3. /\ requested' = requested + 1 /\ requested' \in Tasks /\ requested \in Nat
      /\ job' = job /\ admitted' = admitted
      /\ waiting' \in [Documents -> Seq(Tasks)] /\ requested' \in 0 .. MaxTasks
      /\ TasksTracked' /\ WaitingSound' /\ OrderKept'
  BY <1>2, Arrives
<1> DEFINE n == requested'
<1>4. Document(n) \in Documents
  BY <1>1, <1>3, RequestTypes
<1> HIDE DEF n
<1>5. \A x : Document(x)' = Document(x) /\ Kind(x)' = Kind(x)
  BY <1>2 DEF Document, Kind
<1>6. CASE ScheduleRead
  <2>1. /\ creating /\ creating' = FALSE /\ next_document' = next_document + 1
        /\ open_documents' = open_documents \cup {next_document}
        /\ storage' = [storage EXCEPT ![next_document] = NewDocument]
    BY <1>6 DEF ScheduleRead
  <2>2. Kind(n) = "readDocument" /\ Document(n) = next_document
    BY <1>1, <1>3, <2>1 DEF DocumentsNumbered, n
  <2>3. NewDocument \in Storage
    BY FiltersAssumption DEF NewDocument, Storage, Optional
  <2>4. storage' \in [Documents -> Storage]
    BY <1>1, <2>1, <2>3 DEF TypeOK
  <2>5. /\ next_document \in 1 .. MaxDocuments
        /\ next_document' \in 1 .. MaxDocuments + 1
        /\ open_documents' \subseteq 1 .. next_document' - 1
    BY <1>1, <1>4, <2>1, <2>2, BoundsAssumption DEF TypeOK, Documents
  <2>6. TypeOK'
    BY <1>1, <1>2, <1>3, <2>1, <2>4, <2>5 DEF TypeOK
  <2>7. ASSUME NEW t \in Tasks, t <= requested'
        PROVE  Document(t) < next_document'
    <3>1. CASE t = n
      BY <2>1, <2>2, <2>5, <3>1
    <3>2. CASE t # n
      <4>1. t <= requested
        BY <1>3, <2>7, <3>2, TasksAreNumbers DEF n
      <4>2. Document(t) < next_document /\ Document(t) \in Nat
        BY <1>1, <4>1, RequestTypes, TasksAreNumbers DEF DocumentsNumbered
      <4> QED
        BY <2>1, <2>5, <4>2
    <3> QED
      BY <3>1, <3>2
  <2>8. ASSUME NEW t \in Tasks, t <= requested', Kind(t) # "readDocument"
        PROVE  \E u \in 1 .. t - 1 : /\ Kind(u) = "readDocument" /\ Document(u) = Document(t)
                                     /\ answer[u].outcome = "result"
    <3>1. t <= requested
      BY <1>3, <2>2, <2>8, TasksAreNumbers DEF n
    <3> QED
      BY <1>1, <2>8, <3>1 DEF DocumentsNumbered
  <2>9. DocumentsNumbered'
    BY <1>2, <1>5, <2>1, <2>7, <2>8 DEF DocumentsNumbered
  <2> QED
    BY <1>3, <1>4, <2>6, <2>9 DEF Bookkeeping, n
<1>7. CASE Schedule
  <2>1. /\ ~creating /\ Kind(n) # "readDocument" /\ Sensible(n)
        /\ UNCHANGED <<creating, next_document, open_documents, storage>>
    BY <1>3, <1>7 DEF Schedule, Kind, n
  <2>2. PICK u \in 1 .. n - 1 : /\ Kind(u) = "readDocument" /\ Document(u) = Document(n)
                                /\ answer[u].outcome = "result"
    BY <2>1 DEF Sensible, Known, Kind
  <2>3. u \in Tasks /\ u <= requested
    BY <1>3, BoundsAssumption DEF Tasks, n
  <2>4. Document(n) < next_document
    BY <1>1, <2>2, <2>3 DEF DocumentsNumbered
  <2>5. TypeOK'
    BY <1>1, <1>2, <1>3, <2>1 DEF TypeOK
  <2>6. ASSUME NEW t \in Tasks, t <= requested'
        PROVE  /\ Document(t) < next_document
               /\ Kind(t) # "readDocument" =>
                    \E v \in 1 .. t - 1 : /\ Kind(v) = "readDocument" /\ Document(v) = Document(t)
                                          /\ answer[v].outcome = "result"
    <3>1. CASE t = n
      BY <2>2, <2>4, <3>1
    <3>2. CASE t # n
      <4>1. t <= requested
        BY <1>3, <2>6, <3>2, TasksAreNumbers DEF n
      <4> QED
        BY <1>1, <4>1 DEF DocumentsNumbered
    <3> QED
      BY <3>1, <3>2
  <2>7. DocumentsNumbered'
    BY <1>2, <1>5, <2>1, <2>6 DEF DocumentsNumbered
  <2> QED
    BY <1>3, <1>4, <2>5, <2>7 DEF Bookkeeping, n
<1> QED
  BY <1>6, <1>7

LEMMA BookkeepingKept ==
  ASSUME Bookkeeping, [Next]_vars
  PROVE  Bookkeeping'
<1>1. TypeOK /\ TasksTracked /\ WaitingSound /\ OrderKept /\ DocumentsNumbered
  BY DEF Bookkeeping
<1>2. CASE \E t \in Tasks : Task(t)
  BY <1>2, TaskMoves, TaskKeepsBookkeeping
<1>3. CASE ScheduleRead \/ Schedule
  BY <1>3, ArrivalKeepsBookkeeping
<1>4. CASE \E d \in Documents : Start(d)
  <2>1. PICK d \in Documents : Start(d)
    BY <1>4
  <2>2. /\ UNCHANGED <<request, job, requested, answer, creating, next_document>>
        /\ TypeOK' /\ TasksTracked' /\ WaitingSound' /\ OrderKept'
    BY <2>1, Admits
  <2>3. DocumentsNumbered'
    BY <1>1, <2>2 DEF DocumentsNumbered, Document, Kind
  <2> QED
    BY <2>2, <2>3 DEF Bookkeeping
<1>5. CASE CreateDocument \/ (\E t \in Tasks : Cancel(t)) \/ UNCHANGED vars
  <2>1. UNCHANGED <<request, taskVars, step, next_document, open_documents, storage, answer>>
    BY <1>5 DEF CreateDocument, Cancel, vars
  <2>2. UNCHANGED <<job, requested, waiting, admitted>>
    BY <2>1 DEF taskVars
  <2>3. TasksTracked' /\ WaitingSound' /\ OrderKept'
    <3>1. \A x : Document(x)' = Document(x) /\ Kind(x)' = Kind(x) /\ IsWrite(x)' = IsWrite(x)
      BY <2>1 DEF Document, Kind, IsWrite
    <3>2. TasksTracked'
      BY <1>1, <2>1, <2>2 DEF TasksTracked, Answered, Document, Kind
    <3>3. WaitingSound'
      BY <1>1, <2>1, <2>2, <3>1 DEF WaitingSound
    <3>4. OrderKept'
      BY <1>1, <2>1, <3>1 DEF OrderKept
    <3> QED
      BY <3>2, <3>3, <3>4
  <2>4. /\ creating' \in BOOLEAN /\ canceled' \subseteq Tasks
        /\ creating' => /\ requested < MaxTasks
                        /\ Kind(requested + 1) = "readDocument"
                        /\ Document(requested + 1) = next_document
    <3>1. CASE CreateDocument
      BY <1>1, <3>1 DEF CreateDocument, Sensible, Kind, TypeOK
    <3>2. CASE \E t \in Tasks : Cancel(t)
      BY <1>1, <3>2 DEF Cancel, TypeOK
    <3>3. CASE UNCHANGED vars
      BY <1>1, <3>3 DEF vars, TypeOK, DocumentsNumbered
    <3> QED
      BY <1>5, <3>1, <3>2, <3>3
  <2>5. TypeOK'
    BY <1>1, <2>1, <2>2, <2>4 DEF TypeOK
  <2>6. DocumentsNumbered'
    BY <1>1, <2>1, <2>2, <2>4 DEF DocumentsNumbered, Document, Kind
  <2> QED
    BY <2>3, <2>5, <2>6 DEF Bookkeeping
<1> QED
  BY <1>2, <1>3, <1>4, <1>5 DEF Next

LEMMA BookkeepingInit == Init => Bookkeeping
<1> SUFFICES ASSUME Init PROVE Bookkeeping
  OBVIOUS
<1>1. \A t \in Tasks : /\ request[t].document \in Documents
                       /\ access_type(request[t].kind) \in {"read_only", "write"}
  BY DEF Init, Requests, access_type
<1>2. job \in [Tasks -> [document : Documents, access : {"read_only", "write"}]]
  BY <1>1 DEF Init
<1>3. NewDocument \in Storage
  BY FiltersAssumption DEF NewDocument, Storage, Optional
<1>4. Pending \in Answers /\ Pending.outcome = "pending"
  BY DEF Pending, Answers
<1>5. TypeOK
  <2>1. <<>> \in Seq(Tasks) /\ 0 \in 0 .. MaxTasks /\ 1 \in 1 .. MaxDocuments + 1
    BY BoundsAssumption
  <2>2. \A t \in Tasks : "waiting" \in Steps
    BY DEF Steps
  <2> QED
    BY <1>2, <1>3, <1>4, <2>1, <2>2 DEF Init, TypeOK
<1>6. \A t \in Tasks : t >= 1
  BY DEF Tasks
<1>7. TasksTracked
  BY <1>4 DEF Init, TasksTracked, Answered, Document, Kind
<1>8. WaitingSound
  BY <1>6, TasksAreNumbers DEF Init, WaitingSound
<1>9. OrderKept
  BY DEF Init, OrderKept
<1>10. DocumentsNumbered
  BY <1>6, TasksAreNumbers DEF Init, DocumentsNumbered
<1> QED
  BY <1>5, <1>7, <1>8, <1>9, <1>10 DEF Bookkeeping

(***************************************************************************)
(* The documents, their filters and what is missing in their caches.       *)
(***************************************************************************)

\* What is done stays done.
LEMMA NothingUndone ==
  ASSUME Bookkeeping, [Next]_vars
  PROVE  /\ request' = request /\ canceled \subseteq canceled'
         /\ \A x : Document(x)' = Document(x) /\ Kind(x)' = Kind(x)
         /\ \A u \in Tasks :
              /\ step[u] = "finished" => step'[u] = "finished" /\ answer'[u] = answer[u]
              /\ step[u] # "waiting" => step'[u] # "waiting"
<1>1. TypeOK /\ TasksTracked
  BY DEF Bookkeeping
<1>2. /\ request' = request /\ canceled \subseteq canceled'
      /\ \A u \in Tasks :
           /\ step[u] = "finished" => step'[u] = "finished" /\ answer'[u] = answer[u]
           /\ step[u] # "waiting" => step'[u] # "waiting"
  <2>1. CASE \E t \in Tasks : Task(t)
    <3>1. PICK t, r, a, open : t \in Tasks /\ TaskMoved(t, r, a, open)
      BY <2>1, TaskMoves
    <3>2. /\ step[t] \notin {"waiting", "finished"} /\ step'[t] # "waiting"
          /\ \A u \in Tasks : u # t => step'[u] = step[u]
          /\ answer' = [answer EXCEPT ![t] = a]
          /\ UNCHANGED <<request, canceled>>
      BY <1>1, <3>1, RequestTypes DEF TaskMoved, StepsOf
    <3> QED
      BY <1>1, <3>2 DEF TypeOK
  <2>2. CASE \E d \in Documents : Start(d)
    <3>1. PICK t \in Tasks : /\ step[t] = "waiting" /\ step' = [step EXCEPT ![t] = "finding"]
                             /\ UNCHANGED <<request, canceled, answer>>
      BY <2>2, Admits
    <3> QED
      BY <1>1, <3>1 DEF TypeOK
  <2>3. CASE ScheduleRead \/ Schedule \/ CreateDocument \/ (\E t \in Tasks : Cancel(t))
               \/ UNCHANGED vars
    <3>1. UNCHANGED <<request, step, answer>> /\ canceled \subseteq canceled'
      BY <2>3 DEF ScheduleRead, Schedule, CreateDocument, Cancel, vars
    <3> QED
      BY <3>1
  <2> QED
    BY <2>1, <2>2, <2>3 DEF Next
<1>3. \A x : Document(x)' = Document(x) /\ Kind(x)' = Kind(x)
  BY <1>2 DEF Document, Kind
<1> QED
  BY <1>2, <1>3

\* Tasks that use a document at the same time only read it, and a task has its turn
\* after all the writes before it, and before those after it.
LEMMA Turns ==
  ASSUME Bookkeeping, NEW t \in Tasks, NEW u \in Tasks, Document(u) = Document(t),
         step[t] \notin {"waiting", "finished"}, u # t, IsWrite(u) \/ IsWrite(t)
  PROVE  /\ u < t => step[u] = "finished"
         /\ t < u => step[u] = "waiting"
BY TasksAreNumbers DEF Bookkeeping, OrderKept

\* A handler that needs the samples of its document has a provider.
LEMMA ProviderThere ==
  ASSUME Bookkeeping, DocumentsFound, NEW t \in Tasks,
         step[t] \notin {"waiting", "finding", "finished"}
  PROVE  /\ Document(t) \in open_documents /\ t \in 1 .. requested + 1
         /\ Kind(t) # "readDocument" => storage[Document(t)].provider \in {"partial", "complete"}
<1>1. TypeOK /\ TasksTracked /\ DocumentsNumbered
  BY DEF Bookkeeping
<1>2. Document(t) \in open_documents /\ t <= requested
  BY <1>1 DEF DocumentsFound, TasksTracked
<1>3. t \in 1 .. requested + 1
  BY <1>1, <1>2, BoundsAssumption DEF TypeOK, Tasks
<1>4. ASSUME Kind(t) # "readDocument" PROVE storage[Document(t)].provider \in {"partial", "complete"}
  <2>1. PICK u \in 1 .. t - 1 : /\ Kind(u) = "readDocument" /\ Document(u) = Document(t)
                                /\ answer[u].outcome = "result"
    BY <1>1, <1>2, <1>4 DEF DocumentsNumbered
  <2>2. u \in Tasks
    BY BoundsAssumption DEF Tasks
  <2>3. storage[Document(t)].provider # "none"
    BY <1>2, <2>1, <2>2 DEF DocumentsFound
  <2> QED
    BY <1>1, <2>3, UnchangedStorage, StorageFields
<1> QED
  BY <1>2, <1>3, <1>4

LEMMA FoundKept ==
  ASSUME Bookkeeping, DocumentsFound, [Next]_vars
  PROVE  DocumentsFound'
<1>1. TypeOK /\ TasksTracked /\ DocumentsNumbered
  BY DEF Bookkeeping
<1>2. /\ request' = request
      /\ \A x : Document(x)' = Document(x) /\ Kind(x)' = Kind(x)
      /\ \A u \in Tasks : step[u] = "finished" => step'[u] = "finished" /\ answer'[u] = answer[u]
  BY NothingUndone
<1>3. Bookkeeping'
  BY BookkeepingKept
<1>4. ASSUME NEW d \in Documents, d < next_document', d \notin open_documents'
      PROVE  \E u \in Tasks : Kind(u) = "closeDocument" /\ Document(u) = d /\ step'[u] = "finished"
  <2>1. CASE d < next_document /\ d \notin open_documents
    BY <1>2, <2>1 DEF DocumentsFound
  <2>2. CASE d \in open_documents
    <3>1. PICK t \in Tasks : Close(t)
      <4>1. ASSUME NEW t \in Tasks, Task(t), ~Close(t)
            PROVE  open_documents' = open_documents
        BY <4>1 DEF Task, Find, FindNothing, Read, ReadFails, ApplyFilter, Analyze, Sort, Total, Count
      <4>2. ASSUME ~\E t \in Tasks : Task(t) PROVE open_documents \subseteq open_documents'
        BY <4>2 DEF Next, CreateDocument, ScheduleRead, Schedule, Cancel, Start, vars
      <4> QED
        BY <1>4, <2>2, <4>1, <4>2
    <3>2. Kind(t) = "closeDocument" /\ step'[t] = "finished" /\ d = Document(t)
      BY <1>1, <1>4, <2>2, <3>1, KindsOfSteps DEF Close, Finish, TypeOK
    <3> QED
      BY <3>2
  <2>3. CASE d >= next_document
    <3>1. ScheduleRead
      <4>1. ASSUME NEW t \in Tasks, Task(t) PROVE next_document' = next_document
        BY <4>1, TaskMoves DEF TaskMoved
      <4>2. ScheduleRead \/ next_document' = next_document
        BY <4>1 DEF Next, CreateDocument, Schedule, Cancel, Start, vars
      <4> QED
        BY <1>1, <1>4, <2>3, <4>2, TasksAreNumbers DEF TypeOK
    <3> QED
      BY <1>1, <1>4, <2>3, <3>1, TasksAreNumbers DEF ScheduleRead, TypeOK
  <2> QED
    BY <1>1, <2>1, <2>2, <2>3, TasksAreNumbers DEF TypeOK
<1>5. ASSUME NEW u \in Tasks, step'[u] \notin {"waiting", "finding", "finished"}
      PROVE  Document(u) \in open_documents'
  <2>1. CASE \E t \in Tasks : Task(t)
    <3>1. PICK t \in Tasks : Task(t)
      BY <2>1
    <3>2. PICK r, a, open : TaskMoved(t, r, a, open)
      BY <3>1, TaskMoves
    <3>3. CASE u = t
      <4>1. ~Close(t)
        BY <1>1, <1>5, <3>3 DEF Close, Finish, TypeOK
      <4>2. open_documents' = open_documents
        BY <3>1, <4>1 DEF Task, Find, FindNothing, Read, ReadFails, ApplyFilter, Analyze, Sort, Total, Count
      <4>3. CASE Find(t)
        BY <3>3, <4>2, <4>3 DEF Find
      <4>4. CASE ~Find(t)
        <5>1. step[t] \notin {"waiting", "finding", "finished"}
          BY <1>1, <1>5, <3>1, <3>3, <4>4
             DEF Task, FindNothing, Read, ReadFails, Close, ApplyFilter, Analyze, Sort, Total, Count, Finish, TypeOK
        <5> QED
          BY <3>3, <4>2, <5>1 DEF DocumentsFound
      <4> QED
        BY <4>3, <4>4
    <3>4. CASE u # t
      <4>1. step'[u] = step[u] /\ Document(u) \in open_documents
        BY <1>5, <3>2, <3>4 DEF TaskMoved, DocumentsFound
      <4>2. CASE Close(t)
        <5>1. IsWrite(t)
          BY <1>1, <4>2, KindsOfSteps, Writes DEF Close
        <5>2. step[t] \notin {"waiting", "finished"}
          BY <4>2 DEF Close
        <5>3. Document(u) # Document(t)
          BY <1>5, <3>4, <4>1, <5>1, <5>2, Turns, TasksAreNumbers
        <5> QED
          BY <4>1, <4>2, <5>3 DEF Close
      <4>3. CASE ~Close(t)
        BY <3>1, <4>1, <4>3 DEF Task, Find, FindNothing, Read, ReadFails, ApplyFilter, Analyze, Sort, Total, Count
      <4> QED
        BY <4>2, <4>3
    <3> QED
      BY <3>3, <3>4
  <2>2. CASE \E d \in Documents : Start(d)
    <3>1. PICK t \in Tasks : /\ step' = [step EXCEPT ![t] = "finding"]
                             /\ UNCHANGED open_documents
      BY <2>2, Admits
    <3>2. step'[u] = step[u]
      BY <1>1, <1>5, <3>1 DEF TypeOK
    <3> QED
      BY <1>5, <3>1, <3>2 DEF DocumentsFound
  <2>3. CASE ScheduleRead \/ Schedule \/ CreateDocument \/ (\E t \in Tasks : Cancel(t))
               \/ UNCHANGED vars
    <3>1. UNCHANGED step /\ open_documents \subseteq open_documents'
      BY <2>3 DEF ScheduleRead, Schedule, CreateDocument, Cancel, vars
    <3> QED
      BY <1>5, <3>1 DEF DocumentsFound
  <2> QED
    BY <2>1, <2>2, <2>3 DEF Next
<1>6. ASSUME NEW u \in Tasks, Kind(u) = "readDocument", answer'[u].outcome = "result",
             Document(u) \in open_documents'
      PROVE  storage'[Document(u)].provider # "none"
  <2>1. CASE \E t \in Tasks : Task(t)
    <3>1. PICK t \in Tasks : Task(t)
      BY <2>1
    <3> DEFINE s == storage[Document(t)]
    <3>2. s \in Storage /\ Document(t) \in Documents /\ Document(u) \in Documents
      BY <1>1, UnchangedStorage, RequestTypes
    <3>3. CASE Read(t)
      BY <1>1, <1>6, <3>2, <3>3 DEF Read, Finish, TypeOK, DocumentsFound, Storage
    <3>4. CASE ~Read(t)
      <4>1. storage'[Document(u)].provider = storage[Document(u)].provider
        <5>1. CASE Find(t) \/ FindNothing(t) \/ ReadFails(t) \/ Close(t) \/ Count(t)
          BY <5>1 DEF Find, FindNothing, ReadFails, Close, Count
        <5>2. CASE ApplyFilter(t)
          BY <1>1, <3>2, <5>2 DEF ApplyFilter, filtered, TypeOK, Storage
        <5>3. CASE Analyze(t) \/ Sort(t) \/ Total(t)
          <6>1. storage'[Document(t)].provider = s.provider
            <7> HIDE DEF s
            <7>1. s = storage[Document(t)]
              BY DEF s
            <7>2. CASE Analyze(t)
              <8>1. CASE storage'[Document(t)] = s
                BY <8>1
              <8>2. CASE storage'[Document(t)] # s
                <9>1. PICK whole \in BOOLEAN :
                        storage'[Document(t)] = AnalyzedAs(s, AnalysisOf(s, whole))
                  BY <7>1, <7>2, <8>2, AnalyzeStep
                <9> QED
                  BY <3>2, <9>1, Updates
              <8> QED
                BY <8>1, <8>2
            <7>3. CASE Sort(t)
              <8>1. storage'[Document(t)] = [s EXCEPT !.sorted_functions = SortedOf(s)]
                BY <7>1, <7>3, SortStep
              <8> QED
                BY <3>2, <8>1, Updates
            <7>4. CASE Total(t)
              <8>1. storage'[Document(t)] = [s EXCEPT !.total_samples_counts = CountsOf(s)]
                BY <7>1, <7>4, TotalStep
              <8> QED
                BY <3>2, <8>1, Updates
            <7> QED
              BY <5>3, <7>2, <7>3, <7>4
          <6>2. Document(u) # Document(t) => storage'[Document(u)] = storage[Document(u)]
            BY <3>1, <3>2, TaskMoves, LeftAs
          <6> QED
            BY <6>1, <6>2
        <5> QED
          BY <3>1, <3>4, <5>1, <5>2, <5>3 DEF Task
      <4>2. Document(u) \in open_documents /\ (u = t => ~FindNothing(t))
        BY <1>6, <3>1, TaskMoves DEF TaskMoved, FindNothing
      <4>3. answer[u].outcome = "result"
        <5>1. CASE u # t
          <6>1. answer'[u] = answer[u]
            BY <3>1, <5>1, TaskMoves, LeftAs
          <6> QED
            BY <1>6, <6>1
        <5>2. CASE u = t
          <6>1. step[t] \notin {"erasing", "applying", "analyzing", "sorting", "totalling", "counting"}
            BY <1>1, <1>6, <5>2, KindsOfSteps
          <6>2. CASE Find(t)
            BY <1>6, <5>2, <6>2 DEF Find
          <6>3. CASE ReadFails(t)
            <7>1. answer'[t] = Error
              BY <1>1, <6>3 DEF ReadFails, Finish, TypeOK
            <7> QED
              BY <1>6, <5>2, <7>1 DEF Error
          <6>4. Find(t) \/ ReadFails(t)
            BY <3>1, <3>4, <4>2, <5>2, <6>1
               DEF Task, Close, ApplyFilter, Analyze, Sort, Total, Count
          <6> QED
            BY <6>2, <6>3, <6>4
        <5> QED
          BY <5>1, <5>2
      <4> QED
        BY <1>6, <4>1, <4>2, <4>3 DEF DocumentsFound
    <3> QED
      BY <3>3, <3>4
  <2>2. CASE ScheduleRead
    <3>1. /\ answer[u].outcome = "result" /\ Document(u) \in Documents
          /\ open_documents' = open_documents \cup {next_document}
          /\ storage' = [storage EXCEPT ![next_document] = NewDocument]
      BY <1>1, <1>6, <2>2, RequestTypes DEF ScheduleRead
    <3>2. u <= requested
      BY <1>1, <3>1 DEF TasksTracked, Answered
    <3>3. Document(u) # next_document
      BY <1>1, <3>1, <3>2, TasksAreNumbers DEF DocumentsNumbered
    <3>4. Document(u) \in open_documents /\ storage'[Document(u)] = storage[Document(u)]
      BY <1>1, <1>6, <3>1, <3>3 DEF TypeOK
    <3> QED
      BY <1>6, <3>1, <3>4 DEF DocumentsFound
  <2>3. CASE Schedule \/ CreateDocument \/ (\E t \in Tasks : Cancel(t))
               \/ (\E d \in Documents : Start(d)) \/ UNCHANGED vars
    <3>1. UNCHANGED <<answer, open_documents, storage>>
      BY <2>3 DEF Schedule, CreateDocument, Cancel, Start, vars
    <3> QED
      BY <1>6, <3>1 DEF DocumentsFound
  <2> QED
    BY <2>1, <2>2, <2>3 DEF Next
<1> QED
  BY <1>2, <1>4, <1>5, <1>6 DEF DocumentsFound

LEMMA ErrorsKept ==
  ASSUME Bookkeeping, DocumentsFound, ErrorsOnlyAfterClose, [Next]_vars
  PROVE  ErrorsOnlyAfterClose'
<1>1. TypeOK /\ TasksTracked /\ DocumentsNumbered
  BY DEF Bookkeeping
<1>2. \A x : Document(x)' = Document(x) /\ Kind(x)' = Kind(x)
  BY NothingUndone
<1>3. ASSUME NEW u \in Tasks, answer'[u].outcome = "error", Kind(u) # "readDocument"
      PROVE  \E w \in 1 .. u - 1 : Kind(w) = "closeDocument" /\ Document(w) = Document(u)
  <2>1. CASE answer'[u] = answer[u]
    BY <1>3, <2>1 DEF ErrorsOnlyAfterClose
  <2>2. CASE answer'[u] # answer[u]
    <3>1. Task(u)
      <4>1. PICK t \in Tasks : Task(t)
        BY <2>2 DEF Next, CreateDocument, ScheduleRead, Schedule, Cancel, Start, vars
      <4>2. u = t
        BY <1>1, <2>2, <4>1, TaskMoves DEF TaskMoved, TypeOK
      <4> QED
        BY <4>1, <4>2
    <3>2. FindNothing(u)
      <4>1. ASSUME NEW f, NEW c PROVE ~Finish(u, Result(f, c))
        BY <1>1, <1>3 DEF Finish, Result, TypeOK
      <4>2. ~Find(u) /\ ~Analyze(u) /\ ~Sort(u)
        BY <2>2 DEF Find, Analyze, Sort
      <4>3. ~ReadFails(u)
        BY <1>1, <1>3, KindsOfSteps DEF ReadFails
      <4>4. ~Read(u) /\ ~Close(u) /\ ~ApplyFilter(u) /\ ~Total(u) /\ ~Count(u)
        BY <4>1 DEF Read, Close, ApplyFilter, Total, Count
      <4> QED
        BY <3>1, <4>2, <4>3, <4>4 DEF Task
    <3>3. step[u] = "finding" /\ Document(u) \notin open_documents /\ Kind(u) # "closeDocument"
      BY <1>1, <1>3, <3>2, Results DEF FindNothing, Finish, Kind, TypeOK
    <3>4. Document(u) \in Documents /\ Document(u) < next_document
      BY <1>1, <3>3, RequestTypes DEF DocumentsNumbered, TasksTracked
    <3>5. PICK w \in Tasks : Kind(w) = "closeDocument" /\ Document(w) = Document(u) /\ step[w] = "finished"
      BY <3>3, <3>4 DEF DocumentsFound
    <3>6. w < u
      BY <3>3, <3>5, Turns, Writes, TasksAreNumbers
    <3> QED
      BY <3>5, <3>6 DEF Tasks
  <2> QED
    BY <2>1, <2>2
<1> QED
  BY <1>2, <1>3 DEF ErrorsOnlyAfterClose

\* The filter the client has set is that of its last request for one, ...
LEMMA LastFilter ==
  ASSUME NEW d, NEW t \in Nat, NEW u \in 1 .. t - 1, IsSet(u, d),
         \A v \in 1 .. t - 1 : IsSet(v, d) => v <= u
  PROVE  FilterAt(d, t) = request[u].filter
<1> DEFINE sets == {v \in 1 .. t - 1 : request[v].kind = "setSampleFilters" /\ Document(v) = d}
<1>1. u \in sets /\ \A v \in sets : v <= u
  BY DEF IsSet, Kind
<1>2. \A w \in sets : (\A v \in sets : v <= w) => w = u
  BY <1>1
<1>3. (CHOOSE w \in sets : \A v \in sets : v <= w) = u
  <2> HIDE DEF sets
  <2> QED
    BY <1>1, <1>2
<1> QED
  BY <1>1, <1>3 DEF FilterAt

\* ... none if there was no such request, ...
LEMMA FirstFilter ==
  ASSUME NEW d, NEW t, \A v \in 1 .. t - 1 : ~IsSet(v, d)
  PROVE  FilterAt(d, t) = NoFilter
BY DEF FilterAt, IsSet, Kind

\* ... and the same after a request for something else.
LEMMA SameFilter ==
  ASSUME NEW d, NEW t \in Nat \ {0}, ~IsSet(t, d)
  PROVE  FilterAt(d, t + 1) = FilterAt(d, t)
<1> DEFINE Sets(u) == {v \in 1 .. u - 1 : request[v].kind = "setSampleFilters" /\ Document(v) = d}
           Last(S) == IF S = {} THEN NoFilter
                      ELSE request[CHOOSE u \in S : \A v \in S : v <= u].filter
<1>1. Sets(t + 1) = Sets(t)
  BY DEF IsSet, Kind
<1>2. FilterAt(d, t + 1) = Last(Sets(t + 1)) /\ FilterAt(d, t) = Last(Sets(t))
  BY DEF FilterAt
<1> HIDE DEF Sets, Last
<1> QED
  BY <1>1, <1>2

LEMMA FilterIsRigid ==
  ASSUME request' = request
  PROVE  \A x, y : (IsSet(x, y)' <=> IsSet(x, y)) /\ FilterAt(x, y)' = FilterAt(x, y)
BY DEF IsSet, Kind, Document, FilterAt

\* Only ApplyFilter touches the filter of a document that is open ...
LEMMA OnlyApplyFilters ==
  ASSUME Bookkeeping, [Next]_vars, NEW d \in open_documents, d \in open_documents',
         \A t \in Tasks : ApplyFilter(t) => Document(t) # d
  PROVE  /\ storage'[d].filter = storage[d].filter
         /\ \A u \in Tasks : IsSet(u, d) => (step'[u] = "finished" <=> step[u] = "finished")
<1>1. TypeOK /\ TasksTracked
  BY DEF Bookkeeping
<1>2. d \in Documents /\ d # next_document
  BY <1>1, BoundsAssumption DEF TypeOK, Documents
<1>3. CASE \E t \in Tasks : Task(t)
  <2>1. PICK t \in Tasks : Task(t)
    BY <1>3
  <2>2. PICK r, a, open : TaskMoved(t, r, a, open)
    BY <2>1, TaskMoves
  <2>3. ASSUME NEW u \in Tasks, IsSet(u, d)
        PROVE  step'[u] = "finished" <=> step[u] = "finished"
    <3>1. CASE u # t
      BY <2>2, <3>1 DEF TaskMoved
    <3>2. CASE u = t
      <4>1. Kind(t) = "setSampleFilters" /\ Document(t) = d
        BY <2>3, <3>2 DEF IsSet
      <4>2. Find(t)
        BY <1>1, <2>1, <4>1, KindsOfSteps
           DEF Task, FindNothing, Read, ReadFails, Close, Analyze, Sort, Total, Count
      <4>3. step[t] = "finding" /\ step'[t] = FirstStep(Kind(t))
        BY <1>1, <4>2 DEF Find, TypeOK, Kind
      <4> QED
        BY <3>2, <4>1, <4>3 DEF FirstStep
    <3> QED
      BY <3>1, <3>2
  <2>4. storage'[d].filter = storage[d].filter
    <3>1. CASE d # Document(t)
      BY <1>1, <1>2, <2>2, <3>1 DEF TaskMoved, TypeOK
    <3>2. CASE d = Document(t)
      <4>1. CASE Find(t) \/ FindNothing(t) \/ ReadFails(t) \/ Close(t) \/ Count(t)
        BY <4>1 DEF Find, FindNothing, ReadFails, Close, Count
      <4>2. CASE Read(t)
        BY <1>1, <1>2, <3>2, <4>2 DEF Read, TypeOK, Storage
      <4>3. CASE Sort(t)
        BY <1>1, <1>2, <3>2, <4>3 DEF Sort, TypeOK, Storage
      <4>4. CASE Total(t)
        BY <1>1, <1>2, <3>2, <4>4 DEF Total, TypeOK, Storage
      <4>5. CASE Analyze(t)
        <5>1. storage[d] \in Storage
          BY <1>1, <1>2 DEF TypeOK
        <5>2. \A x, y : [storage[d] EXCEPT !.stacks_analysis = x, !.sorted_functions = y].filter
                         = storage[d].filter
          BY <5>1 DEF Storage
        <5>3. PICK x : \/ storage' = storage
                       \/ storage' = [storage EXCEPT ![Document(t)].stacks_analysis = x,
                                                     ![Document(t)].sorted_functions = None]
          BY <4>5 DEF Analyze
        <5>4. \/ storage' = storage
              \/ storage'[d] = [storage[d] EXCEPT !.stacks_analysis = x, !.sorted_functions = None]
          BY <1>1, <1>2, <3>2, <5>3 DEF TypeOK
        <5> QED
          BY <5>2, <5>4
      <4> QED
        BY <2>1, <3>2, <4>1, <4>2, <4>3, <4>4, <4>5 DEF Task
    <3> QED
      BY <3>1, <3>2
  <2> QED
    BY <2>3, <2>4
<1>4. CASE \E e \in Documents : Start(e)
  <2>1. PICK t \in Tasks : /\ step[t] = "waiting" /\ step' = [step EXCEPT ![t] = "finding"]
                           /\ UNCHANGED storage
    BY <1>4, Admits
  <2> QED
    BY <1>1, <2>1 DEF TypeOK
<1>5. CASE ScheduleRead
  <2>1. storage' = [storage EXCEPT ![next_document] = NewDocument] /\ step' = step
    BY <1>5 DEF ScheduleRead
  <2> QED
    BY <1>1, <1>2, <2>1 DEF TypeOK
<1>6. CASE Schedule \/ CreateDocument \/ (\E t \in Tasks : Cancel(t)) \/ UNCHANGED vars
  <2>1. UNCHANGED <<step, storage>>
    BY <1>6 DEF Schedule, CreateDocument, Cancel, vars
  <2> QED
    BY <2>1
<1> QED
  BY <1>3, <1>4, <1>5, <1>6 DEF Next

\* ... and what it applies is the last filter that was set, as all earlier ones have
\* been applied before and no later one has.
LEMMA AppliedIsLast ==
  ASSUME Bookkeeping, NEW t \in Tasks, ApplyFilter(t),
         NEW n \in 1 .. requested + 1, t < n,
         \A u \in Tasks : IsSet(u, Document(t)) /\ u < n => step'[u] = "finished"
  PROVE  storage'[Document(t)].filter = FilterAt(Document(t), n)
<1> DEFINE d == Document(t)
<1>1. TypeOK /\ TasksTracked
  BY DEF Bookkeeping
<1>2. /\ step[t] = "applying" /\ Finish(t, Result({}, TRUE))
      /\ storage' = [storage EXCEPT ![d] = filtered(@, request[t].filter)]
  BY DEF ApplyFilter
<1>3. IsSet(t, d) /\ IsWrite(t) /\ d \in Documents /\ storage[d] \in Storage
  BY <1>1, <1>2, KindsOfSteps, RequestTypes, Writes, UnchangedStorage DEF IsSet
<1>4. storage'[d].filter = request[t].filter
  <2>1. filtered(storage[d], request[t].filter).filter = request[t].filter
    BY <1>3 DEF filtered, Storage
  <2> QED
    BY <1>1, <1>2, <1>3, <2>1 DEF TypeOK
<1>5. n \in Nat /\ t \in 1 .. n - 1 /\ \A v \in 1 .. n - 1 : v \in Tasks
  BY <1>1, BoundsAssumption DEF TypeOK, Tasks
<1>6. ASSUME NEW v \in 1 .. n - 1, IsSet(v, d) PROVE v <= t
  <2> SUFFICES ASSUME t < v PROVE FALSE
    BY <1>5, TasksAreNumbers
  <2>1. step'[v] = "finished" /\ step'[v] = step[v]
    BY <1>1, <1>2, <1>5, <1>6, TasksAreNumbers DEF Finish, TypeOK
  <2>2. step[v] = "waiting"
    BY <1>2, <1>3, <1>5, <1>6, Turns, TasksAreNumbers DEF IsSet
  <2> QED
    BY <2>1, <2>2
<1> QED
  BY <1>3, <1>4, <1>5, <1>6, LastFilter

\* The request that has just arrived, as the filters see it.
LEMMA ArrivalOfAFilter ==
  ASSUME Bookkeeping, ScheduleRead \/ Schedule
  PROVE  /\ requested' = requested + 1 /\ requested' \in Tasks /\ requested \in Nat
         /\ step' = step /\ step[requested'] = "waiting"
BY Arrives DEF ScheduleRead, Schedule

LEMMA OnlyArrivalsCount ==
  ASSUME Bookkeeping, [Next]_vars
  PROVE  ScheduleRead \/ Schedule \/ requested' = requested
<1>1. ASSUME NEW t \in Tasks, Task(t) PROVE requested' = requested
  BY <1>1, TaskMoves DEF TaskMoved
<1>2. ASSUME NEW d \in Documents, Start(d) PROVE requested' = requested
  BY <1>2, Admits
<1> QED
  BY <1>1, <1>2 DEF Next, CreateDocument, Cancel, taskVars, vars

\* A document that has just been opened is a new one.
LEMMA OpenedIsNew ==
  ASSUME Bookkeeping, [Next]_vars, NEW d \in open_documents', d \notin open_documents
  PROVE  ScheduleRead /\ d = next_document /\ storage'[d] = NewDocument
<1>1. TypeOK /\ DocumentsNumbered
  BY DEF Bookkeeping
<1>2. ScheduleRead
  <2>1. ASSUME NEW t \in Tasks, Task(t) PROVE open_documents' \subseteq open_documents
    BY <2>1, TaskMoves DEF TaskMoved
  <2>2. ASSUME NEW e \in Documents, Start(e) PROVE open_documents' = open_documents
    BY <2>2, Admits
  <2> QED
    BY <2>1, <2>2 DEF Next, CreateDocument, Schedule, Cancel, vars
<1>3. /\ d = next_document /\ storage' = [storage EXCEPT ![next_document] = NewDocument]
      /\ creating /\ Scheduler!Request
  BY <1>2 DEF ScheduleRead
<1>4. d \in Documents
  <2>1. requested + 1 \in Tasks
    BY <1>2, ArrivalOfAFilter
  <2> QED
    BY <1>1, <1>3, <2>1, RequestTypes DEF DocumentsNumbered
<1> QED
  BY <1>1, <1>2, <1>3, <1>4 DEF TypeOK

LEMMA FilterKept ==
  ASSUME Bookkeeping, DocumentsFound, FilterFollows, [Next]_vars
  PROVE  FilterFollows'
<1>1. TypeOK /\ TasksTracked /\ DocumentsNumbered
  BY DEF Bookkeeping
<1>2. request' = request /\ \A x, y : (IsSet(x, y)' <=> IsSet(x, y)) /\ FilterAt(x, y)' = FilterAt(x, y)
  BY NothingUndone, FilterIsRigid
<1>3. ASSUME NEW d \in open_documents', NEW n \in 1 .. requested' + 1,
             \A u \in Tasks : IsSet(u, d) /\ u < n => step'[u] = "finished",
             \A u \in Tasks : IsSet(u, d) /\ step'[u] = "finished" => u < n
      PROVE  storage'[d].filter = FilterAt(d, n)
  <2>1. CASE \E t \in Tasks : ApplyFilter(t) /\ Document(t) = d
    <3>1. PICK t \in Tasks : ApplyFilter(t) /\ Document(t) = d
      BY <2>1
    <3>2. IsSet(t, d) /\ step'[t] = "finished"
      BY <1>1, <3>1, KindsOfSteps DEF ApplyFilter, Finish, IsSet, TypeOK
    <3>3. t < n /\ requested' = requested
      BY <1>3, <3>1, <3>2 DEF ApplyFilter, Finish, Scheduler!Finish
    <3> QED
      BY <1>3, <3>1, <3>3, AppliedIsLast
  <2>2. CASE ~(\E t \in Tasks : ApplyFilter(t) /\ Document(t) = d) /\ d \in open_documents
    <3>1. /\ storage'[d].filter = storage[d].filter
          /\ \A u \in Tasks : IsSet(u, d) => (step'[u] = "finished" <=> step[u] = "finished")
      BY <2>2, OnlyApplyFilters
    <3>2. ASSUME NEW m \in 1 .. requested + 1,
                 \A u \in Tasks : IsSet(u, d) => (u < m <=> u < n)
          PROVE  storage'[d].filter = FilterAt(d, m)
      <4>1. AppliedUpTo(d, m)
        BY <1>3, <3>1, <3>2 DEF AppliedUpTo, AppliedBefore
      <4> QED
        BY <2>2, <3>1, <4>1 DEF FilterFollows
    <3>3. CASE n \in 1 .. requested + 1
      BY <3>2, <3>3
    <3>4. CASE n \notin 1 .. requested + 1
      <4>1. ScheduleRead \/ Schedule
        BY <3>4, OnlyArrivalsCount
      <4> DEFINE m == requested'
      <4>2. /\ m = requested + 1 /\ m \in Tasks /\ requested \in Nat
            /\ step' = step /\ step[m] = "waiting"
        BY <4>1, ArrivalOfAFilter
      <4>3. n = m + 1 /\ m \in 1 .. requested + 1
        BY <3>4, <4>2
      <4>4. ~IsSet(m, d)
        BY <1>3, <4>2, <4>3
      <4>5. \A u \in Tasks : IsSet(u, d) => (u < m <=> u < n)
        BY <4>2, <4>3, <4>4, TasksAreNumbers
      <4>6. storage'[d].filter = FilterAt(d, m)
        BY <3>2, <4>3, <4>5
      <4> HIDE DEF m
      <4>7. FilterAt(d, m + 1) = FilterAt(d, m)
        BY <4>2, <4>4, SameFilter
      <4> QED
        BY <4>3, <4>6, <4>7
    <3> QED
      BY <3>3, <3>4
  <2>3. CASE d \notin open_documents
    <3>1. ScheduleRead /\ d = next_document /\ storage'[d] = NewDocument
      BY <2>3, OpenedIsNew
    <3>2. /\ requested' = requested + 1 /\ requested' \in Tasks /\ requested \in Nat
          /\ step' = step /\ step[requested'] = "waiting"
      BY <3>1, ArrivalOfAFilter
    <3>4. d \in Documents /\ Kind(requested + 1) = "readDocument" /\ Document(requested + 1) = d
      BY <1>1, <3>1, <3>2, RequestTypes DEF DocumentsNumbered, ScheduleRead
    <3>5. storage'[d].filter = NoFilter
      BY <3>1 DEF NewDocument
    <3>6. ASSUME NEW v \in 1 .. n - 1 PROVE ~IsSet(v, d)
      <4>1. v \in Tasks /\ v \in 1 .. requested + 1
        BY <3>2, BoundsAssumption DEF Tasks
      <4>2. CASE v = requested + 1
        BY <3>4, <4>2 DEF IsSet
      <4>3. CASE v # requested + 1
        <5>1. v <= requested
          BY <3>2, <4>1, <4>3
        <5>2. Document(v) < next_document
          BY <1>1, <4>1, <5>1 DEF DocumentsNumbered
        <5> QED
          BY <3>1, <3>4, <5>2, TasksAreNumbers DEF IsSet
      <4> QED
        BY <4>2, <4>3
    <3> QED
      BY <3>5, <3>6, FirstFilter
  <2> QED
    BY <2>1, <2>2, <2>3
<1> QED
  BY <1>2, <1>3 DEF FilterFollows, AppliedUpTo, AppliedBefore

\* A cancelled request that explains what is missing goes on explaining it, ...
LEMMA ReadCanceledKept ==
  ASSUME Bookkeeping, [Next]_vars, NEW d, NEW u \in Tasks, ReadCanceled(d, u)
  PROVE  ReadCanceled(d, u)'
BY NothingUndone DEF ReadCanceled

\* ... if it filled the caches, as long as the filter is the same.
LEMMA PageCanceledKept ==
  ASSUME Bookkeeping, [Next]_vars, NEW d \in open_documents, d \in open_documents',
         NEW u \in Tasks, PageCanceled(d, u), storage'[d].filter = storage[d].filter
  PROVE  PageCanceled(d, u)'
<1>1. TypeOK /\ TasksTracked
  BY DEF Bookkeeping
<1>2. /\ request' = request /\ canceled \subseteq canceled' /\ step'[u] # "waiting"
      /\ \A x, y : (IsSet(x, y)' <=> IsSet(x, y)) /\ FilterAt(x, y)' = FilterAt(x, y)
      /\ \A x : Document(x)' = Document(x) /\ Kind(x)' = Kind(x)
  BY NothingUndone, FilterIsRigid DEF PageCanceled
<1>3. step[u] # "waiting" /\ u <= requested /\ u \in Nat /\ u > 0
  BY <1>1, TasksAreNumbers DEF PageCanceled, TasksTracked, Tasks
<1>4. ASSUME NEW n \in u .. requested' + 1,
             \A w \in Tasks : IsSet(w, d) /\ w < n => step'[w] = "finished"
      PROVE  storage[d].filter = FilterAt(d, n)
  <2>1. ASSUME NEW m \in u .. requested + 1, m <= n,
               \A w \in Tasks : IsSet(w, d) /\ w < m => step[w] = "finished"
        PROVE  storage[d].filter = FilterAt(d, m)
    BY <2>1 DEF PageCanceled, AppliedBefore
  <2>2. CASE \E t \in Tasks : ApplyFilter(t) /\ Document(t) = d
    <3>1. PICK t \in Tasks : ApplyFilter(t) /\ Document(t) = d
      BY <2>2
    <3>2. /\ requested' = requested
          /\ \A w \in Tasks : w # t => step'[w] = step[w]
      BY <1>1, <3>1 DEF ApplyFilter, Finish, Scheduler!Finish, TypeOK
    <3>3. n \in 1 .. requested + 1 /\ n \in u .. requested + 1
      BY <1>1, <1>3, <3>2 DEF TypeOK
    <3>4. CASE t < n
      BY <1>4, <3>1, <3>3, <3>4, AppliedIsLast
    <3>5. CASE ~(t < n)
      <4>1. \A w \in Tasks : IsSet(w, d) /\ w < n => step[w] = "finished"
        BY <1>4, <3>2, <3>5
      <4> QED
        BY <2>1, <3>3, <4>1
    <3> QED
      BY <3>4, <3>5
  <2>3. CASE ~(\E t \in Tasks : ApplyFilter(t) /\ Document(t) = d)
    <3>1. \A w \in Tasks : IsSet(w, d) => (step'[w] = "finished" <=> step[w] = "finished")
      BY <2>3, OnlyApplyFilters
    <3>2. CASE n \in u .. requested + 1
      BY <1>4, <2>1, <3>1, <3>2
    <3>3. CASE n \notin u .. requested + 1
      <4>1. ScheduleRead \/ Schedule
        BY <3>3, OnlyArrivalsCount
      <4> DEFINE m == requested'
      <4>2. /\ m = requested + 1 /\ m \in Tasks /\ requested \in Nat
            /\ step' = step /\ step[m] = "waiting"
        BY <4>1, ArrivalOfAFilter
      <4>3. n = m + 1 /\ m \in u .. requested + 1
        BY <1>3, <3>3, <4>2
      <4>4. ~IsSet(m, d)
        BY <1>4, <4>2, <4>3
      <4>5. \A w \in Tasks : IsSet(w, d) /\ w < m => step[w] = "finished"
        BY <1>4, <4>2, <4>3, TasksAreNumbers
      <4>6. storage[d].filter = FilterAt(d, m)
        BY <2>1, <4>2, <4>3, <4>5
      <4> HIDE DEF m
      <4>7. FilterAt(d, m + 1) = FilterAt(d, m)
        BY <4>2, <4>4, SameFilter
      <4> QED
        BY <4>3, <4>6, <4>7
    <3> QED
      BY <3>2, <3>3
  <2> QED
    BY <2>2, <2>3
<1> QED
  BY <1>2, <1>4 DEF PageCanceled, AppliedBefore

\* What there is to explain in document s, and by whom.
ReadToBlame(d) == \E u \in Tasks : ReadCanceled(d, u)
PageToBlame(d) == \E u \in Tasks : ReadCanceled(d, u) \/ PageCanceled(d, u)

\* Samples are missing in the counts if they are missing in those that are cached, or else in
\* the document.
LEMMA CountsExplained ==
  ASSUME NEW s, s.provider \in {"partial", "complete"}, NEW d,
         s.provider = "partial" => ReadToBlame(d),
         \A v \in s.total_samples_counts : ~v.complete => ReadToBlame(d)
  PROVE  \A v \in CountsOf(s) : ~v.complete => ReadToBlame(d)
<1>1. CASE s.total_samples_counts # None
  BY <1>1 DEF CountsOf
<1>2. CASE s.total_samples_counts = None /\ s.provider = "complete"
  <2>1. (s.provider = "complete") = TRUE
    BY <1>2
  <2>2. CountsOf(s) = {[filter |-> s.filter, complete |-> TRUE]}
    BY <1>2, <2>1, Zenon DEF CountsOf
  <2> QED
    BY <2>2
<1> QED
  BY <1>1, <1>2

LEMMA BlameOfAnalysis ==
  ASSUME Bookkeeping, DocumentsFound, FilterFollows, NEW t \in Tasks,
         step[t] = "analyzing", t \in canceled
  PROVE  PageCanceled(Document(t), t)
<1> DEFINE d == Document(t)
<1>1. TypeOK /\ TasksTracked
  BY DEF Bookkeeping
<1>2. Kind(t) = "retrieveFunctionsPage" /\ IsWrite(t)
  BY <1>1, KindsOfSteps, Writes
<1>3. d \in open_documents /\ t \in 1 .. requested + 1
  BY ProviderThere
<1>4. ASSUME NEW n \in t .. requested + 1, AppliedBefore(d, n)
      PROVE  storage[d].filter = FilterAt(d, n)
  <2>1. n \in 1 .. requested + 1 /\ t <= n /\ n \in Nat
    BY <1>1, <1>3 DEF TypeOK
  <2>2. ASSUME NEW u \in Tasks, IsSet(u, d), step[u] = "finished" PROVE u < n
    <3>1. u # t /\ Document(u) = Document(t)
      BY <1>2, <2>2 DEF IsSet
    <3>2. u < t
      BY <1>2, <2>2, <3>1, Turns, TasksAreNumbers
    <3> QED
      BY <2>1, <3>2, TasksAreNumbers
  <2>3. AppliedUpTo(d, n)
    BY <1>4, <2>2 DEF AppliedUpTo
  <2> QED
    BY <1>3, <2>1, <2>3 DEF FilterFollows
<1> QED
  BY <1>2, <1>4 DEF PageCanceled

LEMMA MissingKept ==
  ASSUME Bookkeeping, DocumentsFound, FilterFollows, MissingForAReason, [Next]_vars
  PROVE  MissingForAReason'
<1>1. TypeOK /\ TasksTracked
  BY DEF Bookkeeping
<1>2. ASSUME NEW d \in open_documents'
      PROVE  /\ storage'[d].provider = "partial" => ReadToBlame(d)'
             /\ \A v \in storage'[d].total_samples_counts : ~v.complete => ReadToBlame(d)'
             /\ \A v \in storage'[d].stacks_analysis \cup storage'[d].sorted_functions :
                  ~v.complete => PageToBlame(d)'
  <2>1. CASE d \notin open_documents
    BY <2>1, OpenedIsNew DEF NewDocument, None
  <2>2. CASE d \in open_documents
    <3> DEFINE s == storage[d]
    <3>1. d \in Documents /\ s \in Storage /\ d # next_document
      BY <1>1, <2>2, BoundsAssumption DEF TypeOK, Documents
    <3>2. /\ s.provider = "partial" => ReadToBlame(d)
          /\ \A v \in s.total_samples_counts : ~v.complete => ReadToBlame(d)
          /\ \A v \in s.stacks_analysis \cup s.sorted_functions : ~v.complete => PageToBlame(d)
      BY <2>2 DEF MissingForAReason, ReadToBlame, PageToBlame
    <3>3. /\ ReadToBlame(d) => ReadToBlame(d)'
          /\ storage'[d].filter = s.filter => (PageToBlame(d) => PageToBlame(d)')
          /\ ReadToBlame(d)' => PageToBlame(d)'
      <4>1. ReadToBlame(d) => ReadToBlame(d)'
        BY ReadCanceledKept DEF ReadToBlame
      <4>2. ASSUME storage'[d].filter = s.filter, PageToBlame(d) PROVE PageToBlame(d)'
        <5>1. PICK u \in Tasks : ReadCanceled(d, u) \/ PageCanceled(d, u)
          BY <4>2 DEF PageToBlame
        <5>2. ReadCanceled(d, u)' \/ PageCanceled(d, u)'
          BY <2>2, <4>2, <5>1, ReadCanceledKept, PageCanceledKept
        <5> QED
          BY <5>2 DEF PageToBlame
      <4> QED
        BY <4>1, <4>2 DEF ReadToBlame, PageToBlame
    <3>4. CASE storage'[d] = s
      BY <3>2, <3>3, <3>4
    <3>5. CASE storage'[d] # s
      <4>1. PICK t \in Tasks : Task(t) /\ Document(t) = d
        <5>1. \E t \in Tasks : Task(t)
          <6>1. ScheduleRead => storage'[d] = s
            BY <1>1, <3>1 DEF ScheduleRead, TypeOK
          <6> QED
            BY <3>5, <6>1 DEF Next, CreateDocument, Schedule, Cancel, Start, vars
        <5>2. PICK t \in Tasks : Task(t)
          BY <5>1
        <5>3. Document(t) = d
          BY <3>1, <3>5, <5>2, TaskMoves, LeftAs
        <5> QED
          BY <5>2, <5>3
      <4>2. s = storage[Document(t)]
        BY <4>1
      <4> HIDE DEF s
      <4>3. \A x : Document(x)' = Document(x) /\ Kind(x)' = Kind(x)
        BY NothingUndone
      <4>4. CASE Find(t) \/ FindNothing(t) \/ ReadFails(t) \/ Close(t) \/ Count(t)
        BY <3>5, <4>1, <4>2, <4>4 DEF Find, FindNothing, ReadFails, Close, Count
      <4>5. CASE Read(t)
        <5>1. PICK p \in {"complete", "partial"} :
                /\ storage'[d] = [s EXCEPT !.provider = p]
                /\ p = "partial" => t \in canceled
          BY <4>1, <4>2, <4>5, ReadStep
        <5>2. step'[t] # "waiting" /\ canceled' = canceled
          BY <1>1, <4>5 DEF Read, Finish, TypeOK
        <5>3. p = "partial" => ReadCanceled(d, t)'
          BY <1>1, <4>1, <4>3, <4>5, <5>1, <5>2, KindsOfSteps DEF Read, ReadCanceled
        <5>4. p = "partial" => ReadToBlame(d)'
          BY <5>3 DEF ReadToBlame
        <5> QED
          BY <3>1, <3>2, <3>3, <5>1, <5>4, Updates
      <4>6. CASE ApplyFilter(t)
        <5>1. storage'[d] = filtered(s, request[t].filter)
          BY <4>1, <4>2, <4>6, ApplyFilterStep
        <5> QED
          BY <3>1, <3>2, <3>3, <3>5, <5>1, Updates DEF None
      <4>7. CASE Analyze(t)
        <5>1. PICK whole \in BOOLEAN :
                /\ storage'[d] = AnalyzedAs(s, AnalysisOf(s, whole))
                /\ ~whole => t \in canceled
          BY <3>5, <4>1, <4>2, <4>7, AnalyzeStep
        <5>2. step[t] = "analyzing" /\ Kind(t) = "retrieveFunctionsPage"
          BY <1>1, <4>7, KindsOfSteps DEF Analyze
        <5>3. s.provider \in {"partial", "complete"}
          BY <4>2, <5>2, ProviderThere
        <5>4. storage'[d].filter = s.filter
          BY <3>1, <5>1, Updates
        <5>5. ASSUME ~whole PROVE PageToBlame(d)
          BY <4>1, <5>1, <5>2, <5>5, BlameOfAnalysis DEF PageToBlame
        <5>6. \A v \in AnalysisOf(s, whole) : ~v.complete => PageToBlame(d)'
          BY <3>2, <3>3, <5>3, <5>4, <5>5 DEF AnalysisOf
        <5> QED
          BY <3>1, <3>2, <3>3, <5>1, <5>6, Updates DEF None
      <4>8. CASE Sort(t)
        <5>1. storage'[d] = [s EXCEPT !.sorted_functions = SortedOf(s)]
          BY <4>1, <4>2, <4>8, SortStep
        <5> QED
          BY <3>1, <3>2, <3>3, <5>1, Updates DEF SortedOf
      <4>9. CASE Total(t)
        <5>1. storage'[d] = [s EXCEPT !.total_samples_counts = CountsOf(s)]
          BY <4>1, <4>2, <4>9, TotalStep
        <5>2. step[t] = "totalling" /\ Kind(t) = "retrieveFunctionsPage"
          BY <1>1, <4>9, KindsOfSteps DEF Total
        <5>3. s.provider \in {"partial", "complete"}
          BY <4>2, <5>2, ProviderThere
        <5>4. \A v \in CountsOf(s) : ~v.complete => ReadToBlame(d)
          BY <3>2, <5>3, CountsExplained
        <5> QED
          BY <3>1, <3>2, <3>3, <5>1, <5>4, Updates
      <4> QED
        BY <4>1, <4>4, <4>5, <4>6, <4>7, <4>8, <4>9 DEF Task
    <3> QED
      BY <3>4, <3>5
  <2> QED
    BY <2>1, <2>2
<1> QED
  BY <1>2 DEF MissingForAReason, ReadToBlame, PageToBlame

(***************************************************************************)
(* The answers.                                                            *)
(***************************************************************************)

LEMMA CachesKept ==
  ASSUME Bookkeeping, CachesMatchFilter, [Next]_vars
  PROVE  CachesMatchFilter'
<1>1. TypeOK /\ TypeOK'
  BY BookkeepingKept DEF Bookkeeping
<1>2. ASSUME NEW d \in Documents,
             NEW v \in storage'[d].total_samples_counts \cup storage'[d].stacks_analysis
                         \cup storage'[d].sorted_functions
      PROVE  v.filter = storage'[d].filter
  <2> DEFINE s == storage[d]
  <2>1. s \in Storage
    BY <1>1 DEF TypeOK
  <2>2. \A w \in s.total_samples_counts \cup s.stacks_analysis \cup s.sorted_functions :
          w.filter = s.filter
    BY DEF CachesMatchFilter
  <2>3. CASE storage'[d] = s
    BY <1>2, <2>2, <2>3
  <2>4. CASE storage'[d] # s
    <3>1. CASE ScheduleRead
      <4>1. storage'[d] = NewDocument
        BY <1>1, <2>4, <3>1 DEF ScheduleRead, TypeOK
      <4> QED
        BY <1>2, <4>1 DEF NewDocument, None
    <3>2. CASE ~ScheduleRead
      <4>1. PICK t \in Tasks : Task(t)
        BY <2>4, <3>2 DEF Next, CreateDocument, Schedule, Cancel, Start, vars
      <4>2. s = storage[Document(t)] /\ Document(t) = d
        BY <2>4, <4>1, TaskMoves, LeftAs
      <4> HIDE DEF s
      <4>3. CASE Find(t) \/ FindNothing(t) \/ ReadFails(t) \/ Close(t) \/ Count(t)
        BY <2>4, <4>2, <4>3 DEF Find, FindNothing, ReadFails, Close, Count
      <4>4. CASE Read(t)
        <5>1. PICK p : storage'[d] = [s EXCEPT !.provider = p]
          BY <4>2, <4>4, ReadStep
        <5> QED
          BY <1>2, <2>1, <2>2, <5>1, Updates
      <4>5. CASE ApplyFilter(t)
        <5>1. storage'[d] = filtered(s, request[t].filter)
          BY <4>2, <4>5, ApplyFilterStep
        <5> QED
          BY <1>2, <2>1, <2>4, <5>1, Updates DEF None
      <4>6. CASE Analyze(t)
        <5>1. PICK whole \in BOOLEAN :
                storage'[d] = AnalyzedAs(s, AnalysisOf(s, whole))
          BY <2>4, <4>2, <4>6, AnalyzeStep
        <5>2. \A w \in AnalysisOf(s, whole) : w.filter = s.filter
          BY DEF AnalysisOf
        <5> QED
          BY <1>2, <2>1, <2>2, <5>1, <5>2, Updates DEF None
      <4>7. CASE Sort(t)
        <5>1. storage'[d] = [s EXCEPT !.sorted_functions = SortedOf(s)]
          BY <4>2, <4>7, SortStep
        <5> QED
          BY <1>2, <2>1, <2>2, <5>1, Updates DEF SortedOf
      <4>8. CASE Total(t)
        <5>1. storage'[d] = [s EXCEPT !.total_samples_counts = CountsOf(s)]
          BY <4>2, <4>8, TotalStep
        <5>2. \A w \in CountsOf(s) : w.filter = s.filter
          BY <2>2 DEF CountsOf
        <5> QED
          BY <1>2, <2>1, <2>2, <5>1, <5>2, Updates
      <4> QED
        BY <4>1, <4>3, <4>4, <4>5, <4>6, <4>7, <4>8 DEF Task
    <3> QED
      BY <3>1, <3>2
  <2> QED
    BY <2>3, <2>4
<1> QED
  BY <1>1, <1>2 DEF CachesMatchFilter

\* A request that is being answered sees the filter the client had set, ...
LEMMA AnsweredWithFilter ==
  ASSUME Bookkeeping, DocumentsFound, FilterFollows, NEW t \in Tasks,
         step[t] \in {"totalling", "counting"}
  PROVE  storage[Document(t)].filter = FilterAt(Document(t), t)
<1> DEFINE d == Document(t)
<1>1. TypeOK /\ TasksTracked
  BY DEF Bookkeeping
<1>2. Kind(t) # "setSampleFilters" /\ d \in open_documents /\ t \in 1 .. requested + 1
  BY <1>1, KindsOfSteps, ProviderThere
<1>3. ASSUME NEW u \in Tasks, IsSet(u, d) PROVE u < t <=> step[u] = "finished"
  <2>1. u # t /\ IsWrite(u) /\ Document(u) = Document(t)
    BY <1>2, <1>3, Writes DEF IsSet
  <2> QED
    BY <2>1, Turns, TasksAreNumbers
<1>4. AppliedUpTo(d, t)
  BY <1>3 DEF AppliedUpTo, AppliedBefore
<1> QED
  BY <1>2, <1>4 DEF FilterFollows

\* ... and those to blame for what is missing came before it.
LEMMA Blamed ==
  ASSUME Bookkeeping, NEW t \in Tasks, step[t] \in {"totalling", "counting"},
         NEW u \in Tasks, ReadCanceled(Document(t), u) \/ PageCanceled(Document(t), u)
  PROVE  /\ u \in canceled /\ u <= t /\ Document(u) = Document(t)
         /\ PageCanceled(Document(t), u) =>
              Kind(u) = "retrieveFunctionsPage" /\ ~FilterChanges(Document(t), u, t)
<1> DEFINE d == Document(t)
<1>1. TypeOK /\ TasksTracked
  BY DEF Bookkeeping
<1>2. u \in canceled /\ Document(u) = d /\ step[u] # "waiting" /\ IsWrite(u)
  BY Writes DEF ReadCanceled, PageCanceled
<1>3. u <= t
  BY <1>2, Turns, TasksAreNumbers
<1>4. ASSUME PageCanceled(d, u)
      PROVE  Kind(u) = "retrieveFunctionsPage" /\ ~FilterChanges(d, u, t)
  <2>1. t <= requested /\ u \in Nat /\ t \in Nat /\ requested \in Nat
    BY <1>1, TasksAreNumbers DEF TasksTracked, TypeOK
  <2>2. ASSUME NEW n \in u .. t PROVE storage[d].filter = FilterAt(d, n)
    <3>1. ASSUME NEW w \in Tasks, IsSet(w, d), w < n PROVE step[w] = "finished"
      <4>1. w < t /\ Document(w) = Document(t) /\ IsWrite(w)
        BY <2>1, <3>1, Writes, TasksAreNumbers DEF IsSet
      <4> QED
        BY <4>1, Turns, TasksAreNumbers
    <3>2. n \in u .. requested + 1 /\ AppliedBefore(d, n)
      BY <2>1, <3>1 DEF AppliedBefore
    <3> QED
      BY <1>4, <3>2 DEF PageCanceled
  <2>3. u \in u .. t
    BY <1>3, <2>1
  <2> HIDE DEF d
  <2>4. ~FilterChanges(d, u, t)
    BY <2>2, <2>3 DEF FilterChanges
  <2> QED
    BY <1>4, <2>4 DEF PageCanceled
<1> QED
  BY <1>2, <1>3, <1>4

\* What AnswersFollowRequests says of the answer a to request t, if it has numbers.
FollowsRequest(t, a) ==
  /\ a.filters = {FilterAt(Document(t), t)}
  /\ ~a.complete =>
       \E u \in canceled :
         /\ u <= t /\ Document(u) = Document(t)
         /\ \/ Kind(u) = "readDocument"
            \/ /\ Kind(u) = "retrieveFunctionsPage"
               /\ Kind(t) = "retrieveFunctionsPage"
               /\ ~FilterChanges(Document(t), u, t)

LEMMA NumbersFollow ==
  ASSUME Bookkeeping, DocumentsFound, FilterFollows, MissingForAReason, CachesMatchFilter,
         NEW t \in Tasks, Total(t) \/ Count(t)
  PROVE  FollowsRequest(t, answer'[t])
<1> DEFINE d == Document(t)
           s == storage[Document(t)]
<1>1. TypeOK /\ TasksTracked
  BY DEF Bookkeeping
<1>2. /\ step[t] \in {"totalling", "counting"} /\ d \in open_documents /\ d \in Documents
      /\ Kind(t) # "readDocument"
      /\ s.provider \in {"partial", "complete"} /\ s.filter = FilterAt(d, t) /\ s \in Storage
  BY <1>1, KindsOfSteps, ProviderThere, AnsweredWithFilter, UnchangedStorage DEF Total, Count
<1>3. /\ s.provider = "partial" => ReadToBlame(d)
      /\ \A v \in s.total_samples_counts : ~v.complete => ReadToBlame(d)
      /\ \A v \in s.stacks_analysis \cup s.sorted_functions : ~v.complete => PageToBlame(d)
  BY <1>2 DEF MissingForAReason, ReadToBlame, PageToBlame
<1> DEFINE Blame == \E u \in canceled :
                      /\ u <= t /\ Document(u) = d
                      /\ \/ Kind(u) = "readDocument"
                         \/ /\ Kind(u) = "retrieveFunctionsPage"
                            /\ Kind(t) = "retrieveFunctionsPage"
                            /\ ~FilterChanges(d, u, t)
<1>4. ReadToBlame(d) => Blame
  BY <1>2, Blamed DEF ReadToBlame, ReadCanceled
<1>5. Kind(t) = "retrieveFunctionsPage" /\ PageToBlame(d) => Blame
  BY <1>2, Blamed DEF PageToBlame, ReadCanceled
<1>6. CASE Count(t)
  <2>1. answer'[t] = Result({s.filter}, s.provider = "complete")
    BY <1>6, CountStep
  <2>2. answer'[t].filters = {s.filter} /\ (~answer'[t].complete => s.provider # "complete")
    <3> HIDE DEF s
    <3>1. ASSUME s.provider = "complete" PROVE answer'[t].complete
      <4>1. (s.provider = "complete") = TRUE
        BY <3>1
      <4>2. answer'[t] = Result({s.filter}, TRUE)
        BY <2>1, <4>1, Zenon
      <4> QED
        BY <4>2 DEF Result
    <3> QED
      BY <2>1, <3>1 DEF Result
  <2>3. ~answer'[t].complete => Blame
    BY <1>2, <1>3, <1>4, <2>2
  <2> QED
    BY <1>2, <2>2, <2>3 DEF FollowsRequest
<1>7. CASE Total(t)
  <2>1. PICK whole \in BOOLEAN :
          /\ answer'[t] = Result({v.filter : v \in UsedOf(s)},
                                 whole /\ \A v \in UsedOf(s) : v.complete)
          /\ ~whole => t \in canceled
    BY <1>7, TotalStep
  <2>2. step[t] = "totalling" /\ Kind(t) = "retrieveFunctionsPage"
    BY <1>1, <1>7, KindsOfSteps DEF Total
  <2>3. \A v \in UsedOf(s) : v.filter = s.filter
    <3>1. \A v \in s.total_samples_counts \cup s.stacks_analysis \cup s.sorted_functions :
            v.filter = s.filter
      BY <1>2 DEF CachesMatchFilter
    <3>2. \A v \in CountsOf(s) : v.filter = s.filter
      BY <3>1 DEF CountsOf
    <3> QED
      BY <3>1, <3>2 DEF UsedOf
  <2>4. UsedOf(s) # {}
    BY DEF UsedOf, CountsOf, None
  <2>5. answer'[t].filters = {s.filter}
    <3>1. {v.filter : v \in UsedOf(s)} = {s.filter}
      BY <2>3, <2>4
    <3> QED
      BY <2>1, <3>1 DEF Result
  <2>6. ASSUME ~answer'[t].complete PROVE Blame
    <3>1. ~whole \/ \E v \in UsedOf(s) : ~v.complete
      BY <2>1, <2>6 DEF Result
    <3>2. CASE ~whole
      <4>1. ~FilterChanges(d, t, t) /\ t <= t
        BY TasksAreNumbers DEF FilterChanges
      <4> QED
        BY <2>1, <2>2, <3>2, <4>1
    <3>3. CASE \E v \in UsedOf(s) : ~v.complete
      <4>1. \A v \in CountsOf(s) : ~v.complete => ReadToBlame(d)
        BY <1>2, <1>3, CountsExplained
      <4>2. ReadToBlame(d) \/ PageToBlame(d)
        BY <1>3, <3>3, <4>1 DEF UsedOf
      <4> QED
        BY <1>4, <1>5, <2>2, <4>2
    <3> QED
      BY <3>1, <3>2, <3>3
  <2> QED
    BY <1>2, <2>5, <2>6 DEF FollowsRequest
<1> QED
  BY <1>6, <1>7

LEMMA AnswersKept ==
  ASSUME Bookkeeping, DocumentsFound, FilterFollows, MissingForAReason,
         AnswersFollowRequests, [Next]_vars
  PROVE  AnswersFollowRequests'
<1>1. TypeOK /\ TasksTracked /\ CachesMatchFilter
  BY DEF Bookkeeping, AnswersFollowRequests
<1>2. CachesMatchFilter'
  BY <1>1, CachesKept
<1>3. /\ request' = request /\ canceled \subseteq canceled'
      /\ \A x : Document(x)' = Document(x) /\ Kind(x)' = Kind(x)
      /\ \A x, y : FilterAt(x, y)' = FilterAt(x, y)
  BY NothingUndone, FilterIsRigid
<1>4. \A x, y, z : FilterChanges(x, y, z)' <=> FilterChanges(x, y, z)
  BY <1>3 DEF FilterChanges
<1>5. ASSUME NEW t \in Tasks, answer'[t].outcome = "result",
             Kind(t) \in {"retrieveFunctionsPage", "retrieveProcessSampleInfo"}
      PROVE  FollowsRequest(t, answer'[t])
  <2>1. CASE answer'[t] = answer[t]
    BY <1>5, <2>1 DEF AnswersFollowRequests, HasNumbers, FollowsRequest, Kind
  <2>2. CASE answer'[t] # answer[t]
    <3>1. Task(t)
      <4>1. PICK u \in Tasks : Task(u)
        BY <2>2 DEF Next, CreateDocument, ScheduleRead, Schedule, Cancel, Start, vars
      <4>2. u = t
        BY <2>2, <4>1, TaskMoves, LeftAs
      <4> QED
        BY <4>1, <4>2
    <3>2. ~Find(t) /\ ~Analyze(t) /\ ~Sort(t)
      BY <2>2 DEF Find, Analyze, Sort
    <3>3. ~Read(t) /\ ~ReadFails(t) /\ ~Close(t) /\ ~ApplyFilter(t)
      BY <1>1, <1>5, KindsOfSteps DEF Read, ReadFails, Close, ApplyFilter
    <3>4. ~FindNothing(t)
      <4>1. ASSUME FindNothing(t) PROVE Finish(t, Error)
        BY <1>5, <4>1 DEF FindNothing, Kind
      <4> QED
        BY <1>1, <1>5, <4>1 DEF Finish, TypeOK, Error
    <3>5. Total(t) \/ Count(t)
      BY <3>1, <3>2, <3>3, <3>4 DEF Task
    <3> QED
      BY <1>1, <3>5, NumbersFollow
  <2> QED
    BY <2>1, <2>2
<1>6. ASSUME NEW t \in Tasks, HasNumbers(t)'
      PROVE  FollowsRequest(t, answer[t])'
  <2>1. FollowsRequest(t, answer'[t])
    BY <1>3, <1>5, <1>6 DEF HasNumbers, Kind
  <2> QED
    BY <1>3, <1>4, <2>1 DEF FollowsRequest
<1> QED
  BY <1>2, <1>6 DEF AnswersFollowRequests, FollowsRequest, Kind

(***************************************************************************)
(* The theorems.                                                           *)
(***************************************************************************)

LEMMA InvariantInit == Init => IInv
<1> SUFFICES ASSUME Init PROVE IInv
  OBVIOUS
<1>1. Bookkeeping
  BY BookkeepingInit
<1>2. TypeOK /\ next_document = 1 /\ open_documents = {}
      /\ \A t \in Tasks : step[t] = "waiting" /\ answer[t].outcome = "pending"
  BY <1>1 DEF Bookkeeping, Init, Pending
<1>3. DocumentsFound
  BY <1>2, TasksAreNumbers DEF DocumentsFound, Documents
<1>4. ErrorsOnlyAfterClose /\ FilterFollows /\ MissingForAReason
  BY <1>2 DEF ErrorsOnlyAfterClose, FilterFollows, MissingForAReason
<1>5. CachesMatchFilter
  BY <1>2 DEF Init, CachesMatchFilter, NewDocument, None
<1>6. AnswersFollowRequests
  BY <1>2, <1>5 DEF AnswersFollowRequests, HasNumbers
<1> QED
  BY <1>1, <1>3, <1>4, <1>6 DEF IInv

LEMMA InvariantKept ==
  ASSUME IInv, [Next]_vars
  PROVE  IInv'
BY BookkeepingKept, FoundKept, ErrorsKept, FilterKept, MissingKept, AnswersKept DEF IInv

LEMMA InvariantFindsDocuments == IInv => DocumentsThere
<1> SUFFICES ASSUME IInv, NEW t \in Tasks
             PROVE  /\ answer[t].outcome = "error" /\ Kind(t) # "readDocument" =>
                         \E u \in 1 .. t - 1 : Kind(u) = "closeDocument" /\ Document(u) = Document(t)
                    /\ step[t] \in {"analyzing", "sorting", "totalling", "counting"}
                         => storage[Document(t)].provider # "none"
  BY DEF DocumentsThere, Kind
<1>1. ErrorsOnlyAfterClose /\ Bookkeeping /\ DocumentsFound
  BY DEF IInv
<1>2. ASSUME step[t] \in {"analyzing", "sorting", "totalling", "counting"}
      PROVE  storage[Document(t)].provider # "none"
  <2>1. Kind(t) # "readDocument"
    BY <1>1, <1>2, KindsOfSteps DEF Bookkeeping
  <2> QED
    BY <1>1, <1>2, <2>1, ProviderThere
<1> QED
  BY <1>1, <1>2 DEF ErrorsOnlyAfterClose

\* The inductive invariant holds in every reachable state.
THEOREM InductiveInvariant == Spec => []IInv
BY InvariantInit, InvariantKept, PTL DEF Spec

\* Type correctness: ids are handed out in order, and only those that were are in the map.
THEOREM TypeCorrect == Spec => []TypeOK
<1>1. IInv => TypeOK
  BY DEF IInv, Bookkeeping
<1> QED
  BY <1>1, InductiveInvariant, PTL

\* With any number of documents, filters and requests, the numbers of an answer come from the
\* filter that the client had set last when it asked, and samples are only missing if they can
\* be put down to a cancellation.
THEOREM AnswersOfTheFilter == Spec => []AnswersFollowRequests
<1>1. IInv => AnswersFollowRequests
  BY DEF IInv
<1> QED
  BY <1>1, InductiveInvariant, PTL

\* Requests for documents that were read find them until the client closes them, and handlers
\* that need the samples find a data provider.
THEOREM DocumentsAreThere == Spec => []DocumentsThere
BY InvariantFindsDocuments, InductiveInvariant, PTL
=============================================================================
