--------------------------- MODULE DocumentStorage ---------------------------
(***************************************************************************)
(* The documents of the server: detail::storage                            *)
(* (snail/server/detail/storage.cpp) and the handlers that work on it      *)
(* (snail/server/snail_server.cpp), run as tasks that are ordered the way  *)
(* DocumentTasks, the promise of the scheduler, orders them.  Where        *)
(* DocumentTaskScheduler falls short of that promise, what is said here    *)
(* does not hold either.                                                   *)
(*                                                                         *)
(* A task does its work in steps, and each step says which parts of the    *)
(* storage it uses while it is being made; a part that a step modifies is  *)
(* only seen changed at the end of it.  The cancellation of a request may  *)
(* arrive between any two steps.                                           *)
(*                                                                         *)
(* The handlers are represented by five requests: readDocument,            *)
(* closeDocument, setSampleFilters, retrieveFunctionsPage (it uses all the *)
(* caches that retrieveHottestFunctions, retrieveCallTreeHotPath,          *)
(* expandCallTreeNode, retrieveCallersCallees and retrieveLineInfo use)    *)
(* and retrieveProcessSampleInfo, which reads the document but no cache.   *)
(*                                                                         *)
(* A definition that stands directly above the one it varies, and that     *)
(* nothing uses, is the code with a plausible bug in it; README.md says    *)
(* which property notices it.                                              *)
(***************************************************************************)
EXTENDS Integers, Sequences, FiniteSets

CONSTANTS
  MaxDocuments,  \* bound: how many documents the client opens
  Filters,       \* sample filters
  NoFilter,      \* the filter of a document that has just been read
  MaxTasks       \* bound: how many requests the client makes

ASSUME BoundsAssumption  == MaxDocuments \in Nat /\ MaxTasks \in Nat
ASSUME FiltersAssumption == NoFilter \in Filters

\* Documents are numbered by next_document_id_.
Documents == 1 .. MaxDocuments

Tasks == 1 .. MaxTasks

Requests ==
  [kind : {"readDocument", "closeDocument", "retrieveFunctionsPage",
           "retrieveProcessSampleInfo"},
   document : Documents, filter : {NoFilter}]
  \cup [kind : {"setSampleFilters"}, document : Documents, filter : Filters]

\* The access type each handler is registered with.
access_type_read_only_close(kind) ==
  IF kind \in {"closeDocument", "retrieveProcessSampleInfo"}
  THEN "read_only" ELSE "write"
access_type(kind) == IF kind = "retrieveProcessSampleInfo" THEN "read_only" ELSE "write"

\* A value computed from the samples of a document (of one process of it, for an
\* analysis): the filter it was computed with, and whether it takes in all the
\* samples that pass the filter.
Computed == [filter : Filters, complete : BOOLEAN]

\* std::optional
None == {}
Optional(S) == {None} \cup {{v} : v \in S}

\* document_storage.  The data provider of a document whose reading has been
\* cancelled is there but only has some of the samples.
Storage ==
  [provider : {"none", "partial", "complete"},
   filter : Filters,
   total_samples_counts : Optional(Computed),
   stacks_analysis : Optional(Computed),
   sorted_functions : Optional(Computed)]

NewDocument ==
  [provider |-> "none", filter |-> NoFilter, total_samples_counts |-> None,
   stacks_analysis |-> None, sorted_functions |-> None]

\* What a task is doing.
Steps == {"waiting", "finding", "reading", "erasing", "applying", "analyzing",
          "sorting", "totalling", "counting", "finished"}

\* What a request is answered: the filters its numbers come from, and whether
\* they take in all the samples.
Answers == [outcome : {"pending", "error", "result"},
            filters : SUBSET Filters, complete : BOOLEAN]
Pending == [outcome |-> "pending", filters |-> {}, complete |-> FALSE]
Error   == [outcome |-> "error", filters |-> {}, complete |-> FALSE]
Result(filters, complete) ==
  [outcome |-> "result", filters |-> filters, complete |-> complete]

VARIABLES
  request,         \* what the client asks for (fixed by Init)
  job,             \* DocumentTasks: document and access type of each request
  requested,       \* DocumentTasks: number of requests made
  waiting,         \* DocumentTasks: requests that are not admitted yet
  admitted,        \* DocumentTasks: tasks that may use their document
  step,            \* what each task is doing
  creating,        \* the main thread is inside create_document()
  next_document,   \* next_document_id_
  open_documents,  \* the ids in the map
  storage,         \* document_storage of each document
  canceled,        \* requests the client has cancelled
  answer           \* what each request was answered

taskVars == <<job, requested, waiting, admitted>>

vars == <<request, taskVars, step, creating, next_document, open_documents,
          storage, canceled, answer>>

Scheduler == INSTANCE DocumentTasks WITH AccessTypes <- {"read_only", "write"}

-----------------------------------------------------------------------------

Document(t) == request[t].document

Answered(t) == answer[t].outcome # "pending"

\* "This should be an id that resulted from a call to `readDocument`": the client
\* has the id of a document once readDocument is answered.
Known(d, t) ==
  \E u \in 1 .. t - 1 :
    /\ request[u].kind = "readDocument" /\ Document(u) = d
    /\ answer[u].outcome = "result"

\* The request the client makes next.
Sensible(t) ==
  IF request[t].kind = "readDocument" THEN Document(t) = next_document
                                      ELSE Known(Document(t), t)

Init ==
  /\ request \in [Tasks -> Requests]
  /\ job = [t \in Tasks |-> [document |-> request[t].document,
                             access |-> access_type(request[t].kind)]]
  /\ requested = 0
  /\ waiting = [d \in Documents |-> <<>>]
  /\ admitted = {}
  /\ step = [t \in Tasks |-> "waiting"]
  /\ creating = FALSE
  /\ next_document = 1
  /\ open_documents = {}
  /\ storage = [d \in Documents |-> NewDocument]
  /\ canceled = {}
  /\ answer = [t \in Tasks |-> Pending]

-----------------------------------------------------------------------------
(* The main thread *)

\* readDocument is served: create_document() is entered ...
CreateDocument ==
  /\ ~creating
  /\ requested < MaxTasks
  /\ request[requested + 1].kind = "readDocument"
  /\ Sensible(requested + 1)
  /\ creating' = TRUE
  /\ UNCHANGED <<request, taskVars, step, next_document, open_documents, storage,
                 canceled, answer>>

\* ... has inserted the document, and the task that reads it is scheduled.
ScheduleRead ==
  /\ creating
  /\ Scheduler!Request
  /\ creating' = FALSE
  /\ next_document' = next_document + 1
  /\ open_documents' = open_documents \cup {next_document}
  /\ storage' = [storage EXCEPT ![next_document] = NewDocument]
  /\ UNCHANGED <<request, step, canceled, answer>>

\* Any other request is served: its task is scheduled.
Schedule ==
  /\ ~creating
  /\ requested < MaxTasks
  /\ request[requested + 1].kind # "readDocument"
  /\ Sensible(requested + 1)
  /\ Scheduler!Request
  /\ UNCHANGED <<request, step, creating, next_document, open_documents, storage,
                 canceled, answer>>

\* $/cancelRequest, for a request that has not been answered.  closeDocument is
\* a notification and cannot be cancelled.
Cancel(t) ==
  /\ ~creating
  /\ t <= requested
  /\ ~Answered(t)
  /\ request[t].kind # "closeDocument"
  /\ canceled' = canceled \cup {t}
  /\ UNCHANGED <<request, taskVars, step, creating, next_document, open_documents,
                 storage, answer>>

-----------------------------------------------------------------------------
(* The tasks *)

\* The task is run: it looks its document up first.
Start(d) ==
  /\ Scheduler!Admit(d)
  /\ step' = [step EXCEPT ![Head(waiting[d])] = "finding"]
  /\ UNCHANGED <<request, creating, next_document, open_documents, storage,
                 canceled, answer>>

\* Task t is answered a and ends.
Finish(t, a) ==
  /\ Scheduler!Finish(t)
  /\ step' = [step EXCEPT ![t] = "finished"]
  /\ answer' = [answer EXCEPT ![t] = a]

FirstStep(kind) ==
  CASE kind = "readDocument"              -> "reading"
    [] kind = "closeDocument"             -> "erasing"
    [] kind = "setSampleFilters"          -> "applying"
    [] kind = "retrieveFunctionsPage"     -> "analyzing"
    [] kind = "retrieveProcessSampleInfo" -> "counting"

\* The document is in open_documents, and the handler goes on with it.
Find(t) ==
  /\ step[t] = "finding"
  /\ Document(t) \in open_documents
  /\ step' = [step EXCEPT ![t] = FirstStep(request[t].kind)]
  /\ UNCHANGED <<request, taskVars, creating, next_document, open_documents,
                 storage, canceled, answer>>

\* It is not: read_document() and close_document() just return, and the others
\* throw "invalid document id".
FindNothingAndDie(t) == FALSE /\ UNCHANGED vars
FindNothing(t) ==
  /\ step[t] = "finding"
  /\ Document(t) \notin open_documents
  /\ Finish(t, IF request[t].kind \in {"readDocument", "closeDocument"}
               THEN Result({}, TRUE) ELSE Error)
  /\ UNCHANGED <<request, creating, next_document, open_documents, storage, canceled>>

\* read_document(): the provider processes the file, to its end, or up to where
\* it notices that the request is cancelled.  Either way the id is the answer.
Read(t) ==
  /\ step[t] = "reading"
  /\ \E p \in {"complete"} \cup (IF t \in canceled THEN {"partial"} ELSE {}) :
       /\ storage' = [storage EXCEPT ![Document(t)].provider = p]
       /\ Finish(t, Result({}, p = "complete"))
  /\ UNCHANGED <<request, creating, next_document, open_documents, canceled>>

\* The provider throws: the document stays open, without one.
ReadFails(t) ==
  /\ step[t] = "reading"
  /\ Finish(t, Error)
  /\ UNCHANGED <<request, creating, next_document, open_documents, storage, canceled>>

\* close_document(): the document is erased.
Close(t) ==
  /\ step[t] = "erasing"
  /\ open_documents' = open_documents \ {Document(t)}
  /\ Finish(t, Result({}, TRUE))
  /\ UNCHANGED <<request, creating, next_document, storage, canceled>>

\* What apply_document_filter() makes of document s.
filtered_keeping_totals(s, f) ==
  IF s.filter = f THEN s
  ELSE [s EXCEPT !.filter = f, !.stacks_analysis = None, !.sorted_functions = None]
filtered(s, f) ==
  IF s.filter = f THEN s
  ELSE [s EXCEPT !.filter = f, !.total_samples_counts = None,
                 !.stacks_analysis = None, !.sorted_functions = None]

ApplyFilter(t) ==
  /\ step[t] = "applying"
  /\ storage' = [storage EXCEPT ![Document(t)] = filtered(@, request[t].filter)]
  /\ Finish(t, Result({}, TRUE))
  /\ UNCHANGED <<request, creating, next_document, open_documents, canceled>>

\* get_process_analysis(): the cached analysis, or a new one, which is cached;
\* a new one is incomplete if the provider is, or if analyze_stacks() notices
\* that the request is cancelled.
Analyze(t) ==
  /\ step[t] = "analyzing"
  /\ LET s == storage[Document(t)]
     IN  \E whole \in {TRUE} \cup (IF t \in canceled THEN {FALSE} ELSE {}) :
           storage' =
             IF s.stacks_analysis # None THEN storage
             ELSE [storage EXCEPT
                     ![Document(t)].stacks_analysis =
                       {[filter |-> s.filter, complete |-> whole /\ s.provider = "complete"]},
                     ![Document(t)].sorted_functions = None]
  /\ step' = [step EXCEPT ![t] = "sorting"]
  /\ UNCHANGED <<request, taskVars, creating, next_document, open_documents,
                 canceled, answer>>

\* get_sorted_functions(): the cached order, or that of the cached analysis.
Sort(t) ==
  /\ step[t] = "sorting"
  /\ storage' =
       [storage EXCEPT ![Document(t)].sorted_functions =
          IF @ # None THEN @ ELSE storage[Document(t)].stacks_analysis]
  /\ step' = [step EXCEPT ![t] = "totalling"]
  /\ UNCHANGED <<request, taskVars, creating, next_document, open_documents,
                 canceled, answer>>

\* get_total_samples_counts(), which cannot be cancelled, and the answer, which
\* leaves functions out if the request is.
Total(t) ==
  /\ step[t] = "totalling"
  /\ LET s      == storage[Document(t)]
         counts == IF s.total_samples_counts # None THEN s.total_samples_counts
                   ELSE {[filter |-> s.filter, complete |-> s.provider = "complete"]}
         used   == counts \cup s.stacks_analysis \cup s.sorted_functions
     IN  \E whole \in {TRUE} \cup (IF t \in canceled THEN {FALSE} ELSE {}) :
           /\ storage' = [storage EXCEPT ![Document(t)].total_samples_counts = counts]
           /\ Finish(t, Result({v.filter : v \in used},
                               whole /\ \A v \in used : v.complete))
  /\ UNCHANGED <<request, creating, next_document, open_documents, canceled>>

\* retrieveProcessSampleInfo counts samples with the filter of the document.
Count(t) ==
  /\ step[t] = "counting"
  /\ Finish(t, Result({storage[Document(t)].filter},
                      storage[Document(t)].provider = "complete"))
  /\ UNCHANGED <<request, creating, next_document, open_documents, storage, canceled>>

Task(t) ==
  \/ Find(t) \/ FindNothing(t)
  \/ Read(t) \/ ReadFails(t) \/ Close(t) \/ ApplyFilter(t)
  \/ Analyze(t) \/ Sort(t) \/ Total(t) \/ Count(t)

Next ==
  \/ CreateDocument \/ ScheduleRead \/ Schedule
  \/ \E t \in Tasks : Cancel(t) \/ Task(t)
  \/ \E d \in Documents : Start(d)

Spec == Init /\ [][Next]_vars

\* Two reads of a document with no write of it between them have been requested: they
\* may run together, and the scheduler may then lose a task (DocumentTaskScheduler).
ReadsTogether ==
  \E t, u \in 1 .. requested :
    /\ t < u
    /\ \A w \in {t, u} \cup {v \in t .. u : Document(v) = Document(t)} :
         Document(w) = Document(t) /\ job[w].access = "read_only"

\* What has been requested is served; a client need not request more.  That every task
\* is started is what the scheduler does as long as no reads can run together, and only
\* then (EveryTaskRuns).
FairSpec ==
  /\ Spec
  /\ WF_vars(ScheduleRead)
  /\ \A d \in Documents : WF_vars(~ReadsTogether /\ Start(d))
  /\ \A t \in Tasks : WF_vars(Task(t))

-----------------------------------------------------------------------------
(* Properties *)

\* Ids are handed out in order, and only those that were are in the map.
TypeOK ==
  /\ request \in [Tasks -> Requests]
  /\ job \in [Tasks -> [document : Documents, access : {"read_only", "write"}]]
  /\ requested \in 0 .. MaxTasks
  /\ waiting \in [Documents -> Seq(Tasks)]
  /\ admitted \subseteq Tasks
  /\ step \in [Tasks -> Steps]
  /\ creating \in BOOLEAN
  /\ next_document \in 1 .. MaxDocuments + 1
  /\ open_documents \subseteq 1 .. next_document - 1
  /\ storage \in [Documents -> Storage]
  /\ canceled \subseteq Tasks
  /\ answer \in [Tasks -> Answers]

\* Everything that is cached for a document was computed with the filter the
\* document has now.
CachesMatchFilter ==
  /\ TypeOK
  /\ \A d \in Documents :
    LET s == storage[d]
    IN  \A v \in s.total_samples_counts \cup s.stacks_analysis \cup s.sorted_functions :
          v.filter = s.filter

\* The filter the client has set for document d when it makes request t.
FilterAt(d, t) ==
  LET sets == {u \in 1 .. t - 1 : request[u].kind = "setSampleFilters" /\ Document(u) = d}
  IN  IF sets = {} THEN NoFilter
      ELSE request[CHOOSE u \in sets : \A v \in sets : v <= u].filter

HasNumbers(t) ==
  /\ request[t].kind \in {"retrieveFunctionsPage", "retrieveProcessSampleInfo"}
  /\ answer[t].outcome = "result"

\* The filter of document d changes between the requests t and u.
FilterChanges(d, t, u) ==
  \E v \in t .. u : FilterAt(d, v) # FilterAt(d, t)

\* All the numbers of an answer come from the samples that pass the filter the
\* client had set last when it made the request, in whatever order tasks and
\* threads ran.  They take in all of these samples, unless this request or the
\* reading of the document was cancelled, or a request that filled the same cache
\* was: setting another filter does away with what a cancelled request left.
AnswersFollowRequests ==
  CachesMatchFilter /\ \A t \in Tasks : HasNumbers(t) =>
    /\ answer[t].filters = {FilterAt(Document(t), t)}
    /\ ~answer[t].complete =>
         \E u \in canceled :
           /\ u <= t /\ Document(u) = Document(t)
           /\ \/ request[u].kind = "readDocument"
              \/ /\ request[u].kind = "retrieveFunctionsPage"
                 /\ request[t].kind = "retrieveFunctionsPage"
                 /\ ~FilterChanges(Document(t), u, t)

\* Requests find their documents: one for a document the client has read fails only
\* if the client has closed the document before, and a handler that needs the samples
\* never follows the null pointer of a document that has not been read, or could not be.
DocumentsThere ==
  \A t \in Tasks :
    /\ answer[t].outcome = "error" /\ request[t].kind # "readDocument" =>
         \E u \in 1 .. t - 1 : request[u].kind = "closeDocument" /\ Document(u) = Document(t)
    /\ step[t] \in {"analyzing", "sorting", "totalling", "counting"}
         => storage[Document(t)].provider # "none"

\* Every request is answered, whatever was closed, failed or cancelled before it, as long
\* as the client has not asked for reads of one document that may run together: then the
\* scheduler owes it nothing.
EveryRequestAnswered ==
  \A t \in Tasks : (t <= requested) ~> (Answered(t) \/ ReadsTogether)
=============================================================================
