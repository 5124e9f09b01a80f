# snail-server in TLA+

snail-server is the analysis backend of a profiling front end. A client (an
editor extension) speaks JSON-RPC with it over a pipe or a socket: it asks the
server to read a recording (an ETW trace, a Visual Studio diagsession or a
Linux `perf.data` file) and then for pages of functions, call trees, hot paths,
lines and so on. The server is one process with several kinds of threads:

    client  --- messages --->  main thread: serve_next(), dispatch, handlers of
       ^                         | serial requests, $/cancelRequest
       |                         | schedule(document, access, task)
       |                         v
       |                       document task scheduler: queue per document,
       |                         | ready list, one scheduler thread
       |                         | submit(closure)
       |                         v
       +--- answers, ------    thread pool: workers started on demand, which run
            progress             the handlers of document requests
                                 |
                                 v
                               storage: document -> data provider, filter, caches
                                 |                   \
                                 v                    v
                  data providers: process()         analyze_stacks(): functions,
                  file -> events -> process           call tree, callers, lines
                  context -> samples and stacks               |
                                 |                            v
                                 v                    answers: pages, hot paths
                  symbol resolvers: module of an address, its debug
                  information on disk, in the cache directory, on servers

The modules follow the code in `snail/`; paths below are relative to it unless
they begin with `tests/`. The build modelled is one with `NDEBUG`: an `assert()`
has no effect, and what assertions claim is stated as properties instead.

## 1. Inventory

For each component: its state, its operations, who it interacts with, what is
hard about it, what makes it correct, and where it stands.

**Document task scheduler** (`server/detail/document_task_scheduler.*`). Per
document a queue of tasks, `running_write_` and `running_reads_`; a list of ready
documents; a mutex, a condition variable, a thread. Operations: `schedule()` from
the main thread, the loop of the scheduler thread, the closure that a worker
runs around each task, `shutdown()`. Hard: three kinds of threads meet on a
mutex that is released between dispatch, run and completion, and a decision
made at dispatch (`was_still_ready`) is acted on at completion. Correct if
tasks of a document leave in order, a write has its document for itself, every
task is run, shutdown drains. *Modelled, and proved about.*

**Thread pool** (`common/thread_pool.*`). A queue, the workers, `max_size_`,
`stopped_`. `submit()` tests the number of workers without the mutex and spawns
in a second critical section. Correct if tasks start in order, never wait while
there is room, at most the maximum run, and `stop()` drains. *Modelled, and
proved about.*

**The server's requests** (`server/snail_server.cpp`). `active_requests` from
ids to cancellation tokens, under a mutex; closures that keep an iterator into
it; the flags of the serving loop; options, filters and path map. Hard: the
answer leaves before the entry is erased, handlers throw, ids come back,
cancellations race with answers. Correct if every request is answered once, a
cancellation reaches its own request or nothing, and iterators live as long as
they are used. *Modelled, and proved about,* except for the answers that only
show what a provider says of the system, the session and the samples.

**Storage** (`server/detail/storage.cpp`) and the handlers that use it. The map
of open documents without a lock; per document its provider, filter, and three
caches: totals, analyses, sorted functions. Hard: the caches depend on the filter
and on each other, and are filled by requests that look like reads; a file can
fail or be cancelled in the middle. Correct if what a client is told belongs to
the filter it had set, and is whole unless it cancelled. *Modelled, and proved about:* the
documents and caches with one value per cache, `read_document()`, sorted pages
and the options in modules of their own.

**JSON-RPC** (`jsonrpc/`). Reader, writer, protocol, dispatch, and
`response_mutex_`, which keeps answers in one piece. Hard: who writes under which
lock, what ends the loop, the process, or neither. Correct if each message has the
answer it asks for, whole, and the server ends when it is told to. *Modelled, and
proved about.* The stream buffers over sockets and pipes are pure input and output
and are left out.

**Module map** (`analysis/detail/module_map.hpp`). Ranges of addresses, each with
the modules active there, oldest first. `insert()` cuts ranges, `find()` looks an
address up at a time. Hard: six ways in which a new module can lie over the old
ranges. *Modelled, and proved about.*

**ETL files** (`etl/`). `etl_file::process()` merges the buffers of the processors
by time. Hard: an exhausted buffer in the middle of the merge, equal time stamps,
unreadable buffers, cancellation. *Partly:* `open()` and `process()` are modelled *and proved about;*
the dispatch of events by their identifiers is not.

**perf.data files** (`perf_data/`). One stream, and on it chunked readers of
attributes, ids, feature headers, build ids and events, of which one may work
in the middle of another. Hard: elements across the borders of chunks, readers that move
the stream of others, files that end anywhere. *Partly:* `open()` and `process()`
are modelled *and proved about;* the values of most features are not.

**Progress and cancellation** (`common/progress.*`). What a listener is told and
when. *Modelled, and proved about* where files are read and stacks analyzed.

**Process contexts** (`analysis/detail/*_process_context.cpp`,
`process_history.hpp`, `stack_cache.hpp`): histories of processes and threads by
id and time, samples, stacks, context switches, counters, images, sources. Hard:
ids are used again, stacks come after the sample they belong to and in two halves or
by key, names come after what they name, events of a perf.data file come late. Correct if everything
recorded ends up with the thread, process, image and source it was recorded for.
*Partly:* all of it but memory maps (which the module map stands for) and the
sharing of equal stacks.

**Data providers** (`analysis/*_data_provider.cpp`, `options.cpp`): the
choice of a provider, the extraction of archives, the samples of a process under
a filter, merged from several threads. Correct if each sample is handed out
once, for its process, and no temporary file is left that could be removed. *Partly:* the information
on session and system is not modelled.

**Analysis** (`analysis/analysis.cpp`). `analyze_stacks()` turns the samples of a
process into modules, functions, files, lines, pairs of caller and callee and a
call tree, each with its self and total hits per source. Hard: recursion, frames
without a file, references into vectors that grow, and what the last frame leaves
behind for the self hits. Correct if each counter is the number of the frames,
pairs or stacks it stands for, and if the answers made of it leave nothing of it out. *Modelled, and
proved about,* but for the answers. DocumentStorage, one level up, takes an analysis as a value that depends on a
filter and may be incomplete.

**Symbol resolvers** (`analysis/detail/pdb_resolver.cpp`, `dwarf_resolver.cpp`,
`download.cpp`): sessions and symbols in caches of each resolver, debug information
in a directory that all resolvers share, downloads into their final place. Hard: two
resolvers at one file, a process killed in the middle, failures that are cached,
files of another build. Correct if a frame has the symbol of the module that was at its
address at its time, of the right build, or none for a reason. *Modelled, and proved about;* the
readers, curl and the servers are external.

**Common helpers**: the chunked reader is *modelled, and proved about;* decompression, wildcards,
GUIDs and paths are computations on bytes and characters and are not.
**Requests** (`server/requests/protocol.hpp`) is generated from
`protocol/protocol.json` and is left out, as are the views of event records, which are
field offsets, and **main**, the command line.

## 2. The modules

| module | models | state and actions |
|---|---|---|
| `DocumentTasks` | the comment on the scheduler class (`document_task_scheduler.hpp:20-30`), as an abstract specification | requests per document, those admitted; `Request`, `Admit`, `Finish` |
| `DocumentTaskScheduler` | the scheduler | the fields of the class under their names, program counters of main and scheduler thread, the phase of each task; one action per critical section, notification and call into the pool |
| `DocumentTaskScheduler_proofs` | | theorems, section 6 |
| `TaskPool` | what those who submit may expect of a pool | `Submit`, `Start`, `Finish`, `Close`, `Stopped` |
| `ThreadPool` | the pool | `submit()` in four steps (enqueue, notify, unlocked test, spawn), the loop of a worker in four, `stop()` in three |
| `ActiveRequests` | `make_request_task()`, its closure, `$/cancelRequest`, the end of `serve()` | stage, iterator, token of each request, the map; actions for the main thread and for the closure |
| `ServerThreads_proofs` | | theorems about `ThreadPool` and `ActiveRequests` |
| `DocumentStorage` | `storage` and the handlers on it; **composes** `DocumentTasks` (INSTANCE), which orders the tasks | document records, the step of each task, what each request was answered |
| `DocumentStorage_proofs` | | theorems |
| `JsonRpcServer` | reader, dispatch and writers of JSON-RPC with the serving loop and its end | what the client sends, the queue, what each thread is about to write, `response_mutex_`, the stream as a sequence of headers and contents |
| `JsonRpcServer_proofs` | | theorems |
| `ModuleMap` | `insert()` and `find()` | the ranges and the log of load events; `found` is an operator |
| `SymbolResolvers` | the resolvers and what they share; **composes** `ModuleMap`, whose modules they resolve, and the setters of options and filters | per resolver its caches and a program counter, with one action per visit to the cache directory; the directory; the local disk and the servers as a constant world |
| `SymbolResolvers_proofs` | | theorems about `ModuleMap` and `SymbolResolvers` |
| `Histories` | what the two process contexts and providers have in common: histories, searches by time, the merge of samples | operators; a history is a function from ids to sequences of entries |
| `EtlRecording` | the handlers and `finish()` of the .etl context, and its data provider; **composes** `Histories` | the context as a record of its maps; a recorder with one action per kind of event, the samples read one by one |
| `PerfRecording` | the same for perf.data files, with attributes, descriptors and ids of samples | as above; events may come late |
| `PerfRecording_proofs` | | theorems |
| `ProgressReporter` | `progress_reporter` as a record and functions on it | `Reporter`, `Progressed`, `Finished` |
| `ChunkedReader` | `chunked_reader` as a record and functions on it; a byte is its place in the file | `read_next_chunk`, `keep_going`, `retrieved` |
| `EtlFile` | `etl_file::open()` and `process()`; **composes** `ProgressReporter` | the file, per processor its remaining buffers and current position, the priority queue, what was handed over |
| `PerfDataFile` | `perf_data_file::open()` and `process()`; **composes** `ChunkedReader`, `ProgressReporter` | the stream's position, the stack of readers, what each has handed out |
| `RecordingFile` | `storage::read_document()`: the choice of a provider, the archive and its temporary directory, cancellation; **composes** `EtlFile` and `PerfDataFile` (INSTANCE) | the stage, the extraction, the directory on disk |
| `RecordingFile_proofs` | | theorems about `RecordingFile`, and with it `EtlFile`, `PerfDataFile`, `ChunkedReader`, `ProgressReporter` |
| `StacksAnalysis` | `analyze_stacks()`; **composes** `ProgressReporter` | the vectors of the result as sequences, its counters as two functions (total, self); one action per sample without a stack, begin, frame and end of a stack, source, and end; `seen` is the history its properties compare with |
| `StacksAnalysis_proofs` | | theorems about it and about `Views` |
| `Views` | what the handlers make of an analysis; extends `StacksAnalysis` | operators on its state: pages, hottest functions, hot path and expanded nodes, callers and callees, lines |
| `MC...` | instances of these for TLC: sets of model values, scenes | |

Threads that call each other are composed by promises. The scheduler sees the
pool as a FIFO of closures of which at most `MaxWorkers` run, and `ThreadPool`
is shown to implement that (`ImplementsTaskPool`). The storage sees the
scheduler as `DocumentTasks`, and `DocumentTaskScheduler` is shown to
implement that **for loads in which no two reads of a document can run
together** (`ImplementsDocumentTasks`); for others it does not, see section 5. So
what is said about the storage is conditional on that promise. That every request is
answered (`EveryRequestAnswered`) is claimed only until two reads of a document may run
together: the storage assumes that tasks are started only while the scheduler is known to
start them. In the same way
`RecordingFile` shows that events come as they lie in the file, and `EtlRecording` and
`PerfRecording` begin with events: in the order of time for the one; for the other each
event is the latest so far, or is late by one of the offsets the scene has, also behind
later events of its own thread.

The recorders of these two are not part of the repository. They record what an operating system
does: a process starts and ends, its id comes back, a thread is switched to before it is announced,
a stack follows its sample or comes by key. What a recorder may record in one run is a *scene*, a set of
kinds of events with bounds of its own, so that each scene goes deep where all kinds together would not.

A definition that stands directly above another one with the same parameters,
that nothing uses and whose name says how it differs, is the code with a
plausible bug in it. Section 4 says which property notices it.

Abstractions: a task, a request, a module's payload, a message, a name is a number or a
model value. An event of a trace file is its time stamp, or its size and place; in a recording
it has its kind and the fields handlers look at. A computed result is
the filter it was computed with and whether it is whole. A frame is its module,
symbol, file and line. A file with debug information is the build it is of and whether it is whole. Undefined behaviour is
not given a meaning: the models say when it is reached (`EntriesLive`,
`OnlySharedEntriesDangle` for iterators) or leave its cause out and this file says
so (sections 5 and 7).

## 3. The runs

`tlc -config X.cfg M`, with the module that `PROJECT.json` names.

| run | asks | bounds | distinct states |
|---|---|---|---|
| SchedulerSafety | what the scheduler keeps under every load | 2 documents, 4 tasks of any access, 2 workers; documents symmetric | 280936 |
| SchedulerLoneReads | what else it keeps if no two reads can run together, with liveness and refinement | the same | 213176 |
| SchedulerTaskLost | is every task run? **no** | 1 document, 3 reads | 1658 |
| ThreadPoolPromise | does the pool implement `TaskPool`? | 1 submitter, 4 tasks, 2 workers | 6237 |
| Requests | the life of requests, with ids used again, failures, cancellation | 3 requests, 3 ids | 981621 |
| StorageHandlers | what requests are answered, and from what | 2 documents, 2 filters, every sequence of 4 requests | 335462 |
| JsonRpc | is everything answered once and whole, and when does the server end? | 2 to 4 messages of every kind, 2 workers, 1 progress notification each | 473846 |
| Symbols | does each frame get the symbol of its module, from the right file? | every sequence of 3 modules, 5 addresses, 2 times; 5 frames; 2 resolvers, 1 kill, 2 servers; options and filters set before | 423543 |
| RecordingFiles | is each event handed over, once, whole and in order, and everything tidied up? | .etl: 3 buffers of up to 2 events, 2 processors, 2 times, resolution 2/5, a total that wraps or does not; perf.data: chunks of 5, up to 4 elements of sizes 0 to 4, the end missing, or a section cut off by 1 or 2 | 523912 |
| Analysis | is everything counted that is in the stacks, and nothing else, and can the client see it? | 2 sources, up to 3 samples, samples and frames together at most 6, so up to 5 frames, of 4 kinds; resolution 2/5; requests for 2 entries | 90013 |
| EtlRecording | does everything end up where it was recorded for? | 8 scenes of 4 to 7 events; a counter of 5 values | 1132904 |
| PerfRecording | the same, with late events and several sources | 8 scenes of 4 or 5 events, late by 1 or 3 (two events come between two others, or behind the next one); names symmetric | 713108 |

Why the bounds are enough. *Scheduler*: the smallest load that breaks the promise
needs three tasks of one document (two reads that run together and what comes after them);
four tasks on two documents also give one document a history before it and let the
other interfere through the ready list, the pool and the condition variable. Two workers
are what it takes for tasks to overlap; the proofs cover any number. *Pool*: a third
task finds both workers busy, a fourth waits behind it. *Requests*: three requests allow
an entry to be shared by two and looked for by a third; with as many ids as
requests the client may also not share. *Storage*: a cache is filled, its filter
changed, and read again in four requests; the second document takes requests of
its own, whose tasks run beside those of the first. *JsonRpc*: beside a scheduled request there is every kind of message
that may write to the stream or end the server at the same time, then the end of the
input, `exit`, or `shutdown` and `exit`; the proof covers any number of all of them. *Symbols*: three modules on five addresses
reach each branch of `insert()`, the gap between two ranges and a third module over both
included; frames lie in each module, before, after and outside of it. A race for a file takes two
resolvers, a crash in it one kill; each of the two may need its file again for another module. The proof covers
any number of modules, frames and resolvers. *RecordingFiles*: with three buffers one
processor has two (or all three), out of order in the file, and the other's events
lie before, between and after; a resolution of 2/5 has no step at 100 %, which is
where the code takes care. With chunks of 5, up to three elements of sizes 2, 3 and 4 (and 0, smaller than a
header) leave everything from nothing to 4 bytes over at a border; four elements of sizes 3 and 4 fill three
chunks; a section that is cut off by 1 or 2 ends in an element or in its header. Two time stamps are what it takes for events to
be at the same time or not. The proof covers any sizes. *Analysis*: samples and frames together are at most six, so that three samples have three frames, two
have four and one has five. Four frames are two
stacks with a common or a different beginning, a recursion through another function, or a
frame without a file above one that has one; two modules have a function of the
same name, and one function has lines in two files. The proofs cover any number of frames. *Recordings*: an id that comes back needs
start, end and start of a process and of a thread, and a sample, seven in all; one process and
its thread renamed, with late events, need five; an event that is late by 1 stands behind one
that happened after it, one that is late by 3 behind two, and in scenes of four events with both two late ones change places.
A counter of five values overflows within two switches. A stack by key takes sample, key and
stack, and its key is used again in a scene of five.

Deadlock checking is off in all of them: the server stops when told to, a client may
stop asking, and files end.

## 4. Properties, and the bugs they notice

For every property of a passing run there is a variation of a modelled definition
under which TLC finds the property violated.

| property | says | variation that breaks it |
|---|---|---|
| `DispatchedInOrder` | tasks of a document leave its queue in the order of the calls | `enqueued_in_front` |
| `CountersExact` | the counters are the tasks in flight, also across the unlocks | `reads_after_keeping` |
| `ReadyListSound` | a document is on the ready list once, with a task, and nobody is about to add it again | `continues_always` |
| `ShutdownDrains` | when the thread has left nothing is queued; when `serve()` deletes the scheduler nothing refers to it | `drained_without_looking` |
| `ImplementsDocumentTasks` | a write runs alone; the scheduler is a `DocumentTasks` | `is_queue_ready_despite_reads` |
| `EveryTaskRuns` | no wakeup is lost, every task gets its turn | `NotifyNobody` |
| `ShutdownEnds` | `serve()` gets through its end | `ShutdownNotifiesNobody` |
| `StopDrains` | `stop()` returns with nothing left | `leaves_when_stopped` |
| `ImplementsTaskPool` | started in order, whenever there is room, none after `stop()` | `SubmitWhenStopped` |
| `OnlySharedEntriesDangle` | an iterator is only lost by requests that share an id, after one was answered | `CancelRequestDroppingTheEntry` |
| `AnsweredOnce` | one answer, by a result or an error | `ReportErrorAndGoOn` |
| `OnlyFailuresStay` | no entry is left behind but those of failures | `EraseNothing` |
| `CancellationsReachTheirs` | the handler of a request the client names before it is answered sees itself cancelled from then on, and no other does but one that took over the entry of an answered request | `StartAfresh` |
| `DocumentsThere` | a document that was read is there until it is closed, and a handler that needs samples never follows the null provider of one that could not be read | `access_type_read_only_close` |
| `AnswersFollowRequests` | the numbers in an answer are those of the filter set before it was asked, and leave samples out only after a cancellation still in a cache | `filtered_keeping_totals` |
| `EveryRequestAnswered` | every request is answered, also one for a document that is closed by then, as long as no two reads of a document can run together | `FindNothingAndDie` |
| `AnswersWhole` | the answers of handlers do not tear each other apart | `locked_results_only` |
| `EachServedOnce` | each message has the answer it asks for, once, after its progress, and before the server ends | `drained_queue_only` |
| `EveryCallAnswered` | every request that was read is answered, also when the client is gone | `WriteContentHoldingTheMutex` |
| `ExitEndsServer` | an exit ends the server, with or without a shutdown before | `drained_after_shutdown` |
| `ModulesFound` | ranges are disjoint and in order, the module found is the last one loaded there, and one is only missed beside an older, partly overlapping one | `split_overlapping` |
| `SymbolsOfTheirModules` | a frame has the symbol of the module at its address at its time, none of an image that is filtered out | `key_of_the_process` |
| `BuildsChecked` | no pdb of another build is used, and the cache directory is left with whole files, unless two meet at a file | `accepted_unchecked` |
| `GivesUpForAReason` | what is there is found, whatever else is on the way | `usable_if_there` |
| `EventsHandedOver` | events of an .etl file come in the order of time, and entries, ids and events of a perf.data file as they lie there, whatever lies across a border of chunks, unless a section is cut off | `goes_on_always`, `left_where_it_is`, `all_bytes_to_read` |
| `ProgressTold` | reports grow and reach the whole in each phase that is completed; they do not go beyond it unless an .etl file has 4 GiB or more | `advanced_past_the_end` |
| `EndsTidily` | reading ends whatever fails and whenever it is cancelled, except for perf.data files with a section that is cut off; the temporary directory is removed unless the system refuses or its path was never stored | `forget`, `unmarked` |
| `TreeOfPrefixes` | the call tree has one node for each beginning of a stack, and its hits | `found_anywhere` |
| `CountersOfFrames` | hits of modules, functions, files, lines, callers and callees are those of the frames | `called_from_others` (also `the_file`) |
| `FinishedMeansAll` | an analysis that ends without a cancellation has counted every sample of every source and said so | `AbandonSource` |
| `AnswersShowAnalysis` | pages list every function once and in order; the hottest are the hottest; the nodes of the hot path and those expanded below are the call tree; the lines account for the hits of their function; callers and callees are listed or accumulated without one missing, each item with the hits of one of its functions, which do not add up | `span_counted_from_the_front` |
| `SamplesHandedOut` (`EtlRecording`) | a sample is handed out for the thread and process that lived then, in order, as often as it is counted | `FoundLast` |
| `StacksOfTheirSamples` | a sample has the halves of its own stack, though stacks come later and keys are used again | `StackOfKeyKeepingRefs` |
| `SwitchesOfTheirThreads` | no switch, and of the counters no slice that ended with a switch, is lost or counted twice when a thread id is used again; the slice that runs when a thread starts or ends is lost | `flushed_keeping` |
| `ProfiledFamilies` | the profiled processes are the targets and their descendants | `with_children_once` |
| `NamesRecorded` | images have their PDB infos and drives, sources their names | `matching_by_base` |
| `SamplesHandedOut` (`PerfRecording`) | the same for events that come late, also in the wrong order of their own thread, and for processes that are renamed; not for threads whose forks are in the wrong order or whose samples are mixed across a change | `NextThreadsWhileAny` |
| `NamesInForce` | a thread has the name and process that were the last it was told, and no other's; not names in the wrong order among those of their thread, nor those `finish()` cannot insert | `NamedThreadAlways` |
| `SourcesDescribed` | each source can be asked for under its name, unless its first sample has no id; with the id at the front of the samples only the newest source can | `NameOfSourceAnyId` |

The type invariants (`TypeOK`) of the scheduler, the pool, the requests, the JSON-RPC
server and the storage are proved (section 6); that of `DocumentStorage` is part of
`AnswersFollowRequests` as well. `NothingJoinsAWrite`, `WriteIsExclusive`, `ReadyDocumentsAreReady`,
`EntriesLive` and `WorkersBounded` (at most the maximum, and one more for each further submitter) are proved without a run of their own.

**Fairness.** Threads make progress inside the code of a component: weak fairness of
each thread's next step, justified by a preemptive operating system and mutexes that
are held for short critical sections only. Weak fairness is enough because no
step that is waited for is disabled again by another thread for ever, and strong
fairness of a mutex is not assumed: where it would be needed (`WriteHeader` of
`JsonRpcServer`) the messages are finitely many. Nothing obliges the main thread to
get another request, a client to ask or to cancel, or, in the pool, a task to
end. Requests have safety properties only: several handlers never look at their token, so nothing is said about
when a cancelled one ends. The scheduler's liveness does assume that the bodies of tasks end. That of
the storage assumes that the scheduler starts each task it owes, as
`EveryTaskRuns` shows for lone reads, and nothing more once two reads of a document may run together
(`ReadsTogether`), because the scheduler may have lost a task then. `RecordingFile` assumes only that
`read_document()` goes on: nobody has to cancel it or to close the document.
The recordings, the resolvers and the analysis have safety properties only and assume nothing.

## 5. Where the code departs from what it says

**Scheduler.**

1. A task may be lost (SchedulerTaskLost). Two reads run; the one that emptied
   the queue ends first and finds nothing queued. A task that is scheduled then is
   not made ready by `schedule()`, because a read still runs, nor by the
   completion of that read, which had left the queue ready. `shutdown()` then waits for ever.
2. A write may run beside reads (`document_task_scheduler.cpp:99-104`). Two reads run,
   the second emptied the queue. A write is scheduled; the completion of that second read puts the document
   on the ready list although the first still runs, and the scheduler thread, which only
   asserts `is_queue_ready()` there, dispatches the write. This is why `ImplementsDocumentTasks` is
   checked under lone reads only.

Both need two reads of a document at the same time. The loads without them
are `LoneReads`, and for them the promise is kept and proved. The handlers of today can leave these loads: those for sample sources,
session and system information, processes and the samples of a process are registered as read only
(`snail_server.cpp:737,783,817,869,1032`), as is the second one for filters, which is never called; those that compute (functions, call tree, callers, lines)
are registered as writing, with a comment that this may change. A client that asks three such questions about a document
before the first answer can lose the third. A single read that is scheduled while another runs waits for it
(`document_task_scheduler.cpp:138`), although the class comment allows both.
Tasks of different documents are not independent, although the
class comment says "that we can always execute tasks that operate on different
documents concurrently" (`document_task_scheduler.hpp:23-24`): `create_document()`
inserts into `open_documents`, an `unordered_map`, and `close_document()` erases
from it (`storage.cpp:202,235`) while tasks of other documents look themselves up,
without a lock. Options, filters and path map are set by the main thread in the same way, while `readDocument`
copies them in a worker.

**Pool.** `--max-workers 0` is accepted (`main.cpp:126`) and leaves every task
unrun. If two threads submitted to one pool they might exceed its maximum by one, which
`WorkersBounded` allows for; the server has one.

**Requests.** A failed request keeps its entry, and an answered one has it until `erase()`. A cancellation that comes then marks this
entry, and a later request of the same id, which takes over the entry instead of inserting its own, begins cancelled.

**JSON-RPC.** `send_request()` writes without `response_mutex_` (`jsonrpc/server.cpp:26`), and so do the
replies to messages that cannot be dispatched (38, 43, 52, 87): their pieces may come between the header and the content of an
answer. With `--stdio`, lines for the log go to the same stream. At the end of the input the loop of
`read_header()` never ends (`stream_message_reader.cpp:39`): what was read is answered, and the main thread spins. A bad header, parameters
that do not fit and ids that are neither strings nor integers are exceptions that leave `serve()`, and `main` has no
handler for them; handlers that throw something other than a `std::runtime_error`
end the process, too. Requests are still served after `shutdown`.

**Module map.** A module that is inserted over two ranges with a gap between them
is added to the ranges, not to the gap (`module_map.hpp:250`). `ModulesFound` holds and says that this is
all that is missed. The special case of `insert()` (198-211) may also match a range that was cut from a larger
module with an equal payload, so that its assertions may fail.

**Symbols.** Sessions are cached by process and load time, so modules of one process that were loaded at the same time
(all those that `perf` synthesizes have time 0) share the debug information of the first. Failed and
filtered lookups are cached for good. A lookup of a pdb removes a file that another
resolver is just downloading, and may load one that was truncated or replaced between check and read. A refused download removes
the output path, be it someone else's file. Binaries are not validated: what is in the cache directory is
trusted, half a binary of a killed download for good, and two downloads at once can leave a mixture. Without
pdb information any pdb of the right name is accepted. Downloads have no timeout.
Module filters accumulate over the requests that set them, while options of searches start anew each time.

**.etl recordings.** A thread id that is used again in a process of the same id continues the old thread,
and a process with the same image and command line the old process. A target that descends from another target is
yielded and counted twice, although a comment says that the code shall "never add a process to the list that is already in it"
(`etl_file_process_context.cpp:326-329`): its key has the time when it became a target. The `break` near line 196 leaves later unnamed
counter sources of a thread without a name. Erasing the data of context switches at the start and the end of a thread
loses the running slice of its counter (`SwitchesOfTheirThreads` counts what ended with a switch). A counter that overflows asserts, or counts only from 0. The last switch from a thread, recorded after its end, goes to the next thread of that id.
A physical disk that is announced after the logical disks of a later one gives a wrong drive. Of two samples of a thread
at one time in one storage only the last gets the stack. Frames in the kernel need modules of process 0, without which `at()` throws.

**perf.data recordings.** The id at the front of a sample (`PERF_SAMPLE_IDENTIFIER`) is overwritten by the missing one in the
middle (`parser/records/kernel.cpp:58-64`): with several events only the source that was new last can be asked for. `finish()`
inserts names before later entries of a history, which asserts or drops them. Two lives of a process id
with no name or the same are one; every fork adds a thread to its process even if the process stays the same, so that a thread id used again in a renamed
process is in two processes and counted twice. A sampled process without memory maps makes `get_modules()` throw, and a
thread whose process no event tells of is dropped. Several attributes without ids dereference a `nullopt`. Events are not sorted although
they come from the buffers of several processors, between which a thread may move, and are searched as if they were
(`perf_data_file_process_context.cpp:298-313`): where the samples from before and after a change of a thread are mixed, or the forks of its
id are in the wrong order, samples are lost or go to another thread; a name that stands after a later one of its thread asserts, or is lost; and the samples of such a
thread are yielded in the order of the file.

**Reading files.** The token that cancels `etl_file::process()` is
only tested between runs of events of one processor, so that a recording of one
processor is never interrupted; neither `etl_file` nor `perf_data_file` calls `finish()` on its progress when cancelled, and
the latter goes on to make sense of what it has. The chunked reader takes what is left over from the end of its buffer
(`chunked_reader.hpp:34-37`), which is right if the chunk filled it: in a section whose last part is cut off the
rest is garbage, or the chunk after it has no bytes and the loop never ends (a build with assertions stops); only the loop over the events
looks at the token then. The total work of an .etl file is the product of two 32-bit numbers
(`etl_file.cpp:441`), and wraps at 4 GiB: the listener is told of the whole long before the end, and of more after it. An event that says it is smaller
than its header ends reading without `finish()`. A swapped byte order without a hostname resets the features. The
temporary directory of an archive stays when the process is killed, or when the name of the recording in it cannot be
made a path (`diagsession_data_provider.cpp:170-175`: an exception between the directory and the member that remembers it), and a cancelled extraction ends as if the file had been read.

**Answers.** The accumulated item of callers and callees shows the hits of the last function, not the sum (`snail_server.cpp:295`), and
items show the hits of a function, not those of the pair they are sorted by. `setSampleFilters` is registered twice (759, 832); the second handler is ignored.
A cancelled hot path leaves its last node without children. Totals of recursive functions exceed 100 %.

## 6. Proofs

`tlapm M_proofs.tla` checks them. They hold for every value of the constants that
satisfies the named assumptions (finite sets, naturals).

*Scheduler.* The invariants are not inductive by themselves: that a document is
on the ready list once says nothing about a completion that is about to add it.
`IInv` adds who may do so: `QueuesSound` (a queue holds exactly the queued tasks, in
order), `BlockersSound` (of the tasks of a document in flight at most one,
the *blocker*, saw a queue that was no longer ready when it was dispatched; every write is
one; and a document on the ready list has no running write), `HandoversSound` (a popped task
is in exactly one place) and `ThreadsEndInOrder`. From
`IInv` follow `TypeCorrect`, `TasksDispatchedInOrder`, `WritesNotJoined`, `CountersCorrect`,
`ReadyListCorrect` and `ShutdownLosesNothing`, under every load. For loads of lone
reads `AllBlock` is invariant as well: after every dispatch the document leaves the
ready list, because the next task conflicts (`NextIsNotReady`). A ready document then has nothing in flight, from which
`LoneReadsExclusive`, `LoneReadsReady` and `LoneReadsImplementPromise` (every step maps to a step of
`DocumentTasks` or to a stutter) follow.

*Pool.* The test of the size and the spawn are apart, so that the number of workers is
bounded only together with those between the two: `SpawnsCounted` counts a submitter that passed the
test as the worker it may spawn. That nothing is left by `stop()` needs that a queued task has a worker that is not gone or a
submission that will spawn one. `WorkersAreBounded` and `StopLosesNothing` (where the maximum is not 0).

`PoolKeepsItsPromise`: every step of the pool is one of `TaskPool` or a stutter if one thread submits
and there may be a worker. It needs that a task is in one place at a time, once in the queue or with one worker, which is then
running (`TasksInOnePlace`), so that the tasks that run are at most as many as the workers.

*Requests.* The invariant (`RequestsInv`) adds that an entry's inserter points to it and that
requests arrive in order. `EveryRequestAnsweredOnce`, `OnlyFailedRequestsStay`,
and `IdsUsedOnceKeepEntries`. `CancellationsFindTheirs` (`CancellationsReachTheirs`) needs to know whose entry a cancellation
marks: `CancellationsInv` adds that a marked entry is that of a request that was named or is answered, and that a request without
an entry of its own found that of an answered one. `OnlySharedEntriesLost`
(`OnlySharedEntriesDangle`) is about clients that do use ids again: a closure whose entry is gone
shares its id with a request that was answered in the meantime and took the entry along.

*JSON-RPC.* `TypeCorrect` and `AnswersNotTorn`: `AnswersWhole` for any number of workers, any conversation
and any amount of progress. That what was written is whole is not inductive: a content may only be
written by the thread whose header was the last. The invariant adds that a thread holds the mutex exactly while it is between the
two pieces of an answer (`MutexOfTheAnswering`), that the last piece of an answer is then its header
(`HeaderOfTheHolder`), and that it is a content while the mutex is free (`CompleteWhenFree`). What is written
without the mutex comes in between and changes none of this. `ServedOnce` (`EachServedOnce`) is about one message all the way:
a request that was read is in the queue, with one thread, or answered, and never in two of these (`InOnePlace`,
`NothingForgotten`), a thread writes the kind of answer that its message asks for, after its progress (`BoxesOfRead`, `AnswersRight`),
and when the server has ended no queue or thread has anything left (`EndedEmpty`).

*Storage.* `TypeCorrect`, `AnswersOfTheFilter` (`AnswersFollowRequests`) and `DocumentsAreThere` (`DocumentsThere`),
for any number of documents, filters and requests. They rest on what the scheduler promises, since `DocumentStorage`
takes its steps from `DocumentTasks`. An answer compares two ends of a long way: the filters
a client has set, in the order of its requests, and the filter a document has when the task runs. `IInv` connects them in three parts.
`Bookkeeping` says how far each task is and tells the promise of the scheduler by these steps: a task that has had its turn has
all earlier ones of its document before it, and if either of two is a write the earlier one is finished (`OrderKept`); a queue holds the waiting requests
in order (`WaitingSound`); and each document has its `readDocument` first (`DocumentsNumbered`). `FilterFollows` says that a document has
the filter the client had set before request `t` once exactly the filters set before `t` have been applied; lemma `Turns` gets
that premise for every task at its turn from `OrderKept`, and the answer follows. `MissingForAReason` names, for
each value that is not whole, the request to blame: one that reads the document (`ReadCanceled`) or one that filled the cache
while the filter was the one it still is (`PageCanceled`). For `DocumentsAreThere` the invariant adds that a document that is no longer in the map has a
`closeDocument` that is finished, that one whose `readDocument` was answered with a result has a provider (`DocumentsFound`),
and that errors come only after the former.

*Module map.* `FindsModules` (`ModulesFound`) for any sequence of load events. The ranges are built by recursion over the log in the
code and event by event in the model, so that the invariant is one of steps. `GoodRanges` says of the ranges after `n` events that
they lie apart and in order (`Apart`), that their modules cover them and are in the order of time (`Fits`), that each begins and
ends where one of its modules or a neighbour does (`Edges`), that
every module that meets a range is in it or equal to the one before it there (`Known`), and that an address of a module
is without a range only if the module was inserted over another one beside the address (`MissedBeside`). What happens to a range the new module lies over
is the same in each branch of `insert()` (`Grown`); splits and what lies behind the last range are taken one by one.

*Symbols.* `FramesGetTheirSymbols`, `BuildsAreChecked` and `NobodyGivesUpInVain` (`SymbolsOfTheirModules`, `BuildsChecked`,
`GivesUpForAReason`), for any number of resolvers, modules, frames, servers and kills. What a
resolver knows about a file is old when it uses it, because between two of its visits to the cache directory another
one may download, remove or be killed. The invariant says who knows what until disturbed: the settings are those of the requests so far, and
nobody begins before the document is open (`OptionsInv`, `Untouched`); while nobody raced, a
resolver finds the file at the place its program counter says (`LookupInv` of `Wanted`, `Placed`, `Knows`); who opens or removes the
file of another in the middle has disturbed it, and it is marked (`OpenDisturbs`); a file that is not whole belongs to someone who is
still writing it, or somebody was killed or raced (`FilesInv`, `Doubt`); and sessions and symbols are of the module they are
kept for (`SessionInv`, `SymbolInv`). A step is shown to keep what the resolver knows itself (`OwnStepSInv`) and what the others
do (`ChangedFileSInv`). That a race excuses what went wrong is part of the properties and not of the proof: a resolver that nobody disturbed
has no excuse.

*Analysis.* `TreeMatchesStacks`, `CountersMatchFrames` and `NothingSkipped` (`TreeOfPrefixes`, `CountersOfFrames`,
`FinishedMeansAll`), for any number of sources, samples and frames. `IInv` follows the vectors of the result. Names occur
once in them, and every frame seen has its ids there (`VectorsInv`), so that ids never change and a vector that grows takes
nothing away. Counters are sizes of sets of places: of frames, of calls, of stacks that begin with the path of a node
(`CountsInv`), and a step that counts a frame adds one element to each of these sets. Nodes have larger ids than their parents
(`TreeInv`), which makes the path of a node a function of the node alone, that stays when the tree grows; and the node
that the loop remembers stands for the stack so far (`StackInv`), which is why the node that is found or appended stands for the next
beginning of it, and no other does. `ProgressInv` has the sum of the samples of all sources. Sums and paths are recursive functions; what is said about
them is proved by induction over the naturals, which `Induction` takes from the well-foundedness of `<`.

*Answers.* `AnswersAreComplete` (`AnswersShowAnalysis`), for any analysis that ends, any sizes of pages, counts and maximums of entries, and any functions
of the other process. `ViewsInv` adds to the invariant of the analysis that what is in a map of counters was
counted (`CountersPositive`: a function that is listed as a caller has called) and that the kind of a sample tells whether it has frames
(`KindsTell`). The rest is said of the state in which the analysis is done, one lemma for each kind of answer.
Pages of any size are consecutive parts of one list that begins where the page before ended (`PagesJoined`), and the self hits on them are the samples, because
each sample with frames ends in one function (`SelfAddsUp`). The hottest of all processes are among the hottest of
each (`HottestOfTwo`: an entry that was no candidate has as many hotter ones in its own process as were asked for). Each step of the hot path goes to a child with the most hits,
and it ends because children have larger ids (`HotPathIs`); that a client gets to every node from what is shown is an induction over the ids (`BrowsedAll`),
where a node that the answer says has no children has none (`HotPathIsExpanded`). Callers and callees that are accumulated are those behind the last one
that is shown, and each item has the hits of a function in it (`RelatedAreShown`); nothing is claimed of their sum. The hits of the lines of a function are the sizes of sets that divide those of the function (`LinesDoAddUp`).

*Recording files.* `HandsOverEvents`, `TellsProgress` and `LeavesNothing` (`EventsHandedOver`, `ProgressTold` and
the safety half of `EndsTidily`), for any number of processors and buffers, any events in them, any sizes of chunks, elements and sections, any resolution of the progress, and any size at which the total of an .etl file wraps. `IInv` has a part for each of the three things that `read_document()` does.

- `EtlInv`, about the merge of an .etl file. A place of the file is *accounted for* when its processor has no events
  left or is behind it (`Accounted`); what was delivered is exactly the events among these, and the work reported is their number
  (`WhileWorking`). Each processor at work is at an event of one of its buffers and has exactly the buffers of
  later sequence numbers before it, the next of them last (`AtWork`); the queue has the time of its next event (`QueueRight`), and no
  such event is earlier than one that was delivered (`TimesRight`). Since the sequence of events in a buffer and that of
  the buffers are in the order of time, all this is kept by the one step that is taken at the processor of the earliest time.
- `PerfInv`, about the readers of a perf.data file. Of a reader the invariant says where its section lies, how much
  it has handed out, and that its chunk has exactly the bytes behind that, whatever was left over from the chunk before
  (`ReaderAt`); that the stream is where the reader goes on, or has failed (`StreamAt`); and for the one around it, that this is the place the stream is put back to
  (`ReadersRight`). What was handed out is as many whole elements as the results have (`AttributesReader`, `IdsReader`,
  `FeaturesReader`, `BuildsReader`, `EventsReader`), so that the next element is the next one of the file (`TakenOfChunk`); that it is the
  size it is taken for follows because no two headers lie at one place (`SizeIsKnown`). A loop ends when nothing is left (`NothingLeft`), and then as many elements were read as there are.
  `WholeParts` is about the headers of features: their size divides the chunk, so that none of them is ever cut in two. That is needed,
  because the loop moves on to the next feature before it looks whether the header is there. Offsets are sums
  over the elements before; that sums of longer beginnings are larger is proved by induction (`FirstSumsGrow`).
- `ArchiveInv`, about the extraction: a directory that exists is remembered, or about to be, or never had a name (`unnamed`); and one that outlives its provider was refused to be removed or is such a one.

What a listener is told (`Told`) is proved of the reporter for itself (`ReporterStarts`, `ProgressedTold`, `FinishedTold`): reports grow,
none is ahead of the work, and before the end the next report is due at the end at the latest. TLC finds `IInv` true in the states
of `RecordingFiles` too (with the naturals of `WholeParts` cut off at 30); that is how it was found, and it is not one of the runs.

What is read of a perf.data file is said of files without a section that is cut off (`Whole`): the sizes of sections are the sums of their
parts then. The assumptions are that buffers have room for their events, an attribute and the header of an event fit into a chunk, and the
size of a feature's header divides the chunk these are read in (`SizesAssumption`, `ChunksAssumption`); that the total of an .etl file does not wrap to 0 (`WordsAssumption`); that the steps of the progress
are no larger than the whole; and that a file consists of lists of numbers and of features the code knows (`ScenesAssumption`).

*Sources of samples.* `SourcesAreDescribed` (`SourcesDescribed`), for any file, events and attributes. A source is reached by an id of an event, and
named by the descriptor that has this id, so that the invariant (`RecordingInv`) follows the first sample of each attribute: sources are the attributes with samples,
each once (`SourcesRight`), and exactly the ids of their first samples lead to them (`LeadThere`), which a sample of an attribute that has
one already does not change (`HandledAgain`) and a new one extends by one id no other source has (`HandledFirst`). With the ids at the front all of them
are missing, and lead to the newest source. `finish()` does not touch either. That the descriptor with the id is that of the
attribute (`DescriptorIs`) needs that a recorder gives no id to two attributes, and in a file with one attribute no id that this one does not have
(`ScenesAssumption`, which TLC checks for the scenes of the run).

Only model-checked: all liveness (the provers do not reach fairness and `ENABLED`): `EveryTaskRuns`, `ShutdownEnds`,
`EveryRequestAnswered`, `EveryCallAnswered`, `ExitEndsServer`, `EndsTidily`, and the liveness in
`ImplementsTaskPool` and `ImplementsDocumentTasks` (reading a file ends, the first half of `EndsTidily`, among them);
and the properties of `EtlRecording`, and of `PerfRecording` those of names and of samples (`NamesInForce`, `SamplesHandedOut`):
the names are given by `finish()` in folds over whole histories, of which only an induction over the data could say what they make. The operators of `EtlRecording` that walk
trees of processes and devices are declared recursive, which the provers cannot expand.

## 7. What is left out

- Effects of undefined behaviour, once reached: erasing with a dangling iterator, races on
  containers and streams, an out-of-bounds processor index (`etl_file.cpp:490` lets an index equal to the number of processors through),
  modules of size 0 and `base + size` beyond 2^64, the garbage that is made of the last part of a section that is cut off: `PerfDataFile` has
  such files, and reading them, but nothing is claimed of what is read.
- Which exceptions a task may throw: `JsonRpcServer` lets any task end the process, `ActiveRequests` has those that are caught.
- A pool that is stopped while somebody is inside `submit()`: `serve()` joins the scheduler thread before.
- Recordings with a total size of 0, and .etl files of a multiple of 4 GiB (a quotient of 0 by 0 in the progress).
- `analyze_stacks()` without a progress listener, with a provider that has no sources
  (`sources.back()` of an empty vector, `analysis.cpp:201`), and `function.line_number`, which is set like `file_id`.
- Assertions that a function has one file (`analysis.cpp:290,317`): lines of inlined code
  break them, and the model follows what is done without them, the first file stays.
- Rounding of doubles in the progress, exact fractions stand for them, and the percentages in answers.
- Events of memory maps in `PerfRecording` and what both contexts do to share equal stacks, which only saves memory.
- Which entry of an archive is the recording, and the values of features (hostname, versions, processors).
- Handlers that show what a provider says of the system, the session, the processes and samples:
  they change nothing and compute nothing.
- Decompression, wildcards, GUIDs, the replacement of path prefixes: computations on bytes and characters; the
  field offsets of event records and their dispatch by identifier; socket and pipe buffers; the command line;
  generated code.
- The components that are external: LLVM's readers, curl, the symbol servers, the recorders, the operating system.

## 8. What remains

The modules cover every component that has state of its own. What a team might do next: prove
that the samples of one thread are read in the order of their time stamps, from what the recorders guarantee; runs of `EtlRecording` with all kinds of events in one scene, on a larger machine; and, since handlers are read-only today,
the scheduler's departures first.
