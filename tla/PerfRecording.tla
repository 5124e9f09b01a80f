----------------------------- MODULE PerfRecording -----------------------------
(***************************************************************************)
(* What becomes of a perf.data file: perf_data_file (snail/perf_data)      *)
(* finds the attributes of its events, perf_data_file_process_context      *)
(* (snail/analysis/detail) handles the events, and perf_data_data_provider *)
(* (snail/analysis) answers from it.                                       *)
(*                                                                         *)
(* The events come from a recorder, which is not part of the repository:   *)
(* perf writes them as its buffers fill, one for each processor, and       *)
(* nothing sorts them, so an event may stand after events that happened    *)
(* later, also of its own thread, which may have changed the processor.    *)
(*                                                                         *)
(* A definition that stands directly above the one it varies, and that     *)
(* nothing uses, is the code with a plausible bug in it; README.md says    *)
(* which property notices it.                                              *)
(***************************************************************************)
EXTENDS Histories

CONSTANTS
  Names,      \* names of processes and threads
  Layouts,    \* what the attributes of a file may say about ids: these and Identifier
  Identifier, \* the layout with the id at the front (PERF_SAMPLE_IDENTIFIER)
  Filters,    \* sample filters: records with min, max, processes, threads
  Scenes      \* records: kinds of events, bound of their number, and what is in them

ASSUME LayoutsAssumption == Identifier \in Layouts
ASSUME BoundAssumption   == \A s \in Scenes : s.events \in Nat

\* Ids are unsigned numbers, and the recorder gives none to two attributes; an event
\* that has an id in a file with one attribute has it from there.
ScenesRecorded ==
  \A s \in Scenes :
    /\ s.attributes \in Seq([ids : SUBSET Nat, layout : Layouts])
    /\ \A a, b \in DOMAIN s.attributes : s.attributes[a].ids \cap s.attributes[b].ids # {} => a = b
    /\ Len(s.attributes) = 1 => s.ids \subseteq {None} \cup s.attributes[1].ids
ASSUME ScenesAssumption == ScenesRecorded

VARIABLES
  scene,     \* the attributes of the file, and what kinds of events are in it
  log,       \* the events that have been read
  context,   \* members of perf_data_file_process_context
  phase,     \* "opening", "reading", then "finished", or "failed" by an exception
  query,     \* arguments of the samples() generator that was asked for
  reader     \* the generator

vars == <<scene, log, context, phase, query, reader>>

\* unique_sample_sources_ is the sequence of the attributes that have samples.
EmptyContext ==
  [process_names |-> <<>>, thread_names |-> <<>>, processes |-> <<>>, threads |-> <<>>,
   threads_per_process_id |-> <<>>, sources |-> <<>>, event_id_to_source |-> <<>>,
   samples |-> <<>>, sampled_processes |-> {}]

NoQuery  == [source |-> None, process |-> <<0, 0>>, filter |-> NoFilter]
NoReader == Opened(<<>>)

Init ==
  /\ scene \in Scenes
  /\ log = <<>>
  /\ context = EmptyContext
  /\ phase = "opening"
  /\ query = NoQuery
  /\ reader = NoReader

-----------------------------------------------------------------------------
(* The attributes of the file: event_attributes_database *)

Attributes == DOMAIN scene.attributes

\* validate(): where the id is must be the same for all of them.
Valid ==
  /\ Attributes # {}
  /\ \A a \in Attributes : scene.attributes[a].layout = scene.attributes[1].layout

Open ==
  /\ phase = "opening"
  /\ phase' = IF Valid THEN "reading" ELSE "failed"
  /\ UNCHANGED <<scene, log, context, query, reader>>

\* get_event_attributes(): of the attributes that have an id the last one counts;
\* 0 is where the exception is thrown.
AttributeOf(id) ==
  IF Len(scene.attributes) = 1 \/ id = 0 THEN 1
  ELSE Max({0} \cup {a \in Attributes : id \in scene.attributes[a].ids})

\* The id that parse_event() returns: the one at the front is overwritten by the one
\* in the middle, which is missing then.
ParsedId(id) == IF scene.attributes[1].layout = Identifier THEN None ELSE id

-----------------------------------------------------------------------------
(* The recorder *)

\* Each event happened after the latest one, or, if it is late, a little before it: at
\* an odd time, so between those before.  Two late events may come in any order.
Latest == Max({0} \cup {log[i].time : i \in DOMAIN log})
Times  == {Latest + 2} \cup {Latest - d : d \in {x \in scene.late : x < Latest}}

Record(e) ==
  /\ phase = "reading" /\ e.kind \in scene.kinds /\ Len(log) < scene.events
  /\ \A i \in DOMAIN log : log[i].kind = e.kind /\ log[i].tid = e.tid => log[i].time # e.time
  /\ log' = Append(log, e)
  /\ UNCHANGED <<scene, query, reader>>

\* A thread stays in its process until its id is used again, which a fork says.
About(tid) == {i \in DOMAIN log : log[i].kind \in {"fork", "comm"} /\ log[i].tid = tid}
StaysInProcess(e) ==
  \A i \in About(e.tid) :
    /\ e.kind = "comm" /\ log[i].time <= e.time /\ log[i].process # e.process =>
         \E j \in About(e.tid) : log[i].time < log[j].time /\ log[j].time < e.time /\ log[j].process = e.process
    /\ log[i].kind = "comm" /\ e.time <= log[i].time /\ log[i].process # e.process =>
         \E j \in About(e.tid) : e.time < log[j].time /\ log[j].time < log[i].time /\ log[j].process = log[i].process

-----------------------------------------------------------------------------
(* Handlers *)

\* operator== of process_data and thread_data
ComparedOfProcess == {"name"}
ComparedOfThread  == {"process", "name"}

WithKey(keys, pid, tid, time) == Assigned(keys, pid, Lookup(keys, pid, {}) \cup {[id |-> tid, time |-> time]})

Comm(pid, tid, name, time) ==
  LET e == [kind |-> "comm", tid |-> tid, process |-> pid, name |-> name, time |-> time]
  IN  /\ StaysInProcess(e) /\ Record(e)
      /\ context' = [context EXCEPT
           !.process_names = IF pid # tid THEN @ ELSE
             Inserted(@, pid, [time |-> time, name |-> name, end |-> None], ComparedOfProcess),
           !.thread_names =
             Inserted(@, tid, [time |-> time, process |-> pid, name |-> name, end |-> None], ComparedOfThread)]
      /\ UNCHANGED phase

Fork(pid, tid, time) ==
  LET e == [kind |-> "fork", tid |-> tid, process |-> pid, time |-> time]
  IN  /\ StaysInProcess(e) /\ Record(e)
      /\ context' = [context EXCEPT
           !.processes = IF pid # tid THEN @ ELSE
             Inserted(@, pid, [time |-> time, name |-> None, end |-> None], ComparedOfProcess),
           !.threads =
             Inserted(@, tid, [time |-> time, process |-> pid, name |-> None, end |-> None], ComparedOfThread),
           !.threads_per_process_id = WithKey(@, pid, tid, time)]
      /\ UNCHANGED phase

\* The number of a source.
SourceOf(sources, attribute) == Max({s \in DOMAIN sources : sources[s] = attribute})

\* No sample without thread or time is handled; the others are known by their number.
\* An id that no attribute has is an exception that ends process().
Sample(tid, id, timed, time) ==
  LET attribute == AttributeOf(id)
      is_new    == attribute \notin ToSet(context.sources)
      sources   == IF is_new THEN Append(context.sources, attribute) ELSE context.sources
      source    == SourceOf(sources, attribute)
      storage   == <<source, tid>>
  IN  /\ Record([kind |-> "sample", tid |-> tid, id |-> id, timed |-> timed, time |-> time])
      /\ phase' = IF attribute = 0 THEN "failed" ELSE phase
      /\ IF attribute = 0 \/ ~timed THEN UNCHANGED context
         ELSE context' = [context EXCEPT
                !.sources = sources,
                !.event_id_to_source = IF is_new THEN Assigned(@, ParsedId(id), source) ELSE @,
                !.samples = Assigned(@, storage, Append(Lookup(@, storage, <<>>),
                                                        [time |-> time, number |-> Len(log) + 1]))]

-----------------------------------------------------------------------------
(* finish() *)

\* A name is given to what has its id then, or else it is the name of something new.
NamedProcess(processes, pid, named) ==
  LET i == FoundStrictly(Entries(processes, pid), named.time)
  IN  IF i # 0 /\ processes[pid][i].name = None
      THEN [processes EXCEPT ![pid][i].name = named.name]
      ELSE Inserted(processes, pid, named, ComparedOfProcess)
NamedThreadAlways(c, tid, named) ==
  LET i == FoundStrictly(Entries(c.threads, tid), named.time)
  IN  IF i # 0
      THEN [c EXCEPT !.threads[tid][i].name = named.name]
      ELSE [c EXCEPT !.threads = Inserted(@, tid, named, ComparedOfThread),
                     !.threads_per_process_id = WithKey(@, named.process, tid, named.time)]
NamedThread(c, tid, named) ==
  LET i == FoundStrictly(Entries(c.threads, tid), named.time)
  IN  IF i # 0 /\ c.threads[tid][i].name = None
      THEN [c EXCEPT !.threads[tid][i].name = named.name]
      ELSE [c EXCEPT !.threads = Inserted(@, tid, named, ComparedOfThread),
                     !.threads_per_process_id = WithKey(@, named.process, tid, named.time)]

WithNames(c) ==
  LET named(pid, processes) ==
        FoldLeft(LAMBDA ps, e : NamedProcess(ps, pid, e), processes, c.process_names[pid])
      of_processes == [c EXCEPT !.processes = FoldSet(named, @, DOMAIN c.process_names)]
      of_thread(tid, d) == FoldLeft(LAMBDA t, e : NamedThread(t, tid, e), d, c.thread_names[tid])
      of_threads == FoldSet(of_thread, of_processes, DOMAIN c.thread_names)
  IN  [of_processes EXCEPT !.threads = of_threads.threads,
                           !.threads_per_process_id = of_threads.threads_per_process_id]

\* What has an id ends when the id is used again.
WithEnds(history) ==
  [id \in DOMAIN history |-> [i \in DOMAIN history[id] |->
     [history[id][i] EXCEPT !.end = IF i < Len(history[id]) THEN history[id][i + 1].time ELSE None]]]

\* A process is sampled if one of its threads lived between the first and the last
\* sample of its id from one of the sources.
LivedDuring(thread, samples) ==
  LET times == {samples[i].time : i \in DOMAIN samples}
  IN  thread.time <= Max(times) /\ (thread.end # None => Min(times) <= thread.end)
SampledProcesses(c) ==
  {p \in Uids(c.processes) : \E t \in Uids(c.threads), s \in DOMAIN c.samples :
     LET thread == Entry(c.threads, t)
     IN  /\ s[2] = t[1] /\ LivedDuring(thread, c.samples[s])
         /\ p = Resolved(c.processes, [id |-> thread.process, time |-> thread.time])}

\* After a cancellation process() goes on with what was read till then, as if the
\* file ended there.
Finish ==
  LET named == WithNames(context)
      ended == [named EXCEPT !.processes = WithEnds(@), !.threads = WithEnds(@)]
  IN  /\ phase = "reading"
      /\ phase' = "finished"
      /\ context' = [ended EXCEPT !.sampled_processes = SampledProcesses(ended)]
      /\ UNCHANGED <<scene, log, query, reader>>

-----------------------------------------------------------------------------
(* perf_data_data_provider *)

\* sample_sources(): those that an event id leads to.
SampleSources == {context.event_id_to_source[id] : id \in DOMAIN context.event_id_to_source}

\* The name of a source is that of its descriptor, by its number: the first one with
\* the id, and the first of all for samples without ids; or else there is a generic
\* one.
Descriptors == IF scene.described THEN Attributes ELSE {}
Matching(descriptors, id) == {d \in descriptors : id = None \/ id \in scene.attributes[d].ids}
NameOfSourceAnyId(source) == Min(Descriptors \cup {Len(scene.attributes) + 1})
NameOfSource(source) ==
  LET ids == {id \in DOMAIN context.event_id_to_source : context.event_id_to_source[id] = source}
      of  == UNION {Matching(Descriptors, id) : id \in ids}
  IN  IF of = {} THEN None ELSE Min(of)

ThreadSamples(t, source, filter) ==
  LET samples == Lookup(context.samples, <<source, t[1]>>, <<>>)
      span    == Span(samples, FilteredSpan(Entry(context.threads, t), filter).start,
                               FilteredSpan(Entry(context.threads, t), filter).end)
  IN  [i \in 1 .. Cardinality(span) |-> samples[Min(span) + i - 1]]

\* count_samples() of a process, and process(): number_of_samples of a source
CountSamples(source, process, filter) ==
  FoldSet(LAMBDA t, n : n + Len(ThreadSamples(t, source, filter)), 0,
          Admitted(ThreadsOf(context, process), process, filter))
NumberOfSamples(source) ==
  FoldSet(LAMBDA p, n : n + CountSamples(source, p, NoFilter), 0, context.sampled_processes)

OpenSamples(source, process, filter) ==
  /\ phase = "finished" /\ query = NoQuery
  /\ query' = [source |-> source, process |-> process, filter |-> filter]
  /\ reader' = Opened([t \in Admitted(ThreadsOf(context, process), process, filter) |->
                         ThreadSamples(t, source, filter)])
  /\ UNCHANGED <<scene, log, context, phase>>

NextSample ==
  /\ \E t \in NextThreads(reader) : reader' = Extracted(reader, t)
  /\ UNCHANGED <<scene, log, context, phase, query>>

-----------------------------------------------------------------------------

RecordEvent ==
  \E tid \in {x[2] : x \in scene.threads}, time \in Times :
    \/ \E pid \in {x[1] : x \in scene.threads} :
         /\ <<pid, tid>> \in scene.threads
         /\ Fork(pid, tid, time) \/ \E name \in Names : Comm(pid, tid, name, time)
    \/ \E id \in scene.ids, timed \in scene.timed : Sample(tid, id, timed, time)

Read ==
  \/ \E source \in SampleSources, process \in context.sampled_processes, filter \in Filters :
       OpenSamples(source, process, filter)
  \/ NextSample

Next == Open \/ RecordEvent \/ Finish \/ Read

Spec == Init /\ [][Next]_vars

-----------------------------------------------------------------------------
(* Properties *)

Finished == phase = "finished"
Forks(tid) == {i \in About(tid) : log[i].kind = "fork"}

\* Event j stands before i in the file, but happened after it.
Overtakes(j, i) == j < i /\ log[j].time > log[i].time
Ordered(events) == \A i, j \in events : ~Overtakes(j, i)
Overtaken(i)    == \E j \in About(log[i].tid) : log[j].kind = log[i].kind /\ Overtakes(j, i)

\* The names of a thread are inserted in the order of the file; one that stands after a
\* later one asserts, or is lost where assertions are compiled out.
Comms(tid) == About(tid) \ Forks(tid)
Settled(c) == \A d \in Comms(log[c].tid) : ~Overtakes(c, d) /\ ~Overtakes(d, c)

\* What a comm event says is lost if a later fork gives the id to another process, or
\* is the first one there is, unless it is the first name after a fork: finish()
\* would insert it before what is in the history already, which asserts, and does
\* nothing where assertions are compiled out.
Lost(c) ==
  LET tid == log[c].tid
  IN  /\ log[c].kind = "comm"
      /\ \E f \in Forks(tid) :
           /\ log[c].time < log[f].time
           /\ log[f].process # log[c].process \/ ~\E g \in Forks(tid) : log[g].time <= log[c].time
      /\ ~\E f \in Forks(tid) :
           /\ log[f].time <= log[c].time
           /\ ~\E d \in Comms(tid) : log[f].time <= log[d].time /\ log[d].time < log[c].time

\* So is a name that only repeats a lost one.
LostName(c) ==
  \E d \in About(log[c].tid) :
    /\ Lost(d) /\ log[d].name = log[c].name /\ log[d].process = log[c].process
    /\ log[d].time <= log[c].time
    /\ ~\E e \in {x \in Comms(log[c].tid) : Settled(x)} :
         /\ log[d].time < log[e].time /\ log[e].time < log[c].time
         /\ log[e].name # log[c].name /\ log[e].process = log[c].process

\* The events about the thread of sample i that had happened then.
Before(i) == {j \in About(log[i].tid) : log[j].time <= log[i].time}

\* Two processes after each other had the same id, and in each a thread did.
Reused(tid) ==
  \E f, g \in Forks(tid) : f # g /\ log[f].process = log[g].process
AtChange(i) == \E j \in About(log[i].tid) : log[j].time = log[i].time

\* Some event tells of the process.
Known(pid) == \E i \in About(pid) : log[i].process = pid

Handled == {i \in DOMAIN log : log[i].kind = "sample" /\ log[i].timed}

\* Of the samples of a source and a thread, those from before a change of the thread
\* stand before those from after it, so that a binary search that takes the samples to
\* be sorted finds the border.
SameStorage(k, l) == log[k].tid = log[l].tid /\ AttributeOf(log[k].id) = AttributeOf(log[l].id)
Partitioned(i) ==
  \A j \in About(log[i].tid), k, l \in {x \in Handled : SameStorage(x, i)} :
    Overtakes(k, l) => ~(log[l].time <= log[j].time /\ log[j].time <= log[k].time)

\* The processes and threads that sample i is handed out for.
Owners(i) ==
  UNION {{<<p, t>> : t \in {u \in ThreadsOf(context, p) : \E s \in SampleSources :
             \E k \in DOMAIN ThreadSamples(u, s, NoFilter) : ThreadSamples(u, s, NoFilter)[k].number = i}}
         : p \in context.sampled_processes}

\* A sample is handed out for exactly one thread, and for the process that this thread
\* belonged to at that time, though ids are used again, processes are renamed, and
\* events are late; a sample of a thread that no event has told of before, or whose
\* process none tells of, is not handed out.
\*
\* What the code does not put in order limits this.  One of the events that told of the
\* thread must have come in its turn among those of its kind.  Nothing is said where the
\* forks that use the id again stand in the wrong order, where samples of the thread
\* from both sides of a change are mixed, and of a sample that was taken just when its
\* thread started or was renamed, which counts for both.
SamplesOfTheirThreads ==
  Finished /\ SampleSources = DOMAIN context.sources =>
    \A i \in Handled :
      LET told == {j \in Before(i) : ~Lost(j)}
          last == {j \in Before(i) : \A k \in Before(i) : log[k].time <= log[j].time}
          known == \A j \in last : Known(log[j].process)
      IN  ~AtChange(i) /\ Partitioned(i) /\ Ordered(Forks(log[i].tid)) =>
            /\ Owners(i) # {} => told # {} /\ known
            /\ (\E j \in told : ~Overtaken(j)) /\ known => Owners(i) # {}
            /\ Owners(i) # {} /\ ~Reused(log[i].tid) =>
               /\ Cardinality(Owners(i)) = 1
               /\ \A o \in Owners(i), j \in last : o[1][1] = log[j].process

\* A thread and a process have the name that the last comm event gave them, and one
\* that was told of before it had a name has its first name from its start.  No name
\* comes from another thread or process.  That is so for names that are in order among
\* those of the thread, whatever forks and samples they come late behind, of threads
\* whose forks are in order.
NamesInForce ==
  Finished =>
    /\ \A c \in {x \in DOMAIN log : log[x].kind = "comm" /\ Settled(x) /\ ~LostName(x)} :
         ~Reused(log[c].tid) /\ Ordered(Forks(log[c].tid)) =>
           /\ LET thread == Entry(context.threads, Resolved(context.threads, [id |-> log[c].tid, time |-> log[c].time]))
              IN  thread.name = log[c].name /\ thread.process = log[c].process
           /\ log[c].process = log[c].tid =>
                Entry(context.processes,
                      Resolved(context.processes, [id |-> log[c].tid, time |-> log[c].time])).name = log[c].name
    /\ \A t \in Uids(context.threads) :
         LET thread == Entry(context.threads, t)
         IN  thread.name # None /\ Ordered(Forks(t[1])) =>
               \E c \in Comms(t[1]) :
                 /\ log[c].name = thread.name /\ log[c].process = thread.process
                 /\ thread.time <= log[c].time

\* Every source of samples can be asked for, by the name of its descriptor, unless
\* its first sample had no id of its own.  With the id at the front of the samples,
\* only the source that was new last can be asked for.
SourcesDescribed ==
  Finished =>
    IF scene.attributes[1].layout = Identifier
    THEN SampleSources = IF context.sources = <<>> THEN {} ELSE {Len(context.sources)}
    ELSE \A s \in DOMAIN context.sources :
           LET first == Min({i \in Handled : AttributeOf(log[i].id) = context.sources[s]})
           IN  /\ s \in SampleSources
               /\ scene.described /\ log[first].id # 0 => NameOfSource(s) = context.sources[s]

\* The number of samples of a source is the number of those that are handed out, each
\* as often as it is; those of a process are read in the order of their time stamps,
\* but for those of one thread that stand in another order in the file, and when there
\* are none left, as many have been read as were counted.
SamplesCounted ==
  Finished =>
    /\ \A s \in SampleSources :
         NumberOfSamples(s) =
           FoldSet(LAMBDA i, n : n + Cardinality(Owners(i)), 0,
                   {i \in Handled : AttributeOf(log[i].id) = context.sources[s]})
    /\ \A i \in 1 .. Len(reader.read) - 1 :
         LET m == reader.read[i].number
             n == reader.read[i + 1].number
         IN  log[m].time <= log[n].time \/ (log[m].tid = log[n].tid /\ Overtakes(m, n))
    /\ query # NoQuery /\ DOMAIN reader.rest = {} =>
         Len(reader.read) = CountSamples(query.source, query.process, query.filter)

\* Every sample is handed out for its thread, and counted as often.
SamplesHandedOut == SamplesOfTheirThreads /\ SamplesCounted
=============================================================================
