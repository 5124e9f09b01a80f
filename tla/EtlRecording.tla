----------------------------- MODULE EtlRecording -----------------------------
(***************************************************************************)
(* What becomes of the events of an .etl file: the handlers and finish()   *)
(* of etl_file_process_context (snail/analysis/detail), and what           *)
(* etl_data_provider (snail/analysis) answers from it.                     *)
(*                                                                         *)
(* EtlFile delivers the events in the order of their time stamps.  Here    *)
(* they come from a recorder, which is not part of the repository: it      *)
(* records what a Windows system does, so ids are used again, and a thread *)
(* is switched to before it is announced.  To keep the instances small the *)
(* recorder of a run records one kind of scene, a set of kinds of events;  *)
(* the handlers are the same in each.                                      *)
(*                                                                         *)
(* A definition that stands directly above the one it varies, and that     *)
(* nothing uses, is the code with a plausible bug in it; README.md says    *)
(* which property notices it.                                              *)
(***************************************************************************)
EXTENDS Histories

CONSTANTS
  Pids, Tids,                 \* ids of processes and threads, without 0
  Conhost,                    \* the image conhost.exe
  Sources,                    \* ids of sources of PMC samples
  UserStacks, KernelStacks,   \* stacks that start in user and in kernel mode
  UserKeys, KernelKeys,       \* stack keys
  Pdbs,                       \* PDB infos
  Partitions,                 \* number of partitions of each disk
  Filters,                    \* sample filters: records with min, max, processes, threads
  CounterRange,               \* the counters of switches overflow there
  Scenes,                     \* records: kinds of events, bound of their number, and what is in them
  Together                    \* kinds that may have the time stamp of the previous event

ASSUME IdsAssumption == Pids \cup Tids \subseteq Nat \ {0} /\ Sources \subseteq Nat
ASSUME StacksAssumption == UserStacks \cap KernelStacks = {} /\ UserKeys \cap KernelKeys = {}
ASSUME BoundAssumption == (\A s \in Scenes : s.events \in Nat) /\ CounterRange \in Nat \ {0}

VARIABLES
  scene,     \* what kinds of events are recorded, with what in them, and how many
  log,       \* the events so far
  context,   \* members of etl_file_process_context
  phase,     \* "recording" until finish(), then "finished"
  query,     \* arguments of the samples() generator that was asked for
  reader     \* the generator

vars == <<scene, log, context, phase, query, reader>>

\* default_timer_pmc_source, and where the samples of perfinfo events without a
\* source are stored
Timer   == 0
Regular == None

EmptyContext ==
  [processes |-> <<>>, threads |-> <<>>, threads_per_process_id |-> <<>>,
   profiler_processes |-> {}, pdb_infos |-> <<>>, modules |-> <<>>,
   samples |-> <<>>, pmc_storages |-> <<>>, cached_samples |-> <<>>,
   source_names |-> {}, sources_with_stacks |-> {}, switches |-> <<>>,
   partitions |-> <<>>, volumes |-> <<>>, dos_paths |-> <<>>, system_root |-> None]

NoQuery  == [source |-> None, process |-> <<0, 0>>, filter |-> NoFilter]
NoReader == Opened(<<>>)

Init ==
  /\ scene \in Scenes
  /\ log = <<>>
  /\ context = EmptyContext
  /\ phase = "recording"
  /\ query = NoQuery
  /\ reader = NoReader

-----------------------------------------------------------------------------
(* The recorder *)

Now == IF log = <<>> THEN 0 ELSE Last(log).time
TimesOf(kind) == {Now + 1} \cup (IF kind \in Together THEN {Now} ELSE {})

Record(e) ==
  /\ phase = "recording" /\ e.kind \in scene.kinds /\ Len(log) < scene.events
  /\ log' = Append(log, e)
  /\ UNCHANGED <<scene, phase, query, reader>>

\* The last event of one of the kinds about an id, or 0.
LastAbout(kinds, id) ==
  Max({0} \cup {i \in DOMAIN log : log[i].kind \in kinds /\ log[i].id = id})
Lives(start, end, id) ==
  LET i == LastAbout({start, end}, id) IN i # 0 /\ log[i].kind = start
ProcessLives(pid) == Lives("process start", "process end", pid)
ThreadLives(tid)  == Lives("thread start", "thread end", tid)

-----------------------------------------------------------------------------
(* Processes and threads *)

\* operator== of process_data and thread_data; command lines and images are one
ComparedOfProcess == {"image"}
ComparedOfThread  == {"process"}

ProcessStart(pid, image, parent, time) ==
  /\ ~ProcessLives(pid) /\ parent # pid
  /\ Record([kind |-> "process start", id |-> pid, image |-> image, parent |-> parent, time |-> time])
  /\ context' = [context EXCEPT !.processes =
       Inserted(@, pid, [time |-> time, image |-> image, parent |-> parent, end |-> None], ComparedOfProcess)]

\* The entry of an id at a time ends then; nothing happens if there is none.
Ended(history, id, time) ==
  LET i == Found(Entries(history, id), time)
  IN  IF i = 0 THEN history ELSE [history EXCEPT ![id][i].end = time]

ProcessEnd(pid, time) ==
  /\ ProcessLives(pid)
  /\ ~\E tid \in Tids : ThreadLives(tid) /\ log[LastAbout({"thread start"}, tid)].process = pid
  /\ Record([kind |-> "process end", id |-> pid, time |-> time])
  /\ context' = [context EXCEPT !.processes = Ended(@, pid, time)]

\* What was collected of the context switches of a thread id goes to a thread.
Credited(thread, data) ==
  [thread EXCEPT !.context_switches = @ + data.exits, !.pmc_count = @ + data.count]
NoSwitches == [exits |-> 0, count |-> 0, entered |-> None, first |-> None, last |-> None]

\* The context switch data of a thread id is credited to entry i, and deleted.
flushed_keeping(c, tid, i) ==
  IF i = 0 THEN c
  ELSE [c EXCEPT !.threads[tid][i] = Credited(@, Lookup(c.switches, tid, NoSwitches))]
flushed(c, tid, i) ==
  LET rest == [c EXCEPT !.switches = [t \in DOMAIN @ \ {tid} |-> @[t]]]
  IN  IF i = 0 THEN rest
      ELSE [rest EXCEPT !.threads[tid][i] = Credited(@, Lookup(c.switches, tid, NoSwitches))]

\* Start events may be repeated for a thread that lives (dc_start).
ThreadStart(tid, pid, time) ==
  LET e == [time |-> time, process |-> pid, end |-> None, context_switches |-> 0, pmc_count |-> 0]
      inserted == [context EXCEPT
        !.threads = Inserted(@, tid, e, ComparedOfThread),
        !.threads_per_process_id =
          IF IsNew(Entries(context.threads, tid), e, ComparedOfThread)
          THEN (pid :> Lookup(@, pid, {}) \cup {[id |-> tid, time |-> time]}) @@ @ ELSE @]
  IN  /\ ThreadLives(tid) => log[LastAbout({"thread start"}, tid)].process = pid
      /\ "process end" \in scene.kinds => ProcessLives(pid)
      /\ Record([kind |-> "thread start", id |-> tid, process |-> pid, time |-> time])
      /\ context' = flushed(inserted, tid, Len(inserted.threads[tid]))

ThreadEnd(tid, time) ==
  LET ended == [context EXCEPT !.threads = Ended(@, tid, time)]
  IN  /\ ThreadLives(tid)
      /\ Record([kind |-> "thread end", id |-> tid, time |-> time])
      /\ context' = flushed(ended, tid, Found(Entries(ended.threads, tid), time))

-----------------------------------------------------------------------------
(* Context switches *)

\* The counter of a switch with a perfinfo header runs with the time, until it overflows.
\* Thread 0 is the idle thread of every processor.
LastSwitch(tid) ==
  Max({0} \cup {i \in DOMAIN log : log[i].kind = "switch" /\ tid \in {log[i].old, log[i].new}})
MayBeRunning(tid) == tid # 0 /\ LastSwitch(tid) # 0 => log[LastSwitch(tid)].new = tid
MayBeWaiting(tid) == tid # 0 /\ LastSwitch(tid) # 0 => log[LastSwitch(tid)].old = tid

Seen(switches, tid, time) ==
  LET data == Lookup(switches, tid, [NoSwitches EXCEPT !.first = time])
  IN  [data EXCEPT !.last = IF @ > time THEN @ ELSE time]

\* What a counter says of the time between two switches; if it overflowed, what it has
\* counted since.
Elapsed(from, to) == IF from > to THEN to ELSE to - from

\* The part of the data of the old thread, and then of the new one.
left(data, tid, counter) ==
  [data EXCEPT
     !.exits = @ + 1,
     !.count = IF tid # 0 /\ counter # None /\ data.entered # None THEN @ + Elapsed(data.entered, counter) ELSE @,
     !.entered = IF tid # 0 /\ counter # None THEN None ELSE @]
entered(data, counter) ==
  [data EXCEPT !.entered = IF counter # None THEN counter ELSE @]

ContextSwitch(old, new, counted, time) ==
  LET counter == IF counted THEN time % CounterRange ELSE None
      exited  == (old :> left(Seen(context.switches, old, time), old, counter)) @@ context.switches
  IN  /\ old # new /\ MayBeRunning(old) /\ MayBeWaiting(new)
      /\ Record([kind |-> "switch", id |-> old, old |-> old, new |-> new, counter |-> counter, time |-> time])
      /\ context' = [context EXCEPT !.switches =
           (new :> entered(Seen(exited, new, time), counter)) @@ exited]

-----------------------------------------------------------------------------
(* Images, disks *)

\* A PDB info belongs to the image of the same process, base and time that follows
\* it: the latest such info, which is taken out.
PdbInfo(pid, base, pdb, time) ==
  /\ Record([kind |-> "pdb info", id |-> pid, base |-> base, pdb |-> pdb, time |-> time])
  /\ context' = [context EXCEPT !.pdb_infos =
       (pid :> Append(Lookup(@, pid, <<>>), [time |-> time, base |-> base, pdb |-> pdb])) @@ @]

matching_by_base(infos, base, time) ==
  Max({0} \cup {i \in DOMAIN infos : infos[i].base = base})
matching(infos, base, time) ==
  Max({0} \cup {i \in DOMAIN infos : infos[i].base = base /\ infos[i].time = time})

\* Files are on a volume, named by its number, or on none, below \SystemRoot.
SystemRoot == 0
ImageLoad(pid, base, file, time) ==
  LET infos == Lookup(context.pdb_infos, pid, <<>>)
      i     == matching(infos, base, time)
      image == [base |-> base, file |-> file, time |-> time, pdb |-> IF i = 0 THEN None ELSE infos[i].pdb]
  IN  /\ Record([kind |-> "image", id |-> pid, base |-> base, file |-> file, time |-> time])
      /\ context' = [context EXCEPT
           !.pdb_infos = (pid :> IF i = 0 THEN infos ELSE RemoveAt(infos, i)) @@ @,
           !.modules = (pid :> Append(Lookup(@, pid, <<>>), image)) @@ @]

Disks == DOMAIN Partitions
\* The partitions of all disks are numbered from the first disk on.
PartitionsBefore(partitions, disk) ==
  FoldSet(LAMBDA d, n : n + partitions[d], 0, {d \in DOMAIN partitions : d < disk})

PhysicalDisk(disk, time) ==
  /\ Record([kind |-> "physical disk", id |-> disk, time |-> time])
  /\ context' = [context EXCEPT !.partitions = (disk :> Partitions[disk]) @@ @]

\* Drives are told apart by the numbers of their volumes.
LogicalDisk(disk, partition, time) ==
  /\ partition \in 1 .. Partitions[disk]
  /\ Record([kind |-> "logical disk", id |-> disk, partition |-> partition, time |-> time])
  /\ context' = [context EXCEPT !.volumes =
       (PartitionsBefore(context.partitions, disk) + partition
          :> PartitionsBefore(Partitions, disk) + partition) @@ @]

VolumeMapping(volume, time) ==
  /\ Record([kind |-> "volume mapping", id |-> volume, time |-> time])
  /\ context' = [context EXCEPT !.dos_paths = (volume :> volume) @@ @]

Volumes == 1 .. PartitionsBefore(Partitions, 1 + Max(Disks))

\* The first event says where \SystemRoot is.
SystemPaths(drive, time) ==
  /\ Record([kind |-> "system paths", id |-> drive, time |-> time])
  /\ context' = [context EXCEPT !.system_root = IF @ = None THEN drive ELSE @]

-----------------------------------------------------------------------------
(* Samples and their stacks *)

Sample(tid, time) ==
  /\ "thread start" \in scene.kinds => ThreadLives(tid)
  /\ Record([kind |-> "sample", id |-> tid, time |-> time])
  /\ context' = [context EXCEPT !.samples =
       (<<tid, Regular>> :> Append(Lookup(@, <<tid, Regular>>, <<>>),
                                   [time |-> time, user |-> None, kernel |-> None])) @@ @]

PmcSample(tid, source, time) ==
  /\ "thread start" \in scene.kinds => ThreadLives(tid)
  /\ Record([kind |-> "pmc sample", id |-> tid, source |-> source, time |-> time])
  /\ context' = [context EXCEPT
       !.pmc_storages =
         (tid :> LET s == Lookup(@, tid, <<>>) IN IF source \in ToSet(s) THEN s ELSE Append(s, source)) @@ @,
       !.samples =
         (<<tid, source>> :> Append(Lookup(@, <<tid, source>>, <<>>),
                                    [time |-> time, user |-> None, kernel |-> None])) @@ @]

SourceName(source, time) ==
  /\ Record([kind |-> "source name", id |-> source, time |-> time])
  /\ context' = [context EXCEPT !.source_names = @ \cup {source}]

\* The samples a stack is for: in each storage of the thread the last one of its
\* time.
attached(samples, time) ==
  Max({0} \cup {i \in DOMAIN samples : samples[i].time = time})

StoragesWith(tid, time) ==
  {s \in DOMAIN context.samples : s[1] = tid /\ attached(context.samples[s], time) # 0}
SourceOf(storage) == IF storage[2] = Regular THEN Timer ELSE storage[2]

\* A stack is recorded after the sample it is for; there is one user stack.
IsFor(e, tid, at) == e.kind \in {"stack", "stack key"} /\ e.id = tid /\ e.at = at
MayHaveStack(tid, at, user) ==
  /\ \E i \in DOMAIN log : log[i].kind \in {"sample", "pmc sample"} /\ log[i].id = tid /\ log[i].time = at
  /\ user => ~\E i \in DOMAIN log : IsFor(log[i], tid, at) /\ log[i].user

Stack(tid, at, stack, time) ==
  LET user == stack \in UserStacks
      with == StoragesWith(tid, at)
  IN  /\ MayHaveStack(tid, at, user)
      /\ Record([kind |-> "stack", id |-> tid, at |-> at, stack |-> stack, user |-> user, time |-> time])
      /\ context' = [context EXCEPT
           !.sources_with_stacks = @ \cup {SourceOf(s) : s \in with},
           !.samples = [s \in DOMAIN @ |->
             IF s \notin with THEN @[s]
             ELSE IF user THEN [@[s] EXCEPT ![attached(@[s], at)].user = stack]
                          ELSE [@[s] EXCEPT ![attached(@[s], at)].kernel = stack]]]

\* A stack that follows later is announced by its key: the samples are remembered.
StackKey(tid, at, key, time) ==
  LET user == key \in UserKeys
      with == StoragesWith(tid, at)
      refs == {[storage |-> s, index |-> attached(context.samples[s], at), user |-> user] : s \in with}
  IN  /\ MayHaveStack(tid, at, user)
      /\ Record([kind |-> "stack key", id |-> tid, at |-> at, key |-> key, user |-> user, time |-> time])
      /\ context' = [context EXCEPT
           !.sources_with_stacks = @ \cup {SourceOf(s) : s \in with},
           !.cached_samples = (key :> Lookup(@, key, {}) \cup refs) @@ @]

filled(samples, refs, stack) ==
  [s \in DOMAIN samples |-> [i \in DOMAIN samples[s] |->
     [samples[s][i] EXCEPT
        !.user   = IF [storage |-> s, index |-> i, user |-> TRUE]  \in refs THEN stack ELSE @,
        !.kernel = IF [storage |-> s, index |-> i, user |-> FALSE] \in refs THEN stack ELSE @]]]

\* The samples remembered for a key get its stack, and are forgotten, since the key
\* may be used for another stack then.
StackOfKeyKeepingRefs(key, stack, time) ==
  /\ (key \in UserKeys) = (stack \in UserStacks)
  /\ Record([kind |-> "stack of key", id |-> key, stack |-> stack, time |-> time])
  /\ context' = [context EXCEPT !.samples = filled(@, Lookup(context.cached_samples, key, {}), stack)]
StackOfKey(key, stack, time) ==
  /\ (key \in UserKeys) = (stack \in UserStacks)
  /\ Record([kind |-> "stack of key", id |-> key, stack |-> stack, time |-> time])
  /\ context' = [context EXCEPT
       !.samples = filled(@, Lookup(context.cached_samples, key, {}), stack),
       !.cached_samples = [k \in DOMAIN @ \ {key} |-> @[k]]]

\* The two events that say which process is profiled.
ProfileTarget(pid, time) ==
  /\ Record([kind |-> "target", id |-> pid, time |-> time])
  /\ context' = [context EXCEPT !.profiler_processes = @ \cup {[id |-> pid, time |-> time]}]

-----------------------------------------------------------------------------
(* finish() *)

\* C:\WINDOWS\, which is on the first volume
DefaultDrive == 1
\* NT paths become DOS paths: by the volume mappings, or else by the disks.
DosPath(c, file) ==
  IF file \in DOMAIN c.dos_paths THEN [drive |-> c.dos_paths[file]]
  ELSE IF file \in DOMAIN c.volumes THEN [drive |-> c.volumes[file]]
  ELSE IF file = SystemRoot
       THEN [drive |-> IF c.system_root = None THEN DefaultDrive ELSE c.system_root]
  ELSE [drive |-> None]

\* Sources of samples get a name if they have none: the timer, and then for each
\* thread the first of its sources that has samples and no name.
HasSamples(c, storage) == Lookup(c.samples, storage, <<>>) # <<>>
FirstUnnamed(c, names, tid) ==
  LET unnamed == SelectSeq(c.pmc_storages[tid], LAMBDA s : s \notin names /\ HasSamples(c, <<tid, s>>))
  IN  IF unnamed = <<>> THEN {} ELSE {unnamed[1]}
NamedTimer(c) ==
  c.source_names \cup (IF \E s \in DOMAIN c.samples : s[2] = Regular /\ HasSamples(c, s) THEN {Timer} ELSE {})
NamedSources(c, order) ==
  FoldSeq(LAMBDA tid, names : names \cup FirstUnnamed(c, names, tid), NamedTimer(c), order)

\* The context switch data that is left goes to the last thread of its id.
Remaining(c) == {tid \in DOMAIN c.switches : Entries(c.threads, tid) # <<>>}
SwitchesAccumulated(c) ==
  [c EXCEPT !.threads = [tid \in DOMAIN @ |->
     LET data == c.switches[tid]
         i    == Found(@[tid], data.first)
     IN  IF tid \in Remaining(c) /\ i = Found(@[tid], data.last)
         THEN [@[tid] EXCEPT ![i] = Credited(@, data)] ELSE @[tid]]]

\* Without targets, the processes that have threads with samples are profiled,
\* whenever these were taken.
SampledProcesses(c) ==
  {p \in Uids(c.processes) : \E t \in ThreadsOf(c, p), s \in DOMAIN c.samples :
     s[1] = t[1] /\ HasSamples(c, s)}

\* children_per_process: conhost.exe is nobody's child.
Children(c, key) ==
  {KeyOf(c.processes, p) : p \in {q \in Uids(c.processes) :
     LET entry  == Entry(c.processes, q)
         parent == Resolved(c.processes, [id |-> entry.parent, time |-> entry.time])
     IN  entry.image # Conhost /\ parent[2] # 0 /\ KeyOf(c.processes, parent) = key}}

\* The children of a profiled process, by its key, or else by its start.
ChildrenOfProfiled(c, key) ==
  LET process == Resolved(c.processes, key)
  IN  IF Children(c, key) # {} THEN Children(c, key)
      ELSE IF process[2] = 0 THEN {} ELSE Children(c, KeyOf(c.processes, process))

\* The children of those that were added last are added, until there are no more.
with_children_once(c, targets) == targets \cup UNION {ChildrenOfProfiled(c, key) : key \in targets}
with_children(c, targets) ==
  LET rounds[n \in Nat] ==
        IF n = 0 THEN [all |-> targets, last |-> targets]
        ELSE LET before == rounds[n - 1]
                 new    == UNION {ChildrenOfProfiled(c, key) : key \in before.last} \ before.all
             IN  [all |-> before.all \cup new, last |-> new]
  IN  rounds[scene.events].all

Finish ==
  /\ phase = "recording"
  /\ \E order \in SetToSeqs(DOMAIN context.pmc_storages) :
       LET c == SwitchesAccumulated(context)
       IN  context' = [c EXCEPT
             !.modules = [pid \in DOMAIN @ |-> [i \in DOMAIN @[pid] |->
                           DosPath(c, @[pid][i].file) @@ @[pid][i]]],
             !.source_names = NamedSources(c, order),
             !.profiler_processes =
               IF @ = {} THEN {KeyOf(c.processes, p) : p \in SampledProcesses(c)}
                         ELSE with_children(c, @)]
  /\ phase' = "finished"
  /\ UNCHANGED <<scene, log, query, reader>>

-----------------------------------------------------------------------------
(* etl_data_provider *)

\* thread_samples(): of a source, which for the timer may be the regular samples.
StorageFor(tid, source) ==
  IF source \in ToSet(Lookup(context.pmc_storages, tid, <<>>)) THEN <<tid, source>>
  ELSE IF source = Timer THEN <<tid, Regular>> ELSE <<tid, None - 1>>
ThreadSamples(t, source, filter) ==
  LET samples == Lookup(context.samples, StorageFor(t[1], source), <<>>)
      span    == FilteredSpan(Entry(context.threads, t), filter)
  IN  [i \in 1 .. Cardinality(Span(samples, span.start, span.end)) |->
         samples[Min(Span(samples, span.start, span.end)) + i - 1]]

\* sampling_processes(): one for each profiled process that is known.
SamplingProcesses ==
  {p \in {Resolved(context.processes, key) : key \in context.profiler_processes} : p[2] # 0}

\* count_samples() of a process
CountSamples(source, process, filter) ==
  FoldSet(LAMBDA t, n : n + Len(ThreadSamples(t, source, filter)), 0,
          Admitted(ThreadsOf(context, process), process, filter))

\* process(): number_of_samples of a source, over all profiled processes.
NumberOfSamples(source) ==
  LET Share(key) ==
        LET process == Resolved(context.processes, key)
        IN  IF process[2] = 0 THEN 0 ELSE CountSamples(source, process, NoFilter)
  IN  FoldSet(LAMBDA key, n : n + Share(key), 0, context.profiler_processes)

\* process_info(): the sums over the threads.
ProcessSwitches(process) ==
  FoldSet(LAMBDA t, n : n + Entry(context.threads, t).context_switches, 0, ThreadsOf(context, process))
ProcessCount(process) ==
  FoldSet(LAMBDA t, n : n + Entry(context.threads, t).pmc_count, 0, ThreadsOf(context, process))

\* samples() is called for one of the sources, which are those that have a name.
OpenSamples(source, process, filter) ==
  /\ phase = "finished" /\ query = NoQuery
  /\ query' = [source |-> source, process |-> process, filter |-> filter]
  /\ reader' = Opened([t \in Admitted(ThreadsOf(context, process), process, filter) |->
                         ThreadSamples(t, source, filter)])
  /\ UNCHANGED <<scene, log, context, phase>>

NextSample ==
  /\ \E t \in NextThreads(reader) : reader' = Extracted(reader, t)
  /\ UNCHANGED <<scene, log, context, phase, query>>

-----------------------------------------------------------------------------

RecordEvent ==
  \/ \E pid \in scene.pids, image \in scene.images, parent \in scene.parents, time \in TimesOf("process start") :
       ProcessStart(pid, image, parent, time)
  \/ \E pid \in scene.pids, time \in TimesOf("process end") : ProcessEnd(pid, time)
  \/ \E tid \in scene.tids, pid \in scene.pids, time \in TimesOf("thread start") : ThreadStart(tid, pid, time)
  \/ \E tid \in scene.tids, time \in TimesOf("thread end") : ThreadEnd(tid, time)
  \/ \E old, new \in scene.tids \cup {0}, counted \in BOOLEAN, time \in TimesOf("switch") :
       ContextSwitch(old, new, counted, time)
  \/ \E pid \in scene.pids, base \in scene.bases, pdb \in Pdbs, time \in TimesOf("pdb info") :
       PdbInfo(pid, base, pdb, time)
  \/ \E pid \in scene.pids, base \in scene.bases, file \in scene.files, time \in TimesOf("image") :
       ImageLoad(pid, base, file, time)
  \/ \E disk \in Disks, time \in TimesOf("physical disk") : PhysicalDisk(disk, time)
  \/ \E disk \in Disks, partition \in Volumes, time \in TimesOf("logical disk") :
       LogicalDisk(disk, partition, time)
  \/ \E volume \in Volumes, time \in TimesOf("volume mapping") : VolumeMapping(volume, time)
  \/ \E drive \in Volumes, time \in TimesOf("system paths") : SystemPaths(drive, time)
  \/ \E tid \in scene.tids, time \in TimesOf("sample") : Sample(tid, time)
  \/ \E tid \in scene.tids, source \in scene.sources, time \in TimesOf("pmc sample") : PmcSample(tid, source, time)
  \/ \E source \in Sources \cup {Timer}, time \in TimesOf("source name") : SourceName(source, time)
  \/ \E tid \in scene.tids, at \in 0 .. Now, stack \in UserStacks \cup KernelStacks, time \in TimesOf("stack") :
       Stack(tid, at, stack, time)
  \/ \E tid \in scene.tids, at \in 0 .. Now, key \in UserKeys \cup KernelKeys, time \in TimesOf("stack key") :
       StackKey(tid, at, key, time)
  \/ \E key \in UserKeys \cup KernelKeys, stack \in UserStacks \cup KernelStacks,
        time \in TimesOf("stack of key") : StackOfKey(key, stack, time)
  \/ \E pid \in scene.pids, time \in TimesOf("target") : ProfileTarget(pid, time)

Read ==
  \/ \E source \in context.source_names, process \in SamplingProcesses, filter \in Filters :
       OpenSamples(source, process, filter)
  \/ NextSample

Next == RecordEvent \/ Finish \/ Read

Spec == Init /\ [][Next]_vars

-----------------------------------------------------------------------------
(* Properties *)

Finished == phase = "finished"

\* The first event of the life of a thread that lives at event i: its start, of
\* which the later ones are repetitions.
StartOf(tid, i) ==
  LET ends == {0} \cup {j \in 1 .. i : log[j].kind = "thread end" /\ log[j].id = tid}
  IN  Min({j \in Max(ends) .. i : j # 0 /\ log[j].kind = "thread start" /\ log[j].id = tid} \cup {scene.events + 1})

\* The thread id was used in a process of the same id before: for the history it is
\* one thread.
UsedBefore(tid, start) ==
  \E j \in 1 .. start - 1 : /\ log[j].kind = "thread start" /\ log[j].id = tid
                            /\ log[j].process = log[start].process

\* The threads whose samples include the sample of event i.
Owners(i) ==
  {t \in Uids(context.threads) : \E s \in {Regular} \cup Sources :
     /\ log[i].id = t[1]
     /\ \E k \in 1 .. Len(ThreadSamples(t, IF s = Regular THEN Timer ELSE s, NoFilter)) :
          ThreadSamples(t, IF s = Regular THEN Timer ELSE s, NoFilter)[k].time = log[i].time}

\* A sample is one of exactly one thread, and of the process that ran under the
\* thread's process id when the thread started, though both ids are used again,
\* unless the thread id is used again in a process of the same id.  The number of
\* samples of the recording is the number of those that belong to a thread.
SamplesOfTheirProcess ==
  Finished /\ "process end" \in scene.kinds =>
    /\ NumberOfSamples(Timer) = Cardinality({i \in DOMAIN log : log[i].kind = "sample" /\ Owners(i) # {}})
    /\ \A i \in DOMAIN log : log[i].kind = "sample" =>
      LET start == StartOf(log[i].id, i)
      IN  ~UsedBefore(log[i].id, start) =>
            /\ Cardinality(Owners(i)) = 1
            /\ \A t \in Owners(i) :
                 LET of == {p \in Uids(context.processes) : t \in ThreadsOf(context, p)}
                     started == Max({j \in 1 .. start : log[j].kind = "process start"
                                                       /\ log[j].id = log[start].process})
                 IN  /\ Cardinality(of) = 1
                     /\ \A p \in of : /\ p[1] = log[start].process
                                      /\ Entry(context.processes, p).image = log[started].image

\* Which sample of which storage the samples of events are.
PlaceOf(i) ==
  LET storage == <<log[i].id, IF log[i].kind = "sample" THEN Regular ELSE log[i].source>>
      same    == {j \in 1 .. i : /\ log[j].kind = log[i].kind /\ log[j].id = log[i].id
                                /\ log[i].kind = "pmc sample" => log[j].source = log[i].source}
  IN  [storage |-> storage, index |-> Cardinality(same)]

\* The events that bring the stacks of the sample of event i: those that say so, or
\* the next stack that is recorded for the key they name.
Bringing(i, user) ==
  {j \in i .. Len(log) :
     \/ log[j].kind = "stack" /\ IsFor(log[j], log[i].id, log[i].time) /\ log[j].user = user
     \/ /\ log[j].kind = "stack of key"
        /\ \E k \in i .. j : /\ log[k].kind = "stack key" /\ log[k].key = log[j].id
                             /\ IsFor(log[k], log[i].id, log[i].time) /\ log[k].user = user
                             /\ ~\E l \in k + 1 .. j - 1 : log[l].kind = "stack of key" /\ log[l].id = log[k].key}

\* The last sample that a thread took at a time from a source has the stacks that
\* were recorded for it, and no other, whichever way they were recorded, though the
\* keys are used again and samples come in between.
StacksOfTheirSamples ==
  \A i \in DOMAIN log :
    log[i].kind \in {"sample", "pmc sample"} =>
      LET place  == PlaceOf(i)
          sample == context.samples[place.storage][place.index]
          alone  == \A k \in DOMAIN context.samples[place.storage] :
                      context.samples[place.storage][k].time = log[i].time => k = place.index
          stack(user) == IF Bringing(i, user) = {} THEN None ELSE log[Max(Bringing(i, user))].stack
      IN  alone => sample.user = stack(TRUE) /\ sample.kernel = stack(FALSE)

\* The thread, by its place in the history of its id, that a switch is from: the one
\* that started last before its id ended next.
OwnerOfSwitch(i) ==
  LET tid  == log[i].old
      ends == {j \in i .. Len(log) : log[j].kind = "thread end" /\ log[j].id = tid}
      \* lives of a thread id in one process, one after the other, are one thread
      started == {j \in 1 .. (IF ends = {} THEN Len(log) ELSE Min(ends)) :
                    log[j].kind = "thread start" /\ log[j].id = tid}
  IN  IF started = {} THEN None
      ELSE Cardinality({j \in started : ~\E k \in 1 .. j - 1 :
             /\ log[k].kind = "thread start" /\ log[k].id = tid /\ log[k].process = log[j].process
             /\ ~\E l \in k .. j : log[l].kind = "thread start" /\ log[l].id = tid
                                   /\ log[l].process # log[j].process})

\* What the counter says of the time since the switch back to the thread before event i,
\* but nothing if there was an event about the thread in between: what it ran before and
\* after that event is lost.
CountBefore(i) ==
  LET tid  == log[i].old
      into == {j \in 1 .. i - 1 : log[j].kind = "switch" /\ log[j].new = tid /\ log[j].counter # None}
      cut  == \E k \in Max(into) .. i : log[k].kind \in {"thread start", "thread end"} /\ log[k].id = tid
      used == \E k \in Max(into) + 1 .. i - 1 : log[k].kind = "switch" /\ log[k].old = tid /\ log[k].counter # None
  IN  IF into = {} \/ log[i].counter = None THEN 0
      ELSE IF cut \/ used THEN 0 ELSE Elapsed(log[Max(into)].counter, log[i].counter)

Counted(events) == FoldSet(LAMBDA i, n : n + CountBefore(i), 0, events)

\* A thread gets the switches from it that were recorded since the thread that had
\* its id before has ended, up to its own end; the last one also gets what follows.
\* No switch is lost or counted twice, in the threads and in the sums of the processes,
\* and no part of a counter is counted twice; it is lost where CountBefore says so.
SwitchesOfTheirThreads ==
  Finished =>
    /\ \A t \in Uids(context.threads) :
      LET own == {i \in DOMAIN log : /\ log[i].kind = "switch" /\ log[i].old = t[1]
                                    /\ OwnerOfSwitch(i) = t[2]}
      IN  /\ Entry(context.threads, t).context_switches = Cardinality(own)
          /\ Entry(context.threads, t).pmc_count = Counted(own)
    /\ \A p \in Uids(context.processes) :
         LET own == {i \in DOMAIN log : /\ log[i].kind = "switch" /\ OwnerOfSwitch(i) # None
                                       /\ <<log[i].old, OwnerOfSwitch(i)>> \in ThreadsOf(context, p)}
         IN  ProcessSwitches(p) = Cardinality(own) /\ ProcessCount(p) = Counted(own)

\* The processes and all that descend from them, without those of conhost.exe.
RECURSIVE Descendants(_)
Descendants(ps) ==
  LET more == ps \cup {q \in Uids(context.processes) :
                LET e == Entry(context.processes, q)
                IN  /\ e.image # Conhost
                    /\ Resolved(context.processes, [id |-> e.parent, time |-> e.time]) \in ps}
  IN  IF more = ps THEN ps ELSE Descendants(more)

Marked(p) == {i \in DOMAIN log : log[i].kind = "target" /\ Resolved(context.processes, log[i]) = p}

\* The profiled processes are the targets and all that descend from them, and each
\* is handed out once, unless it is a target that descends from another one: its
\* key then has the time when it became a target, and not that of its start.
ProfiledFamilies ==
  Finished /\ (\E i \in DOMAIN log : log[i].kind = "target") =>
    LET targets == {Resolved(context.processes, log[i]) : i \in {j \in DOMAIN log : log[j].kind = "target"}}
    IN  /\ SamplingProcesses = Descendants({p \in targets : p[2] # 0})
        /\ \A p \in SamplingProcesses :
             LET keys == {key \in context.profiler_processes : Resolved(context.processes, key) = p}
             IN  Cardinality(keys) > 1 =>
                   \/ Cardinality(Marked(p)) > 1
                   \/ \E q \in SamplingProcesses \ {p} : p \in Descendants({q})

\* An image has the PDB info that was recorded for it and no other image has it; its
\* file is on the drive of its volume, if that is known, and on no other one, unless
\* a disk was announced only after the volumes of a later disk.  \SystemRoot is where
\* the first event says.
ImagesNamed ==
  Finished =>
    \A pid \in DOMAIN context.modules : \A m \in DOMAIN context.modules[pid] :
      LET image   == context.modules[pid][m]
          loads   == SetToSortSeq({i \in DOMAIN log : log[i].kind = "image" /\ log[i].id = pid}, <)
          before  == {j \in 1 .. loads[m] : /\ log[j].kind = "pdb info" /\ log[j].id = pid
                                            /\ log[j].base = image.base /\ log[j].time = image.time}
          earlier == {k \in 1 .. m - 1 : /\ context.modules[pid][k].base = image.base
                                         /\ context.modules[pid][k].time = image.time
                                         /\ context.modules[pid][k].pdb # None}
          roots   == {i \in DOMAIN log : log[i].kind = "system paths"}
          mapped  == \E i \in DOMAIN log : log[i].kind = "volume mapping" /\ log[i].id = image.file
          late    == \E i \in DOMAIN log, disk \in Disks :
                       /\ log[i].kind = "logical disk" /\ disk < log[i].id
                       /\ ~\E k \in 1 .. i : log[k].kind = "physical disk" /\ log[k].id = disk
      IN  /\ (image.pdb # None) <=> Cardinality(before) > Cardinality(earlier)
          /\ image.pdb # None => \E j \in before : log[j].pdb = image.pdb
          /\ mapped => image.drive = image.file
          /\ ~late /\ image.file # SystemRoot => image.drive \in {None, image.file}
          /\ image.file = SystemRoot => image.drive = IF roots = {} THEN DefaultDrive ELSE log[Min(roots)].id

\* Every source that has samples can be asked for, unless in each thread with
\* samples of it another source came first that had no name either.
SourcesNamed ==
  Finished =>
    \A s \in DOMAIN context.samples :
      SourceOf(s) \notin context.source_names =>
        \A tid \in DOMAIN context.pmc_storages :
          SourceOf(s) \in ToSet(context.pmc_storages[tid]) =>
            LET of == context.pmc_storages[tid]
            IN  \E i, j \in DOMAIN of :
                  i < j /\ of[j] = SourceOf(s) /\ of[i] \in context.source_names
                  /\ ~\E k \in DOMAIN log : log[k].kind = "source name" /\ log[k].id = of[i]

\* The samples of a process are read in the order of their time stamps, and when
\* there are none left, as many have been read as were counted, each once.
SamplesInOrder ==
  query # NoQuery =>
    /\ \A i \in 1 .. Len(reader.read) - 1 : reader.read[i].time <= reader.read[i + 1].time
    /\ DOMAIN reader.rest = {} =>
         /\ Len(reader.read) = CountSamples(query.source, query.process, query.filter)
         /\ \A t \in Admitted(ThreadsOf(context, query.process), query.process, query.filter) :
              \A x \in ToSet(ThreadSamples(t, query.source, query.filter)) : x \in ToSet(reader.read)

\* Every sample is handed out for its process, in order and once.
SamplesHandedOut == SamplesOfTheirProcess /\ SamplesInOrder
\* Images and sources have the names that were recorded for them.
NamesRecorded == ImagesNamed /\ SourcesNamed
=============================================================================
