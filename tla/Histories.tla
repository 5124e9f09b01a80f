------------------------------- MODULE Histories -------------------------------
(***************************************************************************)
(* What the process contexts of .etl and of perf.data files keep of a      *)
(* recording, and what the two data providers do with it in the same way:  *)
(*                                                                         *)
(*   - histories of the processes and threads that had an id one after the *)
(*     other (snail/analysis/detail/process_history.hpp),                  *)
(*   - binary searches for the samples of a span of time,                  *)
(*   - the generator samples(), which merges the samples of the threads of *)
(*     a process in the order of their time stamps.                        *)
(*                                                                         *)
(* A definition that stands directly above the one it varies, and that     *)
(* nothing uses, is the code with a plausible bug in it; README.md says    *)
(* which property notices it.                                              *)
(*                                                                         *)
(* A history is a function from ids to sequences of entries, records with  *)
(* a field time and the fields of the payload.                             *)
(***************************************************************************)
EXTENDS Integers, Sequences, FiniteSets, SequencesExt, FiniteSetsExt, TLC

\* std::nullopt; ids, time stamps and what else is optional are numbers
None == -1

\* f[k] of a map that creates what it does not have, and f[k] = value
Lookup(f, k, default) == IF k \in DOMAIN f THEN f[k] ELSE default
Assigned(f, k, value) == [x \in DOMAIN f \cup {k} |-> IF x = k THEN value ELSE f[x]]

-----------------------------------------------------------------------------
(* history *)

Entries(history, id) == Lookup(history, id, <<>>)

\* An entry that is earlier than the last one hits assert(false), and is dropped
\* where assertions are compiled out.
InOrder(entries, e) == entries = <<>> \/ Last(entries).time <= e.time

\* The result of insert(): FALSE for what is equal to the last entry, of which only
\* some fields are compared.
IsNew(entries, e, compared) ==
  ~(entries # <<>> /\ InOrder(entries, e) /\ \A f \in compared : Last(entries)[f] = e[f])

\* insert()
Inserted(history, id, e, compared) ==
  LET entries == Entries(history, id)
  IN  IF IsNew(entries, e, compared) /\ InOrder(entries, e)
      THEN Assigned(history, id, Append(entries, e))
      ELSE history

\* find_at(): the index of the last entry that is not later, or else of the first
\* entry; 0 if there is none, or none that is not later and the search is strict.
FoundStrictly(entries, t) ==
  LET early == {i \in DOMAIN entries : entries[i].time <= t}
  IN  IF early = {} THEN 0 ELSE Max(early)
FoundLast(entries, t) == Len(entries)
Found(entries, t) ==
  IF FoundStrictly(entries, t) = 0 /\ entries # <<>> THEN 1 ELSE FoundStrictly(entries, t)

-----------------------------------------------------------------------------
(* finish(): ids of processes and threads that are not used again *)

\* The unique ids are the ids with the places in their histories.
Uids(history) == UNION {{id} \X DOMAIN history[id] : id \in DOMAIN history}
Entry(history, uid) == history[uid[1]][uid[2]]
Resolved(history, key) == <<key.id, Found(Entries(history, key.id), key.time)>>
KeyOf(history, uid) == [id |-> uid[1], time |-> Entry(history, uid).time]

\* threads_per_process_: the threads under the process that had the id of theirs
\* when they started.
ThreadsOf(c, process) ==
  UNION {{Resolved(c.threads, key) : key \in
            {k \in c.threads_per_process_id[pid] : Resolved(c.processes, [id |-> pid, time |-> k.time]) = process}}
         : pid \in DOMAIN c.threads_per_process_id}

-----------------------------------------------------------------------------
(* thread_samples() *)

\* std::ranges::lower_bound and upper_bound by their algorithm, which searches
\* sequences that are not sorted, too: the number of elements before the position, of n
\* of which those of the set before come before it.
PartitionPoint(n, before) ==
  LET search[first \in 0 .. n, length \in 0 .. n] ==
        IF length = 0 THEN first
        ELSE LET half == length \div 2
             IN  IF first + half + 1 \in before
                 THEN search[first + half + 1, length - half - 1]
                 ELSE search[first, half]
  IN  search[0, n]

\* The indices of the samples from start to end, which may be open.
Span(samples, start, end) ==
  LET n == Len(samples)
      first == PartitionPoint(n, {i \in 1 .. n : samples[i].time < start})
      last  == IF end = None THEN n
               ELSE PartitionPoint(n, {i \in 1 .. n : samples[i].time <= end})
  IN  first + 1 .. last

\* get_filter_timespan(): what the filter leaves of the time of a thread.
FilteredSpan(thread, filter) ==
  [start |-> IF filter.min = None \/ filter.min < thread.time THEN thread.time ELSE filter.min,
   end   |-> IF thread.end = None THEN filter.max
             ELSE IF filter.max = None \/ thread.end < filter.max THEN thread.end ELSE filter.max]

NoFilter == [min |-> None, max |-> None, processes |-> {}, threads |-> {}]

\* The threads of a process that a filter does not exclude.
Admitted(threads, process, filter) ==
  IF process \in filter.processes THEN {} ELSE threads \ filter.threads

-----------------------------------------------------------------------------
(* samples(): the generator *)

\* A reader has, per thread, the samples that are still to come; current is the
\* thread (or none) it extracts samples from, the other threads are in sample_queue.
Opened(spans) ==
  [rest |-> [t \in {u \in DOMAIN spans : spans[u] # <<>>} |-> spans[t]],
   current |-> {}, read |-> <<>>]

Queued(reader) == DOMAIN reader.rest \ reader.current

\* Which thread the next sample comes from: the current one goes on until another
\* one is earlier; among threads that are equally early it is open.
Earliest(reader) ==
  {t \in Queued(reader) : \A u \in Queued(reader) :
     Head(reader.rest[t]).time <= Head(reader.rest[u]).time}
NextThreadsWhileAny(reader) ==
  LET going_on == reader.current \cap DOMAIN reader.rest
  IN  IF going_on # {} THEN going_on ELSE Earliest(reader)
NextThreads(reader) ==
  LET going_on == {c \in reader.current \cap DOMAIN reader.rest : \A t \in Queued(reader) :
                     ~(Head(reader.rest[t]).time < Head(reader.rest[c]).time)}
  IN  IF going_on # {} THEN going_on ELSE Earliest(reader)

\* co_yield of the next sample of the thread; a thread without further samples is
\* not put back into the queue.
Extracted(reader, t) ==
  LET rest == Tail(reader.rest[t])
  IN  [rest |-> [u \in {v \in DOMAIN reader.rest : v # t \/ rest # <<>>} |->
                   IF u = t THEN rest ELSE reader.rest[u]],
       current |-> {t},
       read |-> Append(reader.read, Head(reader.rest[t]))]
=============================================================================
