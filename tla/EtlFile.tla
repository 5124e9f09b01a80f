-------------------------------- MODULE EtlFile --------------------------------
(***************************************************************************)
(* etl_file::process() (snail/etl/etl_file.cpp): the buffers of a recording *)
(* lie in the file in the order in which they were written, those of one   *)
(* processor mixed with those of the others.  The function collects the    *)
(* headers, sorts the buffers of each processor by their sequence numbers  *)
(* and hands the events of all of them to an observer in the order of      *)
(* time, loading the next buffer of a processor when one is exhausted.     *)
(*                                                                         *)
(* An event is its time stamp; its bytes, their decompression and what the *)
(* observers make of it are abstracted; every event has size 1.  Reading a *)
(* header, a buffer or an event may fail, because the file ends, a number  *)
(* in it is too large or a kind of event is not supported.                 *)
(*                                                                         *)
(* A definition that stands directly above the one it varies, and that     *)
(* nothing uses, is the code with a plausible bug in it; README.md says    *)
(* which property notices it.                                              *)
(***************************************************************************)
EXTENDS Integers, Sequences, FiniteSets, SequencesExt, ProgressReporter

CONSTANTS
  NumberOfProcessors,  \* header_.number_of_processors
  NumberOfBuffers,     \* header_.number_of_buffers
  BufferSize,          \* header_.buffer_size, in events
  Words,               \* 2^32, in events: as many as that, for events of various sizes
  Resolution,          \* of the progress listener: <<n, d>> stands for n / d
  MaxTime,             \* bound: time stamps are in 1 .. MaxTime
  MaxEvents            \* bound: events of one buffer

ASSUME SizesAssumption ==
  /\ NumberOfProcessors \in Nat \ {0} /\ NumberOfBuffers \in Nat \ {0}
  /\ Resolution \in (Nat \ {0}) \X (Nat \ {0}) /\ Resolution[1] <= Resolution[2]
  /\ MaxTime \in Nat \ {0}
  /\ MaxEvents \in Nat \ {0} /\ BufferSize \in Nat /\ BufferSize > MaxEvents

\* A file whose size is a multiple of 2^32 is left out: its total is 0, by which the
\* reporter divides.
ASSUME WordsAssumption ==
  \A w \in Words : w \in Nat \ {0} /\ (NumberOfBuffers * BufferSize) % w # 0

Processors == 0 .. NumberOfProcessors - 1

Payloads == UNION {[1 .. n -> 1 .. MaxTime] : n \in 1 .. MaxEvents}

\* What the header of a buffer says, and the events in it.
Buffers == [processor : Processors, sequence_number : 1 .. NumberOfBuffers,
            payload : {e \in Payloads : \A i, j \in DOMAIN e : i < j => e[i] <= e[j]}]

VARIABLES
  file,              \* the buffers in the file, in their order on the disk
  pc,                \* where process() is
  buffer_index,      \* the header to read next
  processor_index,   \* the processor to load, or whose events are extracted
  remaining_buffers, \* per processor: indices of buffers; the last is next
  current,           \* per processor: its current buffer and the offset in it
  event_queue,       \* processors with the time of their next event
  progress,          \* the progress reporter
  canceled,          \* the cancellation token
  delivered          \* events handed to the observer: <<buffer, offset>>

vars == <<file, pc, buffer_index, processor_index, remaining_buffers, current,
          event_queue, progress, canceled, delivered>>

\* process() has returned or thrown.
Ended == pc \in {"done", "failed", "canceled"}

Time(b, i) == file[b].payload[i]

\* std::ranges::sort() of the buffers of a processor, of which no two are the same
sorted(bs) ==
  CHOOSE q \in SetToSeqs(Range(bs)) : \A i, j \in DOMAIN q :
    i < j => file[q[i]].sequence_number > file[q[j]].sequence_number

\* The loop over the events of one processor is left for another one, when the
\* next event of this one has time t.
goes_on_always(t) == FALSE
another_is_earlier(t) == \E e \in event_queue : e.next_event_time < t

\* event_queue.top()
IsTop(e) == \A f \in event_queue : e.next_event_time <= f.next_event_time

\* The files an ETW session writes: the events of a processor are in the order
\* of time if its buffers are read in the order of their sequence numbers.  Only
\* the order of those of one processor matters, so that they may all differ.
Recorded(f) ==
  /\ \A b, c \in DOMAIN f : f[b].sequence_number = f[c].sequence_number => b = c
  /\ \A b, c \in DOMAIN f :
       f[b].processor = f[c].processor /\ f[b].sequence_number < f[c].sequence_number
         => \A i \in DOMAIN f[b].payload, j \in DOMAIN f[c].payload :
              f[b].payload[i] <= f[c].payload[j]

\* The product of two 32-bit numbers, before it becomes a 64-bit one.
total_work(word) == (NumberOfBuffers * BufferSize) % word

Init ==
  /\ file \in {f \in [1 .. NumberOfBuffers -> Buffers] : Recorded(f)}
  /\ pc = "open"
  /\ buffer_index = 1
  /\ processor_index = 0
  /\ remaining_buffers = [p \in Processors |-> <<>>]
  /\ current = [p \in Processors |-> [buffer |-> 0, offset |-> 0]]
  /\ event_queue = {}
  /\ \E w \in Words : progress = Reporter(total_work(w), Resolution)
  /\ canceled = FALSE
  /\ delivered = <<>>

-----------------------------------------------------------------------------

\* $/cancelRequest, at any time.
Cancel ==
  /\ ~canceled /\ ~Ended
  /\ canceled' = TRUE
  /\ UNCHANGED <<file, pc, buffer_index, processor_index, remaining_buffers,
                 current, event_queue, progress, delivered>>

\* The three tests of the token: before a header, before the first buffer of a
\* processor, and before the events of a processor.
Abandon ==
  /\ canceled
  /\ \/ pc \in {"headers", "loading"}
     \/ pc = "selecting" /\ event_queue # {}
  /\ pc' = "canceled"
  /\ UNCHANGED <<file, buffer_index, processor_index, remaining_buffers,
                 current, event_queue, progress, canceled, delivered>>

Fail ==
  /\ pc' = "failed"
  /\ UNCHANGED <<file, buffer_index, processor_index, remaining_buffers,
                 current, event_queue, progress, canceled, delivered>>

\* open(): the header of the first buffer and the record that describes the session
\* are checked, and the stream is moved back to the beginning.
Open ==
  /\ pc = "open"
  /\ pc' = "headers"
  /\ UNCHANGED <<file, buffer_index, processor_index, remaining_buffers, current,
                 event_queue, progress, canceled, delivered>>

RefuseFile == pc = "open" /\ Fail

\* One turn of the loop over the headers.
ReadHeader ==
  /\ pc = "headers" /\ ~canceled
  /\ remaining_buffers' = [remaining_buffers EXCEPT ![file[buffer_index].processor] =
                              Append(@, buffer_index)]
  /\ buffer_index' = buffer_index + 1
  /\ pc' = IF buffer_index = NumberOfBuffers THEN "loading" ELSE "headers"
  /\ UNCHANGED <<file, processor_index, current, event_queue, progress,
                 canceled, delivered>>

RefuseHeader ==
  /\ pc = "headers" /\ ~canceled
  /\ Fail

\* The turn of the loop over the processors for one that has buffers: they are
\* sorted, and the first is read.
LoadFirst ==
  /\ pc = "loading" /\ ~canceled
  /\ LET p  == processor_index
         bs == sorted(remaining_buffers[p])
     IN  /\ bs # <<>>
         /\ remaining_buffers' = [remaining_buffers EXCEPT ![p] = Front(bs)]
         /\ current' = [current EXCEPT ![p] = [buffer |-> Last(bs), offset |-> 0]]
         /\ event_queue' = event_queue \cup
              {[next_event_time |-> Time(Last(bs), 1), processor_index |-> p]}
         /\ processor_index' = p + 1
         /\ pc' = IF p + 1 = NumberOfProcessors THEN "selecting" ELSE "loading"
  /\ UNCHANGED <<file, buffer_index, progress, canceled, delivered>>

\* The same for a processor without buffers.
SkipProcessor ==
  /\ pc = "loading" /\ ~canceled
  /\ remaining_buffers[processor_index] = <<>>
  /\ processor_index' = processor_index + 1
  /\ pc' = IF processor_index + 1 = NumberOfProcessors THEN "selecting" ELSE "loading"
  /\ UNCHANGED <<file, buffer_index, remaining_buffers, current, event_queue,
                 progress, canceled, delivered>>

LoadFirstFails ==
  /\ pc = "loading" /\ ~canceled
  /\ remaining_buffers[processor_index] # <<>>
  /\ Fail

\* The outer loop over the events: event_queue.top() and pop().
Select ==
  /\ pc = "selecting" /\ ~canceled
  /\ \E e \in event_queue :
       /\ IsTop(e)
       /\ processor_index' = e.processor_index
       /\ event_queue' = event_queue \ {e}
  /\ pc' = "extracting"
  /\ UNCHANGED <<file, buffer_index, remaining_buffers, current, progress,
                 canceled, delivered>>

\* The event at the current offset is handed to the observer.
Deliver(p) ==
  delivered' = Append(delivered, <<current[p].buffer, current[p].offset + 1>>)

\* The progress after an event, the last of its buffer or not.
event_progress_of_events(p, exhausted) == Progressed(progress, 1)
event_progress(p, exhausted) ==
  IF exhausted
  THEN Progressed(Progressed(progress, 1), BufferSize - (current[p].offset + 1))
  ELSE Progressed(progress, 1)

Exhausted(p) == current[p].offset + 1 >= Len(file[current[p].buffer].payload)

\* The end of a turn of the inner loop: its processor is at position c next.
GoOnAt(p, c) ==
  LET t == Time(c.buffer, c.offset + 1)
  IN  /\ current' = [current EXCEPT ![p] = c]
      /\ IF another_is_earlier(t)
         THEN /\ event_queue' = event_queue \cup {[next_event_time |-> t, processor_index |-> p]}
              /\ pc' = "selecting"
         ELSE UNCHANGED <<event_queue, pc>>

\* A turn of the inner loop, in the middle of a buffer ...
ExtractEvent ==
  /\ pc = "extracting"
  /\ LET p == processor_index
     IN  /\ ~Exhausted(p)
         /\ Deliver(p)
         /\ progress' = event_progress(p, FALSE)
         /\ GoOnAt(p, [current[p] EXCEPT !.offset = @ + 1])
  /\ UNCHANGED <<file, buffer_index, processor_index, remaining_buffers, canceled>>

\* ... at the end of one that has a successor ...
ExtractAndLoadNext ==
  /\ pc = "extracting"
  /\ LET p  == processor_index
         bs == remaining_buffers[p]
     IN  /\ Exhausted(p)
         /\ bs # <<>>
         /\ Deliver(p)
         /\ progress' = event_progress(p, TRUE)
         /\ remaining_buffers' = [remaining_buffers EXCEPT ![p] = Front(bs)]
         /\ GoOnAt(p, [buffer |-> Last(bs), offset |-> 0])
  /\ UNCHANGED <<file, buffer_index, processor_index, canceled>>

\* ... where read_buffer() or peak_next_event_time() throws after the event ...
ExtractAndFail ==
  /\ pc = "extracting"
  /\ LET p == processor_index
     IN  /\ ~Exhausted(p) \/ remaining_buffers[p] # <<>>
         /\ Deliver(p)
         /\ progress' = event_progress(p, Exhausted(p))
  /\ pc' = "failed"
  /\ UNCHANGED <<file, buffer_index, processor_index, remaining_buffers,
                 current, event_queue, canceled>>

\* ... or process_next_trace() before it ...
RefuseEvent ==
  /\ pc = "extracting"
  /\ Fail

\* ... and at the end of the last one.
ExtractLast ==
  /\ pc = "extracting"
  /\ LET p == processor_index
     IN  /\ Exhausted(p)
         /\ remaining_buffers[p] = <<>>
         /\ Deliver(p)
         /\ progress' = event_progress(p, TRUE)
  /\ pc' = "selecting"
  /\ UNCHANGED <<file, buffer_index, processor_index, remaining_buffers,
                 current, event_queue, canceled>>

Finish ==
  /\ pc = "selecting" /\ event_queue = {}
  /\ progress' = Finished(progress)
  /\ pc' = "done"
  /\ UNCHANGED <<file, buffer_index, processor_index, remaining_buffers,
                 current, event_queue, canceled, delivered>>

Process ==
  \/ Open \/ RefuseFile \/ Abandon \/ ReadHeader \/ RefuseHeader
  \/ LoadFirst \/ SkipProcessor \/ LoadFirstFails
  \/ Select \/ ExtractEvent \/ ExtractAndLoadNext \/ ExtractAndFail
  \/ RefuseEvent \/ ExtractLast \/ Finish

-----------------------------------------------------------------------------
(* Properties *)

DeliveredTime(k) == Time(delivered[k][1], delivered[k][2])

Events == UNION {{b} \X (DOMAIN file[b].payload) : b \in DOMAIN file}

\* The observer sees the events of all processors in the order of time, which is
\* what the process context relies on when it attaches stacks to samples and modules
\* to addresses; none of them twice, and all of them when process() returns without
\* having been canceled.
EventsInOrder ==
  /\ \A k, l \in DOMAIN delivered : k < l =>
       delivered[k] # delivered[l] /\ DeliveredTime(k) <= DeliveredTime(l)
  /\ pc = "done" => Range(delivered) = Events

\* What the listener is told only ever grows and reaches all of the work by the end
\* ("Make sure we always report at 100%"), at which all buffers are accounted for, with
\* their parts that have no events.  It is not told of more than all of the work, unless
\* the file has 4 GiB or more: the total is the rest then, and all of the rest is done
\* long before the end.
ProgressComplete ==
  /\ \A k \in 1 .. Len(progress.reports) - 1 : progress.reports[k] < progress.reports[k + 1]
  /\ pc = "done" => /\ progress.current_work = NumberOfBuffers * BufferSize
                    /\ Last(progress.reports) >= progress.total_work
  /\ progress.total_work = NumberOfBuffers * BufferSize =>
       Last(progress.reports) <= progress.total_work
=============================================================================
