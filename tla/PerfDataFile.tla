------------------------------ MODULE PerfDataFile ------------------------------
(***************************************************************************)
(* perf_data_file (snail/perf_data/perf_data_file.cpp): open() and the way *)
(* of process() through a file.  It has sections of attributes with lists  *)
(* of ids, of headers of features, and of events, all read in chunks by    *)
(* chunked readers that share one stream: the reader of a list of ids, or  *)
(* of the events of the feature build_id, works while that of the section  *)
(* around it is not done.  PerfRecording models what the attributes and    *)
(* the events mean.                                                        *)
(*                                                                         *)
(* The unit is not the byte, but sizes keep their order and divisibility:  *)
(* events are shorter than a chunk, an id does not divide the chunk of its *)
(* reader, the header of a feature does.                                   *)
(***************************************************************************)
EXTENDS Integers, Sequences, SequencesExt, ChunkedReader, ProgressReporter

CONSTANTS
  Scenes,            \* files: see Scene below
  ChunkSize,         \* max_chunk_size
  IdChunkSize,       \* of the reader of ids
  FeatureChunkSize,  \* of the reader of the headers of features
  EntrySize,         \* header.attribute_size + file_section_view::static_size
  IdSize,            \* sizeof(std::uint64_t)
  SectionSize,       \* file_section_view::static_size
  HeaderSize,        \* event_header_view::static_size
  ListenerResolution \* of the progress listener

\* The features the code tells apart, in their order: one it does not read, the
\* build ids, those with a value, the descriptors of events.
AllFeatures == <<"tracing_data", "build_id", "hostname", "event_desc">>

\* A file is [readable, odd, ids, events, features, builds, cut, missing]: whether
\* open() accepts its header, whether its attributes have another size than its header
\* says, the number of ids of each attribute, the sizes events say they have, the
\* features it says it has, the sizes of the events of build_id, in which section the
\* last part is cut off, and by how much, and how much of the end is missing.

VARIABLES
  scene,           \* the file
  phase,           \* where process() is
  position,        \* of the stream, or Bad when the stream has failed
  readers,         \* the readers that are not done, the one in use last
  saved,           \* pos_ of the stream_position_resetter in use
  current_feature, \* the number of a feature
  attributes,      \* what was read of the section of attributes
  metadata,        \* the features that were read
  build_ids,       \* the events of build_id that were read
  delivered,       \* the events handed to the observer
  progress,        \* the progress reporter
  canceled         \* the cancellation token

places == <<position, readers, saved, current_feature>>
results == <<attributes, metadata, build_ids, delivered, progress>>
vars == <<scene, phase, places, results, canceled>>

-----------------------------------------------------------------------------
(* Where things are in the file.                                             *)

Bad == -1

SumOf(s) == FoldSeq(LAMBDA a, b : a + b, 0, s)

\* An event has a header whatever it says.
Width(size) == IF size < HeaderSize THEN HeaderSize ELSE size
Widths(sizes) == [k \in DOMAIN sizes |-> Width(sizes[k])]
Before(sizes, k) == SumOf(SubSeq(Widths(sizes), 1, k - 1))

\* The size a section has by what the file says: that of its parts, unless the last one
\* is cut off.
SizeSaid(section, size) ==
  IF section = scene.cut.section /\ scene.cut.by < size THEN size - scene.cut.by ELSE size
Whole == scene.cut.section = "none"

AttributesSize == SizeSaid("attributes", EntrySize * Len(scene.ids))
IdsSize(a) == SizeSaid("ids", IdSize * scene.ids[a])
BuildsSize == SizeSaid("build_ids", SumOf(Widths(scene.builds)))
EventsSize == SizeSaid("events", SumOf(Widths(scene.events)))

\* Offsets: the header is one place long, then come the ids, the attributes, the
\* events, the headers of the features and what they contain.
IdsOffset(a) == 1 + IdSize * SumOf(SubSeq(scene.ids, 1, a - 1))
AttributesOffset == 1 + IdSize * SumOf(scene.ids)
DataOffset == AttributesOffset + EntrySize * Len(scene.ids)
FeaturesOffset == DataOffset + EventsSize
BuildsOffset == FeaturesOffset + SectionSize * Cardinality(scene.features)
FileLength == BuildsOffset + SumOf(Widths(scene.builds)) + 1 - scene.missing

Bytes(offset, size) == [i \in 1 .. size |-> offset + i]

EntryBytes(a) == Bytes(AttributesOffset + (a - 1) * EntrySize, EntrySize)
IdBytes(a, i) == Bytes(IdsOffset(a) + (i - 1) * IdSize, IdSize)
EventBytes(k) == Bytes(DataOffset + Before(scene.events, k), Width(scene.events[k]))
BuildBytes(k) == Bytes(BuildsOffset + Before(scene.builds, k), Width(scene.builds[k]))

\* What bytes say, when they are read as the header of an event or as an entry of
\* the attributes: anything, unless they are one.
SizeFields(bytes) ==
  LET events == {k \in DOMAIN scene.events : bytes = SubSeq(EventBytes(k), 1, HeaderSize)}
      builds == {k \in DOMAIN scene.builds : bytes = SubSeq(BuildBytes(k), 1, HeaderSize)}
  IN  IF events \cup builds # {}
      THEN {scene.events[k] : k \in events} \cup {scene.builds[k] : k \in builds}
      ELSE 0 .. ChunkSize - 1
Entries(bytes) ==
  LET a == {b \in DOMAIN scene.ids : bytes = EntryBytes(b)}
  IN  IF a # {} THEN a ELSE DOMAIN scene.ids

-----------------------------------------------------------------------------
(* A turn of a loop `while(reader.keep_going())'.                            *)

Sections == {"attributes", "ids", "features", "build_ids", "events"}

\* A chunk of the innermost reader is read, if it needs one.
Goes == phase \in Sections /\ keep_going(Last(readers))
Reads == needs_chunk(Last(readers))
Place == IF Reads THEN position + chunk_bytes_to_read(Last(readers)) ELSE position
Chunk == IF Reads THEN read_next_chunk(Last(readers), position) ELSE Last(readers)
ChunkThere == Reads => position # Bad /\ Place <= FileLength

\* The size of what the loop wants of the chunk.
Wanted ==
  CASE phase = "attributes" -> {EntrySize}
    [] phase = "ids"        -> {IdSize}
    [] phase = "features"   -> {SectionSize}
    [] OTHER -> IF has_data(Chunk, HeaderSize)
                THEN SizeFields(retrieve_data(Chunk, HeaderSize)) ELSE {HeaderSize}

\* seekg(), which does nothing to a stream that has failed.
MovedTo(place) == IF position = Bad THEN Bad ELSE place

Turns(size) ==
  /\ Goes /\ ChunkThere
  /\ phase = "events" => ~canceled
  /\ size \in Wanted /\ has_data(Chunk, size)

\* The reader of the loop after the turn, alone or with one inside.
After(size) == Front(readers) \o <<retrieved(Chunk, size)>>

-----------------------------------------------------------------------------

Init ==
  /\ scene \in Scenes
  /\ phase = "open"
  /\ position = 0 /\ readers = <<>> /\ saved = 0 /\ current_feature = 0
  /\ attributes = <<>> /\ metadata = <<>> /\ build_ids = <<>> /\ delivered = <<>>
  /\ progress = Reporter(EventsSize, ListenerResolution)
  /\ canceled = FALSE

\* A reader begins a section; its constructor throws if the stream has failed.
Begin(next, offset, size, chunk) ==
  /\ phase' = IF position = Bad THEN "failed" ELSE next
  /\ position' = MovedTo(offset)
  /\ readers' = <<Reader(size, chunk)>>

BeginFeatures ==
  Begin("features", FeaturesOffset, SectionSize * Cardinality(scene.features), FeatureChunkSize)

\* open(), and process() up to the first loop.
Open ==
  /\ phase = "open" /\ scene.readable
  /\ IF "event_desc" \in scene.features THEN BeginFeatures
     ELSE Begin("attributes", AttributesOffset, AttributesSize, ChunkSize)
  /\ UNCHANGED <<scene, saved, current_feature, results, canceled>>

Fail ==
  /\ phase' = "failed"
  /\ UNCHANGED <<scene, places, results, canceled>>

RefuseFile == phase = "open" /\ ~scene.readable /\ Fail

\* read_next_chunk() throws.
ChunkMissing == Goes /\ ~ChunkThere /\ Fail

\* There is not enough left in the chunk: `continue'.  If the section has no more than
\* that, the next chunk has nothing new, and the loop never ends; a build with
\* assertions stops in retrieve_data() then.  The loop over the features is one feature
\* further by then.
proceed_to_next_feature(f) ==
  LET later == {g \in f + 1 .. Len(AllFeatures) : AllFeatures[g] \in scene.features}
  IN  IF later = {} THEN Len(AllFeatures) ELSE Min(later)

Starve ==
  /\ Goes /\ ChunkThere
  /\ phase = "events" => ~canceled
  /\ \E size \in Wanted : ~has_data(Chunk, size)
  /\ readers' = Front(readers) \o <<starved(Chunk)>>
  /\ position' = Place
  /\ current_feature' = IF phase = "features" THEN proceed_to_next_feature(current_feature)
                        ELSE current_feature
  /\ UNCHANGED <<scene, phase, saved, results, canceled>>

\* The destructor of stream_position_resetter.
left_where_it_is == position
reset_position == MovedTo(saved)

\* read_attributes_section(): an entry, then its ids.
ReadAttribute ==
  /\ phase = "attributes" /\ Turns(EntrySize) /\ ~scene.odd
  /\ LET entry == retrieve_data(Chunk, EntrySize)
     IN  \E a \in Entries(entry) :
           /\ attributes' = Append(attributes, [entry |-> entry, ids |-> <<>>])
           /\ readers' = Append(After(EntrySize), Reader(IdsSize(a), IdChunkSize))
           /\ position' = IdsOffset(a)
  /\ saved' = Place
  /\ phase' = "ids"
  /\ UNCHANGED <<scene, current_feature, metadata, build_ids, delivered, progress, canceled>>

ReadId ==
  /\ phase = "ids" /\ Turns(IdSize)
  /\ attributes' = [attributes EXCEPT ![Len(attributes)].ids =
                      Append(@, retrieve_data(Chunk, IdSize))]
  /\ readers' = After(IdSize)
  /\ position' = Place
  /\ UNCHANGED <<scene, phase, saved, current_feature, metadata, build_ids, delivered,
                 progress, canceled>>

\* A section inside another one ends, and the loop around it goes on.
EndInner ==
  /\ phase \in {"ids", "build_ids"} /\ ~Goes
  /\ phase' = IF phase = "ids" THEN "attributes" ELSE "features"
  /\ readers' = Front(readers)
  /\ position' = reset_position
  /\ UNCHANGED <<scene, saved, current_feature, results, canceled>>

EndAttributes ==
  /\ phase = "attributes" /\ ~Goes
  /\ attributes # <<>>
  /\ BeginFeatures
  /\ UNCHANGED <<scene, saved, current_feature, results, canceled>>

\* An attribute of another size ends the section, and the database remains empty.
SkipAttributes ==
  /\ phase = "attributes" /\ Turns(EntrySize) /\ scene.odd
  /\ BeginFeatures
  /\ UNCHANGED <<scene, saved, current_feature, results, canceled>>

\* validate() throws, after the section or after the features that have the attributes:
\* there are none, or ids are not in the same place in the events of all of them.
RefuseAttributes ==
  /\ phase = IF "event_desc" \in scene.features THEN "features" ELSE "attributes"
  /\ ~Goes
  /\ Fail

\* read_metadata(): the header of the next feature, and the feature if it is one
\* the code reads.
ReadFeature ==
  /\ phase = "features" /\ Turns(SectionSize)
  /\ LET f == proceed_to_next_feature(current_feature)
     IN  /\ current_feature' = f
         /\ IF AllFeatures[f] = "build_id"
            THEN /\ readers' = Append(After(SectionSize),
                                      Reader(BuildsSize, ChunkSize))
                 /\ phase' = IF position = Bad THEN "failed" ELSE "build_ids"
                 /\ position' = MovedTo(BuildsOffset)
            ELSE /\ readers' = After(SectionSize)
                 /\ position' = IF AllFeatures[f] # "tracing_data"
                                   /\ BuildsOffset + SumOf(Widths(scene.builds)) >= FileLength
                                THEN Bad ELSE MovedTo(Place)
                 /\ UNCHANGED phase
         /\ metadata' = Append(metadata, AllFeatures[f])
  /\ saved' = Place
  /\ UNCHANGED <<scene, attributes, build_ids, delivered, progress, canceled>>

EndFeatures ==
  /\ phase = "features" /\ ~Goes
  /\ Begin("events", DataOffset, EventsSize, ChunkSize)
  /\ UNCHANGED <<scene, saved, current_feature, results, canceled>>

\* read_events() with the callback for build_id, which nobody can cancel ...
ReadBuildId ==
  /\ phase = "build_ids"
  /\ \E size \in Wanted :
       /\ Turns(size) /\ size >= HeaderSize
       /\ build_ids' = Append(build_ids, retrieve_data(Chunk, size))
       /\ readers' = After(size)
  /\ position' = Place
  /\ UNCHANGED <<scene, phase, saved, current_feature, attributes, metadata, delivered,
                 progress, canceled>>

\* ... and with that of the observer, which may throw.
HandOver ==
  /\ phase = "events"
  /\ \E size \in Wanted :
       /\ Turns(size) /\ size >= HeaderSize
       /\ delivered' = Append(delivered, retrieve_data(Chunk, size))
       /\ readers' = After(size)
       /\ progress' = Progressed(progress, size)
  /\ position' = Place
  /\ UNCHANGED <<scene, phase, saved, current_feature, attributes, metadata, build_ids, canceled>>

HandlerThrows ==
  /\ phase = "events"
  /\ \E size \in Wanted : Turns(size) /\ size >= HeaderSize
  /\ Fail

\* An event that says it is smaller than its header ends the loop.
RefuseSize ==
  /\ phase = "events"
  /\ \E size \in Wanted : Turns(size) /\ size < HeaderSize
  /\ phase' = "refused"
  /\ UNCHANGED <<scene, places, results, canceled>>

RefuseBuildSize ==
  /\ phase = "build_ids"
  /\ \E size \in Wanted : Turns(size) /\ size < HeaderSize
  /\ phase' = "features"
  /\ readers' = Front(readers)
  /\ position' = reset_position
  /\ UNCHANGED <<scene, saved, current_feature, results, canceled>>

Abandon ==
  /\ phase = "events" /\ Goes /\ ChunkThere /\ canceled
  /\ phase' = "canceled"
  /\ UNCHANGED <<scene, places, results, canceled>>

Finish ==
  /\ phase = "events" /\ ~Goes
  /\ progress' = Finished(progress)
  /\ phase' = "done"
  /\ UNCHANGED <<scene, places, attributes, metadata, build_ids, delivered, canceled>>

Process ==
  \/ Open \/ RefuseFile \/ ChunkMissing \/ Starve
  \/ ReadAttribute \/ ReadId \/ EndInner \/ EndAttributes \/ SkipAttributes \/ RefuseAttributes
  \/ ReadFeature \/ EndFeatures \/ ReadBuildId \/ RefuseBuildSize
  \/ HandOver \/ HandlerThrows \/ RefuseSize \/ Abandon \/ Finish

\* process() has returned or thrown.
Ended == phase \in {"done", "refused", "canceled", "failed"}

-----------------------------------------------------------------------------
(* Properties *)

RefusesBuilds == \E k \in DOMAIN scene.builds : scene.builds[k] < HeaderSize

\* What the sections before the events hold has been read.
HeadersRead ==
  /\ "event_desc" \in scene.features \/ scene.odd \/ Len(attributes) = Len(scene.ids)
  /\ \A a \in DOMAIN attributes : Len(attributes[a].ids) = scene.ids[a]
  /\ Range(metadata) = scene.features
  /\ \A i, j \in DOMAIN metadata, f, g \in DOMAIN AllFeatures :
       i < j /\ metadata[i] = AllFeatures[f] /\ metadata[j] = AllFeatures[g] => f < g
  /\ "build_id" \in scene.features => Len(build_ids) = Len(scene.builds) \/ RefusesBuilds

\* Whatever lies across the border of two chunks, and wherever another reader has
\* moved the stream in between: entries, ids and events are handed on as they are
\* in the file, each once and in its order, and none is missing at the end.
EachAsInTheFile ==
  /\ \A a \in DOMAIN attributes :
       /\ a <= Len(scene.ids)
       /\ attributes[a].entry = EntryBytes(a)
       /\ \A i \in DOMAIN attributes[a].ids : attributes[a].ids[i] = IdBytes(a, i)
  /\ \A k \in DOMAIN build_ids : k <= Len(scene.builds) /\ build_ids[k] = BuildBytes(k)
  /\ \A k \in DOMAIN delivered : k <= Len(scene.events) /\ delivered[k] = EventBytes(k)
  /\ phase \in {"events", "done"} => HeadersRead
  /\ phase = "done" => Len(delivered) = Len(scene.events)

\* The events account for all of their section, and the listener hears of it.
SectionAccountedFor ==
  /\ \A k \in 1 .. Len(progress.reports) - 1 : progress.reports[k] < progress.reports[k + 1]
  /\ phase = "done" => /\ progress.current_work = progress.total_work
                       /\ Last(progress.reports) = progress.total_work
=============================================================================
