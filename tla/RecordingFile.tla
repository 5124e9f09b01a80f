----------------------------- MODULE RecordingFile -----------------------------
(***************************************************************************)
(* storage::read_document() (snail/server/detail/storage.cpp): a data       *)
(* provider is made for the extension of the file and reads it, as EtlFile *)
(* or as PerfDataFile does.  A .diagsession file is an archive: its        *)
(* provider (snail/analysis/diagsession_data_provider.cpp) extracts the    *)
(* .etl file to a temporary directory of its own first, which its          *)
(* destructor removes.  One token cancels all of it.                       *)
(*                                                                         *)
(* Which file of the archive is the recording is abstracted; reading its   *)
(* table of contents, making the directory, writing the file and removing  *)
(* it may all fail.                                                        *)
(***************************************************************************)
EXTENDS EtlFile

CONSTANTS
  Scenes, ChunkSize, IdChunkSize, FeatureChunkSize,  \* see PerfDataFile
  EntrySize, IdSize, SectionSize, HeaderSize,
  ArchiveSize        \* parts in which an archive is unpacked

ASSUME ChunksAssumption ==
  /\ {ChunkSize, IdChunkSize, FeatureChunkSize, EntrySize, IdSize, SectionSize, HeaderSize}
       \subseteq Nat \ {0}
  /\ EntrySize <= ChunkSize /\ HeaderSize < ChunkSize /\ IdSize <= IdChunkSize
  /\ FeatureChunkSize % SectionSize = 0
  /\ ArchiveSize \in Nat \ {0}

\* The extensions make_data_provider() knows, and any other.
Formats == {".etl", ".diagsession", ".data", "other"}

VARIABLES
  format,             \* the extension of the file
  stage,              \* where read_document() is
  unpacking,          \* the progress reporter of the extraction
  temp_etl_file_path, \* whether the provider remembers a temporary file
  on_disk,            \* whether the temporary directory exists
  undeletable,        \* the system has refused to remove it
  unnamed,            \* the path of the temporary file could not be made
  scene, phase, position, readers, saved, current_feature,  \* see PerfDataFile
  attributes, metadata, build_ids

Perf == INSTANCE PerfDataFile WITH ListenerResolution <- Resolution

ASSUME ScenesAssumption ==
  \A s \in Scenes :
    /\ s.readable \in BOOLEAN /\ s.odd \in BOOLEAN /\ s.missing \in Nat
    /\ s.cut.section \in Perf!Sections \cup {"none"} /\ s.cut.by \in Nat \ {0}
    /\ s.ids \in Seq(Nat) /\ s.events \in Seq(Nat) /\ s.builds \in Seq(Nat)
    /\ s.features \subseteq {Perf!AllFeatures[f] : f \in DOMAIN Perf!AllFeatures}

extraction == <<unpacking, temp_etl_file_path, on_disk, undeletable, unnamed>>
perf_places == <<scene, phase, position, readers, saved, current_feature>>
perf_results == <<attributes, metadata, build_ids>>
etl_places == <<file, pc, buffer_index, processor_index, remaining_buffers, current,
                event_queue>>

recording_vars == <<format, stage, extraction, perf_places, perf_results, etl_places,
                    progress, canceled, delivered>>

SomeFile == CHOOSE f \in [1 .. NumberOfBuffers -> Buffers] : Recorded(f)
SomeScene == CHOOSE s \in Scenes : TRUE

RecordingInit ==
  /\ format \in Formats
  /\ stage = "opened"
  /\ unpacking = Reporter(ArchiveSize, Resolution)
  /\ temp_etl_file_path = FALSE /\ on_disk = FALSE /\ undeletable = FALSE /\ unnamed = FALSE
  /\ \/ /\ format # ".data"
        /\ Init
        /\ format # ".etl" => file = SomeFile
        /\ scene = SomeScene /\ phase = "open"
        /\ position = 0 /\ readers = <<>> /\ saved = 0 /\ current_feature = 0
        /\ attributes = <<>> /\ metadata = <<>> /\ build_ids = <<>>
     \/ /\ format = ".data"
        /\ Perf!Init
        /\ file = SomeFile /\ pc = "open"
        /\ buffer_index = 1 /\ processor_index = 0 /\ event_queue = {}
        /\ remaining_buffers = [p \in Processors |-> <<>>]
        /\ current = [p \in Processors |-> [buffer |-> 0, offset |-> 0]]

-----------------------------------------------------------------------------

reading == <<perf_places, perf_results, etl_places, progress, delivered>>

\* make_data_provider(), which throws for other extensions.
make_data_provider ==
  /\ stage = "opened"
  /\ stage' = CASE format \in {".etl", ".data"} -> "processing"
                [] format = ".diagsession"      -> "archive"
                [] OTHER                        -> "thrown"
  /\ UNCHANGED <<format, extraction, reading, canceled>>

\* diagsession_data_provider::process(): the archive is no archive or names no
\* recording, or there is no place for its file.
RefuseArchive ==
  /\ stage = "archive"
  /\ stage' = "thrown"
  /\ UNCHANGED <<format, extraction, reading, canceled>>

MakeDirectory ==
  /\ stage = "archive"
  /\ on_disk' = TRUE
  /\ stage' = "naming"
  /\ UNCHANGED <<format, unpacking, temp_etl_file_path, undeletable, unnamed, reading, canceled>>

\* The provider has extracted nothing before, so that try_cleanup() finds nothing.
NameFile ==
  /\ stage = "naming"
  /\ temp_etl_file_path' = TRUE
  /\ stage' = "unpacking"
  /\ UNCHANGED <<format, unpacking, on_disk, undeletable, unnamed, reading, canceled>>

\* path_from_utf8() throws where paths are not UTF-8 and the name in the archive is
\* not UTF-8 either: nobody knows of the directory.
NameFails ==
  /\ stage = "naming"
  /\ unnamed' = TRUE
  /\ stage' = "thrown"
  /\ UNCHANGED <<format, unpacking, temp_etl_file_path, on_disk, undeletable, reading, canceled>>

\* The callback of readEntry().
Unpack ==
  /\ stage = "unpacking" /\ ~canceled
  /\ unpacking.current_work < ArchiveSize
  /\ unpacking' = Progressed(unpacking, 1)
  /\ UNCHANGED <<format, stage, temp_etl_file_path, on_disk, undeletable, unnamed, reading, canceled>>

\* There is no such entry, or a part of it cannot be read or written.
UnpackFails ==
  /\ stage = "unpacking" /\ ~canceled
  /\ stage' = "thrown"
  /\ UNCHANGED <<format, extraction, reading, canceled>>

\* In the callback or after readEntry(): process() returns as if it had read the file.
UnpackCanceled ==
  /\ stage = "unpacking" /\ canceled
  /\ stage' = "read"
  /\ UNCHANGED <<format, extraction, reading, canceled>>

UnpackEnds ==
  /\ stage = "unpacking" /\ ~canceled
  /\ unpacking.current_work = ArchiveSize
  /\ unpacking' = Finished(unpacking)
  /\ stage' = "processing"
  /\ UNCHANGED <<format, temp_etl_file_path, on_disk, undeletable, unnamed, reading, canceled>>

\* open() and process() of the file itself.
ReadEtl ==
  /\ stage = "processing" /\ format # ".data"
  /\ Process
  /\ UNCHANGED <<format, stage, extraction, perf_places, perf_results>>

ReadPerf ==
  /\ stage = "processing" /\ format = ".data"
  /\ Perf!Process
  /\ UNCHANGED <<format, stage, extraction, etl_places>>

\* read_document() is left by an exception, or returns.
Thrown ==
  \/ stage = "thrown"
  \/ stage = "processing" /\ "failed" \in {pc, phase}
Returned ==
  \/ stage = "read"
  \/ stage = "processing" /\ (Ended \/ Perf!Ended) /\ ~Thrown

\* try_cleanup() in the destructor of a diagsession_data_provider; the other providers
\* have nothing that outlives them.
forget ==
  /\ temp_etl_file_path' = FALSE
  /\ UNCHANGED <<on_disk, undeletable>>
try_cleanup ==
  IF ~temp_etl_file_path THEN UNCHANGED <<temp_etl_file_path, on_disk, undeletable>>
  ELSE \/ /\ temp_etl_file_path' = FALSE /\ on_disk' = FALSE
          /\ UNCHANGED undeletable
       \/ /\ undeletable' = TRUE
          /\ UNCHANGED <<temp_etl_file_path, on_disk>>

DestroyProvider ==
  /\ format = ".diagsession"
  /\ try_cleanup
  /\ stage' = "closed"
  /\ UNCHANGED <<format, unpacking, unnamed, reading, canceled>>

\* The exception leaves read_document(), where the provider is a local variable ...
Unwind == Thrown /\ DestroyProvider

\* ... or the document has it until somebody closes it.
Close == Returned /\ DestroyProvider

CancelReading ==
  /\ stage \in {"opened", "archive", "naming", "unpacking", "processing"}
  /\ ~Perf!Ended
  /\ Cancel
  /\ UNCHANGED <<format, stage, extraction, perf_places, perf_results>>

Work ==
  \/ make_data_provider \/ RefuseArchive \/ MakeDirectory \/ NameFile \/ NameFails
  \/ Unpack \/ UnpackFails \/ UnpackCanceled \/ UnpackEnds
  \/ ReadEtl \/ ReadPerf \/ Unwind

RecordingNext == Work \/ Close \/ CancelReading

RecordingSpec == RecordingInit /\ [][RecordingNext]_recording_vars /\ WF_recording_vars(Work)

-----------------------------------------------------------------------------
(* Properties *)

\* What read_document() hands to the process context is what the file has: all events
\* of an .etl file in the order of time, those of a perf.data file as they lie there.
\* Of a perf.data file with a section whose last part is cut off nothing is said: where
\* it is read to its end, the last event is made of what the buffer had before.
EventsHandedOver ==
  IF format = ".data" THEN Perf!Whole => Perf!EachAsInTheFile ELSE EventsInOrder

\* The listener is told of all the work of every phase that is completed, with the same
\* exception.
ProgressTold ==
  /\ IF format = ".data" THEN Perf!Whole => Perf!SectionAccountedFor ELSE ProgressComplete
  /\ format = ".diagsession" /\ stage = "processing" =>
       unpacking.finished /\ Last(unpacking.reports) = ArchiveSize

\* Files of which reading has to end: all but those of perf with a section that is cut
\* off, on which the reader may wait for the rest for ever.  Only the loop over the
\* events can be canceled then.
Ending ==
  \/ format # ".data" \/ Perf!Whole
  \/ scene.cut.section = "events" /\ canceled

\* Whatever fails and whenever it is canceled, reading such a file ends, and the provider
\* leaves nothing in the temporary directory unless the system insists, or there was no
\* path to remember.
EndsTidily ==
  /\ Ending ~> (Returned \/ (Thrown /\ (on_disk => unnamed)) \/ stage = "closed")
  /\ [](stage = "closed" /\ on_disk => undeletable \/ unnamed)
=============================================================================
