---------------------------- MODULE MCRecordingFile ----------------------------
(* An instance of RecordingFile for TLC. *)
EXTENDS RecordingFile

\* A resolution of which no multiple is the whole.
MCResolution == <<2, 5>>

Good == [readable |-> TRUE, odd |-> FALSE, ids |-> <<1>>, events |-> <<3, 3>>, features |-> {},
         builds |-> <<>>, cut |-> [section |-> "none", by |-> 1], missing |-> 0]

EventSizes == {<<>>} \cup UNION {[1 .. n -> {0, 2, 3, 4}] : n \in 1 .. 3} \cup [1 .. 4 -> {3, 4}]

\* A file of 3 * 3 events has 4 GiB and half of that again, or less than 4 GiB.
MCWords == {6, 100}

\* All sections of events; all lists of ids; and all lists of features with their build
\* ids, complete or not; sections that are cut off; attributes of another size, and none.
MCScenes ==
  {[Good EXCEPT !.events = e, !.missing = m] : e \in EventSizes, m \in {1, 3}} \cup
  {[Good EXCEPT !.ids = i, !.missing = m] :
     i \in {<<0>>, <<3>>, <<2, 3>>, <<3, 0, 4>>}, m \in {0, 1, 4}} \cup
  {[Good EXCEPT !.ids = <<2, 3>>, !.features = f, !.builds = b, !.missing = m] :
     f \in SUBSET {"tracing_data", "build_id", "hostname", "event_desc"},
     b \in {<<>>, <<4, 3>>, <<3, 1>>, <<2, 4, 4>>}, m \in {0, 1, 4}} \cup
  {[Good EXCEPT !.cut = [section |-> c, by |-> n], !.ids = <<3, 1>>, !.events = e,
                !.features = {"build_id"}, !.builds = <<3, 4>>] :
     c \in {"attributes", "ids", "build_ids", "events"}, n \in {1, 2},
     e \in {<<4>>, <<3, 4>>, <<2, 3, 4>>}} \cup
  {[Good EXCEPT !.readable = FALSE], [Good EXCEPT !.odd = TRUE], [Good EXCEPT !.ids = <<>>]}
=============================================================================
