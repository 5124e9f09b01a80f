---------------------------- MODULE MCPerfRecording ----------------------------
EXTENDS PerfRecording

CONSTANTS app, tool, plain, middle, front

\* Names are only compared with each other.
NameSymmetry == Permutations(Names)

MCFilters == {NoFilter, [NoFilter EXCEPT !.min = 3, !.max = 5, !.threads = {<<1, 2>>}]}

Attribute(ids, layout) == [ids |-> ids, layout |-> layout]
Two(layout)            == <<Attribute({1}, layout), Attribute({2, 3}, layout)>>

\* Lives and names of processes and threads; events of several sources, in files with
\* and without descriptors of their events; files that cannot be opened.
Scene(kinds, events) ==
  [kinds |-> kinds, events |-> events, threads |-> {<<1, 1>>, <<1, 2>>, <<2, 2>>}, late |-> {1},
   attributes |-> <<Attribute({}, plain)>>, described |-> TRUE, ids |-> {None}, timed |-> {TRUE}]
Several(layout) ==
  [Scene({"comm", "sample"}, 4) EXCEPT !.threads = {<<1, 1>>}, !.late = {}, !.timed = BOOLEAN,
     !.attributes = Two(layout), !.ids = {0, 1, 2, 3, 4}]
MCScenes ==
  { Scene({"fork", "comm"}, 5),
    [Scene({"fork", "comm", "sample"}, 4) EXCEPT !.late = {1, 3}],
    [Scene({"comm", "sample"}, 5) EXCEPT !.late = {3}, !.threads = {<<1, 1>>, <<1, 2>>}],
    Several(middle), [Several(middle) EXCEPT !.described = FALSE], Several(front),
    [Several(plain) EXCEPT !.attributes = <<>>],
    [Several(plain) EXCEPT !.attributes = <<Attribute({1}, middle), Attribute({2}, front)>>] }
=============================================================================
