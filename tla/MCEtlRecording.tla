---------------------------- MODULE MCEtlRecording ----------------------------
EXTENDS EtlRecording

CONSTANTS app, tool, conhost

MCPartitions == (1 :> 1) @@ (2 :> 1)
MCFilters    == {NoFilter, [NoFilter EXCEPT !.min = 3, !.max = 4, !.threads = {<<1, 2>>}]}
MCTogether   == {"pmc sample", "image", "pdb info"}

\* What the recorder of a run records: lives of processes and threads, stacks,
\* context switches, families of processes, images, disks, sources.
Scene(kinds, events) ==
  [kinds |-> kinds, events |-> events, pids |-> {1, 2}, tids |-> {1},
   images |-> {app, tool}, parents |-> {0}, bases |-> {1}, files |-> {1}, sources |-> {1, 2}]
MCScenes ==
  { [Scene({"process start", "process end", "thread start", "thread end", "sample"}, 6)
        EXCEPT !.tids = {1, 2}, !.images = {app}],
    Scene({"process start", "process end", "thread start", "thread end", "sample"}, 7),
    [Scene({"sample", "pmc sample", "stack", "stack key", "stack of key"}, 5) EXCEPT !.sources = {1}],
    [Scene({"process start", "thread start", "thread end", "switch"}, 6) EXCEPT !.images = {app}],
    [Scene({"process start", "target"}, 4) EXCEPT !.pids = {1, 2, 3}, !.images = {app, conhost}, !.parents = {0, 1, 2}],
    [Scene({"image", "pdb info"}, 5) EXCEPT !.pids = {1}, !.bases = {1, 2}],
    [Scene({"image", "physical disk", "logical disk", "volume mapping", "system paths"}, 4)
        EXCEPT !.pids = {1}, !.files = {0, 1, 2}],
    [Scene({"pmc sample", "source name"}, 4) EXCEPT !.tids = {1, 2}] }
=============================================================================
