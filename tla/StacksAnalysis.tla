----------------------------- MODULE StacksAnalysis -----------------------------
(***************************************************************************)
(* analyze_stacks() (snail/analysis/analysis.cpp): the samples of a process *)
(* are counted for the modules, functions, files and lines of their frames, *)
(* for the pairs of a caller and a callee, and for the nodes of the call   *)
(* tree.  A sample has a stack, or only a frame, or neither.               *)
(*                                                                         *)
(* The vectors of the result are sequences, and an id is a position in one; *)
(* 0 stands for the root of the functions and for that of the call tree.   *)
(* The counters are two functions, total and self, of what was counted:    *)
(* <<kind, id, source>>, where a line and a caller or callee have the id of *)
(* the function in front of their own.  Names, paths and lines are values, *)
(* which the symbol resolvers are expected to supply; in each of them       *)
(* functions with one name are one function.                               *)
(*                                                                         *)
(* A definition that stands directly above the one it varies, and that     *)
(* nothing uses, is the code with a plausible bug in it; README.md says    *)
(* which property notices it.                                              *)
(***************************************************************************)
EXTENDS Integers, Sequences, FiniteSets, SequencesExt, ProgressReporter

CONSTANTS
  NumberOfSources,  \* provider.sample_sources() has the ids 1 .. NumberOfSources
  Frames,           \* the stack_frames: module, symbol, file and line
  NoFile,           \* an empty file_path
  Resolution,       \* of the progress listener, as in ProgressReporter
  MaxSamples,       \* bound: samples of the process, of all sources
  MaxSize           \* bound: samples and their frames together, so that the fewer
                    \* samples there are the longer are their stacks

ASSUME BoundsAssumption ==
  /\ NumberOfSources \in Nat \ {0}
  /\ \A fr \in Frames : DOMAIN fr = {"module", "symbol", "file", "line"}
  /\ Resolution \in (Nat \ {0}) \X (Nat \ {0}) /\ Resolution[1] <= Resolution[2]
  /\ MaxSamples \in Nat /\ MaxSize \in Nat

Sources == 1 .. NumberOfSources

VARIABLES
  pc,           \* where analyze_stacks() is
  source,       \* source_info.id of the outer loop
  samples_left, \* per source: samples its generator has still to yield
  modules,      \* result.modules: their names
  functions,    \* result.functions: <<module id, name>>
  file_of,      \* per function: its file_id, or 0
  files,        \* result.files: their paths
  nodes,        \* result.call_tree_nodes: their function_ids
  children,     \* per node and for the root: the ids of its children
  total,        \* the hits.total of what was counted: a number for each
  self,         \* the hits.self
  previous,     \* the five optionals of the loop over a stack; 0 is nullopt
  progress,     \* the progress reporter
  seen          \* history: the samples so far, each with its frames so far

result == <<modules, functions, file_of, files, nodes, children, total, self>>
vars == <<pc, source, samples_left, result, previous, progress, seen>>

NoPrevious == [module |-> 0, function |-> 0, node |-> 0, file |-> 0, line |-> 0]

Init ==
  /\ pc = "samples"
  /\ source = 1
  /\ samples_left \in {c \in [Sources -> 0 .. MaxSamples] :
                         FoldFunction(+, 0, c) <= MaxSamples}
  /\ modules = <<>> /\ functions = <<>> /\ file_of = <<>> /\ files = <<>>
  /\ nodes = <<>>
  /\ children = [n \in {0} |-> <<>>]
  /\ total = [c \in {} |-> 0] /\ self = [c \in {} |-> 0]
  /\ previous = NoPrevious
  /\ progress = Reporter(FoldFunction(+, 0, samples_left), Resolution)
  /\ seen = <<>>

-----------------------------------------------------------------------------
(* The helpers *)

\* The counters once the ones of these <<kind, id>> were incremented for the source.
CountOf(counters, c) == IF c \in DOMAIN counters THEN counters[c] ELSE 0
Incremented(counters, keys) ==
  LET of_source == {<<k[1], k[2], source>> : k \in keys}
  IN  [c \in DOMAIN counters \cup of_source |->
         CountOf(counters, c) + (IF c \in of_source THEN 1 ELSE 0)]

\* get_or_create_module(), ..function(), ..file(): the vector afterwards and the id.
get_or_create(s, x) == IF x \in Range(s) THEN s ELSE Append(s, x)
IdIn(s, x) == CHOOSE i \in DOMAIN s : s[i] = x

\* What they do for a frame.  file is 0 when the frame has no file.
CreateFor(fr) ==
  LET name == <<IdIn(modules', fr.module), fr.symbol>>
  IN  /\ modules' = get_or_create(modules, fr.module)
      /\ functions' = get_or_create(functions, name)
      /\ files' = IF fr.file = NoFile THEN files ELSE get_or_create(files, fr.file)

IdsOf(fr) ==
  LET m == IdIn(modules', fr.module)
  IN  [module |-> m, function |-> IdIn(functions', <<m, fr.symbol>>),
       file |-> IF fr.file = NoFile THEN 0 ELSE IdIn(files', fr.file), line |-> fr.line]

\* The module, function, file and line that a frame is counted for.
counted(ids) ==
  {<<"module", ids.module>>, <<"function", ids.function>>}
    \cup (IF ids.file = 0 THEN {}
          ELSE {<<"file", ids.file>>, <<"line", <<ids.function, ids.line>>>>})

\* function.file_id is set by the first frame of a function that has a file.
SetFileOf(ids) ==
  file_of' = [f \in DOMAIN functions' |->
                IF f \in DOMAIN file_of /\ file_of[f] # 0 THEN file_of[f]
                ELSE IF f = ids.function THEN ids.file ELSE 0]

\* get_or_append_call_tree_child(): the child of a node for a function.
ChildrenFor(parent, f) == {c \in Range(children[parent]) : nodes[c] = f}
found_anywhere(parent, f) == {c \in DOMAIN nodes : nodes[c] = f}
found(parent, f) == ChildrenFor(parent, f)

GetOrAppendChild(parent, f) ==
  IF found(parent, f) # {}
  THEN UNCHANGED <<nodes, children>>
  ELSE /\ nodes' = Append(nodes, f)
       /\ children' = [n \in 0 .. Len(nodes) + 1 |->
                         IF n > Len(nodes) THEN <<>>
                         ELSE IF n = parent THEN Append(children[n], Len(nodes) + 1)
                         ELSE children[n]]

NodeFor(parent, f) ==
  IF found(parent, f) # {} THEN CHOOSE c \in found(parent, f) : TRUE ELSE Len(nodes) + 1

\* The call of a frame by the one below it, or by the root, seen from both.
called_from_others(caller, callee) ==
  IF caller = callee THEN {}
  ELSE {<<"callee", <<caller, callee>>>>, <<"caller", <<callee, caller>>>>}
called_from(caller, callee) ==
  {<<"callee", <<caller, callee>>>>, <<"caller", <<callee, caller>>>>}

-----------------------------------------------------------------------------
(* The steps *)

FramesSeen == FoldSeq(LAMBDA s, n : n + Len(s.frames), 0, seen)
RoomForAFrame == progress.total_work + FramesSeen < MaxSize

\* The next sample of the source; the token was tested before.
TakeSample(kind, frames) ==
  /\ pc = "samples" /\ samples_left[source] > 0
  /\ samples_left' = [samples_left EXCEPT ![source] = @ - 1]
  /\ progress' = Progressed(progress, 1)
  /\ seen' = Append(seen, [kind |-> kind, source |-> source, frames |-> frames])
  /\ UNCHANGED source

\* A sample with a stack ...
StartStack ==
  /\ TakeSample("stack", <<>>)
  /\ total' = Incremented(total, {<<"node", 0>>, <<"function", 0>>})
  /\ previous' = NoPrevious
  /\ pc' = "stack"
  /\ UNCHANGED <<modules, functions, file_of, files, nodes, children, self>>

\* ... whose frames follow from the outermost to the innermost ...
the_file(ids) == IF ids.file = 0 THEN previous.file ELSE ids.file
previous_file(ids) == ids.file

Frame ==
  /\ pc = "stack" /\ RoomForAFrame
  /\ \E fr \in Frames :
       LET ids  == IdsOf(fr)
           node == NodeFor(previous.node, ids.function)
       IN  /\ CreateFor(fr)
           /\ SetFileOf(ids)
           /\ GetOrAppendChild(previous.node, ids.function)
           /\ total' = Incremented(total, counted(ids) \cup {<<"node", node>>}
                                                  \cup called_from(previous.function, ids.function))
           /\ previous' = [module |-> ids.module, function |-> ids.function, node |-> node,
                           file |-> previous_file(ids), line |-> ids.line]
           /\ seen' = [seen EXCEPT ![Len(seen)].frames = Append(@, fr)]
  /\ UNCHANGED <<pc, source, samples_left, self, progress>>

\* ... and what the innermost belongs to is counted as self; of a stack without a
\* frame (all of it were markers) that is the root.
EndStack ==
  /\ pc = "stack"
  /\ self' = Incremented(self, {<<"node", previous.node>>} \cup
               (IF previous.function = 0 THEN {<<"function", 0>>} ELSE counted(previous)))
  /\ pc' = "samples"
  /\ UNCHANGED <<source, samples_left, modules, functions, file_of, files, nodes,
                 children, total, previous, progress, seen>>

\* A sample without a stack but with a frame
FrameOnly ==
  /\ RoomForAFrame
  /\ \E fr \in Frames :
       LET ids == IdsOf(fr)
       IN  /\ TakeSample("frame", <<fr>>)
           /\ CreateFor(fr)
           /\ SetFileOf(ids)
           /\ total' = Incremented(total, counted(ids))
           /\ self' = Incremented(self, counted(ids))
  /\ UNCHANGED <<pc, nodes, children, previous>>

\* and one with neither
Neither ==
  /\ TakeSample("neither", <<>>)
  /\ UNCHANGED <<pc, result, previous>>

NextSource ==
  /\ pc = "samples" /\ samples_left[source] = 0 /\ source < NumberOfSources
  /\ source' = source + 1
  /\ UNCHANGED <<pc, samples_left, result, previous, progress, seen>>

\* The token is tested before each sample, and left alone without one.
AbandonSource ==
  /\ pc = "samples" /\ samples_left[source] > 0
  /\ samples_left' = [samples_left EXCEPT ![source] = 0]
  /\ UNCHANGED <<pc, source, result, previous, progress, seen>>
Abandon ==
  /\ pc = "samples" /\ samples_left[source] > 0
  /\ pc' = "canceled"
  /\ UNCHANGED <<source, samples_left, result, previous, progress, seen>>

Finish ==
  /\ pc = "samples" /\ samples_left[source] = 0 /\ source = NumberOfSources
  /\ progress' = Finished(progress)
  /\ pc' = "done"
  /\ UNCHANGED <<source, samples_left, result, previous, seen>>

Next ==
  \/ StartStack \/ Frame \/ EndStack
  \/ FrameOnly \/ Neither
  \/ NextSource \/ Abandon \/ Finish

Spec == Init /\ [][Next]_vars

-----------------------------------------------------------------------------
(* Properties: what is counted, compared with the samples seen. *)

Complete == {i \in DOMAIN seen : pc = "stack" => i < Len(seen)}
Stacks(s) == {i \in DOMAIN seen : seen[i].kind = "stack" /\ seen[i].source = s}

NameOf(fr) == <<fr.module, fr.symbol>>
Names(i) == [k \in DOMAIN seen[i].frames |-> NameOf(seen[i].frames[k])]
FunctionNamed(name) == IdIn(functions, <<IdIn(modules, name[1]), name[2]>>)

Total(kind, id, s) == CountOf(total, <<kind, id, s>>)
Self(kind, id, s)  == CountOf(self, <<kind, id, s>>)

\* The names on the way from the root to each of the nodes.
FunctionName(f) == <<modules[functions[f][1]], functions[f][2]>>
Parent(n) == CHOOSE p \in DOMAIN children : n \in Range(children[p])
PathTo ==
  LET path[n \in DOMAIN children] ==
        IF n = 0 THEN <<>> ELSE Append(path[Parent(n)], FunctionName(nodes[n]))
  IN  path

\* The call tree is the tree of the prefixes of the stacks: one node for each, also
\* below a function that calls itself, with the number of the stacks that begin
\* with it as its total and of those that are it as its self hits.
TreeOfPrefixes ==
  LET Paths == {<<>>} \cup UNION {Prefixes(Names(i)) : i \in UNION {Stacks(s) : s \in Sources}}
      path  == PathTo
  IN  /\ \A m, n \in DOMAIN children : \A i \in DOMAIN children[m], j \in DOMAIN children[n] :
           children[m][i] = children[n][j] => m = n /\ i = j
      /\ {path[n] : n \in DOMAIN children} = Paths
      /\ \A m, n \in DOMAIN children : path[m] = path[n] => m = n
      /\ \A n \in DOMAIN children, s \in Sources :
           /\ Total("node", n, s) = Cardinality({i \in Stacks(s) : IsPrefix(path[n], Names(i))})
           /\ Self("node", n, s) = Cardinality({i \in Stacks(s) \cap Complete : path[n] = Names(i)})

\* Where frames are: in sample i at position k, of source s.
Places(s) ==
  UNION {{i} \X (DOMAIN seen[i].frames) : i \in {j \in DOMAIN seen : seen[j].source = s}}
FrameAt(p) == seen[p[1]].frames[p[2]]
Innermost(p) == p[1] \in Complete /\ p[2] = Len(seen[p[1]].frames)

\* The counters of a kind and id are those of the frames that satisfy P.
CountsFrames(kind, id, P(_)) ==
  \A s \in Sources :
    LET places == {p \in Places(s) : P(FrameAt(p))}
    IN  /\ Total(kind, id, s) = Cardinality(places)
        /\ Self(kind, id, s) = Cardinality({p \in places : Innermost(p)})

\* The functions, with the pairs of those that call one another.
FunctionsCounted ==
  /\ \A f \in DOMAIN functions :
       CountsFrames("function", f, LAMBDA fr : FunctionNamed(NameOf(fr)) = f)
  /\ \A s \in Sources :
       /\ Total("function", 0, s) = Cardinality(Stacks(s))
       /\ Self("function", 0, s) =
            Cardinality({i \in Stacks(s) \cap Complete : seen[i].frames = <<>>})
       /\ \A g \in DOMAIN functions, f \in {0} \cup DOMAIN functions :
            /\ Total("callee", <<f, g>>, s) = Total("caller", <<g, f>>, s)
            /\ Total("callee", <<f, g>>, s) =
                 Cardinality({p \in Places(s) :
                   /\ p[1] \in Stacks(s) /\ FunctionNamed(NameOf(FrameAt(p))) = g
                   /\ IF f = 0 THEN p[2] = 1
                      ELSE p[2] > 1 /\ FunctionNamed(NameOf(FrameAt(<<p[1], p[2] - 1>>))) = f})

\* The modules, the files, and the lines of the functions.
PlacesCounted ==
  /\ \A m \in DOMAIN modules : CountsFrames("module", m, LAMBDA fr : fr.module = modules[m])
  /\ \A x \in DOMAIN files : CountsFrames("file", x, LAMBDA fr : fr.file = files[x])
  /\ \A f \in DOMAIN functions, l \in {fr.line : fr \in Frames} :
       CountsFrames("line", <<f, l>>, LAMBDA fr :
         FunctionNamed(NameOf(fr)) = f /\ fr.file # NoFile /\ fr.line = l)
  /\ DOMAIN file_of = DOMAIN functions
  /\ \A f \in DOMAIN functions :
       LET with_file == {p \in UNION {Places(s) : s \in Sources} :
                           FunctionNamed(NameOf(FrameAt(p))) = f /\ FrameAt(p).file # NoFile}
       IN  IF with_file = {} THEN file_of[f] = 0
           ELSE \E first \in with_file :
                  /\ \A p \in with_file : first[1] < p[1] \/ (first[1] = p[1] /\ first[2] <= p[2])
                  /\ file_of[f] \in DOMAIN files /\ files[file_of[f]] = FrameAt(first).file

\* A function is counted for each of its frames, once more for each recursion, and
\* as self where it is the innermost frame; the pairs of caller and callee are those
\* of adjacent frames, the root calling the outermost, and are the same seen
\* from either side.  Modules and files are counted for each frame in them, and lines
\* for the function of the frame, if the frame has a file; a function keeps the
\* file that its first frame with one had.
CountersOfFrames == FunctionsCounted /\ PlacesCounted

\* The progress counts the samples, and an analysis that ends without having been
\* canceled has seen all of them and said so.
FinishedMeansAll ==
  /\ progress.current_work = Len(seen)
  /\ pc = "done" => /\ Len(seen) = progress.total_work
                    /\ Last(progress.reports) = progress.total_work
  /\ pc # "done" => ~progress.finished
=============================================================================
