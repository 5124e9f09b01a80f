---------------------------------- MODULE Views ----------------------------------
(***************************************************************************)
(* What the handlers of the server make of an analysis                     *)
(* (snail/server/snail_server.cpp): the pages of functions, the hottest    *)
(* functions of all processes, the hot path through the call tree and the  *)
(* nodes that are expanded below it, the callers and callees of a function, *)
(* the hits of its lines.  The handlers change nothing but the caches of   *)
(* the storage, which DocumentStorage is about, so that an answer is an    *)
(* operator on the state of StacksAnalysis.                                *)
(*                                                                         *)
(* Sorting is not stable, and what is sorted comes from a hash map: where  *)
(* an operator takes a list, any list that is Sorted may be there.  Names  *)
(* are those of the frames; the percentages, which make_percent() computes *)
(* from the hits and the totals of the document, are left out.             *)
(*                                                                         *)
(* A definition that stands directly above the one it varies, and that     *)
(* nothing uses, is the code with a plausible bug in it; README.md says    *)
(* which property notices it.                                              *)
(***************************************************************************)
EXTENDS StacksAnalysis

CONSTANTS
  Alphabet,      \* the symbols of Frames in the order of their names
  OtherProcess,  \* the self hits of its functions, sorted; the same for each source
  MaxEntries     \* bound: page sizes, counts and maximums of entries in requests

ASSUME ViewsAssumption ==
  /\ {fr.symbol : fr \in Frames} \subseteq Range(Alphabet)
  /\ OtherProcess \in Seq(Nat)
  /\ \A i, j \in DOMAIN OtherProcess : i < j => OtherProcess[i] <= OtherProcess[j]
  /\ MaxEntries \in Nat \ {0}

Root == 0
Functions == DOMAIN functions
name(f) == IdIn(Alphabet, functions[f][2])

\* make_hits_json()
hits_of(kind, id, sum, s) == CountOf(IF sum = "total" THEN total ELSE self, <<kind, id, s>>)
hits(kind, id) == [s \in Sources |-> [total |-> hits_of(kind, id, "total", s), self |-> hits_of(kind, id, "self", s)]]

-----------------------------------------------------------------------------
(* storage::get_functions_page() and the handler of retrieveFunctionsPage.   *)

ByName == [by |-> "name"]
SortKinds == {ByName} \cup [by : {"self", "total"}, source : Sources]

less(kind, f, g) ==
  IF kind = ByName THEN name(f) < name(g)
  ELSE LET value(x) == hits_of("function", x, kind.by, kind.source)
       IN  value(f) < value(g) \/ (value(f) = value(g) /\ name(f) < name(g))

\* The sequences of the elements of S that std::ranges::sort() may leave behind.
Sorted(S, Less(_, _)) ==
  {q \in SetToSeqs(S) : \A i, j \in DOMAIN q : i < j => ~Less(q[j], q[i])}
get_sorted_functions(kind) == Sorted(Functions, LAMBDA f, g : less(kind, f, g))

span_counted_from_the_front(list, reversed, size, index) ==
  LET start == Min({index * size, Len(list)})
      end   == Min({(index + 1) * size, Len(list)})
  IN  SubSeq(list, start + 1, end)
span(list, reversed, size, index) ==
  LET start == Min({index * size, Len(list)})
      end   == Min({(index + 1) * size, Len(list)})
  IN  IF reversed THEN SubSeq(list, Len(list) - end + 1, Len(list) - start)
      ELSE SubSeq(list, start + 1, end)

\* After a cancellation, the answer is the beginning of this one.
functions_page(list, descending, size, index) ==
  LET page == span(list, descending, size, index)
  IN  IF descending THEN Reverse(page) ELSE page

-----------------------------------------------------------------------------
(* retrieveHottestFunctions: the hottest of each process, then of all.        *)

Other == "other process"
entries(list, count) == {<<"process", f>> : f \in Range(span(list, TRUE, count, 0))}
other_entries(count) ==
  {<<Other, i>> : i \in Range(span([i \in DOMAIN OtherProcess |-> i], TRUE, count, 0))}
entry_hits(e, s) ==
  IF e[1] = Other THEN OtherProcess[e[2]] ELSE hits_of("function", e[2], "self", s)

hottest_functions(list, count, s) ==
  {SubSeq(q, 1, Min({count, Len(q)})) :
     q \in Sorted(entries(list, count) \cup other_entries(count),
                  LAMBDA x, y : entry_hits(x, s) > entry_hits(y, s))}

-----------------------------------------------------------------------------
(* retrieveCallTreeHotPath and expandCallTreeNode.                            *)

\* The first of the children with the most hits.
get_top_child(n, s) ==
  LET at(i) == hits_of("node", children[n][i], "total", s)
  IN  children[n][Min({i \in DOMAIN children[n] : \A j \in DOMAIN children[n] : at(j) <= at(i)})]

expand_top_child(n, s) ==
  /\ children[n] # <<>>
  /\ hits_of("node", get_top_child(n, s), "total", s) > hits_of("node", n, "self", s)

\* The nodes whose children are in the answer, unless the request is canceled before
\* the end.
hot_path(s) ==
  LET path[depth \in 0 .. Len(nodes)] ==
        IF depth = 0 THEN <<Root>>
        ELSE LET before == path[depth - 1]
             IN  IF Len(before) = depth /\ expand_top_child(Last(before), s)
                 THEN Append(before, get_top_child(Last(before), s)) ELSE before
  IN  path[Len(nodes)]

\* A node in the answer, when the handler has come as far as given: its children are
\* there, or the client has to ask for them ("null").  Those of the hot child of the
\* last node are not even that if the request has been canceled.
shown(path, s) == UNION {{n} \cup Range(children[n]) : n \in Range(path)}
children_json(path, s, n) ==
  IF n \in Range(path) \/ children[n] = <<>> THEN "array"
  ELSE IF expand_top_child(Last(path), s) /\ n = get_top_child(Last(path), s) THEN "missing"
  ELSE "null"

\* What a client has that asks for all the children it has not been given.
browsed(path, s) ==
  LET known[k \in 0 .. Len(nodes)] ==
        IF k = 0 THEN shown(path, s)
        ELSE known[k - 1] \cup UNION {Range(children[n]) : n \in known[k - 1]}
  IN  known[Len(nodes)]

-----------------------------------------------------------------------------
(* retrieveCallersCallees and retrieveLineInfo.                               *)

\* function.callers, function.callees: the others that are in the map.
related(kind, f) == {g \in {Root} \cup Functions : \E s \in Sources : <<kind, <<f, g>>, s>> \in DOMAIN total}
max_entries(requested) == IF requested > 0 THEN requested ELSE 1
sorted_related(kind, f, s) ==
  Sorted(related(kind, f), LAMBDA g, h : hits_of(kind, <<f, g>>, "total", s) > hits_of(kind, <<f, h>>, "total", s))

\* The items: a function with all its hits, or the accumulated one, whose hits are
\* overwritten by those of each function that it stands for.
regular_items_count(list, max) == IF Len(list) > max THEN max - 1 ELSE Len(list)
callers_callees_json(list, max) ==
  [i \in 1 .. regular_items_count(list, max) |-> [ids |-> {list[i]}, hits |-> hits("function", list[i])]]
  \o (IF Len(list) > max
      THEN <<[ids |-> {list[i] : i \in max .. Len(list)}, hits |-> hits("function", Last(list))]>>
      ELSE <<>>)

line_info(f) ==
  IF f = Root \/ file_of[f] = 0 THEN {}
  ELSE {<<l, hits("line", <<f, l>>)>> :
          l \in {line \in {fr.line : fr \in Frames} :
                   \E s \in Sources : <<"line", <<f, line>>, s>> \in DOMAIN total}}

-----------------------------------------------------------------------------
(* Properties of the answers, once the analysis is there. *)

\* The pages of any size give each function once, in the order that was asked for, and
\* the self hits on them, with those of the root, are the samples that had anything.
PagesComplete ==
  /\ \A kind \in SortKinds : \A list \in get_sorted_functions(kind) : \A size \in 1 .. MaxEntries :
       \A descending \in BOOLEAN :
         FlattenSeq([i \in 1 .. Len(list) + 1 |-> functions_page(list, descending, size, i - 1)])
           = IF descending THEN Reverse(list) ELSE list
  /\ \A s \in Sources :
       FoldSet(LAMBDA f, n : n + hits_of("function", f, "self", s), 0, {Root} \cup Functions)
         = Cardinality({i \in DOMAIN seen : seen[i].source = s /\ seen[i].kind # "neither"})

\* The hottest functions are as many as were asked for or there are, and none that is
\* left out, of whatever process, has more self hits.
HottestOfAll ==
  \A s \in Sources : \A list \in get_sorted_functions([by |-> "self", source |-> s]) :
    \A count \in 1 .. MaxEntries : \A answer \in hottest_functions(list, count, s) :
      LET all == {<<"process", f>> : f \in Functions} \cup {<<Other, i>> : i \in DOMAIN OtherProcess}
      IN  /\ Cardinality(Range(answer)) = Min({count, Cardinality(all)})
          /\ \A x \in Range(answer), y \in all \ Range(answer) : entry_hits(x, s) >= entry_hits(y, s)

\* The hot path goes from the root to where no child has more hits than the node itself,
\* and no node beside it has more hits.  A client that expands what it was told to gets
\* the whole tree from there; also if the path was cut short by a cancellation, unless
\* it holds the hot child, for which it was told nothing, for a leaf.
HotPathExpands ==
  \A s \in Sources :
    LET whole == hot_path(s)
    IN  /\ \A i \in 1 .. Len(whole) - 1 : \A c \in Range(children[whole[i]]) :
             hits_of("node", c, "total", s) <= hits_of("node", whole[i + 1], "total", s)
        /\ \A c \in Range(children[Last(whole)]) :
             hits_of("node", c, "total", s) <= hits_of("node", Last(whole), "self", s)
        /\ \A steps \in 1 .. Len(whole) :
             LET path == SubSeq(whole, 1, steps)
             IN  /\ browsed(path, s) = DOMAIN children
                 /\ \A n \in shown(path, s) : children_json(path, s, n) = "missing" => steps < Len(whole)

\* Callers and callees are shown or accumulated, each once, and no more than were asked
\* for; those that are accumulated are not called more often than those that are shown.
\* What is shown with them does not add up to the hits of the function: it is the hits
\* of each whole caller or callee, and with the accumulated ones those of one of them.
RelatedShown ==
  \A kind \in {"caller", "callee"}, f \in {Root} \cup Functions, s \in Sources :
    \A list \in sorted_related(kind, f, s) : \A requested \in 0 .. MaxEntries :
      LET items == callers_callees_json(list, max_entries(requested))
          count(g) == hits_of(kind, <<f, g>>, "total", s)
      IN  /\ Len(items) <= max_entries(requested)
          /\ UNION {items[i].ids : i \in DOMAIN items} = related(kind, f)
          /\ \A i \in DOMAIN items : \E g \in items[i].ids : items[i].hits = hits("function", g)
          /\ \A i, j \in DOMAIN items : i < j =>
               \A g \in items[i].ids, h \in items[j].ids : g # h /\ count(g) >= count(h)

\* The lines of a function have all its hits that come from frames with a file.
LinesAddUp ==
  \A f \in Functions, s \in Sources :
    FoldSet(LAMBDA l, n : n + l[2][s].total, 0, line_info(f))
      = Cardinality({p \in Places(s) : FunctionNamed(NameOf(FrameAt(p))) = f /\ FrameAt(p).file # NoFile})

\* Whatever a client asks for, the answers leave out no function, node, line, caller or
\* callee of the analysis and give none twice; the hits of the pages of functions and of
\* the lines add up, those of callers and callees do not.
AnswersShowAnalysis ==
  pc = "done" =>
    /\ PagesComplete
    /\ HottestOfAll
    /\ HotPathExpands
    /\ RelatedShown
    /\ LinesAddUp
=============================================================================
