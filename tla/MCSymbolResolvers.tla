-------------------------- MODULE MCSymbolResolvers --------------------------
(* Instances of SymbolResolvers for TLC. *)
EXTENDS SymbolResolvers

CONSTANTS p, q

MCPayloads  == {p, q}
MCResolvers == {"r1", "r2"}

Nowhere == [image \in MCPayloads |-> "absent"]
FindOptions(dirs, no_default, urls) ==
  [set |-> "find options", search_dirs |-> dirs, no_default_urls |-> no_default, urls |-> urls]
ModuleFilters(mode, include, exclude) ==
  [set |-> "module filters", mode |-> mode, include |-> include, exclude |-> exclude]
Load(image, base, end, time) == [base |-> base, end |-> end, payload |-> image, time |-> time]

\* Every sequence of load events, and no frames.
AnyMap ==
  [kind |-> "pdb", requests |-> <<>>, default_urls |-> <<>>, loads |-> AnyLoads, frames |-> <<>>,
   told |-> {}, binary |-> Nowhere, reference |-> Nowhere, next_to_module |-> Nowhere]

\* Both resolvers need the same file of p, which only servers have.
Download(kind, default, requests) ==
  [AnyMap EXCEPT !.kind = kind, !.loads = <<Load(p, 0, 2, 1)>>, !.frames = <<<<0, 1>>>>,
                 !.told = {p}, !.default_urls = default, !.requests = requests]
AnyFailure == {"other", "missing", "refused", "broken"}
\* ... and need it again for another module.
Twice(world_) == [world_ EXCEPT !.loads = <<Load(p, 0, 2, 1), Load(p, 2, 4, 2)>>, !.frames = <<<<0, 1>>, <<2, 2>>>>]
Downloads ==
  UNION {{Twice(Download(kind, <<{"own","other"},{"own"}>>, <<>>)),
          Download(kind, <<AnyFailure>>, <<FindOptions(<<>>, FALSE, <<{"own"}>>)>>),
          Download(kind, <<AnyFailure>>,
                   <<FindOptions(<<>>, FALSE, <<{"own"}>>),
                     FindOptions(<<>>, TRUE, <<{"own", "refused"}, {"missing", "own"}>>)>>)} :
         kind \in {"pdb", "dwarf"}}

\* Two modules beside each other and one that comes later in place of a part of both,
\* or two that are loaded at the same time; frames in each of them, before, after and
\* outside; whatever the local disk has, with and without a filter and identities.
Beside == <<Load(p, 0, 2, 1), Load(q, 2, 4, 2)>>
Locals ==
  {[AnyMap EXCEPT !.kind = kind, !.loads = loads,
      !.frames = <<<<0, 1>>, <<2, 2>>, <<1, 2>>, <<1, 1>>, <<4, 2>>>>,
      !.told = told, !.binary = [Nowhere EXCEPT ![p] = binary], !.reference = [Nowhere EXCEPT ![p] = reference],
      !.next_to_module = [Nowhere EXCEPT ![p] = next],
      !.requests = Append(filters, FindOptions(<<[image \in MCPayloads |-> IF image = p THEN directory_ ELSE "own"]>>,
                                               FALSE, <<>>))] :
     kind \in {"pdb", "dwarf"}, told \in {{}, {p, q}},
     filters \in {<<>>, <<ModuleFilters("all_but_excluded", {}, {q}), ModuleFilters("all_but_excluded", {}, {})>>,
                  <<ModuleFilters("only_included", {p}, {q})>>},
     loads \in {Beside, <<Load(p, 0, 2, 1), Load(q, 1, 3, 2)>>, <<Load(p, 0, 2, 1), Load(q, 2, 4, 1)>>},
     binary \in {"absent", "own", "other"}, reference \in {"absent", "other", "own"},
     next \in {"absent", "other"}, directory_ \in {"absent", "own", "other"}}

MCWorlds == {AnyMap} \cup Downloads \cup Locals
=============================================================================
