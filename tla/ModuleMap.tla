------------------------------- MODULE ModuleMap -------------------------------
(***************************************************************************)
(* The map from addresses and times to the modules of a process            *)
(* (snail/analysis/detail/module_map.hpp), which the process contexts fill *)
(* with the load events of a recording and which the data providers ask    *)
(* for the module an instruction pointer lies in.                          *)
(*                                                                         *)
(* insert() is modelled case by case; the searches in the sorted vector of *)
(* ranges are stated by what they find.                                    *)
(* Modules that were loaded at the same time keep the order in which they  *)
(* were inserted, as they do with the sort of the standard libraries for   *)
(* as few as are active at an address.                                     *)
(*                                                                         *)
(* A definition that stands directly above the one it varies, and that     *)
(* nothing uses, is the code with a plausible bug in it; README.md says    *)
(* which property notices it.                                              *)
(***************************************************************************)
EXTENDS Integers, Sequences, FiniteSets, SequencesExt

CONSTANTS
  MaxAddress,   \* bound: addresses are 0 .. MaxAddress - 1
  MaxTime,      \* bound: time stamps are 1 .. MaxTime
  Payloads,     \* what modules are told apart by
  MaxModules    \* bound: number of load events

ASSUME BoundsAssumption == MaxAddress \in Nat /\ MaxTime \in Nat /\ MaxModules \in Nat

Addresses == 0 .. MaxAddress - 1
Times     == 1 .. MaxTime

\* Modules of size 0 are left out: see README.md.
Loads == {l \in [base : Addresses, end : 1 .. MaxAddress, payload : Payloads, time : Times] :
            l.base < l.end}

VARIABLES
  loaded,   \* the load events so far
  modules,  \* modules: indices into loaded of those that are kept
  ranges    \* address_ranges; active_modules has indices into loaded

vars == <<loaded, modules, ranges>>

-----------------------------------------------------------------------------

\* address_range with a single active module
NewRange(begin, end, k) == [begin |-> begin, end |-> end, active |-> <<k>>]

\* A sequence with x in it, behind as many of its elements as are told.
behind(s, n, x) ==
  [i \in 1 .. Len(s) + 1 |-> IF i <= n THEN s[i] ELSE IF i = n + 1 THEN x ELSE s[i - 1]]

\* active_modules with module k added, sorted by load time stamp
added(log, active, k) ==
  behind(active,
         CHOOSE n \in 0 .. Len(active) :
           \A i \in 1 .. Len(active) : i <= n <=> log[active[i]].time <= log[k].time,
         k)

\* The range that has the address inside is split there.
inside(r, address) == r.begin < address /\ address < r.end
split_overlapping(rs, address) ==
  IF \E i \in 1 .. Len(rs) : inside(rs[i], address)
  THEN LET i == CHOOSE i \in 1 .. Len(rs) : inside(rs[i], address)
       IN  behind(rs, i, [rs[i] EXCEPT !.begin = address])
  ELSE rs
split(rs, address) ==
  IF \E i \in 1 .. Len(rs) : inside(rs[i], address)
  THEN LET i == CHOOSE i \in 1 .. Len(rs) : inside(rs[i], address)
       IN  behind([rs EXCEPT ![i].end = address], i, [rs[i] EXCEPT !.begin = address])
  ELSE rs

\* Module k is added to all ranges between two addresses at which ranges end or begin.
activated(log, rs, b, e, k) ==
  [i \in 1 .. Len(rs) |->
     IF b <= rs[i].begin /\ rs[i].end <= e THEN [rs[i] EXCEPT !.active = added(log, @, k)] ELSE rs[i]]

\* The module is exactly one of the ranges, and equal to the latest of the
\* modules there, which is not newer: nothing is changed.
same_module(log, rs, k) ==
  \E i \in 1 .. Len(rs) :
    /\ rs[i].begin = log[k].base /\ rs[i].end = log[k].end
    /\ log[Last(rs[i].active)].time <= log[k].time
    /\ log[Last(rs[i].active)].payload = log[k].payload

\* A new range is inserted behind those that begin before its end.
between(rs, b, e, k) ==
  behind(rs,
         CHOOSE n \in 0 .. Len(rs) : \A i \in 1 .. Len(rs) : i <= n <=> rs[i].begin < e,
         NewRange(b, e, k))

\* Module k is inserted from b to e, which is not outside of all ranges.
overlaid(log, rs, b, e, k) ==
  IF \A i \in 1 .. Len(rs) : rs[i].end <= b \/ e <= rs[i].begin THEN between(rs, b, e, k)
  ELSE IF same_module(log, rs, k) THEN rs
  ELSE activated(log, split(split(rs, b), e), b, e, k)

lower(x, y) == IF x < y THEN x ELSE y
upper(x, y) == IF x < y THEN y ELSE x

\* The total range is enlarged at the beginning, then at the end.
enlarged_front(log, rs, k) ==
  IF log[k].base < rs[1].begin
  THEN behind(rs, 0, NewRange(log[k].base, lower(rs[1].begin, log[k].end), k))
  ELSE rs
enlarged_back(log, rs, b, k) ==
  IF Last(rs).end < log[k].end
  THEN behind(rs, Len(rs), NewRange(upper(Last(rs).end, b), log[k].end, k))
  ELSE rs

\* insert(): the ranges after module k of the log has been inserted.
inserted(log, rs, k) ==
  IF rs = <<>> THEN <<NewRange(log[k].base, log[k].end, k)>>
  ELSE LET b   == upper(rs[1].begin, log[k].base)
           e   == lower(Last(rs).end, log[k].end)
           rs1 == enlarged_front(log, rs, k)
           rs2 == enlarged_back(log, rs1, b, k)
       IN  IF log[k].end <= b THEN rs1 ELSE IF e <= b THEN rs2 ELSE overlaid(log, rs2, b, e, k)

\* find(): the index of the module, or 0.
found_first(rs, a, t) ==
  LET at == {i \in 1 .. Len(rs) : rs[i].begin <= a /\ a < rs[i].end}
  IN  IF at = {} THEN 0
      ELSE LET active == rs[CHOOSE i \in at : TRUE].active
           IN  IF loaded[active[1]].time <= t THEN active[1] ELSE 0
found(rs, a, t) ==
  LET at == {i \in 1 .. Len(rs) : rs[i].begin <= a /\ a < rs[i].end}
  IN  IF at = {} THEN 0
      ELSE LET active == rs[CHOOSE i \in at : TRUE].active
               early  == {i \in 1 .. Len(active) : loaded[active[i]].time <= t}
           IN  IF early = {} THEN 0
               ELSE active[CHOOSE i \in early : \A j \in early : j <= i]

-----------------------------------------------------------------------------

Init ==
  /\ loaded = <<>>
  /\ modules = {}
  /\ ranges = <<>>

\* A load event: the process context inserts the module.
Insert(l) ==
  /\ Len(loaded) < MaxModules
  /\ loaded' = Append(loaded, l)
  /\ ranges' = inserted(loaded', ranges, Len(loaded'))
  /\ modules' = IF ranges # <<>> /\ ranges' = ranges THEN modules
                                                  ELSE modules \cup {Len(loaded')}

Next == \E l \in Loads : Insert(l)

Spec == Init /\ [][Next]_vars

-----------------------------------------------------------------------------
(* Properties *)

Covers(k, a) == loaded[k].base <= a /\ a < loaded[k].end

\* The ranges are in order, do not overlap, and have modules that cover them and
\* are kept, "Sorted by load_timestamp (from oldest to newest)".
RangesSound ==
  /\ \A i \in 1 .. Len(ranges) : ranges[i].begin < ranges[i].end
  /\ \A i \in 1 .. Len(ranges) - 1 : ranges[i].end <= ranges[i + 1].begin
  /\ \A i \in 1 .. Len(ranges) :
       LET active == ranges[i].active
       IN  /\ active # <<>>
           /\ \A j \in 1 .. Len(active) - 1 :
                loaded[active[j]].time <= loaded[active[j + 1]].time
           /\ \A j \in 1 .. Len(active) :
                /\ active[j] \in modules
                /\ \A a \in ranges[i].begin .. ranges[i].end - 1 : Covers(active[j], a)

EventsSorted == \A k \in 1 .. Len(loaded) - 1 : loaded[k].time <= loaded[k + 1].time

\* The module found for an address at a time is loaded there by then, and, if load
\* events came in the order of their time stamps, none has been loaded over it
\* since, unless an equal one.
FindsLatest ==
  /\ RangesSound
  /\ \A a \in Addresses, t \in Times :
       LET m == found(ranges, a, t)
       IN  m # 0 =>
             /\ Covers(m, a) /\ loaded[m].time <= t
             /\ EventsSorted => \A k \in 1 .. Len(loaded) :
                  Covers(k, a) /\ loaded[m].time < loaded[k].time /\ loaded[k].time <= t
                    => loaded[k].payload = loaded[m].payload

\* A module is found at each of its addresses from the time it is loaded, unless
\* it was inserted over a module that covers only a part of its addresses.
MissesOnlyBesideOthers ==
  \A k \in 1 .. Len(loaded), a \in Addresses :
    Covers(k, a) /\ found(ranges, a, MaxTime) = 0 =>
      \E j \in 1 .. k - 1 :
        /\ ~Covers(j, a)
        /\ loaded[j].base < loaded[k].end /\ loaded[k].base < loaded[j].end

\* The map keeps its order, finds the latest, and misses nothing else.
ModulesFound == FindsLatest /\ MissesOnlyBesideOthers
=============================================================================
