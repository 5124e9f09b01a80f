------------------------- MODULE StacksAnalysis_proofs -------------------------
(***************************************************************************)
(* Theorems about StacksAnalysis, for any number of sources, samples and   *)
(* frames: the tree is that of the prefixes of the stacks, every counter   *)
(* is the number of what it stands for, and an analysis that ends has      *)
(* counted all samples. And about the answers Views gives of such an       *)
(* analysis: for any page size, count and sorting they leave nothing out   *)
(* and show the hottest there is.                                          *)
(***************************************************************************)
EXTENDS Views, FiniteSetTheorems, WellFoundedInduction, TLAPS

-----------------------------------------------------------------------------
(* The inductive invariant *)

\* What IdsOf() will be for a frame that was there before.
Ids(fr) ==
  LET m == IdIn(modules, fr.module)
  IN  [module |-> m, function |-> IdIn(functions, <<m, fr.symbol>>),
       file |-> IF fr.file = NoFile THEN 0 ELSE IdIn(files, fr.file), line |-> fr.line]

HasIds(fr) ==
  /\ fr.module \in Range(modules)
  /\ <<IdIn(modules, fr.module), fr.symbol>> \in Range(functions)
  /\ fr.file # NoFile => fr.file \in Range(files)

Samples == [kind : {"stack", "frame", "neither"}, source : Sources, frames : Seq(Frames)]

VectorsTyped ==
  /\ modules \in Seq({fr.module : fr \in Frames})
  /\ functions \in Seq((DOMAIN modules) \X {fr.symbol : fr \in Frames})
  /\ files \in Seq({fr.file : fr \in Frames} \ {NoFile})
  /\ file_of \in [DOMAIN functions -> {0} \cup DOMAIN files]

TypeOK ==
  /\ pc \in {"samples", "stack", "canceled", "done"}
  /\ source \in Sources
  /\ samples_left \in [Sources -> Nat]
  /\ VectorsTyped
  /\ nodes \in Seq(DOMAIN functions)
  /\ children \in [0 .. Len(nodes) -> Seq(DOMAIN nodes)]
  /\ total \in [DOMAIN total -> Nat]
  /\ self \in [DOMAIN self -> Nat]
  /\ previous = [module |-> previous.module, function |-> previous.function,
                 node |-> previous.node, file |-> previous.file, line |-> previous.line]
  /\ seen \in Seq(Samples)

\* No vector has an entry twice, and each frame has entries.
Distinct(s) == \A i, j \in DOMAIN s : s[i] = s[j] => i = j
AllPlaces   == UNION {Places(s) : s \in Sources}

VectorsDistinct == Distinct(modules) /\ Distinct(functions) /\ Distinct(files)

VectorsInv ==
  /\ VectorsDistinct
  /\ \A p \in AllPlaces : HasIds(FrameAt(p))

\* Where the loop over a stack is.
Current == seen[Len(seen)]

StackInv ==
  pc = "stack" =>
    /\ seen # <<>> /\ Current.kind = "stack" /\ Current.source = source
    /\ previous.node \in DOMAIN children
    /\ PathTo[previous.node] = Names(Len(seen))
    /\ IF Current.frames = <<>> THEN previous = NoPrevious
       ELSE LET ids == Ids(Last(Current.frames))
            IN  previous = [module |-> ids.module, function |-> ids.function,
                            node |-> previous.node, file |-> ids.file, line |-> ids.line]

\* The frames that are counted under an id, and the calls of one function by another.
CountedFor(kind, id, s) == {p \in Places(s) : <<kind, id>> \in counted(Ids(FrameAt(p)))}
FunctionAt(p) == Ids(FrameAt(p)).function
CallerAt(p)   == IF p[2] = 1 THEN 0 ELSE FunctionAt(<<p[1], p[2] - 1>>)
CallsOf(f, g, s) ==
  {p \in Places(s) : p[1] \in Stacks(s) /\ FunctionAt(p) = g /\ CallerAt(p) = f}

FrameKinds == {"module", "function", "file", "line"}

FrameCounts ==
  \A s \in Sources, kind \in FrameKinds : \A id :
    <<kind, id>> # <<"function", 0>> =>
      /\ Total(kind, id, s) = Cardinality(CountedFor(kind, id, s))
      /\ Self(kind, id, s) = Cardinality({p \in CountedFor(kind, id, s) : Innermost(p)})

RootCounts ==
  \A s \in Sources :
    /\ Total("function", 0, s) = Cardinality(Stacks(s))
    /\ Self("function", 0, s) =
         Cardinality({i \in Stacks(s) \cap Complete : seen[i].frames = <<>>})

CallCounts ==
  \A s \in Sources : \A f, g :
    /\ Total("callee", <<f, g>>, s) = Cardinality(CallsOf(f, g, s))
    /\ Total("caller", <<g, f>>, s) = Cardinality(CallsOf(f, g, s))

\* The stacks that begin with the path of a node, and those that are it.
StacksThrough(n, s) == {i \in Stacks(s) : n \in DOMAIN children /\ IsPrefix(PathTo[n], Names(i))}
StacksAt(n, s)      == {i \in Stacks(s) \cap Complete : n \in DOMAIN children /\ PathTo[n] = Names(i)}

NodeCounts ==
  \A s \in Sources : \A n \in Nat :
    /\ Total("node", n, s) = Cardinality(StacksThrough(n, s))
    /\ Self("node", n, s) = Cardinality(StacksAt(n, s))

CountsInv == FrameCounts /\ RootCounts /\ CallCounts /\ NodeCounts

\* The nodes form a tree, in which ids grow from the root on, with a node for each
\* path and a path for each beginning of a stack.
Paths == {<<>>} \cup UNION {Prefixes(Names(i)) : i \in UNION {Stacks(s) : s \in Sources}}

TreeInv ==
  /\ \A m, n \in DOMAIN children : \A i \in DOMAIN children[m], j \in DOMAIN children[n] :
       children[m][i] = children[n][j] => m = n /\ i = j
  /\ \A n \in DOMAIN nodes : \E p \in 0 .. n - 1 : n \in Range(children[p])
  /\ \A m, n \in DOMAIN children : PathTo[m] = PathTo[n] => m = n
  /\ {PathTo[n] : n \in DOMAIN children} = Paths

\* The frames of a function that have a file, and the first of them.
WithFile(f) == {p \in AllPlaces : FunctionAt(p) = f /\ FrameAt(p).file # NoFile}
NotAfter(p, q) == p[1] < q[1] \/ (p[1] = q[1] /\ p[2] <= q[2])

FilesInv ==
  \A f \in DOMAIN functions :
    IF WithFile(f) = {} THEN file_of[f] = 0
    ELSE \E first \in WithFile(f) :
           /\ \A p \in WithFile(f) : NotAfter(first, p)
           /\ file_of[f] \in DOMAIN files /\ files[file_of[f]] = FrameAt(first).file

\* The samples that are still to come, and the reporter that counts them: it waits for
\* no more than the whole work, and the last report was of the whole work once that is done.
SumOf(c)    == FoldFunction(+, 0, c)
SamplesLeft == SumOf(samples_left)

Reporters ==
  [total_work : Nat, resolution : {Resolution}, current_work : Nat, next_report_step : Int,
   next_report_work : Int, reports : Seq(Nat) \ {<<>>}, finished : BOOLEAN]

OnTime(r) ==
  /\ r.current_work < r.total_work => r.next_report_work <= r.total_work
  /\ r.current_work = r.total_work => Last(r.reports) = r.total_work

ProgressInv ==
  /\ \A s \in Sources : s < source => samples_left[s] = 0
  /\ progress \in Reporters /\ OnTime(progress)
  /\ progress.current_work = Len(seen)
  /\ Len(seen) + SamplesLeft = progress.total_work
  /\ pc = "done" => progress.current_work = progress.total_work
  /\ progress.finished <=> pc = "done"

IInv ==
  /\ TypeOK /\ VectorsInv /\ StackInv /\ CountsInv /\ TreeInv /\ FilesInv /\ ProgressInv

-----------------------------------------------------------------------------
(* Sets, counters and sequences *)

LEMMA Induction ==
  ASSUME NEW T \in SUBSET Nat, 0 \in T, \A n \in T : n + 1 \in T
  PROVE  T = Nat
PROOF
<1> SUFFICES ASSUME Nat \ T # {} PROVE FALSE
  OBVIOUS
<1>1. PICK x \in Nat \ T : \A y \in Nat \ T : ~(<<y, x>> \in OpToRel(<, Nat))
  BY NatLessThanWellFounded, WFMin, Zenon
<1>2. \A y \in Nat \ T : ~(y < x)
  BY <1>1 DEF OpToRel
<1>3. x # 0 /\ x - 1 \in Nat /\ x - 1 < x /\ (x - 1) + 1 = x
  OBVIOUS
<1>4. x - 1 \in T
  BY <1>2, <1>3
<1> QED BY <1>3, <1>4

LEMMA OneMore ==
  ASSUME NEW S, IsFiniteSet(S), NEW x, x \notin S
  PROVE  IsFiniteSet(S \cup {x}) /\ Cardinality(S \cup {x}) = Cardinality(S) + 1
PROOF BY FS_AddElement

LEMMA CountOfNat ==
  ASSUME NEW b, b \in [DOMAIN b -> Nat], NEW c
  PROVE  CountOf(b, c) \in Nat
PROOF BY DEF CountOf

\* A counter is one more than before if what it counts was incremented for its source.
LEMMA CountStep ==
  ASSUME NEW b, b \in [DOMAIN b -> Nat], NEW K, \A k \in K : k = <<k[1], k[2]>>
  PROVE  /\ Incremented(b, K) \in [DOMAIN Incremented(b, K) -> Nat]
         /\ \A kind, id, s : CountOf(Incremented(b, K), <<kind, id, s>>) =
              CountOf(b, <<kind, id, s>>) + (IF s = source /\ <<kind, id>> \in K THEN 1 ELSE 0)
PROOF
<1> DEFINE O == {<<k[1], k[2], source>> : k \in K}
<1>1. Incremented(b, K) = [c \in DOMAIN b \cup O |-> CountOf(b, c) + (IF c \in O THEN 1 ELSE 0)]
  BY DEF Incremented
<1>2. ASSUME NEW kind, NEW id, NEW s
      PROVE  <<kind, id, s>> \in O <=> s = source /\ <<kind, id>> \in K
  <2>1. ASSUME <<kind, id, s>> \in O PROVE s = source /\ <<kind, id>> \in K
    BY <2>1
  <2>2. ASSUME s = source, <<kind, id>> \in K PROVE <<kind, id, s>> \in O
    <3>1. <<<<kind, id>>[1], <<kind, id>>[2], source>> \in O
      BY <2>2
    <3> QED BY <2>2, <3>1
  <2> QED BY <2>1, <2>2
<1> HIDE DEF O
<1>3. ASSUME NEW c
      PROVE  CountOf(Incremented(b, K), c) = CountOf(b, c) + (IF c \in O THEN 1 ELSE 0)
  <2>1. CASE c \in DOMAIN b \cup O
    BY <2>1, <1>1 DEF CountOf
  <2>2. CASE c \notin DOMAIN b \cup O
    BY <2>2, <1>1 DEF CountOf
  <2> QED BY <2>1, <2>2
<1>4. \A c : CountOf(b, c) \in Nat
  BY CountOfNat
<1>5. Incremented(b, K) \in [DOMAIN Incremented(b, K) -> Nat]
  BY <1>1, <1>4
<1>6. ASSUME NEW kind, NEW id, NEW s
      PROVE  CountOf(Incremented(b, K), <<kind, id, s>>) =
               CountOf(b, <<kind, id, s>>) + (IF s = source /\ <<kind, id>> \in K THEN 1 ELSE 0)
  BY <1>2, <1>3
<1> QED BY <1>5, <1>6

LEMMA AppendFacts ==
  ASSUME NEW S, NEW s \in Seq(S), NEW x \in S
  PROVE  /\ Append(s, x) \in Seq(S) /\ Len(Append(s, x)) = Len(s) + 1
         /\ DOMAIN Append(s, x) = DOMAIN s \cup {Len(s) + 1}
         /\ \A i \in DOMAIN s : Append(s, x)[i] = s[i]
         /\ Append(s, x)[Len(s) + 1] = x
         /\ Range(Append(s, x)) = Range(s) \cup {x}
PROOF
<1>1. /\ Append(s, x) \in Seq(S) /\ Len(Append(s, x)) = Len(s) + 1
      /\ DOMAIN Append(s, x) = DOMAIN s \cup {Len(s) + 1}
      /\ \A i \in DOMAIN s : Append(s, x)[i] = s[i]
      /\ Append(s, x)[Len(s) + 1] = x
  OBVIOUS
<1>2. Range(Append(s, x)) = Range(s) \cup {x}
  BY <1>1 DEF Range
<1> QED BY <1>1, <1>2

\* A sequence begins as another one with one more element does: as that one, or it is it.
LEMMA PrefixOfAppend ==
  ASSUME NEW S, NEW p \in Seq(S), NEW t \in Seq(S), NEW x \in S
  PROVE  IsPrefix(p, Append(t, x)) <=> IsPrefix(p, t) \/ p = Append(t, x)
PROOF
<1>1. Append(t, x) \in Seq(S) /\ Len(Append(t, x)) = Len(t) + 1
      /\ \A i \in 1 .. Len(t) : Append(t, x)[i] = t[i]
  OBVIOUS
<1>2. ASSUME NEW u \in Seq(S)
      PROVE  IsPrefix(p, u) <=> Len(p) <= Len(u) /\ \A i \in 1 .. Len(p) : p[i] = u[i]
  BY DEF IsPrefix
<1>3. IsPrefix(p, Append(t, x)) <=>
        Len(p) <= Len(t) + 1 /\ \A i \in 1 .. Len(p) : p[i] = Append(t, x)[i]
  BY <1>1, <1>2
<1>4. IsPrefix(p, t) <=> Len(p) <= Len(t) /\ \A i \in 1 .. Len(p) : p[i] = t[i]
  BY <1>2
<1>5. CASE Len(p) <= Len(t)
  <2>1. p # Append(t, x)
    BY <1>1, <1>5
  <2>2. \A i \in 1 .. Len(p) : Append(t, x)[i] = t[i]
    BY <1>1, <1>5
  <2> QED BY <1>3, <1>4, <1>5, <2>1, <2>2
<1>6. CASE Len(p) = Len(t) + 1
  <2>1. p = Append(t, x) <=> \A i \in 1 .. Len(p) : p[i] = Append(t, x)[i]
    BY <1>1, <1>6
  <2> QED BY <1>3, <1>4, <1>6, <2>1
<1>7. CASE Len(p) > Len(t) + 1
  BY <1>1, <1>3, <1>4, <1>7
<1> QED BY <1>5, <1>6, <1>7

LEMMA PrefixFacts ==
  ASSUME NEW S, NEW p \in Seq(S)
  PROVE  /\ IsPrefix(p, p)
         /\ IsPrefix(<<>>, p)
         /\ IsPrefix(p, <<>>) <=> p = <<>>
PROOF BY DEF IsPrefix

LEMMA PrefixesOfAppend ==
  ASSUME NEW S, NEW t \in Seq(S), NEW x \in S
  PROVE  Prefixes(Append(t, x)) = Prefixes(t) \cup {Append(t, x)}
PROOF
<1>1. Append(t, x) \in Seq(S) /\ Len(Append(t, x)) = Len(t) + 1
  OBVIOUS
<1>2. SubSeq(Append(t, x), 1, Len(t) + 1) = Append(t, x)
  OBVIOUS
<1>3. \A l \in 0 .. Len(t) : SubSeq(Append(t, x), 1, l) = SubSeq(t, 1, l)
  OBVIOUS
<1>4. 0 .. Len(t) + 1 = (0 .. Len(t)) \cup {Len(t) + 1}
  OBVIOUS
<1> QED BY <1>1, <1>2, <1>3, <1>4 DEF Prefixes

LEMMA PrefixesFacts ==
  ASSUME NEW S, NEW t \in Seq(S)
  PROVE  t \in Prefixes(t) /\ Prefixes(t) \in SUBSET Seq(S) /\ Prefixes(<<>>) = {<<>>}
PROOF
<1>1. SubSeq(t, 1, Len(t)) = t /\ Len(t) \in 0 .. Len(t)
  OBVIOUS
<1>2. \A l \in 0 .. Len(t) : SubSeq(t, 1, l) \in Seq(S)
  OBVIOUS
<1>3. \A l \in 0 .. Len(<<>>) : SubSeq(<<>>, 1, l) = <<>>
  OBVIOUS
<1>4. 0 \in 0 .. Len(<<>>)
  OBVIOUS
<1> QED BY <1>1, <1>2, <1>3, <1>4 DEF Prefixes

-----------------------------------------------------------------------------
(* The sum of the samples of all sources *)

\* What FoldFunction() computes with is a function on all sets of sources.
PickOf(S) == CHOOSE x \in S : TRUE
SumsOf(c, g) ==
  g = [S \in SUBSET (DOMAIN c) |->
         IF S = {} THEN 0 ELSE c[PickOf(S)] + g[S \ {PickOf(S)}]]

LEMMA PickedOne ==
  ASSUME NEW S, IsFiniteSet(S), S # {}
  PROVE  /\ PickOf(S) \in S
         /\ IsFiniteSet(S \ {PickOf(S)})
         /\ Cardinality(S) \in Nat /\ Cardinality(S) > 0
         /\ Cardinality(S \ {PickOf(S)}) = Cardinality(S) - 1
PROOF
<1>1. PickOf(S) \in S
  BY DEF PickOf
<1>2. IsFiniteSet(S \ {PickOf(S)}) /\ Cardinality(S \ {PickOf(S)}) = Cardinality(S) - 1
  BY <1>1, FS_RemoveElement
<1>3. Cardinality(S) \in Nat /\ Cardinality(S) > 0
  BY FS_CardinalityType, FS_EmptySet
<1> QED BY <1>1, <1>2, <1>3

LEMMA SumsExist ==
  ASSUME NEW c, IsFiniteSet(DOMAIN c)
  PROVE  \E g : SumsOf(c, g)
PROOF
<1> DEFINE Upto(n, g) ==
      \A S \in SUBSET (DOMAIN c) : Cardinality(S) <= n =>
        g[S] = IF S = {} THEN 0 ELSE c[PickOf(S)] + g[S \ {PickOf(S)}]
      T == {n \in Nat : \E g : Upto(n, g)}
<1>1. \A S \in SUBSET (DOMAIN c) : IsFiniteSet(S) /\ Cardinality(S) \in Nat
                                   /\ Cardinality(S) <= Cardinality(DOMAIN c)
  BY FS_Subset, FS_CardinalityType
<1>2. 0 \in T
  <2> DEFINE g == [S \in SUBSET (DOMAIN c) |-> 0]
  <2>1. \A S \in SUBSET (DOMAIN c) : Cardinality(S) <= 0 => S = {}
    BY <1>1, FS_EmptySet
  <2>2. Upto(0, g)
    BY <2>1
  <2> QED BY <2>2
<1>3. ASSUME NEW n \in T PROVE n + 1 \in T
  <2>1. n \in Nat
    OBVIOUS
  <2>2. PICK g : Upto(n, g)
    OBVIOUS
  <2> DEFINE value(S) == IF S = {} THEN 0 ELSE c[PickOf(S)] + g[S \ {PickOf(S)}]
      h == [S \in SUBSET (DOMAIN c) |-> value(S)]
  <2>3. \A S \in SUBSET (DOMAIN c) : Cardinality(S) <= n => h[S] = g[S]
    BY <2>2
  <2>4. ASSUME NEW S \in SUBSET (DOMAIN c), Cardinality(S) <= n + 1
        PROVE  h[S] = IF S = {} THEN 0 ELSE c[PickOf(S)] + h[S \ {PickOf(S)}]
    <3>1. CASE S = {}
      BY <3>1
    <3>2. CASE S # {}
      <4>1. Cardinality(S \ {PickOf(S)}) <= n
        BY <1>1, <2>1, <2>4, <3>2, PickedOne
      <4>2. h[S \ {PickOf(S)}] = g[S \ {PickOf(S)}]
        BY <2>3, <4>1
      <4> QED BY <3>2, <4>2
    <3> QED BY <3>1, <3>2
  <2> HIDE DEF h
  <2>5. Upto(n + 1, h)
    BY <2>4
  <2> HIDE DEF Upto
  <2>6. \E f : Upto(n + 1, f)
    BY <2>5
  <2>7. n + 1 \in Nat
    BY <2>1
  <2> QED BY <2>6, <2>7
<1> HIDE DEF T
<1>4. T = Nat
  <2>1. T \in SUBSET Nat
    BY DEF T
  <2> QED BY <1>2, <1>3, <2>1, Induction
<1>5. Cardinality(DOMAIN c) \in T
  BY <1>1, <1>4
<1>6. PICK g : Upto(Cardinality(DOMAIN c), g)
  BY <1>5 DEF T
<1> DEFINE h == [S \in SUBSET (DOMAIN c) |-> g[S]]
<1>7. \A S \in SUBSET (DOMAIN c) :
        h[S] = IF S = {} THEN 0 ELSE c[PickOf(S)] + h[S \ {PickOf(S)}]
  <2>1. \A S \in SUBSET (DOMAIN c) : S \ {PickOf(S)} \in SUBSET (DOMAIN c)
    OBVIOUS
  <2> QED BY <1>1, <1>6, <2>1
<1>8. h = [S \in SUBSET (DOMAIN c) |->
             IF S = {} THEN 0 ELSE c[PickOf(S)] + h[S \ {PickOf(S)}]]
  <2>1. \A S \in SUBSET (DOMAIN c) : h[S] = g[S]
    OBVIOUS
  <2>2. \A S \in SUBSET (DOMAIN c) :
          g[S] = IF S = {} THEN 0 ELSE c[PickOf(S)] + h[S \ {PickOf(S)}]
    BY <1>7, <2>1
  <2> QED BY <2>2
<1> HIDE DEF h
<1> QED BY <1>8 DEF SumsOf

LEMMA SumIs ==
  ASSUME NEW c, IsFiniteSet(DOMAIN c)
  PROVE  \E g : SumsOf(c, g) /\ SumOf(c) = g[DOMAIN c]
PROOF
<1> DEFINE g == CHOOSE h : h = [S \in SUBSET (DOMAIN c) |->
         IF S = {} THEN 0 ELSE c[CHOOSE x \in S : TRUE] + h[S \ {CHOOSE x \in S : TRUE}]]
<1>1. SumOf(c) = g[DOMAIN c]
  BY DEF SumOf, FoldFunction, FoldFunctionOnSet, MapThenFoldSet
<1>2. SumsOf(c, g)
  <2>1. \E h : h = [S \in SUBSET (DOMAIN c) |->
         IF S = {} THEN 0 ELSE c[CHOOSE x \in S : TRUE] + h[S \ {CHOOSE x \in S : TRUE}]]
    BY SumsExist DEF SumsOf, PickOf
  <2>2. g = [S \in SUBSET (DOMAIN c) |->
         IF S = {} THEN 0 ELSE c[CHOOSE x \in S : TRUE] + g[S \ {CHOOSE x \in S : TRUE}]]
    BY <2>1
  <2> HIDE DEF g
  <2> QED BY <2>2 DEF SumsOf, PickOf
<1> QED BY <1>1, <1>2

\* The sum of naturals is a natural, 0 if all of them are, and one less if one of them is.
LEMMA SumOfNats ==
  ASSUME NEW D, IsFiniteSet(D), NEW c \in [D -> Nat]
  PROVE  /\ SumOf(c) \in Nat
         /\ (\A x \in D : c[x] = 0) => SumOf(c) = 0
PROOF
<1>1. PICK g : SumsOf(c, g) /\ SumOf(c) = g[D]
  BY SumIs
<1> DEFINE Good(S) == g[S] \in Nat /\ ((\A x \in D : c[x] = 0) => g[S] = 0)
      T == {n \in Nat : \A S \in SUBSET D : Cardinality(S) = n => Good(S)}
<1>2. \A S \in SUBSET D : IsFiniteSet(S) /\ Cardinality(S) \in Nat
  BY FS_Subset, FS_CardinalityType
<1>3. \A S \in SUBSET D : g[S] = IF S = {} THEN 0 ELSE c[PickOf(S)] + g[S \ {PickOf(S)}]
  BY <1>1 DEF SumsOf
<1>4. 0 \in T
  <2>1. ASSUME NEW S \in SUBSET D, Cardinality(S) = 0 PROVE Good(S)
    <3>1. S = {}
      BY <1>2, <2>1, FS_EmptySet
    <3>2. g[S] = 0
      BY <1>3, <3>1, Zenon
    <3> QED BY <3>2
  <2> HIDE DEF Good
  <2> QED BY <2>1
<1>5. ASSUME NEW n \in T PROVE n + 1 \in T
  <2>1. ASSUME NEW S \in SUBSET D, Cardinality(S) = n + 1 PROVE Good(S)
    <3>1. S # {} /\ n \in Nat
      <4>1. n \in Nat /\ n + 1 # 0
        OBVIOUS
      <4>2. Cardinality({}) = 0
        BY FS_EmptySet
      <4> HIDE DEF T
      <4> QED BY <2>1, <4>1, <4>2
    <3>2. PickOf(S) \in S /\ Cardinality(S \ {PickOf(S)}) = n
      BY <1>2, <2>1, <3>1, PickedOne
    <3>3. S \ {PickOf(S)} \in SUBSET D
      OBVIOUS
    <3>4. Good(S \ {PickOf(S)})
      BY <3>2, <3>3
    <3>5. c[PickOf(S)] \in Nat /\ ((\A x \in D : c[x] = 0) => c[PickOf(S)] = 0)
      BY <3>2
    <3>6. g[S] = c[PickOf(S)] + g[S \ {PickOf(S)}]
      BY <1>3, <3>1
    <3> QED BY <3>4, <3>5, <3>6
  <2> HIDE DEF Good
  <2>2. n + 1 \in Nat
    OBVIOUS
  <2> QED BY <2>1, <2>2
<1>6. T = Nat
  <2>1. T \in SUBSET Nat
    OBVIOUS
  <2> HIDE DEF T
  <2> QED BY <1>4, <1>5, <2>1, Induction
<1>7. Good(D)
  BY <1>2, <1>6
<1> QED BY <1>1, <1>7

LEMMA SumOneLess ==
  ASSUME NEW D, IsFiniteSet(D), NEW c \in [D -> Nat], NEW d \in [D -> Nat], NEW y \in D,
         d[y] + 1 = c[y], \A x \in D : x # y => d[x] = c[x]
  PROVE  SumOf(d) + 1 = SumOf(c)
PROOF
<1>1. PICK g : SumsOf(c, g) /\ SumOf(c) = g[D]
  BY SumIs
<1>2. PICK h : SumsOf(d, h) /\ SumOf(d) = h[D]
  BY SumIs
<1> DEFINE Good(S) == h[S] \in Int /\ g[S] = h[S] + (IF y \in S THEN 1 ELSE 0)
      T == {n \in Nat : \A S \in SUBSET D : Cardinality(S) = n => Good(S)}
<1>3. \A S \in SUBSET D : IsFiniteSet(S) /\ Cardinality(S) \in Nat
  BY FS_Subset, FS_CardinalityType
<1>4. \A S \in SUBSET D : /\ g[S] = IF S = {} THEN 0 ELSE c[PickOf(S)] + g[S \ {PickOf(S)}]
                          /\ h[S] = IF S = {} THEN 0 ELSE d[PickOf(S)] + h[S \ {PickOf(S)}]
  BY <1>1, <1>2 DEF SumsOf
<1>5. 0 \in T
  <2>1. ASSUME NEW S \in SUBSET D, Cardinality(S) = 0 PROVE Good(S)
    <3>1. S = {}
      BY <1>3, <2>1, FS_EmptySet
    <3>2. g[S] = 0 /\ h[S] = 0
      BY <1>4, <3>1, Zenon
    <3>3. y \notin S
      BY <3>1
    <3> QED BY <3>2, <3>3
  <2> HIDE DEF Good
  <2> QED BY <2>1
<1>6. ASSUME NEW n \in T PROVE n + 1 \in T
  <2>1. ASSUME NEW S \in SUBSET D, Cardinality(S) = n + 1 PROVE Good(S)
    <3>1. S # {} /\ n \in Nat
      <4>1. n \in Nat /\ n + 1 # 0
        OBVIOUS
      <4>2. Cardinality({}) = 0
        BY FS_EmptySet
      <4> HIDE DEF T
      <4> QED BY <2>1, <4>1, <4>2
    <3>2. PickOf(S) \in S /\ Cardinality(S \ {PickOf(S)}) = n
      BY <1>3, <2>1, <3>1, PickedOne
    <3>3. S \ {PickOf(S)} \in SUBSET D
      OBVIOUS
    <3>4. Good(S \ {PickOf(S)})
      BY <3>2, <3>3
    <3>5. g[S] = c[PickOf(S)] + g[S \ {PickOf(S)}] /\ h[S] = d[PickOf(S)] + h[S \ {PickOf(S)}]
      BY <1>4, <3>1
    <3>6. PickOf(S) \in D /\ c[PickOf(S)] \in Nat /\ d[PickOf(S)] \in Nat
      BY <3>2
    <3>7. CASE PickOf(S) = y
      <4>1. y \notin S \ {PickOf(S)} /\ y \in S
        BY <3>2, <3>7
      <4> QED BY <3>4, <3>5, <3>6, <3>7, <4>1
    <3>8. CASE PickOf(S) # y
      <4>1. y \in S <=> y \in S \ {PickOf(S)}
        BY <3>8
      <4>2. d[PickOf(S)] = c[PickOf(S)]
        BY <3>6, <3>8
      <4> QED BY <3>4, <3>5, <3>6, <4>1, <4>2
    <3> QED BY <3>7, <3>8
  <2> HIDE DEF Good
  <2>2. n + 1 \in Nat
    OBVIOUS
  <2> QED BY <2>1, <2>2
<1>7. T = Nat
  <2>1. T \in SUBSET Nat
    OBVIOUS
  <2> HIDE DEF T
  <2> QED BY <1>5, <1>6, <2>1, Induction
<1>8. Good(D)
  BY <1>3, <1>7
<1> QED BY <1>1, <1>2, <1>8

-----------------------------------------------------------------------------
(* The way to a node *)

LEMMA ClimbingUp ==
  ASSUME NEW N \in Nat, NEW up, \A n \in 1 .. N : up[n] \in 0 .. n - 1,
         NEW P, 0 \in P, \A n \in 1 .. N : up[n] \in P => n \in P
  PROVE  0 .. N \subseteq P
PROOF
<1> DEFINE T == {n \in Nat : \A m \in 0 .. n : m <= N => m \in P}
<1>1. 0 \in T
  OBVIOUS
<1>2. ASSUME NEW n \in T PROVE n + 1 \in T
  <2>1. n \in Nat /\ \A m \in 0 .. n : m <= N => m \in P
    OBVIOUS
  <2>2. ASSUME n + 1 <= N PROVE n + 1 \in P
    <3>1. n + 1 \in 1 .. N /\ up[n + 1] \in 0 .. n
      BY <2>1, <2>2
    <3>2. up[n + 1] \in P
      BY <2>1, <2>2, <3>1
    <3> QED BY <3>1, <3>2
  <2>3. \A m \in 0 .. n + 1 : m <= N => m \in P
    BY <2>1, <2>2
  <2> QED BY <2>1, <2>3
<1>3. T = Nat
  <2>1. T \in SUBSET Nat
    OBVIOUS
  <2> HIDE DEF T
  <2> QED BY <1>1, <1>2, <2>1, Induction
<1>4. N \in T
  BY <1>3
<1> QED BY <1>4

ClimbsTo(g, N, up, label) ==
  g = [n \in 0 .. N |-> IF n = 0 THEN <<>> ELSE Append(g[up[n]], label[n])]

LEMMA PathsExist ==
  ASSUME NEW N \in Nat, NEW up, \A n \in 1 .. N : up[n] \in 0 .. n - 1, NEW label
  PROVE  \E g : ClimbsTo(g, N, up, label)
PROOF
<1> DEFINE Upto(k, g) ==
      \A n \in 0 .. N : n <= k => g[n] = IF n = 0 THEN <<>> ELSE Append(g[up[n]], label[n])
      T == {k \in Nat : \E g : Upto(k, g)}
<1>1. 0 \in T
  <2> DEFINE g == [n \in 0 .. N |-> <<>>]
  <2>1. Upto(0, g)
    OBVIOUS
  <2> HIDE DEF g, Upto
  <2> QED BY <2>1
<1>2. ASSUME NEW k \in T PROVE k + 1 \in T
  <2>1. k \in Nat
    OBVIOUS
  <2>2. PICK g : Upto(k, g)
    OBVIOUS
  <2> DEFINE value(n) == IF n = 0 THEN <<>> ELSE Append(g[up[n]], label[n])
      h == [n \in 0 .. N |-> value(n)]
  <2>3. \A n \in 0 .. N : n <= k => h[n] = g[n]
    BY <2>2
  <2>4. ASSUME NEW n \in 0 .. N, n <= k + 1
        PROVE  h[n] = IF n = 0 THEN <<>> ELSE Append(h[up[n]], label[n])
    <3>1. CASE n = 0
      BY <3>1
    <3>2. CASE n # 0
      <4>1. up[n] \in 0 .. N /\ up[n] <= k
        BY <2>1, <2>4, <3>2
      <4>2. h[up[n]] = g[up[n]]
        BY <2>3, <4>1
      <4> QED BY <3>2, <4>2
    <3> QED BY <3>1, <3>2
  <2> HIDE DEF h
  <2>5. Upto(k + 1, h)
    BY <2>4
  <2> HIDE DEF Upto
  <2>6. \E f : Upto(k + 1, f)
    BY <2>5
  <2>7. k + 1 \in Nat
    BY <2>1
  <2> QED BY <2>6, <2>7
<1> HIDE DEF T
<1>3. T = Nat
  <2>1. T \in SUBSET Nat
    BY DEF T
  <2> QED BY <1>1, <1>2, <2>1, Induction
<1>4. PICK g : Upto(N, g)
  BY <1>3 DEF T
<1> DEFINE h == [n \in 0 .. N |-> g[n]]
<1>5. \A n \in 0 .. N : h[n] = g[n]
  OBVIOUS
<1>6. ASSUME NEW n \in 0 .. N
      PROVE  g[n] = IF n = 0 THEN <<>> ELSE Append(h[up[n]], label[n])
  <2>1. n # 0 => up[n] \in 0 .. N
    OBVIOUS
  <2>2. n # 0 => h[up[n]] = g[up[n]]
    BY <1>5, <2>1
  <2> HIDE DEF h
  <2> QED BY <1>4, <2>2
<1>7. h = [n \in 0 .. N |-> IF n = 0 THEN <<>> ELSE Append(h[up[n]], label[n])]
  <2>1. [n \in 0 .. N |-> g[n]] = [n \in 0 .. N |-> IF n = 0 THEN <<>> ELSE Append(h[up[n]], label[n])]
    <3> HIDE DEF h
    <3> QED BY <1>6
  <2> QED BY <2>1
<1> HIDE DEF h
<1> QED BY <1>7 DEF ClimbsTo

\* The nodes have parents with smaller ids.
TreeShape ==
  /\ Len(nodes) \in Nat /\ DOMAIN nodes = 1 .. Len(nodes)
  /\ DOMAIN children = 0 .. Len(nodes)
  /\ \A n \in DOMAIN nodes : Parent(n) \in 0 .. n - 1
  /\ \A n \in DOMAIN nodes : n \in Range(children[Parent(n)])
  /\ \A n \in DOMAIN nodes, p \in DOMAIN children : n \in Range(children[p]) => p = Parent(n)

NodesLinked ==
  /\ nodes \in Seq(DOMAIN functions)
  /\ children \in [0 .. Len(nodes) -> Seq(DOMAIN nodes)]
  /\ \A m, n \in DOMAIN children : \A i \in DOMAIN children[m], j \in DOMAIN children[n] :
       children[m][i] = children[n][j] => m = n /\ i = j
  /\ \A n \in DOMAIN nodes : \E p \in 0 .. n - 1 : n \in Range(children[p])

LEMMA ShapeOfLinks == NodesLinked => TreeShape
PROOF
<1> SUFFICES ASSUME NodesLinked PROVE TreeShape
  OBVIOUS
<1>1. /\ Len(nodes) \in Nat /\ DOMAIN nodes = 1 .. Len(nodes)
      /\ DOMAIN children = 0 .. Len(nodes)
  BY DEF NodesLinked
<1>2. ASSUME NEW n \in DOMAIN nodes
      PROVE  /\ Parent(n) \in 0 .. n - 1 /\ n \in Range(children[Parent(n)])
             /\ \A p \in DOMAIN children : n \in Range(children[p]) => p = Parent(n)
  <2>1. PICK p \in 0 .. n - 1 : n \in Range(children[p])
    BY DEF NodesLinked
  <2>2. p \in DOMAIN children
    BY <1>1, <2>1
  <2>3. ASSUME NEW q \in DOMAIN children, n \in Range(children[q]) PROVE q = p
    <3>1. PICK i \in DOMAIN children[p] : children[p][i] = n
      BY <2>1 DEF Range
    <3>2. PICK j \in DOMAIN children[q] : children[q][j] = n
      BY <2>3 DEF Range
    <3> QED BY <2>2, <3>1, <3>2 DEF NodesLinked
  <2>4. Parent(n) = p
    BY <2>1, <2>2, <2>3 DEF Parent
  <2> QED BY <2>1, <2>3, <2>4
<1> QED BY <1>1, <1>2 DEF TreeShape

LEMMA ShapeOfTree == TypeOK /\ TreeInv => TreeShape
PROOF BY ShapeOfLinks DEF NodesLinked, TypeOK, TreeInv

LEMMA PathToIs ==
  TreeShape =>
    /\ DOMAIN PathTo = DOMAIN children
    /\ PathTo[0] = <<>>
    /\ \A n \in DOMAIN nodes : PathTo[n] = Append(PathTo[Parent(n)], FunctionName(nodes[n]))
PROOF
<1> SUFFICES ASSUME TreeShape
             PROVE  /\ DOMAIN PathTo = DOMAIN children
                    /\ PathTo[0] = <<>>
                    /\ \A n \in DOMAIN nodes :
                         PathTo[n] = Append(PathTo[Parent(n)], FunctionName(nodes[n]))
  OBVIOUS
<1> DEFINE up == [n \in DOMAIN nodes |-> Parent(n)]
           label == [n \in DOMAIN nodes |-> FunctionName(nodes[n])]
<1>1. /\ Len(nodes) \in Nat /\ DOMAIN nodes = 1 .. Len(nodes)
      /\ DOMAIN children = 0 .. Len(nodes)
      /\ \A n \in DOMAIN nodes : Parent(n) \in 0 .. n - 1
  BY DEF TreeShape
<1>2. \A n \in 1 .. Len(nodes) : up[n] \in 0 .. n - 1 /\ up[n] = Parent(n) /\ label[n] = FunctionName(nodes[n])
  BY <1>1
<1> HIDE DEF up, label
<1>3. PICK g : g = [n \in 0 .. Len(nodes) |-> IF n = 0 THEN <<>> ELSE Append(g[up[n]], label[n])]
  <2>1. PICK N \in Nat : N = Len(nodes)
    BY <1>1
  <2>2. PICK u, l : u = up /\ l = label
    OBVIOUS
  <2>3. \A n \in 1 .. N : u[n] \in 0 .. n - 1
    BY <1>2, <2>1, <2>2
  <2>4. \E h : ClimbsTo(h, N, u, l)
    BY <2>3, PathsExist
  <2>5. \E h : ClimbsTo(h, Len(nodes), up, label)
    BY <2>1, <2>2, <2>4
  <2> QED BY <2>5 DEF ClimbsTo
<1>4. g = [n \in DOMAIN children |->
             IF n = 0 THEN <<>> ELSE Append(g[Parent(n)], FunctionName(nodes[n]))]
  <2>1. \A n \in 0 .. Len(nodes) :
          (IF n = 0 THEN <<>> ELSE Append(g[up[n]], label[n])) =
          (IF n = 0 THEN <<>> ELSE Append(g[Parent(n)], FunctionName(nodes[n])))
    BY <1>1, <1>2
  <2>2. [n \in 0 .. Len(nodes) |-> IF n = 0 THEN <<>> ELSE Append(g[up[n]], label[n])] =
        [n \in 0 .. Len(nodes) |-> IF n = 0 THEN <<>> ELSE Append(g[Parent(n)], FunctionName(nodes[n]))]
    BY <2>1, Zenon
  <2> QED BY <1>1, <1>3, <2>2, Zenon
<1>5. PathTo = [n \in DOMAIN children |->
                  IF n = 0 THEN <<>> ELSE Append(PathTo[Parent(n)], FunctionName(nodes[n]))]
  <2>1. \E h : h = [n \in DOMAIN children |->
             IF n = 0 THEN <<>> ELSE Append(h[Parent(n)], FunctionName(nodes[n]))]
    BY <1>4
  <2> DEFINE h == CHOOSE h : h = [n \in DOMAIN children |->
             IF n = 0 THEN <<>> ELSE Append(h[Parent(n)], FunctionName(nodes[n]))]
  <2>2. h = [n \in DOMAIN children |->
             IF n = 0 THEN <<>> ELSE Append(h[Parent(n)], FunctionName(nodes[n]))]
    BY <2>1, Zenon
  <2>3. PathTo = h
    BY DEF PathTo
  <2> HIDE DEF h
  <2> QED BY <2>2, <2>3, Zenon
<1>6. DOMAIN PathTo = DOMAIN children
  BY <1>5, Zenon
<1>7. ASSUME NEW n \in DOMAIN children
      PROVE  PathTo[n] = IF n = 0 THEN <<>> ELSE Append(PathTo[Parent(n)], FunctionName(nodes[n]))
  BY <1>5, Zenon
<1>8. PathTo[0] = <<>>
  BY <1>1, <1>7
<1>9. ASSUME NEW n \in DOMAIN nodes
      PROVE  PathTo[n] = Append(PathTo[Parent(n)], FunctionName(nodes[n]))
  <2>1. n \in DOMAIN children /\ n # 0
    BY <1>1
  <2> QED BY <1>7, <2>1, Zenon
<1> QED BY <1>6, <1>8, <1>9

ModuleNames == {fr.module : fr \in Frames}
SymbolNames == {fr.symbol : fr \in Frames}

FunctionsNamed == \A g \in DOMAIN functions : FunctionName(g) \in ModuleNames \X SymbolNames

LEMMA NamesOfFunctions == VectorsTyped => FunctionsNamed
PROOF
<1> SUFFICES ASSUME VectorsTyped, NEW f \in DOMAIN functions
             PROVE  FunctionName(f) \in ModuleNames \X SymbolNames
  BY DEF FunctionsNamed
<1>1. functions \in Seq((DOMAIN modules) \X SymbolNames) /\ modules \in Seq(ModuleNames)
  BY DEF VectorsTyped, ModuleNames, SymbolNames
<1>2. functions[f] \in (DOMAIN modules) \X SymbolNames
  BY <1>1
<1>3. functions[f][1] \in DOMAIN modules /\ functions[f][2] \in SymbolNames
  BY <1>2
<1>4. modules[functions[f][1]] \in ModuleNames
  BY <1>1, <1>3
<1> QED BY <1>3, <1>4 DEF FunctionName

LEMMA PathTyped ==
  TypeOK /\ TreeInv => \A n \in DOMAIN children : PathTo[n] \in Seq(ModuleNames \X SymbolNames)
PROOF
<1> SUFFICES ASSUME TypeOK, TreeInv
             PROVE  \A n \in DOMAIN children : PathTo[n] \in Seq(ModuleNames \X SymbolNames)
  OBVIOUS
<1>1. TreeShape
  BY ShapeOfTree
<1> DEFINE up == [n \in DOMAIN nodes |-> Parent(n)]
           P == {n \in DOMAIN children : PathTo[n] \in Seq(ModuleNames \X SymbolNames)}
<1>2. /\ Len(nodes) \in Nat /\ DOMAIN nodes = 1 .. Len(nodes)
      /\ DOMAIN children = 0 .. Len(nodes)
      /\ \A n \in DOMAIN nodes : Parent(n) \in 0 .. n - 1
  BY <1>1 DEF TreeShape
<1>3. \A n \in 1 .. Len(nodes) : up[n] \in 0 .. n - 1 /\ up[n] = Parent(n)
  BY <1>2
<1>4. 0 \in P
  BY <1>1, <1>2, PathToIs
<1>5. ASSUME NEW n \in 1 .. Len(nodes), up[n] \in P PROVE n \in P
  <2>1. PathTo[Parent(n)] \in Seq(ModuleNames \X SymbolNames)
    BY <1>3, <1>5
  <2>2. nodes[n] \in DOMAIN functions
    BY <1>2 DEF TypeOK
  <2>3. FunctionName(nodes[n]) \in ModuleNames \X SymbolNames
    BY <2>2, NamesOfFunctions DEF TypeOK, FunctionsNamed
  <2>4. PathTo[n] = Append(PathTo[Parent(n)], FunctionName(nodes[n]))
    BY <1>1, <1>2, PathToIs
  <2>5. PathTo[n] \in Seq(ModuleNames \X SymbolNames)
    BY <2>1, <2>3, <2>4, AppendFacts
  <2> QED BY <1>2, <2>5
<1> HIDE DEF up, P
<1>6. 0 .. Len(nodes) \subseteq P
  BY <1>2, <1>3, <1>4, <1>5, ClimbingUp
<1> QED BY <1>2, <1>6 DEF P

-----------------------------------------------------------------------------
(* The vectors of modules, functions and files, and the ids in them *)

LEMMA IdInFacts ==
  ASSUME NEW s, Distinct(s), NEW x \in Range(s)
  PROVE  /\ IdIn(s, x) \in DOMAIN s /\ s[IdIn(s, x)] = x
         /\ \A i \in DOMAIN s : s[i] = x => i = IdIn(s, x)
PROOF
<1>1. \E i \in DOMAIN s : s[i] = x
  BY DEF Range
<1>2. IdIn(s, x) \in DOMAIN s /\ s[IdIn(s, x)] = x
  BY <1>1, Zenon DEF IdIn
<1> QED BY <1>2 DEF Distinct

LEMMA GetOrCreate ==
  ASSUME NEW S, NEW s \in Seq(S), Distinct(s), NEW x \in S
  PROVE  \E t : /\ t = get_or_create(s, x)
                /\ t \in Seq(S) /\ Distinct(t)
                /\ x \in Range(t)
                /\ \A y \in Range(s) : y \in Range(t) /\ IdIn(t, y) = IdIn(s, y)
                /\ \A i \in DOMAIN s : i \in DOMAIN t /\ t[i] = s[i]
PROOF
<1>0. PICK t : t = get_or_create(s, x)
  OBVIOUS
<1> SUFFICES /\ t \in Seq(S) /\ Distinct(t)
             /\ x \in Range(t)
             /\ \A y \in Range(s) : y \in Range(t) /\ IdIn(t, y) = IdIn(s, y)
             /\ \A i \in DOMAIN s : i \in DOMAIN t /\ t[i] = s[i]
  BY <1>0
<1>1. CASE x \in Range(s)
  <2>1. t = s
    BY <1>0, <1>1 DEF get_or_create
  <2> QED BY <1>1, <2>1
<1>2. CASE x \notin Range(s)
  <2>1. t = Append(s, x)
    BY <1>0, <1>2 DEF get_or_create
  <2>2. /\ t \in Seq(S)
        /\ DOMAIN t = DOMAIN s \cup {Len(s) + 1}
        /\ \A i \in DOMAIN s : t[i] = s[i]
        /\ t[Len(s) + 1] = x
        /\ Range(t) = Range(s) \cup {x}
    BY <2>1, AppendFacts
  <2>3. \A i \in DOMAIN s : s[i] # x
    BY <1>2 DEF Range
  <2>4. Distinct(t)
    BY <2>2, <2>3 DEF Distinct
  <2>5. ASSUME NEW y \in Range(s) PROVE y \in Range(t) /\ IdIn(t, y) = IdIn(s, y)
    <3>1. IdIn(s, y) \in DOMAIN s /\ s[IdIn(s, y)] = y
      BY IdInFacts
    <3>2. IdIn(s, y) \in DOMAIN t /\ t[IdIn(s, y)] = y /\ y \in Range(t)
      BY <2>2, <3>1
    <3> QED BY <2>4, <3>2, IdInFacts
  <2> QED BY <2>2, <2>4, <2>5
<1> QED BY <1>1, <1>2

\* The ids of a frame that has them.
IdsAreRight ==
  \A fr \in Frames : HasIds(fr) =>
    /\ Ids(fr).module \in DOMAIN modules /\ modules[Ids(fr).module] = fr.module
    /\ \A m \in DOMAIN modules : modules[m] = fr.module => m = Ids(fr).module
    /\ Ids(fr).function \in DOMAIN functions /\ FunctionName(Ids(fr).function) = NameOf(fr)
    /\ FunctionNamed(NameOf(fr)) = Ids(fr).function
    /\ IF fr.file = NoFile THEN Ids(fr).file = 0
       ELSE /\ Ids(fr).file \in DOMAIN files /\ files[Ids(fr).file] = fr.file
            /\ \A x \in DOMAIN files : files[x] = fr.file => x = Ids(fr).file
    /\ Ids(fr).line = fr.line

LEMMA IdsFacts == VectorsTyped /\ VectorsDistinct => IdsAreRight
PROOF
<1> SUFFICES ASSUME VectorsTyped, VectorsDistinct, NEW fr \in Frames, HasIds(fr)
             PROVE  /\ Ids(fr).module \in DOMAIN modules /\ modules[Ids(fr).module] = fr.module
                    /\ \A m \in DOMAIN modules : modules[m] = fr.module => m = Ids(fr).module
                    /\ Ids(fr).function \in DOMAIN functions
                    /\ FunctionName(Ids(fr).function) = NameOf(fr)
                    /\ FunctionNamed(NameOf(fr)) = Ids(fr).function
                    /\ IF fr.file = NoFile THEN Ids(fr).file = 0
                       ELSE /\ Ids(fr).file \in DOMAIN files /\ files[Ids(fr).file] = fr.file
                            /\ \A x \in DOMAIN files : files[x] = fr.file => x = Ids(fr).file
                    /\ Ids(fr).line = fr.line
  BY DEF IdsAreRight
<1>1. PICK m : m = IdIn(modules, fr.module)
  OBVIOUS
<1>2. PICK f : f = IdIn(functions, <<m, fr.symbol>>)
  OBVIOUS
<1>3. /\ Ids(fr).module = m /\ Ids(fr).function = f /\ Ids(fr).line = fr.line
      /\ Ids(fr).file = IF fr.file = NoFile THEN 0 ELSE IdIn(files, fr.file)
  BY <1>1, <1>2 DEF Ids
<1>4. /\ m \in DOMAIN modules /\ modules[m] = fr.module
      /\ \A i \in DOMAIN modules : modules[i] = fr.module => i = m
  BY <1>1, IdInFacts DEF HasIds, VectorsDistinct
<1>5. f \in DOMAIN functions /\ functions[f] = <<m, fr.symbol>>
  BY <1>1, <1>2, IdInFacts DEF HasIds, VectorsDistinct
<1>6. FunctionName(f) = NameOf(fr)
  BY <1>4, <1>5 DEF FunctionName, NameOf
<1>7. FunctionNamed(NameOf(fr)) = f
  BY <1>1, <1>2 DEF FunctionNamed, NameOf
<1>8. IF fr.file = NoFile THEN Ids(fr).file = 0
      ELSE /\ Ids(fr).file \in DOMAIN files /\ files[Ids(fr).file] = fr.file
           /\ \A x \in DOMAIN files : files[x] = fr.file => x = Ids(fr).file
  BY <1>3, IdInFacts DEF HasIds, VectorsDistinct
<1> QED BY <1>3, <1>4, <1>5, <1>6, <1>7, <1>8

\* Two functions do not have the same name in the same module.
FunctionsDistinct ==
  \A f, g \in DOMAIN functions : FunctionName(f) = FunctionName(g) => f = g

LEMMA FunctionsDiffer == VectorsTyped /\ VectorsDistinct => FunctionsDistinct
PROOF
<1> SUFFICES ASSUME VectorsTyped, VectorsDistinct, NEW f \in DOMAIN functions,
                    NEW g \in DOMAIN functions, FunctionName(f) = FunctionName(g)
             PROVE  f = g
  BY DEF FunctionsDistinct
<1>1. functions \in Seq((DOMAIN modules) \X SymbolNames)
  BY DEF VectorsTyped, SymbolNames
<1>2. functions[f] \in (DOMAIN modules) \X SymbolNames /\ functions[g] \in (DOMAIN modules) \X SymbolNames
  BY <1>1
<1>3. PICK mf \in DOMAIN modules, sf \in SymbolNames : functions[f] = <<mf, sf>>
  BY <1>2
<1>4. PICK mg \in DOMAIN modules, sg \in SymbolNames : functions[g] = <<mg, sg>>
  BY <1>2
<1>5. modules[mf] = modules[mg] /\ sf = sg
  BY <1>3, <1>4 DEF FunctionName
<1>6. mf = mg
  BY <1>5 DEF VectorsDistinct, Distinct
<1> QED BY <1>3, <1>4, <1>5, <1>6 DEF VectorsDistinct, Distinct

\* What a frame does to the vectors: ids and names that were there stay.
LEMMA VectorsGrow ==
  ASSUME VectorsTyped, VectorsDistinct, NEW fr \in Frames, CreateFor(fr), SetFileOf(IdsOf(fr))
  PROVE  /\ VectorsTyped' /\ VectorsDistinct'
         /\ IdsOf(fr) = Ids(fr)' /\ HasIds(fr)'
         /\ \A gr \in Frames : HasIds(gr) => HasIds(gr)' /\ Ids(gr)' = Ids(gr)
         /\ \A f \in DOMAIN functions :
              f \in DOMAIN functions' /\ FunctionName(f)' = FunctionName(f)
         /\ \A x \in DOMAIN files : x \in DOMAIN files' /\ files'[x] = files[x]
PROOF
<1> DEFINE Fls == {gr.file : gr \in Frames} \ {NoFile}
<1>1. /\ modules \in Seq(ModuleNames) /\ Distinct(modules)
      /\ functions \in Seq((DOMAIN modules) \X SymbolNames) /\ Distinct(functions)
      /\ files \in Seq(Fls) /\ Distinct(files)
  BY DEF VectorsTyped, VectorsDistinct, ModuleNames, SymbolNames
<1>2. PICK fname : fname = <<IdIn(modules', fr.module), fr.symbol>>
  OBVIOUS
<1>3. /\ modules' = get_or_create(modules, fr.module)
      /\ functions' = get_or_create(functions, fname)
      /\ files' = IF fr.file = NoFile THEN files ELSE get_or_create(files, fr.file)
  BY <1>2 DEF CreateFor
<1>4. fr.module \in ModuleNames /\ fr.symbol \in SymbolNames
  BY DEF ModuleNames, SymbolNames
<1>5. fr.file # NoFile => fr.file \in Fls
  OBVIOUS
<1> HIDE DEF Fls
<1>6. /\ modules' \in Seq(ModuleNames) /\ Distinct(modules') /\ fr.module \in Range(modules')
      /\ \A y \in Range(modules) : y \in Range(modules') /\ IdIn(modules', y) = IdIn(modules, y)
      /\ \A i \in DOMAIN modules : i \in DOMAIN modules' /\ modules'[i] = modules[i]
  <2>1. PICK s : s = modules
    OBVIOUS
  <2>2. \E t : /\ t = get_or_create(s, fr.module)
               /\ t \in Seq(ModuleNames) /\ Distinct(t) /\ fr.module \in Range(t)
               /\ \A y \in Range(s) : y \in Range(t) /\ IdIn(t, y) = IdIn(s, y)
               /\ \A i \in DOMAIN s : i \in DOMAIN t /\ t[i] = s[i]
    BY <1>1, <1>4, <2>1, GetOrCreate
  <2> QED BY <1>3, <2>1, <2>2
<1>7. fname \in (DOMAIN modules') \X SymbolNames
  BY <1>2, <1>4, <1>6, IdInFacts
<1>8. functions \in Seq((DOMAIN modules') \X SymbolNames)
  <2>1. (DOMAIN modules) \X SymbolNames \subseteq (DOMAIN modules') \X SymbolNames
    BY <1>6
  <2>2. PICK A, B : A = (DOMAIN modules) \X SymbolNames /\ B = (DOMAIN modules') \X SymbolNames
    OBVIOUS
  <2>3. functions \in Seq(A) /\ A \subseteq B
    BY <1>1, <2>1, <2>2
  <2>4. functions \in Seq(B)
    BY <2>3
  <2> QED BY <2>2, <2>4
<1>9. /\ functions' \in Seq((DOMAIN modules') \X SymbolNames) /\ Distinct(functions')
      /\ fname \in Range(functions')
      /\ \A y \in Range(functions) : y \in Range(functions') /\ IdIn(functions', y) = IdIn(functions, y)
      /\ \A i \in DOMAIN functions : i \in DOMAIN functions' /\ functions'[i] = functions[i]
  <2>1. PICK B : B = (DOMAIN modules') \X SymbolNames
    OBVIOUS
  <2>2. functions \in Seq(B) /\ fname \in B
    BY <1>7, <1>8, <2>1
  <2>3. PICK fs : fs = functions
    OBVIOUS
  <2>4. \E t : /\ t = get_or_create(fs, fname)
               /\ t \in Seq(B) /\ Distinct(t) /\ fname \in Range(t)
               /\ \A y \in Range(fs) : y \in Range(t) /\ IdIn(t, y) = IdIn(fs, y)
               /\ \A i \in DOMAIN fs : i \in DOMAIN t /\ t[i] = fs[i]
    BY <1>1, <2>2, <2>3, GetOrCreate
  <2> QED BY <1>3, <2>1, <2>3, <2>4
<1>10. /\ files' \in Seq(Fls) /\ Distinct(files')
       /\ fr.file # NoFile => fr.file \in Range(files')
       /\ \A y \in Range(files) : y \in Range(files') /\ IdIn(files', y) = IdIn(files, y)
       /\ \A i \in DOMAIN files : i \in DOMAIN files' /\ files'[i] = files[i]
  <2>1. CASE fr.file = NoFile
    BY <1>1, <1>3, <2>1
  <2>2. CASE fr.file # NoFile
    <3>1. PICK s : s = files
      OBVIOUS
    <3>2. \E t : /\ t = get_or_create(s, fr.file)
                 /\ t \in Seq(Fls) /\ Distinct(t) /\ fr.file \in Range(t)
                 /\ \A y \in Range(s) : y \in Range(t) /\ IdIn(t, y) = IdIn(s, y)
                 /\ \A i \in DOMAIN s : i \in DOMAIN t /\ t[i] = s[i]
      BY <1>1, <1>5, <2>2, <3>1, GetOrCreate
    <3> QED BY <1>3, <2>2, <3>1, <3>2
  <2> QED BY <2>1, <2>2
<1>11. IdsOf(fr) = Ids(fr)'
  BY DEF IdsOf, Ids
<1>12. HasIds(fr)'
  BY <1>2, <1>6, <1>9, <1>10 DEF HasIds
<1>13. ASSUME NEW gr \in Frames, HasIds(gr)
       PROVE  HasIds(gr)' /\ Ids(gr)' = Ids(gr)
  <2>1. gr.module \in Range(modules') /\ IdIn(modules', gr.module) = IdIn(modules, gr.module)
    BY <1>6, <1>13 DEF HasIds
  <2>2. PICK m : m = IdIn(modules, gr.module)
    OBVIOUS
  <2>3. <<m, gr.symbol>> \in Range(functions)
    BY <1>13, <2>2 DEF HasIds
  <2>4. /\ <<m, gr.symbol>> \in Range(functions')
        /\ IdIn(functions', <<m, gr.symbol>>) = IdIn(functions, <<m, gr.symbol>>)
    BY <1>9, <2>3
  <2>5. gr.file # NoFile => gr.file \in Range(files') /\ IdIn(files', gr.file) = IdIn(files, gr.file)
    BY <1>10, <1>13 DEF HasIds
  <2>6. HasIds(gr)'
    BY <2>1, <2>2, <2>4, <2>5 DEF HasIds
  <2>7. (IF gr.file = NoFile THEN 0 ELSE IdIn(files', gr.file)) =
        (IF gr.file = NoFile THEN 0 ELSE IdIn(files, gr.file))
    BY <2>5
  <2>8. Ids(gr)' = Ids(gr)
    BY <2>1, <2>2, <2>4, <2>7 DEF Ids
  <2> QED BY <2>6, <2>8
<1>14. ASSUME NEW f \in DOMAIN functions
       PROVE  f \in DOMAIN functions' /\ FunctionName(f)' = FunctionName(f)
  <2>1. functions[f] \in (DOMAIN modules) \X SymbolNames
    BY <1>1
  <2>2. functions[f][1] \in DOMAIN modules
    BY <2>1
  <2>3. functions'[f] = functions[f] /\ f \in DOMAIN functions'
    BY <1>9
  <2> QED BY <1>6, <2>2, <2>3 DEF FunctionName
<1>15. file_of' \in [DOMAIN functions' -> {0} \cup DOMAIN files']
  <2>1. Ids(fr)'.file \in {0} \cup DOMAIN files'
    BY <1>10, <1>12, IdInFacts DEF Ids, HasIds
  <2>2. \A f \in DOMAIN file_of : file_of[f] \in {0} \cup DOMAIN files'
    BY <1>10 DEF VectorsTyped
  <2>3. file_of' = [f \in DOMAIN functions' |->
                IF f \in DOMAIN file_of /\ file_of[f] # 0 THEN file_of[f]
                ELSE IF f = Ids(fr)'.function THEN Ids(fr)'.file ELSE 0]
    BY <1>11 DEF SetFileOf
  <2> QED BY <2>1, <2>2, <2>3
<1>16. VectorsTyped'
  BY <1>6, <1>9, <1>10, <1>15 DEF VectorsTyped, ModuleNames, SymbolNames, Fls
<1>17. VectorsDistinct'
  BY <1>6, <1>9, <1>10 DEF VectorsDistinct
<1> QED BY <1>10, <1>11, <1>12, <1>13, <1>14, <1>16, <1>17

-----------------------------------------------------------------------------
(* The places of frames, and how the history grows *)

PlacesAre ==
  \A s, p : p \in Places(s) <=>
    \E i \in DOMAIN seen : seen[i].source = s /\ \E k \in DOMAIN seen[i].frames : p = <<i, k>>

LEMMA PlaceIs == PlacesAre
PROOF
<1> SUFFICES ASSUME NEW s, NEW p
             PROVE  p \in Places(s) <=>
                      \E i \in DOMAIN seen : seen[i].source = s
                        /\ \E k \in DOMAIN seen[i].frames : p = <<i, k>>
  BY DEF PlacesAre
<1>1. ASSUME p \in Places(s)
      PROVE  \E i \in DOMAIN seen : seen[i].source = s /\ \E k \in DOMAIN seen[i].frames : p = <<i, k>>
  BY <1>1 DEF Places
<1>2. ASSUME NEW i \in DOMAIN seen, seen[i].source = s, NEW k \in DOMAIN seen[i].frames, p = <<i, k>>
      PROVE  p \in Places(s)
  BY <1>2 DEF Places
<1> QED BY <1>1, <1>2

LEMMA SamplesTyped ==
  seen \in Seq(Samples) =>
    /\ Len(seen) \in Nat /\ DOMAIN seen = 1 .. Len(seen)
    /\ \A i \in DOMAIN seen :
         /\ seen[i] \in Samples /\ seen[i].frames \in Seq(Frames) /\ seen[i].source \in Sources
         /\ seen[i] = [kind |-> seen[i].kind, source |-> seen[i].source, frames |-> seen[i].frames]
PROOF
<1> SUFFICES ASSUME seen \in Seq(Samples)
             PROVE  \A i \in DOMAIN seen :
                      /\ seen[i] \in Samples /\ seen[i].frames \in Seq(Frames) /\ seen[i].source \in Sources
                      /\ seen[i] = [kind |-> seen[i].kind, source |-> seen[i].source, frames |-> seen[i].frames]
  OBVIOUS
<1>1. \A x \in Samples :
        /\ x.frames \in Seq(Frames) /\ x.source \in Sources
        /\ x = [kind |-> x.kind, source |-> x.source, frames |-> x.frames]
  BY DEF Samples
<1>2. \A i \in DOMAIN seen : seen[i] \in Samples
  OBVIOUS
<1> QED BY <1>1, <1>2

LEMMA PlacesAreFinite ==
  seen \in Seq(Samples) =>
    \A s : IsFiniteSet(Places(s)) /\ IsFiniteSet(Stacks(s)) /\ IsFiniteSet(Stacks(s) \cap Complete)
PROOF
<1> SUFFICES ASSUME seen \in Seq(Samples), NEW s
             PROVE  /\ IsFiniteSet(Places(s)) /\ IsFiniteSet(Stacks(s))
                    /\ IsFiniteSet(Stacks(s) \cap Complete)
  OBVIOUS
<1> DEFINE J == {j \in DOMAIN seen : seen[j].source = s}
           g == [i \in J |-> {i} \X (DOMAIN seen[i].frames)]
           R == {g[i] : i \in J}
<1>1. IsFiniteSet(DOMAIN seen)
  BY SamplesTyped, FS_Interval
<1>2. IsFiniteSet(J) /\ IsFiniteSet(Stacks(s)) /\ IsFiniteSet(Stacks(s) \cap Complete)
  <2>1. J \in SUBSET (DOMAIN seen) /\ Stacks(s) \in SUBSET (DOMAIN seen)
        /\ Stacks(s) \cap Complete \in SUBSET (DOMAIN seen)
    BY DEF Stacks
  <2> HIDE DEF J
  <2> QED BY <1>1, <2>1, FS_Subset
<1>3. \A i \in J : IsFiniteSet(g[i])
  <2>1. ASSUME NEW i \in J PROVE IsFiniteSet({i} \X (DOMAIN seen[i].frames))
    <3>1. seen[i].frames \in Seq(Frames)
      BY SamplesTyped
    <3>2. IsFiniteSet({i})
      BY FS_Singleton
    <3>3. IsFiniteSet(DOMAIN seen[i].frames)
      <4>1. PICK n \in Nat : DOMAIN seen[i].frames = 1 .. n
        BY <3>1
      <4> QED BY <4>1, FS_Interval
    <3> QED BY <3>2, <3>3, FS_Product
  <2> QED BY <2>1
<1>4. g \in Surjection(J, R)
  <2> HIDE DEF J
  <2> QED BY DEF Surjection
<1>5. UNION R = Places(s)
  BY DEF Places
<1> HIDE DEF g, J
<1>6. IsFiniteSet(R)
  <2> HIDE DEF R
  <2> QED BY <1>2, <1>4, FS_Surjection
<1>7. \A T \in R : IsFiniteSet(T)
  BY <1>3
<1> HIDE DEF R
<1>8. IsFiniteSet(UNION R)
  BY <1>6, <1>7, FS_UNION
<1> QED BY <1>2, <1>5, <1>8

\* A sample more.
LEMMA SampleAdded ==
  ASSUME seen \in Seq(Samples), NEW x \in Samples, seen' = Append(seen, x)
  PROVE  /\ seen' \in Seq(Samples) /\ Len(seen') = Len(seen) + 1
         /\ DOMAIN seen' = DOMAIN seen \cup {Len(seen) + 1} /\ Len(seen) + 1 \notin DOMAIN seen
         /\ \A i \in DOMAIN seen : seen'[i] = seen[i]
         /\ seen'[Len(seen) + 1] = x
         /\ \A s : \A p : p \in Places(s)' <=>
              \/ p \in Places(s)
              \/ x.source = s /\ \E k \in DOMAIN x.frames : p = <<Len(seen) + 1, k>>
         /\ \A s : Stacks(s)' = Stacks(s) \cup
              (IF x.kind = "stack" /\ x.source = s THEN {Len(seen) + 1} ELSE {})
         /\ \A i \in DOMAIN seen : Names(i)' = Names(i)
         /\ \A i \in DOMAIN seen : \A k : FrameAt(<<i, k>>)' = FrameAt(<<i, k>>)
PROOF
<1>1. /\ seen' \in Seq(Samples) /\ Len(seen') = Len(seen) + 1
      /\ DOMAIN seen' = DOMAIN seen \cup {Len(seen) + 1} /\ Len(seen) + 1 \notin DOMAIN seen
      /\ \A i \in DOMAIN seen : seen'[i] = seen[i]
      /\ seen'[Len(seen) + 1] = x
  OBVIOUS
<1>2. ASSUME NEW s, NEW p
      PROVE  p \in Places(s)' <=>
              \/ p \in Places(s)
              \/ x.source = s /\ \E k \in DOMAIN x.frames : p = <<Len(seen) + 1, k>>
  <2>1. p \in Places(s)' <=>
          \E i \in DOMAIN seen' : seen'[i].source = s /\ \E k \in DOMAIN seen'[i].frames : p = <<i, k>>
    <3>1. PlacesAre'
      BY PlaceIs, PTL
    <3> QED BY <3>1 DEF PlacesAre
  <2>2. p \in Places(s) <=>
          \E i \in DOMAIN seen : seen[i].source = s /\ \E k \in DOMAIN seen[i].frames : p = <<i, k>>
    BY PlaceIs DEF PlacesAre
  <2> QED BY <1>1, <2>1, <2>2
<1>3. ASSUME NEW s
      PROVE  Stacks(s)' = Stacks(s) \cup
              (IF x.kind = "stack" /\ x.source = s THEN {Len(seen) + 1} ELSE {})
  <2>1. Stacks(s)' = {i \in DOMAIN seen' : seen'[i].kind = "stack" /\ seen'[i].source = s}
    BY DEF Stacks
  <2>2. Stacks(s) = {i \in DOMAIN seen : seen[i].kind = "stack" /\ seen[i].source = s}
    BY DEF Stacks
  <2> QED BY <1>1, <2>1, <2>2
<1>4. \A i \in DOMAIN seen : Names(i)' = Names(i)
  BY <1>1 DEF Names
<1>5. \A i \in DOMAIN seen : \A k : FrameAt(<<i, k>>)' = FrameAt(<<i, k>>)
  BY <1>1 DEF FrameAt
<1> QED BY <1>1, <1>2, <1>3, <1>4, <1>5

\* A frame more of the last sample.
SeesFrame(fr) == seen' = [seen EXCEPT ![Len(seen)].frames = Append(@, fr)]

LEMMA FrameAdded ==
  ASSUME seen \in Seq(Samples), seen # <<>>, NEW fr \in Frames, SeesFrame(fr),
         NEW n, n = Len(seen), NEW k, k = Len(Current.frames) + 1
  PROVE  /\ n \in DOMAIN seen /\ k \in Nat \ {0}
         /\ seen' \in Seq(Samples) /\ Len(seen') = n /\ DOMAIN seen' = DOMAIN seen
         /\ \A i \in DOMAIN seen : seen'[i].kind = seen[i].kind /\ seen'[i].source = seen[i].source
         /\ \A i \in DOMAIN seen : i # n => seen'[i] = seen[i]
         /\ seen'[n].frames = Append(seen[n].frames, fr)
         /\ \A s : \A p : p \in Places(s)' <=>
                  p \in Places(s) \/ (Current.source = s /\ p = <<n, k>>)
         /\ \A s : <<n, k>> \notin Places(s)
         /\ \A s : Stacks(s)' = Stacks(s)
         /\ \A i \in DOMAIN seen : i # n => Names(i)' = Names(i)
         /\ Names(n)' = Append(Names(n), NameOf(fr))
         /\ \A s : \A p \in Places(s) : FrameAt(p)' = FrameAt(p)
         /\ FrameAt(<<n, k>>)' = fr
PROOF
<1>3. n \in DOMAIN seen /\ n \in Nat /\ DOMAIN seen = 1 .. n
  BY SamplesTyped
<1>4. PICK old : old = seen[n]
  OBVIOUS
<1>5. /\ old \in Samples /\ old.frames \in Seq(Frames) /\ old.source \in Sources
      /\ old.kind \in {"stack", "frame", "neither"}
      /\ old = [kind |-> old.kind, source |-> old.source, frames |-> old.frames]
  BY <1>3, <1>4, SamplesTyped DEF Samples
<1>6. /\ k = Len(old.frames) + 1 /\ k \in Nat \ {0}
      /\ DOMAIN old.frames = 1 .. k - 1
  BY <1>4, <1>5 DEF Current
<1>7. PICK new : new = [kind |-> old.kind, source |-> old.source, frames |-> Append(old.frames, fr)]
  OBVIOUS
<1>8. /\ new \in Samples /\ new.frames = Append(old.frames, fr)
      /\ new.kind = old.kind /\ new.source = old.source
      /\ DOMAIN new.frames = DOMAIN old.frames \cup {k} /\ new.frames[k] = fr
      /\ \A j \in DOMAIN old.frames : new.frames[j] = old.frames[j]
  <2>1. Append(old.frames, fr) \in Seq(Frames)
    BY <1>5
  <2>2. new \in Samples
    BY <1>5, <1>7, <2>1 DEF Samples
  <2>3. /\ DOMAIN Append(old.frames, fr) = DOMAIN old.frames \cup {k} /\ Append(old.frames, fr)[k] = fr
        /\ \A j \in DOMAIN old.frames : Append(old.frames, fr)[j] = old.frames[j]
    BY <1>5, <1>6, AppendFacts
  <2> QED BY <1>7, <2>2, <2>3
<1>9. seen' = [seen EXCEPT ![n] = new]
  <2>1. PICK a, b, c : a = old.kind /\ b = old.source /\ c = old.frames
    OBVIOUS
  <2>2. old = [kind |-> a, source |-> b, frames |-> c]
    BY <1>5, <2>1
  <2>3. [old EXCEPT !.frames = Append(@, fr)] = [kind |-> a, source |-> b, frames |-> Append(c, fr)]
    <3>1. PICK d : d = Append(c, fr)
      OBVIOUS
    <3>2. [old EXCEPT !.frames = Append(@, fr)] = [old EXCEPT !.frames = d]
      BY <2>1, <3>1
    <3>3. [[kind |-> a, source |-> b, frames |-> c] EXCEPT !.frames = d] =
            [kind |-> a, source |-> b, frames |-> d]
      OBVIOUS
    <3> QED BY <2>2, <3>1, <3>2, <3>3, Zenon
  <2>4. [old EXCEPT !.frames = Append(@, fr)] = new
    BY <1>7, <2>1, <2>3
  <2> QED BY <1>4, <2>4 DEF SeesFrame
<1>10. /\ seen' \in Seq(Samples) /\ Len(seen') = n /\ DOMAIN seen' = DOMAIN seen
       /\ \A i \in DOMAIN seen : i # n => seen'[i] = seen[i]
       /\ seen'[n] = new
  <2>1. seen \in [1 .. n -> Samples]
    BY <1>3
  <2>2. seen' \in [1 .. n -> Samples] /\ seen'[n] = new /\ \A i \in 1 .. n : i # n => seen'[i] = seen[i]
    BY <1>3, <1>8, <1>9, <2>1
  <2>3. seen' \in Seq(Samples) /\ Len(seen') = n
    BY <1>3, <2>2
  <2> QED BY <1>3, <2>2, <2>3
<1>11. \A i \in DOMAIN seen : seen'[i].kind = seen[i].kind /\ seen'[i].source = seen[i].source
  BY <1>4, <1>8, <1>10
<1>12. ASSUME NEW s, NEW p
       PROVE  /\ p \in Places(s)' <=> p \in Places(s) \/ (old.source = s /\ p = <<n, k>>)
              /\ <<n, k>> \notin Places(s)
              /\ p \in Places(s) => FrameAt(p)' = FrameAt(p)
  <2>1. p \in Places(s)' <=>
          \E i \in DOMAIN seen' : seen'[i].source = s /\ \E j \in DOMAIN seen'[i].frames : p = <<i, j>>
    <3>1. PlacesAre'
      BY PlaceIs, PTL
    <3> QED BY <3>1 DEF PlacesAre
  <2>2. \A q : q \in Places(s) <=>
          \E i \in DOMAIN seen : seen[i].source = s /\ \E j \in DOMAIN seen[i].frames : q = <<i, j>>
    BY PlaceIs DEF PlacesAre
  <2>3. <<n, k>> \notin Places(s)
    BY <1>4, <1>6, <2>2
  <2>4. p \in Places(s) => p \in Places(s)'
    BY <1>4, <1>8, <1>10, <2>1, <2>2
  <2>5. old.source = s /\ p = <<n, k>> => p \in Places(s)'
    BY <1>3, <1>8, <1>10, <2>1
  <2>6. p \in Places(s)' => p \in Places(s) \/ (old.source = s /\ p = <<n, k>>)
    BY <1>4, <1>8, <1>10, <2>1, <2>2
  <2>7. p \in Places(s) => FrameAt(p)' = FrameAt(p)
    <3> SUFFICES ASSUME p \in Places(s) PROVE FrameAt(p)' = FrameAt(p)
      OBVIOUS
    <3>1. PICK i \in DOMAIN seen : \E j \in DOMAIN seen[i].frames : p = <<i, j>>
      BY <2>2
    <3>2. PICK j \in DOMAIN seen[i].frames : p = <<i, j>>
      BY <3>1
    <3>3. seen'[i].frames[j] = seen[i].frames[j]
      BY <1>4, <1>8, <1>10
    <3> QED BY <3>2, <3>3 DEF FrameAt
  <2> QED BY <2>3, <2>4, <2>5, <2>6, <2>7
<1>13. \A s : Stacks(s)' = Stacks(s)
  BY <1>10, <1>11 DEF Stacks
<1>14. \A i \in DOMAIN seen : i # n => Names(i)' = Names(i)
  BY <1>10 DEF Names
<1>15. Names(n)' = Append(Names(n), NameOf(fr))
  <2>1. PICK fs : fs = old.frames
    OBVIOUS
  <2>2. fs \in Seq(Frames) /\ seen[n].frames = fs /\ seen'[n].frames = Append(fs, fr)
    BY <1>4, <1>5, <1>8, <1>10, <2>1
  <2>3. [i \in DOMAIN Append(fs, fr) |-> NameOf(Append(fs, fr)[i])] =
          Append([i \in DOMAIN fs |-> NameOf(fs[i])], NameOf(fr))
    <3>1. [i \in DOMAIN fs |-> NameOf(fs[i])] \in Seq({NameOf(gr) : gr \in Frames})
      BY <2>2
    <3>2. /\ DOMAIN Append(fs, fr) = DOMAIN fs \cup {Len(fs) + 1}
          /\ \A i \in DOMAIN fs : Append(fs, fr)[i] = fs[i]
          /\ Append(fs, fr)[Len(fs) + 1] = fr
      BY <2>2, AppendFacts
    <3> QED BY <2>2, <3>1, <3>2
  <2> QED BY <2>2, <2>3 DEF Names
<1>16. FrameAt(<<n, k>>)' = fr
  BY <1>8, <1>10 DEF FrameAt
<1> QED BY <1>3, <1>4, <1>6, <1>8, <1>10, <1>11, <1>12, <1>13, <1>14, <1>15, <1>16 DEF Current

-----------------------------------------------------------------------------
(* The progress *)

LEMMA PositiveProduct ==
  ASSUME NEW a \in Nat \ {0}, NEW b \in Nat \ {0}
  PROVE  a * b \in Nat \ {0}
PROOF
<1>1. a * b \in Nat
  OBVIOUS
<1>2. a * b # 0
  BY SMTT(30)
<1> QED BY <1>1, <1>2

LEMMA Quotient ==
  ASSUME NEW a \in Int, NEW b \in Nat \ {0}
  PROVE  a \div b \in Int
PROOF OBVIOUS

LEMMA WorkOfStepInt ==
  ASSUME NEW t \in Nat, NEW n \in Int
  PROVE  WorkOfStep(t, Resolution, n) \in Int
PROOF
<1>1. Resolution[1] \in Nat \ {0} /\ Resolution[2] \in Nat \ {0}
  BY BoundsAssumption
<1>2. PICK a \in Int : a = t * Resolution[1] * n + Resolution[2] - 1
  BY <1>1
<1>3. a \div Resolution[2] \in Int
  BY <1>1, <1>2, Quotient
<1> QED BY <1>2, <1>3 DEF WorkOfStep

\* The first step begins within the work.
LEMMA FirstStep ==
  ASSUME NEW t \in Nat
  PROVE  WorkOfStep(t, Resolution, 1) <= t
PROOF
<1>1. PICK n \in Nat \ {0}, d \in Nat \ {0} : n = Resolution[1] /\ d = Resolution[2] /\ n <= d
  BY BoundsAssumption
<1>2. PICK a \in Nat : a = t * n
  OBVIOUS
<1>3. a <= t * d
  BY <1>1, <1>2, SMTT(30)
<1>4. PICK b \in Nat : b = t * d
  OBVIOUS
<1>5. (a + d - 1) \div d < t + 1
  <2>1. PICK q \in Int : q = (a + d - 1) \div d
    BY Quotient
  <2>2. d * q <= a + d - 1
    BY <2>1, SMTT(30)
  <2>3. d * q < d * (t + 1)
    <3>1. d * (t + 1) = b + d
      BY <1>4, SMTT(30)
    <3> QED BY <1>3, <1>4, <2>2, <3>1
  <2>4. q < t + 1
    BY <2>3, SMTT(30)
  <2> QED BY <2>1, <2>4
<1>6. WorkOfStep(t, Resolution, 1) = (a + d - 1) \div d
  <2>1. t * n * 1 = a
    BY <1>2
  <2> QED BY <1>1, <2>1 DEF WorkOfStep
<1>7. WorkOfStep(t, Resolution, 1) \in Int
  BY WorkOfStepInt
<1> QED BY <1>5, <1>6, <1>7

LEMMA ReporterStarts ==
  ASSUME NEW t \in Nat
  PROVE  LET r == Reporter(t, Resolution)
         IN  r \in Reporters /\ OnTime(r) /\ r.total_work = t /\ r.current_work = 0 /\ ~r.finished
PROOF
<1>1. WorkOfStep(t, Resolution, 1) \in Int /\ WorkOfStep(t, Resolution, 1) <= t
  BY WorkOfStepInt, FirstStep
<1>2. PICK w \in Int : w = WorkOfStep(t, Resolution, 1)
  BY <1>1
<1>3. PICK r : r = [total_work |-> t, resolution |-> Resolution, current_work |-> 0,
                    next_report_step |-> 1, next_report_work |-> w, reports |-> <<0>>,
                    finished |-> FALSE]
  OBVIOUS
<1>4. Reporter(t, Resolution) = r
  BY <1>2, <1>3 DEF Reporter
<1>5. r \in Reporters
  BY <1>3 DEF Reporters
<1>6. OnTime(r)
  <2>1. Last(<<0>>) = 0
    BY DEF Last
  <2> QED BY <1>1, <1>2, <1>3, <2>1 DEF OnTime
<1> QED BY <1>3, <1>4, <1>5, <1>6

LEMMA ProgressedOnTime ==
  ASSUME NEW r \in Reporters, OnTime(r), r.current_work < r.total_work
  PROVE  LET p == Progressed(r, 1)
         IN  /\ p \in Reporters /\ OnTime(p) /\ p.total_work = r.total_work
             /\ p.current_work = r.current_work + 1 /\ p.finished = r.finished
PROOF
<1>1. PICK t, c, st, w, rs, f :
        /\ r = [total_work |-> t, resolution |-> Resolution, current_work |-> c,
                next_report_step |-> st, next_report_work |-> w, reports |-> rs, finished |-> f]
        /\ t \in Nat /\ c \in Nat /\ st \in Int /\ w \in Int /\ rs \in Seq(Nat) \ {<<>>} /\ f \in BOOLEAN
  BY DEF Reporters
<1>2. c < t /\ (c < t => w <= t)
  BY <1>1 DEF OnTime
<1>3. PICK s : s = [total_work |-> t, resolution |-> Resolution, current_work |-> c + 1,
                next_report_step |-> st, next_report_work |-> w, reports |-> rs, finished |-> f]
  OBVIOUS
<1>4. [r EXCEPT !.current_work = @ + 1] = s
  BY <1>1, <1>3
<1>5. CASE c + 1 < w
  <2>1. Progressed(r, 1) = s
    BY <1>3, <1>4, <1>5 DEF Progressed
  <2>2. s \in Reporters
    BY <1>1, <1>3 DEF Reporters
  <2>3. OnTime(s)
    BY <1>1, <1>2, <1>3, <1>5 DEF OnTime
  <2> QED BY <1>1, <1>3, <2>1, <2>2, <2>3
<1>6. CASE ~(c + 1 < w)
  <2>1. PICK qs : qs = Append(rs, c + 1)
    OBVIOUS
  <2>2. qs \in Seq(Nat) \ {<<>>} /\ Last(qs) = c + 1
    BY <1>1, <2>1 DEF Last
  <2>3. PICK v : v = [total_work |-> t, resolution |-> Resolution, current_work |-> c + 1,
                next_report_step |-> st, next_report_work |-> w, reports |-> qs, finished |-> f]
    OBVIOUS
  <2>4. [s EXCEPT !.reports = Append(@, s.current_work)] = v
    BY <1>3, <2>1, <2>3
  <2>5. Progressed(r, 1) = advanced(v)
    <3>1. PICK q : q = [r EXCEPT !.current_work = @ + 1]
      OBVIOUS
    <3>2. Progressed(r, 1) = IF s.current_work < s.next_report_work THEN s
                             ELSE advanced([s EXCEPT !.reports = Append(@, s.current_work)])
      <4>1. Progressed(r, 1) = IF q.current_work < q.next_report_work THEN q
                               ELSE advanced([q EXCEPT !.reports = Append(@, q.current_work)])
        BY <3>1 DEF Progressed
      <4>2. q = s
        BY <1>4, <3>1
      <4> QED BY <4>1, <4>2
    <3>3. s.current_work = c + 1 /\ s.next_report_work = w
      BY <1>3
    <3>4. ~(s.current_work < s.next_report_work)
      BY <1>6, <3>3
    <3> QED BY <2>4, <3>2, <3>4, Zenon
  <2>6. PICK cs \in Int : cs = ((c + 1) * Resolution[2]) \div (t * Resolution[1])
    <3>1. Resolution[1] \in Nat \ {0} /\ Resolution[2] \in Nat \ {0} /\ t \in Nat \ {0}
      BY <1>1, <1>2, BoundsAssumption
    <3>2. t * Resolution[1] \in Nat \ {0}
      BY <3>1, PositiveProduct
    <3>3. (c + 1) * Resolution[2] \in Int
      BY <1>1, <3>1
    <3>4. ((c + 1) * Resolution[2]) \div (t * Resolution[1]) \in Int
      BY <3>2, <3>3, Quotient
    <3> QED BY <3>4
  <2>7. PICK step \in Int : step = IF st + 1 > cs + 1 THEN st + 1 ELSE cs + 1
    BY <1>1
  <2>8. PICK work \in Int : work = WorkOfStep(t, Resolution, step)
    BY <1>1, WorkOfStepInt
  <2>9. PICK st2 \in Int : st2 = IF c + 1 < t /\ work > t THEN step - 1 ELSE step
    OBVIOUS
  <2>10. PICK w2 \in Int : w2 = IF c + 1 < t /\ work > t THEN t ELSE work
    BY <1>1
  <2>11. advanced(v) = [v EXCEPT !.next_report_step = st2, !.next_report_work = w2]
    <3>1. /\ v.total_work = t /\ v.resolution = Resolution /\ v.current_work = c + 1
          /\ v.next_report_step = st
      BY <2>3
    <3> QED BY <2>6, <2>7, <2>8, <2>9, <2>10, <3>1, Zenon DEF advanced
  <2>13. advanced(v) = [total_work |-> t, resolution |-> Resolution, current_work |-> c + 1,
                next_report_step |-> st2, next_report_work |-> w2, reports |-> qs, finished |-> f]
    BY <2>3, <2>11
  <2>14. c + 1 < t => w2 <= t
    BY <1>1, <2>10
  <2>15. advanced(v) \in Reporters
    BY <1>1, <2>2, <2>13 DEF Reporters
  <2>16. OnTime(advanced(v))
    BY <2>2, <2>13, <2>14 DEF OnTime
  <2> QED BY <1>1, <2>5, <2>13, <2>15, <2>16
<1> QED BY <1>5, <1>6

LEMMA SourcesAreFinite == IsFiniteSet(Sources)
PROOF
<1>1. NumberOfSources \in Int
  BY BoundsAssumption
<1> QED BY <1>1, FS_Interval DEF Sources

LEMMA SamplesLeftNat ==
  samples_left \in [Sources -> Nat] =>
    SamplesLeft \in Nat /\ ((\A s \in Sources : samples_left[s] = 0) => SamplesLeft = 0)
PROOF
<1> SUFFICES ASSUME samples_left \in [Sources -> Nat]
             PROVE  /\ SamplesLeft \in Nat
                    /\ (\A s \in Sources : samples_left[s] = 0) => SamplesLeft = 0
  OBVIOUS
<1>1. PICK c \in [Sources -> Nat] : c = samples_left
  OBVIOUS
<1>2. SumOf(c) \in Nat /\ ((\A s \in Sources : c[s] = 0) => SumOf(c) = 0)
  BY SumOfNats, SourcesAreFinite
<1> QED BY <1>1, <1>2 DEF SamplesLeft

LEMMA ProgressOfTaken ==
  ASSUME TypeOK, ProgressInv, NEW kind, NEW frames, TakeSample(kind, frames),
         pc' \in {"samples", "stack"}
  PROVE  ProgressInv'
PROOF
<1>1. /\ pc = "samples" /\ samples_left \in [Sources -> Nat] /\ source \in Sources
      /\ samples_left[source] > 0
      /\ samples_left' = [samples_left EXCEPT ![source] = @ - 1]
      /\ progress' = Progressed(progress, 1)
      /\ source' = source
  BY DEF TypeOK, TakeSample
<1>2. Len(seen') = Len(seen) + 1 /\ Len(seen) \in Nat
  BY DEF TypeOK, TakeSample
<1>3. samples_left' \in [Sources -> Nat]
  BY <1>1
<1>4. SamplesLeft' + 1 = SamplesLeft
  <2>1. PICK c \in [Sources -> Nat] : c = samples_left
    BY <1>1
  <2>2. PICK d \in [Sources -> Nat] : d = samples_left'
    BY <1>3
  <2>3. PICK y \in Sources : y = source
    BY <1>1
  <2>4. d[y] + 1 = c[y]
    BY <1>1, <2>1, <2>2, <2>3
  <2>5. \A x \in Sources : x # y => d[x] = c[x]
    BY <1>1, <2>1, <2>2, <2>3
  <2>6. SumOf(d) + 1 = SumOf(c)
    BY <2>4, <2>5, SourcesAreFinite, SumOneLess
  <2> QED BY <2>1, <2>2, <2>6 DEF SamplesLeft
<1>5. SamplesLeft \in Nat /\ SamplesLeft' \in Nat
  <2>1. (samples_left \in [Sources -> Nat] => SamplesLeft \in Nat)'
    BY SamplesLeftNat, PTL
  <2> QED BY <1>1, <1>3, <2>1, SamplesLeftNat
<1>6. progress \in Reporters /\ OnTime(progress) /\ progress.current_work = Len(seen)
      /\ Len(seen) + SamplesLeft = progress.total_work
      /\ ~progress.finished
      /\ progress.total_work \in Nat /\ progress.current_work \in Nat
  BY <1>1 DEF ProgressInv, Reporters
<1>7. progress.current_work < progress.total_work
  <2>1. PICK l \in Nat, m \in Nat, n \in Nat, t \in Nat :
          l = Len(seen) /\ m = SamplesLeft' /\ n = SamplesLeft /\ t = progress.total_work
    BY <1>2, <1>5, <1>6
  <2>2. m + 1 = n /\ l + n = t /\ progress.current_work = l
    BY <1>4, <1>6, <2>1
  <2>3. l < t
    BY <2>2
  <2> QED BY <2>1, <2>2, <2>3
<1>8. /\ progress' \in Reporters /\ OnTime(progress') /\ progress'.total_work = progress.total_work
      /\ progress'.current_work = progress.current_work + 1 /\ progress'.finished = progress.finished
  <2>1. PICK r : r = progress
    OBVIOUS
  <2>2. /\ Progressed(r, 1) \in Reporters /\ OnTime(Progressed(r, 1))
        /\ Progressed(r, 1).total_work = r.total_work
        /\ Progressed(r, 1).current_work = r.current_work + 1 /\ Progressed(r, 1).finished = r.finished
    BY <1>6, <1>7, <2>1, ProgressedOnTime
  <2> QED BY <1>1, <2>1, <2>2
<1>9. \A s \in Sources : s < source => samples_left'[s] = 0
  BY <1>1 DEF ProgressInv, Sources
<1>10. Len(seen') + SamplesLeft' = progress'.total_work
  <2>1. PICK l \in Nat, m \in Nat, n \in Nat, t \in Nat :
          l = Len(seen) /\ m = SamplesLeft' /\ n = SamplesLeft /\ t = progress.total_work
    BY <1>2, <1>5, <1>6
  <2>2. m + 1 = n /\ l + n = t /\ Len(seen') = l + 1 /\ progress'.total_work = t
    BY <1>2, <1>4, <1>6, <1>8, <2>1
  <2>3. (l + 1) + m = t
    BY <2>2
  <2> QED BY <2>1, <2>2, <2>3
<1> QED BY <1>1, <1>2, <1>6, <1>8, <1>9, <1>10 DEF ProgressInv

\* The last source is done, and all of them were.
LEMMA NothingLeft ==
  TypeOK /\ ProgressInv /\ samples_left[source] = 0 /\ source = NumberOfSources =>
    progress.current_work = progress.total_work
PROOF
<1> SUFFICES ASSUME TypeOK, ProgressInv, samples_left[source] = 0, source = NumberOfSources
             PROVE  progress.current_work = progress.total_work
  OBVIOUS
<1>2. \A s \in Sources : samples_left[s] = 0
  BY DEF ProgressInv, Sources, TypeOK
<1>3. SamplesLeft = 0
  BY <1>2, SamplesLeftNat DEF TypeOK
<1>4. Len(seen) \in Nat
  BY DEF TypeOK
<1>5. Len(seen) + SamplesLeft = progress.total_work /\ progress.current_work = Len(seen)
  BY DEF ProgressInv
<1> QED BY <1>3, <1>4, <1>5

-----------------------------------------------------------------------------
(* What a step adds to the places *)

LEMMA PlaceFacts ==
  seen \in Seq(Samples) =>
    \A s : \A p \in Places(s) :
      /\ p = <<p[1], p[2]>> /\ p[1] \in DOMAIN seen /\ seen[p[1]].source = s /\ s \in Sources
      /\ p[2] \in DOMAIN seen[p[1]].frames /\ p[2] \in Nat \ {0}
      /\ FrameAt(p) \in Frames
      /\ p[2] # 1 => <<p[1], p[2] - 1>> \in Places(s)
PROOF
<1> SUFFICES ASSUME seen \in Seq(Samples), NEW s, NEW p \in Places(s)
             PROVE  /\ p = <<p[1], p[2]>> /\ p[1] \in DOMAIN seen /\ seen[p[1]].source = s /\ s \in Sources
                    /\ p[2] \in DOMAIN seen[p[1]].frames /\ p[2] \in Nat \ {0}
                    /\ FrameAt(p) \in Frames
                    /\ p[2] # 1 => <<p[1], p[2] - 1>> \in Places(s)
  OBVIOUS
<1>1. PICK i \in DOMAIN seen : seen[i].source = s /\ \E k \in DOMAIN seen[i].frames : p = <<i, k>>
  BY PlaceIs DEF PlacesAre
<1>2. PICK k \in DOMAIN seen[i].frames : p = <<i, k>>
  BY <1>1
<1>3. PICK fs \in Seq(Frames) : fs = seen[i].frames
  BY SamplesTyped
<1>4. k \in Nat \ {0} /\ fs[k] \in Frames /\ (k # 1 => k - 1 \in DOMAIN fs)
  BY <1>2, <1>3
<1>5. s \in Sources
  BY <1>1, SamplesTyped
<1>6. FrameAt(p) \in Frames
  BY <1>2, <1>3, <1>4 DEF FrameAt
<1>7. k # 1 => <<i, k - 1>> \in Places(s)
  BY <1>1, <1>3, <1>4, PlaceIs DEF PlacesAre
<1> QED BY <1>1, <1>2, <1>4, <1>5, <1>6, <1>7

\* The places of the step's source are new ones, and what was there stays.
PlacesGrow(new) ==
  /\ \A s : Places(s)' = Places(s) \cup (IF s = source THEN new ELSE {})
  /\ \A s : Places(s) \cap new = {}
  /\ \A s : \A p \in Places(s) :
       /\ FrameAt(p)' = FrameAt(p)
       /\ p[1] \in Stacks(s)' <=> p[1] \in Stacks(s)

KnownFramesStay == \A gr \in Frames : HasIds(gr) => HasIds(gr)' /\ Ids(gr)' = Ids(gr)

LEMMA KnownStay ==
  ASSUME seen \in Seq(Samples), VectorsInv, KnownFramesStay, NEW new, PlacesGrow(new)
  PROVE  \A s : \A p \in Places(s) :
           HasIds(FrameAt(p))' /\ Ids(FrameAt(p))' = Ids(FrameAt(p))
PROOF
<1> SUFFICES ASSUME NEW s, NEW p \in Places(s)
             PROVE  HasIds(FrameAt(p))' /\ Ids(FrameAt(p))' = Ids(FrameAt(p))
  OBVIOUS
<1>1. PICK gr \in Frames : gr = FrameAt(p)
  BY PlaceFacts
<1>2. HasIds(gr)
  <2>1. s \in Sources
    BY PlaceFacts
  <2>2. p \in AllPlaces
    BY <2>1 DEF AllPlaces
  <2> QED BY <1>1, <2>2 DEF VectorsInv
<1>3. HasIds(gr)' /\ Ids(gr)' = Ids(gr)
  BY <1>2 DEF KnownFramesStay
<1>4. FrameAt(p)' = gr
  BY <1>1 DEF PlacesGrow
<1>5. HasIds(FrameAt(p))' = HasIds(gr)' /\ Ids(FrameAt(p))' = Ids(gr)'
  BY <1>4 DEF HasIds, Ids
<1> QED BY <1>1, <1>3, <1>5

LEMMA VectorsUnchanged ==
  ASSUME UNCHANGED <<modules, functions, files>>
  PROVE  KnownFramesStay
PROOF BY DEF KnownFramesStay, HasIds, Ids

\* A step that adds no place.
LEMMA NoPlaceMore ==
  ASSUME seen \in Seq(Samples), VectorsInv, KnownFramesStay, PlacesGrow({})
  PROVE  /\ \A kind, id, s : CountedFor(kind, id, s)' = CountedFor(kind, id, s)
         /\ \A f, g, s : CallsOf(f, g, s)' = CallsOf(f, g, s)
PROOF
<1>1. \A s : Places(s)' = Places(s)
  BY DEF PlacesGrow
<1>2. \A s : \A p \in Places(s) : Ids(FrameAt(p))' = Ids(FrameAt(p))
  BY KnownStay
<1>3. \A kind, id, s : CountedFor(kind, id, s)' = CountedFor(kind, id, s)
  <2>1. \A s : \A p \in Places(s) : counted(Ids(FrameAt(p)))' = counted(Ids(FrameAt(p)))
    BY <1>2 DEF counted
  <2> QED BY <1>1, <2>1 DEF CountedFor
<1>4. \A s : \A p \in Places(s) : FunctionAt(p)' = FunctionAt(p)
  BY <1>2 DEF FunctionAt
<1>5. \A s : \A p \in Places(s) : CallerAt(p)' = CallerAt(p)
  <2> SUFFICES ASSUME NEW s, NEW p \in Places(s) PROVE CallerAt(p)' = CallerAt(p)
    OBVIOUS
  <2>1. p[2] # 1 => FunctionAt(<<p[1], p[2] - 1>>)' = FunctionAt(<<p[1], p[2] - 1>>)
    BY <1>4, PlaceFacts
  <2> QED BY <2>1 DEF CallerAt
<1>6. \A f, g, s : CallsOf(f, g, s)' = CallsOf(f, g, s)
  <2>1. \A s : \A p \in Places(s) : p[1] \in Stacks(s)' <=> p[1] \in Stacks(s)
    BY DEF PlacesGrow
  <2> QED BY <1>1, <1>4, <1>5, <2>1 DEF CallsOf
<1> QED BY <1>3, <1>6

\* A step that adds one.
LEMMA OnePlaceMore ==
  ASSUME seen \in Seq(Samples), VectorsInv, KnownFramesStay, NEW p0, PlacesGrow({p0})
  PROVE  /\ \A kind, id, s : CountedFor(kind, id, s)' = CountedFor(kind, id, s) \cup
              (IF s = source /\ <<kind, id>> \in counted(Ids(FrameAt(p0)))' THEN {p0} ELSE {})
         /\ \A f, g, s : CallsOf(f, g, s)' = CallsOf(f, g, s) \cup
              (IF s = source /\ p0[1] \in Stacks(s)' /\ FunctionAt(p0)' = g /\ CallerAt(p0)' = f
               THEN {p0} ELSE {})
         /\ \A kind, id, s : p0 \notin CountedFor(kind, id, s)
         /\ \A f, g, s : p0 \notin CallsOf(f, g, s)
PROOF
<1>1. \A s : Places(s)' = Places(s) \cup (IF s = source THEN {p0} ELSE {})
  BY DEF PlacesGrow
<1>2. \A s : \A p \in Places(s) : Ids(FrameAt(p))' = Ids(FrameAt(p))
  BY KnownStay
<1>3. \A s : p0 \notin Places(s)
  BY DEF PlacesGrow
<1>4. \A kind, id, s : CountedFor(kind, id, s)' = CountedFor(kind, id, s) \cup
              (IF s = source /\ <<kind, id>> \in counted(Ids(FrameAt(p0)))' THEN {p0} ELSE {})
  <2>1. \A s : \A p \in Places(s) : counted(Ids(FrameAt(p)))' = counted(Ids(FrameAt(p)))
    BY <1>2 DEF counted
  <2> QED BY <1>1, <2>1 DEF CountedFor
<1>5. \A s : \A p \in Places(s) : FunctionAt(p)' = FunctionAt(p)
  BY <1>2 DEF FunctionAt
<1>6. \A s : \A p \in Places(s) : CallerAt(p)' = CallerAt(p)
  <2> SUFFICES ASSUME NEW s, NEW p \in Places(s) PROVE CallerAt(p)' = CallerAt(p)
    OBVIOUS
  <2>1. p[2] # 1 => FunctionAt(<<p[1], p[2] - 1>>)' = FunctionAt(<<p[1], p[2] - 1>>)
    BY <1>5, PlaceFacts
  <2> QED BY <2>1 DEF CallerAt
<1>7. \A f, g, s : CallsOf(f, g, s)' = CallsOf(f, g, s) \cup
              (IF s = source /\ p0[1] \in Stacks(s)' /\ FunctionAt(p0)' = g /\ CallerAt(p0)' = f
               THEN {p0} ELSE {})
  <2>1. \A s : \A p \in Places(s) : p[1] \in Stacks(s)' <=> p[1] \in Stacks(s)
    BY DEF PlacesGrow
  <2> QED BY <1>1, <1>5, <1>6, <2>1 DEF CallsOf
<1>8. \A kind, id, s : p0 \notin CountedFor(kind, id, s)
  BY <1>3 DEF CountedFor
<1>9. \A f, g, s : p0 \notin CallsOf(f, g, s)
  BY <1>3 DEF CallsOf
<1> QED BY <1>4, <1>7, <1>8, <1>9

LEMMA CountedAreFinite ==
  seen \in Seq(Samples) =>
    /\ \A kind, id, s : IsFiniteSet(CountedFor(kind, id, s))
                        /\ IsFiniteSet({p \in CountedFor(kind, id, s) : Innermost(p)})
    /\ \A f, g, s : IsFiniteSet(CallsOf(f, g, s))
PROOF
<1>1. \A kind, id, s : /\ CountedFor(kind, id, s) \in SUBSET Places(s)
                       /\ {p \in CountedFor(kind, id, s) : Innermost(p)} \in SUBSET Places(s)
  BY DEF CountedFor
<1>2. \A f, g, s : CallsOf(f, g, s) \in SUBSET Places(s)
  BY DEF CallsOf
<1> QED BY <1>1, <1>2, PlacesAreFinite, FS_Subset

LEMMA TotalStep ==
  ASSUME TypeOK, NEW K, \A k \in K : k = <<k[1], k[2]>>, total' = Incremented(total, K)
  PROVE  /\ total' \in [DOMAIN total' -> Nat]
         /\ \A kind, id, s : Total(kind, id, s)' =
              Total(kind, id, s) + (IF s = source /\ <<kind, id>> \in K THEN 1 ELSE 0)
PROOF
<1>1. PICK b : b = total
  OBVIOUS
<1>2. b \in [DOMAIN b -> Nat]
  BY <1>1 DEF TypeOK
<1>3. /\ Incremented(b, K) \in [DOMAIN Incremented(b, K) -> Nat]
      /\ \A kind, id, s : CountOf(Incremented(b, K), <<kind, id, s>>) =
              CountOf(b, <<kind, id, s>>) + (IF s = source /\ <<kind, id>> \in K THEN 1 ELSE 0)
  BY <1>2, CountStep
<1>4. PICK d : d = Incremented(b, K)
  OBVIOUS
<1>5. total' = d
  BY <1>1, <1>4
<1>6. \A kind, id, s : Total(kind, id, s) = CountOf(b, <<kind, id, s>>)
  BY <1>1 DEF Total
<1>7. \A kind, id, s : Total(kind, id, s)' = CountOf(d, <<kind, id, s>>)
  BY <1>5 DEF Total, CountOf
<1> QED BY <1>3, <1>4, <1>5, <1>6, <1>7

LEMMA SelfStep ==
  ASSUME TypeOK, NEW K, \A k \in K : k = <<k[1], k[2]>>, self' = Incremented(self, K)
  PROVE  /\ self' \in [DOMAIN self' -> Nat]
         /\ \A kind, id, s : Self(kind, id, s)' =
              Self(kind, id, s) + (IF s = source /\ <<kind, id>> \in K THEN 1 ELSE 0)
PROOF
<1>1. PICK b : b = self
  OBVIOUS
<1>2. b \in [DOMAIN b -> Nat]
  BY <1>1 DEF TypeOK
<1>3. /\ Incremented(b, K) \in [DOMAIN Incremented(b, K) -> Nat]
      /\ \A kind, id, s : CountOf(Incremented(b, K), <<kind, id, s>>) =
              CountOf(b, <<kind, id, s>>) + (IF s = source /\ <<kind, id>> \in K THEN 1 ELSE 0)
  BY <1>2, CountStep
<1>4. PICK d : d = Incremented(b, K)
  OBVIOUS
<1>5. self' = d
  BY <1>1, <1>4
<1>6. \A kind, id, s : Self(kind, id, s) = CountOf(b, <<kind, id, s>>)
  BY <1>1 DEF Self
<1>7. \A kind, id, s : Self(kind, id, s)' = CountOf(d, <<kind, id, s>>)
  BY <1>5 DEF Self, CountOf
<1> QED BY <1>3, <1>4, <1>5, <1>6, <1>7

LEMMA CountsAreNat ==
  TypeOK => \A kind, id, s : Total(kind, id, s) \in Nat /\ Self(kind, id, s) \in Nat
PROOF
<1> SUFFICES ASSUME TypeOK, NEW kind, NEW id, NEW s
             PROVE  Total(kind, id, s) \in Nat /\ Self(kind, id, s) \in Nat
  OBVIOUS
<1>1. PICK b, d : b = total /\ d = self
  OBVIOUS
<1>2. b \in [DOMAIN b -> Nat] /\ d \in [DOMAIN d -> Nat]
  BY <1>1 DEF TypeOK
<1> QED BY <1>1, <1>2, CountOfNat DEF Total, Self

\* The frames and calls are counted as before by a step that sees none.
InnermostStay == \A s : \A p \in Places(s) : Innermost(p)' <=> Innermost(p)
SameTotals(kinds) ==
  \A kind \in kinds : \A id, s : <<kind, id>> # <<"function", 0>> =>
    Total(kind, id, s)' = Total(kind, id, s)
SameSelfs(kinds) ==
  \A kind \in kinds : \A id, s : <<kind, id>> # <<"function", 0>> =>
    Self(kind, id, s)' = Self(kind, id, s)

LEMMA NoFrameCounted ==
  ASSUME seen \in Seq(Samples), VectorsInv, CountsInv, KnownFramesStay, PlacesGrow({}),
         SameTotals(FrameKinds \cup {"callee", "caller"})
  PROVE  /\ CallCounts'
         /\ InnermostStay /\ SameSelfs(FrameKinds) => FrameCounts'
PROOF
<1>1. /\ \A kind, id, s : CountedFor(kind, id, s)' = CountedFor(kind, id, s)
      /\ \A f, g, s : CallsOf(f, g, s)' = CallsOf(f, g, s)
  BY NoPlaceMore
<1>2. CallCounts'
  <2>1. \A id, s : /\ Total("callee", id, s)' = Total("callee", id, s)
                   /\ Total("caller", id, s)' = Total("caller", id, s)
    BY DEF SameTotals
  <2>2. CallCounts
    BY DEF CountsInv
  <2> QED BY <1>1, <2>1, <2>2 DEF CallCounts
<1>3. ASSUME InnermostStay, SameSelfs(FrameKinds) PROVE FrameCounts'
  <2>1. \A kind, id, s : {p \in CountedFor(kind, id, s) : Innermost(p)}' =
                           {p \in CountedFor(kind, id, s) : Innermost(p)}
    BY <1>1, <1>3 DEF InnermostStay, CountedFor
  <2>2. \A kind \in FrameKinds : \A id, s : <<kind, id>> # <<"function", 0>> =>
          Total(kind, id, s)' = Total(kind, id, s) /\ Self(kind, id, s)' = Self(kind, id, s)
    BY <1>3 DEF SameTotals, SameSelfs
  <2>3. FrameCounts
    BY DEF CountsInv
  <2> QED BY <1>1, <2>1, <2>2, <2>3 DEF FrameCounts
<1> QED BY <1>2, <1>3

-----------------------------------------------------------------------------
(* Nodes keep their paths *)

NodesStay ==
  /\ Len(nodes') >= Len(nodes)
  /\ \A n \in DOMAIN nodes : FunctionName(nodes[n])' = FunctionName(nodes[n])
  /\ \A n \in DOMAIN nodes, p \in DOMAIN children : n \in Range(children[p]) => n \in Range(children'[p])

LEMMA PathsStay ==
  ASSUME TypeOK, TreeInv, TreeShape', NodesStay
  PROVE  /\ \A n \in DOMAIN children : n \in DOMAIN children' /\ PathTo'[n] = PathTo[n]
         /\ \A n \in DOMAIN nodes : Parent(n)' = Parent(n)
PROOF
<1>1. TreeShape
  BY ShapeOfTree
<1>2. /\ Len(nodes) \in Nat /\ DOMAIN nodes = 1 .. Len(nodes)
      /\ DOMAIN children = 0 .. Len(nodes)
      /\ Len(nodes') \in Nat /\ DOMAIN nodes' = 1 .. Len(nodes')
      /\ DOMAIN children' = 0 .. Len(nodes')
      /\ \A n \in DOMAIN nodes : Parent(n) \in 0 .. n - 1
  BY <1>1 DEF TreeShape
<1>3. DOMAIN nodes \subseteq DOMAIN nodes' /\ DOMAIN children \subseteq DOMAIN children'
  BY <1>2 DEF NodesStay
<1>4. ASSUME NEW n \in DOMAIN nodes PROVE Parent(n)' = Parent(n)
  <2>1. PICK q : q = Parent(n)
    OBVIOUS
  <2>2. q \in DOMAIN children /\ n \in Range(children[q])
    BY <1>1, <1>2, <2>1 DEF TreeShape
  <2>3. n \in Range(children'[q]) /\ q \in DOMAIN children' /\ n \in DOMAIN nodes'
    BY <1>3, <2>2 DEF NodesStay
  <2>4. \A m \in DOMAIN nodes', r \in DOMAIN children' : m \in Range(children'[r]) => r = Parent(m)'
    BY DEF TreeShape
  <2> QED BY <2>1, <2>3, <2>4
<1> DEFINE up == [n \in DOMAIN nodes |-> Parent(n)]
           P == {n \in DOMAIN children : PathTo'[n] = PathTo[n]}
<1>5. /\ PathTo[0] = <<>>
      /\ \A n \in DOMAIN nodes : PathTo[n] = Append(PathTo[Parent(n)], FunctionName(nodes[n]))
  BY <1>1, PathToIs
<1>6. /\ PathTo'[0] = <<>>
      /\ \A n \in DOMAIN nodes' : PathTo'[n] = Append(PathTo'[Parent(n)'], FunctionName(nodes[n])')
  <2>1. (TreeShape =>
          /\ DOMAIN PathTo = DOMAIN children
          /\ PathTo[0] = <<>>
          /\ \A n \in DOMAIN nodes : PathTo[n] = Append(PathTo[Parent(n)], FunctionName(nodes[n])))'
    BY PathToIs, PTL
  <2> QED BY <2>1
<1>7. 0 \in P
  BY <1>2, <1>5, <1>6
<1>8. ASSUME NEW n \in 1 .. Len(nodes), up[n] \in P PROVE n \in P
  <2>1. n \in DOMAIN nodes /\ n \in DOMAIN nodes' /\ n \in DOMAIN children
    BY <1>2, <1>3
  <2>2. PathTo'[Parent(n)] = PathTo[Parent(n)]
    BY <1>8, <2>1
  <2>3. PathTo'[n] = Append(PathTo'[Parent(n)], FunctionName(nodes[n])')
    BY <1>4, <1>6, <2>1
  <2>4. FunctionName(nodes[n])' = FunctionName(nodes[n])
    BY <2>1 DEF NodesStay
  <2>5. PathTo'[n] = PathTo[n]
    BY <1>5, <2>1, <2>2, <2>3, <2>4
  <2> QED BY <2>1, <2>5
<1>9. \A n \in 1 .. Len(nodes) : up[n] \in 0 .. n - 1
  BY <1>2
<1> HIDE DEF up, P
<1>10. 0 .. Len(nodes) \subseteq P
  BY <1>2, <1>7, <1>8, <1>9, ClimbingUp
<1>11. \A n \in DOMAIN children : n \in DOMAIN children' /\ PathTo'[n] = PathTo[n]
  BY <1>2, <1>3, <1>10 DEF P
<1> QED BY <1>4, <1>11

LEMMA TreeUnchanged ==
  ASSUME TypeOK, TreeInv, UNCHANGED <<nodes, children>>,
         \A f \in DOMAIN functions : FunctionName(f)' = FunctionName(f)
  PROVE  /\ \A n \in DOMAIN children : PathTo'[n] = PathTo[n]
         /\ Paths' = Paths => TreeInv'
PROOF
<1>1. TreeShape
  BY ShapeOfTree
<1>2. TreeShape'
  BY <1>1 DEF TreeShape, Parent
<1>3. NodesStay
  <2>1. Len(nodes') >= Len(nodes)
    BY <1>1 DEF TreeShape
  <2>2. \A n \in DOMAIN nodes : nodes[n] \in DOMAIN functions
    BY DEF TypeOK
  <2>3. \A n \in DOMAIN nodes : FunctionName(nodes[n])' = FunctionName(nodes[n])
    <3> SUFFICES ASSUME NEW n \in DOMAIN nodes PROVE FunctionName(nodes[n])' = FunctionName(nodes[n])
      OBVIOUS
    <3>1. PICK f \in DOMAIN functions : f = nodes[n]
      BY <2>2
    <3>2. FunctionName(f)' = FunctionName(f)
      OBVIOUS
    <3>3. FunctionName(nodes[n])' = FunctionName(f)'
      BY <3>1 DEF FunctionName
    <3> QED BY <3>1, <3>2, <3>3
  <2> QED BY <2>1, <2>3 DEF NodesStay
<1>4. \A n \in DOMAIN children : PathTo'[n] = PathTo[n]
  BY <1>2, <1>3, PathsStay
<1>5. ASSUME Paths' = Paths PROVE TreeInv'
  <2>1. {PathTo'[n] : n \in DOMAIN children'} = Paths'
    BY <1>4, <1>5 DEF TreeInv
  <2>2. \A m, n \in DOMAIN children' : PathTo'[m] = PathTo'[n] => m = n
    BY <1>4 DEF TreeInv
  <2> QED BY <2>1, <2>2 DEF TreeInv
<1> QED BY <1>4, <1>5

-----------------------------------------------------------------------------
(* Steps that see no frame *)

Quiet == UNCHANGED <<modules, functions, file_of, files, nodes, children>> /\ PlacesGrow({})

SameStacks ==
  \A s : /\ Stacks(s)' = Stacks(s) /\ (Stacks(s) \cap Complete)' = Stacks(s) \cap Complete
         /\ \A i \in Stacks(s) : Names(i)' = Names(i) /\ seen'[i].frames = seen[i].frames

LEMMA HasIdsStay ==
  ASSUME seen \in Seq(Samples), seen' \in Seq(Samples), VectorsInv, KnownFramesStay, NEW new, PlacesGrow(new),
         \A p \in new : HasIds(FrameAt(p))', VectorsDistinct'
  PROVE  VectorsInv'
PROOF
<1>1. \A s : \A p \in Places(s) : HasIds(FrameAt(p))'
  BY KnownStay
<1>2. \A s : \A p \in Places(s)' : HasIds(FrameAt(p))'
  BY <1>1 DEF PlacesGrow
<1>3. \A p \in AllPlaces' : HasIds(FrameAt(p))'
  BY <1>2 DEF AllPlaces
<1> QED BY <1>3 DEF VectorsInv

LEMMA QuietStep ==
  ASSUME TypeOK, VectorsInv, TreeInv, FilesInv, Quiet, seen' \in Seq(Samples)
  PROVE  /\ VectorsTyped' /\ VectorsInv' /\ FilesInv'
         /\ nodes' \in Seq(DOMAIN functions') /\ children' \in [0 .. Len(nodes') -> Seq(DOMAIN nodes')]
         /\ KnownFramesStay
         /\ \A n \in DOMAIN children : PathTo'[n] = PathTo[n]
         /\ Paths' = Paths => TreeInv'
PROOF
<1>1. seen \in Seq(Samples) /\ VectorsTyped /\ PlacesGrow({})
  BY DEF TypeOK, Quiet
<1>2. KnownFramesStay
  BY VectorsUnchanged DEF Quiet
<1>3. VectorsTyped' /\ VectorsDistinct'
  BY <1>1 DEF VectorsTyped, VectorsInv, VectorsDistinct, Quiet
<1>4. VectorsInv'
  BY <1>1, <1>2, <1>3, HasIdsStay
<1>5. nodes' \in Seq(DOMAIN functions') /\ children' \in [0 .. Len(nodes') -> Seq(DOMAIN nodes')]
  BY DEF TypeOK, Quiet
<1>6. \A n \in DOMAIN children : PathTo'[n] = PathTo[n]
  <2>1. \A f \in DOMAIN functions : FunctionName(f)' = FunctionName(f)
    BY DEF Quiet, FunctionName
  <2> QED BY <2>1, TreeUnchanged DEF Quiet
<1>7. ASSUME Paths' = Paths PROVE TreeInv'
  <2>1. \A f \in DOMAIN functions : FunctionName(f)' = FunctionName(f)
    BY DEF Quiet, FunctionName
  <2> QED BY <1>7, <2>1, TreeUnchanged DEF Quiet
<1>8. FilesInv'
  <2>1. AllPlaces' = AllPlaces
    BY <1>1 DEF AllPlaces, PlacesGrow
  <2>2. \A p \in AllPlaces : Ids(FrameAt(p))' = Ids(FrameAt(p)) /\ FrameAt(p)' = FrameAt(p)
    BY <1>1, <1>2, KnownStay DEF AllPlaces, PlacesGrow
  <2>3. \A p \in AllPlaces : FunctionAt(p)' = FunctionAt(p)
    BY <2>2 DEF FunctionAt
  <2>4. \A f : WithFile(f)' = WithFile(f)
    BY <2>1, <2>2, <2>3 DEF WithFile
  <2>5. \A f : WithFile(f) \subseteq AllPlaces
    BY DEF WithFile
  <2>6. ASSUME NEW f \in DOMAIN functions'
        PROVE IF WithFile(f)' = {} THEN file_of'[f] = 0
              ELSE \E first \in WithFile(f)' :
                    /\ \A p \in WithFile(f)' : NotAfter(first, p)
                    /\ file_of'[f] \in DOMAIN files' /\ files'[file_of'[f]] = FrameAt(first)'.file
    <3>1. f \in DOMAIN functions /\ file_of' = file_of /\ files' = files
      BY DEF Quiet
    <3>2. IF WithFile(f) = {} THEN file_of[f] = 0
          ELSE \E first \in WithFile(f) :
                 /\ \A p \in WithFile(f) : NotAfter(first, p)
                 /\ file_of[f] \in DOMAIN files /\ files[file_of[f]] = FrameAt(first).file
      BY <3>1 DEF FilesInv
    <3>3. \A first \in WithFile(f) : FrameAt(first)' = FrameAt(first)
      BY <2>2, <2>5
    <3> QED BY <2>4, <3>1, <3>2, <3>3
  <2> QED BY <2>6 DEF FilesInv, NotAfter
<1> QED BY <1>2, <1>3, <1>4, <1>5, <1>6, <1>7, <1>8

LEMMA SamePaths ==
  ASSUME SameStacks
  PROVE  Paths' = Paths
PROOF
<1>1. UNION {Stacks(s) : s \in Sources}' = UNION {Stacks(s) : s \in Sources}
  BY DEF SameStacks
<1>2. \A i \in UNION {Stacks(s) : s \in Sources} : Names(i)' = Names(i)
  BY DEF SameStacks
<1>3. PICK I : I = UNION {Stacks(s) : s \in Sources}
  OBVIOUS
<1>4. (UNION {Stacks(s) : s \in Sources})' = I
  BY <1>1, <1>3
<1>5. \A i \in I : Prefixes(Names(i))' = Prefixes(Names(i))
  BY <1>2, <1>3 DEF Prefixes
<1>6. Paths' = {<<>>} \cup UNION {Prefixes(Names(i))' : i \in I}
  BY <1>4 DEF Paths, Prefixes
<1>7. Paths = {<<>>} \cup UNION {Prefixes(Names(i)) : i \in I}
  BY <1>3 DEF Paths
<1> QED BY <1>5, <1>6, <1>7

LEMMA StacksCountedAsBefore ==
  ASSUME CountsInv, SameStacks, UNCHANGED children,
         \A n \in DOMAIN children : PathTo'[n] = PathTo[n]
  PROVE  /\ SameTotals({"node"}) /\ SameSelfs({"node"}) => NodeCounts'
         /\ (\A s : Total("function", 0, s)' = Total("function", 0, s)
                    /\ Self("function", 0, s)' = Self("function", 0, s)) => RootCounts'
PROOF
<1>1. ASSUME SameTotals({"node"}), SameSelfs({"node"}) PROVE NodeCounts'
  <2>1. \A n, s : StacksThrough(n, s)' = StacksThrough(n, s)
    <3>1. ASSUME NEW n, NEW s PROVE StacksThrough(n, s)' = StacksThrough(n, s)
      <4>1. \A i \in Stacks(s) : (n \in DOMAIN children' /\ IsPrefix(PathTo'[n], Names(i)')) <=>
                                 (n \in DOMAIN children /\ IsPrefix(PathTo[n], Names(i)))
        BY DEF SameStacks
      <4>2. Stacks(s)' = Stacks(s)
        BY DEF SameStacks
      <4>3. StacksThrough(n, s)' =
              {i \in Stacks(s)' : n \in DOMAIN children' /\ IsPrefix(PathTo'[n], Names(i)')}
        BY DEF StacksThrough, IsPrefix
      <4> QED BY <4>1, <4>2, <4>3 DEF StacksThrough
    <3> QED BY <3>1
  <2>2. \A n, s : StacksAt(n, s)' = StacksAt(n, s)
    BY DEF StacksAt, SameStacks
  <2>3. NodeCounts
    BY DEF CountsInv
  <2>4. \A n, s : Total("node", n, s)' = Total("node", n, s) /\ Self("node", n, s)' = Self("node", n, s)
    BY <1>1 DEF SameTotals, SameSelfs
  <2> QED BY <2>1, <2>2, <2>3, <2>4 DEF NodeCounts
<1>2. ASSUME \A s : Total("function", 0, s)' = Total("function", 0, s)
                    /\ Self("function", 0, s)' = Self("function", 0, s)
      PROVE  RootCounts'
  <2>1. \A s : /\ {i \in Stacks(s) \cap Complete : seen[i].frames = <<>>}' =
                  {i \in Stacks(s) \cap Complete : seen[i].frames = <<>>}
               /\ Stacks(s)' = Stacks(s)
    BY DEF SameStacks
  <2>2. RootCounts
    BY DEF CountsInv
  <2> QED BY <1>2, <2>1, <2>2 DEF RootCounts
<1> QED BY <1>1, <1>2

-----------------------------------------------------------------------------
(* Samples without frames *)

LEMMA EmptySample ==
  ASSUME TypeOK, NEW kind \in {"stack", "frame", "neither"}, TakeSample(kind, <<>>),
         NEW n, n = Len(seen) + 1
  PROVE  /\ pc = "samples" /\ source' = source /\ samples_left' \in [Sources -> Nat]
         /\ seen' \in Seq(Samples) /\ Len(seen') = n /\ DOMAIN seen' = DOMAIN seen \cup {n}
         /\ n \notin DOMAIN seen /\ n \in Nat /\ DOMAIN seen = 1 .. n - 1
         /\ seen'[n] = [kind |-> kind, source |-> source, frames |-> <<>>]
         /\ \A i \in DOMAIN seen : seen'[i] = seen[i] /\ Names(i)' = Names(i)
         /\ PlacesGrow({}) /\ InnermostStay
         /\ \A s : Stacks(s)' = Stacks(s) \cup (IF kind = "stack" /\ source = s THEN {n} ELSE {})
PROOF
<1>1. /\ pc = "samples" /\ source' = source /\ seen \in Seq(Samples) /\ source \in Sources
      /\ samples_left \in [Sources -> Nat] /\ samples_left[source] > 0
      /\ samples_left' = [samples_left EXCEPT ![source] = @ - 1]
      /\ seen' = Append(seen, [kind |-> kind, source |-> source, frames |-> <<>>])
  BY DEF TypeOK, TakeSample
<1>2. samples_left' \in [Sources -> Nat]
  BY <1>1
<1>3. PICK x : x = [kind |-> kind, source |-> source, frames |-> <<>>]
  OBVIOUS
<1>4. x \in Samples /\ x.kind = kind /\ x.source = source /\ x.frames = <<>> /\ DOMAIN x.frames = {}
  BY <1>1, <1>3 DEF Samples
<1>5. seen' = Append(seen, x)
  BY <1>1, <1>3
<1>6. /\ seen' \in Seq(Samples) /\ Len(seen') = Len(seen) + 1
      /\ DOMAIN seen' = DOMAIN seen \cup {Len(seen) + 1} /\ Len(seen) + 1 \notin DOMAIN seen
      /\ \A i \in DOMAIN seen : seen'[i] = seen[i]
      /\ seen'[Len(seen) + 1] = x
      /\ \A s : \A p : p \in Places(s)' <=>
              \/ p \in Places(s)
              \/ x.source = s /\ \E k \in DOMAIN x.frames : p = <<Len(seen) + 1, k>>
      /\ \A s : Stacks(s)' = Stacks(s) \cup
              (IF x.kind = "stack" /\ x.source = s THEN {Len(seen) + 1} ELSE {})
      /\ \A i \in DOMAIN seen : Names(i)' = Names(i)
      /\ \A i \in DOMAIN seen : \A k : FrameAt(<<i, k>>)' = FrameAt(<<i, k>>)
  BY <1>1, <1>4, <1>5, SampleAdded
<1>7. n \in Nat /\ DOMAIN seen = 1 .. n - 1
  BY <1>1
<1>8. \A s : Places(s)' = Places(s)
  <2>1. ASSUME NEW s, NEW p PROVE p \in Places(s)' <=> p \in Places(s)
    <3>1. ~ \E k \in DOMAIN x.frames : p = <<Len(seen) + 1, k>>
      BY <1>4
    <3>2. p \in Places(s)' <=> \/ p \in Places(s)
                               \/ x.source = s /\ \E k \in DOMAIN x.frames : p = <<Len(seen) + 1, k>>
      BY <1>6, Zenon
    <3> QED BY <3>1, <3>2
  <2>2. ASSUME NEW s PROVE Places(s)' = Places(s)
    <3>1. PICK A, B : A = Places(s)' /\ B = Places(s)
      OBVIOUS
    <3>2. \A p : p \in A <=> p \in B
      BY <2>1, <3>1
    <3>3. A = B
      BY <3>2
    <3> QED BY <3>1, <3>3
  <2> QED BY <2>2
<1>9. \A s : \A p \in Places(s) : p[1] \in DOMAIN seen /\ p = <<p[1], p[2]>>
  BY <1>1, PlaceFacts
<1>10. PlacesGrow({})
  <2>1. ASSUME NEW s, NEW p \in Places(s)
        PROVE  FrameAt(p)' = FrameAt(p) /\ (p[1] \in Stacks(s)' <=> p[1] \in Stacks(s))
    <3>1. PICK i, k : p = <<i, k>> /\ i \in DOMAIN seen
      BY <1>9
    <3>2. FrameAt(p)' = FrameAt(p)
      BY <1>6, <3>1
    <3> QED BY <1>6, <3>1, <3>2
  <2> QED BY <1>8, <2>1 DEF PlacesGrow
<1>11. InnermostStay
  <2>1. ASSUME NEW s, NEW p \in Places(s) PROVE Innermost(p)' <=> Innermost(p)
    <3>1. p[1] \in DOMAIN seen /\ p[1] \in DOMAIN seen' /\ p[1] < Len(seen')
      BY <1>1, <1>6, <1>9
    <3>2. p[1] \in Complete /\ p[1] \in Complete'
      BY <1>1, <3>1 DEF Complete
    <3>3. seen'[p[1]] = seen[p[1]]
      BY <1>6, <3>1
    <3> QED BY <3>2, <3>3 DEF Innermost
  <2> QED BY <2>1 DEF InnermostStay
<1>12. \A s : Stacks(s)' = Stacks(s) \cup (IF kind = "stack" /\ source = s THEN {n} ELSE {})
  BY <1>4, <1>6
<1> QED BY <1>1, <1>2, <1>3, <1>6, <1>7, <1>10, <1>11, <1>12

LEMMA StartStackStep ==
  ASSUME IInv, StartStack
  PROVE  IInv'
PROOF
<1>0. TypeOK /\ VectorsInv /\ StackInv /\ CountsInv /\ TreeInv /\ FilesInv /\ ProgressInv
  BY DEF IInv
<1>1. /\ TakeSample("stack", <<>>) /\ previous' = NoPrevious /\ pc' = "stack"
      /\ total' = Incremented(total, {<<"node", 0>>, <<"function", 0>>})
      /\ UNCHANGED <<modules, functions, file_of, files, nodes, children, self>>
  BY DEF StartStack
<1>2. PICK n : n = Len(seen) + 1
  OBVIOUS
<1>3. /\ pc = "samples" /\ source' = source /\ samples_left' \in [Sources -> Nat]
      /\ seen' \in Seq(Samples) /\ Len(seen') = n /\ DOMAIN seen' = DOMAIN seen \cup {n}
      /\ n \notin DOMAIN seen /\ n \in Nat /\ DOMAIN seen = 1 .. n - 1
      /\ seen'[n] = [kind |-> "stack", source |-> source, frames |-> <<>>]
      /\ \A i \in DOMAIN seen : seen'[i] = seen[i] /\ Names(i)' = Names(i)
      /\ PlacesGrow({}) /\ InnermostStay
      /\ \A s : Stacks(s)' = Stacks(s) \cup (IF source = s THEN {n} ELSE {})
  BY <1>0, <1>1, <1>2, EmptySample
<1>4. Quiet
  BY <1>1, <1>3 DEF Quiet
<1>5. /\ VectorsTyped' /\ VectorsInv' /\ FilesInv'
      /\ nodes' \in Seq(DOMAIN functions') /\ children' \in [0 .. Len(nodes') -> Seq(DOMAIN nodes')]
      /\ KnownFramesStay
      /\ \A m \in DOMAIN children : PathTo'[m] = PathTo[m]
      /\ Paths' = Paths => TreeInv'
  BY <1>0, <1>3, <1>4, QuietStep
<1>6. PICK K : K = {<<"node", 0>>, <<"function", 0>>}
  OBVIOUS
<1>7. \A k \in K : k = <<k[1], k[2]>>
  BY <1>6
<1>8. /\ total' \in [DOMAIN total' -> Nat]
      /\ \A kind, id, s : Total(kind, id, s)' =
              Total(kind, id, s) + (IF s = source /\ <<kind, id>> \in K THEN 1 ELSE 0)
  <2>1. total' = Incremented(total, K)
    BY <1>1, <1>6
  <2> QED BY <1>0, <1>7, <2>1, TotalStep
<1>9. \A kind, id, s : Total(kind, id, s) \in Nat
  BY <1>0, CountsAreNat
<1>10. \A kind, id, s : Self(kind, id, s)' = Self(kind, id, s)
  BY <1>1 DEF Self, CountOf
<1>11. TypeOK'
  <2>1. previous' = [module |-> previous'.module, function |-> previous'.function,
                 node |-> previous'.node, file |-> previous'.file, line |-> previous'.line]
    BY <1>1 DEF NoPrevious
  <2> QED BY <1>0, <1>1, <1>3, <1>5, <1>8, <2>1 DEF TypeOK
<1>12. ProgressInv'
  BY <1>0, <1>1, ProgressOfTaken
<1>13. Names(n)' = <<>>
  BY <1>3 DEF Names
<1>14. Paths' = Paths
  <2>1. (UNION {Stacks(s) : s \in Sources})' = (UNION {Stacks(s) : s \in Sources}) \cup {n}
    <3>1. source \in Sources
      BY <1>0 DEF TypeOK
    <3> QED BY <1>3, <3>1
  <2>2. \A i \in UNION {Stacks(s) : s \in Sources} : Names(i)' = Names(i)
    BY <1>3 DEF Stacks
  <2>3. Prefixes(Names(n))' = {<<>>}
    <3>1. Prefixes(<<>>) = {<<>>}
      <4>1. <<>> \in Seq({})
        OBVIOUS
      <4> QED BY <4>1, PrefixesFacts
    <3>2. Prefixes(Names(n))' = Prefixes(<<>>)
      BY <1>13 DEF Prefixes
    <3> QED BY <3>1, <3>2
  <2>4. PICK I : I = UNION {Stacks(s) : s \in Sources}
    OBVIOUS
  <2>5. (UNION {Stacks(s) : s \in Sources})' = I \cup {n}
    BY <2>1, <2>4
  <2>6. \A i \in I : Prefixes(Names(i))' = Prefixes(Names(i))
    BY <2>2, <2>4 DEF Prefixes
  <2>7. Paths' = {<<>>} \cup UNION {Prefixes(Names(i))' : i \in I \cup {n}}
    BY <2>5 DEF Paths, Prefixes
  <2>8. Paths = {<<>>} \cup UNION {Prefixes(Names(i)) : i \in I}
    BY <2>4 DEF Paths
  <2>9. ASSUME NEW p PROVE p \in Paths' <=> p \in Paths
    <3>1. p \in Paths' <=> p = <<>> \/ \E i \in I \cup {n} : p \in Prefixes(Names(i))'
      BY <2>7
    <3>2. p \in Paths <=> p = <<>> \/ \E i \in I : p \in Prefixes(Names(i))
      BY <2>8
    <3>3. p \in Prefixes(Names(n))' <=> p = <<>>
      BY <2>3
    <3>4. \A i \in I : p \in Prefixes(Names(i))' <=> p \in Prefixes(Names(i))
      BY <2>6
    <3> QED BY <3>1, <3>2, <3>3, <3>4
  <2>10. PICK A, B : A = Paths' /\ B = Paths
    OBVIOUS
  <2>11. A = B
    BY <2>9, <2>10
  <2> QED BY <2>10, <2>11
<1>15. TreeInv'
  BY <1>5, <1>14
<1>16. DOMAIN children' = DOMAIN children /\ 0 \in DOMAIN children
       /\ PathTo[0] = <<>> /\ \A m \in DOMAIN children : PathTo[m] = <<>> <=> m = 0
  <2>1. TreeShape
    BY <1>0, ShapeOfTree
  <2>2. 0 \in DOMAIN children /\ PathTo[0] = <<>>
    BY <2>1, PathToIs DEF TreeShape
  <2> QED BY <1>0, <1>1, <2>2 DEF TreeInv
<1>17. StackInv'
  <2>1. seen' # <<>>
    BY <1>3
  <2>2. Current' = [kind |-> "stack", source |-> source, frames |-> <<>>]
    BY <1>3 DEF Current
  <2>3. previous'.node = 0
    BY <1>1 DEF NoPrevious
  <2>4. PathTo'[previous'.node] = Names(Len(seen))'
    <3>1. PathTo'[0] = <<>>
      BY <1>5, <1>16
    <3>2. Names(Len(seen))' = Names(n)'
      BY <1>3 DEF Names
    <3> QED BY <1>13, <2>3, <3>1, <3>2
  <2> QED BY <1>1, <1>3, <1>16, <2>1, <2>2, <2>3, <2>4 DEF StackInv
<1>18. CallCounts' /\ FrameCounts'
  <2>1. SameTotals(FrameKinds \cup {"callee", "caller"}) /\ SameSelfs(FrameKinds)
    BY <1>6, <1>8, <1>9, <1>10 DEF SameTotals, SameSelfs, FrameKinds
  <2> QED BY <1>0, <1>3, <1>5, <2>1, NoFrameCounted DEF TypeOK
<1>19. \A s : Stacks(s) \subseteq DOMAIN seen /\ (Stacks(s) \cap Complete)' = Stacks(s) \cap Complete
  <2>1. \A s : Stacks(s) \subseteq DOMAIN seen
    BY DEF Stacks
  <2>2. Complete = DOMAIN seen /\ Complete' = DOMAIN seen
    BY <1>1, <1>3 DEF Complete
  <2> QED BY <1>3, <2>1, <2>2
<1>20. \A s : IsFiniteSet(Stacks(s)) /\ n \notin Stacks(s)
  BY <1>0, <1>3, <1>19, PlacesAreFinite DEF TypeOK
<1>21. RootCounts'
  <2>1. \A s \in Sources : Total("function", 0, s)' = Cardinality(Stacks(s)')
    <3> SUFFICES ASSUME NEW s \in Sources PROVE Total("function", 0, s)' = Cardinality(Stacks(s)')
      OBVIOUS
    <3>1. Total("function", 0, s) = Cardinality(Stacks(s))
      BY <1>0 DEF CountsInv, RootCounts
    <3>2. Total("function", 0, s)' = Total("function", 0, s) + IF s = source THEN 1 ELSE 0
      BY <1>6, <1>8
    <3>3. CASE s = source
      <4>1. Cardinality(Stacks(s)') = Cardinality(Stacks(s)) + 1
        BY <1>3, <1>20, <3>3, OneMore
      <4> QED BY <3>1, <3>2, <3>3, <4>1
    <3>4. CASE s # source
      <4>1. Stacks(s)' = Stacks(s)
        BY <1>3, <3>4
      <4>2. Total("function", 0, s) \in Nat
        BY <1>9
      <4> QED BY <3>1, <3>2, <3>4, <4>1, <4>2
    <3> QED BY <3>3, <3>4
  <2>2. \A s : {i \in Stacks(s) \cap Complete : seen[i].frames = <<>>}' =
               {i \in Stacks(s) \cap Complete : seen[i].frames = <<>>}
    BY <1>3, <1>19
  <2> QED BY <1>0, <1>10, <2>1, <2>2 DEF RootCounts, CountsInv
<1>22. NodeCounts'
  <2>1. ASSUME NEW s \in Sources, NEW m \in Nat
        PROVE  Total("node", m, s)' = Cardinality(StacksThrough(m, s)')
    <3>1. Total("node", m, s) = Cardinality(StacksThrough(m, s))
      BY <1>0 DEF CountsInv, NodeCounts
    <3>2. Total("node", m, s)' = Total("node", m, s) + IF s = source /\ m = 0 THEN 1 ELSE 0
      BY <1>6, <1>8
    <3>3. \A i \in Stacks(s) : (m \in DOMAIN children' /\ IsPrefix(PathTo'[m], Names(i)')) <=>
                               (m \in DOMAIN children /\ IsPrefix(PathTo[m], Names(i)))
      BY <1>1, <1>3, <1>5, <1>19
    <3>4. (m \in DOMAIN children' /\ IsPrefix(PathTo'[m], Names(n)')) <=> m = 0
      <4>1. ASSUME m \in DOMAIN children PROVE IsPrefix(PathTo'[m], Names(n)') <=> m = 0
        <5>1. PICK q : q = PathTo[m]
          OBVIOUS
        <5>2. q \in Seq(ModuleNames \X SymbolNames)
          BY <1>0, <4>1, <5>1, PathTyped
        <5>3. IsPrefix(q, <<>>) <=> q = <<>>
          BY <5>2, PrefixFacts
        <5>4. PathTo'[m] = q
          BY <1>5, <4>1, <5>1
        <5> QED BY <1>13, <1>16, <4>1, <5>1, <5>3, <5>4
      <4> QED BY <1>16, <4>1
    <3>5. StacksThrough(m, s)' =
            {i \in Stacks(s)' : m \in DOMAIN children' /\ IsPrefix(PathTo'[m], Names(i)')}
      BY DEF StacksThrough, IsPrefix
    <3>6. StacksThrough(m, s)' =
            StacksThrough(m, s) \cup (IF s = source /\ m = 0 THEN {n} ELSE {})
      BY <1>3, <3>3, <3>4, <3>5 DEF StacksThrough
    <3>7. IsFiniteSet(StacksThrough(m, s)) /\ n \notin StacksThrough(m, s)
      <4>1. StacksThrough(m, s) \in SUBSET Stacks(s)
        BY DEF StacksThrough
      <4> QED BY <1>20, <4>1, FS_Subset
    <3>8. CASE s = source /\ m = 0
      <4>1. Cardinality(StacksThrough(m, s)') = Cardinality(StacksThrough(m, s)) + 1
        BY <3>6, <3>7, <3>8, OneMore
      <4> QED BY <3>1, <3>2, <3>8, <4>1
    <3>9. CASE ~(s = source /\ m = 0)
      BY <1>9, <3>1, <3>2, <3>6, <3>9
    <3> QED BY <3>8, <3>9
  <2>2. \A m, s : StacksAt(m, s)' = StacksAt(m, s)
    BY <1>1, <1>3, <1>5, <1>19 DEF StacksAt
  <2> QED BY <1>0, <1>10, <2>1, <2>2 DEF NodeCounts, CountsInv
<1> QED BY <1>5, <1>11, <1>12, <1>15, <1>17, <1>18, <1>21, <1>22 DEF IInv, CountsInv

\* Steps that count nothing.
LEMMA SameCounts ==
  ASSUME IInv, Quiet, seen' \in Seq(Samples), SameStacks, InnermostStay, UNCHANGED <<total, self>>
  PROVE  /\ VectorsTyped' /\ VectorsInv' /\ CountsInv' /\ TreeInv' /\ FilesInv'
         /\ nodes' \in Seq(DOMAIN functions') /\ children' \in [0 .. Len(nodes') -> Seq(DOMAIN nodes')]
PROOF
<1>0. TypeOK /\ VectorsInv /\ CountsInv /\ TreeInv /\ FilesInv
  BY DEF IInv
<1>1. /\ VectorsTyped' /\ VectorsInv' /\ FilesInv'
      /\ nodes' \in Seq(DOMAIN functions') /\ children' \in [0 .. Len(nodes') -> Seq(DOMAIN nodes')]
      /\ KnownFramesStay
      /\ \A m \in DOMAIN children : PathTo'[m] = PathTo[m]
      /\ Paths' = Paths => TreeInv'
  BY <1>0, QuietStep
<1>2. TreeInv'
  BY <1>1, SamePaths
<1>3. \A kind, id, s : Total(kind, id, s)' = Total(kind, id, s) /\ Self(kind, id, s)' = Self(kind, id, s)
  BY DEF Total, Self, CountOf
<1>4. /\ SameTotals(FrameKinds \cup {"callee", "caller"}) /\ SameSelfs(FrameKinds)
      /\ SameTotals({"node"}) /\ SameSelfs({"node"})
  BY <1>3 DEF SameTotals, SameSelfs
<1>5. CallCounts' /\ FrameCounts'
  BY <1>0, <1>1, <1>4, NoFrameCounted DEF TypeOK, Quiet
<1>6. NodeCounts' /\ RootCounts'
  BY <1>0, <1>1, <1>3, <1>4, StacksCountedAsBefore DEF Quiet
<1> QED BY <1>1, <1>2, <1>5, <1>6 DEF CountsInv

LEMMA NeitherStep ==
  ASSUME IInv, Neither
  PROVE  IInv'
PROOF
<1>0. TypeOK /\ VectorsInv /\ StackInv /\ CountsInv /\ TreeInv /\ FilesInv /\ ProgressInv
  BY DEF IInv
<1>1. /\ TakeSample("neither", <<>>) /\ UNCHANGED <<pc, previous>>
      /\ UNCHANGED <<modules, functions, file_of, files, nodes, children, total, self>>
  BY DEF Neither, result
<1>2. PICK n : n = Len(seen) + 1
  OBVIOUS
<1>3. /\ pc = "samples" /\ source' = source /\ samples_left' \in [Sources -> Nat]
      /\ seen' \in Seq(Samples) /\ Len(seen') = n /\ DOMAIN seen' = DOMAIN seen \cup {n}
      /\ n \notin DOMAIN seen /\ n \in Nat /\ DOMAIN seen = 1 .. n - 1
      /\ \A i \in DOMAIN seen : seen'[i] = seen[i] /\ Names(i)' = Names(i)
      /\ PlacesGrow({}) /\ InnermostStay
      /\ \A s : Stacks(s)' = Stacks(s)
  <2>1. PICK kind \in {"stack", "frame", "neither"} : kind = "neither"
    OBVIOUS
  <2>2. TakeSample(kind, <<>>)
    BY <1>1, <2>1
  <2>3. \A s : Stacks(s)' = Stacks(s) \cup (IF kind = "stack" /\ source = s THEN {n} ELSE {})
    BY <1>0, <1>2, <2>2, EmptySample
  <2>4. \A s : Stacks(s)' = Stacks(s)
    BY <2>1, <2>3
  <2> QED BY <1>0, <1>2, <2>2, <2>4, EmptySample
<1>4. Quiet
  BY <1>1, <1>3 DEF Quiet
<1>5. SameStacks
  <2>1. \A s : Stacks(s) \subseteq DOMAIN seen
    BY DEF Stacks
  <2>2. Complete = DOMAIN seen /\ Complete' = DOMAIN seen \cup {n}
    BY <1>1, <1>3 DEF Complete
  <2>3. \A s : (Stacks(s) \cap Complete)' = Stacks(s) \cap Complete
    BY <1>3, <2>1, <2>2
  <2> QED BY <1>3, <2>1, <2>3 DEF SameStacks
<1>6. /\ VectorsTyped' /\ VectorsInv' /\ CountsInv' /\ TreeInv' /\ FilesInv'
      /\ nodes' \in Seq(DOMAIN functions') /\ children' \in [0 .. Len(nodes') -> Seq(DOMAIN nodes')]
  BY <1>1, <1>3, <1>4, <1>5, SameCounts
<1>7. TypeOK'
  BY <1>0, <1>1, <1>3, <1>6 DEF TypeOK
<1>8. StackInv'
  BY <1>1, <1>3 DEF StackInv
<1>9. ProgressInv'
  BY <1>0, <1>1, <1>3, ProgressOfTaken
<1> QED BY <1>6, <1>7, <1>8, <1>9 DEF IInv

LEMMA SeenUnchanged ==
  ASSUME UNCHANGED seen, seen \in Seq(Samples)
  PROVE  /\ PlacesGrow({})
         /\ \A s : Places(s)' = Places(s)
         /\ \A s : Stacks(s)' = Stacks(s)
         /\ \A i : Names(i)' = Names(i)
         /\ \A p : FrameAt(p)' = FrameAt(p)
         /\ (pc = "stack" <=> pc' = "stack") => Complete' = Complete /\ InnermostStay
PROOF
<1>1. /\ \A s : Places(s)' = Places(s)
      /\ \A s : Stacks(s)' = Stacks(s)
      /\ \A i : Names(i)' = Names(i)
      /\ \A p : FrameAt(p)' = FrameAt(p)
  BY DEF Places, Stacks, Names, FrameAt
<1>2. PlacesGrow({})
  BY <1>1 DEF PlacesGrow
<1>3. ASSUME pc = "stack" <=> pc' = "stack" PROVE Complete' = Complete /\ InnermostStay
  <2>1. Complete' = Complete
    BY <1>3 DEF Complete
  <2> QED BY <2>1 DEF InnermostStay, Innermost
<1> QED BY <1>1, <1>2, <1>3

LEMMA ResultUnchanged ==
  ASSUME IInv, pc = "samples", pc' \in {"samples", "canceled", "done"},
         UNCHANGED <<samples_left, result, previous, seen>>, source' \in Sources
  PROVE  /\ TypeOK' /\ VectorsInv' /\ StackInv' /\ CountsInv' /\ TreeInv' /\ FilesInv'
PROOF
<1>0. TypeOK /\ UNCHANGED <<modules, functions, file_of, files, nodes, children, total, self>>
  BY DEF IInv, result
<1>1. /\ PlacesGrow({})
      /\ \A s : Stacks(s)' = Stacks(s)
      /\ \A i : Names(i)' = Names(i)
      /\ Complete' = Complete /\ InnermostStay
  BY <1>0, SeenUnchanged DEF TypeOK
<1>2. Quiet /\ SameStacks /\ seen' \in Seq(Samples)
  BY <1>0, <1>1 DEF Quiet, SameStacks, TypeOK
<1>3. /\ VectorsTyped' /\ VectorsInv' /\ CountsInv' /\ TreeInv' /\ FilesInv'
      /\ nodes' \in Seq(DOMAIN functions') /\ children' \in [0 .. Len(nodes') -> Seq(DOMAIN nodes')]
  BY <1>0, <1>1, <1>2, SameCounts
<1>4. TypeOK'
  BY <1>0, <1>3 DEF TypeOK
<1> QED BY <1>3, <1>4 DEF StackInv

LEMMA NextSourceStep ==
  ASSUME IInv, NextSource
  PROVE  IInv'
PROOF
<1>1. /\ pc = "samples" /\ samples_left[source] = 0 /\ source < NumberOfSources
      /\ source' = source + 1
      /\ UNCHANGED <<pc, samples_left, result, previous, progress, seen>>
  BY DEF NextSource
<1>2. source \in Sources /\ source' \in Sources
  BY <1>1, BoundsAssumption DEF IInv, TypeOK, Sources
<1>3. /\ TypeOK' /\ VectorsInv' /\ StackInv' /\ CountsInv' /\ TreeInv' /\ FilesInv'
  BY <1>1, <1>2, ResultUnchanged
<1>4. ProgressInv'
  <2>1. \A s \in Sources : s < source' => samples_left[s] = 0
    <3>1. \A s \in Sources : s < source + 1 => s < source \/ s = source
      BY <1>2 DEF Sources
    <3> QED BY <1>1, <3>1 DEF IInv, ProgressInv
  <2>2. SamplesLeft' = SamplesLeft
    BY <1>1 DEF SamplesLeft
  <2> QED BY <1>1, <2>1, <2>2 DEF IInv, ProgressInv
<1> QED BY <1>3, <1>4 DEF IInv

LEMMA AbandonStep ==
  ASSUME IInv, Abandon
  PROVE  IInv'
PROOF
<1>1. /\ pc = "samples" /\ pc' = "canceled"
      /\ UNCHANGED <<source, samples_left, result, previous, progress, seen>>
  BY DEF Abandon
<1>2. source' \in Sources
  BY <1>1 DEF IInv, TypeOK
<1>3. /\ TypeOK' /\ VectorsInv' /\ StackInv' /\ CountsInv' /\ TreeInv' /\ FilesInv'
  BY <1>1, <1>2, ResultUnchanged
<1>4. ProgressInv'
  <2>1. SamplesLeft' = SamplesLeft
    BY <1>1 DEF SamplesLeft
  <2> QED BY <1>1, <2>1 DEF IInv, ProgressInv
<1> QED BY <1>3, <1>4 DEF IInv

LEMMA FinishStep ==
  ASSUME IInv, Finish
  PROVE  IInv'
PROOF
<1>1. /\ pc = "samples" /\ pc' = "done" /\ samples_left[source] = 0 /\ source = NumberOfSources
      /\ progress' = Finished(progress)
      /\ UNCHANGED <<source, samples_left, result, previous, seen>>
  BY DEF Finish
<1>2. source' \in Sources
  BY <1>1 DEF IInv, TypeOK
<1>3. /\ TypeOK' /\ VectorsInv' /\ StackInv' /\ CountsInv' /\ TreeInv' /\ FilesInv'
  BY <1>1, <1>2, ResultUnchanged
<1>4. progress \in Reporters /\ OnTime(progress) /\ progress.current_work = progress.total_work
  BY <1>1, NothingLeft DEF IInv, ProgressInv
<1>5. PICK r \in Reporters : r = progress
  BY <1>4
<1>6. /\ Finished(r) \in Reporters /\ OnTime(Finished(r))
      /\ Finished(r).current_work = r.current_work /\ Finished(r).total_work = r.total_work
      /\ Finished(r).finished
  <2>1. ~(r.current_work < r.total_work)
    BY <1>4, <1>5 DEF Reporters
  <2>2. Finished(r) = [r EXCEPT !.reports = r.reports, !.finished = TRUE]
    BY <2>1 DEF Finished
  <2>3. PICK q : q = [r EXCEPT !.reports = r.reports, !.finished = TRUE]
    OBVIOUS
  <2>4. /\ q \in Reporters /\ q.current_work = r.current_work /\ q.total_work = r.total_work
        /\ q.finished /\ q.reports = r.reports /\ q.next_report_work = r.next_report_work
    BY <2>3 DEF Reporters
  <2>5. OnTime(q)
    BY <1>4, <1>5, <2>4 DEF OnTime
  <2> QED BY <2>2, <2>3, <2>4, <2>5
<1>7. ProgressInv'
  <2>1. SamplesLeft' = SamplesLeft
    BY <1>1 DEF SamplesLeft
  <2>2. progress' = Finished(r)
    BY <1>1, <1>5
  <2>3. /\ \A s \in Sources : s < source => samples_left[s] = 0
        /\ progress.current_work = Len(seen)
        /\ Len(seen) + SamplesLeft = progress.total_work
    BY DEF IInv, ProgressInv
  <2> QED BY <1>1, <1>4, <1>5, <1>6, <2>1, <2>2, <2>3 DEF ProgressInv
<1> QED BY <1>3, <1>7 DEF IInv

\* The end of a stack: what its innermost frame is counted for is counted as self.
LEMMA EndOfStack ==
  ASSUME TypeOK, VectorsInv, StackInv, EndStack
  PROVE  LET n  == Len(seen)
             fs == Current.frames
             p0 == <<n, Len(fs)>>
         IN  /\ n \in DOMAIN seen /\ n \in Stacks(source) /\ n \notin Complete
             /\ Complete' = Complete \cup {n} /\ DOMAIN seen = Complete \cup {n}
             /\ fs \in Seq(Frames) /\ seen[n].frames = fs /\ seen[n].source = source
             /\ previous.function = 0 <=> fs = <<>>
             /\ fs # <<>> => /\ p0 \in Places(source) /\ counted(previous) = counted(Ids(FrameAt(p0)))
             /\ \A s : \A p \in Places(s) :
                  /\ Innermost(p)' <=> Innermost(p) \/ p = p0
                  /\ p = p0 => fs # <<>> /\ s = source /\ ~Innermost(p)
PROOF
<1>1. pc = "stack" /\ pc' = "samples" /\ seen' = seen /\ seen \in Seq(Samples)
  BY DEF EndStack, TypeOK
<1>2. PICK n : n = Len(seen)
  OBVIOUS
<1>3. /\ seen # <<>> /\ seen[n].kind = "stack" /\ seen[n].source = source
      /\ IF seen[n].frames = <<>> THEN previous = NoPrevious
         ELSE LET ids == Ids(Last(seen[n].frames))
              IN  previous = [module |-> ids.module, function |-> ids.function,
                              node |-> previous.node, file |-> ids.file, line |-> ids.line]
  BY <1>1, <1>2 DEF StackInv, Current
<1>4. n \in DOMAIN seen /\ n \in Nat /\ DOMAIN seen = 1 .. n
  BY <1>1, <1>2, <1>3
<1>5. PICK fs \in Seq(Frames) : fs = seen[n].frames
  BY <1>1, <1>4, SamplesTyped
<1>6. PICK p0 : p0 = <<n, Len(fs)>>
  OBVIOUS
<1>7. n \in Stacks(source)
  BY <1>3, <1>4 DEF Stacks
<1>8. n \notin Complete /\ Complete' = DOMAIN seen /\ DOMAIN seen = Complete \cup {n}
  BY <1>1, <1>2, <1>4 DEF Complete
<1>9. ASSUME fs # <<>>
      PROVE  p0 \in Places(source) /\ counted(previous) = counted(Ids(FrameAt(p0)))
             /\ previous.function # 0
  <2>1. Len(fs) \in DOMAIN fs /\ Last(fs) = fs[Len(fs)]
    BY <1>9 DEF Last
  <2>2. p0 \in Places(source)
    BY <1>3, <1>4, <1>5, <1>6, <2>1, PlaceIs DEF PlacesAre
  <2>3. FrameAt(p0) = Last(fs)
    BY <1>5, <1>6, <2>1 DEF FrameAt
  <2>4. PICK ids : ids = Ids(Last(fs))
    OBVIOUS
  <2>5. /\ previous.module = ids.module /\ previous.function = ids.function
        /\ previous.file = ids.file /\ previous.line = ids.line
    BY <1>3, <1>5, <1>9, <2>4
  <2>6. Ids(FrameAt(p0)) = ids
    BY <2>3, <2>4
  <2>7. counted(previous) = counted(ids)
    BY <2>5 DEF counted
  <2>8. ids.function \in DOMAIN functions
    <3>1. p0 \in AllPlaces
      <4>1. source \in Sources
        BY DEF TypeOK
      <4> QED BY <2>2, <4>1 DEF AllPlaces
    <3>2. HasIds(FrameAt(p0)) /\ VectorsDistinct /\ VectorsTyped
      BY <3>1 DEF VectorsInv, TypeOK
    <3>3. PICK fr \in Frames : fr = FrameAt(p0)
      BY <1>1, <2>2, PlaceFacts
    <3>4. Ids(fr).function \in DOMAIN functions
      BY <3>2, <3>3, IdsFacts DEF IdsAreRight
    <3> QED BY <2>6, <3>3, <3>4
  <2>9. DOMAIN functions = 1 .. Len(functions)
    BY DEF TypeOK, VectorsTyped
  <2>10. previous.function # 0
    BY <2>5, <2>8, <2>9
  <2> QED BY <2>2, <2>6, <2>7, <2>10
<1>10. previous.function = 0 <=> fs = <<>>
  <2>1. fs = <<>> => previous.function = 0
    BY <1>3, <1>5 DEF NoPrevious
  <2> QED BY <1>9, <2>1
<1>11. ASSUME NEW s, NEW p \in Places(s)
       PROVE  /\ Innermost(p)' <=> Innermost(p) \/ p = p0
              /\ p = p0 => fs # <<>> /\ s = source /\ ~Innermost(p)
  <2>1. /\ p = <<p[1], p[2]>> /\ p[1] \in DOMAIN seen /\ seen[p[1]].source = s
        /\ p[2] \in DOMAIN seen[p[1]].frames
    BY <1>1, PlaceFacts
  <2>2. Innermost(p)' <=> p[2] = Len(seen[p[1]].frames)
    BY <1>1, <1>8, <2>1 DEF Innermost
  <2>3. Innermost(p) <=> p[1] # n /\ p[2] = Len(seen[p[1]].frames)
    BY <1>8, <2>1 DEF Innermost
  <2>4. p = p0 <=> p[1] = n /\ p[2] = Len(fs)
    BY <1>6, <2>1
  <2>5. p = p0 => fs # <<>> /\ s = source
    BY <1>3, <1>5, <2>1, <2>4
  <2> QED BY <1>5, <2>2, <2>3, <2>4, <2>5
<1>12. fs = Current.frames
  BY <1>2, <1>5 DEF Current
<1> QED BY <1>2, <1>3, <1>4, <1>5, <1>6, <1>7, <1>8, <1>9, <1>10, <1>11, <1>12

LEMMA CountedPairs ==
  ASSUME NEW ids
  PROVE  /\ \A k \in counted(ids) : k = <<k[1], k[2]>> /\ k[1] \in FrameKinds
         /\ <<"function", 0>> \in counted(ids) <=> ids.function = 0
PROOF
<1>1. \A k \in counted(ids) : k = <<k[1], k[2]>> /\ k[1] \in FrameKinds
  <2>1. ASSUME NEW k \in counted(ids) PROVE k = <<k[1], k[2]>> /\ k[1] \in FrameKinds
    <3>1. PICK kind, id : kind \in FrameKinds /\ k = <<kind, id>>
      BY DEF counted, FrameKinds
    <3> QED BY <3>1
  <2> QED BY <2>1
<1>2. <<"function", 0>> \in counted(ids) <=> ids.function = 0
  BY DEF counted
<1> QED BY <1>1, <1>2

LEMMA EndStackStep ==
  ASSUME IInv, EndStack
  PROVE  IInv'
PROOF
<1>0. TypeOK /\ VectorsInv /\ StackInv /\ CountsInv /\ TreeInv /\ FilesInv /\ ProgressInv
  BY DEF IInv
<1>1. /\ pc = "stack" /\ pc' = "samples"
      /\ self' = Incremented(self, {<<"node", previous.node>>} \cup
               (IF previous.function = 0 THEN {<<"function", 0>>} ELSE counted(previous)))
      /\ UNCHANGED <<source, samples_left, modules, functions, file_of, files, nodes,
                     children, total, previous, progress, seen>>
  BY DEF EndStack
<1>2. PICK n : n = Len(seen)
  OBVIOUS
<1>3. PICK fs : fs = Current.frames
  OBVIOUS
<1>4. PICK p0 : p0 = <<n, Len(fs)>>
  OBVIOUS
<1>5. /\ n \in DOMAIN seen /\ n \in Stacks(source) /\ n \notin Complete
      /\ Complete' = Complete \cup {n} /\ DOMAIN seen = Complete \cup {n}
      /\ fs \in Seq(Frames) /\ seen[n].frames = fs /\ seen[n].source = source
      /\ previous.function = 0 <=> fs = <<>>
      /\ fs # <<>> => /\ p0 \in Places(source) /\ counted(previous) = counted(Ids(FrameAt(p0)))
      /\ \A s : \A p \in Places(s) :
           /\ Innermost(p)' <=> Innermost(p) \/ p = p0
           /\ p = p0 => fs # <<>> /\ s = source /\ ~Innermost(p)
  BY <1>0, <1>2, <1>3, <1>4, EndOfStack
<1>6. /\ PlacesGrow({}) /\ seen \in Seq(Samples)
      /\ \A s : Places(s)' = Places(s) /\ Stacks(s)' = Stacks(s)
      /\ \A i : Names(i)' = Names(i)
  BY <1>0, <1>1, SeenUnchanged DEF TypeOK
<1>7. Quiet
  BY <1>1, <1>6 DEF Quiet
<1>8. /\ VectorsTyped' /\ VectorsInv' /\ FilesInv'
      /\ nodes' \in Seq(DOMAIN functions') /\ children' \in [0 .. Len(nodes') -> Seq(DOMAIN nodes')]
      /\ KnownFramesStay
      /\ \A m \in DOMAIN children : PathTo'[m] = PathTo[m]
      /\ Paths' = Paths => TreeInv'
  BY <1>0, <1>1, <1>6, <1>7, QuietStep
<1>9. PICK K : K = {<<"node", previous.node>>} \cup
               (IF fs = <<>> THEN {<<"function", 0>>} ELSE counted(previous))
  OBVIOUS
<1>10. /\ \A k \in K : k = <<k[1], k[2]>>
       /\ \A m : <<"node", m>> \in K <=> m = previous.node
       /\ <<"function", 0>> \in K <=> fs = <<>>
       /\ \A kind \in FrameKinds : \A id : <<kind, id>> # <<"function", 0>> =>
            (<<kind, id>> \in K <=> fs # <<>> /\ <<kind, id>> \in counted(previous))
  <2>1. /\ \A k \in counted(previous) : k = <<k[1], k[2]>> /\ k[1] \in FrameKinds
        /\ <<"function", 0>> \in counted(previous) <=> previous.function = 0
    <3>1. PICK ids : ids = previous
      OBVIOUS
    <3> QED BY <3>1, CountedPairs
  <2>2. \A k \in K : k = <<k[1], k[2]>>
    BY <1>9, <2>1
  <2>3. \A m : <<"node", m>> \notin counted(previous)
    <3>1. \A m : <<"node", m>>[1] = "node" /\ "node" \notin FrameKinds
      BY DEF FrameKinds
    <3> QED BY <2>1, <3>1
  <2>4. \A m : <<"node", m>> \in K <=> m = previous.node
    BY <1>9, <2>3
  <2>5. <<"function", 0>> \in K <=> fs = <<>>
    BY <1>5, <1>9, <2>1
  <2>6. \A kind \in FrameKinds : \A id : <<kind, id>> # <<"function", 0>> =>
          (<<kind, id>> \in K <=> fs # <<>> /\ <<kind, id>> \in counted(previous))
    BY <1>9 DEF FrameKinds
  <2> QED BY <2>2, <2>4, <2>5, <2>6
<1>11. /\ self' \in [DOMAIN self' -> Nat]
       /\ \A kind, id, s : Self(kind, id, s)' =
              Self(kind, id, s) + (IF s = source /\ <<kind, id>> \in K THEN 1 ELSE 0)
  <2>1. self' = Incremented(self, K)
    BY <1>1, <1>5, <1>9
  <2> QED BY <1>0, <1>10, <2>1, SelfStep
<1>12. \A kind, id, s : Self(kind, id, s) \in Nat /\ Total(kind, id, s)' = Total(kind, id, s)
  BY <1>0, <1>1, CountsAreNat DEF Total, CountOf
<1>13. TypeOK'
  BY <1>0, <1>1, <1>8, <1>11 DEF TypeOK
<1>14. StackInv'
  BY <1>1 DEF StackInv
<1>15. Paths' = Paths
  BY <1>1 DEF Paths, Stacks, Names, Prefixes
<1>16. ProgressInv'
  <2>1. SamplesLeft' = SamplesLeft
    BY <1>1 DEF SamplesLeft
  <2> QED BY <1>0, <1>1, <2>1 DEF ProgressInv
<1>17. CallCounts' /\ \A kind, id, s : CountedFor(kind, id, s)' = CountedFor(kind, id, s)
  <2>1. SameTotals(FrameKinds \cup {"callee", "caller"})
    BY <1>12 DEF SameTotals
  <2> QED BY <1>0, <1>6, <1>8, <2>1, NoFrameCounted, NoPlaceMore
<1>18. FrameCounts'
  <2> DEFINE in(kind, id, s) == {p \in CountedFor(kind, id, s) : Innermost(p)}
  <2>1. ASSUME NEW s \in Sources, NEW kind \in FrameKinds, NEW id, <<kind, id>> # <<"function", 0>>
        PROVE  Self(kind, id, s)' = Cardinality(in(kind, id, s)')
    <3>1. CountedFor(kind, id, s) \subseteq Places(s)
      BY DEF CountedFor
    <3>2. in(kind, id, s)' = {p \in CountedFor(kind, id, s) : Innermost(p) \/ p = p0}
      BY <1>5, <1>17, <3>1
    <3>3. p0 \in CountedFor(kind, id, s) <=> s = source /\ <<kind, id>> \in K
      <4>1. p0 \in CountedFor(kind, id, s) =>
              p0 \in Places(s) /\ <<kind, id>> \in counted(Ids(FrameAt(p0)))
        BY DEF CountedFor
      <4>2. p0 \in Places(s) /\ <<kind, id>> \in counted(Ids(FrameAt(p0))) =>
              p0 \in CountedFor(kind, id, s)
        BY DEF CountedFor
      <4>3. p0 \in Places(s) <=> s = source /\ fs # <<>>
        BY <1>5
      <4> QED BY <1>5, <1>10, <2>1, <4>1, <4>2, <4>3
    <3>4. p0 \notin in(kind, id, s) /\ IsFiniteSet(in(kind, id, s))
      BY <1>5, <1>6, <3>1, CountedAreFinite
    <3>5. Self(kind, id, s) = Cardinality(in(kind, id, s))
      BY <1>0, <2>1 DEF CountsInv, FrameCounts
    <3>6. Self(kind, id, s)' = Self(kind, id, s) + (IF s = source /\ <<kind, id>> \in K THEN 1 ELSE 0)
      BY <1>11
    <3>7. CASE p0 \in CountedFor(kind, id, s)
      <4>1. in(kind, id, s)' = in(kind, id, s) \cup {p0}
        BY <3>2, <3>7
      <4> HIDE DEF in
      <4>2. Cardinality(in(kind, id, s) \cup {p0}) = Cardinality(in(kind, id, s)) + 1
        BY <3>4, OneMore
      <4> QED BY <3>3, <3>5, <3>6, <3>7, <4>1, <4>2
    <3>8. CASE p0 \notin CountedFor(kind, id, s)
      <4>1. in(kind, id, s)' = in(kind, id, s)
        BY <3>2, <3>8
      <4>2. Self(kind, id, s) \in Nat
        BY <1>12
      <4> HIDE DEF in
      <4> QED BY <3>3, <3>5, <3>6, <3>8, <4>1, <4>2
    <3> QED BY <3>7, <3>8
  <2>2. ASSUME NEW s \in Sources, NEW kind \in FrameKinds, NEW id, <<kind, id>> # <<"function", 0>>
        PROVE  Total(kind, id, s)' = Cardinality(CountedFor(kind, id, s)')
    <3>1. Total(kind, id, s) = Cardinality(CountedFor(kind, id, s))
      BY <1>0, <2>2 DEF CountsInv, FrameCounts
    <3> QED BY <1>12, <1>17, <3>1
  <2> QED BY <2>1, <2>2 DEF FrameCounts
<1>19. \A s : n \in Stacks(s) <=> s = source
  BY <1>5 DEF Stacks
<1>20. \A s : (Stacks(s) \cap Complete)' = (Stacks(s) \cap Complete) \cup (IF s = source THEN {n} ELSE {})
  BY <1>5, <1>6, <1>19
<1>21. RootCounts'
  <2> DEFINE bare(s) == {i \in Stacks(s) \cap Complete : seen[i].frames = <<>>}
  <2>1. ASSUME NEW s \in Sources
        PROVE  Self("function", 0, s)' = Cardinality(bare(s)')
    <3>1. bare(s)' = bare(s) \cup (IF s = source /\ fs = <<>> THEN {n} ELSE {})
      BY <1>1, <1>5, <1>20
    <3>2. n \notin bare(s) /\ IsFiniteSet(bare(s))
      <4>1. bare(s) \in SUBSET (Stacks(s) \cap Complete)
        OBVIOUS
      <4>2. IsFiniteSet(Stacks(s) \cap Complete)
        BY <1>6, PlacesAreFinite
      <4> HIDE DEF bare
      <4> QED BY <1>5, <4>1, <4>2, FS_Subset
    <3>3. Self("function", 0, s) = Cardinality(bare(s))
      BY <1>0 DEF CountsInv, RootCounts
    <3>4. Self("function", 0, s)' = Self("function", 0, s) + (IF s = source /\ fs = <<>> THEN 1 ELSE 0)
      BY <1>10, <1>11
    <3> HIDE DEF bare
    <3>5. CASE s = source /\ fs = <<>>
      <4>1. Cardinality(bare(s) \cup {n}) = Cardinality(bare(s)) + 1
        BY <3>2, OneMore
      <4> QED BY <3>1, <3>3, <3>4, <3>5, <4>1
    <3>6. CASE ~(s = source /\ fs = <<>>)
      <4>1. bare(s)' = bare(s)
        BY <3>1, <3>6
      <4>2. Self("function", 0, s) \in Nat
        BY <1>12
      <4> QED BY <3>3, <3>4, <3>6, <4>1, <4>2
    <3> QED BY <3>5, <3>6
  <2>2. \A s \in Sources : Total("function", 0, s)' = Cardinality(Stacks(s)')
    BY <1>0, <1>6, <1>12 DEF CountsInv, RootCounts
  <2> QED BY <2>1, <2>2 DEF RootCounts
<1>22. NodeCounts'
  <2>1. previous.node \in DOMAIN children /\ PathTo[previous.node] = Names(n)
        /\ \A m \in DOMAIN children : PathTo[m] = Names(n) <=> m = previous.node
    BY <1>0, <1>1, <1>2 DEF StackInv, TreeInv
  <2>2. ASSUME NEW s \in Sources, NEW m \in Nat
        PROVE  Self("node", m, s)' = Cardinality(StacksAt(m, s)')
    <3>1. StacksAt(m, s)' = StacksAt(m, s) \cup (IF s = source /\ m = previous.node THEN {n} ELSE {})
      <4>1. StacksAt(m, s)' =
              {i \in (Stacks(s) \cap Complete)' : m \in DOMAIN children' /\ PathTo'[m] = Names(i)'}
        BY DEF StacksAt
      <4>2. \A i : (m \in DOMAIN children' /\ PathTo'[m] = Names(i)') <=>
                   (m \in DOMAIN children /\ PathTo[m] = Names(i))
        BY <1>1, <1>6, <1>8
      <4> QED BY <1>20, <2>1, <4>1, <4>2 DEF StacksAt
    <3>2. n \notin StacksAt(m, s) /\ IsFiniteSet(StacksAt(m, s))
      <4>1. StacksAt(m, s) \in SUBSET (Stacks(s) \cap Complete)
        BY DEF StacksAt
      <4>2. IsFiniteSet(Stacks(s) \cap Complete)
        BY <1>6, PlacesAreFinite
      <4> QED BY <1>5, <4>1, <4>2, FS_Subset
    <3>3. Self("node", m, s) = Cardinality(StacksAt(m, s))
      BY <1>0 DEF CountsInv, NodeCounts
    <3>4. Self("node", m, s)' = Self("node", m, s) + (IF s = source /\ m = previous.node THEN 1 ELSE 0)
      BY <1>10, <1>11
    <3>5. CASE s = source /\ m = previous.node
      <4>1. Cardinality(StacksAt(m, s) \cup {n}) = Cardinality(StacksAt(m, s)) + 1
        BY <3>2, OneMore
      <4> QED BY <3>1, <3>3, <3>4, <3>5, <4>1
    <3>6. CASE ~(s = source /\ m = previous.node)
      <4>1. StacksAt(m, s)' = StacksAt(m, s)
        BY <3>1, <3>6
      <4>2. Self("node", m, s) \in Nat
        BY <1>12
      <4> QED BY <3>3, <3>4, <3>6, <4>1, <4>2
    <3> QED BY <3>5, <3>6
  <2>3. \A m, s : StacksThrough(m, s)' = StacksThrough(m, s)
    <3>1. ASSUME NEW m, NEW s PROVE StacksThrough(m, s)' = StacksThrough(m, s)
      <4>1. StacksThrough(m, s)' =
              {i \in Stacks(s)' : m \in DOMAIN children' /\ IsPrefix(PathTo'[m], Names(i)')}
        BY DEF StacksThrough, IsPrefix
      <4>2. \A i : (m \in DOMAIN children' /\ IsPrefix(PathTo'[m], Names(i)')) <=>
                   (m \in DOMAIN children /\ IsPrefix(PathTo[m], Names(i)))
        BY <1>1, <1>6, <1>8
      <4> QED BY <1>6, <4>1, <4>2 DEF StacksThrough
    <3> QED BY <3>1
  <2> QED BY <1>0, <1>12, <2>2, <2>3 DEF NodeCounts, CountsInv
<1> QED BY <1>8, <1>13, <1>14, <1>15, <1>16, <1>17, <1>18, <1>21, <1>22 DEF IInv, CountsInv

-----------------------------------------------------------------------------
(* Steps that see a frame *)

NewestPlace(p0) == \A p \in AllPlaces \cup {p0} : NotAfter(p, p0)

LEMMA NewFrame ==
  ASSUME TypeOK, VectorsInv, FilesInv, seen' \in Seq(Samples), NEW fr \in Frames, NEW p0,
         CreateFor(fr), SetFileOf(IdsOf(fr)), PlacesGrow({p0}), FrameAt(p0)' = fr, NewestPlace(p0),
         NEW ids, ids = IdsOf(fr)
  PROVE  /\ VectorsTyped' /\ VectorsInv' /\ FilesInv'
         /\ KnownFramesStay
         /\ ids = Ids(FrameAt(p0))' /\ ids.function \in DOMAIN functions'
         /\ FunctionName(ids.function)' = NameOf(fr)
         /\ \A f \in DOMAIN functions :
              f \in DOMAIN functions' /\ FunctionName(f)' = FunctionName(f)
PROOF
<1>1. VectorsTyped /\ VectorsDistinct /\ seen \in Seq(Samples)
  BY DEF TypeOK, VectorsInv
<1>2. /\ VectorsTyped' /\ VectorsDistinct'
      /\ IdsOf(fr) = Ids(fr)' /\ HasIds(fr)'
      /\ \A gr \in Frames : HasIds(gr) => HasIds(gr)' /\ Ids(gr)' = Ids(gr)
      /\ \A f \in DOMAIN functions :
           f \in DOMAIN functions' /\ FunctionName(f)' = FunctionName(f)
      /\ \A x \in DOMAIN files : x \in DOMAIN files' /\ files'[x] = files[x]
  BY <1>1, VectorsGrow
<1>3. KnownFramesStay
  BY <1>2 DEF KnownFramesStay
<1>4. ids = IdsOf(fr)
  OBVIOUS
<1>5. Ids(FrameAt(p0))' = Ids(fr)' /\ HasIds(FrameAt(p0))' = HasIds(fr)'
  BY DEF Ids, HasIds
<1>6. VectorsInv'
  <2>1. \A p \in {p0} : HasIds(FrameAt(p))'
    BY <1>2, <1>5
  <2> QED BY <1>1, <1>2, <1>3, <2>1, HasIdsStay
<1>7. /\ ids.function \in DOMAIN functions' /\ FunctionName(ids.function)' = NameOf(fr)
      /\ IF fr.file = NoFile THEN ids.file = 0
         ELSE ids.file \in DOMAIN files' /\ files'[ids.file] = fr.file
  <2>1. (VectorsTyped /\ VectorsDistinct => IdsAreRight)'
    BY IdsFacts, PTL
  <2>2. /\ Ids(fr)'.function \in DOMAIN functions' /\ FunctionName(Ids(fr).function)' = NameOf(fr)
        /\ IF fr.file = NoFile THEN Ids(fr)'.file = 0
           ELSE Ids(fr)'.file \in DOMAIN files' /\ files'[Ids(fr)'.file] = fr.file
    BY <1>2, <2>1 DEF IdsAreRight
  <2>3. ids = Ids(fr)'
    BY <1>2, <1>4
  <2>4. FunctionName(Ids(fr).function)' = FunctionName(ids.function)'
    BY <2>3 DEF FunctionName
  <2> QED BY <2>2, <2>3, <2>4
<1>8. FilesInv'
  <2>1. AllPlaces' = AllPlaces \cup {p0}
    <3>1. source \in Sources
      BY DEF TypeOK
    <3>2. \A s : Places(s)' = Places(s) \cup (IF s = source THEN {p0} ELSE {})
      BY DEF PlacesGrow
    <3> QED BY <3>1, <3>2 DEF AllPlaces
  <2>2. \A p \in AllPlaces : FunctionAt(p)' = FunctionAt(p) /\ FrameAt(p)' = FrameAt(p)
    <3>1. \A s : \A p \in Places(s) : Ids(FrameAt(p))' = Ids(FrameAt(p)) /\ FrameAt(p)' = FrameAt(p)
      BY <1>1, <1>3, KnownStay DEF PlacesGrow
    <3> QED BY <3>1 DEF AllPlaces, FunctionAt
  <2>3. FunctionAt(p0)' = ids.function
    BY <1>2, <1>4, <1>5 DEF FunctionAt
  <2>4. p0 \notin AllPlaces
    BY DEF AllPlaces, PlacesGrow
  <2>5. \A f : WithFile(f)' = WithFile(f) \cup
                 (IF f = ids.function /\ fr.file # NoFile THEN {p0} ELSE {})
    BY <2>1, <2>2, <2>3, <2>4 DEF WithFile
  <2>6. \A f : WithFile(f) \subseteq AllPlaces
    BY DEF WithFile
  <2>7. DOMAIN file_of = DOMAIN functions
    BY <1>1 DEF VectorsTyped
  <2>8. ASSUME NEW f, WithFile(f) # {} PROVE f \in DOMAIN functions
    <3>1. PICK p \in AllPlaces : FunctionAt(p) = f
      BY <2>8 DEF WithFile
    <3>2. PICK s \in Sources : p \in Places(s)
      BY DEF AllPlaces
    <3>3. PICK gr \in Frames : gr = FrameAt(p)
      BY <1>1, <3>2, PlaceFacts
    <3>4. HasIds(gr)
      BY <3>3 DEF VectorsInv
    <3>5. Ids(gr).function \in DOMAIN functions
      BY <1>1, <3>4, IdsFacts DEF IdsAreRight
    <3> QED BY <3>1, <3>3, <3>5 DEF FunctionAt
  <2>9. \A f \in DOMAIN functions' : file_of'[f] =
          IF f \in DOMAIN file_of /\ file_of[f] # 0 THEN file_of[f]
          ELSE IF f = ids.function THEN ids.file ELSE 0
    BY <1>4 DEF SetFileOf
  <2>10. ASSUME NEW f \in DOMAIN functions'
         PROVE  IF WithFile(f)' = {} THEN file_of'[f] = 0
                ELSE \E first \in WithFile(f)' :
                      /\ \A p \in WithFile(f)' : NotAfter(first, p)
                      /\ file_of'[f] \in DOMAIN files' /\ files'[file_of'[f]] = FrameAt(first)'.file
    <3>1. CASE WithFile(f) # {}
      <4>1. f \in DOMAIN functions
        BY <2>8, <3>1
      <4>2. PICK first \in WithFile(f) :
              /\ \A p \in WithFile(f) : NotAfter(first, p)
              /\ file_of[f] \in DOMAIN files /\ files[file_of[f]] = FrameAt(first).file
        BY <3>1, <4>1 DEF FilesInv
      <4>3. file_of[f] # 0
        <5>1. DOMAIN files = 1 .. Len(files)
          BY <1>1 DEF VectorsTyped
        <5> QED BY <4>2, <5>1
      <4>4. file_of'[f] = file_of[f]
        BY <2>7, <2>9, <4>1, <4>3
      <4>5. first \in WithFile(f)' /\ first \in AllPlaces
        BY <2>5, <2>6
      <4>6. \A p \in WithFile(f)' : NotAfter(first, p)
        <5>1. NotAfter(first, p0)
          BY <4>5 DEF NewestPlace
        <5>2. \A p \in WithFile(f)' : p \in WithFile(f) \/ p = p0
          BY <2>5
        <5> QED BY <4>2, <5>1, <5>2
      <4>7. file_of'[f] \in DOMAIN files' /\ files'[file_of'[f]] = FrameAt(first)'.file
        BY <1>2, <2>2, <4>2, <4>4, <4>5
      <4> QED BY <4>5, <4>6, <4>7
    <3>2. CASE WithFile(f) = {}
      <4>1. file_of'[f] = IF f = ids.function THEN ids.file ELSE 0
        <5>1. f \in DOMAIN file_of => file_of[f] = 0
          BY <2>7, <3>2 DEF FilesInv
        <5> QED BY <2>9, <5>1
      <4>2. CASE f = ids.function /\ fr.file # NoFile
        <5>1. WithFile(f)' = {p0}
          BY <2>5, <3>2, <4>2
        <5>2. file_of'[f] \in DOMAIN files' /\ files'[file_of'[f]] = FrameAt(p0)'.file
          BY <1>7, <4>1, <4>2
        <5>3. NotAfter(p0, p0)
          BY DEF NewestPlace
        <5> QED BY <5>1, <5>2, <5>3
      <4>3. CASE ~(f = ids.function /\ fr.file # NoFile)
        <5>1. WithFile(f)' = {}
          BY <2>5, <3>2, <4>3
        <5>2. file_of'[f] = 0
          BY <1>7, <4>1, <4>3
        <5> QED BY <5>1, <5>2
      <4> QED BY <4>2, <4>3
    <3> QED BY <3>1, <3>2
  <2> QED BY <2>10 DEF FilesInv, NotAfter
<1>9. ids = Ids(FrameAt(p0))'
  BY <1>2, <1>4, <1>5
<1> QED BY <1>2, <1>3, <1>4, <1>6, <1>7, <1>8, <1>9

LEMMA FramesCounted ==
  ASSUME TypeOK, VectorsInv, CountsInv, KnownFramesStay, NEW p0, PlacesGrow({p0}),
         NEW ids, ids = Ids(FrameAt(p0))', NEW K,
         \A kind, id, s : Total(kind, id, s)' =
           Total(kind, id, s) + (IF s = source /\ <<kind, id>> \in K THEN 1 ELSE 0),
         \A kind \in FrameKinds : \A id : <<kind, id>> # <<"function", 0>> =>
           (<<kind, id>> \in K <=> <<kind, id>> \in counted(ids)),
         NEW s \in Sources, NEW kind \in FrameKinds, NEW id, <<kind, id>> # <<"function", 0>>
  PROVE  /\ CountedFor(kind, id, s)' = CountedFor(kind, id, s) \cup
              (IF s = source /\ <<kind, id>> \in counted(ids) THEN {p0} ELSE {})
         /\ Total(kind, id, s)' = Cardinality(CountedFor(kind, id, s)')
PROOF
<1>0. seen \in Seq(Samples)
  BY DEF TypeOK
<1>1. CountedFor(kind, id, s)' = CountedFor(kind, id, s) \cup
              (IF s = source /\ <<kind, id>> \in counted(ids) THEN {p0} ELSE {})
  <2>1. counted(Ids(FrameAt(p0)))' = counted(ids)
    BY DEF counted
  <2> QED BY <1>0, <2>1, OnePlaceMore
<1>2. p0 \notin CountedFor(kind, id, s) /\ IsFiniteSet(CountedFor(kind, id, s))
  BY <1>0, OnePlaceMore, CountedAreFinite
<1>3. Total(kind, id, s) = Cardinality(CountedFor(kind, id, s)) /\ Total(kind, id, s) \in Nat
  BY CountsAreNat DEF CountsInv, FrameCounts
<1>4. Total(kind, id, s)' = Total(kind, id, s) + (IF s = source /\ <<kind, id>> \in counted(ids) THEN 1 ELSE 0)
  OBVIOUS
<1>5. ASSUME s = source /\ <<kind, id>> \in counted(ids)
      PROVE  Total(kind, id, s)' = Cardinality(CountedFor(kind, id, s)')
  <2>1. Cardinality(CountedFor(kind, id, s) \cup {p0}) = Cardinality(CountedFor(kind, id, s)) + 1
    BY <1>2, OneMore
  <2> QED BY <1>1, <1>3, <1>4, <1>5, <2>1
<1>6. ASSUME ~(s = source /\ <<kind, id>> \in counted(ids))
      PROVE  Total(kind, id, s)' = Cardinality(CountedFor(kind, id, s)')
  <2>1. CountedFor(kind, id, s)' = CountedFor(kind, id, s)
    BY <1>1, <1>6
  <2>2. Total(kind, id, s)' = Total(kind, id, s)
    BY <1>3, <1>4, <1>6
  <2> QED BY <1>3, <2>1, <2>2
<1> QED BY <1>1, <1>5, <1>6

LEMMA LoneFrame ==
  ASSUME TypeOK, NEW fr \in Frames, TakeSample("frame", <<fr>>),
         NEW n, n = Len(seen) + 1, NEW p0, p0 = <<n, 1>>
  PROVE  /\ pc = "samples" /\ source' = source /\ samples_left' \in [Sources -> Nat]
         /\ seen' \in Seq(Samples) /\ DOMAIN seen' = DOMAIN seen \cup {n}
         /\ n \notin DOMAIN seen
         /\ \A i \in DOMAIN seen : seen'[i] = seen[i] /\ Names(i)' = Names(i)
         /\ PlacesGrow({p0}) /\ FrameAt(p0)' = fr /\ NewestPlace(p0)
         /\ InnermostStay /\ (pc' # "stack" => Innermost(p0)')
         /\ \A s : Stacks(s)' = Stacks(s)
PROOF
<1>1. /\ pc = "samples" /\ source' = source /\ seen \in Seq(Samples) /\ source \in Sources
      /\ samples_left \in [Sources -> Nat] /\ samples_left[source] > 0
      /\ samples_left' = [samples_left EXCEPT ![source] = @ - 1]
      /\ seen' = Append(seen, [kind |-> "frame", source |-> source, frames |-> <<fr>>])
  BY DEF TypeOK, TakeSample
<1>2. samples_left' \in [Sources -> Nat]
  BY <1>1
<1>3. PICK x : x = [kind |-> "frame", source |-> source, frames |-> <<fr>>]
  OBVIOUS
<1>4. x \in Samples /\ x.kind = "frame" /\ x.source = source /\ x.frames = <<fr>> /\ DOMAIN x.frames = {1}
  BY <1>1, <1>3 DEF Samples
<1>5. seen' = Append(seen, x)
  BY <1>1, <1>3
<1>6. /\ seen' \in Seq(Samples) /\ Len(seen') = Len(seen) + 1
      /\ DOMAIN seen' = DOMAIN seen \cup {Len(seen) + 1} /\ Len(seen) + 1 \notin DOMAIN seen
      /\ \A i \in DOMAIN seen : seen'[i] = seen[i]
      /\ seen'[Len(seen) + 1] = x
      /\ \A s : \A p : p \in Places(s)' <=>
              \/ p \in Places(s)
              \/ x.source = s /\ \E k \in DOMAIN x.frames : p = <<Len(seen) + 1, k>>
      /\ \A s : Stacks(s)' = Stacks(s) \cup
              (IF x.kind = "stack" /\ x.source = s THEN {Len(seen) + 1} ELSE {})
      /\ \A i \in DOMAIN seen : Names(i)' = Names(i)
      /\ \A i \in DOMAIN seen : \A k : FrameAt(<<i, k>>)' = FrameAt(<<i, k>>)
  BY <1>1, <1>4, <1>5, SampleAdded
<1>7. n \in Nat /\ DOMAIN seen = 1 .. n - 1
  BY <1>1
<1>8. ASSUME NEW s PROVE Places(s)' = Places(s) \cup (IF s = source THEN {p0} ELSE {})
  <2>1. PICK A, B : A = Places(s)' /\ B = Places(s)
    OBVIOUS
  <2>2. ASSUME NEW p PROVE p \in A <=> p \in B \/ (s = source /\ p = p0)
    <3>1. (\E k \in DOMAIN x.frames : p = <<Len(seen) + 1, k>>) <=> p = p0
      BY <1>4
    <3>2. p \in Places(s)' <=> \/ p \in Places(s)
                               \/ x.source = s /\ \E k \in DOMAIN x.frames : p = <<Len(seen) + 1, k>>
      BY <1>6, Zenon
    <3> QED BY <1>4, <2>1, <3>1, <3>2
  <2>3. A = B \cup (IF s = source THEN {p0} ELSE {})
    BY <2>2
  <2> QED BY <2>1, <2>3
<1>9. \A s : \A p \in Places(s) : p[1] \in DOMAIN seen /\ p = <<p[1], p[2]>>
  BY <1>1, PlaceFacts
<1>10. PlacesGrow({p0})
  <2>1. ASSUME NEW s, NEW p \in Places(s)
        PROVE  FrameAt(p)' = FrameAt(p) /\ (p[1] \in Stacks(s)' <=> p[1] \in Stacks(s))
    <3>1. PICK i, k : p = <<i, k>> /\ i \in DOMAIN seen
      BY <1>9
    <3>2. FrameAt(p)' = FrameAt(p)
      BY <1>6, <3>1
    <3> QED BY <1>6, <3>1, <3>2
  <2>2. \A s : Places(s) \cap {p0} = {}
    BY <1>6, <1>9
  <2> QED BY <1>8, <2>1, <2>2 DEF PlacesGrow
<1>11. InnermostStay
  <2>1. ASSUME NEW s, NEW p \in Places(s) PROVE Innermost(p)' <=> Innermost(p)
    <3>1. p[1] \in DOMAIN seen /\ p[1] \in DOMAIN seen' /\ p[1] < Len(seen')
      BY <1>1, <1>6, <1>9
    <3>2. p[1] \in Complete /\ p[1] \in Complete'
      BY <1>1, <3>1 DEF Complete
    <3>3. seen'[p[1]] = seen[p[1]]
      BY <1>6, <3>1
    <3> QED BY <3>2, <3>3 DEF Innermost
  <2> QED BY <2>1 DEF InnermostStay
<1>12. pc' # "stack" => Innermost(p0)'
  <2>1. p0[1] = n /\ p0[2] = 1 /\ Len(x.frames) = 1
    BY <1>4
  <2> QED BY <1>6, <2>1 DEF Innermost, Complete
<1>13. \A s : Stacks(s)' = Stacks(s)
  BY <1>4, <1>6
<1>14. FrameAt(p0)' = fr
  <2>1. p0[1] = n /\ p0[2] = 1 /\ x.frames[1] = fr
    BY <1>4
  <2> QED BY <1>6, <2>1 DEF FrameAt
<1>15. NewestPlace(p0)
  <2>1. \A p \in AllPlaces : p[1] \in 1 .. n - 1
    BY <1>7, <1>9 DEF AllPlaces
  <2>2. p0[1] = n /\ p0[2] = 1
    OBVIOUS
  <2> QED BY <1>7, <2>1, <2>2 DEF NewestPlace, NotAfter
<1> QED BY <1>1, <1>2, <1>6, <1>10, <1>11, <1>12, <1>13, <1>14, <1>15

LEMMA FrameOnlyStep ==
  ASSUME IInv, FrameOnly
  PROVE  IInv'
PROOF
<1>0. TypeOK /\ VectorsInv /\ StackInv /\ CountsInv /\ TreeInv /\ FilesInv /\ ProgressInv
  BY DEF IInv
<1>1. PICK fr \in Frames :
        /\ TakeSample("frame", <<fr>>) /\ CreateFor(fr) /\ SetFileOf(IdsOf(fr))
        /\ total' = Incremented(total, counted(IdsOf(fr)))
        /\ self' = Incremented(self, counted(IdsOf(fr)))
  BY DEF FrameOnly
<1>2. UNCHANGED <<pc, nodes, children, previous>>
  BY DEF FrameOnly
<1>3. PICK n, p0 : n = Len(seen) + 1 /\ p0 = <<n, 1>>
  OBVIOUS
<1>4. /\ pc = "samples" /\ source' = source /\ samples_left' \in [Sources -> Nat]
      /\ seen' \in Seq(Samples) /\ DOMAIN seen' = DOMAIN seen \cup {n}
      /\ n \notin DOMAIN seen
      /\ \A i \in DOMAIN seen : seen'[i] = seen[i] /\ Names(i)' = Names(i)
      /\ PlacesGrow({p0}) /\ FrameAt(p0)' = fr /\ NewestPlace(p0)
      /\ InnermostStay /\ (pc' # "stack" => Innermost(p0)')
      /\ \A s : Stacks(s)' = Stacks(s)
  BY <1>0, <1>1, <1>3, LoneFrame
<1>5. PICK ids : ids = IdsOf(fr)
  OBVIOUS
<1>6. /\ VectorsTyped' /\ VectorsInv' /\ FilesInv'
      /\ KnownFramesStay
      /\ ids = Ids(FrameAt(p0))' /\ ids.function \in DOMAIN functions'
      /\ \A f \in DOMAIN functions :
           f \in DOMAIN functions' /\ FunctionName(f)' = FunctionName(f)
  BY <1>0, <1>1, <1>4, <1>5, NewFrame
<1>7. PICK K : K = counted(ids)
  OBVIOUS
<1>8. /\ \A k \in K : k = <<k[1], k[2]>> /\ k[1] \in FrameKinds
      /\ <<"function", 0>> \notin K
  <2>1. ids.function # 0
    <3>1. DOMAIN functions' = 1 .. Len(functions')
      BY <1>6 DEF VectorsTyped
    <3> QED BY <1>6, <3>1
  <2> QED BY <1>7, <2>1, CountedPairs
<1>9. /\ total' \in [DOMAIN total' -> Nat]
      /\ \A kind, id, s : Total(kind, id, s)' =
              Total(kind, id, s) + (IF s = source /\ <<kind, id>> \in K THEN 1 ELSE 0)
  <2>1. total' = Incremented(total, K)
    BY <1>1, <1>5, <1>7
  <2> QED BY <1>0, <1>8, <2>1, TotalStep
<1>10. /\ self' \in [DOMAIN self' -> Nat]
       /\ \A kind, id, s : Self(kind, id, s)' =
              Self(kind, id, s) + (IF s = source /\ <<kind, id>> \in K THEN 1 ELSE 0)
  <2>1. self' = Incremented(self, K)
    BY <1>1, <1>5, <1>7
  <2> QED BY <1>0, <1>8, <2>1, SelfStep
<1>11. \A kind, id, s : Total(kind, id, s) \in Nat /\ Self(kind, id, s) \in Nat
  BY <1>0, CountsAreNat
<1>12. TypeOK'
  <2>1. nodes' \in Seq(DOMAIN functions')
    <3>1. PICK A, B : A = DOMAIN functions /\ B = DOMAIN functions'
      OBVIOUS
    <3>2. A \subseteq B /\ nodes \in Seq(A)
      BY <1>0, <1>6, <3>1 DEF TypeOK
    <3>3. nodes \in Seq(B)
      BY <3>2
    <3> QED BY <1>2, <3>1, <3>3
  <2>2. children' \in [0 .. Len(nodes') -> Seq(DOMAIN nodes')]
    BY <1>0, <1>2 DEF TypeOK
  <2> QED BY <1>0, <1>2, <1>4, <1>6, <1>9, <1>10, <2>1, <2>2 DEF TypeOK
<1>13. StackInv'
  BY <1>2, <1>4 DEF StackInv
<1>14. ProgressInv'
  BY <1>0, <1>1, <1>2, <1>4, ProgressOfTaken
<1>15. SameStacks
  <2>1. \A s : Stacks(s) \subseteq DOMAIN seen
    BY DEF Stacks
  <2>2. Complete = DOMAIN seen /\ Complete' = DOMAIN seen \cup {n}
    BY <1>2, <1>4 DEF Complete
  <2>3. \A s : (Stacks(s) \cap Complete)' = Stacks(s) \cap Complete
    BY <1>4, <2>1, <2>2
  <2> QED BY <1>4, <2>1, <2>3 DEF SameStacks
<1>16. TreeInv' /\ \A m \in DOMAIN children : PathTo'[m] = PathTo[m]
  <2>1. Paths' = Paths
    BY <1>15, SamePaths
  <2> QED BY <1>0, <1>2, <1>6, <2>1, TreeUnchanged
<1>17. \A kind : kind \notin FrameKinds =>
         \A id, s : Total(kind, id, s)' = Total(kind, id, s) /\ Self(kind, id, s)' = Self(kind, id, s)
  <2>1. \A kind, id : <<kind, id>> \in K => kind \in FrameKinds
    BY <1>8
  <2>2. ASSUME NEW kind, kind \notin FrameKinds, NEW id, NEW s
        PROVE  Total(kind, id, s)' = Total(kind, id, s) /\ Self(kind, id, s)' = Self(kind, id, s)
    <3>1. <<kind, id>> \notin K
      BY <2>1, <2>2
    <3>2. Total(kind, id, s)' = Total(kind, id, s) + 0 /\ Self(kind, id, s)' = Self(kind, id, s) + 0
      BY <1>9, <1>10, <3>1
    <3>3. Total(kind, id, s) \in Nat /\ Self(kind, id, s) \in Nat
      BY <1>11
    <3> QED BY <3>2, <3>3
  <2> QED BY <2>2
<1>18. NodeCounts' /\ RootCounts'
  <2>1. SameTotals({"node"}) /\ SameSelfs({"node"})
    BY <1>17 DEF SameTotals, SameSelfs, FrameKinds
  <2>2. \A s : Total("function", 0, s)' = Total("function", 0, s)
               /\ Self("function", 0, s)' = Self("function", 0, s)
    BY <1>8, <1>9, <1>10, <1>11
  <2> QED BY <1>0, <1>2, <1>15, <1>16, <2>1, <2>2, StacksCountedAsBefore
<1>19. seen \in Seq(Samples)
  BY <1>0 DEF TypeOK
<1>20. CallCounts'
  <2>1. \A s : p0[1] \notin Stacks(s)
    BY <1>3, <1>4 DEF Stacks
  <2>2. \A f, g, s : CallsOf(f, g, s)' = CallsOf(f, g, s) \cup
              (IF s = source /\ p0[1] \in Stacks(s)' /\ FunctionAt(p0)' = g /\ CallerAt(p0)' = f
               THEN {p0} ELSE {})
    BY <1>0, <1>4, <1>6, <1>19, OnePlaceMore
  <2>3. \A f, g, s : CallsOf(f, g, s)' = CallsOf(f, g, s)
    BY <1>4, <2>1, <2>2
  <2>4. \A id, s : /\ Total("callee", id, s)' = Total("callee", id, s)
                   /\ Total("caller", id, s)' = Total("caller", id, s)
    BY <1>17 DEF FrameKinds
  <2> QED BY <1>0, <2>3, <2>4 DEF CallCounts, CountsInv
<1>21. FrameCounts'
  <2> DEFINE in(kind, id, s) == {p \in CountedFor(kind, id, s) : Innermost(p)}
  <2>1. ASSUME NEW s \in Sources, NEW kind \in FrameKinds, NEW id, <<kind, id>> # <<"function", 0>>
        PROVE  /\ Total(kind, id, s)' = Cardinality(CountedFor(kind, id, s)')
               /\ Self(kind, id, s)' = Cardinality(in(kind, id, s)')
    <3>1. /\ CountedFor(kind, id, s)' = CountedFor(kind, id, s) \cup
               (IF s = source /\ <<kind, id>> \in K THEN {p0} ELSE {})
          /\ Total(kind, id, s)' = Cardinality(CountedFor(kind, id, s)')
      <4>1. /\ CountedFor(kind, id, s)' = CountedFor(kind, id, s) \cup
                 (IF s = source /\ <<kind, id>> \in counted(ids) THEN {p0} ELSE {})
            /\ Total(kind, id, s)' = Cardinality(CountedFor(kind, id, s)')
        <5>1. \A k \in FrameKinds : \A i : <<k, i>> # <<"function", 0>> =>
                (<<k, i>> \in K <=> <<k, i>> \in counted(ids))
          BY <1>7
        <5>2. TypeOK /\ VectorsInv /\ CountsInv /\ KnownFramesStay /\ PlacesGrow({p0})
              /\ ids = Ids(FrameAt(p0))'
          BY <1>0, <1>4, <1>6
        <5>3. \A k, i, t : Total(k, i, t)' =
                Total(k, i, t) + (IF t = source /\ <<k, i>> \in K THEN 1 ELSE 0)
          BY <1>9
        <5> QED BY <2>1, <5>1, <5>2, <5>3, FramesCounted
      <4> QED BY <1>7, <4>1
    <3>2. in(kind, id, s)' = in(kind, id, s) \cup
               (IF s = source /\ <<kind, id>> \in K THEN {p0} ELSE {})
      <4>1. Innermost(p0)'
        BY <1>2, <1>4
      <4>2. CountedFor(kind, id, s) \subseteq Places(s)
        BY DEF CountedFor
      <4>3. \A p \in CountedFor(kind, id, s) : Innermost(p)' <=> Innermost(p)
        BY <1>4, <4>2 DEF InnermostStay
      <4> QED BY <3>1, <4>1, <4>3
    <3>3. p0 \notin in(kind, id, s) /\ IsFiniteSet(in(kind, id, s))
      BY <1>0, <1>4, <1>6, <1>19, OnePlaceMore, CountedAreFinite
    <3>4. Self(kind, id, s) = Cardinality(in(kind, id, s))
      BY <1>0, <2>1 DEF CountsInv, FrameCounts
    <3>5. Self(kind, id, s)' = Self(kind, id, s) + (IF s = source /\ <<kind, id>> \in K THEN 1 ELSE 0)
      BY <1>10
    <3> HIDE DEF in
    <3>6. CASE s = source /\ <<kind, id>> \in K
      <4>1. Cardinality(in(kind, id, s) \cup {p0}) = Cardinality(in(kind, id, s)) + 1
        BY <3>3, OneMore
      <4> QED BY <3>1, <3>2, <3>4, <3>5, <3>6, <4>1
    <3>7. CASE ~(s = source /\ <<kind, id>> \in K)
      <4>1. in(kind, id, s)' = in(kind, id, s)
        BY <3>2, <3>7
      <4>2. Self(kind, id, s) \in Nat
        BY <1>11
      <4> QED BY <3>1, <3>4, <3>5, <3>7, <4>1, <4>2
    <3> QED BY <3>6, <3>7
  <2> QED BY <2>1 DEF FrameCounts
<1> QED BY <1>6, <1>12, <1>13, <1>14, <1>16, <1>18, <1>20, <1>21 DEF IInv, CountsInv

\* The path of a node for a function below another node.
FunctionsStay ==
  \A g \in DOMAIN functions : g \in DOMAIN functions' /\ FunctionName(g)' = FunctionName(g)

Extends(path, parent, f) == path = Append(PathTo[parent], FunctionName(f)')

\* The child of a node for a function, which a frame is counted for.
LEMMA ChildFor ==
  ASSUME TypeOK, TreeInv, VectorsTyped', VectorsDistinct', FunctionsStay,
         NEW parent \in DOMAIN children, NEW f \in DOMAIN functions', GetOrAppendChild(parent, f),
         NEW node, node = NodeFor(parent, f), NEW path, Extends(path, parent, f)
  PROVE  /\ NodesLinked'
         /\ \A m \in DOMAIN children : m \in DOMAIN children' /\ PathTo'[m] = PathTo[m]
         /\ \A m : m \in DOMAIN children' <=> m \in DOMAIN children \/ m = node
         /\ node \in Nat /\ node # 0
         /\ PathTo'[node] = path
         /\ \A m, q \in DOMAIN children' : PathTo'[m] = PathTo'[q] => m = q
PROOF
<1>0. \A g \in DOMAIN functions : g \in DOMAIN functions' /\ FunctionName(g)' = FunctionName(g)
  BY DEF FunctionsStay
<1>a. PICK fname : fname = FunctionName(f)'
  OBVIOUS
<1>b. path = Append(PathTo[parent], fname)
  BY <1>a DEF Extends
<1>1. TreeShape
  BY ShapeOfTree
<1>2. PICK N \in Nat : N = Len(nodes)
  BY <1>1 DEF TreeShape
<1>3. /\ DOMAIN nodes = 1 .. N /\ DOMAIN children = 0 .. N
      /\ nodes \in Seq(DOMAIN functions) /\ children \in [0 .. N -> Seq(DOMAIN nodes)]
  BY <1>1, <1>2 DEF TreeShape, TypeOK
<1>4. nodes \in Seq(DOMAIN functions')
  <2>1. PICK A, B : A = DOMAIN functions /\ B = DOMAIN functions'
    OBVIOUS
  <2>2. A \subseteq B /\ nodes \in Seq(A)
    BY <1>0, <1>3, <2>1
  <2>3. nodes \in Seq(B)
    BY <2>2
  <2> QED BY <2>1, <2>3
<1>5. /\ PathTo[0] = <<>>
      /\ \A n \in DOMAIN nodes : PathTo[n] = Append(PathTo[Parent(n)], FunctionName(nodes[n]))
  BY <1>1, PathToIs
<1>6. ASSUME NEW n \in DOMAIN nodes
      PROVE  /\ nodes[n] \in DOMAIN functions /\ nodes[n] \in DOMAIN functions'
             /\ \A g : g = nodes[n] => FunctionName(g)' = FunctionName(nodes[n])
  <2>1. PICK g \in DOMAIN functions : g = nodes[n]
    BY <1>3
  <2>2. g \in DOMAIN functions' /\ FunctionName(g)' = FunctionName(g)
    BY <1>0
  <2>3. FunctionName(g) = FunctionName(nodes[n])
    BY <2>1
  <2> QED BY <2>1, <2>2, <2>3
<1>7. CASE found(parent, f) # {}
  <2>1. node \in found(parent, f) /\ UNCHANGED <<nodes, children>>
    BY <1>7 DEF NodeFor, GetOrAppendChild
  <2>2. node \in Range(children[parent]) /\ nodes[node] = f
    BY <2>1 DEF found, ChildrenFor
  <2>3. node \in 1 .. N
    BY <1>3, <2>2 DEF Range
  <2>4. Parent(node) = parent
    BY <1>1, <1>3, <2>2, <2>3 DEF TreeShape
  <2>5. \A g \in DOMAIN functions : FunctionName(g)' = FunctionName(g)
    BY <1>0
  <2>6. \A n \in DOMAIN children : PathTo'[n] = PathTo[n]
    BY <2>1, <2>5, TreeUnchanged
  <2>7. FunctionName(nodes[node]) = fname
    BY <1>a, <1>3, <1>6, <2>2, <2>3
  <2>8. PathTo'[node] = Append(PathTo[parent], fname)
    <3>1. PathTo[node] = Append(PathTo[Parent(node)], FunctionName(nodes[node]))
      BY <1>3, <1>5, <2>3
    <3>2. PathTo'[node] = PathTo[node]
      <4>1. node \in DOMAIN children
        BY <1>3, <2>3
      <4> QED BY <2>6, <4>1
    <3> QED BY <2>4, <2>7, <3>1, <3>2
  <2>9. NodesLinked'
    <3>1. nodes' \in Seq(DOMAIN functions')
      BY <1>4, <2>1
    <3>2. children' \in [0 .. Len(nodes') -> Seq(DOMAIN nodes')]
      BY <2>1 DEF TypeOK
    <3>3. /\ \A m, n \in DOMAIN children : \A i \in DOMAIN children[m], j \in DOMAIN children[n] :
               children[m][i] = children[n][j] => m = n /\ i = j
          /\ \A n \in DOMAIN nodes : \E p \in 0 .. n - 1 : n \in Range(children[p])
      BY DEF TreeInv
    <3>4. nodes' = nodes /\ children' = children
      BY <2>1
    <3>5. /\ \A m, n \in DOMAIN children' : \A i \in DOMAIN children'[m], j \in DOMAIN children'[n] :
               children'[m][i] = children'[n][j] => m = n /\ i = j
          /\ \A n \in DOMAIN nodes' : \E p \in 0 .. n - 1 : n \in Range(children'[p])
      BY <3>3, <3>4
    <3> QED BY <3>1, <3>2, <3>5 DEF NodesLinked
  <2>10. \A m, q \in DOMAIN children' : PathTo'[m] = PathTo'[q] => m = q
    BY <2>1, <2>6 DEF TreeInv
  <2>11. DOMAIN children' = DOMAIN children \cup {node} /\ node \in Nat \ {0}
    BY <1>3, <2>1, <2>3
  <2> QED BY <1>b, <2>1, <2>6, <2>8, <2>9, <2>10, <2>11
<1>8. CASE found(parent, f) = {}
  <2>1. /\ node = N + 1 /\ nodes' = Append(nodes, f)
        /\ children' = [n \in 0 .. N + 1 |->
                         IF n > N THEN <<>>
                         ELSE IF n = parent THEN Append(children[n], N + 1)
                         ELSE children[n]]
    BY <1>2, <1>8 DEF NodeFor, GetOrAppendChild
  <2>2. /\ nodes' \in Seq(DOMAIN functions') /\ Len(nodes') = N + 1 /\ DOMAIN nodes' = 1 .. N + 1
        /\ \A n \in 1 .. N : nodes'[n] = nodes[n]
        /\ nodes'[N + 1] = f
    <3>1. PICK B : B = DOMAIN functions'
      OBVIOUS
    <3>2. nodes \in Seq(B) /\ f \in B
      BY <1>4, <3>1
    <3>3. /\ Append(nodes, f) \in Seq(B) /\ Len(Append(nodes, f)) = N + 1
          /\ DOMAIN Append(nodes, f) = 1 .. N + 1
          /\ \A n \in 1 .. N : Append(nodes, f)[n] = nodes[n]
          /\ Append(nodes, f)[N + 1] = f
      BY <1>2, <3>2
    <3> QED BY <2>1, <3>1, <3>3
  <2>3. PICK c : c = children[parent]
    OBVIOUS
  <2>4. /\ c \in Seq(1 .. N)
        /\ Append(c, N + 1) \in Seq(1 .. N + 1)
        /\ DOMAIN Append(c, N + 1) = DOMAIN c \cup {Len(c) + 1}
        /\ Len(c) + 1 \notin DOMAIN c
        /\ \A i \in DOMAIN c : Append(c, N + 1)[i] = c[i] /\ c[i] \in 1 .. N
        /\ Append(c, N + 1)[Len(c) + 1] = N + 1
        /\ Range(Append(c, N + 1)) = Range(c) \cup {N + 1}
    <3>1. c \in Seq(1 .. N)
      BY <1>3, <2>3
    <3>2. c \in Seq(1 .. N + 1) /\ N + 1 \in 1 .. N + 1
      BY <3>1
    <3>3. /\ Append(c, N + 1) \in Seq(1 .. N + 1)
          /\ DOMAIN Append(c, N + 1) = DOMAIN c \cup {Len(c) + 1}
          /\ \A i \in DOMAIN c : Append(c, N + 1)[i] = c[i]
          /\ Append(c, N + 1)[Len(c) + 1] = N + 1
          /\ Range(Append(c, N + 1)) = Range(c) \cup {N + 1}
      BY <3>2, AppendFacts
    <3> QED BY <3>1, <3>3
  <2>5. /\ DOMAIN children' = 0 .. N + 1 /\ children'[N + 1] = <<>>
        /\ children'[parent] = Append(c, N + 1)
        /\ \A n \in 0 .. N : n # parent => children'[n] = children[n]
    BY <1>3, <2>1, <2>3
  <2>6. children' \in [0 .. Len(nodes') -> Seq(DOMAIN nodes')]
    <3>1. \A n \in 0 .. N : children[n] \in Seq(1 .. N)
      BY <1>3
    <3>2. \A t : t \in Seq(1 .. N) => t \in Seq(1 .. N + 1)
      OBVIOUS
    <3>3. <<>> \in Seq(1 .. N + 1)
      OBVIOUS
    <3>4. \A n \in 0 .. N + 1 : children'[n] \in Seq(1 .. N + 1)
      <4> SUFFICES ASSUME NEW n \in 0 .. N + 1 PROVE children'[n] \in Seq(1 .. N + 1)
        OBVIOUS
      <4>1. n = N + 1 \/ n = parent \/ (n \in 0 .. N /\ n # parent)
        OBVIOUS
      <4> QED BY <2>4, <2>5, <3>1, <3>2, <3>3, <4>1
    <3>5. children' = [n \in DOMAIN children' |-> children'[n]]
      BY <2>1
    <3> QED BY <2>2, <2>5, <3>4, <3>5
  <2>7. ASSUME NEW m \in DOMAIN children', NEW q \in DOMAIN children',
               NEW i \in DOMAIN children'[m], NEW j \in DOMAIN children'[q],
               children'[m][i] = children'[q][j]
        PROVE  m = q /\ i = j
    <3>1. m \in 0 .. N /\ q \in 0 .. N
      BY <2>5
    <3>2. \A r \in 0 .. N : \A k \in DOMAIN children'[r] :
             \/ k \in DOMAIN children[r] /\ children'[r][k] = children[r][k] /\ children[r][k] \in 1 .. N
             \/ r = parent /\ k = Len(c) + 1 /\ children'[r][k] = N + 1
      <4> SUFFICES ASSUME NEW r \in 0 .. N, NEW k \in DOMAIN children'[r]
                   PROVE  \/ k \in DOMAIN children[r] /\ children'[r][k] = children[r][k] /\ children[r][k] \in 1 .. N
                          \/ r = parent /\ k = Len(c) + 1 /\ children'[r][k] = N + 1
        OBVIOUS
      <4>1. CASE r = parent
        BY <2>3, <2>4, <2>5, <4>1
      <4>2. CASE r # parent
        <5>1. children'[r] = children[r] /\ children[r] \in Seq(1 .. N)
          BY <1>3, <2>5, <4>2
        <5> QED BY <5>1
      <4> QED BY <4>1, <4>2
    <3>3. \/ /\ i \in DOMAIN children[m] /\ children'[m][i] = children[m][i] /\ children[m][i] \in 1 .. N
             /\ j \in DOMAIN children[q] /\ children'[q][j] = children[q][j] /\ children[q][j] \in 1 .. N
          \/ m = parent /\ q = parent /\ i = Len(c) + 1 /\ j = Len(c) + 1
      BY <2>7, <3>1, <3>2
    <3>4. m \in DOMAIN children /\ q \in DOMAIN children
      BY <1>3, <3>1
    <3> QED BY <2>7, <3>3, <3>4 DEF TreeInv
  <2>8. \A p \in 0 .. N : Range(children[p]) \subseteq Range(children'[p])
    <3> SUFFICES ASSUME NEW p \in 0 .. N PROVE Range(children[p]) \subseteq Range(children'[p])
      OBVIOUS
    <3>1. CASE p = parent
      BY <2>3, <2>4, <2>5, <3>1
    <3>2. CASE p # parent
      BY <2>5, <3>2
    <3> QED BY <3>1, <3>2
  <2>9. N + 1 \in Range(children'[parent]) /\ parent \in 0 .. N
    BY <1>3, <2>4, <2>5
  <2>10. NodesLinked'
    <3>1. \A n \in DOMAIN nodes' : \E p \in 0 .. n - 1 : n \in Range(children'[p])
      <4> SUFFICES ASSUME NEW n \in DOMAIN nodes'
                   PROVE  \E p \in 0 .. n - 1 : n \in Range(children'[p])
        OBVIOUS
      <4>1. CASE n = N + 1
        BY <2>9, <4>1
      <4>2. CASE n # N + 1
        <5>1. n \in DOMAIN nodes /\ n \in 1 .. N
          BY <1>3, <2>2, <4>2
        <5>2. PICK p \in 0 .. n - 1 : n \in Range(children[p])
          BY <5>1 DEF TreeInv
        <5>3. p \in 0 .. N
          BY <5>1
        <5> QED BY <2>8, <5>2, <5>3
      <4> QED BY <4>1, <4>2
    <3>2. \A m, q \in DOMAIN children' : \A i \in DOMAIN children'[m], j \in DOMAIN children'[q] :
            children'[m][i] = children'[q][j] => m = q /\ i = j
      BY <2>7
    <3> QED BY <2>2, <2>6, <3>1, <3>2 DEF NodesLinked
  <2>11. TreeShape'
    <3>1. (NodesLinked => TreeShape)'
      BY ShapeOfLinks, PTL
    <3> QED BY <2>10, <3>1
  <2>12. NodesStay
    <3>1. Len(nodes') >= Len(nodes)
      BY <1>2, <2>2
    <3>2. \A n \in DOMAIN nodes : FunctionName(nodes[n])' = FunctionName(nodes[n])
      <4> SUFFICES ASSUME NEW n \in DOMAIN nodes PROVE FunctionName(nodes[n])' = FunctionName(nodes[n])
        OBVIOUS
      <4>1. PICK g : g = nodes[n]
        OBVIOUS
      <4>2. FunctionName(nodes[n])' = FunctionName(g)'
        <5>1. nodes'[n] = g
          BY <1>3, <2>2, <4>1
        <5> QED BY <5>1 DEF FunctionName
      <4> QED BY <1>6, <4>1, <4>2
    <3>3. \A n \in DOMAIN nodes, p \in DOMAIN children : n \in Range(children[p]) => n \in Range(children'[p])
      BY <1>3, <2>8
    <3> QED BY <3>1, <3>2, <3>3 DEF NodesStay
  <2>13. \A n \in DOMAIN children : n \in DOMAIN children' /\ PathTo'[n] = PathTo[n]
    BY <2>11, <2>12, PathsStay
  <2>14. PathTo'[N + 1] = Append(PathTo[parent], fname)
    <3>1. (TreeShape =>
            /\ DOMAIN PathTo = DOMAIN children
            /\ PathTo[0] = <<>>
            /\ \A n \in DOMAIN nodes : PathTo[n] = Append(PathTo[Parent(n)], FunctionName(nodes[n])))'
      BY PathToIs, PTL
    <3>2. N + 1 \in DOMAIN nodes' /\ parent \in DOMAIN children'
      BY <2>2, <2>13
    <3>3. \A n \in DOMAIN nodes' : PathTo'[n] = Append(PathTo'[Parent(n)'], FunctionName(nodes[n])')
      BY <2>11, <3>1
    <3>4. PICK last : last = N + 1
      OBVIOUS
    <3>5. Parent(last)' = parent
      <4>1. \A n \in DOMAIN nodes', p \in DOMAIN children' : n \in Range(children'[p]) => p = Parent(n)'
        BY <2>11 DEF TreeShape
      <4> QED BY <2>9, <3>2, <3>4, <4>1
    <3>6. FunctionName(nodes[last])' = FunctionName(f)'
      BY <2>2, <3>4 DEF FunctionName
    <3>7. PathTo'[last] = Append(PathTo'[parent], fname)
      BY <1>a, <3>2, <3>3, <3>4, <3>5, <3>6
    <3>8. PathTo'[parent] = PathTo[parent]
      BY <2>13
    <3> QED BY <3>4, <3>7, <3>8
  <2>15. ASSUME NEW m \in DOMAIN children PROVE PathTo'[m] # PathTo'[N + 1]
    <3> DEFINE Steps == ModuleNames \X SymbolNames
    <3>1. PathTo[parent] \in Seq(Steps)
      BY PathTyped
    <3>2. fname \in Steps
      <4>1. (VectorsTyped => FunctionsNamed)'
        BY NamesOfFunctions, PTL
      <4> QED BY <1>a, <4>1 DEF FunctionsNamed, ModuleNames, SymbolNames
    <3> SUFFICES ASSUME PathTo[m] = Append(PathTo[parent], fname) PROVE FALSE
      BY <2>13, <2>14
    <3>3. m # 0
      <4>1. <<>> # Append(PathTo[parent], fname)
        BY <3>1, <3>2
      <4> QED BY <1>5, <4>1
    <3>4. m \in DOMAIN nodes /\ Parent(m) \in DOMAIN children
      <4>1. m \in DOMAIN nodes
        BY <1>3, <3>3
      <4>2. Parent(m) \in 0 .. m - 1
        BY <1>1, <4>1 DEF TreeShape
      <4> QED BY <1>3, <4>1, <4>2
    <3>5. PathTo[m] = Append(PathTo[Parent(m)], FunctionName(nodes[m]))
      BY <1>5, <3>4
    <3>6. PathTo[Parent(m)] \in Seq(Steps) /\ FunctionName(nodes[m]) \in Steps
      <4>1. VectorsTyped
        BY DEF TypeOK
      <4> QED BY <1>6, <3>4, <4>1, PathTyped, NamesOfFunctions DEF FunctionsNamed
    <3>7. PathTo[Parent(m)] = PathTo[parent] /\ FunctionName(nodes[m]) = fname
      <4>1. PICK a, b, x, y : /\ a = PathTo[Parent(m)] /\ b = PathTo[parent]
                              /\ x = FunctionName(nodes[m]) /\ y = fname
        OBVIOUS
      <4>2. a \in Seq(Steps) /\ b \in Seq(Steps) /\ x \in Steps /\ y \in Steps
        BY <3>1, <3>2, <3>6, <4>1
      <4>3. Append(a, x) = Append(b, y)
        BY <3>5, <4>1
      <4> HIDE DEF Steps
      <4>4. a = b /\ x = y
        <5>1. Len(a) = Len(b)
          BY <4>2, <4>3
        <5>2. Append(a, x)[Len(a) + 1] = x /\ Append(b, y)[Len(b) + 1] = y
          BY <4>2
        <5>3. \A i \in 1 .. Len(a) : Append(a, x)[i] = a[i] /\ Append(b, y)[i] = b[i]
          BY <4>2, <5>1
        <5> QED BY <4>2, <4>3, <5>1, <5>2, <5>3
      <4> QED BY <4>1, <4>4
    <3>8. Parent(m) = parent
      BY <3>4, <3>7 DEF TreeInv
    <3>9. nodes[m] = f
      <4>1. (VectorsTyped /\ VectorsDistinct =>
              \A g, h \in DOMAIN functions : FunctionName(g) = FunctionName(h) => g = h)'
        <5>1. (VectorsTyped /\ VectorsDistinct => FunctionsDistinct)'
          BY FunctionsDiffer, PTL
        <5> QED BY <5>1 DEF FunctionsDistinct
      <4>2. PICK g : g = nodes[m]
        OBVIOUS
      <4>3. g \in DOMAIN functions' /\ FunctionName(g)' = FunctionName(f)'
        BY <1>a, <1>6, <3>4, <3>7, <4>2
      <4> QED BY <4>1, <4>2, <4>3
    <3>10. m \in found(parent, f)
      BY <1>1, <3>4, <3>8, <3>9 DEF found, ChildrenFor, TreeShape
    <3> QED BY <1>8, <3>10
  <2>16. \A m, q \in DOMAIN children' : PathTo'[m] = PathTo'[q] => m = q
    <3>1. DOMAIN children' = DOMAIN children \cup {N + 1}
      BY <1>3, <2>5
    <3> QED BY <2>13, <2>15, <3>1 DEF TreeInv
  <2>17. DOMAIN children' = DOMAIN children \cup {node} /\ node \in Nat \ {0}
    BY <1>3, <2>1, <2>5
  <2> QED BY <1>b, <2>1, <2>10, <2>13, <2>14, <2>16, <2>17
<1> QED BY <1>7, <1>8

\* A frame of the newest sample, and the place that it takes.
NextPlace(n, p0) == n = Len(seen) /\ p0 = <<n, Len(Current.frames) + 1>>

FrameTaken(fr, n, p0) ==
  /\ seen' \in Seq(Samples) /\ n \in DOMAIN seen /\ DOMAIN seen' = DOMAIN seen /\ Len(seen') = n
  /\ seen[n].kind = "stack" /\ seen[n].source = source
  /\ seen'[n].kind = "stack" /\ seen'[n].source = source
  /\ seen'[n].frames = Append(seen[n].frames, fr)
  /\ seen[n].frames \in Seq(Frames)
  /\ \A i \in DOMAIN seen : i # n => seen'[i] = seen[i] /\ Names(i)' = Names(i)
  /\ Names(n)' = Append(Names(n), NameOf(fr))
  /\ PlacesGrow({p0}) /\ FrameAt(p0)' = fr /\ NewestPlace(p0)
  /\ InnermostStay /\ ~Innermost(p0)'
  /\ \A s : Stacks(s)' = Stacks(s) /\ (n \in Stacks(s) <=> s = source)
  /\ Complete' = Complete /\ n \notin Complete
  /\ p0[1] = n
  /\ KnownFramesStay => CallerAt(p0)' = previous.function

\* The next frame of a stack: its place is the newest, and its caller the frame before.
LEMMA StackFrame ==
  ASSUME TypeOK, VectorsInv, StackInv, pc = "stack", pc' = "stack", NEW fr \in Frames,
         SeesFrame(fr), NEW n, NEW p0, NextPlace(n, p0)
  PROVE  FrameTaken(fr, n, p0)
PROOF
<1>0. n = Len(seen) /\ p0 = <<n, Len(Current.frames) + 1>>
  BY DEF NextPlace
<1> USE <1>0
<1>1. seen \in Seq(Samples) /\ source \in Sources
  BY DEF TypeOK
<1>2. /\ seen # <<>> /\ seen[n].kind = "stack" /\ seen[n].source = source
      /\ IF seen[n].frames = <<>> THEN previous = NoPrevious
         ELSE LET ids == Ids(Last(seen[n].frames))
              IN  previous = [module |-> ids.module, function |-> ids.function,
                              node |-> previous.node, file |-> ids.file, line |-> ids.line]
  BY DEF StackInv, Current
<1>3. n \in DOMAIN seen /\ n \in Nat /\ DOMAIN seen = 1 .. n
  BY <1>1, <1>2
<1>4. PICK fs \in Seq(Frames) : fs = seen[n].frames
  BY <1>1, <1>3, SamplesTyped
<1>5. PICK k : k = Len(Current.frames) + 1
  OBVIOUS
<1>6. k = Len(fs) + 1 /\ k \in Nat \ {0} /\ DOMAIN fs = 1 .. k - 1 /\ p0 = <<n, k>>
  BY <1>4, <1>5 DEF Current
<1>7. /\ seen' \in Seq(Samples) /\ Len(seen') = n /\ DOMAIN seen' = DOMAIN seen
      /\ \A i \in DOMAIN seen : seen'[i].kind = seen[i].kind /\ seen'[i].source = seen[i].source
      /\ \A i \in DOMAIN seen : i # n => seen'[i] = seen[i]
      /\ seen'[n].frames = Append(seen[n].frames, fr)
      /\ \A s : \A p : p \in Places(s)' <=>
               p \in Places(s) \/ (Current.source = s /\ p = <<n, k>>)
      /\ \A s : <<n, k>> \notin Places(s)
      /\ \A s : Stacks(s)' = Stacks(s)
      /\ \A i \in DOMAIN seen : i # n => Names(i)' = Names(i)
      /\ Names(n)' = Append(Names(n), NameOf(fr))
      /\ \A s : \A p \in Places(s) : FrameAt(p)' = FrameAt(p)
      /\ FrameAt(<<n, k>>)' = fr
  <2>1. seen # <<>> /\ seen \in Seq(Samples)
    BY <1>1, <1>2
  <2> QED BY <2>1, <1>5, FrameAdded
<1>8. Current.source = source
  BY <1>2 DEF Current
<1>9. PlacesGrow({p0})
  <2>1. ASSUME NEW s PROVE Places(s)' = Places(s) \cup (IF s = source THEN {p0} ELSE {})
    <3>1. PICK A, B : A = Places(s)' /\ B = Places(s)
      OBVIOUS
    <3>2. \A p : p \in A <=> p \in B \/ (s = source /\ p = p0)
      BY <1>6, <1>7, <1>8, <3>1
    <3>3. A = B \cup (IF s = source THEN {p0} ELSE {})
      BY <3>2
    <3> QED BY <3>1, <3>3
  <2>2. \A s : Places(s) \cap {p0} = {}
    <3>1. \A s : p0 \notin Places(s)
      BY <1>6, <1>7
    <3> QED BY <3>1
  <2>3. \A s : \A p \in Places(s) : FrameAt(p)' = FrameAt(p) /\ (p[1] \in Stacks(s)' <=> p[1] \in Stacks(s))
    BY <1>7
  <2> QED BY <2>1, <2>2, <2>3 DEF PlacesGrow
<1>10. FrameAt(p0)' = fr /\ p0[1] = n /\ p0[2] = k
  <2>1. p0[1] = n /\ p0[2] = k
    BY <1>6
  <2>2. FrameAt(p0)' = FrameAt(<<n, k>>)'
    BY <1>6 DEF FrameAt
  <2> QED BY <1>7, <2>1, <2>2
<1>11. \A s : \A p \in Places(s) :
         /\ p[1] \in DOMAIN seen /\ p[2] \in DOMAIN seen[p[1]].frames
  BY <1>1, PlaceFacts
<1>12. NewestPlace(p0)
  <2>1. ASSUME NEW p \in AllPlaces PROVE NotAfter(p, p0)
    <3>1. p[1] \in 1 .. n /\ p[2] \in DOMAIN seen[p[1]].frames
      BY <1>3, <1>11, <2>1 DEF AllPlaces
    <3>2. CASE p[1] = n
      <4>1. p[2] \in 1 .. k - 1
        BY <1>4, <1>6, <3>1, <3>2
      <4> QED BY <1>6, <1>10, <3>2, <4>1 DEF NotAfter
    <3>3. CASE p[1] # n
      BY <1>3, <1>10, <3>1, <3>3 DEF NotAfter
    <3> QED BY <3>2, <3>3
  <2>2. NotAfter(p0, p0)
    BY <1>6, <1>10 DEF NotAfter
  <2> QED BY <2>1, <2>2 DEF NewestPlace
<1>13. Complete' = Complete /\ n \notin Complete
  BY <1>3, <1>7 DEF Complete
<1>14. InnermostStay
  <2>1. ASSUME NEW s, NEW p \in Places(s) PROVE Innermost(p)' <=> Innermost(p)
    <3>1. p[1] \in Complete => p[1] \in DOMAIN seen /\ p[1] # n
      BY <1>11, <1>13
    <3>2. p[1] \in Complete => seen'[p[1]] = seen[p[1]]
      BY <1>7, <3>1
    <3> QED BY <1>13, <3>2 DEF Innermost
  <2> QED BY <2>1 DEF InnermostStay
<1>15. ~Innermost(p0)'
  BY <1>10, <1>13 DEF Innermost
<1>16. \A s : n \in Stacks(s) <=> s = source
  BY <1>2, <1>3 DEF Stacks
<1>17. ASSUME KnownFramesStay PROVE CallerAt(p0)' = previous.function
  <2>1. CASE k = 1
    <3>1. fs = <<>>
      BY <1>6, <2>1
    <3>2. previous.function = 0
      BY <1>2, <1>4, <3>1 DEF NoPrevious
    <3> QED BY <1>10, <2>1, <3>2 DEF CallerAt
  <2>2. CASE k # 1
    <3>1. fs # <<>> /\ k - 1 \in DOMAIN fs /\ Last(fs) = fs[k - 1]
      BY <1>6, <2>2 DEF Last
    <3>2. PICK q : q = <<n, k - 1>>
      OBVIOUS
    <3>3. q \in Places(source)
      BY <1>2, <1>3, <1>4, <3>1, <3>2, PlaceIs DEF PlacesAre
    <3>4. FrameAt(q) = Last(fs)
      BY <1>4, <3>1, <3>2 DEF FrameAt
    <3>5. Ids(FrameAt(q))' = Ids(FrameAt(q))
      BY <1>1, <1>9, <1>17, <3>3, KnownStay
    <3>6. PICK ids : ids = Ids(Last(fs))
      OBVIOUS
    <3>7. previous.function = ids.function
      BY <1>2, <1>4, <3>1, <3>6
    <3>8. Ids(FrameAt(q)) = ids
      BY <3>4, <3>6
    <3>9. FunctionAt(q)' = ids.function
      BY <3>5, <3>8 DEF FunctionAt
    <3>10. CallerAt(p0)' = FunctionAt(q)'
      BY <1>10, <2>2, <3>2 DEF CallerAt
    <3> QED BY <3>7, <3>9, <3>10
  <2> QED BY <2>1, <2>2
<1> QED BY <1>2, <1>3, <1>4, <1>7, <1>9, <1>10, <1>12, <1>13, <1>14, <1>15, <1>16, <1>17
        DEF FrameTaken

\* The names of the frames of a sample.
LEMMA NamesTyped ==
  seen \in Seq(Samples) => \A i \in DOMAIN seen : Names(i) \in Seq(ModuleNames \X SymbolNames)
PROOF
<1> SUFFICES ASSUME seen \in Seq(Samples), NEW i \in DOMAIN seen
             PROVE  Names(i) \in Seq(ModuleNames \X SymbolNames)
  OBVIOUS
<1>1. PICK fs \in Seq(Frames) : fs = seen[i].frames
  BY SamplesTyped
<1>2. PICK l \in Nat : l = Len(fs) /\ DOMAIN fs = 1 .. l
  OBVIOUS
<1>3. \A fr \in Frames : NameOf(fr) \in ModuleNames \X SymbolNames
  BY DEF NameOf, ModuleNames, SymbolNames
<1>4. \A k \in 1 .. l : NameOf(fs[k]) \in ModuleNames \X SymbolNames
  BY <1>2, <1>3
<1>5. Names(i) = [k \in 1 .. l |-> NameOf(fs[k])]
  BY <1>1, <1>2 DEF Names
<1>6. PICK S : S = ModuleNames \X SymbolNames
  OBVIOUS
<1>7. [k \in 1 .. l |-> NameOf(fs[k])] \in Seq(S)
  BY <1>2, <1>4, <1>6
<1> QED BY <1>5, <1>6, <1>7

\* A beginning of a stack has a node.
LEMMA BeginningsHaveNodes ==
  ASSUME TypeOK, TreeInv, NEW s \in Sources, NEW i \in Stacks(s),
         NEW p \in Seq(ModuleNames \X SymbolNames), IsPrefix(p, Names(i))
  PROVE  \E m \in DOMAIN children : PathTo[m] = p
PROOF
<1>1. PICK S : S = ModuleNames \X SymbolNames
  OBVIOUS
<1>2. i \in DOMAIN seen /\ seen \in Seq(Samples)
  BY DEF Stacks, TypeOK
<1>3. PICK t : t = Names(i)
  OBVIOUS
<1>4. t \in Seq(S) /\ p \in Seq(S) /\ IsPrefix(p, t)
  BY <1>1, <1>2, <1>3, NamesTyped
<1>5. Len(p) \in 0 .. Len(t) /\ SubSeq(p, 1, Len(p)) = SubSeq(t, 1, Len(p))
  BY <1>4 DEF IsPrefix
<1>6. SubSeq(p, 1, Len(p)) = p
  BY <1>4
<1>7. p \in Prefixes(t)
  BY <1>5, <1>6 DEF Prefixes
<1>8. p \in Paths
  BY <1>3, <1>7 DEF Paths
<1> QED BY <1>8 DEF TreeInv

\* A frame that is called at a node, and the node that it is counted for.
FrameFollows(n, parent, f) ==
  /\ n \in DOMAIN seen
  /\ \A s : Stacks(s)' = Stacks(s) /\ (n \in Stacks(s) <=> s = source)
  /\ \A i \in DOMAIN seen : i # n => Names(i)' = Names(i)
  /\ parent \in DOMAIN children /\ PathTo[parent] = Names(n)
  /\ f \in DOMAIN functions' /\ GetOrAppendChild(parent, f)
  /\ Names(n)' = Append(Names(n), FunctionName(f)')

NodeFollows(n, node) ==
  /\ TreeInv' /\ NodesLinked'
  /\ node \in DOMAIN children' /\ node \in Nat \ {0} /\ PathTo'[node] = Names(n)'
  /\ \A m, s : s \in Sources => StacksThrough(m, s)' =
       StacksThrough(m, s) \cup (IF m = node /\ s = source THEN {n} ELSE {})
  /\ \A s : n \notin StacksThrough(node, s)
  /\ Complete' = Complete /\ n \notin Complete =>
       \A m, s : s \in Sources => StacksAt(m, s)' = StacksAt(m, s)

\* The tree once a frame of a stack was counted: the node that stands for the stack so far.
LEMMA TreeOfFrame ==
  ASSUME TypeOK, TreeInv, VectorsTyped', VectorsDistinct', FunctionsStay,
         NEW n, NEW parent, NEW f, FrameFollows(n, parent, f),
         NEW node, node = NodeFor(parent, f)
  PROVE  NodeFollows(n, node)
PROOF
<1>a. PICK fname : fname = FunctionName(f)'
  OBVIOUS
<1>b. /\ n \in DOMAIN seen
      /\ \A s : Stacks(s)' = Stacks(s) /\ (n \in Stacks(s) <=> s = source)
      /\ \A i \in DOMAIN seen : i # n => Names(i)' = Names(i)
      /\ parent \in DOMAIN children /\ PathTo[parent] = Names(n)
      /\ f \in DOMAIN functions' /\ GetOrAppendChild(parent, f)
      /\ Names(n)' = Append(Names(n), fname)
  BY <1>a DEF FrameFollows
<1> USE <1>a, <1>b
<1>1. /\ NodesLinked'
      /\ \A m \in DOMAIN children : m \in DOMAIN children' /\ PathTo'[m] = PathTo[m]
      /\ DOMAIN children' = DOMAIN children \cup {node} /\ node \in Nat \ {0}
      /\ PathTo'[node] = Append(PathTo[parent], fname)
      /\ \A m, q \in DOMAIN children' : PathTo'[m] = PathTo'[q] => m = q
  <2>1. PICK path : path = Append(PathTo[parent], fname)
    OBVIOUS
  <2>2. Extends(path, parent, f)
    BY <2>1 DEF Extends
  <2>3. /\ TypeOK /\ TreeInv /\ VectorsTyped' /\ VectorsDistinct' /\ FunctionsStay
        /\ parent \in DOMAIN children /\ f \in DOMAIN functions' /\ GetOrAppendChild(parent, f)
        /\ node = NodeFor(parent, f)
    OBVIOUS
  <2>4. /\ NodesLinked'
        /\ \A m \in DOMAIN children : m \in DOMAIN children' /\ PathTo'[m] = PathTo[m]
        /\ \A m : m \in DOMAIN children' <=> m \in DOMAIN children \/ m = node
        /\ node \in Nat /\ node # 0
        /\ PathTo'[node] = path
        /\ \A m, q \in DOMAIN children' : PathTo'[m] = PathTo'[q] => m = q
    BY ONLY <2>2, <2>3, ChildFor
  <2> QED BY <2>1, <2>4
<1>2. PICK S : S = ModuleNames \X SymbolNames
  OBVIOUS
<1>3. fname \in S
  <2>1. (VectorsTyped => FunctionsNamed)'
    BY NamesOfFunctions, PTL
  <2> QED BY <1>2, <2>1 DEF FunctionsNamed, ModuleNames, SymbolNames
<1>4. PICK t : t = Names(n)
  OBVIOUS
<1>5. PICK path : path = Append(t, fname)
  OBVIOUS
<1>6. t \in Seq(S) /\ path \in Seq(S)
  <2>1. t \in Seq(S)
    BY <1>2, <1>4, PathTyped
  <2> QED BY <1>3, <1>5, <2>1
<1>7. PathTo'[node] = path /\ Names(n)' = path
  BY <1>1, <1>4, <1>5
<1>8. \A m \in DOMAIN children : PathTo[m] = path <=> m = node
  BY <1>1, <1>7
<1>9. ASSUME NEW s \in Sources, NEW i \in Stacks(s), IsPrefix(path, Names(i))
      PROVE  node \in DOMAIN children
  <2>1. \E m \in DOMAIN children : PathTo[m] = path
    BY <1>2, <1>6, <1>9, BeginningsHaveNodes
  <2> QED BY <1>8, <2>1
<1>10. ~IsPrefix(path, t)
  <2>1. Len(path) = Len(t) + 1 /\ Len(t) \in Nat
    BY <1>3, <1>5, <1>6
  <2> QED BY <2>1 DEF IsPrefix
<1>11. \A m \in DOMAIN children : PathTo[m] \in Seq(S)
  BY <1>2, PathTyped
<1>12. IsPrefix(path, path)
  BY <1>6, PrefixFacts
<1>13. \A s : \A i \in Stacks(s) : i \in DOMAIN seen /\ (i # n => Names(i)' = Names(i))
  BY DEF Stacks
<1>14. ASSUME NEW m, NEW s \in Sources, NEW i \in Stacks(s)
       PROVE  (m \in DOMAIN children' /\ IsPrefix(PathTo'[m], Names(i)')) <=>
              \/ m \in DOMAIN children /\ IsPrefix(PathTo[m], Names(i))
              \/ m = node /\ i = n
  <2>1. CASE i # n
    <3>1. PICK u : u = Names(i)
      OBVIOUS
    <3>2. Names(i)' = u
      BY <1>13, <2>1, <3>1
    <3>3. CASE m \in DOMAIN children
      BY <1>1, <2>1, <3>1, <3>2, <3>3
    <3>4. CASE m \notin DOMAIN children
      <4>1. m \in DOMAIN children' => m = node
        BY <1>1, <3>4
      <4>2. m = node => ~IsPrefix(path, u)
        BY <1>9, <3>1, <3>4
      <4> QED BY <1>7, <2>1, <3>2, <3>4, <4>1, <4>2
    <3> QED BY <3>3, <3>4
  <2>2. CASE i = n
    <3>1. CASE m \in DOMAIN children
      <4>1. PICK p \in Seq(S) : p = PathTo[m]
        BY <1>11, <3>1
      <4>2. IsPrefix(p, Append(t, fname)) <=> IsPrefix(p, t) \/ p = Append(t, fname)
        BY <1>3, <1>6, PrefixOfAppend
      <4>3. PathTo'[m] = p /\ m \in DOMAIN children'
        BY <1>1, <3>1, <4>1
      <4>4. Names(i) = t /\ Names(i)' = path
        BY <1>4, <1>7, <2>2
      <4> QED BY <1>5, <1>8, <2>2, <3>1, <4>1, <4>2, <4>3, <4>4
    <3>2. CASE m \notin DOMAIN children
      <4>1. m \in DOMAIN children' <=> m = node
        BY <1>1, <3>2
      <4>2. Names(i)' = path
        BY <1>7, <2>2
      <4> QED BY <1>7, <1>12, <2>2, <3>2, <4>1, <4>2
    <3> QED BY <3>1, <3>2
  <2> QED BY <2>1, <2>2
<1>15. ASSUME NEW m, NEW s \in Sources
       PROVE  StacksThrough(m, s)' =
              StacksThrough(m, s) \cup (IF m = node /\ s = source THEN {n} ELSE {})
  <2>1. StacksThrough(m, s)' =
          {i \in Stacks(s)' : m \in DOMAIN children' /\ IsPrefix(PathTo'[m], Names(i)')}
    BY DEF StacksThrough, IsPrefix
  <2>2. Stacks(s)' = Stacks(s) /\ (n \in Stacks(s) <=> s = source)
    OBVIOUS
  <2> QED BY <1>14, <2>1, <2>2 DEF StacksThrough
<1>16. \A s : n \notin StacksThrough(node, s)
  <2>1. n \in StacksThrough(node, source) => node \in DOMAIN children /\ IsPrefix(PathTo[node], Names(n))
    BY DEF StacksThrough
  <2>2. \A s : StacksThrough(node, s) \subseteq Stacks(s)
    BY DEF StacksThrough
  <2>3. n \notin StacksThrough(node, source)
    BY <1>4, <1>8, <1>10, <2>1
  <2> QED BY <2>2, <2>3
<1>17. ASSUME Complete' = Complete, n \notin Complete, NEW m, NEW s \in Sources
       PROVE  StacksAt(m, s)' = StacksAt(m, s)
  <2>1. ASSUME NEW i \in Stacks(s) \cap Complete
        PROVE  (m \in DOMAIN children' /\ PathTo'[m] = Names(i)') <=>
               (m \in DOMAIN children /\ PathTo[m] = Names(i))
    <3>1. i # n /\ Names(i)' = Names(i)
      BY <1>13, <1>17
    <3>2. CASE m \in DOMAIN children
      BY <1>1, <3>1, <3>2
    <3>3. CASE m \notin DOMAIN children
      <4>1. m \in DOMAIN children' => m = node
        BY <1>1, <3>3
      <4>2. m = node => Names(i) # path
        BY <1>9, <1>12, <3>3
      <4> QED BY <1>7, <3>1, <3>3, <4>1, <4>2
    <3> QED BY <3>2, <3>3
  <2>2. Stacks(s)' \cap Complete' = Stacks(s) \cap Complete
    BY <1>17
  <2> QED BY <2>1, <2>2 DEF StacksAt
<1>18. Paths' = Paths \cup {path}
  <2>1. PICK I : I = UNION {Stacks(s) : s \in Sources}
    OBVIOUS
  <2>2. (UNION {Stacks(s) : s \in Sources})' = I
    BY <2>1
  <2>3. n \in I
    <3>1. source \in Sources /\ n \in Stacks(source)
      BY DEF TypeOK
    <3> QED BY <2>1, <3>1
  <2>4. \A i \in I : i # n => Prefixes(Names(i))' = Prefixes(Names(i))
    BY <1>13, <2>1 DEF Prefixes
  <2>5. Prefixes(Names(n))' = Prefixes(Names(n)) \cup {path}
    <3>1. Prefixes(path) = Prefixes(t) \cup {path}
      BY <1>3, <1>5, <1>6, PrefixesOfAppend
    <3>2. Prefixes(Names(n))' = Prefixes(path)
      BY <1>7 DEF Prefixes
    <3> QED BY <1>4, <3>1, <3>2
  <2>6. Paths' = {<<>>} \cup UNION {Prefixes(Names(i))' : i \in I}
    BY <2>2 DEF Paths, Prefixes
  <2>7. Paths = {<<>>} \cup UNION {Prefixes(Names(i)) : i \in I}
    BY <2>1 DEF Paths
  <2>8. ASSUME NEW p PROVE p \in Paths' <=> p \in Paths \cup {path}
    <3>1. p \in Paths' <=> p = <<>> \/ \E i \in I : p \in Prefixes(Names(i))'
      BY <2>6
    <3>2. p \in Paths <=> p = <<>> \/ \E i \in I : p \in Prefixes(Names(i))
      BY <2>7
    <3> QED BY <2>3, <2>4, <2>5, <3>1, <3>2
  <2>9. PICK A, B : A = Paths' /\ B = Paths
    OBVIOUS
  <2>10. A = B \cup {path}
    BY <2>8, <2>9
  <2> QED BY <2>9, <2>10
<1>19. TreeInv'
  <2>1. {PathTo[m] : m \in DOMAIN children} = Paths
    BY DEF TreeInv
  <2>2. {PathTo'[m] : m \in DOMAIN children'} = Paths'
    BY <1>1, <1>7, <1>18, <2>1
  <2>3. /\ \A m, q \in DOMAIN children' : \A i \in DOMAIN children'[m], j \in DOMAIN children'[q] :
             children'[m][i] = children'[q][j] => m = q /\ i = j
        /\ \A m \in DOMAIN nodes' : \E p \in 0 .. m - 1 : m \in Range(children'[p])
    BY <1>1 DEF NodesLinked
  <2> QED BY <1>1, <2>2, <2>3 DEF TreeInv
<1>20. node \in DOMAIN children'
  BY <1>1
<1> QED BY <1>1, <1>7, <1>15, <1>16, <1>17, <1>19, <1>20 DEF NodeFollows

\* A frame of a stack: it is counted for what it belongs to, for its node and, from
\* both sides, for its call.
LEMMA FrameStep ==
  ASSUME IInv, Frame
  PROVE  IInv'
PROOF
<1>0. TypeOK /\ VectorsInv /\ StackInv /\ CountsInv /\ TreeInv /\ FilesInv /\ ProgressInv
  BY DEF IInv
<1>1. PICK fr \in Frames :
        /\ CreateFor(fr) /\ SetFileOf(IdsOf(fr)) /\ SeesFrame(fr)
        /\ GetOrAppendChild(previous.node, IdsOf(fr).function)
        /\ total' = Incremented(total, counted(IdsOf(fr))
                      \cup {<<"node", NodeFor(previous.node, IdsOf(fr).function)>>}
                      \cup called_from(previous.function, IdsOf(fr).function))
        /\ previous' = [module |-> IdsOf(fr).module, function |-> IdsOf(fr).function,
                        node |-> NodeFor(previous.node, IdsOf(fr).function),
                        file |-> IdsOf(fr).file, line |-> IdsOf(fr).line]
  BY DEF Frame, SeesFrame, previous_file
<1>2. pc = "stack" /\ UNCHANGED <<pc, source, samples_left, self, progress>>
  BY DEF Frame
<1>3. PICK ids, g, parent, node, caller :
        /\ ids = IdsOf(fr) /\ g = ids.function /\ parent = previous.node
        /\ node = NodeFor(parent, g) /\ caller = previous.function
  OBVIOUS
<1>4. PICK n, p0 : n = Len(seen) /\ p0 = <<n, Len(Current.frames) + 1>>
  OBVIOUS
<1>5. /\ seen' \in Seq(Samples) /\ n \in DOMAIN seen /\ DOMAIN seen' = DOMAIN seen /\ Len(seen') = n
      /\ seen[n].kind = "stack" /\ seen[n].source = source
      /\ seen'[n].kind = "stack" /\ seen'[n].source = source
      /\ seen'[n].frames = Append(seen[n].frames, fr)
      /\ seen[n].frames \in Seq(Frames)
      /\ \A i \in DOMAIN seen : i # n => seen'[i] = seen[i] /\ Names(i)' = Names(i)
      /\ Names(n)' = Append(Names(n), NameOf(fr))
      /\ PlacesGrow({p0}) /\ FrameAt(p0)' = fr /\ NewestPlace(p0)
      /\ InnermostStay /\ ~Innermost(p0)'
      /\ \A s : Stacks(s)' = Stacks(s) /\ (n \in Stacks(s) <=> s = source)
      /\ Complete' = Complete /\ n \notin Complete
      /\ p0[1] = n
      /\ KnownFramesStay => CallerAt(p0)' = caller
  <2>1. TypeOK /\ VectorsInv /\ StackInv /\ pc = "stack" /\ pc' = "stack" /\ SeesFrame(fr)
    BY <1>0, <1>1, <1>2
  <2>2. NextPlace(n, p0)
    BY <1>4 DEF NextPlace
  <2>3. FrameTaken(fr, n, p0)
    BY ONLY <2>1, <2>2, StackFrame, fr \in Frames
  <2> QED BY <1>3, <2>3 DEF FrameTaken
<1>6. /\ VectorsTyped' /\ VectorsInv' /\ FilesInv'
      /\ KnownFramesStay
      /\ ids = Ids(FrameAt(p0))' /\ ids.function \in DOMAIN functions'
      /\ FunctionName(ids.function)' = NameOf(fr)
      /\ \A f \in DOMAIN functions :
           f \in DOMAIN functions' /\ FunctionName(f)' = FunctionName(f)
  <2>1. ids = IdsOf(fr)
    BY <1>3
  <2> QED BY <1>0, <1>1, <1>5, <2>1, NewFrame
<1>7. PICK fname : fname = FunctionName(g)'
  OBVIOUS
<1>8. /\ g \in DOMAIN functions' /\ fname = NameOf(fr) /\ g # 0
  <2>1. FunctionName(g)' = FunctionName(ids.function)'
    BY <1>3 DEF FunctionName
  <2>2. DOMAIN functions' = 1 .. Len(functions')
    BY <1>6 DEF VectorsTyped
  <2> QED BY <1>3, <1>6, <1>7, <2>1, <2>2
<1>9. /\ TreeInv' /\ NodesLinked'
      /\ node \in DOMAIN children' /\ node \in Nat \ {0} /\ PathTo'[node] = Names(n)'
      /\ \A m, s : s \in Sources => StacksThrough(m, s)' =
           StacksThrough(m, s) \cup (IF m = node /\ s = source THEN {n} ELSE {})
      /\ \A s : n \notin StacksThrough(node, s)
      /\ \A m, s : s \in Sources => StacksAt(m, s)' = StacksAt(m, s)
  <2>1. parent \in DOMAIN children /\ PathTo[parent] = Names(n)
    <3>1. Names(Len(seen)) = Names(n)
      BY <1>4
    <3> QED BY <1>0, <1>2, <1>3, <3>1 DEF StackInv
  <2>2. /\ n \in DOMAIN seen
        /\ \A s : Stacks(s)' = Stacks(s) /\ (n \in Stacks(s) <=> s = source)
        /\ \A i \in DOMAIN seen : i # n => Names(i)' = Names(i)
    BY <1>5
  <2>3. g \in DOMAIN functions' /\ GetOrAppendChild(parent, g)
    BY <1>1, <1>3, <1>8
  <2>4. Names(n)' = Append(Names(n), FunctionName(g)')
    BY <1>5, <1>7, <1>8
  <2>5. FrameFollows(n, parent, g)
    BY <2>1, <2>2, <2>3, <2>4 DEF FrameFollows
  <2>6. TypeOK /\ TreeInv /\ VectorsTyped' /\ VectorsDistinct' /\ FunctionsStay
    BY <1>0, <1>6 DEF VectorsInv, FunctionsStay
  <2>7. node = NodeFor(parent, g)
    BY <1>3
  <2>8. NodeFollows(n, node)
    BY ONLY <2>5, <2>6, <2>7, TreeOfFrame
  <2>9. Complete' = Complete /\ n \notin Complete
    BY <1>5
  <2> QED BY <2>8, <2>9 DEF NodeFollows
<1>10. PICK K : K = counted(ids) \cup {<<"node", node>>} \cup called_from(caller, g)
  OBVIOUS
<1>11. /\ \A kind \in FrameKinds : \A id : <<kind, id>> \in K <=> <<kind, id>> \in counted(ids)
       /\ \A m : <<"node", m>> \in K <=> m = node
       /\ \A a, b : <<"callee", <<a, b>>>> \in K <=> a = caller /\ b = g
       /\ \A a, b : <<"caller", <<b, a>>>> \in K <=> a = caller /\ b = g
       /\ \A k \in K : k = <<k[1], k[2]>>
       /\ <<"function", 0>> \notin K
  <2>1. \A k \in counted(ids) : k = <<k[1], k[2]>> /\ k[1] \in FrameKinds
    BY CountedPairs
  <2>2. <<"function", 0>> \notin counted(ids)
    BY <1>3, <1>8, CountedPairs
  <2>3. called_from(caller, g) =
          {<<"callee", <<caller, g>>>>, <<"caller", <<g, caller>>>>}
    BY DEF called_from
  <2>4. \A kind, id : <<kind, id>> \in counted(ids) => kind \in FrameKinds
    BY <2>1
  <2>5. K = counted(ids) \cup {<<"node", node>>, <<"callee", <<caller, g>>>>, <<"caller", <<g, caller>>>>}
    BY <1>10, <2>3
  <2>6. \A kind, id : <<kind, id>> \in K <=>
          \/ <<kind, id>> \in counted(ids)
          \/ kind = "node" /\ id = node
          \/ kind = "callee" /\ id = <<caller, g>>
          \/ kind = "caller" /\ id = <<g, caller>>
    BY <2>5
  <2>7. \A k \in K : k = <<k[1], k[2]>>
    BY <2>1, <2>5
  <2>8. FrameKinds \cap {"node", "callee", "caller"} = {}
    BY DEF FrameKinds
  <2>9. /\ \A kind \in FrameKinds : \A id : <<kind, id>> \in K <=> <<kind, id>> \in counted(ids)
        /\ \A m : <<"node", m>> \in K <=> m = node
    BY <2>4, <2>6, <2>8
  <2>10. /\ \A a, b : <<"callee", <<a, b>>>> \in K <=> <<a, b>> = <<caller, g>>
         /\ \A a, b : <<"caller", <<b, a>>>> \in K <=> <<b, a>> = <<g, caller>>
    BY <2>4, <2>6, <2>8
  <2>11. <<"function", 0>> \notin K
    BY <2>2, <2>6
  <2> QED BY <2>7, <2>9, <2>10, <2>11
<1>12. /\ total' \in [DOMAIN total' -> Nat]
       /\ \A kind, id, s : Total(kind, id, s)' =
               Total(kind, id, s) + (IF s = source /\ <<kind, id>> \in K THEN 1 ELSE 0)
  <2>1. total' = Incremented(total, K)
    BY <1>1, <1>3, <1>10
  <2>2. \A k \in K : k = <<k[1], k[2]>>
    BY <1>11
  <2> QED BY <1>0, <2>1, <2>2, TotalStep
<1>13. \A kind, id, s : Total(kind, id, s) \in Nat /\ Self(kind, id, s) \in Nat
  BY <1>0, CountsAreNat
<1>14. \A kind, id, s : Self(kind, id, s)' = Self(kind, id, s)
  BY <1>2 DEF Self, CountOf
<1>15. /\ previous'.module = ids.module /\ previous'.function = g /\ previous'.node = node
       /\ previous'.file = ids.file /\ previous'.line = ids.line
       /\ previous' = [module |-> previous'.module, function |-> previous'.function,
                       node |-> previous'.node, file |-> previous'.file, line |-> previous'.line]
  <2>1. previous' = [module |-> ids.module, function |-> g, node |-> node,
                     file |-> ids.file, line |-> ids.line]
    BY <1>1, <1>3
  <2> QED BY <2>1
<1>16. TypeOK'
  <2>1. nodes' \in Seq(DOMAIN functions') /\ children' \in [0 .. Len(nodes') -> Seq(DOMAIN nodes')]
    BY <1>9 DEF NodesLinked
  <2>2. /\ pc' \in {"samples", "stack", "canceled", "done"} /\ source' \in Sources
        /\ samples_left' \in [Sources -> Nat]
    BY <1>0, <1>2 DEF TypeOK
  <2>3. self' \in [DOMAIN self' -> Nat]
    BY <1>0, <1>2 DEF TypeOK
  <2> QED BY <1>5, <1>6, <1>12, <1>15, <2>1, <2>2, <2>3 DEF TypeOK
<1>17. ProgressInv'
  <2>1. Len(seen') = Len(seen)
    BY <1>4, <1>5
  <2>2. SamplesLeft' = SamplesLeft
    BY <1>2 DEF SamplesLeft
  <2> QED BY <1>0, <1>2, <2>1, <2>2 DEF ProgressInv
<1>18. StackInv'
  <2>1. seen' # <<>>
    BY <1>5
  <2>2. Current' = seen'[n]
    BY <1>5 DEF Current
  <2>3. PICK fs \in Seq(Frames) : fs = seen[n].frames
    BY <1>5
  <2>4. Current'.frames = Append(fs, fr)
    BY <1>5, <2>2, <2>3
  <2>5. Append(fs, fr) # <<>> /\ Last(Append(fs, fr)) = fr
    BY <2>3 DEF Last
  <2>6. PICK gr : gr = Last(Current'.frames)
    OBVIOUS
  <2>7. gr = fr
    BY <2>4, <2>5, <2>6
  <2>8. Ids(Last(Current.frames))' = ids
    <3>1. Ids(FrameAt(p0))' = Ids(fr)'
      BY <1>5 DEF Ids
    <3>2. Ids(Last(Current.frames))' = Ids(fr)'
      BY <2>6, <2>7 DEF Ids
    <3> QED BY <1>6, <3>1, <3>2
  <2>9. Current'.frames # <<>>
    BY <2>4, <2>5
  <2>10. PathTo'[previous'.node] = Names(Len(seen))'
    <3>1. Names(Len(seen))' = Names(n)'
      BY <1>5 DEF Names
    <3> QED BY <1>9, <1>15, <3>1
  <2>11. previous'.node \in DOMAIN children'
    BY <1>9, <1>15
  <2>12. Current'.kind = "stack" /\ Current'.source = source'
    BY <1>2, <1>5, <2>2
  <2>13. previous' = [module |-> ids.module, function |-> ids.function,
                      node |-> previous'.node, file |-> ids.file, line |-> ids.line]
    BY <1>3, <1>15
  <2> QED BY <2>1, <2>8, <2>9, <2>10, <2>11, <2>12, <2>13 DEF StackInv
<1>19. RootCounts'
  <2>1. \A s : Total("function", 0, s)' = Total("function", 0, s)
    BY <1>11, <1>12, <1>13
  <2>2. \A s : {i \in Stacks(s) \cap Complete : seen[i].frames = <<>>}' =
               {i \in Stacks(s) \cap Complete : seen[i].frames = <<>>}
    <3>1. \A s : \A i \in Stacks(s) \cap Complete : i \in DOMAIN seen /\ i # n
      BY <1>5 DEF Stacks
    <3>2. \A s : \A i \in Stacks(s) \cap Complete : seen'[i].frames = seen[i].frames
      BY <1>5, <3>1
    <3>3. \A s : Stacks(s)' \cap Complete' = Stacks(s) \cap Complete
      BY <1>5
    <3> QED BY <3>2, <3>3
  <2>3. \A s : Stacks(s)' = Stacks(s)
    BY <1>5
  <2> QED BY <1>0, <1>14, <2>1, <2>2, <2>3 DEF RootCounts, CountsInv
<1>20. seen \in Seq(Samples)
  BY <1>0 DEF TypeOK
<1>21. CallCounts'
  <2>1. FunctionAt(p0)' = g /\ CallerAt(p0)' = caller
    <3>1. FunctionAt(p0)' = Ids(FrameAt(p0))'.function
      BY DEF FunctionAt
    <3> QED BY <1>3, <1>5, <1>6, <3>1
  <2>2. \A a, b, s : CallsOf(a, b, s)' = CallsOf(a, b, s) \cup
              (IF s = source /\ p0[1] \in Stacks(s)' /\ FunctionAt(p0)' = b /\ CallerAt(p0)' = a
               THEN {p0} ELSE {})
    BY <1>0, <1>5, <1>6, <1>20, OnePlaceMore
  <2>3. \A a, b, s : p0 \notin CallsOf(a, b, s) /\ IsFiniteSet(CallsOf(a, b, s))
    BY <1>0, <1>5, <1>6, <1>20, OnePlaceMore, CountedAreFinite
  <2>4. ASSUME NEW s \in Sources, NEW a, NEW b, NEW t \in Nat, NEW u,
               t = Cardinality(CallsOf(a, b, s)),
               u = t + (IF s = source /\ a = caller /\ b = g THEN 1 ELSE 0)
        PROVE  u = Cardinality(CallsOf(a, b, s)')
    <3>1. CASE s = source /\ a = caller /\ b = g
      <4>1. CallsOf(a, b, s)' = CallsOf(a, b, s) \cup {p0}
        BY <1>5, <2>1, <2>2, <3>1
      <4>2. Cardinality(CallsOf(a, b, s) \cup {p0}) = Cardinality(CallsOf(a, b, s)) + 1
        BY <2>3, OneMore
      <4> QED BY <2>4, <3>1, <4>1, <4>2
    <3>2. CASE ~(s = source /\ a = caller /\ b = g)
      <4>1. CallsOf(a, b, s)' = CallsOf(a, b, s)
        BY <2>1, <2>2, <3>2
      <4>2. u = t
        BY <2>4, <3>2
      <4> QED BY <2>4, <4>1, <4>2
    <3> QED BY <3>1, <3>2
  <2>5. ASSUME NEW s \in Sources, NEW a, NEW b
        PROVE  /\ Total("callee", <<a, b>>, s)' = Cardinality(CallsOf(a, b, s)')
               /\ Total("caller", <<b, a>>, s)' = Cardinality(CallsOf(a, b, s)')
    <3>1. PICK t, u : t = Total("callee", <<a, b>>, s) /\ u = Total("caller", <<b, a>>, s)
      OBVIOUS
    <3>2. /\ t \in Nat /\ t = Cardinality(CallsOf(a, b, s))
          /\ u \in Nat /\ u = Cardinality(CallsOf(a, b, s))
      BY <1>0, <1>13, <3>1 DEF CallCounts, CountsInv
    <3>3. Total("callee", <<a, b>>, s)' = t + (IF s = source /\ a = caller /\ b = g THEN 1 ELSE 0)
      <4>1. Total("callee", <<a, b>>, s)' =
              t + (IF s = source /\ <<"callee", <<a, b>>>> \in K THEN 1 ELSE 0)
        BY <1>12, <3>1
      <4> QED BY <1>11, <4>1
    <3>4. Total("caller", <<b, a>>, s)' = u + (IF s = source /\ a = caller /\ b = g THEN 1 ELSE 0)
      <4>1. Total("caller", <<b, a>>, s)' =
              u + (IF s = source /\ <<"caller", <<b, a>>>> \in K THEN 1 ELSE 0)
        BY <1>12, <3>1
      <4> QED BY <1>11, <4>1
    <3> QED BY <2>4, <3>2, <3>3, <3>4
  <2> QED BY <2>5 DEF CallCounts
<1>22. NodeCounts'
  <2>1. ASSUME NEW s \in Sources, NEW m \in Nat
        PROVE  Total("node", m, s)' = Cardinality(StacksThrough(m, s)')
    <3>1. Total("node", m, s) = Cardinality(StacksThrough(m, s)) /\ Total("node", m, s) \in Nat
      BY <1>0, <1>13 DEF CountsInv, NodeCounts
    <3>2. Total("node", m, s)' = Total("node", m, s) + (IF s = source /\ m = node THEN 1 ELSE 0)
      BY <1>11, <1>12
    <3>3. StacksThrough(m, s)' = StacksThrough(m, s) \cup (IF m = node /\ s = source THEN {n} ELSE {})
      BY <1>9
    <3>4. IsFiniteSet(StacksThrough(m, s))
      <4>1. StacksThrough(m, s) \in SUBSET Stacks(s)
        BY DEF StacksThrough
      <4> QED BY <1>20, <4>1, PlacesAreFinite, FS_Subset
    <3>5. CASE s = source /\ m = node
      <4>1. n \notin StacksThrough(m, s)
        BY <1>9, <3>5
      <4>2. Cardinality(StacksThrough(m, s) \cup {n}) = Cardinality(StacksThrough(m, s)) + 1
        BY <3>4, <4>1, OneMore
      <4> QED BY <3>1, <3>2, <3>3, <3>5, <4>2
    <3>6. CASE ~(s = source /\ m = node)
      <4>1. StacksThrough(m, s)' = StacksThrough(m, s)
        BY <3>3, <3>6
      <4>2. Total("node", m, s)' = Total("node", m, s)
        BY <3>1, <3>2, <3>6
      <4> QED BY <3>1, <4>1, <4>2
    <3> QED BY <3>5, <3>6
  <2>2. \A m, s : s \in Sources => StacksAt(m, s)' = StacksAt(m, s)
    BY <1>9
  <2> QED BY <1>0, <1>14, <2>1, <2>2 DEF NodeCounts, CountsInv
<1>23. FrameCounts'
  <2> DEFINE in(kind, id, s) == {p \in CountedFor(kind, id, s) : Innermost(p)}
  <2>1. ASSUME NEW s \in Sources, NEW kind \in FrameKinds, NEW id, <<kind, id>> # <<"function", 0>>
        PROVE  /\ Total(kind, id, s)' = Cardinality(CountedFor(kind, id, s)')
               /\ Self(kind, id, s)' = Cardinality(in(kind, id, s)')
    <3>1. /\ CountedFor(kind, id, s)' = CountedFor(kind, id, s) \cup
               (IF s = source /\ <<kind, id>> \in counted(ids) THEN {p0} ELSE {})
          /\ Total(kind, id, s)' = Cardinality(CountedFor(kind, id, s)')
      <4>1. \A k \in FrameKinds : \A i : <<k, i>> # <<"function", 0>> =>
              (<<k, i>> \in K <=> <<k, i>> \in counted(ids))
        BY <1>11
      <4>2. TypeOK /\ VectorsInv /\ CountsInv /\ KnownFramesStay /\ PlacesGrow({p0})
            /\ ids = Ids(FrameAt(p0))'
        BY <1>0, <1>5, <1>6
      <4>3. \A k, i, t : Total(k, i, t)' =
              Total(k, i, t) + (IF t = source /\ <<k, i>> \in K THEN 1 ELSE 0)
        BY <1>12
      <4> QED BY <2>1, <4>1, <4>2, <4>3, FramesCounted
    <3>2. in(kind, id, s)' = in(kind, id, s)
      <4>1. CountedFor(kind, id, s) \subseteq Places(s)
        BY DEF CountedFor
      <4>2. \A p \in CountedFor(kind, id, s) : Innermost(p)' <=> Innermost(p)
        BY <1>5, <4>1 DEF InnermostStay
      <4>3. ~Innermost(p0)'
        BY <1>5
      <4> QED BY <3>1, <4>2, <4>3
    <3>3. Self(kind, id, s) = Cardinality(in(kind, id, s))
      BY <1>0, <2>1 DEF CountsInv, FrameCounts
    <3> HIDE DEF in
    <3> QED BY <1>14, <3>1, <3>2, <3>3
  <2> QED BY <2>1 DEF FrameCounts
<1> QED BY <1>6, <1>9, <1>16, <1>17, <1>18, <1>19, <1>21, <1>22, <1>23 DEF IInv, CountsInv

-----------------------------------------------------------------------------
(* The invariant *)

LEMMA NothingSeen ==
  ASSUME seen = <<>>
  PROVE  /\ \A s : Places(s) = {} /\ Stacks(s) = {}
         /\ AllPlaces = {} /\ Paths = {<<>>}
PROOF
<1>1. \A s : Places(s) = {} /\ Stacks(s) = {}
  BY DEF Places, Stacks
<1>2. AllPlaces = {}
  BY <1>1 DEF AllPlaces
<1>3. UNION {Stacks(s) : s \in Sources} = {}
  BY <1>1
<1>4. Paths = {<<>>}
  <2>1. {Prefixes(Names(i)) : i \in UNION {Stacks(s) : s \in Sources}} = {}
    BY <1>3
  <2> QED BY <2>1 DEF Paths
<1> QED BY <1>1, <1>2, <1>4

LEMMA StartsRight ==
  ASSUME Init
  PROVE  IInv
PROOF
<1>1. /\ pc = "samples" /\ source = 1 /\ seen = <<>>
      /\ modules = <<>> /\ functions = <<>> /\ file_of = <<>> /\ files = <<>> /\ nodes = <<>>
      /\ children = [n \in {0} |-> <<>>]
      /\ total = [c \in {} |-> 0] /\ self = [c \in {} |-> 0] /\ previous = NoPrevious
  BY DEF Init
<1>2. samples_left \in [Sources -> Nat]
  <2>1. samples_left \in [Sources -> 0 .. MaxSamples]
    BY DEF Init
  <2> QED BY <2>1, BoundsAssumption
<1>3. progress = Reporter(SamplesLeft, Resolution)
  BY DEF Init, SamplesLeft, SumOf
<1>4. /\ \A s : Places(s) = {} /\ Stacks(s) = {}
      /\ AllPlaces = {} /\ Paths = {<<>>}
  BY <1>1, NothingSeen
<1>5. /\ Len(nodes) = 0 /\ DOMAIN nodes = {} /\ DOMAIN functions = {} /\ DOMAIN modules = {}
      /\ DOMAIN files = {} /\ DOMAIN file_of = {}
      /\ DOMAIN children = {0} /\ children[0] = <<>> /\ 0 .. 0 = {0}
  BY <1>1
<1>6. VectorsTyped
  <2>1. file_of \in [DOMAIN functions -> {0} \cup DOMAIN files]
    BY <1>1, <1>5
  <2> QED BY <1>1, <2>1 DEF VectorsTyped
<1>7. nodes \in Seq(DOMAIN functions) /\ children \in [0 .. Len(nodes) -> Seq(DOMAIN nodes)]
  BY <1>1, <1>5
<1>8. TypeOK
  <2>1. source \in Sources
    BY <1>1, BoundsAssumption DEF Sources
  <2>2. total \in [DOMAIN total -> Nat] /\ self \in [DOMAIN self -> Nat]
    BY <1>1
  <2>3. previous = [module |-> previous.module, function |-> previous.function,
                    node |-> previous.node, file |-> previous.file, line |-> previous.line]
    BY <1>1 DEF NoPrevious
  <2> QED BY <1>1, <1>2, <1>6, <1>7, <2>1, <2>2, <2>3 DEF TypeOK
<1>9. VectorsInv
  BY <1>1, <1>4 DEF VectorsInv, VectorsDistinct, Distinct
<1>10. StackInv
  BY <1>1 DEF StackInv
<1>11. \A kind, id, s : Total(kind, id, s) = 0 /\ Self(kind, id, s) = 0
  BY <1>1 DEF Total, Self, CountOf
<1>12. CountsInv
  <2>1. Cardinality({}) = 0
    BY FS_EmptySet
  <2>2. FrameCounts
    <3>1. \A kind, id, s : /\ CountedFor(kind, id, s) = {}
                           /\ {p \in CountedFor(kind, id, s) : Innermost(p)} = {}
      BY <1>4 DEF CountedFor
    <3> QED BY <1>11, <2>1, <3>1 DEF FrameCounts
  <2>3. RootCounts
    <3>1. \A s : {i \in Stacks(s) \cap Complete : seen[i].frames = <<>>} = {}
      BY <1>4
    <3> QED BY <1>4, <1>11, <2>1, <3>1 DEF RootCounts
  <2>4. CallCounts
    <3>1. \A f, g, s : CallsOf(f, g, s) = {}
      BY <1>4 DEF CallsOf
    <3> QED BY <1>11, <2>1, <3>1 DEF CallCounts
  <2>5. NodeCounts
    <3>1. \A n, s : StacksThrough(n, s) = {} /\ StacksAt(n, s) = {}
      BY <1>4 DEF StacksThrough, StacksAt
    <3> QED BY <1>11, <2>1, <3>1 DEF NodeCounts
  <2> QED BY <2>2, <2>3, <2>4, <2>5 DEF CountsInv
<1>13. TreeInv
  <2>1. DOMAIN children[0] = {}
    BY <1>5
  <2>2. \A m, n \in DOMAIN children : \A i \in DOMAIN children[m], j \in DOMAIN children[n] :
          children[m][i] = children[n][j] => m = n /\ i = j
    BY <1>5, <2>1
  <2>3. \A n \in DOMAIN nodes : \E p \in 0 .. n - 1 : n \in Range(children[p])
    BY <1>5
  <2>4. TreeShape
    BY <1>7, <2>2, <2>3, ShapeOfLinks DEF NodesLinked
  <2>5. PathTo[0] = <<>>
    BY <2>4, PathToIs
  <2>6. {PathTo[n] : n \in DOMAIN children} = {<<>>}
    BY <1>5, <2>5
  <2>7. \A m, n \in DOMAIN children : PathTo[m] = PathTo[n] => m = n
    BY <1>5
  <2> QED BY <1>4, <2>2, <2>3, <2>6, <2>7 DEF TreeInv
<1>14. FilesInv
  BY <1>5 DEF FilesInv
<1>15. ProgressInv
  <2>1. SamplesLeft \in Nat
    BY <1>2, SamplesLeftNat
  <2>2. PICK t \in Nat : t = SamplesLeft
    BY <2>1
  <2>3. PICK r : r = Reporter(t, Resolution)
    OBVIOUS
  <2>4. r \in Reporters /\ OnTime(r) /\ r.total_work = t /\ r.current_work = 0 /\ ~r.finished
    BY <2>3, ReporterStarts
  <2>5. progress = r
    BY <1>3, <2>2, <2>3
  <2>6. Len(seen) = 0
    BY <1>1
  <2>7. \A s \in Sources : ~(s < source)
    BY <1>1 DEF Sources
  <2> QED BY <1>1, <2>2, <2>4, <2>5, <2>6, <2>7 DEF ProgressInv
<1> QED BY <1>8, <1>9, <1>10, <1>12, <1>13, <1>14, <1>15 DEF IInv

LEMMA StutteringStep ==
  ASSUME IInv, UNCHANGED vars
  PROVE  IInv'
PROOF
<1>0. TypeOK /\ VectorsInv /\ StackInv /\ TreeInv /\ FilesInv /\ ProgressInv
  BY DEF IInv
<1>1. UNCHANGED <<pc, source, samples_left, modules, functions, file_of, files, nodes,
                  children, total, self, previous, progress, seen>>
  BY DEF vars, result
<1>2. seen \in Seq(Samples)
  BY <1>0 DEF TypeOK
<1>3. /\ PlacesGrow({})
      /\ \A s : Stacks(s)' = Stacks(s)
      /\ \A i : Names(i)' = Names(i)
      /\ Complete' = Complete /\ InnermostStay
  BY <1>1, <1>2, SeenUnchanged
<1>4. Quiet /\ SameStacks /\ seen' \in Seq(Samples)
  BY <1>1, <1>2, <1>3 DEF Quiet, SameStacks
<1>5. /\ VectorsTyped' /\ VectorsInv' /\ CountsInv' /\ TreeInv' /\ FilesInv'
      /\ nodes' \in Seq(DOMAIN functions') /\ children' \in [0 .. Len(nodes') -> Seq(DOMAIN nodes')]
  BY <1>1, <1>4, <1>3, SameCounts
<1>6. TypeOK'
  BY <1>0, <1>1, <1>5 DEF TypeOK
<1>7. StackInv'
  <2>1. \A n \in DOMAIN children : PathTo'[n] = PathTo[n]
    BY <1>0, <1>4, QuietStep
  <2>2. Ids(Last(Current.frames))' = Ids(Last(Current.frames))
    BY <1>1 DEF Ids, Current, Last
  <2>3. Current' = Current
    BY <1>1 DEF Current
  <2>4. Names(Len(seen))' = Names(Len(seen))
    BY <1>1 DEF Names
  <2> QED BY <1>0, <1>1, <2>1, <2>2, <2>3, <2>4 DEF StackInv
<1>8. ProgressInv'
  <2>1. SamplesLeft' = SamplesLeft
    BY <1>1 DEF SamplesLeft
  <2> QED BY <1>0, <1>1, <2>1 DEF ProgressInv
<1> QED BY <1>5, <1>6, <1>7, <1>8 DEF IInv

LEMMA AnalysisStep == IInv /\ [Next]_vars => IInv'
PROOF
<1> SUFFICES ASSUME IInv, [Next]_vars PROVE IInv'
  OBVIOUS
<1>1. CASE StartStack
  BY <1>1, StartStackStep
<1>2. CASE Frame
  BY <1>2, FrameStep
<1>3. CASE EndStack
  BY <1>3, EndStackStep
<1>4. CASE FrameOnly
  BY <1>4, FrameOnlyStep
<1>5. CASE Neither
  BY <1>5, NeitherStep
<1>6. CASE NextSource
  BY <1>6, NextSourceStep
<1>7. CASE Abandon
  BY <1>7, AbandonStep
<1>8. CASE Finish
  BY <1>8, FinishStep
<1>9. CASE UNCHANGED vars
  BY <1>9, StutteringStep
<1> QED BY <1>1, <1>2, <1>3, <1>4, <1>5, <1>6, <1>7, <1>8, <1>9 DEF Next

\* What the vectors, the counters, the tree and the progress are holds in every state:
\* every counter is the number of the frames, calls or stacks it counts, each node
\* stands for another beginning of a stack, and samples seen and to come are the work.
THEOREM AnalysisInvariant == Spec => []IInv
PROOF BY StartsRight, AnalysisStep, PTL DEF Spec

-----------------------------------------------------------------------------
(* What the invariant says of the answers *)

LEMMA TreeIsOfPrefixes == IInv => TreeOfPrefixes
PROOF
<1> SUFFICES ASSUME IInv PROVE TreeOfPrefixes
  OBVIOUS
<1>1. TypeOK /\ TreeInv /\ NodeCounts
  BY DEF IInv, CountsInv
<1>2. DOMAIN children \subseteq Nat
  BY <1>1 DEF TypeOK
<1>3. ASSUME NEW n \in DOMAIN children, NEW s \in Sources
      PROVE  /\ Total("node", n, s) = Cardinality({i \in Stacks(s) : IsPrefix(PathTo[n], Names(i))})
             /\ Self("node", n, s) = Cardinality({i \in Stacks(s) \cap Complete : PathTo[n] = Names(i)})
  <2>1. /\ Total("node", n, s) = Cardinality(StacksThrough(n, s))
        /\ Self("node", n, s) = Cardinality(StacksAt(n, s))
    BY <1>1, <1>2 DEF NodeCounts
  <2>2. /\ StacksThrough(n, s) = {i \in Stacks(s) : IsPrefix(PathTo[n], Names(i))}
        /\ StacksAt(n, s) = {i \in Stacks(s) \cap Complete : PathTo[n] = Names(i)}
    BY DEF StacksThrough, StacksAt
  <2> QED BY <2>1, <2>2
<1>4. {PathTo[n] : n \in DOMAIN children} = Paths
  BY <1>1 DEF TreeInv
<1>5. \A m, n \in DOMAIN children : \A i \in DOMAIN children[m], j \in DOMAIN children[n] :
        children[m][i] = children[n][j] => m = n /\ i = j
  BY <1>1 DEF TreeInv
<1>6. \A m, n \in DOMAIN children : PathTo[m] = PathTo[n] => m = n
  BY <1>1 DEF TreeInv
<1> QED BY <1>3, <1>4, <1>5, <1>6 DEF TreeOfPrefixes, Paths

\* What the frames of the samples are counted for, in the words of the properties.
FramesHaveIds ==
  \A s \in Sources : \A p \in Places(s) :
    LET fr  == FrameAt(p)
        ids == Ids(fr)
    IN  /\ fr \in Frames /\ ids.line = fr.line
        /\ FunctionNamed(NameOf(fr)) = ids.function
        /\ ids.function \in DOMAIN functions /\ ids.function # 0
        /\ \A m \in DOMAIN modules : fr.module = modules[m] <=> ids.module = m
        /\ ids.file = 0 <=> fr.file = NoFile
        /\ \A x \in DOMAIN files : fr.file = files[x] <=> ids.file = x

LEMMA IdsOfFrames == IInv => FramesHaveIds
PROOF
<1> SUFFICES ASSUME IInv, NEW s \in Sources, NEW p \in Places(s), NEW fr, fr = FrameAt(p),
                    NEW ids, ids = Ids(fr)
             PROVE  /\ fr \in Frames /\ ids.line = fr.line
                    /\ FunctionNamed(NameOf(fr)) = ids.function
                    /\ ids.function \in DOMAIN functions /\ ids.function # 0
                    /\ \A m \in DOMAIN modules : fr.module = modules[m] <=> ids.module = m
                    /\ ids.file = 0 <=> fr.file = NoFile
                    /\ \A x \in DOMAIN files : fr.file = files[x] <=> ids.file = x
  BY DEF FramesHaveIds
<1>1. VectorsTyped /\ VectorsDistinct /\ seen \in Seq(Samples)
  BY DEF IInv, TypeOK, VectorsInv
<1>2. fr \in Frames
  BY <1>1, PlaceFacts
<1>3. HasIds(fr)
  <2>1. p \in AllPlaces
    BY DEF AllPlaces
  <2> QED BY <2>1 DEF IInv, VectorsInv
<1>4. /\ ids.module \in DOMAIN modules /\ modules[ids.module] = fr.module
      /\ \A m \in DOMAIN modules : modules[m] = fr.module => m = ids.module
      /\ ids.function \in DOMAIN functions
      /\ FunctionNamed(NameOf(fr)) = ids.function
      /\ IF fr.file = NoFile THEN ids.file = 0
         ELSE /\ ids.file \in DOMAIN files /\ files[ids.file] = fr.file
              /\ \A x \in DOMAIN files : files[x] = fr.file => x = ids.file
      /\ ids.line = fr.line
  <2>1. IdsAreRight
    BY <1>1, IdsFacts
  <2> QED BY <1>2, <1>3, <2>1 DEF IdsAreRight
<1>5. \A f \in DOMAIN functions : f # 0
  BY <1>1 DEF VectorsTyped
<1>6. \A x \in DOMAIN files : x # 0 /\ files[x] # NoFile
  <2>1. files \in Seq({gr.file : gr \in Frames} \ {NoFile})
    BY <1>1 DEF VectorsTyped
  <2>2. PICK F : F = {gr.file : gr \in Frames} \ {NoFile}
    OBVIOUS
  <2>3. files \in Seq(F) /\ NoFile \notin F
    BY <2>1, <2>2
  <2> QED BY <2>3
<1>7. ids.file = 0 <=> fr.file = NoFile
  BY <1>4, <1>6
<1>8. \A x \in DOMAIN files : fr.file = files[x] <=> ids.file = x
  BY <1>4, <1>6
<1> QED BY <1>2, <1>4, <1>5, <1>7, <1>8

LEMMA FunctionsAreCounted == IInv => FunctionsCounted
PROOF
<1> SUFFICES ASSUME IInv PROVE FunctionsCounted
  OBVIOUS
<1>0. FrameCounts /\ RootCounts /\ CallCounts /\ seen \in Seq(Samples)
  BY DEF IInv, CountsInv, TypeOK
<1>1. FramesHaveIds
  BY IdsOfFrames
<1>2. ASSUME NEW f \in DOMAIN functions
      PROVE  CountsFrames("function", f, LAMBDA fr : FunctionNamed(NameOf(fr)) = f)
  <2>1. ASSUME NEW s \in Sources
        PROVE  CountedFor("function", f, s) = {p \in Places(s) : FunctionNamed(NameOf(FrameAt(p))) = f}
    <3>1. \A ids : <<"function", f>> \in counted(ids) <=> ids.function = f
      BY DEF counted
    <3> QED BY <1>1, <3>1 DEF CountedFor, FramesHaveIds
  <2>2. f # 0
    BY DEF IInv, TypeOK, VectorsTyped
  <2>3. ASSUME NEW s \in Sources
        PROVE  /\ Total("function", f, s) = Cardinality(CountedFor("function", f, s))
               /\ Self("function", f, s) =
                    Cardinality({p \in CountedFor("function", f, s) : Innermost(p)})
    BY <1>0, <2>2 DEF FrameCounts, FrameKinds
  <2> QED BY <2>1, <2>3 DEF CountsFrames
<1>3. ASSUME NEW s \in Sources
      PROVE  /\ Total("function", 0, s) = Cardinality(Stacks(s))
             /\ Self("function", 0, s) =
                  Cardinality({i \in Stacks(s) \cap Complete : seen[i].frames = <<>>})
  BY <1>0 DEF RootCounts
<1>4. ASSUME NEW s \in Sources, NEW g \in DOMAIN functions, NEW f \in {0} \cup DOMAIN functions
      PROVE  /\ Total("callee", <<f, g>>, s) = Total("caller", <<g, f>>, s)
             /\ Total("callee", <<f, g>>, s) =
                  Cardinality({p \in Places(s) :
                    /\ p[1] \in Stacks(s) /\ FunctionNamed(NameOf(FrameAt(p))) = g
                    /\ IF f = 0 THEN p[2] = 1
                       ELSE p[2] > 1 /\ FunctionNamed(NameOf(FrameAt(<<p[1], p[2] - 1>>))) = f})
  <2>1. ASSUME NEW p \in Places(s)
        PROVE  /\ FunctionNamed(NameOf(FrameAt(p))) = FunctionAt(p)
               /\ CallerAt(p) = f <=>
                    IF f = 0 THEN p[2] = 1
                    ELSE p[2] > 1 /\ FunctionNamed(NameOf(FrameAt(<<p[1], p[2] - 1>>))) = f
    <3>1. FunctionNamed(NameOf(FrameAt(p))) = FunctionAt(p)
      BY <1>1 DEF FramesHaveIds, FunctionAt
    <3>2. p[2] \in Nat \ {0} /\ (p[2] # 1 => <<p[1], p[2] - 1>> \in Places(s))
      BY <1>0, PlaceFacts
    <3>3. CASE p[2] = 1
      <4>1. ~(p[2] > 1)
        BY <3>3
      <4> QED BY <3>1, <3>3, <4>1 DEF CallerAt
    <3>4. CASE p[2] # 1
      <4>1. p[2] > 1
        BY <3>2, <3>4
      <4>2. PICK q \in Places(s) : q = <<p[1], p[2] - 1>>
        BY <3>2, <3>4
      <4>3. FunctionNamed(NameOf(FrameAt(q))) = FunctionAt(q) /\ FunctionAt(q) # 0
        BY <1>1 DEF FramesHaveIds, FunctionAt
      <4>4. CallerAt(p) = FunctionAt(q)
        BY <3>4, <4>2 DEF CallerAt
      <4> QED BY <3>1, <3>4, <4>1, <4>2, <4>3, <4>4
    <3> QED BY <3>3, <3>4
  <2>2. CallsOf(f, g, s) =
          {p \in Places(s) :
             /\ p[1] \in Stacks(s) /\ FunctionNamed(NameOf(FrameAt(p))) = g
             /\ IF f = 0 THEN p[2] = 1
                ELSE p[2] > 1 /\ FunctionNamed(NameOf(FrameAt(<<p[1], p[2] - 1>>))) = f}
    BY <2>1 DEF CallsOf
  <2>3. /\ Total("callee", <<f, g>>, s) = Cardinality(CallsOf(f, g, s))
        /\ Total("caller", <<g, f>>, s) = Cardinality(CallsOf(f, g, s))
    BY <1>0 DEF CallCounts
  <2> QED BY <2>2, <2>3
<1> QED BY <1>2, <1>3, <1>4 DEF FunctionsCounted

LEMMA PlacesAreCounted == IInv => PlacesCounted
PROOF
<1> SUFFICES ASSUME IInv PROVE PlacesCounted
  OBVIOUS
<1>0. FrameCounts /\ FilesInv
  BY DEF IInv, CountsInv
<1>1. FramesHaveIds
  BY IdsOfFrames
<1>2. ASSUME NEW kind \in FrameKinds \ {"function"}, NEW id, NEW s \in Sources
      PROVE  /\ Total(kind, id, s) = Cardinality(CountedFor(kind, id, s))
             /\ Self(kind, id, s) = Cardinality({p \in CountedFor(kind, id, s) : Innermost(p)})
  BY <1>0 DEF FrameCounts
<1>3. ASSUME NEW m \in DOMAIN modules
      PROVE  CountsFrames("module", m, LAMBDA fr : fr.module = modules[m])
  <2>1. ASSUME NEW s \in Sources
        PROVE  CountedFor("module", m, s) = {p \in Places(s) : FrameAt(p).module = modules[m]}
    <3>1. \A ids : <<"module", m>> \in counted(ids) <=> ids.module = m
      BY DEF counted
    <3> QED BY <1>1, <3>1 DEF CountedFor, FramesHaveIds
  <2> QED BY <1>2, <2>1 DEF CountsFrames, FrameKinds
<1>4. ASSUME NEW x \in DOMAIN files
      PROVE  CountsFrames("file", x, LAMBDA fr : fr.file = files[x])
  <2>1. x # 0
    BY DEF IInv, TypeOK, VectorsTyped
  <2>2. ASSUME NEW s \in Sources
        PROVE  CountedFor("file", x, s) = {p \in Places(s) : FrameAt(p).file = files[x]}
    <3>1. \A ids : <<"file", x>> \in counted(ids) <=> ids.file = x
      BY <2>1 DEF counted
    <3> QED BY <1>1, <3>1 DEF CountedFor, FramesHaveIds
  <2> QED BY <1>2, <2>2 DEF CountsFrames, FrameKinds
<1>5. ASSUME NEW f \in DOMAIN functions, NEW l
      PROVE  CountsFrames("line", <<f, l>>, LAMBDA fr :
               FunctionNamed(NameOf(fr)) = f /\ fr.file # NoFile /\ fr.line = l)
  <2>1. ASSUME NEW s \in Sources
        PROVE  CountedFor("line", <<f, l>>, s) =
                 {p \in Places(s) : /\ FunctionNamed(NameOf(FrameAt(p))) = f
                                    /\ FrameAt(p).file # NoFile /\ FrameAt(p).line = l}
    <3>1. \A ids : <<"line", <<f, l>>>> \in counted(ids) <=>
                     ids.file # 0 /\ ids.function = f /\ ids.line = l
      BY DEF counted
    <3> QED BY <1>1, <3>1 DEF CountedFor, FramesHaveIds
  <2>2. PICK id : id = <<f, l>>
    OBVIOUS
  <2>3. ASSUME NEW s \in Sources
        PROVE  /\ Total("line", id, s) = Cardinality(CountedFor("line", id, s))
               /\ Self("line", id, s) = Cardinality({p \in CountedFor("line", id, s) : Innermost(p)})
    BY <1>2 DEF FrameKinds
  <2> QED BY <2>1, <2>2, <2>3 DEF CountsFrames
<1>6. DOMAIN file_of = DOMAIN functions
  BY DEF IInv, TypeOK, VectorsTyped
<1>7. ASSUME NEW f \in DOMAIN functions
      PROVE  LET with_file == {p \in UNION {Places(s) : s \in Sources} :
                                 FunctionNamed(NameOf(FrameAt(p))) = f /\ FrameAt(p).file # NoFile}
             IN  IF with_file = {} THEN file_of[f] = 0
                 ELSE \E first \in with_file :
                        /\ \A p \in with_file : first[1] < p[1] \/ (first[1] = p[1] /\ first[2] <= p[2])
                        /\ file_of[f] \in DOMAIN files /\ files[file_of[f]] = FrameAt(first).file
  <2>1. \A p \in AllPlaces : FunctionNamed(NameOf(FrameAt(p))) = FunctionAt(p)
    BY <1>1 DEF FramesHaveIds, FunctionAt, AllPlaces
  <2>2. WithFile(f) = {p \in UNION {Places(s) : s \in Sources} :
                         FunctionNamed(NameOf(FrameAt(p))) = f /\ FrameAt(p).file # NoFile}
    BY <2>1 DEF WithFile, AllPlaces
  <2> QED BY <1>0, <2>2 DEF FilesInv, NotAfter
<1>8. \A m \in DOMAIN modules : CountsFrames("module", m, LAMBDA fr : fr.module = modules[m])
  BY <1>3
<1>9. \A x \in DOMAIN files : CountsFrames("file", x, LAMBDA fr : fr.file = files[x])
  BY <1>4
<1>10. \A f \in DOMAIN functions, l \in {fr.line : fr \in Frames} :
         CountsFrames("line", <<f, l>>, LAMBDA fr :
           FunctionNamed(NameOf(fr)) = f /\ fr.file # NoFile /\ fr.line = l)
  <2> SUFFICES ASSUME NEW f \in DOMAIN functions, NEW l \in {fr.line : fr \in Frames}
               PROVE  CountsFrames("line", <<f, l>>, LAMBDA fr :
                        FunctionNamed(NameOf(fr)) = f /\ fr.file # NoFile /\ fr.line = l)
    OBVIOUS
  <2> QED BY <1>5 DEF CountsFrames
<1> QED BY <1>6, <1>7, <1>8, <1>9, <1>10 DEF PlacesCounted

LEMMA EndMeansAll == IInv => FinishedMeansAll
PROOF
<1> SUFFICES ASSUME IInv PROVE FinishedMeansAll
  OBVIOUS
<1>1. ProgressInv
  BY DEF IInv
<1> QED BY <1>1 DEF ProgressInv, OnTime, FinishedMeansAll

\* The call tree has one node for each beginning of a stack, however functions call
\* themselves, with the stacks that begin so as its total and those that are it as self.
THEOREM TreeMatchesStacks == Spec => []TreeOfPrefixes
PROOF BY AnalysisInvariant, TreeIsOfPrefixes, PTL

\* Each module, function, file, line and pair of a caller and a callee has the number of
\* its frames as total and of the innermost ones as self, and each function its file.
THEOREM CountersMatchFrames == Spec => []CountersOfFrames
PROOF
<1>1. IInv => CountersOfFrames
  BY FunctionsAreCounted, PlacesAreCounted DEF CountersOfFrames
<1> QED BY <1>1, AnalysisInvariant, PTL

\* The progress is the number of samples seen, and an analysis that was not canceled has
\* seen, and told, all of them when it ends.
THEOREM NothingSkipped == Spec => []FinishedMeansAll
PROOF BY AnalysisInvariant, EndMeansAll, PTL

-----------------------------------------------------------------------------
(* Lists of the elements of a set, and the values of folds and recursive functions *)

\* The smaller of two numbers, the first of some, and a position with the largest value.
LEMMA SmallerOf ==
  ASSUME NEW a \in Int, NEW b \in Int
  PROVE  Min({a, b}) = IF a <= b THEN a ELSE b
PROOF
<1> DEFINE m == IF a <= b THEN a ELSE b
<1>1. m \in {a, b} /\ \A y \in {a, b} : m =< y
  OBVIOUS
<1>2. \A x \in {a, b} : (\A y \in {a, b} : x =< y) => x = m
  OBVIOUS
<1> HIDE DEF m
<1>3. (CHOOSE x \in {a, b} : \A y \in {a, b} : x =< y) = m
  BY <1>1, <1>2
<1>4. Min({a, b}) = m
  BY <1>3 DEF Min
<1> QED BY <1>4 DEF m

LEMMA SmallestOf ==
  ASSUME NEW S \in SUBSET Nat, S # {}
  PROVE  Min(S) \in S /\ \A y \in S : Min(S) <= y
PROOF
<1>1. PICK x \in S : \A y \in S : ~(<<y, x>> \in OpToRel(<, Nat))
  BY NatLessThanWellFounded, WFMin, Zenon
<1>2. ASSUME NEW y \in S PROVE x =< y
  <2>1. x \in Nat /\ y \in Nat
    OBVIOUS
  <2>2. ~(y < x)
    BY <1>1, <2>1 DEF OpToRel
  <2> QED BY <2>1, <2>2
<1>3. \E z \in S : \A y \in S : z =< y
  BY <1>2
<1>4. PICK m : m = CHOOSE z \in S : \A y \in S : z =< y
  OBVIOUS
<1>5. m \in S /\ \A y \in S : m =< y
  BY <1>3, <1>4
<1> QED BY <1>4, <1>5 DEF Min

LEMMA LargestAt ==
  ASSUME NEW n \in Nat \ {0}, NEW v, \A i \in 1 .. n : v[i] \in Nat
  PROVE  \E i \in 1 .. n : \A j \in 1 .. n : v[j] <= v[i]
PROOF
<1> DEFINE T == {k \in Nat : k = 0 \/ k > n \/ \E i \in 1 .. k : \A j \in 1 .. k : v[j] <= v[i]}
<1>1. 0 \in T
  OBVIOUS
<1>2. ASSUME NEW k \in T PROVE k + 1 \in T
  <2>0. k \in Nat
    OBVIOUS
  <2>1. CASE k = 0
    <3>1. 1 .. k + 1 = {1}
      BY <2>1
    <3>2. 1 \in 1 .. k + 1 /\ \A j \in 1 .. k + 1 : v[j] <= v[1]
      BY <3>1
    <3> QED BY <2>0, <3>2
  <2>2. CASE k >= n
    BY <2>0, <2>2
  <2>3. CASE k # 0 /\ k < n
    <3>1. PICK i \in 1 .. k : \A j \in 1 .. k : v[j] <= v[i]
      BY <2>0, <2>3
    <3>2. v[k + 1] \in Nat /\ v[i] \in Nat /\ \A j \in 1 .. k : v[j] \in Nat
      BY <2>0, <2>3
    <3>3. CASE v[k + 1] <= v[i]
      <4>1. \A j \in 1 .. k + 1 : v[j] <= v[i]
        BY <2>0, <3>1, <3>3
      <4> QED BY <2>0, <4>1
    <3>4. CASE v[i] <= v[k + 1]
      <4>1. \A j \in 1 .. k : v[j] <= v[k + 1]
        BY <3>1, <3>2, <3>4
      <4>2. \A j \in 1 .. k + 1 : v[j] <= v[k + 1]
        BY <2>0, <3>2, <4>1
      <4> QED BY <2>0, <4>2
    <3> QED BY <3>2, <3>3, <3>4
  <2> QED BY <2>0, <2>1, <2>2, <2>3
<1> HIDE DEF T
<1>3. T = Nat
  <2>1. T \in SUBSET Nat
    BY DEF T
  <2> QED BY <1>1, <1>2, <2>1, Induction
<1>4. n \in T
  BY <1>3
<1> QED BY <1>4 DEF T

\* A list of the elements of a set has each of them once.
LEMMA ListOfSet ==
  ASSUME NEW S, IsFiniteSet(S), NEW q \in SetToSeqs(S)
  PROVE  /\ q \in Seq(S) /\ Len(q) = Cardinality(S) /\ Cardinality(S) \in Nat
         /\ DOMAIN q = 1 .. Len(q) /\ Range(q) = S /\ Distinct(q)
PROOF
<1>1. PICK n \in Nat : n = Cardinality(S)
  BY FS_CardinalityType
<1>2. q \in [1 .. n -> S] /\ \A i, j \in 1 .. n : i # j => q[i] # q[j]
  BY <1>1 DEF SetToSeqs
<1>3. q \in Seq(S) /\ Len(q) = n /\ DOMAIN q = 1 .. n
  BY <1>2
<1>4. Distinct(q)
  BY <1>2, <1>3 DEF Distinct
<1>5. q \in Injection(1 .. n, S)
  BY <1>2 DEF Injection, IsInjective
<1>6. Cardinality(1 .. n) = Cardinality(S)
  BY <1>1, FS_Interval
<1>7. q \in Surjection(1 .. n, S)
  BY <1>5, <1>6, FS_Injection
<1>8. Range(q) = S
  BY <1>2, <1>3, <1>7 DEF Surjection, Range
<1> QED BY <1>1, <1>3, <1>4, <1>8

\* The number of elements of a list without duplicates, and of a part of one.
LEMMA SizeOfList ==
  ASSUME NEW S, NEW q \in Seq(S), Distinct(q)
  PROVE  IsFiniteSet(Range(q)) /\ Cardinality(Range(q)) = Len(q)
PROOF
<1>1. PICK n \in Nat : n = Len(q) /\ DOMAIN q = 1 .. n
  OBVIOUS
<1>2. q \in Surjection(1 .. n, Range(q)) /\ q \in Injection(1 .. n, Range(q))
  <2>1. q \in [1 .. n -> Range(q)]
    BY <1>1 DEF Range
  <2>2. \A y \in Range(q) : \E x \in 1 .. n : q[x] = y
    BY <1>1 DEF Range
  <2>3. \A i, j \in 1 .. n : q[i] = q[j] => i = j
    BY <1>1 DEF Distinct
  <2> QED BY <1>1, <2>1, <2>2, <2>3 DEF Surjection, Injection, IsInjective
<1>3. IsFiniteSet(1 .. n) /\ Cardinality(1 .. n) = n
  BY FS_Interval
<1>4. /\ IsFiniteSet(Range(q)) /\ Cardinality(Range(q)) = Cardinality(1 .. n)
  BY <1>2, <1>3, FS_Surjection
<1> QED BY <1>1, <1>3, <1>4

PartIs(S, q, a, b) ==
  \E p : /\ p = SubSeq(q, a, b)
         /\ p \in Seq(S) /\ Len(p) = b + 1 - a /\ Distinct(p) /\ DOMAIN p = 1 .. Len(p)
         /\ Range(p) = {q[k] : k \in a .. b}
         /\ IsFiniteSet(Range(p)) /\ Cardinality(Range(p)) = b + 1 - a

LEMMA PartOfList ==
  ASSUME NEW S, NEW q \in Seq(S), Distinct(q), NEW a \in 1 .. Len(q) + 1, NEW b \in 0 .. Len(q), a <= b + 1
  PROVE  PartIs(S, q, a, b)
PROOF
<1>1. PICK p : p = SubSeq(q, a, b)
  OBVIOUS
<1>2. /\ p \in Seq(S) /\ Len(p) = b + 1 - a /\ DOMAIN p = 1 .. Len(p)
      /\ \A i \in DOMAIN p : p[i] = q[i + a - 1] /\ i + a - 1 \in a .. b
  BY <1>1
<1>3. Distinct(p)
  <2>1. \A i, j \in DOMAIN p : p[i] = p[j] => i + a - 1 = j + a - 1
    BY <1>2 DEF Distinct
  <2> QED BY <1>2, <2>1 DEF Distinct
<1>4. Range(p) = {q[k] : k \in a .. b}
  <2>1. ASSUME NEW k \in a .. b PROVE k + 1 - a \in DOMAIN p /\ p[k + 1 - a] = q[k]
    BY <1>2
  <2>2. \A y \in Range(p) : y \in {q[k] : k \in a .. b}
    BY <1>2 DEF Range
  <2> QED BY <2>1, <2>2 DEF Range
<1>5. IsFiniteSet(Range(p)) /\ Cardinality(Range(p)) = Len(p)
  BY <1>2, <1>3, SizeOfList
<1> QED BY <1>1, <1>2, <1>3, <1>4, <1>5 DEF PartIs

\* Lists appended to one another, if what there is after each of them is known.
Joins(F, q, n) ==
  /\ q \in Seq(Range(q)) /\ Len(q) = n
  /\ F = [k \in 1 .. n |-> F[k]] /\ F[1] = q[1]
  /\ \A k \in 1 .. n : k # 1 => F[k] = F[k - 1] \o q[k]

LEMMA FlattenedIs ==
  ASSUME NEW n \in Nat \ {0}, NEW q, NEW F, Joins(F, q, n)
  PROVE  FlattenSeq(q) = F[n]
PROOF
<1>0. /\ q \in Seq(Range(q)) /\ Len(q) = n
      /\ F = [k \in 1 .. n |-> F[k]] /\ F[1] = q[1]
      /\ \A k \in 1 .. n : k # 1 => F[k] = F[k - 1] \o q[k]
  BY DEF Joins
<1> DEFINE Is(h) == h = [i \in 1 .. Len(q) |-> IF i = 1 THEN q[i] ELSE h[i - 1] \o q[i]]
<1>1. Is(F)
  <2>1. \A i \in 1 .. n : F[i] = IF i = 1 THEN q[i] ELSE F[i - 1] \o q[i]
    BY <1>0
  <2> QED BY <1>0, <2>1, Zenon
<1>2. PICK h : h = CHOOSE g : Is(g)
  OBVIOUS
<1>3. Is(h)
  BY <1>1, <1>2
<1>4. FlattenSeq(q) = h[n]
  BY <1>0, <1>2 DEF FlattenSeq
<1>5. h[1] = q[1] /\ \A k \in 1 .. n : k # 1 => h[k] = h[k - 1] \o q[k]
  <2>1. \A k \in 1 .. n : h[k] = IF k = 1 THEN q[k] ELSE h[k - 1] \o q[k]
    BY <1>0, <1>3, Zenon
  <2>2. 1 \in 1 .. n
    OBVIOUS
  <2> QED BY <2>1, <2>2, Zenon
<1> HIDE DEF Is
<1> DEFINE T == {k \in Nat : k = 0 \/ k > n \/ h[k] = F[k]}
<1>6. 0 \in T
  OBVIOUS
<1>7. ASSUME NEW k \in T PROVE k + 1 \in T
  <2>0. k \in Nat
    OBVIOUS
  <2>1. CASE k = 0
    BY <1>0, <1>5, <2>1
  <2>2. CASE k >= n
    BY <2>0, <2>2
  <2>3. CASE k # 0 /\ k < n
    <3>1. k + 1 \in 1 .. n /\ k + 1 # 1 /\ (k + 1) - 1 = k
      BY <2>0, <2>3
    <3>2. h[k] = F[k]
      BY <2>3
    <3>3. h[k + 1] = h[(k + 1) - 1] \o q[k + 1] /\ F[k + 1] = F[(k + 1) - 1] \o q[k + 1]
      BY <1>0, <1>5, <3>1
    <3>4. h[k + 1] = F[k + 1]
      BY <3>1, <3>2, <3>3, Zenon
    <3> QED BY <2>0, <3>4
  <2> QED BY <2>0, <2>1, <2>2, <2>3
<1> HIDE DEF T
<1>8. T = Nat
  <2>1. T \in SUBSET Nat
    BY DEF T
  <2> QED BY <1>6, <1>7, <2>1, Induction
<1>9. n \in T
  BY <1>8
<1> QED BY <1>4, <1>9 DEF T

\* There is a function that is defined by steps on a set.
Reached(A, a, next, N) ==
  \E g \in [0 .. N -> A] : g[0] = a /\ \A k \in 1 .. N : g[k] = next[<<k, g[k - 1]>>]

LEMMA Iterated ==
  ASSUME NEW A, NEW a \in A, NEW next \in [Nat \X A -> A], NEW N \in Nat
  PROVE  Reached(A, a, next, N)
PROOF
<1> DEFINE Upto(n, g) == g[0] = a /\ \A k \in 1 .. n : g[k] = next[<<k, g[k - 1]>>]
           T == {n \in Nat : \E g \in [0 .. n -> A] : Upto(n, g)}
<1>1. 0 \in T
  <2> DEFINE g == [k \in 0 .. 0 |-> a]
  <2>1. g \in [0 .. 0 -> A] /\ g[0] = a
    OBVIOUS
  <2> HIDE DEF g
  <2>2. Upto(0, g)
    BY <2>1
  <2> HIDE DEF Upto
  <2> QED BY <2>1, <2>2
<1>2. ASSUME NEW n \in T PROVE n + 1 \in T
  <2>1. n \in Nat
    OBVIOUS
  <2>2. PICK g \in [0 .. n -> A] : Upto(n, g)
    OBVIOUS
  <2>3. PICK x \in A : x = next[<<n + 1, g[n]>>]
    <3>1. <<n + 1, g[n]>> \in Nat \X A
      BY <2>1
    <3> QED BY <3>1
  <2> DEFINE h == [k \in 0 .. n + 1 |-> IF k = n + 1 THEN x ELSE g[k]]
  <2>4. h \in [0 .. n + 1 -> A] /\ h[n + 1] = x /\ \A k \in 0 .. n : h[k] = g[k]
    BY <2>1
  <2> HIDE DEF h
  <2>5. h[0] = a
    BY <2>1, <2>2, <2>4
  <2>6. ASSUME NEW k \in 1 .. n + 1 PROVE h[k] = next[<<k, h[k - 1]>>]
    <3>1. k - 1 \in 0 .. n /\ h[k - 1] = g[k - 1]
      BY <2>1, <2>4
    <3>2. CASE k = n + 1
      <4>1. h[k - 1] = g[n] /\ h[k] = x
        BY <2>1, <2>4, <3>1, <3>2
      <4> QED BY <2>3, <3>2, <4>1
    <3>3. CASE k # n + 1
      <4>1. k \in 1 .. n /\ k \in 0 .. n
        BY <2>1, <3>3
      <4>2. g[k] = next[<<k, g[k - 1]>>]
        BY <2>2, <4>1
      <4> QED BY <2>4, <3>1, <4>1, <4>2
    <3> QED BY <3>2, <3>3
  <2>7. Upto(n + 1, h)
    BY <2>5, <2>6
  <2> HIDE DEF Upto
  <2> QED BY <2>1, <2>4, <2>7
<1> HIDE DEF T
<1>3. T = Nat
  <2>1. T \in SUBSET Nat
    BY DEF T
  <2> QED BY <1>1, <1>2, <2>1, Induction
<1>4. N \in T
  BY <1>3
<1> QED BY <1>4 DEF T, Reached

\* A sum over some numbers that are the sizes of sets without common elements.
Sums(D, c, h) ==
  h = [S \in SUBSET D |-> IF S = {} THEN 0 ELSE h[S \ {PickOf(S)}] + c[PickOf(S)]]
Union(P, S) == UNION {P[x] : x \in S}

LEMMA UnionOfOneMore ==
  ASSUME NEW P, NEW S, NEW x \in S
  PROVE  Union(P, S) = Union(P, S \ {x}) \cup P[x]
PROOF
<1>1. \A y \in Union(P, S) : y \in Union(P, S \ {x}) \cup P[x]
  BY DEF Union
<1>2. \A y \in Union(P, S \ {x}) \cup P[x] : y \in Union(P, S)
  BY DEF Union
<1> QED BY <1>1, <1>2

LEMMA SumOfSizes ==
  ASSUME NEW D, IsFiniteSet(D), NEW P, \A x \in D : IsFiniteSet(P[x]),
         \A x, y \in D : x # y => P[x] \cap P[y] = {},
         NEW c, \A x \in D : c[x] = Cardinality(P[x]),
         NEW h, (\E g : Sums(D, c, g)) => Sums(D, c, h)
  PROVE  IsFiniteSet(Union(P, D)) /\ h[D] = Cardinality(Union(P, D))
PROOF
<1> DEFINE g == [S \in SUBSET D |-> Cardinality(Union(P, S))]
           T == {n \in Nat : \A S \in SUBSET D : Cardinality(S) <= n => IsFiniteSet(Union(P, S))}
<1>1. \A S \in SUBSET D : IsFiniteSet(S) /\ Cardinality(S) \in Nat
  BY FS_Subset, FS_CardinalityType
<1>2. ASSUME NEW S \in SUBSET D, S # {}
      PROVE  /\ PickOf(S) \in S /\ PickOf(S) \in D /\ S \ {PickOf(S)} \in SUBSET D
             /\ Cardinality(S \ {PickOf(S)}) = Cardinality(S) - 1
             /\ Union(P, S) = Union(P, S \ {PickOf(S)}) \cup P[PickOf(S)]
             /\ Union(P, S \ {PickOf(S)}) \cap P[PickOf(S)] = {}
  <2>1. PickOf(S) \in S /\ Cardinality(S \ {PickOf(S)}) = Cardinality(S) - 1
    BY <1>1, <1>2, PickedOne
  <2>2. PICK x \in S : x = PickOf(S)
    BY <2>1
  <2>3. Union(P, S) = Union(P, S \ {x}) \cup P[x]
    BY UnionOfOneMore
  <2>4. Union(P, S \ {x}) \cap P[x] = {}
    BY DEF Union
  <2> QED BY <2>1, <2>2, <2>3, <2>4
<1>3. 0 \in T
  <2>1. ASSUME NEW S \in SUBSET D, Cardinality(S) <= 0 PROVE Union(P, S) = {}
    <3>1. S = {}
      BY <1>1, <2>1, FS_EmptySet
    <3> QED BY <3>1 DEF Union
  <2> QED BY <2>1, FS_EmptySet
<1>4. ASSUME NEW n \in T PROVE n + 1 \in T
  <2>0. n \in Nat /\ \A S \in SUBSET D : Cardinality(S) <= n => IsFiniteSet(Union(P, S))
    OBVIOUS
  <2>1. ASSUME NEW S \in SUBSET D, Cardinality(S) <= n + 1 PROVE IsFiniteSet(Union(P, S))
    <3>1. CASE S = {}
      <4>1. Union(P, S) = {}
        BY <3>1 DEF Union
      <4> QED BY <4>1, FS_EmptySet
    <3>2. CASE S # {}
      <4>1. PICK x \in D : x = PickOf(S)
        BY <1>2, <3>2
      <4>2. PICK R : R = S \ {x}
        OBVIOUS
      <4>3. R \in SUBSET D /\ Cardinality(R) = Cardinality(S) - 1
        BY <1>2, <3>2, <4>1, <4>2
      <4>4. Cardinality(R) <= n
        BY <1>1, <2>0, <2>1, <4>3
      <4>5. PICK V, W : V = Union(P, R) /\ W = P[x]
        OBVIOUS
      <4>6. IsFiniteSet(V) /\ IsFiniteSet(W)
        BY <2>0, <4>3, <4>4, <4>5
      <4>7. Union(P, S) = V \cup W
        BY <1>2, <3>2, <4>1, <4>2, <4>5
      <4>8. IsFiniteSet(V \cup W)
        BY <4>6, FS_Union
      <4> QED BY <4>7, <4>8
    <3> QED BY <3>1, <3>2
  <2> QED BY <2>0, <2>1
<1> HIDE DEF T
<1>5. T = Nat
  <2>1. T \in SUBSET Nat
    BY DEF T
  <2> QED BY <1>3, <1>4, <2>1, Induction
<1>6. \A S \in SUBSET D : IsFiniteSet(Union(P, S)) /\ Cardinality(Union(P, S)) \in Nat
  <2> SUFFICES ASSUME NEW S \in SUBSET D PROVE IsFiniteSet(Union(P, S))
    BY FS_CardinalityType
  <2>1. Cardinality(S) \in T /\ Cardinality(S) <= Cardinality(S)
    BY <1>1, <1>5
  <2> QED BY <2>1 DEF T
<1>7. ASSUME NEW S \in SUBSET D, S # {}
      PROVE  Cardinality(Union(P, S)) = Cardinality(Union(P, S \ {PickOf(S)})) + c[PickOf(S)]
  <2>1. PICK x \in D : x = PickOf(S)
    BY <1>2, <1>7
  <2>2. PICK U, V : U = Union(P, S \ {x}) /\ V = P[x]
    OBVIOUS
  <2>3. IsFiniteSet(U) /\ IsFiniteSet(V) /\ U \cap V = {} /\ Union(P, S) = U \cup V
    BY <1>2, <1>6, <1>7, <2>1, <2>2
  <2>4. Cardinality(U \cup V) = Cardinality(U) + Cardinality(V)
    <3>1. /\ Cardinality(U) \in Nat /\ Cardinality(V) \in Nat
          /\ Cardinality(U \cup V) = Cardinality(U) + Cardinality(V) - Cardinality(U \cap V)
      BY <2>3, FS_Union, FS_CardinalityType
    <3>2. Cardinality(U \cap V) = 0
      BY <2>3, FS_EmptySet
    <3> QED BY <3>1, <3>2
  <2>5. c[x] = Cardinality(V)
    BY <2>2
  <2> QED BY <2>1, <2>2, <2>3, <2>4, <2>5
<1>8. Sums(D, c, g)
  <2>1. ASSUME NEW S \in SUBSET D
        PROVE  g[S] = IF S = {} THEN 0 ELSE g[S \ {PickOf(S)}] + c[PickOf(S)]
    <3>1. CASE S = {}
      <4>1. Union(P, S) = {}
        BY <3>1 DEF Union
      <4> QED BY <3>1, <4>1, FS_EmptySet
    <3>2. CASE S # {}
      BY <1>2, <1>7, <3>2
    <3> QED BY <3>1, <3>2
  <2>2. g = [S \in SUBSET D |-> g[S]]
    OBVIOUS
  <2> HIDE DEF g
  <2>3. g = [S \in SUBSET D |-> IF S = {} THEN 0 ELSE g[S \ {PickOf(S)}] + c[PickOf(S)]]
    BY <2>1, <2>2, Zenon
  <2> QED BY <2>3 DEF Sums
<1>9. Sums(D, c, h)
  <2> HIDE DEF g
  <2>1. \E f : Sums(D, c, f)
    BY <1>8
  <2> QED BY <2>1
<1>10. \A S \in SUBSET D : h[S] = IF S = {} THEN 0 ELSE h[S \ {PickOf(S)}] + c[PickOf(S)]
  BY <1>9 DEF Sums
<1> HIDE DEF g
<1> DEFINE U == {n \in Nat : \A S \in SUBSET D : Cardinality(S) <= n => h[S] = Cardinality(Union(P, S))}
<1>11. 0 \in U
  <2>1. ASSUME NEW S \in SUBSET D, Cardinality(S) <= 0 PROVE h[S] = Cardinality(Union(P, S))
    <3>1. S = {}
      BY <1>1, <2>1, FS_EmptySet
    <3>2. Union(P, S) = {}
      BY <3>1 DEF Union
    <3> QED BY <1>10, <3>1, <3>2, FS_EmptySet
  <2> QED BY <2>1
<1>12. ASSUME NEW n \in U PROVE n + 1 \in U
  <2>0. n \in Nat /\ \A S \in SUBSET D : Cardinality(S) <= n => h[S] = Cardinality(Union(P, S))
    OBVIOUS
  <2>1. ASSUME NEW S \in SUBSET D, Cardinality(S) <= n + 1 PROVE h[S] = Cardinality(Union(P, S))
    <3>1. CASE S = {}
      <4>1. Union(P, S) = {}
        BY <3>1 DEF Union
      <4> QED BY <1>10, <3>1, <4>1, FS_EmptySet
    <3>2. CASE S # {}
      <4>1. PICK R : R = S \ {PickOf(S)}
        OBVIOUS
      <4>2. R \in SUBSET D /\ Cardinality(R) = Cardinality(S) - 1
        BY <1>2, <3>2, <4>1
      <4>3. Cardinality(R) <= n
        BY <1>1, <2>0, <2>1, <4>2
      <4>4. h[R] = Cardinality(Union(P, R))
        BY <2>0, <4>2, <4>3
      <4> QED BY <1>7, <1>10, <3>2, <4>1, <4>4
    <3> QED BY <3>1, <3>2
  <2> QED BY <2>0, <2>1
<1> HIDE DEF U
<1>13. U = Nat
  <2>1. U \in SUBSET Nat
    BY DEF U
  <2> QED BY <1>11, <1>12, <2>1, Induction
<1>14. h[D] = Cardinality(Union(P, D))
  <2>1. Cardinality(D) \in U /\ Cardinality(D) <= Cardinality(D) /\ D \in SUBSET D
    BY <1>1, <1>13
  <2> QED BY <2>1 DEF U
<1> QED BY <1>6, <1>14

-----------------------------------------------------------------------------
(* What else the answers rest on: what is in a map was counted, and the kind of a sample *)
(* tells whether it has frames.                                                          *)

CountersPositive == \A c \in DOMAIN total : total[c] > 0
KindsTell ==
  \A i \in DOMAIN seen : seen[i].kind # "stack" => (seen[i].frames = <<>> <=> seen[i].kind = "neither")

ViewsInv == IInv /\ CountersPositive /\ KindsTell

LEMMA TotalGrows ==
  ASSUME TypeOK, CountersPositive, NEW K, total' = Incremented(total, K)
  PROVE  CountersPositive'
PROOF
<1>1. PICK b : b = total
  OBVIOUS
<1>2. b \in [DOMAIN b -> Nat] /\ \A c \in DOMAIN b : b[c] > 0
  BY <1>1 DEF TypeOK, CountersPositive
<1> DEFINE O == {<<k[1], k[2], source>> : k \in K}
<1>3. total' = [c \in DOMAIN b \cup O |-> CountOf(b, c) + (IF c \in O THEN 1 ELSE 0)]
  BY <1>1 DEF Incremented
<1> HIDE DEF O
<1>4. \A c : CountOf(b, c) \in Nat /\ (c \in DOMAIN b => CountOf(b, c) > 0)
  BY <1>2 DEF CountOf
<1>5. \A c \in DOMAIN total' : total'[c] > 0
  BY <1>3, <1>4
<1> QED BY <1>5 DEF CountersPositive

LEMMA SampleTaken ==
  ASSUME TypeOK, KindsTell, NEW kind \in {"stack", "frame", "neither"}, NEW frames \in Seq(Frames),
         seen' = Append(seen, [kind |-> kind, source |-> source, frames |-> frames]),
         kind # "stack" => (frames = <<>> <=> kind = "neither")
  PROVE  KindsTell'
PROOF
<1>1. PICK x : x = [kind |-> kind, source |-> source, frames |-> frames]
  OBVIOUS
<1>2. x \in Samples /\ x.kind = kind /\ x.frames = frames
  BY <1>1 DEF Samples, TypeOK
<1>3. seen \in Seq(Samples) /\ seen' = Append(seen, x)
  BY <1>1 DEF TypeOK
<1>4. /\ DOMAIN seen' = DOMAIN seen \cup {Len(seen) + 1}
      /\ \A i \in DOMAIN seen : seen'[i] = seen[i]
      /\ seen'[Len(seen) + 1] = x
  BY <1>2, <1>3, AppendFacts
<1> QED BY <1>2, <1>4 DEF KindsTell

LEMMA FrameTakesStack ==
  ASSUME TypeOK, StackInv, pc = "stack", KindsTell, NEW fr, SeesFrame(fr)
  PROVE  KindsTell'
PROOF
<1>1. seen \in Seq(Samples) /\ seen # <<>> /\ seen[Len(seen)].kind = "stack"
  BY DEF TypeOK, StackInv, Current
<1>2. Len(seen) \in Nat /\ DOMAIN seen = 1 .. Len(seen)
      /\ \A i \in DOMAIN seen :
           seen[i] = [kind |-> seen[i].kind, source |-> seen[i].source, frames |-> seen[i].frames]
  BY <1>1, SamplesTyped
<1>3. PICK n : n = Len(seen)
  OBVIOUS
<1>4. n \in DOMAIN seen
  BY <1>1, <1>2, <1>3
<1>5. seen' = [seen EXCEPT ![n].frames = Append(@, fr)]
  BY <1>3 DEF SeesFrame
<1>6. DOMAIN seen' = DOMAIN seen /\ \A i \in DOMAIN seen : i # n => seen'[i] = seen[i]
  BY <1>5
<1>7. seen'[n] = [seen[n] EXCEPT !.frames = Append(@, fr)]
  BY <1>4, <1>5
<1>8. PICK x : x = seen[n]
  OBVIOUS
<1>9. x = [kind |-> x.kind, source |-> x.source, frames |-> x.frames] /\ x.kind = "stack"
  BY <1>1, <1>2, <1>3, <1>4, <1>8
<1>10. seen'[n].kind = "stack"
  BY <1>7, <1>8, <1>9
<1> QED BY <1>6, <1>10 DEF KindsTell

LEMMA ViewsStep == ViewsInv /\ [Next]_vars => ViewsInv'
PROOF
<1> SUFFICES ASSUME ViewsInv, [Next]_vars PROVE ViewsInv'
  OBVIOUS
<1>0. IInv /\ CountersPositive /\ KindsTell /\ TypeOK /\ StackInv
  BY DEF ViewsInv, IInv
<1>1. IInv'
  BY <1>0, AnalysisStep
<1>2. <<>> \in Seq(Frames) /\ \A fr \in Frames : <<fr>> \in Seq(Frames) /\ <<fr>> # <<>>
  OBVIOUS
<1>3. CASE StartStack
  <2>1. seen' = Append(seen, [kind |-> "stack", source |-> source, frames |-> <<>>])
    BY <1>3 DEF StartStack, TakeSample
  <2>2. KindsTell'
    BY <1>0, <1>2, <2>1, SampleTaken
  <2>3. PICK K : total' = Incremented(total, K)
    BY <1>3 DEF StartStack
  <2>4. CountersPositive'
    BY <1>0, <2>3, TotalGrows
  <2> QED BY <1>1, <2>2, <2>4 DEF ViewsInv
<1>4. CASE Frame
  <2>1. pc = "stack" /\ (\E fr \in Frames : SeesFrame(fr)) /\ \E K : total' = Incremented(total, K)
    BY <1>4 DEF Frame, SeesFrame
  <2>2. KindsTell'
    BY <1>0, <2>1, FrameTakesStack
  <2>3. PICK K : total' = Incremented(total, K)
    BY <2>1
  <2>4. CountersPositive'
    BY <1>0, <2>3, TotalGrows
  <2> QED BY <1>1, <2>2, <2>4 DEF ViewsInv
<1>5. CASE FrameOnly
  <2>1. PICK fr \in Frames : /\ TakeSample("frame", <<fr>>)
                             /\ total' = Incremented(total, counted(IdsOf(fr)))
    BY <1>5 DEF FrameOnly
  <2>2. seen' = Append(seen, [kind |-> "frame", source |-> source, frames |-> <<fr>>])
    BY <2>1 DEF TakeSample
  <2>3. KindsTell'
    BY <1>0, <1>2, <2>2, SampleTaken
  <2>4. CountersPositive'
    <3>1. PICK K : total' = Incremented(total, K)
      BY <2>1
    <3> QED BY <1>0, <3>1, TotalGrows
  <2> QED BY <1>1, <2>3, <2>4 DEF ViewsInv
<1>6. CASE Neither
  <2>1. /\ seen' = Append(seen, [kind |-> "neither", source |-> source, frames |-> <<>>])
        /\ total' = total
    BY <1>6 DEF Neither, TakeSample, result
  <2>2. KindsTell'
    BY <1>0, <1>2, <2>1, SampleTaken
  <2> QED BY <1>0, <1>1, <2>1, <2>2 DEF ViewsInv, CountersPositive
<1>7. CASE EndStack \/ NextSource \/ Abandon \/ Finish \/ UNCHANGED vars
  <2>1. seen' = seen /\ total' = total
    BY <1>7 DEF EndStack, NextSource, Abandon, Finish, vars, result
  <2> QED BY <1>0, <1>1, <2>1 DEF ViewsInv, CountersPositive, KindsTell
<1> QED BY <1>3, <1>4, <1>5, <1>6, <1>7 DEF Next

LEMMA ViewsStart == Init => ViewsInv
PROOF
<1> SUFFICES ASSUME Init PROVE CountersPositive /\ KindsTell
  BY StartsRight DEF ViewsInv
<1>1. DOMAIN total = {}
  BY DEF Init
<1>2. seen = <<>>
  BY DEF Init
<1>3. DOMAIN seen = {}
  BY <1>2
<1> QED BY <1>1, <1>3 DEF CountersPositive, KindsTell

LEMMA ViewsInvariant == Spec => []ViewsInv
PROOF BY ViewsStart, ViewsStep, PTL DEF Spec

-----------------------------------------------------------------------------
(* Callers and callees *)

HitsCounted ==
  \A kind, id, s : /\ hits_of(kind, id, "total", s) = Total(kind, id, s)
                   /\ hits_of(kind, id, "self", s) = Self(kind, id, s)
                   /\ hits_of(kind, id, "total", s) \in Nat
                   /\ hits_of(kind, id, "self", s) \in Nat

LEMMA HitsAre == TypeOK => HitsCounted
PROOF
<1> SUFFICES ASSUME TypeOK PROVE HitsCounted
  OBVIOUS
<1>1. \A kind, id, s : /\ hits_of(kind, id, "total", s) = Total(kind, id, s)
                       /\ hits_of(kind, id, "self", s) = Self(kind, id, s)
  BY DEF hits_of, Total, Self
<1> QED BY <1>1, CountsAreNat DEF HitsCounted

LEMMA FunctionsAreFinite ==
  TypeOK => /\ IsFiniteSet(Functions) /\ Functions = 1 .. Len(functions) /\ Len(functions) \in Nat
            /\ IsFiniteSet({Root} \cup Functions) /\ Root = 0 /\ Root \notin Functions
PROOF
<1> SUFFICES ASSUME TypeOK
             PROVE  /\ IsFiniteSet(Functions) /\ Functions = 1 .. Len(functions) /\ Len(functions) \in Nat
                    /\ IsFiniteSet({Root} \cup Functions) /\ Root = 0 /\ Root \notin Functions
  OBVIOUS
<1>1. functions \in Seq((DOMAIN modules) \X {fr.symbol : fr \in Frames})
  BY DEF TypeOK, VectorsTyped
<1>2. PICK X : X = (DOMAIN modules) \X {fr.symbol : fr \in Frames}
  OBVIOUS
<1>3. Functions = 1 .. Len(functions) /\ Len(functions) \in Nat
  BY <1>1, <1>2 DEF Functions
<1>4. IsFiniteSet(Functions)
  BY <1>3, FS_Interval
<1>5. IsFiniteSet(Functions \cup {Root})
  BY <1>4, FS_AddElement
<1>6. {Root} \cup Functions = Functions \cup {Root}
  OBVIOUS
<1>7. Root = 0 /\ Root \notin Functions
  BY <1>3 DEF Root
<1> QED BY <1>3, <1>4, <1>5, <1>6, <1>7

\* The items for a list of n: each of the first, and all of the others together.
LEMMA ItemsFor ==
  ASSUME NEW S, NEW list \in Seq(S), NEW max \in Nat \ {0}
  PROVE  \E items, r : /\ items = callers_callees_json(list, max)
                       /\ r \in 0 .. Len(list) /\ r = IF Len(list) > max THEN max - 1 ELSE Len(list)
                       /\ DOMAIN items = 1 .. Len(items)
                       /\ Len(items) = IF Len(list) > max THEN max ELSE Len(list)
                       /\ \A i \in 1 .. r : items[i].ids = {list[i]}
                       /\ Len(list) > max => items[max].ids = {list[k] : k \in max .. Len(list)}
                       /\ \A i \in DOMAIN items : \E g \in items[i].ids : items[i].hits = hits("function", g)
PROOF
<1>1. PICK n \in Nat : n = Len(list)
  OBVIOUS
<1>2. PICK r \in 0 .. n : r = IF n > max THEN max - 1 ELSE n
  BY <1>1
<1>3. r = regular_items_count(list, max)
  BY <1>1, <1>2 DEF regular_items_count
<1>4. PICK A : A = [i \in 1 .. r |-> [ids |-> {list[i]}, hits |-> hits("function", list[i])]]
  OBVIOUS
<1>5. PICK b : b = [ids |-> {list[k] : k \in max .. n}, hits |-> hits("function", Last(list))]
  OBVIOUS
<1>6. callers_callees_json(list, max) = A \o (IF n > max THEN <<b>> ELSE <<>>)
  BY <1>1, <1>3, <1>4, <1>5 DEF callers_callees_json
<1>7. /\ \A i \in 1 .. r : A[i].ids = {list[i]} /\ A[i].hits = hits("function", list[i])
      /\ b.ids = {list[k] : k \in max .. n} /\ b.hits = hits("function", Last(list))
  BY <1>4, <1>5
<1>a. /\ \A i \in 1 .. r : \E g \in A[i].ids : A[i].hits = hits("function", g)
      /\ n > max => \E g \in b.ids : b.hits = hits("function", g)
  <2>1. \A i \in 1 .. r : \E g \in A[i].ids : A[i].hits = hits("function", g)
    BY <1>7
  <2>2. n > max => Last(list) = list[n] /\ n \in max .. n
    BY <1>1 DEF Last
  <2> QED BY <1>7, <2>1, <2>2
<1>8. PICK X : X = {A[i] : i \in 1 .. r} \cup {b}
  OBVIOUS
<1>9. A \in Seq(X) /\ Len(A) = r /\ DOMAIN A = 1 .. r /\ b \in X
  <2>1. A \in [1 .. r -> X]
    BY <1>4, <1>8
  <2> QED BY <1>2, <1>8, <2>1
<1>10. PICK items : items = callers_callees_json(list, max)
  OBVIOUS
<1>11. CASE n > max
  <2>1. items = A \o <<b>>
    BY <1>6, <1>10, <1>11
  <2>2. /\ DOMAIN items = 1 .. r + 1 /\ Len(items) = r + 1 /\ items[r + 1] = b
        /\ \A i \in 1 .. r : items[i] = A[i]
    BY <1>9, <2>1
  <2>3. r + 1 = max
    BY <1>2, <1>11
  <2>4. \A i \in DOMAIN items : \E g \in items[i].ids : items[i].hits = hits("function", g)
    BY <1>2, <1>11, <1>a, <2>2
  <2> QED BY <1>1, <1>2, <1>7, <1>10, <1>11, <2>2, <2>3, <2>4
<1>12. CASE ~(n > max)
  <2>1. items = A \o <<>>
    BY <1>6, <1>10, <1>12
  <2>2. items = A
    BY <1>9, <2>1
  <2>3. \A i \in DOMAIN items : \E g \in items[i].ids : items[i].hits = hits("function", g)
    BY <1>9, <1>a, <2>2
  <2> QED BY <1>1, <1>2, <1>7, <1>9, <1>10, <1>12, <2>2, <2>3
<1> QED BY <1>11, <1>12

LEMMA RelatedAreShown == TypeOK => RelatedShown
PROOF
<1> SUFFICES ASSUME TypeOK, NEW kind \in {"caller", "callee"}, NEW f \in {Root} \cup Functions,
                    NEW s \in Sources, NEW list \in sorted_related(kind, f, s),
                    NEW requested \in 0 .. MaxEntries,
                    NEW items, items = callers_callees_json(list, max_entries(requested))
             PROVE  /\ Len(items) <= max_entries(requested)
                    /\ UNION {items[i].ids : i \in DOMAIN items} = related(kind, f)
                    /\ \A i \in DOMAIN items : \E g \in items[i].ids : items[i].hits = hits("function", g)
                    /\ \A i, j \in DOMAIN items : i < j =>
                         \A g \in items[i].ids, h \in items[j].ids :
                           g # h /\ hits_of(kind, <<f, g>>, "total", s) >= hits_of(kind, <<f, h>>, "total", s)
  BY DEF RelatedShown
<1>1. PICK R : R = related(kind, f)
  OBVIOUS
<1>2. IsFiniteSet(R)
  <2>1. R \in SUBSET ({Root} \cup Functions)
    BY <1>1 DEF related
  <2> QED BY <2>1, FunctionsAreFinite, FS_Subset
<1>3. PICK c : c = [g \in R |-> hits_of(kind, <<f, g>>, "total", s)]
  OBVIOUS
<1>4. \A g \in R : c[g] \in Nat /\ c[g] = hits_of(kind, <<f, g>>, "total", s)
  BY <1>3, HitsAre DEF HitsCounted
<1>5. /\ list \in SetToSeqs(R)
      /\ \A i, j \in DOMAIN list : i < j =>
           ~(hits_of(kind, <<f, list[j]>>, "total", s) > hits_of(kind, <<f, list[i]>>, "total", s))
  BY <1>1 DEF sorted_related, Sorted
<1>6. PICK n \in Nat : n = Len(list)
  BY <1>2, <1>5, ListOfSet
<1>7. list \in Seq(R) /\ DOMAIN list = 1 .. n /\ Range(list) = R /\ Distinct(list)
  BY <1>2, <1>5, <1>6, ListOfSet
<1>8. \A i, j \in 1 .. n : i < j => list[i] # list[j] /\ c[list[i]] >= c[list[j]]
  <2> SUFFICES ASSUME NEW i \in 1 .. n, NEW j \in 1 .. n, i < j
               PROVE  list[i] # list[j] /\ c[list[i]] >= c[list[j]]
    OBVIOUS
  <2>1. list[i] \in R /\ list[j] \in R
    BY <1>7
  <2>2. ~(c[list[j]] > c[list[i]])
    BY <1>4, <1>5, <1>7, <2>1
  <2>3. c[list[i]] >= c[list[j]]
    <3>1. PICK x \in Nat, y \in Nat : x = c[list[i]] /\ y = c[list[j]]
      BY <1>4, <2>1
    <3>2. ~(y > x)
      BY <2>2, <3>1
    <3> QED BY <3>1, <3>2
  <2> QED BY <1>7, <2>3 DEF Distinct
<1>9. PICK max \in Nat \ {0} : max = max_entries(requested)
  BY ViewsAssumption DEF max_entries
<1>10. PICK r \in 0 .. n : /\ r = IF n > max THEN max - 1 ELSE n
                           /\ DOMAIN items = 1 .. Len(items)
                           /\ Len(items) = IF n > max THEN max ELSE n
                           /\ \A i \in 1 .. r : items[i].ids = {list[i]}
                           /\ n > max => items[max].ids = {list[k] : k \in max .. n}
                           /\ \A i \in DOMAIN items : \E g \in items[i].ids :
                                items[i].hits = hits("function", g)
  BY <1>6, <1>7, <1>9, ItemsFor
<1> DEFINE at(i) == IF i <= r THEN {i} ELSE max .. n
<1>11. ASSUME NEW i \in DOMAIN items
       PROVE  at(i) \in SUBSET (1 .. n) /\ items[i].ids = {list[k] : k \in at(i)}
  <2>1. CASE i <= r
    <3>1. i \in 1 .. r
      BY <1>10, <2>1
    <3> QED BY <1>10, <2>1, <3>1
  <2>2. CASE ~(i <= r)
    <3>1. n > max /\ i = max
      BY <1>9, <1>10, <2>2
    <3> QED BY <1>9, <1>10, <2>2, <3>1
  <2> QED BY <2>1, <2>2
<1>12. \A k \in 1 .. n : \E i \in DOMAIN items : k \in at(i)
  <2> SUFFICES ASSUME NEW k \in 1 .. n PROVE \E i \in DOMAIN items : k \in at(i)
    OBVIOUS
  <2>1. CASE k <= r
    <3>1. k \in DOMAIN items /\ k \in at(k)
      BY <1>9, <1>10, <2>1
    <3> QED BY <3>1
  <2>2. CASE k > r
    <3>1. n > max /\ max \in DOMAIN items /\ max > r /\ k \in max .. n
      BY <1>9, <1>10, <2>2
    <3>2. k \in at(max)
      BY <1>9, <1>10, <3>1
    <3> QED BY <3>1, <3>2
  <2> QED BY <1>10, <2>1, <2>2
<1>13. \A i, j \in DOMAIN items : i < j => \A k \in at(i), l \in at(j) : k < l
  BY <1>9, <1>10
<1> HIDE DEF at
<1>14. UNION {items[i].ids : i \in DOMAIN items} = R
  <2>1. ASSUME NEW g \in R PROVE g \in UNION {items[i].ids : i \in DOMAIN items}
    <3>1. PICK k \in 1 .. n : list[k] = g
      BY <1>7, <2>1 DEF Range
    <3>2. PICK i \in DOMAIN items : k \in at(i)
      BY <1>12
    <3>3. g \in items[i].ids
      BY <1>11, <3>1, <3>2
    <3> QED BY <3>3
  <2>2. ASSUME NEW g \in UNION {items[i].ids : i \in DOMAIN items} PROVE g \in R
    <3>1. PICK i \in DOMAIN items : g \in items[i].ids
      OBVIOUS
    <3>2. PICK k \in at(i) : g = list[k]
      BY <1>11, <3>1
    <3>3. k \in 1 .. n
      BY <1>11, <3>2
    <3> QED BY <1>7, <3>2, <3>3
  <2> QED BY <2>1, <2>2
<1>15. ASSUME NEW i \in DOMAIN items, NEW j \in DOMAIN items, i < j,
              NEW g \in items[i].ids, NEW h \in items[j].ids
       PROVE  g # h /\ hits_of(kind, <<f, g>>, "total", s) >= hits_of(kind, <<f, h>>, "total", s)
  <2>1. PICK k \in at(i) : g = list[k]
    BY <1>11
  <2>2. PICK l \in at(j) : h = list[l]
    BY <1>11
  <2>3. k \in 1 .. n /\ l \in 1 .. n /\ k < l
    BY <1>11, <1>13, <1>15, <2>1, <2>2
  <2>4. g # h /\ c[g] >= c[h] /\ g \in R /\ h \in R
    BY <1>7, <1>8, <2>1, <2>2, <2>3
  <2> QED BY <1>4, <2>4
<1>16. Len(items) <= max
  BY <1>9, <1>10
<1> QED BY <1>1, <1>9, <1>10, <1>14, <1>15, <1>16

-----------------------------------------------------------------------------
(* The hot path, and the nodes a client comes to *)

\* The hits of a node, the hot child, and whether the path goes on.
Hot(n, s)  == hits_of("node", n, "total", s)
Cold(n, s) == hits_of("node", n, "self", s)

TopIsHottest ==
  \A s : \A n \in DOMAIN children : children[n] # <<>> =>
    /\ get_top_child(n, s) \in Range(children[n])
    /\ \A c \in Range(children[n]) : Hot(c, s) <= Hot(get_top_child(n, s), s)

LEMMA TopChild == TypeOK => TopIsHottest
PROOF
<1> SUFFICES ASSUME TypeOK, NEW s, NEW n \in DOMAIN children, children[n] # <<>>
             PROVE  /\ get_top_child(n, s) \in Range(children[n])
                    /\ \A c \in Range(children[n]) : Hot(c, s) <= Hot(get_top_child(n, s), s)
  BY DEF TopIsHottest
<1>1. PICK q \in Seq(DOMAIN nodes) : q = children[n]
  BY DEF TypeOK
<1>2. PICK m \in Nat \ {0} : m = Len(q) /\ DOMAIN q = 1 .. m
  BY <1>1
<1>3. PICK v : v = [i \in 1 .. m |-> hits_of("node", q[i], "total", s)]
  OBVIOUS
<1>4. \A i \in 1 .. m : v[i] \in Nat /\ v[i] = hits_of("node", q[i], "total", s)
  BY <1>3, HitsAre DEF HitsCounted
<1>5. PICK best : best = {i \in 1 .. m : \A j \in 1 .. m : v[j] <= v[i]}
  OBVIOUS
<1>6. best # {} /\ best \in SUBSET Nat
  <2>1. \E i \in 1 .. m : \A j \in 1 .. m : v[j] <= v[i]
    BY <1>4, LargestAt
  <2> QED BY <1>5, <2>1
<1>7. PICK b : b = Min(best)
  OBVIOUS
<1>8. b \in 1 .. m /\ \A j \in 1 .. m : v[j] <= v[b]
  <2>1. b \in best
    BY <1>6, <1>7, SmallestOf
  <2> QED BY <1>5, <2>1
<1>9. best = {i \in DOMAIN q : \A j \in DOMAIN q :
                hits_of("node", q[j], "total", s) <= hits_of("node", q[i], "total", s)}
  BY <1>2, <1>4, <1>5
<1>10. get_top_child(n, s) = q[b]
  BY <1>1, <1>7, <1>9 DEF get_top_child
<1>11. \A j \in 1 .. m : Hot(q[j], s) <= Hot(q[b], s)
  BY <1>4, <1>8 DEF Hot
<1> QED BY <1>1, <1>2, <1>8, <1>10, <1>11 DEF Range

\* One step of the handler, which stays where it is once the path has ended.
Further(s, k, path) ==
  IF Len(path) = k /\ expand_top_child(Last(path), s)
  THEN Append(path, get_top_child(Last(path), s)) ELSE path

\* A path of nodes, each the hot child of the one before it, with growing ids.
HotSteps(s, path) ==
  /\ path \in Seq(DOMAIN children) /\ path # <<>> /\ path[1] = 0
  /\ \A i \in 1 .. Len(path) - 1 :
       /\ expand_top_child(path[i], s)
       /\ path[i + 1] = get_top_child(path[i], s)
  /\ Last(path) >= Len(path) - 1

LEMMA FurtherStep ==
  ASSUME TypeOK, TreeShape, NEW s, NEW k \in 1 .. Len(nodes), NEW path, HotSteps(s, path), Len(path) <= k,
         Len(path) < k => ~expand_top_child(Last(path), s)
  PROVE  /\ HotSteps(s, Further(s, k, path)) /\ Len(Further(s, k, path)) <= k + 1
         /\ Len(Further(s, k, path)) < k + 1 => ~expand_top_child(Last(Further(s, k, path)), s)
PROOF
<1>0. path \in Seq(DOMAIN children) /\ path # <<>>
  BY DEF HotSteps
<1>1. PICK n \in DOMAIN children : n = Last(path)
  <2>1. Len(path) \in DOMAIN path
    BY <1>0
  <2> QED BY <1>0, <2>1 DEF Last
<1>2. PICK m \in Nat \ {0} : m = Len(path) /\ path[m] = n /\ path \in Seq(DOMAIN children)
  BY <1>0, <1>1 DEF Last
<1>3. CASE m = k /\ expand_top_child(n, s)
  <2>1. children[n] # <<>>
    BY <1>3 DEF expand_top_child
  <2>2. PICK c : c = get_top_child(n, s)
    OBVIOUS
  <2>3. c \in Range(children[n])
    BY <2>1, <2>2, TopChild DEF TopIsHottest
  <2>4. c \in DOMAIN nodes /\ c \in DOMAIN children /\ c \in Nat /\ n \in Nat /\ n < c
    <3>1. children[n] \in Seq(DOMAIN nodes)
      BY DEF TypeOK
    <3>2. c \in DOMAIN nodes
      BY <2>3, <3>1 DEF Range
    <3>3. n = Parent(c) /\ Parent(c) \in 0 .. c - 1
      BY <2>3, <3>2 DEF TreeShape
    <3> QED BY <3>2, <3>3 DEF TreeShape
  <2>5. PICK p : p = Append(path, c)
    OBVIOUS
  <2>6. Further(s, k, path) = p
    BY <1>1, <1>2, <1>3, <2>2, <2>5 DEF Further
  <2>7. /\ p \in Seq(DOMAIN children) /\ Len(p) = m + 1 /\ p[m + 1] = c
        /\ \A i \in 1 .. m : p[i] = path[i]
    BY <1>2, <2>4, <2>5
  <2>8. Last(p) = c /\ p # <<>> /\ p[1] = 0
    BY <1>2, <2>7 DEF Last, HotSteps
  <2>9. n >= m - 1
    BY <1>1, <1>2 DEF HotSteps
  <2>10. c >= Len(p) - 1
    BY <1>2, <2>4, <2>7, <2>9
  <2>11. ASSUME NEW i \in 1 .. m PROVE expand_top_child(p[i], s) /\ p[i + 1] = get_top_child(p[i], s)
    <3>1. CASE i = m
      BY <1>2, <1>3, <2>2, <2>7, <3>1
    <3>2. CASE i # m
      <4>1. i \in 1 .. Len(path) - 1 /\ i + 1 \in 1 .. m
        BY <1>2, <3>2
      <4>2. p[i] = path[i] /\ p[i + 1] = path[i + 1]
        BY <2>7, <4>1
      <4> QED BY <4>1, <4>2 DEF HotSteps
    <3> QED BY <3>1, <3>2
  <2>12. HotSteps(s, p)
    <3>1. Len(p) - 1 = m
      BY <1>2, <2>7
    <3> QED BY <2>7, <2>8, <2>10, <2>11, <3>1 DEF HotSteps
  <2> QED BY <1>3, <2>6, <2>7, <2>12
<1>4. CASE ~(m = k /\ expand_top_child(n, s))
  <2>1. Further(s, k, path) = path
    BY <1>1, <1>2, <1>4 DEF Further
  <2>2. Len(path) <= k + 1
    BY <1>2
  <2>3. ~expand_top_child(Last(path), s)
    BY <1>1, <1>2, <1>4
  <2> QED BY <2>1, <2>2, <2>3
<1> QED BY <1>3, <1>4

\* The whole path goes on as long as it is to.
LEMMA HotPathIs ==
  ASSUME TypeOK, TreeShape, NEW s
  PROVE  HotSteps(s, hot_path(s)) /\ ~expand_top_child(Last(hot_path(s)), s)
PROOF
<1>1. PICK N \in Nat : N = Len(nodes) /\ DOMAIN children = 0 .. N /\ DOMAIN nodes = 1 .. N
  BY DEF TreeShape
<1> DEFINE A == {p \in Seq(DOMAIN children) : p # <<>>}
           next == [x \in Nat \X A |-> Further(s, x[1], x[2])]
           Is(h) == h = [k \in 0 .. Len(nodes) |->
                           IF k = 0 THEN <<Root>>
                           ELSE LET before == h[k - 1]
                                IN  IF Len(before) = k /\ expand_top_child(Last(before), s)
                                    THEN Append(before, get_top_child(Last(before), s)) ELSE before]
<1>2. ASSUME NEW p \in A, NEW k \in Nat PROVE Further(s, k, p) \in A
  <2>1. CASE Len(p) = k /\ expand_top_child(Last(p), s)
    <3>1. PICK n \in DOMAIN children : n = Last(p)
      <4>1. Len(p) \in DOMAIN p
        OBVIOUS
      <4> QED BY <4>1 DEF Last
    <3>2. children[n] # <<>>
      BY <2>1, <3>1 DEF expand_top_child
    <3>3. PICK c : c = get_top_child(n, s)
      OBVIOUS
    <3>4. c \in Range(children[n])
      BY <3>2, <3>3, TopChild DEF TopIsHottest
    <3>5. c \in DOMAIN children
      <4>1. children[n] \in Seq(DOMAIN nodes)
        BY DEF TypeOK
      <4> QED BY <1>1, <3>4, <4>1 DEF Range
    <3>6. Append(p, c) \in A
      BY <3>5
    <3> QED BY <2>1, <3>1, <3>3, <3>6 DEF Further
  <2>2. CASE ~(Len(p) = k /\ expand_top_child(Last(p), s))
    BY <2>2 DEF Further
  <2> QED BY <2>1, <2>2
<1>3. <<Root>> \in A
  BY <1>1 DEF Root
<1> HIDE DEF A
<1>4. next \in [Nat \X A -> A] /\ \A k \in Nat, p \in A : next[<<k, p>>] = Further(s, k, p)
  <2>1. ASSUME NEW x \in Nat \X A PROVE Further(s, x[1], x[2]) \in A
    <3>1. x[1] \in Nat /\ x[2] \in A
      OBVIOUS
    <3> QED BY <1>2, <3>1
  <2> QED BY <2>1
<1> HIDE DEF next
<1>5. PICK g \in [0 .. N -> A] : g[0] = <<Root>> /\ \A k \in 1 .. N : g[k] = next[<<k, g[k - 1]>>]
  <2>0. PICK B : B = A
    OBVIOUS
  <2>1. PICK a \in B : a = <<Root>>
    BY <1>3, <2>0
  <2>2. PICK step \in [Nat \X B -> B] : step = next
    BY <1>4, <2>0
  <2>3. Reached(B, a, step, N)
    BY Iterated
  <2> QED BY <2>0, <2>1, <2>2, <2>3 DEF Reached
<1>6. \A k \in 1 .. N : g[k] = Further(s, k, g[k - 1])
  <2> SUFFICES ASSUME NEW k \in 1 .. N PROVE g[k] = Further(s, k, g[k - 1])
    OBVIOUS
  <2>1. k - 1 \in 0 .. N /\ k \in Nat
    OBVIOUS
  <2>2. g[k - 1] \in A
    BY <2>1
  <2> QED BY <1>4, <1>5, <2>1, <2>2
<1>7. Is(g)
  <2>1. ASSUME NEW k \in 0 .. Len(nodes)
        PROVE  g[k] = IF k = 0 THEN <<Root>>
                      ELSE LET before == g[k - 1]
                           IN  IF Len(before) = k /\ expand_top_child(Last(before), s)
                               THEN Append(before, get_top_child(Last(before), s)) ELSE before
    <3>1. CASE k = 0
      BY <1>5, <3>1
    <3>2. CASE k # 0
      <4>1. k \in 1 .. N
        BY <1>1, <3>2
      <4>2. g[k] = Further(s, k, g[k - 1])
        BY <1>6, <4>1
      <4> QED BY <3>2, <4>2, Zenon DEF Further
    <3> QED BY <3>1, <3>2
  <2>2. g = [k \in 0 .. Len(nodes) |-> g[k]]
    BY <1>1
  <2> QED BY <2>1, <2>2, Zenon
<1>8. PICK h : h = CHOOSE f : Is(f)
  OBVIOUS
<1>9. hot_path(s) = h[N]
  BY <1>1, <1>8 DEF hot_path
<1>10. Is(h)
  BY <1>7, <1>8
<1>11. h[0] = <<Root>> /\ \A k \in 1 .. N : h[k] = Further(s, k, h[k - 1])
  <2>1. \A k \in 0 .. Len(nodes) :
          h[k] = IF k = 0 THEN <<Root>>
                 ELSE LET before == h[k - 1]
                      IN  IF Len(before) = k /\ expand_top_child(Last(before), s)
                          THEN Append(before, get_top_child(Last(before), s)) ELSE before
    BY <1>10, Zenon
  <2>2. 0 \in 0 .. Len(nodes) /\ \A k \in 1 .. N : k \in 0 .. Len(nodes) /\ k # 0
    BY <1>1
  <2> QED BY <2>1, <2>2, Zenon DEF Further
<1> HIDE DEF Is
<1> DEFINE P(k) == /\ HotSteps(s, h[k]) /\ Len(h[k]) <= k + 1
                   /\ Len(h[k]) < k + 1 => ~expand_top_child(Last(h[k]), s)
           T == {k \in Nat : k > N \/ P(k)}
<1>12. 0 \in T
  <2>1. HotSteps(s, <<0>>) /\ Len(<<0>>) = 1
    BY <1>1 DEF HotSteps, Last
  <2>2. h[0] = <<0>>
    BY <1>11 DEF Root
  <2>3. P(0)
    BY <2>1, <2>2
  <2> HIDE DEF P
  <2> QED BY <2>3
<1>13. ASSUME NEW k \in T PROVE k + 1 \in T
  <2>0. k \in Nat
    OBVIOUS
  <2>1. CASE k >= N
    BY <1>1, <2>0, <2>1
  <2>2. CASE k < N
    <3>1. P(k)
      BY <2>0, <2>2
    <3>2. PICK j \in 1 .. Len(nodes) : j = k + 1 /\ j \in 1 .. N /\ j - 1 = k
      BY <1>1, <2>0, <2>2
    <3>3. h[j] = Further(s, j, h[k])
      BY <1>11, <3>2
    <3>4. PICK path : path = h[k]
      OBVIOUS
    <3>5. HotSteps(s, path) /\ Len(path) <= j /\ (Len(path) < j => ~expand_top_child(Last(path), s))
      BY <3>1, <3>2, <3>4
    <3>6. /\ HotSteps(s, Further(s, j, path)) /\ Len(Further(s, j, path)) <= j + 1
          /\ Len(Further(s, j, path)) < j + 1 => ~expand_top_child(Last(Further(s, j, path)), s)
      BY <3>5, FurtherStep
    <3>7. P(j)
      BY <3>3, <3>4, <3>6
    <3> HIDE DEF P
    <3> QED BY <2>0, <3>2, <3>7
  <2> QED BY <1>1, <2>0, <2>1, <2>2
<1> HIDE DEF T
<1>14. T = Nat
  <2>1. T \in SUBSET Nat
    BY DEF T
  <2> QED BY <1>12, <1>13, <2>1, Induction
<1>15. P(N)
  <2> HIDE DEF P
  <2>1. N \in T
    BY <1>14
  <2> QED BY <1>1, <2>1 DEF T
<1>16. PICK path : path = h[N]
  OBVIOUS
<1>17. HotSteps(s, path) /\ Len(path) <= N + 1 /\ (Len(path) < N + 1 => ~expand_top_child(Last(path), s))
  BY <1>15, <1>16
<1>18. CASE Len(path) = N + 1
  <2>1. PICK n \in DOMAIN children : n = Last(path)
    <3>1. path \in Seq(DOMAIN children) /\ path # <<>>
      BY <1>17 DEF HotSteps
    <3>2. Len(path) \in DOMAIN path
      BY <3>1
    <3> QED BY <3>1, <3>2 DEF Last
  <2>2. n = N
    BY <1>1, <1>17, <1>18, <2>1 DEF HotSteps
  <2>3. children[n] = <<>>
    <3>1. children[n] \in Seq(DOMAIN nodes)
      BY DEF TypeOK
    <3>2. ASSUME NEW c \in Range(children[n]) PROVE FALSE
      <4>1. c \in DOMAIN nodes
        BY <3>1 DEF Range
      <4>2. n = Parent(c) /\ Parent(c) \in 0 .. c - 1
        BY <4>1 DEF TreeShape
      <4> QED BY <1>1, <2>2, <4>1, <4>2
    <3>3. DOMAIN children[n] = {}
      BY <3>2 DEF Range
    <3> QED BY <3>1, <3>3
  <2>4. ~expand_top_child(Last(path), s)
    BY <2>1, <2>3 DEF expand_top_child
  <2> QED BY <1>9, <1>16, <1>17, <2>4
<1>19. CASE Len(path) < N + 1
  BY <1>9, <1>16, <1>17, <1>19
<1>20. Len(path) \in Nat
  BY <1>17 DEF HotSteps
<1> QED BY <1>17, <1>18, <1>19, <1>20

\* What a client knows after asking for the children of all it knew.
More(K) == K \cup UNION {Range(children[n]) : n \in K}

LEMMA ChildrenAreNodes ==
  ASSUME TypeOK, TreeShape, NEW K \in SUBSET (DOMAIN children)
  PROVE  More(K) \in SUBSET (DOMAIN children)
PROOF
<1> SUFFICES ASSUME NEW n \in K, NEW c \in Range(children[n]) PROVE c \in DOMAIN children
  BY DEF More
<1>1. children[n] \in Seq(DOMAIN nodes)
  BY DEF TypeOK
<1>2. c \in DOMAIN nodes
  BY <1>1 DEF Range
<1> QED BY <1>2 DEF TreeShape

LEMMA BrowsedAll ==
  ASSUME TypeOK, TreeShape, NEW s, NEW path \in Seq(DOMAIN children), path # <<>>, path[1] = 0
  PROVE  browsed(path, s) = DOMAIN children
PROOF
<1>1. PICK N \in Nat : N = Len(nodes) /\ DOMAIN children = 0 .. N /\ DOMAIN nodes = 1 .. N
  BY DEF TreeShape
<1> DEFINE A == SUBSET (DOMAIN children)
           next == [x \in Nat \X A |-> More(x[2])]
           Is(h) == h = [k \in 0 .. Len(nodes) |->
                           IF k = 0 THEN shown(path, s)
                           ELSE h[k - 1] \cup UNION {Range(children[n]) : n \in h[k - 1]}]
<1>2. shown(path, s) \in A /\ 0 \in shown(path, s)
  <2>1. PICK R : R = Range(path)
    OBVIOUS
  <2>2. R \in SUBSET (DOMAIN children) /\ 0 \in R
    <3>1. 1 \in DOMAIN path
      OBVIOUS
    <3> QED BY <2>1, <3>1 DEF Range
  <2>3. shown(path, s) = More(R)
    <3>1. shown(path, s) = UNION {{n} \cup Range(children[n]) : n \in R}
      BY <2>1 DEF shown
    <3>2. \A x : x \in UNION {{n} \cup Range(children[n]) : n \in R} <=> x \in More(R)
      BY DEF More
    <3> QED BY <3>1, <3>2
  <2> QED BY <2>2, <2>3, ChildrenAreNodes DEF More
<1>3. next \in [Nat \X A -> A] /\ \A k \in Nat, K \in A : next[<<k, K>>] = More(K)
  <2>1. \A K \in A : More(K) \in A
    BY ChildrenAreNodes
  <2> HIDE DEF A
  <2> QED BY <2>1
<1> HIDE DEF A, next
<1>4. PICK g \in [0 .. N -> A] : g[0] = shown(path, s) /\ \A k \in 1 .. N : g[k] = next[<<k, g[k - 1]>>]
  <2>0. PICK B : B = A
    OBVIOUS
  <2>1. PICK a \in B : a = shown(path, s)
    BY <1>2, <2>0
  <2>2. PICK step \in [Nat \X B -> B] : step = next
    BY <1>3, <2>0
  <2>3. Reached(B, a, step, N)
    BY Iterated
  <2> QED BY <2>0, <2>1, <2>2, <2>3 DEF Reached
<1>5. \A k \in 1 .. N : g[k] = More(g[k - 1])
  <2> SUFFICES ASSUME NEW k \in 1 .. N PROVE g[k] = More(g[k - 1])
    OBVIOUS
  <2>1. k - 1 \in 0 .. N /\ k \in Nat
    OBVIOUS
  <2>2. g[k - 1] \in A
    BY <2>1
  <2> QED BY <1>3, <1>4, <2>1, <2>2
<1>6. Is(g)
  <2>1. ASSUME NEW k \in 0 .. Len(nodes)
        PROVE  g[k] = IF k = 0 THEN shown(path, s)
                      ELSE g[k - 1] \cup UNION {Range(children[n]) : n \in g[k - 1]}
    <3>1. CASE k = 0
      BY <1>4, <3>1
    <3>2. CASE k # 0
      <4>1. k \in 1 .. N
        BY <1>1, <3>2
      <4>2. g[k] = More(g[k - 1])
        BY <1>5, <4>1
      <4> QED BY <3>2, <4>2, Zenon DEF More
    <3> QED BY <3>1, <3>2
  <2>2. g = [k \in 0 .. Len(nodes) |-> g[k]]
    BY <1>1
  <2> QED BY <2>1, <2>2, Zenon
<1>7. PICK h : h = CHOOSE f : Is(f)
  OBVIOUS
<1>8. browsed(path, s) = h[N]
  BY <1>1, <1>7 DEF browsed
<1>9. Is(h)
  BY <1>6, <1>7
<1>10. h[0] = shown(path, s) /\ \A k \in 1 .. N : h[k] = More(h[k - 1])
  <2>1. \A k \in 0 .. Len(nodes) :
          h[k] = IF k = 0 THEN shown(path, s)
                 ELSE h[k - 1] \cup UNION {Range(children[n]) : n \in h[k - 1]}
    BY <1>9, Zenon
  <2>2. 0 \in 0 .. Len(nodes) /\ \A k \in 1 .. N : k \in 0 .. Len(nodes) /\ k # 0
    BY <1>1
  <2> QED BY <2>1, <2>2, Zenon DEF More
<1> HIDE DEF Is
<1> DEFINE T == {k \in Nat : k > N \/ (h[k] \in A /\ 0 .. k \subseteq h[k])}
<1>11. 0 \in T
  <2>1. 0 .. 0 = {0}
    OBVIOUS
  <2> QED BY <1>2, <1>10, <2>1
<1>12. ASSUME NEW k \in T PROVE k + 1 \in T
  <2>0. k \in Nat
    OBVIOUS
  <2>1. CASE k >= N
    BY <1>1, <2>0, <2>1
  <2>2. CASE k < N
    <3>1. h[k] \in A /\ 0 .. k \subseteq h[k]
      BY <2>0, <2>2
    <3>2. PICK j : j = k + 1 /\ j \in 1 .. N /\ j - 1 = k
      BY <2>0, <2>2
    <3>3. h[j] = More(h[k])
      BY <1>10, <3>2
    <3>4. PICK K \in SUBSET (DOMAIN children) : K = h[k]
      BY <3>1 DEF A
    <3>5. h[j] \in A
      BY <3>3, <3>4, ChildrenAreNodes DEF A
    <3>6. j \in More(K)
      <4>1. Parent(j) \in 0 .. j - 1 /\ j \in Range(children[Parent(j)])
        BY <1>1, <3>2 DEF TreeShape
      <4>2. Parent(j) \in K
        BY <3>1, <3>2, <3>4, <4>1
      <4> QED BY <4>1, <4>2 DEF More
    <3>7. 0 .. k \subseteq More(K)
      BY <3>1, <3>4 DEF More
    <3>8. \A x \in 0 .. j : x = j \/ x \in 0 .. k
      BY <2>0, <3>2
    <3>9. 0 .. j \subseteq h[j]
      BY <3>3, <3>4, <3>6, <3>7, <3>8
    <3>10. j \in T
      BY <2>0, <3>2, <3>5, <3>9
    <3> HIDE DEF T
    <3> QED BY <3>2, <3>10
  <2> QED BY <1>1, <2>0, <2>1, <2>2
<1> HIDE DEF T
<1>13. T = Nat
  <2>1. T \in SUBSET Nat
    BY DEF T
  <2> QED BY <1>11, <1>12, <2>1, Induction
<1>14. h[N] \in A /\ 0 .. N \subseteq h[N]
  <2>1. N \in T
    BY <1>13
  <2> QED BY <1>1, <2>1 DEF T
<1> QED BY <1>1, <1>8, <1>14 DEF A

LEMMA HotPathIsExpanded == TypeOK /\ TreeShape => HotPathExpands
PROOF
<1> SUFFICES ASSUME TypeOK, TreeShape, NEW s \in Sources, NEW whole, whole = hot_path(s)
             PROVE  /\ \A i \in 1 .. Len(whole) - 1 : \A c \in Range(children[whole[i]]) :
                         hits_of("node", c, "total", s) <= hits_of("node", whole[i + 1], "total", s)
                    /\ \A c \in Range(children[Last(whole)]) :
                         hits_of("node", c, "total", s) <= hits_of("node", Last(whole), "self", s)
                    /\ \A steps \in 1 .. Len(whole) :
                         LET path == SubSeq(whole, 1, steps)
                         IN  /\ browsed(path, s) = DOMAIN children
                             /\ \A n \in shown(path, s) :
                                  children_json(path, s, n) = "missing" => steps < Len(whole)
  BY DEF HotPathExpands
<1>1. HotSteps(s, whole) /\ ~expand_top_child(Last(whole), s)
  BY HotPathIs
<1>2. PICK m \in Nat \ {0} : m = Len(whole) /\ DOMAIN whole = 1 .. m
  BY <1>1 DEF HotSteps
<1>3. whole \in Seq(DOMAIN children) /\ whole[1] = 0
  BY <1>1 DEF HotSteps
<1>4. \A n, t : Hot(n, t) \in Nat /\ Cold(n, t) \in Nat
  BY HitsAre DEF HitsCounted, Hot, Cold
<1>5. ASSUME NEW i \in 1 .. m - 1, NEW c \in Range(children[whole[i]])
      PROVE  Hot(c, s) <= Hot(whole[i + 1], s)
  <2>1. PICK n \in DOMAIN children : n = whole[i]
    BY <1>2, <1>3
  <2>2. expand_top_child(n, s) /\ whole[i + 1] = get_top_child(n, s)
    BY <1>1, <1>2, <2>1 DEF HotSteps
  <2>3. children[n] # <<>>
    BY <2>2 DEF expand_top_child
  <2> QED BY <1>5, <2>1, <2>2, <2>3, TopChild DEF TopIsHottest
<1>6. ASSUME NEW c \in Range(children[Last(whole)]) PROVE Hot(c, s) <= Cold(Last(whole), s)
  <2>1. PICK n \in DOMAIN children : n = Last(whole)
    BY <1>2, <1>3 DEF Last
  <2>2. children[n] # <<>>
    <3>1. children[n] \in Seq(DOMAIN nodes)
      BY DEF TypeOK
    <3> QED BY <1>6, <2>1, <3>1 DEF Range
  <2>3. ~(Hot(get_top_child(n, s), s) > Cold(n, s))
    BY <1>1, <2>1, <2>2 DEF expand_top_child, Hot, Cold
  <2>4. Hot(c, s) <= Hot(get_top_child(n, s), s)
    BY <1>6, <2>1, <2>2, TopChild DEF TopIsHottest
  <2>5. PICK a \in Nat, b \in Nat, d \in Nat :
          a = Hot(c, s) /\ b = Hot(get_top_child(n, s), s) /\ d = Cold(n, s)
    BY <1>4
  <2>6. a <= d
    BY <2>3, <2>4, <2>5
  <2> QED BY <2>1, <2>5, <2>6
<1>7. ASSUME NEW steps \in 1 .. m, NEW path, path = SubSeq(whole, 1, steps)
      PROVE  /\ browsed(path, s) = DOMAIN children
             /\ \A n \in shown(path, s) : children_json(path, s, n) = "missing" => steps < m
  <2>1. path \in Seq(DOMAIN children) /\ path # <<>> /\ path[1] = 0
    BY <1>2, <1>3, <1>7
  <2>2. browsed(path, s) = DOMAIN children
    BY <2>1, BrowsedAll
  <2>3. ASSUME NEW n \in shown(path, s), children_json(path, s, n) = "missing" PROVE steps < m
    <3>1. expand_top_child(Last(path), s)
      BY <2>3 DEF children_json
    <3>2. steps # m
      <4> SUFFICES ASSUME steps = m PROVE FALSE
        OBVIOUS
      <4>1. path = whole
        BY <1>2, <1>3, <1>7
      <4> QED BY <1>1, <3>1, <4>1
    <3> QED BY <1>2, <3>2
  <2> QED BY <2>2, <2>3
<1> QED BY <1>2, <1>5, <1>6, <1>7 DEF Hot, Cold

-----------------------------------------------------------------------------
(* The pages of functions *)

LEMMA ReversedPart ==
  ASSUME NEW S, NEW q \in Seq(S), NEW a \in 0 .. Len(q), NEW b \in a .. Len(q)
  PROVE  /\ Reverse(q) \in Seq(S) /\ Len(Reverse(q)) = Len(q)
         /\ Reverse(SubSeq(q, Len(q) - b + 1, Len(q) - a)) = SubSeq(Reverse(q), a + 1, b)
PROOF
<1>1. PICK n \in Nat : n = Len(q) /\ DOMAIN q = 1 .. n
  OBVIOUS
<1>0. a \in Nat /\ b \in Nat /\ a <= b /\ b <= n
  BY <1>1
<1>2. PICK r : r = Reverse(q)
  OBVIOUS
<1>3. r = [i \in 1 .. n |-> q[(n - i) + 1]]
  BY <1>1, <1>2 DEF Reverse
<1>4. r \in Seq(S) /\ Len(r) = n /\ \A i \in 1 .. n : r[i] = q[(n - i) + 1]
  <2>1. \A i \in 1 .. n : q[(n - i) + 1] \in S
    BY <1>1
  <2>2. r \in [1 .. n -> S]
    BY <1>3, <2>1
  <2> QED BY <1>3, <2>2
<1>5. PICK p : p = SubSeq(q, n - b + 1, n - a)
  OBVIOUS
<1>6. Len(p) = b - a /\ \A i \in 1 .. b - a : p[i] = q[i + (n - b)]
  BY <1>1, <1>5
<1>7. PICK t : t = SubSeq(r, a + 1, b)
  OBVIOUS
<1>8. t \in Seq(S) /\ Len(t) = b - a /\ \A i \in 1 .. b - a : t[i] = r[i + a]
  BY <1>1, <1>4, <1>7
<1>9. \A i \in 1 .. b - a : p[((b - a) - i) + 1] = t[i]
  <2> SUFFICES ASSUME NEW i \in 1 .. b - a PROVE p[((b - a) - i) + 1] = t[i]
    OBVIOUS
  <2>1. PICK k \in 1 .. b - a : k = ((b - a) - i) + 1
    BY <1>1
  <2>2. PICK j \in 1 .. n : j = k + (n - b)
    <3>1. k + (n - b) \in 1 .. n
      BY <1>0
    <3> QED BY <3>1
  <2>3. p[k] = q[j]
    BY <1>6, <2>1, <2>2
  <2>4. i + a \in 1 .. n /\ (n - (i + a)) + 1 = j
    BY <1>1, <2>1, <2>2
  <2>5. r[i + a] = q[j]
    BY <1>4, <2>4
  <2> QED BY <1>8, <2>1, <2>3, <2>5
<1>10. t = [i \in 1 .. b - a |-> t[i]]
  BY <1>1, <1>8
<1>11. Reverse(p) = [i \in 1 .. b - a |-> p[((b - a) - i) + 1]]
  BY <1>6 DEF Reverse
<1>12. Reverse(p) = t
  BY <1>9, <1>10, <1>11
<1> QED BY <1>1, <1>2, <1>4, <1>5, <1>7, <1>12

LEMMA PartsJoined ==
  ASSUME NEW S, NEW q \in Seq(S), NEW a \in 0 .. Len(q), NEW b \in a .. Len(q)
  PROVE  SubSeq(q, 1, b) = SubSeq(q, 1, a) \o SubSeq(q, a + 1, b)
PROOF
<1>1. PICK n \in Nat : n = Len(q) /\ DOMAIN q = 1 .. n
  OBVIOUS
<1>2. PICK x, y, z : x = SubSeq(q, 1, a) /\ y = SubSeq(q, a + 1, b) /\ z = SubSeq(q, 1, b)
  OBVIOUS
<1>3. /\ x \in Seq(S) /\ Len(x) = a /\ \A i \in 1 .. a : x[i] = q[i]
      /\ y \in Seq(S) /\ Len(y) = b - a /\ \A i \in 1 .. b - a : y[i] = q[i + a]
      /\ z \in Seq(S) /\ Len(z) = b /\ \A i \in 1 .. b : z[i] = q[i]
  BY <1>1, <1>2
<1>4. PICK w : w = x \o y
  OBVIOUS
<1>5. /\ w \in Seq(S) /\ Len(w) = b
      /\ \A i \in 1 .. b : w[i] = IF i <= a THEN x[i] ELSE y[i - a]
  <2>1. /\ w \in Seq(S) /\ Len(w) = Len(x) + Len(y)
        /\ \A i \in 1 .. Len(x) + Len(y) : w[i] = IF i <= Len(x) THEN x[i] ELSE y[i - Len(x)]
    BY <1>3, <1>4
  <2>2. Len(x) = a /\ Len(x) + Len(y) = b
    BY <1>1, <1>3
  <2> QED BY <2>1, <2>2
<1>6. \A i \in 1 .. b : w[i] = z[i]
  <2> SUFFICES ASSUME NEW i \in 1 .. b PROVE w[i] = z[i]
    OBVIOUS
  <2>1. CASE i <= a
    <3>1. i \in 1 .. a
      BY <1>1, <2>1
    <3> QED BY <1>3, <1>5, <2>1, <3>1
  <2>2. CASE ~(i <= a)
    <3>1. i - a \in 1 .. b - a /\ (i - a) + a = i
      BY <1>1, <2>2
    <3>2. y[i - a] = q[i]
      BY <1>3, <3>1
    <3> QED BY <1>3, <1>5, <2>2, <3>2
  <2> QED BY <2>1, <2>2
<1>7. w = z
  BY <1>3, <1>5, <1>6
<1> QED BY <1>2, <1>4, <1>7

\* How far the pages up to k come.
Reach(n, size, k) == Min({k * size, n})

LEMMA ReachOfPages ==
  ASSUME NEW n \in Nat, NEW size \in Nat \ {0}
  PROVE  /\ \A k \in Nat : Reach(n, size, k) \in 0 .. n /\ Reach(n, size, k) <= Reach(n, size, k + 1)
         /\ Reach(n, size, 0) = 0 /\ Reach(n, size, n + 1) = n
PROOF
<1>1. \A k \in Nat : k * size \in Nat
  OBVIOUS
<1>2. \A k \in Nat : Reach(n, size, k) = IF k * size <= n THEN k * size ELSE n
  <2> SUFFICES ASSUME NEW k \in Nat PROVE Reach(n, size, k) = IF k * size <= n THEN k * size ELSE n
    OBVIOUS
  <2>1. PICK a \in Nat : a = k * size
    BY <1>1
  <2>2. Min({a, n}) = IF a <= n THEN a ELSE n
    BY SmallerOf
  <2> QED BY <2>1, <2>2 DEF Reach
<1>3. ASSUME NEW k \in Nat PROVE Reach(n, size, k) \in 0 .. n /\ Reach(n, size, k) <= Reach(n, size, k + 1)
  <2>1. PICK a \in Nat : a = k * size
    BY <1>1
  <2>2. (k + 1) * size = a + size
    BY <2>1, SMTT(30)
  <2>3. k + 1 \in Nat
    OBVIOUS
  <2>4. /\ Reach(n, size, k) = IF a <= n THEN a ELSE n
        /\ Reach(n, size, k + 1) = IF a + size <= n THEN a + size ELSE n
    BY <1>2, <2>1, <2>2, <2>3
  <2> QED BY <2>4
<1>4. Reach(n, size, 0) = 0
  BY <1>2
<1>5. Reach(n, size, n + 1) = n
  <2>1. PICK d \in Nat : size = d + 1
    <3>1. size - 1 \in Nat /\ size = (size - 1) + 1
      OBVIOUS
    <3> QED BY <3>1
  <2>2. PICK c \in Nat : c = (n + 1) * d
    OBVIOUS
  <2>3. (n + 1) * size = c + (n + 1)
    BY <2>1, <2>2, SMTT(30)
  <2>4. ~((n + 1) * size <= n)
    BY <2>3
  <2>5. n + 1 \in Nat
    OBVIOUS
  <2> QED BY <1>2, <2>4, <2>5
<1> QED BY <1>3, <1>4, <1>5

PageOf(L, n, size, k) == SubSeq(L, Reach(n, size, k) + 1, Reach(n, size, k + 1))

LEMMA PageIs ==
  ASSUME NEW S, NEW list \in Seq(S), NEW size \in Nat \ {0}, NEW k \in Nat
  PROVE  /\ functions_page(list, FALSE, size, k) = PageOf(list, Len(list), size, k)
         /\ functions_page(list, TRUE, size, k) = PageOf(Reverse(list), Len(list), size, k)
PROOF
<1>1. PICK n \in Nat : n = Len(list)
  OBVIOUS
<1>2. PICK a \in 0 .. n : a = Reach(n, size, k)
  BY ReachOfPages
<1>3. PICK b \in a .. n : b = Reach(n, size, k + 1)
  <2>1. k + 1 \in Nat
    OBVIOUS
  <2>2. Reach(n, size, k + 1) \in 0 .. n /\ a <= Reach(n, size, k + 1)
    BY <1>2, <2>1, ReachOfPages
  <2> QED BY <2>2
<1>4. /\ span(list, TRUE, size, k) = SubSeq(list, n - b + 1, n - a)
      /\ span(list, FALSE, size, k) = SubSeq(list, a + 1, b)
  BY <1>1, <1>2, <1>3 DEF span, Reach
<1>5. functions_page(list, TRUE, size, k) = SubSeq(Reverse(list), a + 1, b)
  <2>1. functions_page(list, TRUE, size, k) = Reverse(SubSeq(list, n - b + 1, n - a))
    BY <1>4 DEF functions_page
  <2>2. Reverse(SubSeq(list, n - b + 1, n - a)) = SubSeq(Reverse(list), a + 1, b)
    BY <1>1, ReversedPart
  <2> QED BY <2>1, <2>2
<1>6. functions_page(list, FALSE, size, k) = SubSeq(list, a + 1, b)
  BY <1>4 DEF functions_page
<1> QED BY <1>1, <1>2, <1>3, <1>5, <1>6 DEF PageOf

LEMMA PagesJoined ==
  ASSUME NEW S, NEW list \in Seq(S), NEW size \in Nat \ {0}, NEW descending \in BOOLEAN
  PROVE  FlattenSeq([i \in 1 .. Len(list) + 1 |-> functions_page(list, descending, size, i - 1)])
           = IF descending THEN Reverse(list) ELSE list
PROOF
<1>1. PICK n \in Nat : n = Len(list)
  OBVIOUS
<1>2. PICK L : L = IF descending THEN Reverse(list) ELSE list
  OBVIOUS
<1>3. L \in Seq(S) /\ Len(L) = n
  <2>1. 0 \in 0 .. Len(list) /\ 0 \in 0 .. Len(list)
    OBVIOUS
  <2>2. Reverse(list) \in Seq(S) /\ Len(Reverse(list)) = Len(list)
    BY <2>1, ReversedPart
  <2> QED BY <1>1, <1>2, <2>2
<1>4. PICK e : e = [k \in 0 .. n + 1 |-> Reach(n, size, k)]
  OBVIOUS
<1>5. /\ \A k \in 0 .. n + 1 : e[k] \in 0 .. n /\ e[k] = Reach(n, size, k)
      /\ \A k \in 1 .. n + 1 : k - 1 \in 0 .. n + 1 /\ e[k - 1] \in 0 .. n /\ e[k] \in e[k - 1] .. n
      /\ e[0] = 0 /\ e[n + 1] = n
  <2>1. ASSUME NEW k \in 0 .. n + 1 PROVE e[k] \in 0 .. n /\ e[k] = Reach(n, size, k)
    <3>1. k \in Nat
      OBVIOUS
    <3>2. Reach(n, size, k) \in 0 .. n
      BY <3>1, ReachOfPages
    <3> QED BY <1>4, <3>2
  <2>2. ASSUME NEW k \in 1 .. n + 1
        PROVE  k - 1 \in 0 .. n + 1 /\ e[k - 1] \in 0 .. n /\ e[k] \in e[k - 1] .. n
    <3>1. PICK j \in Nat : j = k - 1 /\ j + 1 = k /\ j \in 0 .. n + 1 /\ k \in 0 .. n + 1
      BY <1>1
    <3>2. Reach(n, size, j) <= Reach(n, size, j + 1)
      BY ReachOfPages
    <3> QED BY <2>1, <3>1, <3>2
  <2>3. e[0] = 0 /\ e[n + 1] = n
    <3>1. 0 \in 0 .. n + 1 /\ n + 1 \in 0 .. n + 1
      OBVIOUS
    <3> QED BY <2>1, <3>1, ReachOfPages
  <2> QED BY <2>1, <2>2, <2>3
<1>6. PICK q : q = [i \in 1 .. Len(list) + 1 |-> functions_page(list, descending, size, i - 1)]
  OBVIOUS
<1>7. /\ q = [i \in 1 .. n + 1 |-> q[i]]
      /\ \A i \in 1 .. n + 1 : q[i] = SubSeq(L, e[i - 1] + 1, e[i])
  <2>1. q = [i \in 1 .. n + 1 |-> functions_page(list, descending, size, i - 1)]
    BY <1>1, <1>6
  <2>2. ASSUME NEW i \in 1 .. n + 1
        PROVE  functions_page(list, descending, size, i - 1) = SubSeq(L, e[i - 1] + 1, e[i])
    <3>1. PICK k \in Nat : k = i - 1 /\ k + 1 = i /\ k \in 0 .. n + 1 /\ i \in 0 .. n + 1
      OBVIOUS
    <3>2. functions_page(list, descending, size, k) = PageOf(L, n, size, k)
      <4>1. CASE descending = TRUE
        <5>1. functions_page(list, TRUE, size, k) = PageOf(Reverse(list), Len(list), size, k)
          BY PageIs
        <5> QED BY <1>1, <1>2, <4>1, <5>1
      <4>2. CASE descending = FALSE
        <5>1. functions_page(list, FALSE, size, k) = PageOf(list, Len(list), size, k)
          BY PageIs
        <5> QED BY <1>1, <1>2, <4>2, <5>1
      <4> QED BY <4>1, <4>2
    <3>3. e[k] = Reach(n, size, k) /\ e[i] = Reach(n, size, k + 1)
      BY <1>5, <3>1
    <3> QED BY <3>1, <3>2, <3>3 DEF PageOf
  <2> QED BY <2>1, <2>2
<1>8. q \in Seq(Range(q)) /\ Len(q) = n + 1
  <2>1. q \in [1 .. n + 1 -> Range(q)]
    BY <1>7 DEF Range
  <2> QED BY <2>1
<1>9. PICK F : F = [k \in 1 .. n + 1 |-> SubSeq(L, 1, e[k])]
  OBVIOUS
<1>10. F = [k \in 1 .. n + 1 |-> F[k]] /\ \A k \in 1 .. n + 1 : F[k] = SubSeq(L, 1, e[k])
  BY <1>9
<1>11. F[1] = q[1]
  <2>1. 1 \in 1 .. n + 1 /\ 1 - 1 = 0
    OBVIOUS
  <2>2. q[1] = SubSeq(L, e[0] + 1, e[1]) /\ e[0] + 1 = 1
    <3>1. q[1] = SubSeq(L, e[1 - 1] + 1, e[1])
      BY <1>7, <2>1
    <3>2. e[0] + 1 = 1
      BY <1>5
    <3> QED BY <2>1, <3>1, <3>2, Zenon
  <2> QED BY <1>10, <2>1, <2>2
<1>12. ASSUME NEW k \in 1 .. n + 1, k # 1 PROVE F[k] = F[k - 1] \o q[k]
  <2>1. PICK j \in 1 .. n + 1 : j = k - 1
    BY <1>12
  <2>5. PICK a \in 0 .. n : a = e[j]
    BY <1>5, <2>1
  <2>2. PICK b \in a .. n : a = e[j] /\ b = e[k]
    BY <1>5, <2>1, <2>5
  <2>3. F[k] = SubSeq(L, 1, b) /\ F[j] = SubSeq(L, 1, a) /\ q[k] = SubSeq(L, a + 1, b)
    BY <1>7, <1>10, <2>1, <2>2
  <2>4. SubSeq(L, 1, b) = SubSeq(L, 1, a) \o SubSeq(L, a + 1, b)
    BY <1>3, PartsJoined
  <2> QED BY <2>1, <2>3, <2>4, Zenon
<1>13. n + 1 \in Nat \ {0}
  OBVIOUS
<1>14. FlattenSeq(q) = F[n + 1]
  <2>1. \A k \in 1 .. n + 1 : k # 1 => F[k] = F[k - 1] \o q[k]
    BY <1>12
  <2>2. PICK m \in Nat \ {0} : m = n + 1
    BY <1>13
  <2>3. Joins(F, q, m)
    BY <1>8, <1>10, <1>11, <2>1, <2>2, Zenon DEF Joins
  <2>4. FlattenSeq(q) = F[m]
    BY <2>3, FlattenedIs
  <2> QED BY <2>2, <2>4
<1>15. F[n + 1] = L
  <2>1. n + 1 \in 1 .. n + 1
    OBVIOUS
  <2>2. F[n + 1] = SubSeq(L, 1, n)
    BY <1>5, <1>10, <2>1
  <2>3. SubSeq(L, 1, n) = L
    BY <1>3
  <2> QED BY <2>2, <2>3
<1> QED BY <1>2, <1>6, <1>14, <1>15

\* The samples that are self hits of a function, or of the root.
SelfSamples(f, s) ==
  IF f = Root THEN {i \in Stacks(s) \cap Complete : seen[i].frames = <<>>}
  ELSE {i \in DOMAIN seen : /\ seen[i].source = s /\ seen[i].frames # <<>>
                            /\ FunctionAt(<<i, Len(seen[i].frames)>>) = f}

LEMMA SelfAreSamples ==
  ASSUME IInv, pc = "done", NEW s \in Sources, NEW f \in {Root} \cup Functions
  PROVE  /\ IsFiniteSet(SelfSamples(f, s))
         /\ hits_of("function", f, "self", s) = Cardinality(SelfSamples(f, s))
PROOF
<1>0. TypeOK /\ FrameCounts /\ RootCounts /\ seen \in Seq(Samples)
  BY DEF IInv, CountsInv, TypeOK
<1>1. hits_of("function", f, "self", s) = Self("function", f, s)
  BY <1>0, HitsAre DEF HitsCounted
<1>2. Root = 0 /\ Root \notin Functions /\ \A g \in Functions : g # 0
  BY <1>0, FunctionsAreFinite
<1>3. CASE f = Root
  <2>1. SelfSamples(f, s) = {i \in Stacks(s) \cap Complete : seen[i].frames = <<>>}
    BY <1>3 DEF SelfSamples
  <2>2. Self("function", 0, s) = Cardinality({i \in Stacks(s) \cap Complete : seen[i].frames = <<>>})
    BY <1>0 DEF RootCounts
  <2>3. IsFiniteSet(Stacks(s) \cap Complete)
    BY <1>0, PlacesAreFinite
  <2>4. SelfSamples(f, s) \in SUBSET (Stacks(s) \cap Complete)
    BY <2>1
  <2> QED BY <1>1, <1>2, <1>3, <2>1, <2>2, <2>3, <2>4, FS_Subset
<1>4. CASE f # Root
  <2>0. f # 0
    BY <1>2, <1>4
  <2>1. PICK I : I = {p \in CountedFor("function", f, s) : Innermost(p)}
    OBVIOUS
  <2>2. Self("function", f, s) = Cardinality(I)
    <3>1. <<"function", f>> # <<"function", 0>>
      BY <2>0
    <3> QED BY <1>0, <2>1, <3>1 DEF FrameCounts, FrameKinds
  <2>3. IsFiniteSet(I)
    BY <1>0, <2>1, CountedAreFinite
  <2>4. PICK J : J = SelfSamples(f, s)
    OBVIOUS
  <2>5. J = {i \in DOMAIN seen : /\ seen[i].source = s /\ seen[i].frames # <<>>
                                 /\ FunctionAt(<<i, Len(seen[i].frames)>>) = f}
    BY <1>4, <2>4 DEF SelfSamples
  <2>6. \A p : p \in I <=> /\ p \in Places(s) /\ FunctionAt(p) = f /\ p[2] = Len(seen[p[1]].frames)
    <3>1. \A ids : <<"function", f>> \in counted(ids) <=> ids.function = f
      BY DEF counted
    <3>2. \A p : p \in CountedFor("function", f, s) <=> p \in Places(s) /\ FunctionAt(p) = f
      BY <3>1 DEF CountedFor, FunctionAt
    <3>3. \A p \in Places(s) : Innermost(p) <=> p[2] = Len(seen[p[1]].frames)
      BY <1>0, PlaceFacts DEF Innermost, Complete
    <3> QED BY <2>1, <3>2, <3>3
  <2>7. ASSUME NEW i \in J PROVE <<i, Len(seen[i].frames)>> \in I
    <3>1. i \in DOMAIN seen /\ seen[i].source = s /\ seen[i].frames # <<>>
      BY <2>5
    <3>2. PICK fs \in Seq(Frames) : fs = seen[i].frames
      BY <1>0, <3>1, SamplesTyped
    <3>3. Len(fs) \in DOMAIN fs
      BY <3>1, <3>2
    <3>4. <<i, Len(seen[i].frames)>> \in Places(s)
      BY <3>1, <3>2, <3>3, PlaceIs DEF PlacesAre
    <3> QED BY <2>5, <2>6, <3>4
  <2>8. ASSUME NEW p \in I PROVE p[1] \in J /\ p = <<p[1], Len(seen[p[1]].frames)>>
    <3>1. p \in Places(s) /\ FunctionAt(p) = f /\ p[2] = Len(seen[p[1]].frames)
      BY <2>6
    <3>2. /\ p = <<p[1], p[2]>> /\ p[1] \in DOMAIN seen /\ seen[p[1]].source = s
          /\ p[2] \in DOMAIN seen[p[1]].frames
      BY <1>0, <3>1, PlaceFacts
    <3>3. seen[p[1]].frames # <<>>
      BY <3>2
    <3> QED BY <2>5, <3>1, <3>2, <3>3
  <2>9. PICK h : h = [p \in I |-> p[1]]
    OBVIOUS
  <2>10. h \in Surjection(I, J) /\ h \in Injection(I, J)
    <3>1. h \in [I -> J]
      BY <2>8, <2>9
    <3>2. ASSUME NEW i \in J PROVE \E p \in I : h[p] = i
      <4>1. PICK p \in I : p = <<i, Len(seen[i].frames)>>
        BY <2>7
      <4>2. h[p] = i
        BY <2>9, <4>1
      <4> QED BY <4>2
    <3>3. \A p, r \in I : h[p] = h[r] => p = r
      <4>1. ASSUME NEW p \in I, NEW r \in I, h[p] = h[r] PROVE p = r
        <5>1. p[1] = r[1]
          BY <2>9, <4>1
        <5>2. p = <<p[1], Len(seen[p[1]].frames)>> /\ r = <<r[1], Len(seen[r[1]].frames)>>
          BY <2>8
        <5> QED BY <5>1, <5>2
      <4> QED BY <4>1
    <3> QED BY <3>1, <3>2, <3>3 DEF Surjection, Injection, IsInjective
  <2>11. IsFiniteSet(J) /\ Cardinality(J) = Cardinality(I)
    BY <2>3, <2>10, FS_Surjection
  <2> QED BY <1>1, <2>2, <2>4, <2>11
<1> QED BY <1>3, <1>4

\* What the function of a fold is that adds numbers.
SelfTotal(s, D) == FoldSet(LAMBDA f, n : n + hits_of("function", f, "self", s), 0, D)

LEMMA SelfSum ==
  ASSUME NEW s, NEW D, NEW c, c = [f \in D |-> hits_of("function", f, "self", s)]
  PROVE  \E h : /\ (\E g : Sums(D, c, g)) => Sums(D, c, h)
                /\ SelfTotal(s, D) = h[D]
PROOF
<1> DEFINE Is(g) == g = [S \in SUBSET D |->
                           IF S = {} THEN 0
                           ELSE g[S \ {CHOOSE x \in S : TRUE}]
                                + hits_of("function", CHOOSE x \in S : TRUE, "self", s)]
           h == CHOOSE g : Is(g)
<1>1. SelfTotal(s, D) = h[D]
  BY DEF SelfTotal, FoldSet, MapThenFoldSet
<1>2. ASSUME NEW g PROVE Is(g) <=> Sums(D, c, g)
  <2>1. ASSUME NEW S \in SUBSET D
        PROVE  (IF S = {} THEN 0
                ELSE g[S \ {CHOOSE x \in S : TRUE}] + hits_of("function", CHOOSE x \in S : TRUE, "self", s))
               = (IF S = {} THEN 0 ELSE g[S \ {PickOf(S)}] + c[PickOf(S)])
    <3>1. CASE S = {}
      BY <3>1
    <3>2. CASE S # {}
      <4>1. PICK y : y = CHOOSE x \in S : TRUE
        OBVIOUS
      <4>2. y \in D /\ PickOf(S) = y
        BY <3>2, <4>1 DEF PickOf
      <4> QED BY <3>2, <4>1, <4>2
    <3> QED BY <3>1, <3>2
  <2>2. [S \in SUBSET D |->
           IF S = {} THEN 0
           ELSE g[S \ {CHOOSE x \in S : TRUE}] + hits_of("function", CHOOSE x \in S : TRUE, "self", s)]
        = [S \in SUBSET D |-> IF S = {} THEN 0 ELSE g[S \ {PickOf(S)}] + c[PickOf(S)]]
    BY <2>1, Zenon
  <2> QED BY <2>2 DEF Sums
<1>3. (\E g : Sums(D, c, g)) => Is(h)
  <2> SUFFICES ASSUME NEW g, Sums(D, c, g) PROVE Is(h)
    OBVIOUS
  <2>1. Is(g)
    BY <1>2
  <2> HIDE DEF Is
  <2> QED BY <2>1
<1>4. (\E g : Sums(D, c, g)) => Sums(D, c, h)
  <2> HIDE DEF h, Is
  <2> QED BY <1>2, <1>3
<1> HIDE DEF h
<1> QED BY <1>1, <1>4

LEMMA SelfAddsUp ==
  ASSUME ViewsInv, pc = "done", NEW s \in Sources
  PROVE  SelfTotal(s, {Root} \cup Functions)
           = Cardinality({i \in DOMAIN seen : seen[i].source = s /\ seen[i].kind # "neither"})
PROOF
<1>0. IInv /\ TypeOK /\ KindsTell /\ seen \in Seq(Samples)
  BY DEF ViewsInv, IInv, TypeOK
<1>1. PICK D : D = {Root} \cup Functions
  OBVIOUS
<1>2. PICK c : c = [f \in D |-> hits_of("function", f, "self", s)]
  OBVIOUS
<1>3. PICK P : P = [f \in D |-> SelfSamples(f, s)]
  OBVIOUS
<1>4. IsFiniteSet(D)
  BY <1>0, <1>1, FunctionsAreFinite
<1>5. \A f \in D : IsFiniteSet(P[f]) /\ c[f] = Cardinality(P[f]) /\ P[f] = SelfSamples(f, s)
  BY <1>0, <1>1, <1>2, <1>3, SelfAreSamples
<1>6. \A f, g \in D : f # g => P[f] \cap P[g] = {}
  <2> SUFFICES ASSUME NEW f \in D, NEW g \in D, f # g, NEW i \in SelfSamples(f, s), i \in SelfSamples(g, s)
               PROVE  FALSE
    BY <1>5
  <2> QED BY DEF SelfSamples
<1>7. PICK h : /\ (\E g : Sums(D, c, g)) => Sums(D, c, h)
               /\ SelfTotal(s, D) = h[D]
  BY <1>2, SelfSum
<1>8. h[D] = Cardinality(Union(P, D))
  BY <1>4, <1>5, <1>6, <1>7, SumOfSizes
<1>9. Union(P, D) = {i \in DOMAIN seen : seen[i].source = s /\ seen[i].kind # "neither"}
  <2>1. ASSUME NEW i \in Union(P, D)
        PROVE  i \in DOMAIN seen /\ seen[i].source = s /\ seen[i].kind # "neither"
    <3>1. PICK f \in D : i \in SelfSamples(f, s)
      BY <1>5 DEF Union
    <3>2. CASE f = Root
      BY <3>1, <3>2 DEF SelfSamples, Stacks
    <3>3. CASE f # Root
      BY <1>0, <3>1, <3>3 DEF SelfSamples, KindsTell
    <3> QED BY <3>2, <3>3
  <2>2. ASSUME NEW i \in DOMAIN seen, seen[i].source = s, seen[i].kind # "neither"
        PROVE  \E f \in D : i \in SelfSamples(f, s)
    <3>1. CASE seen[i].frames = <<>>
      <4>1. seen[i].kind = "stack"
        BY <1>0, <2>2, <3>1 DEF KindsTell
      <4>2. i \in Stacks(s) \cap Complete
        BY <2>2, <4>1 DEF Stacks, Complete
      <4>3. i \in SelfSamples(Root, s) /\ Root \in D
        BY <1>1, <3>1, <4>2 DEF SelfSamples
      <4> QED BY <4>3
    <3>2. CASE seen[i].frames # <<>>
      <4>1. PICK fs \in Seq(Frames) : fs = seen[i].frames
        BY <1>0, SamplesTyped
      <4>2. Len(fs) \in DOMAIN fs
        BY <3>2, <4>1
      <4>3. PICK p \in Places(s) : p = <<i, Len(fs)>>
        BY <2>2, <4>1, <4>2, PlaceIs DEF PlacesAre
      <4>4. PICK f : f = FunctionAt(p)
        OBVIOUS
      <4>5. f \in Functions
        BY <1>0, <4>3, <4>4, IdsOfFrames DEF FramesHaveIds, FunctionAt, Functions
      <4>6. f # Root /\ f \in D
        BY <1>0, <1>1, <4>5, FunctionsAreFinite
      <4>7. i \in SelfSamples(f, s)
        BY <2>2, <3>2, <4>1, <4>3, <4>4, <4>6 DEF SelfSamples
      <4> QED BY <4>6, <4>7
    <3> QED BY <3>1, <3>2
  <2>3. \A i : (\E f \in D : i \in SelfSamples(f, s)) => i \in Union(P, D)
    BY <1>5 DEF Union
  <2> QED BY <2>1, <2>2, <2>3
<1> QED BY <1>1, <1>7, <1>8, <1>9

LEMMA PagesAreComplete == ViewsInv /\ pc = "done" => PagesComplete
PROOF
<1> SUFFICES ASSUME ViewsInv, pc = "done" PROVE PagesComplete
  OBVIOUS
<1>0. TypeOK
  BY DEF ViewsInv, IInv
<1>1. ASSUME NEW kind \in SortKinds, NEW list \in get_sorted_functions(kind), NEW size \in 1 .. MaxEntries,
             NEW descending \in BOOLEAN
      PROVE  FlattenSeq([i \in 1 .. Len(list) + 1 |-> functions_page(list, descending, size, i - 1)])
               = IF descending THEN Reverse(list) ELSE list
  <2>1. list \in SetToSeqs(Functions)
    BY DEF get_sorted_functions, Sorted
  <2>2. list \in Seq(Functions)
    BY <1>0, <2>1, FunctionsAreFinite, ListOfSet
  <2>3. size \in Nat \ {0}
    BY ViewsAssumption
  <2> QED BY <2>2, <2>3, PagesJoined
<1>2. \A s \in Sources :
        FoldSet(LAMBDA f, n : n + hits_of("function", f, "self", s), 0, {Root} \cup Functions)
          = Cardinality({i \in DOMAIN seen : seen[i].source = s /\ seen[i].kind # "neither"})
  BY SelfAddsUp DEF SelfTotal
<1> QED BY <1>1, <1>2 DEF PagesComplete

-----------------------------------------------------------------------------
(* The lines of a function *)

LEMMA AllPlacesAreFinite == seen \in Seq(Samples) => IsFiniteSet(AllPlaces)
PROOF
<1> SUFFICES ASSUME seen \in Seq(Samples) PROVE IsFiniteSet(AllPlaces)
  OBVIOUS
<1>1. PICK g : g = [s \in Sources |-> Places(s)]
  OBVIOUS
<1>2. PICK R : R = {g[s] : s \in Sources}
  OBVIOUS
<1>3. g \in Surjection(Sources, R)
  BY <1>1, <1>2 DEF Surjection
<1>4. IsFiniteSet(R)
  BY <1>3, SourcesAreFinite, FS_Surjection
<1>5. \A T \in R : IsFiniteSet(T)
  BY <1>1, <1>2, PlacesAreFinite
<1>6. UNION R = AllPlaces
  BY <1>1, <1>2 DEF AllPlaces
<1> QED BY <1>4, <1>5, <1>6, FS_UNION

\* The item of a line, and the places of the line.
LineItem(f, l) == <<l, hits("line", <<f, l>>)>>
LinePlaces(f, l, s) == CountedFor("line", <<f, l>>, s)

LEMMA LinesAreCounted ==
  ASSUME ViewsInv, NEW f \in Functions, NEW s \in Sources
  PROVE  /\ \A l, p : p \in LinePlaces(f, l, s) <=>
              p \in Places(s) /\ FunctionAt(p) = f /\ FrameAt(p).file # NoFile /\ FrameAt(p).line = l
         /\ \A l : /\ IsFiniteSet(LinePlaces(f, l, s))
                   /\ LineItem(f, l)[2][s].total = Cardinality(LinePlaces(f, l, s))
                   /\ <<"line", <<f, l>>, s>> \in DOMAIN total <=> LinePlaces(f, l, s) # {}
PROOF
<1>0. IInv /\ TypeOK /\ FrameCounts /\ CountersPositive /\ seen \in Seq(Samples)
  BY DEF ViewsInv, IInv, CountsInv, TypeOK
<1>1. \A l, p : p \in LinePlaces(f, l, s) <=>
        p \in Places(s) /\ FunctionAt(p) = f /\ FrameAt(p).file # NoFile /\ FrameAt(p).line = l
  <2> SUFFICES ASSUME NEW l, NEW p
               PROVE  p \in LinePlaces(f, l, s) <=>
                        p \in Places(s) /\ FunctionAt(p) = f /\ FrameAt(p).file # NoFile
                        /\ FrameAt(p).line = l
    OBVIOUS
  <2>1. \A ids : <<"line", <<f, l>>>> \in counted(ids) <=>
                   ids.file # 0 /\ ids.function = f /\ ids.line = l
    BY DEF counted
  <2>2. p \in Places(s) => /\ Ids(FrameAt(p)).line = FrameAt(p).line
                           /\ Ids(FrameAt(p)).file = 0 <=> FrameAt(p).file = NoFile
    BY <1>0, IdsOfFrames DEF FramesHaveIds
  <2> QED BY <2>1, <2>2 DEF LinePlaces, CountedFor, FunctionAt
<1>2. ASSUME NEW l
      PROVE  /\ IsFiniteSet(LinePlaces(f, l, s))
             /\ LineItem(f, l)[2][s].total = Cardinality(LinePlaces(f, l, s))
             /\ <<"line", <<f, l>>, s>> \in DOMAIN total <=> LinePlaces(f, l, s) # {}
  <2>1. IsFiniteSet(LinePlaces(f, l, s))
    BY <1>0, CountedAreFinite DEF LinePlaces
  <2>2. PICK id : id = <<f, l>>
    OBVIOUS
  <2>3. Total("line", id, s) = Cardinality(LinePlaces(f, l, s))
    <3>1. <<"line", id>> # <<"function", 0>>
      OBVIOUS
    <3> QED BY <1>0, <2>2, <3>1 DEF FrameCounts, FrameKinds, LinePlaces
  <2>4. LineItem(f, l)[2][s].total = Total("line", id, s)
    <3>1. hits("line", id)[s].total = hits_of("line", id, "total", s)
      BY DEF hits
    <3>2. LineItem(f, l)[2] = hits("line", id)
      BY <2>2 DEF LineItem
    <3> QED BY <1>0, <3>1, <3>2, HitsAre DEF HitsCounted
  <2>5. <<"line", id, s>> \in DOMAIN total <=> Total("line", id, s) # 0
    <3>1. PICK b : b = total
      OBVIOUS
    <3>2. b \in [DOMAIN b -> Nat] /\ \A x \in DOMAIN b : b[x] > 0
      BY <1>0, <3>1 DEF TypeOK, CountersPositive
    <3>3. \A x \in DOMAIN b : b[x] # 0
      <4> SUFFICES ASSUME NEW x \in DOMAIN b PROVE b[x] # 0
        OBVIOUS
      <4>1. b[x] \in Nat /\ b[x] > 0
        BY <3>2
      <4> QED BY <4>1
    <3> QED BY <3>1, <3>3 DEF Total, CountOf
  <2>6. Cardinality(LinePlaces(f, l, s)) = 0 <=> LinePlaces(f, l, s) = {}
    BY <2>1, FS_EmptySet
  <2> QED BY <2>1, <2>2, <2>3, <2>4, <2>5, <2>6
<1> QED BY <1>1, <1>2

LEMMA LinesAreFinite ==
  ASSUME ViewsInv, NEW f \in Functions
  PROVE  /\ IsFiniteSet(line_info(f))
         /\ \A x \in line_info(f) : x = LineItem(f, x[1])
         /\ \A s \in Sources : \A l : LinePlaces(f, l, s) # {} => LineItem(f, l) \in line_info(f)
PROOF
<1>0. IInv /\ TypeOK /\ FilesInv /\ seen \in Seq(Samples)
  BY DEF ViewsInv, IInv, TypeOK
<1>1. PICK lines : lines = {line \in {fr.line : fr \in Frames} :
                              \E s \in Sources : <<"line", <<f, line>>, s>> \in DOMAIN total}
  OBVIOUS
<1>2. f # Root
  BY <1>0, FunctionsAreFinite
<1>3. line_info(f) = IF file_of[f] = 0 THEN {} ELSE {LineItem(f, l) : l \in lines}
  BY <1>1, <1>2 DEF line_info, LineItem
<1>4. \A l : LineItem(f, l) = LineItem(f, LineItem(f, l)[1])
  BY DEF LineItem
<1>5. \A x \in line_info(f) : x = LineItem(f, x[1])
  BY <1>3, <1>4
<1>6. ASSUME NEW s \in Sources, NEW l, LinePlaces(f, l, s) # {} PROVE LineItem(f, l) \in line_info(f)
  <2>1. PICK p : p \in LinePlaces(f, l, s)
    BY <1>6
  <2>2. p \in Places(s) /\ FunctionAt(p) = f /\ FrameAt(p).file # NoFile /\ FrameAt(p).line = l
    BY <2>1, LinesAreCounted
  <2>3. l \in lines
    <3>1. FrameAt(p) \in Frames
      BY <1>0, <2>2, PlaceFacts
    <3>2. <<"line", <<f, l>>, s>> \in DOMAIN total
      BY <1>6, LinesAreCounted
    <3> QED BY <1>1, <2>2, <3>1, <3>2
  <2>4. file_of[f] # 0
    <3>1. p \in WithFile(f)
      BY <2>2 DEF WithFile, AllPlaces
    <3>2. file_of[f] \in DOMAIN files
      BY <1>0, <3>1 DEF FilesInv, Functions
    <3>3. 0 \notin DOMAIN files
      BY <1>0 DEF TypeOK, VectorsTyped
    <3> QED BY <3>2, <3>3
  <2> QED BY <1>3, <2>3, <2>4
<1>7. IsFiniteSet(line_info(f))
  <2>1. PICK g : g = [p \in AllPlaces |-> LineItem(f, FrameAt(p).line)]
    OBVIOUS
  <2>2. PICK R : R = {g[p] : p \in AllPlaces}
    OBVIOUS
  <2>3. g \in Surjection(AllPlaces, R)
    BY <2>1, <2>2 DEF Surjection
  <2>4. IsFiniteSet(R)
    BY <1>0, <2>3, AllPlacesAreFinite, FS_Surjection
  <2>5. ASSUME NEW l \in lines PROVE LineItem(f, l) \in R
    <3>1. PICK s \in Sources : <<"line", <<f, l>>, s>> \in DOMAIN total
      BY <1>1
    <3>2. PICK p : p \in LinePlaces(f, l, s)
      BY <3>1, LinesAreCounted
    <3>3. p \in AllPlaces /\ FrameAt(p).line = l
      BY <3>2, LinesAreCounted DEF AllPlaces
    <3>4. g[p] = LineItem(f, l)
      BY <2>1, <3>3
    <3> QED BY <2>2, <3>3, <3>4
  <2>6. line_info(f) \in SUBSET R
    BY <1>3, <2>5
  <2> QED BY <2>4, <2>6, FS_Subset
<1> QED BY <1>5, <1>6, <1>7

LinesTotal(s, D) == FoldSet(LAMBDA l, n : n + l[2][s].total, 0, D)

LEMMA LinesSum ==
  ASSUME NEW s, NEW D, NEW c, c = [l \in D |-> l[2][s].total]
  PROVE  \E h : /\ (\E g : Sums(D, c, g)) => Sums(D, c, h)
                /\ LinesTotal(s, D) = h[D]
PROOF
<1> DEFINE Is(g) == g = [S \in SUBSET D |->
                           IF S = {} THEN 0
                           ELSE g[S \ {CHOOSE x \in S : TRUE}] + (CHOOSE x \in S : TRUE)[2][s].total]
           h == CHOOSE g : Is(g)
<1>1. LinesTotal(s, D) = h[D]
  BY DEF LinesTotal, FoldSet, MapThenFoldSet
<1>2. ASSUME NEW g PROVE Is(g) <=> Sums(D, c, g)
  <2>1. ASSUME NEW S \in SUBSET D
        PROVE  (IF S = {} THEN 0
                ELSE g[S \ {CHOOSE x \in S : TRUE}] + (CHOOSE x \in S : TRUE)[2][s].total)
               = (IF S = {} THEN 0 ELSE g[S \ {PickOf(S)}] + c[PickOf(S)])
    <3>1. CASE S = {}
      BY <3>1
    <3>2. CASE S # {}
      <4>1. PICK y : y = CHOOSE x \in S : TRUE
        OBVIOUS
      <4>2. y \in D /\ PickOf(S) = y
        BY <3>2, <4>1 DEF PickOf
      <4> QED BY <3>2, <4>1, <4>2
    <3> QED BY <3>1, <3>2
  <2>2. [S \in SUBSET D |->
           IF S = {} THEN 0
           ELSE g[S \ {CHOOSE x \in S : TRUE}] + (CHOOSE x \in S : TRUE)[2][s].total]
        = [S \in SUBSET D |-> IF S = {} THEN 0 ELSE g[S \ {PickOf(S)}] + c[PickOf(S)]]
    BY <2>1, Zenon
  <2> QED BY <2>2 DEF Sums
<1>3. (\E g : Sums(D, c, g)) => Is(h)
  <2> SUFFICES ASSUME NEW g, Sums(D, c, g) PROVE Is(h)
    OBVIOUS
  <2>1. Is(g)
    BY <1>2
  <2> HIDE DEF Is
  <2> QED BY <2>1
<1>4. (\E g : Sums(D, c, g)) => Sums(D, c, h)
  <2> HIDE DEF h, Is
  <2> QED BY <1>2, <1>3
<1> HIDE DEF h
<1> QED BY <1>1, <1>4

LEMMA LinesDoAddUp == ViewsInv => LinesAddUp
PROOF
<1> SUFFICES ASSUME ViewsInv, NEW f \in Functions, NEW s \in Sources
             PROVE  LinesTotal(s, line_info(f)) =
                      Cardinality({p \in Places(s) :
                        FunctionNamed(NameOf(FrameAt(p))) = f /\ FrameAt(p).file # NoFile})
  BY DEF LinesAddUp, LinesTotal
<1>0. IInv
  BY DEF ViewsInv
<1>1. PICK D : D = line_info(f)
  OBVIOUS
<1>2. PICK c : c = [l \in D |-> l[2][s].total]
  OBVIOUS
<1>3. PICK P : P = [x \in D |-> LinePlaces(f, x[1], s)]
  OBVIOUS
<1>4. IsFiniteSet(D)
  BY <1>1, LinesAreFinite
<1>5. ASSUME NEW x \in D PROVE IsFiniteSet(P[x]) /\ c[x] = Cardinality(P[x]) /\ P[x] = LinePlaces(f, x[1], s)
  <2>1. x = LineItem(f, x[1])
    BY <1>1, LinesAreFinite
  <2>2. c[x] = x[2][s].total /\ P[x] = LinePlaces(f, x[1], s)
    BY <1>2, <1>3
  <2>3. IsFiniteSet(LinePlaces(f, x[1], s))
    BY LinesAreCounted
  <2>4. x[2][s].total = Cardinality(LinePlaces(f, x[1], s))
    <3>1. LineItem(f, x[1])[2][s].total = Cardinality(LinePlaces(f, x[1], s))
      BY LinesAreCounted
    <3> QED BY <2>1, <3>1
  <2> QED BY <2>2, <2>3, <2>4
<1>6. \A x, y \in D : x # y => P[x] \cap P[y] = {}
  <2> SUFFICES ASSUME NEW x \in D, NEW y \in D, x # y, NEW p \in LinePlaces(f, x[1], s),
                      p \in LinePlaces(f, y[1], s)
               PROVE  FALSE
    BY <1>5
  <2>1. x[1] = y[1]
    <3>1. FrameAt(p).line = x[1] /\ FrameAt(p).line = y[1]
      BY LinesAreCounted
    <3> QED BY <3>1
  <2>2. x = LineItem(f, x[1]) /\ y = LineItem(f, y[1])
    BY <1>1, LinesAreFinite
  <2> QED BY <2>1, <2>2
<1>7. PICK h : /\ (\E g : Sums(D, c, g)) => Sums(D, c, h)
               /\ LinesTotal(s, D) = h[D]
  BY <1>2, LinesSum
<1>8. h[D] = Cardinality(Union(P, D))
  BY <1>4, <1>5, <1>6, <1>7, SumOfSizes
<1>9. Union(P, D) = {p \in Places(s) : FunctionNamed(NameOf(FrameAt(p))) = f /\ FrameAt(p).file # NoFile}
  <2>0. \A p \in Places(s) : FunctionNamed(NameOf(FrameAt(p))) = FunctionAt(p)
    BY <1>0, IdsOfFrames DEF FramesHaveIds, FunctionAt
  <2>1. ASSUME NEW p \in Union(P, D)
        PROVE  p \in Places(s) /\ FunctionNamed(NameOf(FrameAt(p))) = f /\ FrameAt(p).file # NoFile
    <3>1. PICK x \in D : p \in LinePlaces(f, x[1], s)
      BY <1>5 DEF Union
    <3>2. p \in Places(s) /\ FunctionAt(p) = f /\ FrameAt(p).file # NoFile
      BY <3>1, LinesAreCounted
    <3> QED BY <2>0, <3>2
  <2>2. ASSUME NEW p \in Places(s), FunctionNamed(NameOf(FrameAt(p))) = f, FrameAt(p).file # NoFile
        PROVE  p \in Union(P, D)
    <3>1. PICK l : l = FrameAt(p).line
      OBVIOUS
    <3>2. p \in LinePlaces(f, l, s)
      BY <2>0, <2>2, <3>1, LinesAreCounted
    <3>3. PICK x \in D : x = LineItem(f, l)
      BY <1>1, <3>2, LinesAreFinite
    <3>4. x[1] = l
      BY <3>3 DEF LineItem
    <3>5. p \in P[x]
      BY <1>5, <3>2, <3>4
    <3> QED BY <3>5 DEF Union
  <2> QED BY <2>1, <2>2
<1> QED BY <1>1, <1>7, <1>8, <1>9

-----------------------------------------------------------------------------
(* The hottest functions of all processes *)

\* A set holds as many of a process as were asked for or there are, and the hottest.
IsTop(T, R, count, w) ==
  /\ IsFiniteSet(R) /\ T \subseteq R
  /\ Cardinality(T) = IF count <= Cardinality(R) THEN count ELSE Cardinality(R)
  /\ \A y \in R \ T : Cardinality(T) = count /\ \A x \in T : w[x] >= w[y]

Ascending(q, w) == \A i, j \in DOMAIN q : i < j => w[q[i]] <= w[q[j]]

LEMMA TopOfList ==
  ASSUME NEW S, NEW q \in Seq(S), Distinct(q), NEW count \in Nat \ {0}, NEW w,
         \A x \in S : w[x] \in Nat, Ascending(q, w)
  PROVE  IsTop(Range(span(q, TRUE, count, 0)), Range(q), count, w)
PROOF
<1>1. PICK n \in Nat : n = Len(q) /\ DOMAIN q = 1 .. n
  OBVIOUS
<1>2. PICK e \in 0 .. n : e = Min({count, n}) /\ e = IF count <= n THEN count ELSE n
  BY SmallerOf
<1>3. span(q, TRUE, count, 0) = SubSeq(q, n - e + 1, n)
  <2>1. Min({0 * count, n}) = 0
    <3>1. 0 * count = 0
      OBVIOUS
    <3> QED BY <3>1, SmallerOf
  <2>2. Min({(0 + 1) * count, n}) = e
    <3>1. (0 + 1) * count = count
      OBVIOUS
    <3> QED BY <1>2, <3>1
  <2>3. span(q, TRUE, count, 0) = SubSeq(q, n - e + 1, n - 0)
    BY <1>1, <2>1, <2>2 DEF span
  <2>4. n - 0 = n
    OBVIOUS
  <2> QED BY <2>3, <2>4
<1>4. PICK a \in 1 .. Len(q) + 1 : a = n - e + 1
  <2>1. e \in Nat /\ e <= n
    OBVIOUS
  <2>2. n - e + 1 \in 1 .. n + 1
    BY <2>1
  <2> QED BY <1>1, <2>2
<1>5. PICK T : T = Range(span(q, TRUE, count, 0))
  OBVIOUS
<1>6. T = {q[k] : k \in a .. n} /\ Cardinality(T) = e
  <2>1. PICK b \in 0 .. Len(q) : b = n /\ a <= b + 1
    BY <1>1, <1>4
  <2>2. PartIs(S, q, a, b)
    BY <2>1, PartOfList
  <2>3. b + 1 - a = e
    BY <1>1, <1>4, <2>1
  <2> QED BY <1>3, <1>4, <1>5, <2>1, <2>2, <2>3 DEF PartIs
<1>7. IsFiniteSet(Range(q)) /\ Cardinality(Range(q)) = n
  BY <1>1, SizeOfList
<1>8. T \subseteq Range(q)
  BY <1>1, <1>4, <1>6 DEF Range
<1>9. ASSUME NEW y \in Range(q) \ T
      PROVE  Cardinality(T) = count /\ \A x \in T : w[x] >= w[y]
  <2>1. PICK j \in 1 .. n : q[j] = y
    BY <1>1 DEF Range
  <2>2. j < a
    BY <1>1, <1>4, <1>6, <1>9, <2>1
  <2>3. e = count
    BY <1>2, <1>4, <2>2
  <2>4. ASSUME NEW x \in T PROVE w[x] >= w[y]
    <3>1. PICK k \in a .. n : q[k] = x
      BY <1>6
    <3>2. k \in 1 .. n /\ j < k
      BY <1>1, <1>4, <2>2
    <3>3. w[y] <= w[x]
      BY <1>1, <2>1, <3>1, <3>2 DEF Ascending
    <3>4. PICK c \in Nat, d \in Nat : c = w[y] /\ d = w[x]
      <4>1. x \in S /\ y \in S
        BY <1>1, <2>1, <3>1, <3>2
      <4> QED BY <4>1
    <3> QED BY <3>3, <3>4
  <2> QED BY <1>6, <2>3, <2>4
<1>10. Cardinality(T) = IF count <= Cardinality(Range(q)) THEN count ELSE Cardinality(Range(q))
  BY <1>2, <1>6, <1>7
<1> QED BY <1>5, <1>7, <1>8, <1>9, <1>10 DEF IsTop

\* The order in which the candidates of all processes are merged, and what is then shown.
Descending(q, w) == \A i, j \in DOMAIN q : i < j => ~(w[q[j]] > w[q[i]])

IsHottest(answer, R, count, w) ==
  /\ Cardinality(Range(answer)) = Min({count, Cardinality(R)})
  /\ \A x \in Range(answer), y \in R \ Range(answer) : w[x] >= w[y]

\* No entry that is left out is hotter than one that is there: if it was a candidate, it
\* came later, and if not, count others of its process would have come before.
LEMMA HottestOfTwo ==
  ASSUME NEW R1, NEW R2, NEW T1, NEW T2, NEW w, NEW count \in Nat \ {0}, R1 \cap R2 = {},
         IsTop(T1, R1, count, w), IsTop(T2, R2, count, w), \A x \in R1 \cup R2 : w[x] \in Nat,
         NEW q, q \in SetToSeqs(T1 \cup T2), Descending(q, w),
         NEW answer, answer = SubSeq(q, 1, Min({count, Len(q)}))
  PROVE  IsHottest(answer, R1 \cup R2, count, w)
PROOF
<1>1. /\ IsFiniteSet(R1) /\ IsFiniteSet(R2) /\ IsFiniteSet(T1) /\ IsFiniteSet(T2)
      /\ T1 \subseteq R1 /\ T2 \subseteq R2
  <2>1. IsFiniteSet(R1) /\ IsFiniteSet(R2) /\ T1 \in SUBSET R1 /\ T2 \in SUBSET R2
    BY DEF IsTop
  <2> QED BY <2>1, FS_Subset
<1>2. PICK r1 \in Nat, r2 \in Nat, t1 \in Nat, t2 \in Nat :
        r1 = Cardinality(R1) /\ r2 = Cardinality(R2) /\ t1 = Cardinality(T1) /\ t2 = Cardinality(T2)
  BY <1>1, FS_CardinalityType
<1>3. t1 = (IF count <= r1 THEN count ELSE r1) /\ t2 = (IF count <= r2 THEN count ELSE r2)
  BY <1>2 DEF IsTop
<1>4. PICK T : T = T1 \cup T2
  OBVIOUS
<1>5. IsFiniteSet(T) /\ Cardinality(T) = t1 + t2 /\ Cardinality(R1 \cup R2) = r1 + r2
  <2>1. T1 \cap T2 = {}
    BY <1>1
  <2>2. /\ IsFiniteSet(T1 \cup T2)
        /\ Cardinality(T1 \cup T2) = Cardinality(T1) + Cardinality(T2) - Cardinality(T1 \cap T2)
        /\ Cardinality(R1 \cup R2) = Cardinality(R1) + Cardinality(R2) - Cardinality(R1 \cap R2)
    BY <1>1, FS_Union
  <2>3. Cardinality(T1 \cap T2) = 0 /\ Cardinality(R1 \cap R2) = 0
    BY <2>1, FS_EmptySet
  <2> QED BY <1>2, <1>4, <2>2, <2>3
<1>6. /\ q \in Seq(T) /\ Len(q) = t1 + t2 /\ DOMAIN q = 1 .. t1 + t2
      /\ Range(q) = T /\ Distinct(q)
  BY <1>4, <1>5, ListOfSet
<1>7. PICK m \in 0 .. t1 + t2 : m = Min({count, t1 + t2}) /\ m <= count
                               /\ m = IF count <= t1 + t2 THEN count ELSE t1 + t2
  <2>1. Min({count, t1 + t2}) = IF count <= t1 + t2 THEN count ELSE t1 + t2
    BY SmallerOf
  <2> QED BY <2>1
<1>8. Min({count, Cardinality(R1 \cup R2)}) = m
  <2>1. Min({count, r1 + r2}) = IF count <= r1 + r2 THEN count ELSE r1 + r2
    BY SmallerOf
  <2>2. (IF count <= r1 + r2 THEN count ELSE r1 + r2) = m
    BY <1>3, <1>7
  <2> QED BY <1>5, <2>1, <2>2
<1>9. PICK A : A = Range(answer)
  OBVIOUS
<1>10. A = {q[k] : k \in 1 .. m} /\ Cardinality(A) = m
  <2>1. PICK a \in 1 .. Len(q) + 1, b \in 0 .. Len(q) : a = 1 /\ b = m /\ a <= b + 1
    BY <1>6
  <2>2. PartIs(T, q, a, b)
    BY <1>6, <2>1, PartOfList
  <2>3. answer = SubSeq(q, a, b)
    BY <1>6, <1>7, <2>1
  <2>4. b + 1 - a = m
    BY <2>1
  <2> QED BY <1>9, <2>1, <2>2, <2>3, <2>4 DEF PartIs
<1>11. ASSUME NEW R, NEW U, (R = R1 /\ U = T1) \/ (R = R2 /\ U = T2),
              NEW x \in A, NEW y \in R \ A
       PROVE  w[x] >= w[y]
  <2>1. PICK i \in 1 .. m : q[i] = x
    BY <1>10
  <2>2. x \in T /\ i \in 1 .. t1 + t2
    BY <1>6, <2>1
  <2>3. PICK c \in Nat, d \in Nat : c = w[x] /\ d = w[y]
    BY <1>1, <1>4, <1>11, <2>2
  <2>4. CASE y \in T
    <3>1. PICK j \in 1 .. t1 + t2 : q[j] = y
      BY <1>6, <2>4 DEF Range
    <3>2. j > m
      BY <1>10, <1>11, <3>1
    <3>3. ~(w[y] > w[x])
      <4>1. i < j
        BY <3>1, <3>2
      <4> QED BY <1>6, <2>1, <2>2, <3>1, <4>1 DEF Descending
    <3> QED BY <2>3, <3>3
  <2>5. CASE y \notin T
    <3> SUFFICES ASSUME c < d PROVE FALSE
      BY <2>3
    <3>1. IsTop(U, R, count, w) /\ y \in R \ U /\ U \subseteq T
      BY <1>4, <1>11, <2>5
    <3>2. Cardinality(U) = count /\ \A z \in U : w[z] >= w[y]
      BY <3>1 DEF IsTop
    <3>3. PICK B : B = {q[k] : k \in 1 .. i - 1}
      OBVIOUS
    <3>4. ASSUME NEW z \in U PROVE z \in B
      <4>1. PICK k \in 1 .. t1 + t2 : q[k] = z
        BY <1>6, <3>1 DEF Range
      <4>2. PICK u \in Nat : u = w[z]
        <5>1. z \in R1 \cup R2
          BY <1>1, <1>4, <3>1
        <5> QED BY <5>1
      <4>3. u > c
        BY <2>3, <3>2, <4>2
      <4>4. ~(i < k)
        <5> SUFFICES ASSUME i < k PROVE FALSE
          OBVIOUS
        <5>1. ~(w[z] > w[x])
          BY <1>6, <2>1, <2>2, <4>1 DEF Descending
        <5> QED BY <2>3, <4>2, <4>3, <5>1
      <4>5. i # k
        <5> SUFFICES ASSUME i = k PROVE FALSE
          OBVIOUS
        <5>1. c = u
          BY <2>1, <2>3, <4>1, <4>2
        <5> QED BY <4>3, <5>1
      <4>6. k \in 1 .. i - 1
        BY <2>2, <4>4, <4>5
      <4> QED BY <3>3, <4>1, <4>6
    <3>5. IsFiniteSet(B) /\ Cardinality(B) = i - 1
      <4>1. PICK a \in 1 .. Len(q) + 1, b \in 0 .. Len(q) : a = 1 /\ b = i - 1 /\ a <= b + 1
        BY <1>6, <2>2
      <4>2. PartIs(T, q, a, b)
        BY <1>6, <4>1, PartOfList
      <4>3. b + 1 - a = i - 1
        BY <4>1
      <4> QED BY <3>3, <4>1, <4>2, <4>3 DEF PartIs
    <3>6. U \in SUBSET B
      BY <3>4
    <3>7. count <= i - 1
      BY <3>2, <3>5, <3>6, FS_Subset
    <3> QED BY <1>7, <2>1, <3>7
  <2> QED BY <2>4, <2>5
<1>12. \A x \in A, y \in (R1 \cup R2) \ A : w[x] >= w[y]
  <2>1. \A x \in A, y \in R1 \ A : w[x] >= w[y]
    <3>1. PICK R, U : R = R1 /\ U = T1
      OBVIOUS
    <3>2. (R = R1 /\ U = T1) \/ (R = R2 /\ U = T2)
      BY <3>1, Zenon
    <3>3. \A x \in A, y \in R \ A : w[x] >= w[y]
      BY <1>11, <3>2
    <3> QED BY <3>1, <3>3
  <2>2. \A x \in A, y \in R2 \ A : w[x] >= w[y]
    <3>1. PICK R, U : R = R2 /\ U = T2
      OBVIOUS
    <3>2. (R = R1 /\ U = T1) \/ (R = R2 /\ U = T2)
      BY <3>1, Zenon
    <3>3. \A x \in A, y \in R \ A : w[x] >= w[y]
      BY <1>11, <3>2
    <3> QED BY <3>1, <3>3
  <2> QED BY <2>1, <2>2
<1> QED BY <1>8, <1>9, <1>10, <1>12 DEF IsHottest

\* The same of the entries of a process.
EntriesOf(tag, S) == {<<tag, x>> : x \in S}

LEMMA EntriesAreAsMany ==
  ASSUME NEW tag, NEW S, IsFiniteSet(S)
  PROVE  IsFiniteSet(EntriesOf(tag, S)) /\ Cardinality(EntriesOf(tag, S)) = Cardinality(S)
PROOF
<1>1. PICK g : g = [x \in S |-> <<tag, x>>]
  OBVIOUS
<1>2. PICK E : E = EntriesOf(tag, S)
  OBVIOUS
<1>3. g \in Surjection(S, E) /\ g \in Injection(S, E)
  <2>1. g \in [S -> E]
    BY <1>1, <1>2 DEF EntriesOf
  <2>2. \A y \in E : \E x \in S : g[x] = y
    BY <1>1, <1>2 DEF EntriesOf
  <2>3. \A x, y \in S : g[x] = g[y] => x = y
    BY <1>1
  <2> QED BY <2>1, <2>2, <2>3 DEF Surjection, Injection, IsInjective
<1>4. IsFiniteSet(E) /\ Cardinality(E) = Cardinality(S)
  BY <1>3, FS_Surjection
<1> QED BY <1>2, <1>4

LEMMA TopOfEntries ==
  ASSUME NEW tag, NEW T, NEW R, NEW count, NEW v, NEW w, IsTop(T, R, count, v),
         \A x \in R : w[<<tag, x>>] = v[x]
  PROVE  IsTop(EntriesOf(tag, T), EntriesOf(tag, R), count, w)
PROOF
<1>1. IsFiniteSet(R) /\ IsFiniteSet(T) /\ T \subseteq R
  <2>1. IsFiniteSet(R) /\ T \in SUBSET R
    BY DEF IsTop
  <2> QED BY <2>1, FS_Subset
<1>2. PICK E, F : E = EntriesOf(tag, T) /\ F = EntriesOf(tag, R)
  OBVIOUS
<1>3. IsFiniteSet(F) /\ Cardinality(E) = Cardinality(T) /\ Cardinality(F) = Cardinality(R)
  BY <1>1, <1>2, EntriesAreAsMany
<1>4. E \subseteq F
  BY <1>1, <1>2 DEF EntriesOf
<1>5. ASSUME NEW y \in F \ E PROVE Cardinality(E) = count /\ \A x \in E : w[x] >= w[y]
  <2>1. PICK b \in R : y = <<tag, b>>
    BY <1>2 DEF EntriesOf
  <2>2. b \in R \ T
    BY <1>2, <1>5, <2>1 DEF EntriesOf
  <2>3. Cardinality(T) = count /\ \A a \in T : v[a] >= v[b]
    BY <2>2 DEF IsTop
  <2>4. ASSUME NEW x \in E PROVE w[x] >= w[y]
    <3>1. PICK a \in T : x = <<tag, a>>
      BY <1>2 DEF EntriesOf
    <3>2. w[x] = v[a] /\ w[y] = v[b] /\ v[a] >= v[b]
      BY <1>1, <2>1, <2>3, <3>1
    <3> QED BY <3>2
  <2> QED BY <1>3, <2>3, <2>4
<1>6. Cardinality(E) = IF count <= Cardinality(F) THEN count ELSE Cardinality(F)
  BY <1>3 DEF IsTop
<1> QED BY <1>2, <1>3, <1>4, <1>5, <1>6 DEF IsTop

LEMMA HottestAreFound == TypeOK => HottestOfAll
PROOF
<1> SUFFICES ASSUME TypeOK, NEW s \in Sources,
                    NEW list \in get_sorted_functions([by |-> "self", source |-> s]),
                    NEW count \in 1 .. MaxEntries, NEW answer \in hottest_functions(list, count, s)
             PROVE  LET all == {<<"process", f>> : f \in Functions} \cup {<<Other, i>> : i \in DOMAIN OtherProcess}
                    IN  /\ Cardinality(Range(answer)) = Min({count, Cardinality(all)})
                        /\ \A x \in Range(answer), y \in all \ Range(answer) :
                             entry_hits(x, s) >= entry_hits(y, s)
  BY DEF HottestOfAll
<1>0. count \in Nat \ {0}
  BY ViewsAssumption
<1>1. PICK F : F = Functions
  OBVIOUS
<1>2. IsFiniteSet(F)
  BY <1>1, FunctionsAreFinite
<1>3. PICK v : v = [f \in F |-> hits_of("function", f, "self", s)]
  OBVIOUS
<1>4. \A f \in F : v[f] \in Nat /\ v[f] = hits_of("function", f, "self", s)
  BY <1>3, HitsAre DEF HitsCounted
<1>5. PICK kind : kind = [by |-> "self", source |-> s]
  OBVIOUS
<1>6. kind # ByName /\ kind.by = "self" /\ kind.source = s
  <2>1. kind.by = "self" /\ kind.source = s
    BY <1>5
  <2>2. ByName.by = "name"
    BY DEF ByName
  <2> QED BY <2>1, <2>2
<1>7. list \in SetToSeqs(F) /\ \A i, j \in DOMAIN list : i < j => ~less(kind, list[j], list[i])
  BY <1>1, <1>5 DEF get_sorted_functions, Sorted
<1>8. list \in Seq(F) /\ Distinct(list) /\ Range(list) = F
  BY <1>2, <1>7, ListOfSet
<1>9. Ascending(list, v)
  <2> SUFFICES ASSUME NEW i \in DOMAIN list, NEW j \in DOMAIN list, i < j PROVE v[list[i]] <= v[list[j]]
    BY DEF Ascending
  <2>1. list[i] \in F /\ list[j] \in F
    BY <1>8
  <2>2. ~less(kind, list[j], list[i])
    BY <1>7
  <2>3. ~(v[list[j]] < v[list[i]])
    BY <1>4, <1>6, <2>1, <2>2 DEF less
  <2>4. PICK a \in Nat, b \in Nat : a = v[list[i]] /\ b = v[list[j]]
    BY <1>4, <2>1
  <2> QED BY <2>3, <2>4
<1>10. PICK T1 : T1 = Range(span(list, TRUE, count, 0))
  OBVIOUS
<1>11. IsTop(T1, F, count, v)
  BY <1>0, <1>4, <1>8, <1>9, <1>10, TopOfList
<1>12. PICK D : D = DOMAIN OtherProcess
  OBVIOUS
<1>13. \A i \in D : OtherProcess[i] \in Nat
  BY <1>12, ViewsAssumption
<1>14. PICK q : q = [i \in DOMAIN OtherProcess |-> i]
  OBVIOUS
<1>15. q \in Seq(D) /\ Distinct(q) /\ Range(q) = D /\ Ascending(q, OtherProcess)
  <2>1. PICK m \in Nat : D = 1 .. m
    BY <1>12, ViewsAssumption
  <2>2. DOMAIN q = D /\ \A i \in D : q[i] = i
    BY <1>12, <1>14
  <2>3. q \in [1 .. m -> D]
    BY <1>12, <1>14, <2>1
  <2>4. q \in Seq(D)
    BY <2>1, <2>3
  <2>5. Ascending(q, OtherProcess)
    BY <1>12, <2>2, ViewsAssumption DEF Ascending
  <2> QED BY <2>2, <2>4, <2>5 DEF Distinct, Range
<1>16. PICK T2 : T2 = Range(span(q, TRUE, count, 0))
  OBVIOUS
<1>17. IsTop(T2, D, count, OtherProcess)
  BY <1>0, <1>13, <1>15, <1>16, TopOfList
<1>18. PICK R1, R2, E1, E2 : /\ R1 = EntriesOf("process", F) /\ R2 = EntriesOf(Other, D)
                             /\ E1 = EntriesOf("process", T1) /\ E2 = EntriesOf(Other, T2)
  OBVIOUS
<1>19. PICK w : w = [x \in R1 \cup R2 |-> entry_hits(x, s)]
  OBVIOUS
<1>20. /\ \A f \in F : w[<<"process", f>>] = v[f] /\ <<"process", f>> \in R1
       /\ \A i \in D : w[<<Other, i>>] = OtherProcess[i] /\ <<Other, i>> \in R2
  <2>1. ASSUME NEW f \in F PROVE w[<<"process", f>>] = v[f] /\ <<"process", f>> \in R1
    <3>1. <<"process", f>> \in R1
      BY <1>18 DEF EntriesOf
    <3>2. entry_hits(<<"process", f>>, s) = hits_of("function", f, "self", s)
      BY DEF entry_hits, Other
    <3> QED BY <1>4, <1>19, <3>1, <3>2
  <2>2. ASSUME NEW i \in D PROVE w[<<Other, i>>] = OtherProcess[i] /\ <<Other, i>> \in R2
    <3>1. <<Other, i>> \in R2
      BY <1>18 DEF EntriesOf
    <3>2. entry_hits(<<Other, i>>, s) = OtherProcess[i]
      BY DEF entry_hits
    <3> QED BY <1>19, <3>1, <3>2
  <2> QED BY <2>1, <2>2
<1>21. IsTop(E1, R1, count, w) /\ IsTop(E2, R2, count, w)
  BY <1>11, <1>17, <1>18, <1>20, TopOfEntries
<1>22. R1 \cap R2 = {}
  <2> SUFFICES ASSUME NEW x \in R1, x \in R2 PROVE FALSE
    OBVIOUS
  <2>1. PICK f \in F : x = <<"process", f>>
    BY <1>18 DEF EntriesOf
  <2>2. PICK i \in D : x = <<Other, i>>
    BY <1>18 DEF EntriesOf
  <2>3. x[1] = "process"
    BY <2>1
  <2>4. x[1] = "other process"
    BY <2>2 DEF Other
  <2> QED BY <2>3, <2>4
<1>23. \A x \in R1 \cup R2 : w[x] \in Nat /\ w[x] = entry_hits(x, s)
  <2>1. \A x \in R1 : w[x] \in Nat
    BY <1>4, <1>18, <1>20 DEF EntriesOf
  <2>2. \A x \in R2 : w[x] \in Nat
    BY <1>13, <1>18, <1>20 DEF EntriesOf
  <2> QED BY <1>19, <2>1, <2>2
<1>24. entries(list, count) = E1 /\ other_entries(count) = E2
  BY <1>10, <1>14, <1>16, <1>18 DEF entries, other_entries, EntriesOf
<1>25. PICK p : /\ p \in SetToSeqs(E1 \cup E2)
                /\ \A i, j \in DOMAIN p : i < j => ~(entry_hits(p[j], s) > entry_hits(p[i], s))
                /\ answer = SubSeq(p, 1, Min({count, Len(p)}))
  BY <1>24 DEF hottest_functions, Sorted
<1>26. Descending(p, w)
  <2>1. \A i \in DOMAIN p : p[i] \in E1 \cup E2
    BY <1>25 DEF SetToSeqs
  <2>2. E1 \cup E2 \subseteq R1 \cup R2
    BY <1>21 DEF IsTop
  <2> QED BY <1>23, <1>25, <2>1, <2>2 DEF Descending
<1>27. /\ Cardinality(Range(answer)) = Min({count, Cardinality(R1 \cup R2)})
       /\ \A x \in Range(answer), y \in (R1 \cup R2) \ Range(answer) : w[x] >= w[y]
  <2>1. \A x \in R1 \cup R2 : w[x] \in Nat
    BY <1>23
  <2>2. IsTop(E1, R1, count, w) /\ IsTop(E2, R2, count, w)
    BY <1>21
  <2>3. p \in SetToSeqs(E1 \cup E2) /\ answer = SubSeq(p, 1, Min({count, Len(p)}))
    BY <1>25
  <2>4. IsHottest(answer, R1 \cup R2, count, w)
    BY <1>0, <1>22, <1>26, <2>1, <2>2, <2>3, HottestOfTwo
  <2> QED BY <2>4 DEF IsHottest
<1>28. Range(answer) \subseteq R1 \cup R2
  <2>1. IsFiniteSet(E1 \cup E2) /\ E1 \cup E2 \subseteq R1 \cup R2
    <3>1. IsFiniteSet(R1) /\ E1 \in SUBSET R1 /\ IsFiniteSet(R2) /\ E2 \in SUBSET R2
      BY <1>21 DEF IsTop
    <3>2. IsFiniteSet(E1) /\ IsFiniteSet(E2)
      BY <3>1, FS_Subset
    <3> QED BY <3>1, <3>2, FS_Union
  <2>2. p \in Seq(E1 \cup E2)
    BY <1>25, <2>1, ListOfSet
  <2>3. PICK m \in Int : m = Min({count, Len(p)}) /\ m <= Len(p) /\ m >= 0
    <3>1. PICK n \in Nat : n = Len(p)
      BY <2>2
    <3>2. Min({count, n}) = IF count <= n THEN count ELSE n
      BY <1>0, SmallerOf
    <3> QED BY <1>0, <3>1, <3>2
  <2>4. PICK S : S = E1 \cup E2
    OBVIOUS
  <2>5. \A n \in 0 .. Len(p) : SubSeq(p, 1, n) \in Seq(S)
    <3>1. p \in Seq(S)
      BY <2>2, <2>4
    <3> QED BY <3>1
  <2>6. answer = SubSeq(p, 1, m) /\ m \in 0 .. Len(p)
    <3>1. Len(p) \in Nat
      BY <2>2
    <3>2. answer = SubSeq(p, 1, m)
      BY <1>25, <2>3, Zenon
    <3> QED BY <2>3, <3>1, <3>2
  <2>7. answer \in Seq(E1 \cup E2)
    BY <2>4, <2>5, <2>6
  <2> QED BY <2>1, <2>7 DEF Range
<1>29. PICK all : all = {<<"process", f>> : f \in Functions} \cup {<<Other, i>> : i \in DOMAIN OtherProcess}
  OBVIOUS
<1>30. all = R1 \cup R2
  BY <1>1, <1>12, <1>18, <1>29 DEF EntriesOf
<1>31. \A x \in Range(answer), y \in all \ Range(answer) : entry_hits(x, s) >= entry_hits(y, s)
  BY <1>23, <1>27, <1>28, <1>30
<1> QED BY <1>27, <1>29, <1>30, <1>31

\* The pages of functions leave none out and give none twice, and the self hits are all
\* samples; the hottest functions are the hottest of all processes; the hot path ends
\* where nothing is hotter, and the whole tree can be expanded from it; callers and
\* callees are listed or accumulated, none left out and none twice, each item with the
\* hits of a function it stands for; and lines add up, whatever the client asks for of an
\* analysis that is there (the handlers of snail_server.cpp).
THEOREM AnswersAreComplete == Spec => []AnswersShowAnalysis
PROOF
<1>1. ViewsInv => AnswersShowAnalysis
  <2> SUFFICES ASSUME ViewsInv, pc = "done" PROVE AnswersShowAnalysis
    BY DEF AnswersShowAnalysis
  <2>1. TypeOK /\ TreeShape
    BY ShapeOfTree DEF ViewsInv, IInv
  <2> QED BY <2>1, PagesAreComplete, HottestAreFound, HotPathIsExpanded, RelatedAreShown, LinesDoAddUp
          DEF AnswersShowAnalysis
<1> QED BY <1>1, ViewsInvariant, PTL
=============================================================================
