-------------------------- MODULE PerfRecording_proofs --------------------------
(***************************************************************************)
(* Proofs about the provider for a perf.data file (PerfRecording).         *)
(*                                                                         *)
(* For any file whose attributes have ids of their own, the sources of its *)
(* samples are the attributes that have samples, each once, the ids lead   *)
(* to them, and a source has the name of the descriptor of its attribute   *)
(* (SourcesDescribed).  The inductive invariant follows the sources and    *)
(* the ids through the log: the first sample of an attribute is the one    *)
(* that enters it.                                                         *)
(***************************************************************************)
EXTENDS PerfRecording, FiniteSetTheorems, WellFoundedInduction, TLAPS

-----------------------------------------------------------------------------
\* The handled samples of a log, and the attributes of their ids.
Sampled(events) == {i \in DOMAIN events : events[i].kind = "sample" /\ events[i].timed}
AttributeIn(c, id) ==
  IF Len(c.attributes) = 1 \/ id = 0 THEN 1
  ELSE Max({0} \cup {a \in DOMAIN c.attributes : id \in c.attributes[a].ids})

\* The first of the samples of an attribute.
FirstOf(c, events, i) ==
  /\ i \in Sampled(events)
  /\ \A j \in Sampled(events) : AttributeIn(c, events[j].id) = AttributeIn(c, events[i].id) => i <= j

\* Each attribute with samples is a source, once.
SourcesRight(c, events, sources) ==
  /\ sources \in Seq(Nat \ {0})
  /\ \A s, t \in DOMAIN sources : sources[s] = sources[t] => s = t
  /\ \A i \in Sampled(events) : \E s \in DOMAIN sources : sources[s] = AttributeIn(c, events[i].id)
  /\ \A s \in DOMAIN sources : \E i \in Sampled(events) : sources[s] = AttributeIn(c, events[i].id)

\* The first of the samples of a source leads to it by its id; if the ids are at the
\* front, one that is missing leads to the newest source.
LeadThere(c, events, sources, leads) ==
  IF c.attributes[1].layout = Identifier
  THEN /\ DOMAIN leads = IF sources = <<>> THEN {} ELSE {None}
       /\ sources # <<>> => leads[None] = Len(sources)
  ELSE /\ \A i \in Sampled(events) : FirstOf(c, events, i) =>
            /\ events[i].id \in DOMAIN leads /\ leads[events[i].id] \in DOMAIN sources
            /\ sources[leads[events[i].id]] = AttributeIn(c, events[i].id)
       /\ \A id \in DOMAIN leads : \E i \in Sampled(events) : FirstOf(c, events, i) /\ id = events[i].id

RecordingInv ==
  /\ scene \in Scenes
  /\ log \in Seq(ToSet(log))
  /\ \A i \in Sampled(log) : log[i].id \in scene.ids
  /\ DOMAIN context = DOMAIN EmptyContext
  /\ phase = "opening" => log = <<>> /\ context = EmptyContext
  /\ phase \in {"reading", "finished"} =>
       /\ scene.attributes # <<>>
       /\ SourcesRight(scene, log, context.sources)
       /\ LeadThere(scene, log, context.sources, context.event_id_to_source)

LEMMA LeastOf ==
  ASSUME NEW S \in SUBSET Nat, S # {}
  PROVE  Min(S) \in S /\ \A y \in S : Min(S) <= y
PROOF
<1>1. PICK x \in S : \A y \in S : ~(<<y, x>> \in OpToRel(<, Nat))
  BY NatLessThanWellFounded, WFMin, Zenon
<1>2. ASSUME NEW y \in S PROVE x =< y
  <2>1. x \in Nat /\ y \in Nat
    OBVIOUS
  <2>2. ~(y < x)
    BY <1>1, <2>1 DEF OpToRel
  <2> QED BY <2>1, <2>2
<1>3. \E z \in S : \A y \in S : z =< y
  BY <1>2
<1>4. PICK m : m = CHOOSE z \in S : \A y \in S : z =< y
  OBVIOUS
<1>5. m \in S /\ \A y \in S : m =< y
  BY <1>3, <1>4
<1> QED BY <1>4, <1>5 DEF Min

LEMMA GreatestOf ==
  ASSUME NEW n \in Nat, NEW S \in SUBSET (0 .. n), S # {}
  PROVE  Max(S) \in S /\ \A y \in S : y <= Max(S)
PROOF
<1>1. PICK D : D = {n - x : x \in S}
  OBVIOUS
<1>2. D \in SUBSET Nat /\ D # {}
  <2>1. \A x \in S : n - x \in Nat
    OBVIOUS
  <2> QED BY <1>1, <2>1
<1>3. PICK d \in D : \A y \in D : d <= y
  BY <1>2, LeastOf
<1>4. PICK x \in S : d = n - x
  BY <1>1
<1>5. ASSUME NEW y \in S PROVE x >= y
  <2>1. n - y \in D
    BY <1>1
  <2>2. d <= n - y
    BY <1>3, <2>1
  <2> QED BY <1>4, <2>2
<1>6. PICK m : m = CHOOSE z \in S : \A y \in S : z >= y
  OBVIOUS
<1>7. m \in S /\ \A y \in S : m >= y
  BY <1>5, <1>6
<1>8. \A y \in S : y <= m
  BY <1>7
<1> QED BY <1>6, <1>7, <1>8 DEF Max

\* The attribute of an id is 0 if none has it.
LEMMA AttributeIs ==
  ASSUME ScenesRecorded, NEW c \in Scenes, c.attributes # <<>>, NEW id
  PROVE  /\ AttributeIn(c, id) \in Nat
         /\ AttributeIn(c, id) # 0 => AttributeIn(c, id) \in DOMAIN c.attributes
         /\ Len(c.attributes) # 1 /\ id # 0 /\ AttributeIn(c, id) # 0 =>
              id \in c.attributes[AttributeIn(c, id)].ids
PROOF
<1>1. PICK n \in Nat : n = Len(c.attributes) /\ DOMAIN c.attributes = 1 .. n /\ n # 0
  <2>1. c.attributes \in Seq([ids : SUBSET Nat, layout : Layouts])
    BY DEF ScenesRecorded
  <2> QED BY <2>1
<1>2. CASE n = 1 \/ id = 0
  BY <1>1, <1>2 DEF AttributeIn
<1>3. CASE ~(n = 1 \/ id = 0)
  <2>1. PICK A : A = {0} \cup {a \in DOMAIN c.attributes : id \in c.attributes[a].ids}
    OBVIOUS
  <2>2. A \in SUBSET (0 .. n) /\ A # {}
    BY <1>1, <2>1
  <2>3. Max(A) \in A
    BY <2>2, GreatestOf
  <2>4. AttributeIn(c, id) = Max(A)
    BY <1>1, <1>3, <2>1 DEF AttributeIn
  <2> QED BY <1>1, <2>1, <2>2, <2>3, <2>4
<1> QED BY <1>2, <1>3

\* What a sample that is handled, or an event that is not, adds to the log.
Grown(events, e, more) ==
  /\ DOMAIN more = 1 .. Len(events) + 1
  /\ more[Len(events) + 1] = e
  /\ \A i \in DOMAIN events : more[i] = events[i]

LEMMA LogGrows ==
  ASSUME NEW events, events \in Seq(ToSet(events)), NEW e, NEW more, more = Append(events, e)
  PROVE  more \in Seq(ToSet(more)) /\ Grown(events, e, more)
PROOF
<1>1. PICK S : S = ToSet(events)
  OBVIOUS
<1>2. PICK n \in Nat : n = Len(events) /\ DOMAIN events = 1 .. n
  OBVIOUS
<1>3. events \in Seq(S \cup {e})
  BY <1>1, <1>2
<1>4. /\ more \in Seq(S \cup {e}) /\ DOMAIN more = 1 .. n + 1 /\ Len(more) = n + 1
      /\ more[n + 1] = e /\ \A i \in 1 .. n : more[i] = events[i]
  BY <1>2, <1>3
<1>5. PICK T : T = ToSet(more)
  OBVIOUS
<1>6. \A i \in 1 .. n + 1 : more[i] \in T
  BY <1>4, <1>5 DEF ToSet
<1>7. more \in Seq(T)
  BY <1>4, <1>6
<1> QED BY <1>2, <1>4, <1>5, <1>7 DEF Grown

LEMMA NotHandled ==
  ASSUME NEW c, NEW events, events \in Seq(ToSet(events)), NEW e, NEW more, Grown(events, e, more),
         ~(e.kind = "sample" /\ e.timed), NEW sources, NEW leads
  PROVE  /\ Sampled(more) = Sampled(events)
         /\ SourcesRight(c, events, sources) => SourcesRight(c, more, sources)
         /\ LeadThere(c, events, sources, leads) => LeadThere(c, more, sources, leads)
PROOF
<1>1. PICK n \in Nat : n = Len(events) /\ DOMAIN events = 1 .. n
  OBVIOUS
<1>2. DOMAIN more = 1 .. n + 1 /\ more[n + 1] = e /\ \A i \in 1 .. n : more[i] = events[i]
  BY <1>1 DEF Grown
<1>3. Sampled(more) = Sampled(events)
  BY <1>1, <1>2 DEF Sampled
<1>4. \A i \in Sampled(events) : more[i] = events[i]
  BY <1>1, <1>2 DEF Sampled
<1>5. \A i \in Sampled(events) : FirstOf(c, more, i) <=> FirstOf(c, events, i)
  BY <1>3, <1>4 DEF FirstOf
<1>6. SourcesRight(c, events, sources) => SourcesRight(c, more, sources)
  <2> SUFFICES ASSUME SourcesRight(c, events, sources) PROVE SourcesRight(c, more, sources)
    OBVIOUS
  <2>1. ASSUME NEW i \in Sampled(more) PROVE \E s \in DOMAIN sources : sources[s] = AttributeIn(c, more[i].id)
    <3>1. PICK s \in DOMAIN sources : sources[s] = AttributeIn(c, events[i].id)
      BY <1>3 DEF SourcesRight
    <3>2. more[i] = events[i]
      BY <1>3, <1>4
    <3> QED BY <3>1, <3>2
  <2>2. ASSUME NEW s \in DOMAIN sources PROVE \E i \in Sampled(more) : sources[s] = AttributeIn(c, more[i].id)
    <3>1. PICK i \in Sampled(events) : sources[s] = AttributeIn(c, events[i].id)
      BY DEF SourcesRight
    <3>2. i \in Sampled(more) /\ more[i] = events[i]
      BY <1>3, <1>4
    <3> QED BY <3>1, <3>2
  <2> QED BY <2>1, <2>2, Zenon DEF SourcesRight
<1>7. LeadThere(c, events, sources, leads) => LeadThere(c, more, sources, leads)
  BY <1>3, <1>4, <1>5 DEF LeadThere
<1> QED BY <1>3, <1>6, <1>7

\* A sample of an attribute that has some already changes nothing.
LEMMA HandledAgain ==
  ASSUME NEW c, NEW events, events \in Seq(ToSet(events)), NEW e, NEW more, Grown(events, e, more),
         e.kind = "sample" /\ e.timed, NEW sources, NEW leads,
         SourcesRight(c, events, sources), LeadThere(c, events, sources, leads),
         \E s \in DOMAIN sources : sources[s] = AttributeIn(c, e.id)
  PROVE  /\ Sampled(more) = Sampled(events) \cup {Len(events) + 1}
         /\ SourcesRight(c, more, sources) /\ LeadThere(c, more, sources, leads)
PROOF
<1>1. PICK n \in Nat : n = Len(events) /\ DOMAIN events = 1 .. n
  OBVIOUS
<1>2. DOMAIN more = 1 .. n + 1 /\ more[n + 1] = e /\ \A i \in 1 .. n : more[i] = events[i]
  BY <1>1 DEF Grown
<1>3. Sampled(more) = Sampled(events) \cup {n + 1} /\ Sampled(events) \subseteq 1 .. n
  BY <1>1, <1>2 DEF Sampled
<1>4. \A i \in Sampled(events) : more[i] = events[i]
  BY <1>2, <1>3
<1>5. PICK k \in Sampled(events) : AttributeIn(c, events[k].id) = AttributeIn(c, e.id)
  BY DEF SourcesRight
<1>6. \A i \in Sampled(events) : FirstOf(c, more, i) <=> FirstOf(c, events, i)
  <2> SUFFICES ASSUME NEW i \in Sampled(events) PROVE FirstOf(c, more, i) <=> FirstOf(c, events, i)
    OBVIOUS
  <2>1. FirstOf(c, more, i) => FirstOf(c, events, i)
    BY <1>3, <1>4 DEF FirstOf
  <2>2. i <= n + 1
    BY <1>3
  <2>3. FirstOf(c, events, i) => FirstOf(c, more, i)
    BY <1>2, <1>3, <1>4, <2>2 DEF FirstOf
  <2> QED BY <2>1, <2>3
<1>7. ~FirstOf(c, more, n + 1)
  <2>1. ~(n + 1 <= k)
    BY <1>3, <1>5
  <2>2. k \in Sampled(more) /\ AttributeIn(c, more[k].id) = AttributeIn(c, more[n + 1].id)
    BY <1>2, <1>3, <1>4, <1>5
  <2> QED BY <2>1, <2>2 DEF FirstOf
<1>8. SourcesRight(c, more, sources)
  <2>1. ASSUME NEW i \in Sampled(more) PROVE \E s \in DOMAIN sources : sources[s] = AttributeIn(c, more[i].id)
    <3>1. PICK j \in Sampled(events) : AttributeIn(c, events[j].id) = AttributeIn(c, more[i].id)
      <4>1. CASE i = n + 1
        BY <1>2, <1>5, <4>1
      <4>2. CASE i \in Sampled(events)
        BY <1>4, <4>2
      <4> QED BY <1>3, <4>1, <4>2
    <3>2. PICK s \in DOMAIN sources : sources[s] = AttributeIn(c, events[j].id)
      BY DEF SourcesRight
    <3> QED BY <3>1, <3>2
  <2>2. ASSUME NEW s \in DOMAIN sources PROVE \E i \in Sampled(more) : sources[s] = AttributeIn(c, more[i].id)
    <3>1. PICK i \in Sampled(events) : sources[s] = AttributeIn(c, events[i].id)
      BY DEF SourcesRight
    <3>2. i \in Sampled(more) /\ more[i] = events[i]
      BY <1>3, <1>4
    <3> QED BY <3>1, <3>2
  <2> QED BY <2>1, <2>2, Zenon DEF SourcesRight
<1>9. LeadThere(c, more, sources, leads)
  BY <1>3, <1>4, <1>6, <1>7 DEF LeadThere
<1> QED BY <1>1, <1>3, <1>8, <1>9

\* What an id leads to, and where the others lead.
LeadsNow(leads, id, source, now) ==
  /\ DOMAIN now = DOMAIN leads \cup {id}
  /\ now[id] = source
  /\ \A x \in DOMAIN leads : x # id => now[x] = leads[x]

LeadingId(c, e, key) == key = IF c.attributes[1].layout = Identifier THEN None ELSE e.id

LEMMA HandledFirst ==
  ASSUME NEW c, NEW events, events \in Seq(ToSet(events)), NEW e, NEW more, Grown(events, e, more),
         e.kind = "sample" /\ e.timed, NEW sources, NEW leads,
         SourcesRight(c, events, sources), LeadThere(c, events, sources, leads),
         NEW a \in Nat \ {0}, a = AttributeIn(c, e.id), ~\E s \in DOMAIN sources : sources[s] = a,
         NEW wider, wider = Append(sources, a), NEW key, LeadingId(c, e, key), NEW now,
         LeadsNow(leads, key, Len(wider), now)
  PROVE  /\ Sampled(more) = Sampled(events) \cup {Len(events) + 1}
         /\ SourcesRight(c, more, wider) /\ LeadThere(c, more, wider, now)
PROOF
<1>1. PICK n \in Nat : n = Len(events) /\ DOMAIN events = 1 .. n
  OBVIOUS
<1>2. DOMAIN more = 1 .. n + 1 /\ more[n + 1] = e /\ \A i \in 1 .. n : more[i] = events[i]
  BY <1>1 DEF Grown
<1>3. Sampled(more) = Sampled(events) \cup {n + 1} /\ Sampled(events) \subseteq 1 .. n
  BY <1>1, <1>2 DEF Sampled
<1>4. \A i \in Sampled(events) : more[i] = events[i]
  BY <1>2, <1>3
<1>6. PICK m \in Nat : m = Len(sources) /\ DOMAIN sources = 1 .. m
  BY DEF SourcesRight
<1>7. /\ wider \in Seq(Nat \ {0}) /\ DOMAIN wider = 1 .. m + 1 /\ Len(wider) = m + 1 /\ wider # <<>>
      /\ wider[m + 1] = a /\ \A s \in 1 .. m : wider[s] = sources[s]
  <2>1. sources \in Seq(Nat \ {0})
    BY DEF SourcesRight
  <2> QED BY <1>6, <2>1
<1>8. \A i \in Sampled(events) : AttributeIn(c, events[i].id) # a
  BY DEF SourcesRight
<1>9. \A i \in Sampled(events) : FirstOf(c, more, i) <=> FirstOf(c, events, i)
  BY <1>2, <1>3, <1>4, <1>8 DEF FirstOf
<1>10. FirstOf(c, more, n + 1)
  <2>1. n + 1 \in Sampled(more)
    BY <1>3
  <2>2. ASSUME NEW j \in Sampled(more), AttributeIn(c, more[j].id) = AttributeIn(c, more[n + 1].id)
        PROVE  n + 1 <= j
    <3>1. j \notin Sampled(events)
      BY <1>2, <1>4, <1>8, <2>2
    <3>2. j = n + 1
      BY <1>3, <3>1
    <3> QED BY <3>2
  <2> QED BY <2>1, <2>2 DEF FirstOf
<1>11. SourcesRight(c, more, wider)
  <2>1. \A i \in Sampled(more) : \E s \in DOMAIN wider : wider[s] = AttributeIn(c, more[i].id)
    <3> SUFFICES ASSUME NEW i \in Sampled(more) PROVE \E s \in 1 .. m + 1 : wider[s] = AttributeIn(c, more[i].id)
      BY <1>7
    <3>1. CASE i = n + 1
      BY <1>2, <1>7, <3>1
    <3>2. CASE i \in Sampled(events)
      <4>1. PICK s \in 1 .. m : sources[s] = AttributeIn(c, events[i].id)
        BY <1>6, <3>2 DEF SourcesRight
      <4> QED BY <1>4, <1>7, <3>2, <4>1
    <3> QED BY <1>3, <3>1, <3>2
  <2>2. \A s \in DOMAIN wider : \E i \in Sampled(more) : wider[s] = AttributeIn(c, more[i].id)
    <3> SUFFICES ASSUME NEW s \in 1 .. m + 1 PROVE \E i \in Sampled(more) : wider[s] = AttributeIn(c, more[i].id)
      BY <1>7
    <3>1. CASE s = m + 1
      BY <1>2, <1>3, <1>7, <3>1
    <3>2. CASE s \in 1 .. m
      <4>1. PICK i \in Sampled(events) : sources[s] = AttributeIn(c, events[i].id)
        BY <1>6, <3>2 DEF SourcesRight
      <4>2. i \in Sampled(more) /\ more[i] = events[i] /\ wider[s] = sources[s]
        BY <1>3, <1>4, <1>7, <3>2
      <4> QED BY <4>1, <4>2
    <3>3. s = m + 1 \/ s \in 1 .. m
      OBVIOUS
    <3> QED BY <3>1, <3>2, <3>3
  <2>3. ASSUME NEW s \in 1 .. m + 1, NEW t \in 1 .. m + 1, wider[s] = wider[t] PROVE s = t
    <3>1. \A x \in 1 .. m : sources[x] # a
      BY <1>6
    <3>2. CASE s = m + 1 \/ t = m + 1
      BY <1>7, <2>3, <3>1, <3>2
    <3>3. CASE s \in 1 .. m /\ t \in 1 .. m
      <4>1. sources[s] = sources[t]
        BY <1>7, <2>3, <3>3
      <4> QED BY <1>6, <3>3, <4>1 DEF SourcesRight
    <3> QED BY <3>2, <3>3
  <2> QED BY <1>7, <2>1, <2>2, <2>3 DEF SourcesRight
<1>12. LeadThere(c, more, wider, now)
  <2>1. CASE c.attributes[1].layout = Identifier
    <3>1. LeadsNow(leads, None, m + 1, now)
      BY <1>7, <2>1 DEF LeadingId
    <3>2. DOMAIN leads \subseteq {None}
      BY <2>1 DEF LeadThere
    <3>3. DOMAIN now = {None} /\ now[None] = m + 1
      BY <3>1, <3>2 DEF LeadsNow
    <3> QED BY <1>7, <2>1, <3>3 DEF LeadThere
  <2>2. CASE c.attributes[1].layout # Identifier
    <3>1. PICK x : x = e.id
      OBVIOUS
    <3>2. DOMAIN now = DOMAIN leads \cup {x} /\ now[x] = m + 1 /\ \A y \in DOMAIN leads : y # x => now[y] = leads[y]
      BY <1>7, <2>2, <3>1 DEF LeadsNow, LeadingId
    <3>3. \A y \in DOMAIN leads : \E i \in Sampled(events) : FirstOf(c, events, i) /\ y = events[i].id
      BY <2>2 DEF LeadThere
    <3>4. x \notin DOMAIN leads
      BY <1>8, <3>1, <3>3
    <3>5. ASSUME NEW i \in Sampled(more), FirstOf(c, more, i)
          PROVE  /\ more[i].id \in DOMAIN now /\ now[more[i].id] \in DOMAIN wider
                 /\ wider[now[more[i].id]] = AttributeIn(c, more[i].id)
      <4>1. CASE i = n + 1
        BY <1>2, <1>7, <3>1, <3>2, <4>1
      <4>2. CASE i \in Sampled(events)
        <5>1. /\ events[i].id \in DOMAIN leads /\ leads[events[i].id] \in DOMAIN sources
              /\ sources[leads[events[i].id]] = AttributeIn(c, events[i].id)
          BY <1>9, <2>2, <3>5, <4>2 DEF LeadThere
        <5>2. now[events[i].id] = leads[events[i].id]
          BY <3>2, <3>4, <5>1
        <5>3. more[i] = events[i]
          BY <1>4, <4>2
        <5> QED BY <1>6, <1>7, <3>2, <5>1, <5>2, <5>3
      <4> QED BY <1>3, <4>1, <4>2
    <3>6. ASSUME NEW y \in DOMAIN now PROVE \E i \in Sampled(more) : FirstOf(c, more, i) /\ y = more[i].id
      <4>1. CASE y = x
        BY <1>2, <1>3, <1>10, <3>1, <4>1
      <4>2. CASE y # x
        BY <1>3, <1>4, <1>9, <3>2, <3>3, <4>2
      <4> QED BY <4>1, <4>2
    <3> QED BY <2>2, <3>5, <3>6 DEF LeadThere
  <2> QED BY <2>1, <2>2
<1> QED BY <1>1, <1>3, <1>11, <1>12

\* finish() leaves the sources alone.
LEMMA FinishKeepsSources ==
  ASSUME DOMAIN context = DOMAIN EmptyContext, Finish
  PROVE  /\ DOMAIN context' = DOMAIN EmptyContext
         /\ context'.sources = context.sources
         /\ context'.event_id_to_source = context.event_id_to_source
         /\ phase = "reading" /\ phase' = "finished" /\ log' = log /\ scene' = scene
PROOF
<1>1. {"processes", "threads", "threads_per_process_id", "sources", "event_id_to_source", "sampled_processes"}
        \subseteq DOMAIN context
  BY DEF EmptyContext
<1>2. PICK named : named = WithNames(context)
  OBVIOUS
<1>3. /\ DOMAIN named = DOMAIN context /\ named.sources = context.sources
      /\ named.event_id_to_source = context.event_id_to_source
  <2>1. \E P, T, K : named = [[context EXCEPT !.processes = P] EXCEPT !.threads = T, !.threads_per_process_id = K]
    BY <1>2 DEF WithNames
  <2>2. PICK P, T, K : named = [[context EXCEPT !.processes = P] EXCEPT !.threads = T, !.threads_per_process_id = K]
    BY <2>1
  <2> QED BY <1>1, <2>2
<1>4. \E P, T, S : context' = [[named EXCEPT !.processes = P, !.threads = T] EXCEPT !.sampled_processes = S]
  BY <1>2 DEF Finish
<1>5. PICK P, T, S : context' = [[named EXCEPT !.processes = P, !.threads = T] EXCEPT !.sampled_processes = S]
  BY <1>4
<1>6. /\ DOMAIN context' = DOMAIN context /\ context'.sources = context.sources
      /\ context'.event_id_to_source = context.event_id_to_source
  BY <1>1, <1>3, <1>5
<1>7. phase = "reading" /\ phase' = "finished" /\ log' = log /\ scene' = scene
  BY DEF Finish
<1> QED BY <1>6, <1>7

LEMMA RecordingStart == Init => RecordingInv
PROOF
<1> SUFFICES ASSUME Init PROVE RecordingInv
  OBVIOUS
<1>1. scene \in Scenes /\ log = <<>> /\ context = EmptyContext /\ phase = "opening"
  BY DEF Init
<1>2. log \in Seq(ToSet(log)) /\ Sampled(log) = {}
  BY <1>1 DEF Sampled
<1> QED BY <1>1, <1>2 DEF RecordingInv

LEMMA OpenStep == RecordingInv /\ Open => RecordingInv'
PROOF
<1> SUFFICES ASSUME RecordingInv, Open PROVE RecordingInv'
  OBVIOUS
<1>1. log' = log /\ scene' = scene /\ context' = context /\ phase = "opening"
  BY DEF Open
<1>2. log = <<>> /\ context.sources = <<>> /\ context.event_id_to_source = <<>>
  BY <1>1 DEF RecordingInv, EmptyContext
<1>3. Sampled(log) = {}
  BY <1>2 DEF Sampled
<1>4. SourcesRight(scene, log, context.sources)
  BY <1>2, <1>3 DEF SourcesRight
<1>5. LeadThere(scene, log, context.sources, context.event_id_to_source)
  BY <1>2, <1>3 DEF LeadThere
<1>6. phase' \in {"reading", "finished"} => scene.attributes # <<>>
  BY DEF Open, Valid, Attributes
<1>7. phase' # "opening"
  BY DEF Open
<1> QED BY <1>1, <1>4, <1>5, <1>6, <1>7 DEF RecordingInv

\* An event that is no sample, or no sample that is handled, leaves the sources alone.
LEMMA OtherEventStep ==
  ASSUME RecordingInv, NEW e, Record(e), ~(e.kind = "sample" /\ e.timed),
         DOMAIN context' = DOMAIN context, context'.sources = context.sources,
         context'.event_id_to_source = context.event_id_to_source, phase' \in {phase, "failed"}
  PROVE  RecordingInv'
PROOF
<1>1. log' = Append(log, e) /\ scene' = scene /\ phase = "reading" /\ log \in Seq(ToSet(log))
  BY DEF Record, RecordingInv
<1>2. log' \in Seq(ToSet(log')) /\ Grown(log, e, log')
  BY <1>1, LogGrows
<1>3. /\ Sampled(log') = Sampled(log)
      /\ SourcesRight(scene, log', context.sources)
      /\ LeadThere(scene, log', context.sources, context.event_id_to_source)
  BY <1>1, <1>2, NotHandled DEF RecordingInv
<1>4. \A i \in Sampled(log') : log'[i].id \in scene.ids
  <2>1. ASSUME NEW i \in Sampled(log) PROVE log'[i] = log[i]
    <3>1. i \in DOMAIN log
      BY DEF Sampled
    <3> QED BY <1>2, <3>1 DEF Grown
  <2> QED BY <1>3, <2>1 DEF RecordingInv
<1>5. scene' \in Scenes /\ DOMAIN context' = DOMAIN EmptyContext /\ phase' # "opening"
  BY <1>1 DEF RecordingInv
<1>6. scene.attributes # <<>>
  BY <1>1 DEF RecordingInv
<1> QED BY <1>1, <1>2, <1>3, <1>4, <1>5, <1>6 DEF RecordingInv

LEMMA CommStep ==
  ASSUME RecordingInv, NEW pid, NEW tid, NEW name, NEW time, Comm(pid, tid, name, time)
  PROVE  RecordingInv'
PROOF
<1>1. PICK e : e = [kind |-> "comm", tid |-> tid, process |-> pid, name |-> name, time |-> time]
  OBVIOUS
<1>2. Record(e) /\ phase' = phase /\ e.kind # "sample"
  BY <1>1 DEF Comm
<1>3. \E P, T : context' = [context EXCEPT !.process_names = P, !.thread_names = T]
  BY DEF Comm
<1>4. PICK P, T : context' = [context EXCEPT !.process_names = P, !.thread_names = T]
  BY <1>3
<1>5. /\ DOMAIN context' = DOMAIN context /\ context'.sources = context.sources
      /\ context'.event_id_to_source = context.event_id_to_source
  <2>1. {"sources", "event_id_to_source"} \subseteq DOMAIN context
    BY DEF RecordingInv, EmptyContext
  <2> QED BY <1>4, <2>1
<1> QED BY <1>2, <1>5, OtherEventStep

LEMMA ForkStep ==
  ASSUME RecordingInv, NEW pid, NEW tid, NEW time, Fork(pid, tid, time)
  PROVE  RecordingInv'
PROOF
<1>1. PICK e : e = [kind |-> "fork", tid |-> tid, process |-> pid, time |-> time]
  OBVIOUS
<1>2. Record(e) /\ phase' = phase /\ e.kind # "sample"
  BY <1>1 DEF Fork
<1>3. \E P, T, K : context' = [context EXCEPT !.processes = P, !.threads = T, !.threads_per_process_id = K]
  BY DEF Fork
<1>4. PICK P, T, K : context' = [context EXCEPT !.processes = P, !.threads = T, !.threads_per_process_id = K]
  BY <1>3
<1>5. /\ DOMAIN context' = DOMAIN context /\ context'.sources = context.sources
      /\ context'.event_id_to_source = context.event_id_to_source
  <2>1. {"sources", "event_id_to_source"} \subseteq DOMAIN context
    BY DEF RecordingInv, EmptyContext
  <2> QED BY <1>4, <2>1
<1> QED BY <1>2, <1>5, OtherEventStep

LEMMA SampleStep ==
  ASSUME ScenesRecorded, RecordingInv, NEW tid, NEW id, id \in scene.ids, NEW timed, NEW time,
         Sample(tid, id, timed, time)
  PROVE  RecordingInv'
PROOF
<1>1. PICK e : e = [kind |-> "sample", tid |-> tid, id |-> id, timed |-> timed, time |-> time]
  OBVIOUS
<1>2. e.kind = "sample" /\ e.id = id /\ e.timed = timed
  BY <1>1
<1>3. PICK a : a = AttributeIn(scene, id)
  OBVIOUS
<1>4. AttributeOf(id) = a
  BY <1>3 DEF AttributeIn, AttributeOf, Attributes
<1>5. Record(e) /\ phase' = IF a = 0 THEN "failed" ELSE phase
  BY <1>1, <1>4 DEF Sample
<1>6. CASE a = 0 \/ ~timed
  <2>1. context' = context
    BY <1>4, <1>6 DEF Sample
  <2>2. CASE ~timed
    BY <1>2, <1>5, <2>1, <2>2, OtherEventStep
  <2>3. CASE timed
    <3>1. phase' = "failed"
      BY <1>5, <1>6, <2>3
    <3>2. log' = Append(log, e) /\ scene' = scene /\ log \in Seq(ToSet(log))
      BY <1>5 DEF Record, RecordingInv
    <3>3. log' \in Seq(ToSet(log')) /\ Grown(log, e, log')
      BY <3>2, LogGrows
    <3>4. \A i \in Sampled(log') : log'[i].id \in scene.ids
      BY <1>2, <3>2, <3>3 DEF Sampled, Grown, RecordingInv
    <3> QED BY <2>1, <3>1, <3>2, <3>3, <3>4 DEF RecordingInv
  <2> QED BY <2>2, <2>3
<1>7. CASE a # 0 /\ timed
  <2>1. /\ log' = Append(log, e) /\ scene' = scene /\ log \in Seq(ToSet(log))
        /\ phase = "reading" /\ phase' = "reading"
    BY <1>5, <1>7 DEF Record, RecordingInv
  <2>2. log' \in Seq(ToSet(log')) /\ Grown(log, e, log')
    BY <2>1, LogGrows
  <2>3. PICK sources, leads : sources = context.sources /\ leads = context.event_id_to_source
    OBVIOUS
  <2>4. SourcesRight(scene, log, sources) /\ LeadThere(scene, log, sources, leads) /\ scene.attributes # <<>>
    BY <2>1, <2>3 DEF RecordingInv
  <2>5. PICK more, now : more = context'.sources /\ now = context'.event_id_to_source
    OBVIOUS
  <2>6. /\ DOMAIN context' = DOMAIN context
        /\ a \in ToSet(sources) => more = sources /\ now = leads
        /\ a \notin ToSet(sources) =>
             /\ more = Append(sources, a)
             /\ LeadsNow(leads, IF scene.attributes[1].layout = Identifier THEN None ELSE id,
                         Len(more), now)
    <3>1. {"sources", "event_id_to_source", "samples"} \subseteq DOMAIN context
      BY DEF RecordingInv, EmptyContext
    <3>2. CASE a \in ToSet(sources)
      <4>1. \E S : context' = [context EXCEPT !.sources = sources, !.event_id_to_source = leads, !.samples = S]
        BY <1>4, <1>7, <2>3, <3>2 DEF Sample
      <4> QED BY <2>3, <2>5, <3>1, <3>2, <4>1
    <3>3. CASE a \notin ToSet(sources)
      <4>1. PICK wider : wider = Append(sources, a)
        OBVIOUS
      <4>2. PICK m : m = SourceOf(wider, a)
        OBVIOUS
      <4>3. PICK k : k = ParsedId(id)
        OBVIOUS
      <4>4. PICK led : led = Assigned(leads, k, m)
        OBVIOUS
      <4>5. \E S : context' = [context EXCEPT !.sources = wider, !.event_id_to_source = led, !.samples = S]
        BY <1>4, <1>7, <2>3, <3>3, <4>1, <4>2, <4>3, <4>4 DEF Sample
      <4>6. DOMAIN context' = DOMAIN context /\ more = wider /\ now = led
        BY <2>5, <3>1, <4>5
      <4>7. m = Len(wider)
        <5>1. PICK n \in Nat : n = Len(sources) /\ DOMAIN sources = 1 .. n /\ sources \in Seq(Nat \ {0})
          BY <2>4 DEF SourcesRight
        <5>2. a \in Nat \ {0}
          BY <1>3, <1>7, <2>4, AttributeIs DEF RecordingInv
        <5>3. DOMAIN wider = 1 .. n + 1 /\ wider[n + 1] = a /\ Len(wider) = n + 1 /\ \A s \in 1 .. n : wider[s] = sources[s]
          BY <4>1, <5>1, <5>2
        <5>4. \A s \in 1 .. n : sources[s] # a
          BY <3>3, <5>1 DEF ToSet
        <5>5. {s \in DOMAIN wider : wider[s] = a} = {n + 1}
          BY <5>3, <5>4
        <5>6. Max({n + 1}) = n + 1
          BY DEF Max
        <5> QED BY <4>2, <5>3, <5>5, <5>6 DEF SourceOf
      <4>8. LeadsNow(leads, k, m, led)
        BY <4>4 DEF LeadsNow, Assigned
      <4>9. k = IF scene.attributes[1].layout = Identifier THEN None ELSE id
        BY <4>3 DEF ParsedId
      <4> QED BY <3>3, <4>1, <4>6, <4>7, <4>8, <4>9
    <3> QED BY <3>2, <3>3
  <2>7. /\ \A i \in Sampled(log') : i \in Sampled(log) \/ i = Len(log) + 1
        /\ SourcesRight(scene, log', more) /\ LeadThere(scene, log', more, now)
    <3>0. e.kind = "sample" /\ e.timed /\ log \in Seq(ToSet(log)) /\ Grown(log, e, log')
      BY <1>2, <1>7, <2>1, <2>2
    <3>1. CASE a \in ToSet(sources)
      <4>1. \E s \in DOMAIN sources : sources[s] = AttributeIn(scene, e.id)
        BY <1>2, <1>3, <3>1 DEF ToSet
      <4>2. more = sources /\ now = leads
        BY <2>6, <3>1
      <4>3. /\ Sampled(log') = Sampled(log) \cup {Len(log) + 1}
            /\ SourcesRight(scene, log', sources) /\ LeadThere(scene, log', sources, leads)
        BY <2>4, <3>0, <4>1, HandledAgain
      <4> QED BY <4>2, <4>3
    <3>2. CASE a \notin ToSet(sources)
      <4>1. ~\E s \in DOMAIN sources : sources[s] = a
        BY <3>2 DEF ToSet
      <4>2. PICK key : key = IF scene.attributes[1].layout = Identifier THEN None ELSE id
        OBVIOUS
      <4>3. LeadingId(scene, e, key)
        BY <1>2, <4>2 DEF LeadingId
      <4>4. more = Append(sources, a) /\ LeadsNow(leads, key, Len(more), now)
        BY <2>6, <3>2, <4>2
      <4>5. a \in Nat \ {0} /\ a = AttributeIn(scene, e.id)
        BY <1>2, <1>3, <1>7, <2>4, AttributeIs DEF RecordingInv
      <4>6. /\ Sampled(log') = Sampled(log) \cup {Len(log) + 1}
            /\ SourcesRight(scene, log', more) /\ LeadThere(scene, log', more, now)
        BY <2>4, <3>0, <4>1, <4>3, <4>4, <4>5, HandledFirst
      <4> QED BY <4>6
    <3> QED BY <3>1, <3>2
  <2>8. \A i \in Sampled(log') : log'[i].id \in scene.ids
    BY <1>2, <2>1, <2>2, <2>7 DEF Grown, Sampled, RecordingInv
  <2> QED BY <2>1, <2>2, <2>4, <2>5, <2>6, <2>7, <2>8 DEF RecordingInv
<1> QED BY <1>6, <1>7

LEMMA RecordingStep == ScenesRecorded /\ RecordingInv /\ [Next]_vars => RecordingInv'
PROOF
<1> SUFFICES ASSUME ScenesRecorded, RecordingInv, [Next]_vars PROVE RecordingInv'
  OBVIOUS
<1>1. CASE Open
  BY <1>1, OpenStep
<1>2. CASE RecordEvent
  <2>1. PICK tid, time :
          \/ \E pid : Fork(pid, tid, time) \/ \E name \in Names : Comm(pid, tid, name, time)
          \/ \E id \in scene.ids, timed \in scene.timed : Sample(tid, id, timed, time)
    BY <1>2 DEF RecordEvent
  <2>2. CASE \E pid : Fork(pid, tid, time)
    BY <2>2, ForkStep
  <2>3. CASE \E pid : \E name \in Names : Comm(pid, tid, name, time)
    BY <2>3, CommStep
  <2>4. CASE \E id \in scene.ids, timed \in scene.timed : Sample(tid, id, timed, time)
    BY <2>4, SampleStep
  <2> QED BY <2>1, <2>2, <2>3, <2>4
<1>3. CASE Finish
  <2>1. DOMAIN context = DOMAIN EmptyContext
    BY DEF RecordingInv
  <2>2. /\ DOMAIN context' = DOMAIN EmptyContext
        /\ context'.sources = context.sources
        /\ context'.event_id_to_source = context.event_id_to_source
        /\ phase = "reading" /\ phase' = "finished" /\ log' = log /\ scene' = scene
    BY <1>3, <2>1, FinishKeepsSources
  <2> QED BY <2>2 DEF RecordingInv
<1>4. CASE Read
  <2>1. log' = log /\ scene' = scene /\ context' = context /\ phase' = phase
    BY <1>4 DEF Read, OpenSamples, NextSample
  <2> QED BY <2>1 DEF RecordingInv
<1>5. CASE UNCHANGED vars
  <2>1. log' = log /\ scene' = scene /\ context' = context /\ phase' = phase
    BY <1>5 DEF vars
  <2> QED BY <2>1 DEF RecordingInv
<1> QED BY <1>1, <1>2, <1>3, <1>4, <1>5 DEF Next

\* The first sample of an attribute.
FirstSample(c, events, attribute) == Min({i \in Sampled(events) : AttributeIn(c, events[i].id) = attribute})

LEMMA FirstIsThere ==
  ASSUME NEW c, NEW events, events \in Seq(ToSet(events)), NEW sources, SourcesRight(c, events, sources),
         NEW s \in DOMAIN sources, NEW first, first = FirstSample(c, events, sources[s])
  PROVE  first \in Sampled(events) /\ FirstOf(c, events, first) /\ AttributeIn(c, events[first].id) = sources[s]
PROOF
<1>1. PICK T : T = {i \in Sampled(events) : AttributeIn(c, events[i].id) = sources[s]}
  OBVIOUS
<1>2. T # {}
  BY <1>1 DEF SourcesRight
<1>3. T \in SUBSET Nat
  BY <1>1 DEF Sampled
<1>4. first \in T /\ \A y \in T : first <= y
  BY <1>1, <1>2, <1>3, LeastOf DEF FirstSample
<1>5. first \in Sampled(events) /\ AttributeIn(c, events[first].id) = sources[s]
  BY <1>1, <1>4
<1>6. FirstOf(c, events, first)
  BY <1>1, <1>4, <1>5 DEF FirstOf
<1> QED BY <1>5, <1>6

\* The descriptor that is found by an id is that of the attribute of the id.
LEMMA DescriptorIs ==
  ASSUME ScenesRecorded, scene \in Scenes, scene.attributes # <<>>, scene.described,
         NEW id \in scene.ids, id # 0, AttributeIn(scene, id) # 0
  PROVE  Matching(Descriptors, id) = {AttributeIn(scene, id)}
PROOF
<1>1. PICK a : a = AttributeIn(scene, id)
  OBVIOUS
<1>2. /\ a \in DOMAIN scene.attributes
      /\ Len(scene.attributes) # 1 => id \in scene.attributes[a].ids
  BY <1>1, AttributeIs
<1>3. PICK n \in Nat : n = Len(scene.attributes) /\ DOMAIN scene.attributes = 1 .. n
  BY DEF ScenesRecorded
<1>4. Descriptors = 1 .. n
  BY <1>3 DEF Descriptors, Attributes
<1>5. CASE n = 1
  <2>1. a = 1 /\ Descriptors = {1}
    BY <1>2, <1>3, <1>4, <1>5
  <2>2. id = None \/ id \in scene.attributes[1].ids
    BY <1>3, <1>5 DEF ScenesRecorded
  <2> QED BY <1>1, <2>1, <2>2 DEF Matching
<1>6. CASE n # 1
  <2>1. id \in scene.attributes[a].ids
    BY <1>2, <1>3, <1>6
  <2>2. id # None
    <3>1. scene.attributes[a] \in [ids : SUBSET Nat, layout : Layouts]
      <4>1. PICK R : R = [ids : SUBSET Nat, layout : Layouts]
        OBVIOUS
      <4>2. PICK all : all = scene.attributes /\ all \in Seq(R)
        BY <4>1 DEF ScenesRecorded
      <4>3. all[a] \in R
        BY <1>2, <4>2
      <4> QED BY <4>1, <4>2, <4>3
    <3>2. id \in Nat
      BY <2>1, <3>1
    <3> QED BY <3>2 DEF None
  <2>3. \A d \in 1 .. n : id \in scene.attributes[d].ids <=> d = a
    <3>1. ASSUME NEW d \in 1 .. n, id \in scene.attributes[d].ids PROVE d = a
      <4>1. scene.attributes[d].ids \cap scene.attributes[a].ids # {}
        BY <2>1, <3>1
      <4> QED BY <1>2, <1>3, <4>1 DEF ScenesRecorded
    <3> QED BY <2>1, <3>1
  <2> QED BY <1>1, <1>2, <1>3, <1>4, <2>2, <2>3 DEF Matching
<1> QED BY <1>5, <1>6

\* Every source that has samples can be asked for, and has the name of its descriptor
\* if its first sample had an id; with the ids at the front only the newest one can be
\* asked for.  This is for any file with attributes that have ids of their own.
THEOREM SourcesAreDescribed == Spec => []SourcesDescribed
PROOF
<1>1. RecordingInv => SourcesDescribed
  <2> SUFFICES ASSUME RecordingInv, phase = "finished" PROVE SourcesDescribed
    BY DEF SourcesDescribed, Finished
  <2>1. PICK sources, leads : sources = context.sources /\ leads = context.event_id_to_source
    OBVIOUS
  <2>2. /\ SourcesRight(scene, log, sources) /\ LeadThere(scene, log, sources, leads)
        /\ scene.attributes # <<>> /\ scene \in Scenes /\ log \in Seq(ToSet(log))
    BY <2>1 DEF RecordingInv
  <2>3. SampleSources = {leads[id] : id \in DOMAIN leads}
    BY <2>1 DEF SampleSources
  <2>4. Handled = Sampled(log)
    BY DEF Handled, Sampled
  <2>5. \A id : AttributeOf(id) = AttributeIn(scene, id)
    BY DEF AttributeOf, Attributes, AttributeIn
  <2>6. CASE scene.attributes[1].layout = Identifier
    <3>1. SampleSources = IF sources = <<>> THEN {} ELSE {Len(sources)}
      BY <2>2, <2>3, <2>6 DEF LeadThere
    <3> QED BY <2>1, <2>6, <3>1 DEF SourcesDescribed
  <2>7. CASE scene.attributes[1].layout # Identifier
    <3>1. ASSUME NEW s \in DOMAIN sources, NEW first,
                 first = Min({i \in Handled : AttributeOf(log[i].id) = sources[s]})
          PROVE  /\ s \in SampleSources
                 /\ scene.described /\ log[first].id # 0 => NameOfSource(s) = sources[s]
      <4>1. first = FirstSample(scene, log, sources[s])
        BY <2>4, <2>5, <3>1 DEF FirstSample
      <4>2. PICK id : id = log[first].id
        OBVIOUS
      <4>3. first \in Sampled(log) /\ FirstOf(scene, log, first) /\ AttributeIn(scene, id) = sources[s]
        <5>1. /\ first \in Sampled(log) /\ FirstOf(scene, log, first)
              /\ AttributeIn(scene, log[first].id) = sources[s]
          BY <2>2, <3>1, <4>1, FirstIsThere
        <5> QED BY <4>2, <5>1
      <4>4. id \in DOMAIN leads /\ leads[id] \in DOMAIN sources /\ sources[leads[id]] = sources[s]
        BY <2>2, <2>7, <4>2, <4>3 DEF LeadThere
      <4>5. leads[id] = s
        BY <2>2, <4>4 DEF SourcesRight
      <4>6. ASSUME NEW x \in DOMAIN leads, leads[x] = s PROVE x = id
        <5>1. PICK i \in Sampled(log) : FirstOf(scene, log, i) /\ x = log[i].id
          BY <2>2, <2>7 DEF LeadThere
        <5>2. sources[leads[x]] = AttributeIn(scene, x)
          BY <2>2, <2>7, <5>1 DEF LeadThere
        <5>3. AttributeIn(scene, log[i].id) = AttributeIn(scene, log[first].id)
          BY <4>2, <4>3, <4>6, <5>1, <5>2
        <5>4. i <= first /\ first <= i /\ i \in Nat /\ first \in Nat
          BY <2>2, <4>3, <5>1, <5>3 DEF FirstOf, Sampled
        <5>5. i = first
          BY <5>4
        <5> QED BY <4>2, <5>1, <5>5
      <4>7. ASSUME scene.described, id # 0 PROVE NameOfSource(s) = sources[s]
        <5>1. {x \in DOMAIN leads : leads[x] = s} = {id}
          BY <4>4, <4>5, <4>6
        <5>2. PICK of : of = UNION {Matching(Descriptors, x) : x \in {id}}
          OBVIOUS
        <5>3. of = Matching(Descriptors, id)
          BY <5>2
        <5>4. id \in scene.ids
          BY <4>2, <4>3 DEF RecordingInv
        <5>5. AttributeIn(scene, id) # 0
          <6>1. sources \in Seq(Nat \ {0})
            BY <2>2 DEF SourcesRight
          <6> QED BY <4>3, <6>1
        <5>6. of = {sources[s]}
          BY <2>2, <4>3, <4>7, <5>3, <5>4, <5>5, DescriptorIs, ScenesAssumption
        <5>7. Min({sources[s]}) = sources[s]
          <6>1. PICK a \in Nat : a = sources[s]
            <7>1. sources \in Seq(Nat \ {0})
              BY <2>2 DEF SourcesRight
            <7> QED BY <7>1
          <6> QED BY <6>1 DEF Min
        <5>8. NameOfSource(s) = IF of = {} THEN None ELSE Min(of)
          BY <2>1, <5>1, <5>2 DEF NameOfSource
        <5> QED BY <5>6, <5>7, <5>8
      <4> QED BY <2>3, <4>2, <4>4, <4>5, <4>7
    <3> QED BY <2>1, <2>7, <3>1 DEF SourcesDescribed
  <2> QED BY <2>6, <2>7
<1>2. RecordingInv /\ [Next]_vars => RecordingInv'
  BY RecordingStep, ScenesAssumption
<1> QED BY <1>1, <1>2, RecordingStart, PTL DEF Spec
=============================================================================
