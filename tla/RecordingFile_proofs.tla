------------------------- MODULE RecordingFile_proofs -------------------------
(***************************************************************************)
(* Proofs about RecordingFile, EtlFile and PerfDataFile: what is handed to *)
(* the process context is what the file has, whatever the sizes of the     *)
(* file, its buffers and the chunks it is read in; the listener is told of *)
(* all the work; and nothing is left in the temporary directory.           *)
(*                                                                         *)
(* EtlInv and PerfInv are the inductive invariants of the two readers and  *)
(* ArchiveInv that of the extraction; IInv puts them together.             *)
(***************************************************************************)
EXTENDS RecordingFile, FiniteSetTheorems, WellFoundedInduction, TLAPS

-----------------------------------------------------------------------------
(* The progress reporter *)

\* What a listener is told grows, and does not run ahead of the work; the next report
\* comes at the end of the total at the latest, and is made by then.
Growing(s) == \A k \in 1 .. Len(s) - 1 : s[k] < s[k + 1]

Reporters ==
  [total_work : Nat, resolution : {Resolution}, current_work : Nat, next_report_step : Int,
   next_report_work : Int, reports : Seq(Nat) \ {<<>>}, finished : BOOLEAN]

Told(r) ==
  /\ r \in Reporters
  /\ Growing(r.reports) /\ Last(r.reports) <= r.current_work
  /\ r.current_work < r.total_work => r.next_report_work <= r.total_work
  /\ r.current_work >= r.total_work => Last(r.reports) >= r.total_work

LEMMA PositiveProduct ==
  ASSUME NEW a \in Nat \ {0}, NEW b \in Nat \ {0}
  PROVE  a * b \in Nat \ {0}
PROOF
<1>1. a * b \in Nat
  OBVIOUS
<1>2. a * b # 0
  BY SMTT(30)
<1> QED BY <1>1, <1>2

LEMMA Quotient ==
  ASSUME NEW a \in Int, NEW b \in Nat \ {0}
  PROVE  a \div b \in Int
PROOF OBVIOUS

LEMMA Remainder ==
  ASSUME NEW a \in Nat, NEW b \in Nat \ {0}
  PROVE  a % b <= a
PROOF
<1>1. PICK q \in Int, r \in Int : q = a \div b /\ r = a % b
  OBVIOUS
<1>2. a = b * q + r /\ 0 <= r /\ r < b
  BY <1>1
<1>3. q >= 0
  <2>1. SUFFICES ASSUME q <= -1 PROVE FALSE
    BY <1>1
  <2>2. b * q <= -b
    BY <2>1, SMTT(30)
  <2> QED BY <1>2, <2>2
<1>4. PICK c \in Int : c = b * q
  OBVIOUS
<1>5. c >= 0
  BY <1>3, <1>4, SMTT(30)
<1> QED BY <1>1, <1>2, <1>4, <1>5

LEMMA WorkOfStepInt ==
  ASSUME NEW t \in Nat, NEW n \in Int
  PROVE  WorkOfStep(t, Resolution, n) \in Int
PROOF
<1>1. Resolution[1] \in Nat \ {0} /\ Resolution[2] \in Nat \ {0}
  BY SizesAssumption
<1>2. PICK a \in Int : a = t * Resolution[1] * n + Resolution[2] - 1
  BY <1>1
<1>3. a \div Resolution[2] \in Int
  BY <1>1, <1>2, Quotient
<1> QED BY <1>2, <1>3 DEF WorkOfStep

\* The first step begins within the work.
LEMMA FirstStep ==
  ASSUME NEW t \in Nat
  PROVE  WorkOfStep(t, Resolution, 1) <= t
PROOF
<1>1. PICK n \in Nat \ {0}, d \in Nat \ {0} : n = Resolution[1] /\ d = Resolution[2] /\ n <= d
  BY SizesAssumption
<1>2. PICK a \in Nat : a = t * n
  OBVIOUS
<1>3. a <= t * d
  BY <1>1, <1>2, SMTT(30)
<1>4. PICK b \in Nat : b = t * d
  OBVIOUS
<1>5. (a + d - 1) \div d < t + 1
  <2>1. PICK q \in Int : q = (a + d - 1) \div d
    BY Quotient
  <2>2. d * q <= a + d - 1
    BY <2>1, SMTT(30)
  <2>3. d * q < d * (t + 1)
    <3>1. d * (t + 1) = b + d
      BY <1>4, SMTT(30)
    <3> QED BY <1>3, <1>4, <2>2, <3>1
  <2>4. q < t + 1
    BY <2>3, SMTT(30)
  <2> QED BY <2>1, <2>4
<1>6. WorkOfStep(t, Resolution, 1) = (a + d - 1) \div d
  <2>1. t * n * 1 = a
    BY <1>2
  <2> QED BY <1>1, <2>1 DEF WorkOfStep
<1>7. WorkOfStep(t, Resolution, 1) \in Int
  BY WorkOfStepInt
<1> QED BY <1>5, <1>6, <1>7

LEMMA ReporterStarts ==
  ASSUME NEW t \in Nat
  PROVE  LET r == Reporter(t, Resolution)
         IN  Told(r) /\ r.total_work = t /\ r.current_work = 0 /\ ~r.finished
PROOF
<1>1. WorkOfStep(t, Resolution, 1) \in Int /\ WorkOfStep(t, Resolution, 1) <= t
  BY WorkOfStepInt, FirstStep
<1>2. PICK w \in Int : w = WorkOfStep(t, Resolution, 1)
  BY <1>1
<1>3. PICK s : s = <<0>>
  OBVIOUS
<1>4. PICK r : r = [total_work |-> t, resolution |-> Resolution, current_work |-> 0,
                    next_report_step |-> 1, next_report_work |-> w, reports |-> s,
                    finished |-> FALSE]
  OBVIOUS
<1>5. Reporter(t, Resolution) = r
  BY <1>2, <1>3, <1>4 DEF Reporter
<1>6. s \in Seq(Nat) \ {<<>>} /\ Len(s) = 1 /\ Last(s) = 0 /\ Growing(s)
  BY <1>3 DEF Last, Growing
<1>7. r \in Reporters
  BY <1>4, <1>6 DEF Reporters
<1> QED BY <1>1, <1>2, <1>4, <1>5, <1>6, <1>7 DEF Told

LEMMA GrowingAppend ==
  ASSUME NEW s \in Seq(Nat) \ {<<>>}, NEW x \in Nat, Growing(s), Last(s) < x
  PROVE  Append(s, x) \in Seq(Nat) \ {<<>>} /\ Growing(Append(s, x)) /\ Last(Append(s, x)) = x
PROOF
<1>1. PICK q : q = Append(s, x)
  OBVIOUS
<1>2. /\ q \in Seq(Nat) /\ Len(q) = Len(s) + 1 /\ Len(s) \in Nat \ {0}
      /\ \A i \in 1 .. Len(s) : q[i] = s[i]
      /\ q[Len(s) + 1] = x
  BY <1>1
<1>3. ASSUME NEW k \in 1 .. Len(q) - 1 PROVE q[k] < q[k + 1]
  <2>1. CASE k = Len(s)
    BY <1>2, <2>1 DEF Last
  <2>2. CASE k < Len(s)
    <3>1. k \in 1 .. Len(s) - 1 /\ k \in 1 .. Len(s) /\ k + 1 \in 1 .. Len(s)
      BY <1>2, <2>2
    <3> QED BY <1>2, <3>1 DEF Growing
  <2> QED BY <1>2, <2>1, <2>2
<1> QED BY <1>1, <1>2, <1>3 DEF Last, Growing

LEMMA ProgressedTold ==
  ASSUME NEW r, Told(r), NEW n \in Nat \ {0}, r.total_work # 0
  PROVE  LET p == Progressed(r, n)
         IN  /\ Told(p) /\ p.total_work = r.total_work
             /\ p.current_work = r.current_work + n /\ p.finished = r.finished
PROOF
<1>1. PICK t, c, st, w, rs, f :
        /\ r = [total_work |-> t, resolution |-> Resolution, current_work |-> c,
                next_report_step |-> st, next_report_work |-> w, reports |-> rs, finished |-> f]
        /\ t \in Nat /\ c \in Nat /\ st \in Int /\ w \in Int /\ rs \in Seq(Nat) \ {<<>>}
        /\ f \in BOOLEAN
  BY DEF Told, Reporters
<1>2. /\ t # 0 /\ Growing(rs) /\ Last(rs) <= c /\ Last(rs) \in Nat
      /\ c < t => w <= t
      /\ c >= t => Last(rs) >= t
  <2>1. Last(rs) \in Nat
    BY <1>1 DEF Last
  <2> QED BY <1>1, <2>1 DEF Told
<1>3. PICK d \in Nat : d = c + n
  BY <1>1
<1>4. PICK s : s = [total_work |-> t, resolution |-> Resolution, current_work |-> d,
                next_report_step |-> st, next_report_work |-> w, reports |-> rs, finished |-> f]
  OBVIOUS
<1>5. [r EXCEPT !.current_work = @ + n] = s
  BY <1>1, <1>3, <1>4
<1>6. CASE d < w
  <2>1. Progressed(r, n) = s
    BY <1>4, <1>5, <1>6 DEF Progressed
  <2>2. s \in Reporters
    BY <1>1, <1>4 DEF Reporters
  <2>3. Told(s)
    <3>1. d < t => w <= t
      BY <1>1, <1>2, <1>3
    <3>2. d >= t => Last(rs) >= t
      BY <1>1, <1>2, <1>3, <1>6
    <3>3. Last(rs) <= d
      BY <1>1, <1>2, <1>3
    <3> QED BY <1>2, <1>4, <2>2, <3>1, <3>2, <3>3 DEF Told
  <2> QED BY <1>1, <1>3, <1>4, <2>1, <2>3
<1>7. CASE ~(d < w)
  <2>1. PICK qs : qs = Append(rs, d)
    OBVIOUS
  <2>2. qs \in Seq(Nat) \ {<<>>} /\ Growing(qs) /\ Last(qs) = d
    <3>1. Last(rs) < d
      BY <1>1, <1>2, <1>3
    <3> QED BY <1>1, <1>2, <2>1, <3>1, GrowingAppend
  <2>3. PICK v : v = [total_work |-> t, resolution |-> Resolution, current_work |-> d,
                next_report_step |-> st, next_report_work |-> w, reports |-> qs, finished |-> f]
    OBVIOUS
  <2>4. [s EXCEPT !.reports = Append(@, s.current_work)] = v
    <3>1. s.reports = rs /\ s.current_work = d
      BY <1>4
    <3>2. Append(s.reports, s.current_work) = qs
      BY <2>1, <3>1
    <3>3. [s EXCEPT !.reports = qs] = v
      BY <1>4, <2>3
    <3> QED BY <3>2, <3>3, Zenon
  <2>5. Progressed(r, n) = advanced(v)
    <3>1. PICK q : q = [r EXCEPT !.current_work = @ + n]
      OBVIOUS
    <3>2. Progressed(r, n) = IF s.current_work < s.next_report_work THEN s
                             ELSE advanced([s EXCEPT !.reports = Append(@, s.current_work)])
      <4>1. Progressed(r, n) = IF q.current_work < q.next_report_work THEN q
                               ELSE advanced([q EXCEPT !.reports = Append(@, q.current_work)])
        BY <3>1 DEF Progressed
      <4>2. q = s
        BY <1>5, <3>1
      <4> QED BY <4>1, <4>2
    <3>3. s.current_work = d /\ s.next_report_work = w
      BY <1>4
    <3>4. ~(s.current_work < s.next_report_work)
      BY <1>7, <3>3
    <3> QED BY <2>4, <3>2, <3>4, Zenon
  <2>6. PICK cs \in Int : cs = (d * Resolution[2]) \div (t * Resolution[1])
    <3>1. Resolution[1] \in Nat \ {0} /\ Resolution[2] \in Nat \ {0} /\ t \in Nat \ {0}
      BY <1>1, <1>2, SizesAssumption
    <3>2. t * Resolution[1] \in Nat \ {0}
      BY <3>1, PositiveProduct
    <3>3. d * Resolution[2] \in Int
      BY <1>1, <3>1
    <3>4. (d * Resolution[2]) \div (t * Resolution[1]) \in Int
      BY <3>2, <3>3, Quotient
    <3> QED BY <3>4
  <2>7. PICK step \in Int : step = IF st + 1 > cs + 1 THEN st + 1 ELSE cs + 1
    BY <1>1
  <2>8. PICK work \in Int : work = WorkOfStep(t, Resolution, step)
    BY <1>1, WorkOfStepInt
  <2>9. PICK st2 \in Int : st2 = IF d < t /\ work > t THEN step - 1 ELSE step
    OBVIOUS
  <2>10. PICK w2 \in Int : w2 = IF d < t /\ work > t THEN t ELSE work
    BY <1>1
  <2>11. advanced(v) = [v EXCEPT !.next_report_step = st2, !.next_report_work = w2]
    <3>1. /\ v.total_work = t /\ v.resolution = Resolution /\ v.current_work = d
          /\ v.next_report_step = st
      BY <2>3
    <3> QED BY <2>6, <2>7, <2>8, <2>9, <2>10, <3>1, Zenon DEF advanced
  <2>12. advanced(v) = [total_work |-> t, resolution |-> Resolution, current_work |-> d,
                next_report_step |-> st2, next_report_work |-> w2, reports |-> qs, finished |-> f]
    BY <2>3, <2>11
  <2>13. d < t => w2 <= t
    BY <1>1, <2>10
  <2>14. advanced(v) \in Reporters
    BY <1>1, <2>2, <2>12 DEF Reporters
  <2>15. Told(advanced(v))
    BY <1>2, <1>3, <2>2, <2>12, <2>13, <2>14 DEF Told
  <2> QED BY <1>1, <1>3, <2>5, <2>12, <2>15
<1> QED BY <1>6, <1>7

\* Work that is complete has been reported, so that finish() adds nothing.
LEMMA FinishedTold ==
  ASSUME NEW r, Told(r), r.current_work >= r.total_work
  PROVE  LET p == Finished(r)
         IN  /\ Told(p) /\ p.total_work = r.total_work /\ p.current_work = r.current_work
             /\ p.finished /\ Last(p.reports) >= r.total_work
             /\ r.current_work = r.total_work => Last(p.reports) = r.total_work
PROOF
<1>1. PICK t, c, st, w, rs, f :
        /\ r = [total_work |-> t, resolution |-> Resolution, current_work |-> c,
                next_report_step |-> st, next_report_work |-> w, reports |-> rs, finished |-> f]
        /\ t \in Nat /\ c \in Nat /\ st \in Int /\ w \in Int /\ rs \in Seq(Nat) \ {<<>>}
        /\ f \in BOOLEAN
  BY DEF Told, Reporters
<1>2. c >= t /\ Growing(rs) /\ Last(rs) >= t /\ Last(rs) <= c /\ Last(rs) \in Nat
  <2>1. Last(rs) \in Nat
    BY <1>1 DEF Last
  <2> QED BY <1>1, <2>1 DEF Told
<1>b. PICK b : b = TRUE
  OBVIOUS
<1>3. PICK s : s = [total_work |-> t, resolution |-> Resolution, current_work |-> c,
                next_report_step |-> st, next_report_work |-> w, reports |-> rs, finished |-> b]
  OBVIOUS
<1>4. Finished(r) = s
  <2>1. r.reports = rs /\ ~(r.current_work < r.total_work)
    BY <1>1, <1>2
  <2>2. Finished(r) = [r EXCEPT !.reports = rs, !.finished = b]
    BY <1>b, <2>1, Zenon DEF Finished
  <2>3. r = [total_work |-> t, resolution |-> Resolution, current_work |-> c,
             next_report_step |-> st, next_report_work |-> w, reports |-> rs, finished |-> f]
    BY <1>1
  <2>4. PICK q : q = [r EXCEPT !.reports = rs]
    OBVIOUS
  <2>5. q = r
    BY <2>3, <2>4
  <2>6. [r EXCEPT !.reports = rs, !.finished = b] = [q EXCEPT !.finished = b]
    BY <2>3, <2>4
  <2>7. [r EXCEPT !.finished = b] = s
    BY <1>3, <2>3
  <2> QED BY <2>2, <2>5, <2>6, <2>7
<1>5. s \in Reporters
  BY <1>1, <1>3, <1>b DEF Reporters
<1>6. Told(s)
  BY <1>1, <1>2, <1>3, <1>5 DEF Told
<1> QED BY <1>1, <1>2, <1>3, <1>4, <1>6, <1>b

LEMMA Induction ==
  ASSUME NEW T \in SUBSET Nat, 0 \in T, \A n \in T : n + 1 \in T
  PROVE  T = Nat
PROOF
<1> SUFFICES ASSUME Nat \ T # {} PROVE FALSE
  OBVIOUS
<1>1. PICK x \in Nat \ T : \A y \in Nat \ T : ~(<<y, x>> \in OpToRel(<, Nat))
  BY NatLessThanWellFounded, WFMin, Zenon
<1>2. \A y \in Nat \ T : ~(y < x)
  BY <1>1 DEF OpToRel
<1>3. x # 0 /\ x - 1 \in Nat /\ x - 1 < x /\ (x - 1) + 1 = x
  OBVIOUS
<1>4. x - 1 \in T
  BY <1>2, <1>3
<1> QED BY <1>3, <1>4

-----------------------------------------------------------------------------
(* The buffers of a processor *)

BufferIndices == 1 .. NumberOfBuffers

SequenceNumber(b) == file[b].sequence_number

Descending(s) ==
  \A i, j \in 1 .. Len(s) : i < j => SequenceNumber(s[i]) > SequenceNumber(s[j])

FileOK == file \in [BufferIndices -> Buffers] /\ Recorded(file)

LEMMA BuffersFacts ==
  ASSUME FileOK, NEW b \in BufferIndices
  PROVE  /\ file[b].processor \in Processors
         /\ SequenceNumber(b) \in Nat
         /\ Len(file[b].payload) \in 1 .. MaxEvents
         /\ DOMAIN file[b].payload = 1 .. Len(file[b].payload)
         /\ \A i \in DOMAIN file[b].payload : Time(b, i) \in Nat
         /\ \A i, j \in DOMAIN file[b].payload : i < j => Time(b, i) <= Time(b, j)
         /\ \A c \in BufferIndices : SequenceNumber(b) = SequenceNumber(c) => b = c
PROOF
<1>1. file[b] \in Buffers
  BY DEF FileOK
<1>2. /\ file[b].processor \in Processors
      /\ file[b].sequence_number \in 1 .. NumberOfBuffers
      /\ file[b].payload \in Payloads
      /\ \A i, j \in DOMAIN file[b].payload : i < j => file[b].payload[i] <= file[b].payload[j]
  BY <1>1 DEF Buffers
<1>3. PICK n \in 1 .. MaxEvents : file[b].payload \in [1 .. n -> 1 .. MaxTime]
  BY <1>2 DEF Payloads
<1>4. MaxEvents \in Nat /\ MaxTime \in Nat /\ NumberOfBuffers \in Nat
  BY SizesAssumption
<1>5. Len(file[b].payload) = n
  BY <1>3, <1>4
<1>6. \A i \in DOMAIN file[b].payload : file[b].payload[i] \in Nat
  BY <1>3, <1>4
<1>7. \A c \in BufferIndices : file[b].sequence_number = file[c].sequence_number => b = c
  <2>1. DOMAIN file = BufferIndices
    BY DEF FileOK
  <2> QED BY <2>1 DEF FileOK, Recorded
<1> QED BY <1>2, <1>3, <1>4, <1>5, <1>6, <1>7 DEF SequenceNumber, Time

\* std::ranges::sort() puts the buffer that was written last first and drops none.
LEMMA SortedFacts ==
  ASSUME FileOK, NEW r \in Seq(BufferIndices)
  PROVE  /\ sorted(r) \in Seq(BufferIndices)
         /\ Range(sorted(r)) = Range(r)
         /\ Descending(sorted(r))
PROOF
<1> DEFINE S == Range(r)
      n == Cardinality(S)
      Above(b) == {c \in S : SequenceNumber(c) >= SequenceNumber(b)}
      rank == [b \in S |-> Cardinality(Above(b))]
<1>1. S \in SUBSET BufferIndices
  BY DEF Range
<1>2. IsFiniteSet(S) /\ n \in Nat
  <2>1. NumberOfBuffers \in Int /\ 1 \in Int
    BY SizesAssumption
  <2>2. IsFiniteSet(BufferIndices)
    BY <2>1, FS_Interval DEF BufferIndices
  <2> QED BY <1>1, <2>2, FS_Subset, FS_CardinalityType
<1>3. \A b \in S : SequenceNumber(b) \in Nat
  BY <1>1, BuffersFacts
<1>4. \A b \in S : b \in Above(b) /\ Above(b) \in SUBSET S
  BY <1>3
<1>5. ASSUME NEW b \in S
      PROVE  IsFiniteSet(Above(b)) /\ Cardinality(Above(b)) \in 1 .. n
  <2>1. IsFiniteSet(Above(b)) /\ Cardinality(Above(b)) <= n
    BY <1>2, <1>4, FS_Subset
  <2>2. Cardinality(Above(b)) \in Nat /\ Cardinality(Above(b)) # 0
    BY <1>4, <2>1, FS_CardinalityType, FS_EmptySet
  <2> QED BY <1>2, <2>1, <2>2
<1>6. ASSUME NEW b \in S, NEW c \in S, SequenceNumber(b) < SequenceNumber(c)
      PROVE  rank[b] > rank[c]
  <2>1. Above(c) \in SUBSET Above(b) /\ b \notin Above(c)
    BY <1>3, <1>6
  <2>2. Above(c) # Above(b)
    BY <1>4, <2>1
  <2>3. Cardinality(Above(c)) <= Cardinality(Above(b))
        /\ Cardinality(Above(c)) # Cardinality(Above(b))
    BY <1>5, <2>1, <2>2, FS_Subset
  <2>4. rank[b] = Cardinality(Above(b)) /\ rank[c] = Cardinality(Above(c))
    OBVIOUS
  <2>5. Cardinality(Above(b)) \in 1 .. n /\ Cardinality(Above(c)) \in 1 .. n
    BY <1>5
  <2> HIDE DEF Above, rank
  <2> QED BY <1>2, <2>3, <2>4, <2>5
<1>7. \A b, c \in S : b # c => SequenceNumber(b) < SequenceNumber(c) \/ SequenceNumber(c) < SequenceNumber(b)
  BY <1>1, BuffersFacts
<1>8. rank \in [S -> 1 .. n]
  BY <1>5
<1> HIDE DEF rank
<1>9. rank \in Injection(S, 1 .. n)
  <2>1. \A b, c \in S : b # c => rank[b] # rank[c]
    <3>1. \A b \in S : rank[b] \in Nat
      BY <1>2, <1>8
    <3> QED BY <1>6, <1>7, <3>1
  <2> HIDE DEF S, n
  <2> QED BY <1>8, <2>1 DEF Injection, IsInjective
<1>10. rank \in Surjection(S, 1 .. n)
  <2>1. IsFiniteSet(1 .. n) /\ Cardinality(1 .. n) = n
    BY <1>2, FS_Interval
  <2> HIDE DEF S
  <2>2. Cardinality(S) = Cardinality(1 .. n)
    BY <2>1
  <2> HIDE DEF n
  <2> QED BY <1>9, <2>1, <2>2, FS_Injection
<1>11. \A i \in 1 .. n : \E b \in S : rank[b] = i
  BY <1>10 DEF Surjection
<1> DEFINE q == [i \in 1 .. n |-> CHOOSE b \in S : rank[b] = i]
<1>12. \A i \in 1 .. n : q[i] \in S /\ rank[q[i]] = i
  BY <1>11
<1>13. q \in [1 .. n -> S]
  BY <1>12
<1> HIDE DEF q
<1>14. q \in SetToSeqs(S)
  <2>1. \A i, j \in 1 .. n : i # j => q[i] # q[j]
    BY <1>12
  <2> HIDE DEF S
  <2> QED BY <1>13, <2>1 DEF SetToSeqs
<1>15. \A i, j \in DOMAIN q : i < j => file[q[i]].sequence_number > file[q[j]].sequence_number
  <2>1. ASSUME NEW i \in 1 .. n, NEW j \in 1 .. n, i < j
        PROVE  SequenceNumber(q[i]) > SequenceNumber(q[j])
    <3>1. q[i] \in S /\ q[j] \in S /\ rank[q[i]] = i /\ rank[q[j]] = j
      BY <1>12
    <3>2. ~(rank[q[i]] > rank[q[j]]) /\ q[i] # q[j]
      BY <1>2, <2>1, <3>1
    <3>3. ~(SequenceNumber(q[i]) < SequenceNumber(q[j]))
      BY <1>6, <3>1, <3>2
    <3>4. SequenceNumber(q[j]) < SequenceNumber(q[i])
      BY <1>7, <3>1, <3>2, <3>3
    <3> QED BY <1>3, <3>1, <3>4
  <2>2. DOMAIN q = 1 .. n
    BY <1>13
  <2> HIDE DEF S, n
  <2> QED BY <2>1, <2>2 DEF SequenceNumber
<1>16. PICK w : /\ w = sorted(r) /\ w \in SetToSeqs(S)
                /\ \A i, j \in DOMAIN w : i < j =>
                     file[w[i]].sequence_number > file[w[j]].sequence_number
  <2> HIDE DEF S
  <2> QED BY <1>14, <1>15 DEF sorted, S
<1>17. w \in [1 .. n -> S] /\ \A i, j \in 1 .. n : i # j => w[i] # w[j]
  <2> HIDE DEF S
  <2> QED BY <1>16 DEF SetToSeqs
<1>18. w \in Seq(BufferIndices) /\ Len(w) = n /\ DOMAIN w = 1 .. n
  <2> HIDE DEF S, n
  <2> QED BY <1>1, <1>2, <1>17
<1>19. Range(w) = S
  <2>1. w \in Injection(1 .. n, S)
    BY <1>17 DEF Injection, IsInjective
  <2>2. Cardinality(1 .. n) = Cardinality(S)
    BY <1>2, FS_Interval
  <2>3. w \in Surjection(1 .. n, S)
    <3> HIDE DEF S, n
    <3> QED BY <1>2, <2>1, <2>2, FS_Injection
  <2>4. \A b \in S : \E i \in 1 .. n : w[i] = b
    BY <2>3 DEF Surjection
  <2> HIDE DEF S, n
  <2>5. \A b : b \in Range(w) <=> b \in S
    BY <1>17, <1>18, <2>4 DEF Range
  <2> QED BY <2>5
<1> HIDE DEF S, n
<1>20. Descending(w)
  BY <1>16, <1>18 DEF Descending, SequenceNumber
<1> QED BY <1>16, <1>18, <1>19, <1>20 DEF S

-----------------------------------------------------------------------------
(* The inductive invariant of EtlFile *)

\* Places of events in the file; those behind the last event of a buffer are empty.
Slots == BufferIndices \X (1 .. BufferSize)

BuffersOf(p) == {b \in BufferIndices : file[b].processor = p}
NextTime(p) == Time(current[p].buffer, current[p].offset + 1)
Queued(p) == \E e \in event_queue : e.processor_index = p

\* The processors whose first buffer was loaded if they have one, and those of them
\* of which there are events left.
Started(p) == pc = "loading" => p < processor_index
Active(p) == Queued(p) \/ (pc = "extracting" /\ processor_index = p)

Behind(p, s) ==
  \/ SequenceNumber(s[1]) < SequenceNumber(current[p].buffer)
  \/ s[1] = current[p].buffer /\ s[2] <= current[p].offset
Past(s) ==
  LET p == file[s[1]].processor
  IN  Started(p) /\ (Active(p) => Behind(p, s))
Accounted == {s \in Slots : Past(s)}

\* The total is not that of the buffers where their sizes do not fit into 32 bits.
WorkTold ==
  /\ Told(progress)
  /\ progress.total_work # 0 /\ progress.total_work <= NumberOfBuffers * BufferSize
  /\ progress.current_work <= NumberOfBuffers * BufferSize

EtlTyped ==
  /\ FileOK
  /\ pc \in {"open", "headers", "loading", "selecting", "extracting", "done", "failed", "canceled"}
  /\ buffer_index \in Nat /\ processor_index \in Nat
  /\ remaining_buffers \in [Processors -> Seq(BufferIndices)]
  /\ current \in [Processors -> [buffer : Nat, offset : Nat]]
  /\ delivered \in Seq(Slots)
  /\ WorkTold

DeliveredInOrder ==
  \A k, l \in DOMAIN delivered : k < l =>
    delivered[k] # delivered[l] /\ DeliveredTime(k) <= DeliveredTime(l)

BeforeLoading ==
  pc \in {"open", "headers"} =>
    /\ buffer_index \in BufferIndices /\ processor_index = 0
    /\ event_queue = {} /\ delivered = <<>> /\ progress.current_work = 0
    /\ \A p \in Processors : Range(remaining_buffers[p]) = {b \in BuffersOf(p) : b < buffer_index}

\* The processors that have not been loaded wait with all of their buffers.
WhileLoading ==
  pc = "loading" =>
    /\ processor_index \in Processors /\ delivered = <<>>
    /\ \A p \in Processors : p >= processor_index =>
         Range(remaining_buffers[p]) = BuffersOf(p) /\ ~Queued(p)

QueueRight ==
  \A e \in event_queue :
    /\ e.processor_index \in Processors
    /\ e = [next_event_time |-> NextTime(e.processor_index), processor_index |-> e.processor_index]

AtWork(p) ==
  LET b == current[p].buffer
  IN  /\ b \in BuffersOf(p)
      /\ current[p].offset + 1 \in DOMAIN file[b].payload
      /\ Range(remaining_buffers[p]) =
           {c \in BuffersOf(p) : SequenceNumber(c) > SequenceNumber(b)}
      /\ Descending(remaining_buffers[p])

\* No event is left that is earlier than one that was delivered.
TimesRight ==
  \A k \in DOMAIN delivered, p \in Processors : Active(p) => DeliveredTime(k) <= NextTime(p)

TopRight ==
  pc = "extracting" =>
    /\ processor_index \in Processors /\ ~Queued(processor_index)
    /\ \A e \in event_queue : NextTime(processor_index) <= e.next_event_time

WhileWorking ==
  pc \in {"loading", "selecting", "extracting"} =>
    /\ QueueRight
    /\ \A p \in Processors : Active(p) => AtWork(p)
    /\ Range(delivered) = Events \cap Accounted
    /\ progress.current_work = Cardinality(Accounted)
    /\ TimesRight
    /\ TopRight

WhenDone ==
  pc = "done" =>
    /\ Range(delivered) = Events
    /\ progress.current_work = NumberOfBuffers * BufferSize
    /\ Last(progress.reports) >= progress.total_work

EtlInv ==
  EtlTyped /\ DeliveredInOrder /\ BeforeLoading /\ WhileLoading /\ WhileWorking /\ WhenDone

LEMMA RangeAppend ==
  ASSUME NEW S, NEW s \in Seq(S), NEW x
  PROVE  Range(Append(s, x)) = Range(s) \cup {x}
PROOF
<1>1. PICK q : q = Append(s, x)
  OBVIOUS
<1>2. /\ DOMAIN q = 1 .. Len(s) + 1 /\ DOMAIN s = 1 .. Len(s) /\ Len(s) \in Nat
      /\ \A i \in 1 .. Len(s) : q[i] = s[i]
      /\ q[Len(s) + 1] = x
  BY <1>1
<1>3. ASSUME NEW y PROVE y \in Range(q) <=> y \in Range(s) \cup {x}
  <2>1. y \in Range(q) <=> \E i \in 1 .. Len(s) + 1 : q[i] = y
    BY <1>2 DEF Range
  <2>2. y \in Range(s) <=> \E i \in 1 .. Len(s) : s[i] = y
    BY <1>2 DEF Range
  <2>3. \A i : i \in 1 .. Len(s) + 1 <=> i \in 1 .. Len(s) \/ i = Len(s) + 1
    BY <1>2
  <2> QED BY <1>2, <2>1, <2>2, <2>3
<1> QED BY <1>1, <1>3

LEMMA FrontFacts ==
  ASSUME FileOK, NEW s \in Seq(BufferIndices), s # <<>>, Descending(s)
  PROVE  /\ Last(s) \in Range(s) /\ Last(s) \in BufferIndices
         /\ Front(s) \in Seq(BufferIndices) /\ Descending(Front(s))
         /\ Range(Front(s)) = {b \in Range(s) : SequenceNumber(b) > SequenceNumber(Last(s))}
PROOF
<1>1. Len(s) \in Nat \ {0} /\ DOMAIN s = 1 .. Len(s)
  OBVIOUS
<1>2. PICK q : q = Front(s)
  OBVIOUS
<1>3. /\ q \in Seq(BufferIndices) /\ Len(q) = Len(s) - 1 /\ DOMAIN q = 1 .. Len(s) - 1
      /\ \A i \in 1 .. Len(s) - 1 : q[i] = s[i]
  BY <1>1, <1>2 DEF Front
<1>4. Last(s) = s[Len(s)]
  BY DEF Last
<1>5. \A i \in 1 .. Len(s) : s[i] \in BufferIndices /\ SequenceNumber(s[i]) \in Nat
  BY <1>1, BuffersFacts
<1>6. \A i \in 1 .. Len(s) - 1 : SequenceNumber(s[i]) > SequenceNumber(s[Len(s)])
  BY <1>1 DEF Descending
<1>7. Descending(q)
  <2>1. \A i \in 1 .. Len(q) : i \in 1 .. Len(s) /\ q[i] = s[i]
    BY <1>1, <1>3
  <2> QED BY <2>1 DEF Descending
<1>8. ASSUME NEW b
      PROVE  b \in Range(q) <=> b \in {c \in Range(s) : SequenceNumber(c) > SequenceNumber(s[Len(s)])}
  <2>1. b \in Range(q) <=> \E i \in 1 .. Len(s) - 1 : s[i] = b
    BY <1>1, <1>3 DEF Range
  <2>2. b \in Range(s) <=> \E i \in 1 .. Len(s) : s[i] = b
    BY <1>1 DEF Range
  <2>3. \A i : i \in 1 .. Len(s) <=> i \in 1 .. Len(s) - 1 \/ i = Len(s)
    BY <1>1
  <2>4. ~(SequenceNumber(s[Len(s)]) > SequenceNumber(s[Len(s)]))
    BY <1>1, <1>5
  <2> QED BY <1>6, <2>1, <2>2, <2>3, <2>4
<1>9. s[Len(s)] \in Range(s) /\ s[Len(s)] \in BufferIndices
  BY <1>1, <1>5 DEF Range
<1> QED BY <1>2, <1>3, <1>4, <1>7, <1>8, <1>9

LEMMA SlotsFacts ==
  /\ IsFiniteSet(Slots) /\ Cardinality(Slots) = NumberOfBuffers * BufferSize
  /\ IsFiniteSet(Accounted) /\ Cardinality(Accounted) \in Nat
PROOF
<1>1. /\ IsFiniteSet(BufferIndices) /\ Cardinality(BufferIndices) = NumberOfBuffers
      /\ IsFiniteSet(1 .. BufferSize) /\ Cardinality(1 .. BufferSize) = BufferSize
  <2>1. NumberOfBuffers \in Nat \ {0} /\ BufferSize \in Nat
    BY SizesAssumption
  <2>2. 1 \in Int /\ NumberOfBuffers \in Int /\ BufferSize \in Int
    BY <2>1
  <2> QED BY <2>1, <2>2, FS_Interval DEF BufferIndices
<1>2. IsFiniteSet(Slots) /\ Cardinality(Slots) = NumberOfBuffers * BufferSize
  BY <1>1, FS_Product DEF Slots
<1>3. Accounted \in SUBSET Slots
  BY DEF Accounted
<1> QED BY <1>2, <1>3, FS_Subset, FS_CardinalityType

\* What is new of the accounted slots adds up with the others.
LEMMA SlotsAdded ==
  ASSUME NEW X \in SUBSET Slots, X \cap Accounted = {}
  PROVE  /\ Cardinality(Accounted \cup X) = Cardinality(Accounted) + Cardinality(X)
         /\ Cardinality(X) \in Nat
         /\ Cardinality(Accounted) + Cardinality(X) <= NumberOfBuffers * BufferSize
PROOF
<1>1. IsFiniteSet(X) /\ Cardinality(X) \in Nat
  BY SlotsFacts, FS_Subset, FS_CardinalityType
<1>2. Cardinality(Accounted \cup X) =
        Cardinality(Accounted) + Cardinality(X) - Cardinality(Accounted \cap X)
  BY <1>1, SlotsFacts, FS_Union
<1>3. Cardinality(Accounted \cap X) = 0
  <2>1. Accounted \cap X = {}
    OBVIOUS
  <2> QED BY <2>1, FS_EmptySet
<1>4. Cardinality(Accounted \cup X) = Cardinality(Accounted) + Cardinality(X)
  BY <1>1, <1>2, <1>3, SlotsFacts
<1>5. Accounted \cup X \in SUBSET Slots
  BY DEF Accounted
<1>6. Cardinality(Accounted \cup X) <= NumberOfBuffers * BufferSize
  BY <1>5, SlotsFacts, FS_Subset
<1> QED BY <1>1, <1>4, <1>6

LEMMA SlotsOfBuffer ==
  ASSUME NEW b, NEW i \in Nat, NEW j \in Nat, i <= j
  PROVE  Cardinality({b} \X (i .. j)) = j - i + 1
PROOF
<1>1. IsFiniteSet({b}) /\ Cardinality({b}) = 1
  BY FS_Singleton
<1>2. IsFiniteSet(i .. j) /\ Cardinality(i .. j) = j - i + 1
  BY FS_Interval
<1>3. PICK X, Y : X = {b} /\ Y = i .. j
  OBVIOUS
<1>4. PICK n \in Nat : n = j - i + 1
  OBVIOUS
<1>5. IsFiniteSet(X) /\ IsFiniteSet(Y) /\ Cardinality(X) = 1 /\ Cardinality(Y) = n
  BY <1>1, <1>2, <1>3, <1>4
<1>6. Cardinality(X \X Y) = Cardinality(X) * Cardinality(Y)
  BY <1>5, FS_Product
<1>7. 1 * n = n
  OBVIOUS
<1> QED BY <1>3, <1>4, <1>5, <1>6, <1>7

LEMMA EventsAre ==
  ASSUME FileOK
  PROVE  /\ Events \in SUBSET Slots
         /\ \A b, i : <<b, i>> \in Events <=> b \in BufferIndices /\ i \in DOMAIN file[b].payload
         /\ \A e \in Events : e = <<e[1], e[2]>>
PROOF
<1>1. DOMAIN file = BufferIndices
  BY DEF FileOK
<1>2. \A b, i : <<b, i>> \in Events <=> b \in BufferIndices /\ i \in DOMAIN file[b].payload
  BY <1>1 DEF Events
<1>3. \A e \in Events : e = <<e[1], e[2]>>
  BY DEF Events
<1>4. ASSUME NEW b \in BufferIndices, NEW i \in DOMAIN file[b].payload
      PROVE  <<b, i>> \in Slots
  <2>1. Len(file[b].payload) \in 1 .. MaxEvents /\ i \in 1 .. Len(file[b].payload)
    BY BuffersFacts
  <2>2. i \in 1 .. BufferSize
    BY <2>1, SizesAssumption
  <2> QED BY <2>2 DEF Slots
<1>5. ASSUME NEW e \in Events PROVE e \in Slots
  <2>1. e = <<e[1], e[2]>>
    BY <1>3
  <2>2. e[1] \in BufferIndices /\ e[2] \in DOMAIN file[e[1]].payload
    BY <1>2, <2>1
  <2>3. <<e[1], e[2]>> \in Slots
    BY <1>4, <2>2
  <2> QED BY <2>1, <2>3
<1> QED BY <1>2, <1>3, <1>5

-----------------------------------------------------------------------------
(* The steps of EtlFile before the events *)

LEMMA EtlStarts ==
  ASSUME Init PROVE EtlInv
PROOF
<1>1. FileOK
  BY DEF Init, FileOK, BufferIndices
<1>2. NumberOfBuffers \in Nat \ {0} /\ BufferSize \in Nat
  BY SizesAssumption
<1>3. NumberOfBuffers * BufferSize \in Nat
  BY <1>2
<1>4. WorkTold /\ progress.current_work = 0
  <2>1. PICK w \in Words : progress = Reporter(total_work(w), Resolution)
    BY DEF Init
  <2>2. PICK n \in Nat : n = NumberOfBuffers * BufferSize
    BY <1>3
  <2>3. w \in Nat \ {0} /\ n % w # 0
    BY <2>2, WordsAssumption
  <2>4. n % w \in Nat
    BY <2>3
  <2>5. PICK t \in Nat \ {0} : t = total_work(w) /\ t <= n
    BY <2>2, <2>3, <2>4, Remainder DEF total_work
  <2>6. Told(progress) /\ progress.total_work = t /\ progress.current_work = 0
    BY <2>1, <2>5, ReporterStarts
  <2> QED BY <2>2, <2>5, <2>6 DEF WorkTold
<1>5. EtlTyped
  <2>1. remaining_buffers \in [Processors -> Seq(BufferIndices)]
    BY DEF Init
  <2>2. current \in [Processors -> [buffer : Nat, offset : Nat]]
    BY DEF Init
  <2>3. delivered \in Seq(Slots) /\ buffer_index \in Nat /\ processor_index \in Nat
    BY DEF Init
  <2>4. pc = "open"
    BY DEF Init
  <2> QED BY <1>1, <1>4, <2>1, <2>2, <2>3, <2>4 DEF EtlTyped
<1>6. DeliveredInOrder
  <2>1. DOMAIN delivered = {}
    BY DEF Init
  <2> QED BY <2>1 DEF DeliveredInOrder
<1>7. BeforeLoading
  <2>1. ASSUME NEW p \in Processors
        PROVE  Range(remaining_buffers[p]) = {b \in BuffersOf(p) : b < buffer_index}
    <3>1. remaining_buffers[p] = <<>> /\ buffer_index = 1
      BY DEF Init
    <3>2. Range(<<>>) = {}
      BY DEF Range
    <3>3. \A b \in BuffersOf(p) : ~(b < 1)
      BY <1>2 DEF BuffersOf, BufferIndices
    <3> QED BY <3>1, <3>2, <3>3
  <2>2. buffer_index \in BufferIndices
    BY <1>2 DEF Init, BufferIndices
  <2> QED BY <1>4, <2>1, <2>2 DEF Init, BeforeLoading
<1>8. WhileLoading /\ WhileWorking /\ WhenDone
  BY DEF Init, WhileLoading, WhileWorking, WhenDone
<1> QED BY <1>5, <1>6, <1>7, <1>8 DEF EtlInv

\* process() is left by an exception or because of the token.
LEMMA EtlLeft ==
  ASSUME EtlInv, pc' \in {"failed", "canceled"}, FileOK', WorkTold',
         delivered' \in Seq(Slots), DeliveredInOrder',
         UNCHANGED <<buffer_index, processor_index, remaining_buffers, current>>
  PROVE  EtlInv'
PROOF
<1>1. EtlTyped'
  BY DEF EtlInv, EtlTyped
<1>2. BeforeLoading' /\ WhileLoading' /\ WhileWorking' /\ WhenDone'
  BY DEF BeforeLoading, WhileLoading, WhileWorking, WhenDone
<1> QED BY <1>1, <1>2 DEF EtlInv

LEMMA FileStays ==
  ASSUME UNCHANGED file, FileOK
  PROVE  /\ FileOK' /\ Events' = Events
         /\ \A b, i : Time(b, i)' = Time(b, i)
         /\ \A b : SequenceNumber(b)' = SequenceNumber(b)
         /\ \A p : BuffersOf(p)' = BuffersOf(p)
         /\ \A s : Descending(s)' = Descending(s)
PROOF
BY DEF FileOK, Events, Time, SequenceNumber, BuffersOf, Descending

LEMMA DeliveredStays ==
  ASSUME UNCHANGED <<file, delivered>>, DeliveredInOrder
  PROVE  DeliveredInOrder' /\ \A k : DeliveredTime(k)' = DeliveredTime(k)
PROOF
<1>1. \A k : DeliveredTime(k)' = DeliveredTime(k)
  BY DEF DeliveredTime, Time
<1>2. DeliveredInOrder'
  BY <1>1 DEF DeliveredInOrder
<1> QED BY <1>1, <1>2

LEMMA FailKeeps ==
  ASSUME EtlInv, Fail \/ Abandon
  PROVE  EtlInv'
PROOF
<1>1. /\ pc' \in {"failed", "canceled"}
      /\ UNCHANGED <<file, buffer_index, processor_index, remaining_buffers, current, progress, delivered>>
  BY DEF Fail, Abandon
<1>2. EtlTyped /\ DeliveredInOrder /\ FileOK
  BY DEF EtlInv, EtlTyped
<1>3. FileOK' /\ DeliveredInOrder'
  BY <1>1, <1>2, FileStays, DeliveredStays
<1>4. WorkTold' /\ delivered' \in Seq(Slots)
  BY <1>1, <1>2 DEF EtlTyped, WorkTold
<1> QED BY <1>1, <1>3, <1>4, EtlLeft

\* $/cancelRequest, or a step of the provider around this.
LEMMA EtlUnchanged ==
  ASSUME EtlInv,
         UNCHANGED <<file, pc, buffer_index, processor_index, remaining_buffers, current,
                     event_queue, progress, delivered>>
  PROVE  EtlInv'
PROOF
<1>1. EtlTyped /\ FileOK
  BY DEF EtlInv, EtlTyped
<1>2. FileOK' /\ DeliveredInOrder'
  BY <1>1, FileStays, DeliveredStays DEF EtlInv
<1>3. EtlTyped'
  BY <1>1, <1>2 DEF EtlTyped, WorkTold
<1>4. /\ \A p : /\ BuffersOf(p)' = BuffersOf(p) /\ Queued(p)' = Queued(p) /\ NextTime(p)' = NextTime(p)
                /\ Active(p)' = Active(p) /\ Started(p)' = Started(p)
      /\ \A b : SequenceNumber(b)' = SequenceNumber(b)
      /\ Events' = Events
  BY <1>1, FileStays DEF Queued, NextTime, Active, Started
<1>5. BeforeLoading'
  BY <1>4 DEF EtlInv, BeforeLoading
<1>6. WhileLoading'
  BY <1>4 DEF EtlInv, WhileLoading
<1>7. Accounted' = Accounted
  BY <1>4 DEF Accounted, Past, Behind
<1>8. QueueRight' = QueueRight
  BY <1>4 DEF QueueRight
<1>9. \A p : AtWork(p)' = AtWork(p)
  BY <1>4 DEF AtWork, Descending
<1>10. TimesRight' = TimesRight /\ TopRight' = TopRight
  <2>1. \A k : DeliveredTime(k)' = DeliveredTime(k)
    BY DEF DeliveredTime, Time
  <2> QED BY <1>4, <2>1 DEF TimesRight, TopRight
<1>11. WhileWorking'
  <2>1. WhileWorking
    BY DEF EtlInv
  <2> QED BY <1>4, <1>7, <1>8, <1>9, <1>10, <2>1 DEF WhileWorking
<1>12. WhenDone'
  BY <1>4 DEF EtlInv, WhenDone
<1> QED BY <1>2, <1>3, <1>5, <1>6, <1>11, <1>12 DEF EtlInv

LEMMA OpenKeeps ==
  ASSUME EtlInv, Open
  PROVE  EtlInv'
PROOF
<1>1. EtlTyped /\ FileOK /\ BeforeLoading
  BY DEF EtlInv, EtlTyped
<1>2. FileOK' /\ DeliveredInOrder'
  BY <1>1, FileStays, DeliveredStays DEF EtlInv, Open
<1>3. EtlTyped'
  BY <1>1, <1>2 DEF EtlTyped, WorkTold, Open
<1>4. \A p : BuffersOf(p)' = BuffersOf(p)
  BY <1>1, FileStays DEF Open
<1>5. BeforeLoading'
  BY <1>1, <1>4 DEF Open, BeforeLoading
<1>6. WhileLoading' /\ WhileWorking' /\ WhenDone'
  BY DEF Open, WhileLoading, WhileWorking, WhenDone
<1> QED BY <1>2, <1>3, <1>5, <1>6 DEF EtlInv

LEMMA ReadHeaderKeeps ==
  ASSUME EtlInv, ReadHeader
  PROVE  EtlInv'
PROOF
<1>0. NumberOfBuffers \in Nat \ {0} /\ NumberOfProcessors \in Nat \ {0}
  BY SizesAssumption
<1>1. EtlTyped /\ FileOK /\ BeforeLoading /\ pc = "headers"
  BY DEF EtlInv, EtlTyped, ReadHeader
<1>2. UNCHANGED <<file, processor_index, current, event_queue, progress, canceled, delivered>>
  BY DEF ReadHeader
<1>3. FileOK' /\ DeliveredInOrder'
  BY <1>1, <1>2, FileStays, DeliveredStays DEF EtlInv
<1>4. PICK h : h = file[buffer_index].processor
  OBVIOUS
<1>5. /\ buffer_index \in BufferIndices /\ processor_index = 0
      /\ event_queue = {} /\ delivered = <<>> /\ progress.current_work = 0
      /\ \A p \in Processors : Range(remaining_buffers[p]) = {b \in BuffersOf(p) : b < buffer_index}
  BY <1>1 DEF BeforeLoading
<1>6. h \in Processors
  BY <1>1, <1>4, <1>5, BuffersFacts
<1>7. /\ remaining_buffers' = [remaining_buffers EXCEPT ![h] = Append(remaining_buffers[h], buffer_index)]
      /\ buffer_index' = buffer_index + 1
      /\ pc' = IF buffer_index = NumberOfBuffers THEN "loading" ELSE "headers"
  BY <1>4 DEF ReadHeader
<1>8. \A p \in Processors : remaining_buffers[p] \in Seq(BufferIndices)
  BY <1>1 DEF EtlTyped
<1>9. PICK q \in Seq(BufferIndices) : q = Append(remaining_buffers[h], buffer_index)
  <2>1. buffer_index \in BufferIndices /\ remaining_buffers[h] \in Seq(BufferIndices)
    BY <1>5, <1>6, <1>8
  <2>2. Append(remaining_buffers[h], buffer_index) \in Seq(BufferIndices)
    BY <2>1
  <2> QED BY <2>2
<1>10. remaining_buffers' \in [Processors -> Seq(BufferIndices)]
  BY <1>1, <1>6, <1>7, <1>9 DEF EtlTyped
<1>11. EtlTyped'
  BY <1>0, <1>1, <1>2, <1>3, <1>5, <1>7, <1>10 DEF EtlTyped, WorkTold, BufferIndices
<1>12. \A p : BuffersOf(p)' = BuffersOf(p)
  BY <1>1, <1>2, FileStays
<1>13. ASSUME NEW p \in Processors
       PROVE  Range(remaining_buffers'[p]) = {b \in BuffersOf(p) : b < buffer_index + 1}
  <2>1. \A b \in BufferIndices : b < buffer_index + 1 <=> b < buffer_index \/ b = buffer_index
    BY <1>0, <1>5 DEF BufferIndices
  <2>2. \A b : b \in BuffersOf(p) <=> b \in BufferIndices /\ file[b].processor = p
    BY DEF BuffersOf
  <2>3. CASE p = h
    <3>1. remaining_buffers'[p] = Append(remaining_buffers[h], buffer_index)
      BY <1>1, <1>6, <1>7, <2>3 DEF EtlTyped
    <3>2. Range(remaining_buffers'[p]) = Range(remaining_buffers[h]) \cup {buffer_index}
      BY <1>6, <1>8, <3>1, RangeAppend
    <3>3. \A b : b \in Range(remaining_buffers'[p]) <=> b \in {c \in BuffersOf(p) : c < buffer_index + 1}
      BY <1>4, <1>5, <1>6, <2>1, <2>2, <2>3, <3>2
    <3> QED BY <3>3
  <2>4. CASE p # h
    <3>1. remaining_buffers'[p] = remaining_buffers[p]
      BY <1>1, <1>6, <1>7, <2>4 DEF EtlTyped
    <3>2. \A b \in BuffersOf(p) : b # buffer_index
      BY <1>4, <2>2, <2>4
    <3>3. \A b : b \in Range(remaining_buffers'[p]) <=> b \in {c \in BuffersOf(p) : c < buffer_index + 1}
      BY <1>5, <2>1, <2>2, <3>1, <3>2
    <3> QED BY <3>3
  <2> QED BY <2>3, <2>4
<1>14. BeforeLoading'
  <2>1. CASE pc' = "headers"
    <3>1. buffer_index' \in BufferIndices
      BY <1>0, <1>5, <1>7, <2>1 DEF BufferIndices
    <3> QED BY <1>2, <1>5, <1>7, <1>12, <1>13, <3>1 DEF BeforeLoading
  <2>2. CASE pc' = "loading"
    BY <2>2 DEF BeforeLoading
  <2> QED BY <1>7, <2>1, <2>2
<1>15. ~\E p : Queued(p)'
  BY <1>2, <1>5 DEF Queued
<1>16. WhileLoading'
  <2> SUFFICES ASSUME pc' = "loading" PROVE WhileLoading'
    BY DEF WhileLoading
  <2>1. buffer_index = NumberOfBuffers
    BY <1>7
  <2>2. processor_index' = 0 /\ 0 \in Processors
    BY <1>0, <1>2, <1>5 DEF Processors
  <2>3. ASSUME NEW p \in Processors
        PROVE  Range(remaining_buffers'[p]) = BuffersOf(p)
    <3>1. \A b \in BuffersOf(p) : b < buffer_index + 1
      BY <1>0, <2>1 DEF BuffersOf, BufferIndices
    <3> QED BY <1>13, <3>1
  <2> QED BY <1>2, <1>5, <1>12, <1>15, <2>2, <2>3 DEF WhileLoading
<1>17. WhileWorking'
  <2> SUFFICES ASSUME pc' = "loading" PROVE WhileWorking'
    BY <1>7 DEF WhileWorking
  <2>1. \A p : ~Active(p)'
    BY <1>15 DEF Active
  <2>2. QueueRight' /\ TimesRight' /\ TopRight'
    BY <1>2, <1>5, <2>1 DEF QueueRight, TimesRight, TopRight
  <2>3. Accounted' = {}
    <3>1. ASSUME NEW s \in Slots PROVE ~Past(s)'
      <4>1. s[1] \in BufferIndices
        BY DEF Slots
      <4>2. file[s[1]].processor \in Processors
        BY <1>1, <4>1, BuffersFacts
      <4>3. PICK p \in Nat : p = file'[s[1]].processor
        BY <1>0, <1>2, <4>2 DEF Processors
      <4>4. ~Started(p)'
        BY <1>2, <1>5, <4>3 DEF Started
      <4> QED BY <4>3, <4>4 DEF Past
    <3> QED BY <3>1 DEF Accounted
  <2>4. Range(delivered') = {}
    BY <1>2, <1>5 DEF Range
  <2>5. progress'.current_work = Cardinality(Accounted')
    BY <1>2, <1>5, <2>3, FS_EmptySet
  <2> QED BY <2>1, <2>2, <2>3, <2>4, <2>5 DEF WhileWorking
<1>18. WhenDone'
  BY <1>7 DEF WhenDone
<1> QED BY <1>3, <1>11, <1>14, <1>16, <1>17, <1>18 DEF EtlInv

\* A turn of the loop over the processors changes nothing for those before it.
LEMMA LoadingStep ==
  ASSUME EtlInv, pc = "loading", NEW p \in Processors, p = processor_index, FileOK',
         processor_index' = p + 1,
         pc' = IF p + 1 = NumberOfProcessors THEN "selecting" ELSE "loading",
         UNCHANGED <<file, buffer_index, progress, delivered>>,
         remaining_buffers' \in [Processors -> Seq(BufferIndices)],
         current' \in [Processors -> [buffer : Nat, offset : Nat]],
         \A q \in Processors : q # p =>
           remaining_buffers'[q] = remaining_buffers[q] /\ current'[q] = current[q],
         \A q \in Processors : q # p => Queued(q)' = Queued(q),
         QueueRight', Active(p)' => AtWork(p)',
         \A s \in Slots : file[s[1]].processor = p => ~Past(s)'
  PROVE  EtlInv'
PROOF
<1>0. NumberOfProcessors \in Nat \ {0} /\ p \in Nat /\ \A q \in Processors : q \in Nat
  BY SizesAssumption DEF Processors
<1>1. EtlTyped /\ FileOK /\ WhileLoading /\ WhileWorking
  BY DEF EtlInv, EtlTyped
<1>2. DeliveredInOrder'
  BY <1>1, DeliveredStays DEF EtlInv
<1>3. EtlTyped'
  BY <1>0, <1>1 DEF EtlTyped, WorkTold
<1>4. delivered = <<>> /\ \A q \in Processors : q >= processor_index =>
         Range(remaining_buffers[q]) = BuffersOf(q) /\ ~Queued(q)
  BY <1>1 DEF WhileLoading
<1>5. BeforeLoading' /\ WhenDone'
  BY DEF BeforeLoading, WhenDone
<1>6. /\ \A q : BuffersOf(q)' = BuffersOf(q)
      /\ \A b : SequenceNumber(b)' = SequenceNumber(b)
      /\ Events' = Events
  BY <1>1, FileStays
<1>7. WhileLoading'
  <2> SUFFICES ASSUME pc' = "loading" PROVE WhileLoading'
    BY DEF WhileLoading
  <2>1. processor_index' \in Processors
    BY <1>0 DEF Processors
  <2>2. ASSUME NEW q \in Processors, q >= p + 1
        PROVE  Range(remaining_buffers'[q]) = BuffersOf(q) /\ ~Queued(q)'
    <3>1. q # p /\ q >= processor_index
      BY <1>0, <2>2
    <3> QED BY <1>4, <3>1
  <2> QED BY <1>4, <1>6, <2>1, <2>2 DEF WhileLoading
<1>8. \A q \in Processors : q # p =>
        /\ Started(q)' = Started(q) /\ Active(q)' = Active(q)
        /\ NextTime(q)' = NextTime(q) /\ AtWork(q)' = AtWork(q)
  <2> SUFFICES ASSUME NEW q \in Processors, q # p
               PROVE  /\ Started(q)' = Started(q) /\ Active(q)' = Active(q)
                      /\ NextTime(q)' = NextTime(q) /\ AtWork(q)' = AtWork(q)
    OBVIOUS
  <2>1. Started(q)' = Started(q)
    <3>1. pc' = "selecting" => q < p
      BY <1>0 DEF Processors
    <3>2. q < p + 1 <=> q < p
      BY <1>0
    <3> QED BY <3>1, <3>2 DEF Started
  <2>2. Active(q)' = Active(q)
    BY DEF Active
  <2>3. NextTime(q)' = NextTime(q)
    BY DEF NextTime, Time
  <2>4. \A s : Descending(s)' = Descending(s)
    BY <1>1, FileStays
  <2>5. AtWork(q)' = AtWork(q)
    BY <1>6, <2>4 DEF AtWork
  <2> QED BY <2>1, <2>2, <2>3, <2>5
<1>9. Accounted' = Accounted
  <2>1. ASSUME NEW s \in Slots PROVE Past(s)' = Past(s)
    <3>1. s[1] \in BufferIndices
      BY DEF Slots
    <3>2. PICK q \in Processors : q = file[s[1]].processor
      BY <1>1, <3>1, BuffersFacts
    <3>3. CASE q = p
      <4>1. ~Past(s)'
        BY <3>2, <3>3
      <4>2. ~Started(p)
        BY <1>0 DEF Started
      <4> QED BY <3>2, <3>3, <4>1, <4>2 DEF Past
    <3>4. CASE q # p
      <4>1. Behind(q, s)' = Behind(q, s)
        BY <1>6, <3>4 DEF Behind
      <4> QED BY <1>8, <3>2, <3>4, <4>1 DEF Past
    <3> QED BY <3>3, <3>4
  <2> QED BY <2>1 DEF Accounted, Slots
<1>10. TimesRight'
  BY <1>4 DEF TimesRight
<1>11. TopRight'
  BY DEF TopRight
<1>12. \A q \in Processors : Active(q)' => AtWork(q)'
  BY <1>1, <1>8 DEF WhileWorking
<1>13. WhileWorking'
  BY <1>1, <1>6, <1>9, <1>10, <1>11, <1>12 DEF WhileWorking
<1> QED BY <1>2, <1>3, <1>5, <1>7, <1>13 DEF EtlInv

LEMMA SkipProcessorKeeps ==
  ASSUME EtlInv, SkipProcessor
  PROVE  EtlInv'
PROOF
<1>1. EtlTyped /\ FileOK /\ WhileLoading /\ WhileWorking /\ pc = "loading"
  BY DEF EtlInv, EtlTyped, SkipProcessor
<1>2. /\ UNCHANGED <<file, buffer_index, remaining_buffers, current, event_queue, progress, delivered>>
      /\ processor_index' = processor_index + 1
      /\ pc' = IF processor_index + 1 = NumberOfProcessors THEN "selecting" ELSE "loading"
      /\ remaining_buffers[processor_index] = <<>>
  BY DEF SkipProcessor
<1>3. PICK p \in Processors : p = processor_index
  BY <1>1 DEF WhileLoading
<1>4. p \in Nat
  BY SizesAssumption, <1>3 DEF Processors
<1>5. BuffersOf(p) = {} /\ ~Queued(p)
  <2>1. Range(<<>>) = {}
    BY DEF Range
  <2> QED BY <1>1, <1>2, <1>3, <1>4, <2>1 DEF WhileLoading
<1>6. FileOK'
  BY <1>1, <1>2, FileStays
<1>7. \A q : Queued(q)' = Queued(q)
  BY <1>2 DEF Queued
<1>8. QueueRight'
  <2>1. QueueRight
    BY <1>1 DEF WhileWorking
  <2>2. \A q : NextTime(q)' = NextTime(q)
    BY <1>2 DEF NextTime, Time
  <2> QED BY <1>2, <2>1, <2>2 DEF QueueRight
<1>9. ~Active(p)'
  BY <1>2, <1>5, <1>7 DEF Active
<1>10. \A s \in Slots : file[s[1]].processor # p
  BY <1>5 DEF BuffersOf, Slots
<1>11. remaining_buffers' \in [Processors -> Seq(BufferIndices)]
       /\ current' \in [Processors -> [buffer : Nat, offset : Nat]]
  BY <1>1, <1>2 DEF EtlTyped
<1> QED BY <1>1, <1>2, <1>3, <1>6, <1>7, <1>8, <1>9, <1>10, <1>11, LoadingStep

LEMMA LoadFirstKeeps ==
  ASSUME EtlInv, LoadFirst
  PROVE  EtlInv'
PROOF
<1>1. EtlTyped /\ FileOK /\ WhileLoading /\ WhileWorking /\ pc = "loading"
  BY DEF EtlInv, EtlTyped, LoadFirst
<1>2. PICK p \in Processors : p = processor_index
  BY <1>1 DEF WhileLoading
<1>3. PICK bs : bs = sorted(remaining_buffers[p])
  OBVIOUS
<1>4. /\ bs # <<>>
      /\ remaining_buffers' = [remaining_buffers EXCEPT ![p] = Front(bs)]
      /\ current' = [current EXCEPT ![p] = [buffer |-> Last(bs), offset |-> 0]]
      /\ event_queue' = event_queue \cup
           {[next_event_time |-> Time(Last(bs), 1), processor_index |-> p]}
      /\ processor_index' = p + 1
      /\ pc' = IF p + 1 = NumberOfProcessors THEN "selecting" ELSE "loading"
      /\ UNCHANGED <<file, buffer_index, progress, delivered>>
  BY <1>2, <1>3 DEF LoadFirst
<1>5. p \in Nat
  BY SizesAssumption, <1>2 DEF Processors
<1>6. Range(remaining_buffers[p]) = BuffersOf(p) /\ ~Queued(p)
  BY <1>1, <1>2, <1>5 DEF WhileLoading
<1>7. bs \in Seq(BufferIndices) /\ Range(bs) = BuffersOf(p) /\ Descending(bs)
  <2>1. remaining_buffers[p] \in Seq(BufferIndices)
    BY <1>1 DEF EtlTyped
  <2> QED BY <1>1, <1>3, <1>6, <2>1, SortedFacts
<1>8. PICK b, fs : b = Last(bs) /\ fs = Front(bs)
  OBVIOUS
<1>9. /\ b \in BuffersOf(p) /\ b \in BufferIndices
      /\ fs \in Seq(BufferIndices) /\ Descending(fs)
      /\ Range(fs) = {c \in BuffersOf(p) : SequenceNumber(c) > SequenceNumber(b)}
  BY <1>1, <1>4, <1>7, <1>8, FrontFacts
<1>10. PICK c : c = [buffer |-> b, offset |-> 0]
  OBVIOUS
<1>11. c \in [buffer : Nat, offset : Nat] /\ c.buffer = b /\ c.offset = 0
  <2>1. b \in Nat
    BY <1>9, SizesAssumption DEF BufferIndices
  <2> QED BY <1>10, <2>1
<1>12. /\ remaining_buffers' \in [Processors -> Seq(BufferIndices)]
       /\ remaining_buffers'[p] = fs
       /\ \A q \in Processors : q # p => remaining_buffers'[q] = remaining_buffers[q]
  BY <1>1, <1>4, <1>8, <1>9 DEF EtlTyped
<1>13. /\ current' \in [Processors -> [buffer : Nat, offset : Nat]]
       /\ current'[p] = c
       /\ \A q \in Processors : q # p => current'[q] = current[q]
  <2>1. current' = [current EXCEPT ![p] = c]
    BY <1>4, <1>8, <1>10
  <2>2. current \in [Processors -> [buffer : Nat, offset : Nat]]
    BY <1>1 DEF EtlTyped
  <2> QED BY <1>11, <2>1, <2>2
<1>14. /\ FileOK' /\ \A q : BuffersOf(q)' = BuffersOf(q)
       /\ \A d : SequenceNumber(d)' = SequenceNumber(d)
       /\ \A s : Descending(s)' = Descending(s)
  BY <1>1, <1>4, FileStays
<1>15. PICK n : n = [next_event_time |-> Time(b, 1), processor_index |-> p]
  OBVIOUS
<1>16. n.processor_index = p /\ n.next_event_time = Time(b, 1) /\ event_queue' = event_queue \cup {n}
  BY <1>4, <1>8, <1>15
<1>17. Queued(p)' /\ \A q : q # p => Queued(q)' = Queued(q)
  BY <1>16 DEF Queued
<1>18. NextTime(p)' = Time(b, 1) /\ \A q \in Processors : q # p => NextTime(q)' = NextTime(q)
  BY <1>4, <1>11, <1>13 DEF NextTime, Time
<1>19. QueueRight'
  <2>1. ASSUME NEW e \in event_queue'
        PROVE  /\ e.processor_index \in Processors
               /\ e = [next_event_time |-> NextTime(e.processor_index)', processor_index |-> e.processor_index]
    <3>1. CASE e = n
      BY <1>15, <1>16, <1>18, <3>1
    <3>2. CASE e \in event_queue
      <4>1. e.processor_index # p
        BY <1>6, <3>2 DEF Queued
      <4>2. /\ e.processor_index \in Processors
            /\ e = [next_event_time |-> NextTime(e.processor_index), processor_index |-> e.processor_index]
        BY <1>1, <3>2 DEF WhileWorking, QueueRight
      <4> QED BY <1>18, <4>1, <4>2
    <3> QED BY <1>16, <2>1, <3>1, <3>2
  <2> QED BY <2>1 DEF QueueRight
<1>20. AtWork(p)'
  <2>1. c.offset + 1 \in DOMAIN file[b].payload
    BY <1>1, <1>9, <1>11, BuffersFacts
  <2> QED BY <1>4, <1>9, <1>11, <1>12, <1>13, <1>14, <2>1 DEF AtWork
<1>21. ASSUME NEW s \in Slots, file[s[1]].processor = p
       PROVE  ~Past(s)'
  <2>1. s[1] \in BuffersOf(p) /\ s[2] \in Nat /\ s[2] > 0
    BY <1>21, SizesAssumption DEF Slots, BuffersOf
  <2>2. s[1] \in Range(bs)
    BY <1>7, <2>1
  <2>3. ~(SequenceNumber(s[1]) < SequenceNumber(b))
    <3>1. s[1] \in BufferIndices /\ SequenceNumber(s[1]) \in Nat /\ SequenceNumber(b) \in Nat
      BY <1>1, <1>9, <2>1, BuffersFacts DEF BuffersOf
    <3>2. s[1] = b \/ s[1] \in Range(fs)
      <4>1. PICK i \in 1 .. Len(bs) : bs[i] = s[1]
        BY <1>7, <2>2 DEF Range
      <4>2. CASE i = Len(bs)
        BY <1>8, <4>1, <4>2 DEF Last
      <4>3. CASE i < Len(bs)
        <5>1. SequenceNumber(bs[i]) > SequenceNumber(bs[Len(bs)])
          BY <1>7, <4>1, <4>3 DEF Descending
        <5> QED BY <1>8, <1>9, <2>1, <4>1, <5>1 DEF Last
      <4> QED BY <1>7, <4>1, <4>2, <4>3
    <3> QED BY <1>9, <3>1, <3>2
  <2>4. ~(s[2] <= 0)
    BY <2>1
  <2>5. ~Behind(p, s)'
    BY <1>11, <1>13, <1>14, <2>3, <2>4 DEF Behind
  <2>6. Active(p)'
    BY <1>17 DEF Active
  <2> QED BY <1>4, <1>21, <2>5, <2>6 DEF Past
<1> QED BY <1>1, <1>2, <1>4, <1>12, <1>13, <1>14, <1>17, <1>19, <1>20, <1>21, LoadingStep

-----------------------------------------------------------------------------
(* The steps of EtlFile that hand over events *)

LEMMA SelectKeeps ==
  ASSUME EtlInv, Select
  PROVE  EtlInv'
PROOF
<1>1. EtlTyped /\ FileOK /\ WhileWorking /\ pc = "selecting" /\ pc' = "extracting"
  BY DEF EtlInv, EtlTyped, Select
<1>2. PICK e \in event_queue : /\ IsTop(e) /\ processor_index' = e.processor_index
                               /\ event_queue' = event_queue \ {e}
  BY DEF Select
<1>3. UNCHANGED <<file, buffer_index, remaining_buffers, current, progress, delivered>>
  BY DEF Select
<1>4. QueueRight
  BY <1>1 DEF WhileWorking
<1>5. PICK p \in Processors : /\ p = e.processor_index
                              /\ e = [next_event_time |-> NextTime(p), processor_index |-> p]
  BY <1>2, <1>4 DEF QueueRight
<1>6. p \in Nat
  BY SizesAssumption DEF Processors
<1>7. FileOK' /\ DeliveredInOrder' /\ \A k : DeliveredTime(k)' = DeliveredTime(k)
  BY <1>1, <1>3, FileStays, DeliveredStays DEF EtlInv
<1>8. EtlTyped'
  BY <1>1, <1>2, <1>3, <1>5, <1>6, <1>7 DEF EtlTyped, WorkTold
<1>9. BeforeLoading' /\ WhileLoading' /\ WhenDone'
  BY <1>1 DEF BeforeLoading, WhileLoading, WhenDone
<1>10. /\ \A q : BuffersOf(q)' = BuffersOf(q) /\ NextTime(q)' = NextTime(q)
       /\ \A b : SequenceNumber(b)' = SequenceNumber(b)
       /\ \A s : Descending(s)' = Descending(s)
       /\ Events' = Events
  BY <1>1, <1>3, FileStays DEF NextTime
<1>11. QueueRight'
  BY <1>2, <1>4, <1>10 DEF QueueRight
<1>12. \A f \in event_queue : f.processor_index = p => f = e
  BY <1>4, <1>5 DEF QueueRight
<1>13. ~Queued(p)'
  BY <1>2, <1>12 DEF Queued
<1>14. \A q : q # p => Queued(q)' = Queued(q)
  BY <1>2, <1>5 DEF Queued
<1>15. \A q : Active(q)' = Active(q) /\ Started(q)' /\ Started(q)
  <2>1. Queued(p)
    BY <1>2, <1>5 DEF Queued
  <2>2. processor_index' = p
    BY <1>2, <1>5
  <2>3. \A q : Active(q) = Queued(q)
    BY <1>1 DEF Active, Queued
  <2>4. Active(p)' = TRUE
    BY <1>1, <2>2 DEF Active
  <2>5. \A q : q # p => Active(q)' = Queued(q)
    BY <1>1, <1>14, <2>2 DEF Active, Queued
  <2>6. Active(p) = TRUE
    BY <2>1 DEF Active
  <2>7. \A q : Active(q)' = Active(q)
    BY <2>3, <2>4, <2>5, <2>6
  <2> QED BY <1>1, <2>7 DEF Started
<1>16. Accounted' = Accounted
  BY <1>3, <1>10, <1>15 DEF Accounted, Slots, Past, Behind
<1>17. ASSUME NEW q \in Processors, Active(q)' PROVE AtWork(q)'
  <2>1. AtWork(q)
    BY <1>1, <1>15, <1>17 DEF WhileWorking
  <2> QED BY <1>3, <1>10, <2>1 DEF AtWork
<1>18. TimesRight'
  <2>1. TimesRight
    BY <1>1 DEF WhileWorking
  <2> QED BY <1>3, <1>7, <1>10, <1>15, <2>1 DEF TimesRight
<1>19. TopRight'
  <2>1. ASSUME NEW f \in event_queue' PROVE NextTime(p) <= f.next_event_time
    BY <1>2, <1>5, <2>1 DEF IsTop
  <2> QED BY <1>2, <1>5, <1>10, <1>13, <2>1 DEF TopRight
<1>20. WhileWorking'
  BY <1>1, <1>3, <1>10, <1>11, <1>16, <1>17, <1>18, <1>19 DEF WhileWorking
<1> QED BY <1>7, <1>8, <1>9, <1>20 DEF EtlInv

\* The processor of which events are extracted is at one that was not delivered.
LEMMA ExtractingFacts ==
  ASSUME EtlInv, pc = "extracting"
  PROVE  LET p == processor_index
             b == current[p].buffer
             o == current[p].offset
         IN  /\ p \in Processors /\ AtWork(p) /\ Active(p) /\ ~Queued(p)
             /\ b \in BufferIndices /\ o \in Nat
             /\ o + 1 \in 1 .. Len(file[b].payload) /\ Len(file[b].payload) \in Nat
             /\ Len(file[b].payload) < BufferSize
             /\ <<b, o + 1>> \in Events
             /\ \A i \in o + 1 .. BufferSize : <<b, i>> \in Slots /\ <<b, i>> \notin Accounted
             /\ NextTime(p) = Time(b, o + 1) /\ NextTime(p) \in Nat
PROOF
<1>1. EtlTyped /\ FileOK /\ WhileWorking
  BY DEF EtlInv, EtlTyped
<1>2. PICK p \in Processors : p = processor_index
  BY <1>1 DEF WhileWorking, TopRight
<1>3. Active(p) /\ AtWork(p) /\ ~Queued(p)
  <2>1. Active(p)
    BY <1>2 DEF Active
  <2> QED BY <1>1, <1>2, <2>1 DEF WhileWorking, TopRight
<1>4. PICK b, o : b = current[p].buffer /\ o = current[p].offset
  OBVIOUS
<1>5. o \in Nat /\ b \in BufferIndices /\ b \in BuffersOf(p) /\ o + 1 \in DOMAIN file[b].payload
  BY <1>1, <1>3, <1>4 DEF EtlTyped, AtWork, BuffersOf
<1>6. /\ Len(file[b].payload) \in 1 .. MaxEvents
      /\ DOMAIN file[b].payload = 1 .. Len(file[b].payload)
      /\ Time(b, o + 1) \in Nat /\ SequenceNumber(b) \in Nat
  BY <1>1, <1>5, BuffersFacts
<1>7. Len(file[b].payload) \in Nat /\ Len(file[b].payload) < BufferSize
  BY <1>6, SizesAssumption
<1>8. <<b, o + 1>> \in Events
  BY <1>1, <1>5, EventsAre
<1>9. ASSUME NEW i \in o + 1 .. BufferSize PROVE <<b, i>> \in Slots /\ <<b, i>> \notin Accounted
  <2>1. i \in 1 .. BufferSize /\ ~(i <= o)
    BY <1>5, SizesAssumption
  <2>2. <<b, i>> \in Slots
    BY <1>5, <2>1 DEF Slots
  <2>3. ~Behind(p, <<b, i>>)
    BY <1>4, <1>6, <2>1 DEF Behind
  <2>4. file[b].processor = p
    BY <1>5 DEF BuffersOf
  <2>5. ~Past(<<b, i>>)
    BY <1>3, <2>3, <2>4 DEF Past
  <2> QED BY <2>2, <2>5 DEF Accounted
<1>10. NextTime(p) = Time(b, o + 1)
  BY <1>4 DEF NextTime
<1> QED BY <1>2, <1>3, <1>4, <1>5, <1>6, <1>7, <1>8, <1>9, <1>10

LEMMA Delivering ==
  ASSUME EtlInv, pc = "extracting", Deliver(processor_index), UNCHANGED file
  PROVE  LET p == processor_index
         IN  /\ delivered' \in Seq(Slots) /\ DeliveredInOrder'
             /\ Range(delivered') = Range(delivered) \cup {<<current[p].buffer, current[p].offset + 1>>}
             /\ \A k \in DOMAIN delivered' :
                  DeliveredTime(k)' \in Nat /\ DeliveredTime(k)' <= NextTime(p)
PROOF
<1>1. EtlTyped /\ FileOK /\ WhileWorking /\ DeliveredInOrder /\ delivered \in Seq(Slots)
  BY DEF EtlInv, EtlTyped
<1>2. PICK p, e : p = processor_index /\ e = <<current[p].buffer, current[p].offset + 1>>
  OBVIOUS
<1>3. /\ p \in Processors /\ Active(p) /\ e \in Events /\ e \in Slots /\ e \notin Accounted
      /\ NextTime(p) = Time(e[1], e[2]) /\ NextTime(p) \in Nat
  <2>1. PICK b, o : b = current[p].buffer /\ o = current[p].offset
    OBVIOUS
  <2>2. /\ p \in Processors /\ Active(p) /\ <<b, o + 1>> \in Events
        /\ o \in Nat /\ o + 1 <= Len(file[b].payload) /\ Len(file[b].payload) \in Nat
        /\ Len(file[b].payload) < BufferSize
        /\ \A i \in o + 1 .. BufferSize : <<b, i>> \in Slots /\ <<b, i>> \notin Accounted
        /\ NextTime(p) = Time(b, o + 1) /\ NextTime(p) \in Nat
    BY <1>2, <2>1, ExtractingFacts
  <2>3. o + 1 \in o + 1 .. BufferSize
    BY <2>2, SizesAssumption
  <2> QED BY <1>2, <2>1, <2>2, <2>3
<1>4. delivered' = Append(delivered, e)
  BY <1>2 DEF Deliver
<1>n. PICK m \in Nat : m = Len(delivered)
  BY <1>1
<1>5. /\ delivered' \in Seq(Slots)
      /\ DOMAIN delivered = 1 .. m /\ DOMAIN delivered' = 1 .. m + 1
      /\ \A k \in 1 .. m : delivered'[k] = delivered[k]
      /\ delivered'[m + 1] = e
  BY <1>1, <1>3, <1>4, <1>n
<1>6. Range(delivered') = Range(delivered) \cup {e}
  BY <1>1, <1>4, RangeAppend
<1>7. \A k \in 1 .. m : DeliveredTime(k)' = DeliveredTime(k)
  BY <1>5 DEF DeliveredTime, Time
<1>8. DeliveredTime(m + 1)' = NextTime(p)
  BY <1>3, <1>5 DEF DeliveredTime, Time
<1>9. ASSUME NEW k \in 1 .. m
      PROVE  DeliveredTime(k) \in Nat /\ DeliveredTime(k) <= NextTime(p) /\ delivered[k] # e
  <2>1. delivered[k] \in Range(delivered) /\ k \in DOMAIN delivered
    BY <1>5 DEF Range
  <2>2. delivered[k] \in Events /\ delivered[k] \in Accounted
    BY <1>1, <2>1 DEF WhileWorking
  <2>3. delivered[k][1] \in BufferIndices /\ delivered[k][2] \in DOMAIN file[delivered[k][1]].payload
    BY <1>1, <2>2, EventsAre
  <2>4. DeliveredTime(k) \in Nat
    BY <1>1, <2>3, BuffersFacts DEF DeliveredTime
  <2>5. TimesRight
    BY <1>1 DEF WhileWorking
  <2>6. DeliveredTime(k) <= NextTime(p)
    BY <1>3, <2>1, <2>5 DEF TimesRight
  <2> QED BY <1>3, <2>2, <2>4, <2>6
<1>10. ASSUME NEW k \in DOMAIN delivered'
       PROVE  DeliveredTime(k)' \in Nat /\ DeliveredTime(k)' <= NextTime(p)
  <2>1. k \in 1 .. m \/ k = m + 1
    BY <1>5
  <2> QED BY <1>3, <1>7, <1>8, <1>9, <2>1
<1>11. ASSUME NEW k \in DOMAIN delivered', NEW l \in DOMAIN delivered', k < l
       PROVE  delivered'[k] # delivered'[l] /\ DeliveredTime(k)' <= DeliveredTime(l)'
  <2>1. k \in 1 .. m /\ (l \in 1 .. m \/ l = m + 1)
    BY <1>5, <1>11
  <2>2. CASE l \in 1 .. m
    <3>1. delivered[k] # delivered[l] /\ DeliveredTime(k) <= DeliveredTime(l)
      BY <1>1, <1>5, <1>11, <2>1, <2>2 DEF DeliveredInOrder
    <3> QED BY <1>5, <1>7, <2>1, <2>2, <3>1
  <2>3. CASE l = m + 1
    BY <1>5, <1>7, <1>8, <1>9, <2>1, <2>3
  <2> QED BY <2>1, <2>2, <2>3
<1>12. DeliveredInOrder'
  BY <1>11 DEF DeliveredInOrder
<1> QED BY <1>2, <1>5, <1>6, <1>10, <1>12

\* What an event accounts for: its place, and with the last of a buffer the rest of it.
NewlyAccounted(exhausted) ==
  LET c == current[processor_index]
  IN  {c.buffer} \X (c.offset + 1 .. IF exhausted THEN BufferSize ELSE c.offset + 1)

LEMMA EventProgress ==
  ASSUME EtlInv, pc = "extracting", NEW ex \in BOOLEAN,
         progress' = event_progress(processor_index, ex)
  PROVE  /\ WorkTold'
         /\ progress'.current_work = Cardinality(Accounted \cup NewlyAccounted(ex))
PROOF
<1>1. EtlTyped /\ WhileWorking
  BY DEF EtlInv, EtlTyped
<1>2. PICK b, o : b = current[processor_index].buffer /\ o = current[processor_index].offset
  OBVIOUS
<1>3. /\ o \in Nat /\ BufferSize \in Nat /\ o + 1 < BufferSize
      /\ \A i \in o + 1 .. BufferSize : <<b, i>> \in Slots /\ <<b, i>> \notin Accounted
  <2>1. /\ o \in Nat /\ o + 1 \in 1 .. Len(file[b].payload) /\ Len(file[b].payload) \in Nat
        /\ Len(file[b].payload) < BufferSize
        /\ \A i \in o + 1 .. BufferSize : <<b, i>> \in Slots /\ <<b, i>> \notin Accounted
    BY <1>2, ExtractingFacts
  <2> QED BY <2>1, SizesAssumption
<1>4. PICK last \in Nat : last = IF ex THEN BufferSize ELSE o + 1
  BY <1>3
<1>5. o + 1 <= last /\ last <= BufferSize
  BY <1>3, <1>4
<1>6. PICK X : X = {b} \X (o + 1 .. last)
  OBVIOUS
<1>7. NewlyAccounted(ex) = X
  BY <1>2, <1>4, <1>6 DEF NewlyAccounted
<1>8. X \in SUBSET Slots /\ X \cap Accounted = {}
  <2>1. ASSUME NEW x \in X PROVE x \in Slots /\ x \notin Accounted
    <3>1. x[1] = b /\ x[2] \in o + 1 .. last /\ x = <<x[1], x[2]>>
      BY <1>6
    <3>2. x[2] \in o + 1 .. BufferSize
      BY <1>3, <1>5, <3>1
    <3>3. <<b, x[2]>> \in Slots /\ <<b, x[2]>> \notin Accounted
      BY <1>3, <3>2
    <3> QED BY <3>1, <3>3
  <2> QED BY <2>1
<1>9. Cardinality(X) = last - o
  <2>1. PICK i \in Nat : i = o + 1
    BY <1>3
  <2>2. Cardinality(X) = last - i + 1
    BY <1>5, <1>6, <2>1, SlotsOfBuffer
  <2> QED BY <1>3, <2>1, <2>2
<1>10. PICK w, t : w = progress.current_work /\ t = progress.total_work
  OBVIOUS
<1>11. /\ w = Cardinality(Accounted) /\ w \in Nat /\ t \in Nat \ {0}
       /\ t <= NumberOfBuffers * BufferSize /\ Told(progress)
  <2>1. w = Cardinality(Accounted) /\ t # 0 /\ t <= NumberOfBuffers * BufferSize /\ Told(progress)
    BY <1>1, <1>10 DEF WhileWorking, EtlTyped, WorkTold
  <2>2. t \in Nat
    BY <1>10, <2>1 DEF Told, Reporters
  <2> QED BY <2>1, <2>2, SlotsFacts
<1>12. w + (last - o) <= NumberOfBuffers * BufferSize /\ Cardinality(Accounted \cup X) = w + (last - o)
  BY <1>8, <1>9, <1>11, SlotsAdded
<1>13. PICK r : r = Progressed(progress, 1)
  OBVIOUS
<1>14. Told(r) /\ r.total_work = t /\ r.current_work = w + 1
  <2>1. 1 \in Nat \ {0}
    OBVIOUS
  <2> QED BY <1>10, <1>11, <1>13, <2>1, ProgressedTold
<1>15. CASE ~ex
  <2>1. progress' = r
    BY <1>13, <1>15 DEF event_progress
  <2>2. w + 1 = w + (last - o)
    BY <1>3, <1>4, <1>11, <1>15
  <2>3. WorkTold'
    BY <1>11, <1>12, <1>14, <2>1, <2>2, Zenon DEF WorkTold
  <2> QED BY <1>7, <1>12, <1>14, <2>1, <2>2, <2>3
<1>16. CASE ex
  <2>1. PICK n \in Nat \ {0} : n = BufferSize - (o + 1)
    <3>1. BufferSize - (o + 1) \in Nat \ {0}
      BY <1>3
    <3> QED BY <3>1
  <2>2. progress' = Progressed(r, n)
    BY <1>2, <1>13, <1>16, <2>1 DEF event_progress
  <2>3. w + 1 + n = w + (last - o)
    BY <1>3, <1>4, <1>11, <1>16, <2>1
  <2>4. r.total_work # 0
    BY <1>11, <1>14
  <2>5. /\ Told(progress') /\ progress'.total_work = r.total_work
        /\ progress'.current_work = r.current_work + n
    BY <1>14, <2>2, <2>4, ProgressedTold
  <2>6. progress'.current_work = w + (last - o)
    BY <1>14, <2>3, <2>5
  <2>7. WorkTold'
    BY <1>11, <1>12, <1>14, <2>4, <2>5, <2>6, Zenon DEF WorkTold
  <2> QED BY <1>7, <1>12, <2>6, <2>7
<1> QED BY <1>15, <1>16

LEMMA NewlyFacts ==
  ASSUME EtlInv, pc = "extracting", NEW ex \in BOOLEAN, ex <=> Exhausted(processor_index)
  PROVE  LET p == processor_index
         IN  /\ \A s \in NewlyAccounted(ex) : s \in Slots /\ file[s[1]].processor = p
             /\ Events \cap NewlyAccounted(ex) = {<<current[p].buffer, current[p].offset + 1>>}
PROOF
<1>1. FileOK
  BY DEF EtlInv, EtlTyped
<1>2. PICK p, b, o : p = processor_index /\ b = current[p].buffer /\ o = current[p].offset
  OBVIOUS
<1>3. PICK n : n = Len(file[b].payload)
  OBVIOUS
<1>4. /\ b \in BuffersOf(p) /\ b \in BufferIndices /\ o \in Nat /\ n \in Nat
      /\ o + 1 <= n /\ n < BufferSize /\ BufferSize \in Nat
      /\ <<b, o + 1>> \in Events
      /\ \A i \in o + 1 .. BufferSize : <<b, i>> \in Slots
  <2>1. /\ AtWork(p) /\ b \in BufferIndices /\ o \in Nat /\ o + 1 \in 1 .. n /\ n \in Nat
        /\ n < BufferSize /\ <<b, o + 1>> \in Events
        /\ \A i \in o + 1 .. BufferSize : <<b, i>> \in Slots
    BY <1>2, <1>3, ExtractingFacts
  <2> QED BY <1>2, <2>1, SizesAssumption DEF AtWork
<1>5. PICK last \in Nat : last = IF ex THEN BufferSize ELSE o + 1
  BY <1>4
<1>6. NewlyAccounted(ex) = {b} \X (o + 1 .. last)
  BY <1>2, <1>5 DEF NewlyAccounted
<1>7. ASSUME NEW s \in NewlyAccounted(ex) PROVE s \in Slots /\ file[s[1]].processor = p
  <2>1. s[1] = b /\ s[2] \in o + 1 .. last /\ s = <<s[1], s[2]>>
    BY <1>6
  <2>2. s[2] \in o + 1 .. BufferSize
    BY <1>4, <1>5, <2>1
  <2>3. <<b, s[2]>> \in Slots
    BY <1>4, <2>2
  <2> QED BY <1>4, <2>1, <2>3 DEF BuffersOf
<1>8. <<b, o + 1>> \in NewlyAccounted(ex)
  <2>1. o + 1 \in o + 1 .. last
    BY <1>4, <1>5
  <2> QED BY <1>6, <2>1
<1>9. ex => o + 1 = n
  <2>1. Exhausted(p) <=> o + 1 >= n
    BY <1>2, <1>3 DEF Exhausted
  <2> QED BY <1>2, <1>4, <2>1
<1>10. ASSUME NEW e \in Events, e \in NewlyAccounted(ex) PROVE e = <<b, o + 1>>
  <2>1. e[1] = b /\ e[2] \in o + 1 .. last /\ e = <<e[1], e[2]>>
    BY <1>6, <1>10
  <2>2. e[2] \in 1 .. n
    <3>1. <<e[1], e[2]>> \in Events
      BY <2>1
    <3>2. e[2] \in DOMAIN file[b].payload
      BY <1>1, <2>1, <3>1, EventsAre
    <3> QED BY <1>1, <1>3, <1>4, <3>2, BuffersFacts
  <2>3. e[2] = o + 1
    BY <1>4, <1>5, <1>9, <2>1, <2>2
  <2> QED BY <2>1, <2>3
<1>11. ASSUME NEW e PROVE e \in Events \cap NewlyAccounted(ex) <=> e \in {<<b, o + 1>>}
  BY <1>4, <1>8, <1>10
<1>12. Events \cap NewlyAccounted(ex) = {<<b, o + 1>>}
  BY <1>11
<1> QED BY <1>2, <1>7, <1>12

\* After an event its processor is at position c, and goes on there or waits in the queue.
LEMMA GoOnStep ==
  ASSUME EtlInv, pc = "extracting", NEW p \in Processors, p = processor_index,
         NEW ex \in BOOLEAN, ex <=> Exhausted(p), NEW c \in [buffer : Nat, offset : Nat],
         Deliver(p), progress' = event_progress(p, ex), GoOnAt(p, c),
         UNCHANGED <<file, buffer_index, processor_index>>,
         remaining_buffers' \in [Processors -> Seq(BufferIndices)],
         \A q \in Processors : q # p => remaining_buffers'[q] = remaining_buffers[q],
         c.buffer \in BuffersOf(p), c.offset + 1 \in DOMAIN file[c.buffer].payload,
         Range(remaining_buffers'[p]) =
           {d \in BuffersOf(p) : SequenceNumber(d) > SequenceNumber(c.buffer)},
         Descending(remaining_buffers'[p]),
         NextTime(p) <= Time(c.buffer, c.offset + 1),
         \A d \in BuffersOf(p), i \in 1 .. BufferSize :
           SequenceNumber(d) < SequenceNumber(c.buffer) \/ (d = c.buffer /\ i <= c.offset)
             <=> Behind(p, <<d, i>>) \/ <<d, i>> \in NewlyAccounted(ex)
  PROVE  EtlInv'
PROOF
<1>1. EtlTyped /\ FileOK /\ WhileWorking /\ QueueRight /\ TopRight
  BY DEF EtlInv, EtlTyped, WhileWorking
<1>2. PICK t : t = Time(c.buffer, c.offset + 1)
  OBVIOUS
<1>3. PICK n : n = [next_event_time |-> t, processor_index |-> p]
  OBVIOUS
<1>4. /\ current' = [current EXCEPT ![p] = c]
      /\ \/ /\ another_is_earlier(t)
            /\ event_queue' = event_queue \cup {n} /\ pc' = "selecting"
         \/ /\ ~another_is_earlier(t)
            /\ event_queue' = event_queue /\ pc' = "extracting"
  BY <1>2, <1>3 DEF GoOnAt
<1>5. /\ current' \in [Processors -> [buffer : Nat, offset : Nat]] /\ current'[p] = c
      /\ \A q \in Processors : q # p => current'[q] = current[q]
  <2>1. current \in [Processors -> [buffer : Nat, offset : Nat]]
    BY <1>1 DEF EtlTyped
  <2> QED BY <1>4, <2>1
<1>6. /\ delivered' \in Seq(Slots) /\ DeliveredInOrder'
      /\ Range(delivered') = Range(delivered) \cup {<<current[p].buffer, current[p].offset + 1>>}
      /\ \A k \in DOMAIN delivered' : DeliveredTime(k)' \in Nat /\ DeliveredTime(k)' <= NextTime(p)
  BY Delivering
<1>7. /\ WorkTold'
      /\ progress'.current_work = Cardinality(Accounted \cup NewlyAccounted(ex))
  BY EventProgress
<1>8. /\ FileOK' /\ Events' = Events
      /\ \A b, i : Time(b, i)' = Time(b, i)
      /\ \A b : SequenceNumber(b)' = SequenceNumber(b)
      /\ \A q : BuffersOf(q)' = BuffersOf(q)
      /\ \A s : Descending(s)' = Descending(s)
  BY <1>1, FileStays
<1>9. EtlTyped'
  BY <1>1, <1>4, <1>5, <1>6, <1>7, <1>8 DEF EtlTyped
<1>10. BeforeLoading' /\ WhileLoading' /\ WhenDone'
  BY <1>4 DEF BeforeLoading, WhileLoading, WhenDone
<1>11. NextTime(p)' = t /\ \A q \in Processors : q # p => NextTime(q)' = NextTime(q)
  BY <1>2, <1>5, <1>8 DEF NextTime
<1>12. n.processor_index = p /\ n.next_event_time = t
  BY <1>3
<1>13. ~Queued(p) /\ Active(p) /\ \A q : q # p => Queued(q)' = Queued(q)
  BY <1>1, <1>4, <1>12, ExtractingFacts DEF Queued
<1>14. \A q : Active(q)' = Active(q)
  <2>1. Active(p)'
    <3>1. CASE pc' = "extracting"
      BY <3>1 DEF Active
    <3>2. CASE pc' # "extracting"
      <4>1. n \in event_queue'
        BY <1>4, <3>2
      <4>2. Queued(p)'
        BY <1>12, <4>1 DEF Queued
      <4> QED BY <4>2 DEF Active
    <3> QED BY <3>1, <3>2
  <2>2. \A q : q # p => Active(q)' = Active(q)
    BY <1>13 DEF Active, Queued
  <2>3. Active(p)' = Active(p)
    BY <1>13, <2>1 DEF Active
  <2> QED BY <2>2, <2>3
<1>15. QueueRight'
  <2>1. ASSUME NEW e \in event_queue'
        PROVE  /\ e.processor_index \in Processors
               /\ e = [next_event_time |-> NextTime(e.processor_index)', processor_index |-> e.processor_index]
    <3>1. CASE e \in event_queue
      <4>1. e.processor_index # p
        BY <1>13, <3>1 DEF Queued
      <4>2. /\ e.processor_index \in Processors
            /\ e = [next_event_time |-> NextTime(e.processor_index), processor_index |-> e.processor_index]
        BY <1>1, <3>1 DEF QueueRight
      <4> QED BY <1>11, <4>1, <4>2
    <3>2. CASE e = n
      BY <1>3, <1>11, <1>12, <3>2
    <3> QED BY <1>4, <2>1, <3>1, <3>2
  <2> QED BY <2>1 DEF QueueRight
<1>16. ASSUME NEW q \in Processors, Active(q)' PROVE AtWork(q)'
  <2>1. CASE q = p
    BY <1>5, <1>8, <2>1 DEF AtWork
  <2>2. CASE q # p
    <3>1. AtWork(q)
      BY <1>1, <1>14, <1>16 DEF WhileWorking
    <3> QED BY <1>5, <1>8, <2>2, <3>1 DEF AtWork
  <2> QED BY <2>1, <2>2
<1>17. \A q \in Processors : q # p /\ Active(q) => NextTime(p) <= NextTime(q) /\ NextTime(q) \in Nat
  <2> SUFFICES ASSUME NEW q \in Processors, q # p, Active(q)
               PROVE  NextTime(p) <= NextTime(q) /\ NextTime(q) \in Nat
    OBVIOUS
  <2>1. PICK e \in event_queue : e.processor_index = q
    BY DEF Active, Queued
  <2>2. e.next_event_time = NextTime(q)
    BY <1>1, <2>1 DEF QueueRight
  <2>3. NextTime(p) <= e.next_event_time
    BY <1>1 DEF TopRight
  <2>4. AtWork(q)
    BY <1>1 DEF WhileWorking
  <2>5. NextTime(q) \in Nat
    BY <1>1, <2>4, BuffersFacts DEF AtWork, NextTime, BuffersOf
  <2> QED BY <2>2, <2>3, <2>5
<1>18. NextTime(p) \in Nat /\ t \in Nat /\ NextTime(p) <= t
  <2>1. c.buffer \in BufferIndices
    BY DEF BuffersOf
  <2>2. t \in Nat
    BY <1>1, <1>2, <2>1, BuffersFacts
  <2> QED BY <1>2, <2>2, ExtractingFacts
<1>19. TimesRight'
  <2>1. ASSUME NEW k \in DOMAIN delivered', NEW q \in Processors, Active(q)'
        PROVE  DeliveredTime(k)' <= NextTime(q)'
    <3>1. DeliveredTime(k)' \in Nat /\ DeliveredTime(k)' <= NextTime(p)
      BY <1>6
    <3>2. NextTime(p) <= NextTime(q)' /\ NextTime(q)' \in Nat
      BY <1>11, <1>14, <1>17, <1>18, <2>1
    <3> QED BY <1>18, <3>1, <3>2
  <2> QED BY <2>1 DEF TimesRight
<1>20. TopRight'
  <2> SUFFICES ASSUME pc' = "extracting" PROVE TopRight'
    BY DEF TopRight
  <2>1. ~another_is_earlier(t) /\ event_queue' = event_queue
    BY <1>4
  <2>2. ASSUME NEW e \in event_queue PROVE t <= e.next_event_time
    <3>1. e.processor_index \in Processors /\ e.next_event_time = NextTime(e.processor_index)
      BY <1>1 DEF QueueRight
    <3>2. Active(e.processor_index) /\ e.processor_index # p
      BY <1>13 DEF Active, Queued
    <3>3. e.next_event_time \in Nat
      BY <1>17, <3>1, <3>2
    <3> QED BY <1>18, <2>1, <3>3 DEF another_is_earlier
  <2>3. ~Queued(p)'
    BY <1>13, <2>1 DEF Queued
  <2> QED BY <1>11, <2>1, <2>2, <2>3 DEF TopRight
<1>21. Accounted' = Accounted \cup NewlyAccounted(ex)
  <2>0. \A s \in NewlyAccounted(ex) : s \in Slots /\ file[s[1]].processor = p
    BY NewlyFacts
  <2>1. ASSUME NEW s \in Slots
        PROVE  Past(s)' <=> Past(s) \/ s \in NewlyAccounted(ex)
    <3>1. PICK d, i : d \in BufferIndices /\ i \in 1 .. BufferSize /\ s = <<d, i>>
      BY DEF Slots
    <3>2. PICK q \in Processors : q = file[d].processor
      BY <1>1, <3>1, BuffersFacts
    <3>3. Past(s)' <=> (Active(q) => Behind(q, s)')
      BY <1>4, <1>14, <3>1, <3>2 DEF Past, Started
    <3>4. Past(s) <=> (Active(q) => Behind(q, s))
      BY <3>1, <3>2 DEF Past, Started
    <3>5. CASE q # p
      <4>1. Behind(q, s)' = Behind(q, s)
        BY <1>5, <1>8, <3>5 DEF Behind
      <4>2. s \notin NewlyAccounted(ex)
        BY <2>0, <3>1, <3>2, <3>5
      <4> QED BY <3>3, <3>4, <4>1, <4>2
    <3>6. CASE q = p
      <4>1. d \in BuffersOf(p)
        BY <3>1, <3>2, <3>6 DEF BuffersOf
      <4>2. Behind(p, s)' <=> SequenceNumber(d) < SequenceNumber(c.buffer) \/ (d = c.buffer /\ i <= c.offset)
        BY <1>5, <1>8, <3>1 DEF Behind
      <4>3. Behind(p, s)' <=> Behind(p, s) \/ s \in NewlyAccounted(ex)
        BY <3>1, <4>1, <4>2
      <4> QED BY <1>13, <3>3, <3>4, <3>6, <4>3
    <3> QED BY <3>5, <3>6
  <2>2. ASSUME NEW s PROVE s \in Accounted' <=> s \in Accounted \cup NewlyAccounted(ex)
    <3>1. s \in Accounted <=> s \in Slots /\ Past(s)
      BY DEF Accounted
    <3>2. s \in Accounted' <=> s \in Slots /\ Past(s)'
      BY DEF Accounted, Slots
    <3> QED BY <2>0, <2>1, <3>1, <3>2
  <2> QED BY <2>2
<1>22. Range(delivered') = Events \cap Accounted'
  <2>1. Events \cap NewlyAccounted(ex) = {<<current[p].buffer, current[p].offset + 1>>}
    BY NewlyFacts
  <2> QED BY <1>1, <1>6, <1>21, <2>1 DEF WhileWorking
<1>23. WhileWorking'
  BY <1>7, <1>8, <1>15, <1>16, <1>19, <1>20, <1>21, <1>22 DEF WhileWorking
<1> QED BY <1>6, <1>9, <1>10, <1>23 DEF EtlInv

LEMMA ExtractEventKeeps ==
  ASSUME EtlInv, ExtractEvent
  PROVE  EtlInv'
PROOF
<1>1. EtlTyped /\ FileOK /\ pc = "extracting"
  BY DEF EtlInv, EtlTyped, ExtractEvent
<1>2. PICK p, b, o : p = processor_index /\ b = current[p].buffer /\ o = current[p].offset
  OBVIOUS
<1>3. PICK c : c = [current[p] EXCEPT !.offset = @ + 1]
  OBVIOUS
<1>4. /\ ~Exhausted(p) /\ Deliver(p) /\ progress' = event_progress(p, FALSE) /\ GoOnAt(p, c)
      /\ UNCHANGED <<file, buffer_index, processor_index, remaining_buffers>>
  BY <1>2, <1>3 DEF ExtractEvent
<1>5. /\ p \in Processors /\ AtWork(p) /\ o \in Nat /\ b \in BufferIndices
      /\ o + 1 \in 1 .. Len(file[b].payload) /\ Len(file[b].payload) \in Nat
      /\ NextTime(p) = Time(b, o + 1)
  BY <1>1, <1>2, ExtractingFacts
<1>6. c = [buffer |-> b, offset |-> o + 1] /\ c.buffer = b /\ c.offset = o + 1
  <2>1. current[p] \in [buffer : Nat, offset : Nat]
    BY <1>1, <1>5 DEF EtlTyped
  <2>2. current[p] = [buffer |-> b, offset |-> o]
    BY <1>2, <2>1
  <2>3. c = [buffer |-> b, offset |-> o + 1]
    BY <1>3, <2>2
  <2> QED BY <2>3
<1>7. c \in [buffer : Nat, offset : Nat]
  <2>1. b \in Nat /\ o + 1 \in Nat
    BY <1>5, SizesAssumption DEF BufferIndices
  <2> QED BY <1>6, <2>1
<1>8. o + 2 \in DOMAIN file[b].payload /\ o + 1 \in DOMAIN file[b].payload
  <2>1. DOMAIN file[b].payload = 1 .. Len(file[b].payload)
    BY <1>1, <1>5, BuffersFacts
  <2>2. ~(o + 1 >= Len(file[b].payload))
    BY <1>2, <1>4 DEF Exhausted
  <2> QED BY <1>5, <2>1, <2>2
<1>9. Time(b, o + 1) <= Time(b, o + 2)
  <2>1. o + 1 < o + 2
    BY <1>5
  <2> QED BY <1>1, <1>5, <1>8, <2>1, BuffersFacts
<1>10. ASSUME NEW d \in BuffersOf(p), NEW i \in 1 .. BufferSize
       PROVE  SequenceNumber(d) < SequenceNumber(c.buffer) \/ (d = c.buffer /\ i <= c.offset)
                <=> Behind(p, <<d, i>>) \/ <<d, i>> \in NewlyAccounted(FALSE)
  <2>1. i <= o + 1 <=> i <= o \/ i = o + 1
    BY <1>5
  <2>2. <<d, i>> \in NewlyAccounted(FALSE) <=> d = b /\ i = o + 1
    <3>1. NewlyAccounted(FALSE) = {b} \X (o + 1 .. o + 1)
      BY <1>2 DEF NewlyAccounted
    <3>2. i \in o + 1 .. o + 1 <=> i = o + 1
      BY <1>5
    <3> QED BY <3>1, <3>2
  <2>3. Behind(p, <<d, i>>) <=> SequenceNumber(d) < SequenceNumber(b) \/ (d = b /\ i <= o)
    BY <1>2 DEF Behind
  <2> QED BY <1>6, <2>1, <2>2, <2>3
<1>11. /\ remaining_buffers' \in [Processors -> Seq(BufferIndices)]
       /\ remaining_buffers' = remaining_buffers
  BY <1>1, <1>4 DEF EtlTyped
<1>12. /\ b \in BuffersOf(p) /\ Descending(remaining_buffers[p])
       /\ Range(remaining_buffers[p]) = {d \in BuffersOf(p) : SequenceNumber(d) > SequenceNumber(b)}
  BY <1>2, <1>5 DEF AtWork
<1>13. c.offset + 1 = o + 2
  BY <1>5, <1>6
<1>14. PICK ex \in BOOLEAN : ex = FALSE
  OBVIOUS
<1> QED BY <1>1, <1>2, <1>4, <1>5, <1>6, <1>7, <1>8, <1>9, <1>10, <1>11, <1>12, <1>13, <1>14, GoOnStep

LEMMA ExtractAndLoadNextKeeps ==
  ASSUME EtlInv, ExtractAndLoadNext
  PROVE  EtlInv'
PROOF
<1>1. EtlTyped /\ FileOK /\ pc = "extracting"
  BY DEF EtlInv, EtlTyped, ExtractAndLoadNext
<1>2. PICK p, b, o : p = processor_index /\ b = current[p].buffer /\ o = current[p].offset
  OBVIOUS
<1>3. PICK bs, fs, d, c : /\ bs = remaining_buffers[p] /\ fs = Front(bs) /\ d = Last(bs)
                          /\ c = [buffer |-> d, offset |-> 0]
  OBVIOUS
<1>4. /\ Exhausted(p) /\ bs # <<>> /\ Deliver(p) /\ progress' = event_progress(p, TRUE)
      /\ GoOnAt(p, c)
      /\ remaining_buffers' = [remaining_buffers EXCEPT ![p] = fs]
      /\ UNCHANGED <<file, buffer_index, processor_index>>
  BY <1>2, <1>3 DEF ExtractAndLoadNext
<1>5. /\ p \in Processors /\ AtWork(p) /\ o \in Nat /\ b \in BufferIndices
      /\ o + 1 \in 1 .. Len(file[b].payload) /\ Len(file[b].payload) \in Nat
      /\ Len(file[b].payload) < BufferSize
      /\ NextTime(p) = Time(b, o + 1)
  BY <1>1, <1>2, ExtractingFacts
<1>6. /\ b \in BuffersOf(p) /\ Descending(bs) /\ bs \in Seq(BufferIndices)
      /\ Range(bs) = {e \in BuffersOf(p) : SequenceNumber(e) > SequenceNumber(b)}
  <2>1. remaining_buffers[p] \in Seq(BufferIndices)
    BY <1>1, <1>5 DEF EtlTyped
  <2> QED BY <1>2, <1>3, <1>5, <2>1 DEF AtWork
<1>7. /\ d \in Range(bs) /\ d \in BufferIndices
      /\ fs \in Seq(BufferIndices) /\ Descending(fs)
      /\ Range(fs) = {e \in Range(bs) : SequenceNumber(e) > SequenceNumber(d)}
  BY <1>1, <1>3, <1>4, <1>6, FrontFacts
<1>8. d \in BuffersOf(p) /\ SequenceNumber(d) > SequenceNumber(b)
  BY <1>6, <1>7
<1>9. \A e \in BuffersOf(p) : e \in BufferIndices /\ SequenceNumber(e) \in Nat
  BY <1>1, BuffersFacts DEF BuffersOf
<1>10. Range(fs) = {e \in BuffersOf(p) : SequenceNumber(e) > SequenceNumber(d)}
  <2>1. \A e \in BuffersOf(p) : SequenceNumber(e) > SequenceNumber(d) => SequenceNumber(e) > SequenceNumber(b)
    BY <1>6, <1>8, <1>9
  <2> QED BY <1>6, <1>7, <2>1
<1>11. c \in [buffer : Nat, offset : Nat] /\ c.buffer = d /\ c.offset = 0 /\ c.offset + 1 = 1
  <2>1. d \in Nat
    BY <1>7, SizesAssumption DEF BufferIndices
  <2> QED BY <1>3, <2>1
<1>12. 1 \in DOMAIN file[d].payload
  <2>1. DOMAIN file[d].payload = 1 .. Len(file[d].payload) /\ Len(file[d].payload) \in 1 .. MaxEvents
    BY <1>1, <1>7, BuffersFacts
  <2> QED BY <2>1, SizesAssumption
<1>13. Time(b, o + 1) <= Time(d, 1)
  <2>1. b \in DOMAIN file /\ d \in DOMAIN file /\ Recorded(file)
    BY <1>1, <1>5, <1>7 DEF FileOK
  <2>2. file[b].processor = file[d].processor /\ file[b].sequence_number < file[d].sequence_number
    <3>1. file[b].processor = file[d].processor
      BY <1>6, <1>8 DEF BuffersOf
    <3>2. SequenceNumber(b) < SequenceNumber(d)
      BY <1>6, <1>8, <1>9
    <3> QED BY <3>1, <3>2 DEF SequenceNumber
  <2>3. o + 1 \in DOMAIN file[b].payload
    BY <1>1, <1>5, BuffersFacts
  <2> QED BY <1>12, <2>1, <2>2, <2>3 DEF Recorded, Time
<1>14. o + 1 = Len(file[b].payload)
  <2>1. o + 1 >= Len(file[b].payload)
    BY <1>2, <1>4 DEF Exhausted
  <2> QED BY <1>5, <2>1
<1>15. ASSUME NEW e \in BuffersOf(p), NEW i \in 1 .. BufferSize
       PROVE  SequenceNumber(e) < SequenceNumber(c.buffer) \/ (e = c.buffer /\ i <= c.offset)
                <=> Behind(p, <<e, i>>) \/ <<e, i>> \in NewlyAccounted(TRUE)
  <2>1. ~(i <= 0) /\ (i <= o \/ i \in o + 1 .. BufferSize)
    BY <1>5, SizesAssumption
  <2>2. <<e, i>> \in NewlyAccounted(TRUE) <=> e = b /\ i \in o + 1 .. BufferSize
    BY <1>2 DEF NewlyAccounted
  <2>3. Behind(p, <<e, i>>) <=> SequenceNumber(e) < SequenceNumber(b) \/ (e = b /\ i <= o)
    BY <1>2 DEF Behind
  <2>4. Behind(p, <<e, i>>) \/ <<e, i>> \in NewlyAccounted(TRUE)
          <=> SequenceNumber(e) < SequenceNumber(b) \/ e = b
    BY <2>1, <2>2, <2>3
  <2>5. SequenceNumber(e) < SequenceNumber(d) <=> SequenceNumber(e) < SequenceNumber(b) \/ e = b
    <3>1. CASE SequenceNumber(e) > SequenceNumber(b)
      <4>1. e \in Range(bs)
        BY <1>6, <3>1
      <4>2. ~(SequenceNumber(e) < SequenceNumber(d))
        <5>1. PICK k \in 1 .. Len(bs) : bs[k] = e
          BY <1>6, <4>1 DEF Range
        <5>2. CASE k = Len(bs)
          BY <1>3, <1>9, <5>1, <5>2 DEF Last
        <5>3. CASE k < Len(bs)
          <6>1. SequenceNumber(bs[k]) > SequenceNumber(bs[Len(bs)])
            BY <1>6, <5>1, <5>3 DEF Descending
          <6> QED BY <1>3, <1>8, <1>9, <5>1, <6>1 DEF Last
        <5> QED BY <1>6, <5>1, <5>2, <5>3
      <4>3. e # b /\ ~(SequenceNumber(e) < SequenceNumber(b))
        BY <1>6, <1>9, <3>1
      <4> QED BY <4>2, <4>3
    <3>2. CASE SequenceNumber(e) < SequenceNumber(b)
      BY <1>6, <1>8, <1>9, <3>2
    <3>3. CASE SequenceNumber(e) = SequenceNumber(b)
      <4>1. e = b
        BY <1>1, <1>6, <1>9, <3>3, BuffersFacts
      <4> QED BY <1>8, <1>9, <4>1
    <3> QED BY <1>6, <1>9, <3>1, <3>2, <3>3
  <2> QED BY <1>11, <2>1, <2>4, <2>5
<1>16. /\ remaining_buffers' \in [Processors -> Seq(BufferIndices)]
       /\ remaining_buffers'[p] = fs
       /\ \A q \in Processors : q # p => remaining_buffers'[q] = remaining_buffers[q]
  BY <1>1, <1>4, <1>5, <1>7 DEF EtlTyped
<1>17. PICK ex \in BOOLEAN : ex = TRUE
  OBVIOUS
<1> QED BY <1>1, <1>2, <1>4, <1>5, <1>7, <1>8, <1>10, <1>11, <1>12, <1>13, <1>15, <1>16,
           <1>17, GoOnStep

LEMMA ExtractAndFailKeeps ==
  ASSUME EtlInv, ExtractAndFail
  PROVE  EtlInv'
PROOF
<1>1. EtlTyped /\ FileOK /\ pc = "extracting"
  BY DEF EtlInv, EtlTyped, ExtractAndFail
<1>2. PICK p : p = processor_index
  OBVIOUS
<1>3. PICK ex \in BOOLEAN : ex <=> Exhausted(p)
  <2>1. CASE Exhausted(p)
    BY <2>1
  <2>2. CASE ~Exhausted(p)
    BY <2>2
  <2> QED BY <2>1, <2>2
<1>4. /\ Deliver(p) /\ progress' = event_progress(p, ex) /\ pc' = "failed"
      /\ UNCHANGED <<file, buffer_index, processor_index, remaining_buffers, current>>
  <2>1. /\ Deliver(p) /\ progress' = event_progress(p, Exhausted(p)) /\ pc' = "failed"
        /\ UNCHANGED <<file, buffer_index, processor_index, remaining_buffers, current>>
    BY <1>2 DEF ExtractAndFail
  <2>2. event_progress(p, Exhausted(p)) = event_progress(p, ex)
    BY <1>3 DEF event_progress
  <2> QED BY <2>1, <2>2
<1>5. delivered' \in Seq(Slots) /\ DeliveredInOrder'
  BY <1>1, <1>2, <1>4, Delivering
<1>6. WorkTold'
  BY <1>1, <1>2, <1>4, EventProgress
<1>7. FileOK'
  BY <1>1, <1>4, FileStays
<1> QED BY <1>4, <1>5, <1>6, <1>7, EtlLeft

LEMMA ExtractLastKeeps ==
  ASSUME EtlInv, ExtractLast
  PROVE  EtlInv'
PROOF
<1>1. EtlTyped /\ FileOK /\ WhileWorking /\ pc = "extracting"
  BY DEF EtlInv, EtlTyped, ExtractLast
<1>2. PICK p, b, o : p = processor_index /\ b = current[p].buffer /\ o = current[p].offset
  OBVIOUS
<1>3. PICK ex \in BOOLEAN : ex = TRUE
  OBVIOUS
<1>4. /\ Exhausted(p) /\ remaining_buffers[p] = <<>> /\ Deliver(p)
      /\ progress' = event_progress(p, ex) /\ pc' = "selecting"
      /\ UNCHANGED <<file, buffer_index, processor_index, remaining_buffers, current, event_queue>>
  BY <1>2, <1>3 DEF ExtractLast
<1>5. /\ p \in Processors /\ AtWork(p) /\ ~Queued(p) /\ o \in Nat /\ b \in BufferIndices
      /\ b \in BuffersOf(p) /\ NextTime(p) \in Nat
  BY <1>1, <1>2, ExtractingFacts DEF AtWork
<1>6. /\ delivered' \in Seq(Slots) /\ DeliveredInOrder'
      /\ Range(delivered') = Range(delivered) \cup {<<b, o + 1>>}
      /\ \A k \in DOMAIN delivered' : DeliveredTime(k)' \in Nat /\ DeliveredTime(k)' <= NextTime(p)
  BY <1>1, <1>2, <1>4, Delivering
<1>7. /\ WorkTold'
      /\ progress'.current_work = Cardinality(Accounted \cup NewlyAccounted(ex))
  BY <1>1, <1>2, <1>4, EventProgress
<1>8. /\ \A s \in NewlyAccounted(ex) : s \in Slots /\ file[s[1]].processor = p
      /\ Events \cap NewlyAccounted(ex) = {<<b, o + 1>>}
  BY <1>1, <1>2, <1>3, <1>4, NewlyFacts
<1>9. /\ FileOK' /\ Events' = Events
      /\ \A c, i : Time(c, i)' = Time(c, i)
      /\ \A c : SequenceNumber(c)' = SequenceNumber(c)
      /\ \A q : BuffersOf(q)' = BuffersOf(q)
      /\ \A s : Descending(s)' = Descending(s)
  BY <1>1, <1>4, FileStays
<1>10. EtlTyped'
  BY <1>1, <1>4, <1>6, <1>7, <1>9 DEF EtlTyped
<1>11. BeforeLoading' /\ WhileLoading' /\ WhenDone' /\ TopRight'
  BY <1>4 DEF BeforeLoading, WhileLoading, WhenDone, TopRight
<1>12. /\ \A q : NextTime(q)' = NextTime(q) /\ Queued(q)' = Queued(q)
       /\ ~Active(p)' /\ \A q : q # p => Active(q)' = Active(q)
  <2>1. \A q : NextTime(q)' = NextTime(q) /\ Queued(q)' = Queued(q)
    BY <1>4, <1>9 DEF NextTime, Queued
  <2>2. ~Active(p)'
    BY <1>4, <1>5, <2>1 DEF Active
  <2>3. \A q : q # p => Active(q)' = Active(q)
    BY <1>2, <1>4, <2>1 DEF Active, Queued
  <2> QED BY <2>1, <2>2, <2>3
<1>13. QueueRight'
  <2>1. QueueRight
    BY <1>1 DEF WhileWorking
  <2> QED BY <1>4, <1>12, <2>1 DEF QueueRight
<1>14. ASSUME NEW q \in Processors, Active(q)' PROVE AtWork(q)'
  <2>1. AtWork(q)
    BY <1>1, <1>12, <1>14 DEF WhileWorking
  <2> QED BY <1>4, <1>9, <2>1 DEF AtWork
<1>15. ASSUME NEW k \in DOMAIN delivered', NEW q \in Processors, Active(q)'
       PROVE  DeliveredTime(k)' <= NextTime(q)'
  <2>1. q # p /\ Active(q) /\ AtWork(q)
    BY <1>1, <1>12, <1>15 DEF WhileWorking
  <2>2. PICK e \in event_queue : e.processor_index = q
    BY <1>2, <2>1 DEF Active, Queued
  <2>3. e.next_event_time = NextTime(q) /\ NextTime(p) <= e.next_event_time
    BY <1>1, <1>2, <2>2 DEF WhileWorking, QueueRight, TopRight
  <2>4. NextTime(q) \in Nat
    BY <1>1, <2>1, BuffersFacts DEF AtWork, NextTime, BuffersOf
  <2>5. DeliveredTime(k)' \in Nat /\ DeliveredTime(k)' <= NextTime(p)
    BY <1>6
  <2> QED BY <1>5, <1>12, <2>3, <2>4, <2>5
<1>16. TimesRight'
  BY <1>15 DEF TimesRight
<1>17. ASSUME NEW s \in Slots
       PROVE  Past(s)' <=> Past(s) \/ s \in NewlyAccounted(ex)
  <2>1. PICK d, i : d \in BufferIndices /\ i \in 1 .. BufferSize /\ s = <<d, i>>
    BY DEF Slots
  <2>2. PICK q \in Processors : q = file[d].processor
    BY <1>1, <2>1, BuffersFacts
  <2>3. Past(s)' <=> (Active(q)' => Behind(q, s)')
    BY <1>4, <2>1, <2>2 DEF Past, Started
  <2>4. Past(s) <=> (Active(q) => Behind(q, s))
    BY <1>1, <2>1, <2>2 DEF Past, Started
  <2>5. CASE q # p
    <3>1. Behind(q, s)' = Behind(q, s)
      BY <1>4, <1>9 DEF Behind
    <3>2. s \notin NewlyAccounted(ex)
      BY <1>8, <2>1, <2>2, <2>5
    <3> QED BY <1>12, <2>3, <2>4, <2>5, <3>1, <3>2
  <2>6. CASE q = p
    <3>1. Past(s)'
      BY <1>12, <2>3, <2>6
    <3>2. d \in BuffersOf(p) /\ SequenceNumber(d) \in Nat /\ SequenceNumber(b) \in Nat
      BY <1>1, <1>5, <2>1, <2>2, <2>6, BuffersFacts DEF BuffersOf
    <3>3. ~(SequenceNumber(d) > SequenceNumber(b))
      <4>1. Range(<<>>) = {}
        BY DEF Range
      <4>2. {e \in BuffersOf(p) : SequenceNumber(e) > SequenceNumber(b)} = {}
        BY <1>2, <1>4, <1>5, <4>1 DEF AtWork
      <4> QED BY <3>2, <4>2
    <3>4. SequenceNumber(d) < SequenceNumber(b) \/ d = b
      <4>1. CASE SequenceNumber(d) = SequenceNumber(b)
        BY <1>1, <1>5, <2>1, <4>1, BuffersFacts
      <4> QED BY <3>2, <3>3, <4>1
    <3>5. i <= o \/ i \in o + 1 .. BufferSize
      BY <1>5, <2>1, SizesAssumption
    <3>6. d = b /\ i \in o + 1 .. BufferSize => s \in NewlyAccounted(ex)
      BY <1>2, <1>3, <2>1 DEF NewlyAccounted
    <3>7. Behind(p, s) \/ s \in NewlyAccounted(ex)
      BY <1>2, <2>1, <3>4, <3>5, <3>6 DEF Behind
    <3> QED BY <2>4, <2>6, <3>1, <3>7
  <2> QED BY <2>5, <2>6
<1>18. Accounted' = Accounted \cup NewlyAccounted(ex)
  <2>1. ASSUME NEW s PROVE s \in Accounted' <=> s \in Accounted \cup NewlyAccounted(ex)
    <3>1. s \in Accounted <=> s \in Slots /\ Past(s)
      BY DEF Accounted
    <3>2. s \in Accounted' <=> s \in Slots /\ Past(s)'
      BY DEF Accounted, Slots
    <3> QED BY <1>8, <1>17, <3>1, <3>2
  <2> QED BY <2>1
<1>19. Range(delivered') = Events \cap Accounted'
  BY <1>1, <1>6, <1>8, <1>18 DEF WhileWorking
<1>20. WhileWorking'
  BY <1>7, <1>9, <1>11, <1>13, <1>14, <1>16, <1>18, <1>19 DEF WhileWorking
<1> QED BY <1>6, <1>10, <1>11, <1>20 DEF EtlInv

\* No processor has events left: all of them were delivered.
LEMMA FinishKeeps ==
  ASSUME EtlInv, Finish
  PROVE  EtlInv'
PROOF
<1>1. EtlTyped /\ FileOK /\ WhileWorking /\ pc = "selecting" /\ event_queue = {}
  BY DEF EtlInv, EtlTyped, Finish
<1>2. /\ progress' = Finished(progress) /\ pc' = "done"
      /\ UNCHANGED <<file, buffer_index, processor_index, remaining_buffers, current, delivered>>
  BY DEF Finish
<1>3. \A p : ~Active(p)
  BY <1>1 DEF Active, Queued
<1>4. Accounted = Slots
  BY <1>1, <1>3 DEF Accounted, Past, Started
<1>5. Range(delivered) = Events
  <2>1. Events \in SUBSET Slots
    BY <1>1, EventsAre
  <2> QED BY <1>1, <1>4, <2>1 DEF WhileWorking
<1>6. progress.current_work = NumberOfBuffers * BufferSize /\ WorkTold
  BY <1>1, <1>4, SlotsFacts DEF WhileWorking, EtlTyped
<1>7. /\ WorkTold' /\ progress'.current_work = NumberOfBuffers * BufferSize
      /\ Last(progress'.reports) >= progress'.total_work
  <2>0. PICK r : r = progress
    OBVIOUS
  <2>1. Told(r) /\ r.total_work # 0 /\ r.current_work = NumberOfBuffers * BufferSize
        /\ progress' = Finished(r)
    BY <1>2, <1>6, <2>0 DEF WorkTold
  <2>2. r.current_work >= r.total_work /\ r.total_work <= NumberOfBuffers * BufferSize
    BY <1>6, <2>0 DEF WorkTold
  <2>3. /\ Told(progress') /\ progress'.total_work = r.total_work
        /\ progress'.current_work = r.current_work
        /\ Last(progress'.reports) >= r.total_work
    BY <2>1, <2>2, FinishedTold
  <2>4. r.current_work <= r.current_work
    BY <2>1 DEF Told, Reporters
  <2> QED BY <2>1, <2>2, <2>3, <2>4 DEF WorkTold
<1>8. FileOK' /\ DeliveredInOrder' /\ Events' = Events
  BY <1>1, <1>2, FileStays, DeliveredStays DEF EtlInv
<1>9. EtlTyped'
  BY <1>1, <1>2, <1>7, <1>8 DEF EtlTyped
<1>10. BeforeLoading' /\ WhileLoading' /\ WhileWorking'
  BY <1>2 DEF BeforeLoading, WhileLoading, WhileWorking
<1>11. WhenDone'
  BY <1>2, <1>5, <1>7, <1>8 DEF WhenDone
<1> QED BY <1>8, <1>9, <1>10, <1>11 DEF EtlInv

LEMMA ProcessKeeps ==
  ASSUME EtlInv, Process
  PROVE  EtlInv'
PROOF
<1>1. CASE Open
  BY <1>1, OpenKeeps
<1>2. CASE RefuseFile \/ RefuseHeader \/ LoadFirstFails \/ RefuseEvent \/ Abandon
  BY <1>2, FailKeeps DEF RefuseFile, RefuseHeader, LoadFirstFails, RefuseEvent
<1>3. CASE ReadHeader
  BY <1>3, ReadHeaderKeeps
<1>4. CASE LoadFirst
  BY <1>4, LoadFirstKeeps
<1>5. CASE SkipProcessor
  BY <1>5, SkipProcessorKeeps
<1>6. CASE Select
  BY <1>6, SelectKeeps
<1>7. CASE ExtractEvent
  BY <1>7, ExtractEventKeeps
<1>8. CASE ExtractAndLoadNext
  BY <1>8, ExtractAndLoadNextKeeps
<1>9. CASE ExtractAndFail
  BY <1>9, ExtractAndFailKeeps
<1>10. CASE ExtractLast
  BY <1>10, ExtractLastKeeps
<1>11. CASE Finish
  BY <1>11, FinishKeeps
<1> QED BY <1>1, <1>2, <1>3, <1>4, <1>5, <1>6, <1>7, <1>8, <1>9, <1>10, <1>11 DEF Process

LEMMA EtlMeans ==
  ASSUME EtlInv
  PROVE  EventsInOrder /\ ProgressComplete
PROOF
<1>1. EtlTyped /\ DeliveredInOrder /\ WhenDone /\ Told(progress)
  BY DEF EtlInv, EtlTyped, WorkTold
<1>2. EventsInOrder
  BY <1>1 DEF DeliveredInOrder, WhenDone, EventsInOrder
<1>3. ProgressComplete
  <2>1. /\ \A k \in 1 .. Len(progress.reports) - 1 : progress.reports[k] < progress.reports[k + 1]
        /\ pc = "done" => /\ progress.current_work = NumberOfBuffers * BufferSize
                          /\ Last(progress.reports) >= progress.total_work
    BY <1>1 DEF Told, Growing, WhenDone
  <2>2. PICK q, n : q = progress /\ n = NumberOfBuffers * BufferSize
    OBVIOUS
  <2>3. Told(q) /\ q.current_work <= n
    BY <1>1, <2>2 DEF EtlTyped, WorkTold
  <2>4. Last(q.reports) \in Nat /\ q.current_work \in Nat /\ q.total_work \in Nat
    BY <2>3 DEF Told, Reporters, Last
  <2>5. q.total_work = n => Last(q.reports) <= q.total_work
    BY <2>3, <2>4 DEF Told
  <2> QED BY <2>1, <2>2, <2>5 DEF ProgressComplete
<1> QED BY <1>2, <1>3
-----------------------------------------------------------------------------
(* PerfDataFile reads with the operators this module has of its own *)

LEMMA SameOperators ==
  /\ \A S : Perf!Cardinality(S) = Cardinality(S)
  /\ \A s : Perf!Last(s) = Last(s)
  /\ \A t, n : Perf!Reporter(t, n) = Reporter(t, n)
  /\ \A r, n : Perf!Progressed(r, n) = Progressed(r, n)
  /\ \A r : Perf!Finished(r) = Finished(r)
PROOF
<1>1. \A S : Perf!Cardinality(S) = Cardinality(S)
  BY DEF Perf!Cardinality, Cardinality
<1>2. \A s : Perf!Last(s) = Last(s)
  BY DEF Perf!Last, Last
<1>3. \A t, n, k : Perf!WorkOfStep(t, n, k) = WorkOfStep(t, n, k)
  BY DEF Perf!WorkOfStep, WorkOfStep
<1>4. \A t, n : Perf!Reporter(t, n) = Reporter(t, n)
  BY DEF Perf!Reporter, Reporter, Perf!WorkOfStep, WorkOfStep
<1>5. \A r, n : Perf!Progressed(r, n) = Progressed(r, n)
  BY DEF Perf!Progressed, Progressed, Perf!advanced, advanced, Perf!WorkOfStep, WorkOfStep
<1>6. \A r : Perf!Finished(r) = Finished(r)
  BY DEF Perf!Finished, Finished
<1> QED BY <1>1, <1>2, <1>4, <1>5, <1>6

-----------------------------------------------------------------------------
(* The inductive invariant of PerfDataFile *)

\* The features with given numbers.
FeaturesOf(T) == {Perf!AllFeatures[f] : f \in T}
AllNames == FeaturesOf(1 .. 4)

Scene(s) ==
  /\ s.ids \in Seq(Nat) /\ s.events \in Seq(Nat) /\ s.builds \in Seq(Nat)
  /\ s.features \subseteq AllNames /\ s.odd \in BOOLEAN /\ s.cut.section = "none"

ReaderRecords(n) ==
  [total_size : Nat, total_processed_size : Nat, chunk_buffer : [1 .. n -> Nat],
   chunk_size : 0 .. n, chunk_processed_size : Nat, is_chunk_exhausted : BOOLEAN]

\* A reader with a chunk of n reads the section at offset of the given size, of which
\* it has handed out the first bytes, as many as consumed says.  A chunk is full unless
\* it is the last, and only one that is not the last may be left before it is used up.
ReaderAt(r, offset, size, n, consumed) ==
  /\ r \in ReaderRecords(n)
  /\ r.total_size = size
  /\ consumed = r.total_processed_size + r.chunk_processed_size
  /\ r.chunk_processed_size <= r.chunk_size
  /\ r.total_processed_size + r.chunk_size <= size
  /\ \A i \in 1 .. r.chunk_size : r.chunk_buffer[i] = offset + r.total_processed_size + i
  /\ r.chunk_size = n \/ r.chunk_size = 0 \/ r.total_processed_size + r.chunk_size = size
  /\ r.is_chunk_exhausted /\ r.total_processed_size + r.chunk_size = size =>
       r.chunk_processed_size = r.chunk_size

\* Where the stream is to be when the reader reads on.
EndOfChunk(r, offset) == offset + r.total_processed_size + r.chunk_size
StreamAt(place, r, offset) == place = Perf!Bad \/ place = EndOfChunk(r, offset)

\* Every chunk of the section holds whole parts of the given size, none of them in two.
WholeParts(r, size) ==
  /\ r.is_chunk_exhausted => r.chunk_processed_size = r.chunk_size
  /\ \E i, j, k \in Nat : /\ r.total_processed_size = size * i
                          /\ r.chunk_processed_size = size * j
                          /\ r.chunk_size = size * k

AttributesReader(r) ==
  ReaderAt(r, Perf!AttributesOffset, EntrySize * Len(scene.ids), ChunkSize, EntrySize * Len(attributes))
IdsReader(r) ==
  LET a == Len(attributes)
  IN  ReaderAt(r, Perf!IdsOffset(a), IdSize * scene.ids[a], IdChunkSize, IdSize * Len(attributes[a].ids))
FeaturesReader(r) ==
  /\ ReaderAt(r, Perf!FeaturesOffset, SectionSize * Cardinality(scene.features), FeatureChunkSize,
              SectionSize * Len(metadata))
  /\ WholeParts(r, SectionSize)
BuildsReader(r) ==
  ReaderAt(r, Perf!BuildsOffset, Perf!SumOf(Perf!Widths(scene.builds)), ChunkSize,
           Perf!Before(scene.builds, Len(build_ids) + 1))
EventsReader(r) ==
  ReaderAt(r, Perf!DataOffset, Perf!SumOf(Perf!Widths(scene.events)), ChunkSize,
           Perf!Before(scene.events, Len(delivered) + 1))

ReadersRight ==
  /\ phase \in {"attributes", "features", "events"} => readers = <<readers[1]>>
  /\ phase \in {"ids", "build_ids"} => readers = <<readers[1], readers[2]>>
  /\ phase = "attributes" =>
       AttributesReader(readers[1]) /\ StreamAt(position, readers[1], Perf!AttributesOffset)
  /\ phase = "ids" =>
       /\ AttributesReader(readers[1]) /\ StreamAt(saved, readers[1], Perf!AttributesOffset)
       /\ IdsReader(readers[2]) /\ StreamAt(position, readers[2], Perf!IdsOffset(Len(attributes)))
  /\ phase = "features" =>
       FeaturesReader(readers[1]) /\ StreamAt(position, readers[1], Perf!FeaturesOffset)
  /\ phase = "build_ids" =>
       /\ FeaturesReader(readers[1]) /\ StreamAt(saved, readers[1], Perf!FeaturesOffset)
       /\ BuildsReader(readers[2]) /\ StreamAt(position, readers[2], Perf!BuildsOffset)
  /\ phase = "events" =>
       EventsReader(readers[1]) /\ StreamAt(position, readers[1], Perf!DataOffset)

PerfTyped ==
  /\ Scene(scene)
  /\ phase \in {"open", "attributes", "ids", "features", "build_ids", "events",
                "done", "refused", "canceled", "failed"}
  /\ current_feature \in 0 .. 4
  /\ attributes \in Seq([entry : Seq(Nat), ids : Seq(Seq(Nat))])
  /\ metadata \in Seq(AllNames)
  /\ build_ids \in Seq(Seq(Nat)) /\ delivered \in Seq(Seq(Nat))
  /\ Told(progress) /\ progress.total_work = Perf!SumOf(Perf!Widths(scene.events))

AttributesRight ==
  \A a \in DOMAIN attributes :
    /\ a <= Len(scene.ids)
    /\ attributes[a].entry = Perf!EntryBytes(a)
    /\ \A i \in DOMAIN attributes[a].ids : attributes[a].ids[i] = Perf!IdBytes(a, i)
BuildsRight ==
  \A k \in DOMAIN build_ids : k <= Len(scene.builds) /\ build_ids[k] = Perf!BuildBytes(k)
EventsRight ==
  \A k \in DOMAIN delivered : k <= Len(scene.events) /\ delivered[k] = Perf!EventBytes(k)

\* The features that have been read, by their numbers.
Taken == {f \in 1 .. current_feature : Perf!AllFeatures[f] \in scene.features}

AllIds(a) == Len(attributes[a].ids) = scene.ids[a]

AttributesRead ==
  /\ phase = "open" => attributes = <<>>
  /\ phase = "ids" => attributes # <<>> /\ \A a \in 1 .. Len(attributes) - 1 : AllIds(a)
  /\ phase \in {"attributes", "features", "build_ids", "events", "done"} =>
       \A a \in DOMAIN attributes : AllIds(a)
  /\ phase \in {"features", "build_ids", "events", "done"} =>
       "event_desc" \in scene.features \/ scene.odd \/ Len(attributes) = Len(scene.ids)

MetadataRead ==
  /\ phase \in {"open", "attributes", "ids"} =>
       metadata = <<>> /\ build_ids = <<>> /\ current_feature = 0
  /\ phase \in {"features", "build_ids", "events", "done"} =>
       /\ Perf!Range(metadata) = FeaturesOf(Taken) /\ Len(metadata) = Cardinality(Taken)
       /\ \A i, j \in DOMAIN metadata, f, g \in DOMAIN Perf!AllFeatures :
            i < j /\ metadata[i] = Perf!AllFeatures[f] /\ metadata[j] = Perf!AllFeatures[g] => f < g
       /\ "build_id" \notin Perf!Range(metadata) => build_ids = <<>>
  /\ phase = "build_ids" => "build_id" \in Perf!Range(metadata)
  /\ phase \in {"features", "events", "done"} /\ "build_id" \in Perf!Range(metadata) =>
       Len(build_ids) = Len(scene.builds) \/ Perf!RefusesBuilds
  /\ phase \in {"events", "done"} => Perf!Range(metadata) = scene.features

EventsRead ==
  /\ phase \in {"open", "attributes", "ids", "features", "build_ids"} =>
       delivered = <<>> /\ progress.current_work = 0
  /\ phase = "events" => progress.current_work = Perf!Before(scene.events, Len(delivered) + 1)
  /\ phase = "done" =>
       /\ Len(delivered) = Len(scene.events)
       /\ progress.current_work = progress.total_work
       /\ Last(progress.reports) = progress.total_work

PerfInv ==
  /\ PerfTyped /\ AttributesRight /\ BuildsRight /\ EventsRight
  /\ ReadersRight /\ AttributesRead /\ MetadataRead /\ EventsRead

-----------------------------------------------------------------------------
(* A chunked reader *)

LEMMA ReaderFacts ==
  ASSUME NEW o \in Nat, NEW t \in Nat, NEW n \in Nat, NEW c, NEW r, ReaderAt(r, o, t, n, c)
  PROVE  /\ r.total_size = t /\ r.total_processed_size \in Nat /\ r.chunk_size \in Nat
         /\ r.chunk_processed_size \in Nat /\ r.is_chunk_exhausted \in BOOLEAN
         /\ c = r.total_processed_size + r.chunk_processed_size /\ c \in Nat
         /\ r.chunk_processed_size <= r.chunk_size /\ r.chunk_size <= n
         /\ r.total_processed_size + r.chunk_size <= t /\ c <= t
         /\ r.chunk_buffer \in [1 .. n -> Nat] /\ r.chunk_buffer \in Seq(Nat)
         /\ Len(r.chunk_buffer) = n /\ DOMAIN r.chunk_buffer = 1 .. n
         /\ r.chunk_size = n \/ r.chunk_size = 0 \/ r.total_processed_size + r.chunk_size = t
         /\ r.is_chunk_exhausted /\ r.total_processed_size + r.chunk_size = t =>
              r.chunk_processed_size = r.chunk_size
PROOF
<1>1. /\ r.total_size = t /\ r.total_processed_size \in Nat /\ r.chunk_size \in 0 .. n
      /\ r.chunk_processed_size \in Nat /\ r.is_chunk_exhausted \in BOOLEAN
      /\ r.chunk_buffer \in [1 .. n -> Nat]
  BY DEF ReaderAt, ReaderRecords
<1>2. /\ c = r.total_processed_size + r.chunk_processed_size
      /\ r.chunk_processed_size <= r.chunk_size
      /\ r.total_processed_size + r.chunk_size <= t
      /\ r.chunk_size = n \/ r.chunk_size = 0 \/ r.total_processed_size + r.chunk_size = t
      /\ r.is_chunk_exhausted /\ r.total_processed_size + r.chunk_size = t =>
           r.chunk_processed_size = r.chunk_size
  BY DEF ReaderAt
<1>3. /\ r.chunk_buffer \in Seq(Nat) /\ Len(r.chunk_buffer) = n /\ DOMAIN r.chunk_buffer = 1 .. n
  BY <1>1
<1> QED BY <1>1, <1>2, <1>3

LEMMA ReaderBegins ==
  ASSUME NEW o \in Nat, NEW t \in Nat, NEW n \in Nat
  PROVE  /\ ReaderAt(Perf!Reader(t, n), o, t, n, 0)
         /\ EndOfChunk(Perf!Reader(t, n), o) = o
         /\ Perf!Reader(t, n).chunk_size = 0 /\ Perf!Reader(t, n).total_processed_size = 0
         /\ Perf!Reader(t, n).chunk_processed_size = 0
PROOF
<1>1. PICK b : b = [i \in 1 .. n |-> 0]
  OBVIOUS
<1>2. PICK x \in BOOLEAN : x = TRUE
  OBVIOUS
<1>3. Perf!Reader(t, n) = [total_size |-> t, total_processed_size |-> 0, chunk_buffer |-> b,
                      chunk_size |-> 0, chunk_processed_size |-> 0, is_chunk_exhausted |-> x]
  BY <1>1, <1>2 DEF Perf!Reader, Perf!Uninitialized
<1>4. PICK r : r = Perf!Reader(t, n)
  OBVIOUS
<1>5. /\ r.total_size = t /\ r.total_processed_size = 0 /\ r.chunk_size = 0
      /\ r.chunk_processed_size = 0 /\ r.chunk_buffer = b
  BY <1>3, <1>4
<1>6. r \in ReaderRecords(n)
  <2>1. b \in [1 .. n -> Nat] /\ 0 \in 0 .. n
    BY <1>1
  <2> QED BY <1>3, <1>4, <2>1 DEF ReaderRecords
<1>7. ReaderAt(r, o, t, n, 0)
  <2>1. \A i \in 1 .. 0 : b[i] = o + 0 + i
    OBVIOUS
  <2> QED BY <1>5, <1>6, <2>1 DEF ReaderAt
<1>8. EndOfChunk(r, o) = o
  BY <1>5 DEF EndOfChunk
<1> QED BY <1>4, <1>5, <1>7, <1>8

LEMMA KeepsGoing ==
  ASSUME NEW o \in Nat, NEW t \in Nat, NEW n \in Nat, NEW c, NEW r, ReaderAt(r, o, t, n, c)
  PROVE  Perf!keep_going(r) <=> c < t
PROOF
<1>1. PICK tp, cs, cp, x :
        /\ tp = r.total_processed_size /\ cs = r.chunk_size /\ cp = r.chunk_processed_size
        /\ x = r.is_chunk_exhausted
  OBVIOUS
<1>2. /\ tp \in Nat /\ cs \in Nat /\ cp \in Nat /\ c = tp + cp /\ c \in Nat /\ cp <= cs
      /\ tp + cs <= t /\ c <= t /\ r.total_size = t
  BY <1>1, ReaderFacts
<1>3. Perf!keep_going(r) <=> ~(tp = t) /\ (x \/ ~(cp < cs) => t - (tp + cp) # 0)
  BY <1>1, <1>2 DEF Perf!keep_going, Perf!done, Perf!needs_chunk, Perf!chunk_has_more_data,
     Perf!remaining_data_bytes
<1>4. CASE c < t
  BY <1>2, <1>3, <1>4
<1>5. CASE ~(c < t)
  <2>1. tp + cp = t /\ ~(cp < cs) /\ t - (tp + cp) = 0
    BY <1>2, <1>5
  <2> QED BY <1>2, <1>3, <1>5, <2>1
<1> QED BY <1>4, <1>5

\* read_next_chunk() keeps what was not handed out, and appends what follows it.
LEMMA ChunkIsRead ==
  ASSUME NEW o \in Nat, NEW t \in Nat, NEW n \in Nat \ {0}, NEW c, NEW r, ReaderAt(r, o, t, n, c),
         c < t, Perf!needs_chunk(r)
  PROVE  LET s == Perf!read_next_chunk(r, EndOfChunk(r, o))
         IN  /\ ReaderAt(s, o, t, n, c) /\ ~s.is_chunk_exhausted
             /\ EndOfChunk(s, o) = EndOfChunk(r, o) + Perf!chunk_bytes_to_read(r)
             /\ s.total_processed_size = c /\ s.chunk_processed_size = 0
             /\ (r.chunk_processed_size = r.chunk_size =>
                   s.chunk_size = n \/ s.chunk_size = t - c)
PROOF
<1>1. PICK tp, cs, cp, x, b :
        /\ tp = r.total_processed_size /\ cs = r.chunk_size /\ cp = r.chunk_processed_size
        /\ x = r.is_chunk_exhausted /\ b = r.chunk_buffer
  OBVIOUS
<1>0. n \in Nat
  OBVIOUS
<1>a. /\ r.total_size = t /\ r.total_processed_size \in Nat /\ r.chunk_size \in Nat
      /\ r.chunk_processed_size \in Nat /\ r.is_chunk_exhausted \in BOOLEAN
      /\ c = r.total_processed_size + r.chunk_processed_size /\ c \in Nat
      /\ r.chunk_processed_size <= r.chunk_size /\ r.chunk_size <= n
      /\ r.total_processed_size + r.chunk_size <= t /\ c <= t
  BY <1>0, ReaderFacts
<1>b. /\ r.chunk_buffer \in [1 .. n -> Nat]
      /\ Len(r.chunk_buffer) = n /\ DOMAIN r.chunk_buffer = 1 .. n
      /\ r.chunk_size = n \/ r.chunk_size = 0 \/ r.total_processed_size + r.chunk_size = t
      /\ r.is_chunk_exhausted /\ r.total_processed_size + r.chunk_size = t =>
           r.chunk_processed_size = r.chunk_size
  BY <1>0, ReaderFacts
<1>2. /\ tp \in Nat /\ cs \in Nat /\ cp \in Nat /\ c = tp + cp /\ c \in Nat /\ cp <= cs /\ cs <= n
      /\ tp + cs <= t /\ c <= t /\ r.total_size = t /\ x \in BOOLEAN
      /\ b \in [1 .. n -> Nat] /\ Len(b) = n /\ DOMAIN b = 1 .. n
      /\ cs = n \/ cs = 0 \/ tp + cs = t
      /\ x /\ tp + cs = t => cp = cs
  BY <1>1, <1>a, <1>b
<1>3. \A i \in 1 .. cs : b[i] = o + tp + i
  BY <1>1 DEF ReaderAt
<1>4. x \/ ~(cp < cs)
  BY <1>1 DEF Perf!needs_chunk, Perf!chunk_has_more_data
<1>5. PICK k \in Nat : k = cs - cp
  BY <1>2
<1>6. k > 0 => cs = n
  BY <1>2, <1>4, <1>5
<1>7. PICK q \in Nat : q = IF t - c - k > n - k THEN n - k ELSE t - c - k
  <2>1. n - k \in Nat /\ t - c - k \in Nat
    BY <1>0, <1>2, <1>5
  <2> QED BY <2>1
<1>8. Perf!last_chunk_remaining_bytes(r) = k
  BY <1>1, <1>5 DEF Perf!last_chunk_remaining_bytes
<1>9. Perf!remaining_data_bytes(r) = t - c
  BY <1>1, <1>2 DEF Perf!remaining_data_bytes
<1>10. Perf!chunk_bytes_to_read(r) = q
  BY <1>1, <1>2, <1>7, <1>8, <1>9 DEF Perf!chunk_bytes_to_read
<1>11. PICK place : place = EndOfChunk(r, o)
  OBVIOUS
<1>12. place = o + tp + cs
  BY <1>1, <1>11 DEF EndOfChunk
<1>13. PICK d : d = [i \in 1 .. n |-> IF i <= k THEN b[n - k + i]
                                     ELSE IF i <= k + q THEN place + i - k ELSE b[i]]
  OBVIOUS
<1>14. PICK y \in BOOLEAN : y = FALSE
  OBVIOUS
<1>15. PICK s : s = Perf!read_next_chunk(r, place)
  OBVIOUS
<1>16. s = [r EXCEPT !.chunk_buffer = d, !.chunk_size = k + q, !.total_processed_size = tp + cp,
                     !.chunk_processed_size = 0, !.is_chunk_exhausted = y]
  BY <1>1, <1>2, <1>8, <1>10, <1>13, <1>14, <1>15 DEF Perf!read_next_chunk
<1>17. r = [total_size |-> t, total_processed_size |-> tp, chunk_buffer |-> b,
            chunk_size |-> cs, chunk_processed_size |-> cp, is_chunk_exhausted |-> x]
  BY <1>1, <1>2 DEF ReaderAt, ReaderRecords
<1>18. /\ s.total_size = t /\ s.total_processed_size = c /\ s.chunk_buffer = d /\ s.chunk_size = k + q
       /\ s.chunk_processed_size = 0 /\ s.is_chunk_exhausted = y
       /\ s = [total_size |-> s.total_size, total_processed_size |-> s.total_processed_size,
               chunk_buffer |-> s.chunk_buffer, chunk_size |-> s.chunk_size,
               chunk_processed_size |-> s.chunk_processed_size,
               is_chunk_exhausted |-> s.is_chunk_exhausted]
  BY <1>2, <1>16, <1>17
<1>19. k + q <= n /\ c + (k + q) <= t /\ (k + q = n \/ c + (k + q) = t)
  BY <1>2, <1>5, <1>7
<1>20. d \in [1 .. n -> Nat]
  <2>1. ASSUME NEW i \in 1 .. n
        PROVE  (IF i <= k THEN b[n - k + i] ELSE IF i <= k + q THEN place + i - k ELSE b[i]) \in Nat
    <3>1. i <= k => n - k + i \in 1 .. n
      BY <1>2, <1>5
    <3>2. ~(i <= k) => place + i - k \in Nat
      BY <1>2, <1>5, <1>12
    <3> QED BY <1>2, <3>1, <3>2
  <2> QED BY <1>13, <2>1
<1>21. ASSUME NEW i \in 1 .. k + q PROVE d[i] = o + c + i
  <2>1. i \in 1 .. n
    BY <1>19, <1>5
  <2>2. CASE i <= k
    <3>1. cs = n
      BY <1>6, <2>2
    <3>2. n - k + i \in 1 .. cs /\ n - k + i = cp + i
      BY <1>2, <1>5, <2>1, <2>2, <3>1
    <3>3. d[i] = o + tp + (cp + i)
      BY <1>3, <1>13, <2>1, <2>2, <3>2
    <3> QED BY <1>2, <2>1, <3>3
  <2>3. CASE ~(i <= k)
    <3>1. d[i] = place + i - k
      BY <1>13, <2>1, <2>3
    <3> QED BY <1>2, <1>5, <1>12, <2>1, <3>1
  <2> QED BY <2>2, <2>3
<1>22. s \in ReaderRecords(n)
  <2>1. k + q \in 0 .. n /\ 0 \in Nat /\ t \in Nat /\ c \in Nat
    BY <1>2, <1>19
  <2> QED BY <1>14, <1>18, <1>20, <2>1 DEF ReaderRecords
<1>23. ReaderAt(s, o, t, n, c)
  BY <1>2, <1>14, <1>18, <1>19, <1>21, <1>22 DEF ReaderAt
<1>24. EndOfChunk(s, o) = place + q
  BY <1>2, <1>5, <1>12, <1>18 DEF EndOfChunk
<1>25. cp = cs => k + q = n \/ k + q = t - c
  BY <1>2, <1>5, <1>19
<1> QED BY <1>1, <1>10, <1>11, <1>14, <1>15, <1>18, <1>23, <1>24, <1>25

LEMMA DataIsRetrieved ==
  ASSUME NEW o \in Nat, NEW t \in Nat, NEW n \in Nat, NEW c, NEW r, ReaderAt(r, o, t, n, c),
         NEW size \in Nat, Perf!has_data(r, size)
  PROVE  /\ Perf!retrieve_data(r, size) = Perf!Bytes(o + c, size) /\ c + size <= t
         /\ ~r.is_chunk_exhausted =>
              /\ ReaderAt(Perf!retrieved(r, size), o, t, n, c + size)
              /\ EndOfChunk(Perf!retrieved(r, size), o) = EndOfChunk(r, o)
PROOF
<1>1. PICK tp, cs, cp, x, b :
        /\ tp = r.total_processed_size /\ cs = r.chunk_size /\ cp = r.chunk_processed_size
        /\ x = r.is_chunk_exhausted /\ b = r.chunk_buffer
  OBVIOUS
<1>2. /\ tp \in Nat /\ cs \in Nat /\ cp \in Nat /\ c = tp + cp /\ c \in Nat /\ cp <= cs /\ cs <= n
      /\ tp + cs <= t /\ c <= t /\ r.total_size = t /\ x \in BOOLEAN
      /\ b \in [1 .. n -> Nat] /\ b \in Seq(Nat) /\ Len(b) = n /\ DOMAIN b = 1 .. n
      /\ cs = n \/ cs = 0 \/ tp + cs = t
  <2>1. /\ r.total_size = t /\ r.total_processed_size \in Nat /\ r.chunk_size \in Nat
        /\ r.chunk_processed_size \in Nat /\ r.is_chunk_exhausted \in BOOLEAN
        /\ c = r.total_processed_size + r.chunk_processed_size /\ c \in Nat
        /\ r.chunk_processed_size <= r.chunk_size /\ r.chunk_size <= n
        /\ r.total_processed_size + r.chunk_size <= t /\ c <= t
        /\ r.chunk_size = n \/ r.chunk_size = 0 \/ r.total_processed_size + r.chunk_size = t
    BY ReaderFacts
  <2>2. r.chunk_buffer \in [1 .. n -> Nat] /\ r.chunk_buffer \in Seq(Nat)
        /\ Len(r.chunk_buffer) = n /\ DOMAIN r.chunk_buffer = 1 .. n
    BY ReaderFacts
  <2> QED BY <1>1, <2>1, <2>2
<1>3. \A i \in 1 .. cs : b[i] = o + tp + i
  BY <1>1 DEF ReaderAt
<1>4. cp + size <= cs
  <2>1. cs - cp >= size
    BY <1>1 DEF Perf!has_data, Perf!last_chunk_remaining_bytes
  <2> QED BY <1>2, <2>1
<1>5. PICK w : w = SubSeq(b, cp + 1, cp + size)
  OBVIOUS
<1>6. /\ w \in Seq(Nat) /\ Len(w) = size /\ DOMAIN w = 1 .. size
      /\ \A i \in 1 .. size : w[i] = b[cp + i]
  <2>1. cp + 1 \in 1 .. Len(b) + 1 /\ cp + size \in 0 .. Len(b)
    BY <1>2, <1>4
  <2>2. \A i \in 1 .. size : w[i] = b[(cp + 1) + i - 1] /\ (cp + 1) + i - 1 = cp + i
    BY <1>2, <1>4, <1>5
  <2>3. Len(w) = size
    BY <1>2, <1>4, <1>5
  <2>4. w \in Seq(Nat)
    BY <1>2, <1>4, <1>5
  <2> QED BY <2>2, <2>3, <2>4
<1>7. w = Perf!Bytes(o + c, size)
  <2>1. ASSUME NEW i \in 1 .. size PROVE w[i] = o + c + i
    <3>1. cp + i \in 1 .. cs
      BY <1>2, <1>4
    <3>2. w[i] = o + tp + (cp + i)
      BY <1>3, <1>6, <3>1
    <3> QED BY <1>2, <3>2
  <2>2. w = [i \in 1 .. size |-> w[i]]
    BY <1>6
  <2> QED BY <2>1, <2>2 DEF Perf!Bytes
<1>8. Perf!retrieve_data(r, size) = w
  BY <1>1, <1>5 DEF Perf!retrieve_data
<1>9. c + size <= t
  BY <1>2, <1>4
<1>10. PICK s : s = Perf!retrieved(r, size)
  OBVIOUS
<1>11. r = [total_size |-> t, total_processed_size |-> tp, chunk_buffer |-> b,
            chunk_size |-> cs, chunk_processed_size |-> cp, is_chunk_exhausted |-> x]
  BY <1>1, <1>2 DEF ReaderAt, ReaderRecords
<1>12. s = [total_size |-> t, total_processed_size |-> tp, chunk_buffer |-> b,
            chunk_size |-> cs, chunk_processed_size |-> cp + size, is_chunk_exhausted |-> x]
  BY <1>10, <1>11 DEF Perf!retrieved
<1>13. ASSUME ~x PROVE ReaderAt(s, o, t, n, c + size)
  <2>1. s \in ReaderRecords(n)
    <3>1. cs \in 0 .. n /\ cp + size \in Nat
      BY <1>2
    <3> QED BY <1>2, <1>12, <3>1 DEF ReaderRecords
  <2>2. c + size = tp + (cp + size)
    BY <1>2
  <2> QED BY <1>2, <1>3, <1>4, <1>12, <1>13, <2>1, <2>2 DEF ReaderAt
<1>14. EndOfChunk(s, o) = EndOfChunk(r, o)
  BY <1>11, <1>12 DEF EndOfChunk
<1> QED BY <1>1, <1>7, <1>8, <1>9, <1>10, <1>13, <1>14

\* A part that begins in a chunk and ends in the next one is read on later.
LEMMA ChunkIsLeft ==
  ASSUME NEW o \in Nat, NEW t \in Nat, NEW n \in Nat, NEW c, NEW r, ReaderAt(r, o, t, n, c),
         NEW size \in Nat, ~Perf!has_data(r, size), c + size <= t
  PROVE  /\ ReaderAt(Perf!starved(r), o, t, n, c)
         /\ EndOfChunk(Perf!starved(r), o) = EndOfChunk(r, o)
PROOF
<1>1. PICK tp, cs, cp, x, b :
        /\ tp = r.total_processed_size /\ cs = r.chunk_size /\ cp = r.chunk_processed_size
        /\ x = r.is_chunk_exhausted /\ b = r.chunk_buffer
  OBVIOUS
<1>2. /\ tp \in Nat /\ cs \in Nat /\ cp \in Nat /\ c = tp + cp /\ c \in Nat /\ cp <= cs /\ cs <= n
      /\ tp + cs <= t /\ c <= t /\ r.total_size = t /\ x \in BOOLEAN
      /\ b \in [1 .. n -> Nat]
      /\ cs = n \/ cs = 0 \/ tp + cs = t
  <2>1. /\ r.total_size = t /\ r.total_processed_size \in Nat /\ r.chunk_size \in Nat
        /\ r.chunk_processed_size \in Nat /\ r.is_chunk_exhausted \in BOOLEAN
        /\ c = r.total_processed_size + r.chunk_processed_size /\ c \in Nat
        /\ r.chunk_processed_size <= r.chunk_size /\ r.chunk_size <= n
        /\ r.total_processed_size + r.chunk_size <= t /\ c <= t
        /\ r.chunk_size = n \/ r.chunk_size = 0 \/ r.total_processed_size + r.chunk_size = t
    BY ReaderFacts
  <2>2. r.chunk_buffer \in [1 .. n -> Nat]
    BY ReaderFacts
  <2> QED BY <1>1, <2>1, <2>2
<1>3. \A i \in 1 .. cs : b[i] = o + tp + i
  BY <1>1 DEF ReaderAt
<1>4. tp + cs # t
  <2>1. ~(cs - cp >= size)
    BY <1>1 DEF Perf!has_data, Perf!last_chunk_remaining_bytes
  <2> QED BY <1>2, <2>1
<1>5. PICK y \in BOOLEAN : y = TRUE
  OBVIOUS
<1>6. PICK s : s = Perf!starved(r)
  OBVIOUS
<1>7. r = [total_size |-> t, total_processed_size |-> tp, chunk_buffer |-> b,
            chunk_size |-> cs, chunk_processed_size |-> cp, is_chunk_exhausted |-> x]
  BY <1>1, <1>2 DEF ReaderAt, ReaderRecords
<1>8. s = [r EXCEPT !.is_chunk_exhausted = y]
  BY <1>5, <1>6 DEF Perf!starved
<1>9. s = [total_size |-> t, total_processed_size |-> tp, chunk_buffer |-> b,
            chunk_size |-> cs, chunk_processed_size |-> cp, is_chunk_exhausted |-> y]
  BY <1>7, <1>8
<1>10. s \in ReaderRecords(n)
  <2>1. cs \in 0 .. n
    BY <1>2
  <2> QED BY <1>2, <1>9, <2>1 DEF ReaderRecords
<1>11. ReaderAt(s, o, t, n, c)
  BY <1>2, <1>3, <1>4, <1>9, <1>10 DEF ReaderAt
<1>12. EndOfChunk(s, o) = EndOfChunk(r, o)
  BY <1>7, <1>9 DEF EndOfChunk
<1> QED BY <1>6, <1>11, <1>12

-----------------------------------------------------------------------------
(* Sums of sizes *)

\* What FoldSeq() computes with is a function on all sets of indices.
PickOf(S) == CHOOSE x \in S : TRUE
SumsOf(c, g) ==
  g = [S \in SUBSET (DOMAIN c) |->
         IF S = {} THEN 0 ELSE c[PickOf(S)] + g[S \ {PickOf(S)}]]

LEMMA PickedOne ==
  ASSUME NEW S, IsFiniteSet(S), S # {}
  PROVE  /\ PickOf(S) \in S
         /\ IsFiniteSet(S \ {PickOf(S)})
         /\ Cardinality(S) \in Nat /\ Cardinality(S) > 0
         /\ Cardinality(S \ {PickOf(S)}) = Cardinality(S) - 1
PROOF
<1>1. PickOf(S) \in S
  BY DEF PickOf
<1>2. IsFiniteSet(S \ {PickOf(S)}) /\ Cardinality(S \ {PickOf(S)}) = Cardinality(S) - 1
  BY <1>1, FS_RemoveElement
<1>3. Cardinality(S) \in Nat /\ Cardinality(S) > 0
  BY FS_CardinalityType, FS_EmptySet
<1> QED BY <1>1, <1>2, <1>3

LEMMA SumsExist ==
  ASSUME NEW c, IsFiniteSet(DOMAIN c)
  PROVE  \E g : SumsOf(c, g)
PROOF
<1> DEFINE Upto(n, g) ==
      \A S \in SUBSET (DOMAIN c) : Cardinality(S) <= n =>
        g[S] = IF S = {} THEN 0 ELSE c[PickOf(S)] + g[S \ {PickOf(S)}]
      T == {n \in Nat : \E g : Upto(n, g)}
<1>1. \A S \in SUBSET (DOMAIN c) : IsFiniteSet(S) /\ Cardinality(S) \in Nat
                                   /\ Cardinality(S) <= Cardinality(DOMAIN c)
  BY FS_Subset, FS_CardinalityType
<1>2. 0 \in T
  <2> DEFINE g == [S \in SUBSET (DOMAIN c) |-> 0]
  <2>1. \A S \in SUBSET (DOMAIN c) : Cardinality(S) <= 0 => S = {}
    BY <1>1, FS_EmptySet
  <2>2. Upto(0, g)
    BY <2>1
  <2> QED BY <2>2
<1>3. ASSUME NEW n \in T PROVE n + 1 \in T
  <2>1. n \in Nat
    OBVIOUS
  <2>2. PICK g : Upto(n, g)
    OBVIOUS
  <2> DEFINE value(S) == IF S = {} THEN 0 ELSE c[PickOf(S)] + g[S \ {PickOf(S)}]
      h == [S \in SUBSET (DOMAIN c) |-> value(S)]
  <2>3. \A S \in SUBSET (DOMAIN c) : Cardinality(S) <= n => h[S] = g[S]
    BY <2>2
  <2>4. ASSUME NEW S \in SUBSET (DOMAIN c), Cardinality(S) <= n + 1
        PROVE  h[S] = IF S = {} THEN 0 ELSE c[PickOf(S)] + h[S \ {PickOf(S)}]
    <3>1. CASE S = {}
      BY <3>1
    <3>2. CASE S # {}
      <4>1. Cardinality(S \ {PickOf(S)}) <= n
        BY <1>1, <2>1, <2>4, <3>2, PickedOne
      <4>2. h[S \ {PickOf(S)}] = g[S \ {PickOf(S)}]
        BY <2>3, <4>1
      <4> QED BY <3>2, <4>2
    <3> QED BY <3>1, <3>2
  <2> HIDE DEF h
  <2>5. Upto(n + 1, h)
    BY <2>4
  <2> HIDE DEF Upto
  <2>6. \E f : Upto(n + 1, f)
    BY <2>5
  <2>7. n + 1 \in Nat
    BY <2>1
  <2> QED BY <2>6, <2>7
<1> HIDE DEF T
<1>4. T = Nat
  <2>1. T \in SUBSET Nat
    BY DEF T
  <2> QED BY <1>2, <1>3, <2>1, Induction
<1>5. Cardinality(DOMAIN c) \in T
  BY <1>1, <1>4
<1>6. PICK g : Upto(Cardinality(DOMAIN c), g)
  BY <1>5 DEF T
<1> DEFINE h == [S \in SUBSET (DOMAIN c) |-> g[S]]
<1>7. \A S \in SUBSET (DOMAIN c) :
        h[S] = IF S = {} THEN 0 ELSE c[PickOf(S)] + h[S \ {PickOf(S)}]
  <2>1. \A S \in SUBSET (DOMAIN c) : S \ {PickOf(S)} \in SUBSET (DOMAIN c)
    OBVIOUS
  <2> QED BY <1>1, <1>6, <2>1
<1>8. h = [S \in SUBSET (DOMAIN c) |->
             IF S = {} THEN 0 ELSE c[PickOf(S)] + h[S \ {PickOf(S)}]]
  <2>1. \A S \in SUBSET (DOMAIN c) : h[S] = g[S]
    OBVIOUS
  <2>2. \A S \in SUBSET (DOMAIN c) :
          g[S] = IF S = {} THEN 0 ELSE c[PickOf(S)] + h[S \ {PickOf(S)}]
    BY <1>7, <2>1
  <2> QED BY <2>2
<1> HIDE DEF h
<1> QED BY <1>8 DEF SumsOf

LEMMA SumIs ==
  ASSUME NEW c, IsFiniteSet(DOMAIN c)
  PROVE  \E g : SumsOf(c, g) /\ Perf!SumOf(c) = g[DOMAIN c]
PROOF
<1> DEFINE g == CHOOSE h : h = [S \in SUBSET (DOMAIN c) |->
         IF S = {} THEN 0 ELSE c[CHOOSE x \in S : TRUE] + h[S \ {CHOOSE x \in S : TRUE}]]
<1>1. Perf!SumOf(c) = g[DOMAIN c]
  BY DEF Perf!SumOf, Perf!FoldSeq, Perf!FoldFunction, Perf!FoldFunctionOnSet, Perf!MapThenFoldSet
<1>2. SumsOf(c, g)
  <2>1. \E h : h = [S \in SUBSET (DOMAIN c) |->
         IF S = {} THEN 0 ELSE c[CHOOSE x \in S : TRUE] + h[S \ {CHOOSE x \in S : TRUE}]]
    BY SumsExist DEF SumsOf, PickOf
  <2>2. g = [S \in SUBSET (DOMAIN c) |->
         IF S = {} THEN 0 ELSE c[CHOOSE x \in S : TRUE] + g[S \ {CHOOSE x \in S : TRUE}]]
    BY <2>1
  <2> HIDE DEF g
  <2> QED BY <2>2 DEF SumsOf, PickOf
<1> QED BY <1>1, <1>2

\* The order in which FoldSeq() adds does not matter.
LEMMA AnyOneLess ==
  ASSUME NEW c, IsFiniteSet(DOMAIN c), \A y \in DOMAIN c : c[y] \in Nat, NEW g, SumsOf(c, g)
  PROVE  \A S \in SUBSET (DOMAIN c) :
           g[S] \in Nat /\ \A x \in S : g[S] = c[x] + g[S \ {x}]
PROOF
<1> DEFINE Right(S) == g[S] \in Nat /\ \A x \in S : g[S] = c[x] + g[S \ {x}]
           T == {n \in Nat : \A S \in SUBSET (DOMAIN c) : Cardinality(S) <= n => Right(S)}
<1>1. \A S \in SUBSET (DOMAIN c) : IsFiniteSet(S) /\ Cardinality(S) \in Nat
  BY FS_Subset, FS_CardinalityType
<1>2. /\ g[{}] = 0
      /\ \A S \in SUBSET (DOMAIN c) : S # {} => g[S] = c[PickOf(S)] + g[S \ {PickOf(S)}]
  BY DEF SumsOf
<1>3. 0 \in T
  <2>1. \A S \in SUBSET (DOMAIN c) : Cardinality(S) <= 0 => S = {}
    BY <1>1, FS_EmptySet
  <2>2. Right({})
    BY <1>2
  <2> HIDE DEF Right
  <2> QED BY <2>1, <2>2
<1>4. ASSUME NEW n \in T PROVE n + 1 \in T
  <2>1. n \in Nat /\ n + 1 \in Nat
    OBVIOUS
  <2>2. ASSUME NEW S \in SUBSET (DOMAIN c), Cardinality(S) <= n + 1, S # {} PROVE Right(S)
    <3>1. PICK p : p = PickOf(S)
      OBVIOUS
    <3>2. p \in S /\ g[S] = c[p] + g[S \ {p}] /\ c[p] \in Nat
      BY <1>1, <1>2, <2>2, <3>1, PickedOne
    <3>3. ASSUME NEW x \in S
          PROVE  S \ {x} \in SUBSET (DOMAIN c) /\ Cardinality(S \ {x}) <= n
      <4>1. Cardinality(S \ {x}) = Cardinality(S) - 1
        BY <1>1, FS_RemoveElement
      <4> QED BY <1>1, <2>1, <2>2, <4>1
    <3>4. \A x \in S : Right(S \ {x})
      <4> HIDE DEF Right
      <4> QED BY <3>3
    <3>5. g[S] \in Nat
      BY <3>2, <3>4
    <3>6. ASSUME NEW x \in S PROVE g[S] = c[x] + g[S \ {x}]
      <4>1. CASE x = p
        BY <3>2, <4>1
      <4>2. CASE x # p
        <5>1. g[S \ {p}] = c[x] + g[(S \ {p}) \ {x}] /\ g[S \ {x}] = c[p] + g[(S \ {x}) \ {p}]
          BY <3>2, <3>4, <4>2
        <5>2. (S \ {p}) \ {x} = (S \ {x}) \ {p}
          OBVIOUS
        <5>3. PICK D : D = (S \ {p}) \ {x}
          OBVIOUS
        <5>4. g[D] \in Nat
          <6>1. D \in SUBSET (DOMAIN c) /\ x \in S \ {p} /\ D = (S \ {p}) \ {x}
                /\ IsFiniteSet(S \ {p})
            BY <1>1, <3>2, <3>3, <4>2, <5>3
          <6>2. Cardinality(D) = Cardinality(S \ {p}) - 1 /\ Cardinality(S \ {p}) <= n
                /\ Cardinality(S \ {p}) \in Nat
            BY <1>1, <3>2, <3>3, <6>1, FS_RemoveElement
          <6>3. Cardinality(D) <= n /\ n \in T
            BY <1>1, <2>1, <6>1, <6>2
          <6> QED BY <6>1, <6>3
        <5>5. c[x] \in Nat
          OBVIOUS
        <5>6. g[S \ {p}] = c[x] + g[D] /\ g[S \ {x}] = c[p] + g[D]
          BY <5>1, <5>2, <5>3
        <5> QED BY <3>2, <5>4, <5>5, <5>6
      <4> QED BY <4>1, <4>2
    <3> QED BY <3>5, <3>6
  <2>3. Right({})
    BY <1>2
  <2> HIDE DEF Right
  <2>4. \A S \in SUBSET (DOMAIN c) : Cardinality(S) <= n + 1 => Right(S)
    BY <2>2, <2>3
  <2> QED BY <2>1, <2>4
<1> HIDE DEF Right
<1>5. T = Nat
  <2>1. T \in SUBSET Nat
    OBVIOUS
  <2> HIDE DEF T
  <2> QED BY <1>3, <1>4, <2>1, Induction
<1>6. \A S \in SUBSET (DOMAIN c) : Right(S)
  <2>1. ASSUME NEW S \in SUBSET (DOMAIN c) PROVE Right(S)
    <3>1. Cardinality(S) \in Nat
      BY <1>1
    <3>2. Cardinality(S) \in T
      BY <1>5, <3>1
    <3> QED BY <3>1, <3>2
  <2> QED BY <2>1
<1> QED BY <1>6 DEF Right

\* Sums only depend on what is added.
LEMMA SameSums ==
  ASSUME NEW c, IsFiniteSet(DOMAIN c), NEW g, SumsOf(c, g),
         NEW d, NEW h, SumsOf(d, h), DOMAIN d \subseteq DOMAIN c,
         \A y \in DOMAIN d : d[y] = c[y]
  PROVE  h[DOMAIN d] = g[DOMAIN d]
PROOF
<1> DEFINE T == {n \in Nat : \A S \in SUBSET (DOMAIN d) : Cardinality(S) <= n => h[S] = g[S]}
<1>1. \A S \in SUBSET (DOMAIN d) : IsFiniteSet(S) /\ Cardinality(S) \in Nat
  BY FS_Subset, FS_CardinalityType
<1>2. /\ g[{}] = 0 /\ h[{}] = 0
      /\ \A S \in SUBSET (DOMAIN c) : S # {} => g[S] = c[PickOf(S)] + g[S \ {PickOf(S)}]
      /\ \A S \in SUBSET (DOMAIN d) : S # {} => h[S] = d[PickOf(S)] + h[S \ {PickOf(S)}]
  BY DEF SumsOf
<1>3. 0 \in T
  <2>1. \A S \in SUBSET (DOMAIN d) : Cardinality(S) <= 0 => S = {}
    BY <1>1, FS_EmptySet
  <2> QED BY <1>2, <2>1
<1>4. ASSUME NEW n \in T PROVE n + 1 \in T
  <2>1. n \in Nat /\ n + 1 \in Nat
    OBVIOUS
  <2>2. ASSUME NEW S \in SUBSET (DOMAIN d), Cardinality(S) <= n + 1 PROVE h[S] = g[S]
    <3>1. CASE S = {}
      BY <1>2, <3>1
    <3>2. CASE S # {}
      <4>1. PICK p : p = PickOf(S)
        OBVIOUS
      <4>2. /\ p \in S /\ Cardinality(S \ {p}) = Cardinality(S) - 1 /\ Cardinality(S) \in Nat
            /\ S \ {p} \in SUBSET (DOMAIN d) /\ S \in SUBSET (DOMAIN c)
        BY <1>1, <3>2, <4>1, PickedOne
      <4>3. Cardinality(S \ {p}) <= n
        BY <2>1, <2>2, <4>2
      <4>4. h[S \ {p}] = g[S \ {p}]
        BY <4>2, <4>3
      <4>5. g[S] = c[p] + g[S \ {p}] /\ h[S] = d[p] + h[S \ {p}]
        BY <1>2, <3>2, <4>1, <4>2
      <4>6. d[p] = c[p]
        BY <4>2
      <4> QED BY <4>4, <4>5, <4>6
    <3> QED BY <3>1, <3>2
  <2> QED BY <2>1, <2>2
<1>5. T = Nat
  <2>1. T \in SUBSET Nat
    OBVIOUS
  <2> HIDE DEF T
  <2> QED BY <1>3, <1>4, <2>1, Induction
<1>6. DOMAIN d \in SUBSET (DOMAIN d)
  OBVIOUS
<1>7. Cardinality(DOMAIN d) \in T /\ Cardinality(DOMAIN d) <= Cardinality(DOMAIN d)
  <2> HIDE DEF T
  <2> QED BY <1>1, <1>5, <1>6
<1> QED BY <1>6, <1>7

\* The sum of the first k elements of a sequence.
FirstSum(w, k) == Perf!SumOf(SubSeq(w, 1, k))

LEMMA FirstSums ==
  ASSUME NEW w \in Seq(Nat)
  PROVE  /\ FirstSum(w, 0) = 0 /\ FirstSum(w, Len(w)) = Perf!SumOf(w)
         /\ \A k \in 0 .. Len(w) : FirstSum(w, k) \in Nat
         /\ \A k \in 1 .. Len(w) : FirstSum(w, k) = FirstSum(w, k - 1) + w[k]
PROOF
<1>1. PICK n \in Nat : n = Len(w)
  OBVIOUS
<1>2. DOMAIN w = 1 .. n /\ \A k \in 1 .. n : w[k] \in Nat
  BY <1>1
<1>3. IsFiniteSet(DOMAIN w)
  BY <1>2, FS_Interval
<1>4. PICK g : SumsOf(w, g) /\ Perf!SumOf(w) = g[DOMAIN w]
  BY <1>3, SumIs
<1>5. ASSUME NEW k \in 0 .. n PROVE FirstSum(w, k) = g[1 .. k]
  <2>1. PICK u : u = SubSeq(w, 1, k)
    OBVIOUS
  <2>2. DOMAIN u = 1 .. k /\ \A i \in 1 .. k : u[i] = w[i]
    BY <1>1, <2>1
  <2>3. IsFiniteSet(DOMAIN u) /\ DOMAIN u \subseteq DOMAIN w
    BY <1>2, <2>2, FS_Interval
  <2>4. PICK h : SumsOf(u, h) /\ Perf!SumOf(u) = h[DOMAIN u]
    BY <2>3, SumIs
  <2>5. h[DOMAIN u] = g[DOMAIN u]
    BY <1>3, <1>4, <2>2, <2>3, <2>4, SameSums
  <2> QED BY <2>1, <2>2, <2>4, <2>5 DEF FirstSum
<1>6. \A S \in SUBSET (DOMAIN w) : g[S] \in Nat /\ \A x \in S : g[S] = w[x] + g[S \ {x}]
  <2>1. \A y \in DOMAIN w : w[y] \in Nat
    BY <1>2
  <2> QED BY <1>3, <1>4, <2>1, AnyOneLess
<1>7. g[1 .. 0] = 0
  <2>1. 1 .. 0 = {}
    OBVIOUS
  <2>2. g[{}] = 0
    BY <1>4 DEF SumsOf
  <2> QED BY <2>1, <2>2
<1>8. FirstSum(w, 0) = 0
  BY <1>5, <1>7
<1>9. FirstSum(w, n) = Perf!SumOf(w)
  BY <1>2, <1>4, <1>5
<1>10. \A k \in 0 .. n : g[1 .. k] \in Nat
  BY <1>2, <1>6
<1>11. ASSUME NEW k \in 1 .. n PROVE g[1 .. k] = g[1 .. (k - 1)] + w[k]
  <2>1. k \in 1 .. k /\ 1 .. k \in SUBSET (DOMAIN w) /\ (1 .. k) \ {k} = 1 .. (k - 1)
    BY <1>2
  <2>2. g[1 .. k] = w[k] + g[1 .. (k - 1)]
    BY <1>6, <2>1
  <2>3. g[1 .. (k - 1)] \in Nat /\ w[k] \in Nat
    BY <1>2, <1>10
  <2> QED BY <2>2, <2>3
<1>12. ASSUME NEW k \in 1 .. n PROVE FirstSum(w, k) = FirstSum(w, k - 1) + w[k]
  <2>1. k \in 0 .. n /\ k - 1 \in 0 .. n
    OBVIOUS
  <2> QED BY <1>5, <1>11, <2>1
<1>13. \A k \in 0 .. n : FirstSum(w, k) \in Nat
  BY <1>5, <1>10
<1> QED BY <1>1, <1>8, <1>9, <1>12, <1>13

LEMMA FirstSumsGrow ==
  ASSUME NEW w \in Seq(Nat), NEW k \in 0 .. Len(w), NEW l \in 0 .. Len(w), k <= l
  PROVE  FirstSum(w, k) <= FirstSum(w, l)
PROOF
<1> DEFINE T == {n \in Nat : k + n <= Len(w) => FirstSum(w, k) <= FirstSum(w, k + n)}
<1>1. k \in Nat /\ l \in Nat /\ Len(w) \in Nat
  OBVIOUS
<1>2. 0 \in T
  BY <1>1, FirstSums
<1>3. ASSUME NEW n \in T PROVE n + 1 \in T
  <2>1. n \in Nat /\ (k + n <= Len(w) => FirstSum(w, k) <= FirstSum(w, k + n))
    OBVIOUS
  <2>2. ASSUME k + (n + 1) <= Len(w) PROVE FirstSum(w, k) <= FirstSum(w, k + (n + 1))
    <3>1. PICK m : m = k + (n + 1)
      OBVIOUS
    <3>2. m \in 1 .. Len(w) /\ m - 1 = k + n /\ k + n <= Len(w) /\ m - 1 \in 0 .. Len(w)
      BY <1>1, <2>1, <2>2, <3>1
    <3>3. FirstSum(w, m) = FirstSum(w, m - 1) + w[m]
      BY <3>2, FirstSums
    <3>4. FirstSum(w, m - 1) \in Nat /\ FirstSum(w, k) \in Nat /\ w[m] \in Nat
      BY <3>2, FirstSums
    <3>5. FirstSum(w, k) <= FirstSum(w, m - 1)
      BY <2>1, <3>2
    <3> QED BY <3>1, <3>3, <3>4, <3>5
  <2>3. n + 1 \in Nat
    BY <2>1
  <2> QED BY <2>2, <2>3
<1>4. T = Nat
  <2>1. T \in SUBSET Nat
    OBVIOUS
  <2> HIDE DEF T
  <2> QED BY <1>2, <1>3, <2>1, Induction
<1>5. l - k \in T /\ k + (l - k) = l
  <2> HIDE DEF T
  <2> QED BY <1>1, <1>4
<1> QED BY <1>1, <1>5

\* Events lie one behind the other, each with its header at least.
LEMMA EventsLie ==
  ASSUME NEW sizes \in Seq(Nat)
  PROVE  /\ Perf!SumOf(Perf!Widths(sizes)) \in Nat
         /\ Perf!Before(sizes, 1) = 0
         /\ Perf!Before(sizes, Len(sizes) + 1) = Perf!SumOf(Perf!Widths(sizes))
         /\ \A k \in 1 .. Len(sizes) + 1 :
              Perf!Before(sizes, k) \in Nat /\ Perf!Before(sizes, k) <= Perf!SumOf(Perf!Widths(sizes))
         /\ \A k \in 1 .. Len(sizes) :
              /\ Perf!Width(sizes[k]) \in Nat \ {0} /\ HeaderSize <= Perf!Width(sizes[k])
              /\ Perf!Before(sizes, k + 1) = Perf!Before(sizes, k) + Perf!Width(sizes[k])
         /\ \A j, k \in 1 .. Len(sizes) + 1 : j < k => Perf!Before(sizes, j) < Perf!Before(sizes, k)
PROOF
<1>1. PICK w : w = Perf!Widths(sizes)
  OBVIOUS
<1>2. HeaderSize \in Nat \ {0}
  BY ChunksAssumption
<1>3. ASSUME NEW k \in 1 .. Len(sizes)
      PROVE  Perf!Width(sizes[k]) \in Nat \ {0} /\ HeaderSize <= Perf!Width(sizes[k])
  <2>1. sizes[k] \in Nat
    OBVIOUS
  <2> QED BY <1>2, <2>1 DEF Perf!Width
<1>4. w \in Seq(Nat) /\ Len(w) = Len(sizes) /\ \A k \in 1 .. Len(sizes) : w[k] = Perf!Width(sizes[k])
  <2>1. w = [k \in 1 .. Len(sizes) |-> Perf!Width(sizes[k])]
    BY <1>1 DEF Perf!Widths
  <2>2. Len(sizes) \in Nat
    OBVIOUS
  <2> QED BY <1>3, <2>1, <2>2
<1>5. \A k : Perf!Before(sizes, k) = FirstSum(w, k - 1)
  BY <1>1 DEF Perf!Before, FirstSum
<1>6. PICK n \in Nat : n = Len(sizes)
  OBVIOUS
<1>7. Perf!Before(sizes, 1) = 0 /\ Perf!Before(sizes, n + 1) = Perf!SumOf(w)
  <2>1. 1 - 1 = 0 /\ (n + 1) - 1 = n
    OBVIOUS
  <2>2. Perf!Before(sizes, 1) = FirstSum(w, 0) /\ Perf!Before(sizes, n + 1) = FirstSum(w, n)
    BY <1>5, <2>1
  <2> QED BY <1>4, <1>6, <2>2, FirstSums
<1>8. ASSUME NEW j \in 1 .. n + 1, NEW k \in 1 .. n + 1, j <= k
      PROVE  /\ Perf!Before(sizes, j) \in Nat /\ Perf!Before(sizes, j) <= Perf!Before(sizes, k)
  <2>1. j - 1 \in 0 .. Len(w) /\ k - 1 \in 0 .. Len(w) /\ j - 1 <= k - 1
    BY <1>4, <1>6, <1>8
  <2>2. FirstSum(w, j - 1) \in Nat /\ FirstSum(w, j - 1) <= FirstSum(w, k - 1)
    BY <1>4, <2>1, FirstSums, FirstSumsGrow
  <2> QED BY <1>5, <2>2
<1>9. ASSUME NEW k \in 1 .. n
      PROVE  Perf!Before(sizes, k + 1) = Perf!Before(sizes, k) + Perf!Width(sizes[k])
  <2>1. FirstSum(w, k) = FirstSum(w, k - 1) + w[k]
    BY <1>4, <1>6, FirstSums
  <2>2. (k + 1) - 1 = k
    OBVIOUS
  <2>3. Perf!Before(sizes, k + 1) = FirstSum(w, k)
    BY <1>5, <2>2
  <2> QED BY <1>4, <1>5, <1>6, <2>1, <2>3
<1>10. ASSUME NEW j \in 1 .. n + 1, NEW k \in 1 .. n + 1, j < k
       PROVE  Perf!Before(sizes, j) < Perf!Before(sizes, k)
  <2>1. j \in 1 .. n /\ j + 1 \in 1 .. n + 1 /\ j + 1 <= k /\ j <= j
    BY <1>10
  <2>2. PICK a, b, c, x : a = Perf!Before(sizes, j) /\ b = Perf!Before(sizes, j + 1) /\ c = Perf!Before(sizes, k)
                          /\ x = Perf!Width(sizes[j])
    OBVIOUS
  <2>3. a \in Nat /\ b \in Nat /\ b <= c /\ c \in Nat
    <3>1. k <= k /\ j + 1 <= j + 1
      BY <2>1
    <3> QED BY <1>8, <2>1, <2>2, <3>1
  <2>4. b = a + x /\ x \in Nat \ {0}
    BY <1>3, <1>6, <1>9, <2>1, <2>2
  <2> QED BY <2>2, <2>3, <2>4
<1>11. ASSUME NEW k \in 1 .. n + 1
       PROVE  Perf!Before(sizes, k) \in Nat /\ Perf!Before(sizes, k) <= Perf!SumOf(w)
  <2>1. n + 1 \in 1 .. n + 1 /\ k <= n + 1
    OBVIOUS
  <2> QED BY <1>7, <1>8, <2>1
<1>12. Perf!SumOf(w) \in Nat
  <2>1. n + 1 \in 1 .. n + 1
    OBVIOUS
  <2> QED BY <1>7, <1>11, <2>1
<1> QED BY <1>1, <1>3, <1>6, <1>7, <1>9, <1>10, <1>11, <1>12

-----------------------------------------------------------------------------
(* Where things are in a file *)

LEMMA BytesFacts ==
  ASSUME NEW o \in Nat, NEW n \in Nat
  PROVE  /\ Perf!Bytes(o, n) \in Seq(Nat) /\ Len(Perf!Bytes(o, n)) = n
         /\ \A i \in 1 .. n : Perf!Bytes(o, n)[i] = o + i
         /\ \A m \in 0 .. n : SubSeq(Perf!Bytes(o, n), 1, m) = Perf!Bytes(o, m)
         /\ \A p \in Nat : n # 0 /\ Perf!Bytes(p, n) = Perf!Bytes(o, n) => p = o
PROOF
<1>1. PICK b : b = Perf!Bytes(o, n)
  OBVIOUS
<1>2. b = [i \in 1 .. n |-> o + i]
  BY <1>1 DEF Perf!Bytes
<1>3. b \in Seq(Nat) /\ Len(b) = n /\ \A i \in 1 .. n : b[i] = o + i
  <2>1. \A i \in 1 .. n : o + i \in Nat
    OBVIOUS
  <2> QED BY <1>2, <2>1
<1>4. ASSUME NEW m \in 0 .. n PROVE SubSeq(b, 1, m) = Perf!Bytes(o, m)
  <2>1. PICK u : u = SubSeq(b, 1, m)
    OBVIOUS
  <2>2. u \in Seq(Nat) /\ Len(u) = m /\ \A i \in 1 .. m : u[i] = b[i]
    BY <1>3, <2>1
  <2>3. u = [i \in 1 .. m |-> u[i]]
    BY <2>2
  <2>4. \A i \in 1 .. m : u[i] = o + i
    BY <1>3, <2>2
  <2> QED BY <2>1, <2>3, <2>4 DEF Perf!Bytes
<1>5. ASSUME NEW p \in Nat, n # 0, Perf!Bytes(p, n) = b PROVE p = o
  <2>1. 1 \in 1 .. n
    BY <1>5
  <2>2. b[1] = p + 1
    BY <1>5, <2>1 DEF Perf!Bytes
  <2> QED BY <1>3, <2>1, <2>2
<1> QED BY <1>1, <1>3, <1>4, <1>5

LEMMA FeaturesFinite ==
  ASSUME NEW F, F \subseteq AllNames
  PROVE  IsFiniteSet(F) /\ Cardinality(F) \in Nat
PROOF
<1>1. IsFiniteSet(1 .. 4)
  <2>1. 1 \in Int /\ 4 \in Int
    OBVIOUS
  <2> QED BY <2>1, FS_Interval
<1>2. PICK S : S = {Perf!AllFeatures[f] : f \in 1 .. 4}
  OBVIOUS
<1>4. IsFiniteSet(S)
  <2>1. PICK g : g = [f \in 1 .. 4 |-> Perf!AllFeatures[f]]
    OBVIOUS
  <2>2. g \in Surjection(1 .. 4, S)
    BY <1>2, <2>1 DEF Surjection
  <2> QED BY <1>1, <2>2, FS_Surjection
<1>5. F \subseteq S
  BY <1>2 DEF AllNames, FeaturesOf
<1> QED BY <1>4, <1>5, FS_Subset, FS_CardinalityType

\* Where the sections lie: those of the features and of the ids of builds behind the events.
LEMMA Layout ==
  ASSUME Scene(scene)
  PROVE  /\ Perf!AttributesOffset \in Nat /\ Perf!DataOffset \in Nat
         /\ Perf!FeaturesOffset \in Nat /\ Perf!BuildsOffset \in Nat
         /\ Perf!FeaturesOffset = Perf!DataOffset + Perf!SumOf(Perf!Widths(scene.events))
         /\ Perf!FeaturesOffset <= Perf!BuildsOffset
         /\ Perf!AttributesSize = EntrySize * Len(scene.ids)
         /\ \A a : Perf!IdsSize(a) = IdSize * scene.ids[a]
         /\ Perf!BuildsSize = Perf!SumOf(Perf!Widths(scene.builds))
         /\ Perf!EventsSize = Perf!SumOf(Perf!Widths(scene.events))
         /\ EntrySize * Len(scene.ids) \in Nat
         /\ SectionSize * Cardinality(scene.features) \in Nat
         /\ \A a \in 1 .. Len(scene.ids) :
              Perf!IdsOffset(a) \in Nat /\ scene.ids[a] \in Nat /\ IdSize * scene.ids[a] \in Nat
PROOF
<1>1. scene.ids \in Seq(Nat) /\ scene.events \in Seq(Nat)
  BY DEF Scene
<1>2. IdSize \in Nat /\ EntrySize \in Nat /\ SectionSize \in Nat
  BY ChunksAssumption
<1>3. PICK ids : ids = scene.ids
  OBVIOUS
<1>4. ids \in Seq(Nat) /\ Len(ids) \in Nat
  BY <1>1, <1>3
<1>5. PICK s \in Nat : s = Perf!SumOf(ids)
  <2>1. Len(ids) \in 0 .. Len(ids)
    BY <1>4
  <2> QED BY <1>4, <2>1, FirstSums
<1>6. Perf!AttributesOffset \in Nat
  BY <1>2, <1>3, <1>5 DEF Perf!AttributesOffset
<1>7. EntrySize * Len(scene.ids) \in Nat
  BY <1>2, <1>3, <1>4
<1>8. Perf!DataOffset \in Nat
  BY <1>6, <1>7 DEF Perf!DataOffset
<1>9. Perf!SumOf(Perf!Widths(scene.events)) \in Nat
  BY <1>1, EventsLie
<1>0. /\ Perf!AttributesSize = EntrySize * Len(scene.ids)
      /\ \A a : Perf!IdsSize(a) = IdSize * scene.ids[a]
      /\ Perf!BuildsSize = Perf!SumOf(Perf!Widths(scene.builds))
      /\ Perf!EventsSize = Perf!SumOf(Perf!Widths(scene.events))
  <2>1. \A q \in {"attributes", "ids", "build_ids", "events"} : \A n : Perf!SizeSaid(q, n) = n
    BY DEF Scene, Perf!SizeSaid
  <2> QED BY <2>1 DEF Perf!AttributesSize, Perf!IdsSize, Perf!BuildsSize, Perf!EventsSize
<1>10. Perf!FeaturesOffset = Perf!DataOffset + Perf!SumOf(Perf!Widths(scene.events))
       /\ Perf!FeaturesOffset \in Nat
  BY <1>0, <1>8, <1>9 DEF Perf!FeaturesOffset
<1>11. Cardinality(scene.features) \in Nat
  BY FeaturesFinite DEF Scene
<1>12. PICK z \in Nat : z = SectionSize * Cardinality(scene.features)
  BY <1>2, <1>11
<1>13. Perf!BuildsOffset \in Nat /\ Perf!FeaturesOffset <= Perf!BuildsOffset
  BY <1>10, <1>12, SameOperators DEF Perf!BuildsOffset
<1>14. ASSUME NEW a \in 1 .. Len(scene.ids)
       PROVE  Perf!IdsOffset(a) \in Nat /\ scene.ids[a] \in Nat /\ IdSize * scene.ids[a] \in Nat
  <2>1. a - 1 \in 0 .. Len(ids)
    BY <1>3, <1>4
  <2>2. PICK m \in Nat : m = FirstSum(ids, a - 1)
    BY <1>4, <2>1, FirstSums
  <2>3. Perf!IdsOffset(a) = 1 + IdSize * m
    BY <1>3, <2>2 DEF Perf!IdsOffset, FirstSum
  <2>4. scene.ids[a] \in Nat
    BY <1>1
  <2>5. IdSize * m \in Nat /\ IdSize * scene.ids[a] \in Nat
    BY <1>2, <2>4
  <2> QED BY <2>3, <2>4, <2>5
<1> QED BY <1>0, <1>6, <1>7, <1>8, <1>10, <1>12, <1>13, <1>14

LEMMA LayoutStays ==
  ASSUME scene' = scene
  PROVE  /\ Perf!AttributesOffset' = Perf!AttributesOffset /\ Perf!DataOffset' = Perf!DataOffset
         /\ Perf!FeaturesOffset' = Perf!FeaturesOffset /\ Perf!BuildsOffset' = Perf!BuildsOffset
         /\ \A a : Perf!IdsOffset(a)' = Perf!IdsOffset(a) /\ Perf!EntryBytes(a)' = Perf!EntryBytes(a)
         /\ \A a, i : Perf!IdBytes(a, i)' = Perf!IdBytes(a, i)
         /\ \A k : Perf!EventBytes(k)' = Perf!EventBytes(k) /\ Perf!BuildBytes(k)' = Perf!BuildBytes(k)
         /\ Perf!RefusesBuilds' <=> Perf!RefusesBuilds
PROOF
<1>1. Perf!AttributesOffset' = Perf!AttributesOffset
  BY DEF Perf!AttributesOffset
<1>2. Perf!DataOffset' = Perf!DataOffset
  BY <1>1 DEF Perf!DataOffset
<1>3. Perf!FeaturesOffset' = Perf!FeaturesOffset
  BY <1>2 DEF Perf!FeaturesOffset, Perf!EventsSize, Perf!SizeSaid
<1>4. Perf!BuildsOffset' = Perf!BuildsOffset
  BY <1>3 DEF Perf!BuildsOffset
<1>5. \A a : Perf!IdsOffset(a)' = Perf!IdsOffset(a)
  BY DEF Perf!IdsOffset
<1>6. \A a : Perf!EntryBytes(a)' = Perf!EntryBytes(a)
  BY <1>1 DEF Perf!EntryBytes
<1>7. \A a, i : Perf!IdBytes(a, i)' = Perf!IdBytes(a, i)
  BY <1>5 DEF Perf!IdBytes
<1>8. \A k : Perf!EventBytes(k)' = Perf!EventBytes(k) /\ Perf!BuildBytes(k)' = Perf!BuildBytes(k)
  BY <1>2, <1>4 DEF Perf!EventBytes, Perf!BuildBytes
<1>9. Perf!RefusesBuilds' <=> Perf!RefusesBuilds
  BY DEF Perf!RefusesBuilds
<1> QED BY <1>1, <1>2, <1>3, <1>4, <1>5, <1>6, <1>7, <1>8, <1>9

\* No entry and no event is mistaken for another one.
LEMMA EntryIsKnown ==
  ASSUME Scene(scene), NEW a \in 1 .. Len(scene.ids)
  PROVE  /\ Perf!EntryBytes(a) = Perf!Bytes(Perf!AttributesOffset + EntrySize * (a - 1), EntrySize)
         /\ Perf!Entries(Perf!EntryBytes(a)) = {a}
PROOF
<1>1. EntrySize \in Nat \ {0} /\ Perf!AttributesOffset \in Nat
  BY ChunksAssumption, Layout
<1>2. PICK o : o = Perf!AttributesOffset
  OBVIOUS
<1>3. ASSUME NEW b \in 1 .. Len(scene.ids)
      PROVE  /\ (b - 1) * EntrySize = EntrySize * (b - 1) /\ EntrySize * (b - 1) \in Nat
             /\ o + (b - 1) * EntrySize \in Nat
             /\ Perf!EntryBytes(b) = Perf!Bytes(o + (b - 1) * EntrySize, EntrySize)
  <2>1. PICK m \in Nat : m = b - 1
    OBVIOUS
  <2>2. m * EntrySize = EntrySize * m /\ m * EntrySize \in Nat
    BY <1>1
  <2>3. o + m * EntrySize \in Nat
    BY <1>1, <1>2, <2>2
  <2> QED BY <1>2, <2>1, <2>2, <2>3 DEF Perf!EntryBytes
<1>4. ASSUME NEW b \in 1 .. Len(scene.ids), Perf!EntryBytes(b) = Perf!EntryBytes(a)
      PROVE  b = a
  <2>1. PICK m \in Nat, n \in Nat : m = b - 1 /\ n = a - 1
    OBVIOUS
  <2>2. o + m * EntrySize = o + n * EntrySize
    <3>1. PICK p, q : p = o + m * EntrySize /\ q = o + n * EntrySize
      OBVIOUS
    <3>2. p \in Nat /\ q \in Nat /\ Perf!Bytes(p, EntrySize) = Perf!Bytes(q, EntrySize)
      BY <1>3, <1>4, <2>1, <3>1
    <3> QED BY <1>1, <3>1, <3>2, BytesFacts
  <2>3. PICK x \in Nat, y \in Nat : x = m * EntrySize /\ y = n * EntrySize
    BY <1>1
  <2>4. x = y
    BY <1>1, <1>2, <2>2, <2>3
  <2>5. m = n
    BY <1>1, <2>3, <2>4, SMTT(30)
  <2> QED BY <2>1, <2>5
<1>5. DOMAIN scene.ids = 1 .. Len(scene.ids)
  BY DEF Scene
<1>6. PICK e : e = Perf!EntryBytes(a)
  OBVIOUS
<1>7. {b \in DOMAIN scene.ids : e = Perf!EntryBytes(b)} = {a}
  BY <1>4, <1>5, <1>6
<1>8. Perf!Entries(e) = {a}
  BY <1>7 DEF Perf!Entries
<1> QED BY <1>2, <1>3, <1>6, <1>8

LEMMA EventsAreApart ==
  ASSUME Scene(scene), NEW j \in 1 .. Len(scene.events), NEW k \in 1 .. Len(scene.builds)
  PROVE  Perf!DataOffset + Perf!Before(scene.events, j) < Perf!BuildsOffset + Perf!Before(scene.builds, k)
PROOF
<1>1. scene.events \in Seq(Nat) /\ scene.builds \in Seq(Nat)
  BY DEF Scene
<1>2. PICK d, b, x, y, s : /\ d = Perf!DataOffset /\ b = Perf!BuildsOffset /\ x = Perf!Before(scene.events, j)
                           /\ y = Perf!Before(scene.builds, k)
                           /\ s = Perf!SumOf(Perf!Widths(scene.events))
  OBVIOUS
<1>3. j \in 1 .. Len(scene.events) + 1 /\ k \in 1 .. Len(scene.builds) + 1
      /\ Len(scene.events) + 1 \in 1 .. Len(scene.events) + 1 /\ j < Len(scene.events) + 1
  BY <1>1
<1>4. d \in Nat /\ b \in Nat /\ s \in Nat /\ d + s <= b
  BY <1>1, <1>2, Layout, EventsLie
<1>5. x \in Nat /\ y \in Nat
  BY <1>1, <1>2, <1>3, EventsLie
<1>6. x < s
  BY <1>1, <1>2, <1>3, EventsLie
<1> QED BY <1>2, <1>4, <1>5, <1>6

LEMMA SizeIsKnown ==
  ASSUME Scene(scene)
  PROVE  /\ \A k \in 1 .. Len(scene.events) :
              /\ Perf!SizeFields(Perf!Bytes(Perf!DataOffset + Perf!Before(scene.events, k), HeaderSize)) = {scene.events[k]}
              /\ Perf!EventBytes(k) = Perf!Bytes(Perf!DataOffset + Perf!Before(scene.events, k), Perf!Width(scene.events[k]))
         /\ \A k \in 1 .. Len(scene.builds) :
              /\ Perf!SizeFields(Perf!Bytes(Perf!BuildsOffset + Perf!Before(scene.builds, k), HeaderSize)) = {scene.builds[k]}
              /\ Perf!BuildBytes(k) = Perf!Bytes(Perf!BuildsOffset + Perf!Before(scene.builds, k), Perf!Width(scene.builds[k]))
PROOF
<1>1. /\ scene.events \in Seq(Nat) /\ scene.builds \in Seq(Nat) /\ HeaderSize \in Nat \ {0}
      /\ Perf!DataOffset \in Nat /\ Perf!BuildsOffset \in Nat
  BY ChunksAssumption, Layout DEF Scene
<1>2. /\ DOMAIN scene.events = 1 .. Len(scene.events) /\ Len(scene.events) \in Nat
      /\ DOMAIN scene.builds = 1 .. Len(scene.builds) /\ Len(scene.builds) \in Nat
  BY <1>1
<1> DEFINE e(k) == Perf!DataOffset + Perf!Before(scene.events, k)
           b(k) == Perf!BuildsOffset + Perf!Before(scene.builds, k)
<1>3. ASSUME NEW k \in 1 .. Len(scene.events)
      PROVE  e(k) \in Nat /\ SubSeq(Perf!EventBytes(k), 1, HeaderSize) = Perf!Bytes(e(k), HeaderSize)
  <2>1. k \in 1 .. Len(scene.events) + 1
    BY <1>2
  <2>2. e(k) \in Nat
    <3>1. Perf!Before(scene.events, k) \in Nat
      BY <1>1, <2>1, EventsLie
    <3> QED BY <1>1, <3>1
  <2>3. Perf!Width(scene.events[k]) \in Nat /\ HeaderSize \in 0 .. Perf!Width(scene.events[k])
    BY <1>1, EventsLie
  <2>4. Perf!EventBytes(k) = Perf!Bytes(e(k), Perf!Width(scene.events[k]))
    BY DEF Perf!EventBytes
  <2>5. PICK p : p = e(k)
    OBVIOUS
  <2>6. PICK v : v = Perf!Width(scene.events[k])
    OBVIOUS
  <2> HIDE DEF e
  <2>7. SubSeq(Perf!Bytes(p, v), 1, HeaderSize) = Perf!Bytes(p, HeaderSize)
    BY <2>2, <2>3, <2>5, <2>6, BytesFacts
  <2> QED BY <2>2, <2>4, <2>5, <2>6, <2>7
<1>4. ASSUME NEW k \in 1 .. Len(scene.builds)
      PROVE  b(k) \in Nat /\ SubSeq(Perf!BuildBytes(k), 1, HeaderSize) = Perf!Bytes(b(k), HeaderSize)
  <2>1. k \in 1 .. Len(scene.builds) + 1
    BY <1>2
  <2>2. b(k) \in Nat
    <3>1. Perf!Before(scene.builds, k) \in Nat
      BY <1>1, <2>1, EventsLie
    <3> QED BY <1>1, <3>1
  <2>3. Perf!Width(scene.builds[k]) \in Nat /\ HeaderSize \in 0 .. Perf!Width(scene.builds[k])
    BY <1>1, EventsLie
  <2>4. Perf!BuildBytes(k) = Perf!Bytes(b(k), Perf!Width(scene.builds[k]))
    BY DEF Perf!BuildBytes
  <2>5. PICK p : p = b(k)
    OBVIOUS
  <2>6. PICK v : v = Perf!Width(scene.builds[k])
    OBVIOUS
  <2> HIDE DEF b
  <2>7. SubSeq(Perf!Bytes(p, v), 1, HeaderSize) = Perf!Bytes(p, HeaderSize)
    BY <2>2, <2>3, <2>5, <2>6, BytesFacts
  <2> QED BY <2>2, <2>4, <2>5, <2>6, <2>7
<1>5. \A j \in 1 .. Len(scene.events), k \in 1 .. Len(scene.builds) : e(j) < b(k)
  BY EventsAreApart
<1>6. ASSUME NEW j \in 1 .. Len(scene.events), NEW k \in 1 .. Len(scene.events), e(j) = e(k)
      PROVE  j = k
  <2>1. PICK x, y, d : x = Perf!Before(scene.events, j) /\ y = Perf!Before(scene.events, k) /\ d = Perf!DataOffset
    OBVIOUS
  <2>2. j \in 1 .. Len(scene.events) + 1 /\ k \in 1 .. Len(scene.events) + 1
    BY <1>2
  <2>3. x \in Nat /\ y \in Nat /\ (j < k => x < y) /\ (k < j => y < x)
    BY <1>1, <2>1, <2>2, EventsLie
  <2>4. x = y
    BY <1>1, <1>6, <2>1, <2>3
  <2> QED BY <2>3, <2>4
<1>7. ASSUME NEW j \in 1 .. Len(scene.builds), NEW k \in 1 .. Len(scene.builds), b(j) = b(k)
      PROVE  j = k
  <2>1. PICK x, y, d : x = Perf!Before(scene.builds, j) /\ y = Perf!Before(scene.builds, k) /\ d = Perf!BuildsOffset
    OBVIOUS
  <2>2. j \in 1 .. Len(scene.builds) + 1 /\ k \in 1 .. Len(scene.builds) + 1
    BY <1>2
  <2>3. x \in Nat /\ y \in Nat /\ (j < k => x < y) /\ (k < j => y < x)
    BY <1>1, <2>1, <2>2, EventsLie
  <2>4. x = y
    BY <1>1, <1>7, <2>1, <2>3
  <2> QED BY <2>3, <2>4
<1> HIDE DEF e, b
<1>8. \A p, q \in Nat : Perf!Bytes(p, HeaderSize) = Perf!Bytes(q, HeaderSize) => p = q
  BY <1>1, BytesFacts
<1>9. ASSUME NEW k \in 1 .. Len(scene.events)
      PROVE  Perf!SizeFields(Perf!Bytes(e(k), HeaderSize)) = {scene.events[k]}
  <2>1. PICK h : h = Perf!Bytes(e(k), HeaderSize)
    OBVIOUS
  <2>2. {j \in DOMAIN scene.events : h = SubSeq(Perf!EventBytes(j), 1, HeaderSize)} = {k}
    BY <1>2, <1>3, <1>6, <1>8, <2>1
  <2>3. {j \in DOMAIN scene.builds : h = SubSeq(Perf!BuildBytes(j), 1, HeaderSize)} = {}
    <3>1. ASSUME NEW j \in 1 .. Len(scene.builds) PROVE h # SubSeq(Perf!BuildBytes(j), 1, HeaderSize)
      <4>1. b(j) \in Nat /\ e(k) \in Nat /\ e(k) < b(j)
        BY <1>3, <1>4, <1>5
      <4>2. b(j) # e(k)
        BY <4>1
      <4> QED BY <1>4, <1>8, <2>1, <4>1, <4>2
    <3> QED BY <1>2, <3>1
  <2>4. Perf!SizeFields(h) = {scene.events[j] : j \in {k}} \cup {scene.builds[j] : j \in {}}
    BY <2>2, <2>3 DEF Perf!SizeFields
  <2> QED BY <2>1, <2>4
<1>10. ASSUME NEW k \in 1 .. Len(scene.builds)
       PROVE  Perf!SizeFields(Perf!Bytes(b(k), HeaderSize)) = {scene.builds[k]}
  <2>1. PICK h : h = Perf!Bytes(b(k), HeaderSize)
    OBVIOUS
  <2>2. {j \in DOMAIN scene.builds : h = SubSeq(Perf!BuildBytes(j), 1, HeaderSize)} = {k}
    BY <1>2, <1>4, <1>7, <1>8, <2>1
  <2>3. {j \in DOMAIN scene.events : h = SubSeq(Perf!EventBytes(j), 1, HeaderSize)} = {}
    <3>1. ASSUME NEW j \in 1 .. Len(scene.events) PROVE h # SubSeq(Perf!EventBytes(j), 1, HeaderSize)
      <4>1. b(k) \in Nat /\ e(j) \in Nat /\ e(j) < b(k)
        BY <1>3, <1>4, <1>5
      <4>2. b(k) # e(j)
        BY <4>1
      <4> QED BY <1>3, <1>8, <2>1, <4>1, <4>2
    <3> QED BY <1>2, <3>1
  <2>4. Perf!SizeFields(h) = {scene.events[j] : j \in {}} \cup {scene.builds[j] : j \in {k}}
    BY <2>2, <2>3 DEF Perf!SizeFields
  <2> QED BY <2>1, <2>4
<1>11. /\ \A k : Perf!EventBytes(k) = Perf!Bytes(e(k), Perf!Width(scene.events[k]))
       /\ \A k : Perf!BuildBytes(k) = Perf!Bytes(b(k), Perf!Width(scene.builds[k]))
  BY DEF Perf!EventBytes, Perf!BuildBytes, e, b
<1> QED BY <1>9, <1>10, <1>11 DEF e, b

-----------------------------------------------------------------------------
(* A turn of a loop over a reader *)

LEMMA ReadersInUse ==
  ASSUME NEW a, NEW b, NEW x
  PROVE  /\ Perf!Last(<<a>>) = a /\ Perf!Front(<<a>>) \o <<x>> = <<x>>
         /\ Perf!Last(<<a, b>>) = b /\ Perf!Front(<<a, b>>) = <<a>>
         /\ Perf!Front(<<a, b>>) \o <<x>> = <<a, x>>
         /\ Append(<<x>>, b) = <<x, b>>
PROOF
<1>1. Perf!Front(<<a>>) = <<>>
  <2>1. SubSeq(<<a>>, 1, 0) = <<>> /\ Len(<<a>>) - 1 = 0
    OBVIOUS
  <2> QED BY <2>1 DEF Perf!Front
<1>2. Perf!Front(<<a, b>>) = <<a>>
  <2>1. PICK u, w : u = SubSeq(w, 1, 1) /\ w = <<a, b>>
    OBVIOUS
  <2>2. w \in Seq({a, b}) /\ Len(w) = 2 /\ w[1] = a
    BY <2>1
  <2>3. Len(u) = 1 /\ u[1] = a /\ u \in Seq({a, b})
    BY <2>1, <2>2
  <2>4. u = <<u[1]>>
    BY <2>3
  <2>5. Len(w) - 1 = 1
    BY <2>2
  <2> QED BY <2>1, <2>3, <2>4, <2>5 DEF Perf!Front
<1>3. Perf!Last(<<a>>) = a /\ Perf!Last(<<a, b>>) = b
  BY DEF Perf!Last
<1>4. <<>> \o <<x>> = <<x>>
  <2>1. PICK S : S = {x}
    OBVIOUS
  <2>2. <<x>> \in Seq(S) /\ <<>> \in Seq(S)
    BY <2>1
  <2> QED BY <2>2
<1>5. <<a>> \o <<x>> = <<a, x>>
  <2>1. PICK u : u = <<a>> \o <<x>>
    OBVIOUS
  <2>2. Len(u) = 2 /\ u[1] = a /\ u[2] = x /\ u \in Seq({a, x})
    BY <2>1
  <2>3. u = <<u[1], u[2]>>
    BY <2>2
  <2> QED BY <2>1, <2>2, <2>3
<1>6. Append(<<x>>, b) = <<x, b>>
  <2>1. PICK u, w : u = Append(w, b) /\ w = <<x>>
    OBVIOUS
  <2>2. w \in Seq({x, b}) /\ Len(w) = 1 /\ w[1] = x
    BY <2>1
  <2>3. Len(u) = 2 /\ u[1] = x /\ u[2] = b /\ u \in Seq({x, b})
    BY <2>1, <2>2
  <2>4. u = <<u[1], u[2]>>
    BY <2>3
  <2> QED BY <2>1, <2>3, <2>4
<1> QED BY <1>1, <1>2, <1>3, <1>4, <1>5, <1>6

LEMMA SecondTurned ==
  ASSUME NEW a, NEW b, NEW x
  PROVE  Perf!Front(<<a, b>>) \o <<x>> = <<a, x>>
PROOF
<1>1. PICK f : f = Perf!Front(<<a, b>>)
  OBVIOUS
<1>2. f = <<a>>
  BY <1>1, ReadersInUse
<1>3. <<a>> \o <<x>> = <<a, x>>
  <2>1. PICK u : u = <<a>> \o <<x>>
    OBVIOUS
  <2>2. Len(u) = 2 /\ u[1] = a /\ u[2] = x /\ u \in Seq({a, x})
    BY <2>1
  <2>3. u = <<u[1], u[2]>>
    BY <2>2
  <2> QED BY <2>1, <2>2, <2>3
<1>4. f \o <<x>> = <<a, x>>
  BY <1>2, <1>3
<1> QED BY <1>1, <1>4

\* The chunk a turn works on is that of the reader in use, read on if need be from
\* where the stream was left.
LEMMA ChunkOfTurn ==
  ASSUME Perf!Goes, Perf!ChunkThere, NEW r, Perf!Last(readers) = r, NEW o \in Nat, NEW t \in Nat,
         NEW n \in Nat \ {0}, NEW c, ReaderAt(r, o, t, n, c), StreamAt(position, r, o)
  PROVE  /\ ReaderAt(Perf!Chunk, o, t, n, c) /\ ~Perf!Chunk.is_chunk_exhausted
         /\ StreamAt(Perf!Place, Perf!Chunk, o) /\ c \in Nat /\ c < t
PROOF
<1>1. c < t /\ c \in Nat
  BY KeepsGoing, ReaderFacts DEF Perf!Goes
<1>2. CASE Perf!needs_chunk(r)
  <2>1. position # Perf!Bad
    BY <1>2 DEF Perf!ChunkThere, Perf!Reads
  <2>2. position = EndOfChunk(r, o)
    BY <2>1 DEF StreamAt
  <2>3. PICK s : s = Perf!read_next_chunk(r, EndOfChunk(r, o))
    OBVIOUS
  <2>4. Perf!Chunk = s /\ Perf!Place = EndOfChunk(r, o) + Perf!chunk_bytes_to_read(r)
    BY <1>2, <2>2, <2>3 DEF Perf!Chunk, Perf!Place, Perf!Reads
  <2>5. ReaderAt(s, o, t, n, c) /\ ~s.is_chunk_exhausted
        /\ EndOfChunk(s, o) = EndOfChunk(r, o) + Perf!chunk_bytes_to_read(r)
    BY <1>1, <1>2, <2>3, ChunkIsRead, SMTT(30)
  <2> QED BY <1>1, <2>4, <2>5 DEF StreamAt
<1>3. CASE ~Perf!needs_chunk(r)
  <2>1. Perf!Chunk = r /\ Perf!Place = position
    BY <1>3 DEF Perf!Chunk, Perf!Place, Perf!Reads
  <2>2. ~r.is_chunk_exhausted
    BY <1>3 DEF Perf!needs_chunk
  <2> QED BY <1>1, <2>1, <2>2
<1> QED BY <1>2, <1>3

\* What a turn takes of it, and how it leaves it.
LEMMA TakenOfChunk ==
  ASSUME Perf!Goes, Perf!ChunkThere, NEW r, Perf!Last(readers) = r, NEW o \in Nat, NEW t \in Nat,
         NEW n \in Nat \ {0}, NEW c, ReaderAt(r, o, t, n, c), StreamAt(position, r, o),
         NEW size \in Nat, Perf!has_data(Perf!Chunk, size)
  PROVE  /\ Perf!retrieve_data(Perf!Chunk, size) = Perf!Bytes(o + c, size) /\ c \in Nat
         /\ c + size <= t
         /\ ReaderAt(Perf!retrieved(Perf!Chunk, size), o, t, n, c + size)
         /\ StreamAt(Perf!Place, Perf!retrieved(Perf!Chunk, size), o)
PROOF
<1>1. PICK k, p : k = Perf!Chunk /\ p = Perf!Place
  OBVIOUS
<1>2. ReaderAt(k, o, t, n, c) /\ ~k.is_chunk_exhausted /\ StreamAt(p, k, o) /\ c \in Nat
  BY <1>1, ChunkOfTurn
<1>3. n \in Nat
  OBVIOUS
<1>4. /\ Perf!retrieve_data(k, size) = Perf!Bytes(o + c, size) /\ c + size <= t
      /\ ReaderAt(Perf!retrieved(k, size), o, t, n, c + size)
      /\ EndOfChunk(Perf!retrieved(k, size), o) = EndOfChunk(k, o)
  BY <1>1, <1>2, <1>3, DataIsRetrieved
<1>5. StreamAt(p, Perf!retrieved(k, size), o)
  BY <1>2, <1>4 DEF StreamAt
<1> QED BY <1>1, <1>2, <1>4, <1>5

LEMMA LeftInChunk ==
  ASSUME Perf!Goes, Perf!ChunkThere, NEW r, Perf!Last(readers) = r, NEW o \in Nat, NEW t \in Nat,
         NEW n \in Nat \ {0}, NEW c, ReaderAt(r, o, t, n, c), StreamAt(position, r, o),
         NEW size \in Nat, ~Perf!has_data(Perf!Chunk, size), c + size <= t
  PROVE  /\ ReaderAt(Perf!starved(Perf!Chunk), o, t, n, c)
         /\ StreamAt(Perf!Place, Perf!starved(Perf!Chunk), o)
PROOF
<1>1. PICK k, p : k = Perf!Chunk /\ p = Perf!Place
  OBVIOUS
<1>2. ReaderAt(k, o, t, n, c) /\ StreamAt(p, k, o)
  BY <1>1, ChunkOfTurn
<1>3. n \in Nat
  OBVIOUS
<1>4. ReaderAt(Perf!starved(k), o, t, n, c) /\ EndOfChunk(Perf!starved(k), o) = EndOfChunk(k, o)
  BY <1>1, <1>2, <1>3, ChunkIsLeft
<1>5. StreamAt(p, Perf!starved(k), o)
  BY <1>2, <1>4 DEF StreamAt
<1> QED BY <1>1, <1>4, <1>5

LEMMA NothingLeft ==
  ASSUME ~Perf!Goes, phase \in Perf!Sections, NEW r, Perf!Last(readers) = r, NEW o \in Nat, NEW t \in Nat,
         NEW n \in Nat, NEW c, ReaderAt(r, o, t, n, c)
  PROVE  c = t
PROOF
<1>1. ~(c < t)
  BY KeepsGoing DEF Perf!Goes
<1>2. c \in Nat /\ c <= t
  BY ReaderFacts
<1> QED BY <1>1, <1>2

\* Whole parts are never divided by the border of two chunks.
LEMMA Multiples ==
  ASSUME NEW size \in Nat \ {0}, NEW a \in Nat, NEW b \in Nat, size * a < size * b
  PROVE  size * b - size * a >= size /\ \E d \in Nat : size * b - size * a = size * d
PROOF
<1>1. a < b
  BY SMTT(30)
<1>2. PICK d \in Nat \ {0} : b = a + d
  <2>1. b - a \in Nat \ {0} /\ b = a + (b - a)
    BY <1>1
  <2> QED BY <2>1
<1>3. size * b = size * a + size * d
  BY <1>2, SMTT(30)
<1>4. PICK x, y, z : x = size * a /\ y = size * b /\ z = size * d
  OBVIOUS
<1>5. x \in Nat /\ z \in Nat
  BY <1>4
<1>6. z >= size
  BY <1>4, SMTT(30)
<1>7. y - x = z
  BY <1>3, <1>4, <1>5
<1> QED BY <1>4, <1>6, <1>7

LEMMA WholePartInChunk ==
  ASSUME Perf!Goes, Perf!ChunkThere, NEW r, Perf!Last(readers) = r, NEW o \in Nat, NEW size \in Nat \ {0},
         NEW N \in Nat, NEW M \in Nat, NEW n \in Nat \ {0}, n % size = 0,
         ReaderAt(r, o, size * N, n, size * M), StreamAt(position, r, o), WholeParts(r, size)
  PROVE  Perf!has_data(Perf!Chunk, size) /\ WholeParts(Perf!retrieved(Perf!Chunk, size), size)
PROOF
<1>1. PICK s : s = Perf!Chunk
  OBVIOUS
<1>2. PICK t \in Nat, c \in Nat : t = size * N /\ c = size * M
  OBVIOUS
<1>3. c < t /\ ReaderAt(s, o, t, n, c) /\ ~s.is_chunk_exhausted
  BY <1>1, <1>2, ChunkOfTurn
<1>4. n \in Nat
  OBVIOUS
<1>5. PICK i, j, k \in Nat :
        /\ r.total_processed_size = size * i /\ r.chunk_processed_size = size * j
        /\ r.chunk_size = size * k
  BY DEF WholeParts
<1>6. PICK a, b, d \in Nat :
        /\ s.total_processed_size = size * a /\ s.chunk_processed_size = size * b
        /\ s.chunk_size = size * d /\ s.chunk_processed_size < s.chunk_size
  <2>1. CASE Perf!needs_chunk(r)
    <3>1. r.chunk_processed_size = r.chunk_size
      <4>1. r.chunk_processed_size \in Nat /\ r.chunk_size \in Nat
            /\ r.chunk_processed_size <= r.chunk_size
        BY <1>2, <1>4, ReaderFacts
      <4>2. r.is_chunk_exhausted \/ ~(r.chunk_processed_size < r.chunk_size)
        BY <2>1 DEF Perf!needs_chunk, Perf!chunk_has_more_data
      <4> QED BY <4>1, <4>2 DEF WholeParts
    <3>2. position = EndOfChunk(r, o)
      BY <2>1 DEF Perf!ChunkThere, Perf!Reads, StreamAt
    <3>3. s = Perf!read_next_chunk(r, EndOfChunk(r, o))
      BY <1>1, <2>1, <3>2 DEF Perf!Chunk, Perf!Reads
    <3>4. s.total_processed_size = c /\ s.chunk_processed_size = 0
          /\ (s.chunk_size = n \/ s.chunk_size = t - c)
      BY <1>2, <1>3, <2>1, <3>1, <3>3, ChunkIsRead
    <3>5. \E d \in Nat : t - c = size * d
      <4>1. size * M < size * N
        BY <1>2, <1>3
      <4>2. \E d \in Nat : size * N - size * M = size * d
        BY <4>1, Multiples
      <4> QED BY <1>2, <4>2
    <3>6. \E d \in Nat : n = size * d
      <4>1. PICK q \in Nat : q = n \div size
        OBVIOUS
      <4>2. n = size * q
        BY <4>1, SMTT(30)
      <4> QED BY <4>2
    <3>7. PICK d \in Nat : s.chunk_size = size * d
      BY <3>4, <3>5, <3>6
    <3>8. 0 = size * 0 /\ c = size * M
      BY <1>2
    <3>9. 0 < s.chunk_size
      <4>1. t - c > 0 /\ n > 0
        BY <1>3
      <4> QED BY <3>4, <4>1
    <3> QED BY <3>4, <3>7, <3>8, <3>9
  <2>2. CASE ~Perf!needs_chunk(r)
    <3>1. s = r
      BY <1>1, <2>2 DEF Perf!Chunk, Perf!Reads
    <3>2. r.chunk_processed_size < r.chunk_size
      BY <2>2 DEF Perf!needs_chunk, Perf!chunk_has_more_data
    <3> QED BY <1>5, <3>1, <3>2
  <2> QED BY <2>1, <2>2
<1>7. s.chunk_size - s.chunk_processed_size >= size
  BY <1>6, Multiples
<1>8. Perf!has_data(s, size)
  BY <1>7 DEF Perf!has_data, Perf!last_chunk_remaining_bytes
<1>9. PICK u : u = Perf!retrieved(s, size)
  OBVIOUS
<1>10. PICK tp, cs, cp, x, bf :
        /\ tp = s.total_processed_size /\ cs = s.chunk_size /\ cp = s.chunk_processed_size
        /\ x = s.is_chunk_exhausted /\ bf = s.chunk_buffer
  OBVIOUS
<1>11. s = [total_size |-> t, total_processed_size |-> tp, chunk_buffer |-> bf,
            chunk_size |-> cs, chunk_processed_size |-> cp, is_chunk_exhausted |-> x]
  BY <1>3, <1>10 DEF ReaderAt, ReaderRecords
<1>12. u = [total_size |-> t, total_processed_size |-> tp, chunk_buffer |-> bf,
            chunk_size |-> cs, chunk_processed_size |-> cp + size, is_chunk_exhausted |-> x]
  BY <1>9, <1>11 DEF Perf!retrieved
<1>13. ~u.is_chunk_exhausted
  BY <1>3, <1>10, <1>12
<1>14. cp + size = size * (b + 1) /\ b + 1 \in Nat
  <2>1. cp = size * b
    BY <1>6, <1>10
  <2>2. size * (b + 1) = size * b + size
    BY SMTT(30)
  <2> QED BY <2>1, <2>2
<1>15. WholeParts(u, size)
  BY <1>6, <1>10, <1>12, <1>13, <1>14 DEF WholeParts
<1> QED BY <1>1, <1>8, <1>9, <1>15

-----------------------------------------------------------------------------
(* PerfDataFile: what a step leaves as it is *)

LEMMA ScenePart ==
  ASSUME PerfInv
  PROVE  /\ Scene(scene) /\ scene.events \in Seq(Nat) /\ scene.builds \in Seq(Nat)
         /\ scene.ids \in Seq(Nat)
PROOF BY DEF PerfInv, PerfTyped, Scene

LEMMA InAttributes ==
  ASSUME scene' = scene, phase' = "attributes", NEW r, readers' = <<r>>, NEW n, Len(attributes') = n,
         ReaderAt(r, Perf!AttributesOffset, EntrySize * Len(scene.ids), ChunkSize, EntrySize * n),
         NEW p, position' = p, StreamAt(p, r, Perf!AttributesOffset)
  PROVE  ReadersRight'
PROOF
<1>1. Perf!AttributesOffset' = Perf!AttributesOffset
  BY LayoutStays
<1>2. readers'[1] = r
  OBVIOUS
<1>3. AttributesReader(readers[1])'
  BY <1>1, <1>2 DEF AttributesReader
<1>4. StreamAt(position, readers[1], Perf!AttributesOffset)'
  BY <1>1, <1>2
<1> QED BY <1>2, <1>3, <1>4 DEF ReadersRight

LEMMA InIds ==
  ASSUME scene' = scene, phase' = "ids", NEW r, NEW s, readers' = <<r, s>>, NEW n, Len(attributes') = n,
         NEW m, Len(attributes'[n].ids) = m,
         ReaderAt(r, Perf!AttributesOffset, EntrySize * Len(scene.ids), ChunkSize, EntrySize * n),
         NEW q, saved' = q, StreamAt(q, r, Perf!AttributesOffset),
         ReaderAt(s, Perf!IdsOffset(n), IdSize * scene.ids[n], IdChunkSize, IdSize * m),
         NEW p, position' = p, StreamAt(p, s, Perf!IdsOffset(n))
  PROVE  ReadersRight'
PROOF
<1>1. Perf!AttributesOffset' = Perf!AttributesOffset /\ Perf!IdsOffset(n)' = Perf!IdsOffset(n)
  BY LayoutStays
<1>2. readers'[1] = r /\ readers'[2] = s
  OBVIOUS
<1>3. AttributesReader(readers[1])'
  BY <1>1, <1>2 DEF AttributesReader
<1>4. Perf!IdsOffset(Len(attributes))' = Perf!IdsOffset(n)
  BY <1>1 DEF Perf!IdsOffset
<1>5. IdsReader(readers[2])'
  BY <1>2, <1>4 DEF IdsReader
<1>6. StreamAt(saved, readers[1], Perf!AttributesOffset)'
  BY <1>1, <1>2
<1>7. StreamAt(position, readers[2], Perf!IdsOffset(Len(attributes)))'
  BY <1>2, <1>4
<1> QED BY <1>2, <1>3, <1>5, <1>6, <1>7 DEF ReadersRight

LEMMA InFeatures ==
  ASSUME scene' = scene, phase' = "features", NEW r, readers' = <<r>>, NEW n, Len(metadata') = n,
         ReaderAt(r, Perf!FeaturesOffset, SectionSize * Cardinality(scene.features), FeatureChunkSize,
                  SectionSize * n),
         WholeParts(r, SectionSize),
         NEW p, position' = p, StreamAt(p, r, Perf!FeaturesOffset)
  PROVE  ReadersRight'
PROOF
<1>1. Perf!FeaturesOffset' = Perf!FeaturesOffset
  BY LayoutStays
<1>2. readers'[1] = r
  OBVIOUS
<1>3. FeaturesReader(readers[1])'
  BY <1>1, <1>2 DEF FeaturesReader
<1>4. StreamAt(position, readers[1], Perf!FeaturesOffset)'
  BY <1>1, <1>2
<1> QED BY <1>2, <1>3, <1>4 DEF ReadersRight

LEMMA InBuilds ==
  ASSUME scene' = scene, phase' = "build_ids", NEW r, NEW s, readers' = <<r, s>>,
         NEW n, Len(metadata') = n,
         ReaderAt(r, Perf!FeaturesOffset, SectionSize * Cardinality(scene.features), FeatureChunkSize,
                  SectionSize * n),
         WholeParts(r, SectionSize),
         NEW q, saved' = q, StreamAt(q, r, Perf!FeaturesOffset),
         NEW m, Len(build_ids') = m,
         ReaderAt(s, Perf!BuildsOffset, Perf!SumOf(Perf!Widths(scene.builds)), ChunkSize,
                  Perf!Before(scene.builds, m + 1)),
         NEW p, position' = p, StreamAt(p, s, Perf!BuildsOffset)
  PROVE  ReadersRight'
PROOF
<1>1. Perf!FeaturesOffset' = Perf!FeaturesOffset /\ Perf!BuildsOffset' = Perf!BuildsOffset
  BY LayoutStays
<1>2. readers'[1] = r /\ readers'[2] = s
  OBVIOUS
<1>3. FeaturesReader(readers[1])'
  BY <1>1, <1>2 DEF FeaturesReader
<1>4. BuildsReader(readers[2])'
  BY <1>1, <1>2 DEF BuildsReader
<1>5. StreamAt(saved, readers[1], Perf!FeaturesOffset)'
      /\ StreamAt(position, readers[2], Perf!BuildsOffset)'
  BY <1>1, <1>2
<1> QED BY <1>2, <1>3, <1>4, <1>5 DEF ReadersRight

LEMMA InEvents ==
  ASSUME scene' = scene, phase' = "events", NEW r, readers' = <<r>>, NEW n, Len(delivered') = n,
         ReaderAt(r, Perf!DataOffset, Perf!SumOf(Perf!Widths(scene.events)), ChunkSize,
                  Perf!Before(scene.events, n + 1)),
         NEW p, position' = p, StreamAt(p, r, Perf!DataOffset)
  PROVE  ReadersRight'
PROOF
<1>1. Perf!DataOffset' = Perf!DataOffset
  BY LayoutStays
<1>2. readers'[1] = r
  OBVIOUS
<1>3. EventsReader(readers[1])'
  BY <1>1, <1>2 DEF EventsReader
<1>4. StreamAt(position, readers[1], Perf!DataOffset)'
  BY <1>1, <1>2
<1> QED BY <1>2, <1>3, <1>4 DEF ReadersRight

LEMMA InNone ==
  ASSUME phase' \notin Perf!Sections
  PROVE  ReadersRight'
PROOF BY DEF ReadersRight, Perf!Sections

LEMMA AttributesStay ==
  ASSUME scene' = scene, attributes' = attributes
  PROVE  /\ AttributesRight => AttributesRight'
         /\ \A a : AllIds(a)' <=> AllIds(a)
PROOF
<1>1. \A a : AllIds(a)' <=> AllIds(a)
  BY DEF AllIds
<1>2. AttributesRight => AttributesRight'
  BY LayoutStays DEF AttributesRight
<1> QED BY <1>1, <1>2

LEMMA BuildsStay ==
  ASSUME scene' = scene, build_ids' = build_ids, BuildsRight
  PROVE  BuildsRight'
PROOF BY LayoutStays DEF BuildsRight

LEMMA EventsStay ==
  ASSUME scene' = scene, delivered' = delivered, EventsRight
  PROVE  EventsRight'
PROOF BY LayoutStays DEF EventsRight

LEMMA TakenStays ==
  ASSUME scene' = scene, current_feature' = current_feature
  PROVE  Taken' = Taken
PROOF BY DEF Taken

\* Reading on moves nothing but the readers.
LEMMA ReadsOn ==
  ASSUME PerfInv, UNCHANGED <<scene, phase, current_feature, Perf!results>>, ReadersRight'
  PROVE  PerfInv'
PROOF
<1>1. /\ scene' = scene /\ phase' = phase /\ current_feature' = current_feature
      /\ attributes' = attributes /\ metadata' = metadata /\ build_ids' = build_ids
      /\ delivered' = delivered /\ progress' = progress
  BY DEF Perf!results
<1>2. PerfTyped'
  BY <1>1 DEF PerfInv, PerfTyped
<1>3. AttributesRight' /\ BuildsRight' /\ EventsRight'
  BY <1>1, AttributesStay, BuildsStay, EventsStay DEF PerfInv
<1>4. AttributesRead'
  BY <1>1, AttributesStay DEF PerfInv, AttributesRead
<1>5. MetadataRead'
  BY <1>1, TakenStays, LayoutStays DEF PerfInv, MetadataRead
<1>6. EventsRead'
  BY <1>1 DEF PerfInv, EventsRead
<1> QED BY <1>2, <1>3, <1>4, <1>5, <1>6 DEF PerfInv

\* process() ends without being done.
LEMMA Stops ==
  ASSUME PerfInv, UNCHANGED <<scene, current_feature, Perf!results>>,
         phase' \in {"refused", "canceled", "failed"}
  PROVE  PerfInv'
PROOF
<1>1. /\ scene' = scene /\ current_feature' = current_feature
      /\ attributes' = attributes /\ metadata' = metadata /\ build_ids' = build_ids
      /\ delivered' = delivered /\ progress' = progress
  BY DEF Perf!results
<1>2. PerfTyped'
  BY <1>1 DEF PerfInv, PerfTyped
<1>3. AttributesRight' /\ BuildsRight' /\ EventsRight'
  BY <1>1, AttributesStay, BuildsStay, EventsStay DEF PerfInv
<1>4. AttributesRead' /\ MetadataRead' /\ EventsRead'
  BY DEF AttributesRead, MetadataRead, EventsRead
<1>5. ReadersRight'
  BY InNone DEF Perf!Sections
<1> QED BY <1>2, <1>3, <1>4, <1>5 DEF PerfInv

LEMMA StopsKeep ==
  ASSUME PerfInv, Perf!RefuseFile \/ Perf!ChunkMissing \/ Perf!HandlerThrows \/ Perf!RefuseAttributes
                    \/ Perf!RefuseSize \/ Perf!Abandon
  PROVE  PerfInv'
PROOF
<1>1. CASE Perf!RefuseFile \/ Perf!ChunkMissing \/ Perf!HandlerThrows \/ Perf!RefuseAttributes
  BY <1>1, Stops DEF Perf!RefuseFile, Perf!ChunkMissing, Perf!HandlerThrows, Perf!RefuseAttributes,
                     Perf!Fail, Perf!places
<1>2. CASE Perf!RefuseSize \/ Perf!Abandon
  BY <1>2, Stops DEF Perf!RefuseSize, Perf!Abandon, Perf!places
<1> QED BY <1>1, <1>2

-----------------------------------------------------------------------------
(* PerfDataFile: the sections of attributes and of ids *)

LEMMA AtAttributes ==
  ASSUME PerfInv, phase = "attributes"
  PROVE  \E r : /\ readers = <<r>> /\ Perf!Last(readers) = r
                /\ ReaderAt(r, Perf!AttributesOffset, EntrySize * Len(scene.ids), ChunkSize,
                            EntrySize * Len(attributes))
                /\ StreamAt(position, r, Perf!AttributesOffset)
PROOF
<1>1. PICK r : r = readers[1]
  OBVIOUS
<1>2. readers = <<r>> /\ AttributesReader(r) /\ StreamAt(position, r, Perf!AttributesOffset)
  BY <1>1 DEF PerfInv, ReadersRight
<1>3. Perf!Last(readers) = r
  BY <1>2, ReadersInUse
<1> QED BY <1>2, <1>3 DEF AttributesReader

LEMMA AtIds ==
  ASSUME PerfInv, phase = "ids"
  PROVE  \E r, s, n :
           /\ readers = <<r, s>> /\ Perf!Last(readers) = s /\ n = Len(attributes)
           /\ n \in 1 .. Len(scene.ids) /\ n \in DOMAIN attributes
           /\ ReaderAt(r, Perf!AttributesOffset, EntrySize * Len(scene.ids), ChunkSize, EntrySize * n)
           /\ StreamAt(saved, r, Perf!AttributesOffset)
           /\ ReaderAt(s, Perf!IdsOffset(n), IdSize * scene.ids[n], IdChunkSize,
                       IdSize * Len(attributes[n].ids))
           /\ StreamAt(position, s, Perf!IdsOffset(n))
PROOF
<1>1. PICK r, s, n : r = readers[1] /\ s = readers[2] /\ n = Len(attributes)
  OBVIOUS
<1>2. /\ readers = <<r, s>> /\ AttributesReader(r) /\ StreamAt(saved, r, Perf!AttributesOffset)
      /\ IdsReader(s) /\ StreamAt(position, s, Perf!IdsOffset(n))
  BY <1>1 DEF PerfInv, ReadersRight
<1>3. Perf!Last(readers) = s
  BY <1>2, ReadersInUse
<1>4. n \in DOMAIN attributes
  <2>1. attributes # <<>>
    BY DEF PerfInv, AttributesRead
  <2>2. attributes \in Seq([entry : Seq(Nat), ids : Seq(Seq(Nat))])
    BY DEF PerfInv, PerfTyped
  <2> QED BY <1>1, <2>1, <2>2
<1>5. n \in 1 .. Len(scene.ids)
  <2>1. n <= Len(scene.ids)
    BY <1>4 DEF PerfInv, AttributesRight
  <2>2. n \in Nat \ {0} /\ Len(scene.ids) \in Nat
    <3>1. attributes \in Seq([entry : Seq(Nat), ids : Seq(Seq(Nat))])
      BY DEF PerfInv, PerfTyped
    <3> QED BY <1>4, <3>1, ScenePart
  <2> QED BY <2>1, <2>2
<1> QED BY <1>1, <1>2, <1>3, <1>4, <1>5 DEF AttributesReader, IdsReader

LEMMA PositiveSizes ==
  /\ EntrySize \in Nat \ {0} /\ IdSize \in Nat \ {0} /\ SectionSize \in Nat \ {0}
  /\ HeaderSize \in Nat \ {0} /\ ChunkSize \in Nat \ {0} /\ IdChunkSize \in Nat \ {0}
  /\ FeatureChunkSize \in Nat \ {0} /\ FeatureChunkSize % SectionSize = 0
PROOF BY ChunksAssumption

\* Whether there is one more part.
LEMMA OneMorePart ==
  ASSUME NEW size \in Nat \ {0}, NEW n \in Nat, NEW m \in Nat
  PROVE  /\ size * n \in Nat /\ size * (n + 1) = size * n + size
         /\ size * n + size <= size * m => n + 1 <= m
         /\ size * n < size * m => size * n + size <= size * m
         /\ size * n = size * m => n = m
PROOF
<1>1. size * n \in Nat
  OBVIOUS
<1>2. size * (n + 1) = size * n + size
  BY SMTT(30)
<1>3. size * n + size <= size * m => n + 1 <= m
  BY SMTT(30)
<1>4. size * n < size * m => size * n + size <= size * m
  BY SMTT(30)
<1>5. size * n = size * m => n = m
  BY SMTT(30)
<1> QED BY <1>1, <1>2, <1>3, <1>4, <1>5

LEMMA ReadAttributeKeeps ==
  ASSUME PerfInv, Perf!ReadAttribute
  PROVE  PerfInv'
PROOF
<1>1. phase = "attributes" /\ phase' = "ids"
  BY DEF Perf!ReadAttribute
<1>2. /\ scene' = scene /\ current_feature' = current_feature /\ metadata' = metadata
      /\ build_ids' = build_ids /\ delivered' = delivered /\ progress' = progress
      /\ saved' = Perf!Place
  BY DEF Perf!ReadAttribute
<1>3. Perf!Goes /\ Perf!ChunkThere /\ Perf!has_data(Perf!Chunk, EntrySize)
  BY DEF Perf!ReadAttribute, Perf!Turns
<1>4. PICK r : /\ readers = <<r>> /\ Perf!Last(readers) = r
               /\ ReaderAt(r, Perf!AttributesOffset, EntrySize * Len(scene.ids), ChunkSize,
                           EntrySize * Len(attributes))
               /\ StreamAt(position, r, Perf!AttributesOffset)
  BY <1>1, AtAttributes
<1>5. PICK n, o, t : n = Len(attributes) /\ o = Perf!AttributesOffset /\ t = EntrySize * Len(scene.ids)
  OBVIOUS
<1>6. attributes \in Seq([entry : Seq(Nat), ids : Seq(Seq(Nat))]) /\ n \in Nat
  BY <1>5 DEF PerfInv, PerfTyped
<1>7. o \in Nat /\ t \in Nat /\ Scene(scene) /\ Len(scene.ids) \in Nat
  BY <1>5, ScenePart, Layout
<1>8. /\ Perf!retrieve_data(Perf!Chunk, EntrySize) = Perf!Bytes(o + EntrySize * n, EntrySize)
      /\ EntrySize * n + EntrySize <= t
      /\ ReaderAt(Perf!retrieved(Perf!Chunk, EntrySize), o, t, ChunkSize, EntrySize * n + EntrySize)
      /\ StreamAt(Perf!Place, Perf!retrieved(Perf!Chunk, EntrySize), o)
  <2>1. EntrySize \in Nat /\ ChunkSize \in Nat \ {0}
    BY PositiveSizes
  <2> QED BY <1>3, <1>4, <1>5, <1>7, <2>1, TakenOfChunk
<1>9. PICK a : a = n + 1
  OBVIOUS
<1>10. a \in 1 .. Len(scene.ids) /\ a - 1 = n /\ EntrySize * n + EntrySize = EntrySize * a
  <2>1. EntrySize \in Nat \ {0}
    BY PositiveSizes
  <2>2. n + 1 <= Len(scene.ids) /\ EntrySize * n + EntrySize = EntrySize * (n + 1)
    BY <1>5, <1>6, <1>7, <1>8, <2>1, OneMorePart
  <2> QED BY <1>6, <1>7, <1>9, <2>2
<1>11. /\ Perf!EntryBytes(a) = Perf!Bytes(o + EntrySize * n, EntrySize)
       /\ Perf!Entries(Perf!EntryBytes(a)) = {a}
  BY <1>5, <1>7, <1>10, EntryIsKnown
<1>12. PICK e : e = Perf!EntryBytes(a)
  OBVIOUS
<1>13. PICK u, v : u = Perf!retrieved(Perf!Chunk, EntrySize) /\ v = Perf!Reader(IdSize * scene.ids[a], IdChunkSize)
  OBVIOUS
<1>14. PICK h : h = [entry |-> e, ids |-> <<>>]
  OBVIOUS
<1>15. /\ attributes' = Append(attributes, h) /\ position' = Perf!IdsOffset(a)
       /\ readers' = Append(Perf!After(EntrySize), v)
  <2>1. \E b \in Perf!Entries(e) :
           /\ attributes' = Append(attributes, [entry |-> e, ids |-> <<>>])
           /\ readers' = Append(Perf!After(EntrySize), Perf!Reader(Perf!IdsSize(b), IdChunkSize))
           /\ position' = Perf!IdsOffset(b)
    BY <1>8, <1>11, <1>12 DEF Perf!ReadAttribute
  <2>2. Perf!IdsSize(a) = IdSize * scene.ids[a]
    BY <1>7, Layout
  <2> QED BY <1>11, <1>12, <1>13, <1>14, <2>1, <2>2
<1>16. readers' = <<u, v>>
  <2>1. Perf!After(EntrySize) = <<u>>
    BY <1>4, <1>13, ReadersInUse DEF Perf!After
  <2> QED BY <1>15, <2>1, ReadersInUse
<1>17. e \in Seq(Nat)
  <2>1. o + EntrySize * n \in Nat /\ EntrySize \in Nat
    <3>1. EntrySize \in Nat
      BY PositiveSizes
    <3>2. EntrySize * n \in Nat
      BY <1>6, <3>1
    <3> QED BY <1>7, <3>1, <3>2
  <2> QED BY <1>11, <1>12, <2>1, BytesFacts
<1>18. /\ h \in [entry : Seq(Nat), ids : Seq(Seq(Nat))] /\ h.entry = e /\ h.ids = <<>>
  <2>1. <<>> \in Seq(Seq(Nat))
    OBVIOUS
  <2> QED BY <1>14, <1>17, <2>1
<1>19. PICK q : q = Append(attributes, h)
  OBVIOUS
<1>20. /\ q \in Seq([entry : Seq(Nat), ids : Seq(Seq(Nat))]) /\ Len(q) = a /\ DOMAIN q = 1 .. a
       /\ q[a] = h /\ \A b \in 1 .. n : q[b] = attributes[b] /\ b \in DOMAIN attributes
  BY <1>5, <1>6, <1>9, <1>18, <1>19
<1>21. attributes' = q
  BY <1>15, <1>19
<1>22. PerfTyped'
  BY <1>1, <1>2, <1>20, <1>21 DEF PerfInv, PerfTyped
<1>23. AttributesRight'
  <2>1. \A b \in 1 .. n : /\ b <= Len(scene.ids) /\ q[b].entry = Perf!EntryBytes(b)
                          /\ \A i \in DOMAIN q[b].ids : q[b].ids[i] = Perf!IdBytes(b, i)
    BY <1>20 DEF PerfInv, AttributesRight
  <2>2. /\ a <= Len(scene.ids) /\ q[a].entry = Perf!EntryBytes(a)
        /\ \A i \in DOMAIN q[a].ids : q[a].ids[i] = Perf!IdBytes(a, i)
    BY <1>10, <1>12, <1>18, <1>20
  <2>3. \A b \in DOMAIN q : b \in 1 .. n \/ b = a
    BY <1>6, <1>9, <1>20
  <2>4. \A b \in DOMAIN q :  /\ b <= Len(scene.ids) /\ q[b].entry = Perf!EntryBytes(b)
                          /\ \A i \in DOMAIN q[b].ids : q[b].ids[i] = Perf!IdBytes(b, i)
    BY <2>1, <2>2, <2>3
  <2> QED BY <1>2, <1>21, <2>4, LayoutStays DEF AttributesRight
<1>24. BuildsRight' /\ EventsRight'
  BY <1>2, BuildsStay, EventsStay DEF PerfInv
<1>25. ReadersRight'
  <2>1. ReaderAt(u, Perf!AttributesOffset, EntrySize * Len(scene.ids), ChunkSize, EntrySize * a)
    BY <1>5, <1>8, <1>10, <1>13
  <2>2. StreamAt(Perf!Place, u, Perf!AttributesOffset)
    BY <1>5, <1>8, <1>13
  <2>3. /\ Perf!IdsOffset(a) \in Nat /\ IdSize * scene.ids[a] \in Nat /\ IdChunkSize \in Nat
    BY <1>7, <1>10, Layout, PositiveSizes
  <2>4. ReaderAt(v, Perf!IdsOffset(a), IdSize * scene.ids[a], IdChunkSize, 0)
        /\ EndOfChunk(v, Perf!IdsOffset(a)) = Perf!IdsOffset(a)
    BY <1>13, <2>3, ReaderBegins
  <2>5. IdSize * 0 = 0 /\ Len(attributes'[a].ids) = 0
    BY <1>18, <1>20, <1>21, PositiveSizes
  <2>6. StreamAt(Perf!IdsOffset(a), v, Perf!IdsOffset(a))
    BY <2>4 DEF StreamAt
  <2>7. Len(attributes') = a
    BY <1>20, <1>21
  <2>8. ReaderAt(v, Perf!IdsOffset(a), IdSize * scene.ids[a], IdChunkSize, IdSize * 0)
    BY <2>4, <2>5
  <2> QED BY <1>1, <1>2, <1>15, <1>16, <2>1, <2>2, <2>5, <2>6, <2>7, <2>8, InIds
<1>26. AttributesRead'
  <2>1. \A b \in DOMAIN attributes : Len(attributes[b].ids) = scene.ids[b]
    BY <1>1 DEF PerfInv, AttributesRead, AllIds
  <2>2. \A b \in 1 .. Len(q) - 1 : Len(q[b].ids) = scene.ids[b]
    <3>1. Len(q) - 1 = n
      BY <1>6, <1>9, <1>20
    <3> QED BY <1>20, <2>1, <3>1
  <2>3. \A b \in 1 .. Len(attributes') - 1 : AllIds(b)'
    BY <1>2, <1>21, <2>2 DEF AllIds
  <2>4. attributes' # <<>>
    BY <1>6, <1>9, <1>20, <1>21
  <2> QED BY <1>1, <2>3, <2>4 DEF AttributesRead
<1>27. MetadataRead' /\ EventsRead'
  BY <1>1, <1>2 DEF PerfInv, MetadataRead, EventsRead
<1> QED BY <1>22, <1>23, <1>24, <1>25, <1>26, <1>27 DEF PerfInv

LEMMA ReadIdKeeps ==
  ASSUME PerfInv, Perf!ReadId
  PROVE  PerfInv'
PROOF
<1>1. phase = "ids" /\ phase' = "ids"
  BY DEF Perf!ReadId
<1>2. /\ scene' = scene /\ current_feature' = current_feature /\ metadata' = metadata
      /\ build_ids' = build_ids /\ delivered' = delivered /\ progress' = progress
      /\ saved' = saved /\ position' = Perf!Place /\ readers' = Perf!After(IdSize)
  BY DEF Perf!ReadId
<1>3. Perf!Goes /\ Perf!ChunkThere /\ Perf!has_data(Perf!Chunk, IdSize)
  BY DEF Perf!ReadId, Perf!Turns
<1>4. PICK r, s, n :
        /\ readers = <<r, s>> /\ Perf!Last(readers) = s /\ n = Len(attributes)
        /\ n \in 1 .. Len(scene.ids) /\ n \in DOMAIN attributes
        /\ ReaderAt(r, Perf!AttributesOffset, EntrySize * Len(scene.ids), ChunkSize, EntrySize * n)
        /\ StreamAt(saved, r, Perf!AttributesOffset)
        /\ ReaderAt(s, Perf!IdsOffset(n), IdSize * scene.ids[n], IdChunkSize,
                    IdSize * Len(attributes[n].ids))
        /\ StreamAt(position, s, Perf!IdsOffset(n))
  BY <1>1, AtIds
<1>5. PICK f : f = attributes
  OBVIOUS
<1>6. f \in Seq([entry : Seq(Nat), ids : Seq(Seq(Nat))]) /\ DOMAIN f = 1 .. n /\ n \in DOMAIN f
  BY <1>4, <1>5 DEF PerfInv, PerfTyped
<1>7. PICK e, w : e = f[n].entry /\ w = f[n].ids
  OBVIOUS
<1>8. f[n] = [entry |-> e, ids |-> w] /\ e \in Seq(Nat) /\ w \in Seq(Seq(Nat))
  <2>1. f[n] \in [entry : Seq(Nat), ids : Seq(Seq(Nat))]
    <3>1. PICK S : S = [entry : Seq(Nat), ids : Seq(Seq(Nat))]
      OBVIOUS
    <3>2. f \in Seq(S) /\ n \in DOMAIN f
      BY <1>6, <3>1
    <3>3. f[n] \in S
      BY <3>2
    <3> QED BY <3>1, <3>3
  <2> QED BY <1>7, <2>1
<1>9. PICK m, o, t : m = Len(w) /\ o = Perf!IdsOffset(n) /\ t = IdSize * scene.ids[n]
  OBVIOUS
<1>10. m \in Nat /\ o \in Nat /\ t \in Nat /\ scene.ids[n] \in Nat /\ Len(scene.ids) \in Nat
  <2>1. m \in Nat
    BY <1>8, <1>9
  <2>2. o \in Nat /\ t \in Nat /\ scene.ids[n] \in Nat
    BY <1>4, <1>9, ScenePart, Layout
  <2>3. Len(scene.ids) \in Nat
    BY ScenePart
  <2> QED BY <2>1, <2>2, <2>3
<1>11. /\ Perf!retrieve_data(Perf!Chunk, IdSize) = Perf!Bytes(o + IdSize * m, IdSize)
       /\ IdSize * m + IdSize <= t
       /\ ReaderAt(Perf!retrieved(Perf!Chunk, IdSize), o, t, IdChunkSize, IdSize * m + IdSize)
       /\ StreamAt(Perf!Place, Perf!retrieved(Perf!Chunk, IdSize), o)
  <2>1. IdSize \in Nat /\ IdChunkSize \in Nat \ {0}
    BY PositiveSizes
  <2>2. ReaderAt(s, o, t, IdChunkSize, IdSize * m)
    BY <1>4, <1>5, <1>7, <1>9
  <2>3. StreamAt(position, s, o)
    BY <1>4, <1>9
  <2> QED BY <1>3, <1>4, <1>10, <2>1, <2>2, <2>3, TakenOfChunk
<1>12. IdSize * m + IdSize = IdSize * (m + 1)
  BY <1>10, PositiveSizes, OneMorePart
<1>13. PICK d : d = Perf!retrieve_data(Perf!Chunk, IdSize)
  OBVIOUS
<1>14. d = Perf!IdBytes(n, m + 1) /\ d \in Seq(Nat)
  <2>1. IdSize \in Nat
    BY PositiveSizes
  <2>2. (m + 1) - 1 = m /\ m * IdSize = IdSize * m /\ IdSize * m \in Nat
    BY <1>10, <2>1
  <2>3. o + IdSize * m \in Nat
    BY <1>10, <2>2
  <2>4. d = Perf!Bytes(o + IdSize * m, IdSize)
    BY <1>11, <1>13
  <2>5. Perf!IdBytes(n, m + 1) = Perf!Bytes(o + IdSize * m, IdSize)
    BY <1>9, <2>2 DEF Perf!IdBytes
  <2> QED BY <2>1, <2>3, <2>4, <2>5, BytesFacts
<1>15. PICK x : x = Append(w, d)
  OBVIOUS
<1>16. /\ x \in Seq(Seq(Nat)) /\ Len(x) = m + 1 /\ x[m + 1] = d /\ \A i \in 1 .. m : x[i] = w[i]
       /\ DOMAIN x = 1 .. m + 1 /\ DOMAIN w = 1 .. m
  BY <1>8, <1>9, <1>14, <1>15
<1>17. PICK h : h = [entry |-> e, ids |-> x]
  OBVIOUS
<1>18. h \in [entry : Seq(Nat), ids : Seq(Seq(Nat))] /\ h.entry = e /\ h.ids = x
  BY <1>8, <1>16, <1>17
<1>19. PICK g : g = [f EXCEPT ![n] = h]
  OBVIOUS
<1>20. attributes' = g
  <2>1. attributes' = [f EXCEPT ![n].ids = Append(@, d)]
    BY <1>4, <1>5, <1>13 DEF Perf!ReadId
  <2>2. [f[n] EXCEPT !.ids = Append(f[n].ids, d)] = h
    <3>1. PICK z : z = f[n]
      OBVIOUS
    <3>2. z = [entry |-> e, ids |-> w] /\ Append(z.ids, d) = x
      BY <1>7, <1>8, <1>15, <3>1
    <3>3. [z EXCEPT !.ids = x] = h
      BY <1>17, <3>2
    <3> QED BY <3>1, <3>2, <3>3
  <2> QED BY <1>19, <2>1, <2>2
<1>21. /\ g \in Seq([entry : Seq(Nat), ids : Seq(Seq(Nat))]) /\ DOMAIN g = 1 .. n /\ Len(g) = n
       /\ g[n] = h /\ \A b \in 1 .. n : b # n => g[b] = f[b]
  <2>1. n \in Nat
    BY <1>4, <1>10
  <2>2. g = [b \in 1 .. n |-> IF b = n THEN h ELSE f[b]]
    BY <1>6, <1>19
  <2>3. PICK S : S = [entry : Seq(Nat), ids : Seq(Seq(Nat))]
    OBVIOUS
  <2>4. f \in Seq(S) /\ DOMAIN f = 1 .. n /\ n \in 1 .. n /\ h \in S
    BY <1>6, <1>18, <2>3
  <2>5. \A b \in 1 .. n : (IF b = n THEN h ELSE f[b]) \in S
    BY <2>4
  <2>6. g \in Seq(S) /\ DOMAIN g = 1 .. n /\ Len(g) = n
    BY <2>1, <2>2, <2>5
  <2> QED BY <2>2, <2>3, <2>4, <2>6
<1>22. PerfTyped'
  BY <1>1, <1>2, <1>20, <1>21 DEF PerfInv, PerfTyped
<1>23. AttributesRight'
  <2>1. \A b \in 1 .. n : /\ b <= Len(scene.ids) /\ f[b].entry = Perf!EntryBytes(b)
                          /\ \A i \in DOMAIN f[b].ids : f[b].ids[i] = Perf!IdBytes(b, i)
    BY <1>5, <1>6 DEF PerfInv, AttributesRight
  <2>2. n \in 1 .. n
    BY <1>6
  <2>3. g[n].entry = Perf!EntryBytes(n) /\ \A i \in DOMAIN g[n].ids : g[n].ids[i] = Perf!IdBytes(n, i)
    <3>1. e = Perf!EntryBytes(n) /\ \A i \in 1 .. m : w[i] = Perf!IdBytes(n, i)
      BY <1>7, <1>16, <2>1, <2>2
    <3>2. \A i \in 1 .. m + 1 : i \in 1 .. m \/ i = m + 1
      BY <1>10
    <3>3. \A i \in 1 .. m + 1 : x[i] = Perf!IdBytes(n, i)
      BY <1>14, <1>16, <3>1, <3>2
    <3> QED BY <1>16, <1>18, <1>21, <3>1, <3>3
  <2>4. \A b \in DOMAIN g : /\ b <= Len(scene.ids) /\ g[b].entry = Perf!EntryBytes(b)
                            /\ \A i \in DOMAIN g[b].ids : g[b].ids[i] = Perf!IdBytes(b, i)
    BY <1>21, <2>1, <2>3
  <2> QED BY <1>2, <1>20, <2>4, LayoutStays DEF AttributesRight
<1>24. BuildsRight' /\ EventsRight'
  BY <1>2, BuildsStay, EventsStay DEF PerfInv
<1>25. ReadersRight'
  <2>1. PICK u : u = Perf!retrieved(Perf!Chunk, IdSize)
    OBVIOUS
  <2>2. readers' = <<r, u>>
    <3>1. readers' = Perf!Front(<<r, s>>) \o <<u>>
      BY <1>2, <1>4, <2>1 DEF Perf!After
    <3>2. Perf!Front(<<r, s>>) \o <<u>> = <<r, u>>
      BY SecondTurned
    <3> QED BY <3>1, <3>2
  <2>3. ReaderAt(u, Perf!IdsOffset(n), IdSize * scene.ids[n], IdChunkSize, IdSize * (m + 1))
    BY <1>9, <1>11, <1>12, <2>1
  <2>4. StreamAt(Perf!Place, u, Perf!IdsOffset(n))
    BY <1>9, <1>11, <2>1
  <2>5. Len(attributes') = n /\ Len(attributes'[n].ids) = m + 1
    BY <1>16, <1>18, <1>20, <1>21
  <2> QED BY <1>1, <1>2, <1>4, <2>2, <2>3, <2>4, <2>5, InIds
<1>26. AttributesRead'
  <2>1. \A b \in 1 .. n - 1 : Len(f[b].ids) = scene.ids[b]
    BY <1>1, <1>4, <1>5 DEF PerfInv, AttributesRead, AllIds
  <2>2. \A b \in 1 .. n - 1 : Len(g[b].ids) = scene.ids[b]
    <3>1. \A b \in 1 .. n - 1 : b \in 1 .. n /\ b # n
      BY <1>4
    <3> QED BY <1>21, <2>1, <3>1
  <2>3. \A b \in 1 .. Len(attributes') - 1 : AllIds(b)'
    BY <1>2, <1>20, <1>21, <2>2 DEF AllIds
  <2>4. attributes' # <<>>
    BY <1>6, <1>20, <1>21
  <2> QED BY <1>1, <2>3, <2>4 DEF AttributesRead
<1>27. MetadataRead' /\ EventsRead'
  BY <1>1, <1>2 DEF PerfInv, MetadataRead, EventsRead
<1> QED BY <1>22, <1>23, <1>24, <1>25, <1>26, <1>27 DEF PerfInv

\* The stream is put back to where the reader around left it.
LEMMA PutBack ==
  ASSUME NEW r, NEW o, StreamAt(saved, r, o)
  PROVE  StreamAt(Perf!reset_position, r, o)
PROOF BY DEF StreamAt, Perf!reset_position, Perf!MovedTo

LEMMA EndIdsKeeps ==
  ASSUME PerfInv, Perf!EndInner, phase = "ids"
  PROVE  PerfInv'
PROOF
<1>1. phase' = "attributes" /\ ~Perf!Goes
  BY DEF Perf!EndInner
<1>2. /\ scene' = scene /\ current_feature' = current_feature /\ attributes' = attributes
      /\ metadata' = metadata /\ build_ids' = build_ids /\ delivered' = delivered
      /\ progress' = progress /\ readers' = Perf!Front(readers) /\ position' = Perf!reset_position
  BY DEF Perf!EndInner, Perf!results
<1>3. PICK r, s, n :
        /\ readers = <<r, s>> /\ Perf!Last(readers) = s /\ n = Len(attributes)
        /\ n \in 1 .. Len(scene.ids) /\ n \in DOMAIN attributes
        /\ ReaderAt(r, Perf!AttributesOffset, EntrySize * Len(scene.ids), ChunkSize, EntrySize * n)
        /\ StreamAt(saved, r, Perf!AttributesOffset)
        /\ ReaderAt(s, Perf!IdsOffset(n), IdSize * scene.ids[n], IdChunkSize,
                    IdSize * Len(attributes[n].ids))
  BY AtIds
<1>4. attributes \in Seq([entry : Seq(Nat), ids : Seq(Seq(Nat))])
  BY DEF PerfInv, PerfTyped
<1>5. PICK m \in Nat : m = Len(attributes[n].ids)
  <2>1. attributes[n] \in [entry : Seq(Nat), ids : Seq(Seq(Nat))]
    <3>1. PICK S, f : S = [entry : Seq(Nat), ids : Seq(Seq(Nat))] /\ f = attributes
      OBVIOUS
    <3>2. f \in Seq(S) /\ n \in DOMAIN f
      BY <1>3, <1>4, <3>1
    <3>3. f[n] \in S
      BY <3>2
    <3> QED BY <3>1, <3>3
  <2>2. PICK w : w = attributes[n].ids
    OBVIOUS
  <2>3. w \in Seq(Seq(Nat))
    BY <2>1, <2>2
  <2> QED BY <2>2, <2>3
<1>6. m = scene.ids[n]
  <2>1. PICK k : k = scene.ids[n]
    OBVIOUS
  <2>2. Perf!IdsOffset(n) \in Nat /\ k \in Nat /\ IdSize * k \in Nat /\ IdChunkSize \in Nat
    BY <1>3, <2>1, ScenePart, Layout, PositiveSizes
  <2>3. phase \in Perf!Sections
    BY DEF Perf!Sections
  <2>4. IdSize * m = IdSize * k
    BY <1>1, <1>3, <1>5, <2>1, <2>2, <2>3, NothingLeft
  <2> QED BY <1>5, <2>1, <2>2, <2>4, PositiveSizes, OneMorePart
<1>7. \A a \in DOMAIN attributes : AllIds(a)
  <2>1. \A a \in 1 .. Len(attributes) - 1 : AllIds(a)
    BY DEF PerfInv, AttributesRead
  <2>2. AllIds(n)
    BY <1>5, <1>6 DEF AllIds
  <2>3. \A a \in DOMAIN attributes : a \in 1 .. Len(attributes) - 1 \/ a = n
    BY <1>3, <1>4
  <2> QED BY <2>1, <2>2, <2>3
<1>8. PerfTyped'
  BY <1>1, <1>2 DEF PerfInv, PerfTyped
<1>9. AttributesRight' /\ BuildsRight' /\ EventsRight'
  BY <1>2, AttributesStay, BuildsStay, EventsStay DEF PerfInv
<1>10. ReadersRight'
  <2>1. readers' = <<r>>
    BY <1>2, <1>3, ReadersInUse
  <2>2. StreamAt(Perf!reset_position, r, Perf!AttributesOffset)
    BY <1>3, PutBack
  <2> QED BY <1>1, <1>2, <1>3, <2>1, <2>2, InAttributes
<1>11. AttributesRead'
  <2>1. \A a \in DOMAIN attributes' : AllIds(a)'
    BY <1>2, <1>7, AttributesStay
  <2> QED BY <1>1, <2>1 DEF AttributesRead
<1>12. MetadataRead' /\ EventsRead'
  BY <1>1, <1>2 DEF PerfInv, MetadataRead, EventsRead
<1> QED BY <1>8, <1>9, <1>10, <1>11, <1>12 DEF PerfInv

-----------------------------------------------------------------------------
(* PerfDataFile: where sections begin *)

LEMMA BeginFeaturesKeeps ==
  ASSUME PerfInv, Perf!BeginFeatures, UNCHANGED <<scene, current_feature, Perf!results>>,
         phase \in {"open", "attributes"},
         \A a \in DOMAIN attributes : AllIds(a),
         "event_desc" \in scene.features \/ scene.odd \/ Len(attributes) = Len(scene.ids)
  PROVE  PerfInv'
PROOF
<1>1. /\ phase' = IF position = Perf!Bad THEN "failed" ELSE "features"
      /\ position' = Perf!MovedTo(Perf!FeaturesOffset)
      /\ readers' = <<Perf!Reader(SectionSize * Cardinality(scene.features), FeatureChunkSize)>>
  BY SameOperators DEF Perf!BeginFeatures, Perf!Begin
<1>2. CASE position = Perf!Bad
  BY <1>1, <1>2, Stops
<1>3. CASE position # Perf!Bad
  <2>1. phase' = "features" /\ position' = Perf!FeaturesOffset
    BY <1>1, <1>3 DEF Perf!MovedTo
  <2>2. /\ scene' = scene /\ current_feature' = current_feature
        /\ attributes' = attributes /\ metadata' = metadata /\ build_ids' = build_ids
        /\ delivered' = delivered /\ progress' = progress
    BY DEF Perf!results
  <2>3. PICK r, t : t = SectionSize * Cardinality(scene.features) /\ r = Perf!Reader(t, FeatureChunkSize)
    OBVIOUS
  <2>4. Perf!FeaturesOffset \in Nat /\ t \in Nat /\ FeatureChunkSize \in Nat
    BY <2>3, ScenePart, Layout, PositiveSizes
  <2>5. /\ ReaderAt(r, Perf!FeaturesOffset, t, FeatureChunkSize, 0)
        /\ EndOfChunk(r, Perf!FeaturesOffset) = Perf!FeaturesOffset
        /\ r.chunk_size = 0 /\ r.total_processed_size = 0 /\ r.chunk_processed_size = 0
    BY <2>3, <2>4, ReaderBegins
  <2>6. WholeParts(r, SectionSize)
    <3>1. SectionSize * 0 = 0
      BY PositiveSizes
    <3> QED BY <2>5, <3>1 DEF WholeParts
  <2>7. metadata = <<>> /\ build_ids = <<>> /\ current_feature = 0
    BY DEF PerfInv, MetadataRead
  <2>8. ReadersRight'
    <3>1. Len(metadata') = 0 /\ SectionSize * 0 = 0
      BY <2>2, <2>7, PositiveSizes
    <3>2. StreamAt(Perf!FeaturesOffset, r, Perf!FeaturesOffset)
      BY <2>5 DEF StreamAt
    <3>3. readers' = <<r>>
      BY <1>1, <2>3
    <3>4. ReaderAt(r, Perf!FeaturesOffset, SectionSize * Cardinality(scene.features),
                   FeatureChunkSize, SectionSize * 0)
      BY <2>3, <2>5, <3>1
    <3> QED BY <2>1, <2>2, <2>6, <3>1, <3>2, <3>3, <3>4, InFeatures
  <2>9. PerfTyped'
    BY <2>1, <2>2 DEF PerfInv, PerfTyped
  <2>10. AttributesRight' /\ BuildsRight' /\ EventsRight'
    BY <2>2, AttributesStay, BuildsStay, EventsStay DEF PerfInv
  <2>11. AttributesRead'
    <3>1. \A a \in DOMAIN attributes' : AllIds(a)'
      BY <2>2, AttributesStay
    <3> QED BY <2>1, <2>2, <3>1 DEF AttributesRead
  <2>12. MetadataRead'
    <3>1. Taken' = {}
      BY <2>2, <2>7 DEF Taken
    <3>2. Cardinality(Taken') = 0 /\ FeaturesOf(Taken') = {}
      BY <3>1, FS_EmptySet DEF FeaturesOf
    <3>3. metadata' = <<>> /\ Perf!Range(metadata') = {} /\ Len(metadata') = 0
          /\ DOMAIN metadata' = {}
      BY <2>2, <2>7 DEF Perf!Range
    <3> QED BY <2>1, <2>2, <2>7, <3>2, <3>3 DEF MetadataRead, FeaturesOf
  <2>13. EventsRead'
    BY <2>1, <2>2 DEF PerfInv, EventsRead
  <2> QED BY <2>8, <2>9, <2>10, <2>11, <2>12, <2>13 DEF PerfInv
<1> QED BY <1>2, <1>3

LEMMA EndAttributesKeeps ==
  ASSUME PerfInv, Perf!EndAttributes
  PROVE  PerfInv'
PROOF
<1>1. /\ phase = "attributes" /\ ~Perf!Goes /\ Perf!BeginFeatures
      /\ UNCHANGED <<scene, current_feature, Perf!results>>
  BY DEF Perf!EndAttributes
<1>2. PICK r : /\ Perf!Last(readers) = r
               /\ ReaderAt(r, Perf!AttributesOffset, EntrySize * Len(scene.ids), ChunkSize,
                           EntrySize * Len(attributes))
  BY <1>1, AtAttributes
<1>3. PICK n, m : n = Len(attributes) /\ m = Len(scene.ids)
  OBVIOUS
<1>4. n \in Nat /\ m \in Nat /\ EntrySize * m \in Nat /\ Perf!AttributesOffset \in Nat
      /\ ChunkSize \in Nat /\ phase \in Perf!Sections
  BY <1>1, <1>3, ScenePart, Layout, PositiveSizes DEF PerfInv, PerfTyped, Perf!Sections
<1>5. EntrySize * n = EntrySize * m
  BY <1>1, <1>2, <1>3, <1>4, NothingLeft
<1>6. n = m
  BY <1>4, <1>5, PositiveSizes, OneMorePart
<1>7. \A a \in DOMAIN attributes : AllIds(a)
  BY <1>1 DEF PerfInv, AttributesRead
<1> QED BY <1>1, <1>3, <1>6, <1>7, BeginFeaturesKeeps

LEMMA SkipAttributesKeeps ==
  ASSUME PerfInv, Perf!SkipAttributes
  PROVE  PerfInv'
PROOF
<1>1. /\ phase = "attributes" /\ scene.odd /\ Perf!BeginFeatures
      /\ UNCHANGED <<scene, current_feature, Perf!results>>
  BY DEF Perf!SkipAttributes
<1>2. \A a \in DOMAIN attributes : AllIds(a)
  BY <1>1 DEF PerfInv, AttributesRead
<1> QED BY <1>1, <1>2, BeginFeaturesKeeps

LEMMA OpenPerfKeeps ==
  ASSUME PerfInv, Perf!Open
  PROVE  PerfInv'
PROOF
<1>1. phase = "open" /\ UNCHANGED <<scene, current_feature, Perf!results>>
  BY DEF Perf!Open
<1>2. attributes = <<>> /\ DOMAIN attributes = {} /\ Len(attributes) = 0
  BY <1>1 DEF PerfInv, AttributesRead
<1>3. CASE "event_desc" \in scene.features
  <2>1. Perf!BeginFeatures
    BY <1>3 DEF Perf!Open
  <2>2. \A a \in DOMAIN attributes : AllIds(a)
    BY <1>2
  <2> QED BY <1>1, <1>3, <2>1, <2>2, BeginFeaturesKeeps
<1>4. CASE "event_desc" \notin scene.features
  <2>1. /\ phase' = IF position = Perf!Bad THEN "failed" ELSE "attributes"
        /\ position' = Perf!MovedTo(Perf!AttributesOffset)
        /\ readers' = <<Perf!Reader(EntrySize * Len(scene.ids), ChunkSize)>>
    <3>1. Perf!AttributesSize = EntrySize * Len(scene.ids)
      BY ScenePart, Layout
    <3> QED BY <1>4, <3>1 DEF Perf!Open, Perf!Begin
  <2>2. CASE position = Perf!Bad
    BY <1>1, <2>1, <2>2, Stops
  <2>3. CASE position # Perf!Bad
    <3>1. phase' = "attributes" /\ position' = Perf!AttributesOffset
      BY <2>1, <2>3 DEF Perf!MovedTo
    <3>2. /\ scene' = scene /\ current_feature' = current_feature
          /\ attributes' = attributes /\ metadata' = metadata /\ build_ids' = build_ids
          /\ delivered' = delivered /\ progress' = progress
      BY <1>1 DEF Perf!results
    <3>3. PICK r, t : t = EntrySize * Len(scene.ids) /\ r = Perf!Reader(t, ChunkSize)
      OBVIOUS
    <3>4. Perf!AttributesOffset \in Nat /\ t \in Nat /\ ChunkSize \in Nat
      BY <3>3, ScenePart, Layout, PositiveSizes
    <3>5. /\ ReaderAt(r, Perf!AttributesOffset, t, ChunkSize, 0)
          /\ EndOfChunk(r, Perf!AttributesOffset) = Perf!AttributesOffset
      BY <3>3, <3>4, ReaderBegins
    <3>6. ReadersRight'
      <4>1. Len(attributes') = 0 /\ EntrySize * 0 = 0
        BY <1>2, <3>2, PositiveSizes
      <4>2. StreamAt(Perf!AttributesOffset, r, Perf!AttributesOffset)
        BY <3>5 DEF StreamAt
      <4>3. readers' = <<r>>
        BY <2>1, <3>3
      <4>4. ReaderAt(r, Perf!AttributesOffset, EntrySize * Len(scene.ids), ChunkSize, EntrySize * 0)
        BY <3>3, <3>5, <4>1
      <4> QED BY <3>1, <3>2, <4>1, <4>2, <4>3, <4>4, InAttributes
    <3>7. PerfTyped'
      BY <3>1, <3>2 DEF PerfInv, PerfTyped
    <3>8. AttributesRight' /\ BuildsRight' /\ EventsRight'
      BY <3>2, AttributesStay, BuildsStay, EventsStay DEF PerfInv
    <3>9. AttributesRead'
      BY <1>2, <3>1, <3>2 DEF AttributesRead
    <3>10. MetadataRead' /\ EventsRead'
      BY <1>1, <3>1, <3>2 DEF PerfInv, MetadataRead, EventsRead
    <3> QED BY <3>6, <3>7, <3>8, <3>9, <3>10 DEF PerfInv
  <2> QED BY <2>2, <2>3
<1> QED BY <1>3, <1>4

-----------------------------------------------------------------------------
(* PerfDataFile: the headers of features *)

LEMMA FeaturesDiffer ==
  /\ DOMAIN Perf!AllFeatures = 1 .. 4 /\ Len(Perf!AllFeatures) = 4
  /\ \A f, g \in 1 .. 4 : Perf!AllFeatures[f] = Perf!AllFeatures[g] => f = g
  /\ \A f \in 1 .. 4 : Perf!AllFeatures[f] = "build_id" <=> f = 2
PROOF
<1>1. DOMAIN Perf!AllFeatures = 1 .. 4 /\ Len(Perf!AllFeatures) = 4
  BY DEF Perf!AllFeatures
<1>2. /\ Perf!AllFeatures[1] = "tracing_data" /\ Perf!AllFeatures[2] = "build_id"
      /\ Perf!AllFeatures[3] = "hostname" /\ Perf!AllFeatures[4] = "event_desc"
  BY DEF Perf!AllFeatures
<1>3. \A f \in 1 .. 4 : f = 1 \/ f = 2 \/ f = 3 \/ f = 4
  OBVIOUS
<1>4. \A f, g \in 1 .. 4 : Perf!AllFeatures[f] = Perf!AllFeatures[g] => f = g
  BY <1>2, <1>3
<1>5. \A f \in 1 .. 4 : Perf!AllFeatures[f] = "build_id" <=> f = 2
  BY <1>2, <1>3
<1> QED BY <1>1, <1>4, <1>5

\* The features read so far are as many as their numbers, and all of them only if none is left.
LEMMA FeaturesCounted ==
  ASSUME NEW F, F \subseteq AllNames, NEW n \in 0 .. 4,
         NEW T, T = {f \in 1 .. n : Perf!AllFeatures[f] \in F}
  PROVE  /\ IsFiniteSet(T) /\ Cardinality(T) \in Nat /\ Cardinality(T) <= Cardinality(F)
         /\ Cardinality(T) = Cardinality(F) <=> FeaturesOf(T) = F
PROOF
<1>1. PICK g : g = [f \in T |-> Perf!AllFeatures[f]]
  OBVIOUS
<1>2. \A f \in T : f \in 1 .. 4
  OBVIOUS
<1>3. g \in [T -> F]
  BY <1>1
<1>4. g \in Injection(T, F)
  <2>1. \A a, b \in T : g[a] = g[b] => a = b
    BY <1>1, <1>2, FeaturesDiffer
  <2> QED BY <1>3, <2>1 DEF Injection, IsInjective
<1>5. IsFiniteSet(F)
  BY FeaturesFinite
<1>6. /\ IsFiniteSet(T) /\ Cardinality(T) <= Cardinality(F)
      /\ Cardinality(T) = Cardinality(F) <=> g \in Surjection(T, F)
  BY <1>4, <1>5, FS_Injection
<1>7. g \in Surjection(T, F) <=> \A x \in F : \E f \in T : g[f] = x
  BY <1>3 DEF Surjection
<1>8. (\A x \in F : \E f \in T : g[f] = x) <=> FeaturesOf(T) = F
  BY <1>1, <1>2 DEF FeaturesOf
<1> QED BY <1>6, <1>7, <1>8, FS_CardinalityType

LEMMA LeastNumber ==
  ASSUME NEW S, S \subseteq 1 .. 4, S # {}
  PROVE  Perf!Min(S) \in S /\ \A y \in S : Perf!Min(S) <= y
PROOF
<1>1. \E x \in S : \A y \in S : x <= y
  <2>1. CASE 1 \in S
    BY <2>1
  <2>2. CASE 1 \notin S /\ 2 \in S
    BY <2>2
  <2>3. CASE 1 \notin S /\ 2 \notin S /\ 3 \in S
    BY <2>3
  <2>4. CASE 1 \notin S /\ 2 \notin S /\ 3 \notin S
    <3>1. \A y \in S : y = 4
      BY <2>4
    <3>2. 4 \in S
      BY <3>1
    <3> QED BY <3>1, <3>2
  <2> QED BY <2>1, <2>2, <2>3, <2>4
<1> QED BY <1>1 DEF Perf!Min

LEMMA AtFeatures ==
  ASSUME PerfInv, phase = "features"
  PROVE  \E r : /\ readers = <<r>> /\ Perf!Last(readers) = r
                /\ ReaderAt(r, Perf!FeaturesOffset, SectionSize * Cardinality(scene.features),
                            FeatureChunkSize, SectionSize * Len(metadata))
                /\ WholeParts(r, SectionSize) /\ StreamAt(position, r, Perf!FeaturesOffset)
PROOF
<1>1. PICK r : r = readers[1]
  OBVIOUS
<1>2. readers = <<r>> /\ FeaturesReader(r) /\ StreamAt(position, r, Perf!FeaturesOffset)
  BY <1>1 DEF PerfInv, ReadersRight
<1>3. Perf!Last(readers) = r
  BY <1>2, ReadersInUse
<1> QED BY <1>2, <1>3 DEF FeaturesReader

\* What is known of the features in a turn, and which one comes next.
LEMMA NextFeature ==
  ASSUME PerfInv, phase = "features", Len(metadata) < Cardinality(scene.features)
  PROVE  \E f : /\ f = Perf!proceed_to_next_feature(current_feature)
                /\ f \in current_feature + 1 .. 4 /\ Perf!AllFeatures[f] \in scene.features
                /\ {g \in 1 .. f : Perf!AllFeatures[g] \in scene.features} = Taken \cup {f}
                /\ f \notin Taken /\ IsFiniteSet(Taken)
PROOF
<1>1. PICK n, F : n = current_feature /\ F = scene.features
  OBVIOUS
<1>2. n \in 0 .. 4 /\ F \subseteq AllNames
  BY <1>1 DEF PerfInv, PerfTyped, Scene
<1>3. Taken = {f \in 1 .. n : Perf!AllFeatures[f] \in F}
  BY <1>1 DEF Taken
<1>4. /\ IsFiniteSet(Taken) /\ Cardinality(Taken) # Cardinality(F)
  <2>1. Len(metadata) = Cardinality(Taken)
    BY DEF PerfInv, MetadataRead
  <2>2. Cardinality(Taken) < Cardinality(F)
    BY <1>1, <2>1
  <2>3. IsFiniteSet(Taken) /\ Cardinality(Taken) \in Nat
    BY <1>2, <1>3, FeaturesCounted
  <2>4. Cardinality(F) \in Nat
    BY <1>2, FeaturesFinite
  <2> QED BY <2>2, <2>3, <2>4
<1>5. FeaturesOf(Taken) # F
  <2>1. PICK T : T = Taken
    OBVIOUS
  <2>2. T = {f \in 1 .. n : Perf!AllFeatures[f] \in F} /\ Cardinality(T) # Cardinality(F)
    BY <1>3, <1>4, <2>1
  <2>3. Cardinality(T) = Cardinality(F) <=> FeaturesOf(T) = F
    BY <1>2, <2>2, FeaturesCounted
  <2> QED BY <2>1, <2>2, <2>3
<1>6. PICK later : later = {g \in n + 1 .. 4 : Perf!AllFeatures[g] \in F}
  OBVIOUS
<1>7. later # {}
  <2>1. SUFFICES ASSUME later = {} PROVE FALSE
    OBVIOUS
  <2>2. \A x \in F : \E g \in 1 .. 4 : x = Perf!AllFeatures[g]
    BY <1>2 DEF AllNames, FeaturesOf
  <2>3. \A g \in 1 .. 4 : Perf!AllFeatures[g] \in F => g \in Taken
    BY <1>2, <1>3, <1>6, <2>1
  <2>4. \A x \in F : x \in FeaturesOf(Taken)
    BY <2>2, <2>3 DEF FeaturesOf
  <2>5. \A x \in FeaturesOf(Taken) : x \in F
    BY <1>3 DEF FeaturesOf
  <2> QED BY <1>5, <2>4, <2>5
<1>8. PICK f : f = Perf!Min(later)
  OBVIOUS
<1>9. f \in later /\ \A g \in later : f <= g
  <2>1. later \subseteq 1 .. 4
    BY <1>2, <1>6
  <2> QED BY <1>7, <1>8, <2>1, LeastNumber
<1>10. f \in n + 1 .. 4 /\ Perf!AllFeatures[f] \in F /\ f \in 1 .. 4
  BY <1>2, <1>6, <1>9
<1>11. Perf!proceed_to_next_feature(n) = f
  BY <1>1, <1>6, <1>7, <1>8, FeaturesDiffer DEF Perf!proceed_to_next_feature
<1>12. ASSUME NEW g PROVE g \in {h \in 1 .. f : Perf!AllFeatures[h] \in F} <=> g \in Taken \cup {f}
  <2>1. CASE g \in 1 .. n
    BY <1>2, <1>3, <1>10, <2>1
  <2>2. CASE g = f
    BY <1>10, <2>2
  <2>3. CASE g \notin 1 .. n /\ g # f
    <3>1. g \notin Taken \cup {f}
      BY <1>3, <2>3
    <3>2. ASSUME g \in 1 .. f, Perf!AllFeatures[g] \in F PROVE FALSE
      <4>1. g \in n + 1 .. 4
        BY <1>2, <1>10, <2>3, <3>2
      <4>2. g \in later
        BY <1>6, <3>2, <4>1
      <4>3. f <= g
        BY <1>9, <4>2
      <4> QED BY <1>10, <2>3, <3>2, <4>3
    <3> QED BY <3>1, <3>2
  <2> QED BY <2>1, <2>2, <2>3
<1>13. f \notin Taken
  BY <1>2, <1>3, <1>10
<1>14. {h \in 1 .. f : Perf!AllFeatures[h] \in F} = Taken \cup {f}
  BY <1>12
<1> QED BY <1>1, <1>4, <1>10, <1>11, <1>13, <1>14

Extends(q, s, x, A) ==
  /\ q \in Seq(A) /\ Len(q) = Len(s) + 1 /\ Perf!Range(q) = Perf!Range(s) \cup {x}
  /\ DOMAIN q = 1 .. Len(s) + 1 /\ DOMAIN s = 1 .. Len(s)
  /\ q[Len(s) + 1] = x /\ \A i \in 1 .. Len(s) : q[i] = s[i] /\ s[i] \in Perf!Range(s)

LEMMA MoreMetadata ==
  ASSUME NEW A, NEW s \in Seq(A), NEW x \in A, NEW q, q = Append(s, x)
  PROVE  Extends(q, s, x, A)
PROOF
<1>1. PICK n \in Nat : n = Len(s)
  OBVIOUS
<1>2. /\ q \in Seq(A) /\ Len(q) = n + 1 /\ DOMAIN q = 1 .. n + 1 /\ DOMAIN s = 1 .. n
      /\ q[n + 1] = x /\ \A i \in 1 .. n : q[i] = s[i]
  BY <1>1
<1>3. \A i \in 1 .. n + 1 : i \in 1 .. n \/ i = n + 1
  OBVIOUS
<1>4. \A i \in 1 .. n : i \in 1 .. n + 1
  OBVIOUS
<1>5. n + 1 \in 1 .. n + 1
  OBVIOUS
<1>6. ASSUME NEW y PROVE y \in Perf!Range(q) <=> y \in Perf!Range(s) \cup {x}
  BY <1>2, <1>3, <1>4, <1>5 DEF Perf!Range
<1>7. \A i \in 1 .. n : s[i] \in Perf!Range(s)
  BY <1>2 DEF Perf!Range
<1> QED BY <1>1, <1>2, <1>6, <1>7 DEF Extends

LEMMA ReadFeatureKeeps ==
  ASSUME PerfInv, Perf!ReadFeature
  PROVE  PerfInv'
PROOF
<1>1. phase = "features" /\ Perf!Goes /\ Perf!ChunkThere
  BY DEF Perf!ReadFeature, Perf!Turns
<1>2. /\ scene' = scene /\ attributes' = attributes /\ build_ids' = build_ids
      /\ delivered' = delivered /\ progress' = progress /\ saved' = Perf!Place
  BY DEF Perf!ReadFeature
<1>3. PICK r : /\ readers = <<r>> /\ Perf!Last(readers) = r
               /\ ReaderAt(r, Perf!FeaturesOffset, SectionSize * Cardinality(scene.features),
                           FeatureChunkSize, SectionSize * Len(metadata))
               /\ WholeParts(r, SectionSize) /\ StreamAt(position, r, Perf!FeaturesOffset)
  BY <1>1, AtFeatures
<1>4. PICK n, N, o, t : /\ n = Len(metadata) /\ N = Cardinality(scene.features)
                        /\ o = Perf!FeaturesOffset /\ t = SectionSize * N
  OBVIOUS
<1>5. n \in Nat /\ N \in Nat /\ o \in Nat /\ t \in Nat /\ scene.features \subseteq AllNames
      /\ metadata \in Seq(AllNames)
  <2>1. N \in Nat /\ scene.features \subseteq AllNames
    BY <1>4, ScenePart, FeaturesFinite DEF Scene
  <2>2. o \in Nat /\ t \in Nat
    BY <1>4, ScenePart, Layout
  <2>3. metadata \in Seq(AllNames)
    BY DEF PerfInv, PerfTyped
  <2>4. n \in Nat
    BY <1>4, <2>3
  <2> QED BY <2>1, <2>2, <2>3, <2>4
<1>6. ReaderAt(r, o, t, FeatureChunkSize, SectionSize * n) /\ StreamAt(position, r, o)
  BY <1>3, <1>4
<1>7. Perf!has_data(Perf!Chunk, SectionSize)
      /\ WholeParts(Perf!retrieved(Perf!Chunk, SectionSize), SectionSize)
  BY <1>1, <1>3, <1>4, <1>5, <1>6, PositiveSizes, WholePartInChunk
<1>8. PICK u : u = Perf!retrieved(Perf!Chunk, SectionSize)
  OBVIOUS
<1>9. /\ SectionSize * n + SectionSize <= t
      /\ ReaderAt(u, o, t, FeatureChunkSize, SectionSize * n + SectionSize)
      /\ StreamAt(Perf!Place, u, o)
  <2>1. SectionSize \in Nat /\ FeatureChunkSize \in Nat \ {0}
    BY PositiveSizes
  <2> QED BY <1>1, <1>3, <1>5, <1>6, <1>7, <1>8, <2>1, TakenOfChunk
<1>10. n + 1 <= N /\ SectionSize * n + SectionSize = SectionSize * (n + 1)
  BY <1>4, <1>5, <1>9, PositiveSizes, OneMorePart
<1>11. ReaderAt(u, Perf!FeaturesOffset, SectionSize * Cardinality(scene.features),
                FeatureChunkSize, SectionSize * (n + 1))
       /\ StreamAt(Perf!Place, u, Perf!FeaturesOffset) /\ WholeParts(u, SectionSize)
  BY <1>4, <1>7, <1>8, <1>9, <1>10
<1>12. n < N
  BY <1>5, <1>10
<1>13. PICK f : /\ f = Perf!proceed_to_next_feature(current_feature)
                /\ f \in current_feature + 1 .. 4 /\ Perf!AllFeatures[f] \in scene.features
                /\ {g \in 1 .. f : Perf!AllFeatures[g] \in scene.features} = Taken \cup {f}
                /\ f \notin Taken /\ IsFiniteSet(Taken)
  BY <1>1, <1>4, <1>12, NextFeature
<1>14. PICK x : x = Perf!AllFeatures[f]
  OBVIOUS
<1>15. /\ current_feature' = f /\ metadata' = Append(metadata, x)
       /\ IF x = "build_id"
          THEN /\ readers' = Append(Perf!After(SectionSize), Perf!Reader(Perf!SumOf(Perf!Widths(scene.builds)), ChunkSize))
               /\ phase' = IF position = Perf!Bad THEN "failed" ELSE "build_ids"
               /\ position' = Perf!MovedTo(Perf!BuildsOffset)
          ELSE /\ readers' = Perf!After(SectionSize)
               /\ position' = IF x # "tracing_data"
                                 /\ Perf!BuildsOffset + Perf!SumOf(Perf!Widths(scene.builds)) >= Perf!FileLength
                              THEN Perf!Bad ELSE Perf!MovedTo(Perf!Place)
               /\ phase' = phase
  <2>1. Perf!BuildsSize = Perf!SumOf(Perf!Widths(scene.builds))
    BY ScenePart, Layout
  <2> QED BY <1>13, <1>14, <2>1 DEF Perf!ReadFeature
<1>16. Perf!After(SectionSize) = <<u>>
  <2>1. Perf!After(SectionSize) = Perf!Front(<<r>>) \o <<u>>
    BY <1>3, <1>8 DEF Perf!After
  <2>2. Perf!Front(<<r>>) \o <<u>> = <<u>>
    BY ReadersInUse
  <2> QED BY <2>1, <2>2
<1>17. current_feature \in 0 .. 4 /\ f \in 1 .. 4
  <2>1. current_feature \in 0 .. 4
    BY DEF PerfInv, PerfTyped
  <2> QED BY <1>13, <2>1
<1>18. PICK q : q = Append(metadata, x)
  OBVIOUS
<1>19. x \in AllNames
  BY <1>5, <1>13, <1>14
<1>20. /\ q \in Seq(AllNames) /\ Len(q) = n + 1 /\ Perf!Range(q) = Perf!Range(metadata) \cup {x}
       /\ DOMAIN q = 1 .. n + 1 /\ DOMAIN metadata = 1 .. n
       /\ q[n + 1] = x /\ \A i \in 1 .. n : q[i] = metadata[i] /\ metadata[i] \in Perf!Range(metadata)
  <2>1. metadata \in Seq(AllNames) /\ x \in AllNames /\ q = Append(metadata, x)
    BY <1>5, <1>18, <1>19
  <2>2. /\ q \in Seq(AllNames) /\ Len(q) = Len(metadata) + 1
        /\ Perf!Range(q) = Perf!Range(metadata) \cup {x}
        /\ DOMAIN q = 1 .. Len(metadata) + 1 /\ DOMAIN metadata = 1 .. Len(metadata)
        /\ q[Len(metadata) + 1] = x
        /\ \A i \in 1 .. Len(metadata) : q[i] = metadata[i] /\ metadata[i] \in Perf!Range(metadata)
    <3>1. PICK m : m = metadata
      OBVIOUS
    <3>2. /\ q \in Seq(AllNames) /\ Len(q) = Len(m) + 1 /\ Perf!Range(q) = Perf!Range(m) \cup {x}
          /\ DOMAIN q = 1 .. Len(m) + 1 /\ DOMAIN m = 1 .. Len(m)
          /\ q[Len(m) + 1] = x /\ \A i \in 1 .. Len(m) : q[i] = m[i] /\ m[i] \in Perf!Range(m)
      <4>1. PICK A : A = AllNames
        OBVIOUS
      <4>2. m \in Seq(A) /\ x \in A /\ q = Append(m, x)
        BY <2>1, <3>1, <4>1
      <4>3. Extends(q, m, x, A)
        BY <4>2, MoreMetadata
      <4> QED BY <4>1, <4>3 DEF Extends
    <3> QED BY <3>1, <3>2
  <2> QED BY <1>4, <2>2
<1>21. metadata' = q /\ phase' \in {"features", "build_ids", "failed"}
  BY <1>1, <1>15, <1>18
<1>22. PerfTyped'
  BY <1>2, <1>15, <1>17, <1>20, <1>21 DEF PerfInv, PerfTyped
<1>23. AttributesRight' /\ BuildsRight' /\ EventsRight'
  BY <1>2, AttributesStay, BuildsStay, EventsStay DEF PerfInv
<1>24. AttributesRead'
  <2>1. \A a \in DOMAIN attributes' : AllIds(a)'
    BY <1>1, <1>2, AttributesStay DEF PerfInv, AttributesRead
  <2>2. "event_desc" \in scene'.features \/ scene'.odd \/ Len(attributes') = Len(scene'.ids)
    BY <1>1, <1>2 DEF PerfInv, AttributesRead
  <2> QED BY <1>21, <2>1, <2>2 DEF AttributesRead
<1>25. EventsRead'
  BY <1>1, <1>2, <1>21 DEF PerfInv, EventsRead
<1>26. /\ Perf!Range(metadata) = FeaturesOf(Taken) /\ n = Cardinality(Taken)
       /\ \A i, j \in DOMAIN metadata, g, h \in DOMAIN Perf!AllFeatures :
            i < j /\ metadata[i] = Perf!AllFeatures[g] /\ metadata[j] = Perf!AllFeatures[h] => g < h
       /\ "build_id" \notin Perf!Range(metadata) => build_ids = <<>>
       /\ "build_id" \in Perf!Range(metadata) => Len(build_ids) = Len(scene.builds) \/ Perf!RefusesBuilds
  BY <1>1, <1>4 DEF PerfInv, MetadataRead
<1>27. ASSUME NEW y \in Perf!Range(metadata) PROVE \E g \in 1 .. 4 : g < f /\ y = Perf!AllFeatures[g]
  <2>1. PICK g \in Taken : y = Perf!AllFeatures[g]
    BY <1>26 DEF FeaturesOf
  <2>2. g \in 1 .. current_feature
    BY <2>1 DEF Taken
  <2> QED BY <1>13, <1>17, <2>1, <2>2
<1>28. x = "build_id" <=> f = 2
  BY <1>14, <1>17, FeaturesDiffer
<1>29. x = "build_id" => "build_id" \notin Perf!Range(metadata)
  <2>1. SUFFICES ASSUME f = 2, "build_id" \in Perf!Range(metadata) PROVE FALSE
    BY <1>28
  <2>2. PICK g \in 1 .. 4 : g < f /\ "build_id" = Perf!AllFeatures[g]
    BY <1>27, <2>1
  <2>3. g = 2
    BY <2>2, FeaturesDiffer
  <2> QED BY <2>1, <2>2, <2>3
<1>30. /\ Perf!Range(q) = FeaturesOf(Taken') /\ Len(q) = Cardinality(Taken')
       /\ \A i, j \in DOMAIN q, g, h \in DOMAIN Perf!AllFeatures :
            i < j /\ q[i] = Perf!AllFeatures[g] /\ q[j] = Perf!AllFeatures[h] => g < h
  <2>1. Taken' = Taken \cup {f}
    BY <1>2, <1>13, <1>15 DEF Taken
  <2>2. Cardinality(Taken \cup {f}) = Cardinality(Taken) + 1
    BY <1>13, FS_AddElement
  <2>3. FeaturesOf(Taken \cup {f}) = FeaturesOf(Taken) \cup {x}
    BY <1>14 DEF FeaturesOf
  <2>4. ASSUME NEW i \in DOMAIN q, NEW j \in DOMAIN q, NEW g \in DOMAIN Perf!AllFeatures,
               NEW h \in DOMAIN Perf!AllFeatures,
               i < j, q[i] = Perf!AllFeatures[g], q[j] = Perf!AllFeatures[h]
        PROVE  g < h
    <3>1. g \in 1 .. 4 /\ h \in 1 .. 4
      BY FeaturesDiffer
    <3>2. CASE j \in 1 .. n
      <4>1. i \in 1 .. n
        BY <1>5, <1>20, <2>4, <3>2
      <4> QED BY <1>20, <1>26, <2>4, <3>2, <4>1
    <3>3. CASE j \notin 1 .. n
      <4>1. j = n + 1 /\ i \in 1 .. n
        BY <1>5, <1>20, <2>4, <3>3
      <4>2. h = f
        BY <1>14, <1>17, <1>20, <2>4, <3>1, <4>1, FeaturesDiffer
      <4>3. PICK k \in 1 .. 4 : k < f /\ metadata[i] = Perf!AllFeatures[k]
        BY <1>20, <1>27, <4>1
      <4>4. k = g
        BY <1>20, <2>4, <3>1, <4>1, <4>3, FeaturesDiffer
      <4> QED BY <4>2, <4>3, <4>4
    <3> QED BY <3>2, <3>3
  <2> QED BY <1>20, <1>26, <2>1, <2>2, <2>3, <2>4
<1>31. MetadataRead'
  <2>1. "build_id" \notin Perf!Range(q) => build_ids = <<>>
    BY <1>20, <1>26
  <2>2. phase' = "build_ids" => "build_id" \in Perf!Range(q)
    BY <1>1, <1>15, <1>20
  <2>3. phase' = "features" /\ "build_id" \in Perf!Range(q) =>
          Len(build_ids) = Len(scene.builds) \/ Perf!RefusesBuilds
    <3>1. SUFFICES ASSUME phase' = "features", "build_id" \in Perf!Range(q)
                   PROVE  Len(build_ids) = Len(scene.builds) \/ Perf!RefusesBuilds
      OBVIOUS
    <3>2. x # "build_id"
      BY <1>15, <3>1
    <3>3. "build_id" \in Perf!Range(metadata)
      BY <1>20, <3>1, <3>2
    <3> QED BY <1>26, <3>3
  <2> QED BY <1>2, <1>21, <1>30, <2>1, <2>2, <2>3, LayoutStays DEF MetadataRead
<1>32. ReadersRight'
  <2>1. CASE x # "build_id"
    <3>1. phase' = "features" /\ readers' = <<u>>
      BY <1>1, <1>15, <1>16, <2>1
    <3>2. position' = Perf!Bad \/ position' = Perf!Place
      BY <1>15, <2>1 DEF Perf!MovedTo
    <3>3. PICK p : p = position'
      OBVIOUS
    <3>4. StreamAt(p, u, Perf!FeaturesOffset)
      BY <1>11, <3>2, <3>3 DEF StreamAt
    <3>5. Len(metadata') = n + 1
      BY <1>20, <1>21
    <3> QED BY <1>2, <1>11, <3>1, <3>3, <3>4, <3>5, InFeatures
  <2>2. CASE x = "build_id"
    <3>1. CASE position = Perf!Bad
      BY <1>15, <2>2, <3>1, InNone DEF Perf!Sections
    <3>2. CASE position # Perf!Bad
      <4>1. phase' = "build_ids" /\ position' = Perf!BuildsOffset
        BY <1>15, <2>2, <3>2 DEF Perf!MovedTo
      <4>2. PICK v, s : s = Perf!SumOf(Perf!Widths(scene.builds)) /\ v = Perf!Reader(s, ChunkSize)
        OBVIOUS
      <4>3. readers' = <<u, v>>
        BY <1>15, <1>16, <2>2, <4>2, ReadersInUse
      <4>4. Perf!BuildsOffset \in Nat /\ s \in Nat /\ ChunkSize \in Nat
            /\ Perf!Before(scene.builds, 0 + 1) = 0
        BY <4>2, ScenePart, Layout, EventsLie, PositiveSizes
      <4>5. ReaderAt(v, Perf!BuildsOffset, s, ChunkSize, 0)
            /\ EndOfChunk(v, Perf!BuildsOffset) = Perf!BuildsOffset
        BY <4>2, <4>4, ReaderBegins
      <4>6. Len(build_ids') = 0
        BY <1>2, <1>26, <1>29, <2>2
      <4>7. StreamAt(Perf!BuildsOffset, v, Perf!BuildsOffset)
        BY <4>5 DEF StreamAt
      <4>8. ReaderAt(v, Perf!BuildsOffset, Perf!SumOf(Perf!Widths(scene.builds)), ChunkSize,
                     Perf!Before(scene.builds, 0 + 1))
        BY <4>2, <4>4, <4>5
      <4>9. Len(metadata') = n + 1
        BY <1>20, <1>21
      <4> QED BY <1>2, <1>11, <4>1, <4>3, <4>6, <4>7, <4>8, <4>9, InBuilds
    <3> QED BY <3>1, <3>2
  <2> QED BY <2>1, <2>2
<1> QED BY <1>22, <1>23, <1>24, <1>25, <1>31, <1>32 DEF PerfInv

LEMMA EndFeaturesKeeps ==
  ASSUME PerfInv, Perf!EndFeatures
  PROVE  PerfInv'
PROOF
<1>1. phase = "features" /\ ~Perf!Goes /\ UNCHANGED <<scene, current_feature, Perf!results>>
  BY DEF Perf!EndFeatures
<1>2. /\ phase' = IF position = Perf!Bad THEN "failed" ELSE "events"
      /\ position' = Perf!MovedTo(Perf!DataOffset)
      /\ readers' = <<Perf!Reader(Perf!SumOf(Perf!Widths(scene.events)), ChunkSize)>>
  <2>1. Perf!EventsSize = Perf!SumOf(Perf!Widths(scene.events))
    BY ScenePart, Layout
  <2> QED BY <2>1 DEF Perf!EndFeatures, Perf!Begin
<1>3. /\ scene' = scene /\ current_feature' = current_feature
      /\ attributes' = attributes /\ metadata' = metadata /\ build_ids' = build_ids
      /\ delivered' = delivered /\ progress' = progress
  BY <1>1 DEF Perf!results
<1>4. CASE position = Perf!Bad
  BY <1>1, <1>2, <1>4, Stops
<1>5. CASE position # Perf!Bad
  <2>1. phase' = "events" /\ position' = Perf!DataOffset
    BY <1>2, <1>5 DEF Perf!MovedTo
  <2>2. delivered = <<>> /\ progress.current_work = 0
    BY <1>1 DEF PerfInv, EventsRead
  <2>3. PICK r, t : t = Perf!SumOf(Perf!Widths(scene.events)) /\ r = Perf!Reader(t, ChunkSize)
    OBVIOUS
  <2>4. Perf!DataOffset \in Nat /\ t \in Nat /\ ChunkSize \in Nat
        /\ Perf!Before(scene.events, 0 + 1) = 0
    BY <2>3, ScenePart, Layout, EventsLie, PositiveSizes
  <2>5. ReaderAt(r, Perf!DataOffset, t, ChunkSize, 0)
        /\ EndOfChunk(r, Perf!DataOffset) = Perf!DataOffset
    BY <2>3, <2>4, ReaderBegins
  <2>6. ReadersRight'
    <3>1. Len(delivered') = 0
      BY <1>3, <2>2
    <3>2. StreamAt(Perf!DataOffset, r, Perf!DataOffset)
      BY <2>5 DEF StreamAt
    <3>3. readers' = <<r>>
      BY <1>2, <2>3
    <3>4. ReaderAt(r, Perf!DataOffset, Perf!SumOf(Perf!Widths(scene.events)), ChunkSize,
                   Perf!Before(scene.events, 0 + 1))
      BY <2>3, <2>4, <2>5
    <3> QED BY <1>3, <2>1, <3>1, <3>2, <3>3, <3>4, InEvents
  <2>7. PerfTyped'
    BY <1>3, <2>1 DEF PerfInv, PerfTyped
  <2>8. AttributesRight' /\ BuildsRight' /\ EventsRight'
    BY <1>3, AttributesStay, BuildsStay, EventsStay DEF PerfInv
  <2>9. AttributesRead'
    <3>1. \A a \in DOMAIN attributes' : AllIds(a)'
      BY <1>1, <1>3, AttributesStay DEF PerfInv, AttributesRead
    <3> QED BY <1>1, <1>3, <2>1, <3>1 DEF PerfInv, AttributesRead
  <2>10. Perf!Range(metadata) = scene.features
    <3>1. PICK r0 : /\ Perf!Last(readers) = r0
                    /\ ReaderAt(r0, Perf!FeaturesOffset, SectionSize * Cardinality(scene.features),
                                FeatureChunkSize, SectionSize * Len(metadata))
      BY <1>1, AtFeatures
    <3>2. PICK n, N : n = Len(metadata) /\ N = Cardinality(scene.features)
      OBVIOUS
    <3>3. scene.features \subseteq AllNames /\ current_feature \in 0 .. 4
          /\ metadata \in Seq(AllNames)
      BY DEF PerfInv, PerfTyped, Scene
    <3>4. n \in Nat /\ N \in Nat
      BY <3>2, <3>3, FeaturesFinite
    <3>5. Perf!FeaturesOffset \in Nat /\ SectionSize * N \in Nat /\ FeatureChunkSize \in Nat
          /\ phase \in Perf!Sections
      BY <1>1, <3>2, ScenePart, Layout, PositiveSizes DEF Perf!Sections
    <3>6. SectionSize * n = SectionSize * N
      BY <1>1, <3>1, <3>2, <3>5, NothingLeft
    <3>7. n = N
      BY <3>4, <3>6, PositiveSizes, OneMorePart
    <3>8. PICK F, T : F = scene.features /\ T = Taken
      OBVIOUS
    <3>9. T = {f \in 1 .. current_feature : Perf!AllFeatures[f] \in F} /\ F \subseteq AllNames
      BY <3>3, <3>8 DEF Taken
    <3>10. Cardinality(T) = Cardinality(F) <=> FeaturesOf(T) = F
      BY <3>3, <3>9, FeaturesCounted
    <3>11. Perf!Range(metadata) = FeaturesOf(T) /\ n = Cardinality(T)
      BY <1>1, <3>2, <3>8 DEF PerfInv, MetadataRead
    <3> QED BY <3>2, <3>7, <3>8, <3>10, <3>11
  <2>11. MetadataRead'
    BY <1>1, <1>3, <2>1, <2>10, TakenStays, LayoutStays DEF PerfInv, MetadataRead
  <2>12. EventsRead'
    <3>1. progress'.current_work = 0 /\ Perf!Before(scene'.events, Len(delivered') + 1) = 0
      BY <1>3, <2>2, <2>4
    <3> QED BY <2>1, <3>1 DEF EventsRead
  <2> QED BY <2>6, <2>7, <2>8, <2>9, <2>11, <2>12 DEF PerfInv
<1> QED BY <1>4, <1>5

-----------------------------------------------------------------------------
(* PerfDataFile: the events of build_id and those of the section of events *)

LEMMA AtBuilds ==
  ASSUME PerfInv, phase = "build_ids"
  PROVE  \E r, s, n :
           /\ readers = <<r, s>> /\ Perf!Last(readers) = s /\ n = Len(build_ids)
           /\ n \in Nat /\ n <= Len(scene.builds) /\ Len(scene.builds) \in Nat
           /\ ReaderAt(r, Perf!FeaturesOffset, SectionSize * Cardinality(scene.features),
                       FeatureChunkSize, SectionSize * Len(metadata))
           /\ WholeParts(r, SectionSize) /\ StreamAt(saved, r, Perf!FeaturesOffset)
           /\ ReaderAt(s, Perf!BuildsOffset, Perf!SumOf(Perf!Widths(scene.builds)), ChunkSize,
                       Perf!Before(scene.builds, n + 1))
           /\ StreamAt(position, s, Perf!BuildsOffset)
PROOF
<1>1. PICK r, s, n : r = readers[1] /\ s = readers[2] /\ n = Len(build_ids)
  OBVIOUS
<1>2. /\ readers = <<r, s>> /\ FeaturesReader(r) /\ StreamAt(saved, r, Perf!FeaturesOffset)
      /\ BuildsReader(s) /\ StreamAt(position, s, Perf!BuildsOffset)
  BY <1>1 DEF PerfInv, ReadersRight
<1>3. Perf!Last(readers) = s
  BY <1>2, ReadersInUse
<1>4. n \in Nat /\ Len(scene.builds) \in Nat /\ n <= Len(scene.builds)
  <2>1. PICK b, l : b = build_ids /\ l = Len(scene.builds)
    OBVIOUS
  <2>2. b \in Seq(Seq(Nat)) /\ \A k \in DOMAIN b : k <= l
    BY <2>1 DEF PerfInv, PerfTyped, BuildsRight
  <2>3. n \in Nat /\ n = Len(b) /\ DOMAIN b = 1 .. n
    BY <1>1, <2>1, <2>2
  <2>4. l \in Nat
    BY <2>1, ScenePart
  <2>5. n # 0 => n \in 1 .. n
    BY <2>3
  <2> QED BY <2>1, <2>2, <2>3, <2>4, <2>5
<1> QED BY <1>1, <1>2, <1>3, <1>4 DEF FeaturesReader, BuildsReader

LEMMA AtEvents ==
  ASSUME PerfInv, phase = "events"
  PROVE  \E r, n :
           /\ readers = <<r>> /\ Perf!Last(readers) = r /\ n = Len(delivered)
           /\ n \in Nat /\ n <= Len(scene.events) /\ Len(scene.events) \in Nat
           /\ ReaderAt(r, Perf!DataOffset, Perf!SumOf(Perf!Widths(scene.events)), ChunkSize,
                       Perf!Before(scene.events, n + 1))
           /\ StreamAt(position, r, Perf!DataOffset)
PROOF
<1>1. PICK r, n : r = readers[1] /\ n = Len(delivered)
  OBVIOUS
<1>2. /\ readers = <<r>> /\ EventsReader(r) /\ StreamAt(position, r, Perf!DataOffset)
  BY <1>1 DEF PerfInv, ReadersRight
<1>3. Perf!Last(readers) = r
  BY <1>2, ReadersInUse
<1>4. n \in Nat /\ Len(scene.events) \in Nat /\ n <= Len(scene.events)
  <2>1. PICK b, l : b = delivered /\ l = Len(scene.events)
    OBVIOUS
  <2>2. b \in Seq(Seq(Nat)) /\ \A k \in DOMAIN b : k <= l
    BY <2>1 DEF PerfInv, PerfTyped, EventsRight
  <2>3. n \in Nat /\ n = Len(b) /\ DOMAIN b = 1 .. n
    BY <1>1, <2>1, <2>2
  <2>4. l \in Nat
    BY <2>1, ScenePart
  <2>5. n # 0 => n \in 1 .. n
    BY <2>3
  <2> QED BY <2>1, <2>2, <2>3, <2>4, <2>5
<1> QED BY <1>1, <1>2, <1>3, <1>4 DEF EventsReader

\* A number of bytes that a turn of a loop over events asks for is either that of a header
\* that is not in the chunk, or what the event says.
LEMMA WantedOfEvents ==
  ASSUME Perf!Goes, Perf!ChunkThere, phase \in {"build_ids", "events"}, NEW r, Perf!Last(readers) = r,
         NEW o \in Nat, NEW sizes \in Seq(Nat), NEW n \in 0 .. Len(sizes),
         ReaderAt(r, o, Perf!SumOf(Perf!Widths(sizes)), ChunkSize, Perf!Before(sizes, n + 1)),
         StreamAt(position, r, o),
         \A k \in 1 .. Len(sizes) :
           Perf!SizeFields(Perf!Bytes(o + Perf!Before(sizes, k), HeaderSize)) = {sizes[k]},
         NEW size \in Perf!Wanted
  PROVE  /\ n + 1 \in 1 .. Len(sizes) /\ size \in Nat /\ size <= Perf!Width(sizes[n + 1])
         /\ Perf!has_data(Perf!Chunk, size) => Perf!has_data(Perf!Chunk, HeaderSize) /\ size = sizes[n + 1]
PROOF
<1>1. PICK t, c : t = Perf!SumOf(Perf!Widths(sizes)) /\ c = Perf!Before(sizes, n + 1)
  OBVIOUS
<1>2. t \in Nat /\ c \in Nat /\ n \in Nat /\ Len(sizes) \in Nat /\ n + 1 \in 1 .. Len(sizes) + 1
  <2>1. n + 1 \in 1 .. Len(sizes) + 1 /\ n \in Nat /\ Len(sizes) \in Nat
    OBVIOUS
  <2> QED BY <1>1, <2>1, EventsLie
<1>3. ChunkSize \in Nat \ {0} /\ HeaderSize \in Nat
  BY PositiveSizes
<1>4. c < t
  BY <1>1, <1>2, <1>3, ChunkOfTurn
<1>5. n + 1 \in 1 .. Len(sizes)
  <2>1. SUFFICES ASSUME n = Len(sizes) PROVE FALSE
    BY <1>2
  <2>2. c = t
    BY <1>1, <2>1, EventsLie
  <2> QED BY <1>2, <1>4, <2>2
<1>6. Perf!Width(sizes[n + 1]) \in Nat /\ HeaderSize <= Perf!Width(sizes[n + 1])
  BY <1>5, EventsLie
<1>7. sizes[n + 1] \in Nat /\ sizes[n + 1] <= Perf!Width(sizes[n + 1])
  <2>1. sizes[n + 1] \in Nat
    BY <1>5
  <2> QED BY <1>3, <2>1 DEF Perf!Width
<1>8. CASE Perf!has_data(Perf!Chunk, HeaderSize)
  <2>1. Perf!retrieve_data(Perf!Chunk, HeaderSize) = Perf!Bytes(o + c, HeaderSize)
    BY <1>1, <1>2, <1>3, <1>8, TakenOfChunk
  <2>2. Perf!Wanted = {sizes[n + 1]}
    BY <1>1, <1>5, <1>8, <2>1 DEF Perf!Wanted
  <2> QED BY <1>5, <1>7, <1>8, <2>2
<1>9. CASE ~Perf!has_data(Perf!Chunk, HeaderSize)
  <2>1. size = HeaderSize
    BY <1>9 DEF Perf!Wanted
  <2> QED BY <1>3, <1>5, <1>6, <1>9, <2>1
<1> QED BY <1>8, <1>9

LEMMA ReadBuildIdKeeps ==
  ASSUME PerfInv, Perf!ReadBuildId
  PROVE  PerfInv'
PROOF
<1>1. /\ phase = "build_ids" /\ phase' = "build_ids"
      /\ scene' = scene /\ current_feature' = current_feature /\ attributes' = attributes
      /\ metadata' = metadata /\ delivered' = delivered /\ progress' = progress
      /\ saved' = saved /\ position' = Perf!Place
  BY DEF Perf!ReadBuildId
<1>2. PICK size \in Perf!Wanted :
        /\ Perf!Goes /\ Perf!ChunkThere /\ Perf!has_data(Perf!Chunk, size) /\ size >= HeaderSize
        /\ build_ids' = Append(build_ids, Perf!retrieve_data(Perf!Chunk, size))
        /\ readers' = Perf!After(size)
  BY DEF Perf!ReadBuildId, Perf!Turns
<1>3. PICK r, s, n :
        /\ readers = <<r, s>> /\ Perf!Last(readers) = s /\ n = Len(build_ids)
        /\ n \in Nat /\ n <= Len(scene.builds) /\ Len(scene.builds) \in Nat
        /\ ReaderAt(r, Perf!FeaturesOffset, SectionSize * Cardinality(scene.features),
                    FeatureChunkSize, SectionSize * Len(metadata))
        /\ WholeParts(r, SectionSize) /\ StreamAt(saved, r, Perf!FeaturesOffset)
        /\ ReaderAt(s, Perf!BuildsOffset, Perf!SumOf(Perf!Widths(scene.builds)), ChunkSize,
                    Perf!Before(scene.builds, n + 1))
        /\ StreamAt(position, s, Perf!BuildsOffset)
  BY <1>1, AtBuilds
<1>4. PICK sizes, o, t, c, w :
        /\ sizes = scene.builds /\ o = Perf!BuildsOffset /\ t = Perf!SumOf(Perf!Widths(sizes))
        /\ c = Perf!Before(sizes, n + 1) /\ w = Perf!Width(sizes[n + 1])
  OBVIOUS
<1>5. sizes \in Seq(Nat) /\ o \in Nat /\ n \in 0 .. Len(sizes) /\ t \in Nat /\ HeaderSize \in Nat
      /\ ChunkSize \in Nat \ {0}
  <2>1. sizes \in Seq(Nat) /\ o \in Nat
    BY <1>4, ScenePart, Layout
  <2>2. n \in 0 .. Len(sizes)
    BY <1>3, <1>4
  <2>3. t \in Nat
    BY <1>4, <2>1, EventsLie
  <2> QED BY <2>1, <2>2, <2>3, PositiveSizes
<1>6. /\ ReaderAt(s, o, Perf!SumOf(Perf!Widths(sizes)), ChunkSize, Perf!Before(sizes, n + 1))
      /\ StreamAt(position, s, o)
      /\ \A k \in 1 .. Len(sizes) :
           Perf!SizeFields(Perf!Bytes(o + Perf!Before(sizes, k), HeaderSize)) = {sizes[k]}
      /\ \A k \in 1 .. Len(sizes) :
           Perf!BuildBytes(k) = Perf!Bytes(o + Perf!Before(sizes, k), Perf!Width(sizes[k]))
  BY <1>3, <1>4, ScenePart, SizeIsKnown
<1>7. n + 1 \in 1 .. Len(sizes) /\ size \in Nat /\ size = sizes[n + 1]
  <2>1. size \in Perf!Wanted /\ Perf!Goes /\ Perf!ChunkThere /\ Perf!has_data(Perf!Chunk, size)
    BY <1>2
  <2>2. phase \in {"build_ids", "events"} /\ Perf!Last(readers) = s
    BY <1>1, <1>3
  <2> QED BY <1>5, <1>6, <2>1, <2>2, WantedOfEvents
<1>8. size = w
  BY <1>2, <1>4, <1>5, <1>7 DEF Perf!Width
<1>9. PICK d, u : d = Perf!retrieve_data(Perf!Chunk, size) /\ u = Perf!retrieved(Perf!Chunk, size)
  OBVIOUS
<1>10. /\ d = Perf!Bytes(o + c, size) /\ c \in Nat /\ ReaderAt(u, o, t, ChunkSize, c + size)
       /\ StreamAt(Perf!Place, u, o)
  <2>1. ReaderAt(s, o, t, ChunkSize, c) /\ StreamAt(position, s, o) /\ Perf!Last(readers) = s
    BY <1>3, <1>4, <1>6
  <2>2. /\ Perf!retrieve_data(Perf!Chunk, size) = Perf!Bytes(o + c, size) /\ c \in Nat
        /\ ReaderAt(Perf!retrieved(Perf!Chunk, size), o, t, ChunkSize, c + size)
        /\ StreamAt(Perf!Place, Perf!retrieved(Perf!Chunk, size), o)
    BY <1>2, <1>5, <1>7, <2>1, TakenOfChunk
  <2> QED BY <1>9, <2>2
<1>11. d = Perf!BuildBytes(n + 1) /\ d \in Seq(Nat)
  <2>1. d = Perf!BuildBytes(n + 1)
    BY <1>4, <1>6, <1>7, <1>8, <1>10
  <2>2. o + c \in Nat
    BY <1>5, <1>10
  <2>3. PICK p : p = o + c
    OBVIOUS
  <2>4. Perf!Bytes(p, size) \in Seq(Nat)
    BY <1>7, <2>2, <2>3, BytesFacts
  <2> QED BY <1>10, <2>1, <2>3, <2>4
<1>12. c + size = Perf!Before(sizes, (n + 1) + 1)
  BY <1>4, <1>5, <1>7, <1>8, EventsLie
<1>13. PICK f, g : f = build_ids /\ g = Append(f, d)
  OBVIOUS
<1>14. /\ g \in Seq(Seq(Nat)) /\ Len(g) = n + 1 /\ DOMAIN g = 1 .. n + 1 /\ DOMAIN f = 1 .. n
       /\ g[n + 1] = d /\ \A k \in 1 .. n : g[k] = f[k]
  <2>1. f \in Seq(Seq(Nat)) /\ Len(f) = n
    BY <1>3, <1>13 DEF PerfInv, PerfTyped
  <2> QED BY <1>11, <1>13, <2>1
<1>15. build_ids' = g
  BY <1>2, <1>9, <1>13
<1>16. PerfTyped'
  BY <1>1, <1>14, <1>15 DEF PerfInv, PerfTyped
<1>17. AttributesRight' /\ EventsRight'
  BY <1>1, AttributesStay, EventsStay DEF PerfInv
<1>18. BuildsRight'
  <2>1. \A k \in 1 .. n : k <= Len(scene.builds) /\ f[k] = Perf!BuildBytes(k)
    BY <1>13, <1>14 DEF PerfInv, BuildsRight
  <2>2. n + 1 <= Len(scene.builds)
    BY <1>4, <1>7
  <2>3. \A k \in 1 .. n + 1 : k \in 1 .. n \/ k = n + 1
    BY <1>3
  <2>4. \A k \in DOMAIN g : k <= Len(scene.builds) /\ g[k] = Perf!BuildBytes(k)
    BY <1>11, <1>14, <2>1, <2>2, <2>3
  <2> QED BY <1>1, <1>15, <2>4, LayoutStays DEF BuildsRight
<1>19. ReadersRight'
  <2>1. readers' = <<r, u>>
    <3>1. readers' = Perf!Front(<<r, s>>) \o <<u>>
      BY <1>2, <1>3, <1>9 DEF Perf!After
    <3>2. Perf!Front(<<r, s>>) \o <<u>> = <<r, u>>
      BY SecondTurned
    <3> QED BY <3>1, <3>2
  <2>2. ReaderAt(u, Perf!BuildsOffset, Perf!SumOf(Perf!Widths(scene.builds)), ChunkSize,
                 Perf!Before(scene.builds, (n + 1) + 1))
    BY <1>4, <1>10, <1>12
  <2>3. StreamAt(Perf!Place, u, Perf!BuildsOffset)
    BY <1>4, <1>10
  <2>4. Len(build_ids') = n + 1 /\ Len(metadata') = Len(metadata)
    BY <1>1, <1>14, <1>15
  <2> QED BY <1>1, <1>3, <2>1, <2>2, <2>3, <2>4, InBuilds
<1>20. AttributesRead'
  <2>1. \A a \in DOMAIN attributes' : AllIds(a)'
    BY <1>1, AttributesStay DEF PerfInv, AttributesRead
  <2> QED BY <1>1, <2>1 DEF PerfInv, AttributesRead
<1>21. MetadataRead'
  <2>1. "build_id" \in Perf!Range(metadata)
    BY <1>1 DEF PerfInv, MetadataRead
  <2> QED BY <1>1, <2>1, TakenStays DEF PerfInv, MetadataRead
<1>22. EventsRead'
  BY <1>1 DEF PerfInv, EventsRead
<1> QED BY <1>16, <1>17, <1>18, <1>19, <1>20, <1>21, <1>22 DEF PerfInv

\* The section of build_id ends: it has been read, or one of its events is refused.
LEMMA BackToFeatures ==
  ASSUME PerfInv, phase = "build_ids", phase' = "features",
         UNCHANGED <<scene, saved, current_feature, Perf!results>>,
         readers' = Perf!Front(readers), position' = Perf!reset_position,
         Len(build_ids) = Len(scene.builds) \/ Perf!RefusesBuilds
  PROVE  PerfInv'
PROOF
<1>1. /\ scene' = scene /\ current_feature' = current_feature /\ attributes' = attributes
      /\ metadata' = metadata /\ build_ids' = build_ids /\ delivered' = delivered
      /\ progress' = progress
  BY DEF Perf!results
<1>2. PICK r, s :
        /\ readers = <<r, s>>
        /\ ReaderAt(r, Perf!FeaturesOffset, SectionSize * Cardinality(scene.features),
                    FeatureChunkSize, SectionSize * Len(metadata))
        /\ WholeParts(r, SectionSize) /\ StreamAt(saved, r, Perf!FeaturesOffset)
  BY AtBuilds
<1>3. PerfTyped'
  BY <1>1 DEF PerfInv, PerfTyped
<1>4. AttributesRight' /\ BuildsRight' /\ EventsRight'
  BY <1>1, AttributesStay, BuildsStay, EventsStay DEF PerfInv
<1>5. ReadersRight'
  <2>1. readers' = <<r>>
    BY <1>2, ReadersInUse
  <2>2. StreamAt(Perf!reset_position, r, Perf!FeaturesOffset)
    BY <1>2, PutBack
  <2>3. Len(metadata') = Len(metadata)
    BY <1>1
  <2> QED BY <1>1, <1>2, <2>1, <2>2, <2>3, InFeatures
<1>6. AttributesRead'
  <2>1. \A a \in DOMAIN attributes' : AllIds(a)'
    BY <1>1, AttributesStay DEF PerfInv, AttributesRead
  <2> QED BY <1>1, <2>1 DEF PerfInv, AttributesRead
<1>7. MetadataRead'
  BY <1>1, TakenStays, LayoutStays DEF PerfInv, MetadataRead
<1>8. EventsRead'
  BY <1>1 DEF PerfInv, EventsRead
<1> QED BY <1>3, <1>4, <1>5, <1>6, <1>7, <1>8 DEF PerfInv

LEMMA EndBuildsKeeps ==
  ASSUME PerfInv, Perf!EndInner, phase = "build_ids"
  PROVE  PerfInv'
PROOF
<1>1. /\ phase' = "features" /\ ~Perf!Goes
      /\ UNCHANGED <<scene, saved, current_feature, Perf!results>>
      /\ readers' = Perf!Front(readers) /\ position' = Perf!reset_position
  BY DEF Perf!EndInner
<1>2. PICK s, n :
        /\ Perf!Last(readers) = s /\ n = Len(build_ids)
        /\ n \in Nat /\ n <= Len(scene.builds) /\ Len(scene.builds) \in Nat
        /\ ReaderAt(s, Perf!BuildsOffset, Perf!SumOf(Perf!Widths(scene.builds)), ChunkSize,
                    Perf!Before(scene.builds, n + 1))
  BY AtBuilds
<1>3. PICK sizes : sizes = scene.builds
  OBVIOUS
<1>4. sizes \in Seq(Nat) /\ Perf!BuildsOffset \in Nat /\ Perf!SumOf(Perf!Widths(sizes)) \in Nat
      /\ ChunkSize \in Nat /\ phase \in Perf!Sections
  BY <1>3, ScenePart, Layout, EventsLie, PositiveSizes DEF Perf!Sections
<1>5. Perf!Before(sizes, n + 1) = Perf!SumOf(Perf!Widths(sizes))
  BY <1>1, <1>2, <1>3, <1>4, NothingLeft
<1>6. n = Len(sizes)
  <2>1. SUFFICES ASSUME n + 1 < Len(sizes) + 1 PROVE FALSE
    BY <1>2, <1>3
  <2>2. n + 1 \in 1 .. Len(sizes) + 1 /\ Len(sizes) + 1 \in 1 .. Len(sizes) + 1
    BY <1>2, <1>3
  <2>3. PICK a, b, t : a = Perf!Before(sizes, n + 1) /\ b = Perf!Before(sizes, Len(sizes) + 1)
                       /\ t = Perf!SumOf(Perf!Widths(sizes))
    OBVIOUS
  <2>4. a < b /\ b = t /\ a \in Nat /\ b \in Nat
    BY <1>4, <2>1, <2>2, <2>3, EventsLie
  <2> QED BY <1>5, <2>3, <2>4
<1> QED BY <1>1, <1>2, <1>3, <1>6, BackToFeatures

LEMMA RefuseBuildSizeKeeps ==
  ASSUME PerfInv, Perf!RefuseBuildSize
  PROVE  PerfInv'
PROOF
<1>1. /\ phase = "build_ids" /\ phase' = "features"
      /\ UNCHANGED <<scene, saved, current_feature, Perf!results>>
      /\ readers' = Perf!Front(readers) /\ position' = Perf!reset_position
  BY DEF Perf!RefuseBuildSize
<1>2. PICK size \in Perf!Wanted : Perf!Goes /\ Perf!ChunkThere /\ Perf!has_data(Perf!Chunk, size) /\ size < HeaderSize
  BY DEF Perf!RefuseBuildSize, Perf!Turns
<1>3. PICK s, n :
        /\ Perf!Last(readers) = s /\ n \in Nat /\ n <= Len(scene.builds) /\ Len(scene.builds) \in Nat
        /\ ReaderAt(s, Perf!BuildsOffset, Perf!SumOf(Perf!Widths(scene.builds)), ChunkSize,
                    Perf!Before(scene.builds, n + 1))
        /\ StreamAt(position, s, Perf!BuildsOffset)
  BY <1>1, AtBuilds
<1>4. PICK sizes, o : sizes = scene.builds /\ o = Perf!BuildsOffset
  OBVIOUS
<1>5. sizes \in Seq(Nat) /\ o \in Nat /\ n \in 0 .. Len(sizes)
  BY <1>3, <1>4, ScenePart, Layout
<1>6. /\ ReaderAt(s, o, Perf!SumOf(Perf!Widths(sizes)), ChunkSize, Perf!Before(sizes, n + 1))
      /\ StreamAt(position, s, o)
      /\ \A k \in 1 .. Len(sizes) : Perf!SizeFields(Perf!Bytes(o + Perf!Before(sizes, k), HeaderSize)) = {sizes[k]}
  BY <1>3, <1>4, ScenePart, SizeIsKnown
<1>7. n + 1 \in 1 .. Len(sizes) /\ size = sizes[n + 1]
  BY <1>1, <1>2, <1>3, <1>5, <1>6, WantedOfEvents
<1>8. n + 1 \in DOMAIN scene.builds /\ scene.builds[n + 1] < HeaderSize
  BY <1>2, <1>4, <1>5, <1>7
<1>9. Perf!RefusesBuilds
  BY <1>8 DEF Perf!RefusesBuilds
<1> QED BY <1>1, <1>9, BackToFeatures

LEMMA HandOverKeeps ==
  ASSUME PerfInv, Perf!HandOver
  PROVE  PerfInv'
PROOF
<1>1. /\ phase = "events" /\ phase' = "events"
      /\ scene' = scene /\ current_feature' = current_feature /\ attributes' = attributes
      /\ metadata' = metadata /\ build_ids' = build_ids /\ position' = Perf!Place
  BY DEF Perf!HandOver
<1>2. PICK size \in Perf!Wanted :
        /\ Perf!Goes /\ Perf!ChunkThere /\ Perf!has_data(Perf!Chunk, size) /\ size >= HeaderSize
        /\ delivered' = Append(delivered, Perf!retrieve_data(Perf!Chunk, size))
        /\ readers' = Perf!After(size)
        /\ progress' = Perf!Progressed(progress, size)
  BY DEF Perf!HandOver, Perf!Turns
<1>3. PICK r, n :
        /\ readers = <<r>> /\ Perf!Last(readers) = r /\ n = Len(delivered)
        /\ n \in Nat /\ n <= Len(scene.events) /\ Len(scene.events) \in Nat
        /\ ReaderAt(r, Perf!DataOffset, Perf!SumOf(Perf!Widths(scene.events)), ChunkSize,
                    Perf!Before(scene.events, n + 1))
        /\ StreamAt(position, r, Perf!DataOffset)
  BY <1>1, AtEvents
<1>4. PICK sizes, o, t, c, w :
        /\ sizes = scene.events /\ o = Perf!DataOffset /\ t = Perf!SumOf(Perf!Widths(sizes))
        /\ c = Perf!Before(sizes, n + 1) /\ w = Perf!Width(sizes[n + 1])
  OBVIOUS
<1>5. sizes \in Seq(Nat) /\ o \in Nat /\ n \in 0 .. Len(sizes) /\ t \in Nat
      /\ HeaderSize \in Nat \ {0}
      /\ ChunkSize \in Nat \ {0}
  <2>1. sizes \in Seq(Nat) /\ o \in Nat
    BY <1>4, ScenePart, Layout
  <2>2. n \in 0 .. Len(sizes)
    BY <1>3, <1>4
  <2>3. t \in Nat
    BY <1>4, <2>1, EventsLie
  <2> QED BY <2>1, <2>2, <2>3, PositiveSizes
<1>6. /\ ReaderAt(r, o, Perf!SumOf(Perf!Widths(sizes)), ChunkSize, Perf!Before(sizes, n + 1))
      /\ StreamAt(position, r, o)
      /\ \A k \in 1 .. Len(sizes) :
           Perf!SizeFields(Perf!Bytes(o + Perf!Before(sizes, k), HeaderSize)) = {sizes[k]}
      /\ \A k \in 1 .. Len(sizes) :
           Perf!EventBytes(k) = Perf!Bytes(o + Perf!Before(sizes, k), Perf!Width(sizes[k]))
  BY <1>3, <1>4, ScenePart, SizeIsKnown
<1>7. n + 1 \in 1 .. Len(sizes) /\ size \in Nat /\ size = sizes[n + 1]
  <2>1. size \in Perf!Wanted /\ Perf!Goes /\ Perf!ChunkThere /\ Perf!has_data(Perf!Chunk, size)
    BY <1>2
  <2>2. phase \in {"build_ids", "events"} /\ Perf!Last(readers) = r
    BY <1>1, <1>3
  <2> QED BY <1>5, <1>6, <2>1, <2>2, WantedOfEvents
<1>8. size = w /\ size \in Nat \ {0}
  BY <1>2, <1>4, <1>5, <1>7 DEF Perf!Width
<1>9. PICK d, u : d = Perf!retrieve_data(Perf!Chunk, size) /\ u = Perf!retrieved(Perf!Chunk, size)
  OBVIOUS
<1>10. /\ d = Perf!Bytes(o + c, size) /\ c \in Nat /\ ReaderAt(u, o, t, ChunkSize, c + size)
       /\ StreamAt(Perf!Place, u, o) /\ c + size <= t
  <2>1. ReaderAt(r, o, t, ChunkSize, c) /\ StreamAt(position, r, o) /\ Perf!Last(readers) = r
    BY <1>3, <1>4, <1>6
  <2>2. /\ Perf!retrieve_data(Perf!Chunk, size) = Perf!Bytes(o + c, size) /\ c \in Nat
        /\ c + size <= t
        /\ ReaderAt(Perf!retrieved(Perf!Chunk, size), o, t, ChunkSize, c + size)
        /\ StreamAt(Perf!Place, Perf!retrieved(Perf!Chunk, size), o)
    BY <1>2, <1>5, <1>7, <2>1, TakenOfChunk
  <2> QED BY <1>9, <2>2
<1>11. d = Perf!EventBytes(n + 1) /\ d \in Seq(Nat)
  <2>1. d = Perf!EventBytes(n + 1)
    BY <1>4, <1>6, <1>7, <1>8, <1>10
  <2>2. o + c \in Nat
    BY <1>5, <1>10
  <2>3. PICK p : p = o + c
    OBVIOUS
  <2>4. Perf!Bytes(p, size) \in Seq(Nat)
    BY <1>7, <2>2, <2>3, BytesFacts
  <2> QED BY <1>10, <2>1, <2>3, <2>4
<1>12. c + size = Perf!Before(sizes, (n + 1) + 1)
  BY <1>4, <1>5, <1>7, <1>8, EventsLie
<1>13. PICK f, g : f = delivered /\ g = Append(f, d)
  OBVIOUS
<1>14. /\ g \in Seq(Seq(Nat)) /\ Len(g) = n + 1 /\ DOMAIN g = 1 .. n + 1 /\ DOMAIN f = 1 .. n
       /\ g[n + 1] = d /\ \A k \in 1 .. n : g[k] = f[k]
  <2>1. f \in Seq(Seq(Nat)) /\ Len(f) = n
    BY <1>3, <1>13 DEF PerfInv, PerfTyped
  <2> QED BY <1>11, <1>13, <2>1
<1>15. delivered' = g
  BY <1>2, <1>9, <1>13
<1>16. /\ Told(progress') /\ progress'.total_work = progress.total_work
       /\ progress'.current_work = c + size
  <2>1. PICK q : q = progress
    OBVIOUS
  <2>2. Told(q) /\ q.total_work = t /\ q.current_work = c
    BY <1>1, <1>3, <1>4, <2>1 DEF PerfInv, PerfTyped, EventsRead
  <2>3. q.total_work # 0
    BY <1>8, <1>10, <2>2 DEF Told, Reporters
  <2>4. /\ Told(Perf!Progressed(q, size)) /\ Perf!Progressed(q, size).total_work = q.total_work
        /\ Perf!Progressed(q, size).current_work = q.current_work + size
    BY <1>8, <2>2, <2>3, ProgressedTold, SameOperators
  <2> QED BY <1>2, <2>1, <2>2, <2>4
<1>17. PerfTyped'
  BY <1>1, <1>14, <1>15, <1>16 DEF PerfInv, PerfTyped
<1>18. AttributesRight' /\ BuildsRight'
  BY <1>1, AttributesStay, BuildsStay DEF PerfInv
<1>19. EventsRight'
  <2>1. \A k \in 1 .. n : k <= Len(scene.events) /\ f[k] = Perf!EventBytes(k)
    BY <1>13, <1>14 DEF PerfInv, EventsRight
  <2>2. n + 1 <= Len(scene.events)
    BY <1>4, <1>7
  <2>3. \A k \in 1 .. n + 1 : k \in 1 .. n \/ k = n + 1
    BY <1>3
  <2>4. \A k \in DOMAIN g : k <= Len(scene.events) /\ g[k] = Perf!EventBytes(k)
    BY <1>11, <1>14, <2>1, <2>2, <2>3
  <2> QED BY <1>1, <1>15, <2>4, LayoutStays DEF EventsRight
<1>20. ReadersRight'
  <2>1. readers' = <<u>>
    <3>1. readers' = Perf!Front(<<r>>) \o <<u>>
      BY <1>2, <1>3, <1>9 DEF Perf!After
    <3>2. Perf!Front(<<r>>) \o <<u>> = <<u>>
      BY ReadersInUse
    <3> QED BY <3>1, <3>2
  <2>2. ReaderAt(u, Perf!DataOffset, Perf!SumOf(Perf!Widths(scene.events)), ChunkSize,
                 Perf!Before(scene.events, (n + 1) + 1))
    BY <1>4, <1>10, <1>12
  <2>3. StreamAt(Perf!Place, u, Perf!DataOffset)
    BY <1>4, <1>10
  <2>4. Len(delivered') = n + 1
    BY <1>14, <1>15
  <2> QED BY <1>1, <2>1, <2>2, <2>3, <2>4, InEvents
<1>21. AttributesRead'
  <2>1. \A a \in DOMAIN attributes' : AllIds(a)'
    BY <1>1, AttributesStay DEF PerfInv, AttributesRead
  <2> QED BY <1>1, <2>1 DEF PerfInv, AttributesRead
<1>22. MetadataRead'
  BY <1>1, TakenStays, LayoutStays DEF PerfInv, MetadataRead
<1>23. EventsRead'
  <2>1. progress'.current_work = Perf!Before(scene'.events, Len(delivered') + 1)
    BY <1>1, <1>4, <1>12, <1>14, <1>15, <1>16
  <2> QED BY <1>1, <2>1 DEF EventsRead
<1> QED BY <1>17, <1>18, <1>19, <1>20, <1>21, <1>22, <1>23 DEF PerfInv

LEMMA FinishPerfKeeps ==
  ASSUME PerfInv, Perf!Finish
  PROVE  PerfInv'
PROOF
<1>1. /\ phase = "events" /\ phase' = "done" /\ ~Perf!Goes /\ progress' = Perf!Finished(progress)
      /\ scene' = scene /\ current_feature' = current_feature /\ attributes' = attributes
      /\ metadata' = metadata /\ build_ids' = build_ids /\ delivered' = delivered
  BY DEF Perf!Finish, Perf!places
<1>2. PICK r, n :
        /\ Perf!Last(readers) = r /\ n = Len(delivered)
        /\ n \in Nat /\ n <= Len(scene.events) /\ Len(scene.events) \in Nat
        /\ ReaderAt(r, Perf!DataOffset, Perf!SumOf(Perf!Widths(scene.events)), ChunkSize,
                    Perf!Before(scene.events, n + 1))
  BY <1>1, AtEvents
<1>3. PICK sizes, t : sizes = scene.events /\ t = Perf!SumOf(Perf!Widths(sizes))
  OBVIOUS
<1>4. sizes \in Seq(Nat) /\ Perf!DataOffset \in Nat /\ t \in Nat
      /\ ChunkSize \in Nat /\ phase \in Perf!Sections
  BY <1>1, <1>3, ScenePart, Layout, EventsLie, PositiveSizes DEF Perf!Sections
<1>5. Perf!Before(sizes, n + 1) = t
  BY <1>1, <1>2, <1>3, <1>4, NothingLeft
<1>6. n = Len(sizes)
  <2>1. SUFFICES ASSUME n + 1 < Len(sizes) + 1 PROVE FALSE
    BY <1>2, <1>3
  <2>2. n + 1 \in 1 .. Len(sizes) + 1 /\ Len(sizes) + 1 \in 1 .. Len(sizes) + 1
    BY <1>2, <1>3
  <2>3. PICK a, b : a = Perf!Before(sizes, n + 1) /\ b = Perf!Before(sizes, Len(sizes) + 1)
    OBVIOUS
  <2>4. a < b /\ b = t /\ a \in Nat /\ b \in Nat
    BY <1>3, <1>4, <2>1, <2>2, <2>3, EventsLie
  <2> QED BY <1>5, <2>3, <2>4
<1>7. /\ Told(progress') /\ progress'.total_work = t /\ progress'.current_work = t
      /\ Last(progress'.reports) = t
  <2>1. PICK q : q = progress
    OBVIOUS
  <2>2. Told(q) /\ q.total_work = t /\ q.current_work = t
    BY <1>1, <1>2, <1>3, <1>5, <2>1 DEF PerfInv, PerfTyped, EventsRead
  <2>3. q.current_work >= q.total_work /\ q.current_work = q.total_work
    BY <1>4, <2>2
  <2>4. PICK u : u = Finished(q)
    OBVIOUS
  <2>5. Told(u) /\ u.total_work = t /\ u.current_work = t /\ Last(u.reports) = t
    BY <2>2, <2>3, <2>4, FinishedTold
  <2>6. Perf!Finished(q) = u
    BY <2>4, SameOperators
  <2> QED BY <1>1, <2>1, <2>5, <2>6
<1>8. PerfTyped'
  <2>1. progress'.total_work = Perf!SumOf(Perf!Widths(scene'.events))
    BY <1>1, <1>3, <1>7
  <2> QED BY <1>1, <1>7, <2>1 DEF PerfInv, PerfTyped
<1>9. AttributesRight' /\ BuildsRight' /\ EventsRight'
  BY <1>1, AttributesStay, BuildsStay, EventsStay DEF PerfInv
<1>10. ReadersRight'
  BY <1>1, InNone DEF Perf!Sections
<1>11. AttributesRead'
  <2>1. \A a \in DOMAIN attributes' : AllIds(a)'
    BY <1>1, AttributesStay DEF PerfInv, AttributesRead
  <2> QED BY <1>1, <2>1 DEF PerfInv, AttributesRead
<1>12. MetadataRead'
  BY <1>1, TakenStays, LayoutStays DEF PerfInv, MetadataRead
<1>13. EventsRead'
  <2>1. Len(delivered') = Len(scene'.events)
    BY <1>1, <1>2, <1>3, <1>6
  <2> QED BY <1>1, <1>7, <2>1 DEF EventsRead
<1> QED BY <1>8, <1>9, <1>10, <1>11, <1>12, <1>13 DEF PerfInv

\* What does not fit into the chunk is read on in the next turn.  That never happens to
\* the headers of features.
LEMMA StarveKeeps ==
  ASSUME PerfInv, Perf!Starve
  PROVE  PerfInv'
PROOF
<1>1. /\ Perf!Goes /\ Perf!ChunkThere
      /\ readers' = Perf!Front(readers) \o <<Perf!starved(Perf!Chunk)>> /\ position' = Perf!Place
      /\ scene' = scene /\ phase' = phase /\ saved' = saved /\ UNCHANGED Perf!results
      /\ phase # "features" => current_feature' = current_feature
  BY DEF Perf!Starve
<1>2. PICK size \in Perf!Wanted : ~Perf!has_data(Perf!Chunk, size)
  BY DEF Perf!Starve
<1>3. PICK u : u = Perf!starved(Perf!Chunk)
  OBVIOUS
<1>4. /\ attributes' = attributes /\ metadata' = metadata /\ build_ids' = build_ids
      /\ delivered' = delivered
  BY <1>1 DEF Perf!results
<1>5. phase # "features"
  <2>1. SUFFICES ASSUME phase = "features" PROVE FALSE
    OBVIOUS
  <2>2. PICK r : /\ Perf!Last(readers) = r
                 /\ ReaderAt(r, Perf!FeaturesOffset, SectionSize * Cardinality(scene.features),
                             FeatureChunkSize, SectionSize * Len(metadata))
                 /\ WholeParts(r, SectionSize) /\ StreamAt(position, r, Perf!FeaturesOffset)
    BY <2>1, AtFeatures
  <2>3. PICK n, N : n = Len(metadata) /\ N = Cardinality(scene.features)
    OBVIOUS
  <2>4. n \in Nat /\ N \in Nat /\ Perf!FeaturesOffset \in Nat
    <3>1. metadata \in Seq(AllNames) /\ scene.features \subseteq AllNames
      BY DEF PerfInv, PerfTyped, Scene
    <3> QED BY <2>3, <3>1, FeaturesFinite, ScenePart, Layout
  <2>5. Perf!has_data(Perf!Chunk, SectionSize)
    BY <1>1, <2>2, <2>3, <2>4, PositiveSizes, WholePartInChunk
  <2>6. size = SectionSize
    BY <2>1 DEF Perf!Wanted
  <2> QED BY <1>2, <2>5, <2>6
<1>6. ReadersRight'
  <2>1. CASE phase = "attributes"
    <3>1. PICK r : /\ readers = <<r>> /\ Perf!Last(readers) = r
                   /\ ReaderAt(r, Perf!AttributesOffset, EntrySize * Len(scene.ids), ChunkSize,
                               EntrySize * Len(attributes))
                   /\ StreamAt(position, r, Perf!AttributesOffset)
      BY <2>1, AtAttributes
    <3>2. PICK n, m, t, c : /\ n = Len(attributes) /\ m = Len(scene.ids)
                            /\ t = EntrySize * m /\ c = EntrySize * n
      OBVIOUS
    <3>3. n \in Nat /\ m \in Nat /\ Perf!AttributesOffset \in Nat /\ t \in Nat
          /\ ChunkSize \in Nat \ {0} /\ EntrySize \in Nat \ {0}
      BY <3>2, ScenePart, Layout, PositiveSizes DEF PerfInv, PerfTyped
    <3>4. ReaderAt(r, Perf!AttributesOffset, t, ChunkSize, c)
      BY <3>1, <3>2
    <3>5. c < t
      BY <1>1, <3>1, <3>3, <3>4, ChunkOfTurn
    <3>6. c + EntrySize <= t
      BY <3>2, <3>3, <3>5, OneMorePart
    <3>7. size = EntrySize
      BY <2>1 DEF Perf!Wanted
    <3>8. ReaderAt(u, Perf!AttributesOffset, t, ChunkSize, c)
          /\ StreamAt(Perf!Place, u, Perf!AttributesOffset)
      BY <1>1, <1>2, <1>3, <3>1, <3>3, <3>4, <3>6, <3>7, LeftInChunk
    <3>9. readers' = <<u>>
      <4>1. readers' = Perf!Front(<<r>>) \o <<u>>
        BY <1>1, <1>3, <3>1
      <4>2. Perf!Front(<<r>>) \o <<u>> = <<u>>
        BY ReadersInUse
      <4> QED BY <4>1, <4>2
    <3>10. Len(attributes') = n
      BY <1>4, <3>2
    <3> QED BY <1>1, <2>1, <3>2, <3>8, <3>9, <3>10, InAttributes
  <2>2. CASE phase = "ids"
    <3>1. PICK r, s, n :
            /\ readers = <<r, s>> /\ Perf!Last(readers) = s /\ n = Len(attributes)
            /\ n \in 1 .. Len(scene.ids) /\ n \in DOMAIN attributes
            /\ ReaderAt(r, Perf!AttributesOffset, EntrySize * Len(scene.ids), ChunkSize, EntrySize * n)
            /\ StreamAt(saved, r, Perf!AttributesOffset)
            /\ ReaderAt(s, Perf!IdsOffset(n), IdSize * scene.ids[n], IdChunkSize,
                        IdSize * Len(attributes[n].ids))
            /\ StreamAt(position, s, Perf!IdsOffset(n))
      BY <2>2, AtIds
    <3>2. PICK m \in Nat : m = Len(attributes[n].ids)
      <4>1. PICK S, f, w : /\ S = [entry : Seq(Nat), ids : Seq(Seq(Nat))] /\ f = attributes
                           /\ w = f[n].ids
        OBVIOUS
      <4>2. f \in Seq(S) /\ n \in DOMAIN f
        BY <3>1, <4>1 DEF PerfInv, PerfTyped
      <4>3. f[n] \in S
        BY <4>2
      <4>4. w \in Seq(Seq(Nat))
        BY <4>1, <4>3
      <4>5. Len(w) \in Nat
        BY <4>4
      <4> QED BY <4>1, <4>5
    <3>3. PICK k, o, t, c : /\ k = scene.ids[n] /\ o = Perf!IdsOffset(n)
                            /\ t = IdSize * k /\ c = IdSize * m
      OBVIOUS
    <3>4. k \in Nat /\ o \in Nat /\ t \in Nat /\ IdChunkSize \in Nat \ {0} /\ IdSize \in Nat \ {0}
      BY <3>1, <3>3, ScenePart, Layout, PositiveSizes
    <3>5. ReaderAt(s, o, t, IdChunkSize, c) /\ StreamAt(position, s, o)
      BY <3>1, <3>2, <3>3
    <3>6. c < t
      BY <1>1, <3>1, <3>4, <3>5, ChunkOfTurn
    <3>7. c + IdSize <= t
      BY <3>2, <3>3, <3>4, <3>6, OneMorePart
    <3>8. size = IdSize
      BY <2>2 DEF Perf!Wanted
    <3>9. ReaderAt(u, o, t, IdChunkSize, c) /\ StreamAt(Perf!Place, u, o)
      BY <1>1, <1>2, <1>3, <3>1, <3>4, <3>5, <3>7, <3>8, LeftInChunk
    <3>10. readers' = <<r, u>>
      <4>1. readers' = Perf!Front(<<r, s>>) \o <<u>>
        BY <1>1, <1>3, <3>1
      <4>2. Perf!Front(<<r, s>>) \o <<u>> = <<r, u>>
        BY SecondTurned
      <4> QED BY <4>1, <4>2
    <3>11. Len(attributes') = n /\ Len(attributes'[n].ids) = m
      BY <1>4, <3>1, <3>2
    <3> QED BY <1>1, <2>2, <3>1, <3>3, <3>9, <3>10, <3>11, InIds
  <2>3. CASE phase = "build_ids"
    <3>1. PICK r, s, n :
            /\ readers = <<r, s>> /\ Perf!Last(readers) = s /\ n = Len(build_ids)
            /\ n \in Nat /\ n <= Len(scene.builds) /\ Len(scene.builds) \in Nat
            /\ ReaderAt(r, Perf!FeaturesOffset, SectionSize * Cardinality(scene.features),
                        FeatureChunkSize, SectionSize * Len(metadata))
            /\ WholeParts(r, SectionSize) /\ StreamAt(saved, r, Perf!FeaturesOffset)
            /\ ReaderAt(s, Perf!BuildsOffset, Perf!SumOf(Perf!Widths(scene.builds)), ChunkSize,
                        Perf!Before(scene.builds, n + 1))
            /\ StreamAt(position, s, Perf!BuildsOffset)
      BY <2>3, AtBuilds
    <3>2. PICK sizes, o, t, c :
            /\ sizes = scene.builds /\ o = Perf!BuildsOffset /\ t = Perf!SumOf(Perf!Widths(sizes))
            /\ c = Perf!Before(sizes, n + 1)
      OBVIOUS
    <3>3. sizes \in Seq(Nat) /\ o \in Nat /\ n \in 0 .. Len(sizes) /\ ChunkSize \in Nat \ {0}
      BY <3>1, <3>2, ScenePart, Layout, PositiveSizes
    <3>4. /\ ReaderAt(s, o, Perf!SumOf(Perf!Widths(sizes)), ChunkSize, Perf!Before(sizes, n + 1))
          /\ StreamAt(position, s, o)
          /\ \A k \in 1 .. Len(sizes) :
               Perf!SizeFields(Perf!Bytes(o + Perf!Before(sizes, k), HeaderSize)) = {sizes[k]}
      BY <3>1, <3>2, ScenePart, SizeIsKnown
    <3>5. n + 1 \in 1 .. Len(sizes) /\ size \in Nat /\ size <= Perf!Width(sizes[n + 1])
      <4>1. size \in Perf!Wanted /\ Perf!Goes /\ Perf!ChunkThere
        BY <1>1, <1>2
      <4>2. phase \in {"build_ids", "events"} /\ Perf!Last(readers) = s
        BY <2>3, <3>1
      <4> QED BY <3>3, <3>4, <4>1, <4>2, WantedOfEvents
    <3>6. t \in Nat /\ c \in Nat /\ c + size <= t
      <4>1. PICK w, d : w = Perf!Width(sizes[n + 1]) /\ d = Perf!Before(sizes, (n + 1) + 1)
        OBVIOUS
      <4>2. n + 1 \in 1 .. Len(sizes) + 1 /\ (n + 1) + 1 \in 1 .. Len(sizes) + 1
        BY <3>1, <3>5
      <4>3. d = c + w /\ d <= t /\ c \in Nat /\ w \in Nat /\ t \in Nat
        BY <3>2, <3>3, <3>5, <4>1, <4>2, EventsLie
      <4> QED BY <3>5, <4>1, <4>3
    <3>7. ReaderAt(u, o, t, ChunkSize, c) /\ StreamAt(Perf!Place, u, o)
      <4>1. ReaderAt(s, o, t, ChunkSize, c) /\ Perf!Last(readers) = s
        BY <3>1, <3>2, <3>4
      <4> QED BY <1>1, <1>2, <1>3, <3>3, <3>4, <3>5, <3>6, <4>1, LeftInChunk
    <3>8. readers' = <<r, u>>
      <4>1. readers' = Perf!Front(<<r, s>>) \o <<u>>
        BY <1>1, <1>3, <3>1
      <4>2. Perf!Front(<<r, s>>) \o <<u>> = <<r, u>>
        BY SecondTurned
      <4> QED BY <4>1, <4>2
    <3>9. Len(build_ids') = n /\ Len(metadata') = Len(metadata)
      BY <1>4, <3>1
    <3> QED BY <1>1, <2>3, <3>1, <3>2, <3>7, <3>8, <3>9, InBuilds
  <2>4. CASE phase = "events"
    <3>1. PICK r, n :
            /\ readers = <<r>> /\ Perf!Last(readers) = r /\ n = Len(delivered)
            /\ n \in Nat /\ n <= Len(scene.events) /\ Len(scene.events) \in Nat
            /\ ReaderAt(r, Perf!DataOffset, Perf!SumOf(Perf!Widths(scene.events)), ChunkSize,
                        Perf!Before(scene.events, n + 1))
            /\ StreamAt(position, r, Perf!DataOffset)
      BY <2>4, AtEvents
    <3>2. PICK sizes, o, t, c :
            /\ sizes = scene.events /\ o = Perf!DataOffset /\ t = Perf!SumOf(Perf!Widths(sizes))
            /\ c = Perf!Before(sizes, n + 1)
      OBVIOUS
    <3>3. sizes \in Seq(Nat) /\ o \in Nat /\ n \in 0 .. Len(sizes) /\ ChunkSize \in Nat \ {0}
      BY <3>1, <3>2, ScenePart, Layout, PositiveSizes
    <3>4. /\ ReaderAt(r, o, Perf!SumOf(Perf!Widths(sizes)), ChunkSize, Perf!Before(sizes, n + 1))
          /\ StreamAt(position, r, o)
          /\ \A k \in 1 .. Len(sizes) :
               Perf!SizeFields(Perf!Bytes(o + Perf!Before(sizes, k), HeaderSize)) = {sizes[k]}
      BY <3>1, <3>2, ScenePart, SizeIsKnown
    <3>5. n + 1 \in 1 .. Len(sizes) /\ size \in Nat /\ size <= Perf!Width(sizes[n + 1])
      <4>1. size \in Perf!Wanted /\ Perf!Goes /\ Perf!ChunkThere
        BY <1>1, <1>2
      <4>2. phase \in {"build_ids", "events"} /\ Perf!Last(readers) = r
        BY <2>4, <3>1
      <4> QED BY <3>3, <3>4, <4>1, <4>2, WantedOfEvents
    <3>6. t \in Nat /\ c \in Nat /\ c + size <= t
      <4>1. PICK w, d : w = Perf!Width(sizes[n + 1]) /\ d = Perf!Before(sizes, (n + 1) + 1)
        OBVIOUS
      <4>2. n + 1 \in 1 .. Len(sizes) + 1 /\ (n + 1) + 1 \in 1 .. Len(sizes) + 1
        BY <3>1, <3>5
      <4>3. d = c + w /\ d <= t /\ c \in Nat /\ w \in Nat /\ t \in Nat
        BY <3>2, <3>3, <3>5, <4>1, <4>2, EventsLie
      <4> QED BY <3>5, <4>1, <4>3
    <3>7. ReaderAt(u, o, t, ChunkSize, c) /\ StreamAt(Perf!Place, u, o)
      <4>1. ReaderAt(r, o, t, ChunkSize, c) /\ Perf!Last(readers) = r
        BY <3>1, <3>2, <3>4
      <4> QED BY <1>1, <1>2, <1>3, <3>3, <3>4, <3>5, <3>6, <4>1, LeftInChunk
    <3>8. readers' = <<u>>
      <4>1. readers' = Perf!Front(<<r>>) \o <<u>>
        BY <1>1, <1>3, <3>1
      <4>2. Perf!Front(<<r>>) \o <<u>> = <<u>>
        BY ReadersInUse
      <4> QED BY <4>1, <4>2
    <3>9. Len(delivered') = n
      BY <1>4, <3>1
    <3> QED BY <1>1, <2>4, <3>2, <3>7, <3>8, <3>9, InEvents
  <2> QED BY <1>1, <1>5, <2>1, <2>2, <2>3, <2>4 DEF Perf!Goes, Perf!Sections
<1> QED BY <1>1, <1>5, <1>6, ReadsOn

-----------------------------------------------------------------------------
(* PerfDataFile: the whole of process() *)

LEMMA PerfProcessKeeps ==
  ASSUME PerfInv, Perf!Process
  PROVE  PerfInv'
PROOF
<1>1. CASE Perf!Open
  BY <1>1, OpenPerfKeeps
<1>2. CASE Perf!RefuseFile \/ Perf!ChunkMissing \/ Perf!HandlerThrows \/ Perf!RefuseAttributes
             \/ Perf!RefuseSize \/ Perf!Abandon
  BY <1>2, StopsKeep
<1>3. CASE Perf!Starve
  BY <1>3, StarveKeeps
<1>4. CASE Perf!ReadAttribute
  BY <1>4, ReadAttributeKeeps
<1>5. CASE Perf!ReadId
  BY <1>5, ReadIdKeeps
<1>6. CASE Perf!EndInner
  <2>1. phase = "ids" \/ phase = "build_ids"
    BY <1>6 DEF Perf!EndInner
  <2> QED BY <1>6, <2>1, EndIdsKeeps, EndBuildsKeeps
<1>7. CASE Perf!EndAttributes \/ Perf!SkipAttributes
  BY <1>7, EndAttributesKeeps, SkipAttributesKeeps
<1>8. CASE Perf!ReadFeature
  BY <1>8, ReadFeatureKeeps
<1>9. CASE Perf!EndFeatures
  BY <1>9, EndFeaturesKeeps
<1>10. CASE Perf!ReadBuildId
  BY <1>10, ReadBuildIdKeeps
<1>11. CASE Perf!RefuseBuildSize
  BY <1>11, RefuseBuildSizeKeeps
<1>12. CASE Perf!HandOver
  BY <1>12, HandOverKeeps
<1>13. CASE Perf!Finish
  BY <1>13, FinishPerfKeeps
<1> QED BY <1>1, <1>2, <1>3, <1>4, <1>5, <1>6, <1>7, <1>8, <1>9, <1>10, <1>11, <1>12, <1>13
        DEF Perf!Process

LEMMA SceneStays ==
  ASSUME Perf!Process
  PROVE  scene' = scene
PROOF
<1>1. CASE Perf!Open \/ Perf!RefuseFile \/ Perf!ChunkMissing \/ Perf!Starve \/ Perf!HandlerThrows
  BY <1>1 DEF Perf!Open, Perf!RefuseFile, Perf!ChunkMissing, Perf!Starve, Perf!HandlerThrows, Perf!Fail
<1>2. CASE Perf!ReadAttribute \/ Perf!ReadId \/ Perf!EndInner \/ Perf!EndAttributes
             \/ Perf!SkipAttributes \/ Perf!RefuseAttributes
  BY <1>2 DEF Perf!ReadAttribute, Perf!ReadId, Perf!EndInner, Perf!EndAttributes,
              Perf!SkipAttributes, Perf!RefuseAttributes, Perf!Fail
<1>3. CASE Perf!ReadFeature \/ Perf!EndFeatures \/ Perf!ReadBuildId \/ Perf!RefuseBuildSize
  BY <1>3 DEF Perf!ReadFeature, Perf!EndFeatures, Perf!ReadBuildId, Perf!RefuseBuildSize
<1>4. CASE Perf!HandOver \/ Perf!RefuseSize \/ Perf!Abandon \/ Perf!Finish
  BY <1>4 DEF Perf!HandOver, Perf!RefuseSize, Perf!Abandon, Perf!Finish
<1> QED BY <1>1, <1>2, <1>3, <1>4 DEF Perf!Process

LEMMA PerfStarts ==
  ASSUME Perf!Init, Perf!Whole
  PROVE  PerfInv
PROOF
<1>1. /\ scene \in Scenes /\ phase = "open" /\ current_feature = 0
      /\ attributes = <<>> /\ metadata = <<>> /\ build_ids = <<>> /\ delivered = <<>>
      /\ progress = Perf!Reporter(Perf!EventsSize, Resolution)
  BY DEF Perf!Init
<1>2. Scene(scene)
  <2>1. {Perf!AllFeatures[f] : f \in DOMAIN Perf!AllFeatures} = AllNames
    BY DEF Perf!AllFeatures, AllNames, FeaturesOf
  <2> QED BY <1>1, <2>1, ScenesAssumption DEF Scene, Perf!Whole
<1>3. PICK t : t = Perf!SumOf(Perf!Widths(scene.events)) /\ t = Perf!EventsSize
  BY <1>2, Layout
<1>4. t \in Nat
  BY <1>2, <1>3, EventsLie DEF Scene
<1>5. PICK r : r = Perf!Reporter(t, Resolution)
  OBVIOUS
<1>6. Told(r) /\ r.total_work = t /\ r.current_work = 0
  BY <1>4, <1>5, ReporterStarts, SameOperators
<1>7. PerfTyped
  BY <1>1, <1>2, <1>3, <1>5, <1>6 DEF PerfTyped
<1>8. AttributesRight /\ BuildsRight /\ EventsRight
  BY <1>1 DEF AttributesRight, BuildsRight, EventsRight
<1>9. ReadersRight
  BY <1>1 DEF ReadersRight
<1>10. AttributesRead /\ MetadataRead /\ EventsRead
  BY <1>1, <1>3, <1>5, <1>6 DEF AttributesRead, MetadataRead, EventsRead
<1> QED BY <1>7, <1>8, <1>9, <1>10 DEF PerfInv

LEMMA PerfUnchanged ==
  ASSUME PerfInv, UNCHANGED <<scene, phase, Perf!places, Perf!results>>
  PROVE  PerfInv'
PROOF
<1>1. /\ scene' = scene /\ phase' = phase /\ position' = position /\ readers' = readers
      /\ saved' = saved /\ attributes' = attributes /\ metadata' = metadata
      /\ build_ids' = build_ids /\ delivered' = delivered
  BY DEF Perf!places, Perf!results
<1>2. /\ Perf!AttributesOffset' = Perf!AttributesOffset /\ Perf!DataOffset' = Perf!DataOffset
      /\ Perf!FeaturesOffset' = Perf!FeaturesOffset /\ Perf!BuildsOffset' = Perf!BuildsOffset
      /\ Perf!IdsOffset(Len(attributes))' = Perf!IdsOffset(Len(attributes))
  BY <1>1, LayoutStays DEF Perf!IdsOffset
<1>3. PICK r, s : r = readers[1] /\ s = readers[2]
  OBVIOUS
<1>4. readers'[1] = r /\ readers'[2] = s
  BY <1>1, <1>3
<1>5. ReadersRight
  BY DEF PerfInv
<1>6. AttributesReader(readers[1]) => AttributesReader(readers[1])'
  BY <1>1, <1>2 DEF AttributesReader
<1>7. IdsReader(readers[2]) => IdsReader(readers[2])'
  BY <1>1, <1>2 DEF IdsReader
<1>8. FeaturesReader(readers[1]) => FeaturesReader(readers[1])'
  BY <1>1, <1>2 DEF FeaturesReader
<1>9. BuildsReader(readers[2]) => BuildsReader(readers[2])'
  BY <1>1, <1>2 DEF BuildsReader
<1>10. EventsReader(readers[1]) => EventsReader(readers[1])'
  BY <1>1, <1>2 DEF EventsReader
<1>11. ReadersRight'
  BY <1>1, <1>2, <1>5, <1>6, <1>7, <1>8, <1>9, <1>10 DEF ReadersRight, StreamAt, EndOfChunk
<1>12. current_feature' = current_feature
  BY DEF Perf!places
<1> QED BY <1>1, <1>11, <1>12, ReadsOn

\* What the invariant is for.
LEMMA PerfMeans ==
  ASSUME PerfInv
  PROVE  Perf!EachAsInTheFile /\ Perf!SectionAccountedFor
PROOF
<1>1. phase \in {"events", "done"} => Perf!HeadersRead
  <2>1. SUFFICES ASSUME phase \in {"events", "done"} PROVE Perf!HeadersRead
    OBVIOUS
  <2>2. /\ "event_desc" \in scene.features \/ scene.odd \/ Len(attributes) = Len(scene.ids)
        /\ \A a \in DOMAIN attributes : Len(attributes[a].ids) = scene.ids[a]
    BY <2>1 DEF PerfInv, AttributesRead, AllIds
  <2>3. Perf!Range(metadata) = scene.features
    BY <2>1 DEF PerfInv, MetadataRead
  <2>4. \A i, j \in DOMAIN metadata, f, g \in DOMAIN Perf!AllFeatures :
          i < j /\ metadata[i] = Perf!AllFeatures[f] /\ metadata[j] = Perf!AllFeatures[g] => f < g
    BY <2>1 DEF PerfInv, MetadataRead
  <2>5. "build_id" \in scene.features => Len(build_ids) = Len(scene.builds) \/ Perf!RefusesBuilds
    BY <2>1, <2>3 DEF PerfInv, MetadataRead
  <2> QED BY <2>2, <2>3, <2>4, <2>5 DEF Perf!HeadersRead
<1>2. phase = "done" => Len(delivered) = Len(scene.events)
  BY DEF PerfInv, EventsRead
<1>3. Perf!EachAsInTheFile
  BY <1>1, <1>2 DEF Perf!EachAsInTheFile, PerfInv, AttributesRight, BuildsRight, EventsRight
<1>4. Perf!SectionAccountedFor
  BY SameOperators DEF Perf!SectionAccountedFor, PerfInv, PerfTyped, Told, Growing, EventsRead
<1> QED BY <1>3, <1>4

-----------------------------------------------------------------------------
(* read_document(): one of the two files is read, an archive is unpacked first *)

\* The listener hears of the extraction; a directory that exists is remembered until it
\* is removed, unless there was no path to remember, and may be left behind only by a
\* provider that could not remove it.
ArchiveInv ==
  /\ Told(unpacking) /\ unpacking.total_work = ArchiveSize
  /\ format = ".diagsession" /\ stage = "processing" =>
       unpacking.finished /\ Last(unpacking.reports) = ArchiveSize
  /\ on_disk => temp_etl_file_path \/ stage = "naming" \/ unnamed
  /\ stage = "closed" /\ on_disk => undeletable \/ unnamed

IInv ==
  /\ ArchiveInv
  /\ format # ".data" => EtlInv
  /\ format = ".data" /\ Perf!Whole => PerfInv

LEMMA ArchiveSizes == ArchiveSize \in Nat \ {0}
PROOF BY ChunksAssumption

LEMMA RecordingStarts ==
  ASSUME RecordingInit
  PROVE  IInv
PROOF
<1>1. /\ stage = "opened" /\ unpacking = Reporter(ArchiveSize, Resolution)
      /\ temp_etl_file_path = FALSE /\ on_disk = FALSE /\ unnamed = FALSE
  BY DEF RecordingInit
<1>2. Told(unpacking) /\ unpacking.total_work = ArchiveSize
  BY <1>1, ArchiveSizes, ReporterStarts
<1>3. ArchiveInv
  BY <1>1, <1>2 DEF ArchiveInv
<1>4. format # ".data" => EtlInv
  <2>1. format # ".data" => Init
    BY DEF RecordingInit
  <2> QED BY <2>1, EtlStarts
<1>5. format = ".data" /\ Perf!Whole => PerfInv
  <2>1. format = ".data" => Perf!Init
    BY DEF RecordingInit
  <2> QED BY <2>1, PerfStarts
<1> QED BY <1>3, <1>4, <1>5 DEF IInv

\* A step that reads no file leaves all that was read.
LEMMA ReadingStays ==
  ASSUME IInv, UNCHANGED <<format, reading>>
  PROVE  (format' # ".data" => EtlInv') /\ (format' = ".data" /\ Perf!Whole' => PerfInv')
PROOF
<1>1. /\ format' = format
      /\ UNCHANGED <<file, pc, buffer_index, processor_index, remaining_buffers, current,
                     event_queue, progress, delivered>>
      /\ UNCHANGED <<scene, phase, position, readers, saved, current_feature>>
      /\ UNCHANGED <<attributes, metadata, build_ids>>
  BY DEF reading, perf_places, perf_results, etl_places
<1>2. CASE format # ".data"
  BY <1>1, <1>2, EtlUnchanged DEF IInv
<1>3. CASE format = ".data"
  <2>1. UNCHANGED <<scene, phase, Perf!places, Perf!results>>
    BY <1>1 DEF Perf!places, Perf!results
  <2>2. Perf!Whole' = Perf!Whole
    BY <2>1 DEF Perf!Whole
  <2> QED BY <1>1, <1>3, <2>1, <2>2, PerfUnchanged DEF IInv
<1> QED BY <1>2, <1>3

\* The listener, the directory and the stage of read_document() change together only as
\* the steps of the provider of an archive make them.
LEMMA ArchiveStays ==
  ASSUME ArchiveInv, UNCHANGED <<format, stage, extraction>>
  PROVE  ArchiveInv'
PROOF BY DEF ArchiveInv, extraction

LEMMA UnpackingKeeps ==
  ASSUME ArchiveInv,
         make_data_provider \/ RefuseArchive \/ MakeDirectory \/ NameFile \/ NameFails
           \/ Unpack \/ UnpackFails \/ UnpackCanceled \/ UnpackEnds
  PROVE  ArchiveInv'
PROOF
<1> USE DEF ArchiveInv
<1>1. CASE make_data_provider
  <2>1. stage' # "closed" /\ (format = ".diagsession" => stage' # "processing")
    BY <1>1 DEF make_data_provider
  <2> QED BY <1>1, <2>1 DEF make_data_provider, extraction
<1>2. CASE RefuseArchive
  BY <1>2 DEF RefuseArchive, extraction
<1>3. CASE MakeDirectory \/ NameFile \/ NameFails
  BY <1>3 DEF MakeDirectory, NameFile, NameFails
<1>4. CASE Unpack
  <2>1. PICK r : r = unpacking
    OBVIOUS
  <2>2. Told(r) /\ r.total_work = ArchiveSize /\ r.current_work < ArchiveSize
        /\ unpacking' = Progressed(r, 1)
    BY <1>4, <2>1 DEF Unpack
  <2>4. r.total_work # 0
    BY <2>2, ArchiveSizes
  <2>5. Told(Progressed(r, 1)) /\ Progressed(r, 1).total_work = r.total_work
    BY <2>2, <2>4, ProgressedTold
  <2>6. stage = "unpacking" /\ UNCHANGED <<format, stage, temp_etl_file_path, on_disk, undeletable, unnamed>>
    BY <1>4 DEF Unpack
  <2> QED BY <2>2, <2>5, <2>6
<1>5. CASE UnpackFails \/ UnpackCanceled
  BY <1>5 DEF UnpackFails, UnpackCanceled, extraction
<1>6. CASE UnpackEnds
  <2>1. PICK r : r = unpacking
    OBVIOUS
  <2>2. Told(r) /\ r.total_work = ArchiveSize /\ r.current_work = r.total_work
        /\ unpacking' = Finished(r)
    BY <1>6, <2>1 DEF UnpackEnds
  <2>3. /\ Told(Finished(r)) /\ Finished(r).total_work = r.total_work
        /\ Finished(r).finished /\ Last(Finished(r).reports) = r.total_work
    <3>1. r.current_work >= r.total_work
      BY <2>2, ArchiveSizes
    <3> QED BY <2>2, <3>1, FinishedTold
  <2>4. stage' = "processing" /\ stage = "unpacking" /\ UNCHANGED <<temp_etl_file_path, on_disk, undeletable, unnamed>>
    BY <1>6 DEF UnpackEnds
  <2> QED BY <2>2, <2>3, <2>4
<1> QED BY <1>1, <1>2, <1>3, <1>4, <1>5, <1>6

LEMMA DestroyKeeps ==
  ASSUME ArchiveInv, DestroyProvider, stage # "naming"
  PROVE  ArchiveInv'
PROOF
<1>1. stage' = "closed" /\ UNCHANGED <<format, unpacking, unnamed>> /\ try_cleanup
      /\ stage # "naming"
  BY DEF DestroyProvider
<1>2. CASE ~temp_etl_file_path
  BY <1>1, <1>2 DEF ArchiveInv, try_cleanup
<1>3. CASE temp_etl_file_path
  BY <1>1, <1>3 DEF ArchiveInv, try_cleanup
<1> QED BY <1>2, <1>3

LEMMA RecordingKeeps ==
  ASSUME IInv, [RecordingNext]_recording_vars
  PROVE  IInv'
PROOF
<1> USE DEF IInv
<1>1. CASE make_data_provider \/ RefuseArchive \/ MakeDirectory \/ NameFile \/ NameFails
             \/ Unpack \/ UnpackFails \/ UnpackCanceled \/ UnpackEnds
  <2>1. UNCHANGED <<format, reading>>
    BY <1>1 DEF make_data_provider, RefuseArchive, MakeDirectory, NameFile, NameFails, Unpack, UnpackFails,
                UnpackCanceled, UnpackEnds
  <2> QED BY <1>1, <2>1, UnpackingKeeps, ReadingStays
<1>2. CASE Unwind \/ Close
  <2>1. DestroyProvider
    BY <1>2 DEF Unwind, Close
  <2>2. UNCHANGED <<format, reading>>
    BY <2>1 DEF DestroyProvider
  <2>3. stage # "naming"
    BY <1>2 DEF Unwind, Close, Thrown, Returned
  <2> QED BY <2>1, <2>2, <2>3, DestroyKeeps, ReadingStays
<1>3. CASE ReadEtl
  <2>1. format # ".data" /\ Process /\ UNCHANGED <<format, stage, extraction>>
    BY <1>3 DEF ReadEtl
  <2> QED BY <2>1, ProcessKeeps, ArchiveStays
<1>4. CASE ReadPerf
  <2>1. format = ".data" /\ Perf!Process /\ UNCHANGED <<format, stage, extraction>>
    BY <1>4 DEF ReadPerf
  <2>2. Perf!Whole' = Perf!Whole
    BY <2>1, SceneStays DEF Perf!Whole
  <2> QED BY <2>1, <2>2, PerfProcessKeeps, ArchiveStays
<1>5. CASE CancelReading
  <2>1. UNCHANGED <<format, stage, extraction>> /\ UNCHANGED <<format, reading>>
    BY <1>5 DEF CancelReading, Cancel, reading, etl_places
  <2> QED BY <2>1, ArchiveStays, ReadingStays
<1>6. CASE UNCHANGED recording_vars
  <2>1. UNCHANGED <<format, stage, extraction>> /\ UNCHANGED <<format, reading>>
    BY <1>6 DEF recording_vars, reading
  <2> QED BY <2>1, ArchiveStays, ReadingStays
<1> QED BY <1>1, <1>2, <1>3, <1>4, <1>5, <1>6 DEF RecordingNext, Work

\* What the readers, their results and the temporary directory are holds in every state:
\* what was handed over lies at the beginning of what the file has, each reader stands
\* behind it, and a directory that exists is remembered.
THEOREM RecordingInvariant == RecordingSpec => []IInv
PROOF
<1>1. RecordingInit => IInv
  BY RecordingStarts
<1>2. IInv /\ [RecordingNext]_recording_vars => IInv'
  BY RecordingKeeps
<1> QED BY <1>1, <1>2, PTL DEF RecordingSpec

-----------------------------------------------------------------------------
(* What is promised of read_document() *)

\* What read_document() hands to the process context is what the file has
\* (etl_file::process, perf_data_file::process): the events of an .etl file in the order
\* of their time and, when it is done, all of them; entries, ids, build ids and events of
\* a perf.data file as they lie there, none twice and none left out, unless a section
\* has its last part cut off.
THEOREM HandsOverEvents == RecordingSpec => []EventsHandedOver
PROOF
<1>1. IInv => EventsHandedOver
  BY EtlMeans, PerfMeans DEF IInv, EventsHandedOver
<1> QED BY <1>1, RecordingInvariant, PTL

\* The reports of the progress reporter only ever grow, and the listener has heard of the
\* total of the extraction and of the file when they are done, at which all of the file
\* has been counted.  It hears of no more than the total, unless that is what 32 bits have
\* left of the size of an .etl file (progress_reporter).
THEOREM TellsProgress == RecordingSpec => []ProgressTold
PROOF
<1>1. IInv => ProgressTold
  BY EtlMeans, PerfMeans DEF IInv, ArchiveInv, ProgressTold
<1> QED BY <1>1, RecordingInvariant, PTL

\* The directory into which an archive was unpacked is left behind only when the system
\* has refused to remove it (diagsession_data_provider::try_cleanup), or when there was no
\* path to remember: the safety half of EndsTidily.
THEOREM LeavesNothing == RecordingSpec => [](stage = "closed" /\ on_disk => undeletable \/ unnamed)
PROOF
<1>1. IInv => (stage = "closed" /\ on_disk => undeletable \/ unnamed)
  BY DEF IInv, ArchiveInv
<1> QED BY <1>1, RecordingInvariant, PTL
=============================================================================
