------------------------ MODULE SymbolResolvers_proofs ------------------------
(***************************************************************************)
(* Proofs about ModuleMap and SymbolResolvers.  For any number of          *)
(* addresses, times and modules the ranges of a map stay in order, and     *)
(* find() gives the latest module that is loaded at an address, or none    *)
(* beside others only.  For any worlds and any number of resolvers and     *)
(* crashes: which symbols frames get, that those of another build are      *)
(* noticed, and when a resolver gives up.                                  *)
(***************************************************************************)
EXTENDS SymbolResolvers, FiniteSetTheorems, NaturalsInduction, WellFoundedInduction, TLAPS

-----------------------------------------------------------------------------
(* What is known of the ranges when the modules 1 .. n of the log have been *)
(* inserted.                                                                *)

RangesOf(K) == [begin : Int, end : Int, active : Seq(K)]
SetOf(rs)   == {rs[i] : i \in 1 .. Len(rs)}

\* The modules of a range cover it, and are in the order of their time stamps.
Fits(log, r) ==
  /\ r.begin < r.end
  /\ r.active # <<>>
  /\ \A i, j \in 1 .. Len(r.active) : i < j => log[r.active[i]].time <= log[r.active[j]].time
  /\ \A i \in 1 .. Len(r.active) : log[r.active[i]].base <= r.begin /\ r.end <= log[r.active[i]].end

\* The ranges are in order and do not overlap.
Apart(rs) == \A i, j \in 1 .. Len(rs) : i < j => rs[i].end <= rs[j].begin

\* A range ends and begins where one of its modules or a neighbour does.
Edges(log, R) ==
  \A r \in R :
    /\ \/ \E s \in R : s.begin = r.end
       \/ \E i \in 1 .. Len(r.active) : log[r.active[i]].end = r.end
    /\ \/ \E s \in R : s.end = r.begin
       \/ \E i \in 1 .. Len(r.active) : log[r.active[i]].base = r.begin

\* Load events come in the order of their time stamps.
InOrder(log) == \A i, j \in 1 .. Len(log) : i <= j => log[i].time <= log[j].time
Increasing(active) == \A i, j \in 1 .. Len(active) : i < j => active[i] < active[j]

\* Module m is one of these, or equal to the one before it.
Known(log, active, m) ==
  \/ \E i \in 1 .. Len(active) : active[i] = m
  \/ \A i \in 1 .. Len(active) :
       /\ active[i] < m
       /\ \A j \in 1 .. Len(active) : active[j] < m => active[j] <= active[i]
       => log[active[i]].payload = log[m].payload
Meets(log, r, m)  == log[m].base < r.end /\ r.begin < log[m].end
Latest(log, R, n) == \A r \in R, m \in 1 .. n : Meets(log, r, m) => Known(log, r.active, m)

\* An address of a module that no range has was not covered by another module, which
\* was there before.
Covered(R, a) == \E r \in R : r.begin <= a /\ a < r.end
Beside(log, k, a) ==
  \E j \in 1 .. k - 1 :
    /\ ~(log[j].base <= a /\ a < log[j].end)
    /\ log[j].base < log[k].end /\ log[k].base < log[j].end
MissedBeside(log, R, n) ==
  \A k \in 1 .. n, a \in Int : log[k].base <= a /\ a < log[k].end => Covered(R, a) \/ Beside(log, k, a)

Good(log, R, n) ==
  /\ \A r \in R : Fits(log, r)
  /\ Edges(log, R)
  /\ InOrder(log) => (\A r \in R : Increasing(r.active)) /\ Latest(log, R, n)
  /\ MissedBeside(log, R, n)

\* The same of a sequence of ranges with modules of K.
GoodRanges(log, rs, n, K) ==
  /\ rs \in Seq(RangesOf(K))
  /\ Apart(rs)
  /\ Good(log, SetOf(rs), n)

IInv ==
  /\ loaded \in Seq(Loads)
  /\ modules \subseteq 1 .. Len(loaded)
  /\ GoodRanges(loaded, ranges, Len(loaded), modules)

-----------------------------------------------------------------------------
(* Sequences. *)

LEMMA BehindFacts ==
  ASSUME NEW S, NEW s \in Seq(S), NEW n \in 0 .. Len(s), NEW x \in S
  PROVE  /\ behind(s, n, x) \in Seq(S)
         /\ Len(behind(s, n, x)) = Len(s) + 1
         /\ \A i \in 1 .. Len(s) + 1 :
              behind(s, n, x)[i] = IF i <= n THEN s[i] ELSE IF i = n + 1 THEN x ELSE s[i - 1]
<1> DEFINE f(i) == IF i <= n THEN s[i] ELSE IF i = n + 1 THEN x ELSE s[i - 1]
<1>1. Len(s) \in Nat /\ \A i \in 1 .. Len(s) : s[i] \in S
  OBVIOUS
<1>2. \A i \in 1 .. Len(s) + 1 : f(i) \in S
  BY <1>1
<1>3. behind(s, n, x) = [i \in 1 .. Len(s) + 1 |-> f(i)]
  BY DEF behind
<1> HIDE DEF f
<1>4. behind(s, n, x) \in [1 .. Len(s) + 1 -> S]
  BY <1>2, <1>3
<1>5. behind(s, n, x) \in Seq(S) /\ Len(behind(s, n, x)) = Len(s) + 1
  BY <1>1, <1>4
<1> QED
  BY <1>3, <1>5 DEF f

LEMMA BehindSet ==
  ASSUME NEW S, NEW s \in Seq(S), NEW n \in 0 .. Len(s), NEW x \in S
  PROVE  SetOf(behind(s, n, x)) = SetOf(s) \cup {x}
<1> DEFINE t == behind(s, n, x)
<1>1. /\ Len(t) = Len(s) + 1
      /\ \A i \in 1 .. Len(s) + 1 : t[i] = IF i <= n THEN s[i] ELSE IF i = n + 1 THEN x ELSE s[i - 1]
  BY BehindFacts
<1> HIDE DEF t
<1>2. Len(s) \in Nat
  OBVIOUS
<1>3. ASSUME NEW i \in 1 .. Len(t) PROVE t[i] \in SetOf(s) \cup {x}
  BY <1>1, <1>2 DEF SetOf
<1>4. x \in SetOf(t)
  <2>1. n + 1 \in 1 .. Len(t) /\ t[n + 1] = x
    BY <1>1, <1>2
  <2> QED
    BY <2>1 DEF SetOf
<1>5. ASSUME NEW i \in 1 .. Len(s) PROVE s[i] \in SetOf(t)
  <2>1. CASE i <= n
    <3>1. i \in 1 .. Len(t) /\ t[i] = s[i]
      BY <1>1, <1>2, <2>1
    <3> QED
      BY <3>1 DEF SetOf
  <2>2. CASE i > n
    <3>1. i + 1 \in 1 .. Len(t) /\ t[i + 1] = s[(i + 1) - 1] /\ (i + 1) - 1 = i
      BY <1>1, <1>2, <2>2
    <3> QED
      BY <3>1 DEF SetOf
  <2> QED
    BY <2>1, <2>2
<1> QED
  BY <1>3, <1>4, <1>5 DEF SetOf, t

LEMMA SeqWider ==
  ASSUME NEW S, NEW T, S \subseteq T, NEW s \in Seq(S)
  PROVE  s \in Seq(T)
OBVIOUS

LEMMA SetOfOne ==
  ASSUME NEW x
  PROVE  SetOf(<<x>>) = {x}
<1>1. Len(<<x>>) = 1 /\ <<x>>[1] = x
  OBVIOUS
<1> QED
  BY <1>1 DEF SetOf

\* A set of numbers has a smallest element; up to a bound also a greatest one.
LEMMA Smallest ==
  ASSUME NEW T, T \subseteq Nat, T # {}
  PROVE  \E x \in T : \A y \in T : x <= y
<1>1. PICK x \in T : \A y \in T : <<y, x>> \notin OpToRel(<, Nat)
  BY NatLessThanWellFounded, WFMin, Zenon
<1>2. ASSUME NEW y \in T PROVE ~(y < x)
  <2>1. x \in Nat /\ y \in Nat /\ <<y, x>> \notin OpToRel(<, Nat)
    BY <1>1
  <2> QED
    BY <2>1, Zenon DEF OpToRel
<1> QED
  BY <1>2

LEMMA Greatest ==
  ASSUME NEW n \in Nat, NEW T, T \subseteq 1 .. n, T # {}
  PROVE  \E x \in T : \A y \in T : y <= x
<1> DEFINE U == {n - x : x \in T}
<1>1. U \subseteq Nat
  OBVIOUS
<1>2. U # {}
  OBVIOUS
<1>3. PICK u \in U : \A v \in U : u <= v
  <2> HIDE DEF U
  <2> QED
    BY <1>1, <1>2, Smallest
<1>4. PICK x \in T : u = n - x
  OBVIOUS
<1>5. \A y \in T : n - x <= n - y
  BY <1>3, <1>4
<1> QED
  BY <1>5

\* In a sequence that is sorted by a number, those up to a bound are a beginning of it.
LEMMA Beginning ==
  ASSUME NEW n \in Nat, NEW f, \A i \in 1 .. n : f[i] \in Int, NEW bound \in Int,
         \A i, j \in 1 .. n : i < j => f[i] <= f[j]
  PROVE  \E m \in 0 .. n : \A i \in 1 .. n : i <= m <=> f[i] <= bound
<1> DEFINE T == {i \in 1 .. n : f[i] <= bound}
<1>1. CASE T = {}
  BY <1>1, 0 \in 0 .. n, \A i \in 1 .. n : ~(i <= 0)
<1>2. CASE T # {}
  <2>1. PICK m \in T : \A i \in T : i <= m
    <3>1. T \subseteq 1 .. n
      OBVIOUS
    <3> HIDE DEF T
    <3> QED
      BY <1>2, <3>1, Greatest
  <2>2. m \in 0 .. n
    OBVIOUS
  <2>3. ASSUME NEW i \in 1 .. n, i <= m PROVE f[i] <= bound
    BY <2>3
  <2> QED
    BY <2>1, <2>2, <2>3
<1> QED
  BY <1>1, <1>2

-----------------------------------------------------------------------------
(* New ranges. *)

LEMMA GoodFacts ==
  ASSUME NEW log, NEW n, NEW K, NEW rs, GoodRanges(log, rs, n, K)
  PROVE  /\ Len(rs) \in Nat
         /\ \A i \in 1 .. Len(rs) :
              /\ rs[i] \in RangesOf(K) /\ rs[i] \in SetOf(rs) /\ Fits(log, rs[i])
              /\ rs[i].begin \in Int /\ rs[i].end \in Int /\ rs[i].begin < rs[i].end
              /\ rs[i].active \in Seq(K)
         /\ \A r \in SetOf(rs) : r \in RangesOf(K) /\ r.begin \in Int /\ r.end \in Int /\ r.active \in Seq(K)
<1>1. rs \in Seq(RangesOf(K)) /\ Len(rs) \in Nat
  BY DEF GoodRanges
<1>2. \A i \in 1 .. Len(rs) : rs[i] \in RangesOf(K) /\ rs[i] \in SetOf(rs)
  BY <1>1 DEF SetOf
<1>3. \A r \in SetOf(rs) : r \in RangesOf(K)
  BY <1>2 DEF SetOf
<1>4. \A r \in RangesOf(K) : r.begin \in Int /\ r.end \in Int /\ r.active \in Seq(K)
  BY DEF RangesOf
<1>5. \A r \in SetOf(rs) : Fits(log, r)
  BY DEF GoodRanges, Good
<1> QED
  BY <1>1, <1>2, <1>3, <1>4, <1>5 DEF Fits

\* One more range of a module that has none of the earlier modules' addresses: what is known of
\* the ranges stays so.
LEMMA NewRangeGood ==
  ASSUME NEW K, NEW log, NEW n \in Nat, NEW R \in SUBSET RangesOf(K), Good(log, R, n),
         NEW k \in K, K \subseteq Int, n < k,
         NEW b \in Int, NEW e \in Int, b < e, log[k].base <= b, e <= log[k].end,
         b = log[k].base \/ \E s \in R : s.end = b,
         e = log[k].end \/ \E s \in R : s.begin = e
  PROVE  Good(log, R \cup {NewRange(b, e, k)}, n)
<1> DEFINE new == NewRange(b, e, k)
           Q   == R \cup {new}
<1>1. new.begin = b /\ new.end = e /\ new.active = <<k>>
  BY DEF NewRange
<1>2. Len(<<k>>) = 1 /\ <<k>>[1] = k /\ <<k>> # <<>>
  OBVIOUS
<1>3. \A i \in 1 .. Len(new.active) : i = 1 /\ new.active[i] = k
  BY <1>1, <1>2
<1>4. 1 \in 1 .. Len(new.active) /\ new.active[1] = k
  BY <1>1, <1>2
<1> HIDE DEF new
<1>5. Fits(log, new)
  BY <1>1, <1>2, <1>3 DEF Fits
<1>6. \A r \in R : Fits(log, r)
  BY DEF Good
<1>7. Edges(log, Q)
  <2>1. ASSUME NEW r \in R
        PROVE  /\ \/ \E s \in Q : s.begin = r.end
                  \/ \E i \in 1 .. Len(r.active) : log[r.active[i]].end = r.end
               /\ \/ \E s \in Q : s.end = r.begin
                  \/ \E i \in 1 .. Len(r.active) : log[r.active[i]].base = r.begin
    BY DEF Good, Edges
  <2>2. /\ \/ \E s \in Q : s.begin = new.end
           \/ \E i \in 1 .. Len(new.active) : log[new.active[i]].end = new.end
        /\ \/ \E s \in Q : s.end = new.begin
           \/ \E i \in 1 .. Len(new.active) : log[new.active[i]].base = new.begin
    BY <1>1, <1>4
  <2> QED
    BY <2>1, <2>2 DEF Edges
<1>8. Increasing(new.active)
  BY <1>3 DEF Increasing
<1>9. ASSUME NEW m \in 1 .. n PROVE Known(log, new.active, m)
  <2>1. ~(k < m)
    <3>1. k \in Int /\ m \in Int /\ m <= n
      OBVIOUS
    <3> QED
      BY <3>1
  <2> QED
    BY <1>3, <2>1 DEF Known
<1>10. ASSUME InOrder(log) PROVE (\A r \in Q : Increasing(r.active)) /\ Latest(log, Q, n)
  BY <1>8, <1>9, <1>10 DEF Good, Latest
<1>11. MissedBeside(log, Q, n)
  <2>1. \A a \in Int : Covered(R, a) => Covered(Q, a)
    BY DEF Covered
  <2> QED
    BY <2>1 DEF Good, MissedBeside
<1>12. \A r \in Q : Fits(log, r)
  BY <1>5, <1>6
<1> HIDE DEF Q
<1>n. Good(log, Q, n)
  BY <1>7, <1>10, <1>11, <1>12 DEF Good
<1> QED
  BY <1>n DEF Q, new

\* It is put where the ranges before it end and those behind it begin.
LEMMA PlacedApart ==
  ASSUME NEW K, NEW rs \in Seq(RangesOf(K)), Apart(rs), NEW m \in 0 .. Len(rs), NEW new \in RangesOf(K),
         \A i \in 1 .. Len(rs) : i <= m => rs[i].end <= new.begin,
         \A i \in 1 .. Len(rs) : m < i => new.end <= rs[i].begin,
         new.begin < new.end, \A i \in 1 .. Len(rs) : rs[i].begin < rs[i].end
  PROVE  Apart(behind(rs, m, new))
<1> DEFINE t == behind(rs, m, new)
<1>1. /\ Len(t) = Len(rs) + 1
      /\ \A i \in 1 .. Len(rs) + 1 : t[i] = IF i <= m THEN rs[i] ELSE IF i = m + 1 THEN new ELSE rs[i - 1]
  BY BehindFacts
<1>2. Len(rs) \in Nat /\ \A i \in 1 .. Len(rs) : rs[i].begin \in Int /\ rs[i].end \in Int
  <2>1. Len(rs) \in Nat /\ \A i \in 1 .. Len(rs) : rs[i] \in RangesOf(K)
    OBVIOUS
  <2> QED
    BY <2>1 DEF RangesOf
<1>3. new.begin \in Int /\ new.end \in Int
  BY DEF RangesOf
<1> HIDE DEF t
<1>4. ASSUME NEW i \in 1 .. Len(t), NEW j \in 1 .. Len(t), i < j PROVE t[i].end <= t[j].begin
  <2>1. CASE j <= m
    <3>1. t[i] = rs[i] /\ t[j] = rs[j] /\ i \in 1 .. Len(rs) /\ j \in 1 .. Len(rs)
      BY <1>1, <1>2, <1>4, <2>1
    <3> QED
      BY <1>4, <3>1 DEF Apart
  <2>2. CASE j = m + 1
    <3>1. t[i] = rs[i] /\ t[j] = new /\ i \in 1 .. Len(rs) /\ i <= m
      BY <1>1, <1>2, <1>4, <2>2
    <3> QED
      BY <3>1
  <2>3. CASE j > m + 1
    <3>1. t[j] = rs[j - 1] /\ j - 1 \in 1 .. Len(rs) /\ m < j - 1
      BY <1>1, <1>2, <1>4, <2>3
    <3>2. CASE i <= m
      <4>1. t[i] = rs[i] /\ i \in 1 .. Len(rs) /\ i < j - 1
        BY <1>1, <1>2, <1>4, <2>3, <3>2
      <4> QED
        BY <3>1, <4>1 DEF Apart
    <3>3. CASE i = m + 1
      <4>1. t[i] = new
        BY <1>1, <1>2, <1>4, <3>3
      <4> QED
        BY <3>1, <4>1
    <3>4. CASE i > m + 1
      <4>1. t[i] = rs[i - 1] /\ i - 1 \in 1 .. Len(rs) /\ i - 1 < j - 1
        BY <1>1, <1>2, <1>4, <3>4
      <4> QED
        BY <3>1, <4>1 DEF Apart
    <3> QED
      BY <3>2, <3>3, <3>4
  <2> QED
    BY <2>1, <2>2, <2>3
<1> QED
  BY <1>4 DEF Apart, t

LEMMA NewRangeGoodRanges ==
  ASSUME NEW K, NEW log, NEW n \in Nat, NEW rs, GoodRanges(log, rs, n, K),
         NEW k \in K, K \subseteq Int, n < k,
         NEW b \in Int, NEW e \in Int, b < e, log[k].base <= b, e <= log[k].end,
         b = log[k].base \/ \E s \in SetOf(rs) : s.end = b,
         e = log[k].end \/ \E s \in SetOf(rs) : s.begin = e,
         NEW m \in 0 .. Len(rs),
         \A i \in 1 .. Len(rs) : i <= m => rs[i].end <= b,
         \A i \in 1 .. Len(rs) : m < i => e <= rs[i].begin
  PROVE  GoodRanges(log, behind(rs, m, NewRange(b, e, k)), n, K)
<1> DEFINE new == NewRange(b, e, k)
<1>1. new \in RangesOf(K) /\ new.begin = b /\ new.end = e
  BY DEF NewRange, RangesOf
<1> HIDE DEF new
<1>2. /\ rs \in Seq(RangesOf(K)) /\ Apart(rs) /\ SetOf(rs) \in SUBSET RangesOf(K)
      /\ \A i \in 1 .. Len(rs) : rs[i].begin < rs[i].end
  BY GoodFacts DEF GoodRanges
<1>3. behind(rs, m, new) \in Seq(RangesOf(K))
  BY <1>1, <1>2, BehindFacts
<1>4. SetOf(behind(rs, m, new)) = SetOf(rs) \cup {new}
  BY <1>1, <1>2, BehindSet
<1>5. Apart(behind(rs, m, new))
  BY <1>1, <1>2, PlacedApart
<1>6. Good(log, SetOf(rs), n)
  BY DEF GoodRanges
<1>7. Good(log, SetOf(rs) \cup {new}, n)
  BY <1>2, <1>6, NewRangeGood DEF new
<1> QED
  BY <1>3, <1>4, <1>5, <1>7 DEF GoodRanges, new

-----------------------------------------------------------------------------
(* Ranges that are split. *)

LEMMA ModuleFacts ==
  ASSUME NEW log \in Seq(Loads), NEW K, K \subseteq 1 .. Len(log)
  PROVE  /\ Len(log) \in Nat
         /\ \A k \in 1 .. Len(log) :
              /\ log[k].base \in Int /\ log[k].end \in Int /\ log[k].base < log[k].end
              /\ log[k].time \in 1 .. MaxTime
         /\ \A r \in RangesOf(K) :
              /\ r.begin \in Int /\ r.end \in Int /\ r.active \in Seq(K) /\ Len(r.active) \in Nat
              /\ \A i \in 1 .. Len(r.active) : r.active[i] \in K /\ r.active[i] \in 1 .. Len(log)
<1>1. Len(log) \in Nat /\ \A k \in 1 .. Len(log) : log[k] \in Loads
  OBVIOUS
<1>2. \A l \in Loads : l.base \in Int /\ l.end \in Int /\ l.base < l.end /\ l.time \in 1 .. MaxTime
  BY DEF Loads, Addresses, Times
<1>3. ASSUME NEW r \in RangesOf(K)
      PROVE  /\ r.begin \in Int /\ r.end \in Int /\ r.active \in Seq(K) /\ Len(r.active) \in Nat
             /\ \A i \in 1 .. Len(r.active) : r.active[i] \in K /\ r.active[i] \in 1 .. Len(log)
  <2>1. r.begin \in Int /\ r.end \in Int /\ r.active \in Seq(K)
    BY DEF RangesOf
  <2>2. \A s \in Seq(K) : Len(s) \in Nat /\ \A i \in 1 .. Len(s) : s[i] \in K
    OBVIOUS
  <2>3. Len(r.active) \in Nat /\ \A i \in 1 .. Len(r.active) : r.active[i] \in K
    BY <2>1, <2>2
  <2> QED
    BY <2>1, <2>3
<1> QED
  BY <1>1, <1>2, <1>3

LEMMA TimeFacts ==
  ASSUME NEW log \in Seq(Loads), NEW m \in 1 .. Len(log)
  PROVE  log[m].time \in Int
<1>1. log[m] \in Loads
  OBVIOUS
<1>2. log[m].time \in 1 .. MaxTime
  BY <1>1 DEF Loads, Times
<1> QED
  BY <1>2

LEMMA SplitRangeGood ==
  ASSUME NEW log \in Seq(Loads), NEW K, K \subseteq 1 .. Len(log), NEW n \in 0 .. Len(log),
         NEW R \in SUBSET RangesOf(K), Good(log, R, n),
         NEW r \in R, NEW x \in Int, r.begin < x, x < r.end,
         NEW Q, [r EXCEPT !.end = x] \in Q, [r EXCEPT !.begin = x] \in Q,
         \A q \in Q : q \in R \/ q = [r EXCEPT !.end = x] \/ q = [r EXCEPT !.begin = x],
         \A s \in R : s = r \/ s \in Q
  PROVE  Good(log, Q, n)
<1> DEFINE r1 == [r EXCEPT !.end = x]
           r2 == [r EXCEPT !.begin = x]
<1>1. /\ r1.begin = r.begin /\ r1.end = x /\ r1.active = r.active
      /\ r2.begin = x /\ r2.end = r.end /\ r2.active = r.active
  BY DEF RangesOf
<1>2. r1 \in Q /\ r2 \in Q /\ \A q \in Q : q \in R \/ q = r1 \/ q = r2
  OBVIOUS
<1>3. /\ r \in RangesOf(K) /\ \A s \in R : s.begin \in Int /\ s.end \in Int
      /\ \A i \in 1 .. Len(r.active) : log[r.active[i]].base \in Int /\ log[r.active[i]].end \in Int
      /\ \A m \in 1 .. n : log[m].base \in Int /\ log[m].end \in Int
  BY ModuleFacts
<1> HIDE DEF r1, r2
<1>4. \A s \in R : Fits(log, s)
  BY DEF Good
<1>5. Fits(log, r1) /\ Fits(log, r2)
  <2>1. /\ \A i, j \in 1 .. Len(r.active) : i < j => log[r.active[i]].time <= log[r.active[j]].time
        /\ \A i \in 1 .. Len(r.active) : log[r.active[i]].base <= r.begin /\ r.end <= log[r.active[i]].end
        /\ r.active # <<>>
    BY <1>4 DEF Fits
  <2>2. \A i \in 1 .. Len(r.active) : log[r.active[i]].base <= x /\ x <= log[r.active[i]].end
    BY <1>3, <2>1
  <2> QED
    BY <1>1, <2>1, <2>2 DEF Fits
<1>6. Edges(log, Q)
  <2>1. ASSUME NEW s \in R
        PROVE  /\ \/ \E t \in Q : t.begin = s.end
                  \/ \E i \in 1 .. Len(s.active) : log[s.active[i]].end = s.end
               /\ \/ \E t \in Q : t.end = s.begin
                  \/ \E i \in 1 .. Len(s.active) : log[s.active[i]].base = s.begin
    <3>1. /\ \/ \E t \in R : t.begin = s.end
             \/ \E i \in 1 .. Len(s.active) : log[s.active[i]].end = s.end
          /\ \/ \E t \in R : t.end = s.begin
             \/ \E i \in 1 .. Len(s.active) : log[s.active[i]].base = s.begin
      BY DEF Good, Edges
    <3>2. ASSUME NEW t \in R PROVE \E q \in Q : q.begin = t.begin
      BY <1>1, <1>2
    <3>3. ASSUME NEW t \in R PROVE \E q \in Q : q.end = t.end
      BY <1>1, <1>2
    <3> QED
      BY <3>1, <3>2, <3>3
  <2>2. ASSUME NEW q \in Q
        PROVE  /\ \/ \E t \in Q : t.begin = q.end
                  \/ \E i \in 1 .. Len(q.active) : log[q.active[i]].end = q.end
               /\ \/ \E t \in Q : t.end = q.begin
                  \/ \E i \in 1 .. Len(q.active) : log[q.active[i]].base = q.begin
    <3>1. CASE q \in R
      BY <2>1, <3>1
    <3>2. CASE q = r1
      <4>1. r2 \in Q /\ r2.begin = q.end /\ q.begin = r.begin /\ q.active = r.active
        BY <1>1, <1>2, <3>2
      <4> QED
        BY <2>1, <4>1
    <3>3. CASE q = r2
      <4>1. r1 \in Q /\ r1.end = q.begin /\ q.end = r.end /\ q.active = r.active
        BY <1>1, <1>2, <3>3
      <4> QED
        BY <2>1, <4>1
    <3> QED
      BY <1>2, <3>1, <3>2, <3>3
  <2> QED
    BY <2>2 DEF Edges
<1>7. ASSUME InOrder(log) PROVE (\A q \in Q : Increasing(q.active)) /\ Latest(log, Q, n)
  <2>1. (\A s \in R : Increasing(s.active)) /\ Latest(log, R, n)
    BY <1>7 DEF Good
  <2>2. \A q \in Q : Increasing(q.active)
    BY <1>1, <1>2, <2>1
  <2>3. ASSUME NEW q \in Q, NEW m \in 1 .. n, Meets(log, q, m) PROVE Known(log, q.active, m)
    <3>1. CASE q \in R
      BY <2>1, <2>3, <3>1 DEF Latest
    <3>2. CASE q \notin R
      <4>1. q.active = r.active /\ r.begin <= q.begin /\ q.end <= r.end /\ q.begin \in Int /\ q.end \in Int
        <5>1. q = r1 \/ q = r2
          BY <1>2, <3>2
        <5>2. r.begin \in Int /\ r.end \in Int
          BY <1>3
        <5>3. CASE q = r1
          BY <1>1, <5>2, <5>3
        <5>4. CASE q = r2
          BY <1>1, <5>2, <5>4
        <5> QED
          BY <5>1, <5>3, <5>4
      <4>2. Meets(log, r, m)
        BY <1>3, <2>3, <4>1, ModuleFacts DEF Meets
      <4> QED
        BY <2>1, <4>1, <4>2 DEF Latest
    <3> QED
      BY <3>1, <3>2
  <2> QED
    BY <2>2, <2>3 DEF Latest
<1>8. MissedBeside(log, Q, n)
  <2>1. ASSUME NEW a \in Int, Covered(R, a) PROVE Covered(Q, a)
    <3>1. PICK s \in R : s.begin <= a /\ a < s.end
      BY <2>1 DEF Covered
    <3>2. CASE s = r
      <4>1. (r1.begin <= a /\ a < r1.end) \/ (r2.begin <= a /\ a < r2.end)
        BY <1>1, <1>3, <3>1, <3>2
      <4> QED
        BY <1>2, <4>1 DEF Covered
    <3> QED
      BY <3>1, <3>2 DEF Covered
  <2> QED
    BY <2>1 DEF Good, MissedBeside
<1>9. \A q \in Q : Fits(log, q)
  BY <1>2, <1>4, <1>5
<1> QED
  BY <1>6, <1>7, <1>8, <1>9 DEF Good

LEMMA SplitGoodRanges ==
  ASSUME NEW log \in Seq(Loads), NEW K, K \subseteq 1 .. Len(log), NEW n \in 0 .. Len(log),
         NEW rs, GoodRanges(log, rs, n, K), NEW x \in Int
  PROVE  /\ GoodRanges(log, split(rs, x), n, K)
         /\ \A r \in SetOf(split(rs, x)) :
              /\ ~inside(r, x)
              /\ \E s \in SetOf(rs) : s.begin <= r.begin /\ r.end <= s.end /\ r.active = s.active
         /\ \A a \in Int : Covered(SetOf(rs), a) => Covered(SetOf(split(rs, x)), a)
<1>1. /\ rs \in Seq(RangesOf(K)) /\ Apart(rs) /\ SetOf(rs) \in SUBSET RangesOf(K) /\ Len(rs) \in Nat
      /\ \A i \in 1 .. Len(rs) :
           /\ rs[i] \in RangesOf(K) /\ rs[i] \in SetOf(rs)
           /\ rs[i].begin \in Int /\ rs[i].end \in Int /\ rs[i].begin < rs[i].end
      /\ Good(log, SetOf(rs), n)
  BY GoodFacts DEF GoodRanges
<1>2. CASE ~\E i \in 1 .. Len(rs) : inside(rs[i], x)
  <2>1. split(rs, x) = rs
    BY <1>2 DEF split
  <2>2. \A r \in SetOf(rs) : r.begin \in Int /\ r.end \in Int /\ ~inside(r, x)
    BY <1>1, <1>2 DEF SetOf
  <2> QED
    BY <2>1, <2>2
<1>3. CASE \E i \in 1 .. Len(rs) : inside(rs[i], x)
  <2> DEFINE i == CHOOSE i \in 1 .. Len(rs) : inside(rs[i], x)
             r1 == [rs[i] EXCEPT !.end = x]
             r2 == [rs[i] EXCEPT !.begin = x]
             cut == [rs EXCEPT ![i].end = x]
             Q   == SetOf(behind(cut, i, r2))
  <2>1. i \in 1 .. Len(rs) /\ inside(rs[i], x)
    BY <1>3
  <2>2. split(rs, x) = behind(cut, i, r2)
    BY <1>3 DEF split
  <2> HIDE DEF i
  <2>3. /\ r1 \in RangesOf(K) /\ r2 \in RangesOf(K) /\ rs[i].begin < x /\ x < rs[i].end
        /\ r1.begin = rs[i].begin /\ r1.end = x /\ r1.active = rs[i].active
        /\ r2.begin = x /\ r2.end = rs[i].end /\ r2.active = rs[i].active
    BY <1>1, <2>1 DEF inside, RangesOf
  <2>4. /\ cut \in Seq(RangesOf(K)) /\ Len(cut) = Len(rs)
        /\ \A j \in 1 .. Len(rs) : cut[j] = IF j = i THEN r1 ELSE rs[j]
    <3>1. cut = [rs EXCEPT ![i] = r1]
      OBVIOUS
    <3> HIDE DEF cut, r1
    <3> QED
      BY <1>1, <2>1, <2>3, <3>1
  <2> HIDE DEF cut, r1, r2
  <2>5. Q = SetOf(cut) \cup {r2} /\ behind(cut, i, r2) \in Seq(RangesOf(K))
    BY <2>1, <2>3, <2>4, BehindSet, BehindFacts
  <2>6. SetOf(cut) = {cut[j] : j \in 1 .. Len(rs)}
    BY <2>4 DEF SetOf
  <2>7. r1 \in SetOf(cut) /\ \A q \in SetOf(cut) : q = r1 \/ q \in SetOf(rs)
    BY <1>1, <2>1, <2>4, <2>6
  <2>8. \A s \in SetOf(rs) : s = rs[i] \/ s \in SetOf(cut)
    BY <1>1, <2>1, <2>4, <2>6 DEF SetOf
  <2> HIDE DEF Q
  <2>9. Good(log, Q, n)
    <3>1. [rs[i] EXCEPT !.end = x] \in Q /\ [rs[i] EXCEPT !.begin = x] \in Q
      BY <2>5, <2>7 DEF r1, r2
    <3>2. \A q \in Q : q \in SetOf(rs) \/ q = [rs[i] EXCEPT !.end = x] \/ q = [rs[i] EXCEPT !.begin = x]
      BY <2>5, <2>7 DEF r1, r2
    <3>3. \A s \in SetOf(rs) : s = rs[i] \/ s \in Q
      BY <2>5, <2>8
    <3> QED
      BY <1>1, <2>1, <2>3, <3>1, <3>2, <3>3, SplitRangeGood
  <2>10. Apart(cut)
    BY <1>1, <2>1, <2>3, <2>4 DEF Apart
  <2>11. Apart(behind(cut, i, r2))
    <3>1. i \in 0 .. Len(cut)
      BY <1>1, <2>1, <2>4
    <3>2. ASSUME NEW j \in 1 .. Len(cut), j <= i PROVE cut[j].end <= r2.begin
      BY <1>1, <2>1, <2>3, <2>4, <3>2 DEF Apart
    <3>3. ASSUME NEW j \in 1 .. Len(cut), i < j PROVE r2.end <= cut[j].begin
      BY <1>1, <2>1, <2>3, <2>4, <3>3 DEF Apart
    <3>4. r2.begin < r2.end /\ \A j \in 1 .. Len(cut) : cut[j].begin < cut[j].end
      BY <1>1, <2>3, <2>4
    <3>5. cut \in Seq(RangesOf(K)) /\ r2 \in RangesOf(K)
      BY <2>3, <2>4
    <3> QED
      BY <2>10, <3>1, <3>2, <3>3, <3>4, <3>5, PlacedApart
  <2>12. ASSUME NEW q \in Q
         PROVE  /\ ~inside(q, x)
                /\ \E s \in SetOf(rs) : s.begin <= q.begin /\ q.end <= s.end /\ q.active = s.active
    <3>1. CASE q = r1 \/ q = r2
      BY <1>1, <2>1, <2>3, <3>1 DEF inside
    <3>2. CASE q # r1 /\ q # r2
      <4>1. PICK j \in 1 .. Len(rs) : q = rs[j] /\ j # i
        BY <2>4, <2>5, <2>6, <3>2
      <4>2. rs[j].end <= rs[i].begin \/ rs[i].end <= rs[j].begin
        BY <1>1, <2>1, <4>1 DEF Apart
      <4>3. ~inside(rs[j], x)
        <5>1. /\ rs[i].begin \in Int /\ rs[i].end \in Int /\ rs[j].begin \in Int /\ rs[j].end \in Int
              /\ rs[i].begin < x /\ x < rs[i].end
          BY <1>1, <2>1, <2>3
        <5>2. ~(rs[j].begin < x /\ x < rs[j].end)
          BY <4>2, <5>1
        <5> QED
          BY <5>2 DEF inside
      <4>4. rs[j] \in SetOf(rs) /\ rs[j].begin \in Int /\ rs[j].end \in Int
        BY <1>1
      <4> QED
        BY <4>1, <4>3, <4>4
    <3> QED
      BY <3>1, <3>2
  <2>13. ASSUME NEW a \in Int, Covered(SetOf(rs), a) PROVE Covered(Q, a)
    <3>1. PICK s \in SetOf(rs) : s.begin <= a /\ a < s.end
      BY <2>13 DEF Covered
    <3>2. CASE s \in SetOf(cut)
      BY <2>5, <3>1, <3>2 DEF Covered
    <3>3. CASE s = rs[i]
      <4>1. (r1.begin <= a /\ a < r1.end) \/ (r2.begin <= a /\ a < r2.end)
        BY <1>1, <2>1, <2>3, <3>1, <3>3
      <4> QED
        BY <2>5, <2>7, <4>1 DEF Covered
    <3> QED
      BY <2>8, <3>2, <3>3
  <2> QED
    BY <2>2, <2>5, <2>9, <2>11, <2>12, <2>13 DEF GoodRanges, Q
<1> QED
  BY <1>2, <1>3

-----------------------------------------------------------------------------
(* Ranges to which a module is added. *)

\* The active modules keep their order; the latest one is put last.
IsAdded(log, active, k, A) ==
  /\ A # <<>> /\ Len(A) = Len(active) + 1
  /\ \A i, j \in 1 .. Len(A) : i < j => log[A[i]].time <= log[A[j]].time
  /\ \A i \in 1 .. Len(A) : A[i] = k \/ \E j \in 1 .. Len(active) : A[i] = active[j]
  /\ \A j \in 1 .. Len(active) : \E i \in 1 .. Len(A) : A[i] = active[j]
  /\ \E i \in 1 .. Len(A) : A[i] = k
  /\ (\A j \in 1 .. Len(active) : log[active[j]].time <= log[k].time) =>
       /\ A[Len(active) + 1] = k
       /\ \A j \in 1 .. Len(active) : A[j] = active[j]

LEMMA AddedFacts ==
  ASSUME NEW log \in Seq(Loads), NEW K, K \subseteq 1 .. Len(log), NEW active \in Seq(K), NEW k \in K,
         \A i, j \in 1 .. Len(active) : i < j => log[active[i]].time <= log[active[j]].time
  PROVE  added(log, active, k) \in Seq(K) /\ IsAdded(log, active, k, added(log, active, k))
<1> DEFINE A == added(log, active, k)
           AsOld(m) == \A i \in 1 .. Len(active) : i <= m <=> log[active[i]].time <= log[k].time
           n == CHOOSE m \in 0 .. Len(active) : AsOld(m)
<1>1. /\ Len(active) \in Nat
      /\ \A i \in 1 .. Len(active) : active[i] \in K
  OBVIOUS
<1>2. log[k].time \in Int /\ \A i \in 1 .. Len(active) : log[active[i]].time \in Int
  <2>1. \A m \in K : log[m].time \in Int
    BY TimeFacts
  <2> QED
    BY <1>1, <2>1
<1>3. \E m \in 0 .. Len(active) : AsOld(m)
  <2> DEFINE f == [i \in 1 .. Len(active) |-> log[active[i]].time]
  <2>1. \A i \in 1 .. Len(active) : f[i] = log[active[i]].time
    OBVIOUS
  <2> HIDE DEF f
  <2>2. \E m \in 0 .. Len(active) : \A i \in 1 .. Len(active) : i <= m <=> f[i] <= log[k].time
    BY <1>1, <1>2, <2>1, Beginning
  <2> QED
    BY <2>1, <2>2
<1>4. n \in 0 .. Len(active) /\ AsOld(n)
  BY <1>3
<1>5. A = behind(active, n, k)
  BY DEF added
<1> HIDE DEF A, n
<1>6. /\ A \in Seq(K) /\ Len(A) = Len(active) + 1
      /\ \A i \in 1 .. Len(active) + 1 :
           A[i] = IF i <= n THEN active[i] ELSE IF i = n + 1 THEN k ELSE active[i - 1]
  <2>1. n \in 0 .. Len(active)
    BY <1>4
  <2>2. /\ behind(active, n, k) \in Seq(K) /\ Len(behind(active, n, k)) = Len(active) + 1
        /\ \A i \in 1 .. Len(active) + 1 :
             behind(active, n, k)[i] = IF i <= n THEN active[i] ELSE IF i = n + 1 THEN k ELSE active[i - 1]
    BY <2>1, BehindFacts
  <2> QED
    BY <2>2, <1>5
<1>7. A # <<>>
  <2>1. Len(A) # 0
    BY <1>1, <1>6
  <2> QED
    BY <2>1
<1>n. n \in Int /\ Len(A) \in Nat
  BY <1>1, <1>4, <1>6
<1>8. ASSUME NEW i \in 1 .. Len(A), NEW j \in 1 .. Len(A), i < j
      PROVE  log[A[i]].time <= log[A[j]].time
  <2>1. CASE j <= n
    <3>1. A[i] = active[i] /\ A[j] = active[j] /\ i \in 1 .. Len(active) /\ j \in 1 .. Len(active)
      BY <1>1, <1>4, <1>6, <1>8, <2>1
    <3> QED
      BY <1>8, <3>1
  <2>2. CASE j = n + 1
    <3>1. A[i] = active[i] /\ A[j] = k /\ i \in 1 .. Len(active) /\ i <= n
      BY <1>1, <1>4, <1>6, <1>8, <2>2
    <3> QED
      BY <1>4, <3>1
  <2>3. CASE j > n + 1
    <3>1. A[j] = active[j - 1] /\ j - 1 \in 1 .. Len(active) /\ n < j - 1
      BY <1>1, <1>4, <1>6, <1>8, <2>3
    <3>2. CASE i <= n
      <4>1. A[i] = active[i] /\ i \in 1 .. Len(active) /\ i < j - 1
        BY <1>1, <1>4, <1>6, <1>8, <2>3, <3>2
      <4> QED
        BY <3>1, <4>1
    <3>3. CASE i = n + 1
      <4>1. A[i] = k
        BY <1>1, <1>4, <1>6, <1>8, <3>3
      <4>2. ~(log[active[j - 1]].time <= log[k].time)
        BY <1>4, <3>1
      <4> QED
        BY <1>2, <3>1, <4>1, <4>2
    <3>4. CASE i > n + 1
      <4>1. A[i] = active[i - 1] /\ i - 1 \in 1 .. Len(active) /\ i - 1 < j - 1
        BY <1>1, <1>4, <1>6, <1>8, <3>4
      <4> QED
        BY <3>1, <4>1
    <3> QED
      BY <1>n, <3>2, <3>3, <3>4
  <2> QED
    BY <1>n, <2>1, <2>2, <2>3
<1>9. ASSUME NEW i \in 1 .. Len(A) PROVE A[i] = k \/ \E j \in 1 .. Len(active) : A[i] = active[j]
  <2>1. CASE i <= n
    BY <1>1, <1>4, <1>6, <2>1, i \in 1 .. Len(active)
  <2>2. CASE i = n + 1
    BY <1>1, <1>4, <1>6, <2>2
  <2>3. CASE i > n + 1
    BY <1>1, <1>4, <1>6, <2>3, i - 1 \in 1 .. Len(active)
  <2> QED
    BY <1>4, <2>1, <2>2, <2>3
<1>10. ASSUME NEW j \in 1 .. Len(active) PROVE \E i \in 1 .. Len(A) : A[i] = active[j]
  <2>1. CASE j <= n
    BY <1>1, <1>4, <1>6, <2>1, j \in 1 .. Len(A)
  <2>2. CASE j > n
    <3>1. j + 1 \in 1 .. Len(A) /\ A[j + 1] = active[(j + 1) - 1] /\ (j + 1) - 1 = j
      BY <1>1, <1>4, <1>6, <2>2
    <3> QED
      BY <3>1
  <2> QED
    BY <1>4, <2>1, <2>2
<1>11. \E i \in 1 .. Len(A) : A[i] = k
  <2>1. n + 1 \in 1 .. Len(A) /\ A[n + 1] = k
    BY <1>1, <1>4, <1>6
  <2> QED
    BY <2>1
<1>12. ASSUME \A j \in 1 .. Len(active) : log[active[j]].time <= log[k].time
       PROVE  A[Len(active) + 1] = k /\ \A j \in 1 .. Len(active) : A[j] = active[j]
  <2>1. n = Len(active)
    <3>1. CASE Len(active) = 0
      BY <1>4, <3>1
    <3>2. CASE Len(active) # 0
      <4>1. Len(active) \in 1 .. Len(active)
        BY <1>1, <3>2
      <4>2. Len(active) <= n
        BY <1>4, <1>12, <4>1
      <4> QED
        BY <1>1, <1>4, <4>2
    <3> QED
      BY <3>1, <3>2
  <2>2. Len(active) + 1 \in 1 .. Len(active) + 1 /\ ~(Len(active) + 1 <= Len(active))
    BY <1>1
  <2>3. A[Len(active) + 1] = k
    BY <1>6, <2>1, <2>2
  <2>4. ASSUME NEW j \in 1 .. Len(active) PROVE A[j] = active[j]
    <3>1. j \in 1 .. Len(active) + 1 /\ j <= n
      BY <1>1, <2>1
    <3> QED
      BY <1>6, <3>1
  <2> QED
    BY <2>3, <2>4
<1> QED
  BY <1>6, <1>7, <1>8, <1>9, <1>10, <1>11, <1>12 DEF A, IsAdded

\* A range is as it was, or module k, which covers it and is the latest in the log, is added.
Grown(log, r, k, q) == q = r \/ q = [r EXCEPT !.active = added(log, r.active, k)]

LEMMA GrownRangesGood ==
  ASSUME NEW log \in Seq(Loads), NEW K, K \subseteq 1 .. Len(log), NEW n \in 0 .. Len(log),
         NEW R \in SUBSET RangesOf(K), Good(log, R, n),
         NEW k \in K, n < k, NEW Q,
         \A q \in Q : \E r \in R :
           /\ Grown(log, r, k, q)
           /\ q # r => /\ log[k].base <= r.begin /\ r.end <= log[k].end
                       /\ \A i \in 1 .. Len(r.active) : r.active[i] < k,
         \A r \in R : \E q \in Q : Grown(log, r, k, q)
  PROVE  Good(log, Q, n)
<1> DEFINE more(r) == [r EXCEPT !.active = added(log, r.active, k)]
<1>1. \A r \in R : /\ r \in RangesOf(K) /\ Fits(log, r)
                   /\ r.active \in Seq(K)
  BY ModuleFacts DEF Good
<1>2. ASSUME NEW r \in R
      PROVE  more(r).begin = r.begin /\ more(r).end = r.end /\ more(r).active = added(log, r.active, k)
  BY <1>1 DEF RangesOf
<1>3. ASSUME NEW r \in R PROVE IsAdded(log, r.active, k, more(r).active)
  <2>1. \A i, j \in 1 .. Len(r.active) : i < j => log[r.active[i]].time <= log[r.active[j]].time
    BY <1>1 DEF Fits
  <2>2. r.active \in Seq(K)
    BY <1>1
  <2>3. IsAdded(log, r.active, k, added(log, r.active, k))
    BY <2>1, <2>2, AddedFacts
  <2> QED
    BY <1>2, <2>3
<1>4. ASSUME NEW q \in Q
      PROVE  \E r \in R : /\ q.begin = r.begin /\ q.end = r.end
                          /\ \A j \in 1 .. Len(r.active) : \E i \in 1 .. Len(q.active) : q.active[i] = r.active[j]
  <2>1. PICK r \in R : q = r \/ q = more(r)
    BY DEF Grown
  <2>2. \A j \in 1 .. Len(r.active) : \E i \in 1 .. Len(more(r).active) : more(r).active[i] = r.active[j]
    BY <1>3 DEF IsAdded
  <2>3. /\ q.begin = r.begin /\ q.end = r.end
        /\ \A j \in 1 .. Len(r.active) : \E i \in 1 .. Len(q.active) : q.active[i] = r.active[j]
    <3>1. CASE q = r
      BY <3>1
    <3>2. CASE q = more(r)
      BY <1>2, <2>2, <3>2
    <3> QED
      BY <2>1, <3>1, <3>2
  <2> QED
    BY <2>3
<1>5. ASSUME NEW r \in R
      PROVE  \E q \in Q : q.begin = r.begin /\ q.end = r.end
  BY <1>2 DEF Grown
<1>6. ASSUME NEW q \in Q PROVE Fits(log, q)
  <2>1. PICK r \in R :
           /\ Grown(log, r, k, q)
           /\ q # r => log[k].base <= r.begin /\ r.end <= log[k].end
    OBVIOUS
  <2>2. CASE q = r
    BY <1>1, <2>2
  <2>3. CASE q = more(r) /\ q # r
    <3>1. q.begin < q.end
      BY <1>1, <1>2, <2>3 DEF Fits
    <3>2. ASSUME NEW i \in 1 .. Len(q.active)
          PROVE  log[q.active[i]].base <= q.begin /\ q.end <= log[q.active[i]].end
      <4>1. q.active[i] = k \/ \E j \in 1 .. Len(r.active) : q.active[i] = r.active[j]
        BY <1>3, <2>3 DEF IsAdded
      <4>2. \A j \in 1 .. Len(r.active) : log[r.active[j]].base <= r.begin /\ r.end <= log[r.active[j]].end
        BY <1>1 DEF Fits
      <4> QED
        BY <1>2, <2>1, <2>3, <4>1, <4>2
    <3>3. IsAdded(log, r.active, k, q.active)
      BY <1>3, <2>3
    <3> QED
      BY <3>1, <3>2, <3>3 DEF Fits, IsAdded
  <2> QED
    BY <2>1, <2>2, <2>3 DEF Grown
<1>7. Edges(log, Q)
  <2>1. ASSUME NEW q \in Q
        PROVE  /\ \/ \E t \in Q : t.begin = q.end
                  \/ \E i \in 1 .. Len(q.active) : log[q.active[i]].end = q.end
               /\ \/ \E t \in Q : t.end = q.begin
                  \/ \E i \in 1 .. Len(q.active) : log[q.active[i]].base = q.begin
    <3>1. PICK r \in R :
             /\ q.begin = r.begin /\ q.end = r.end
             /\ \A j \in 1 .. Len(r.active) : \E i \in 1 .. Len(q.active) : q.active[i] = r.active[j]
      BY <1>4
    <3>2. /\ \/ \E t \in R : t.begin = r.end
             \/ \E i \in 1 .. Len(r.active) : log[r.active[i]].end = r.end
          /\ \/ \E t \in R : t.end = r.begin
             \/ \E i \in 1 .. Len(r.active) : log[r.active[i]].base = r.begin
      BY DEF Good, Edges
    <3>3. (\E t \in R : t.begin = r.end) => \E t \in Q : t.begin = q.end
      BY <1>5, <3>1
    <3>4. (\E t \in R : t.end = r.begin) => \E t \in Q : t.end = q.begin
      BY <1>5, <3>1
    <3> QED
      BY <3>1, <3>2, <3>3, <3>4
  <2> QED
    BY <2>1 DEF Edges
<1>8. ASSUME InOrder(log) PROVE (\A q \in Q : Increasing(q.active)) /\ Latest(log, Q, n)
  <2>1. (\A r \in R : Increasing(r.active)) /\ Latest(log, R, n)
    BY <1>8 DEF Good
  <2>2. ASSUME NEW q \in Q
        PROVE  /\ Increasing(q.active)
               /\ \A m \in 1 .. n : Meets(log, q, m) => Known(log, q.active, m)
    <3>1. PICK r \in R :
             /\ Grown(log, r, k, q)
             /\ q # r => \A i \in 1 .. Len(r.active) : r.active[i] < k
      OBVIOUS
    <3>2. CASE q = r
      BY <2>1, <3>2 DEF Latest
    <3>3. CASE q = more(r) /\ q # r
      <4> DEFINE A == q.active
                 s == r.active
      <4>1. /\ Len(s) \in Nat
            /\ \A j \in 1 .. Len(s) : s[j] \in Int /\ s[j] < k /\ s[j] \in 1 .. Len(log)
            /\ k \in 1 .. Len(log)
        BY <1>1, <3>1, <3>3, ModuleFacts
      <4>2. \A j \in 1 .. Len(s) : log[s[j]].time <= log[k].time
        BY <1>8, <4>1 DEF InOrder
      <4>3. /\ Len(A) = Len(s) + 1 /\ A[Len(s) + 1] = k
            /\ \A j \in 1 .. Len(s) : A[j] = s[j]
        BY <1>3, <3>3, <4>2 DEF IsAdded
      <4>4. Increasing(s) /\ \A m \in 1 .. n : Meets(log, r, m) => Known(log, s, m)
        BY <2>1 DEF Latest
      <4>5. \A m \in 1 .. n : Meets(log, q, m) => Meets(log, r, m)
        BY <1>2, <3>3 DEF Meets
      <4> HIDE DEF A, s
      <4>6. ASSUME NEW i \in 1 .. Len(A), NEW j \in 1 .. Len(A), i < j PROVE A[i] < A[j]
        <5>1. i \in 1 .. Len(s) /\ A[i] = s[i]
          BY <4>1, <4>3, <4>6
        <5>2. CASE j = Len(s) + 1
          BY <4>1, <4>3, <5>1, <5>2
        <5>3. CASE j # Len(s) + 1
          <6>1. j \in 1 .. Len(s) /\ A[j] = s[j]
            BY <4>1, <4>3, <5>3
          <6> QED
            BY <4>4, <4>6, <5>1, <6>1 DEF Increasing
        <5> QED
          BY <5>2, <5>3
      <4>7. ASSUME NEW m \in 1 .. n, Known(log, s, m) PROVE Known(log, A, m)
        <5>1. \A j \in 1 .. Len(s) : j \in 1 .. Len(A)
          BY <4>1, <4>3
        <5>2. CASE \E i \in 1 .. Len(s) : s[i] = m
          BY <4>3, <5>1, <5>2 DEF Known
        <5>3. CASE ~\E i \in 1 .. Len(s) : s[i] = m
          <6>1. ASSUME NEW i \in 1 .. Len(A), A[i] < m, \A j \in 1 .. Len(A) : A[j] < m => A[j] <= A[i]
                PROVE  log[A[i]].payload = log[m].payload
            <7>1. i # Len(s) + 1
              BY <4>1, <4>3, <6>1
            <7>2. i \in 1 .. Len(s) /\ A[i] = s[i]
              BY <4>1, <4>3, <7>1
            <7>3. \A j \in 1 .. Len(s) : s[j] < m => s[j] <= s[i]
              BY <4>3, <5>1, <6>1, <7>2
            <7> QED
              BY <4>7, <5>3, <6>1, <7>2, <7>3 DEF Known
          <6> QED
            BY <6>1 DEF Known
        <5> QED
          BY <5>2, <5>3
      <4> QED
        BY <4>4, <4>5, <4>6, <4>7 DEF Increasing, A
    <3> QED
      BY <3>1, <3>2, <3>3 DEF Grown
  <2> QED
    BY <2>2 DEF Latest
<1>9. MissedBeside(log, Q, n)
  <2>1. \A a \in Int : Covered(R, a) => Covered(Q, a)
    BY <1>5 DEF Covered
  <2> QED
    BY <2>1 DEF Good, MissedBeside
<1> QED
  BY <1>6, <1>7, <1>8, <1>9 DEF Good

LEMMA ActivatedGoodRanges ==
  ASSUME NEW log \in Seq(Loads), NEW K, K \subseteq 1 .. Len(log), NEW n \in 0 .. Len(log),
         NEW rs, GoodRanges(log, rs, n, K), NEW k \in K, n < k,
         NEW b \in Int, NEW e \in Int, log[k].base <= b, e <= log[k].end,
         \A r \in SetOf(rs) : b <= r.begin /\ r.end <= e => \A i \in 1 .. Len(r.active) : r.active[i] < k
  PROVE  /\ GoodRanges(log, activated(log, rs, b, e, k), n, K)
         /\ \A q \in SetOf(activated(log, rs, b, e, k)) :
              \E r \in SetOf(rs) :
                /\ q.begin = r.begin /\ q.end = r.end
                /\ IF b <= r.begin /\ r.end <= e THEN \E i \in 1 .. Len(q.active) : q.active[i] = k
                                                 ELSE q = r
         /\ \A a \in Int : Covered(SetOf(rs), a) => Covered(SetOf(activated(log, rs, b, e, k)), a)
<1> DEFINE t == activated(log, rs, b, e, k)
           Q == SetOf(t)
           more(r) == [r EXCEPT !.active = added(log, r.active, k)]
<1>1. /\ rs \in Seq(RangesOf(K)) /\ Apart(rs) /\ SetOf(rs) \in SUBSET RangesOf(K) /\ Len(rs) \in Nat
      /\ \A i \in 1 .. Len(rs) :
           /\ rs[i] \in RangesOf(K) /\ rs[i] \in SetOf(rs) /\ Fits(log, rs[i]) /\ rs[i].active \in Seq(K)
           /\ rs[i].begin \in Int /\ rs[i].end \in Int
      /\ Good(log, SetOf(rs), n)
  BY GoodFacts DEF GoodRanges
<1>2. ASSUME NEW i \in 1 .. Len(rs)
      PROVE  /\ more(rs[i]) \in RangesOf(K)
             /\ more(rs[i]).begin = rs[i].begin /\ more(rs[i]).end = rs[i].end
             /\ IsAdded(log, rs[i].active, k, more(rs[i]).active)
  <2>1. \A x, y \in 1 .. Len(rs[i].active) : x < y => log[rs[i].active[x]].time <= log[rs[i].active[y]].time
    BY <1>1 DEF Fits
  <2>2. rs[i].active \in Seq(K)
    BY <1>1
  <2>3. /\ added(log, rs[i].active, k) \in Seq(K)
        /\ IsAdded(log, rs[i].active, k, added(log, rs[i].active, k))
    BY <2>1, <2>2, AddedFacts
  <2>4. rs[i] \in RangesOf(K)
    BY <1>1
  <2>5. more(rs[i]) = [begin |-> rs[i].begin, end |-> rs[i].end, active |-> added(log, rs[i].active, k)]
    BY <2>4 DEF RangesOf
  <2>6. rs[i].begin \in Int /\ rs[i].end \in Int
    BY <1>1
  <2> HIDE DEF more
  <2>7. more(rs[i]) \in RangesOf(K)
    BY <2>3, <2>5, <2>6 DEF RangesOf
  <2>8. /\ more(rs[i]).begin = rs[i].begin /\ more(rs[i]).end = rs[i].end
        /\ more(rs[i]).active = added(log, rs[i].active, k)
    BY <2>5
  <2> QED
    BY <2>3, <2>7, <2>8
<1>3. t = [i \in 1 .. Len(rs) |-> IF b <= rs[i].begin /\ rs[i].end <= e THEN more(rs[i]) ELSE rs[i]]
  BY DEF activated
<1> HIDE DEF t, more
<1>4. /\ t \in Seq(RangesOf(K)) /\ Len(t) = Len(rs)
      /\ \A i \in 1 .. Len(rs) : t[i] = IF b <= rs[i].begin /\ rs[i].end <= e THEN more(rs[i]) ELSE rs[i]
  <2>1. t \in [1 .. Len(rs) -> RangesOf(K)]
    BY <1>1, <1>2, <1>3
  <2>2. Len(rs) \in Nat
    BY <1>1
  <2>3. t \in Seq(RangesOf(K)) /\ Len(t) = Len(rs)
    BY <2>1, <2>2
  <2> QED
    BY <1>3, <2>3
<1>5. \A i \in 1 .. Len(rs) : t[i].begin = rs[i].begin /\ t[i].end = rs[i].end
  BY <1>2, <1>4
<1>6. Apart(t)
  BY <1>1, <1>4, <1>5 DEF Apart
<1>7. \A i \in 1 .. Len(rs) : Grown(log, rs[i], k, t[i])
  BY <1>4 DEF Grown, more
<1>8. Q = {t[i] : i \in 1 .. Len(rs)} /\ SetOf(rs) = {rs[i] : i \in 1 .. Len(rs)}
  BY <1>4 DEF SetOf
<1> HIDE DEF Q
<1>9. Good(log, Q, n)
  <2>1. ASSUME NEW q \in Q
        PROVE  \E r \in SetOf(rs) :
                 /\ Grown(log, r, k, q)
                 /\ q # r => /\ log[k].base <= r.begin /\ r.end <= log[k].end
                             /\ \A i \in 1 .. Len(r.active) : r.active[i] < k
    <3>1. PICK i \in 1 .. Len(rs) : q = t[i]
      BY <1>8
    <3>2. CASE b <= rs[i].begin /\ rs[i].end <= e
      <4>1. log[k].base <= rs[i].begin /\ rs[i].end <= log[k].end
        <5>1. log[k].base \in Int /\ log[k].end \in Int /\ rs[i].begin \in Int /\ rs[i].end \in Int
          BY <1>1, ModuleFacts
        <5> QED
          BY <3>2, <5>1
      <4> QED
        BY <1>1, <1>7, <3>1, <3>2, <4>1
    <3>3. CASE ~(b <= rs[i].begin /\ rs[i].end <= e)
      BY <1>1, <1>4, <1>7, <3>1, <3>3
    <3> QED
      BY <3>2, <3>3
  <2>2. \A r \in SetOf(rs) : \E q \in Q : Grown(log, r, k, q)
    BY <1>7, <1>8
  <2> QED
    BY <1>1, <2>1, <2>2, GrownRangesGood
<1>10. ASSUME NEW q \in Q
       PROVE  \E r \in SetOf(rs) :
                /\ q.begin = r.begin /\ q.end = r.end
                /\ IF b <= r.begin /\ r.end <= e THEN \E i \in 1 .. Len(q.active) : q.active[i] = k
                                                 ELSE q = r
  <2>1. PICK i \in 1 .. Len(rs) : q = t[i]
    BY <1>8
  <2>2. CASE b <= rs[i].begin /\ rs[i].end <= e
    <3>1. \E j \in 1 .. Len(q.active) : q.active[j] = k
      BY <1>2, <1>4, <2>1, <2>2 DEF IsAdded
    <3> QED
      BY <1>1, <1>5, <2>1, <2>2, <3>1
  <2>3. CASE ~(b <= rs[i].begin /\ rs[i].end <= e)
    BY <1>1, <1>4, <2>1, <2>3
  <2> QED
    BY <2>2, <2>3
<1>11. \A a \in Int : Covered(SetOf(rs), a) => Covered(Q, a)
  BY <1>5, <1>8 DEF Covered
<1> QED
  BY <1>4, <1>6, <1>9, <1>10, <1>11 DEF GoodRanges, Q, t

-----------------------------------------------------------------------------
(* insert() *)

\* Module k, the latest in the log, counts as inserted.
LEMMA OneMore ==
  ASSUME NEW log \in Seq(Loads), NEW R, NEW k \in 1 .. Len(log), Good(log, R, k - 1),
         InOrder(log) => \A r \in R : Meets(log, r, k) => Known(log, r.active, k),
         \A a \in Int : log[k].base <= a /\ a < log[k].end => Covered(R, a) \/ Beside(log, k, a)
  PROVE  Good(log, R, k)
<1>1. k \in Nat /\ \A m \in 1 .. k : m = k \/ m \in 1 .. k - 1
  OBVIOUS
<1>2. ASSUME InOrder(log) PROVE Latest(log, R, k)
  BY <1>1, <1>2 DEF Good, Latest
<1>3. MissedBeside(log, R, k)
  BY <1>1 DEF Good, MissedBeside
<1> QED
  BY <1>2, <1>3 DEF Good

\* The total range has been enlarged; the rest of module k, from b to e, lies inside of it.
Inside(log, rs, b, e, k, K) ==
  /\ GoodRanges(log, rs, k - 1, K)
  /\ b \in Int /\ e \in Int /\ log[k].base <= b /\ b < e /\ e <= log[k].end
  /\ \A r \in SetOf(rs) :
       \/ r.active = <<k>> /\ (r.end <= b \/ e <= r.begin)
       \/ /\ \A i \in 1 .. Len(r.active) : r.active[i] < k
          /\ r.end <= b => r.end <= log[k].base
          /\ e <= r.begin => log[k].end <= r.begin
  /\ \A a \in Int :
       (log[k].base <= a /\ a < b) \/ (e <= a /\ a < log[k].end) => Covered(SetOf(rs), a)
  /\ b = log[k].base \/ \E s \in SetOf(rs) : s.end = b
  /\ e = log[k].end \/ \E s \in SetOf(rs) : s.begin = e

LEMMA InsideFacts ==
  ASSUME NEW log \in Seq(Loads), NEW k \in 1 .. Len(log), NEW K, K \subseteq 1 .. k, k \in K,
         NEW rs, NEW b, NEW e, Inside(log, rs, b, e, k, K)
  PROVE  /\ GoodRanges(log, rs, k - 1, K) /\ Good(log, SetOf(rs), k - 1)
         /\ rs \in Seq(RangesOf(K)) /\ Apart(rs) /\ Len(rs) \in Nat
         /\ SetOf(rs) = {rs[i] : i \in 1 .. Len(rs)}
         /\ \A i \in 1 .. Len(rs) :
              /\ rs[i] \in SetOf(rs) /\ Fits(log, rs[i])
              /\ rs[i].begin \in Int /\ rs[i].end \in Int /\ rs[i].begin < rs[i].end
         /\ \A r \in SetOf(rs) :
              /\ r.begin \in Int /\ r.end \in Int /\ r.begin < r.end /\ Fits(log, r)
              /\ \A i \in 1 .. Len(r.active) : r.active[i] \in K /\ r.active[i] \in 1 .. Len(log)
         /\ log[k].base \in Int /\ log[k].end \in Int /\ b \in Int /\ e \in Int
         /\ log[k].base <= b /\ b < e /\ e <= log[k].end
         /\ K \subseteq 1 .. Len(log) /\ k - 1 \in 0 .. Len(log) /\ k - 1 < k /\ K \subseteq Int
<1>1. GoodRanges(log, rs, k - 1, K)
  BY DEF Inside
<1>2. K \subseteq 1 .. Len(log) /\ k - 1 \in 0 .. Len(log) /\ k - 1 < k /\ K \subseteq Int
  <2>1. Len(log) \in Nat
    BY ModuleFacts
  <2> QED
    BY <2>1
<1>3. /\ \A i \in 1 .. Len(rs) :
           /\ rs[i] \in SetOf(rs) /\ Fits(log, rs[i])
           /\ rs[i].begin \in Int /\ rs[i].end \in Int /\ rs[i].begin < rs[i].end
      /\ Len(rs) \in Nat
      /\ \A r \in SetOf(rs) : r \in RangesOf(K) /\ r.begin \in Int /\ r.end \in Int
  BY <1>1, GoodFacts
<1>4. \A r \in SetOf(rs) : \A i \in 1 .. Len(r.active) : r.active[i] \in K /\ r.active[i] \in 1 .. Len(log)
  BY <1>2, <1>3, ModuleFacts
<1>5. \A r \in SetOf(rs) : r.begin < r.end /\ Fits(log, r)
  BY <1>3 DEF SetOf
<1>6. log[k].base \in Int /\ log[k].end \in Int
  BY <1>2, ModuleFacts
<1>7. SetOf(rs) = {rs[i] : i \in 1 .. Len(rs)}
  BY DEF SetOf
<1>8. /\ rs \in Seq(RangesOf(K)) /\ Apart(rs) /\ Good(log, SetOf(rs), k - 1)
  BY <1>1 DEF GoodRanges
<1>9. b \in Int /\ e \in Int /\ log[k].base <= b /\ b < e /\ e <= log[k].end
  BY DEF Inside
<1> QED
  BY <1>1, <1>2, <1>3, <1>4, <1>5, <1>6, <1>7, <1>8, <1>9

\* The module fits between two ranges.
LEMMA BetweenGood ==
  ASSUME NEW log \in Seq(Loads), NEW k \in 1 .. Len(log), NEW K, K \subseteq 1 .. k, k \in K,
         NEW rs, NEW b, NEW e, Inside(log, rs, b, e, k, K),
         \A i \in 1 .. Len(rs) : rs[i].end <= b \/ e <= rs[i].begin
  PROVE  GoodRanges(log, between(rs, b, e, k), k, K)
<1> DEFINE Before(m) == \A i \in 1 .. Len(rs) : i <= m <=> rs[i].begin < e
           n   == CHOOSE m \in 0 .. Len(rs) : Before(m)
           new == NewRange(b, e, k)
           t   == behind(rs, n, new)
<1>1. /\ GoodRanges(log, rs, k - 1, K) /\ Apart(rs) /\ Len(rs) \in Nat
      /\ \A i \in 1 .. Len(rs) : rs[i].begin \in Int /\ rs[i].end \in Int /\ rs[i].begin < rs[i].end
      /\ log[k].base \in Int /\ log[k].end \in Int /\ b \in Int /\ e \in Int
      /\ log[k].base <= b /\ b < e /\ e <= log[k].end
      /\ K \subseteq 1 .. Len(log) /\ k - 1 \in 0 .. Len(log) /\ k - 1 < k /\ K \subseteq Int
  BY InsideFacts
<1>2. \E m \in 0 .. Len(rs) : Before(m)
  <2> DEFINE f == [i \in 1 .. Len(rs) |-> rs[i].begin]
  <2>1. \A i \in 1 .. Len(rs) : f[i] = rs[i].begin
    OBVIOUS
  <2> HIDE DEF f
  <2>2. ASSUME NEW i \in 1 .. Len(rs), NEW j \in 1 .. Len(rs), i < j PROVE f[i] <= f[j]
    <3>1. rs[i].end <= rs[j].begin
      BY <1>1, <2>2 DEF Apart
    <3>2. rs[i].begin \in Int /\ rs[i].end \in Int /\ rs[j].begin \in Int /\ rs[i].begin < rs[i].end
      BY <1>1
    <3>3. rs[i].begin <= rs[j].begin
      BY <3>1, <3>2
    <3>4. f[i] = rs[i].begin /\ f[j] = rs[j].begin
      BY <2>1
    <3> QED
      BY <3>3, <3>4
  <2>3. (\A i \in 1 .. Len(rs) : f[i] \in Int) /\ e - 1 \in Int
    <3>1. ASSUME NEW i \in 1 .. Len(rs) PROVE f[i] \in Int
      <4>1. f[i] = rs[i].begin /\ rs[i].begin \in Int
        BY <1>1, <2>1
      <4> QED
        BY <4>1
    <3>2. e - 1 \in Int
      BY <1>1
    <3> QED
      BY <3>1, <3>2
  <2>4. \E m \in 0 .. Len(rs) : \A i \in 1 .. Len(rs) : i <= m <=> f[i] <= e - 1
    <3>1. Len(rs) \in Nat
      BY <1>1
    <3> QED
      BY <2>2, <2>3, <3>1, Beginning
  <2>5. ASSUME NEW i \in 1 .. Len(rs) PROVE f[i] <= e - 1 <=> rs[i].begin < e
    <3>1. f[i] = rs[i].begin /\ rs[i].begin \in Int /\ e \in Int
      BY <1>1, <2>1
    <3> QED
      BY <3>1
  <2> QED
    BY <2>4, <2>5
<1>3. n \in 0 .. Len(rs) /\ Before(n)
  BY <1>2
<1>4. between(rs, b, e, k) = t
  BY DEF between
<1> HIDE DEF n
<1>5. \A i \in 1 .. Len(rs) : i <= n => rs[i].end <= b
  BY <1>1, <1>3
<1>6. \A i \in 1 .. Len(rs) : n < i => e <= rs[i].begin
  BY <1>1, <1>3
<1>7. GoodRanges(log, t, k - 1, K)
  <2>1. b = log[k].base \/ \E s \in SetOf(rs) : s.end = b
    BY DEF Inside
  <2>2. e = log[k].end \/ \E s \in SetOf(rs) : s.begin = e
    BY DEF Inside
  <2>3. k - 1 \in Nat /\ n \in 0 .. Len(rs)
    BY <1>3
  <2> QED
    BY <1>1, <1>5, <1>6, <2>1, <2>2, <2>3, NewRangeGoodRanges
<1>8. new \in RangesOf(K) /\ new.begin = b /\ new.end = e /\ new.active = <<k>>
  BY <1>1 DEF NewRange, RangesOf
<1> HIDE DEF new
<1>9. SetOf(t) = SetOf(rs) \cup {new}
  <2>1. rs \in Seq(RangesOf(K)) /\ n \in 0 .. Len(rs)
    BY <1>1, <1>3 DEF GoodRanges
  <2> QED
    BY <1>8, <2>1, BehindSet
<1> HIDE DEF t
<1>10. \A r \in SetOf(t) : Meets(log, r, k) => Known(log, r.active, k)
  <2>1. Known(log, <<k>>, k)
    BY DEF Known
  <2>2. ASSUME NEW r \in SetOf(rs), Meets(log, r, k) PROVE r.active = <<k>>
    <3>1. r.end <= b \/ e <= r.begin
      BY DEF SetOf
    <3>2. r.begin \in Int /\ r.end \in Int
      BY InsideFacts
    <3> QED
      BY <1>1, <2>2, <3>1, <3>2 DEF Inside, Meets
  <2> QED
    BY <1>8, <1>9, <2>1, <2>2
<1>11. ASSUME NEW a \in Int, log[k].base <= a, a < log[k].end PROVE Covered(SetOf(t), a)
  <2>1. CASE b <= a /\ a < e
    BY <1>8, <1>9, <2>1 DEF Covered
  <2>2. CASE ~(b <= a /\ a < e)
    <3>1. Covered(SetOf(rs), a)
      BY <1>1, <1>11, <2>2 DEF Inside
    <3> QED
      BY <1>9, <3>1 DEF Covered
  <2> QED
    BY <2>1, <2>2
<1>12. Good(log, SetOf(t), k)
  BY <1>7, <1>10, <1>11, OneMore DEF GoodRanges
<1> QED
  BY <1>4, <1>7, <1>12 DEF GoodRanges

\* The same module once more.
LEMMA SameModuleGood ==
  ASSUME NEW log \in Seq(Loads), NEW k \in 1 .. Len(log), NEW K, K \subseteq 1 .. k, k \in K,
         NEW rs, NEW b, NEW e, Inside(log, rs, b, e, k, K), same_module(log, rs, k)
  PROVE  GoodRanges(log, rs, k, K)
<1>1. /\ GoodRanges(log, rs, k - 1, K) /\ Apart(rs) /\ Good(log, SetOf(rs), k - 1)
      /\ SetOf(rs) = {rs[i] : i \in 1 .. Len(rs)}
      /\ \A i \in 1 .. Len(rs) :
           /\ rs[i] \in SetOf(rs) /\ Fits(log, rs[i])
           /\ rs[i].begin \in Int /\ rs[i].end \in Int /\ rs[i].begin < rs[i].end
      /\ log[k].base \in Int /\ log[k].end \in Int /\ b \in Int /\ e \in Int
      /\ log[k].base <= b /\ b < e /\ e <= log[k].end
  BY InsideFacts
<1>2. PICK i \in 1 .. Len(rs) :
         /\ rs[i].begin = log[k].base /\ rs[i].end = log[k].end
         /\ log[Last(rs[i].active)].payload = log[k].payload
  BY DEF same_module
<1> DEFINE active == rs[i].active
<1>3. /\ active # <<>> /\ \A j \in 1 .. Len(active) : active[j] < k /\ active[j] \in Int
      /\ active \in Seq(K)
  <2>1. active # <<>>
    BY <1>1 DEF Fits
  <2>2. ~(rs[i].end <= b \/ e <= rs[i].begin)
    BY <1>1, <1>2
  <2>3. \A j \in 1 .. Len(active) : active[j] < k
    BY <1>1, <2>2 DEF Inside
  <2>4. \A j \in 1 .. Len(active) : active[j] \in 1 .. Len(log)
    BY <1>1, InsideFacts
  <2>5. active \in Seq(K)
    BY <1>1, GoodFacts
  <2> QED
    BY <2>1, <2>3, <2>4, <2>5
<1>4. ASSUME NEW r \in SetOf(rs), Meets(log, r, k) PROVE r = rs[i]
  <2>1. PICK j \in 1 .. Len(rs) : r = rs[j]
    BY <1>1
  <2>2. j = i
    <3>1. j < i => rs[j].end <= rs[i].begin
      BY <1>1 DEF Apart
    <3>2. i < j => rs[i].end <= rs[j].begin
      BY <1>1 DEF Apart
    <3>3. /\ rs[j].begin \in Int /\ rs[j].end \in Int
          /\ rs[i].begin < rs[j].end /\ rs[j].begin < rs[i].end
      BY <1>1, <1>2, <1>4, <2>1 DEF Meets
    <3>4. rs[i].begin \in Int /\ rs[i].end \in Int
      BY <1>1
    <3>5. ~(j < i) /\ ~(i < j)
      BY <3>1, <3>2, <3>3, <3>4
    <3> QED
      BY <3>5
  <2> QED
    BY <2>1, <2>2
<1>5. ASSUME InOrder(log) PROVE Known(log, active, k)
  <2>1. Increasing(active)
    BY <1>1, <1>5 DEF Good
  <2>2. Len(active) \in Nat /\ Len(active) \in 1 .. Len(active) /\ Last(active) = active[Len(active)]
    BY <1>3 DEF Last
  <2>3. ASSUME NEW j \in 1 .. Len(active), \A m \in 1 .. Len(active) : active[m] < k => active[m] <= active[j]
        PROVE  j = Len(active)
    <3>1. active[Len(active)] <= active[j] /\ active[Len(active)] \in Int /\ active[j] \in Int
      BY <1>3, <2>2, <2>3
    <3>2. j < Len(active) => active[j] < active[Len(active)]
      BY <2>1, <2>2 DEF Increasing
    <3> QED
      BY <2>2, <3>1, <3>2
  <2> QED
    BY <1>2, <2>2, <2>3 DEF Known
<1>6. ASSUME NEW a \in Int, log[k].base <= a, a < log[k].end PROVE Covered(SetOf(rs), a)
  BY <1>1, <1>2, <1>6 DEF Covered
<1>7. InOrder(log) => \A r \in SetOf(rs) : Meets(log, r, k) => Known(log, r.active, k)
  BY <1>4, <1>5
<1>8. Good(log, SetOf(rs), k)
  BY <1>1, <1>6, <1>7, OneMore
<1> QED
  BY <1>1, <1>8 DEF GoodRanges

\* The gaps between ranges that the module is inserted over stay gaps.
LEMMA GapsBeside ==
  ASSUME NEW log \in Seq(Loads), NEW k \in 1 .. Len(log), NEW K, K \subseteq 1 .. k, k \in K,
         NEW rs, NEW b, NEW e, Inside(log, rs, b, e, k, K),
         NEW o \in 1 .. Len(rs), rs[o].begin < e, b < rs[o].end,
         NEW a \in Int, b <= a, a < e, ~Covered(SetOf(rs), a)
  PROVE  Beside(log, k, a)
<1>1. /\ Apart(rs) /\ Good(log, SetOf(rs), k - 1) /\ Len(rs) \in Nat
      /\ SetOf(rs) = {rs[i] : i \in 1 .. Len(rs)}
      /\ \A i \in 1 .. Len(rs) :
           /\ rs[i] \in SetOf(rs) /\ Fits(log, rs[i])
           /\ rs[i].begin \in Int /\ rs[i].end \in Int /\ rs[i].begin < rs[i].end
  BY InsideFacts
<1>2. ASSUME NEW i \in 1 .. Len(rs) PROVE rs[i].end <= a \/ a < rs[i].begin
  <2>1. rs[i] \in SetOf(rs) /\ rs[i].begin \in Int /\ rs[i].end \in Int
    BY <1>1
  <2> QED
    BY <2>1 DEF Covered
<1>3. /\ log[k].base \in Int /\ log[k].end \in Int /\ b \in Int /\ e \in Int
      /\ log[k].base <= b /\ b < e /\ e <= log[k].end
  BY InsideFacts
\* An old range, and one of its modules.
<1>4. ASSUME NEW i \in 1 .. Len(rs), ~(rs[i].end <= b), ~(e <= rs[i].begin), NEW x \in 1 .. Len(rs[i].active)
      PROVE  /\ rs[i].active[x] \in 1 .. k - 1
             /\ log[rs[i].active[x]].base \in Int /\ log[rs[i].active[x]].end \in Int
             /\ log[rs[i].active[x]].base <= rs[i].begin /\ rs[i].end <= log[rs[i].active[x]].end
  <2>1. rs[i].active[x] < k
    <3>1. rs[i] \in SetOf(rs)
      BY <1>1
    <3>2. ~(rs[i].active = <<k>> /\ (rs[i].end <= b \/ e <= rs[i].begin))
      BY <1>4
    <3> QED
      BY <3>1, <3>2 DEF Inside
  <2>2. rs[i].active[x] \in 1 .. Len(log)
    BY <1>1, InsideFacts
  <2>3. log[rs[i].active[x]].base \in Int /\ log[rs[i].active[x]].end \in Int
    BY <2>2, ModuleFacts, 1 .. Len(log) \subseteq 1 .. Len(log)
  <2>4. log[rs[i].active[x]].base <= rs[i].begin /\ rs[i].end <= log[rs[i].active[x]].end
    BY <1>1 DEF Fits
  <2> QED
    BY <2>1, <2>2, <2>3, <2>4
<1>5. CASE rs[o].end <= a
  <2> DEFINE T == {i \in 1 .. Len(rs) : rs[i].end <= a}
  <2>1. T \subseteq 1 .. Len(rs) /\ o \in T
    BY <1>5
  <2>2. PICK i \in T : \A j \in T : j <= i
    <3> HIDE DEF T
    <3> QED
      BY <1>1, <2>1, Greatest
  <2>3. i \in 1 .. Len(rs) /\ rs[i].end <= a
    OBVIOUS
  <2>4. b < rs[i].end
    <3>1. o \in Nat /\ i \in Nat /\ o <= i
      BY <2>1, <2>2
    <3>2. o < i => rs[o].end <= rs[i].begin
      BY <1>1 DEF Apart
    <3>3. rs[o].end \in Int /\ rs[i].begin \in Int /\ rs[i].end \in Int /\ rs[i].begin < rs[i].end
      BY <1>1, <2>3
    <3>4. CASE o = i
      BY <3>4
    <3>5. CASE o # i
      <4>1. rs[o].end <= rs[i].begin
        BY <3>1, <3>2, <3>5
      <4> QED
        BY <1>3, <3>3, <4>1
    <3> QED
      BY <3>4, <3>5
  <2>5. ~\E s \in SetOf(rs) : s.begin = rs[i].end
    <3>1. SUFFICES ASSUME NEW j \in 1 .. Len(rs), rs[j].begin = rs[i].end PROVE FALSE
      BY <1>1
    <3>2. rs[j].end <= a
      BY <1>1, <1>2, <2>3, <3>1
    <3>3. j <= i
      BY <2>2, <3>2
    <3>4. j < i => rs[j].end <= rs[i].begin
      BY <1>1, <2>3 DEF Apart
    <3>5. /\ rs[i].begin \in Int /\ rs[i].end \in Int /\ rs[i].begin < rs[i].end
          /\ rs[j].begin \in Int /\ rs[j].end \in Int /\ rs[j].begin < rs[j].end
      BY <1>1, <2>3
    <3> QED
      BY <2>3, <3>1, <3>3, <3>4, <3>5
  <2>6. PICK x \in 1 .. Len(rs[i].active) : log[rs[i].active[x]].end = rs[i].end
    BY <1>1, <2>3, <2>5 DEF Good, Edges
  <2> DEFINE m == rs[i].active[x]
  <2>7. rs[i].begin \in Int /\ rs[i].end \in Int /\ rs[i].begin < rs[i].end
    BY <1>1, <2>3
  <2>8. /\ m \in 1 .. k - 1 /\ log[m].base \in Int /\ log[m].end \in Int
        /\ log[m].base <= rs[i].begin
    <3>1. ~(rs[i].end <= b) /\ ~(e <= rs[i].begin)
      BY <1>3, <2>3, <2>4, <2>7
    <3> QED
      BY <1>4, <2>3, <2>6, <3>1
  <2>9. log[m].end = rs[i].end
    BY <2>6
  <2> HIDE DEF m, T
  <2>10. ~(a < log[m].end)
    <3>1. log[m].end \in Int /\ log[m].end <= a
      BY <2>3, <2>8, <2>9
    <3> QED
      BY <3>1
  <2>11. log[m].base < log[k].end
    <3>1. log[m].base \in Int /\ log[m].base < a
      BY <2>3, <2>7, <2>8
    <3>2. log[k].end \in Int /\ a < log[k].end
      BY <1>3
    <3> QED
      BY <3>1, <3>2
  <2>12. log[k].base < log[m].end
    BY <1>3, <2>4, <2>8, <2>9
  <2> QED
    BY <2>8, <2>10, <2>11, <2>12 DEF Beside
<1>6. CASE a < rs[o].begin
  <2> DEFINE T == {i \in 1 .. Len(rs) : a < rs[i].begin}
  <2>1. T \subseteq Nat /\ o \in T
    BY <1>1, <1>6
  <2>2. PICK i \in T : \A j \in T : i <= j
    <3> HIDE DEF T
    <3> QED
      BY <2>1, Smallest
  <2>3. i \in 1 .. Len(rs) /\ a < rs[i].begin
    OBVIOUS
  <2>4. rs[i].begin < e
    <3>1. o \in Nat /\ i \in Nat /\ i <= o
      BY <2>1, <2>2
    <3>2. i < o => rs[i].end <= rs[o].begin
      BY <1>1, <2>3 DEF Apart
    <3>3. rs[o].begin \in Int /\ rs[i].begin \in Int /\ rs[i].end \in Int /\ rs[i].begin < rs[i].end
      BY <1>1, <2>3
    <3>4. CASE o = i
      BY <3>4
    <3>5. CASE o # i
      <4>1. rs[i].end <= rs[o].begin
        BY <3>1, <3>2, <3>5
      <4> QED
        BY <1>3, <3>3, <4>1
    <3> QED
      BY <3>4, <3>5
  <2>5. ~\E s \in SetOf(rs) : s.end = rs[i].begin
    <3>1. SUFFICES ASSUME NEW j \in 1 .. Len(rs), rs[j].end = rs[i].begin PROVE FALSE
      BY <1>1
    <3>2. a < rs[j].begin
      BY <1>1, <1>2, <2>3, <3>1
    <3>3. i <= j
      BY <2>2, <3>2
    <3>4. i < j => rs[i].end <= rs[j].begin
      BY <1>1, <2>3 DEF Apart
    <3>5. /\ rs[i].begin \in Int /\ rs[i].end \in Int /\ rs[i].begin < rs[i].end
          /\ rs[j].begin \in Int /\ rs[j].end \in Int /\ rs[j].begin < rs[j].end
      BY <1>1, <2>3
    <3> QED
      BY <2>3, <3>1, <3>3, <3>4, <3>5
  <2>6. PICK x \in 1 .. Len(rs[i].active) : log[rs[i].active[x]].base = rs[i].begin
    BY <1>1, <2>3, <2>5 DEF Good, Edges
  <2> DEFINE m == rs[i].active[x]
  <2>7. rs[i].begin \in Int /\ rs[i].end \in Int /\ rs[i].begin < rs[i].end
    BY <1>1, <2>3
  <2>8. /\ m \in 1 .. k - 1 /\ log[m].base \in Int /\ log[m].end \in Int
        /\ rs[i].end <= log[m].end
    <3>1. ~(rs[i].end <= b) /\ ~(e <= rs[i].begin)
      BY <1>3, <2>3, <2>4, <2>7
    <3> QED
      BY <1>4, <2>3, <2>6, <3>1
  <2>9. log[m].base = rs[i].begin
    BY <2>6
  <2> HIDE DEF m, T
  <2>10. ~(log[m].base <= a)
    <3>1. log[m].base \in Int /\ a < log[m].base
      BY <2>3, <2>8, <2>9
    <3> QED
      BY <3>1
  <2>11. log[m].base < log[k].end
    BY <1>3, <2>4, <2>8, <2>9
  <2>12. log[k].base < log[m].end
    <3>1. log[m].end \in Int /\ a < log[m].end
      BY <2>3, <2>7, <2>8
    <3>2. log[k].base \in Int /\ log[k].base <= a
      BY <1>3
    <3> QED
      BY <3>1, <3>2
  <2> QED
    BY <2>8, <2>10, <2>11, <2>12 DEF Beside
<1> QED
  BY <1>2, <1>5, <1>6

\* A part of a range that meets the module outside of b to e is new.
LEMMA OutsideIsNew ==
  ASSUME NEW log \in Seq(Loads), NEW k \in 1 .. Len(log), NEW K, K \subseteq 1 .. k, k \in K,
         NEW rs, NEW b, NEW e, Inside(log, rs, b, e, k, K),
         NEW s \in SetOf(rs), NEW r, r.begin \in Int, r.end \in Int, r.begin < r.end,
         s.begin <= r.begin, r.end <= s.end, r.end <= b \/ e <= r.begin, Meets(log, r, k)
  PROVE  s.active = <<k>>
<1>1. /\ Apart(rs) /\ Len(rs) \in Nat /\ SetOf(rs) = {rs[i] : i \in 1 .. Len(rs)}
      /\ \A o \in SetOf(rs) : o.begin \in Int /\ o.end \in Int /\ o.begin < o.end
      /\ log[k].base \in Int /\ log[k].end \in Int /\ b \in Int /\ e \in Int
  BY InsideFacts
<1>2. SUFFICES ASSUME s.active # <<k>> PROVE FALSE
  OBVIOUS
<1>3. /\ r.begin \in Int /\ r.end \in Int /\ r.begin < r.end /\ s.begin <= r.begin /\ r.end <= s.end
      /\ log[k].base < r.end /\ r.begin < log[k].end
  BY DEF Meets
<1>4. (s.end <= b => s.end <= log[k].base) /\ (e <= s.begin => log[k].end <= s.begin)
  BY <1>2 DEF Inside
<1>5. s.begin \in Int /\ s.end \in Int
  BY <1>1
\* Two ranges do not have an address in common.
<1>6. ASSUME NEW o \in SetOf(rs), o # s PROVE s.end <= o.begin \/ o.end <= s.begin
  <2>1. PICK i \in 1 .. Len(rs), j \in 1 .. Len(rs) : s = rs[i] /\ o = rs[j]
    BY <1>1
  <2>2. i \in Nat /\ j \in Nat /\ i # j
    BY <1>6, <2>1
  <2>3. (i < j => rs[i].end <= rs[j].begin) /\ (j < i => rs[j].end <= rs[i].begin)
    BY <1>1 DEF Apart
  <2>4. i < j \/ j < i
    BY <2>2
  <2> QED
    BY <2>1, <2>3, <2>4
<1>7. CASE r.end <= b
  <2>1. s.begin < b /\ b < s.end /\ b # log[k].base
    BY <1>1, <1>3, <1>4, <1>5, <1>7
  <2>2. PICK o \in SetOf(rs) : o.end = b
    BY <2>1 DEF Inside
  <2>3. o # s /\ o.begin \in Int /\ o.begin < b
    BY <1>1, <1>5, <2>1, <2>2
  <2>4. s.end <= o.begin \/ b <= s.begin
    BY <1>6, <2>2, <2>3
  <2> QED
    BY <1>1, <1>3, <1>5, <2>1, <2>3, <2>4
<1>8. CASE e <= r.begin
  <2>1. s.begin < e /\ e < s.end /\ e # log[k].end
    BY <1>1, <1>3, <1>4, <1>5, <1>8
  <2>2. PICK o \in SetOf(rs) : o.begin = e
    BY <2>1 DEF Inside
  <2>3. o # s /\ o.end \in Int /\ e < o.end
    BY <1>1, <1>5, <2>1, <2>2
  <2>4. s.end <= e \/ o.end <= s.begin
    BY <1>6, <2>2, <2>3
  <2> QED
    BY <1>1, <1>3, <1>5, <2>1, <2>3, <2>4
<1> QED
  BY <1>7, <1>8

LEMMA OverlaidGood ==
  ASSUME NEW log \in Seq(Loads), NEW k \in 1 .. Len(log), NEW K, K \subseteq 1 .. k, k \in K,
         NEW rs, NEW b, NEW e, Inside(log, rs, b, e, k, K)
  PROVE  GoodRanges(log, overlaid(log, rs, b, e, k), k, K)
<1>1. /\ GoodRanges(log, rs, k - 1, K) /\ Len(rs) \in Nat
      /\ \A i \in 1 .. Len(rs) :
           /\ rs[i].begin \in Int /\ rs[i].end \in Int /\ rs[i].begin < rs[i].end
      /\ \A r \in SetOf(rs) :
           /\ r.begin \in Int /\ r.end \in Int /\ r.begin < r.end
      /\ log[k].base \in Int /\ log[k].end \in Int /\ b \in Int /\ e \in Int
      /\ log[k].base <= b /\ b < e /\ e <= log[k].end
      /\ K \subseteq 1 .. Len(log) /\ k - 1 \in 0 .. Len(log) /\ k - 1 < k /\ K \subseteq Int
  BY InsideFacts
<1> DEFINE cut == split(split(rs, b), e)
           t   == activated(log, cut, b, e, k)
<1>2. CASE \A i \in 1 .. Len(rs) : rs[i].end <= b \/ e <= rs[i].begin
  BY <1>2, BetweenGood DEF overlaid
<1>3. CASE ~\A i \in 1 .. Len(rs) : rs[i].end <= b \/ e <= rs[i].begin
  <2>1. CASE same_module(log, rs, k)
    BY <1>3, <2>1, SameModuleGood DEF overlaid
  <2>2. CASE ~same_module(log, rs, k)
    <3>1. overlaid(log, rs, b, e, k) = t
      BY <1>3, <2>2 DEF overlaid
    <3>2. /\ GoodRanges(log, split(rs, b), k - 1, K)
          /\ \A r \in SetOf(split(rs, b)) :
               /\ ~inside(r, b)
               /\ \E s \in SetOf(rs) : s.begin <= r.begin /\ r.end <= s.end /\ r.active = s.active
          /\ \A a \in Int : Covered(SetOf(rs), a) => Covered(SetOf(split(rs, b)), a)
      BY <1>1, SplitGoodRanges
    <3>3. /\ GoodRanges(log, cut, k - 1, K)
          /\ \A r \in SetOf(cut) :
               /\ ~inside(r, e)
               /\ \E s \in SetOf(split(rs, b)) : s.begin <= r.begin /\ r.end <= s.end /\ r.active = s.active
          /\ \A a \in Int : Covered(SetOf(split(rs, b)), a) => Covered(SetOf(cut), a)
      BY <1>1, <3>2, SplitGoodRanges
    <3>4. /\ \A r \in SetOf(split(rs, b)) : r.begin \in Int /\ r.end \in Int
          /\ \A r \in SetOf(cut) : r.begin \in Int /\ r.end \in Int /\ r.begin < r.end
      <4>1. \A r \in SetOf(cut) : r.begin < r.end
        BY <3>3, GoodFacts DEF SetOf
      <4> QED
        BY <3>2, <3>3, <4>1, GoodFacts
    <3> HIDE DEF cut
    \* The ranges are parts of the old ones.
    <3>5. ASSUME NEW r \in SetOf(cut)
          PROVE  /\ ~inside(r, b) /\ ~inside(r, e)
                 /\ \E s \in SetOf(rs) : s.begin <= r.begin /\ r.end <= s.end /\ r.active = s.active
      <4>1. PICK s1 \in SetOf(split(rs, b)) : s1.begin <= r.begin /\ r.end <= s1.end /\ r.active = s1.active
        BY <3>3
      <4>2. PICK s \in SetOf(rs) : s.begin <= s1.begin /\ s1.end <= s.end /\ s1.active = s.active
        BY <3>2
      <4>3. /\ r.begin \in Int /\ r.end \in Int /\ s1.begin \in Int /\ s1.end \in Int
            /\ s.begin \in Int /\ s.end \in Int
        BY <1>1, <3>4
      <4>4. ~(s1.begin < b /\ b < s1.end)
        BY <3>2 DEF inside
      <4>5. ~(r.begin < b /\ b < r.end)
        BY <1>1, <4>1, <4>3, <4>4
      <4>6. s.begin <= r.begin /\ r.end <= s.end /\ r.active = s.active
        BY <4>1, <4>2, <4>3
      <4> QED
        BY <3>3, <4>5, <4>6 DEF inside
    <3>6. ASSUME NEW r \in SetOf(cut), b <= r.begin, r.end <= e
          PROVE  \A i \in 1 .. Len(r.active) : r.active[i] < k
      <4>1. PICK s \in SetOf(rs) : s.begin <= r.begin /\ r.end <= s.end /\ r.active = s.active
        BY <3>5
      <4>2. /\ r.begin \in Int /\ r.end \in Int /\ r.begin < r.end /\ s.begin \in Int /\ s.end \in Int
        BY <1>1, <3>4
      <4>3. ~(s.end <= b \/ e <= s.begin)
        BY <1>1, <3>6, <4>1, <4>2
      <4>4. \A i \in 1 .. Len(s.active) : s.active[i] < k
        BY <4>3 DEF Inside
      <4> QED
        BY <4>1, <4>4
    <3>7. /\ GoodRanges(log, t, k - 1, K)
          /\ \A q \in SetOf(t) :
               \E r \in SetOf(cut) :
                 /\ q.begin = r.begin /\ q.end = r.end
                 /\ IF b <= r.begin /\ r.end <= e THEN \E i \in 1 .. Len(q.active) : q.active[i] = k
                                                  ELSE q = r
          /\ \A a \in Int : Covered(SetOf(cut), a) => Covered(SetOf(t), a)
      <4>1. \A r \in SetOf(cut) : b <= r.begin /\ r.end <= e => \A i \in 1 .. Len(r.active) : r.active[i] < k
        BY <3>6
      <4>2. GoodRanges(log, cut, k - 1, K)
        BY <3>3
      <4> QED
        BY <1>1, <4>1, <4>2, ActivatedGoodRanges
    <3> HIDE DEF t
    <3>8. ASSUME NEW q \in SetOf(t), Meets(log, q, k) PROVE Known(log, q.active, k)
      <4>1. PICK r \in SetOf(cut) :
              /\ q.begin = r.begin /\ q.end = r.end
              /\ IF b <= r.begin /\ r.end <= e THEN \E i \in 1 .. Len(q.active) : q.active[i] = k
                                               ELSE q = r
        BY <3>7
      <4>2. CASE b <= r.begin /\ r.end <= e
        BY <4>1, <4>2 DEF Known
      <4>3. CASE ~(b <= r.begin /\ r.end <= e)
        <5>1. q = r
          BY <4>1, <4>3
        <5>2. PICK s \in SetOf(rs) : s.begin <= r.begin /\ r.end <= s.end /\ r.active = s.active
          BY <3>5
        <5>3. r.begin \in Int /\ r.end \in Int /\ r.begin < r.end
          BY <3>4
        <5>4. ~(r.begin < b /\ b < r.end) /\ ~(r.begin < e /\ e < r.end)
          BY <3>5 DEF inside
        <5>5. r.end <= b \/ e <= r.begin
          BY <1>1, <4>3, <5>3, <5>4
        <5>6. Meets(log, r, k)
          BY <3>8, <5>1
        <5>7. s.active = <<k>>
          BY <5>2, <5>3, <5>5, <5>6, OutsideIsNew, ZenonT(60)
        <5> QED
          BY <5>1, <5>2, <5>7 DEF Known
      <4> QED
        BY <4>2, <4>3
    <3>9. ASSUME NEW a \in Int, log[k].base <= a, a < log[k].end
          PROVE  Covered(SetOf(t), a) \/ Beside(log, k, a)
      <4>1. CASE Covered(SetOf(rs), a)
        BY <3>2, <3>3, <3>7, <4>1
      <4>2. CASE ~Covered(SetOf(rs), a)
        <5>1. b <= a /\ a < e
          BY <1>1, <3>9, <4>2 DEF Inside
        <5>2. PICK o \in 1 .. Len(rs) : ~(rs[o].end <= b \/ e <= rs[o].begin)
          BY <1>3
        <5>3. rs[o].begin < e /\ b < rs[o].end
          BY <1>1, <5>2
        <5> QED
          BY <4>2, <5>1, <5>3, GapsBeside
      <4> QED
        BY <4>1, <4>2
    <3>10. Good(log, SetOf(t), k)
      BY <3>7, <3>8, <3>9, OneMore DEF GoodRanges
    <3> QED
      BY <3>1, <3>7, <3>10 DEF GoodRanges
  <2> QED
    BY <2>1, <2>2
<1> QED
  BY <1>2, <1>3

\* The first range begins first, and the last one ends last.
LEMMA TotalRange ==
  ASSUME NEW log, NEW n, NEW K, NEW rs, GoodRanges(log, rs, n, K), rs # <<>>
  PROVE  /\ Len(rs) \in Nat /\ 1 \in 1 .. Len(rs) /\ Len(rs) \in 1 .. Len(rs) /\ Last(rs) = rs[Len(rs)]
         /\ rs[1] \in SetOf(rs) /\ Last(rs) \in SetOf(rs)
         /\ rs[1].begin \in Int /\ Last(rs).end \in Int /\ rs[1].begin < Last(rs).end
         /\ \A i \in 1 .. Len(rs) : rs[1].begin <= rs[i].begin /\ rs[i].end <= Last(rs).end
<1>1. /\ Len(rs) \in Nat /\ rs \in Seq(RangesOf(K)) /\ Apart(rs)
      /\ \A i \in 1 .. Len(rs) :
           /\ rs[i] \in SetOf(rs)
           /\ rs[i].begin \in Int /\ rs[i].end \in Int /\ rs[i].begin < rs[i].end
  BY GoodFacts DEF GoodRanges
<1>2. 1 \in 1 .. Len(rs) /\ Len(rs) \in 1 .. Len(rs) /\ Last(rs) = rs[Len(rs)]
  BY <1>1 DEF Last
<1>3. ASSUME NEW i \in 1 .. Len(rs) PROVE rs[1].begin <= rs[i].begin /\ rs[i].end <= rs[Len(rs)].end
  <2>1. (1 < i => rs[1].end <= rs[i].begin) /\ (i < Len(rs) => rs[i].end <= rs[Len(rs)].begin)
    BY <1>1, <1>2 DEF Apart
  <2>2. (i = 1 \/ 1 < i) /\ (i = Len(rs) \/ i < Len(rs))
    BY <1>1
  <2>3. /\ rs[1].begin \in Int /\ rs[1].end \in Int /\ rs[1].begin < rs[1].end
        /\ rs[Len(rs)].begin \in Int /\ rs[Len(rs)].end \in Int /\ rs[Len(rs)].begin < rs[Len(rs)].end
        /\ rs[i].begin \in Int /\ rs[i].end \in Int
    BY <1>1, <1>2
  <2>4. rs[1].begin <= rs[i].begin
    <3>1. CASE i = 1
      BY <2>3, <3>1
    <3>2. CASE 1 < i
      BY <2>1, <2>3, <3>2
    <3> QED
      BY <2>2, <3>1, <3>2
  <2>5. rs[i].end <= rs[Len(rs)].end
    <3>1. CASE i = Len(rs)
      BY <2>3, <3>1
    <3>2. CASE i < Len(rs)
      BY <2>1, <2>3, <3>2
    <3> QED
      BY <2>2, <3>1, <3>2
  <2> QED
    BY <2>4, <2>5
<1>4. rs[1].begin < rs[Len(rs)].end
  <2>1. rs[1].end <= rs[Len(rs)].end /\ rs[1].begin < rs[1].end
    BY <1>1, <1>2, <1>3
  <2>2. rs[1].begin \in Int /\ rs[1].end \in Int /\ rs[Len(rs)].end \in Int
    BY <1>1, <1>2
  <2> QED
    BY <2>1, <2>2
<1> QED
  BY <1>1, <1>2, <1>3, <1>4

\* Module k comes to ranges of older modules.
Older(log, rs, k, K) ==
  /\ GoodRanges(log, rs, k - 1, K)
  /\ rs # <<>>
  /\ \A r \in SetOf(rs) : \A i \in 1 .. Len(r.active) : r.active[i] < k

LEMMA EnlargedFrontGood ==
  ASSUME NEW log \in Seq(Loads), NEW k \in 1 .. Len(log), NEW K, K \subseteq 1 .. k, k \in K,
         NEW rs, Older(log, rs, k, K)
  PROVE  /\ GoodRanges(log, enlarged_front(log, rs, k), k - 1, K)
         /\ enlarged_front(log, rs, k) # <<>> /\ Last(enlarged_front(log, rs, k)) = Last(rs)
         /\ log[k].base < rs[1].begin =>
              SetOf(enlarged_front(log, rs, k)) =
                SetOf(rs) \cup {NewRange(log[k].base, lower(rs[1].begin, log[k].end), k)}
         /\ ~(log[k].base < rs[1].begin) => enlarged_front(log, rs, k) = rs
<1> DEFINE c   == lower(rs[1].begin, log[k].end)
           new == NewRange(log[k].base, c, k)
           t   == behind(rs, 0, new)
<1>1. /\ GoodRanges(log, rs, k - 1, K) /\ rs \in Seq(RangesOf(K)) /\ rs # <<>>
      /\ log[k].base \in Int /\ log[k].end \in Int /\ log[k].base < log[k].end
      /\ k - 1 \in Nat /\ k - 1 < k /\ K \subseteq Int
  <2>1. GoodRanges(log, rs, k - 1, K) /\ rs \in Seq(RangesOf(K)) /\ rs # <<>>
    BY DEF Older, GoodRanges
  <2>2. log[k].base \in Int /\ log[k].end \in Int /\ log[k].base < log[k].end
    BY ModuleFacts, 1 .. Len(log) \subseteq 1 .. Len(log)
  <2>3. k - 1 \in Nat /\ k - 1 < k /\ K \subseteq Int
    <3>1. Len(log) \in Nat
      OBVIOUS
    <3> QED
      BY <3>1
  <2> QED
    BY <2>1, <2>2, <2>3
<1>2. /\ Len(rs) \in Nat /\ 1 \in 1 .. Len(rs) /\ Len(rs) \in 1 .. Len(rs) /\ Last(rs) = rs[Len(rs)]
      /\ rs[1] \in SetOf(rs) /\ rs[1].begin \in Int
      /\ \A i \in 1 .. Len(rs) : rs[1].begin <= rs[i].begin
  BY <1>1, TotalRange
<1>3. CASE log[k].base < rs[1].begin
  <2>1. enlarged_front(log, rs, k) = t
    BY <1>3 DEF enlarged_front
  <2>2. /\ c \in Int /\ log[k].base < c /\ c <= log[k].end /\ c <= rs[1].begin
        /\ c = log[k].end \/ c = rs[1].begin
    BY <1>1, <1>2, <1>3 DEF lower
  <2> HIDE DEF c
  <2>3. GoodRanges(log, t, k - 1, K)
    <3>1. PICK m \in 0 .. Len(rs) : m = 0
      BY <1>2
    <3>2. \A i \in 1 .. Len(rs) : i <= m => rs[i].end <= log[k].base
      BY <1>2, <3>1
    <3>3. ASSUME NEW i \in 1 .. Len(rs) PROVE c <= rs[i].begin
      <4>1. rs[1].begin <= rs[i].begin /\ rs[i].begin \in Int
        BY <1>1, <1>2, GoodFacts
      <4> QED
        BY <1>2, <2>2, <4>1
    <3>4. \A i \in 1 .. Len(rs) : m < i => c <= rs[i].begin
      BY <3>3
    <3>5. c = log[k].end \/ \E s \in SetOf(rs) : s.begin = c
      BY <1>2, <2>2
    <3>6. PICK b \in Int : b = log[k].base
      BY <1>1
    <3>7. /\ b < c /\ log[k].base <= b /\ c <= log[k].end
          /\ \A i \in 1 .. Len(rs) : i <= m => rs[i].end <= b
      BY <1>1, <2>2, <3>2, <3>6
    <3>8. b = log[k].base \/ \E s \in SetOf(rs) : s.end = b
      BY <3>6
    <3>9. GoodRanges(log, behind(rs, m, NewRange(b, c, k)), k - 1, K)
      <4>1. GoodRanges(log, rs, k - 1, K) /\ k - 1 \in Nat /\ k - 1 < k /\ K \subseteq Int /\ c \in Int
        BY <1>1, <2>2
      <4> QED
        BY <3>4, <3>5, <3>7, <3>8, <4>1, NewRangeGoodRanges
    <3> QED
      BY <3>1, <3>6, <3>9
  <2>4. new \in RangesOf(K)
    BY <1>1, <2>2 DEF NewRange, RangesOf
  <2> HIDE DEF new
  <2>5. /\ SetOf(t) = SetOf(rs) \cup {new} /\ Len(t) = Len(rs) + 1 /\ t \in Seq(RangesOf(K))
        /\ \A i \in 1 .. Len(rs) + 1 : t[i] = IF i <= 0 THEN rs[i] ELSE IF i = 0 + 1 THEN new ELSE rs[i - 1]
    <3>1. PICK m \in 0 .. Len(rs) : m = 0
      BY <1>2
    <3>2. SetOf(behind(rs, m, new)) = SetOf(rs) \cup {new}
      BY <1>1, <2>4, BehindSet
    <3>3. /\ behind(rs, m, new) \in Seq(RangesOf(K)) /\ Len(behind(rs, m, new)) = Len(rs) + 1
          /\ \A i \in 1 .. Len(rs) + 1 :
               behind(rs, m, new)[i] = IF i <= m THEN rs[i] ELSE IF i = m + 1 THEN new ELSE rs[i - 1]
      BY <1>1, <2>4, BehindFacts
    <3> QED
      BY <3>1, <3>2, <3>3
  <2> HIDE DEF t
  <2>6. t # <<>> /\ Last(t) = t[Len(rs) + 1]
    BY <1>2, <2>5 DEF Last
  <2>7. t[Len(rs) + 1] = rs[Len(rs)]
    <3>1. Len(rs) + 1 \in 1 .. Len(rs) + 1 /\ ~(Len(rs) + 1 <= 0) /\ Len(rs) + 1 # 0 + 1 /\ (Len(rs) + 1) - 1 = Len(rs)
      BY <1>2
    <3> QED
      BY <2>5, <3>1
  <2> QED
    BY <1>2, <1>3, <2>1, <2>3, <2>5, <2>6, <2>7 DEF new, c
<1>4. CASE ~(log[k].base < rs[1].begin)
  BY <1>1, <1>4 DEF enlarged_front
<1> QED
  BY <1>3, <1>4

LEMMA EnlargedBackGood ==
  ASSUME NEW log \in Seq(Loads), NEW k \in 1 .. Len(log), NEW K, K \subseteq 1 .. k, k \in K,
         NEW rs, GoodRanges(log, rs, k - 1, K), rs # <<>>,
         NEW b \in Int, log[k].base <= b, b < log[k].end,
         b = log[k].base \/ b <= Last(rs).end
  PROVE  /\ GoodRanges(log, enlarged_back(log, rs, b, k), k - 1, K)
         /\ Last(rs).end < log[k].end =>
              SetOf(enlarged_back(log, rs, b, k)) =
                SetOf(rs) \cup {NewRange(upper(Last(rs).end, b), log[k].end, k)}
         /\ ~(Last(rs).end < log[k].end) => enlarged_back(log, rs, b, k) = rs
<1> DEFINE c   == upper(Last(rs).end, b)
           new == NewRange(c, log[k].end, k)
           t   == behind(rs, Len(rs), new)
<1>1. rs \in Seq(RangesOf(K))
  BY DEF GoodRanges
<1>2. /\ log[k].base \in Int /\ log[k].end \in Int /\ log[k].base < log[k].end
      /\ k - 1 \in Nat /\ k - 1 < k /\ K \subseteq Int
  <2>1. log[k].base \in Int /\ log[k].end \in Int /\ log[k].base < log[k].end
    BY ModuleFacts, 1 .. Len(log) \subseteq 1 .. Len(log)
  <2>2. Len(log) \in Nat
    OBVIOUS
  <2> QED
    BY <2>1, <2>2
<1>3. /\ Len(rs) \in Nat /\ Last(rs) \in SetOf(rs) /\ Last(rs).end \in Int
      /\ \A i \in 1 .. Len(rs) : rs[i].end <= Last(rs).end
  BY TotalRange
<1>4. CASE Last(rs).end < log[k].end
  <2>1. enlarged_back(log, rs, b, k) = t
    BY <1>4 DEF enlarged_back
  <2>2. /\ c \in Int /\ log[k].base <= c /\ c < log[k].end /\ Last(rs).end <= c
        /\ c = log[k].base \/ c = Last(rs).end
    BY <1>2, <1>3, <1>4 DEF upper
  <2> HIDE DEF c
  <2>3. GoodRanges(log, t, k - 1, K)
    <3>1. PICK m \in 0 .. Len(rs) : m = Len(rs)
      BY <1>3
    <3>2. PICK e \in Int : e = log[k].end
      BY <1>2
    <3>3. \A i \in 1 .. Len(rs) : m < i => e <= rs[i].begin
      BY <1>3, <3>1
    <3>4. ASSUME NEW i \in 1 .. Len(rs) PROVE rs[i].end <= c
      <4>1. rs[i].end <= Last(rs).end /\ rs[i].end \in Int
        BY <1>3, GoodFacts
      <4> QED
        BY <1>3, <2>2, <4>1
    <3>5. /\ c < e /\ log[k].base <= c /\ e <= log[k].end
          /\ \A i \in 1 .. Len(rs) : i <= m => rs[i].end <= c
      BY <1>2, <2>2, <3>2, <3>4
    <3>6. (c = log[k].base \/ \E s \in SetOf(rs) : s.end = c) /\ (e = log[k].end \/ \E s \in SetOf(rs) : s.begin = e)
      BY <1>3, <2>2, <3>2
    <3>7. GoodRanges(log, behind(rs, m, NewRange(c, e, k)), k - 1, K)
      <4>1. k - 1 \in Nat /\ k - 1 < k /\ K \subseteq Int /\ c \in Int
        BY <1>2, <2>2
      <4> QED
        BY <3>3, <3>5, <3>6, <4>1, NewRangeGoodRanges
    <3> QED
      BY <3>1, <3>2, <3>7
  <2>4. new \in RangesOf(K)
    BY <1>2, <2>2 DEF NewRange, RangesOf
  <2> HIDE DEF new
  <2>5. SetOf(t) = SetOf(rs) \cup {new}
    <3>1. PICK m \in 0 .. Len(rs) : m = Len(rs)
      BY <1>3
    <3>2. SetOf(behind(rs, m, new)) = SetOf(rs) \cup {new}
      BY <1>1, <2>4, BehindSet
    <3> QED
      BY <3>1, <3>2
  <2> QED
    BY <1>4, <2>1, <2>3, <2>5 DEF new, c
<1>5. CASE ~(Last(rs).end < log[k].end)
  BY <1>5 DEF enlarged_back
<1> QED
  BY <1>4, <1>5

\* A module that begins before, or ends after all ranges, and meets none of them.
LEMMA AloneGood ==
  ASSUME NEW log \in Seq(Loads), NEW k \in 1 .. Len(log), NEW K, K \subseteq 1 .. k, k \in K,
         NEW R, NEW rs, GoodRanges(log, rs, k - 1, K),
         NEW b, NEW e, SetOf(rs) = R \cup {NewRange(b, e, k)}, b = log[k].base, e = log[k].end,
         \A r \in R : ~Meets(log, r, k)
  PROVE  GoodRanges(log, rs, k, K)
<1> DEFINE new == NewRange(b, e, k)
<1>1. new \in SetOf(rs) /\ new.begin = b /\ new.end = e /\ new.active = <<k>>
  BY DEF NewRange
<1>2. \A a \in Int : log[k].base <= a /\ a < log[k].end => Covered(SetOf(rs), a)
  BY <1>1 DEF Covered
<1> HIDE DEF new
<1>3. Known(log, new.active, k)
  BY <1>1 DEF Known
<1>4. \A r \in SetOf(rs) : Meets(log, r, k) => Known(log, r.active, k)
  BY <1>3 DEF new
<1>5. Good(log, SetOf(rs), k)
  BY <1>2, <1>4, OneMore DEF GoodRanges
<1> QED
  BY <1>5 DEF GoodRanges

LEMMA InsertedGood ==
  ASSUME NEW log \in Seq(Loads), NEW k \in 1 .. Len(log), NEW K, K \subseteq 1 .. k, k \in K,
         NEW rs, Older(log, rs, k, K)
  PROVE  GoodRanges(log, inserted(log, rs, k), k, K)
<1> DEFINE x   == log[k].base
           y   == log[k].end
           p   == rs[1].begin
           q   == Last(rs).end
           b   == upper(p, x)
           e   == lower(q, y)
           rs1 == enlarged_front(log, rs, k)
           rs2 == enlarged_back(log, rs1, b, k)
           front == NewRange(x, lower(p, y), k)
           back  == NewRange(upper(q, b), y, k)
<1>1. inserted(log, rs, k) = IF y <= b THEN rs1 ELSE IF e <= b THEN rs2 ELSE overlaid(log, rs2, b, e, k)
  BY DEF inserted, Older
<1>2. x \in Int /\ y \in Int /\ x < y
  BY ModuleFacts, 1 .. Len(log) \subseteq 1 .. Len(log)
<1>3. /\ p \in Int /\ q \in Int /\ p < q
      /\ \A i \in 1 .. Len(rs) : p <= rs[i].begin /\ rs[i].end <= q
      /\ rs[1] \in SetOf(rs) /\ Last(rs) \in SetOf(rs)
  BY TotalRange DEF Older
<1>4. ASSUME NEW r \in SetOf(rs)
      PROVE  /\ r.begin \in Int /\ r.end \in Int /\ r.begin < r.end /\ p <= r.begin /\ r.end <= q
             /\ \A i \in 1 .. Len(r.active) : r.active[i] < k
  <2>1. PICK i \in 1 .. Len(rs) : r = rs[i]
    BY DEF SetOf
  <2>2. r.begin \in Int /\ r.end \in Int /\ r.begin < r.end
    BY <2>1, GoodFacts DEF Older
  <2>3. \A j \in 1 .. Len(r.active) : r.active[j] < k
    BY DEF Older
  <2> QED
    BY <1>3, <2>1, <2>2, <2>3
<1>5. /\ GoodRanges(log, rs1, k - 1, K) /\ rs1 # <<>> /\ Last(rs1) = Last(rs)
      /\ x < p => SetOf(rs1) = SetOf(rs) \cup {front}
      /\ ~(x < p) => rs1 = rs
  <2>1. /\ GoodRanges(log, rs1, k - 1, K) /\ rs1 # <<>> /\ Last(rs1) = Last(rs)
        /\ log[k].base < rs[1].begin => SetOf(rs1) = SetOf(rs) \cup {front}
        /\ ~(log[k].base < rs[1].begin) => rs1 = rs
    BY EnlargedFrontGood, ZenonT(60)
  <2> QED
    BY <2>1
<1>6. /\ b \in Int /\ x <= b /\ p <= b /\ (b = x \/ (b = p /\ x < p)) /\ (x < p => b = p)
      /\ e \in Int /\ e <= y /\ e <= q /\ (e = y \/ (e = q /\ q < y)) /\ (q < y => e = q)
  BY <1>2, <1>3 DEF upper, lower
<1> HIDE DEF x, y, p, q, b, e, rs1, rs2, front, back
<1>7. CASE y <= b
  <2>1. x < p /\ y <= p /\ ~(p < y)
    BY <1>2, <1>3, <1>6, <1>7
  <2>2. lower(p, y) = y
    BY <1>2, <1>3, <2>1 DEF lower
  <2>3. SetOf(rs1) = SetOf(rs) \cup {NewRange(x, y, k)}
    BY <1>5, <2>1, <2>2 DEF front
  <2>4. ASSUME NEW r \in SetOf(rs) PROVE ~Meets(log, r, k)
    <3>1. ~(r.begin < y)
      BY <1>2, <1>3, <1>4, <2>1
    <3> QED
      BY <3>1 DEF Meets, y
  <2>5. GoodRanges(log, rs1, k, K)
    BY <1>5, <2>3, <2>4, AloneGood DEF x, y
  <2> QED
    BY <1>1, <1>7, <2>5
<1>8. CASE ~(y <= b)
  <2>1. /\ GoodRanges(log, rs2, k - 1, K)
        /\ q < y => SetOf(rs2) = SetOf(rs1) \cup {back}
        /\ ~(q < y) => rs2 = rs1
    <3>1. b < log[k].end /\ log[k].base <= b /\ (b = log[k].base \/ b <= Last(rs1).end) /\ Last(rs1).end = q
      BY <1>2, <1>3, <1>5, <1>6, <1>8 DEF x, y, q
    <3>2. /\ GoodRanges(log, enlarged_back(log, rs1, b, k), k - 1, K)
          /\ Last(rs1).end < log[k].end =>
               SetOf(enlarged_back(log, rs1, b, k)) =
                 SetOf(rs1) \cup {NewRange(upper(Last(rs1).end, b), log[k].end, k)}
          /\ ~(Last(rs1).end < log[k].end) => enlarged_back(log, rs1, b, k) = rs1
      <4>1. GoodRanges(log, rs1, k - 1, K) /\ rs1 # <<>> /\ b \in Int
        BY <1>5, <1>6
      <4> QED
        BY <3>1, <4>1, EnlargedBackGood, Zenon
    <3> QED
      BY <3>1, <3>2 DEF rs2, back, y
  <2>2. CASE e <= b
    <3>1. q < y /\ q <= b /\ b = x /\ ~(x < p) /\ q <= x /\ ~(b < q)
      BY <1>2, <1>3, <1>6, <1>8, <2>2
    <3>2. upper(q, b) = b
      BY <1>3, <1>6, <3>1 DEF upper
    <3>3. SetOf(rs2) = SetOf(rs) \cup {NewRange(x, y, k)}
      BY <1>5, <2>1, <3>1, <3>2 DEF back
    <3>4. ASSUME NEW r \in SetOf(rs) PROVE ~Meets(log, r, k)
      <4>1. ~(x < r.end)
        BY <1>2, <1>3, <1>4, <3>1
      <4> QED
        BY <4>1 DEF Meets, x
    <3>5. GoodRanges(log, rs2, k, K)
      BY <2>1, <3>3, <3>4, AloneGood DEF x, y
    <3> QED
      BY <1>1, <1>8, <2>2, <3>5
  <2>3. CASE ~(e <= b)
    <3>1. b < e /\ p < y
      BY <1>2, <1>3, <1>6, <1>8, <2>3
    <3>2. x < p => /\ front \in SetOf(rs1) /\ front.begin = x /\ front.end = b /\ front.active = <<k>>
      <4>1. x < p => lower(p, y) = b
        BY <1>6, <3>1 DEF lower
      <4> QED
        BY <1>5, <4>1 DEF front, NewRange
    <3>3. q < y => /\ back \in SetOf(rs2) /\ back.begin = e /\ back.end = y /\ back.active = <<k>>
      <4>1. q < y => upper(q, b) = e
        BY <1>3, <1>6, <3>1 DEF upper
      <4> QED
        BY <2>1, <4>1 DEF back, NewRange
    <3>4. /\ \A r \in SetOf(rs2) : r \in SetOf(rs) \/ (x < p /\ r = front) \/ (q < y /\ r = back)
          /\ SetOf(rs1) \subseteq SetOf(rs2)
      BY <1>5, <2>1
    <3>5. ASSUME NEW r \in SetOf(rs2)
          PROVE  \/ r.active = <<k>> /\ (r.end <= b \/ e <= r.begin)
                 \/ /\ \A i \in 1 .. Len(r.active) : r.active[i] < k
                    /\ r.end <= b => r.end <= x
                    /\ e <= r.begin => y <= r.begin
      <4>1. CASE r \in SetOf(rs)
        <5>1. (r.end <= b => r.end <= x) /\ (e <= r.begin => y <= r.begin)
          BY <1>2, <1>3, <1>4, <1>6, <4>1
        <5> QED
          BY <1>4, <4>1, <5>1
      <4>2. CASE x < p /\ r = front
        BY <1>6, <3>2, <4>2
      <4>3. CASE q < y /\ r = back
        BY <1>6, <3>3, <4>3
      <4> QED
        BY <3>4, <4>1, <4>2, <4>3
    <3>6. ASSUME NEW a \in Int, (x <= a /\ a < b) \/ (e <= a /\ a < y) PROVE Covered(SetOf(rs2), a)
      <4>1. CASE x <= a /\ a < b
        <5>1. x < p
          BY <1>2, <1>6, <4>1
        <5> QED
          BY <3>2, <3>4, <4>1, <5>1 DEF Covered
      <4>2. CASE e <= a /\ a < y
        <5>1. q < y
          BY <1>2, <1>3, <1>6, <4>2
        <5> QED
          BY <3>3, <4>2, <5>1 DEF Covered
      <4> QED
        BY <3>6, <4>1, <4>2
    <3>7. b = x \/ \E s \in SetOf(rs2) : s.end = b
      BY <1>6, <3>2, <3>4
    <3>8. e = y \/ \E s \in SetOf(rs2) : s.begin = e
      BY <1>6, <3>3
    <3>9. Inside(log, rs2, b, e, k, K)
      BY <1>6, <2>1, <3>1, <3>5, <3>6, <3>7, <3>8 DEF Inside, x, y
    <3>10. GoodRanges(log, overlaid(log, rs2, b, e, k), k, K)
      BY <3>9, OverlaidGood
    <3> QED
      BY <1>1, <1>8, <2>3, <3>10
  <2> QED
    BY <2>2, <2>3
<1> QED
  BY <1>7, <1>8

-----------------------------------------------------------------------------
(* Every step keeps the ranges good. *)

\* The log has one more module, which has not been inserted yet.
LEMMA LogGrows ==
  ASSUME NEW log \in Seq(Loads), NEW l \in Loads, NEW K, K \subseteq 1 .. Len(log),
         NEW rs, GoodRanges(log, rs, Len(log), K)
  PROVE  GoodRanges(Append(log, l), rs, Len(log), K \cup {Len(log) + 1})
<1> DEFINE n == Len(log)
           log2 == Append(log, l)
           K2   == K \cup {n + 1}
           R == SetOf(rs)
<1>1. n \in Nat /\ log2 \in Seq(Loads) /\ Len(log2) = n + 1 /\ \A i \in 1 .. n : log2[i] = log[i]
  OBVIOUS
<1>2. rs \in Seq(RangesOf(K)) /\ Apart(rs) /\ Good(log, R, n) /\ R \subseteq RangesOf(K)
  <2>1. R \subseteq RangesOf(K)
    BY GoodFacts
  <2> QED
    BY <2>1 DEF GoodRanges
<1>3. rs \in Seq(RangesOf(K2))
  <2>1. K \subseteq K2
    OBVIOUS
  <2>2. Seq(K) \subseteq Seq(K2)
    BY <2>1, SeqWider
  <2> HIDE DEF K2
  <2>3. RangesOf(K) \subseteq RangesOf(K2)
    BY <2>2 DEF RangesOf
  <2> QED
    BY <1>2, <2>3, SeqWider
<1> HIDE DEF n, log2, K2, R
<1>4. ASSUME NEW r \in R, NEW i \in 1 .. Len(r.active)
      PROVE  r.active[i] \in 1 .. n /\ log2[r.active[i]] = log[r.active[i]]
  <2>1. r.active[i] \in K
    BY <1>2, ModuleFacts
  <2> QED
    BY <1>1, <2>1 DEF n
<1>5. ASSUME NEW r \in R PROVE Fits(log2, r)
  <2>1. Fits(log, r)
    BY <1>2 DEF Good
  <2> QED
    BY <1>4, <2>1 DEF Fits
<1>6. Edges(log2, R)
  <2>1. Edges(log, R)
    BY <1>2 DEF Good
  <2> QED
    BY <1>4, <2>1 DEF Edges
<1>7. ASSUME InOrder(log2) PROVE (\A r \in R : Increasing(r.active)) /\ Latest(log2, R, n)
  <2>1. InOrder(log)
    BY <1>1, <1>7 DEF InOrder, n
  <2>2. (\A r \in R : Increasing(r.active)) /\ Latest(log, R, n)
    BY <1>2, <2>1 DEF Good
  <2>3. ASSUME NEW r \in R, NEW m \in 1 .. n, Meets(log2, r, m) PROVE Known(log2, r.active, m)
    <3>1. log2[m] = log[m]
      BY <1>1
    <3>2. Meets(log, r, m)
      BY <2>3, <3>1 DEF Meets
    <3>3. Known(log, r.active, m)
      BY <2>2, <3>2 DEF Latest
    <3> QED
      BY <1>4, <3>1, <3>3 DEF Known
  <2> QED
    BY <2>2, <2>3 DEF Latest
<1>8. MissedBeside(log2, R, n)
  <2>1. MissedBeside(log, R, n)
    BY <1>2 DEF Good
  <2>2. ASSUME NEW k \in 1 .. n, NEW a \in Int, log2[k].base <= a, a < log2[k].end
        PROVE  Covered(R, a) \/ Beside(log2, k, a)
    <3>1. log2[k] = log[k] /\ \A j \in 1 .. k - 1 : j \in 1 .. n /\ log2[j] = log[j]
      BY <1>1
    <3>2. Covered(R, a) \/ Beside(log, k, a)
      BY <2>1, <2>2, <3>1 DEF MissedBeside
    <3>3. Beside(log, k, a) => Beside(log2, k, a)
      BY <3>1 DEF Beside
    <3> QED
      BY <3>2, <3>3
  <2> QED
    BY <2>2 DEF MissedBeside
<1>9. Good(log2, R, n)
  BY <1>5, <1>6, <1>7, <1>8 DEF Good
<1> QED
  BY <1>2, <1>3, <1>9 DEF GoodRanges, n, log2, K2, R

\* The first module of all.
LEMMA FirstGood ==
  ASSUME NEW log \in Seq(Loads), NEW k \in 1 .. Len(log), NEW K, K \subseteq 1 .. k, k \in K,
         GoodRanges(log, <<>>, k - 1, K)
  PROVE  GoodRanges(log, inserted(log, <<>>, k), k, K)
<1>1. /\ log[k].base \in Int /\ log[k].end \in Int /\ log[k].base < log[k].end
      /\ k - 1 \in Nat /\ k - 1 < k /\ K \subseteq Int
  <2>1. log[k].base \in Int /\ log[k].end \in Int /\ log[k].base < log[k].end
    BY ModuleFacts, 1 .. Len(log) \subseteq 1 .. Len(log)
  <2>2. Len(log) \in Nat
    OBVIOUS
  <2> QED
    BY <2>1, <2>2
<1>2. PICK b \in Int, e \in Int, m \in 0 .. Len(<<>>) : b = log[k].base /\ e = log[k].end /\ m = 0
  BY <1>1
<1> DEFINE rs  == <<>>
           new == NewRange(b, e, k)
           t   == behind(rs, m, new)
<1>3. GoodRanges(log, t, k - 1, K)
  <2>1. \A i \in 1 .. Len(rs) : FALSE
    OBVIOUS
  <2>2. /\ \A i \in 1 .. Len(rs) : i <= m => rs[i].end <= b
        /\ \A i \in 1 .. Len(rs) : m < i => e <= rs[i].begin
    BY <2>1
  <2>3. /\ GoodRanges(log, rs, k - 1, K) /\ m \in 0 .. Len(rs)
        /\ b < e /\ log[k].base <= b /\ e <= log[k].end
        /\ (b = log[k].base \/ \E s \in SetOf(rs) : s.end = b)
        /\ (e = log[k].end \/ \E s \in SetOf(rs) : s.begin = e)
    BY <1>1, <1>2
  <2> HIDE DEF rs
  <2> QED
    BY <1>1, <2>2, <2>3, NewRangeGoodRanges
<1>4. new \in RangesOf(K)
  BY <1>1, <1>2 DEF NewRange, RangesOf
<1>5. inserted(log, <<>>, k) = <<new>>
  BY <1>2 DEF inserted
<1>6. t = <<new>>
  BY <1>2 DEF behind
<1>7. PICK R : R = {}
  OBVIOUS
<1>8. SetOf(t) = R \cup {new}
  BY <1>6, <1>7, SetOfOne
<1>9. \A r \in R : ~Meets(log, r, k)
  BY <1>7
<1> HIDE DEF t
<1>10. GoodRanges(log, t, k, K)
  BY <1>2, <1>3, <1>8, <1>9, AloneGood
<1> QED
  BY <1>5, <1>6, <1>10

LEMMA InitIInv == Init => IInv
<1> SUFFICES ASSUME Init PROVE IInv
  OBVIOUS
<1>1. loaded = <<>> /\ modules = {} /\ ranges = <<>> /\ SetOf(ranges) = {}
  BY DEF Init, SetOf
<1>2. loaded \in Seq(Loads) /\ ranges \in Seq(RangesOf(modules)) /\ Len(loaded) = 0
  BY <1>1
<1>3. Good(loaded, SetOf(ranges), 0) /\ Apart(ranges)
  BY <1>1 DEF Good, Edges, Latest, MissedBeside, Apart
<1> QED
  BY <1>1, <1>2, <1>3 DEF IInv, GoodRanges

LEMMA NextIInv == IInv /\ [Next]_vars => IInv'
<1> SUFFICES ASSUME IInv, [Next]_vars PROVE IInv'
  OBVIOUS
<1>1. CASE UNCHANGED vars
  BY <1>1 DEF vars, IInv
<1>2. ASSUME NEW l \in Loads, Insert(l) PROVE IInv'
  <2> DEFINE k == Len(loaded) + 1
             K == modules \cup {k}
  <2>1. /\ loaded \in Seq(Loads) /\ modules \subseteq 1 .. Len(loaded)
        /\ GoodRanges(loaded, ranges, Len(loaded), modules)
    BY DEF IInv
  <2>2. /\ loaded' = Append(loaded, l) /\ Len(loaded') = k
        /\ ranges' = inserted(loaded', ranges, Len(loaded'))
        /\ modules' = IF ranges # <<>> /\ ranges' = ranges THEN modules ELSE K
    BY <1>2, <2>1 DEF Insert
  <2>3. loaded' \in Seq(Loads) /\ Len(loaded) \in Nat
    BY <2>1, <2>2
  <2>4. k \in 1 .. Len(loaded') /\ k - 1 = Len(loaded) /\ K \subseteq 1 .. k /\ k \in K
    <3>1. Len(loaded) \in Nat /\ modules \subseteq 1 .. Len(loaded) /\ Len(loaded') = k
      BY <2>1, <2>2, <2>3
    <3>2. k \in 1 .. k /\ k - 1 = Len(loaded) /\ 1 .. Len(loaded) \subseteq 1 .. k
      BY <3>1
    <3> QED
      BY <3>1, <3>2
  <2>5. GoodRanges(loaded', ranges, Len(loaded), K)
    BY <2>1, <2>2, LogGrows
  <2> HIDE DEF K
  <2>6. GoodRanges(loaded', ranges', k, K)
    <3>1. CASE ranges = <<>>
      BY <2>2, <2>3, <2>4, <2>5, <3>1, FirstGood
    <3>2. CASE ranges # <<>>
      <4>1. ASSUME NEW r \in SetOf(ranges), NEW i \in 1 .. Len(r.active) PROVE r.active[i] < k
        <5>1. r \in RangesOf(modules)
          BY <2>1, GoodFacts
        <5>2. r.active[i] \in modules
          BY <2>1, <5>1, ModuleFacts
        <5>3. r.active[i] \in 1 .. Len(loaded) /\ Len(loaded) \in Nat
          BY <2>1, <2>3, <5>2
        <5> QED
          BY <5>3
      <4>2. Older(loaded', ranges, k, K)
        BY <2>4, <2>5, <3>2, <4>1 DEF Older
      <4> QED
        BY <2>2, <2>3, <2>4, <4>2, InsertedGood
    <3> QED
      BY <3>1, <3>2
  <2>7. GoodRanges(loaded', ranges', k, modules')
    <3>1. CASE ranges # <<>> /\ ranges' = ranges
      <4>1. ranges' \in Seq(RangesOf(modules')) /\ modules' = modules
        BY <2>1, <2>2, <3>1 DEF GoodRanges
      <4> QED
        BY <2>6, <4>1 DEF GoodRanges
    <3>2. CASE ~(ranges # <<>> /\ ranges' = ranges)
      BY <2>2, <2>6, <3>2
    <3> QED
      BY <3>1, <3>2
  <2>8. modules' \subseteq 1 .. k
    BY <2>1, <2>2, <2>3, <2>4
  <2> QED
    BY <2>2, <2>3, <2>7, <2>8 DEF IInv
<1> QED
  BY <1>1, <1>2 DEF Next

-----------------------------------------------------------------------------
(* What find() gives. *)

\* Ranges that are sound, stated of every pair of neighbours.
LEMMA IInvRangesSound == IInv => RangesSound
<1> SUFFICES ASSUME IInv PROVE RangesSound
  OBVIOUS
<1>1. loaded \in Seq(Loads) /\ modules \subseteq 1 .. Len(loaded) /\ GoodRanges(loaded, ranges, Len(loaded), modules)
  BY DEF IInv
<1>2. /\ Len(ranges) \in Nat /\ Apart(ranges)
      /\ \A i \in 1 .. Len(ranges) :
           /\ Fits(loaded, ranges[i]) /\ ranges[i] \in RangesOf(modules)
           /\ ranges[i].begin \in Int /\ ranges[i].end \in Int /\ ranges[i].begin < ranges[i].end
  BY <1>1, GoodFacts DEF GoodRanges
<1>3. ASSUME NEW i \in 1 .. Len(ranges) - 1 PROVE ranges[i].end <= ranges[i + 1].begin
  <2>1. i \in 1 .. Len(ranges) /\ i + 1 \in 1 .. Len(ranges) /\ i < i + 1
    BY <1>2
  <2> QED
    BY <1>2, <2>1 DEF Apart
<1>4. ASSUME NEW i \in 1 .. Len(ranges)
      PROVE  LET active == ranges[i].active
             IN  /\ active # <<>>
                 /\ \A j \in 1 .. Len(active) - 1 :
                      loaded[active[j]].time <= loaded[active[j + 1]].time
                 /\ \A j \in 1 .. Len(active) :
                      /\ active[j] \in modules
                      /\ \A a \in ranges[i].begin .. ranges[i].end - 1 : Covers(active[j], a)
  <2> DEFINE active == ranges[i].active
  <2>1. /\ active # <<>>
        /\ \A j, m \in 1 .. Len(active) : j < m => loaded[active[j]].time <= loaded[active[m]].time
        /\ \A j \in 1 .. Len(active) : loaded[active[j]].base <= ranges[i].begin /\ ranges[i].end <= loaded[active[j]].end
    BY <1>2 DEF Fits
  <2>2. Len(active) \in Nat /\ \A j \in 1 .. Len(active) : active[j] \in modules /\ active[j] \in 1 .. Len(loaded)
    BY <1>1, <1>2, ModuleFacts
  <2> HIDE DEF active
  <2>3. ASSUME NEW j \in 1 .. Len(active) - 1 PROVE loaded[active[j]].time <= loaded[active[j + 1]].time
    <3>1. j \in 1 .. Len(active) /\ j + 1 \in 1 .. Len(active) /\ j < j + 1
      BY <2>2
    <3> QED
      BY <2>1, <3>1
  <2>4. ASSUME NEW j \in 1 .. Len(active), NEW a \in ranges[i].begin .. ranges[i].end - 1
        PROVE  Covers(active[j], a)
    <3>1. /\ ranges[i].begin \in Int /\ ranges[i].end \in Int
          /\ loaded[active[j]].base \in Int /\ loaded[active[j]].end \in Int
          /\ loaded[active[j]].base <= ranges[i].begin /\ ranges[i].end <= loaded[active[j]].end
      BY <1>1, <1>2, <2>1, <2>2, ModuleFacts
    <3>2. loaded[active[j]].base <= a /\ a < loaded[active[j]].end
      BY <3>1
    <3> QED
      BY <3>2 DEF Covers
  <2> QED
    BY <2>1, <2>2, <2>3, <2>4 DEF active
<1> QED
  BY <1>2, <1>3, <1>4 DEF RangesSound

\* Neighbours are in order, so all are.
LEMMA SortedInOrder ==
  ASSUME loaded \in Seq(Loads), EventsSorted
  PROVE  InOrder(loaded)
<1>1. Len(loaded) \in Nat /\ \A k \in 1 .. Len(loaded) : loaded[k].time \in Int
  <2>1. Len(loaded) \in Nat /\ \A k \in 1 .. Len(loaded) : loaded[k].time \in 1 .. MaxTime
    BY ModuleFacts, 1 .. Len(loaded) \subseteq 1 .. Len(loaded)
  <2> QED
    BY <2>1
<1>2. SUFFICES ASSUME NEW i \in 1 .. Len(loaded)
               PROVE  \A j \in 1 .. Len(loaded) : i <= j => loaded[i].time <= loaded[j].time
  BY DEF InOrder
<1> DEFINE T == {j \in 1 .. Len(loaded) : i <= j /\ ~(loaded[i].time <= loaded[j].time)}
<1>3. ASSUME T # {} PROVE FALSE
  <2>1. T \subseteq Nat
    BY <1>1
  <2>2. PICK j \in T : \A m \in T : j <= m
    <3> HIDE DEF T
    <3> QED
      BY <1>3, <2>1, Smallest
  <2>3. j # i /\ i <= j /\ j \in 1 .. Len(loaded)
    BY <1>1, <2>2
  <2>4. j - 1 \in 1 .. Len(loaded) - 1 /\ i <= j - 1 /\ j - 1 < j /\ (j - 1) + 1 = j /\ j - 1 \in 1 .. Len(loaded)
    BY <1>1, <2>3
  <2>5. j - 1 \notin T
    <3> HIDE DEF T
    <3>1. j \in Int /\ ~(j <= j - 1)
      BY <2>3
    <3> QED
      BY <2>2, <3>1
  <2>6. loaded[i].time <= loaded[j - 1].time
    BY <2>4, <2>5
  <2>7. loaded[j - 1].time <= loaded[j].time
    BY <2>4 DEF EventsSorted
  <2>8. loaded[i].time \in Int /\ loaded[j - 1].time \in Int /\ loaded[j].time \in Int
    BY <1>1, <2>3, <2>4
  <2>9. ~(loaded[i].time <= loaded[j].time)
    BY <2>2
  <2> QED
    BY <2>6, <2>7, <2>8, <2>9
<1> QED
  BY <1>3

\* find() takes the last module of the range that is loaded by then.
LEMMA FoundFacts ==
  ASSUME IInv, NEW a \in Int, NEW t \in Int
  PROVE  /\ found(ranges, a, t) \in 0 .. Len(loaded)
         /\ found(ranges, a, t) # 0 =>
              \E i \in 1 .. Len(ranges) : \E x \in 1 .. Len(ranges[i].active) :
                /\ ranges[i].begin <= a /\ a < ranges[i].end
                /\ found(ranges, a, t) = ranges[i].active[x]
                /\ loaded[ranges[i].active[x]].time <= t
                /\ \A y \in 1 .. Len(ranges[i].active) : loaded[ranges[i].active[y]].time <= t => y <= x
         /\ found(ranges, a, t) = 0 =>
              \A i \in 1 .. Len(ranges) :
                ranges[i].begin <= a /\ a < ranges[i].end =>
                  \E j \in 1 .. Len(ranges) :
                    /\ ranges[j].begin <= a /\ a < ranges[j].end
                    /\ \A y \in 1 .. Len(ranges[j].active) : ~(loaded[ranges[j].active[y]].time <= t)
<1>1. loaded \in Seq(Loads) /\ modules \subseteq 1 .. Len(loaded) /\ GoodRanges(loaded, ranges, Len(loaded), modules)
  BY DEF IInv
<1>2. Len(loaded) \in Nat
  BY <1>1
<1> DEFINE at == {i \in 1 .. Len(ranges) : ranges[i].begin <= a /\ a < ranges[i].end}
<1>3. CASE at = {}
  <2>1. found(ranges, a, t) = 0
    BY <1>3 DEF found
  <2> QED
    BY <1>2, <1>3, <2>1
<1>4. CASE at # {}
  <2> DEFINE i == CHOOSE i \in at : TRUE
             active == ranges[i].active
             early  == {x \in 1 .. Len(active) : loaded[active[x]].time <= t}
  <2>1. i \in at
    BY <1>4
  <2>2. i \in 1 .. Len(ranges) /\ ranges[i].begin <= a /\ a < ranges[i].end
    BY <2>1
  <2>3. found(ranges, a, t) = IF early = {} THEN 0
                              ELSE active[CHOOSE x \in early : \A y \in early : y <= x]
    BY <1>4 DEF found
  <2> HIDE DEF i, at
  <2>4. ranges[i] \in RangesOf(modules)
    BY <1>1, <2>2, GoodFacts
  <2>5. Len(active) \in Nat /\ \A y \in 1 .. Len(active) : active[y] \in 1 .. Len(loaded)
    BY <1>1, <2>4, ModuleFacts
  <2>6. CASE early = {}
    <3>1. found(ranges, a, t) = 0
      BY <2>3, <2>6
    <3>2. \A y \in 1 .. Len(active) : ~(loaded[active[y]].time <= t)
      BY <2>6
    <3> QED
      BY <1>2, <2>2, <3>1, <3>2
  <2>7. CASE early # {}
    <3> DEFINE x == CHOOSE x \in early : \A y \in early : y <= x
    <3>1. \E z \in early : \A y \in early : y <= z
      <4>1. early \subseteq 1 .. Len(active)
        OBVIOUS
      <4> HIDE DEF early
      <4> QED
        BY <2>5, <2>7, <4>1, Greatest
    <3>2. x \in early /\ \A y \in early : y <= x
      BY <3>1
    <3>3. found(ranges, a, t) = active[x]
      BY <2>3, <2>7
    <3> HIDE DEF x
    <3>4. x \in 1 .. Len(active) /\ loaded[active[x]].time <= t
      BY <3>2
    <3>5. \A y \in 1 .. Len(active) : loaded[active[y]].time <= t => y <= x
      BY <3>2
    <3>6. active[x] \in 0 .. Len(loaded) /\ active[x] # 0
      BY <1>2, <2>5, <3>4
    <3> QED
      BY <2>2, <3>3, <3>4, <3>5, <3>6
  <2> QED
    BY <2>6, <2>7
<1> QED
  BY <1>3, <1>4

LEMMA IInvFindsLatest == IInv => FindsLatest
<1> SUFFICES ASSUME IInv PROVE FindsLatest
  OBVIOUS
<1>1. loaded \in Seq(Loads) /\ modules \subseteq 1 .. Len(loaded) /\ GoodRanges(loaded, ranges, Len(loaded), modules)
  BY DEF IInv
<1>2. /\ Len(loaded) \in Nat
      /\ \A k \in 1 .. Len(loaded) : loaded[k].base \in Int /\ loaded[k].end \in Int /\ loaded[k].time \in Int
  <2>1. /\ Len(loaded) \in Nat
        /\ \A k \in 1 .. Len(loaded) :
             loaded[k].base \in Int /\ loaded[k].end \in Int /\ loaded[k].time \in 1 .. MaxTime
    BY <1>1, ModuleFacts
  <2> QED
    BY <2>1
<1>3. Addresses \subseteq Int /\ Times \subseteq Int
  BY BoundsAssumption DEF Addresses, Times
<1>4. ASSUME NEW a \in Addresses, NEW t \in Times, found(ranges, a, t) # 0
      PROVE  LET m == found(ranges, a, t)
             IN  /\ Covers(m, a) /\ loaded[m].time <= t
                 /\ EventsSorted => \A k \in 1 .. Len(loaded) :
                      Covers(k, a) /\ loaded[m].time < loaded[k].time /\ loaded[k].time <= t
                        => loaded[k].payload = loaded[m].payload
  <2> DEFINE m == found(ranges, a, t)
  <2>1. a \in Int /\ t \in Int
    BY <1>3
  <2>2. PICK i \in 1 .. Len(ranges) : \E x \in 1 .. Len(ranges[i].active) :
          /\ ranges[i].begin <= a /\ a < ranges[i].end
          /\ m = ranges[i].active[x]
          /\ loaded[ranges[i].active[x]].time <= t
          /\ \A y \in 1 .. Len(ranges[i].active) : loaded[ranges[i].active[y]].time <= t => y <= x
    BY <1>4, <2>1, FoundFacts
  <2> DEFINE r == ranges[i]
  <2>3. PICK x \in 1 .. Len(r.active) :
          /\ r.begin <= a /\ a < r.end
          /\ m = r.active[x]
          /\ loaded[r.active[x]].time <= t
          /\ \A y \in 1 .. Len(r.active) : loaded[r.active[y]].time <= t => y <= x
    BY <2>2
  <2>4. /\ r \in RangesOf(modules) /\ r \in SetOf(ranges) /\ Fits(loaded, r)
        /\ r.begin \in Int /\ r.end \in Int
    BY <1>1, GoodFacts
  <2>5. Len(r.active) \in Nat /\ \A y \in 1 .. Len(r.active) : r.active[y] \in 1 .. Len(loaded)
    BY <1>1, <2>4, ModuleFacts
  <2>6. m \in 1 .. Len(loaded) /\ m \in Int
    BY <2>3, <2>5
  <2> HIDE DEF m, r
  <2>7. Covers(m, a)
    <3>1. loaded[m].base <= r.begin /\ r.end <= loaded[m].end
      BY <2>3, <2>4 DEF Fits
    <3>2. loaded[m].base \in Int /\ loaded[m].end \in Int /\ r.begin <= a /\ a < r.end
      BY <1>2, <2>3, <2>6
    <3>3. loaded[m].base <= a /\ a < loaded[m].end
      BY <2>1, <2>4, <3>1, <3>2
    <3> QED
      BY <3>3 DEF Covers
  <2>8. ASSUME EventsSorted, NEW k \in 1 .. Len(loaded), Covers(k, a), loaded[m].time < loaded[k].time, loaded[k].time <= t
        PROVE  loaded[k].payload = loaded[m].payload
    <3>1. InOrder(loaded)
      BY <1>1, <2>8, SortedInOrder
    <3>2. Increasing(r.active) /\ Latest(loaded, SetOf(ranges), Len(loaded))
      BY <1>1, <2>4, <3>1 DEF GoodRanges, Good
    <3>3. Meets(loaded, r, k)
      <4>1. /\ loaded[k].base <= a /\ a < loaded[k].end /\ loaded[k].base \in Int /\ loaded[k].end \in Int
            /\ r.begin <= a /\ a < r.end
        BY <1>2, <2>3, <2>8 DEF Covers
      <4>2. loaded[k].base < r.end /\ r.begin < loaded[k].end
        BY <2>1, <2>4, <4>1
      <4> QED
        BY <4>2 DEF Meets
    <3>4. Known(loaded, r.active, k)
      BY <2>4, <3>2, <3>3 DEF Latest
    <3>5. x \in 1 .. Len(r.active) /\ m = r.active[x]
      BY <2>3
    <3>6. ASSUME NEW y \in 1 .. Len(r.active), loaded[r.active[y]].time <= t PROVE y <= x
      BY <2>3, <3>6
    <3>7. CASE \E y \in 1 .. Len(r.active) : r.active[y] = k
      <4>1. PICK y \in 1 .. Len(r.active) : r.active[y] = k
        BY <3>7
      <4>2. y <= x
        BY <2>8, <3>6, <4>1
      <4>3. y # x
        BY <1>2, <2>6, <2>8, <3>5, <4>1
      <4>4. y < x
        BY <2>5, <3>5, <4>2, <4>3
      <4>5. loaded[k].time <= loaded[m].time
        BY <2>4, <3>5, <4>1, <4>4 DEF Fits
      <4> QED
        BY <1>2, <2>6, <2>8, <4>5
    <3>8. CASE ~\E y \in 1 .. Len(r.active) : r.active[y] = k
      <4>1. m < k
        <5>1. k <= m => loaded[k].time <= loaded[m].time
          BY <2>6, <3>1 DEF InOrder
        <5>2. ~(loaded[k].time <= loaded[m].time)
          BY <1>2, <2>6, <2>8
        <5>3. ~(k <= m) /\ k \in Int
          BY <5>1, <5>2
        <5> QED
          BY <2>6, <5>3
      <4>2. ASSUME NEW y \in 1 .. Len(r.active), r.active[y] < k PROVE r.active[y] <= r.active[x]
        <5>1. r.active[y] \in 1 .. Len(loaded) /\ r.active[y] <= k
          BY <2>5, <4>2
        <5>2. loaded[r.active[y]].time <= loaded[k].time
          BY <3>1, <5>1 DEF InOrder
        <5>3. loaded[r.active[y]].time <= t
          <6>1. loaded[r.active[y]].time \in Int /\ loaded[k].time \in Int
            BY <1>2, <5>1
          <6> QED
            BY <2>1, <2>8, <5>2, <6>1
        <5>4. y <= x
          BY <3>6, <5>3
        <5>5. y < x => r.active[y] < r.active[x]
          BY <3>2, <3>5 DEF Increasing
        <5> QED
          BY <2>5, <2>6, <3>5, <5>1, <5>4, <5>5
      <4>3. loaded[r.active[x]].payload = loaded[k].payload
        BY <3>4, <3>5, <3>8, <4>1, <4>2 DEF Known
      <4> QED
        BY <3>5, <4>3
    <3> QED
      BY <3>7, <3>8
  <2> QED
    BY <2>3, <2>7, <2>8 DEF m
<1> QED
  BY <1>4, IInvRangesSound DEF FindsLatest

LEMMA IInvMisses == IInv => MissesOnlyBesideOthers
<1> SUFFICES ASSUME IInv, NEW k \in 1 .. Len(loaded), NEW a \in Addresses,
                    Covers(k, a), found(ranges, a, MaxTime) = 0
             PROVE  \E j \in 1 .. k - 1 :
                      /\ ~Covers(j, a)
                      /\ loaded[j].base < loaded[k].end /\ loaded[k].base < loaded[j].end
  BY DEF MissesOnlyBesideOthers
<1>1. loaded \in Seq(Loads) /\ modules \subseteq 1 .. Len(loaded) /\ GoodRanges(loaded, ranges, Len(loaded), modules)
  BY DEF IInv
<1>2. a \in Int /\ MaxTime \in Int
  BY BoundsAssumption DEF Addresses
<1>3. ~Covered(SetOf(ranges), a)
  <2>1. SUFFICES ASSUME NEW i \in 1 .. Len(ranges), ranges[i].begin <= a, a < ranges[i].end PROVE FALSE
    BY DEF Covered, SetOf
  <2>2. PICK j \in 1 .. Len(ranges) :
          \A y \in 1 .. Len(ranges[j].active) : ~(loaded[ranges[j].active[y]].time <= MaxTime)
    <3>1. PICK t \in Int : t = MaxTime
      BY <1>2
    <3>2. found(ranges, a, t) = 0
      BY <3>1
    <3>3. \A o \in 1 .. Len(ranges) :
            ranges[o].begin <= a /\ a < ranges[o].end =>
              \E j \in 1 .. Len(ranges) :
                /\ ranges[j].begin <= a /\ a < ranges[j].end
                /\ \A y \in 1 .. Len(ranges[j].active) : ~(loaded[ranges[j].active[y]].time <= t)
      BY <1>2, <3>2, FoundFacts
    <3>4. \E j \in 1 .. Len(ranges) :
            /\ ranges[j].begin <= a /\ a < ranges[j].end
            /\ \A y \in 1 .. Len(ranges[j].active) : ~(loaded[ranges[j].active[y]].time <= t)
      BY <2>1, <3>3
    <3> QED
      BY <3>1, <3>4
  <2>3. ranges[j] \in RangesOf(modules) /\ ranges[j].active # <<>>
    BY <1>1, GoodFacts DEF Fits
  <2>4. ranges[j].active \in Seq(modules) /\ 1 \in 1 .. Len(ranges[j].active) /\ ranges[j].active[1] \in 1 .. Len(loaded)
    <3>1. ranges[j].active \in Seq(modules)
      BY <2>3 DEF RangesOf
    <3>2. 1 \in 1 .. Len(ranges[j].active)
      BY <2>3, <3>1
    <3>3. ranges[j].active[1] \in modules
      BY <3>1, <3>2
    <3> QED
      BY <1>1, <3>1, <3>2, <3>3
  <2>5. loaded[ranges[j].active[1]].time \in 1 .. MaxTime
    BY <1>1, <2>4, ModuleFacts
  <2> QED
    BY <1>2, <2>2, <2>4, <2>5
<1>4. Covered(SetOf(ranges), a) \/ Beside(loaded, k, a)
  BY <1>1, <1>2 DEF GoodRanges, Good, MissedBeside, Covers
<1> QED
  BY <1>3, <1>4 DEF Beside, Covers

\* The ranges are in order, and an address is given the latest module loaded there by
\* the time asked for; where a module was loaded, one is found unless it was inserted
\* over others beside the address.
THEOREM FindsModules == Spec => []ModulesFound
<1>1. IInv => ModulesFound
  BY IInvFindsLatest, IInvMisses DEF ModulesFound
<1> QED
  BY <1>1, InitIInv, NextIInv, PTL DEF Spec

-----------------------------------------------------------------------------
(* SymbolResolvers: the inductive invariant.                                *)

\* The module of a frame, and its image.
Mod(n) == found(ranges, world.frames[n][1], world.frames[n][2])
Img(n) == loaded[Mod(n)].payload

\* The options are those of the requests so far.
Handled == {i \in 1 .. requested : world.requests[i].set = "module filters"}
OptionsInv ==
  /\ requested \in 0 .. Len(world.requests)
  /\ options \in [search_dirs : Seq(Directory), servers : Urls, mode : {"all_but_excluded", "only_included"},
                  included : SUBSET Payloads, excluded : SUBSET Payloads]
  /\ \A image \in Payloads :
       /\ image \in options.included <=> \E i \in Handled : image \in world.requests[i].include
       /\ image \in options.excluded <=> \E i \in Handled : image \in world.requests[i].exclude
  /\ IF Handled = {} THEN options.mode = "all_but_excluded"
     ELSE \E last \in Handled :
            (\A i \in Handled : i <= last) /\ options.mode = world.requests[last].mode

\* Nobody has begun before the document is open and its recording read.
Untouched ==
  /\ directory = [image \in Payloads |-> Absent]
  /\ resolver = [r \in Resolvers |-> Fresh]
  /\ disturbed = {}
  /\ crashes = 0
SettingsInv ==
  /\ IInv
  /\ world \in World
  /\ OptionsInv
  /\ AllLoaded \/ Untouched

Steps   == {"resolve", "cache", "discard", "ask", "write", "downloaded", "read", "give up"}
Files   == [Pieces -> {"no file", "none", "own", "other"}]
Symbols == [image : Payloads \cup {"none"}, from : {"own", "other", NoSession}, raced : BOOLEAN]
Caches(K)  == UNION {[D -> Symbols] : D \in SUBSET K}
Lookups == [next : Nat \ {0}, pc : Steps, server : Nat, reply : Replies \cup {"none"}, piece : 0 .. 2,
            open : BOOLEAN, sessions : Caches(Int), symbols : Caches(Int \X Int)]
SymbolTypes ==
  /\ directory \in [Payloads -> Files]
  /\ resolver \in [Resolvers -> Lookups]
  /\ crashes \in Nat

Busy(self) == self.pc # "resolve"

\* A resolver looks up an image that is known and wanted and not on the local disk, of
\* a module for which it has no session.
Wanted(self) ==
  /\ self.next \in 1 .. Len(world.frames)
  /\ Mod(self.next) # 0
  /\ key(Mod(self.next)) \notin DOMAIN self.sessions
  /\ info(Img(self.next)) /\ check(Img(self.next))
  /\ \A i \in 1 .. Len(candidates(Img(self.next))) :
       ~accepted(Img(self.next), candidates(Img(self.next))[i])

\* Where it may be.
Placed(self, file) ==
  /\ self.server <= Len(options.servers)
  /\ self.open => file # Absent
  /\ self.pc = "cache" => ~self.open /\ self.server = 0
  /\ self.pc = "ask" => ~self.open /\ self.server > 0 /\ self.piece = 0
  /\ self.pc = "give up" => ~self.open /\ self.server = Len(options.servers)
  /\ self.pc = "write" => /\ self.reply \in {"own", "other", "broken"}
                          /\ self.server > 0
                          /\ \/ self.piece = 0 /\ ~self.open
                             \/ self.piece = 1 /\ self.reply # "broken"
  /\ self.pc = "downloaded" => self.server > 0 /\ self.reply \in {"own", "other"}

\* What it knows of the file as long as nobody has disturbed it, and of the servers
\* it has asked.
Knows(self, file) ==
  /\ self.pc = "write" /\ self.piece = 1 => self.open /\ file = [Empty EXCEPT ![1] = self.reply]
  /\ self.pc = "downloaded" => self.open /\ file = Whole(self.reply)
  /\ self.pc = "read" => /\ file # Absent
                         /\ world.kind = "pdb" => content(file) = "own"
                         /\ self.open => content(file) # "unreadable"
  /\ self.pc \in {"ask", "write", "downloaded"} =>
       \A s \in 1 .. self.server - 1 : options.servers[s] # {"own"}
  /\ self.pc \in {"write", "downloaded"} => self.reply \in options.servers[self.server]
  /\ self.pc \in {"discard", "give up"} => \A s \in 1 .. self.server : options.servers[s] # {"own"}

LookupInv(self, file, raced) ==
  IF Busy(self) THEN Wanted(self) /\ Placed(self, file) /\ (raced \/ Knows(self, file))
  ELSE ~self.open /\ self.server = 0

\* Nobody has a file open without those at the same file being disturbed.
Together(self, other) == Busy(self) /\ Busy(other) /\ Img(self.next) = Img(other.next)
OpenDisturbs ==
  \A r, s \in Resolvers : r # s /\ Together(resolver[r], resolver[s]) /\ resolver[s].open => r \in disturbed

\* Files that are not whole are someone's who will notice, or, if they are binaries and
\* somebody was killed or disturbed, may be there for good.
Doubt == crashes > 0 \/ SomebodyRaced
FilesInv ==
  \A image \in Payloads :
    directory[image] # Absent =>
      IF world.kind = "pdb"
      THEN \/ content(directory[image]) = "own" \/ crashes > 0
           \/ \E r \in Resolvers : /\ resolver[r].pc \in {"write", "downloaded", "discard"}
                                   /\ Img(resolver[r].next) = image
      ELSE \/ content(directory[image]) # "unreadable" \/ Doubt
           \/ \E r \in Resolvers : /\ Busy(resolver[r]) /\ resolver[r].open
                                   /\ Img(resolver[r].next) = image

\* A session is of a module that was loaded at its time; it is what the properties say.
SessionInv(time, session) ==
  /\ \E j \in 1 .. Len(loaded) : loaded[j].time = time /\ loaded[j].payload = session.image
  /\ session.from # NoSession => check(session.image)
  /\ world.kind = "pdb" /\ info(session.image) /\ session.from = "other" => session.raced
  /\ /\ session.from = NoSession /\ check(session.image) /\ info(session.image)
     /\ \/ \E s \in 1 .. Len(options.servers) : options.servers[s] = {"own"}
        \/ \E i \in 1 .. Len(candidates(session.image)) : candidates(session.image)[i] = "own"
     => session.raced \/ (world.kind = "dwarf" /\ Doubt)
SessionsInv(self) == \A time \in DOMAIN self.sessions : SessionInv(time, self.sessions[time])

\* So is a symbol; every frame so far has one.
SymbolInv(time, symbol) ==
  IF time = NoModule THEN symbol.from = NoSession
  ELSE /\ \E j \in 1 .. Len(loaded) : loaded[j].time = time /\ loaded[j].payload = symbol.image
       /\ symbol.from # NoSession => check(symbol.image)
SymbolsInv(self) ==
  /\ \A at \in DOMAIN self.symbols : SymbolInv(at[1], self.symbols[at])
  /\ \A i \in 1 .. self.next - 1 :
       /\ i <= Len(world.frames)
       /\ <<key(Mod(i)), world.frames[i][1]>> \in DOMAIN self.symbols

SInv ==
  /\ SettingsInv
  /\ SymbolTypes
  /\ \A r \in Resolvers : LookupInv(resolver[r], directory[Img(resolver[r].next)], r \in disturbed)
  /\ OpenDisturbs
  /\ FilesInv
  /\ \A r \in Resolvers : SessionsInv(resolver[r]) /\ SymbolsInv(resolver[r])

-----------------------------------------------------------------------------
(* What is known of the world, the options and the frames.                  *)

LEMMA WorldFacts ==
  ASSUME world \in World
  PROVE  /\ world.kind \in {"pdb", "dwarf"}
         /\ world.requests \in Seq(OptionsRequests) /\ Len(world.requests) \in Nat
         /\ world.default_urls \in Urls
         /\ world.loads \in Seq(Loads) /\ Len(world.loads) \in Nat
         /\ world.frames \in Seq(Addresses \X Times) /\ Len(world.frames) \in Nat
         /\ world.binary \in Directory /\ world.reference \in Directory /\ world.next_to_module \in Directory
<1>1. /\ world.kind \in {"pdb", "dwarf"} /\ world.requests \in Seq(OptionsRequests)
      /\ world.default_urls \in Urls /\ world.loads \in Seq(Loads)
      /\ world.frames \in Seq(Addresses \X Times)
      /\ world.binary \in Directory /\ world.reference \in Directory /\ world.next_to_module \in Directory
  BY DEF World
<1>2. \A S : \A s \in Seq(S) : Len(s) \in Nat
  OBVIOUS
<1> QED
  BY <1>1, <1>2

LEMMA FrameFacts ==
  ASSUME SettingsInv, NEW n \in 1 .. Len(world.frames)
  PROVE  /\ world.frames[n][1] \in Addresses /\ world.frames[n][1] \in Int
         /\ Mod(n) \in 0 .. Len(loaded)
         /\ key(Mod(n)) \in Int /\ (key(Mod(n)) = NoModule <=> Mod(n) = 0)
         /\ Mod(n) # 0 => /\ Mod(n) \in 1 .. Len(loaded)
                          /\ Img(n) \in Payloads /\ loaded[Mod(n)].payload = Img(n)
                          /\ key(Mod(n)) = loaded[Mod(n)].time
<1>1. IInv /\ world \in World /\ loaded \in Seq(Loads) /\ Len(loaded) \in Nat
  BY DEF SettingsInv, IInv
<1>2. world.frames[n] \in Addresses \X Times
  BY <1>1, WorldFacts
<1>3. world.frames[n][1] \in Addresses /\ world.frames[n][2] \in Times
  BY <1>2
<1>4. world.frames[n][1] \in Int /\ world.frames[n][2] \in Int
  BY <1>3, BoundsAssumption DEF Addresses, Times
<1>5. Mod(n) \in 0 .. Len(loaded)
  <2>1. \A a, t \in Int : found(ranges, a, t) \in 0 .. Len(loaded)
    BY <1>1, FoundFacts
  <2> QED
    BY <1>4, <2>1 DEF Mod
<1>6. CASE Mod(n) = 0
  BY <1>3, <1>4, <1>5, <1>6 DEF key, NoModule
<1>7. CASE Mod(n) # 0
  <2>1. Mod(n) \in 1 .. Len(loaded)
    BY <1>1, <1>5, <1>7
  <2>2. loaded[Mod(n)] \in Loads
    BY <1>1, <2>1
  <2>3. loaded[Mod(n)].payload \in Payloads /\ loaded[Mod(n)].time \in 1 .. MaxTime
    BY <2>2 DEF Loads, Times
  <2>4. key(Mod(n)) = loaded[Mod(n)].time
    BY <1>7 DEF key
  <2>5. loaded[Mod(n)].time \in Int /\ loaded[Mod(n)].time # 0
    BY <2>3
  <2> QED
    BY <1>3, <1>4, <1>5, <1>7, <2>1, <2>3, <2>4, <2>5 DEF Img, NoModule
<1> QED
  BY <1>6, <1>7

\* What the properties call hidden is what the filter of the resolvers leaves out.
LEMMA HiddenIsUnchecked ==
  ASSUME SettingsInv, AllSet, NEW image \in Payloads
  PROVE  Hidden(image) <=> ~check(image)
<1>1. OptionsInv /\ requested = Len(world.requests) /\ Handled = Filters
  BY DEF SettingsInv, AllSet, Handled, Filters
<1>2. /\ image \in options.included <=> \E i \in Filters : image \in world.requests[i].include
      /\ image \in options.excluded <=> \E i \in Filters : image \in world.requests[i].exclude
  BY <1>1 DEF OptionsInv
<1>3. CASE Filters = {}
  <2>1. options.mode = "all_but_excluded"
    BY <1>1, <1>3 DEF OptionsInv
  <2> QED
    BY <1>2, <1>3, <2>1 DEF Hidden, check
<1>4. CASE Filters # {}
  <2>1. PICK last \in Filters : (\A i \in Filters : i <= last) /\ options.mode = world.requests[last].mode
    BY <1>1, <1>4 DEF OptionsInv
  <2>2. ASSUME NEW other \in Filters, \A i \in Filters : i <= other PROVE other = last
    <3>1. \A x \in Filters : x \in Int
      <4>1. Len(world.requests) \in Nat
        BY WorldFacts DEF SettingsInv
      <4>2. \A x \in 1 .. Len(world.requests) : x \in Int
        BY <4>1
      <4> QED
        BY <4>2, Zenon DEF Filters
    <3>2. other <= last /\ last <= other
      BY <2>1, <2>2
    <3>3. other \in Int /\ last \in Int
      BY <3>1
    <3> HIDE DEF Filters
    <3> QED
      BY <3>2, <3>3
  <2>3. Hidden(image) <=> IF options.mode = "only_included"
                          THEN \A i \in Filters : image \notin world.requests[i].include
                          ELSE \E i \in Filters : image \in world.requests[i].exclude
    BY <2>1, <2>2 DEF Hidden
  <2> QED
    BY <1>2, <2>3 DEF check
<1> QED
  BY <1>3, <1>4

LEMMA CandidateFacts ==
  ASSUME SettingsInv, NEW image \in Payloads
  PROVE  /\ candidates(image) \in Seq(Places)
         /\ \A i \in 1 .. Len(candidates(image)) : candidates(image)[i] \in Places
         /\ accepted(image, "own") /\ ~accepted(image, "absent")
<1>1. /\ world.binary \in Directory /\ world.reference \in Directory /\ world.next_to_module \in Directory
      /\ options.search_dirs \in Seq(Directory)
  BY WorldFacts DEF SettingsInv, OptionsInv
<1>2. \A d \in Directory : d[image] \in Places
  BY DEF Directory
<1> DEFINE n    == Len(options.search_dirs)
           dirs == [i \in DOMAIN options.search_dirs |-> options.search_dirs[i][image]]
           first == IF world.kind = "dwarf" THEN <<world.binary[image]>>
                    ELSE (IF info(image) THEN <<world.reference[image]>> ELSE <<>>) \o <<world.next_to_module[image]>>
<1>3. dirs \in Seq(Places)
  <2>1. n \in Nat /\ DOMAIN options.search_dirs = 1 .. n /\ \A i \in 1 .. n : options.search_dirs[i] \in Directory
    BY <1>1
  <2>2. \A i \in 1 .. n : options.search_dirs[i][image] \in Places
    BY <1>2, <2>1
  <2>3. dirs \in [1 .. n -> Places]
    BY <2>1, <2>2
  <2> QED
    BY <2>1, <2>3
<1>4. first \in Seq(Places)
  <2>1. /\ world.binary[image] \in Places /\ world.reference[image] \in Places
        /\ world.next_to_module[image] \in Places
    BY <1>1, <1>2
  <2>2. \A x \in Places : <<x>> \in Seq(Places)
    OBVIOUS
  <2>3. <<>> \in Seq(Places)
    OBVIOUS
  <2>4. \A s, t \in Seq(Places) : s \o t \in Seq(Places)
    OBVIOUS
  <2>5. (IF info(image) THEN <<world.reference[image]>> ELSE <<>>) \in Seq(Places)
    BY <2>1, <2>2, <2>3
  <2> QED
    BY <2>1, <2>2, <2>4, <2>5
<1>5. candidates(image) = first \o dirs
  BY DEF candidates
<1> HIDE DEF first, dirs
<1>6. candidates(image) \in Seq(Places)
  BY <1>3, <1>4, <1>5
<1>7. \A i \in 1 .. Len(candidates(image)) : candidates(image)[i] \in Places
  BY <1>6
<1>8. accepted(image, "own") /\ ~accepted(image, "absent")
  BY DEF accepted
<1> QED
  BY <1>6, <1>7, <1>8

\* A cache keeps the entries it has.
LEMMA EmplacedFacts ==
  ASSUME NEW K, NEW cache \in Caches(K), NEW k \in K, NEW entry \in Symbols
  PROVE  /\ emplaced(cache, k, entry) \in Caches(K)
         /\ DOMAIN emplaced(cache, k, entry) = DOMAIN cache \cup {k}
         /\ \A x \in DOMAIN cache : emplaced(cache, k, entry)[x] = cache[x]
         /\ k \notin DOMAIN cache => emplaced(cache, k, entry)[k] = entry
<1> DEFINE new == emplaced(cache, k, entry)
<1>1. PICK D \in SUBSET K : cache \in [D -> Symbols]
  BY DEF Caches
<1>2. /\ DOMAIN cache = D /\ \A x \in D : cache[x] \in Symbols
  BY <1>1
<1>3. new = [x \in D \cup {k} |-> IF x \in D THEN cache[x] ELSE entry]
  BY <1>2 DEF emplaced
<1> HIDE DEF new
<1>4. new \in [D \cup {k} -> Symbols]
  BY <1>2, <1>3
<1>5. D \cup {k} \in SUBSET K
  OBVIOUS
<1>6. new \in Caches(K)
  BY <1>4, <1>5 DEF Caches
<1>7. /\ DOMAIN new = D \cup {k}
      /\ \A x \in D : new[x] = cache[x]
      /\ k \notin D => new[k] = entry
  BY <1>3
<1> QED
  BY <1>2, <1>6, <1>7 DEF new

-----------------------------------------------------------------------------
(* Before the first frame.                                                  *)

LEMMA FreshFacts ==
  /\ Fresh \in Lookups
  /\ Fresh.pc = "resolve" /\ Fresh.next = 1 /\ ~Fresh.open /\ Fresh.server = 0
  /\ Fresh.sessions = <<>> /\ Fresh.symbols = <<>>
  /\ DOMAIN Fresh.sessions = {} /\ DOMAIN Fresh.symbols = {}
<1>1. \A K : <<>> \in Caches(K)
  <2>1. ASSUME NEW K PROVE <<>> \in Caches(K)
    <3>1. <<>> \in [{} -> Symbols] /\ {} \in SUBSET K
      OBVIOUS
    <3> QED
      BY <3>1 DEF Caches
  <2> QED
    BY <2>1
<1>2. DOMAIN <<>> = {}
  OBVIOUS
<1>3. <<>> \in Caches(Int) /\ <<>> \in Caches(Int \X Int)
  BY <1>1
<1>4. Fresh \in Lookups
  BY <1>3 DEF Fresh, Lookups, Steps
<1> QED
  BY <1>2, <1>4 DEF Fresh

LEMMA UntouchedSInv == SettingsInv /\ Untouched => SInv
<1> SUFFICES ASSUME SettingsInv, Untouched PROVE SInv
  OBVIOUS
<1>1. /\ directory = [image \in Payloads |-> Absent] /\ resolver = [r \in Resolvers |-> Fresh]
      /\ disturbed = {} /\ crashes = 0
  BY DEF Untouched
<1>2. \A r \in Resolvers : resolver[r] = Fresh
  BY <1>1
<1>3. \A r \in Resolvers : /\ resolver[r].pc = "resolve" /\ resolver[r].next = 1
                           /\ ~resolver[r].open /\ resolver[r].server = 0
                           /\ DOMAIN resolver[r].sessions = {} /\ DOMAIN resolver[r].symbols = {}
  BY <1>2, FreshFacts
<1>4. SymbolTypes
  <2>1. Absent \in Files
    BY DEF Absent, Files
  <2> QED
    BY <1>1, <2>1, FreshFacts DEF SymbolTypes
<1>5. \A r \in Resolvers : LookupInv(resolver[r], directory[Img(resolver[r].next)], r \in disturbed)
  BY <1>3 DEF LookupInv, Busy
<1>6. OpenDisturbs
  BY <1>3 DEF OpenDisturbs, Together, Busy
<1>7. FilesInv
  BY <1>1 DEF FilesInv
<1>8. \A r \in Resolvers : SessionsInv(resolver[r]) /\ SymbolsInv(resolver[r])
  <2>1. ASSUME NEW r \in Resolvers PROVE SymbolsInv(resolver[r])
    <3>1. \A i \in 1 .. resolver[r].next - 1 : FALSE
      BY <1>3
    <3> QED
      BY <1>3, <3>1 DEF SymbolsInv
  <2> QED
    BY <1>3, <2>1 DEF SessionsInv
<1> QED
  BY <1>4, <1>5, <1>6, <1>7, <1>8 DEF SInv

LEMMA SymbolInitSInv == SymbolInit => SInv
<1> SUFFICES ASSUME SymbolInit PROVE SInv
  OBVIOUS
<1>1. Untouched /\ Init /\ world \in World /\ options = DefaultOptions /\ requested = 0
  BY WorldsAssumption DEF SymbolInit, Untouched
<1>2. OptionsInv
  <2>1. Len(world.requests) \in Nat /\ world.default_urls \in Urls
    BY <1>1, WorldFacts
  <2>2. requested \in 0 .. Len(world.requests)
    BY <1>1, <2>1
  <2>3. Handled = {}
    BY <1>1 DEF Handled
  <2>4. /\ options \in [search_dirs : Seq(Directory), servers : Urls, mode : {"all_but_excluded", "only_included"},
                        included : SUBSET Payloads, excluded : SUBSET Payloads]
        /\ options.mode = "all_but_excluded" /\ options.included = {} /\ options.excluded = {}
    <3>1. <<>> \in Seq(Directory)
      OBVIOUS
    <3> QED
      BY <1>1, <2>1, <3>1 DEF DefaultOptions
  <2> QED
    BY <2>2, <2>3, <2>4 DEF OptionsInv
<1>3. SettingsInv
  BY <1>1, <1>2, InitIInv DEF SettingsInv
<1> QED
  BY <1>1, <1>3, UntouchedSInv

LEMMA UntouchedSInvNext == (SettingsInv /\ Untouched)' => SInv'
BY UntouchedSInv, PTL

\* The request that is handled, and the modules filters that have been set then.
LEMMA NextRequestFacts ==
  ASSUME SettingsInv, NEW kind, NextRequest(kind)
  PROVE  /\ IInv' /\ (world \in World)' /\ Untouched /\ Untouched'
         /\ world' = world /\ requested' = requested + 1
         /\ requested \in Nat /\ requested' \in 0 .. Len(world.requests)
         /\ requested' \in 1 .. Len(world.requests)
         /\ world.requests[requested'] \in OptionsRequests /\ world.requests[requested'].set = kind
         /\ Handled' = IF kind = "module filters" THEN Handled \cup {requested'} ELSE Handled
         /\ \A i \in Handled : i \in Int /\ i < requested'
<1>1. IInv /\ world \in World /\ OptionsInv /\ (AllLoaded \/ Untouched)
  BY DEF SettingsInv
<1>2. /\ requested < Len(world.requests) /\ world.requests[requested + 1].set = kind
      /\ requested' = requested + 1
      /\ UNCHANGED <<vars, world, directory, resolver, disturbed, crashes>>
  BY DEF NextRequest
<1>3. IInv' /\ (world \in World)' /\ world' = world
  BY <1>1, <1>2 DEF IInv, vars
<1>4. Len(world.requests) \in Nat /\ requested \in Nat /\ world.requests \in Seq(OptionsRequests)
  <2>1. requested \in 0 .. Len(world.requests)
    BY <1>1 DEF OptionsInv
  <2>2. Len(world.requests) \in Nat /\ world.requests \in Seq(OptionsRequests)
    BY <1>1, WorldFacts
  <2> QED
    BY <2>1, <2>2
<1>5. Untouched
  <2>1. ~AllLoaded
    BY <1>2, <1>4 DEF AllLoaded, AllSet
  <2> QED
    BY <1>1, <2>1
<1>6. Untouched'
  BY <1>2, <1>5 DEF Untouched
<1>7. requested' \in 1 .. Len(world.requests) /\ requested' \in 0 .. Len(world.requests)
  BY <1>2, <1>4
<1>8. world.requests[requested'] \in OptionsRequests /\ world.requests[requested'].set = kind
  BY <1>2, <1>4, <1>7
<1>9. Handled' = IF kind = "module filters" THEN Handled \cup {requested'} ELSE Handled
  <2>1. 1 .. requested' = (1 .. requested) \cup {requested'}
    BY <1>2, <1>4
  <2>2. Handled' = {i \in 1 .. requested' : world.requests[i].set = "module filters"}
    BY <1>3 DEF Handled
  <2>3. Handled = {i \in 1 .. requested : world.requests[i].set = "module filters"}
    BY DEF Handled
  <2>4. ASSUME NEW i
        PROVE  i \in Handled' <=> i \in Handled \/ (i = requested' /\ kind = "module filters")
    BY <1>8, <2>1, <2>2, <2>3, Zenon
  <2> QED
    BY <2>4, Zenon
<1>10. ASSUME NEW i \in Handled PROVE i \in Int /\ i < requested'
  <2>1. i \in 1 .. requested
    BY DEF Handled
  <2> QED
    BY <1>2, <1>4, <2>1
<1> QED
  BY <1>2, <1>3, <1>4, <1>5, <1>6, <1>7, <1>8, <1>9, <1>10

LEMMA SetFindOptionsSInv == SettingsInv /\ SetFindOptions => SInv'
<1> SUFFICES ASSUME SettingsInv, SetFindOptions PROVE SInv'
  OBVIOUS
<1> DEFINE request == world.requests[requested + 1]
           servers == (IF request.no_default_urls THEN <<>> ELSE world.default_urls) \o request.urls
<1>1. /\ NextRequest("find options")
      /\ options' = [options EXCEPT !.search_dirs = request.search_dirs, !.servers = servers]
  BY DEF SetFindOptions
<1>2. /\ IInv' /\ (world \in World)' /\ Untouched' /\ world' = world
      /\ requested' \in 0 .. Len(world.requests) /\ requested + 1 = requested'
      /\ request \in OptionsRequests /\ request.set = "find options"
      /\ Handled' = Handled
  <2>1. "find options" # "module filters"
    OBVIOUS
  <2> QED
    BY <1>1, <2>1, NextRequestFacts
<1>3. OptionsInv /\ world \in World
  BY DEF SettingsInv
<1>4. request.search_dirs \in Seq(Directory) /\ request.urls \in Urls
  BY <1>2 DEF OptionsRequests
<1>5. servers \in Urls
  <2>1. world.default_urls \in Urls /\ <<>> \in Urls
    BY <1>3, WorldFacts DEF Urls
  <2>2. \A x, y \in Urls : x \o y \in Urls
    BY DEF Urls
  <2> QED
    BY <1>4, <2>1, <2>2
<1> HIDE DEF request, servers
<1>6. /\ options' \in [search_dirs : Seq(Directory), servers : Urls, mode : {"all_but_excluded", "only_included"},
                       included : SUBSET Payloads, excluded : SUBSET Payloads]
      /\ options'.mode = options.mode /\ options'.included = options.included /\ options'.excluded = options.excluded
  BY <1>1, <1>3, <1>4, <1>5 DEF OptionsInv
<1>7. OptionsInv'
  BY <1>2, <1>3, <1>6 DEF OptionsInv
<1>8. (SettingsInv /\ Untouched)'
  BY <1>2, <1>7 DEF SettingsInv
<1> QED
  BY <1>8, UntouchedSInvNext

LEMMA SetModuleFiltersSInv == SettingsInv /\ SetModuleFilters => SInv'
<1> SUFFICES ASSUME SettingsInv, SetModuleFilters PROVE SInv'
  OBVIOUS
<1> DEFINE request == world.requests[requested + 1]
<1>1. /\ NextRequest("module filters")
      /\ options' = [options EXCEPT !.mode = request.mode,
                                    !.included = @ \cup request.include,
                                    !.excluded = @ \cup request.exclude]
  BY DEF SetModuleFilters
<1>2. /\ IInv' /\ (world \in World)' /\ Untouched' /\ world' = world
      /\ requested' \in 0 .. Len(world.requests) /\ requested + 1 = requested'
      /\ request \in OptionsRequests /\ request.set = "module filters"
      /\ Handled' = Handled \cup {requested'} /\ request = world.requests[requested']
      /\ requested' \in Int /\ \A i \in Handled : i \in Int /\ i < requested'
  <2>1. /\ IInv' /\ (world \in World)' /\ Untouched' /\ world' = world
        /\ requested' \in 0 .. Len(world.requests) /\ requested + 1 = requested'
        /\ world.requests[requested'] \in OptionsRequests /\ world.requests[requested'].set = "module filters"
        /\ requested \in Nat /\ \A i \in Handled : i \in Int /\ i < requested'
    BY <1>1, NextRequestFacts
  <2>2. Handled' = Handled \cup {requested'}
    BY <1>1, NextRequestFacts
  <2>3. requested' \in Int
    <3>1. requested \in Nat /\ requested' = requested + 1
      BY <1>1, NextRequestFacts
    <3> QED
      BY <3>1
  <2> QED
    BY <2>1, <2>2, <2>3
<1>3. OptionsInv
  BY DEF SettingsInv
<1>4. /\ request.mode \in {"all_but_excluded", "only_included"}
      /\ request.include \in SUBSET Payloads /\ request.exclude \in SUBSET Payloads
  BY <1>2 DEF OptionsRequests
<1> HIDE DEF request
<1>5. /\ options' \in [search_dirs : Seq(Directory), servers : Urls, mode : {"all_but_excluded", "only_included"},
                       included : SUBSET Payloads, excluded : SUBSET Payloads]
      /\ options'.mode = request.mode
      /\ options'.included = options.included \cup request.include
      /\ options'.excluded = options.excluded \cup request.exclude
  BY <1>1, <1>3, <1>4 DEF OptionsInv
<1>6. ASSUME NEW image \in Payloads
      PROVE  /\ image \in options'.included <=> \E i \in Handled' : image \in world.requests[i].include
             /\ image \in options'.excluded <=> \E i \in Handled' : image \in world.requests[i].exclude
  <2>1. /\ image \in options.included <=> \E i \in Handled : image \in world.requests[i].include
        /\ image \in options.excluded <=> \E i \in Handled : image \in world.requests[i].exclude
    BY <1>3 DEF OptionsInv
  <2> QED
    BY <1>2, <1>5, <2>1, Zenon
<1>7. /\ requested' \in Handled' /\ \A i \in Handled' : i <= requested'
      /\ options'.mode = world.requests[requested'].mode /\ Handled' # {}
  <2>1. ASSUME NEW i \in Handled' PROVE i <= requested'
    <3>1. i \in Handled \/ i = requested'
      BY <1>2
    <3>2. (i \in Int /\ i < requested') \/ i = requested'
      BY <1>2, <3>1
    <3>3. requested' \in Int
      BY <1>2
    <3> HIDE DEF request
    <3> QED
      BY <3>2, <3>3
  <2>2. requested' \in Handled'
    BY <1>2
  <2>3. options'.mode = world.requests[requested'].mode
    BY <1>2, <1>5
  <2> QED
    BY <2>1, <2>2, <2>3
<1>8. OptionsInv'
  BY <1>2, <1>5, <1>6, <1>7 DEF OptionsInv
<1>9. (SettingsInv /\ Untouched)'
  BY <1>2, <1>8 DEF SettingsInv
<1> QED
  BY <1>9, UntouchedSInvNext

LEMMA LoadModuleSInv == SettingsInv /\ LoadModule => SInv'
<1> SUFFICES ASSUME SettingsInv, LoadModule PROVE SInv'
  OBVIOUS
<1>1. /\ IInv /\ world \in World /\ OptionsInv /\ (AllLoaded \/ Untouched)
      /\ UNCHANGED symbolVars
  BY DEF SettingsInv, LoadModule
<1>2. (\E l \in Loads : Insert(l)) /\ ~AllLoaded
  <2>1. CASE world.loads = AnyLoads
    BY <2>1 DEF LoadModule, AllLoaded
  <2>2. CASE world.loads # AnyLoads
    <3>1. Len(loaded) < Len(world.loads) /\ Insert(world.loads[Len(loaded) + 1])
      BY <2>2 DEF LoadModule
    <3>2. Len(loaded) \in Nat /\ Len(world.loads) \in Nat /\ world.loads \in Seq(Loads)
      <4>1. loaded \in Seq(Loads)
        BY <1>1 DEF IInv
      <4> QED
        BY <1>1, <4>1, WorldFacts
    <3>3. Len(loaded) + 1 \in 1 .. Len(world.loads)
      BY <3>1, <3>2
    <3>4. world.loads[Len(loaded) + 1] \in Loads
      BY <3>2, <3>3
    <3>5. Len(loaded) # Len(world.loads)
      BY <3>1, <3>2
    <3> QED
      BY <3>1, <3>4, <3>5 DEF AllLoaded
  <2> QED
    BY <2>1, <2>2
<1>3. IInv'
  BY <1>1, <1>2, NextIInv DEF Next
<1>4. Untouched' /\ (world \in World)'
  BY <1>1, <1>2 DEF Untouched, symbolVars, settings
<1>5. OptionsInv'
  <2>1. world' = world /\ options' = options /\ requested' = requested
    BY <1>1 DEF symbolVars, settings
  <2>2. Handled' = Handled
    BY <2>1 DEF Handled
  <2> QED
    BY <1>1, <2>1, <2>2 DEF OptionsInv
<1>6. (SettingsInv /\ Untouched)'
  BY <1>3, <1>4, <1>5 DEF SettingsInv
<1> QED
  BY <1>6, UntouchedSInvNext

-----------------------------------------------------------------------------
(* What a step of a resolver leaves alone.                                  *)

\* What is defined from the modules, the world and the options stays the same.
LEMMA KeptOperators ==
  ASSUME UNCHANGED <<vars, settings>>
  PROVE  /\ world' = world /\ loaded' = loaded /\ options' = options
         /\ \A n : Mod(n)' = Mod(n) /\ Img(n)' = Img(n)
         /\ \A k : key(k)' = key(k)
         /\ \A image : (check(image)' <=> check(image)) /\ (info(image)' <=> info(image))
         /\ \A image : candidates(image)' = candidates(image)
         /\ \A image, place : accepted(image, place)' <=> accepted(image, place)
         /\ \A self : Wanted(self)' <=> Wanted(self)
         /\ \A self, file : Placed(self, file)' <=> Placed(self, file)
         /\ \A self, file : Knows(self, file)' <=> Knows(self, file)
         /\ \A self, file, raced : LookupInv(self, file, raced)' <=> LookupInv(self, file, raced)
         /\ \A self, other : Together(self, other)' <=> Together(self, other)
<1>1. /\ world' = world /\ options' = options /\ requested' = requested
      /\ loaded' = loaded /\ ranges' = ranges
  BY DEF vars, settings
<1>2. \A a, t : found(ranges, a, t)' = found(ranges, a, t)
  BY <1>1 DEF found
<1>3. \A n : Mod(n)' = Mod(n)
  BY <1>1 DEF Mod, found
<1>4. \A n : Img(n)' = Img(n)
  BY <1>1, <1>3 DEF Img
<1>5. \A k : key(k)' = key(k)
  BY <1>1 DEF key
<1>6. \A image : (check(image)' <=> check(image)) /\ (info(image)' <=> info(image))
  BY <1>1 DEF check, info
<1>7. \A image : candidates(image)' = candidates(image)
  BY <1>1, <1>6 DEF candidates
<1>8. \A image, place : accepted(image, place)' <=> accepted(image, place)
  BY <1>1, <1>6 DEF accepted
<1>9. \A self : Wanted(self)' <=> Wanted(self)
  BY <1>1, <1>3, <1>4, <1>5, <1>6, <1>7, <1>8 DEF Wanted
<1>10. \A self, file : Placed(self, file)' <=> Placed(self, file)
  BY <1>1 DEF Placed
<1>11. \A self, file : Knows(self, file)' <=> Knows(self, file)
  BY <1>1 DEF Knows
<1>12. \A self, file, raced : LookupInv(self, file, raced)' <=> LookupInv(self, file, raced)
  BY <1>9, <1>10, <1>11 DEF LookupInv, Busy
<1>13. \A self, other : Together(self, other)' <=> Together(self, other)
  BY <1>4 DEF Together, Busy
<1> QED
  BY <1>1, <1>3, <1>4, <1>5, <1>6, <1>7, <1>8, <1>9, <1>10, <1>11, <1>12, <1>13

LEMMA KeptSettings ==
  ASSUME SettingsInv, AllLoaded, UNCHANGED <<vars, settings>>
  PROVE  SettingsInv' /\ AllLoaded'
<1>1. /\ world' = world /\ options' = options /\ requested' = requested
      /\ loaded' = loaded /\ ranges' = ranges /\ modules' = modules
  BY DEF vars, settings
<1>2. IInv' /\ (world \in World)'
  BY <1>1 DEF IInv, SettingsInv
<1>3. OptionsInv'
  BY <1>1 DEF OptionsInv, Handled, SettingsInv
<1>4. AllLoaded'
  BY <1>1 DEF AllLoaded, AllSet
<1> QED
  BY <1>2, <1>3, <1>4 DEF SettingsInv

\* Sessions and symbols stay what they are, and a doubt stays one.
LEMMA KeptSessions ==
  ASSUME UNCHANGED <<vars, settings>>, Doubt => Doubt'
  PROVE  /\ \A time, session : SessionInv(time, session) => SessionInv(time, session)'
         /\ \A self : SessionsInv(self) => SessionsInv(self)'
         /\ \A self : SymbolsInv(self) => SymbolsInv(self)'
<1>1. world' = world /\ loaded' = loaded /\ options' = options
  BY KeptOperators
<1>2. ASSUME NEW time, NEW session, SessionInv(time, session) PROVE SessionInv(time, session)'
  <2>1. \E j \in 1 .. Len(loaded) : loaded[j].time = time /\ loaded[j].payload = session.image
    BY <1>2 DEF SessionInv
  <2>2. /\ session.from # NoSession => check(session.image)
        /\ world.kind = "pdb" /\ info(session.image) /\ session.from = "other" => session.raced
    BY <1>2 DEF SessionInv
  <2>3. /\ session.from = NoSession /\ check(session.image) /\ info(session.image)
        /\ \/ \E s \in 1 .. Len(options.servers) : options.servers[s] = {"own"}
           \/ \E i \in 1 .. Len(candidates(session.image)) : candidates(session.image)[i] = "own"
        => session.raced \/ (world.kind = "dwarf" /\ Doubt)
    BY <1>2 DEF SessionInv
  <2>4. /\ check(session.image)' <=> check(session.image)
        /\ info(session.image)' <=> info(session.image)
        /\ candidates(session.image)' = candidates(session.image)
    BY KeptOperators
  <2> QED
    BY <1>1, <2>1, <2>2, <2>3, <2>4 DEF SessionInv
<1>3. ASSUME NEW self, SessionsInv(self) PROVE SessionsInv(self)'
  BY <1>2, <1>3 DEF SessionsInv
<1>4. ASSUME NEW self, SymbolsInv(self) PROVE SymbolsInv(self)'
  <2>1. ASSUME NEW time, NEW symbol PROVE SymbolInv(time, symbol)' <=> SymbolInv(time, symbol)
    <3>1. check(symbol.image)' <=> check(symbol.image)
      BY KeptOperators
    <3> QED
      BY <1>1, <3>1 DEF SymbolInv
  <2>2. \A n : key(Mod(n))' = key(Mod(n))
    BY KeptOperators
  <2> QED
    BY <1>1, <1>4, <2>1, <2>2 DEF SymbolsInv
<1> QED
  BY <1>2, <1>3, <1>4

\* What is open disturbs still, if the others at most have had their file removed.
LEMMA KeptOpenDisturbs ==
  ASSUME OpenDisturbs, UNCHANGED <<vars, settings>>, NEW r \in Resolvers,
         disturbed \ {r} \subseteq disturbed',
         \A s \in Resolvers \ {r} : /\ resolver'[s].pc = resolver[s].pc /\ resolver'[s].next = resolver[s].next
                                    /\ resolver'[s].open => resolver[s].open,
         Busy(resolver'[r]) => resolver'[r].next = resolver[r].next,
         \A s \in Resolvers \ {r} :
           Together(resolver'[r], resolver[s]) /\ resolver[s].open => r \in disturbed',
         \A s \in Resolvers \ {r} :
           Together(resolver[s], resolver'[r]) /\ resolver'[r].open =>
             (Busy(resolver[r]) /\ resolver[r].open) \/ s \in disturbed'
  PROVE  OpenDisturbs'
<1>1. ASSUME NEW a \in Resolvers, NEW b \in Resolvers, a # b,
             Together(resolver'[a], resolver'[b]), resolver'[b].open
      PROVE  a \in disturbed'
  <2>1. CASE a # r /\ b # r
    <3>1. Together(resolver[a], resolver[b]) /\ resolver[b].open
      BY <1>1, <2>1 DEF Together, Busy
    <3> QED
      BY <1>1, <2>1, <3>1 DEF OpenDisturbs
  <2>2. CASE a = r
    <3>1. b \in Resolvers \ {r} /\ Together(resolver'[r], resolver[b]) /\ resolver[b].open
      BY <1>1, <2>2 DEF Together, Busy
    <3> QED
      BY <2>2, <3>1
  <2>3. CASE b = r
    <3>1. a \in Resolvers \ {r} /\ Together(resolver[a], resolver'[r]) /\ resolver'[r].open
      BY <1>1, <2>3 DEF Together, Busy
    <3>2. CASE Busy(resolver[r]) /\ resolver[r].open
      <4>1. resolver'[r].next = resolver[r].next
        BY <3>1 DEF Together
      <4>2. Together(resolver[a], resolver[r])
        BY <3>1, <3>2, <4>1 DEF Together
      <4> QED
        BY <3>1, <3>2, <4>2 DEF OpenDisturbs
    <3> QED
      BY <3>1, <3>2
  <2> QED
    BY <2>1, <2>2, <2>3
<1>2. \A x, y : Together(x, y)' <=> Together(x, y)
  BY KeptOperators
<1> QED
  BY <1>1, <1>2 DEF OpenDisturbs

\* A resolver goes on at its frame, or ends with it, and changes nothing else.
LEMMA OwnStepSInv ==
  ASSUME SInv, AllLoaded, UNCHANGED <<vars, settings, directory>>,
         NEW r \in Resolvers, NEW self \in Lookups,
         resolver' = [resolver EXCEPT ![r] = self],
         disturbed \ {r} \subseteq disturbed',
         crashes' \in Nat, crashes <= crashes', Doubt => Doubt',
         LookupInv(self, directory[Img(self.next)], r \in disturbed'),
         Busy(self) => self.next = resolver[r].next,
         \A s \in Resolvers \ {r} : Together(self, resolver[s]) /\ resolver[s].open => r \in disturbed',
         Busy(self) /\ self.open => Busy(resolver[r]) /\ resolver[r].open,
         world.kind = "pdb" /\ resolver[r].pc \in {"write", "downloaded", "discard"} =>
           \/ self.next = resolver[r].next /\ self.pc \in {"write", "downloaded", "discard"}
           \/ directory[Img(resolver[r].next)] = Absent
           \/ content(directory[Img(resolver[r].next)]) = "own" \/ crashes' > 0,
         world.kind = "dwarf" /\ Busy(resolver[r]) /\ resolver[r].open =>
           \/ Busy(self) /\ self.open
           \/ content(directory[Img(resolver[r].next)]) # "unreadable" \/ Doubt',
         SessionsInv(self)', SymbolsInv(self)'
  PROVE  SInv'
<1>1. /\ SettingsInv /\ SymbolTypes /\ OpenDisturbs /\ FilesInv
      /\ \A s \in Resolvers : LookupInv(resolver[s], directory[Img(resolver[s].next)], s \in disturbed)
      /\ \A s \in Resolvers : SessionsInv(resolver[s]) /\ SymbolsInv(resolver[s])
  BY DEF SInv
<1>2. SettingsInv'
  BY <1>1, KeptSettings
<1>3. /\ resolver \in [Resolvers -> Lookups] /\ directory \in [Payloads -> Files] /\ directory' = directory
      /\ crashes \in Nat /\ world' = world
  BY <1>1, KeptOperators DEF SymbolTypes
<1>4. SymbolTypes'
  BY <1>3 DEF SymbolTypes
<1>5. resolver'[r] = self /\ \A s \in Resolvers \ {r} : resolver'[s] = resolver[s]
  BY <1>3
<1>6. (\A s \in Resolvers : LookupInv(resolver[s], directory[Img(resolver[s].next)], s \in disturbed))'
  <2>1. ASSUME NEW s \in Resolvers
        PROVE  LookupInv(resolver'[s], directory'[Img(resolver'[s].next)], s \in disturbed')
    <3>1. CASE s = r
      BY <1>3, <1>5, <3>1
    <3>2. CASE s # r
      <4>1. LookupInv(resolver[s], directory[Img(resolver[s].next)], s \in disturbed) /\ resolver'[s] = resolver[s]
        BY <1>1, <1>5, <3>2
      <4>2. s \in disturbed => s \in disturbed'
        BY <3>2
      <4> QED
        BY <1>3, <4>1, <4>2 DEF LookupInv
    <3> QED
      BY <3>1, <3>2
  <2>2. /\ \A n : Img(n)' = Img(n)
        /\ \A x, file, raced : LookupInv(x, file, raced)' <=> LookupInv(x, file, raced)
    BY KeptOperators
  <2> QED
    BY <2>1, <2>2
<1>7. OpenDisturbs'
  <2>1. \A s \in Resolvers \ {r} : /\ resolver'[s].pc = resolver[s].pc /\ resolver'[s].next = resolver[s].next
                                   /\ resolver'[s].open => resolver[s].open
    BY <1>5
  <2>2. Busy(resolver'[r]) => resolver'[r].next = resolver[r].next
    BY <1>5
  <2>3. \A s \in Resolvers \ {r} :
          Together(resolver'[r], resolver[s]) /\ resolver[s].open => r \in disturbed'
    BY <1>5
  <2>4. \A s \in Resolvers \ {r} :
          Together(resolver[s], resolver'[r]) /\ resolver'[r].open =>
            (Busy(resolver[r]) /\ resolver[r].open) \/ s \in disturbed'
    BY <1>5 DEF Together
  <2> QED
    BY <1>1, <2>1, <2>2, <2>3, <2>4, KeptOpenDisturbs
<1>8. FilesInv'
  <2>1. \A n : Img(n)' = Img(n)
    BY KeptOperators
  <2>2. ASSUME NEW image \in Payloads, directory[image] # Absent, world.kind = "pdb"
        PROVE  \/ content(directory[image]) = "own" \/ crashes' > 0
               \/ \E s \in Resolvers : /\ resolver'[s].pc \in {"write", "downloaded", "discard"}
                                       /\ Img(resolver'[s].next) = image
    <3>1. CASE content(directory[image]) = "own" \/ crashes > 0
      BY <1>3, <3>1
    <3>2. ASSUME NEW s \in Resolvers, resolver[s].pc \in {"write", "downloaded", "discard"},
                 Img(resolver[s].next) = image
          PROVE  \/ content(directory[image]) = "own" \/ crashes' > 0
                 \/ /\ resolver'[s].pc \in {"write", "downloaded", "discard"}
                    /\ Img(resolver'[s].next) = image
      <4>1. CASE s = r
        BY <1>5, <2>2, <3>2, <4>1
      <4>2. CASE s # r
        BY <1>5, <3>2, <4>2
      <4> QED
        BY <4>1, <4>2
    <3> QED
      BY <1>1, <2>2, <3>1, <3>2 DEF FilesInv
  <2>3. ASSUME NEW image \in Payloads, directory[image] # Absent, world.kind # "pdb"
        PROVE  \/ content(directory[image]) # "unreadable" \/ Doubt'
               \/ \E s \in Resolvers : /\ Busy(resolver'[s]) /\ resolver'[s].open
                                       /\ Img(resolver'[s].next) = image
    <3>1. CASE content(directory[image]) # "unreadable" \/ Doubt
      BY <1>3, <3>1
    <3>2. ASSUME NEW s \in Resolvers, Busy(resolver[s]), resolver[s].open,
                 Img(resolver[s].next) = image
          PROVE  \/ content(directory[image]) # "unreadable" \/ Doubt'
                 \/ /\ Busy(resolver'[s]) /\ resolver'[s].open
                    /\ Img(resolver'[s].next) = image
      <4>1. CASE s = r
        <5>1. world.kind = "dwarf"
          BY <1>1, <2>3, WorldFacts DEF SettingsInv
        <5>2. Busy(self) => Img(resolver'[r].next) = image
          BY <1>5, <3>2, <4>1
        <5> QED
          BY <1>5, <3>2, <4>1, <5>1, <5>2
      <4>2. CASE s # r
        BY <1>5, <3>2, <4>2
      <4> QED
        BY <4>1, <4>2
    <3> QED
      BY <1>1, <2>3, <3>1, <3>2 DEF FilesInv
  <2> QED
    BY <1>3, <2>1, <2>2, <2>3 DEF FilesInv, content, Busy
<1>9. (\A s \in Resolvers : SessionsInv(resolver[s]) /\ SymbolsInv(resolver[s]))'
  <2>1. ASSUME NEW s \in Resolvers PROVE (SessionsInv(resolver[s]) /\ SymbolsInv(resolver[s]))'
    <3>1. CASE s = r
      BY <1>5, <3>1
    <3>2. CASE s # r
      BY <1>1, <1>5, <3>2, KeptSessions
    <3> QED
      BY <3>1, <3>2
  <2> QED
    BY <2>1
<1> QED
  BY <1>2, <1>4, <1>6, <1>7, <1>8, <1>9 DEF SInv

-----------------------------------------------------------------------------
(* Steps of a lookup that only change where the resolver is.                *)

LEMMA FileFacts ==
  /\ \A file : content(file) \in {"own", "other", "unreadable"}
  /\ \A o \in {"own", "other"} : content(Whole(o)) = o /\ Whole(o) # Absent /\ Whole(o) \in Files
  /\ \A file : content(file) # "unreadable" => file # Absent
  /\ Absent \in Files /\ Empty \in Files
<1>1. \A o \in {"own", "other"} : Whole(o)[1] = o /\ Whole(o) # Absent /\ Whole(o) \in Files
  <2>1. ASSUME NEW o \in {"own", "other"} PROVE Whole(o)[1] = o /\ Whole(o) # Absent /\ Whole(o) \in Files
    <3>1. 1 \in Pieces
      BY DEF Pieces
    <3>2. Whole(o)[1] = o /\ Absent[1] = "no file"
      BY <3>1 DEF Whole, Absent
    <3>3. Whole(o) \in Files
      BY DEF Whole, Files
    <3> QED
      BY <3>2, <3>3
  <2> QED
    BY <2>1
<1>2. \A file : content(file) \in {"own", "other", "unreadable"}
  BY <1>1 DEF content
<1>3. \A o \in {"own", "other"} : content(Whole(o)) = o
  BY <1>1 DEF content
<1>4. \A file : content(file) # "unreadable" => file # Absent
  BY <1>1 DEF content
<1>5. Absent \in Files /\ Empty \in Files
  BY DEF Absent, Empty, Files
<1> QED
  BY <1>1, <1>2, <1>3, <1>4, <1>5

\* A resolver whose lookup goes on.
LEMMA GoesOnSInv ==
  ASSUME SInv, AllLoaded, UNCHANGED <<vars, settings, directory, disturbed, crashes>>,
         NEW r \in Resolvers, NEW self \in Lookups,
         resolver' = [resolver EXCEPT ![r] = self],
         Busy(resolver[r]), Busy(self), self.next = resolver[r].next,
         self.sessions = resolver[r].sessions, self.symbols = resolver[r].symbols,
         self.open => resolver[r].open,
         Placed(self, directory[Img(self.next)]),
         r \in disturbed \/ Knows(self, directory[Img(self.next)]),
         world.kind = "pdb" /\ resolver[r].pc \in {"write", "downloaded", "discard"} =>
           \/ self.pc \in {"write", "downloaded", "discard"}
           \/ directory[Img(self.next)] = Absent \/ content(directory[Img(self.next)]) = "own",
         world.kind = "dwarf" /\ resolver[r].open =>
           self.open \/ content(directory[Img(self.next)]) # "unreadable"
  PROVE  SInv'
<1>1. /\ SettingsInv /\ SymbolTypes /\ OpenDisturbs
      /\ LookupInv(resolver[r], directory[Img(resolver[r].next)], r \in disturbed)
      /\ SessionsInv(resolver[r]) /\ SymbolsInv(resolver[r])
  BY DEF SInv
<1>2. crashes \in Nat /\ crashes' = crashes /\ disturbed' = disturbed /\ resolver \in [Resolvers -> Lookups]
  BY <1>1 DEF SymbolTypes
<1>3. Doubt => Doubt'
  <2>1. \A s \in Resolvers : resolver'[s].sessions = resolver[s].sessions
    BY <1>2
  <2>2. SomebodyRaced => SomebodyRaced'
    BY <2>1 DEF SomebodyRaced, Sessions
  <2> QED
    BY <1>2, <2>2 DEF Doubt
<1>4. Wanted(self)
  BY <1>1 DEF LookupInv, Wanted
<1>5. LookupInv(self, directory[Img(self.next)], r \in disturbed')
  BY <1>2, <1>4 DEF LookupInv
<1>6. \A s \in Resolvers \ {r} : Together(self, resolver[s]) /\ resolver[s].open => r \in disturbed'
  BY <1>1, <1>2 DEF OpenDisturbs, Together
<1>7. SessionsInv(self) /\ SymbolsInv(self)
  BY <1>1 DEF SessionsInv, SymbolsInv
<1>8. SessionsInv(self)' /\ SymbolsInv(self)'
  BY <1>3, <1>7, KeptSessions
<1>9. crashes <= crashes' /\ disturbed \ {r} \subseteq disturbed' /\ crashes' \in Nat
  BY <1>2
<1>10. UNCHANGED <<vars, settings, directory>>
  OBVIOUS
<1> QED
  BY <1>3, <1>5, <1>6, <1>8, <1>9, <1>10, OwnStepSInv

\* The frame a resolver is at.
LEMMA AtFacts ==
  ASSUME SInv, NEW r \in Resolvers, NEW pc, At(r, pc)
  PROVE  /\ AllLoaded /\ resolver[r] \in Lookups /\ resolver[r].pc = pc
         /\ resolver[r].next \in 1 .. Len(world.frames)
         /\ Module(r) = Mod(resolver[r].next) /\ Image(r) = Img(resolver[r].next)
         /\ address(r) = world.frames[resolver[r].next][1]
         /\ File(r) = directory[Img(resolver[r].next)]
<1>1. resolver \in [Resolvers -> Lookups] /\ world \in World
  BY DEF SInv, SymbolTypes, SettingsInv
<1>2. resolver[r] \in Lookups /\ resolver[r].next <= Len(world.frames) /\ Len(world.frames) \in Nat
  BY <1>1, WorldFacts DEF At
<1>3. resolver[r].next \in Nat \ {0}
  BY <1>2 DEF Lookups
<1>4. resolver[r].next \in 1 .. Len(world.frames)
  BY <1>2, <1>3
<1> QED
  BY <1>2, <1>4 DEF At, Module, Image, address, File, Mod, Img

LEMMA BusyFacts ==
  ASSUME SInv, NEW r \in Resolvers, Busy(resolver[r])
  PROVE  /\ Wanted(resolver[r]) /\ Placed(resolver[r], directory[Img(resolver[r].next)])
         /\ r \in disturbed \/ Knows(resolver[r], directory[Img(resolver[r].next)])
         /\ resolver[r] \in Lookups
         /\ Img(resolver[r].next) \in Payloads /\ directory[Img(resolver[r].next)] \in Files
<1>1. /\ LookupInv(resolver[r], directory[Img(resolver[r].next)], r \in disturbed)
      /\ SettingsInv /\ directory \in [Payloads -> Files] /\ resolver \in [Resolvers -> Lookups]
  BY DEF SInv, SymbolTypes
<1>2. Wanted(resolver[r])
  BY <1>1 DEF LookupInv
<1>3. Img(resolver[r].next) \in Payloads
  BY <1>1, <1>2, FrameFacts DEF Wanted
<1> QED
  BY <1>1, <1>2, <1>3 DEF LookupInv

\* Where a resolver is after the servers it has asked were of no use.
LEMMA NextServerFacts ==
  ASSUME SInv, NEW r \in Resolvers, resolver[r] \in Lookups, resolver[r].server <= Len(options.servers)
  PROVE  /\ NextServer(r) \in Lookups /\ Busy(NextServer(r)) /\ ~NextServer(r).open
         /\ NextServer(r).pc \in {"ask", "give up"}
         /\ NextServer(r).next = resolver[r].next
         /\ NextServer(r).sessions = resolver[r].sessions /\ NextServer(r).symbols = resolver[r].symbols
         /\ \A file : Placed(NextServer(r), file)
         /\ (\A s \in 1 .. resolver[r].server : options.servers[s] # {"own"}) =>
              \A file : Knows(NextServer(r), file)
<1> DEFINE self == resolver[r]
           n == Len(options.servers)
<1>1. n \in Nat /\ self.server \in Nat /\ self.server <= n
  <2>1. options.servers \in Urls
    BY DEF SInv, SettingsInv, OptionsInv
  <2> QED
    BY <2>1 DEF Urls, Lookups
<1>2. CASE self.server < n
  <2> DEFINE new == [self EXCEPT !.pc = "ask", !.server = @ + 1, !.piece = 0, !.open = FALSE, !.reply = "none"]
  <2>1. NextServer(r) = new
    BY <1>2 DEF NextServer
  <2>2. /\ new \in Lookups /\ new.pc = "ask" /\ new.server = self.server + 1 /\ new.piece = 0 /\ new.open = FALSE
        /\ new.next = self.next /\ new.sessions = self.sessions /\ new.symbols = self.symbols
    <3> DEFINE m == self.server + 1
    <3>1. self \in Lookups /\ m \in Nat /\ 0 \in 0 .. 2
      BY <1>1
    <3>2. new = [self EXCEPT !.pc = "ask", !.server = m, !.piece = 0, !.open = FALSE, !.reply = "none"]
      BY <3>1 DEF Lookups
    <3> HIDE DEF self, m, new
    <3>3. new \in Lookups
      BY <3>1, <3>2 DEF Lookups, Steps
    <3>4. /\ new.pc = "ask" /\ new.server = m /\ new.piece = 0 /\ new.open = FALSE
          /\ new.next = self.next /\ new.sessions = self.sessions /\ new.symbols = self.symbols
      BY <3>1, <3>2 DEF Lookups
    <3> QED
      BY <3>3, <3>4 DEF m
  <2> HIDE DEF new
  <2>3. Busy(new) /\ new.server <= n /\ new.server > 0
    BY <1>1, <1>2, <2>2 DEF Busy
  <2>4. \A file : Placed(new, file)
    BY <2>2, <2>3 DEF Placed
  <2>5. ASSUME \A s \in 1 .. self.server : options.servers[s] # {"own"}
        PROVE  \A file : Knows(new, file)
    <3>1. 1 .. new.server - 1 = 1 .. self.server
      BY <1>1, <2>2
    <3> QED
      BY <2>2, <2>5, <3>1 DEF Knows
  <2> QED
    BY <2>1, <2>2, <2>3, <2>4, <2>5
<1>3. CASE ~(self.server < n)
  <2> DEFINE new == [self EXCEPT !.pc = "give up", !.open = FALSE]
  <2>1. NextServer(r) = new
    BY <1>3 DEF NextServer
  <2>2. /\ new \in Lookups /\ new.pc = "give up" /\ new.server = self.server /\ new.open = FALSE
        /\ new.next = self.next /\ new.sessions = self.sessions /\ new.symbols = self.symbols
    BY DEF Lookups, Steps
  <2> HIDE DEF new
  <2>3. Busy(new) /\ new.server = n
    <3>1. self.server = n
      BY <1>1, <1>3
    <3> QED
      BY <2>2, <3>1 DEF Busy
  <2>4. \A file : Placed(new, file)
    BY <1>1, <2>2, <2>3 DEF Placed
  <2>5. ASSUME \A s \in 1 .. self.server : options.servers[s] # {"own"}
        PROVE  \A file : Knows(new, file)
    BY <2>2, <2>5 DEF Knows
  <2> QED
    BY <2>1, <2>2, <2>3, <2>4, <2>5
<1> QED
  BY <1>2, <1>3

LEMMA CheckCacheSInv ==
  ASSUME SInv, NEW r \in Resolvers, CheckCache(r)
  PROVE  SInv'
<1> DEFINE self == resolver[r]
           file == directory[Img(resolver[r].next)]
<1>1. /\ At(r, "cache")
      /\ IF usable(File(r)) THEN Goto(r, "read")
         ELSE IF world.kind = "pdb" THEN Goto(r, "discard")
         ELSE resolver' = [resolver EXCEPT ![r] = NextServer(r)] /\ UNCHANGED disturbed
      /\ UNCHANGED <<vars, settings, directory, crashes>>
  BY DEF CheckCache
<1>2. /\ AllLoaded /\ self \in Lookups /\ self.pc = "cache" /\ File(r) = file /\ Busy(self)
      /\ resolver \in [Resolvers -> Lookups]
  BY <1>1, AtFacts DEF Busy, SInv, SymbolTypes
<1>3. Placed(self, file)
  BY <1>2, BusyFacts
<1>4. ~self.open /\ self.server = 0 /\ self.server <= Len(options.servers)
  BY <1>2, <1>3 DEF Placed
<1>5. world.kind \in {"pdb", "dwarf"}
  BY WorldFacts DEF SInv, SettingsInv
<1>6. \A s \in 1 .. self.server : options.servers[s] # {"own"}
  BY <1>4
<1>7. CASE usable(file)
  <2> DEFINE new == [self EXCEPT !.pc = "read"]
  <2>1. resolver' = [resolver EXCEPT ![r] = new] /\ UNCHANGED disturbed
    BY <1>1, <1>2, <1>7 DEF Goto
  <2>2. /\ new \in Lookups /\ Busy(new) /\ new.pc = "read" /\ new.open = self.open /\ new.next = self.next
        /\ new.sessions = self.sessions /\ new.symbols = self.symbols /\ new.server = self.server
    BY <1>2 DEF Lookups, Steps, Busy
  <2> HIDE DEF new
  <2>3. file # Absent /\ (world.kind = "pdb" => content(file) = "own")
    BY <1>5, <1>7, FileFacts DEF usable
  <2>4. Placed(new, file) /\ Knows(new, file)
    BY <1>4, <2>2, <2>3 DEF Placed, Knows
  <2> QED
    BY <1>1, <1>2, <1>4, <2>1, <2>2, <2>4, GoesOnSInv
<1>8. CASE ~usable(file) /\ world.kind = "pdb"
  <2> DEFINE new == [self EXCEPT !.pc = "discard"]
  <2>1. resolver' = [resolver EXCEPT ![r] = new] /\ UNCHANGED disturbed
    BY <1>1, <1>2, <1>8 DEF Goto
  <2>2. /\ new \in Lookups /\ Busy(new) /\ new.pc = "discard" /\ new.open = self.open /\ new.next = self.next
        /\ new.sessions = self.sessions /\ new.symbols = self.symbols /\ new.server = self.server
    BY <1>2 DEF Lookups, Steps, Busy
  <2> HIDE DEF new
  <2>3. Placed(new, file) /\ Knows(new, file)
    BY <1>4, <1>6, <2>2 DEF Placed, Knows
  <2> QED
    BY <1>1, <1>2, <1>4, <2>1, <2>2, <2>3, GoesOnSInv
<1>9. CASE ~usable(file) /\ world.kind # "pdb"
  <2> DEFINE new == NextServer(r)
  <2>1. resolver' = [resolver EXCEPT ![r] = new] /\ UNCHANGED disturbed
    BY <1>1, <1>2, <1>9
  <2>2. /\ new \in Lookups /\ Busy(new) /\ ~new.open /\ new.next = self.next
        /\ new.sessions = self.sessions /\ new.symbols = self.symbols
        /\ Placed(new, file) /\ Knows(new, file)
    BY <1>2, <1>4, <1>6, NextServerFacts
  <2> HIDE DEF new
  <2> QED
    BY <1>1, <1>2, <1>4, <2>1, <2>2, GoesOnSInv
<1> QED
  BY <1>7, <1>8, <1>9

LEMMA AskSInv ==
  ASSUME SInv, NEW r \in Resolvers, Ask(r)
  PROVE  SInv'
<1> DEFINE self == resolver[r]
           file == directory[Img(resolver[r].next)]
<1>1. At(r, "ask") /\ UNCHANGED <<vars, settings, directory, disturbed, crashes>>
  BY DEF Ask
<1>2. PICK reply \in Replies \cap options.servers[self.server] :
        resolver' = [resolver EXCEPT ![r] =
                       CASE reply = "missing" -> NextServer(r)
                         [] reply = "refused" -> [@ EXCEPT !.pc = "discard"]
                         [] OTHER -> [@ EXCEPT !.pc = "write", !.reply = reply]]
  BY DEF Ask
<1>3. /\ AllLoaded /\ self \in Lookups /\ self.pc = "ask" /\ Busy(self)
      /\ resolver \in [Resolvers -> Lookups]
  BY <1>1, <1>2, AtFacts DEF Busy, SInv, SymbolTypes
<1>4. Placed(self, file) /\ (r \in disturbed \/ Knows(self, file))
  BY <1>3, BusyFacts
<1>5. /\ ~self.open /\ self.server > 0 /\ self.piece = 0 /\ self.server <= Len(options.servers)
      /\ self.server \in Nat
  BY <1>3, <1>4 DEF Placed, Lookups
<1>6. r \in disturbed \/ \A s \in 1 .. self.server - 1 : options.servers[s] # {"own"}
  BY <1>3, <1>4 DEF Knows
<1>7. ASSUME reply # "own"
      PROVE  r \in disturbed \/ \A s \in 1 .. self.server : options.servers[s] # {"own"}
  <2>1. options.servers[self.server] # {"own"}
    BY <1>2, <1>7
  <2>2. ASSUME NEW s \in 1 .. self.server PROVE s = self.server \/ s \in 1 .. self.server - 1
    BY <1>5
  <2> QED
    BY <1>6, <2>1, <2>2
<1>8. CASE reply = "missing"
  <2> DEFINE new == NextServer(r)
  <2>1. resolver' = [resolver EXCEPT ![r] = new]
    BY <1>2, <1>8
  <2>2. /\ new \in Lookups /\ Busy(new) /\ ~new.open /\ new.next = self.next
        /\ new.sessions = self.sessions /\ new.symbols = self.symbols
        /\ Placed(new, file)
    BY <1>3, <1>5, NextServerFacts
  <2>3. r \in disturbed \/ Knows(new, file)
    BY <1>3, <1>5, <1>7, <1>8, NextServerFacts
  <2> HIDE DEF new
  <2> QED
    BY <1>1, <1>3, <1>5, <2>1, <2>2, <2>3, GoesOnSInv
<1>9. CASE reply = "refused"
  <2> DEFINE new == [self EXCEPT !.pc = "discard"]
  <2>1. resolver' = [resolver EXCEPT ![r] = new]
    BY <1>2, <1>3, <1>9
  <2>2. /\ new \in Lookups /\ Busy(new) /\ new.pc = "discard" /\ new.open = self.open /\ new.next = self.next
        /\ new.sessions = self.sessions /\ new.symbols = self.symbols /\ new.server = self.server
    BY <1>3 DEF Lookups, Steps, Busy
  <2> HIDE DEF new
  <2>3. Placed(new, file)
    BY <1>5, <2>2 DEF Placed
  <2>4. r \in disturbed \/ Knows(new, file)
    BY <1>7, <1>9, <2>2 DEF Knows
  <2> QED
    BY <1>1, <1>3, <1>5, <2>1, <2>2, <2>3, <2>4, GoesOnSInv
<1>10. CASE reply \in {"own", "other", "broken"}
  <2> DEFINE new == [self EXCEPT !.pc = "write", !.reply = reply]
  <2>1. resolver' = [resolver EXCEPT ![r] = new]
    BY <1>2, <1>3, <1>10
  <2>2. /\ new \in Lookups /\ Busy(new) /\ new.pc = "write" /\ new.open = self.open /\ new.next = self.next
        /\ new.sessions = self.sessions /\ new.symbols = self.symbols /\ new.server = self.server
        /\ new.piece = self.piece /\ new.reply = reply
    BY <1>2, <1>3 DEF Lookups, Steps, Busy
  <2> HIDE DEF new
  <2>3. Placed(new, file)
    BY <1>5, <1>10, <2>2 DEF Placed
  <2>4. r \in disturbed \/ Knows(new, file)
    BY <1>2, <1>5, <1>6, <2>2 DEF Knows
  <2> QED
    BY <1>1, <1>3, <1>5, <2>1, <2>2, <2>3, <2>4, GoesOnSInv
<1> QED
  BY <1>2, <1>8, <1>9, <1>10 DEF Replies

LEMMA DownloadedSInv ==
  ASSUME SInv, NEW r \in Resolvers, Downloaded(r)
  PROVE  SInv'
<1> DEFINE self == resolver[r]
           file == directory[Img(resolver[r].next)]
<1>1. /\ At(r, "downloaded")
      /\ IF world.kind = "dwarf" \/ usable(File(r)) THEN Goto(r, "read") ELSE Goto(r, "discard")
      /\ UNCHANGED <<vars, settings, directory, crashes>>
  BY DEF Downloaded
<1>2. /\ AllLoaded /\ self \in Lookups /\ self.pc = "downloaded" /\ File(r) = file /\ Busy(self)
      /\ resolver \in [Resolvers -> Lookups]
  BY <1>1, AtFacts DEF Busy, SInv, SymbolTypes
<1>3. Placed(self, file) /\ (r \in disturbed \/ Knows(self, file))
  BY <1>2, BusyFacts
<1>4. /\ self.open => file # Absent
      /\ self.server > 0 /\ self.server <= Len(options.servers) /\ self.server \in Nat
      /\ self.reply \in {"own", "other"}
  BY <1>2, <1>3 DEF Placed, Lookups
<1>5. \/ r \in disturbed
      \/ /\ self.open /\ file = Whole(self.reply) /\ self.reply \in options.servers[self.server]
         /\ \A s \in 1 .. self.server - 1 : options.servers[s] # {"own"}
  BY <1>2, <1>3 DEF Knows
<1>6. world.kind \in {"pdb", "dwarf"}
  BY WorldFacts DEF SInv, SettingsInv
<1>7. \/ r \in disturbed
      \/ file # Absent /\ content(file) = self.reply
  BY <1>4, <1>5, FileFacts
<1>8. CASE world.kind = "dwarf" \/ usable(file)
  <2> DEFINE new == [self EXCEPT !.pc = "read"]
  <2>1. resolver' = [resolver EXCEPT ![r] = new] /\ UNCHANGED disturbed
    BY <1>1, <1>2, <1>8 DEF Goto
  <2>2. /\ new \in Lookups /\ Busy(new) /\ new.pc = "read" /\ new.open = self.open /\ new.next = self.next
        /\ new.sessions = self.sessions /\ new.symbols = self.symbols /\ new.server = self.server
    BY <1>2 DEF Lookups, Steps, Busy
  <2> HIDE DEF new
  <2>3. world.kind = "pdb" => content(file) = "own"
    BY <1>6, <1>8 DEF usable
  <2>4. Placed(new, file)
    BY <1>4, <2>2 DEF Placed
  <2>5. r \in disturbed \/ Knows(new, file)
    BY <1>4, <1>7, <2>2, <2>3 DEF Knows
  <2> QED
    BY <1>1, <1>2, <2>1, <2>2, <2>3, <2>4, <2>5, GoesOnSInv
<1>9. CASE ~(world.kind = "dwarf" \/ usable(file))
  <2> DEFINE new == [self EXCEPT !.pc = "discard"]
  <2>1. resolver' = [resolver EXCEPT ![r] = new] /\ UNCHANGED disturbed
    BY <1>1, <1>2, <1>9 DEF Goto
  <2>2. /\ new \in Lookups /\ Busy(new) /\ new.pc = "discard" /\ new.open = self.open /\ new.next = self.next
        /\ new.sessions = self.sessions /\ new.symbols = self.symbols /\ new.server = self.server
    BY <1>2 DEF Lookups, Steps, Busy
  <2> HIDE DEF new
  <2>3. Placed(new, file)
    BY <1>4, <2>2 DEF Placed
  <2>4. content(file) # "own"
    BY <1>6, <1>9 DEF usable
  <2>5. r \in disturbed \/ \A s \in 1 .. self.server : options.servers[s] # {"own"}
    <3>1. ASSUME NEW s \in 1 .. self.server PROVE s = self.server \/ s \in 1 .. self.server - 1
      BY <1>4
    <3>2. r \in disturbed \/ options.servers[self.server] # {"own"}
      BY <1>5, <1>7, <2>4
    <3> QED
      BY <1>5, <3>1, <3>2
  <2>6. r \in disturbed \/ Knows(new, file)
    BY <2>2, <2>5 DEF Knows
  <2> QED
    BY <1>1, <1>2, <2>1, <2>2, <2>3, <2>6, GoesOnSInv
<1> QED
  BY <1>8, <1>9

-----------------------------------------------------------------------------
(* The end of a lookup.                                                     *)

\* The frame has its symbol, of a session that is what it should be.
LEMMA ResolvedSInv ==
  ASSUME SInv, AllLoaded, UNCHANGED <<vars, settings, directory, crashes>>,
         NEW r \in Resolvers, resolver[r].next \in 1 .. Len(world.frames),
         NEW sessions \in Caches(Int), Resolved(r, sessions),
         \A t \in DOMAIN resolver[r].sessions : t \in DOMAIN sessions /\ sessions[t] = resolver[r].sessions[t],
         \A t \in DOMAIN sessions : SessionInv(t, sessions[t]),
         Mod(resolver[r].next) # 0 => key(Mod(resolver[r].next)) \in DOMAIN sessions,
         world.kind = "pdb" => resolver[r].pc \notin {"write", "downloaded", "discard"},
         world.kind = "dwarf" /\ Busy(resolver[r]) /\ resolver[r].open =>
           \/ content(directory[Img(resolver[r].next)]) # "unreadable" \/ Doubt
           \/ \E t \in DOMAIN sessions : sessions[t].raced
  PROVE  SInv'
<1> DEFINE n == resolver[r].next
           k == Mod(n)
           at == <<key(k), world.frames[n][1]>>
           old == resolver[r].symbols
<1>1. /\ SettingsInv /\ SymbolTypes /\ SymbolsInv(resolver[r])
      /\ resolver \in [Resolvers -> Lookups] /\ resolver[r] \in Lookups
  BY DEF SInv, SymbolTypes
<1>2. n \in Nat \ {0} /\ old \in Caches(Int \X Int)
  BY <1>1 DEF Lookups
<1>3. /\ key(k) \in Int /\ (key(k) = NoModule <=> k = 0) /\ world.frames[n][1] \in Int
      /\ k # 0 => /\ k \in 1 .. Len(loaded) /\ Img(n) \in Payloads /\ loaded[k].payload = Img(n)
                  /\ key(k) = loaded[k].time
  BY <1>1, FrameFacts
<1>4. PICK symbol :
        symbol = IF k = 0 THEN Symbol("none", NoSession, FALSE)
                 ELSE IF sessions[key(k)].from = NoSession THEN Symbol(loaded[k].payload, NoSession, FALSE)
                 ELSE sessions[key(k)]
  OBVIOUS
<1>5. PICK symbols : symbols = emplaced(old, at, symbol)
  OBVIOUS
<1>6. PICK self : self = [Fresh EXCEPT !.next = n + 1, !.sessions = sessions, !.symbols = symbols]
  OBVIOUS
<1>7. resolver' = [resolver EXCEPT ![r] = self] /\ disturbed' = disturbed \ {r}
  BY <1>4, <1>5, <1>6 DEF Resolved, Module, address, Mod
<1>8. symbol \in Symbols /\ SymbolInv(key(k), symbol)
  <2>1. CASE k = 0
    BY <1>3, <1>4, <2>1 DEF Symbol, Symbols, SymbolInv
  <2>2. CASE k # 0
    <3>1. key(k) \in DOMAIN sessions /\ SessionInv(key(k), sessions[key(k)]) /\ key(k) # NoModule
      BY <1>3, <2>2
    <3>2. sessions[key(k)] \in Symbols
      BY <3>1 DEF Caches
    <3>3. CASE sessions[key(k)].from = NoSession
      <4>1. symbol = Symbol(Img(n), NoSession, FALSE)
        BY <1>3, <1>4, <2>2, <3>3
      <4>2. symbol \in Symbols /\ symbol.image = Img(n) /\ symbol.from = NoSession
        BY <1>3, <2>2, <4>1 DEF Symbol, Symbols
      <4> QED
        BY <1>3, <2>2, <3>1, <4>2 DEF SymbolInv
    <3>4. CASE sessions[key(k)].from # NoSession
      BY <1>4, <2>2, <3>1, <3>2, <3>4 DEF SessionInv, SymbolInv
    <3> QED
      BY <3>3, <3>4
  <2> QED
    BY <2>1, <2>2
<1>9. /\ symbols \in Caches(Int \X Int) /\ DOMAIN symbols = DOMAIN old \cup {at}
      /\ \A x \in DOMAIN old : symbols[x] = old[x]
      /\ at \notin DOMAIN old => symbols[at] = symbol
  <2>1. PICK cache : cache = old
    OBVIOUS
  <2>2. PICK x : x = at
    OBVIOUS
  <2>3. PICK K : K = Int \X Int
    OBVIOUS
  <2>4. cache \in Caches(K) /\ x \in K /\ symbol \in Symbols
    BY <1>2, <1>3, <1>8, <2>1, <2>2, <2>3
  <2>5. /\ emplaced(cache, x, symbol) \in Caches(K)
        /\ DOMAIN emplaced(cache, x, symbol) = DOMAIN cache \cup {x}
        /\ \A y \in DOMAIN cache : emplaced(cache, x, symbol)[y] = cache[y]
        /\ x \notin DOMAIN cache => emplaced(cache, x, symbol)[x] = symbol
    BY <2>4, EmplacedFacts
  <2> HIDE DEF at, old
  <2>6. emplaced(old, at, symbol) = symbols
    BY <1>5
  <2>7. emplaced(cache, x, symbol) = symbols
    BY <2>1, <2>2, <2>6
  <2> QED
    BY <2>1, <2>2, <2>3, <2>5, <2>7
<1>10. /\ self \in Lookups /\ ~Busy(self) /\ self.next = n + 1 /\ ~self.open /\ self.server = 0
       /\ self.sessions = sessions /\ self.symbols = symbols
  <2>1. n + 1 \in Nat \ {0}
    BY <1>2
  <2>2. Fresh \in Lookups /\ Fresh.pc = "resolve" /\ ~Fresh.open /\ Fresh.server = 0
    BY FreshFacts
  <2> HIDE DEF n
  <2>3. self \in Lookups
    BY <1>6, <1>9, <2>1, <2>2 DEF Lookups
  <2>4. /\ self.pc = "resolve" /\ self.next = n + 1 /\ ~self.open /\ self.server = 0
        /\ self.sessions = sessions /\ self.symbols = symbols
    BY <1>6, <2>2 DEF Lookups
  <2> QED
    BY <2>3, <2>4 DEF Busy
<1>11. SessionsInv(self)
  BY <1>10 DEF SessionsInv
<1>12. SymbolsInv(self)
  <2>1. ASSUME NEW x \in DOMAIN symbols PROVE SymbolInv(x[1], symbols[x])
    <3>1. CASE x \in DOMAIN old
      BY <1>1, <1>9, <3>1 DEF SymbolsInv
    <3>2. CASE x \notin DOMAIN old
      <4>1. x = at /\ symbols[x] = symbol /\ x[1] = key(k)
        BY <1>9, <3>2
      <4> QED
        BY <1>8, <4>1
    <3> QED
      BY <3>1, <3>2
  <2>2. ASSUME NEW i \in 1 .. (n + 1) - 1
        PROVE  i <= Len(world.frames) /\ <<key(Mod(i)), world.frames[i][1]>> \in DOMAIN symbols
    <3>1. i = n \/ i \in 1 .. n - 1
      BY <1>2
    <3>2. CASE i = n
      BY <1>9, <3>2
    <3>3. CASE i \in 1 .. n - 1
      BY <1>1, <1>9, <3>3 DEF SymbolsInv
    <3> QED
      BY <3>1, <3>2, <3>3
  <2> QED
    BY <1>10, <2>1, <2>2 DEF SymbolsInv
<1>13. crashes \in Nat /\ crashes' = crashes
  BY <1>1 DEF SymbolTypes
<1>14. \A s \in Resolvers : \A t \in DOMAIN resolver[s].sessions :
         t \in DOMAIN resolver'[s].sessions /\ resolver'[s].sessions[t] = resolver[s].sessions[t]
  <2>1. ASSUME NEW s \in Resolvers
        PROVE  \A t \in DOMAIN resolver[s].sessions :
                 t \in DOMAIN resolver'[s].sessions /\ resolver'[s].sessions[t] = resolver[s].sessions[t]
    <3>1. CASE s = r
      <4>1. resolver'[s].sessions = sessions
        BY <1>1, <1>7, <1>10, <3>1
      <4> QED
        BY <3>1, <4>1
    <3>2. CASE s # r
      BY <1>1, <1>7, <3>2
    <3> QED
      BY <3>1, <3>2
  <2> QED
    BY <2>1
<1>15. Doubt => Doubt'
  <2>1. SomebodyRaced => SomebodyRaced'
    BY <1>14 DEF SomebodyRaced, Sessions
  <2> QED
    BY <1>13, <2>1 DEF Doubt
<1>16. (\E t \in DOMAIN sessions : sessions[t].raced) => Doubt'
  <2>1. resolver'[r].sessions = sessions
    BY <1>1, <1>7, <1>10
  <2> QED
    BY <2>1 DEF Doubt, SomebodyRaced, Sessions
<1>17. SessionsInv(self)' /\ SymbolsInv(self)'
  BY <1>11, <1>12, <1>15, KeptSessions
<1>18. LookupInv(self, directory[Img(self.next)], r \in disturbed')
  BY <1>10 DEF LookupInv
<1>19. \A s \in Resolvers \ {r} : Together(self, resolver[s]) /\ resolver[s].open => r \in disturbed'
  BY <1>10 DEF Together
<1>20. crashes <= crashes' /\ crashes' \in Nat /\ disturbed \ {r} \subseteq disturbed'
  BY <1>7, <1>13
<1>21. UNCHANGED <<vars, settings, directory>>
  OBVIOUS
<1> HIDE DEF k, at, old
<1> QED
  BY <1>7, <1>10, <1>15, <1>16, <1>17, <1>18, <1>19, <1>20, <1>21, OwnStepSInv

\* The lookup gives the session of the module.
LEMMA FoundSInv ==
  ASSUME SInv, AllLoaded, UNCHANGED <<vars, settings, directory, crashes>>,
         NEW r \in Resolvers, resolver[r].next \in 1 .. Len(world.frames),
         Mod(resolver[r].next) # 0, key(Mod(resolver[r].next)) \notin DOMAIN resolver[r].sessions,
         NEW from \in {"own", "other", NoSession}, Found(r, from),
         SessionInv(key(Mod(resolver[r].next)), Symbol(Img(resolver[r].next), from, r \in disturbed)),
         world.kind = "pdb" => resolver[r].pc \notin {"write", "downloaded", "discard"},
         world.kind = "dwarf" /\ Busy(resolver[r]) /\ resolver[r].open =>
           \/ content(directory[Img(resolver[r].next)]) # "unreadable" \/ Doubt
           \/ r \in disturbed
  PROVE  SInv'
<1>1. PICK session : session = Symbol(Img(resolver[r].next), from, r \in disturbed)
  OBVIOUS
<1>2. PICK time : time = key(Mod(resolver[r].next))
  OBVIOUS
<1>3. PICK sessions : sessions = emplaced(resolver[r].sessions, time, session)
  OBVIOUS
<1>4. Resolved(r, sessions)
  BY <1>1, <1>2, <1>3 DEF Found, Module, Image, Mod, Img
<1>5. time \in Int /\ Img(resolver[r].next) \in Payloads
  BY <1>2, FrameFacts DEF SInv
<1>6. session \in Symbols /\ session.raced = (r \in disturbed)
  <2>1. (r \in disturbed) \in BOOLEAN
    OBVIOUS
  <2> QED
    BY <1>1, <1>5, <2>1 DEF Symbol, Symbols
<1>7. resolver[r].sessions \in Caches(Int) /\ SessionsInv(resolver[r])
  <2>1. resolver[r] \in Lookups
    BY DEF SInv, SymbolTypes
  <2> QED
    BY <2>1 DEF SInv, Lookups
<1>8. /\ sessions \in Caches(Int) /\ DOMAIN sessions = DOMAIN resolver[r].sessions \cup {time}
      /\ \A t \in DOMAIN resolver[r].sessions : sessions[t] = resolver[r].sessions[t]
      /\ sessions[time] = session
  <2>1. PICK cache : cache = resolver[r].sessions
    OBVIOUS
  <2>2. cache \in Caches(Int) /\ time \in Int /\ session \in Symbols
    BY <1>5, <1>6, <1>7, <2>1
  <2>3. /\ emplaced(cache, time, session) \in Caches(Int)
        /\ DOMAIN emplaced(cache, time, session) = DOMAIN cache \cup {time}
        /\ \A x \in DOMAIN cache : emplaced(cache, time, session)[x] = cache[x]
        /\ time \notin DOMAIN cache => emplaced(cache, time, session)[time] = session
    BY <2>2, EmplacedFacts
  <2> QED
    BY <1>2, <1>3, <2>1, <2>3
<1>9. \A t \in DOMAIN sessions : SessionInv(t, sessions[t])
  BY <1>1, <1>2, <1>7, <1>8 DEF SessionsInv
<1>10. r \in disturbed => \E t \in DOMAIN sessions : sessions[t].raced
  BY <1>6, <1>8
<1> QED
  BY <1>2, <1>4, <1>8, <1>9, <1>10, ResolvedSInv

LEMMA ReadFileSInv ==
  ASSUME SInv, NEW r \in Resolvers, ReadFile(r)
  PROVE  SInv'
<1> DEFINE n == resolver[r].next
           file == directory[Img(resolver[r].next)]
<1>1. At(r, "read") /\ UNCHANGED <<vars, settings, directory, crashes>>
  BY DEF ReadFile
<1>2. /\ AllLoaded /\ resolver[r].pc = "read" /\ File(r) = file /\ n \in 1 .. Len(world.frames)
      /\ Busy(resolver[r])
  BY <1>1, AtFacts DEF Busy
<1>3. /\ Wanted(resolver[r]) /\ Img(n) \in Payloads
      /\ r \in disturbed \/ Knows(resolver[r], file)
  BY <1>2, BusyFacts
<1>4. /\ Mod(n) # 0 /\ key(Mod(n)) \notin DOMAIN resolver[r].sessions /\ check(Img(n))
      /\ Mod(n) \in 1 .. Len(loaded) /\ loaded[Mod(n)].payload = Img(n) /\ key(Mod(n)) = loaded[Mod(n)].time
  BY <1>2, <1>3, FrameFacts DEF Wanted, SInv
<1>5. \/ r \in disturbed
      \/ /\ file # Absent
         /\ world.kind = "pdb" => content(file) = "own"
         /\ resolver[r].open => content(file) # "unreadable"
  BY <1>2, <1>3 DEF Knows
<1>6. PICK from : from = IF file # Absent /\ content(file) # "unreadable" THEN content(file) ELSE NoSession
  OBVIOUS
<1>7. /\ from \in {"own", "other", NoSession} /\ Found(r, from)
      /\ from # NoSession => from = content(file)
      /\ file # Absent /\ content(file) # "unreadable" => from = content(file)
      /\ from = NoSession => file = Absent \/ content(file) = "unreadable"
  <2>1. content(file) \in {"own", "other", "unreadable"}
    BY FileFacts
  <2>2. Found(r, from)
    BY <1>2, <1>6 DEF ReadFile
  <2> HIDE DEF file
  <2> QED
    BY <1>6, <2>1, <2>2 DEF NoSession
<1>8. world.kind \in {"pdb", "dwarf"}
  BY WorldFacts DEF SInv, SettingsInv
<1>9. r \in disturbed \/ from # NoSession \/ (world.kind = "dwarf" /\ Doubt)
  <2> SUFFICES ASSUME r \notin disturbed, from = NoSession PROVE world.kind = "dwarf" /\ Doubt
    OBVIOUS
  <2>1. content(file) = "unreadable" /\ file # Absent /\ world.kind # "pdb" /\ ~resolver[r].open
    BY <1>5, <1>7
  <2>2. content(file) # "unreadable" \/ Doubt \/ \E s \in Resolvers : /\ Busy(resolver[s]) /\ resolver[s].open
                                                                      /\ Img(resolver[s].next) = Img(n)
    BY <1>3, <2>1 DEF SInv, FilesInv
  <2>3. ASSUME NEW s \in Resolvers, Busy(resolver[s]), resolver[s].open, Img(resolver[s].next) = Img(n)
        PROVE  FALSE
    <3>1. s # r
      BY <2>1, <2>3
    <3>2. Together(resolver[r], resolver[s])
      BY <1>2, <2>3 DEF Together
    <3> QED
      BY <2>3, <3>1, <3>2 DEF SInv, OpenDisturbs
  <2> QED
    BY <1>8, <2>1, <2>2, <2>3
<1>10. PICK session : session = Symbol(Img(n), from, r \in disturbed)
  OBVIOUS
<1>11. session.image = Img(n) /\ session.from = from /\ session.raced = (r \in disturbed)
  BY <1>10 DEF Symbol
<1>12. SessionInv(key(Mod(n)), session)
  <2>1. from = "other" /\ world.kind = "pdb" => r \in disturbed
    BY <1>5, <1>7 DEF NoSession
  <2>2. \E j \in 1 .. Len(loaded) : loaded[j].time = key(Mod(n)) /\ loaded[j].payload = session.image
    BY <1>4, <1>11
  <2> HIDE DEF n
  <2> QED
    BY <1>4, <1>9, <1>11, <2>1, <2>2 DEF SessionInv
<1>13. world.kind = "pdb" => resolver[r].pc \notin {"write", "downloaded", "discard"}
  BY <1>2
<1>14. resolver[r].open => content(file) # "unreadable" \/ Doubt \/ r \in disturbed
  BY <1>5
<1> QED
  BY <1>1, <1>2, <1>4, <1>7, <1>10, <1>12, <1>13, <1>14, FoundSInv

LEMMA GiveUpSInv ==
  ASSUME SInv, NEW r \in Resolvers, GiveUp(r)
  PROVE  SInv'
<1> DEFINE n == resolver[r].next
           file == directory[Img(resolver[r].next)]
<1>1. At(r, "give up") /\ Found(r, NoSession) /\ UNCHANGED <<vars, settings, directory, crashes>>
  BY DEF GiveUp
<1>2. /\ AllLoaded /\ resolver[r].pc = "give up" /\ n \in 1 .. Len(world.frames)
      /\ Busy(resolver[r])
  <2>1. AllLoaded /\ resolver[r].pc = "give up" /\ n \in 1 .. Len(world.frames)
    BY <1>1, AtFacts
  <2> QED
    BY <2>1 DEF Busy
<1>3. /\ Wanted(resolver[r]) /\ Img(n) \in Payloads
      /\ Placed(resolver[r], file) /\ (r \in disturbed \/ Knows(resolver[r], file))
  BY <1>2, BusyFacts
<1>4. /\ Mod(n) # 0 /\ key(Mod(n)) \notin DOMAIN resolver[r].sessions
      /\ Mod(n) \in 1 .. Len(loaded) /\ loaded[Mod(n)].payload = Img(n) /\ key(Mod(n)) = loaded[Mod(n)].time
      /\ \A i \in 1 .. Len(candidates(Img(n))) : ~accepted(Img(n), candidates(Img(n))[i])
  BY <1>2, <1>3, FrameFacts DEF Wanted, SInv
<1>5. ~resolver[r].open
  BY <1>2, <1>3 DEF Placed
<1>6. r \in disturbed \/ \A s \in 1 .. Len(options.servers) : options.servers[s] # {"own"}
  BY <1>2, <1>3 DEF Placed, Knows
<1>7. \A i \in 1 .. Len(candidates(Img(n))) : candidates(Img(n))[i] # "own"
  <2>1. accepted(Img(n), "own")
    BY <1>3, CandidateFacts DEF SInv
  <2> QED
    BY <1>4, <2>1
<1>8. PICK session : session = Symbol(Img(n), NoSession, r \in disturbed)
  OBVIOUS
<1>9. session.image = Img(n) /\ session.from = NoSession /\ session.raced = (r \in disturbed)
  BY <1>8 DEF Symbol
<1>10. SessionInv(key(Mod(n)), session)
  <2>1. \E j \in 1 .. Len(loaded) : loaded[j].time = key(Mod(n)) /\ loaded[j].payload = session.image
    BY <1>4, <1>9
  <2>2. NoSession # "other"
    BY DEF NoSession
  <2> HIDE DEF n
  <2> QED
    BY <1>6, <1>7, <1>9, <2>1, <2>2 DEF SessionInv
<1>11. world.kind = "pdb" => resolver[r].pc \notin {"write", "downloaded", "discard"}
  BY <1>2
<1> QED
  BY <1>1, <1>2, <1>4, <1>5, <1>8, <1>10, <1>11, FoundSInv

LEMMA CrashSInv ==
  ASSUME SInv, NEW r \in Resolvers, Crash(r)
  PROVE  SInv'
<1>1. /\ AllLoaded /\ crashes' = crashes + 1
      /\ resolver' = [resolver EXCEPT ![r] = Fresh]
      /\ disturbed' = disturbed \ {r}
      /\ UNCHANGED <<vars, settings, directory>>
  BY DEF Crash
<1>2. crashes \in Nat
  BY DEF SInv, SymbolTypes
<1>3. crashes' \in Nat /\ crashes' > 0 /\ crashes <= crashes'
  BY <1>1, <1>2
<1>4. Doubt'
  BY <1>3 DEF Doubt
<1>5. Fresh \in Lookups /\ ~Busy(Fresh) /\ ~Fresh.open /\ Fresh.server = 0
  BY FreshFacts DEF Busy
<1>6. SessionsInv(Fresh)
  BY FreshFacts DEF SessionsInv
<1>7. SymbolsInv(Fresh)
  <2>1. \A i \in 1 .. Fresh.next - 1 : FALSE
    BY FreshFacts
  <2> QED
    BY <2>1, FreshFacts DEF SymbolsInv
<1>8. SessionsInv(Fresh)' /\ SymbolsInv(Fresh)'
  <2>1. PICK self : self = Fresh
    OBVIOUS
  <2>2. SessionsInv(self)' /\ SymbolsInv(self)'
    BY <1>1, <1>4, <1>6, <1>7, <2>1, KeptSessions
  <2> QED
    BY <2>1, <2>2
<1>9. LookupInv(Fresh, directory[Img(Fresh.next)], r \in disturbed')
  BY <1>5 DEF LookupInv
<1>10. \A s \in Resolvers \ {r} : Together(Fresh, resolver[s]) /\ resolver[s].open => r \in disturbed'
  BY <1>5 DEF Together
<1>11. disturbed \ {r} \subseteq disturbed'
  BY <1>1
<1> QED
  BY <1>1, <1>3, <1>4, <1>5, <1>8, <1>9, <1>10, <1>11, OwnStepSInv

LEMMA ResolveFrameSInv ==
  ASSUME SInv, NEW r \in Resolvers, ResolveFrame(r)
  PROVE  SInv'
<1> DEFINE n == resolver[r].next
           image == Img(n)
<1>1. At(r, "resolve") /\ UNCHANGED <<vars, settings, directory, crashes>>
  BY DEF ResolveFrame
<1>2. /\ AllLoaded /\ resolver[r] \in Lookups /\ resolver[r].pc = "resolve" /\ n \in 1 .. Len(world.frames)
      /\ Module(r) = Mod(n) /\ ~Busy(resolver[r])
  BY <1>1, AtFacts DEF Busy
<1>3. /\ SettingsInv /\ SymbolTypes /\ OpenDisturbs /\ SessionsInv(resolver[r]) /\ SymbolsInv(resolver[r])
      /\ LookupInv(resolver[r], directory[Img(n)], r \in disturbed)
      /\ resolver \in [Resolvers -> Lookups]
  BY DEF SInv, SymbolTypes
<1>4. ~resolver[r].open /\ resolver[r].server = 0 /\ resolver[r].sessions \in Caches(Int)
  BY <1>2, <1>3 DEF LookupInv, Lookups
<1>5. world.kind = "pdb" => resolver[r].pc \notin {"write", "downloaded", "discard"}
  BY <1>2
<1>6. CASE (Mod(n) = 0 \/ key(Mod(n)) \in DOMAIN resolver[r].sessions) /\ Resolved(r, resolver[r].sessions)
  <2>1. \A t \in DOMAIN resolver[r].sessions : SessionInv(t, resolver[r].sessions[t])
    BY <1>3 DEF SessionsInv
  <2> QED
    BY <1>1, <1>2, <1>4, <1>5, <1>6, <2>1, ResolvedSInv
<1>7. CASE /\ Mod(n) # 0
           /\ key(Mod(n)) \notin DOMAIN resolver[r].sessions
           /\ \/ ~check(image) /\ Found(r, NoSession)
              \/ /\ check(image)
                 /\ \E i \in 1 .. Len(candidates(image)) :
                      first_hit(image, i) /\ Found(r, candidates(image)[i])
              \/ /\ check(image)
                 /\ \A i \in 1 .. Len(candidates(image)) : ~accepted(image, candidates(image)[i])
                 /\ IF info(image) THEN LookInCache(r) ELSE Found(r, NoSession)
  <2>1. /\ image \in Payloads /\ Mod(n) \in 1 .. Len(loaded) /\ loaded[Mod(n)].payload = image
        /\ key(Mod(n)) = loaded[Mod(n)].time
    BY <1>2, <1>3, <1>7, FrameFacts
  <2> HIDE DEF image
  <2>2. \E j \in 1 .. Len(loaded) : loaded[j].time = key(Mod(n)) /\ loaded[j].payload = image
    BY <2>1
  <2>3. ASSUME NEW from \in {"own", "other", NoSession}, Found(r, from),
               SessionInv(key(Mod(n)), Symbol(image, from, r \in disturbed))
        PROVE  SInv'
    BY <1>1, <1>2, <1>5, <1>7, <2>3, FoundSInv DEF image
  <2>4. ASSUME NEW from, NEW session, session = Symbol(image, from, r \in disturbed)
        PROVE  session.image = image /\ session.from = from
    BY <2>4 DEF Symbol
  <2>5. CASE Found(r, NoSession) /\ (~check(image) \/ ~info(image))
    <3>1. PICK session : session = Symbol(image, NoSession, r \in disturbed)
      OBVIOUS
    <3>2. SessionInv(key(Mod(n)), session)
      BY <2>2, <2>4, <2>5, <3>1 DEF SessionInv, NoSession
    <3> QED
      BY <2>3, <2>5, <3>1, <3>2
  <2>6. CASE check(image) /\ \E i \in 1 .. Len(candidates(image)) :
                               first_hit(image, i) /\ Found(r, candidates(image)[i])
    <3>1. PICK i \in 1 .. Len(candidates(image)) : first_hit(image, i) /\ Found(r, candidates(image)[i])
      BY <2>6
    <3>2. PICK from : from = candidates(image)[i]
      OBVIOUS
    <3>3. /\ from \in Places /\ accepted(image, from)
      BY <1>3, <2>1, <3>1, <3>2, CandidateFacts DEF first_hit
    <3>4. /\ from \in {"own", "other"}
          /\ world.kind = "pdb" /\ info(image) => from = "own"
      <4>1. from # "absent"
        BY <1>3, <2>1, <3>3, CandidateFacts
      <4> QED
        BY <3>3, <4>1 DEF Places, accepted
    <3>5. PICK session : session = Symbol(image, from, r \in disturbed)
      OBVIOUS
    <3>6. SessionInv(key(Mod(n)), session)
      BY <2>2, <2>4, <2>6, <3>4, <3>5 DEF SessionInv, NoSession
    <3> QED
      BY <2>3, <3>1, <3>2, <3>4, <3>5, <3>6
  <2>7. CASE /\ check(image) /\ info(image) /\ LookInCache(r)
             /\ \A i \in 1 .. Len(candidates(image)) : ~accepted(image, candidates(image)[i])
    <3>0. PICK new : new = [resolver[r] EXCEPT !.pc = "cache"]
      OBVIOUS
    <3> DEFINE file == directory[Img(new.next)]
    <3>1. resolver' = [resolver EXCEPT ![r] = new]
      BY <1>3, <2>7, <3>0 DEF LookInCache
    <3>2. disturbed' = IF \E s \in Others(r) : resolver[s].open THEN disturbed \cup {r} ELSE disturbed
      BY <2>7 DEF LookInCache
    <3>3. /\ new \in Lookups /\ new.pc = "cache" /\ Busy(new) /\ new.next = n /\ ~new.open /\ new.server = 0
          /\ new.sessions = resolver[r].sessions /\ new.symbols = resolver[r].symbols
      BY <1>2, <1>4, <3>0 DEF Lookups, Steps, Busy
    <3>4. Wanted(new)
      BY <1>2, <1>7, <2>7, <3>3 DEF Wanted, image
    <3>5. Placed(new, file)
      <4>1. Len(options.servers) \in Nat
        BY <1>3 DEF SettingsInv, OptionsInv, Urls
      <4>2. new.server <= Len(options.servers)
        BY <3>3, <4>1
      <4> QED
        BY <3>3, <4>2 DEF Placed
    <3>6. Knows(new, file)
      BY <3>3 DEF Knows
    <3>7. LookupInv(new, file, r \in disturbed')
      BY <3>3, <3>4, <3>5, <3>6 DEF LookupInv
    <3>8. \A s \in Resolvers \ {r} : Together(new, resolver[s]) /\ resolver[s].open => r \in disturbed'
      <4>1. ASSUME NEW s \in Resolvers \ {r}, Together(new, resolver[s]), resolver[s].open
            PROVE  r \in disturbed'
        <5>1. Busy(resolver[s]) /\ Img(resolver[s].next) = Img(n)
          BY <3>3, <4>1 DEF Together
        <5>2. resolver[s].next <= Len(world.frames)
          <6>1. resolver[s].next \in 1 .. Len(world.frames) /\ Len(world.frames) \in Nat
            BY <1>3, <5>1, BusyFacts, WorldFacts DEF Wanted, SettingsInv
          <6> QED
            BY <6>1
        <5>3. Image(s) = Img(resolver[s].next) /\ Image(r) = Img(n)
          BY DEF Image, Module, Img, Mod
        <5>4. s \in Others(r)
          BY <4>1, <5>1, <5>2, <5>3 DEF Others, Busy
        <5> QED
          BY <3>2, <4>1, <5>4
      <4> QED
        BY <4>1
    <3>9. crashes \in Nat /\ crashes' = crashes /\ disturbed \ {r} \subseteq disturbed'
      BY <1>1, <1>3, <3>2 DEF SymbolTypes
    <3>10. Doubt => Doubt'
      <4>1. \A s \in Resolvers : resolver'[s].sessions = resolver[s].sessions
        BY <1>3, <3>1, <3>3
      <4>2. SomebodyRaced => SomebodyRaced'
        BY <4>1 DEF SomebodyRaced, Sessions
      <4> QED
        BY <3>9, <4>2 DEF Doubt
    <3>11. SessionsInv(new) /\ SymbolsInv(new)
      BY <1>3, <3>3 DEF SessionsInv, SymbolsInv
    <3>12. SessionsInv(new)' /\ SymbolsInv(new)'
      BY <1>1, <3>10, <3>11, KeptSessions
    <3>13. crashes' \in Nat /\ crashes <= crashes'
      BY <3>9
    <3> QED
      BY <1>1, <1>2, <3>1, <3>3, <3>7, <3>8, <3>9, <3>10, <3>12, <3>13, <1>5, OwnStepSInv
  <2> QED
    BY <1>7, <2>5, <2>6, <2>7
<1>8. Img(n) = loaded[Mod(n)].payload
  BY DEF Img
<1> HIDE DEF n
<1> QED
  BY <1>2, <1>6, <1>7, <1>8 DEF ResolveFrame

-----------------------------------------------------------------------------
(* Steps of a lookup that change the file.                                  *)

\* Who is at the same file.
LEMMA OthersFacts ==
  ASSUME SInv, NEW r \in Resolvers, Busy(resolver[r]), NEW s \in Resolvers \ {r}
  PROVE  s \in Others(r) <=> Together(resolver[r], resolver[s])
<1>1. Image(s) = Img(resolver[s].next) /\ Image(r) = Img(resolver[r].next)
  BY DEF Image, Module, Img, Mod
<1>2. Busy(resolver[s]) => resolver[s].next <= Len(world.frames)
  <2>1. Len(world.frames) \in Nat
    BY WorldFacts DEF SInv, SettingsInv
  <2>2. Busy(resolver[s]) => resolver[s].next \in 1 .. Len(world.frames)
    BY BusyFacts DEF Wanted
  <2> QED
    BY <2>1, <2>2
<1> QED
  BY <1>1, <1>2 DEF Others, Together, Busy

LEMMA SameSessionsKept ==
  ASSUME SInv, UNCHANGED <<vars, settings, crashes>>,
         \A s \in Resolvers : /\ resolver'[s].sessions = resolver[s].sessions
                              /\ resolver'[s].symbols = resolver[s].symbols /\ resolver'[s].next = resolver[s].next
  PROVE  /\ Doubt => Doubt'
         /\ (\A s \in Resolvers : SessionsInv(resolver[s]) /\ SymbolsInv(resolver[s]))'
<1>1. Doubt => Doubt'
  <2>1. SomebodyRaced => SomebodyRaced'
    BY DEF SomebodyRaced, Sessions
  <2> QED
    BY <2>1 DEF Doubt
<1>2. ASSUME NEW s \in Resolvers PROVE (SessionsInv(resolver[s]) /\ SymbolsInv(resolver[s]))'
  <2>1. PICK self : self = resolver'[s]
    OBVIOUS
  <2>2. SessionsInv(self) /\ SymbolsInv(self)
    <3>1. SessionsInv(resolver[s]) /\ SymbolsInv(resolver[s])
      BY DEF SInv
    <3>2. self.sessions = resolver[s].sessions /\ self.symbols = resolver[s].symbols /\ self.next = resolver[s].next
      BY <2>1
    <3> QED
      BY <3>1, <3>2 DEF SessionsInv, SymbolsInv
  <2>3. SessionsInv(self)' /\ SymbolsInv(self)'
    BY <1>1, <2>2, KeptSessions
  <2> QED
    BY <2>1, <2>3
<1> QED
  BY <1>1, <1>2

\* A resolver whose lookup goes on, and who has changed its file.
LEMMA ChangedFileSInv ==
  ASSUME SInv, AllLoaded, UNCHANGED <<vars, settings, crashes>>,
         NEW r \in Resolvers, NEW self \in Lookups, NEW file \in Files,
         Busy(resolver[r]), Busy(self), self.next = resolver[r].next,
         self.sessions = resolver[r].sessions, self.symbols = resolver[r].symbols,
         directory' = [directory EXCEPT ![Img(self.next)] = file],
         resolver' \in [Resolvers -> Lookups], resolver'[r] = self,
         \A s \in Resolvers \ {r} :
           resolver'[s] = IF file = Absent /\ Together(self, resolver[s]) THEN [resolver[s] EXCEPT !.open = FALSE]
                          ELSE resolver[s],
         disturbed \subseteq disturbed',
         \A s \in Resolvers \ {r} : Together(self, resolver[s]) => s \in disturbed',
         Placed(self, file), r \in disturbed \/ Knows(self, file),
         file # Absent => self.open /\ self.pc \in {"write", "downloaded", "discard"}
  PROVE  SInv'
<1> DEFINE image == Img(self.next)
<1>1. /\ SettingsInv /\ SymbolTypes /\ OpenDisturbs /\ FilesInv
      /\ \A s \in Resolvers : LookupInv(resolver[s], directory[Img(resolver[s].next)], s \in disturbed)
      /\ resolver \in [Resolvers -> Lookups] /\ directory \in [Payloads -> Files] /\ crashes \in Nat
  BY DEF SInv, SymbolTypes
<1>2. SettingsInv'
  BY <1>1, KeptSettings
<1>3. image \in Payloads /\ Wanted(self)
  <2>1. Img(resolver[r].next) \in Payloads /\ Wanted(resolver[r])
    BY BusyFacts
  <2> QED
    BY <2>1 DEF Wanted
<1>4. /\ directory'[image] = file /\ \A i \in Payloads \ {image} : directory'[i] = directory[i]
      /\ directory' \in [Payloads -> Files]
  BY <1>1, <1>3
<1>5. SymbolTypes'
  BY <1>1, <1>4 DEF SymbolTypes
<1>6. \A s \in Resolvers \ {r} :
        /\ resolver'[s].pc = resolver[s].pc /\ resolver'[s].next = resolver[s].next
        /\ resolver'[s].sessions = resolver[s].sessions /\ resolver'[s].symbols = resolver[s].symbols
        /\ resolver'[s].server = resolver[s].server /\ resolver'[s].reply = resolver[s].reply
        /\ resolver'[s].piece = resolver[s].piece
        /\ resolver'[s].open => resolver[s].open
        /\ ~Together(self, resolver[s]) => resolver'[s] = resolver[s]
        /\ file # Absent => resolver'[s] = resolver[s]
        /\ Together(self, resolver[s]) /\ resolver'[s].open => file # Absent
  <2>1. ASSUME NEW s \in Resolvers \ {r}, resolver'[s] = [resolver[s] EXCEPT !.open = FALSE]
        PROVE  /\ resolver'[s].pc = resolver[s].pc /\ resolver'[s].next = resolver[s].next
               /\ resolver'[s].sessions = resolver[s].sessions /\ resolver'[s].symbols = resolver[s].symbols
               /\ resolver'[s].server = resolver[s].server /\ resolver'[s].reply = resolver[s].reply
               /\ resolver'[s].piece = resolver[s].piece
               /\ ~resolver'[s].open
    <3>1. resolver[s] \in Lookups
      BY <1>1
    <3> QED
      BY <2>1, <3>1 DEF Lookups
  <2> QED
    BY <2>1
<1>7. (\A s \in Resolvers : SessionsInv(resolver[s]) /\ SymbolsInv(resolver[s]))' /\ (Doubt => Doubt')
  <2>1. \A s \in Resolvers : /\ resolver'[s].sessions = resolver[s].sessions
                             /\ resolver'[s].symbols = resolver[s].symbols /\ resolver'[s].next = resolver[s].next
    BY <1>6
  <2> QED
    BY <2>1, SameSessionsKept
<1>8. (\A s \in Resolvers : LookupInv(resolver[s], directory[Img(resolver[s].next)], s \in disturbed))'
  <2>1. ASSUME NEW s \in Resolvers
        PROVE  LookupInv(resolver'[s], directory'[Img(resolver'[s].next)], s \in disturbed')
    <3>1. CASE s = r
      BY <1>3, <1>4, <3>1 DEF LookupInv
    <3>2. CASE s # r /\ ~Busy(resolver[s])
      <4>1. resolver'[s] = resolver[s]
        BY <1>6, <3>2 DEF Together
      <4>2. LookupInv(resolver[s], directory[Img(resolver[s].next)], s \in disturbed)
        BY <1>1
      <4> QED
        BY <3>2, <4>1, <4>2 DEF LookupInv
    <3>3. CASE s # r /\ Busy(resolver[s])
      <4>1. /\ Wanted(resolver[s]) /\ Placed(resolver[s], directory[Img(resolver[s].next)])
            /\ s \in disturbed \/ Knows(resolver[s], directory[Img(resolver[s].next)])
            /\ Img(resolver[s].next) \in Payloads
        BY <3>3, BusyFacts
      <4>2. CASE ~Together(self, resolver[s])
        <5>1. resolver'[s] = resolver[s]
          BY <1>6, <3>3, <4>2
        <5>2. Img(resolver[s].next) # image
          BY <3>3, <4>2 DEF Together
        <5>3. directory'[Img(resolver[s].next)] = directory[Img(resolver[s].next)]
          BY <1>4, <4>1, <5>2
        <5> QED
          BY <3>3, <4>1, <5>1, <5>3 DEF LookupInv
      <4>3. CASE Together(self, resolver[s])
        <5>1. Img(resolver[s].next) = image /\ Img(resolver'[s].next) = image /\ Busy(resolver'[s])
          BY <1>6, <3>3, <4>3 DEF Together, Busy
        <5>2. Wanted(resolver'[s])
          BY <1>6, <3>3, <4>1 DEF Wanted
        <5>3. Placed(resolver'[s], file)
          <6>1. PICK old, new : old = resolver[s] /\ new = resolver'[s]
            OBVIOUS
          <6>2. /\ new.pc = old.pc /\ new.server = old.server /\ new.reply = old.reply /\ new.piece = old.piece
                /\ new.open => old.open /\ file # Absent
            BY <1>6, <3>3, <4>3, <6>1
          <6>3. Placed(old, directory[Img(resolver[s].next)])
            BY <4>1, <6>1
          <6>4. Placed(new, file)
            BY <6>2, <6>3 DEF Placed
          <6> QED
            BY <6>1, <6>4
        <5> QED
          BY <1>4, <3>3, <4>3, <5>1, <5>2, <5>3 DEF LookupInv
      <4> QED
        BY <4>2, <4>3
    <3> QED
      BY <3>1, <3>2, <3>3
  <2>2. /\ \A n : Img(n)' = Img(n)
        /\ \A x, f, raced : LookupInv(x, f, raced)' <=> LookupInv(x, f, raced)
    BY KeptOperators
  <2> QED
    BY <2>1, <2>2
<1>9. OpenDisturbs'
  <2>1. Busy(resolver'[r]) => resolver'[r].next = resolver[r].next
    OBVIOUS
  <2>2. \A s \in Resolvers \ {r} : Together(resolver'[r], resolver[s]) /\ resolver[s].open => r \in disturbed'
    BY <1>1 DEF OpenDisturbs, Together
  <2>3. \A s \in Resolvers \ {r} :
          Together(resolver[s], resolver'[r]) /\ resolver'[r].open =>
            (Busy(resolver[r]) /\ resolver[r].open) \/ s \in disturbed'
    BY DEF Together
  <2>4. disturbed \ {r} \subseteq disturbed'
    OBVIOUS
  <2>5. \A s \in Resolvers \ {r} : /\ resolver'[s].pc = resolver[s].pc /\ resolver'[s].next = resolver[s].next
                                   /\ resolver'[s].open => resolver[s].open
    BY <1>6
  <2> QED
    BY <1>1, <2>1, <2>2, <2>3, <2>4, <2>5, KeptOpenDisturbs
<1>10. FilesInv'
  <2>1. (\A n : Img(n)' = Img(n)) /\ world' = world
    BY KeptOperators
  <2>2. ASSUME NEW i \in Payloads, directory'[i] # Absent, world.kind = "pdb"
        PROVE  \/ content(directory'[i]) = "own" \/ crashes > 0
               \/ \E s \in Resolvers : /\ resolver'[s].pc \in {"write", "downloaded", "discard"}
                                       /\ Img(resolver'[s].next) = i
    <3>1. CASE i = image
      <4>1. resolver'[r].pc \in {"write", "downloaded", "discard"} /\ Img(resolver'[r].next) = i
        BY <1>4, <2>2, <3>1
      <4> QED
        BY <4>1
    <3>2. CASE i # image
      <4>1. directory'[i] = directory[i]
        BY <1>4, <3>2
      <4>2. ASSUME NEW s \in Resolvers, resolver[s].pc \in {"write", "downloaded", "discard"},
                   Img(resolver[s].next) = i
            PROVE  /\ resolver'[s].pc \in {"write", "downloaded", "discard"}
                   /\ Img(resolver'[s].next) = i
        <5>1. s # r
          BY <3>2, <4>2
        <5> QED
          BY <1>6, <4>2, <5>1
      <4> QED
        BY <1>1, <2>2, <4>1, <4>2 DEF FilesInv
    <3> QED
      BY <3>1, <3>2
  <2>3. ASSUME NEW i \in Payloads, directory'[i] # Absent, world.kind # "pdb"
        PROVE  \/ content(directory'[i]) # "unreadable" \/ Doubt'
               \/ \E s \in Resolvers : /\ Busy(resolver'[s]) /\ resolver'[s].open
                                       /\ Img(resolver'[s].next) = i
    <3>1. CASE i = image
      <4>1. Busy(resolver'[r]) /\ resolver'[r].open /\ Img(resolver'[r].next) = i
        BY <1>4, <2>3, <3>1
      <4> QED
        BY <4>1
    <3>2. CASE i # image
      <4>1. directory'[i] = directory[i]
        BY <1>4, <3>2
      <4>2. ASSUME NEW s \in Resolvers, Busy(resolver[s]), resolver[s].open, Img(resolver[s].next) = i
            PROVE  Busy(resolver'[s]) /\ resolver'[s].open /\ Img(resolver'[s].next) = i
        <5>1. s # r /\ ~Together(self, resolver[s])
          BY <3>2, <4>2 DEF Together
        <5>2. resolver'[s] = resolver[s]
          BY <1>6, <5>1
        <5> QED
          BY <4>2, <5>2
      <4> QED
        BY <1>1, <1>7, <2>3, <4>1, <4>2 DEF FilesInv
    <3> QED
      BY <3>1, <3>2
  <2> QED
    BY <2>1, <2>2, <2>3 DEF FilesInv, content, Busy
<1> QED
  BY <1>2, <1>5, <1>7, <1>8, <1>9, <1>10 DEF SInv

LEMMA DiscardSInv ==
  ASSUME SInv, NEW r \in Resolvers, Discard(r)
  PROVE  SInv'
<1> DEFINE self == resolver[r]
           image == Img(resolver[r].next)
<1>1. At(r, "discard") /\ RemoveFile(r, NextServer(r)) /\ UNCHANGED <<vars, settings, crashes>>
  BY DEF Discard
<1>2. /\ AllLoaded /\ self \in Lookups /\ self.pc = "discard" /\ Image(r) = image /\ File(r) = directory[image]
  BY <1>1, AtFacts
<1>3. Busy(self) /\ resolver \in [Resolvers -> Lookups] /\ directory \in [Payloads -> Files]
  BY <1>2 DEF Busy, SInv, SymbolTypes
<1>4. /\ Placed(self, directory[image]) /\ (r \in disturbed \/ Knows(self, directory[image]))
      /\ image \in Payloads
  BY <1>3, BusyFacts
<1>5. self.server <= Len(options.servers) /\ (self.open => directory[image] # Absent)
  BY <1>4 DEF Placed
<1>6. r \in disturbed \/ \A s \in 1 .. self.server : options.servers[s] # {"own"}
  BY <1>2, <1>4 DEF Knows
<1>7. PICK new : new = NextServer(r)
  OBVIOUS
<1>8. /\ new \in Lookups /\ Busy(new) /\ ~new.open /\ new.next = self.next
      /\ new.sessions = self.sessions /\ new.symbols = self.symbols
      /\ \A file : Placed(new, file)
      /\ r \in disturbed \/ \A file : Knows(new, file)
  BY <1>2, <1>5, <1>6, <1>7, NextServerFacts
<1>9. /\ directory' = [directory EXCEPT ![image] = Absent]
      /\ resolver' = [s \in Resolvers |->
                        IF s = r THEN new
                        ELSE IF s \in Others(r) THEN [resolver[s] EXCEPT !.open = FALSE] ELSE resolver[s]]
      /\ disturbed' = IF directory[image] = Absent THEN disturbed ELSE disturbed \cup Others(r)
  BY <1>1, <1>2, <1>7 DEF RemoveFile
<1>10. \A s \in Resolvers \ {r} : s \in Others(r) <=> Together(new, resolver[s])
  <2>1. ASSUME NEW s \in Resolvers \ {r} PROVE s \in Others(r) <=> Together(self, resolver[s])
    BY <1>3, OthersFacts
  <2> QED
    BY <1>3, <1>8, <2>1 DEF Together
<1>11. \A s \in Resolvers : [resolver[s] EXCEPT !.open = FALSE] \in Lookups
  <2>1. \A x \in Lookups : [x EXCEPT !.open = FALSE] \in Lookups
    BY DEF Lookups
  <2> QED
    BY <1>3, <2>1
<1>12. CASE directory[image] = Absent
  <2>1. UNCHANGED <<directory, disturbed>>
    BY <1>3, <1>4, <1>9, <1>12
  <2>2. ASSUME NEW s \in Resolvers \ {r} PROVE resolver'[s] = resolver[s]
    <3>1. CASE s \in Others(r)
      <4>1. Together(new, resolver[s])
        BY <1>10, <3>1
      <4>2. Busy(resolver[s]) /\ Img(resolver[s].next) = image
        BY <1>8, <4>1 DEF Together
      <4>3. ~resolver[s].open
        BY <1>12, <4>2, BusyFacts DEF Placed
      <4>4. resolver[s] \in Lookups
        BY <1>3
      <4>5. [resolver[s] EXCEPT !.open = FALSE] = resolver[s]
        BY <4>3, <4>4 DEF Lookups
      <4> QED
        BY <1>9, <3>1, <4>5
    <3>2. CASE s \notin Others(r)
      BY <1>9, <3>2
    <3> QED
      BY <3>1, <3>2
  <2>3. resolver' = [resolver EXCEPT ![r] = new]
    BY <1>3, <1>9, <2>2
  <2>4. UNCHANGED <<vars, settings, directory, disturbed, crashes>>
    BY <1>1, <2>1
  <2>5. ~self.open /\ Placed(new, directory[image]) /\ (r \in disturbed \/ Knows(new, directory[image]))
    BY <1>5, <1>8, <1>12
  <2> QED
    BY <1>2, <1>3, <1>8, <1>12, <2>3, <2>4, <2>5, GoesOnSInv
<1>13. CASE directory[image] # Absent
  <2>1. resolver' \in [Resolvers -> Lookups] /\ resolver'[r] = new
    BY <1>3, <1>8, <1>9, <1>11
  <2>2. \A s \in Resolvers \ {r} :
          resolver'[s] = IF Absent = Absent /\ Together(new, resolver[s]) THEN [resolver[s] EXCEPT !.open = FALSE]
                         ELSE resolver[s]
    BY <1>9, <1>10
  <2>3. /\ disturbed \subseteq disturbed'
        /\ \A s \in Resolvers \ {r} : Together(new, resolver[s]) => s \in disturbed'
    BY <1>9, <1>10, <1>13
  <2>4. Absent \in Files /\ directory' = [directory EXCEPT ![Img(new.next)] = Absent]
    BY <1>8, <1>9, FileFacts
  <2>5. Placed(new, Absent) /\ (r \in disturbed \/ Knows(new, Absent))
    BY <1>8
  <2> QED
    BY <1>1, <1>2, <1>3, <1>8, <2>1, <2>2, <2>3, <2>4, <2>5, ChangedFileSInv
<1> QED
  BY <1>12, <1>13

LEMMA PieceFacts ==
  /\ Cardinality(Pieces) = 2
  /\ \A o \in {"own", "other"} :
       /\ [Empty EXCEPT ![1] = o] \in Files /\ [Empty EXCEPT ![1] = o] # Absent
       /\ [[Empty EXCEPT ![1] = o] EXCEPT ![2] = o] = Whole(o)
  /\ \A file \in Files : \A o \in {"own", "other"} :
       [file EXCEPT ![2] = o] \in Files /\ [file EXCEPT ![2] = o] # Absent
<1>1. Cardinality(Pieces) = 2
  <2>1. PICK a, b \in Int : a = 1 /\ b = 2
    OBVIOUS
  <2>2. Cardinality(a .. b) = IF a > b THEN 0 ELSE b - a + 1
    BY FS_Interval, Zenon
  <2>3. (IF a > b THEN 0 ELSE b - a + 1) = 2
    BY <2>1
  <2> QED
    BY <2>1, <2>2, <2>3, Zenon DEF Pieces
<1>2. Pieces = {1, 2}
  BY DEF Pieces
<1>3. ASSUME NEW file \in Files, NEW o \in {"own", "other"}, NEW i \in Pieces
      PROVE  [file EXCEPT ![i] = o] \in Files /\ [file EXCEPT ![i] = o] # Absent
  <2>1. [file EXCEPT ![i] = o] \in Files /\ [file EXCEPT ![i] = o][i] = o
    BY DEF Files
  <2>2. Absent[i] = "no file" /\ o # "no file"
    BY DEF Absent
  <2> QED
    BY <2>1, <2>2
<1>4. ASSUME NEW o \in {"own", "other"} PROVE [[Empty EXCEPT ![1] = o] EXCEPT ![2] = o] = Whole(o)
  BY <1>2 DEF Empty, Whole
<1> QED
  BY <1>1, <1>2, <1>3, <1>4, FileFacts

LEMMA WritePieceSInv ==
  ASSUME SInv, NEW r \in Resolvers, WritePiece(r)
  PROVE  SInv'
<1> DEFINE self == resolver[r]
           image == Img(resolver[r].next)
<1>1. At(r, "write") /\ UNCHANGED <<vars, settings, crashes>>
  BY DEF WritePiece
<1>2. /\ AllLoaded /\ self \in Lookups /\ self.pc = "write" /\ Image(r) = image /\ File(r) = directory[image]
  BY <1>1, AtFacts
<1>3. Busy(self) /\ resolver \in [Resolvers -> Lookups] /\ directory \in [Payloads -> Files]
  BY <1>2 DEF Busy, SInv, SymbolTypes
<1>4. /\ Placed(self, directory[image]) /\ (r \in disturbed \/ Knows(self, directory[image]))
      /\ image \in Payloads
  BY <1>3, BusyFacts
<1>5. /\ self.server <= Len(options.servers) /\ self.server > 0 /\ self.server \in Nat
      /\ self.reply \in {"own", "other", "broken"}
      /\ (self.piece = 0 /\ ~self.open) \/ (self.piece = 1 /\ self.reply # "broken")
  BY <1>2, <1>4 DEF Placed, Lookups
<1>6. \/ r \in disturbed
      \/ /\ self.piece = 1 => self.open /\ directory[image] = [Empty EXCEPT ![1] = self.reply]
         /\ \A s \in 1 .. self.server - 1 : options.servers[s] # {"own"}
         /\ self.reply \in options.servers[self.server]
  BY <1>2, <1>4 DEF Knows
<1>7. PICK i, origin, before, step :
        /\ i = self.piece + 1
        /\ origin = IF self.reply = "broken" THEN "own" ELSE self.reply
        /\ before = IF i = 1 THEN Empty ELSE directory[image]
        /\ step = IF self.reply = "broken" THEN "discard"
                  ELSE IF i < Cardinality(Pieces) THEN "write" ELSE "downloaded"
  OBVIOUS
<1>8. PICK new : new = [self EXCEPT !.piece = i, !.open = (i = 1 \/ self.open), !.pc = step]
  OBVIOUS
<1>9. PICK file : file = [before EXCEPT ![i] = origin]
  OBVIOUS
<1>10. resolver' = [resolver EXCEPT ![r] = new]
  BY <1>3, <1>7, <1>8 DEF WritePiece
<1>11. IF i = 1 \/ self.open
       THEN directory' = [directory EXCEPT ![image] = file] /\ disturbed' = disturbed \cup Others(r)
       ELSE UNCHANGED <<directory, disturbed>>
  BY <1>2, <1>7, <1>9 DEF WritePiece
<1>12. /\ i \in 1 .. 2 /\ (i = 1 <=> self.piece = 0) /\ (i = 2 <=> self.piece = 1)
       /\ origin \in {"own", "other"}
       /\ step \in {"write", "downloaded", "discard"}
       /\ step = "write" => self.reply # "broken" /\ i = 1
       /\ step = "downloaded" => self.reply # "broken" /\ i = 2
       /\ step = "discard" => self.reply = "broken"
       /\ self.reply # "broken" => origin = self.reply
  BY <1>5, <1>7, PieceFacts
<1>13. /\ new \in Lookups /\ Busy(new) /\ new.pc = step /\ new.piece = i /\ (new.open <=> i = 1 \/ self.open)
       /\ new.next = self.next /\ new.sessions = self.sessions /\ new.symbols = self.symbols
       /\ new.server = self.server /\ new.reply = self.reply
  <2>1. (i = 1 \/ self.open) \in BOOLEAN /\ step \in Steps /\ step # "resolve" /\ i \in 0 .. 2
    <3>1. i \in 0 .. 2
      BY <1>12
    <3>2. step \in Steps /\ step # "resolve"
      BY <1>12 DEF Steps
    <3> QED
      BY <3>1, <3>2
  <2>2. PICK open : open = (i = 1 \/ self.open)
    OBVIOUS
  <2> HIDE DEF self
  <2>3. new \in Lookups /\ new.pc = step /\ new.piece = i /\ new.open = open
        /\ new.next = self.next /\ new.sessions = self.sessions /\ new.symbols = self.symbols
        /\ new.server = self.server /\ new.reply = self.reply
    BY <1>2, <1>8, <2>1, <2>2 DEF Lookups
  <2> QED
    BY <2>1, <2>2, <2>3 DEF Busy
<1>14. \A f : (new.open => f # Absent) => Placed(new, f)
  BY <1>5, <1>12, <1>13 DEF Placed
<1>15. \/ r \in disturbed
       \/ new.open /\ file = [Empty EXCEPT ![1] = self.reply] /\ step = "write" /\ i = 1
       \/ new.open /\ file = Whole(self.reply) /\ step = "downloaded" /\ i = 2
       \/ step = "discard"
  <2>1. CASE step = "write"
    BY <1>7, <1>9, <1>12, <1>13, <2>1
  <2>2. CASE step = "downloaded" /\ r \notin disturbed
    <3>1. self.open /\ directory[image] = [Empty EXCEPT ![1] = self.reply] /\ i = 2 /\ origin = self.reply
          /\ self.reply \in {"own", "other"}
      BY <1>6, <1>12, <2>2
    <3>2. file = [[Empty EXCEPT ![1] = self.reply] EXCEPT ![2] = self.reply]
      BY <1>7, <1>9, <3>1
    <3>3. file = Whole(self.reply)
      BY <3>1, <3>2, PieceFacts
    <3> QED
      BY <1>13, <2>2, <3>1, <3>3
  <2> QED
    BY <1>12, <2>1, <2>2
<1>16. r \in disturbed \/ Knows(new, file)
  <2>1. ASSUME step = "discard", r \notin disturbed
        PROVE  \A s \in 1 .. self.server : options.servers[s] # {"own"}
    <3>1. ASSUME NEW s \in 1 .. self.server PROVE s = self.server \/ s \in 1 .. self.server - 1
      BY <1>5
    <3>2. "broken" \in options.servers[self.server]
      BY <1>6, <1>12, <2>1
    <3> QED
      BY <1>6, <2>1, <3>1, <3>2
  <2> HIDE DEF self
  <2> QED
    BY <1>6, <1>12, <1>13, <1>15, <2>1 DEF Knows
<1>17. CASE i = 1 \/ self.open
  <2>1. file \in Files /\ file # Absent
    <3>1. CASE i = 1
      BY <1>7, <1>9, <1>12, <3>1, PieceFacts
    <3>2. CASE i = 2
      <4>1. directory[image] \in Files
        BY <1>3, <1>4
      <4> QED
        BY <1>7, <1>9, <1>12, <3>2, <4>1, PieceFacts
    <3> QED
      BY <1>12, <3>1, <3>2
  <2>2. \A s \in Resolvers \ {r} : s \in Others(r) <=> Together(new, resolver[s])
    <3>1. ASSUME NEW s \in Resolvers \ {r} PROVE s \in Others(r) <=> Together(self, resolver[s])
      BY <1>3, OthersFacts
    <3> QED
      BY <1>3, <1>13, <3>1 DEF Together
  <2>3. /\ directory' = [directory EXCEPT ![Img(new.next)] = file]
        /\ disturbed \subseteq disturbed'
        /\ \A s \in Resolvers \ {r} : Together(new, resolver[s]) => s \in disturbed'
    BY <1>11, <1>13, <1>17, <2>2
  <2>4. /\ resolver' \in [Resolvers -> Lookups] /\ resolver'[r] = new
        /\ \A s \in Resolvers \ {r} :
             resolver'[s] = IF file = Absent /\ Together(new, resolver[s]) THEN [resolver[s] EXCEPT !.open = FALSE]
                            ELSE resolver[s]
    BY <1>3, <1>10, <1>13, <2>1
  <2>5. Placed(new, file) /\ new.open /\ new.pc \in {"write", "downloaded", "discard"}
    BY <1>12, <1>13, <1>14, <1>17, <2>1
  <2> QED
    BY <1>1, <1>2, <1>3, <1>13, <1>16, <2>1, <2>3, <2>4, <2>5, ChangedFileSInv
<1>18. CASE ~(i = 1 \/ self.open)
  <2>1. UNCHANGED <<vars, settings, directory, disturbed, crashes>>
    BY <1>1, <1>11, <1>18
  <2>2. r \in disturbed
    BY <1>6, <1>12, <1>18
  <2>3. Placed(new, directory[image]) /\ ~new.open /\ new.pc \in {"write", "downloaded", "discard"}
    BY <1>12, <1>13, <1>14, <1>18
  <2> QED
    BY <1>2, <1>3, <1>10, <1>13, <1>18, <2>1, <2>2, <2>3, GoesOnSInv
<1> QED
  BY <1>17, <1>18

-----------------------------------------------------------------------------
(* The invariant is one of the specification.                               *)

LEMMA StutterSInv == SInv /\ UNCHANGED allVars => SInv'
<1> SUFFICES ASSUME SInv, UNCHANGED allVars PROVE SInv'
  OBVIOUS
<1>1. /\ UNCHANGED <<vars, settings>> /\ directory' = directory /\ resolver' = resolver
      /\ disturbed' = disturbed /\ crashes' = crashes
  BY DEF allVars, symbolVars
<1>2. /\ world' = world /\ options' = options /\ requested' = requested
      /\ loaded' = loaded /\ ranges' = ranges /\ modules' = modules
  BY <1>1 DEF vars, settings
<1>3. /\ SettingsInv /\ SymbolTypes /\ OpenDisturbs /\ FilesInv
      /\ \A s \in Resolvers : LookupInv(resolver[s], directory[Img(resolver[s].next)], s \in disturbed)
  BY DEF SInv
<1>4. SettingsInv'
  BY <1>1, <1>2, <1>3 DEF SettingsInv, IInv, OptionsInv, Handled, AllLoaded, AllSet, Untouched
<1>5. SymbolTypes'
  BY <1>1, <1>3 DEF SymbolTypes
<1>6. (\A s \in Resolvers : LookupInv(resolver[s], directory[Img(resolver[s].next)], s \in disturbed))'
  BY <1>1, <1>3, KeptOperators
<1>7. OpenDisturbs'
  BY <1>1, <1>3, KeptOperators DEF OpenDisturbs
<1>8. (\A s \in Resolvers : SessionsInv(resolver[s]) /\ SymbolsInv(resolver[s]))' /\ (Doubt => Doubt')
  BY <1>1, SameSessionsKept
<1>9. FilesInv'
  <2>1. \A n : Img(n)' = Img(n)
    BY <1>1, KeptOperators
  <2> QED
    BY <1>1, <1>2, <1>3, <1>8, <2>1 DEF FilesInv, content, Busy
<1> QED
  BY <1>4, <1>5, <1>6, <1>7, <1>8, <1>9 DEF SInv

LEMMA SymbolNextSInv == SInv /\ [SymbolNext]_allVars => SInv'
<1> SUFFICES ASSUME SInv, [SymbolNext]_allVars PROVE SInv'
  OBVIOUS
<1>1. CASE SetFindOptions
  BY <1>1, SetFindOptionsSInv DEF SInv
<1>2. CASE SetModuleFilters
  BY <1>2, SetModuleFiltersSInv DEF SInv
<1>3. CASE LoadModule
  BY <1>3, LoadModuleSInv DEF SInv
<1>4. ASSUME NEW r \in Resolvers, Step(r) PROVE SInv'
  BY <1>4, ResolveFrameSInv, CheckCacheSInv, DiscardSInv, AskSInv, WritePieceSInv, DownloadedSInv,
     ReadFileSInv, GiveUpSInv DEF Step
<1>5. ASSUME NEW r \in Resolvers, Crash(r) PROVE SInv'
  BY <1>5, CrashSInv
<1>6. CASE UNCHANGED allVars
  BY <1>6, StutterSInv
<1> QED
  BY <1>1, <1>2, <1>3, <1>4, <1>5, <1>6 DEF SymbolNext

\* The lookups of all resolvers fit together: what each knows of the file it looks for as
\* long as nobody has disturbed it, whose files are not whole, and what sessions and
\* symbols are.
THEOREM SymbolInvariant == SymbolSpec => []SInv
BY SymbolInitSInv, SymbolNextSInv, PTL DEF SymbolSpec

-----------------------------------------------------------------------------
(* What the properties say follows from it.                                 *)

\* A resolver that has resolved something is one of an open document.
LEMMA BegunIsLoaded ==
  ASSUME SInv, NEW r \in Resolvers, resolver[r].next # 1 \/ DOMAIN resolver[r].sessions # {}
  PROVE  AllLoaded /\ AllSet
<1>1. ~Untouched
  BY FreshFacts DEF Untouched
<1> QED
  BY <1>1 DEF SInv, SettingsInv, AllLoaded

LEMMA SInvSymbols == SInv => SymbolsOfTheirModules
<1> SUFFICES ASSUME SInv, NEW r \in Resolvers, NEW i \in 1 .. resolver[r].next - 1
             PROVE  LET frame  == world.frames[i]
                        k      == found(ranges, frame[1], frame[2])
                        symbol == resolver[r].symbols[<<key(k), frame[1]>>]
                    IN  IF k = 0 THEN symbol.from = NoSession
                        ELSE \/ /\ symbol.image = loaded[k].payload
                                /\ Hidden(loaded[k].payload) => symbol.from = NoSession
                             \/ \E j \in 1 .. Len(loaded) :
                                  loaded[j].time = loaded[k].time /\ loaded[j].payload # loaded[k].payload
  BY DEF SymbolsOfTheirModules
<1>1. /\ SettingsInv /\ SymbolsInv(resolver[r]) /\ resolver[r].next \in Nat /\ resolver[r].next # 1
  <2>1. resolver[r] \in Lookups
    BY DEF SInv, SymbolTypes
  <2>2. resolver[r].next \in Nat
    BY <2>1 DEF Lookups
  <2> QED
    BY <2>2 DEF SInv
<1>2. AllSet
  BY <1>1, BegunIsLoaded
<1>3. /\ i <= Len(world.frames)
      /\ <<key(Mod(i)), world.frames[i][1]>> \in DOMAIN resolver[r].symbols
  BY <1>1 DEF SymbolsInv
<1>4. i \in 1 .. Len(world.frames)
  <2>1. Len(world.frames) \in Nat
    BY <1>1, WorldFacts DEF SettingsInv
  <2> QED
    BY <1>1, <1>3, <2>1
<1>5. PICK k : k = Mod(i)
  OBVIOUS
<1>6. PICK symbol : symbol = resolver[r].symbols[<<key(k), world.frames[i][1]>>]
  OBVIOUS
<1>7. SymbolInv(key(k), symbol)
  <2>1. PICK at : at = <<key(k), world.frames[i][1]>>
    OBVIOUS
  <2>2. at \in DOMAIN resolver[r].symbols /\ at[1] = key(k)
    BY <1>3, <1>5, <2>1
  <2>3. SymbolInv(at[1], resolver[r].symbols[at])
    BY <1>1, <2>2 DEF SymbolsInv
  <2> QED
    BY <1>6, <2>1, <2>2, <2>3
<1>8. /\ key(k) = NoModule <=> k = 0
      /\ k # 0 => /\ loaded[k].payload \in Payloads /\ key(k) = loaded[k].time
  BY <1>1, <1>4, <1>5, FrameFacts
<1>9. CASE k = 0
  BY <1>5, <1>6, <1>7, <1>8, <1>9 DEF SymbolInv, Mod
<1>10. CASE k # 0
  <2>1. PICK j \in 1 .. Len(loaded) : loaded[j].time = loaded[k].time /\ loaded[j].payload = symbol.image
    BY <1>7, <1>8, <1>10 DEF SymbolInv
  <2>2. symbol.from # NoSession => check(symbol.image)
    BY <1>7, <1>8, <1>10 DEF SymbolInv
  <2>3. Hidden(loaded[k].payload) <=> ~check(loaded[k].payload)
    BY <1>1, <1>2, <1>8, <1>10, HiddenIsUnchecked
  <2>4. \/ /\ symbol.image = loaded[k].payload
           /\ Hidden(loaded[k].payload) => symbol.from = NoSession
        \/ \E x \in 1 .. Len(loaded) :
             loaded[x].time = loaded[k].time /\ loaded[x].payload # loaded[k].payload
    BY <2>1, <2>2, <2>3
  <2> QED
    BY <1>5, <1>6, <1>10, <2>4 DEF Mod
<1> QED
  BY <1>9, <1>10

\* The sessions of a resolver.
LEMMA SessionFacts ==
  ASSUME SInv, NEW r \in Resolvers, NEW session \in Sessions(r)
  PROVE  /\ AllSet /\ session.image \in Payloads /\ \E time : SessionInv(time, session)
<1>1. PICK t \in DOMAIN resolver[r].sessions : session = resolver[r].sessions[t]
  BY DEF Sessions
<1>2. SessionInv(t, session)
  BY <1>1 DEF SInv, SessionsInv
<1>3. AllSet
  BY <1>1, BegunIsLoaded
<1>4. session.image \in Payloads
  <2>1. PICK j \in 1 .. Len(loaded) : loaded[j].payload = session.image
    BY <1>2 DEF SessionInv
  <2>2. loaded \in Seq(Loads)
    BY DEF SInv, SettingsInv, IInv
  <2>3. loaded[j] \in Loads
    BY <2>2
  <2> QED
    BY <2>1, <2>3 DEF Loads
<1> QED
  BY <1>2, <1>3, <1>4

LEMMA SInvBuilds == SInv => BuildsChecked
<1> SUFFICES ASSUME SInv PROVE BuildsChecked
  OBVIOUS
<1>1. ASSUME NEW r \in Resolvers, NEW session \in Sessions(r),
             world.kind = "pdb" /\ info(session.image) /\ session.from = "other"
      PROVE  session.raced
  BY <1>1, SessionFacts DEF SessionInv
<1>2. ASSUME crashes = 0, \A r \in Resolvers : resolver[r].pc = "resolve",
             world.kind = "dwarf" => ~SomebodyRaced,
             NEW image \in Payloads, directory[image] # Absent
      PROVE  content(directory[image]) \in (IF world.kind = "pdb" THEN {"own"} ELSE {"own", "other"})
  <2>1. world.kind \in {"pdb", "dwarf"} /\ FilesInv
    BY WorldFacts DEF SInv, SettingsInv
  <2>2. ~(crashes > 0)
    BY <1>2
  <2>3. CASE world.kind = "pdb"
    <3>1. \A r \in Resolvers : resolver[r].pc \notin {"write", "downloaded", "discard"}
      BY <1>2
    <3> QED
      BY <1>2, <2>1, <2>2, <2>3, <3>1 DEF FilesInv
  <2>4. CASE world.kind = "dwarf"
    <3>1. \A r \in Resolvers : ~Busy(resolver[r])
      BY <1>2 DEF Busy
    <3>2. ~Doubt
      BY <1>2, <2>2, <2>4 DEF Doubt
    <3>3. content(directory[image]) # "unreadable"
      BY <1>2, <2>1, <2>4, <3>1, <3>2 DEF FilesInv
    <3> QED
      BY <2>4, <3>3, FileFacts
  <2> QED
    BY <2>1, <2>3, <2>4
<1> QED
  BY <1>1, <1>2 DEF BuildsChecked

LEMMA SInvGivesUp == SInv => GivesUpForAReason
<1> SUFFICES ASSUME SInv, NEW r \in Resolvers, NEW session \in Sessions(r),
                    session.from = NoSession /\ ~Hidden(session.image) /\ info(session.image),
                    \/ \E s \in 1 .. Len(options.servers) : options.servers[s] = {"own"}
                    \/ \E i \in 1 .. Len(candidates(session.image)) : candidates(session.image)[i] = "own"
             PROVE  session.raced \/ (world.kind = "dwarf" /\ (crashes > 0 \/ SomebodyRaced))
  BY DEF GivesUpForAReason
<1>1. /\ AllSet /\ session.image \in Payloads /\ \E time : SessionInv(time, session)
  BY SessionFacts
<1>2. check(session.image)
  BY <1>1, HiddenIsUnchecked DEF SInv
<1> QED
  BY <1>1, <1>2 DEF SessionInv, Doubt

\* Every frame gets the symbol of the module that was loaded at its address at its time,
\* none if its image is hidden, unless another image was loaded at that very time.
THEOREM FramesGetTheirSymbols == SymbolSpec => []SymbolsOfTheirModules
BY SymbolInvariant, SInvSymbols, PTL

\* A pdb of another build is used only after a race, and lookups that nobody killed
\* leave whole files in the cache directory.
THEOREM BuildsAreChecked == SymbolSpec => []BuildsChecked
BY SymbolInvariant, SInvBuilds, PTL

\* A resolver that could have found the file gives up only after a race, or because a
\* killed or disturbed download has left something that is not whole.
THEOREM NobodyGivesUpInVain == SymbolSpec => []GivesUpForAReason
BY SymbolInvariant, SInvGivesUp, PTL

\* Modules are found also while frames are resolved.
THEOREM ResolversFindModules == SymbolSpec => []ModulesFound
<1>1. SInv => ModulesFound
  BY IInvFindsLatest, IInvMisses DEF ModulesFound, SInv, SettingsInv
<1> QED
  BY <1>1, SymbolInvariant, PTL
=============================================================================
