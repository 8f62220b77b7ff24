------------------------ MODULE StatisticsDataProofs ------------------------
(***************************************************************************)
(* Proofs about StatisticsData, for every set of entities, kinds of data,  *)
(* queries and bounds.                                                     *)
(***************************************************************************)
EXTENDS StatisticsData, WellFoundedInduction, FiniteSetTheorems, SequenceTheorems, TLAPS

SampleType == [ts : Nat, count : Int, order : Int]
Content == [Lists -> Seq(SampleType)]
Reported == [Lists -> SampleType]

TypeInv ==
  /\ known \subseteq Entities
  /\ data \in Content /\ last \in Reported
  /\ phase \in {"live", "fresh", "loading", "loaded"}
  /\ file \in [known : SUBSET Entities, data : Content, last : Reported]
  /\ pending \in Content
  /\ reported \in [Lists -> Nat] /\ gone \in [Lists -> Int]

Sorted(samples) ==
  \A i, j \in 1 .. Len(samples) : i < j => samples[i].ts < samples[j].ts

(* The last reported value is that of the newest sample of a counter, or of *)
(* one that was cleared since; of anything else there is none.              *)
LastCovers(d, reports) ==
  \A l \in Lists :
    IF Kind(l) \in Counters
    THEN d[l] # <<>> => Last(d[l]).ts <= reports[l].ts
    ELSE reports[l] = NoSample

(* What is stored, and what was dumped, is sorted and covered; while a file *)
(* is loaded, what is stored and what is pending make up the file.          *)
StoreInv ==
  /\ \A l \in Lists : Sorted(data[l]) /\ Sorted(file.data[l])
  /\ LastCovers(file.data, file.last)
  /\ phase # "loading" => LastCovers(data, last)
  /\ phase = "fresh" => data = Nothing
  /\ phase = "loading" =>
       /\ known = file.known
       /\ \A l \in Lists : data[l] \o pending[l] = file.data[l]

(* The two digits of a counter: only a byte counter has the second.         *)
Digits(l, sample) ==
  /\ sample.count \in Nat /\ sample.order \in Nat
  /\ IF Kind(l) \in ByteCounters THEN sample.count < Base ELSE sample.order = 0

(* What is stored and what was removed add up to the last report, which the *)
(* source never undercuts.                                                  *)
CountInv ==
  phase = "live" =>
    \A l \in Lists : Kind(l) \in Counters =>
      /\ Digits(l, last[l])
      /\ Value(last[l]) <= reported[l]
      /\ Value(last[l]) = gone[l] + Total(data[l])

(* The pointers a call of get_data() holds lead to samples that are stored. *)
QueryFields == {"at", "call", "todo", "held", "freed", "wanted", "result"}

HeldInv ==
  query.at # "idle" =>
    /\ query.at \in {"next", "selected"} /\ phase \in {"live", "loaded"}
    /\ query = [f \in QueryFields |-> query[f]]
    /\ query.todo \in Seq(Entities \X (Entities \cup {NoKey}))
    /\ query.call.kind # "SAMPLE_DATAS" =>
         /\ \A i \in 1 .. Len(query.todo) :
              <<query.call.kind, query.todo[i][1], query.todo[i][2]>> \in Lists
         /\ query.freed = {}
         /\ query.at = "selected" =>
              \A h \in Range(query.held) :
                /\ h.list \in Lists /\ Kind(h.list) # "SAMPLE_DATAS"
                /\ Contains(data[h.list], h.sample)
-----------------------------------------------------------------------------
(* Every set of naturals that is not empty has a least element.             *)
LEMMA Least ==
  ASSUME NEW T \in SUBSET Nat, T # {}
  PROVE  \E x \in T : \A y \in T : x <= y
<1> DEFINE R == OpToRel(<, Nat)
<1>1. PICK x \in T : \A y \in T : ~(<<y, x>> \in R)
  BY NatLessThanWellFounded, WFMin
<1>2. ASSUME NEW y \in T, y < x PROVE FALSE
  BY <1>1, <1>2 DEF OpToRel
<1> HIDE DEF R
<1> QED
  BY <1>2

LEMMA MinOfNaturals ==
  ASSUME NEW T \in SUBSET Nat, T # {}
  PROVE  Min(T) \in T
<1>1. \E x \in T : \A y \in T : x <= y
  BY Least
<1> QED
  BY <1>1 DEF Min

(* The values f takes when each follows from the one before.                *)
Follows(f, N, S, base, step) ==
  /\ f \in [0 .. N -> S]
  /\ f[0] = base
  /\ \A n \in 1 .. N : f[n] = step[<<f[n - 1], n>>]

(* What is defined step by step exists: the recursive functions of the      *)
(* model satisfy their equations.                                           *)
LEMMA Recursion ==
  ASSUME NEW N \in Nat, NEW S, NEW base \in S, NEW step \in [S \X (1 .. N) -> S]
  PROVE  \E f : Follows(f, N, S, base, step)
<1> DEFINE Partial(k) == {f \in [0 .. k -> S] :
                            f[0] = base /\ \A n \in 1 .. k : f[n] = step[<<f[n - 1], n>>]}
           T == {k \in 0 .. N : Partial(k) = {}}
<1> SUFFICES ASSUME Partial(N) = {} PROVE FALSE
  BY DEF Follows
<1>1. T \in SUBSET Nat /\ N \in T
  OBVIOUS
<1>2. PICK k \in T : \A j \in T : k <= j
  <2> HIDE DEF T
  <2> QED
    BY <1>1, Least
<1>3. k # 0
  <2>1. [n \in 0 .. 0 |-> base] \in Partial(0)
    OBVIOUS
  <2> QED
    BY <2>1
<1>4. k - 1 \in 0 .. N /\ k \in 1 .. N /\ k - 1 \notin T
  <2>1. k \in 0 .. N
    OBVIOUS
  <2> HIDE DEF T
  <2> QED
    BY <1>2, <1>3, <2>1
<1>5. PICK f : f \in Partial(k - 1)
  BY <1>4
<1> DEFINE g == [n \in 0 .. k |-> IF n = k THEN step[<<f[k - 1], k>>] ELSE f[n]]
<1>6. f[k - 1] \in S /\ step[<<f[k - 1], k>>] \in S
  BY <1>4, <1>5
<1>7. g \in [0 .. k -> S] /\ g[0] = base
  BY <1>4, <1>5, <1>6
<1>8. ASSUME NEW n \in 1 .. k PROVE g[n] = step[<<g[n - 1], n>>]
  <2>1. n - 1 \in 0 .. k - 1 /\ n \in 0 .. k /\ n - 1 \in 0 .. k /\ n - 1 # k
    BY <1>4
  <2>2. g[n - 1] = f[n - 1]
    BY <2>1
  <2>3. CASE n = k
    BY <2>1, <2>2, <2>3
  <2>4. CASE n # k
    <3>1. n \in 1 .. k - 1 /\ g[n] = f[n]
      BY <2>1, <2>4, <1>4
    <3>2. f[n] = step[<<f[n - 1], n>>]
      BY <1>5, <3>1
    <3> QED
      BY <2>2, <3>1, <3>2
  <2> QED
    BY <2>3, <2>4
<1>9. g \in Partial(k)
  BY <1>7, <1>8
<1> QED
  BY <1>2, <1>9
-----------------------------------------------------------------------------
(* The partial sums of Total().                                             *)
Sums(samples) ==
  CHOOSE sum : sum = [n \in 0 .. Len(samples) |->
                        IF n = 0 THEN 0 ELSE sum[n - 1] + Value(samples[n])]

LEMMA ValueType ==
  ASSUME NEW s \in SampleType
  PROVE  Value(s) \in Int
BY DataAssumption DEF SampleType, Value

LEMMA SumsFollow ==
  ASSUME NEW s \in Seq(SampleType)
  PROVE  /\ Sums(s)[0] = 0
         /\ \A n \in 1 .. Len(s) : Sums(s)[n] = Sums(s)[n - 1] + Value(s[n])
         /\ Total(s) = Sums(s)[Len(s)]
<1> DEFINE N == Len(s)
           v(n) == Value(s[n])
           Body(f) == [n \in 0 .. N |-> IF n = 0 THEN 0 ELSE f[n - 1] + v(n)]
<1>0. N \in Nat /\ \A n \in 1 .. N : v(n) \in Int
  BY ValueType
<1>1. Sums(s) = CHOOSE f : f = Body(f)
  BY DEF Sums
<1>2. \E f : f = Body(f)
  <2> DEFINE step == [p \in Int \X (1 .. N) |-> p[1] + v(p[2])]
  <2> HIDE DEF v
  <2>1. step \in [Int \X (1 .. N) -> Int]
    BY <1>0
  <2>2. \A i \in Int, n \in 1 .. N : step[<<i, n>>] = i + v(n)
    OBVIOUS
  <2> HIDE DEF step, N
  <2>3. PICK f : Follows(f, N, Int, 0, step)
    <3>1. 0 \in Int
      OBVIOUS
    <3> QED
      BY <1>0, <2>1, <3>1, Recursion
  <2>4. ASSUME NEW n \in 1 .. N
        PROVE  f[n - 1] \in Int /\ f[n] = f[n - 1] + v(n)
    <3>1. n - 1 \in 0 .. N
      BY <1>0
    <3>2. f[n - 1] \in Int
      BY <2>3, <3>1 DEF Follows
    <3> QED
      BY <2>2, <2>3, <3>2 DEF Follows
  <2>5. f = Body(f)
    BY <2>3, <2>4 DEF Follows
  <2> QED
    BY <2>5
<1>3. Sums(s) = Body(Sums(s))
  <2> HIDE DEF Body
  <2> QED
    BY <1>1, <1>2
<1>4. Total(s) = Sums(s)[Len(s)]
  BY DEF Total, Sums
<1> QED
  BY <1>0, <1>3, <1>4

LEMMA SumsType ==
  ASSUME NEW s \in Seq(SampleType), NEW n \in 0 .. Len(s)
  PROVE  Sums(s)[n] \in Int
<1> DEFINE T == {k \in 0 .. Len(s) : Sums(s)[k] \notin Int}
<1> SUFFICES ASSUME T # {} PROVE FALSE
  OBVIOUS
<1>1. PICK k \in T : \A j \in T : k <= j
  <2>1. T \in SUBSET Nat
    OBVIOUS
  <2> HIDE DEF T
  <2> QED
    BY <2>1, Least
<1>2. k # 0
  BY SumsFollow
<1>3. k \in 1 .. Len(s) /\ k - 1 \in 0 .. Len(s) /\ k - 1 \notin T
  BY <1>1, <1>2
<1>4. Sums(s)[k - 1] \in Int /\ Value(s[k]) \in Int
  BY <1>3, ValueType
<1> QED
  BY <1>3, <1>4, SumsFollow

LEMMA TotalType ==
  ASSUME NEW s \in Seq(SampleType)
  PROVE  Total(s) \in Int
<1>1. Len(s) \in 0 .. Len(s)
  OBVIOUS
<1> QED
  BY <1>1, SumsFollow, SumsType

LEMMA TotalOfNone == Total(<<>>) = 0
<1>1. <<>> \in Seq(SampleType) /\ Len(<<>>) = 0
  OBVIOUS
<1> QED
  BY <1>1, SumsFollow

(* A sample that is appended adds its value.                                *)
LEMMA TotalOfAppend ==
  ASSUME NEW s \in Seq(SampleType), NEW x \in SampleType
  PROVE  Total(Append(s, x)) = Total(s) + Value(x)
<1> DEFINE a == Append(s, x)
           N == Len(s)
           T == {k \in 0 .. N : Sums(a)[k] # Sums(s)[k]}
<1>1. /\ N \in Nat /\ a \in Seq(SampleType) /\ Len(a) = N + 1
      /\ a[N + 1] = x /\ \A n \in 1 .. N : a[n] = s[n]
  OBVIOUS
<1> HIDE DEF a, N
<1>2. /\ Sums(a)[0] = 0 /\ \A n \in 1 .. N + 1 : Sums(a)[n] = Sums(a)[n - 1] + Value(a[n])
      /\ Total(a) = Sums(a)[N + 1]
  BY <1>1, SumsFollow
<1>3. /\ Sums(s)[0] = 0 /\ \A n \in 1 .. N : Sums(s)[n] = Sums(s)[n - 1] + Value(s[n])
      /\ Total(s) = Sums(s)[N]
  BY SumsFollow DEF N
<1>4. T = {}
  <2> SUFFICES ASSUME T # {} PROVE FALSE
    OBVIOUS
  <2>1. PICK k \in T : \A j \in T : k <= j
    <3>1. T \in SUBSET Nat
      BY <1>1
    <3> HIDE DEF T
    <3> QED
      BY <3>1, Least
  <2>2. k # 0
    BY <1>2, <1>3
  <2>3. /\ k \in 1 .. N /\ k \in 1 .. N + 1 /\ k - 1 \in 0 .. N /\ k - 1 \notin T
    BY <1>1, <2>1, <2>2
  <2>4. Sums(a)[k - 1] = Sums(s)[k - 1] /\ a[k] = s[k]
    BY <1>1, <2>3
  <2> QED
    BY <1>2, <1>3, <2>1, <2>3, <2>4
<1>5. Sums(a)[N] = Total(s)
  BY <1>1, <1>3, <1>4
<1> QED
  BY <1>1, <1>2, <1>5 DEF a
-----------------------------------------------------------------------------
(* The digits of a value, and the difference of two.                        *)
LEMMA DivMod ==
  ASSUME NEW v \in Nat
  PROVE  /\ v % Base \in 0 .. Base - 1 /\ v \div Base \in Nat
         /\ (v \div Base) * Base + (v % Base) = v
<1>1. Base \in Nat /\ Base > 0
  BY DataAssumption
<1> DEFINE m == v % Base
           k == v \div Base
<1>2. m \in 0 .. Base - 1 /\ k \in Int /\ v = Base * k + m
  BY <1>1
<1> HIDE DEF m, k
<1>3. k >= 0
  <2>1. k <= -1 => Base * k <= -Base
    BY <1>1, <1>2
  <2> QED
    BY <1>1, <1>2, <2>1
<1>4. k * Base + m = v
  BY <1>1, <1>2
<1>5. v % Base \in 0 .. Base - 1
  BY <1>2 DEF m
<1>6. v \div Base \in Nat
  <2>1. k \in Nat
    BY <1>2, <1>3
  <2> QED
    BY <2>1 DEF k
<1>7. (v \div Base) * Base + (v % Base) = v
  BY <1>4 DEF m, k
<1> QED
  BY <1>5, <1>6, <1>7

LEMMA ModOfDifference ==
  ASSUME NEW a \in 0 .. Base - 1, NEW b \in 0 .. Base - 1
  PROVE  (a - b) % Base = IF a >= b THEN a - b ELSE a - b + Base
<1>1. Base \in Nat /\ Base > 0
  BY DataAssumption
<1> DEFINE d == a - b
           m == d % Base
           k == d \div Base
<1>2. m \in 0 .. Base - 1 /\ k \in Int /\ d = Base * k + m
  BY <1>1
<1>3. d > -Base /\ d < Base /\ d \in Int
  BY <1>1
<1> HIDE DEF d, m, k
<1>4. k = 0 \/ k = -1
  <2>1. k >= 1 => Base * k >= Base
    BY <1>1, <1>2
  <2>2. k <= -2 => Base * k <= -2 * Base
    BY <1>1, <1>2
  <2> QED
    BY <1>1, <1>2, <1>3, <2>1, <2>2
<1>5. m = IF d >= 0 THEN d ELSE d + Base
  <2>1. CASE k = 0
    BY <1>1, <1>2, <2>1
  <2>2. CASE k = -1
    BY <1>1, <1>2, <2>2
  <2> QED
    BY <1>4, <2>1, <2>2
<1> QED
  BY <1>5 DEF d, m

(* What operator - computes is the difference of the values, across a carry *)
(* into the second digit.                                                   *)
LEMMA MinusIsDifference ==
  ASSUME NEW l, NEW s \in SampleType, NEW p \in SampleType,
         Digits(l, s), Digits(l, p), Value(p) <= Value(s)
  PROVE  LET d == Minus(Kind(l), s, p) IN
         d \in SampleType /\ d.ts = s.ts /\ Value(d) = Value(s) - Value(p)
<1>1. /\ Base \in Nat /\ Base > 0
      /\ s.ts \in Nat /\ s.count \in Nat /\ s.order \in Nat
      /\ p.ts \in Nat /\ p.count \in Nat /\ p.order \in Nat
  BY DataAssumption DEF SampleType, Digits
<1>2. CASE Kind(l) \in ByteCounters
  <2> DEFINE count == (s.count - p.count) % Base
             order == s.order - p.order
             o == IF count > s.count THEN order - 1 ELSE order
             d == [ts |-> s.ts, count |-> count, order |-> o]
  <2>1. Minus(Kind(l), s, p) = d
    BY <1>2 DEF Minus, Sample
  <2>2. s.count \in 0 .. Base - 1 /\ p.count \in 0 .. Base - 1
    BY <1>1, <1>2 DEF Digits
  <2>3. count = IF s.count >= p.count THEN s.count - p.count
                ELSE s.count - p.count + Base
    BY <2>2, ModOfDifference
  <2> HIDE DEF count
  <2>4. count \in Int /\ (count > s.count <=> s.count < p.count)
    BY <1>1, <2>2, <2>3
  <2>5. o \in Int /\ o = IF s.count < p.count THEN s.order - p.order - 1
                         ELSE s.order - p.order
    BY <1>1, <2>4
  <2>6. o * Base + count = (s.order * Base + s.count) - (p.order * Base + p.count)
    <3> HIDE DEF o
    <3>1. CASE s.count < p.count
      BY <1>1, <2>3, <2>5, <3>1
    <3>2. CASE ~(s.count < p.count)
      BY <1>1, <2>3, <2>5, <3>2
    <3> QED
      BY <3>1, <3>2
  <2>7. d \in SampleType /\ d.ts = s.ts /\ d.count = count /\ d.order = o
    BY <1>1, <2>4, <2>5 DEF SampleType
  <2> QED
    BY <2>1, <2>6, <2>7 DEF Value
<1>3. CASE Kind(l) \notin ByteCounters
  <2>1. s.order = 0 /\ p.order = 0
    BY <1>3 DEF Digits
  <2>2. Value(s) = s.count /\ Value(p) = p.count
    BY <1>1, <2>1 DEF Value
  <2> DEFINE d == [ts |-> s.ts, count |-> s.count - p.count, order |-> 0]
  <2>3. Minus(Kind(l), s, p) = d
    BY <1>1, <1>3, <2>2 DEF Minus, Sample
  <2>4. d \in SampleType /\ Value(d) = s.count - p.count
    BY <1>1 DEF SampleType, Value
  <2> QED
    BY <2>2, <2>3, <2>4
<1> QED
  BY <1>2, <1>3

(* Whatever the two samples are, what is stored is a sample of that time.   *)
LEMMA MinusType ==
  ASSUME NEW kind, NEW s \in SampleType, NEW p \in SampleType
  PROVE  Minus(kind, s, p) \in SampleType /\ Minus(kind, s, p).ts = s.ts
<1>1. /\ Base \in Nat /\ Base > 0
      /\ s.ts \in Nat /\ s.count \in Int /\ s.order \in Int
      /\ p.count \in Int /\ p.order \in Int
  BY DataAssumption DEF SampleType
<1>2. (s.count - p.count) % Base \in Int
  BY <1>1
<1>3. PICK c \in Int, o \in Int : Minus(kind, s, p) = [ts |-> s.ts, count |-> c, order |-> o]
  <2> DEFINE count == (s.count - p.count) % Base
             order == IF count > s.count THEN s.order - p.order - 1 ELSE s.order - p.order
             less == IF s.count >= p.count THEN s.count - p.count ELSE 0
  <2>1. order \in Int /\ count \in Int /\ less \in Int
    BY <1>1, <1>2
  <2>2. CASE kind \in ByteCounters
    <3>1. Minus(kind, s, p) = [ts |-> s.ts, count |-> count, order |-> order]
      BY <2>2 DEF Minus, Sample
    <3> HIDE DEF count, order
    <3> QED
      BY <2>1, <3>1
  <2>3. CASE kind \notin ByteCounters
    <3>1. Minus(kind, s, p) = [ts |-> s.ts, count |-> less, order |-> 0]
      BY <2>3 DEF Minus, Sample
    <3> HIDE DEF less
    <3> QED
      BY <2>1, <3>1
  <2> QED
    BY <2>2, <2>3
<1> QED
  BY <1>1, <1>3 DEF SampleType
-----------------------------------------------------------------------------
(* Lists that stay sorted.                                                  *)
LEMMA SortedAppend ==
  ASSUME NEW s \in Seq(SampleType), NEW x \in SampleType, Sorted(s),
         s = <<>> \/ Last(s).ts < x.ts
  PROVE  Append(s, x) \in Seq(SampleType) /\ Sorted(Append(s, x))
<1> DEFINE a == Append(s, x)
           N == Len(s)
<1>1. /\ N \in Nat /\ a \in Seq(SampleType) /\ Len(a) = N + 1
      /\ a[N + 1] = x /\ \A n \in 1 .. N : a[n] = s[n] /\ s[n] \in SampleType
  OBVIOUS
<1>2. N # 0 => s # <<>>
  OBVIOUS
<1>3. \A n \in 1 .. N : s[n].ts < x.ts /\ s[n].ts \in Nat /\ x.ts \in Nat
  <2>1. \A n \in 1 .. N : s[n].ts \in Nat /\ x.ts \in Nat
    BY <1>1 DEF SampleType
  <2>2. ASSUME NEW n \in 1 .. N PROVE s[n].ts < x.ts
    <3>1. N \in 1 .. N /\ s # <<>>
      BY <1>1, <1>2
    <3>2. s[N].ts < x.ts /\ (n < N => s[n].ts < s[N].ts)
      BY <3>1 DEF Sorted, Last
    <3> QED
      BY <1>1, <2>1, <3>1, <3>2
  <2> QED
    BY <2>1, <2>2
<1> HIDE DEF a, N
<1>4. ASSUME NEW i \in 1 .. Len(a), NEW j \in 1 .. Len(a), i < j PROVE a[i].ts < a[j].ts
  <2>1. i \in 1 .. N /\ (j \in 1 .. N \/ j = N + 1)
    BY <1>1, <1>4
  <2> QED
    BY <1>1, <1>3, <1>4, <2>1 DEF Sorted, N
<1> QED
  BY <1>1, <1>4 DEF Sorted, a

(* DataContainer::clear() keeps a suffix.                                   *)
LEMMA KeptSuffix ==
  ASSUME NEW s \in Seq(SampleType), NEW t
  PROVE  \E m \in 1 .. Len(s) + 1 : Kept(s, t) = SubSeq(s, m, Len(s))
<1> DEFINE T == {i \in 1 .. Len(s) : s[i].ts >= t} \cup {Len(s) + 1}
<1>1. T \in SUBSET Nat /\ T # {} /\ T \subseteq 1 .. Len(s) + 1
  OBVIOUS
<1>2. find_by_timestamp_(s, t) = Min(T)
  BY DEF find_by_timestamp_
<1> HIDE DEF T
<1>3. Min(T) \in 1 .. Len(s) + 1
  BY <1>1, MinOfNaturals
<1> QED
  BY <1>2, <1>3 DEF Kept

LEMMA KeptSorted ==
  ASSUME NEW s \in Seq(SampleType), NEW t, Sorted(s)
  PROVE  /\ Kept(s, t) \in Seq(SampleType) /\ Sorted(Kept(s, t))
         /\ Kept(s, t) # <<>> => s # <<>> /\ Last(Kept(s, t)) = Last(s)
<1>1. PICK m \in 1 .. Len(s) + 1 : Kept(s, t) = SubSeq(s, m, Len(s))
  BY KeptSuffix
<1> DEFINE r == SubSeq(s, m, Len(s))
           N == Len(s)
<1>2. /\ N \in Nat /\ m \in Nat /\ r \in Seq(SampleType) /\ Len(r) = N - m + 1
      /\ \A n \in 1 .. Len(r) : r[n] = s[m + n - 1] /\ m + n - 1 \in 1 .. N
  OBVIOUS
<1> HIDE DEF r, N
<1>3. Sorted(r)
  <2>1. ASSUME NEW i \in 1 .. Len(r), NEW j \in 1 .. Len(r), i < j PROVE r[i].ts < r[j].ts
    <3>1. m + i - 1 < m + j - 1
      BY <1>2, <2>1
    <3>2. s[m + i - 1].ts < s[m + j - 1].ts
      BY <1>2, <3>1 DEF Sorted, N
    <3> QED
      BY <1>2, <3>2
  <2> QED
    BY <2>1 DEF Sorted
<1>4. r # <<>> => s # <<>> /\ Last(r) = Last(s)
  <2> SUFFICES ASSUME r # <<>> PROVE s # <<>> /\ Last(r) = Last(s)
    OBVIOUS
  <2>1. Len(r) # 0 /\ Len(r) \in Nat
    BY <1>2
  <2>2. Len(r) \in 1 .. Len(r) /\ m + Len(r) - 1 = N /\ N # 0
    BY <1>2, <2>1
  <2>3. r[Len(r)] = s[N]
    BY <1>2, <2>2
  <2> QED
    BY <2>2, <2>3 DEF Last, N
<1> QED
  BY <1>1, <1>2, <1>3, <1>4 DEF r, N
-----------------------------------------------------------------------------
(* The actions that change the database or the file, and the rest.          *)
LEMMA NoSampleType == NoSample \in SampleType /\ NoSample.ts = 0
BY DEF NoSample, Sample, SampleType

LEMMA ReportType ==
  ASSUME TypeInv, NEW l \in Lists, NEW value \in Reports(l)
  PROVE  /\ value \in Nat
         /\ Kind(l) \in Counters => reported[l] <= value
BY DataAssumption DEF TypeInv, Reports

(* The sample that stands for a report.                                     *)
LEMMA SampleOfReport ==
  ASSUME NEW l, NEW ts \in Nat, NEW value \in Nat
  PROVE  LET sample == IF Kind(l) \in ByteCounters
                       THEN Sample(ts, value % Base, value \div Base) ELSE Sample(ts, value, 0)
         IN  sample \in SampleType /\ Digits(l, sample) /\ Value(sample) = value
<1>1. Base \in Nat /\ Base > 0
  BY DataAssumption
<1>2. CASE Kind(l) \in ByteCounters
  <2> DEFINE m == value % Base
             k == value \div Base
             s == [ts |-> ts, count |-> m, order |-> k]
  <2>1. m \in 0 .. Base - 1 /\ k \in Nat /\ k * Base + m = value
    BY DivMod
  <2> HIDE DEF m, k
  <2>2. s \in SampleType /\ Digits(l, s) /\ Value(s) = value
    BY <1>1, <1>2, <2>1 DEF SampleType, Digits, Value
  <2> QED
    BY <1>2, <2>2 DEF m, k, Sample
<1>3. CASE Kind(l) \notin ByteCounters
  BY <1>1, <1>3 DEF SampleType, Digits, Value, Sample
<1> QED
  BY <1>2, <1>3

LEMMA IncrementType ==
  ASSUME TypeInv, NEW l \in Lists, NEW s \in SampleType
  PROVE  Increment(l, s) \in SampleType /\ Increment(l, s).ts = s.ts
<1>1. last[l] \in SampleType
  BY DEF TypeInv, Reported
<1> QED
  BY <1>1, MinusType DEF Increment

LEMMA SortedShort ==
  /\ <<>> \in Seq(SampleType) /\ Sorted(<<>>)
  /\ \A x \in SampleType : <<x>> \in Seq(SampleType) /\ Sorted(<<x>>) /\ Last(<<x>>) = x
BY DEF Sorted, Last

LEMMA LastOfAppend ==
  ASSUME NEW s \in Seq(SampleType), NEW x \in SampleType
  PROVE  Append(s, x) # <<>> /\ Last(Append(s, x)) = x
<1>1. Len(Append(s, x)) = Len(s) + 1 /\ Len(s) \in Nat /\ Append(s, x)[Len(s) + 1] = x
  OBVIOUS
<1> QED
  BY <1>1 DEF Last

(* What insert() does to the samples and the last reports.                  *)
LEMMA InsertStores ==
  ASSUME TypeInv, NEW l \in Lists, NEW s \in SampleType, Sorted(data[l]), insert(l, s)
  PROVE  \/ UNCHANGED <<data, last, query>>
         \/ \E new \in Seq(SampleType) :
              /\ Sorted(new) /\ new # <<>> /\ Last(new).ts = s.ts
              /\ data' = [data EXCEPT ![l] = new]
              /\ last' = IF Kind(l) \in Counters THEN [last EXCEPT ![l] = s] ELSE last
<1> DEFINE x == Increment(l, s)
           new == IF Kind(l) = "SAMPLE_DATAS" THEN <<s>> ELSE Append(data[l], x)
<1>1. CASE IsOld(l, s, FALSE)
  BY <1>1 DEF insert
<1>2. CASE ~IsOld(l, s, FALSE)
  <2>1. /\ data' = [data EXCEPT ![l] = new]
        /\ last' = IF Kind(l) \in Counters THEN [last EXCEPT ![l] = s] ELSE last
    BY <1>2 DEF insert, TypeInv, Content
  <2>2. x \in SampleType /\ x.ts = s.ts /\ data[l] \in Seq(SampleType)
    BY IncrementType DEF TypeInv, Content
  <2> HIDE DEF x
  <2>3. CASE Kind(l) = "SAMPLE_DATAS"
    BY <2>1, <2>3, SortedShort
  <2>4. CASE Kind(l) # "SAMPLE_DATAS"
    <3>1. data[l] = <<>> \/ Last(data[l]).ts < x.ts
      <4>1. ASSUME data[l] # <<>> PROVE Last(data[l]).ts < s.ts
        <5>1. Last(data[l]) \in SampleType
          BY <2>2, <4>1 DEF Last
        <5>2. Last(data[l]).ts \in Nat /\ s.ts \in Nat
          BY <5>1 DEF SampleType
        <5> QED
          BY <1>2, <4>1, <5>2 DEF IsOld
      <4> QED
        BY <2>2, <4>1
    <3>2. new \in Seq(SampleType) /\ Sorted(new) /\ new # <<>> /\ Last(new).ts = s.ts
      BY <2>2, <2>4, <3>1, SortedAppend, LastOfAppend
    <3> HIDE DEF new
    <3> QED
      BY <2>1, <3>2
  <2> QED
    BY <2>3, <2>4
<1> QED
  BY <1>1, <1>2

Stored == TypeInv /\ StoreInv

LEMMA StoredInit == DataInit => Stored
<1> SUFFICES ASSUME DataInit PROVE Stored
  OBVIOUS
<1>1. Nothing \in Content /\ NoReport \in Reported
  BY NoSampleType, SortedShort DEF Nothing, NoReport, Content, Reported
<1>2. TypeInv
  BY <1>1 DEF DataInit, TypeInv, Locators
<1>3. StoreInv
  BY SortedShort DEF DataInit, StoreInv, LastCovers, Nothing, NoReport
<1> QED
  BY <1>2, <1>3 DEF Stored

LEMMA ReceiveStored ==
  ASSUME Stored, NEW l \in Lists, NEW ts \in 1 .. MaxTime, NEW value \in Reports(l),
         Receive(l, ts, value)
  PROVE  Stored'
<1>1. ts \in Nat /\ value \in Nat
  BY ReportType, DataAssumption DEF Stored
<1>2. PICK s \in SampleType :
        IF Owner(l) \in known THEN insert(l, s) ELSE UNCHANGED <<data, last, query>>
  BY <1>1, SampleOfReport DEF Receive
<1>3. /\ phase = "live" /\ UNCHANGED <<known, phase, file, pending, gone>>
      /\ reported' \in [Lists -> Nat]
  BY <1>1 DEF Receive, Stored, TypeInv
<1>4. CASE UNCHANGED <<data, last>>
  BY <1>3, <1>4 DEF Stored, TypeInv, StoreInv, LastCovers
<1>5. CASE ~UNCHANGED <<data, last>>
  <2>1. insert(l, s) /\ Sorted(data[l])
    BY <1>2, <1>5 DEF Stored, StoreInv
  <2>2. PICK new \in Seq(SampleType) :
              /\ Sorted(new) /\ new # <<>> /\ Last(new).ts = s.ts
              /\ data' = [data EXCEPT ![l] = new]
              /\ last' = IF Kind(l) \in Counters THEN [last EXCEPT ![l] = s] ELSE last
    BY <1>5, <2>1, InsertStores DEF Stored
  <2>3. TypeInv'
    BY <1>3, <2>2 DEF Stored, TypeInv, Content, Reported
  <2>4. \A k \in Lists : Sorted(data'[k])
    BY <2>2 DEF Stored, StoreInv, TypeInv, Content
  <2>5. LastCovers(data', last')
    <3>1. s.ts \in Nat
      BY DEF SampleType
    <3> SUFFICES ASSUME NEW k \in Lists
                 PROVE  IF Kind(k) \in Counters
                        THEN data'[k] # <<>> => Last(data'[k]).ts <= last'[k].ts
                        ELSE last'[k] = NoSample
      BY DEF LastCovers
    <3>2. CASE k = l
      BY <1>3, <2>2, <3>1, <3>2 DEF Stored, StoreInv, TypeInv, Content, Reported, LastCovers
    <3>3. CASE k # l
      BY <1>3, <2>2, <3>3 DEF Stored, StoreInv, TypeInv, Content, Reported, LastCovers
    <3> QED
      BY <3>2, <3>3
  <2> QED
    BY <1>3, <2>3, <2>4, <2>5 DEF Stored, StoreInv, LastCovers
<1> QED
  BY <1>4, <1>5

LEMMA ClearStored ==
  ASSUME Stored, NEW t, clear_nts(t), UNCHANGED <<known, phase, pending, reported>>,
         phase \in {"live", "loaded"},
         \/ UNCHANGED file
         \/ file' = Dumped
  PROVE  Stored'
<1>1. \A l \in Lists : data[l] \in Seq(SampleType) /\ Sorted(data[l])
  BY DEF Stored, TypeInv, Content, StoreInv
<1>2. \A l \in Lists : /\ Kept(data[l], t) \in Seq(SampleType) /\ Sorted(Kept(data[l], t))
                       /\ Kept(data[l], t) # <<>> =>
                            data[l] # <<>> /\ Last(Kept(data[l], t)) = Last(data[l])
  BY <1>1, KeptSorted
<1>3. data' = [l \in Lists |-> Kept(data[l], t)] /\ UNCHANGED last
  BY DEF clear_nts
<1>4. data' \in Content
  BY <1>2, <1>3 DEF Content
<1>5. gone' \in [Lists -> Int]
  <2>1. \A l \in Lists : Total(data[l]) \in Int /\ Total(data'[l]) \in Int
    BY <1>1, <1>4, TotalType DEF Content
  <2> QED
    BY <2>1 DEF clear_nts, Stored, TypeInv
<1>6. /\ file' \in [known : SUBSET Entities, data : Content, last : Reported]
      /\ \A l \in Lists : Sorted(file'.data[l])
      /\ LastCovers(file'.data, file'.last)
  <2>1. CASE UNCHANGED file
    BY <2>1 DEF Stored, TypeInv, StoreInv
  <2>2. CASE file' = Dumped
    BY <1>1, <2>2 DEF Stored, TypeInv, StoreInv, Dumped
  <2> QED
    BY <2>1, <2>2
<1>7. TypeInv'
  BY <1>3, <1>4, <1>5, <1>6 DEF Stored, TypeInv
<1>8. LastCovers(data', last')
  BY <1>2, <1>3 DEF Stored, StoreInv, LastCovers
<1>9. \A l \in Lists : Sorted(data'[l])
  BY <1>2, <1>3
<1> QED
  BY <1>6, <1>7, <1>8, <1>9 DEF Stored, StoreInv

LEMMA EraseStored ==
  ASSUME Stored, NEW e, Erase(e)
  PROVE  Stored'
<1>1. TypeInv'
  BY SortedShort, NoSampleType DEF Erase, Stored, TypeInv, Content, Reported
<1>2. \A l \in Lists : Sorted(data'[l])
  BY SortedShort DEF Erase, Stored, StoreInv
<1>3. LastCovers(data', last')
  BY DEF Erase, Stored, StoreInv, LastCovers
<1> QED
  BY <1>1, <1>2, <1>3 DEF Stored, StoreInv, Erase

LEMMA DumpStored ==
  ASSUME Stored, NEW clear \in BOOLEAN, dump_database(clear)
  PROVE  Stored'
<1>1. CASE clear
  <2>1. clear_nts(MaxTime + 1) /\ UNCHANGED <<known, phase, pending, reported>>
    BY <1>1 DEF dump_database
  <2>2. phase \in {"live", "loaded"} /\ file' = Dumped
    BY DEF dump_database
  <2> QED
    BY <2>1, <2>2, ClearStored
<1>2. CASE ~clear
  BY <1>2 DEF dump_database, Stored, TypeInv, StoreInv, Dumped
<1> QED
  BY <1>1, <1>2

LEMMA RestartStored ==
  ASSUME Stored, Restart
  PROVE  Stored'
<1>1. Nothing \in Content /\ NoReport \in Reported
  BY NoSampleType, SortedShort DEF Nothing, NoReport, Content, Reported
<1>2. TypeInv'
  BY <1>1 DEF Restart, Stored, TypeInv, Locators, environment
<1>3. \A l \in Lists : Sorted(data'[l])
  BY SortedShort DEF Restart, Nothing
<1>4. LastCovers(data', last')
  BY DEF Restart, LastCovers, Nothing, NoReport
<1> QED
  BY <1>2, <1>3, <1>4 DEF Restart, Stored, StoreInv

LEMMA LoadBeginStored ==
  ASSUME Stored, LoadBegin
  PROVE  Stored'
<1>1. TypeInv'
  BY DEF LoadBegin, Stored, TypeInv, environment
<1>2. ASSUME NEW l \in Lists PROVE data[l] \o file.data[l] = file.data[l]
  <2>1. data[l] = <<>> /\ file.data[l] \in Seq(SampleType)
    BY DEF LoadBegin, Stored, StoreInv, TypeInv, Content, Nothing
  <2> QED
    BY <2>1, ConcatEmptySeq
<1> QED
  BY <1>1, <1>2 DEF LoadBegin, Stored, StoreInv

LEMMA ConcatHead ==
  ASSUME NEW d \in Seq(SampleType), NEW p \in Seq(SampleType), p # <<>>
  PROVE  Append(d, Head(p)) \o Tail(p) = d \o p
<1>1. PICK x \in SampleType, a \in Seq(SampleType), r \in Seq(SampleType) :
        /\ x = Head(p) /\ a = Append(d, Head(p)) /\ r = Tail(p)
  <2>1. Head(p) \in SampleType /\ Tail(p) \in Seq(SampleType)
    BY HeadTailProperties
  <2>2. Append(d, Head(p)) \in Seq(SampleType)
    BY <2>1
  <2> QED
    BY <2>1, <2>2, Zenon
<1>2. Len(d) \in Nat /\ Len(p) \in Nat /\ Len(p) # 0 /\ x = p[1]
  BY <1>1, EmptySeq
<1>3. /\ Len(a) = Len(d) + 1 /\ a[Len(d) + 1] = x
      /\ \A i \in 1 .. Len(d) : a[i] = d[i]
  BY <1>1
<1>4. /\ Len(r) = Len(p) - 1
      /\ \A i \in 1 .. Len(r) : r[i] = p[i + 1]
  BY <1>1, HeadTailProperties
<1>5. /\ a \o r \in Seq(SampleType) /\ Len(a \o r) = Len(a) + Len(r)
      /\ \A i \in 1 .. Len(a) + Len(r) :
           (a \o r)[i] = IF i <= Len(a) THEN a[i] ELSE r[i - Len(a)]
  BY ConcatProperties
<1>6. /\ d \o p \in Seq(SampleType) /\ Len(d \o p) = Len(d) + Len(p)
      /\ \A i \in 1 .. Len(d) + Len(p) :
           (d \o p)[i] = IF i <= Len(d) THEN d[i] ELSE p[i - Len(d)]
  BY ConcatProperties
<1>7. ASSUME NEW i \in 1 .. Len(d) + Len(p) PROVE (a \o r)[i] = (d \o p)[i]
  <2>1. CASE i <= Len(d)
    BY <1>2, <1>3, <1>4, <1>5, <1>6, <2>1
  <2>2. CASE i = Len(d) + 1
    BY <1>2, <1>3, <1>4, <1>5, <1>6, <2>2
  <2>3. CASE i > Len(d) + 1
    <3>1. i - Len(a) \in 1 .. Len(r) /\ i - Len(a) + 1 = i - Len(d)
      BY <1>2, <1>3, <1>4, <2>3
    <3>2. r[i - Len(a)] = p[i - Len(d)]
      BY <1>4, <3>1
    <3> QED
      BY <1>2, <1>3, <1>4, <1>5, <1>6, <2>3, <3>2
  <2>4. i <= Len(d) \/ i = Len(d) + 1 \/ i > Len(d) + 1
    BY <1>2
  <2> QED
    BY <2>1, <2>2, <2>3, <2>4, Zenon
<1>8. Len(a \o r) = Len(d) + Len(p)
  BY <1>2, <1>3, <1>4, <1>5
<1>9. a \o r = d \o p
  BY <1>5, <1>6, <1>7, <1>8, SeqEqual
<1> QED
  BY <1>1, <1>9

LEMMA Junction ==
  ASSUME NEW d \in Seq(SampleType), NEW p \in Seq(SampleType), p # <<>>, d # <<>>,
         Sorted(d \o p)
  PROVE  Last(d).ts < Head(p).ts /\ Last(d).ts \in Nat /\ Head(p).ts \in Nat
<1>1. Len(d) \in Nat /\ Len(d) # 0 /\ Len(p) \in Nat /\ Len(p) # 0
  BY EmptySeq
<1>2. PICK f \in Seq(SampleType) :
        /\ f = d \o p /\ Len(f) = Len(d) + Len(p)
        /\ \A i \in 1 .. Len(d) + Len(p) :
             f[i] = IF i <= Len(d) THEN d[i] ELSE p[i - Len(d)]
  <2> DEFINE f == d \o p
  <2>1. /\ f \in Seq(SampleType) /\ Len(f) = Len(d) + Len(p)
        /\ \A i \in 1 .. Len(d) + Len(p) :
             f[i] = IF i <= Len(d) THEN d[i] ELSE p[i - Len(d)]
    BY ConcatProperties
  <2>2. f = d \o p
    OBVIOUS
  <2> HIDE DEF f
  <2> QED
    BY <2>1, <2>2
<1>3. Len(d) \in 1 .. Len(f) /\ Len(d) + 1 \in 1 .. Len(f) /\ Len(d) < Len(d) + 1
  BY <1>1, <1>2
<1>4. f[Len(d)] = d[Len(d)] /\ f[Len(d) + 1] = p[1]
  BY <1>1, <1>2, <1>3
<1>5. f[Len(d)].ts < f[Len(d) + 1].ts
  BY <1>2, <1>3 DEF Sorted
<1>6. d[Len(d)] \in SampleType /\ p[1] \in SampleType /\ Head(p) = p[1]
  BY <1>1
<1> QED
  BY <1>4, <1>5, <1>6 DEF Last, SampleType

(* A sample of a sorted list is newer than those before it: none is refused *)
(* while a file is loaded.                                                  *)
LEMMA LoadTakesAll ==
  ASSUME Stored, NEW l \in Lists, phase = "loading", pending[l] # <<>>
  PROVE  /\ ~IsOld(l, Head(pending[l]), FALSE)
         /\ Head(pending[l]) \in SampleType /\ Tail(pending[l]) \in Seq(SampleType)
         /\ Sorted(Append(data[l], Head(pending[l])))
         /\ Append(data[l], Head(pending[l])) \in Seq(SampleType)
         /\ Append(data[l], Head(pending[l])) \o Tail(pending[l]) = file.data[l]
<1>1. PICK d \in Seq(SampleType), p \in Seq(SampleType) : d = data[l] /\ p = pending[l]
  BY DEF Stored, TypeInv, Content
<1>2. p # <<>> /\ file.data[l] = d \o p /\ Sorted(d \o p) /\ Sorted(d)
  BY <1>1 DEF Stored, StoreInv
<1>3. Head(p) \in SampleType /\ Tail(p) \in Seq(SampleType)
  BY <1>2, HeadTailProperties
<1>4. d # <<>> => Last(d).ts < Head(p).ts /\ Last(d).ts \in Nat /\ Head(p).ts \in Nat
  BY <1>2, Junction
<1>5. ~IsOld(l, Head(p), FALSE)
  BY <1>1, <1>4 DEF IsOld
<1>6. Sorted(Append(d, Head(p))) /\ Append(d, Head(p)) \in Seq(SampleType)
  BY <1>2, <1>3, <1>4, SortedAppend
<1>7. Append(d, Head(p)) \o Tail(p) = d \o p
  BY <1>2, ConcatHead
<1> QED
  BY <1>1, <1>2, <1>3, <1>5, <1>6, <1>7

LEMMA LoadSampleStored ==
  ASSUME Stored, NEW l \in Lists, LoadSample(l)
  PROVE  Stored'
<1>1. phase = "loading" /\ pending[l] # <<>>
  BY DEF LoadSample
<1>2. PICK x, rest, new :
        /\ rest \in Seq(SampleType) /\ new \in Seq(SampleType) /\ Sorted(new)
        /\ new \o rest = file.data[l]
        /\ data' = [data EXCEPT ![l] = new] /\ pending' = [pending EXCEPT ![l] = rest]
  <2> DEFINE x == Head(pending[l])
             rest == Tail(pending[l])
             new == Append(data[l], x)
  <2>1. ~IsOld(l, x, FALSE) /\ rest \in Seq(SampleType) /\ new \in Seq(SampleType)
        /\ Sorted(new) /\ new \o rest = file.data[l]
    BY <1>1, LoadTakesAll
  <2>2. data' = [data EXCEPT ![l] = new] /\ pending' = [pending EXCEPT ![l] = rest]
    BY <2>1 DEF LoadSample, Stored, TypeInv, Content
  <2> HIDE DEF rest, new
  <2> QED
    BY <2>1, <2>2
<1>3. UNCHANGED <<known, last, phase, file, reported, gone>>
  BY DEF LoadSample, environment
<1>4. TypeInv'
  BY <1>2, <1>3 DEF Stored, TypeInv, Content
<1>5. \A k \in Lists : Sorted(data'[k]) /\ data'[k] \o pending'[k] = file.data[k]
  BY <1>1, <1>2 DEF Stored, StoreInv, TypeInv, Content
<1> QED
  BY <1>1, <1>3, <1>4, <1>5 DEF Stored, StoreInv

(* At the end of a load the database holds what the file holds.             *)
LEMMA LoadEndRestores ==
  ASSUME Stored, LoadEnd
  PROVE  /\ known = file.known /\ data = file.data
         /\ \A l \in Lists :
              /\ file.data[l] # <<>> => LoadedLast(l) = file.last[l]
              /\ Kind(l) \notin Counters => LoadedLast(l) = NoSample
<1>1. phase = "loading" /\ pending = Nothing
  BY DEF LoadEnd
<1>2. data = file.data
  <2>1. ASSUME NEW l \in Lists PROVE data[l] = file.data[l]
    <3>1. data[l] \in Seq(SampleType) /\ data[l] \o <<>> = file.data[l]
      BY <1>1 DEF Stored, StoreInv, TypeInv, Content, Nothing
    <3> QED
      BY <3>1, ConcatEmptySeq
  <2> QED
    BY <2>1 DEF Stored, TypeInv, Content
<1>3. ASSUME NEW l \in Lists, file.data[l] # <<>> PROVE LoadedLast(l) = file.last[l]
  <2>1. CASE Kind(l) \in Counters
    <3>1. Last(data[l]).ts <= file.last[l].ts
      BY <1>2, <1>3, <2>1 DEF Stored, StoreInv, LastCovers
    <3>2. Last(data[l]) \in SampleType /\ file.last[l] \in SampleType
      BY <1>2, <1>3 DEF Stored, TypeInv, Content, Reported, Last
    <3>3. Last(data[l]).ts \in Nat /\ file.last[l].ts \in Nat
      BY <3>2 DEF SampleType
    <3>4. ~IsOld(l, file.last[l], TRUE)
      BY <3>1, <3>3 DEF IsOld
    <3> QED
      BY <1>3, <2>1, <3>4 DEF LoadedLast
  <2>2. CASE Kind(l) \notin Counters
    BY <2>2 DEF LoadedLast, Stored, StoreInv, LastCovers
  <2> QED
    BY <2>1, <2>2
<1> QED
  BY <1>1, <1>2, <1>3 DEF Stored, StoreInv, LoadedLast

LEMMA LoadEndStored ==
  ASSUME Stored, LoadEnd
  PROVE  Stored'
<1>1. UNCHANGED <<known, data, file, pending, reported, gone>> /\ phase' = "loaded"
  BY DEF LoadEnd, environment
<1>2. last' = [l \in Lists |-> LoadedLast(l)]
  BY DEF LoadEnd
<1>3. \A l \in Lists : LoadedLast(l) \in SampleType
  BY NoSampleType DEF LoadedLast, Stored, TypeInv, Reported
<1>4. TypeInv'
  BY <1>1, <1>2, <1>3 DEF Stored, TypeInv, Reported
<1>5. LastCovers(data', last')
  BY <1>1, <1>2, LoadEndRestores DEF Stored, StoreInv, LastCovers
<1> QED
  BY <1>1, <1>4, <1>5 DEF Stored, StoreInv

LEMMA StoredStep ==
  ASSUME Stored, [DataNext]_dvars
  PROVE  Stored'
<1>1. ASSUME UNCHANGED <<db, file, pending, environment, gone>> PROVE Stored'
  BY <1>1 DEF db, environment, Stored, TypeInv, StoreInv, LastCovers
<1>2. ASSUME NEW l \in Lists, NEW ts \in 1 .. MaxTime, NEW value \in Reports(l),
             Receive(l, ts, value)
      PROVE  Stored'
  BY <1>2, ReceiveStored
<1>3. ASSUME NEW e \in Entities \ Locators, Discover(e) PROVE Stored'
  BY <1>3 DEF Discover, environment, Stored, TypeInv, StoreInv, LastCovers
<1>4. ASSUME NEW e \in Entities \ Locators, Erase(e) PROVE Stored'
  BY <1>4, EraseStored
<1>5. ASSUME NEW t_to \in 2 .. MaxTime + 1, clear_statistics_data(t_to) PROVE Stored'
  <2>1. /\ clear_nts(t_to) /\ UNCHANGED <<known, phase, pending, reported, file>>
        /\ phase \in {"live", "loaded"}
    BY <1>5 DEF clear_statistics_data
  <2> QED
    BY <2>1, ClearStored
<1>6. ASSUME NEW clear \in BOOLEAN, dump_database(clear) PROVE Stored'
  BY <1>6, DumpStored
<1>7. ASSUME NEW l \in Lists, LoadSample(l) PROVE Stored'
  BY <1>7, LoadSampleStored
<1>8. CASE Restart
  BY <1>8, RestartStored
<1>9. CASE LoadBegin
  BY <1>9, LoadBeginStored
<1>10. CASE LoadEnd
  BY <1>10, LoadEndStored
<1>11. ASSUME NEW q \in Queries, get_data(q) PROVE Stored'
  BY <1>1, <1>11 DEF get_data
<1>12. CASE Select \/ AddData \/ Return
  BY <1>1, <1>12 DEF Select, AddData, Return
<1>13. CASE UNCHANGED dvars
  BY <1>1, <1>13 DEF dvars, db, environment
<1> QED
  BY <1>2, <1>3, <1>4, <1>5, <1>6, <1>7, <1>8, <1>9, <1>10, <1>11, <1>12, <1>13 DEF DataNext

(* The samples in the database and in the file keep their types and order,  *)
(* and the invariants of a load.                                            *)
THEOREM SamplesStored == DataSpec => []Stored
<1> QED
  BY StoredInit, StoredStep, PTL DEF DataSpec

(* The samples of a list are sorted by timestamp, as select() and clear()   *)
(* rely on, through rejected samples, clears and loads.                     *)
THEOREM SamplesSorted == DataSpec => []SamplesOrdered
<1>1. Stored => SamplesOrdered
  BY DEF Stored, StoreInv, Sorted, SamplesOrdered
<1> QED
  BY <1>1, SamplesStored, PTL

(* load_database() into an empty database restores what dump_database()     *)
(* wrote: no sample is refused as old, no last report is lost.              *)
THEOREM DumpRestored == DataSpec => LoadRestores
<1>1. ASSUME Stored, [DataNext]_dvars
      PROVE  [phase = "loading" /\ phase' = "loaded" =>
                /\ known' = file.known
                /\ data' = file.data
                /\ \A l \in Lists : file.data[l] # <<>> => last'[l] = file.last[l]]_dvars
  <2> SUFFICES ASSUME phase = "loading", phase' = "loaded", DataNext
               PROVE  /\ known' = file.known /\ data' = file.data
                      /\ \A l \in Lists : file.data[l] # <<>> => last'[l] = file.last[l]
    BY <1>1
  <2>1. LoadEnd
    <3>1. \A l, ts, value : ~Receive(l, ts, value)
      BY DEF Receive
    <3>2. \A e : ~Discover(e) /\ ~Erase(e)
      BY DEF Discover, Erase
    <3>3. \A t : ~clear_statistics_data(t) /\ ~dump_database(t)
      BY DEF clear_statistics_data, dump_database
    <3>4. \A l : ~LoadSample(l)
      BY DEF LoadSample
    <3>5. \A q : ~get_data(q)
      BY DEF get_data
    <3>6. ~Select /\ ~AddData /\ ~Return
      BY DEF Select, AddData, Return, db
    <3>7. ~Restart /\ ~LoadBegin
      BY DEF Restart, LoadBegin
    <3> QED
      BY <3>1, <3>2, <3>3, <3>4, <3>5, <3>6, <3>7 DEF DataNext
  <2>2. UNCHANGED <<known, data>> /\ last' = [l \in Lists |-> LoadedLast(l)]
    BY <2>1 DEF LoadEnd
  <2> QED
    BY <1>1, <2>1, <2>2, LoadEndRestores
<1> QED
  BY <1>1, SamplesStored, PTL DEF DataSpec, LoadRestores
-----------------------------------------------------------------------------
(* The increments of a counter.                                             *)
Counted(l, d, g, r, v) ==
  Digits(l, r) /\ Value(r) <= v /\ Value(r) = g + Total(d)

LEMMA CountedInv ==
  CountInv <=> (phase = "live" => \A l \in Lists : Kind(l) \in Counters =>
                  Counted(l, data[l], gone[l], last[l], reported[l]))
BY DEF CountInv, Counted

LEMMA NoneCounted ==
  ASSUME NEW l, NEW v \in Nat
  PROVE  Counted(l, <<>>, 0, NoSample, v)
<1>1. Base \in Nat /\ Base > 0
  BY DataAssumption
<1>2. NoSample.count = 0 /\ NoSample.order = 0 /\ Value(NoSample) = 0
  BY <1>1 DEF NoSample, Sample, Value
<1> QED
  BY <1>1, <1>2, TotalOfNone DEF Counted, Digits

LEMMA CountInit == DataInit => CountInv
<1> SUFFICES ASSUME DataInit, NEW l \in Lists
             PROVE  Counted(l, data[l], gone[l], last[l], reported[l])
  BY CountedInv
<1> QED
  BY NoneCounted DEF DataInit, Nothing, NoReport

(* A report that is stored adds its increment, one that is refused nothing. *)
LEMMA ReceiveCounts ==
  ASSUME Stored, CountInv, NEW l \in Lists, NEW ts \in 1 .. MaxTime, NEW value \in Reports(l),
         Receive(l, ts, value)
  PROVE  CountInv'
<1>1. ts \in Nat /\ value \in Nat /\ (Kind(l) \in Counters => reported[l] <= value)
  BY ReportType, DataAssumption DEF Stored
<1>2. PICK s \in SampleType :
        /\ Digits(l, s) /\ Value(s) = value
        /\ IF Owner(l) \in known THEN insert(l, s) ELSE UNCHANGED <<data, last, query>>
  BY <1>1, SampleOfReport DEF Receive
<1>3. /\ phase = "live" /\ UNCHANGED gone
      /\ reported' = IF Kind(l) \in Counters THEN [reported EXCEPT ![l] = value] ELSE reported
      /\ reported \in [Lists -> Nat] /\ data \in Content /\ last \in Reported /\ gone \in [Lists -> Int]
  BY DEF Receive, Stored, TypeInv
<1>4. \A k \in Lists : Kind(k) \in Counters =>
        Counted(k, data[k], gone[k], last[k], reported[k])
  BY <1>3, CountedInv
<1> SUFFICES ASSUME NEW k \in Lists, Kind(k) \in Counters
             PROVE  Counted(k, data'[k], gone'[k], last'[k], reported'[k])
  BY DEF CountInv, Counted
<1>5. /\ data[k] \in Seq(SampleType) /\ last[k] \in SampleType
      /\ reported[k] \in Nat /\ gone[k] \in Int
  BY <1>3 DEF Content, Reported
<1>6. CASE k # l
  <2>1. data'[k] = data[k] /\ last'[k] = last[k] /\ reported'[k] = reported[k]
    <3>1. reported'[k] = reported[k]
      BY <1>3, <1>6
    <3>2. CASE UNCHANGED <<data, last>>
      BY <3>1, <3>2
    <3>3. CASE ~UNCHANGED <<data, last>>
      <4>1. insert(l, s) /\ ~IsOld(l, s, FALSE)
        BY <1>2, <3>3 DEF insert
      <4>2. /\ data' = [data EXCEPT ![l] = IF Kind(l) = "SAMPLE_DATAS" THEN <<s>>
                                           ELSE Append(@, Increment(l, s))]
            /\ last' = IF Kind(l) \in Counters THEN [last EXCEPT ![l] = s] ELSE last
        BY <4>1 DEF insert
      <4> QED
        BY <1>3, <1>6, <3>1, <4>2 DEF Content, Reported
    <3> QED
      BY <3>2, <3>3
  <2> QED
    BY <1>3, <1>4, <2>1
<1>7. CASE k = l
  <2>1. reported'[l] = value /\ reported[l] <= value
    BY <1>1, <1>3, <1>7
  <2>2. Digits(l, last[l]) /\ Value(last[l]) <= reported[l]
        /\ Value(last[l]) = gone[l] + Total(data[l])
    BY <1>4, <1>7 DEF Counted
  <2>3. Value(last[l]) \in Int /\ Value(s) \in Int /\ Total(data[l]) \in Int
    BY <1>5, <1>7, ValueType, TotalType
  <2>4. CASE UNCHANGED <<data, last>>
    <3>1. Value(last[l]) <= value
      BY <1>1, <1>5, <1>7, <2>1, <2>2, <2>3
    <3> QED
      BY <1>3, <1>7, <2>1, <2>2, <2>4, <3>1 DEF Counted
  <2>5. CASE ~UNCHANGED <<data, last>>
    <3> DEFINE x == Minus(Kind(l), s, last[l])
    <3>1. insert(l, s) /\ ~IsOld(l, s, FALSE)
      BY <1>2, <2>5 DEF insert
    <3>2. Kind(l) \in Counters /\ Kind(l) # "SAMPLE_DATAS"
      BY <1>7 DEF Counters, ByteCounters
    <3>3. data'[l] = Append(data[l], x) /\ last'[l] = s
      BY <1>3, <3>1, <3>2 DEF insert, Increment, Content, Reported
    <3>4. Value(last[l]) <= Value(s)
      BY <1>1, <1>2, <1>5, <1>7, <2>1, <2>2, <2>3
    <3>5. x \in SampleType /\ Value(x) = Value(s) - Value(last[l])
      BY <1>2, <1>5, <1>7, <2>2, <3>4, MinusIsDifference
    <3> HIDE DEF x
    <3>6. Total(data'[l]) = Total(data[l]) + Value(x)
      BY <1>5, <1>7, <3>3, <3>5, TotalOfAppend
    <3>7. Value(s) = gone[l] + Total(data'[l])
      BY <1>5, <1>7, <2>2, <2>3, <3>5, <3>6
    <3> QED
      BY <1>1, <1>2, <1>3, <1>7, <2>1, <3>3, <3>7 DEF Counted
  <2> QED
    BY <2>4, <2>5
<1> QED
  BY <1>6, <1>7

(* What is cleared is accounted for in gone.                                *)
LEMMA ClearCounts ==
  ASSUME Stored, Stored', CountInv, NEW t, clear_nts(t), UNCHANGED <<phase, reported>>
  PROVE  CountInv'
<1> SUFFICES ASSUME phase = "live", NEW l \in Lists, Kind(l) \in Counters
             PROVE  Counted(l, data'[l], gone'[l], last'[l], reported'[l])
  BY DEF CountInv, Counted
<1>1. Counted(l, data[l], gone[l], last[l], reported[l])
  BY CountedInv
<1>2. gone'[l] = gone[l] + Total(data[l]) - Total(data'[l]) /\ last'[l] = last[l]
  BY DEF clear_nts
<1>3. data[l] \in Seq(SampleType) /\ data'[l] \in Seq(SampleType) /\ gone[l] \in Int
  BY DEF Stored, TypeInv, Content
<1>4. Total(data[l]) \in Int /\ Total(data'[l]) \in Int
  BY <1>3, TotalType
<1>5. gone'[l] + Total(data'[l]) = gone[l] + Total(data[l])
  BY <1>2, <1>3, <1>4
<1> QED
  BY <1>1, <1>2, <1>5 DEF Counted

LEMMA CountStep ==
  ASSUME Stored, Stored', CountInv, [DataNext]_dvars
  PROVE  CountInv'
<1>1. ASSUME UNCHANGED <<data, last, gone, reported, phase>> PROVE CountInv'
  BY <1>1 DEF CountInv
<1>2. ASSUME phase' # "live" PROVE CountInv'
  BY <1>2 DEF CountInv
<1>3. ASSUME NEW l \in Lists, NEW ts \in 1 .. MaxTime, NEW value \in Reports(l),
             Receive(l, ts, value)
      PROVE  CountInv'
  BY <1>3, ReceiveCounts
<1>4. ASSUME NEW e \in Entities \ Locators, Discover(e) PROVE CountInv'
  BY <1>1, <1>4 DEF Discover, environment
<1>5. ASSUME NEW e \in Entities \ Locators, Erase(e) PROVE CountInv'
  <2> SUFFICES ASSUME phase = "live", NEW l \in Lists, Kind(l) \in Counters
               PROVE  Counted(l, data'[l], gone'[l], last'[l], reported'[l])
    BY <1>5 DEF CountInv, Counted, Erase
  <2>1. CASE Owner(l) = e
    <3>1. data'[l] = <<>> /\ gone'[l] = 0 /\ last'[l] = NoSample /\ reported'[l] \in Nat
      BY <1>5, <2>1 DEF Erase, Stored, TypeInv
    <3> QED
      BY <3>1, NoneCounted
  <2>2. CASE Owner(l) # e
    BY <1>5, <2>2, CountedInv DEF Erase
  <2> QED
    BY <2>1, <2>2
<1>6. ASSUME NEW t_to \in 2 .. MaxTime + 1, clear_statistics_data(t_to) PROVE CountInv'
  <2>1. clear_nts(t_to) /\ UNCHANGED <<phase, reported>>
    BY <1>6 DEF clear_statistics_data
  <2> QED
    BY <2>1, ClearCounts
<1>7. ASSUME NEW clear \in BOOLEAN, dump_database(clear) PROVE CountInv'
  <2>1. CASE clear
    <3>1. clear_nts(MaxTime + 1) /\ UNCHANGED <<phase, reported>>
      BY <1>7, <2>1 DEF dump_database
    <3> QED
      BY <3>1, ClearCounts
  <2>2. CASE ~clear
    BY <1>1, <1>7, <2>2 DEF dump_database
  <2> QED
    BY <2>1, <2>2
<1>8. ASSUME NEW l \in Lists, LoadSample(l) PROVE CountInv'
  BY <1>2, <1>8 DEF LoadSample
<1>9. CASE Restart \/ LoadBegin \/ LoadEnd
  BY <1>2, <1>9 DEF Restart, LoadBegin, LoadEnd
<1>10. ASSUME UNCHANGED <<db, file, pending, environment, gone>> PROVE CountInv'
  BY <1>1, <1>10 DEF db, environment
<1>11. ASSUME NEW q \in Queries, get_data(q) PROVE CountInv'
  BY <1>10, <1>11 DEF get_data
<1>12. CASE Select \/ AddData \/ Return
  BY <1>10, <1>12 DEF Select, AddData, Return
<1>13. CASE UNCHANGED dvars
  BY <1>1, <1>13 DEF dvars
<1> QED
  BY <1>3, <1>4, <1>5, <1>6, <1>7, <1>8, <1>9, <1>11, <1>12, <1>13 DEF DataNext

(* The increments stored and removed add up to the last report of a         *)
(* counter, whatever is rejected, cleared or erased between two reports and *)
(* however often the first digit of a byte counter wraps.                   *)
THEOREM NoIncrementLost == DataSpec => []IncrementsAddUp
<1>1. CountInv => IncrementsAddUp
  BY DEF CountInv, IncrementsAddUp
<1> QED
  BY <1>1, CountInit, CountStep, SamplesStored, PTL DEF DataSpec
-----------------------------------------------------------------------------
(* The loop of select(): what it finds from t_from in the first n samples.  *)
Picks(samples, t_from) ==
  CHOOSE found : found =
    [n \in 0 .. Len(samples) |->
       IF n = 0 THEN <<>>
       ELSE IF samples[n].ts >= t_from THEN Append(found[n - 1], samples[n])
       ELSE found[n - 1]]

LEMMA PicksFollow ==
  ASSUME NEW s \in Seq(SampleType), NEW t
  PROVE  /\ Picks(s, t)[0] = <<>>
         /\ \A n \in 1 .. Len(s) :
              Picks(s, t)[n] = IF s[n].ts >= t THEN Append(Picks(s, t)[n - 1], s[n])
                               ELSE Picks(s, t)[n - 1]
<1> DEFINE N == Len(s)
           pick(r, n) == IF s[n].ts >= t THEN Append(r, s[n]) ELSE r
           Body(f) == [n \in 0 .. N |-> IF n = 0 THEN <<>> ELSE pick(f[n - 1], n)]
           S == Seq(SampleType)
<1>0. /\ N \in Nat /\ <<>> \in S
      /\ \A r \in S, n \in 1 .. N : pick(r, n) \in S
  OBVIOUS
<1>1. Picks(s, t) = CHOOSE f : f = Body(f)
  BY DEF Picks
<1> HIDE DEF pick, S, N
<1>2. \E f : f = Body(f)
  <2> DEFINE step == [p \in S \X (1 .. N) |-> pick(p[1], p[2])]
  <2>1. step \in [S \X (1 .. N) -> S]
    BY <1>0
  <2>2. \A r \in S, n \in 1 .. N : step[<<r, n>>] = pick(r, n)
    OBVIOUS
  <2> HIDE DEF step
  <2>4. PICK f : Follows(f, N, S, <<>>, step)
    BY <1>0, <2>1, Recursion
  <2>5. ASSUME NEW n \in 1 .. N
        PROVE  f[n] = pick(f[n - 1], n)
    <3>1. n - 1 \in 0 .. N
      BY <1>0
    <3>2. f[n - 1] \in S
      BY <2>4, <3>1 DEF Follows
    <3> QED
      BY <2>2, <2>4, <3>2 DEF Follows
  <2>6. f = Body(f)
    <3>1. f \in [0 .. N -> S] /\ f[0] = <<>>
      BY <2>4 DEF Follows
    <3>2. \A n \in 0 .. N : f[n] = IF n = 0 THEN <<>> ELSE pick(f[n - 1], n)
      BY <1>0, <2>5, <3>1
    <3> QED
      BY <3>1, <3>2
  <2> QED
    BY <2>6
<1>3. Picks(s, t) = Body(Picks(s, t))
  <2> HIDE DEF Body
  <2> QED
    BY <1>1, <1>2
<1>4. Picks(s, t)[0] = <<>> /\ \A n \in 1 .. N : Picks(s, t)[n] = pick(Picks(s, t)[n - 1], n)
  BY <1>0, <1>3
<1> QED
  BY <1>4 DEF N, pick

(* All it finds is in the list.                                             *)
Elements(s) == {s[i] : i \in 1 .. Len(s)}

LEMMA PicksType ==
  ASSUME NEW s \in Seq(SampleType), NEW t, NEW n \in 0 .. Len(s)
  PROVE  Picks(s, t)[n] \in Seq(Elements(s))
<1> DEFINE E == Elements(s)
           T == {k \in 0 .. Len(s) : Picks(s, t)[k] \notin Seq(E)}
<1> SUFFICES ASSUME T # {} PROVE FALSE
  OBVIOUS
<1>1. PICK k \in T : \A j \in T : k <= j
  <2>1. T \in SUBSET Nat
    OBVIOUS
  <2> HIDE DEF T
  <2> QED
    BY <2>1, Least
<1>2. k # 0
  <2>1. <<>> \in Seq(E)
    OBVIOUS
  <2> QED
    BY <1>1, <2>1, PicksFollow
<1>3. k \in 1 .. Len(s) /\ k - 1 \in 0 .. Len(s) /\ k - 1 \notin T
  BY <1>1, <1>2
<1>4. Picks(s, t)[k - 1] \in Seq(E) /\ s[k] \in E
  BY <1>3 DEF Elements
<1> HIDE DEF E
<1>5. Append(Picks(s, t)[k - 1], s[k]) \in Seq(E)
  BY <1>4
<1>6. Picks(s, t)[k] \in Seq(E)
  BY <1>3, <1>4, <1>5, PicksFollow
<1> QED
  BY <1>1, <1>6

LEMMA SelectFinds ==
  ASSUME NEW s \in Seq(SampleType), NEW from, NEW to
  PROVE  /\ select(s, from, to) \in Seq(Elements(s))
         /\ \A i \in 1 .. Len(select(s, from, to)) : Contains(s, select(s, from, to)[i])
<1> DEFINE after == {i \in 1 .. Len(s) : s[i].ts > to} \cup {Len(s) + 1}
           end == Min(after) - 1
<1>1. after \in SUBSET Nat /\ after # {} /\ after \subseteq 1 .. Len(s) + 1 /\ Len(s) \in Nat
  OBVIOUS
<1>2. select(s, from, to) = Picks(s, from)[end]
  BY DEF select, Picks
<1> HIDE DEF after
<1>3. end \in 0 .. Len(s)
  <2>1. Min(after) \in 1 .. Len(s) + 1
    BY <1>1, MinOfNaturals
  <2> QED
    BY <1>1, <2>1
<1> HIDE DEF end
<1>4. PICK r \in Seq(Elements(s)) : r = select(s, from, to)
  BY <1>2, <1>3, PicksType
<1>5. \A i \in 1 .. Len(r) : r[i] \in Elements(s)
  BY <1>4
<1>6. \A i \in 1 .. Len(r) : Contains(s, r[i])
  BY <1>5 DEF Contains, Elements
<1> QED
  BY <1>4, <1>6

LEMMA ContainsAppend ==
  ASSUME NEW s \in Seq(SampleType), NEW x \in SampleType, NEW y, Contains(s, y)
  PROVE  Contains(Append(s, x), y)
<1>1. PICK i \in 1 .. Len(s) : s[i] = y
  BY DEF Contains
<1>2. i \in 1 .. Len(Append(s, x)) /\ Append(s, x)[i] = y
  BY <1>1
<1> QED
  BY <1>2 DEF Contains

(* Every pointer in held leads to a sample of d.                            *)
Held(held, d) ==
  \A h \in Range(held) :
    h.list \in Lists /\ Kind(h.list) # "SAMPLE_DATAS" /\ Contains(d[h.list], h.sample)

LEMMA SelectedHeld ==
  ASSUME Stored, NEW kind, kind # "SAMPLE_DATAS", NEW pair, NEW from, NEW to,
         <<kind, pair[1], pair[2]>> \in Lists
  PROVE  Held(Selected(kind, pair, from, to), data)
<1>1. PICK l \in Lists : l = <<kind, pair[1], pair[2]>>
  OBVIOUS
<1>2. Kind(l) = kind
  BY <1>1 DEF Kind
<1>3. PICK s \in Seq(SampleType) : s = data[l]
  BY DEF Stored, TypeInv, Content
<1>4. PICK r \in Seq(Elements(s)) :
        r = select(s, from, to) /\ \A i \in 1 .. Len(r) : Contains(s, r[i])
  BY SelectFinds
<1>5. Selected(kind, pair, from, to) = [i \in 1 .. Len(r) |-> [list |-> l, sample |-> r[i]]]
  BY <1>1, <1>3, <1>4 DEF Selected, Pointers
<1> QED
  BY <1>2, <1>3, <1>4, <1>5 DEF Held, Range

(* insert() keeps the samples of the lists select() returns pointers to.    *)
LEMMA InsertHeld ==
  ASSUME Stored, NEW l \in Lists, NEW s \in SampleType, insert(l, s), NEW held, Held(held, data)
  PROVE  /\ Held(held, data')
         /\ {h \in Range(held) : h.list = l /\ ~Contains(data'[l], h.sample)} = {}
<1> SUFFICES ASSUME NEW h \in Range(held)
             PROVE  Contains(data'[h.list], h.sample)
  BY DEF Held
<1>1. h.list \in Lists /\ Kind(h.list) # "SAMPLE_DATAS" /\ Contains(data[h.list], h.sample)
  BY DEF Held
<1>2. data[l] \in Seq(SampleType) /\ Increment(l, s) \in SampleType
  BY IncrementType DEF Stored, TypeInv, Content
<1>3. CASE data' = data
  BY <1>1, <1>3
<1>4. CASE data' # data
  <2>1. data' = [data EXCEPT ![l] = IF Kind(l) = "SAMPLE_DATAS" THEN <<s>>
                                    ELSE Append(data[l], Increment(l, s))]
    BY <1>4 DEF insert, Stored, TypeInv, Content
  <2>2. CASE h.list = l
    <3>1. data'[l] = Append(data[l], Increment(l, s))
      BY <1>1, <2>1, <2>2 DEF Stored, TypeInv, Content
    <3>2. Contains(data[l], h.sample)
      BY <1>1, <2>2
    <3> QED
      BY <1>2, <2>2, <3>1, <3>2, ContainsAppend
  <2>3. CASE h.list # l
    BY <1>1, <2>1, <2>3 DEF Stored, TypeInv, Content
  <2> QED
    BY <2>2, <2>3
<1> QED
  BY <1>3, <1>4

(* The part of HeldInv about one call, in terms of the call and the data.   *)
Calling(q, d, p) ==
  /\ q.at \in {"next", "selected"} /\ p \in {"live", "loaded"}
  /\ q = [f \in QueryFields |-> q[f]]
  /\ q.todo \in Seq(Entities \X (Entities \cup {NoKey}))
  /\ q.call.kind # "SAMPLE_DATAS" =>
       /\ \A i \in 1 .. Len(q.todo) :
            <<q.call.kind, q.todo[i][1], q.todo[i][2]>> \in Lists
       /\ q.freed = {}
       /\ q.at = "selected" => Held(q.held, d)

LEMMA HeldCalling ==
  HeldInv <=> (query.at = "idle" \/ Calling(query, data, phase))
BY DEF HeldInv, Calling, Held

LEMMA ReceiveHeld ==
  ASSUME Stored, HeldInv, NEW l \in Lists, NEW ts \in 1 .. MaxTime, NEW value \in Reports(l),
         Receive(l, ts, value)
  PROVE  HeldInv'
<1>1. ts \in Nat /\ value \in Nat
  BY ReportType, DataAssumption DEF Stored
<1>2. PICK s \in SampleType :
        IF Owner(l) \in known THEN insert(l, s) ELSE UNCHANGED <<data, last, query>>
  BY <1>1, SampleOfReport DEF Receive
<1>3. UNCHANGED phase
  BY DEF Receive
<1>4. CASE UNCHANGED <<data, query>>
  BY <1>3, <1>4 DEF HeldInv
<1>5. CASE ~UNCHANGED <<data, query>>
  <2>1. insert(l, s) /\ query' = Dangling(l, data'[l])
    BY <1>2, <1>5 DEF insert
  <2>2. CASE query.at = "idle"
    BY <2>1, <2>2 DEF Dangling, HeldInv
  <2>3. CASE query.at = "next"
    BY <1>3, <2>1, <2>3 DEF Dangling, HeldInv
  <2>4. CASE query.at = "selected"
    <3>1. PICK q : q = query /\ Calling(q, data, phase) /\ q.at = "selected"
      BY <2>4, HeldCalling
    <3>2. PICK freed : query' = [q EXCEPT !.freed = freed] /\
            freed = q.freed \cup {h \in Range(q.held) : h.list = l /\ ~Contains(data'[l], h.sample)}
      BY <2>1, <2>4, <3>1 DEF Dangling
    <3>3. /\ query' = [f \in QueryFields |-> query'[f]]
          /\ query'.at = q.at /\ query'.todo = q.todo /\ query'.call = q.call
          /\ query'.held = q.held /\ query'.freed = freed
      BY <3>1, <3>2 DEF Calling, QueryFields
    <3>4. ASSUME q.call.kind # "SAMPLE_DATAS" PROVE freed = {} /\ Held(q.held, data')
      <4>1. q.freed = {} /\ Held(q.held, data)
        BY <3>1, <3>4 DEF Calling
      <4> QED
        BY <2>1, <3>2, <4>1, InsertHeld
    <3>5. Calling(query', data', phase')
      BY <1>3, <3>1, <3>3, <3>4 DEF Calling
    <3> QED
      BY <3>5 DEF HeldInv, Calling, Held
  <2> QED
    BY <2>2, <2>3, <2>4 DEF HeldInv
<1> QED
  BY <1>4, <1>5

LEMMA CallHeld ==
  ASSUME HeldInv, NEW q \in Queries, get_data(q)
  PROVE  HeldInv'
<1>1. /\ query'.at = "next" /\ query'.call = q /\ query'.todo = q.pairs
      /\ query' = [f \in QueryFields |-> query'[f]] /\ query'.freed = {}
  BY DEF get_data, QueryFields
<1>2. phase \in {"live", "loaded"} /\ UNCHANGED <<phase, data>>
  BY DEF get_data, db
<1>3. q.pairs \in Seq(Entities \X (Entities \cup {NoKey}))
  BY DataAssumption
<1>4. DOMAIN q.pairs = 1 .. Len(q.pairs)
  BY <1>3, LenProperties
<1>5. q.kind # "SAMPLE_DATAS" =>
        \A i \in 1 .. Len(q.pairs) : <<q.kind, q.pairs[i][1], q.pairs[i][2]>> \in Lists
  BY <1>4, DataAssumption
<1> QED
  BY <1>1, <1>2, <1>3, <1>5 DEF HeldInv

LEMMA SelectHeld ==
  ASSUME Stored, HeldInv, Select
  PROVE  HeldInv'
<1>1. PICK q, pair : q = query /\ pair = Head(q.todo) /\ q.at = "next" /\ q.todo # <<>>
  BY DEF Select
<1>2. Calling(q, data, phase) /\ UNCHANGED <<data, phase>>
  BY <1>1, HeldCalling DEF Select, db
<1>3. CASE query' = Idle
  BY <1>3 DEF HeldInv, Idle
<1>4. CASE query' # Idle
  <2>1. PICK held, wanted :
          /\ query' = [q EXCEPT !.at = "selected", !.todo = Tail(@),
                                !.held = held, !.wanted = @ \cup wanted]
          /\ held = Selected(q.call.kind, pair, q.call.from, q.call.to - 1)
    BY <1>1, <1>4 DEF Select
  <2>2. /\ query' = [f \in QueryFields |-> query'[f]]
        /\ query'.at = "selected" /\ query'.todo = Tail(q.todo) /\ query'.call = q.call
        /\ query'.held = held /\ query'.freed = q.freed
    BY <1>2, <2>1 DEF Calling, QueryFields
  <2>3. PICK todo \in Seq(Entities \X (Entities \cup {NoKey})) : todo = q.todo /\ todo # <<>>
    BY <1>1, <1>2 DEF Calling
  <2>4. /\ Tail(todo) \in Seq(Entities \X (Entities \cup {NoKey}))
        /\ Len(Tail(todo)) = Len(todo) - 1 /\ Len(todo) \in Nat /\ Len(todo) # 0
        /\ \A i \in 1 .. Len(Tail(todo)) : Tail(todo)[i] = todo[i + 1]
        /\ pair = todo[1]
    BY <1>1, <2>3, HeadTailProperties, EmptySeq
  <2>5. ASSUME q.call.kind # "SAMPLE_DATAS"
        PROVE  /\ \A i \in 1 .. Len(Tail(todo)) :
                    <<q.call.kind, Tail(todo)[i][1], Tail(todo)[i][2]>> \in Lists
               /\ Held(held, data)
    <3>1. \A i \in 1 .. Len(todo) : <<q.call.kind, todo[i][1], todo[i][2]>> \in Lists
      BY <1>2, <2>3, <2>5 DEF Calling
    <3>2. <<q.call.kind, pair[1], pair[2]>> \in Lists
      BY <2>4, <3>1
    <3>3. Held(held, data)
      BY <2>1, <2>5, <3>2, SelectedHeld
    <3>4. \A i \in 1 .. Len(Tail(todo)) : i + 1 \in 1 .. Len(todo)
      BY <2>4
    <3> QED
      BY <2>4, <3>1, <3>3, <3>4
  <2>6. Calling(query', data', phase')
    BY <1>2, <2>2, <2>3, <2>4, <2>5 DEF Calling
  <2> QED
    BY <2>6 DEF HeldInv, Calling, Held
<1> QED
  BY <1>3, <1>4

LEMMA AddDataHeld ==
  ASSUME HeldInv, AddData
  PROVE  HeldInv'
<1>1. PICK q : q = query /\ Calling(q, data, phase) /\ UNCHANGED <<data, phase>>
  BY HeldCalling DEF AddData, db
<1>2. PICK result : query' = [q EXCEPT !.at = "next", !.held = <<>>, !.result = result]
  BY <1>1 DEF AddData
<1>3. /\ query' = [f \in QueryFields |-> query'[f]]
      /\ query'.at = "next" /\ query'.todo = q.todo /\ query'.call = q.call
      /\ query'.freed = q.freed
  BY <1>1, <1>2 DEF Calling, QueryFields
<1>4. Calling(query', data', phase')
  BY <1>1, <1>3 DEF Calling
<1> QED
  BY <1>4 DEF HeldInv, Calling, Held

LEMMA HeldStep ==
  ASSUME ~ConcurrentClear, Stored, HeldInv, [DataNext]_dvars
  PROVE  HeldInv'
<1>1. ASSUME UNCHANGED <<data, query, phase>> PROVE HeldInv'
  BY <1>1 DEF HeldInv
<1>2. ASSUME query.at = "idle", UNCHANGED query PROVE HeldInv'
  BY <1>2 DEF HeldInv
<1>3. ASSUME NEW l \in Lists, NEW ts \in 1 .. MaxTime, NEW value \in Reports(l),
             Receive(l, ts, value)
      PROVE  HeldInv'
  BY <1>3, ReceiveHeld
<1>4. ASSUME NEW e \in Entities \ Locators, Discover(e) PROVE HeldInv'
  BY <1>1, <1>4 DEF Discover
<1>5. ASSUME NEW e \in Entities \ Locators, Erase(e) PROVE HeldInv'
  BY <1>2, <1>5 DEF Erase, MayRemove, AllDangling
<1>6. ASSUME NEW t_to \in 2 .. MaxTime + 1, clear_statistics_data(t_to) PROVE HeldInv'
  BY <1>2, <1>6 DEF clear_statistics_data, clear_nts, MayRemove, AllDangling
<1>7. ASSUME NEW clear \in BOOLEAN, dump_database(clear) PROVE HeldInv'
  <2>1. CASE clear
    BY <1>2, <1>7, <2>1 DEF dump_database, clear_nts, MayRemove, AllDangling
  <2>2. CASE ~clear
    BY <1>1, <1>7, <2>2 DEF dump_database
  <2> QED
    BY <2>1, <2>2
<1>8. ASSUME NEW l \in Lists, LoadSample(l) PROVE HeldInv'
  BY <1>2, <1>8 DEF LoadSample, HeldInv
<1>9. CASE Restart \/ LoadBegin \/ LoadEnd
  BY <1>2, <1>9 DEF Restart, LoadBegin, LoadEnd, HeldInv
<1>10. ASSUME NEW q \in Queries, get_data(q) PROVE HeldInv'
  BY <1>10, CallHeld
<1>11. CASE Select
  BY <1>11, SelectHeld
<1>12. CASE AddData
  BY <1>12, AddDataHeld
<1>13. CASE Return
  BY <1>13 DEF Return, Idle, HeldInv
<1>14. CASE UNCHANGED dvars
  BY <1>1, <1>14 DEF dvars
<1> QED
  BY <1>3, <1>4, <1>5, <1>6, <1>7, <1>8, <1>9, <1>10, <1>11, <1>12, <1>13, <1>14 DEF DataNext

(* While get_data() follows the pointers of select() without a lock, the    *)
(* samples that arrive free none of them, if the user removes nothing.      *)
THEOREM PointersKept ==
  ASSUME ~ConcurrentClear
  PROVE  DataSpec => []PointersAlive
<1>1. DataInit => HeldInv
  BY DEF DataInit, HeldInv, Idle
<1>2. Stored /\ HeldInv /\ [DataNext]_dvars => HeldInv'
  BY HeldStep
<1>3. HeldInv => PointersAlive
  BY DEF HeldInv, PointersAlive
<1> QED
  BY <1>1, <1>2, <1>3, SamplesStored, PTL DEF DataSpec
-----------------------------------------------------------------------------
(* The sequence r lists the elements of S, each once.                       *)
Enumerates(r, S) ==
  /\ \A i, j \in 1 .. Len(r) : i # j => r[i] # r[j]
  /\ Elements(r) = S

LEMMA EnumeratedSize ==
  ASSUME NEW P, NEW r \in Seq(P), NEW S, Enumerates(r, S)
  PROVE  Cardinality(S) = Len(r)
<1>1. r \in [1 .. Len(r) -> S] /\ Len(r) \in Nat
  BY DEF Enumerates, Elements
<1>2. r \in Bijection(1 .. Len(r), S)
  BY <1>1 DEF Enumerates, Elements, Bijection, Injection, Surjection, IsInjective
<1> QED
  BY <1>1, <1>2, FS_CountingElements DEF ExistsBijection

(* Two enumerations without a common element, one after the other.          *)
LEMMA EnumeratedConcat ==
  ASSUME NEW P, NEW r \in Seq(P), NEW s \in Seq(P), NEW R, NEW S,
         Enumerates(r, R), Enumerates(s, S), R \cap S = {}
  PROVE  Enumerates(r \o s, R \cup S)
<1> DEFINE t == r \o s
<1>1. /\ Len(t) = Len(r) + Len(s) /\ Len(r) \in Nat /\ Len(s) \in Nat
      /\ \A i \in 1 .. Len(t) : t[i] = IF i <= Len(r) THEN r[i] ELSE s[i - Len(r)]
  BY ConcatProperties
<1> HIDE DEF t
<1>2. /\ \A i \in 1 .. Len(t) : IF i <= Len(r) THEN i \in 1 .. Len(r)
                                ELSE i - Len(r) \in 1 .. Len(s)
      /\ \A i \in 1 .. Len(r) : i \in 1 .. Len(t) /\ i <= Len(r)
      /\ \A i \in 1 .. Len(s) : i + Len(r) \in 1 .. Len(t) /\ ~(i + Len(r) <= Len(r))
                                /\ (i + Len(r)) - Len(r) = i
  BY <1>1
<1>3. \A i \in 1 .. Len(r) : r[i] \in R /\ t[i] = r[i]
  BY <1>1, <1>2 DEF Enumerates, Elements
<1>4. \A i \in 1 .. Len(s) : s[i] \in S /\ t[i + Len(r)] = s[i]
  BY <1>1, <1>2 DEF Enumerates, Elements
<1>5. Elements(t) = R \cup S
  <2>1. ASSUME NEW x \in R \cup S PROVE x \in Elements(t)
    <3>1. CASE x \in R
      BY <1>2, <1>3, <3>1 DEF Enumerates, Elements
    <3>2. CASE x \in S
      <4>1. PICK i \in 1 .. Len(s) : x = s[i]
        BY <3>2 DEF Enumerates, Elements
      <4> QED
        BY <1>2, <1>4, <4>1 DEF Elements
    <3> QED
      BY <3>1, <3>2
  <2>2. ASSUME NEW i \in 1 .. Len(t) PROVE t[i] \in R \cup S
    BY <1>1, <1>2, <1>3, <1>4
  <2> QED
    BY <2>1, <2>2 DEF Elements
<1>6. ASSUME NEW i \in 1 .. Len(t), NEW j \in 1 .. Len(t), i # j PROVE t[i] # t[j]
  <2>1. CASE i <= Len(r) /\ j <= Len(r)
    BY <1>1, <1>2, <1>6, <2>1 DEF Enumerates
  <2>2. CASE ~(i <= Len(r)) /\ ~(j <= Len(r))
    <3>1. PICK a, b \in 1 .. Len(s) : a = i - Len(r) /\ b = j - Len(r)
      BY <1>2, <2>2
    <3>2. a # b
      BY <1>1, <1>6, <3>1
    <3>3. t[i] = s[a] /\ t[j] = s[b]
      BY <1>1, <2>2, <3>1
    <3> QED
      BY <3>2, <3>3 DEF Enumerates
  <2>3. CASE i <= Len(r) /\ ~(j <= Len(r))
    BY <1>1, <1>2, <1>3, <1>4, <2>3
  <2>4. CASE ~(i <= Len(r)) /\ j <= Len(r)
    BY <1>1, <1>2, <1>3, <1>4, <2>4
  <2> QED
    BY <2>1, <2>2, <2>3, <2>4
<1> QED
  BY <1>5, <1>6 DEF Enumerates, t
-----------------------------------------------------------------------------
(* The loop of select() over a sorted list: after n samples it has found    *)
(* those from t on, in their order.                                         *)
Found(s, t, n) == {s[i] : i \in {k \in 1 .. n : s[k].ts >= t}}

LEMMA PicksSorted ==
  ASSUME NEW s \in Seq(SampleType), Sorted(s), NEW t \in Int, NEW n \in 0 .. Len(s)
  PROVE  Sorted(Picks(s, t)[n]) /\ Elements(Picks(s, t)[n]) = Found(s, t, n)
<1> DEFINE Good(k) == Sorted(Picks(s, t)[k]) /\ Elements(Picks(s, t)[k]) = Found(s, t, k)
           T == {k \in 0 .. Len(s) : ~Good(k)}
<1> SUFFICES ASSUME T # {} PROVE FALSE
  OBVIOUS
<1>1. PICK k \in T : \A j \in T : k <= j
  <2>1. T \in SUBSET Nat
    OBVIOUS
  <2> HIDE DEF T
  <2> QED
    BY <2>1, Least
<1>2. k # 0
  <2>1. Good(0)
    BY PicksFollow DEF Sorted, Elements, Found
  <2> QED
    BY <1>1, <2>1
<1>3. k \in 1 .. Len(s) /\ k - 1 \in 0 .. Len(s) /\ k - 1 \notin T
  BY <1>1, <1>2
<1>4. PICK r : r = Picks(s, t)[k - 1]
  OBVIOUS
<1>5. r \in Seq(SampleType) /\ Sorted(r) /\ Elements(r) = Found(s, t, k - 1)
  <2>1. Elements(s) \subseteq SampleType
    BY DEF Elements
  <2>2. r \in Seq(Elements(s))
    BY <1>3, <1>4, PicksType
  <2> QED
    BY <1>3, <1>4, <2>1, <2>2
<1>6. s[k] \in SampleType
  BY <1>3
<1>7. \A i \in 1 .. k : i = k \/ i \in 1 .. k - 1
  BY <1>3
<1>8. CASE s[k].ts >= t
  <2>1. PICK a : a = Append(r, s[k])
    OBVIOUS
  <2>2. /\ a \in Seq(SampleType) /\ Len(a) = Len(r) + 1 /\ Len(r) \in Nat
        /\ \A i \in 1 .. Len(r) : a[i] = r[i]
        /\ a[Len(r) + 1] = s[k]
    BY <1>5, <1>6, <2>1, AppendProperties
  <2>3. \A i \in 1 .. Len(a) : i = Len(r) + 1 \/ i \in 1 .. Len(r)
    BY <2>2
  <2>4. ASSUME NEW x \in Found(s, t, k - 1) PROVE x \in SampleType /\ x.ts < s[k].ts
    <3>1. PICK i \in 1 .. k - 1 : x = s[i]
      BY DEF Found
    <3>2. i \in 1 .. Len(s) /\ i < k
      BY <1>3
    <3> QED
      BY <1>3, <3>1, <3>2 DEF Sorted
  <2>5. \A i \in 1 .. Len(r) : r[i].ts < s[k].ts
    BY <1>5, <2>4 DEF Elements
  <2>6. Sorted(a)
    <3> SUFFICES ASSUME NEW i \in 1 .. Len(a), NEW j \in 1 .. Len(a), i < j
                 PROVE  a[i].ts < a[j].ts
      BY DEF Sorted
    <3>1. i \in 1 .. Len(r)
      BY <2>2
    <3> QED
      BY <1>5, <2>2, <2>3, <2>5, <3>1 DEF Sorted
  <2>7. Elements(a) = Elements(r) \cup {s[k]}
    <3>1. Len(r) + 1 \in 1 .. Len(a) /\ \A i \in 1 .. Len(r) : i \in 1 .. Len(a)
      BY <2>2
    <3>2. ASSUME NEW i \in 1 .. Len(a) PROVE a[i] \in Elements(r) \cup {s[k]}
      BY <2>2, <2>3, Zenon DEF Elements
    <3>3. ASSUME NEW i \in 1 .. Len(r) PROVE r[i] \in Elements(a)
      BY <2>2, <3>1, Zenon DEF Elements
    <3>4. s[k] \in Elements(a)
      BY <2>2, <3>1, Zenon DEF Elements
    <3>5. Elements(a) \subseteq Elements(r) \cup {s[k]}
      BY <3>2, Zenon DEF Elements
    <3>6. Elements(r) \subseteq Elements(a)
      BY <3>3, Zenon DEF Elements
    <3> QED
      BY <3>4, <3>5, <3>6
  <2>8. Found(s, t, k) = Found(s, t, k - 1) \cup {s[k]}
    BY <1>3, <1>7, <1>8 DEF Found
  <2>9. Picks(s, t)[k] = a
    BY <1>3, <1>4, <1>8, <2>1, PicksFollow
  <2> QED
    BY <1>1, <1>5, <2>6, <2>7, <2>8, <2>9
<1>9. CASE ~(s[k].ts >= t)
  <2>1. Found(s, t, k) = Found(s, t, k - 1)
    BY <1>3, <1>7, <1>9 DEF Found
  <2>2. Picks(s, t)[k] = r
    BY <1>3, <1>4, <1>9, PicksFollow
  <2> QED
    BY <1>1, <1>5, <2>1, <2>2
<1> QED
  BY <1>8, <1>9

LEMMA TimesOf ==
  ASSUME NEW s \in Seq(SampleType), NEW i \in 1 .. Len(s)
  PROVE  s[i].ts \in Nat
<1>1. s[i] \in SampleType
  OBVIOUS
<1> QED
  BY <1>1 DEF SampleType

(* Ending at the first sample after t_to loses none of the interval.        *)
LEMMA SelectInterval ==
  ASSUME NEW s \in Seq(SampleType), Sorted(s), NEW from \in Int, NEW to \in Int
  PROVE  /\ select(s, from, to) \in Seq(SampleType)
         /\ Enumerates(select(s, from, to), {x \in Elements(s) : from <= x.ts /\ x.ts <= to})
<1> DEFINE after == {i \in 1 .. Len(s) : s[i].ts > to} \cup {Len(s) + 1}
<1>1. after \in SUBSET Nat /\ after # {} /\ after \subseteq 1 .. Len(s) + 1 /\ Len(s) \in Nat
  OBVIOUS
<1>2. select(s, from, to) = Picks(s, from)[Min(after) - 1]
  BY DEF select, Picks
<1>3. PICK first \in after : first = Min(after) /\ \A i \in after : first <= i
  <2> HIDE DEF after
  <2>1. \E x \in after : \A y \in after : x <= y
    BY <1>1, Least
  <2> QED
    BY <2>1 DEF Min
<1> DEFINE end == first - 1
<1>4. \A i \in 1 .. Len(s) : s[i].ts \in Nat
  BY TimesOf
<1>5. end \in 0 .. Len(s) /\ end + 1 \in after /\ end + 1 = first
  <2> HIDE DEF after
  <2>1. first \in 1 .. Len(s) + 1
    BY <1>1
  <2> QED
    BY <1>1, <2>1
<1>6. ASSUME NEW i \in 1 .. Len(s) PROVE i <= end <=> s[i].ts <= to
  <2>1. CASE i <= end
    <3>1. i \notin after
      <4> HIDE DEF after
      <4> QED
        BY <1>1, <1>3, <1>5, <2>1
    <3> QED
      BY <1>4, <2>1, <3>1
  <2>2. CASE ~(i <= end)
    <3> HIDE DEF end
    <3>1. end + 1 \in 1 .. Len(s) /\ (i = end + 1 \/ end + 1 < i)
      BY <1>1, <1>5, <2>2
    <3>2. s[end + 1].ts > to
      BY <1>1, <1>5, <3>1
    <3>3. s[end + 1].ts <= s[i].ts
      BY <1>4, <3>1 DEF Sorted
    <3> QED
      BY <1>4, <2>2, <3>1, <3>2, <3>3
  <2> QED
    BY <2>1, <2>2
<1> HIDE DEF end, after
<1>7. PICK r : r = Picks(s, from)[end] /\ Sorted(r) /\ Elements(r) = Found(s, from, end)
  BY <1>5, PicksSorted
<1>8. r \in Seq(SampleType)
  <2>1. r \in Seq(Elements(s))
    BY <1>5, <1>7, PicksType
  <2> QED
    BY <2>1 DEF Elements
<1>9. Found(s, from, end) = {x \in Elements(s) : from <= x.ts /\ x.ts <= to}
  <2>1. 1 .. end \subseteq 1 .. Len(s)
    BY <1>5
  <2> QED
    BY <1>4, <1>5, <1>6, <2>1 DEF Found, Elements
<1>10. ASSUME NEW i \in 1 .. Len(r), NEW j \in 1 .. Len(r), i # j PROVE r[i] # r[j]
  <2>1. r[i].ts \in Nat /\ r[j].ts \in Nat /\ (i < j \/ j < i)
    BY <1>8, <1>10, TimesOf
  <2> QED
    BY <1>7, <2>1 DEF Sorted
<1> QED
  BY <1>2, <1>3, <1>7, <1>8, <1>9, <1>10 DEF Enumerates, end
-----------------------------------------------------------------------------
(* The pointers of get_data(), and the lists it takes them from for a pair. *)
Pointer == [list : Lists, sample : SampleType]

ListsOf(kind, pair) ==
  {k \in Lists : Kind(k) = kind /\ Owner(k) = pair[1]
                 /\ (kind = "SAMPLE_DATAS" \/ k[3] = pair[2])}

(* What it should find there.                                               *)
Wanted(q, pair) ==
  {h \in UNION {Range(Pointers(l, data[l])) : l \in ListsOf(q.kind, pair)} :
     q.from <= h.sample.ts /\ h.sample.ts < q.to}

LEMMA ListParts ==
  ASSUME NEW k \in Lists
  PROVE  k = <<Kind(k), Owner(k), k[3]>> /\ k[3] \in Keys(Kind(k))
BY DEF Lists, Kind, Owner

LEMMA PointersType ==
  ASSUME NEW l \in Lists, NEW s \in Seq(SampleType)
  PROVE  /\ Pointers(l, s) \in Seq(Pointer) /\ Len(Pointers(l, s)) = Len(s)
         /\ \A i \in 1 .. Len(s) : Pointers(l, s)[i] = [list |-> l, sample |-> s[i]]
         /\ Range(Pointers(l, s)) = {[list |-> l, sample |-> x] : x \in Elements(s)}
<1>1. Len(s) \in Nat /\ \A i \in 1 .. Len(s) : [list |-> l, sample |-> s[i]] \in Pointer
  BY DEF Pointer
<1>2. Pointers(l, s) \in [1 .. Len(s) -> Pointer]
  BY <1>1 DEF Pointers
<1>3. Pointers(l, s) \in Seq(Pointer) /\ Len(Pointers(l, s)) = Len(s)
  BY <1>1, <1>2
<1>4. Range(Pointers(l, s)) = {[list |-> l, sample |-> x] : x \in Elements(s)}
  BY DEF Pointers, Range, Elements
<1> QED
  BY <1>3, <1>4 DEF Pointers

LEMMA WantedType ==
  ASSUME Stored, NEW q, NEW pair
  PROVE  /\ Wanted(q, pair) \subseteq Pointer
         /\ \A h \in Wanted(q, pair) : h.list \in ListsOf(q.kind, pair)
         /\ \A h : h \in Wanted(q, pair) <=>
              \E l \in ListsOf(q.kind, pair) : \E x \in Elements(data[l]) :
                /\ h = [list |-> l, sample |-> x]
                /\ q.from <= x.ts /\ x.ts < q.to
<1>1. \A l \in ListsOf(q.kind, pair) : l \in Lists /\ data[l] \in Seq(SampleType)
  BY DEF ListsOf, Stored, TypeInv, Content
<1>2. \A l \in ListsOf(q.kind, pair) :
        /\ Range(Pointers(l, data[l])) = {[list |-> l, sample |-> x] : x \in Elements(data[l])}
        /\ Elements(data[l]) \subseteq SampleType
  BY <1>1, PointersType DEF Elements
<1>3. \A h : h \in Wanted(q, pair) <=>
              \E l \in ListsOf(q.kind, pair) : \E x \in Elements(data[l]) :
                /\ h = [list |-> l, sample |-> x]
                /\ q.from <= x.ts /\ x.ts < q.to
  BY <1>2 DEF Wanted
<1> QED
  BY <1>1, <1>2, <1>3 DEF Pointer

(* select() over the list of a pair.                                        *)
LEMMA ListSelected ==
  ASSUME Stored, NEW q, q.kind # "SAMPLE_DATAS", q.from \in Int, q.to \in Int,
         NEW pair, <<q.kind, pair[1], pair[2]>> \in Lists
  PROVE  \E held \in Seq(Pointer) :
           /\ held = Selected(q.kind, pair, q.from, q.to - 1)
           /\ Enumerates(held, Wanted(q, pair))
<1>1. PICK l \in Lists : l = <<q.kind, pair[1], pair[2]>>
  OBVIOUS
<1>2. ListsOf(q.kind, pair) = {l}
  BY <1>1, ListParts DEF ListsOf, Kind, Owner
<1>3. PICK s \in Seq(SampleType) : s = data[l] /\ Sorted(s)
  BY DEF Stored, TypeInv, Content, StoreInv
<1>4. PICK r \in Seq(SampleType) :
        /\ r = select(s, q.from, q.to - 1)
        /\ Enumerates(r, {x \in Elements(s) : q.from <= x.ts /\ x.ts <= q.to - 1})
  <2>1. q.to - 1 \in Int
    OBVIOUS
  <2> QED
    BY <1>3, <2>1, SelectInterval
<1>5. PICK held \in Seq(Pointer) :
        /\ held = Selected(q.kind, pair, q.from, q.to - 1) /\ Len(held) = Len(r)
        /\ \A i \in 1 .. Len(r) : held[i] = [list |-> l, sample |-> r[i]]
  <2>1. Selected(q.kind, pair, q.from, q.to - 1) = Pointers(l, r)
    BY <1>1, <1>3, <1>4 DEF Selected
  <2> QED
    BY <2>1, PointersType
<1>6. \A i, j \in 1 .. Len(held) : i # j => held[i] # held[j]
  <2>1. ASSUME NEW i \in 1 .. Len(r) PROVE held[i].sample = r[i]
    <3>1. held[i] = [list |-> l, sample |-> r[i]]
      BY <1>5
    <3> QED
      BY <3>1
  <2> QED
    BY <1>4, <1>5, <2>1 DEF Enumerates
<1>7. ASSUME NEW x \in Elements(s) PROVE x.ts < q.to <=> x.ts <= q.to - 1
  BY TimesOf DEF Elements
<1>8. ASSUME NEW h PROVE h \in Elements(held) <=> h \in Wanted(q, pair)
  <2>1. h \in Wanted(q, pair) <=>
          \E x \in Elements(s) : h = [list |-> l, sample |-> x] /\ q.from <= x.ts /\ x.ts < q.to
    BY <1>2, <1>3, WantedType
  <2>2. h \in Elements(held) <=> \E x \in Elements(r) : h = [list |-> l, sample |-> x]
    BY <1>5 DEF Elements
  <2>3. Elements(r) = {x \in Elements(s) : q.from <= x.ts /\ x.ts <= q.to - 1}
    BY <1>4 DEF Enumerates
  <2> QED
    BY <1>7, <2>1, <2>2, <2>3
<1>9. Elements(held) = Wanted(q, pair)
  BY <1>8
<1> QED
  BY <1>5, <1>6, <1>9 DEF Enumerates
-----------------------------------------------------------------------------
(* A finite set of pointers can be sorted by time.                          *)
SortedSeqs(S) ==
  {r \in SetToSeqs(S) :
     \A i, j \in 1 .. Cardinality(S) : i < j => r[i].sample.ts <= r[j].sample.ts}

LEMMA SortExists ==
  ASSUME NEW F \in SUBSET Pointer, IsFiniteSet(F)
  PROVE  SortedSeqs(F) # {}
<1> DEFINE T == {n \in Nat : \E G \in SUBSET F : Cardinality(G) = n /\ SortedSeqs(G) = {}}
<1> SUFFICES ASSUME T # {} PROVE FALSE
  BY FS_CardinalityType
<1>1. PICK n \in T : \A j \in T : n <= j
  <2>1. T \in SUBSET Nat
    OBVIOUS
  <2> HIDE DEF T
  <2> QED
    BY <2>1, Least
<1>2. PICK G \in SUBSET F : Cardinality(G) = n /\ SortedSeqs(G) = {}
  BY <1>1
<1>3. IsFiniteSet(G)
  BY FS_Subset
<1>4. G # {}
  <2>1. ASSUME G = {} PROVE FALSE
    <3>1. n = 0
      BY <1>2, <2>1, FS_EmptySet
    <3>2. <<>> \in SortedSeqs(G)
      BY <1>2, <2>1, <3>1 DEF SortedSeqs, SetToSeqs
    <3> QED
      BY <1>2, <3>2
  <2> QED
    BY <2>1
<1>5. \A h \in G : h.sample.ts \in Nat
  BY DEF Pointer, SampleType
<1>6. PICK m \in G : \A h \in G : m.sample.ts <= h.sample.ts
  <2> DEFINE times == {h.sample.ts : h \in G}
  <2>1. times \in SUBSET Nat /\ times # {}
    BY <1>4, <1>5
  <2>2. \E x \in times : \A y \in times : x <= y
    <3> HIDE DEF times
    <3> QED
      BY <2>1, Least
  <2> QED
    BY <2>2
<1> DEFINE H == G \ {m}
<1>7. Cardinality(H) = n - 1 /\ H \in SUBSET F /\ n - 1 \in Nat
  <2>1. IsFiniteSet(H) /\ Cardinality(H) = n - 1
    BY <1>2, <1>3, FS_RemoveElement
  <2> QED
    BY <2>1, FS_CardinalityType
<1>8. n - 1 \notin T
  BY <1>1, <1>7
<1>9. PICK r : r \in SortedSeqs(H)
  BY <1>7, <1>8
<1>10. /\ r \in [1 .. n - 1 -> H]
       /\ \A i, j \in 1 .. n - 1 : i # j => r[i] # r[j]
       /\ \A i, j \in 1 .. n - 1 : i < j => r[i].sample.ts <= r[j].sample.ts
  BY <1>7, <1>9 DEF SortedSeqs, SetToSeqs
<1> DEFINE s == [i \in 1 .. n |-> IF i = 1 THEN m ELSE r[i - 1]]
<1>11. \A i \in 1 .. n : i # 1 => i - 1 \in 1 .. n - 1
  BY <1>7
<1>12. /\ s \in [1 .. n -> G]
       /\ \A i \in 1 .. n : s[i] = IF i = 1 THEN m ELSE r[i - 1]
       /\ \A i \in 1 .. n : i # 1 => s[i] \in H
  BY <1>10, <1>11
<1> HIDE DEF s, H, T
<1>13. ASSUME NEW i \in 1 .. n, NEW j \in 1 .. n, i # j PROVE s[i] # s[j]
  <2>1. CASE i = 1 \/ j = 1
    BY <1>12, <1>13, <2>1 DEF H
  <2>2. CASE i # 1 /\ j # 1
    <3>1. i - 1 # j - 1
      BY <1>13
    <3> QED
      BY <1>10, <1>11, <1>12, <2>2, <3>1
  <2> QED
    BY <2>1, <2>2
<1>14. ASSUME NEW i \in 1 .. n, NEW j \in 1 .. n, i < j PROVE s[i].sample.ts <= s[j].sample.ts
  <2>1. j # 1
    BY <1>14
  <2>2. CASE i = 1
    BY <1>6, <1>12, <2>2
  <2>3. CASE i # 1
    <3>1. i - 1 < j - 1
      BY <1>14
    <3> QED
      BY <1>10, <1>11, <1>12, <2>1, <2>3, <3>1
  <2> QED
    BY <2>2, <2>3
<1>15. s \in SortedSeqs(G)
  BY <1>2, <1>12, <1>13, <1>14 DEF SortedSeqs, SetToSeqs
<1> QED
  BY <1>2, <1>15

LEMMA SortedEnumerates ==
  ASSUME NEW F \in SUBSET Pointer, IsFiniteSet(F)
  PROVE  SortedByTime(F) \in Seq(Pointer) /\ Enumerates(SortedByTime(F), F)
<1>1. PICK r : r = SortedByTime(F) /\ r \in SortedSeqs(F)
  BY SortExists DEF SortedByTime, SortedSeqs
<1>2. PICK n \in Nat : n = Cardinality(F)
  BY FS_CardinalityType
<1>3. r \in [1 .. n -> F] /\ \A i, j \in 1 .. n : i # j => r[i] # r[j]
  BY <1>1, <1>2 DEF SortedSeqs, SetToSeqs
<1>4. r \in Seq(Pointer) /\ Len(r) = n
  BY <1>2, <1>3
<1>5. r \in Injection(1 .. n, F)
  BY <1>3 DEF Injection, IsInjective
<1>6. Cardinality(1 .. n) = n
  BY FS_Interval
<1>7. r \in Surjection(1 .. n, F)
  BY <1>2, <1>5, <1>6, FS_Injection
<1>8. Elements(r) = F
  BY <1>3, <1>4, <1>7 DEF Surjection, Elements
<1> QED
  BY <1>1, <1>3, <1>4, <1>8 DEF Enumerates

LEMMA ElementsFinite ==
  ASSUME NEW P, NEW s \in Seq(P)
  PROVE  IsFiniteSet(Elements(s))
<1>1. IsFiniteSet(1 .. Len(s))
  BY FS_Interval
<1>2. s \in Surjection(1 .. Len(s), Elements(s))
  BY DEF Surjection, Elements
<1> QED
  BY <1>1, <1>2, FS_Surjection

(* select() over the lists of all the sequence numbers of a datawriter.     *)
LEMMA SampleDatasSelected ==
  ASSUME Stored, NEW q, q.kind = "SAMPLE_DATAS", q.from \in Int, q.to \in Int,
         NEW pair, \A n \in SequenceNumbers : <<q.kind, pair[1], n>> \in Lists
  PROVE  \E held \in Seq(Pointer) :
           /\ held = Selected(q.kind, pair, q.from, q.to - 1)
           /\ Enumerates(held, Wanted(q, pair))
<1> DEFINE lists == {<<q.kind, pair[1], n>> : n \in SequenceNumbers}
           all == {Range(Pointers(l, data[l])) : l \in lists}
<1>1. ListsOf(q.kind, pair) = lists
  <2>1. ASSUME NEW k \in ListsOf(q.kind, pair) PROVE k \in lists
    <3>1. k \in Lists /\ Kind(k) = q.kind /\ Owner(k) = pair[1]
      BY DEF ListsOf
    <3>2. Keys("SAMPLE_DATAS") = SequenceNumbers
      BY DEF Keys, TargetKinds, ByteCounters
    <3> QED
      BY <3>1, <3>2, ListParts
  <2>2. ASSUME NEW n \in SequenceNumbers PROVE <<q.kind, pair[1], n>> \in ListsOf(q.kind, pair)
    BY DEF ListsOf, Kind, Owner
  <2> QED
    BY <2>1, <2>2
<1>2. ASSUME NEW l \in lists
      PROVE  Range(Pointers(l, data[l])) \subseteq Pointer /\ IsFiniteSet(Range(Pointers(l, data[l])))
  <2>1. l \in Lists /\ data[l] \in Seq(SampleType)
    BY DEF Stored, TypeInv, Content
  <2>2. PICK p \in Seq(Pointer) : p = Pointers(l, data[l])
    BY <2>1, PointersType
  <2>3. Range(p) = Elements(p) /\ Elements(p) \subseteq Pointer
    BY DEF Range, Elements
  <2> QED
    BY <2>2, <2>3, ElementsFinite
<1>3. IsFiniteSet(all)
  <2> DEFINE f == [n \in SequenceNumbers |->
                     Range(Pointers(<<q.kind, pair[1], n>>, data[<<q.kind, pair[1], n>>]))]
  <2>1. f \in Surjection(SequenceNumbers, all)
    BY DEF Surjection
  <2> QED
    BY <2>1, DataAssumption, FS_Surjection
<1> DEFINE found == {h \in UNION all : h.sample.ts \in q.from .. q.to - 1}
<1>4. Selected(q.kind, pair, q.from, q.to - 1) = SortedByTime(found)
  BY DEF Selected
<1>5. UNION all \subseteq Pointer /\ IsFiniteSet(UNION all)
  <2>1. \A T \in all : T \subseteq Pointer /\ IsFiniteSet(T)
    BY <1>2
  <2> HIDE DEF all
  <2> QED
    BY <1>3, <2>1, FS_UNION
<1>6. found \in SUBSET Pointer /\ IsFiniteSet(found)
  <2> HIDE DEF all
  <2> QED
    BY <1>5, FS_Subset
<1>7. found = Wanted(q, pair)
  <2>1. Wanted(q, pair) = {h \in UNION all : q.from <= h.sample.ts /\ h.sample.ts < q.to}
    BY <1>1 DEF Wanted
  <2>2. ASSUME NEW h \in UNION all
        PROVE  h.sample.ts \in q.from .. q.to - 1 <=> q.from <= h.sample.ts /\ h.sample.ts < q.to
    <3>1. h \in Pointer
      BY <1>5
    <3>2. h.sample.ts \in Nat
      BY <3>1 DEF Pointer, SampleType
    <3> HIDE DEF all
    <3> QED
      BY <3>2
  <2> HIDE DEF all
  <2> QED
    BY <2>1, <2>2
<1> HIDE DEF found
<1> QED
  BY <1>4, <1>6, <1>7, SortedEnumerates

(* The parameters get_data() accepts, at one of its pairs.                  *)
LEMMA QueryPair ==
  ASSUME NEW q \in Queries, NEW i \in 1 .. Len(q.pairs)
  PROVE  /\ q.from \in Int /\ q.to \in Int
         /\ q.pairs[i] \in Entities \X (Entities \cup {NoKey})
         /\ q.kind = "SAMPLE_DATAS" =>
              /\ q.pairs[i][2] = NoKey
              /\ \A n \in SequenceNumbers : <<q.kind, q.pairs[i][1], n>> \in Lists
         /\ q.kind # "SAMPLE_DATAS" => <<q.kind, q.pairs[i][1], q.pairs[i][2]>> \in Lists
<1>1. q.pairs \in Seq(Entities \X (Entities \cup {NoKey}))
  BY DataAssumption
<1>2. i \in DOMAIN q.pairs /\ q.pairs[i] \in Entities \X (Entities \cup {NoKey})
  BY <1>1, LenProperties
<1> QED
  BY <1>2, DataAssumption

LEMMA PairSelected ==
  ASSUME Stored, NEW q \in Queries, NEW i \in 1 .. Len(q.pairs)
  PROVE  \E held \in Seq(Pointer) :
           /\ held = Selected(q.kind, q.pairs[i], q.from, q.to - 1)
           /\ Enumerates(held, Wanted(q, q.pairs[i]))
BY QueryPair, ListSelected, SampleDatasSelected

(* Two pairs have no list in common.                                        *)
LEMMA PairsApart ==
  ASSUME NEW q \in Queries, NEW i \in 1 .. Len(q.pairs), NEW j \in 1 .. Len(q.pairs),
         NEW k, k \in ListsOf(q.kind, q.pairs[i]), k \in ListsOf(q.kind, q.pairs[j])
  PROVE  q.pairs[i] = q.pairs[j]
<1>1. PICK x, y \in Entities \X (Entities \cup {NoKey}) : x = q.pairs[i] /\ y = q.pairs[j]
  BY QueryPair
<1>2. x[1] = y[1]
  BY <1>1 DEF ListsOf
<1>3. x[2] = y[2]
  BY <1>1, QueryPair DEF ListsOf
<1> QED
  BY <1>1, <1>2, <1>3
-----------------------------------------------------------------------------
(* No pair of entities is given twice to a call of get_data().              *)
PairsDistinct ==
  \A q \in Queries : \A i, j \in 1 .. Len(q.pairs) : i # j => q.pairs[i] # q.pairs[j]

Copy(pointers) == [i \in 1 .. Len(pointers) |-> pointers[i].sample]

(* A call of get_data(): the pairs still to select are among its pairs and  *)
(* nothing was taken from their lists; what was copied and what is held     *)
(* enumerate what it should find.                                           *)
Copying(c, todo, at, result, held, wanted) ==
  /\ c \in Queries
  /\ todo \in Seq(Entities \X (Entities \cup {NoKey}))
  /\ \A i \in 1 .. Len(todo) : \E j \in 1 .. Len(c.pairs) : todo[i] = c.pairs[j]
  /\ \A i, j \in 1 .. Len(todo) : i # j => todo[i] # todo[j]
  /\ \A h \in wanted, i \in 1 .. Len(todo) : h.list \notin ListsOf(c.kind, todo[i])
  /\ at = "next" => held = <<>>
  /\ c.bins = 0 =>
       \E copied \in Seq(Pointer) :
         /\ result = [f \in {"raw", "outside", "bin"} |-> result[f]]
         /\ result.raw = Copy(copied)
         /\ held \in Seq(Pointer)
         /\ Enumerates(copied \o held, wanted)

RawInv ==
  query.at # "idle" =>
    /\ query.at \in {"next", "selected"}
    /\ query = [f \in QueryFields |-> query[f]]
    /\ Copying(query.call, query.todo, query.at, query.result, query.held, query.wanted)

LEMMA RawFacts ==
  ASSUME RawInv, query.at # "idle"
  PROVE  \E q : /\ q = query /\ q.at \in {"next", "selected"}
                /\ q = [f \in QueryFields |-> q[f]]
                /\ Copying(q.call, q.todo, q.at, q.result, q.held, q.wanted)
BY DEF RawInv

LEMMA RawAgain ==
  ASSUME query' = [f \in QueryFields |-> query'[f]], query'.at \in {"next", "selected"},
         Copying(query'.call, query'.todo, query'.at, query'.result, query'.held, query'.wanted)
  PROVE  RawInv'
BY DEF RawInv

(* Samples that arrive or are removed only change which pointers dangle.    *)
LEMMA DanglingRaw ==
  ASSUME RawInv, query.at # "idle", NEW freed, query' = [query EXCEPT !.freed = freed]
  PROVE  RawInv'
<1>1. PICK q : /\ q = query /\ q.at \in {"next", "selected"}
               /\ q = [f \in QueryFields |-> q[f]]
               /\ Copying(q.call, q.todo, q.at, q.result, q.held, q.wanted)
  BY RawFacts
<1>2. query' = [q EXCEPT !.freed = freed]
  BY <1>1
<1>3. /\ query' = [f \in QueryFields |-> query'[f]]
      /\ query'.at = q.at /\ query'.call = q.call /\ query'.todo = q.todo
      /\ query'.result = q.result /\ query'.held = q.held /\ query'.wanted = q.wanted
  BY <1>1, <1>2 DEF QueryFields
<1> QED
  BY <1>1, <1>3, RawAgain

LEMMA CallRaw ==
  ASSUME PairsDistinct, NEW q \in Queries, get_data(q)
  PROVE  RawInv'
<1>1. /\ query' = [f \in QueryFields |-> query'[f]]
      /\ query'.at = "next" /\ query'.call = q /\ query'.todo = q.pairs
      /\ query'.held = <<>> /\ query'.wanted = {}
      /\ query'.result = [raw |-> <<>>, outside |-> {}, bin |-> [b \in 0 .. q.bins - 1 |-> EmptyBin]]
  BY DEF get_data, QueryFields
<1>2. q.pairs \in Seq(Entities \X (Entities \cup {NoKey}))
  BY DataAssumption
<1>3. PICK result, bin : result = query'.result /\ result = [raw |-> <<>>, outside |-> {}, bin |-> bin]
  BY <1>1
<1>4. result.raw = <<>> /\ result = [f \in {"raw", "outside", "bin"} |-> result[f]]
  <2>1. result.raw = <<>>
    BY <1>3
  <2>2. result = [f \in {"raw", "outside", "bin"} |-> result[f]]
    BY <1>3
  <2> QED
    BY <2>1, <2>2
<1>5. PICK none \in Seq(Pointer) : none = <<>>
  BY EmptySeq
<1>6. none \o none = none /\ Enumerates(none, {}) /\ Copy(none) = <<>>
  BY <1>5 DEF Enumerates, Elements, Copy
<1>7. Copying(q, q.pairs, "next", result, <<>>, {})
  BY <1>2, <1>4, <1>5, <1>6 DEF Copying, PairsDistinct
<1> QED
  BY <1>1, <1>3, <1>7, RawAgain

LEMMA SelectRaw ==
  ASSUME Stored, RawInv, Select
  PROVE  RawInv'
<1>1. PICK q : /\ q = query /\ q.at \in {"next", "selected"}
               /\ q = [f \in QueryFields |-> q[f]]
               /\ Copying(q.call, q.todo, q.at, q.result, q.held, q.wanted)
  BY RawFacts DEF Select
<1>2. PICK c, todo, pair, wanted :
        c = q.call /\ todo = q.todo /\ pair = Head(todo) /\ wanted = Wanted(c, pair)
  OBVIOUS
<1>3. q.at = "next" /\ todo # <<>>
  BY <1>1, <1>2 DEF Select
<1>4. CASE query' = Idle
  BY <1>4 DEF RawInv, Idle
<1>5. CASE query' # Idle
  <2>1. PICK held : /\ held = Selected(c.kind, pair, c.from, c.to - 1)
                    /\ query' = [q EXCEPT !.at = "selected", !.todo = Tail(@), !.held = held,
                                          !.wanted = @ \cup wanted]
    <3>1. query' = [query EXCEPT
            !.at = "selected", !.todo = Tail(@),
            !.held = Selected(query.call.kind, Head(query.todo), query.call.from, query.call.to - 1),
            !.wanted = @ \cup Wanted(query.call, Head(query.todo))]
      BY <1>5 DEF Select, Wanted, ListsOf
    <3> QED
      BY <1>1, <1>2, <3>1
  <2>2. /\ query' = [f \in QueryFields |-> query'[f]]
        /\ query'.at = "selected" /\ query'.call = c /\ query'.todo = Tail(todo)
        /\ query'.result = q.result /\ query'.held = held
        /\ query'.wanted = q.wanted \cup wanted
    BY <1>1, <1>2, <2>1 DEF QueryFields
  <2>3. /\ c \in Queries
        /\ todo \in Seq(Entities \X (Entities \cup {NoKey}))
        /\ \A i \in 1 .. Len(todo) : \E j \in 1 .. Len(c.pairs) : todo[i] = c.pairs[j]
        /\ \A i, j \in 1 .. Len(todo) : i # j => todo[i] # todo[j]
        /\ \A h \in q.wanted, i \in 1 .. Len(todo) : h.list \notin ListsOf(c.kind, todo[i])
    <3>1. Copying(c, todo, q.at, q.result, q.held, q.wanted)
      BY <1>1, <1>2
    <3> QED
      BY <3>1, Zenon DEF Copying
  <2>4. PICK rest \in Seq(Entities \X (Entities \cup {NoKey})) :
          /\ rest = Tail(todo) /\ Len(rest) = Len(todo) - 1
          /\ Len(todo) \in Nat /\ Len(todo) # 0
          /\ \A i \in 1 .. Len(rest) : rest[i] = todo[i + 1]
          /\ pair = todo[1]
    <3>1. todo \in Seq(Entities \X (Entities \cup {NoKey})) /\ todo # <<>>
      BY <1>3, <2>3
    <3>2. /\ Tail(todo) \in Seq(Entities \X (Entities \cup {NoKey}))
          /\ Len(Tail(todo)) = Len(todo) - 1 /\ Len(todo) \in Nat /\ Len(todo) # 0
          /\ \A i \in 1 .. Len(Tail(todo)) : Tail(todo)[i] = todo[i + 1]
          /\ Head(todo) = todo[1]
      BY <3>1, HeadTailProperties, EmptySeq
    <3> QED
      BY <1>2, <3>2
  <2>5. \A i \in 1 .. Len(rest) : i + 1 \in 1 .. Len(todo) /\ i + 1 # 1
    BY <2>4
  <2>6. 1 \in 1 .. Len(todo)
    BY <2>4
  <2>7. PICK p \in 1 .. Len(c.pairs) : pair = c.pairs[p]
    BY <2>3, <2>4, <2>6
  <2>8. held \in Seq(Pointer) /\ Enumerates(held, wanted)
    BY <1>2, <2>1, <2>3, <2>7, PairSelected
  <2>9. \A h \in wanted : h.list \in ListsOf(c.kind, pair)
    BY <1>2, WantedType
  <2>10. q.wanted \cap wanted = {}
    BY <2>3, <2>4, <2>6, <2>9
  <2>11. ASSUME NEW h \in q.wanted \cup wanted, NEW i \in 1 .. Len(rest)
         PROVE  h.list \notin ListsOf(c.kind, rest[i])
    <3>1. CASE h \in q.wanted
      BY <2>3, <2>4, <2>5, <3>1
    <3>2. CASE h \in wanted
      <4>1. PICK j \in 1 .. Len(c.pairs) : rest[i] = c.pairs[j]
        BY <2>3, <2>4, <2>5
      <4>2. rest[i] # pair
        BY <2>3, <2>4, <2>5, <2>6
      <4>3. h.list \in ListsOf(c.kind, c.pairs[p])
        BY <2>7, <2>9, <3>2
      <4> QED
        BY <2>3, <2>7, <4>1, <4>2, <4>3, PairsApart
    <3> QED
      BY <3>1, <3>2
  <2>12. \A i, j \in 1 .. Len(rest) : i # j => rest[i] # rest[j]
    <3>1. \A i, j \in 1 .. Len(rest) : i # j => i + 1 # j + 1
      OBVIOUS
    <3> QED
      BY <2>3, <2>4, <2>5, <3>1
  <2>13. ASSUME c.bins = 0
         PROVE  \E copied \in Seq(Pointer) :
                  /\ q.result = [f \in {"raw", "outside", "bin"} |-> q.result[f]]
                  /\ q.result.raw = Copy(copied)
                  /\ held \in Seq(Pointer)
                  /\ Enumerates(copied \o held, q.wanted \cup wanted)
    <3>1. PICK copied \in Seq(Pointer) :
            /\ q.result = [f \in {"raw", "outside", "bin"} |-> q.result[f]]
            /\ q.result.raw = Copy(copied)
            /\ Enumerates(copied \o <<>>, q.wanted)
      BY <1>1, <1>2, <1>3, <2>13 DEF Copying
    <3>2. copied \o <<>> = copied
      OBVIOUS
    <3>3. Enumerates(copied \o held, q.wanted \cup wanted)
      BY <2>8, <2>10, <3>1, <3>2, EnumeratedConcat
    <3> QED
      BY <2>8, <3>1, <3>3
  <2>14. \A i \in 1 .. Len(rest) : \E j \in 1 .. Len(c.pairs) : rest[i] = c.pairs[j]
    BY <2>3, <2>4, <2>5
  <2>15. Copying(c, rest, "selected", q.result, held, q.wanted \cup wanted)
    BY <2>3, <2>11, <2>12, <2>13, <2>14 DEF Copying
  <2> QED
    BY <2>2, <2>4, <2>15, RawAgain
<1> QED
  BY <1>4, <1>5

(* What is copied after what was copied.                                    *)
LEMMA CopyConcat ==
  ASSUME NEW r \in Seq(Pointer), NEW s \in Seq(Pointer)
  PROVE  Copy(r) \o Copy(s) = Copy(r \o s)
<1>1. PICK t : t = r \o s
  OBVIOUS
<1>2. /\ t \in Seq(Pointer)
      /\ Len(t) = Len(r) + Len(s) /\ Len(r) \in Nat /\ Len(s) \in Nat
      /\ \A i \in 1 .. Len(t) : t[i] = IF i <= Len(r) THEN r[i] ELSE s[i - Len(r)]
  BY <1>1, ConcatProperties
<1>3. \A h \in Pointer : h.sample \in SampleType
  BY DEF Pointer
<1>4. \A x \in Seq(Pointer) : /\ Copy(x) \in Seq(SampleType) /\ Len(Copy(x)) = Len(x)
                              /\ \A i \in 1 .. Len(x) : Copy(x)[i] = x[i].sample
  <2> SUFFICES ASSUME NEW x \in Seq(Pointer)
               PROVE  /\ Copy(x) \in Seq(SampleType) /\ Len(Copy(x)) = Len(x)
                      /\ \A i \in 1 .. Len(x) : Copy(x)[i] = x[i].sample
    OBVIOUS
  <2>1. Len(x) \in Nat /\ \A i \in 1 .. Len(x) : x[i].sample \in SampleType
    BY <1>3
  <2>2. Copy(x) \in [1 .. Len(x) -> SampleType]
    BY <2>1 DEF Copy
  <2> QED
    BY <2>1, <2>2 DEF Copy
<1>5. PICK a \in Seq(SampleType), b \in Seq(SampleType), c \in Seq(SampleType) :
        a = Copy(r) /\ b = Copy(s) /\ c = Copy(t)
  BY <1>2, <1>4
<1>6. /\ Len(a) = Len(r) /\ Len(b) = Len(s) /\ Len(c) = Len(t)
      /\ \A i \in 1 .. Len(r) : a[i] = r[i].sample
      /\ \A i \in 1 .. Len(s) : b[i] = s[i].sample
      /\ \A i \in 1 .. Len(t) : c[i] = t[i].sample
  BY <1>2, <1>4, <1>5
<1>7. PICK d \in Seq(SampleType) :
        /\ d = a \o b /\ Len(d) = Len(a) + Len(b)
        /\ \A i \in 1 .. Len(d) : d[i] = IF i <= Len(a) THEN a[i] ELSE b[i - Len(a)]
  <2>1. a \o b \in Seq(SampleType) /\ Len(a \o b) = Len(a) + Len(b)
    BY ConcatProperties
  <2>2. \A i \in 1 .. Len(a) + Len(b) :
          (a \o b)[i] = IF i <= Len(a) THEN a[i] ELSE b[i - Len(a)]
    BY ConcatProperties
  <2> QED
    BY <2>1, <2>2
<1>8. ASSUME NEW i \in 1 .. Len(t) PROVE d[i] = c[i]
  <2>1. CASE i <= Len(r)
    <3>1. i \in 1 .. Len(r) /\ i \in 1 .. Len(d)
      BY <1>2, <1>6, <1>7, <2>1
    <3> QED
      BY <1>2, <1>6, <1>7, <2>1, <3>1
  <2>2. CASE ~(i <= Len(r))
    <3>1. i - Len(r) \in 1 .. Len(s) /\ i \in 1 .. Len(d)
      BY <1>2, <1>6, <1>7, <2>2
    <3> QED
      BY <1>2, <1>6, <1>7, <2>2, <3>1
  <2> QED
    BY <2>1, <2>2
<1>9. c = d
  BY <1>2, <1>6, <1>7, <1>8, SeqEqual
<1> QED
  BY <1>1, <1>5, <1>7, <1>9

LEMMA AddDataRaw ==
  ASSUME RawInv, AddData
  PROVE  RawInv'
<1>1. PICK q : /\ q = query /\ q.at \in {"next", "selected"}
               /\ q = [f \in QueryFields |-> q[f]]
               /\ Copying(q.call, q.todo, q.at, q.result, q.held, q.wanted)
  BY RawFacts DEF AddData
<1>2. PICK result : /\ query' = [q EXCEPT !.at = "next", !.held = <<>>, !.result = result]
                    /\ q.call.bins = 0 => result = Copied(q.result, q.held)
  BY <1>1 DEF AddData
<1>3. /\ query' = [f \in QueryFields |-> query'[f]]
      /\ query'.at = "next" /\ query'.call = q.call /\ query'.todo = q.todo
      /\ query'.result = result /\ query'.held = <<>> /\ query'.wanted = q.wanted
  BY <1>1, <1>2 DEF QueryFields
<1>4. ASSUME q.call.bins = 0
      PROVE  \E copied \in Seq(Pointer) :
               /\ result = [f \in {"raw", "outside", "bin"} |-> result[f]]
               /\ result.raw = Copy(copied)
               /\ <<>> \in Seq(Pointer)
               /\ Enumerates(copied \o <<>>, q.wanted)
  <2>1. PICK r \in Seq(Pointer) :
          /\ q.result = [f \in {"raw", "outside", "bin"} |-> q.result[f]]
          /\ q.result.raw = Copy(r)
          /\ q.held \in Seq(Pointer)
          /\ Enumerates(r \o q.held, q.wanted)
    BY <1>1, <1>4 DEF Copying
  <2>2. PICK held, old : held \in Seq(Pointer) /\ held = q.held /\ old = q.result
    BY <2>1
  <2>3. result = [old EXCEPT !.raw = old.raw \o Copy(held)]
    BY <1>2, <1>4, <2>2 DEF Copied, Copy
  <2>4. result = [f \in {"raw", "outside", "bin"} |-> result[f]] /\ result.raw = old.raw \o Copy(held)
    BY <2>1, <2>2, <2>3
  <2>5. result.raw = Copy(r \o held)
    BY <2>1, <2>2, <2>4, CopyConcat
  <2>6. PICK sum \in Seq(Pointer) : sum = r \o held
    BY <2>2, ConcatProperties
  <2>7. sum \o <<>> = sum /\ <<>> \in Seq(Pointer)
    BY EmptySeq
  <2>8. Enumerates(sum \o <<>>, q.wanted)
    BY <2>1, <2>2, <2>6, <2>7
  <2> QED
    BY <2>4, <2>5, <2>6, <2>7, <2>8
<1>5. Copying(q.call, q.todo, "next", result, <<>>, q.wanted)
  BY <1>1, <1>4 DEF Copying
<1> QED
  BY <1>3, <1>5, RawAgain

LEMMA RawStep ==
  ASSUME PairsDistinct, Stored, RawInv, [DataNext]_dvars
  PROVE  RawInv'
<1>1. ASSUME UNCHANGED query PROVE RawInv'
  BY <1>1 DEF RawInv
<1>2. ASSUME NEW freed, query' = IF query.at # "selected" THEN query
                                 ELSE [query EXCEPT !.freed = freed]
      PROVE  RawInv'
  BY <1>1, <1>2, DanglingRaw
<1>3. ASSUME NEW l \in Lists, NEW ts \in 1 .. MaxTime, NEW value \in Reports(l),
             Receive(l, ts, value)
      PROVE  RawInv'
  BY <1>1, <1>2, <1>3 DEF Receive, insert, Dangling
<1>4. ASSUME NEW e \in Entities \ Locators, Discover(e) PROVE RawInv'
  BY <1>1, <1>4 DEF Discover
<1>5. ASSUME NEW e \in Entities \ Locators, Erase(e) PROVE RawInv'
  BY <1>2, <1>5 DEF Erase, AllDangling
<1>6. ASSUME NEW t_to, clear_nts(t_to) PROVE RawInv'
  BY <1>2, <1>6 DEF clear_nts, AllDangling
<1>7. ASSUME NEW t_to \in 2 .. MaxTime + 1, clear_statistics_data(t_to) PROVE RawInv'
  BY <1>6, <1>7 DEF clear_statistics_data
<1>8. ASSUME NEW clear \in BOOLEAN, dump_database(clear) PROVE RawInv'
  BY <1>1, <1>6, <1>8 DEF dump_database
<1>9. ASSUME NEW l \in Lists, LoadSample(l) PROVE RawInv'
  BY <1>1, <1>9 DEF LoadSample
<1>10. CASE Restart \/ LoadBegin \/ LoadEnd
  BY <1>1, <1>10 DEF Restart, LoadBegin, LoadEnd
<1>11. ASSUME NEW q \in Queries, get_data(q) PROVE RawInv'
  BY <1>11, CallRaw
<1>12. CASE Select
  BY <1>12, SelectRaw
<1>13. CASE AddData
  BY <1>13, AddDataRaw
<1>14. CASE Return
  BY <1>14 DEF Return, Idle, RawInv
<1>15. CASE UNCHANGED dvars
  BY <1>1, <1>15 DEF dvars
<1> QED
  BY <1>3, <1>4, <1>5, <1>7, <1>8, <1>9, <1>10, <1>11, <1>12, <1>13, <1>14, <1>15 DEF DataNext

(* The result of get_data() without bins has every sample of the interval   *)
(* once, for any lists and any call that gives no pair twice, unless one of *)
(* the pointers of select() dangled: ending the loop at the first later     *)
(* sample loses none because the lists are sorted.                          *)
THEOREM RawIsTheInterval ==
  ASSUME PairsDistinct
  PROVE  DataSpec => []RawIsInterval
<1>1. DataInit => RawInv
  BY DEF DataInit, RawInv, Idle
<1>2. Stored /\ RawInv /\ [DataNext]_dvars => RawInv'
  BY RawStep
<1>3. RawInv => RawIsInterval
  <2> SUFFICES ASSUME RawInv, query.at = "next", query.call.bins = 0
               PROVE  /\ Range(query.result.raw) = {h.sample : h \in query.wanted}
                      /\ Len(query.result.raw) = Cardinality(query.wanted)
    BY DEF RawIsInterval
  <2>1. PICK copied \in Seq(Pointer) :
          query.result.raw = Copy(copied) /\ Enumerates(copied \o <<>>, query.wanted)
    BY DEF RawInv, Copying
  <2>2. Enumerates(copied, query.wanted)
    <3>1. copied \o <<>> = copied
      OBVIOUS
    <3> QED
      BY <2>1, <3>1
  <2>3. Len(Copy(copied)) = Len(copied) /\ Range(Copy(copied)) = {h.sample : h \in Elements(copied)}
    <3>1. Len(copied) \in Nat
      OBVIOUS
    <3> QED
      BY <3>1 DEF Copy, Range, Elements
  <2>4. Cardinality(query.wanted) = Len(copied)
    BY <2>2, EnumeratedSize
  <2> QED
    BY <2>1, <2>2, <2>3, <2>4 DEF Enumerates
<1> QED
  BY <1>1, <1>2, <1>3, SamplesStored, PTL DEF DataSpec
-----------------------------------------------------------------------------
(* The interval of every call is a multiple of its number of bins.          *)
EvenBins == \A q \in Queries : q.bins > 0 => (q.to - q.from) % q.bins = 0

(* Then no instant of the interval is after the last bin.                   *)
LEMMA BinOfInterval ==
  ASSUME NEW q, q.from \in Int, q.to \in Int, q.bins \in Nat, q.bins > 0,
         q.to > q.from + q.bins, (q.to - q.from) % q.bins = 0,
         NEW ts \in Int, q.from <= ts, ts < q.to
  PROVE  BinOf(q, ts) \in 0 .. q.bins - 1
<1>1. PICK n, w, x \in Int :
        n = q.bins /\ w = q.to - q.from /\ x = ts - q.from
  OBVIOUS
<1>2. n > 0 /\ w > n /\ w % n = 0 /\ 0 <= x /\ x < w
  BY <1>1
<1>3. PICK d \in Int : d = w \div n
  BY <1>2
<1>4. w = n * d
  <2>1. w = n * (w \div n) + (w % n)
    BY <1>2
  <2> QED
    BY <1>2, <1>3, <2>1
<1>5. d > 0
  <2>1. d <= 0 => n * d <= 0
    BY <1>2
  <2> QED
    BY <1>2, <1>4, <2>1
<1>6. PICK k, m \in Int : k = x \div d /\ x = d * k + m /\ m >= 0 /\ m < d
  BY <1>5
<1>7. k >= 0
  <2>1. k <= -1 => d * k <= -d
    BY <1>5
  <2> QED
    BY <1>2, <1>5, <1>6, <2>1
<1>8. k < n
  <2>1. k >= n => d * k >= d * n
    BY <1>2, <1>5
  <2>2. d * n = n * d
    BY <1>2
  <2> QED
    BY <1>2, <1>4, <1>6, <2>1, <2>2
<1>9. BinOf(q, ts) = k
  BY <1>1, <1>3, <1>6 DEF BinOf, Interval
<1> QED
  BY <1>1, <1>2, <1>7, <1>8, <1>9

(* What an aggregation keeps of a bin.                                      *)
BinType == [none : Int, sum : Int, max : Int, min : Int, squares : Int, count : Int,
            values : Seq(Int)]
ResultType(N) == [raw : {<<>>}, outside : {{}}, bin : [0 .. N - 1 -> BinType]]

LEMMA ExtremeOfTwo ==
  ASSUME NEW a \in Int, NEW b \in Int
  PROVE  Max({a, b}) \in Int /\ Min({a, b}) \in Int
<1>1. \E x \in {a, b} : \A y \in {a, b} : x >= y
  OBVIOUS
<1>2. \E x \in {a, b} : \A y \in {a, b} : x <= y
  OBVIOUS
<1>3. Max({a, b}) \in {a, b}
  BY <1>1 DEF Max
<1>4. Min({a, b}) \in {a, b}
  BY <1>2 DEF Min
<1> QED
  BY <1>3, <1>4

LEMMA GetValueType ==
  ASSUME NEW s \in SampleType
  PROVE  get_value(s) \in Int
<1>1. s.order \in Int /\ s.count \in Int /\ Base \in Int
  BY DataAssumption DEF SampleType
<1>2. PICK m \in Int : m = Max({s.order, 0})
  BY <1>1, ExtremeOfTwo
<1>3. m * Base \in Int
  BY <1>1
<1> QED
  BY <1>1, <1>2, <1>3 DEF get_value

LEMMA AddSampleType ==
  ASSUME NEW bin \in BinType, NEW v \in Int
  PROVE  add_sample(bin, v) \in BinType
<1>1. /\ bin.none \in Int /\ bin.sum \in Int /\ bin.max \in Int /\ bin.min \in Int
      /\ bin.squares \in Int /\ bin.count \in Int /\ bin.values \in Seq(Int)
  BY DEF BinType
<1>2. PICK top, bottom \in Int : top = Max({bin.max, v}) /\ bottom = Min({bin.min, v})
  BY <1>1, ExtremeOfTwo
<1>3. PICK none, max, min \in Int :
        /\ none = IF bin.count = 0 THEN v ELSE bin.none
        /\ max = IF bin.count = 0 THEN v ELSE top
        /\ min = IF bin.count = 0 THEN v ELSE bottom
  BY <1>1
<1>4. PICK sum, squares, count \in Int :
        sum = bin.sum + v /\ squares = bin.squares + v * v /\ count = bin.count + 1
  <2>1. PICK square \in Int : square = v * v
    OBVIOUS
  <2>2. bin.sum + v \in Int /\ bin.squares + square \in Int /\ bin.count + 1 \in Int
    BY <1>1
  <2> QED
    BY <2>1, <2>2, Zenon
<1>5. PICK values \in Seq(Int) : values = Append(bin.values, v)
  BY <1>1, AppendProperties
<1>6. add_sample(bin, v) = [none |-> none, sum |-> sum, max |-> max, min |-> min,
                            squares |-> squares, count |-> count, values |-> values]
  BY <1>2, <1>3, <1>4, <1>5, Zenon DEF add_sample
<1> QED
  BY <1>6 DEF BinType

(* The loop of add_data() over pointers that all have a bin.                *)
LEMMA AddDataBins ==
  ASSUME NEW q, q.bins \in Nat, NEW result \in ResultType(q.bins), NEW held \in Seq(Pointer),
         \A i \in 1 .. Len(held) : BinOf(q, held[i].sample.ts) \in 0 .. q.bins - 1
  PROVE  add_data(q, result, held) \in ResultType(q.bins)
<1> DEFINE N == Len(held)
           S == ResultType(q.bins)
           add(r, n) == LET b == BinOf(q, held[n].sample.ts)
                        IN  IF b \in DOMAIN r.bin
                            THEN [r EXCEPT !.bin[b] = add_sample(@, get_value(held[n].sample))]
                            ELSE [r EXCEPT !.outside = @ \cup {held[n]}]
           Body(f) == [n \in 0 .. N |-> IF n = 0 THEN result ELSE add(f[n - 1], n)]
<1>0. N \in Nat /\ result \in S
  OBVIOUS
<1>1. ASSUME NEW r \in S, NEW n \in 1 .. N PROVE add(r, n) \in S
  <2>1. held[n] \in Pointer
    OBVIOUS
  <2>2. held[n].sample \in SampleType
    BY <2>1 DEF Pointer
  <2>3. PICK v \in Int : v = get_value(held[n].sample)
    BY <2>2, GetValueType
  <2>4. PICK b \in 0 .. q.bins - 1 : b = BinOf(q, held[n].sample.ts)
    OBVIOUS
  <2>5. PICK bin \in [0 .. q.bins - 1 -> BinType] :
          r = [raw |-> <<>>, outside |-> {}, bin |-> bin] /\ r.bin = bin
    BY DEF ResultType
  <2>6. PICK new \in BinType : new = add_sample(bin[b], v)
    BY AddSampleType
  <2>7. add(r, n) = [r EXCEPT !.bin[b] = new]
    BY <2>3, <2>4, <2>5, <2>6
  <2>8. [bin EXCEPT ![b] = new] \in [0 .. q.bins - 1 -> BinType]
    OBVIOUS
  <2>9. add(r, n) = [raw |-> <<>>, outside |-> {}, bin |-> [bin EXCEPT ![b] = new]]
    BY <2>5, <2>7
  <2> QED
    BY <2>8, <2>9 DEF ResultType
<1>2. add_data(q, result, held) = (CHOOSE f : f = Body(f))[N]
  BY DEF add_data
<1> HIDE DEF add, S, N
<1>3. PICK f : f = Body(f) /\ f \in [0 .. N -> S]
  <2> DEFINE step == [p \in S \X (1 .. N) |-> add(p[1], p[2])]
  <2>1. step \in [S \X (1 .. N) -> S]
    BY <1>0, <1>1
  <2>2. \A r \in S, n \in 1 .. N : step[<<r, n>>] = add(r, n)
    OBVIOUS
  <2> HIDE DEF step
  <2>3. PICK g : Follows(g, N, S, result, step)
    BY <1>0, <2>1, Recursion
  <2>4. g \in [0 .. N -> S] /\ g[0] = result
    BY <2>3 DEF Follows
  <2>5. ASSUME NEW n \in 1 .. N PROVE g[n] = add(g[n - 1], n)
    <3>1. n - 1 \in 0 .. N
      BY <1>0
    <3>2. g[n - 1] \in S
      BY <2>4, <3>1
    <3> QED
      BY <2>2, <2>3, <3>2 DEF Follows
  <2>6. \A n \in 0 .. N : g[n] = IF n = 0 THEN result ELSE add(g[n - 1], n)
    BY <1>0, <2>4, <2>5
  <2> QED
    BY <2>4, <2>6
<1>4. PICK h : h = (CHOOSE g : g = Body(g)) /\ h = Body(h)
  <2> HIDE DEF Body
  <2> QED
    BY <1>3
<1>5. h[0] = result /\ \A n \in 1 .. N : h[n] = add(h[n - 1], n)
  <2>1. h = Body(h)
    BY <1>4
  <2>2. \A n \in 0 .. N : h[n] = IF n = 0 THEN result ELSE add(h[n - 1], n)
    BY <2>1
  <2> QED
    BY <1>0, <2>2
<1>6. \A n \in 0 .. N : h[n] \in S
  <2> DEFINE T == {n \in 0 .. N : h[n] \notin S}
  <2> SUFFICES ASSUME T # {} PROVE FALSE
    OBVIOUS
  <2>1. PICK k \in T : \A j \in T : k <= j
    <3>1. T \in SUBSET Nat
      BY <1>0
    <3> HIDE DEF T
    <3> QED
      BY <3>1, Least
  <2>2. k # 0
    BY <1>0, <1>5, <2>1
  <2>3. k \in 1 .. N /\ k - 1 \in 0 .. N /\ k - 1 \notin T
    BY <1>0, <2>1, <2>2
  <2>4. h[k - 1] \in S
    BY <2>3
  <2> QED
    BY <1>1, <1>5, <2>1, <2>3, <2>4
<1>7. N \in 0 .. N
  BY <1>0
<1> QED
  BY <1>2, <1>4, <1>6, <1>7 DEF S
-----------------------------------------------------------------------------
(* A call of get_data(): it holds samples of its interval, and none was     *)
(* left without a bin.                                                      *)
Binning(c, todo, at, result, held) ==
  /\ c \in Queries /\ c.to > c.from + c.bins
  /\ todo \in Seq(Entities \X (Entities \cup {NoKey}))
  /\ \A i \in 1 .. Len(todo) : \E j \in 1 .. Len(c.pairs) : todo[i] = c.pairs[j]
  /\ IF c.bins = 0
     THEN result = [f \in {"raw", "outside", "bin"} |-> result[f]] /\ result.outside = {}
     ELSE result \in ResultType(c.bins)
  /\ at = "selected" =>
       /\ held \in Seq(Pointer)
       /\ \A i \in 1 .. Len(held) : c.from <= held[i].sample.ts /\ held[i].sample.ts < c.to

BinInv ==
  query.at # "idle" =>
    /\ query.at \in {"next", "selected"}
    /\ query = [f \in QueryFields |-> query[f]]
    /\ Binning(query.call, query.todo, query.at, query.result, query.held)

LEMMA BinFacts ==
  ASSUME BinInv, query.at # "idle"
  PROVE  \E q : /\ q = query /\ q.at \in {"next", "selected"}
                /\ q = [f \in QueryFields |-> q[f]]
                /\ Binning(q.call, q.todo, q.at, q.result, q.held)
BY DEF BinInv

LEMMA BinAgain ==
  ASSUME query' = [f \in QueryFields |-> query'[f]], query'.at \in {"next", "selected"},
         Binning(query'.call, query'.todo, query'.at, query'.result, query'.held)
  PROVE  BinInv'
BY DEF BinInv

LEMMA DanglingBin ==
  ASSUME BinInv, query.at # "idle", NEW freed, query' = [query EXCEPT !.freed = freed]
  PROVE  BinInv'
<1>1. PICK q : /\ q = query /\ q.at \in {"next", "selected"}
               /\ q = [f \in QueryFields |-> q[f]]
               /\ Binning(q.call, q.todo, q.at, q.result, q.held)
  BY BinFacts
<1>2. query' = [q EXCEPT !.freed = freed]
  BY <1>1
<1>3. /\ query' = [f \in QueryFields |-> query'[f]]
      /\ query'.at = q.at /\ query'.call = q.call /\ query'.todo = q.todo
      /\ query'.result = q.result /\ query'.held = q.held
  BY <1>1, <1>2 DEF QueryFields
<1> QED
  BY <1>1, <1>3, BinAgain

LEMMA CallBin ==
  ASSUME NEW q \in Queries, get_data(q)
  PROVE  BinInv'
<1>1. /\ query' = [f \in QueryFields |-> query'[f]]
      /\ query'.at = "next" /\ query'.call = q /\ query'.todo = q.pairs
      /\ query'.held = <<>>
      /\ query'.result = [raw |-> <<>>, outside |-> {}, bin |-> [b \in 0 .. q.bins - 1 |-> EmptyBin]]
  BY DEF get_data, QueryFields
<1>2. q.pairs \in Seq(Entities \X (Entities \cup {NoKey})) /\ q.to > q.from + q.bins
  BY DataAssumption DEF get_data
<1>3. EmptyBin \in BinType
  BY EmptySeq DEF EmptyBin, BinType
<1>4. PICK result, bin :
        /\ bin \in [0 .. q.bins - 1 -> BinType]
        /\ result = query'.result /\ result = [raw |-> <<>>, outside |-> {}, bin |-> bin]
  BY <1>1, <1>3
<1>5. result = [f \in {"raw", "outside", "bin"} |-> result[f]] /\ result.outside = {}
  <2>1. result.outside = {}
    BY <1>4
  <2>2. result = [f \in {"raw", "outside", "bin"} |-> result[f]]
    BY <1>4
  <2> QED
    BY <2>1, <2>2
<1>6. result \in ResultType(q.bins)
  BY <1>4 DEF ResultType
<1>7. Binning(q, q.pairs, "next", result, <<>>)
  BY <1>2, <1>5, <1>6 DEF Binning
<1> QED
  BY <1>1, <1>4, <1>7, BinAgain

LEMMA SelectBin ==
  ASSUME Stored, BinInv, Select
  PROVE  BinInv'
<1>1. PICK q : /\ q = query /\ q.at \in {"next", "selected"}
               /\ q = [f \in QueryFields |-> q[f]]
               /\ Binning(q.call, q.todo, q.at, q.result, q.held)
  BY BinFacts DEF Select
<1>2. PICK c, todo, pair : c = q.call /\ todo = q.todo /\ pair = Head(todo)
  OBVIOUS
<1>3. CASE query' = Idle
  BY <1>3 DEF BinInv, Idle
<1>4. CASE query' # Idle
  <2>1. PICK held, wanted :
          /\ held = Selected(c.kind, pair, c.from, c.to - 1)
          /\ query' = [q EXCEPT !.at = "selected", !.todo = Tail(@), !.held = held,
                                !.wanted = wanted]
    BY <1>1, <1>2, <1>4 DEF Select
  <2>2. /\ query' = [f \in QueryFields |-> query'[f]]
        /\ query'.at = "selected" /\ query'.call = c /\ query'.todo = Tail(todo)
        /\ query'.result = q.result /\ query'.held = held
    BY <1>1, <1>2, <2>1 DEF QueryFields
  <2>3. Binning(c, todo, q.at, q.result, q.held)
    BY <1>1, <1>2
  <2>4. /\ c \in Queries /\ todo \in Seq(Entities \X (Entities \cup {NoKey})) /\ todo # <<>>
        /\ \A i \in 1 .. Len(todo) : \E j \in 1 .. Len(c.pairs) : todo[i] = c.pairs[j]
    BY <1>1, <1>2, <2>3 DEF Binning, Select
  <2>5. PICK rest \in Seq(Entities \X (Entities \cup {NoKey})) :
          /\ rest = Tail(todo) /\ Len(rest) = Len(todo) - 1
          /\ Len(todo) \in Nat /\ Len(todo) # 0
          /\ \A i \in 1 .. Len(rest) : rest[i] = todo[i + 1]
          /\ pair = todo[1]
    <3>1. /\ Tail(todo) \in Seq(Entities \X (Entities \cup {NoKey}))
          /\ Len(Tail(todo)) = Len(todo) - 1 /\ Len(todo) \in Nat /\ Len(todo) # 0
          /\ \A i \in 1 .. Len(Tail(todo)) : Tail(todo)[i] = todo[i + 1]
          /\ Head(todo) = todo[1]
      BY <2>4, HeadTailProperties, EmptySeq
    <3> QED
      BY <1>2, <3>1
  <2>6. 1 \in 1 .. Len(todo) /\ \A i \in 1 .. Len(rest) : i + 1 \in 1 .. Len(todo)
    BY <2>5
  <2>7. PICK p \in 1 .. Len(c.pairs) : pair = c.pairs[p]
    BY <2>4, <2>5, <2>6
  <2>8. held \in Seq(Pointer) /\ Enumerates(held, Wanted(c, pair))
    BY <2>1, <2>4, <2>7, PairSelected
  <2>9. ASSUME NEW i \in 1 .. Len(held)
        PROVE  c.from <= held[i].sample.ts /\ held[i].sample.ts < c.to
    <3>1. held[i] \in Wanted(c, pair)
      BY <2>8 DEF Enumerates, Elements
    <3> QED
      BY <3>1 DEF Wanted
  <2>10. Binning(c, rest, "selected", q.result, held)
    <3>1. \A i \in 1 .. Len(rest) : \E j \in 1 .. Len(c.pairs) : rest[i] = c.pairs[j]
      BY <2>4, <2>5, <2>6
    <3> QED
      BY <2>3, <2>8, <2>9, <3>1 DEF Binning
  <2> QED
    BY <2>2, <2>5, <2>10, BinAgain
<1> QED
  BY <1>3, <1>4

LEMMA AddDataBin ==
  ASSUME EvenBins, BinInv, AddData
  PROVE  BinInv'
<1>1. PICK q : /\ q = query /\ q.at = "selected"
               /\ q = [f \in QueryFields |-> q[f]]
               /\ Binning(q.call, q.todo, q.at, q.result, q.held)
  BY BinFacts DEF AddData
<1>2. PICK result : /\ query' = [q EXCEPT !.at = "next", !.held = <<>>, !.result = result]
                    /\ result = IF q.call.bins = 0 THEN Copied(q.result, q.held)
                                ELSE add_data(q.call, q.result, q.held)
  BY <1>1 DEF AddData
<1>3. /\ query' = [f \in QueryFields |-> query'[f]]
      /\ query'.at = "next" /\ query'.call = q.call /\ query'.todo = q.todo
      /\ query'.result = result /\ query'.held = <<>>
  BY <1>1, <1>2 DEF QueryFields
<1>4. PICK c, old, held : c = q.call /\ old = q.result /\ held = q.held
  OBVIOUS
<1>5. Binning(c, q.todo, "selected", old, held)
  BY <1>1, <1>4
<1>6. /\ c \in Queries /\ held \in Seq(Pointer) /\ c.to > c.from + c.bins
      /\ \A i \in 1 .. Len(held) : c.from <= held[i].sample.ts /\ held[i].sample.ts < c.to
  BY <1>5 DEF Binning
<1>7. CASE c.bins = 0
  <2>1. old = [f \in {"raw", "outside", "bin"} |-> old[f]] /\ old.outside = {}
    BY <1>5, <1>7 DEF Binning
  <2>2. PICK raw : result = [old EXCEPT !.raw = raw]
    BY <1>2, <1>4, <1>7 DEF Copied
  <2>3. result = [f \in {"raw", "outside", "bin"} |-> result[f]] /\ result.outside = {}
    BY <2>1, <2>2
  <2>4. Binning(c, q.todo, "next", result, <<>>)
    BY <1>5, <1>7, <2>3 DEF Binning
  <2> QED
    BY <1>3, <1>4, <2>4, BinAgain
<1>8. CASE c.bins # 0
  <2>1. c.from \in Int /\ c.to \in Int /\ c.bins \in Nat /\ c.bins > 0
    BY <1>6, <1>8, DataAssumption
  <2>2. (c.to - c.from) % c.bins = 0
    BY <1>6, <2>1 DEF EvenBins
  <2>3. ASSUME NEW i \in 1 .. Len(held) PROVE BinOf(c, held[i].sample.ts) \in 0 .. c.bins - 1
    <3>1. held[i] \in Pointer
      BY <1>6
    <3>2. PICK ts \in Int : ts = held[i].sample.ts
      BY <3>1 DEF Pointer, SampleType
    <3>3. c.from <= ts /\ ts < c.to
      BY <1>6, <3>2
    <3> QED
      BY <1>6, <2>1, <2>2, <3>2, <3>3, BinOfInterval
  <2>4. old \in ResultType(c.bins)
    BY <1>5, <1>8 DEF Binning
  <2>5. add_data(c, old, held) \in ResultType(c.bins)
    BY <1>6, <2>1, <2>3, <2>4, AddDataBins
  <2>6. result \in ResultType(c.bins)
    BY <1>2, <1>4, <1>8, <2>5
  <2>7. Binning(c, q.todo, "next", result, <<>>)
    BY <1>5, <1>8, <2>6 DEF Binning
  <2> QED
    BY <1>3, <1>4, <2>7, BinAgain
<1> QED
  BY <1>7, <1>8

LEMMA BinStep ==
  ASSUME EvenBins, Stored, BinInv, [DataNext]_dvars
  PROVE  BinInv'
<1>1. ASSUME UNCHANGED query PROVE BinInv'
  BY <1>1 DEF BinInv
<1>2. ASSUME NEW freed, query' = IF query.at # "selected" THEN query
                                 ELSE [query EXCEPT !.freed = freed]
      PROVE  BinInv'
  BY <1>1, <1>2, DanglingBin
<1>3. ASSUME NEW l \in Lists, NEW ts \in 1 .. MaxTime, NEW value \in Reports(l),
             Receive(l, ts, value)
      PROVE  BinInv'
  BY <1>1, <1>2, <1>3 DEF Receive, insert, Dangling
<1>4. ASSUME NEW e \in Entities \ Locators, Discover(e) PROVE BinInv'
  BY <1>1, <1>4 DEF Discover
<1>5. ASSUME NEW e \in Entities \ Locators, Erase(e) PROVE BinInv'
  BY <1>2, <1>5 DEF Erase, AllDangling
<1>6. ASSUME NEW t_to, clear_nts(t_to) PROVE BinInv'
  BY <1>2, <1>6 DEF clear_nts, AllDangling
<1>7. ASSUME NEW t_to \in 2 .. MaxTime + 1, clear_statistics_data(t_to) PROVE BinInv'
  BY <1>6, <1>7 DEF clear_statistics_data
<1>8. ASSUME NEW clear \in BOOLEAN, dump_database(clear) PROVE BinInv'
  BY <1>1, <1>6, <1>8 DEF dump_database
<1>9. ASSUME NEW l \in Lists, LoadSample(l) PROVE BinInv'
  BY <1>1, <1>9 DEF LoadSample
<1>10. CASE Restart \/ LoadBegin \/ LoadEnd
  BY <1>1, <1>10 DEF Restart, LoadBegin, LoadEnd
<1>11. ASSUME NEW q \in Queries, get_data(q) PROVE BinInv'
  BY <1>11, CallBin
<1>12. CASE Select
  BY <1>12, SelectBin
<1>13. CASE AddData
  BY <1>13, AddDataBin
<1>14. CASE Return
  BY <1>14 DEF Return, Idle, BinInv
<1>15. CASE UNCHANGED dvars
  BY <1>1, <1>15 DEF dvars
<1> QED
  BY <1>3, <1>4, <1>5, <1>7, <1>8, <1>9, <1>10, <1>11, <1>12, <1>13, <1>14, <1>15 DEF DataNext

(* The assertion in add_data() holds when the interval of each call is a    *)
(* multiple of its number of bins: prepare_bins() rounds the duration of a  *)
(* bin down, and otherwise the last instants of the interval have no bin.   *)
THEOREM AssertionHolds ==
  ASSUME EvenBins
  PROVE  DataSpec => []EverySampleHasABin
<1>1. DataInit => BinInv
  BY DEF DataInit, BinInv, Idle
<1>2. Stored /\ BinInv /\ [DataNext]_dvars => BinInv'
  BY BinStep
<1>3. BinInv => EverySampleHasABin
  <2> SUFFICES ASSUME BinInv, query.at # "idle" PROVE query.result.outside = {}
    BY DEF EverySampleHasABin
  <2>1. PICK q : q = query /\ Binning(q.call, q.todo, q.at, q.result, q.held)
    BY BinFacts
  <2>2. q.result.outside = {}
    BY <2>1 DEF Binning, ResultType
  <2> QED
    BY <2>1, <2>2
<1> QED
  BY <1>1, <1>2, <1>3, SamplesStored, PTL DEF DataSpec
=============================================================================
