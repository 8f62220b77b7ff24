--------------------------- MODULE MonitorsProofs ---------------------------
(***************************************************************************)
(* Proofs about Monitors, for any number of threads, domains and topics.   *)
(* What a call still has to create or to delete is a sequence in which     *)
(* every object comes after those it needs; the orders of the code are     *)
(* shown to be such sequences, and every step keeps what is left one.      *)
(***************************************************************************)
EXTENDS Monitors, SequenceTheorems, FiniteSetTheorems, TLAPS

----------------------------------------------------------------------------
(* The objects a domain can have. *)

Singles(d) ==
  {Object(kind, d) : kind \in {"spy_participant", "participant_listener", "reader_listener",
                               "participant", "subscriber", "spy_subscriber"}}
AllTopics(kind, d) == {TopicObject(kind, d, t) : t \in Topics}
Created(d) == Singles(d) \cup AllTopics("topic", d) \cup AllTopics("reader", d)
Spied(d) == AllSpies("spy_topic", d) \cup AllSpies("spy_reader", d) \cup AllSpies("spy_listener", d)
Of(d) == Created(d) \cup Spied(d)
Universe == UNION {Of(d) : d \in Domains}

(* What must exist when an object is created, and what must not when it is  *)
(* deleted: its dependents, and the entities that call it.                  *)
Needs == [o \in Universe |-> Calls(o)]
Before == [o \in Universe |-> {x \in Universe : x \in Dependents(o) \/ o \in Calls(x)}]

(* With the objects of D done, every one in s comes after what N wants.     *)
Ordered(s, N, D) ==
  \A i \in 1 .. Len(s) : N[s[i]] \subseteq D \cup {s[j] : j \in 1 .. i - 1}

----------------------------------------------------------------------------
(* Sequences. *)

LEMMA RangeSetToSeq ==
  ASSUME NEW S, IsFiniteSet(S)
  PROVE  SetToSeq(S) \in Seq(S) /\ Range(SetToSeq(S)) = S
<1>. DEFINE D == 1 .. Cardinality(S)
            f == SetToSeq(S)
<1>1. Cardinality(S) \in Nat /\ ExistsBijection(D, S)
  BY FS_CardinalityType
<1>2. PICK b \in Bijection(D, S) : TRUE
  BY <1>1 DEF ExistsBijection
<1>3. b \in [D -> S] /\ IsInjective(b)
  BY <1>2 DEF Bijection, Injection
<1>4. f \in [D -> S] /\ IsInjective(f)
  <2>. DEFINE P(g) == IsInjective(g)
  <2>1. \E g \in [D -> S] : P(g)
    BY <1>3
  <2>2. f = CHOOSE g \in [D -> S] : P(g)
    BY DEF SetToSeq
  <2>. HIDE DEF P, f
  <2>3. f \in [D -> S] /\ P(f)
    BY <2>1, <2>2
  <2>. QED BY <2>3 DEF P
<1>. HIDE DEF f
<1>5. f \in Injection(D, S)
  BY <1>4 DEF Injection
<1>6. Cardinality(D) = Cardinality(S)
  BY <1>1, FS_Interval
<1>7. f \in Surjection(D, S)
  BY <1>5, <1>6, FS_Injection
<1>8. f \in Seq(S)
  BY <1>1, <1>4, IsASeq
<1>9. Range(f) = S
  BY <1>7, <1>4 DEF Surjection, Range
<1>. QED BY <1>8, <1>9 DEF f

(* A part all of whose needs are done. *)
LEMMA OrderedPart ==
  ASSUME NEW U, NEW s \in Seq(U), NEW N, NEW D, \A x \in Range(s) : N[x] \subseteq D
  PROVE  Ordered(s, N, D)
BY RangeEquality DEF Ordered

LEMMA OrderedMore ==
  ASSUME NEW U, NEW s \in Seq(U), NEW N, NEW D, NEW E, D \subseteq E, Ordered(s, N, D)
  PROVE  Ordered(s, N, E)
BY DEF Ordered

LEMMA OrderedConcat ==
  ASSUME NEW U, NEW s \in Seq(U), NEW t \in Seq(U), NEW N, NEW D,
         Ordered(s, N, D), Ordered(t, N, D \cup Range(s))
  PROVE  Ordered(s \o t, N, D)
<1>. DEFINE c == s \o t
<1>1. /\ c \in Seq(U) /\ Len(c) = Len(s) + Len(t)
      /\ \A i \in 1 .. Len(c) : c[i] = IF i <= Len(s) THEN s[i] ELSE t[i - Len(s)]
  BY ConcatProperties
<1>2. Len(s) \in Nat /\ Len(t) \in Nat /\ Range(s) = {s[i] : i \in 1 .. Len(s)}
  BY LenProperties, RangeEquality
<1>. HIDE DEF c
<1>. SUFFICES ASSUME NEW i \in 1 .. Len(c), NEW x \in N[c[i]], x \notin D
              PROVE  \E j \in 1 .. i - 1 : x = c[j]
  BY DEF Ordered, c
<1>3. CASE i <= Len(s)
  <2>1. i \in 1 .. Len(s) /\ c[i] = s[i]
    BY <1>1, <1>2, <1>3
  <2>2. PICK j \in 1 .. i - 1 : x = s[j]
    BY <2>1 DEF Ordered
  <2>3. j \in 1 .. Len(c) /\ j <= Len(s)
    BY <2>1, <2>2, <1>1, <1>2
  <2>. QED BY <2>2, <2>3, <1>1
<1>4. CASE i > Len(s)
  <2>1. i - Len(s) \in 1 .. Len(t) /\ c[i] = t[i - Len(s)]
    BY <1>1, <1>2, <1>4
  <2>2. CASE x \in Range(s)
    <3>1. PICK j \in 1 .. Len(s) : x = s[j]
      BY <2>2, <1>2
    <3>2. j \in 1 .. Len(c) /\ j <= Len(s) /\ j \in 1 .. i - 1
      BY <3>1, <1>1, <1>2, <1>4
    <3>. QED BY <3>1, <3>2, <1>1
  <2>3. CASE x \notin Range(s)
    <3>1. PICK j \in 1 .. i - Len(s) - 1 : x = t[j]
      BY <2>1, <2>3 DEF Ordered
    <3>2. j + Len(s) \in 1 .. Len(c) /\ j + Len(s) > Len(s) /\ j + Len(s) \in 1 .. i - 1
          /\ j + Len(s) - Len(s) = j
      BY <3>1, <1>1, <1>2, <2>1
    <3>3. c[j + Len(s)] = t[j]
      BY <3>2, <1>1, <1>2
    <3>. QED BY <3>1, <3>2, <3>3
  <2>. QED BY <2>2, <2>3
<1>. QED BY <1>1, <1>2, <1>3, <1>4

(* The next one has what it needs, and the others still come in order. *)
LEMMA OrderedTail ==
  ASSUME NEW U, NEW s \in Seq(U), s # <<>>, NEW N, NEW D, Ordered(s, N, D)
  PROVE  /\ N[Head(s)] \subseteq D
         /\ Ordered(Tail(s), N, D \cup {Head(s)})
         /\ Range(s) = {Head(s)} \cup Range(Tail(s))
<1>1. /\ Tail(s) \in Seq(U) /\ Len(Tail(s)) = Len(s) - 1
      /\ \A i \in 1 .. Len(Tail(s)) : Tail(s)[i] = s[i + 1]
  BY HeadTailProperties
<1>2. Len(s) \in Nat /\ Len(s) >= 1 /\ Head(s) = s[1]
  BY EmptySeq, LenProperties
<1>3. N[Head(s)] \subseteq D
  BY <1>2 DEF Ordered
<1>4. Ordered(Tail(s), N, D \cup {Head(s)})
  <2>. SUFFICES ASSUME NEW i \in 1 .. Len(Tail(s)), NEW x \in N[Tail(s)[i]],
                       x \notin D \cup {Head(s)}
                PROVE  \E j \in 1 .. i - 1 : x = Tail(s)[j]
    BY DEF Ordered
  <2>1. Tail(s)[i] = s[i + 1] /\ i + 1 \in 1 .. Len(s)
    BY <1>1, <1>2
  <2>2. PICK j \in 1 .. (i + 1) - 1 : x = s[j]
    BY <2>1 DEF Ordered
  <2>3. j # 1
    BY <2>2, <1>2
  <2>4. j - 1 \in 1 .. i - 1 /\ j - 1 \in 1 .. Len(Tail(s)) /\ j - 1 + 1 = j
    BY <2>2, <2>3
  <2>. QED BY <2>2, <2>4, <1>1
<1>5. Range(s) = {Head(s)} \cup Range(Tail(s))
  <2>1. Range(s) = {s[i] : i \in 1 .. Len(s)} /\ Range(Tail(s)) = {Tail(s)[i] : i \in 1 .. Len(Tail(s))}
    BY <1>1, RangeEquality
  <2>2. ASSUME NEW i \in 1 .. Len(s) PROVE s[i] \in {Head(s)} \cup Range(Tail(s))
    <3>1. CASE i = 1
      BY <3>1, <1>2
    <3>2. CASE i # 1
      <4>1. i - 1 \in 1 .. Len(Tail(s)) /\ i - 1 + 1 = i
        BY <3>2, <1>1, <1>2
      <4>. QED BY <4>1, <1>1, <2>1
    <3>. QED BY <3>1, <3>2
  <2>3. ASSUME NEW i \in 1 .. Len(Tail(s)) PROVE Tail(s)[i] \in Range(s)
    BY <2>1, <1>1, <1>2
  <2>4. Head(s) \in Range(s)
    BY <2>1, <1>2
  <2>. QED BY <2>1, <2>2, <2>3, <2>4
<1>. QED BY <1>3, <1>4, <1>5

----------------------------------------------------------------------------
(* The orders of the code. *)

LEMMA TopicSequence ==
  TopicOrder \in Seq(Topics) /\ Range(TopicOrder) = Topics
BY RangeSetToSeq, MonitorsAssumption DEF TopicOrder

LEMMA EachSequence ==
  ASSUME NEW kind, NEW d
  PROVE  /\ Each(kind, d) \in Seq(AllTopics(kind, d))
         /\ Range(Each(kind, d)) = AllTopics(kind, d)
<1>1. Len(TopicOrder) \in Nat /\ TopicOrder \in [1 .. Len(TopicOrder) -> Topics]
  BY TopicSequence, LenProperties
<1>2. Topics = {TopicOrder[i] : i \in 1 .. Len(TopicOrder)}
  BY TopicSequence, RangeEquality
<1>3. Each(kind, d) \in [1 .. Len(TopicOrder) -> AllTopics(kind, d)]
  BY <1>1 DEF Each, AllTopics
<1>4. Each(kind, d) \in Seq(AllTopics(kind, d))
  BY <1>1, <1>3, IsASeq
<1>5. Range(Each(kind, d)) = AllTopics(kind, d)
  BY <1>1, <1>2 DEF Range, Each, AllTopics
<1>. QED BY <1>4, <1>5

LEMMA SpySequence ==
  ASSUME NEW kind, NEW d
  PROVE  /\ SetToSeq(AllSpies(kind, d)) \in Seq(AllSpies(kind, d))
         /\ Range(SetToSeq(AllSpies(kind, d))) = AllSpies(kind, d)
<1>1. IsFiniteSet(AllSpies(kind, d))
  <2>. DEFINE f == [u \in SpyTopics |-> TopicObject(kind, d, u)]
  <2>1. f \in Surjection(SpyTopics, AllSpies(kind, d))
    BY DEF Surjection, AllSpies
  <2>. QED BY <2>1, MonitorsAssumption, FS_Surjection
<1>. QED BY <1>1, RangeSetToSeq

LEMMA TopicsAndReadersSequence ==
  ASSUME NEW d
  PROVE  /\ TopicsAndReaders(d) \in Seq(AllTopics("topic", d) \cup AllTopics("reader", d))
         /\ Range(TopicsAndReaders(d)) = AllTopics("topic", d) \cup AllTopics("reader", d)
<1>. DEFINE n == Len(TopicOrder)
            s == TopicsAndReaders(d)
            A == AllTopics("topic", d) \cup AllTopics("reader", d)
<1>1. n \in Nat /\ TopicOrder \in [1 .. n -> Topics]
  BY TopicSequence, LenProperties
<1>2. Topics = {TopicOrder[i] : i \in 1 .. n}
  BY TopicSequence, RangeEquality
<1>. HIDE DEF n
<1>3. ASSUME NEW i \in 1 .. 2 * n PROVE (i + 1) \div 2 \in 1 .. n
  BY <1>1
<1>4. ASSUME NEW i \in 1 .. n
      PROVE  /\ 2 * i - 1 \in 1 .. 2 * n /\ (2 * i - 1) % 2 = 1 /\ (2 * i - 1 + 1) \div 2 = i
             /\ 2 * i \in 1 .. 2 * n /\ (2 * i) % 2 # 1 /\ (2 * i + 1) \div 2 = i
  BY <1>1
<1>5. s = [i \in 1 .. 2 * n |->
             TopicObject(IF i % 2 = 1 THEN "topic" ELSE "reader", d, TopicOrder[(i + 1) \div 2])]
  BY DEF TopicsAndReaders, n
<1>. HIDE DEF s
<1>6. s \in [1 .. 2 * n -> A]
  <2>. SUFFICES ASSUME NEW i \in 1 .. 2 * n PROVE s[i] \in A
    BY <1>5
  <2>1. TopicOrder[(i + 1) \div 2] \in Topics
    BY <1>1, <1>3
  <2>. QED BY <2>1, <1>5 DEF AllTopics
<1>7. s \in Seq(A)
  BY <1>1, <1>6, IsASeq
<1>8. ASSUME NEW x \in A PROVE x \in Range(s)
  <2>1. PICK i \in 1 .. n : \/ x = TopicObject("topic", d, TopicOrder[i])
                            \/ x = TopicObject("reader", d, TopicOrder[i])
    BY <1>2 DEF AllTopics
  <2>2. s[2 * i - 1] = TopicObject("topic", d, TopicOrder[i]) /\ 2 * i - 1 \in DOMAIN s
    BY <1>4, <1>5
  <2>3. s[2 * i] = TopicObject("reader", d, TopicOrder[i]) /\ 2 * i \in DOMAIN s
    BY <1>4, <1>5
  <2>. QED BY <2>1, <2>2, <2>3 DEF Range
<1>. QED BY <1>6, <1>7, <1>8 DEF s, Range

LEMMA InLargerSet ==
  ASSUME NEW S, NEW T, S \subseteq T, NEW s \in Seq(S)
  PROVE  s \in Seq(T)
BY SeqMonotonic

(* Every entity is created after the listener it calls. *)
LEMMA CreationOrdered ==
  ASSUME NEW d \in Domains
  PROVE  /\ CreationOrder(d) \in Seq(Of(d))
         /\ Range(CreationOrder(d)) = Created(d)
         /\ Ordered(CreationOrder(d), Needs, {})
<1>. DEFINE s == <<Object("spy_participant", d), Object("participant_listener", d),
                   Object("reader_listener", d), Object("participant", d),
                   Object("subscriber", d), Object("spy_subscriber", d)>>
            t == TopicsAndReaders(d)
<1>1. s \in Seq(Of(d)) /\ Len(s) = 6
  BY DEF Of, Created, Singles
<1>2. Range(s) = Singles(d)
  BY <1>1, RangeEquality DEF Singles, Range
<1>3. t \in Seq(Of(d)) /\ Range(t) = AllTopics("topic", d) \cup AllTopics("reader", d)
  <2>1. AllTopics("topic", d) \cup AllTopics("reader", d) \subseteq Of(d)
    BY DEF Of, Created
  <2>. QED BY <2>1, TopicsAndReadersSequence, InLargerSet
<1>4. Of(d) \subseteq Universe
  BY DEF Universe
<1>5. Ordered(s, Needs, {})
  <2>1. /\ Needs[s[1]] = {} /\ Needs[s[2]] = {} /\ Needs[s[3]] = {}
        /\ Needs[s[4]] = {s[2]} /\ Needs[s[5]] = {} /\ Needs[s[6]] = {}
    BY <1>4 DEF Needs, Calls, Object, Of, Created, Singles
  <2>. QED BY <1>1, <2>1 DEF Ordered
<1>6. Ordered(t, Needs, {} \cup Range(s))
  <2>1. \A x \in Range(t) : Needs[x] \subseteq {Object("reader_listener", d)}
    BY <1>3, <1>4 DEF Needs, Calls, TopicObject, Of, Created, AllTopics
  <2>2. Object("reader_listener", d) \in Range(s)
    BY <1>2 DEF Singles
  <2>. QED BY <2>1, <2>2, <1>3, OrderedPart
<1>. HIDE DEF s, t
<1>7. Ordered(s \o t, Needs, {}) /\ s \o t \in Seq(Of(d)) /\ Range(s \o t) = Range(s) \cup Range(t)
  BY <1>1, <1>3, <1>5, <1>6, OrderedConcat, ConcatProperties, RangeConcatenation
<1>. QED BY <1>2, <1>3, <1>7 DEF s, t, CreationOrder, Created

(* What must be gone before each kind of object is. *)
LEMMA BeforeOf ==
  ASSUME NEW d \in Domains
  PROVE  /\ \A x \in Of(d) : x[1] \in {"reader", "spy_reader"} => Before[x] = {}
         /\ Before[Object("subscriber", d)] \subseteq AllTopics("reader", d)
         /\ \A x \in AllTopics("topic", d) : Before[x] \subseteq AllTopics("reader", d)
         /\ Before[Object("participant", d)] \subseteq {Object("subscriber", d)} \cup AllTopics("topic", d)
         /\ Before[Object("reader_listener", d)] \subseteq AllTopics("reader", d)
         /\ Before[Object("participant_listener", d)] \subseteq {Object("participant", d)}
         /\ Before[Object("spy_subscriber", d)] \subseteq AllSpies("spy_reader", d)
         /\ \A u \in SpyTopics :
              /\ Before[TopicObject("spy_topic", d, u)] \subseteq {TopicObject("spy_reader", d, u)}
              /\ Before[TopicObject("spy_listener", d, u)] \subseteq {TopicObject("spy_reader", d, u)}
         /\ Before[Object("spy_participant", d)]
              \subseteq {Object("spy_subscriber", d)} \cup AllSpies("spy_topic", d)
<1>1. Of(d) \subseteq Universe
  BY DEF Universe
<1>2. ASSUME NEW o \in Of(d), NEW x \in Before[o]
      PROVE  x \in Universe /\ (x \in Dependents(o) \/ o \in Calls(x))
  BY <1>1 DEF Before
<1>3. /\ Singles(d) \subseteq Of(d) /\ AllTopics("topic", d) \subseteq Of(d)
      /\ \A u \in SpyTopics : TopicObject("spy_topic", d, u) \in Of(d) /\ TopicObject("spy_listener", d, u) \in Of(d)
  BY DEF Of, Created, Spied, AllSpies
<1>4. ASSUME NEW x \in Universe
      PROVE  /\ x[1] = "participant" => x = Object("participant", x[2])
             /\ x[1] = "reader" => \E t \in Topics : x = TopicObject("reader", x[2], t)
             /\ x[1] = "spy_reader" => \E u \in SpyTopics : x = TopicObject("spy_reader", x[2], u)
  BY DEF Universe, Of, Created, Singles, Spied, AllTopics, AllSpies, Object, TopicObject
<1>5. ASSUME NEW o, NEW x \in Universe, o \in Calls(x)
      PROVE  \/ x[1] = "participant" /\ o = Object("participant_listener", x[2])
             \/ x[1] = "reader" /\ o = Object("reader_listener", x[2])
             \/ x[1] = "spy_reader" /\ o = TopicObject("spy_listener", x[2], x[3])
  BY <1>5 DEF Calls
<1>6. \A x \in Of(d) : x[1] \in {"reader", "spy_reader"} => Before[x] = {}
  BY <1>2, <1>5 DEF Dependents, Object, TopicObject
<1>7. Before[Object("subscriber", d)] \subseteq AllTopics("reader", d)
  <2>1. Object("subscriber", d) \in Of(d)
    BY <1>3 DEF Singles
  <2>. QED BY <2>1, <1>2, <1>5, EachSequence DEF Dependents, Object, TopicObject
<1>8. \A x \in AllTopics("topic", d) : Before[x] \subseteq AllTopics("reader", d)
  BY <1>2, <1>3, <1>5 DEF Dependents, Object, TopicObject, AllTopics
<1>9. Before[Object("participant", d)] \subseteq {Object("subscriber", d)} \cup AllTopics("topic", d)
  <2>1. Object("participant", d) \in Of(d)
    BY <1>3 DEF Singles
  <2>. QED BY <2>1, <1>2, <1>5, EachSequence DEF Dependents, Object, TopicObject
<1>10. Before[Object("reader_listener", d)] \subseteq AllTopics("reader", d)
  <2>1. Object("reader_listener", d) \in Of(d)
    BY <1>3 DEF Singles
  <2>. QED BY <2>1, <1>2, <1>4, <1>5 DEF Dependents, Object, TopicObject, AllTopics
<1>11. Before[Object("participant_listener", d)] \subseteq {Object("participant", d)}
  <2>1. Object("participant_listener", d) \in Of(d)
    BY <1>3 DEF Singles
  <2>. QED BY <2>1, <1>2, <1>4, <1>5 DEF Dependents, Object, TopicObject
<1>12. Before[Object("spy_subscriber", d)] \subseteq AllSpies("spy_reader", d)
  <2>1. Object("spy_subscriber", d) \in Of(d)
    BY <1>3 DEF Singles
  <2>. QED BY <2>1, <1>2, <1>5 DEF Dependents, Object, TopicObject
<1>13. ASSUME NEW u \in SpyTopics
       PROVE  /\ Before[TopicObject("spy_topic", d, u)] \subseteq {TopicObject("spy_reader", d, u)}
              /\ Before[TopicObject("spy_listener", d, u)] \subseteq {TopicObject("spy_reader", d, u)}
  <2>1. Before[TopicObject("spy_topic", d, u)] \subseteq {TopicObject("spy_reader", d, u)}
    BY <1>2, <1>3, <1>5 DEF Dependents, Object, TopicObject
  <2>2. ASSUME NEW x \in Before[TopicObject("spy_listener", d, u)] PROVE x = TopicObject("spy_reader", d, u)
    <3>1. x \in Universe /\ TopicObject("spy_listener", d, u) \in Calls(x)
      BY <1>2, <1>3 DEF Dependents, Object, TopicObject
    <3>2. x[1] = "spy_reader" /\ x[2] = d /\ x[3] = u
      BY <3>1, <1>5 DEF Object, TopicObject
    <3>. QED BY <3>1, <3>2, <1>4 DEF TopicObject
  <2>. QED BY <2>1, <2>2
<1>14. Before[Object("spy_participant", d)] \subseteq {Object("spy_subscriber", d)} \cup AllSpies("spy_topic", d)
  <2>1. Object("spy_participant", d) \in Of(d)
    BY <1>3 DEF Singles
  <2>. QED BY <2>1, <1>2, <1>5 DEF Dependents, Object, TopicObject
<1>. QED BY <1>6, <1>7, <1>8, <1>9, <1>10, <1>11, <1>12, <1>13, <1>14

(* s deletes the objects in A, of domain d, when those in D are gone. *)
Deletes(s, d, D, A) ==
  s \in Seq(Of(d)) /\ Range(s) = A /\ Ordered(s, Before, D)

LEMMA DeletesNext ==
  ASSUME NEW d, NEW s, NEW t, NEW D, NEW A, NEW B,
         Deletes(s, d, D, A), Deletes(t, d, D \cup A, B)
  PROVE  Deletes(s \o t, d, D, A \cup B)
BY OrderedConcat, ConcatProperties, RangeConcatenation DEF Deletes

LEMMA DeletesOne ==
  ASSUME NEW d, NEW o \in Of(d), NEW D, Before[o] \subseteq D
  PROVE  Deletes(<<o>>, d, D, {o})
<1>1. <<o>> \in Seq(Of(d)) /\ Range(<<o>>) = {o}
  BY DEF Range
<1>. QED BY <1>1, OrderedPart DEF Deletes

LEMMA DeletesAll ==
  ASSUME NEW d, NEW A, A \subseteq Of(d), NEW s \in Seq(A), Range(s) = A,
         NEW D, \A o \in A : Before[o] \subseteq D
  PROVE  Deletes(s, d, D, A)
BY OrderedPart, InLargerSet DEF Deletes

(* stop_monitor() deletes all a domain can have. *)
LEMMA StopOrdered ==
  ASSUME NEW d \in Domains
  PROVE  Deletes(StopOrder(d), d, {}, Of(d))
<1>. DEFINE s1 == Each("reader", d)
            A1 == AllTopics("reader", d)
            s2 == s1 \o <<Object("subscriber", d)>>
            A2 == A1 \cup {Object("subscriber", d)}
            s3 == s2 \o Each("topic", d)
            A3 == A2 \cup AllTopics("topic", d)
            s4 == s3 \o <<Object("participant", d)>>
            A4 == A3 \cup {Object("participant", d)}
            s5 == s4 \o SetToSeq(AllSpies("spy_reader", d))
            A5 == A4 \cup AllSpies("spy_reader", d)
            s6 == s5 \o <<Object("spy_subscriber", d)>>
            A6 == A5 \cup {Object("spy_subscriber", d)}
            s7 == s6 \o SetToSeq(AllSpies("spy_topic", d))
            A7 == A6 \cup AllSpies("spy_topic", d)
            two == <<Object("spy_participant", d), Object("reader_listener", d)>>
            s8 == s7 \o two
            A8 == A7 \cup {Object("spy_participant", d), Object("reader_listener", d)}
            s9 == s8 \o SetToSeq(AllSpies("spy_listener", d))
            A9 == A8 \cup AllSpies("spy_listener", d)
            s10 == s9 \o <<Object("participant_listener", d)>>
            A10 == A9 \cup {Object("participant_listener", d)}
<1>0. /\ Singles(d) \subseteq Of(d) /\ AllTopics("topic", d) \subseteq Of(d)
      /\ AllTopics("reader", d) \subseteq Of(d) /\ AllSpies("spy_topic", d) \subseteq Of(d)
      /\ AllSpies("spy_reader", d) \subseteq Of(d) /\ AllSpies("spy_listener", d) \subseteq Of(d)
  BY DEF Of, Created, Spied
<1>1. Deletes(s1, d, {}, A1)
  <2>1. \A o \in A1 : Before[o] \subseteq {}
    BY <1>0, BeforeOf DEF AllTopics, TopicObject
  <2>. QED BY <2>1, <1>0, EachSequence, DeletesAll
<1>2. Deletes(s2, d, {}, A2)
  <2>1. Deletes(<<Object("subscriber", d)>>, d, {} \cup A1, {Object("subscriber", d)})
    BY <1>0, BeforeOf, DeletesOne DEF Singles
  <2>. QED BY <1>1, <2>1, DeletesNext
<1>3. Deletes(s3, d, {}, A3)
  <2>1. Deletes(Each("topic", d), d, {} \cup A2, AllTopics("topic", d))
    <3>1. \A o \in AllTopics("topic", d) : Before[o] \subseteq {} \cup A2
      BY BeforeOf
    <3>. QED BY <3>1, <1>0, EachSequence, DeletesAll
  <2>. QED BY <1>2, <2>1, DeletesNext
<1>4. Deletes(s4, d, {}, A4)
  <2>1. Deletes(<<Object("participant", d)>>, d, {} \cup A3, {Object("participant", d)})
    <3>1. Before[Object("participant", d)] \subseteq {} \cup A3
      BY BeforeOf
    <3>. QED BY <3>1, <1>0, DeletesOne DEF Singles
  <2>. QED BY <1>3, <2>1, DeletesNext
<1>5. Deletes(s5, d, {}, A5)
  <2>1. Deletes(SetToSeq(AllSpies("spy_reader", d)), d, {} \cup A4, AllSpies("spy_reader", d))
    <3>1. \A o \in AllSpies("spy_reader", d) : Before[o] \subseteq {} \cup A4
      BY <1>0, BeforeOf DEF AllSpies, TopicObject
    <3>. QED BY <3>1, <1>0, SpySequence, DeletesAll
  <2>. QED BY <1>4, <2>1, DeletesNext
<1>6. Deletes(s6, d, {}, A6)
  <2>1. Deletes(<<Object("spy_subscriber", d)>>, d, {} \cup A5, {Object("spy_subscriber", d)})
    <3>1. Before[Object("spy_subscriber", d)] \subseteq {} \cup A5
      BY BeforeOf
    <3>. QED BY <3>1, <1>0, DeletesOne DEF Singles
  <2>. QED BY <1>5, <2>1, DeletesNext
<1>7. Deletes(s7, d, {}, A7)
  <2>1. Deletes(SetToSeq(AllSpies("spy_topic", d)), d, {} \cup A6, AllSpies("spy_topic", d))
    <3>1. \A o \in AllSpies("spy_topic", d) : Before[o] \subseteq {} \cup A6
      BY BeforeOf DEF AllSpies
    <3>. QED BY <3>1, <1>0, SpySequence, DeletesAll
  <2>. QED BY <1>6, <2>1, DeletesNext
<1>8. Deletes(s8, d, {}, A8)
  <2>1. Before[Object("spy_participant", d)] \subseteq A7 /\ Before[Object("reader_listener", d)] \subseteq A7
    BY BeforeOf
  <2>2. two \in Seq(Of(d)) /\ Range(two) = {Object("spy_participant", d), Object("reader_listener", d)}
    BY <1>0 DEF Singles, Range
  <2>3. Deletes(two, d, {} \cup A7, {Object("spy_participant", d), Object("reader_listener", d)})
    <3>. HIDE DEF A7, two
    <3>. QED BY <2>1, <2>2, OrderedPart DEF Deletes
  <2>. QED BY <1>7, <2>3, DeletesNext
<1>9. Deletes(s9, d, {}, A9)
  <2>1. Deletes(SetToSeq(AllSpies("spy_listener", d)), d, {} \cup A8, AllSpies("spy_listener", d))
    <3>1. \A o \in AllSpies("spy_listener", d) : Before[o] \subseteq {} \cup A8
      BY BeforeOf DEF AllSpies
    <3>. QED BY <3>1, <1>0, SpySequence, DeletesAll
  <2>. QED BY <1>8, <2>1, DeletesNext
<1>10. Deletes(s10, d, {}, A10)
  <2>1. Deletes(<<Object("participant_listener", d)>>, d, {} \cup A9, {Object("participant_listener", d)})
    <3>1. Before[Object("participant_listener", d)] \subseteq {} \cup A9
      BY BeforeOf
    <3>. QED BY <3>1, <1>0, DeletesOne DEF Singles
  <2>. QED BY <1>9, <2>1, DeletesNext
<1>11. A10 = Of(d)
  BY DEF Of, Created, Spied, Singles
<1>. QED BY <1>10, <1>11 DEF StopOrder

(* The scope exits delete all that init_monitor() creates. *)
LEMMA RollbackOrdered ==
  ASSUME NEW d \in Domains
  PROVE  Deletes(RollbackOrder(d), d, Spied(d), Created(d))
<1>. DEFINE s1 == <<Object("spy_subscriber", d)>>
            A1 == {Object("spy_subscriber", d)}
            s2 == s1 \o Each("reader", d)
            A2 == A1 \cup AllTopics("reader", d)
            s3 == s2 \o Each("topic", d)
            A3 == A2 \cup AllTopics("topic", d)
            five == <<Object("subscriber", d), Object("participant", d), Object("reader_listener", d),
                      Object("participant_listener", d), Object("spy_participant", d)>>
            F == {Object("subscriber", d), Object("participant", d), Object("reader_listener", d),
                  Object("participant_listener", d), Object("spy_participant", d)}
            D == Spied(d) \cup A3
<1>0. /\ Singles(d) \subseteq Of(d) /\ AllTopics("topic", d) \subseteq Of(d)
      /\ AllTopics("reader", d) \subseteq Of(d)
      /\ AllSpies("spy_reader", d) \subseteq Spied(d) /\ AllSpies("spy_topic", d) \subseteq Spied(d)
  BY DEF Of, Created, Spied
<1>1. Deletes(s1, d, Spied(d), A1)
  <2>1. Before[Object("spy_subscriber", d)] \subseteq Spied(d)
    BY <1>0, BeforeOf
  <2>. QED BY <2>1, <1>0, DeletesOne DEF Singles
<1>2. Deletes(s2, d, Spied(d), A2)
  <2>1. Deletes(Each("reader", d), d, Spied(d) \cup A1, AllTopics("reader", d))
    <3>1. \A o \in AllTopics("reader", d) : Before[o] \subseteq Spied(d) \cup A1
      BY <1>0, BeforeOf DEF AllTopics, TopicObject
    <3>. QED BY <3>1, <1>0, EachSequence, DeletesAll
  <2>. QED BY <1>1, <2>1, DeletesNext
<1>3. Deletes(s3, d, Spied(d), A3)
  <2>1. Deletes(Each("topic", d), d, Spied(d) \cup A2, AllTopics("topic", d))
    <3>1. \A o \in AllTopics("topic", d) : Before[o] \subseteq Spied(d) \cup A2
      BY BeforeOf
    <3>. QED BY <3>1, <1>0, EachSequence, DeletesAll
  <2>. QED BY <1>2, <2>1, DeletesNext
<1>4. Deletes(five, d, D, F)
  <2>1. five \in Seq(Of(d)) /\ Len(five) = 5
    BY <1>0 DEF Singles
  <2>2. Range(five) = F
    BY DEF Range
  <2>3. /\ Before[five[1]] \subseteq D
        /\ Before[five[2]] \subseteq D \cup {five[1]}
        /\ Before[five[3]] \subseteq D
        /\ Before[five[4]] \subseteq D \cup {five[2]}
        /\ Before[five[5]] \subseteq D
    BY <1>0, BeforeOf
  <2>4. Ordered(five, Before, D)
    <3>. HIDE DEF D, five
    <3>. QED BY <2>1, <2>3 DEF Ordered
  <2>. QED BY <2>1, <2>2, <2>4 DEF Deletes
<1>5. Deletes(s3 \o five, d, Spied(d), A3 \cup F)
  BY <1>3, <1>4, DeletesNext
<1>6. A3 \cup F = Created(d)
  BY DEF Created, Singles
<1>. QED BY <1>5, <1>6 DEF RollbackOrder

----------------------------------------------------------------------------
(* The inductive invariant. *)

Ats == {"lock", "wait", "own", "body", "create", "delete", "unlock", "release", "disown"}
SpyOps == {"start_topic_spy", "stop_topic_spy"}
Ops == {"init_monitor", "stop_monitor"} \cup SpyOps

CallRecord ==
  [at : Ats, op : Ops, d : Domains, u : SpyTopics \cup {NoTopic}, todo : Seq(Universe)]

CallType ==
  /\ call \in [Threads -> {NoCall} \cup CallRecord]
  /\ \A th \in Threads : call[th] # NoCall /\ call[th].op \in SpyOps => call[th].u \in SpyTopics

StateType ==
  /\ monitors \subseteq domains /\ domains \subseteq Domains
  /\ objects \subseteq Universe /\ forgotten \subseteq Universe
  /\ owns \in BOOLEAN /\ device \in Threads \cup {NoThread} /\ terminated \in BOOLEAN

(* The thread that holds the mutex is the one between its lock() and its    *)
(* unlock(), whatever the flag says.                                        *)
LockInv == \A th \in Threads : Inside(th) <=> device = th

(* A domain on which no call is at work has a complete monitor or nothing.  *)
Busy(th, d) == call[th].at \in {"create", "delete"} /\ call[th].d = d
RestInv ==
  \A d \in Domains : (\A th \in Threads : ~Busy(th, d)) =>
    IF d \in monitors THEN Created(d) \subseteq objects ELSE objects \cap Of(d) = {}

(* What exists and what is left to create make the complete monitor. *)
CreateInv ==
  \A th \in Threads : call[th].at = "create" =>
    LET c == call[th]
    IN  /\ c.op = "init_monitor" /\ c.d \in monitors
        /\ objects \cap Of(c.d) \subseteq Created(c.d)
        /\ Range(c.todo) \subseteq Created(c.d)
        /\ Created(c.d) \subseteq objects \cup Range(c.todo)
        /\ Ordered(c.todo, Needs, objects)

(* What exists is left to delete; stop_topic_spy() deletes only what it     *)
(* created.                                                                 *)
DeleteInv ==
  \A th \in Threads : call[th].at = "delete" =>
    LET c == call[th]
    IN  /\ c.d \in monitors
        /\ Range(c.todo) \subseteq Of(c.d)
        /\ Ordered(c.todo, Before, Universe \ objects)
        /\ IF c.op = "stop_topic_spy"
           THEN Created(c.d) \subseteq objects /\ Range(c.todo) \subseteq Spied(c.d)
           ELSE objects \cap Of(c.d) \subseteq Range(c.todo)

MInv ==
  CallType /\ StateType /\ LockInv /\ RestInv /\ CreateInv /\ DeleteInv /\ ListenersOutlive

LEMMA MInit == Init => MInv
<1>. SUFFICES ASSUME Init PROVE MInv
  OBVIOUS
<1>. USE DEF Init
<1>1. CallType /\ StateType
  BY DEF CallType, StateType, NoCall
<1>2. \A th \in Threads : call[th].at = "idle" /\ call[th] = NoCall
  BY DEF NoCall
<1>3. LockInv
  BY <1>2, MonitorsAssumption DEF LockInv, Inside
<1>4. RestInv /\ CreateInv /\ DeleteInv /\ ListenersOutlive
  BY <1>2 DEF RestInv, CreateInv, DeleteInv, ListenersOutlive
<1>. QED BY <1>1, <1>3, <1>4 DEF MInv

(* Only one thread is at work. *)
LEMMA OneWorker ==
  ASSUME MInv, NEW th \in Threads, Inside(th), NEW other \in Threads, other # th
  PROVE  call[other].at \notin {"own", "body", "create", "delete", "unlock", "release"}
BY DEF MInv, LockInv, Inside

(* The objects of two domains are different ones. *)
LEMMA DomainsApart ==
  ASSUME NEW d \in Domains, NEW e \in Domains, NEW o \in Of(d), o \in Of(e)
  PROVE  d = e
<1>1. o[2] = d /\ o[2] = e
  BY DEF Of, Created, Spied, Singles, AllTopics, AllSpies, Object, TopicObject
<1>. QED BY <1>1

LEMMA CreatedNotSpied ==
  ASSUME NEW d PROVE Created(d) \cap Spied(d) = {}
BY DEF Created, Spied, Singles, AllTopics, AllSpies, Object, TopicObject

----------------------------------------------------------------------------
(* What the changes to call do. *)

LEMMA InACall ==
  ASSUME CallType, NEW th \in Threads, call[th].at # "idle"
  PROVE  call[th] # NoCall /\ call[th] \in CallRecord
BY DEF CallType, NoCall

LEMMA GotoCall ==
  ASSUME CallType, NEW th \in Threads, call[th].at # "idle", NEW at \in Ats, Goto(th, at)
  PROVE  /\ CallType'
         /\ call'[th] = [call[th] EXCEPT !.at = at]
         /\ call'[th].at = at /\ call'[th].d = call[th].d
         /\ \A other \in Threads \ {th} : call'[other] = call[other]
<1>1. call[th] # NoCall /\ call[th] \in CallRecord
  BY InACall
<1>2. /\ call' \in [Threads -> {NoCall} \cup CallRecord]
      /\ call'[th] = [call[th] EXCEPT !.at = at]
      /\ \A other \in Threads \ {th} : call'[other] = call[other]
  BY <1>1 DEF CallType, CallRecord, Goto
<1>3. /\ call'[th].at = at /\ call'[th].d = call[th].d
      /\ call'[th].op = call[th].op /\ call'[th].u = call[th].u
  BY <1>1, <1>2 DEF CallRecord
<1>. QED BY <1>1, <1>2, <1>3 DEF CallType

LEMMA WorkCall ==
  ASSUME CallType, NEW th \in Threads, call[th].at # "idle", NEW at \in Ats,
         NEW todo \in Seq(Universe), Work(th, at, todo)
  PROVE  /\ CallType'
         /\ call'[th].at = at /\ call'[th].d = call[th].d /\ call'[th].todo = todo
         /\ call'[th].op = call[th].op /\ call'[th].u = call[th].u
         /\ \A other \in Threads \ {th} : call'[other] = call[other]
<1>1. call[th] # NoCall /\ call[th] \in CallRecord
  BY InACall
<1>2. /\ call' \in [Threads -> {NoCall} \cup CallRecord]
      /\ call'[th] = [call[th] EXCEPT !.at = at, !.todo = todo]
      /\ \A other \in Threads \ {th} : call'[other] = call[other]
  BY <1>1 DEF CallType, CallRecord, Work
<1>3. /\ call'[th].at = at /\ call'[th].d = call[th].d /\ call'[th].todo = todo
      /\ call'[th].op = call[th].op /\ call'[th].u = call[th].u
  BY <1>1, <1>2 DEF CallRecord
<1>. QED BY <1>1, <1>2, <1>3 DEF CallType

LEMMA ReturnCall ==
  ASSUME CallType, NEW th \in Threads, call' = [call EXCEPT ![th] = NoCall]
  PROVE  /\ CallType'
         /\ call'[th].at = "idle"
         /\ \A other \in Threads \ {th} : call'[other] = call[other]
BY DEF CallType, NoCall

----------------------------------------------------------------------------
(* The steps. *)

(* A step of th that leaves the objects alone, with th at no work on them   *)
(* before and after.                                                        *)
LEMMA NoWork ==
  ASSUME MInv, UNCHANGED objs, NEW th \in Threads,
         call[th].at \notin {"create", "delete"}, call'[th].at \notin {"create", "delete"},
         \A other \in Threads \ {th} : call'[other] = call[other]
  PROVE  (RestInv /\ CreateInv /\ DeleteInv /\ ListenersOutlive)'
<1>. USE DEF MInv, objs
<1>1. \A other \in Threads :
        /\ call'[other].at = "create" => call[other].at = "create" /\ call'[other] = call[other]
        /\ call'[other].at = "delete" => call[other].at = "delete" /\ call'[other] = call[other]
        /\ \A d \in Domains : Busy(other, d)' <=> Busy(other, d)
  BY DEF Busy
<1>2. RestInv'
  BY <1>1 DEF RestInv
<1>3. CreateInv'
  BY <1>1 DEF CreateInv
<1>4. DeleteInv'
  BY <1>1 DEF DeleteInv
<1>5. ListenersOutlive'
  BY DEF ListenersOutlive
<1>. QED BY <1>2, <1>3, <1>4, <1>5

LEMMA CallStep ==
  ASSUME MInv, NEW th \in Threads, NEW d \in Domains, NEW op \in Ops, NEW u \in SpyTopics \cup {NoTopic},
         op \in SpyOps => u \in SpyTopics, Call(th, op, d, u)
  PROVE  MInv'
<1>. DEFINE r == [at |-> "lock", op |-> op, d |-> d, u |-> u, todo |-> <<>>]
<1>1. call[th].at = "idle" /\ r \in CallRecord
  BY DEF Call, NoCall, CallRecord, Ats
<1>2. call' = [call EXCEPT ![th] = r]
  BY DEF Call
<1>3. CallType' /\ call'[th] = r /\ \A other \in Threads \ {th} : call'[other] = call[other]
  BY <1>1, <1>2 DEF MInv, CallType
<1>4. StateType'
  BY DEF MInv, StateType, Call, objs, lock_
<1>5. call'[th].at = "lock"
  BY <1>3
<1>6. LockInv'
  BY <1>1, <1>3, <1>5 DEF MInv, LockInv, Inside, Call, lock_
<1>7. UNCHANGED objs
  BY DEF Call
<1>8. (RestInv /\ CreateInv /\ DeleteInv /\ ListenersOutlive)'
  BY <1>1, <1>3, <1>5, <1>7, NoWork
<1>. QED BY <1>3, <1>4, <1>6, <1>8 DEF MInv

(* lock() and unlock(). *)
LEMMA LockStep ==
  ASSUME MInv, NEW th \in Threads,
         \/ LockTest(th) \/ LockMutex(th) \/ LockOwn(th)
         \/ UnlockTest(th) \/ UnlockMutex(th) \/ UnlockOwn(th)
  PROVE  MInv'
<1>1. CallType
  BY DEF MInv
<1>2. StateType'
  BY DEF MInv, StateType, LockTest, LockMutex, LockOwn, UnlockTest, UnlockMutex, UnlockOwn, objs, lock_
<1>3. UNCHANGED objs
  BY DEF LockTest, LockMutex, LockOwn, UnlockTest, UnlockMutex, UnlockOwn
<1>. DEFINE Others == \A other \in Threads \ {th} : call'[other] = call[other]
<1>. DEFINE Goal == /\ CallType' /\ LockInv'
                    /\ call[th].at \notin {"create", "delete"} /\ call'[th].at \notin {"create", "delete"}
                    /\ Others
<1>4. ASSUME LockTest(th) PROVE Goal
  <2>1. call[th].at = "lock" /\ UNCHANGED device
    BY <1>4 DEF LockTest, lock_
  <2>2. CallType' /\ Others /\ call'[th].at \in {"idle", "wait"}
    BY <1>1, <1>4, <2>1, ReturnCall, GotoCall DEF LockTest, Ats
  <2>3. LockInv'
    BY <2>1, <2>2 DEF MInv, LockInv, Inside
  <2>. QED BY <2>1, <2>2, <2>3
<1>5. ASSUME LockMutex(th) PROVE Goal
  <2>1. call[th].at = "wait" /\ device = NoThread /\ device' = th /\ Goto(th, "own")
    BY <1>5 DEF LockMutex
  <2>2. CallType' /\ Others /\ call'[th].at = "own"
    BY <1>1, <2>1, GotoCall DEF Ats
  <2>3. LockInv'
    BY <2>1, <2>2, MonitorsAssumption DEF MInv, LockInv, Inside
  <2>. QED BY <2>1, <2>2, <2>3
<1>6. ASSUME LockOwn(th) PROVE Goal
  <2>1. call[th].at = "own" /\ UNCHANGED device /\ Goto(th, "body")
    BY <1>6 DEF LockOwn
  <2>2. CallType' /\ Others /\ call'[th].at = "body"
    BY <1>1, <2>1, GotoCall DEF Ats
  <2>3. LockInv'
    BY <2>1, <2>2 DEF MInv, LockInv, Inside
  <2>. QED BY <2>1, <2>2, <2>3
<1>7. ASSUME UnlockTest(th) PROVE Goal
  <2>1. call[th].at = "unlock" /\ UNCHANGED device
    BY <1>7 DEF UnlockTest, lock_
  <2>2. CallType' /\ Others /\ call'[th].at \in {"unlock", "release"}
    <3>1. CASE owns
      BY <3>1, <1>1, <1>7, <2>1, GotoCall DEF UnlockTest, Ats
    <3>2. CASE ~owns
      BY <3>2, <1>1, <1>7, <2>1 DEF UnlockTest, CallType
    <3>. QED BY <3>1, <3>2
  <2>3. LockInv'
    BY <2>1, <2>2 DEF MInv, LockInv, Inside
  <2>. QED BY <2>1, <2>2, <2>3
<1>8. ASSUME UnlockMutex(th) PROVE Goal
  <2>1. call[th].at = "release" /\ device' = NoThread /\ Goto(th, "disown")
    BY <1>8 DEF UnlockMutex
  <2>2. CallType' /\ Others /\ call'[th].at = "disown"
    BY <1>1, <2>1, GotoCall DEF Ats
  <2>3. LockInv'
    BY <2>1, <2>2, MonitorsAssumption DEF MInv, LockInv, Inside
  <2>. QED BY <2>1, <2>2, <2>3
<1>9. ASSUME UnlockOwn(th) PROVE Goal
  <2>1. call[th].at = "disown" /\ UNCHANGED device
    BY <1>9 DEF UnlockOwn
  <2>2. CallType' /\ Others /\ call'[th].at = "idle"
    BY <1>1, <1>9, ReturnCall DEF UnlockOwn
  <2>3. LockInv'
    BY <2>1, <2>2 DEF MInv, LockInv, Inside
  <2>. QED BY <2>1, <2>2, <2>3
<1>10. Goal
  BY <1>4, <1>5, <1>6, <1>7, <1>8, <1>9
<1>11. (RestInv /\ CreateInv /\ DeleteInv /\ ListenersOutlive)'
  BY <1>3, <1>10, NoWork
<1>. QED BY <1>2, <1>10, <1>11 DEF MInv

(* A step of the thread that holds the mutex, to at. *)
LEMMA StaysInside ==
  ASSUME MInv, NEW th \in Threads, Inside(th), Inside(th)', UNCHANGED device,
         \A other \in Threads \ {th} : call'[other] = call[other]
  PROVE  LockInv'
BY DEF MInv, LockInv, Inside

(* A call whose body does nothing. *)
LEMMA Refused ==
  ASSUME MInv, NEW th \in Threads, call[th].at = "body", Goto(th, "unlock"),
         UNCHANGED <<objs, lock_, terminated>>
  PROVE  MInv'
<1>1. /\ CallType' /\ call'[th].at = "unlock"
      /\ \A other \in Threads \ {th} : call'[other] = call[other]
  BY GotoCall DEF MInv, Ats
<1>2. StateType'
  BY DEF MInv, StateType, objs, lock_
<1>3. LockInv'
  BY <1>1, StaysInside DEF Inside, lock_
<1>4. (RestInv /\ CreateInv /\ DeleteInv /\ ListenersOutlive)'
  BY <1>1, NoWork
<1>. QED BY <1>1, <1>2, <1>3, <1>4 DEF MInv

(* The worker has the only work, on the objects of its domain: what is      *)
(* about the other threads and the other domains stays.                     *)
LEMMA WorkerStep ==
  ASSUME MInv, NEW th \in Threads, Inside(th), NEW d \in Domains, call[th].d = d,
         call'[th].d = d, \A other \in Threads \ {th} : call'[other] = call[other],
         monitors' \ {d} = monitors \ {d},
         \A e \in Domains \ {d} : objects' \cap Of(e) = objects \cap Of(e)
  PROVE  /\ \A other \in Threads \ {th} : call'[other].at \notin {"create", "delete"}
         /\ \A e \in Domains \ {d} :
               IF e \in monitors' THEN Created(e) \subseteq objects' ELSE objects' \cap Of(e) = {}
<1>1. \A other \in Threads \ {th} : call'[other].at \notin {"create", "delete"}
  BY OneWorker
<1>2. ASSUME NEW e \in Domains \ {d}
      PROVE  IF e \in monitors' THEN Created(e) \subseteq objects' ELSE objects' \cap Of(e) = {}
  <2>1. \A other \in Threads : ~Busy(other, e)
    BY <1>1 DEF Busy
  <2>2. IF e \in monitors THEN Created(e) \subseteq objects ELSE objects \cap Of(e) = {}
    BY <2>1 DEF MInv, RestInv
  <2>3. Created(e) \subseteq Of(e) /\ (e \in monitors' <=> e \in monitors)
    BY DEF Of
  <2>. QED BY <2>2, <2>3
<1>. QED BY <1>1, <1>2

LEMMA InitMonitorStep ==
  ASSUME MInv, NEW th \in Threads, InitMonitor(th)
  PROVE  MInv'
<1>. DEFINE d == call[th].d
<1>1. call[th].at = "body" /\ call[th].op = "init_monitor" /\ d \in Domains
  BY InACall DEF InitMonitor, Body, MInv, CallRecord
<1>2. CASE d \in domains
  BY <1>1, <1>2, Refused DEF InitMonitor, objs, lock_
<1>3. CASE d \notin domains
  <2>1. /\ domains' = domains \cup {d} /\ monitors' = monitors \cup {d}
        /\ Work(th, "create", CreationOrder(d))
        /\ UNCHANGED <<objects, forgotten>> /\ UNCHANGED <<lock_, terminated>>
    BY <1>3 DEF InitMonitor
  <2>2. CreationOrder(d) \in Seq(Universe) /\ Range(CreationOrder(d)) = Created(d)
        /\ Ordered(CreationOrder(d), Needs, objects)
    <3>1. Of(d) \subseteq Universe
      BY <1>1 DEF Universe
    <3>2. CreationOrder(d) \in Seq(Of(d)) /\ Range(CreationOrder(d)) = Created(d)
          /\ Ordered(CreationOrder(d), Needs, {})
      BY <1>1, CreationOrdered
    <3>. QED BY <3>1, <3>2, InLargerSet, OrderedMore
  <2>3. /\ CallType' /\ call'[th].at = "create" /\ call'[th].d = d /\ call'[th].todo = CreationOrder(d)
        /\ call'[th].op = "init_monitor"
        /\ \A other \in Threads \ {th} : call'[other] = call[other]
    BY <1>1, <2>1, <2>2, WorkCall DEF MInv, Ats
  <2>4. StateType'
    BY <1>1, <2>1 DEF MInv, StateType, lock_
  <2>5. Inside(th) /\ Inside(th)'
    BY <1>1, <2>3 DEF Inside
  <2>6. LockInv'
    BY <2>1, <2>3, <2>5, StaysInside DEF lock_
  <2>7. objects \cap Of(d) = {}
    <3>1. \A other \in Threads : ~Busy(other, d)
      BY <1>1, <2>5, OneWorker DEF Busy
    <3>. QED BY <3>1, <1>1, <1>3 DEF MInv, RestInv, StateType
  <2>8. /\ \A other \in Threads \ {th} : call'[other].at \notin {"create", "delete"}
        /\ \A e \in Domains \ {d} :
             IF e \in monitors' THEN Created(e) \subseteq objects' ELSE objects' \cap Of(e) = {}
    BY <1>1, <2>1, <2>3, <2>5, WorkerStep
  <2>9. RestInv'
    BY <2>3, <2>8 DEF RestInv, Busy
  <2>10. CreateInv'
    BY <1>1, <2>1, <2>2, <2>3, <2>7, <2>8 DEF CreateInv
  <2>11. DeleteInv'
    BY <2>3, <2>8 DEF DeleteInv
  <2>12. ListenersOutlive'
    BY <2>1 DEF MInv, ListenersOutlive
  <2>. QED BY <2>3, <2>4, <2>6, <2>9, <2>10, <2>11, <2>12 DEF MInv
<1>. QED BY <1>2, <1>3

LEMMA CreateStep ==
  ASSUME MInv, NEW th \in Threads, Create(th)
  PROVE  MInv'
<1>. DEFINE c == call[th]
            d == c.d
<1>1. c.at = "create" /\ c \in CallRecord /\ d \in Domains /\ c.todo \in Seq(Universe)
  BY InACall DEF Create, MInv, CallRecord
<1>2. /\ c.op = "init_monitor" /\ d \in monitors
      /\ objects \cap Of(d) \subseteq Created(d)
      /\ Range(c.todo) \subseteq Created(d)
      /\ Created(d) \subseteq objects \cup Range(c.todo)
      /\ Ordered(c.todo, Needs, objects)
  BY <1>1 DEF MInv, CreateInv
<1>3. Created(d) \subseteq Of(d) /\ Of(d) \subseteq Universe
  BY <1>1 DEF Of, Universe
<1>4. UNCHANGED <<domains, monitors, forgotten, lock_, terminated>>
  BY DEF Create
<1>5. CASE c.todo = <<>>
  <2>1. Goto(th, "unlock") /\ UNCHANGED objects
    BY <1>5 DEF Create
  <2>2. /\ CallType' /\ call'[th].at = "unlock" /\ call'[th].d = d
        /\ \A other \in Threads \ {th} : call'[other] = call[other]
    BY <1>1, <2>1, GotoCall DEF MInv, Ats
  <2>3. Inside(th) /\ Inside(th)'
    BY <1>1, <2>2 DEF Inside
  <2>4. LockInv'
    BY <1>4, <2>2, <2>3, StaysInside DEF lock_
  <2>5. StateType'
    BY <1>4, <2>1 DEF MInv, StateType, lock_
  <2>6. /\ \A other \in Threads \ {th} : call'[other].at \notin {"create", "delete"}
        /\ \A e \in Domains \ {d} :
             IF e \in monitors' THEN Created(e) \subseteq objects' ELSE objects' \cap Of(e) = {}
    BY <1>1, <1>4, <2>1, <2>2, <2>3, WorkerStep
  <2>7. Range(c.todo) = {}
    BY <1>5 DEF Range
  <2>8. RestInv'
    BY <1>2, <1>4, <2>1, <2>6, <2>7 DEF RestInv
  <2>9. CreateInv' /\ DeleteInv'
    BY <2>2, <2>6 DEF CreateInv, DeleteInv
  <2>10. ListenersOutlive'
    BY <2>1 DEF MInv, ListenersOutlive
  <2>. QED BY <2>2, <2>4, <2>5, <2>8, <2>9, <2>10 DEF MInv
<1>6. CASE c.todo # <<>>
  <2>. DEFINE o == Head(c.todo)
  <2>1. objects' = objects \cup {o} /\ Work(th, "create", Tail(c.todo))
    BY <1>6 DEF Create
  <2>2. /\ Needs[o] \subseteq objects /\ Ordered(Tail(c.todo), Needs, objects \cup {o})
        /\ Range(c.todo) = {o} \cup Range(Tail(c.todo))
    BY <1>1, <1>2, <1>6, OrderedTail
  <2>3. o \in Created(d) /\ o \in Universe /\ Calls(o) \subseteq objects
    BY <1>2, <1>3, <2>2 DEF Needs
  <2>4. Tail(c.todo) \in Seq(Universe)
    BY <1>1, <1>6, HeadTailProperties
  <2>5. /\ CallType' /\ call'[th].at = "create" /\ call'[th].d = d /\ call'[th].todo = Tail(c.todo)
        /\ call'[th].op = "init_monitor"
        /\ \A other \in Threads \ {th} : call'[other] = call[other]
    BY <1>1, <1>2, <2>1, <2>4, WorkCall DEF MInv, Ats
  <2>. HIDE DEF o
  <2>6. StateType'
    BY <1>4, <2>1, <2>3 DEF MInv, StateType, lock_
  <2>7. Inside(th) /\ Inside(th)'
    BY <1>1, <2>5 DEF Inside
  <2>8. LockInv'
    BY <1>4, <2>5, <2>7, StaysInside DEF lock_
  <2>9. \A e \in Domains \ {d} : objects' \cap Of(e) = objects \cap Of(e)
    BY <1>1, <1>3, <2>1, <2>3, DomainsApart
  <2>10. /\ \A other \in Threads \ {th} : call'[other].at \notin {"create", "delete"}
         /\ \A e \in Domains \ {d} :
              IF e \in monitors' THEN Created(e) \subseteq objects' ELSE objects' \cap Of(e) = {}
    BY <1>1, <1>4, <2>5, <2>7, <2>9, WorkerStep
  <2>11. RestInv'
    BY <2>5, <2>10 DEF RestInv, Busy
  <2>12. /\ objects' \cap Of(d) \subseteq Created(d)
         /\ Range(Tail(c.todo)) \subseteq Created(d)
         /\ Created(d) \subseteq objects' \cup Range(Tail(c.todo))
    BY <1>2, <2>1, <2>2, <2>3
  <2>13. CreateInv'
    BY <1>1, <1>2, <1>4, <2>1, <2>2, <2>5, <2>10, <2>12 DEF CreateInv
  <2>14. DeleteInv'
    BY <2>5, <2>10 DEF DeleteInv
  <2>15. ListenersOutlive'
    BY <2>1, <2>3 DEF MInv, ListenersOutlive
  <2>. QED BY <2>5, <2>6, <2>8, <2>11, <2>13, <2>14, <2>15 DEF MInv
<1>. QED BY <1>5, <1>6

(* A body or a rollback begins to delete todo. *)
LEMMA BeginDelete ==
  ASSUME MInv, NEW th \in Threads, Inside(th), NEW d \in Domains, call[th].d = d, d \in monitors,
         NEW todo \in Seq(Of(d)), Work(th, "delete", todo), UNCHANGED <<objs, lock_, terminated>>,
         Ordered(todo, Before, Universe \ objects),
         IF call[th].op = "stop_topic_spy"
         THEN Created(d) \subseteq objects /\ Range(todo) \subseteq Spied(d)
         ELSE objects \cap Of(d) \subseteq Range(todo)
  PROVE  MInv'
<1>1. todo \in Seq(Universe) /\ Range(todo) \subseteq Of(d)
  <2>1. Of(d) \subseteq Universe
    BY DEF Universe
  <2>2. Range(todo) \in SUBSET Of(d)
    BY RangeOfSeq
  <2>. QED BY <2>1, <2>2, InLargerSet
<1>2. /\ CallType' /\ call'[th].at = "delete" /\ call'[th].d = d /\ call'[th].todo = todo
      /\ call'[th].op = call[th].op
      /\ \A other \in Threads \ {th} : call'[other] = call[other]
  BY <1>1, WorkCall DEF MInv, Ats, Inside
<1>3. StateType'
  BY DEF MInv, StateType, objs, lock_
<1>4. LockInv'
  BY <1>2, StaysInside DEF Inside, lock_
<1>5. /\ \A other \in Threads \ {th} : call'[other].at \notin {"create", "delete"}
      /\ \A e \in Domains \ {d} :
           IF e \in monitors' THEN Created(e) \subseteq objects' ELSE objects' \cap Of(e) = {}
  BY <1>2, WorkerStep DEF objs
<1>6. RestInv'
  BY <1>2, <1>5 DEF RestInv, Busy
<1>7. CreateInv'
  BY <1>2, <1>5 DEF CreateInv
<1>8. DeleteInv'
  BY <1>1, <1>2, <1>5 DEF DeleteInv, objs
<1>9. ListenersOutlive'
  BY DEF MInv, ListenersOutlive, objs
<1>. QED BY <1>2, <1>3, <1>4, <1>6, <1>7, <1>8, <1>9 DEF MInv

LEMMA CreateFailsStep ==
  ASSUME MInv, NEW th \in Threads, CreateFails(th)
  PROVE  MInv'
<1>. DEFINE d == call[th].d
<1>1. call[th].at = "create" /\ d \in Domains /\ Inside(th)
  BY InACall DEF CreateFails, MInv, CallRecord, Inside
<1>2. call[th].op = "init_monitor" /\ d \in monitors /\ objects \cap Of(d) \subseteq Created(d)
  BY <1>1 DEF MInv, CreateInv
<1>3. Deletes(RollbackOrder(d), d, Spied(d), Created(d))
  BY <1>1, RollbackOrdered
<1>4. Spied(d) \subseteq Universe \ objects
  BY <1>1, <1>2, CreatedNotSpied DEF Of, Universe
<1>5. Ordered(RollbackOrder(d), Before, Universe \ objects)
  BY <1>3, <1>4, OrderedMore DEF Deletes
<1>6. Work(th, "delete", RollbackOrder(d)) /\ UNCHANGED <<objs, lock_, terminated>>
  BY DEF CreateFails
<1>. QED BY <1>1, <1>2, <1>3, <1>5, <1>6, BeginDelete DEF Deletes

LEMMA StopMonitorStep ==
  ASSUME MInv, NEW th \in Threads, StopMonitor(th)
  PROVE  MInv'
<1>. DEFINE d == call[th].d
<1>1. call[th].at = "body" /\ call[th].op = "stop_monitor" /\ d \in Domains /\ Inside(th)
  BY InACall DEF StopMonitor, Body, MInv, CallRecord, Inside
<1>2. CASE d \notin monitors
  BY <1>1, <1>2, Refused DEF StopMonitor
<1>3. CASE d \in monitors
  <2>1. Deletes(StopOrder(d), d, {}, Of(d))
    BY <1>1, StopOrdered
  <2>2. Ordered(StopOrder(d), Before, Universe \ objects)
    BY <2>1, OrderedMore DEF Deletes
  <2>3. Work(th, "delete", StopOrder(d)) /\ UNCHANGED <<objs, lock_, terminated>>
    BY <1>3 DEF StopMonitor
  <2>. QED BY <1>1, <1>3, <2>1, <2>2, <2>3, BeginDelete DEF Deletes
<1>. QED BY <1>2, <1>3

LEMMA StopTopicSpyStep ==
  ASSUME MInv, NEW th \in Threads, StopTopicSpy(th)
  PROVE  MInv'
<1>. DEFINE d == call[th].d
            u == call[th].u
            todo == <<TopicObject("spy_reader", d, u), TopicObject("spy_topic", d, u),
                      TopicObject("spy_listener", d, u)>>
<1>1. call[th].at = "body" /\ call[th].op = "stop_topic_spy" /\ d \in Domains /\ Inside(th)
      /\ u \in SpyTopics
  BY InACall DEF StopTopicSpy, Body, MInv, CallType, CallRecord, Inside, SpyOps
<1>2. CASE Goto(th, "unlock") /\ UNCHANGED <<objs, lock_, terminated>>
  BY <1>1, <1>2, Refused
<1>3. CASE /\ d \in monitors /\ Work(th, "delete", todo)
           /\ UNCHANGED <<objs, lock_, terminated>>
  <2>1. todo \in Seq(Of(d)) /\ Len(todo) = 3 /\ todo \in Seq(Spied(d))
    BY <1>1 DEF Of, Spied, AllSpies
  <2>2. Range(todo) \subseteq Spied(d)
    BY <2>1, RangeOfSeq
  <2>3. /\ Before[todo[1]] = {} /\ Before[todo[2]] \subseteq {todo[1]}
        /\ Before[todo[3]] \subseteq {todo[1]}
    <3>1. TopicObject("spy_reader", d, u) \in Of(d)
      BY <1>1 DEF Of, Spied, AllSpies
    <3>2. Before[TopicObject("spy_reader", d, u)] = {}
      BY <1>1, <3>1, BeforeOf DEF TopicObject
    <3>3. /\ Before[TopicObject("spy_topic", d, u)] \subseteq {TopicObject("spy_reader", d, u)}
          /\ Before[TopicObject("spy_listener", d, u)] \subseteq {TopicObject("spy_reader", d, u)}
      BY <1>1, BeforeOf
    <3>. QED BY <3>2, <3>3
  <2>. HIDE DEF todo
  <2>4. Ordered(todo, Before, Universe \ objects)
    BY <2>1, <2>3 DEF Ordered
  <2>5. Created(d) \subseteq objects
    <3>1. \A other \in Threads : ~Busy(other, d)
      BY <1>1, OneWorker DEF Busy
    <3>. QED BY <1>1, <1>3, <3>1 DEF MInv, RestInv
  <2>. QED BY <1>1, <1>3, <2>1, <2>2, <2>4, <2>5, BeginDelete
<1>. QED BY <1>2, <1>3 DEF StopTopicSpy

LEMMA DeleteStep ==
  ASSUME MInv, NEW th \in Threads, Delete(th)
  PROVE  MInv'
<1>. DEFINE c == call[th]
            d == c.d
<1>1. c.at = "delete" /\ c \in CallRecord /\ d \in Domains /\ c.todo \in Seq(Universe)
  BY InACall DEF Delete, MInv, CallRecord
<1>2. /\ d \in monitors /\ Range(c.todo) \subseteq Of(d)
      /\ Ordered(c.todo, Before, Universe \ objects)
      /\ IF c.op = "stop_topic_spy"
         THEN Created(d) \subseteq objects /\ Range(c.todo) \subseteq Spied(d)
         ELSE objects \cap Of(d) \subseteq Range(c.todo)
  BY <1>1 DEF MInv, DeleteInv
<1>3. Created(d) \subseteq Of(d) /\ Of(d) \subseteq Universe
  BY <1>1 DEF Of, Universe
<1>4. UNCHANGED <<domains, forgotten, lock_, terminated>>
  BY DEF Delete
<1>5. CASE c.todo = <<>>
  <2>1. /\ monitors' = IF c.op = "stop_topic_spy" THEN monitors ELSE monitors \ {d}
        /\ Goto(th, "unlock") /\ UNCHANGED objects
    BY <1>5 DEF Delete
  <2>2. /\ CallType' /\ call'[th].at = "unlock" /\ call'[th].d = d
        /\ \A other \in Threads \ {th} : call'[other] = call[other]
    BY <1>1, <2>1, GotoCall DEF MInv, Ats
  <2>3. Inside(th) /\ Inside(th)'
    BY <1>1, <2>2 DEF Inside
  <2>4. LockInv'
    BY <1>4, <2>2, <2>3, StaysInside DEF lock_
  <2>5. StateType'
    BY <1>4, <2>1 DEF MInv, StateType, lock_
  <2>6. /\ \A other \in Threads \ {th} : call'[other].at \notin {"create", "delete"}
        /\ \A e \in Domains \ {d} :
             IF e \in monitors' THEN Created(e) \subseteq objects' ELSE objects' \cap Of(e) = {}
    <3>1. monitors' \ {d} = monitors \ {d}
      BY <2>1
    <3>. QED BY <1>1, <2>1, <2>2, <2>3, <3>1, WorkerStep
  <2>7. Range(c.todo) = {}
    BY <1>5 DEF Range
  <2>8. IF d \in monitors' THEN Created(d) \subseteq objects' ELSE objects' \cap Of(d) = {}
    BY <1>2, <2>1, <2>7
  <2>9. RestInv'
    BY <2>6, <2>8 DEF RestInv
  <2>10. CreateInv' /\ DeleteInv'
    BY <2>2, <2>6 DEF CreateInv, DeleteInv
  <2>11. ListenersOutlive'
    BY <2>1 DEF MInv, ListenersOutlive
  <2>. QED BY <2>2, <2>4, <2>5, <2>9, <2>10, <2>11 DEF MInv
<1>6. CASE c.todo # <<>>
  <2>. DEFINE o == Head(c.todo)
  <2>1. objects' = Deleted(o) /\ Work(th, "delete", Tail(c.todo)) /\ UNCHANGED monitors
    BY <1>6 DEF Delete
  <2>2. /\ Before[o] \subseteq Universe \ objects
        /\ Ordered(Tail(c.todo), Before, (Universe \ objects) \cup {o})
        /\ Range(c.todo) = {o} \cup Range(Tail(c.todo))
    BY <1>1, <1>2, <1>6, OrderedTail
  <2>3. Tail(c.todo) \in Seq(Universe)
    BY <1>1, <1>6, HeadTailProperties
  <2>4. /\ CallType' /\ call'[th].at = "delete" /\ call'[th].d = d /\ call'[th].todo = Tail(c.todo)
        /\ call'[th].op = c.op
        /\ \A other \in Threads \ {th} : call'[other] = call[other]
    BY <1>1, <2>1, <2>3, WorkCall DEF MInv, Ats
  <2>. HIDE DEF o
  <2>5. o \in Of(d) /\ o \in Universe /\ objects \subseteq Universe
    BY <1>2, <1>3, <2>2 DEF MInv, StateType
  <2>6. \A x \in objects : x \notin Dependents(o) /\ o \notin Calls(x)
    BY <2>2, <2>5 DEF Before
  <2>7. objects' = objects \ {o}
    BY <2>1, <2>6 DEF Deleted
  <2>8. StateType'
    BY <1>4, <2>1, <2>7 DEF MInv, StateType, lock_
  <2>9. Inside(th) /\ Inside(th)'
    BY <1>1, <2>4 DEF Inside
  <2>10. LockInv'
    BY <1>4, <2>4, <2>9, StaysInside DEF lock_
  <2>11. \A e \in Domains \ {d} : objects' \cap Of(e) = objects \cap Of(e)
    BY <1>1, <2>5, <2>7, DomainsApart
  <2>12. /\ \A other \in Threads \ {th} : call'[other].at \notin {"create", "delete"}
         /\ \A e \in Domains \ {d} :
              IF e \in monitors' THEN Created(e) \subseteq objects' ELSE objects' \cap Of(e) = {}
    BY <1>1, <2>1, <2>4, <2>9, <2>11, WorkerStep
  <2>13. RestInv'
    BY <2>4, <2>12 DEF RestInv, Busy
  <2>14. CreateInv'
    BY <2>4, <2>12 DEF CreateInv
  <2>15. Ordered(Tail(c.todo), Before, Universe \ objects')
    <3>1. (Universe \ objects) \cup {o} \subseteq Universe \ objects'
      BY <2>5, <2>7
    <3>. QED BY <2>2, <2>3, <3>1, OrderedMore
  <2>16. /\ Range(Tail(c.todo)) \subseteq Of(d)
         /\ IF c.op = "stop_topic_spy"
            THEN Created(d) \subseteq objects' /\ Range(Tail(c.todo)) \subseteq Spied(d)
            ELSE objects' \cap Of(d) \subseteq Range(Tail(c.todo))
    BY <1>2, <2>2, <2>7, CreatedNotSpied
  <2>17. DeleteInv'
    BY <1>2, <2>1, <2>4, <2>12, <2>15, <2>16 DEF DeleteInv
  <2>18. ListenersOutlive'
    BY <2>6, <2>7 DEF MInv, ListenersOutlive
  <2>. QED BY <2>4, <2>8, <2>10, <2>13, <2>14, <2>17, <2>18 DEF MInv
<1>. QED BY <1>5, <1>6

LEMMA StartTopicSpyStep ==
  ASSUME MInv, NEW th \in Threads, StartTopicSpy(th)
  PROVE  MInv'
<1>. DEFINE d == call[th].d
            u == call[th].u
            object(kind) == TopicObject(kind, d, u)
<1>1. call[th].at = "body" /\ call[th].op = "start_topic_spy" /\ d \in Domains /\ Inside(th)
      /\ u \in SpyTopics
  BY InACall DEF StartTopicSpy, Body, MInv, CallType, CallRecord, Inside, SpyOps
<1>2. Goto(th, "unlock") /\ UNCHANGED <<domains, monitors, lock_, terminated>>
  BY DEF StartTopicSpy
<1>3. CASE UNCHANGED <<objects, forgotten>>
  BY <1>1, <1>2, <1>3, Refused DEF objs
<1>4. CASE /\ d \in monitors
           /\ forgotten' = forgotten \cup (objects \cap {object("spy_listener")})
           /\ \E reader \in {{}, {object("spy_reader")}} :
                objects' = objects \cup {object("spy_topic"), object("spy_listener")} \cup reader
  <2>1. PICK reader \in {{}, {object("spy_reader")}} :
          objects' = objects \cup {object("spy_topic"), object("spy_listener")} \cup reader
    BY <1>4
  <2>. DEFINE new == {object("spy_topic"), object("spy_listener")} \cup reader
  <2>2. new \subseteq Spied(d) /\ new \subseteq Of(d) /\ new \subseteq Universe
    BY <1>1, <2>1 DEF Spied, Of, Universe, AllSpies
  <2>3. \A o \in new : Calls(o) \subseteq new
    BY <2>1 DEF Calls, TopicObject
  <2>4. objects' = objects \cup new
    BY <2>1
  <2>. HIDE DEF new
  <2>5. /\ CallType' /\ call'[th].at = "unlock" /\ call'[th].d = d
        /\ \A other \in Threads \ {th} : call'[other] = call[other]
    BY <1>1, <1>2, GotoCall DEF MInv, Ats
  <2>6. StateType'
    BY <1>2, <1>4, <2>2, <2>4 DEF MInv, StateType, lock_
  <2>7. LockInv'
    BY <1>1, <1>2, <2>5, StaysInside DEF Inside, lock_
  <2>8. \A e \in Domains \ {d} : objects' \cap Of(e) = objects \cap Of(e)
    BY <1>1, <2>2, <2>4, DomainsApart
  <2>9. /\ \A other \in Threads \ {th} : call'[other].at \notin {"create", "delete"}
        /\ \A e \in Domains \ {d} :
             IF e \in monitors' THEN Created(e) \subseteq objects' ELSE objects' \cap Of(e) = {}
    BY <1>1, <1>2, <2>5, <2>8, WorkerStep
  <2>10. Created(d) \subseteq objects'
    <3>1. \A other \in Threads : ~Busy(other, d)
      BY <1>1, OneWorker DEF Busy
    <3>. QED BY <1>1, <1>4, <2>4, <3>1 DEF MInv, RestInv
  <2>11. RestInv'
    BY <1>2, <1>4, <2>9, <2>10 DEF RestInv
  <2>12. CreateInv' /\ DeleteInv'
    BY <2>5, <2>9 DEF CreateInv, DeleteInv
  <2>13. ListenersOutlive'
    BY <2>3, <2>4 DEF MInv, ListenersOutlive
  <2>. QED BY <2>5, <2>6, <2>7, <2>11, <2>12, <2>13 DEF MInv
<1>. QED BY <1>3, <1>4 DEF StartTopicSpy

LEMMA ResetStep ==
  ASSUME MInv, reset
  PROVE  MInv'
<1>. USE DEF reset
<1>1. CallType' /\ StateType'
  BY DEF MInv, CallType, StateType, lock_
<1>2. LockInv'
  BY DEF MInv, LockInv, Inside, lock_
<1>3. (RestInv /\ CreateInv /\ DeleteInv /\ ListenersOutlive)'
  BY DEF MInv, RestInv, Busy, CreateInv, DeleteInv, ListenersOutlive
<1>. QED BY <1>1, <1>2, <1>3 DEF MInv

LEMMA MStep == MInv /\ [Next]_vars => MInv'
<1>. SUFFICES ASSUME MInv, [Next]_vars PROVE MInv'
  OBVIOUS
<1>1. CASE UNCHANGED vars
  BY <1>1 DEF vars, objs, lock_, MInv, CallType, StateType, LockInv, Inside, RestInv, Busy,
              CreateInv, DeleteInv, ListenersOutlive
<1>2. ASSUME NEW th \in Threads, NEW d \in Domains,
             \/ \E op \in {"init_monitor", "stop_monitor"} : Call(th, op, d, NoTopic)
             \/ \E op \in SpyOps, u \in SpyTopics : Call(th, op, d, u)
      PROVE  MInv'
  <2>1. ASSUME NEW op \in {"init_monitor", "stop_monitor"}, Call(th, op, d, NoTopic) PROVE MInv'
    BY <2>1, CallStep DEF Ops, SpyOps
  <2>2. ASSUME NEW op \in SpyOps, NEW u \in SpyTopics, Call(th, op, d, u) PROVE MInv'
    BY <2>2, CallStep DEF Ops
  <2>. QED BY <1>2, <2>1, <2>2
<1>3. ASSUME NEW th \in Threads, Step(th) PROVE MInv'
  BY <1>3, LockStep, InitMonitorStep, CreateStep, CreateFailsStep, DeleteStep, StopMonitorStep,
     StartTopicSpyStep, StopTopicSpyStep DEF Step
<1>4. CASE reset
  BY <1>4, ResetStep
<1>. QED BY <1>1, <1>2, <1>3, <1>4 DEF Next, SpyOps

LEMMA MInvariant == Spec => []MInv
BY MInit, MStep, PTL DEF Spec

----------------------------------------------------------------------------
(* Types, and: the domain of a monitor is in the database, also after       *)
(* reset() replaced it.                                                     *)
THEOREM MonitorsTypeCorrect == Spec => []MonitorsTypeOK
<1>1. MInv => MonitorsTypeOK
  <2>. SUFFICES ASSUME MInv PROVE MonitorsTypeOK
    OBVIOUS
  <2>1. \A o \in Universe : o[2] \in Domains /\ o[3] \in Topics \cup SpyTopics \cup {NoTopic}
    BY DEF Universe, Of, Created, Spied, Singles, AllTopics, AllSpies, Object, TopicObject
  <2>2. \A th \in Threads : call[th].at \in {"idle"} \cup Ats
    BY DEF MInv, CallType, CallRecord, NoCall
  <2>. QED BY <2>1, <2>2 DEF MInv, StateType, MonitorsTypeOK, Ats
<1>. QED BY <1>1, MInvariant, PTL

(* The flag of the shared unique_lock is read and written without           *)
(* protection, by any number of threads: the bodies of two calls never      *)
(* overlap all the same.                                                    *)
THEOREM BodiesExclusive == Spec => []MutualExclusion
<1>1. MInv => MutualExclusion
  BY DEF MInv, LockInv, MutualExclusion
<1>. QED BY <1>1, MInvariant, PTL

(* Whatever DDS fails to create, and whatever the calls before, init_monitor() *)
(* leaves a complete monitor or nothing, and stop_monitor() nothing.        *)
THEOREM RollbackComplete == Spec => []NothingLeaks
<1>1. MInv => NothingLeaks
  <2>. SUFFICES ASSUME MInv, NEW d \in Domains, \A th \in Threads : Inside(th) => call[th].d # d
                PROVE  IF d \in monitors THEN Range(CreationOrder(d)) \subseteq objects
                       ELSE \A o \in objects : o[2] # d
    BY DEF NothingLeaks
  <2>1. \A th \in Threads : ~Busy(th, d)
    BY DEF Busy, Inside
  <2>2. IF d \in monitors THEN Created(d) \subseteq objects ELSE objects \cap Of(d) = {}
    BY <2>1 DEF MInv, RestInv
  <2>3. Range(CreationOrder(d)) = Created(d)
    BY CreationOrdered
  <2>4. \A o \in Universe : o[2] = d => o \in Of(d)
    BY DEF Universe, Of, Created, Spied, Singles, AllTopics, AllSpies, Object, TopicObject
  <2>. QED BY <2>2, <2>3, <2>4 DEF MInv, StateType
<1>. QED BY <1>1, MInvariant, PTL

(* In every order of creation, rollback and deletion an entity is gone      *)
(* before the listener that it calls from a thread of DDS.                  *)
THEOREM ListenersAlive == Spec => []ListenersOutlive
<1>1. MInv => ListenersOutlive
  BY DEF MInv
<1>. QED BY <1>1, MInvariant, PTL

=============================================================================
