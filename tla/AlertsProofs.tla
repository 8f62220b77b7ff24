---------------------------- MODULE AlertsProofs ----------------------------
(***************************************************************************)
(* Proofs about Alerts, for any alerts, endpoints, values and bounds.      *)
(***************************************************************************)
EXTENDS Alerts, WellFoundedInduction, TLAPS

Info == [config : Configs, timeout_age : 0 .. MaxAge, trigger_age : 0 .. MaxAge]

(* A sample in work.  What is seen, is seen once.                           *)
Work(at) ==
  [at : at, endpoint : Endpoints, value : Values, pos : 0 .. MaxAlerts,
   seen : [AlertIds -> {0, 1}], due : SUBSET AlertIds]

AlertsInv ==
  /\ next_id \in 1 .. MaxAlerts + 1
  /\ DOMAIN alerts \subseteq 1 .. next_id - 1
  /\ \A a \in DOMAIN alerts :
       alerts[a] \in Info /\ alerts[a].timeout_age <= alerts[a].trigger_age
  /\ known \subseteq Endpoints

ThreadsInv ==
  /\ watcher = [at |-> watcher.at, timed_out |-> watcher.timed_out]
  /\ watcher.at \in {"waiting", "calling", "ended"}
  /\ stopper \in {"none", "notify", "join", "done"}

(* The iteration of a sample: what is due is still there; up to pos it has  *)
(* been seen, and beyond it nothing has.                                    *)
Halfway(w) ==
  \A a \in AlertIds : /\ a > w.pos => w.seen[a] = 0
                      /\ a \in w.due /\ a <= w.pos => w.seen[a] = 1

IterationInv ==
  /\ consumer \in {NoWork} \cup Work({"calling", "end", "thrown"})
  /\ consumer.at # "idle" => consumer.due \subseteq InDomain(alerts, consumer.endpoint.domain)
  /\ consumer.at = "calling" => Halfway(consumer)
  /\ consumer.at = "end" => \A a \in consumer.due : consumer.seen[a] = 1
-----------------------------------------------------------------------------
(* A set of naturals with an upper bound has a greatest element.            *)
LEMMA MaxOfBounded ==
  ASSUME NEW N \in Nat, NEW T \in SUBSET (0 .. N), T # {}
  PROVE  Max(T) \in T /\ \A y \in T : y <= Max(T)
<1> DEFINE R == OpToRel(<, Nat)
           D == {N - x : x \in T}
<1>1. D \in SUBSET Nat /\ D # {}
  <2>1. \A x \in T : N - x \in Nat
    OBVIOUS
  <2>2. PICK x : x \in T
    OBVIOUS
  <2> QED
    BY <2>1, <2>2
<1>2. PICK d \in D : \A c \in D : ~(<<c, d>> \in R)
  <2> HIDE DEF D
  <2> QED
    BY <1>1, NatLessThanWellFounded, WFMin
<1>3. \A c \in D : ~(c < d)
  BY <1>1, <1>2 DEF OpToRel
<1> HIDE DEF R
<1>4. PICK x \in T : d = N - x
  OBVIOUS
<1>5. \A y \in T : y <= x
  <2> SUFFICES ASSUME NEW y \in T PROVE y <= x
    OBVIOUS
  <2>1. N - y \in D /\ x \in 0 .. N /\ y \in 0 .. N
    OBVIOUS
  <2> HIDE DEF D
  <2> QED
    BY <1>3, <1>4, <2>1
<1> QED
  BY <1>5 DEF Max

LEMMA OlderType ==
  ASSUME NEW x \in 0 .. MaxAge, NEW y \in 0 .. MaxAge, x <= y
  PROVE  Older(x) \in 0 .. MaxAge /\ Older(y) \in 0 .. MaxAge /\ Older(x) <= Older(y)
<1>1. ASSUME NEW z \in 0 .. MaxAge
      PROVE  Older(z) = IF z + 1 <= MaxAge THEN z + 1 ELSE MaxAge
  <2> DEFINE m == IF z + 1 <= MaxAge THEN z + 1 ELSE MaxAge
             T == {z + 1, MaxAge}
  <2>1. MaxAge \in Nat
    BY AlertsAssumption
  <2>2. m \in T /\ \A t \in T : m <= t
    BY <2>1
  <2>3. \A n \in T : (\A t \in T : n <= t) => n = m
    BY <2>1
  <2>4. Older(z) = CHOOSE n \in T : \A t \in T : n <= t
    BY DEF Older, Min
  <2> HIDE DEF T, m
  <2>5. Older(z) = m
    BY <2>2, <2>3, <2>4
  <2> QED
    BY <2>5 DEF m
<1>2. MaxAge \in Nat
  BY AlertsAssumption
<1> QED
  BY <1>1, <1>2

LEMMA EvaluatedType ==
  ASSUME NEW info \in Info, info.timeout_age <= info.trigger_age, NEW e, NEW v
  PROVE  /\ Evaluated(info, e, v) \in Info
         /\ Evaluated(info, e, v).timeout_age <= Evaluated(info, e, v).trigger_age
         /\ Evaluated(info, e, v).config = info.config
<1>1. 0 \in 0 .. MaxAge /\ info.trigger_age \in 0 .. MaxAge /\ info.config \in Configs
  BY AlertsAssumption DEF Info
<1>2. PICK x \in {0, info.trigger_age} :
        Evaluated(info, e, v) = [config |-> info.config, timeout_age |-> 0, trigger_age |-> x]
  <2>1. CASE Triggers(info, e, v)
    BY <2>1 DEF Evaluated, Info
  <2>2. CASE ~Triggers(info, e, v)
    BY <2>2 DEF Evaluated, Info
  <2> QED
    BY <2>1, <2>2
<1> QED
  BY <1>1, <1>2 DEF Info

(* An iteration up to the next callback, the end or an exception: no alert  *)
(* ahead is passed over, and none behind is taken again.                    *)
LEMMA IterateKeeps ==
  ASSUME AlertsInv, NEW w \in Work({"iterating"}), Halfway(w),
         w.due \subseteq InDomain(alerts, w.endpoint.domain),
         Iterate(w), UNCHANGED <<next_id, known>>
  PROVE  AlertsInv' /\ IterationInv'
<1> DEFINE e == w.endpoint
           ahead0 == {a \in InDomain(alerts, e.domain) : a > w.pos}
           concerned0 == {a \in ahead0 : alerts[a].config.kind = e.triggers}
           stops0 == {a \in concerned0 : e \in known => Triggers(alerts[a], e, w.value)}
           reached0 == {a \in ahead0 : \A s \in stops0 : a < s \/ (a = s /\ e \in known)}
           at0 == IF stops0 = {} THEN "end" ELSE IF e \in known THEN "calling" ELSE "thrown"
<1>1. PICK ahead, stops, reached, evaluated, at :
        /\ ahead = ahead0 /\ stops = stops0 /\ reached = reached0
        /\ evaluated = reached0 \cap concerned0 /\ at = at0
  OBVIOUS
<1>2. /\ alerts' = [a \in DOMAIN alerts |->
                      IF a \in evaluated THEN Evaluated(alerts[a], e, w.value) ELSE alerts[a]]
      /\ consumer' = [w EXCEPT !.at = at, !.pos = Max(reached \cup {@}),
                         !.seen = [a \in AlertIds |-> IF a \in reached THEN @[a] + 1 ELSE @[a]]]
  BY <1>1 DEF Iterate, Remaining
<1>3. /\ ahead = {a \in InDomain(alerts, e.domain) : a > w.pos}
      /\ reached = {a \in ahead : \A s \in stops : a < s \/ (a = s /\ e \in known)}
      /\ at = IF stops = {} THEN "end" ELSE IF e \in known THEN "calling" ELSE "thrown"
      /\ stops \subseteq ahead
  BY <1>1
<1> HIDE DEF ahead0, concerned0, stops0, reached0, at0
<1>4. DOMAIN alerts \subseteq AlertIds /\ ahead \subseteq DOMAIN alerts /\ reached \subseteq ahead
  <2>1. MaxAlerts \in Nat
    BY AlertsAssumption
  <2>2. DOMAIN alerts \subseteq AlertIds
    BY <2>1 DEF AlertsInv, AlertIds
  <2> QED
    BY <1>3, <2>2 DEF InDomain
<1>5. AlertsInv'
  <2>1. DOMAIN alerts' = DOMAIN alerts
    BY <1>2
  <2>2. \A a \in DOMAIN alerts :
          alerts'[a] \in Info /\ alerts'[a].timeout_age <= alerts'[a].trigger_age
    BY <1>2, EvaluatedType DEF AlertsInv
  <2> QED
    BY <2>1, <2>2 DEF AlertsInv
<1>6. InDomain(alerts', e.domain) = InDomain(alerts, e.domain)
  <2>1. \A a \in DOMAIN alerts : alerts'[a].config = alerts[a].config
    BY <1>2, EvaluatedType DEF AlertsInv
  <2> QED
    BY <1>2, <2>1 DEF InDomain
<1>7. PICK pos, seen :
        /\ pos = Max(reached \cup {w.pos})
        /\ seen = [a \in AlertIds |-> IF a \in reached THEN w.seen[a] + 1 ELSE w.seen[a]]
  OBVIOUS
<1>8. MaxAlerts \in Nat /\ w.pos \in 0 .. MaxAlerts /\ w.seen \in [AlertIds -> {0, 1}]
      /\ w.due \subseteq AlertIds /\ AlertIds \subseteq 0 .. MaxAlerts
  BY AlertsAssumption DEF Work, AlertIds
<1>9. /\ pos \in reached \cup {w.pos} /\ pos \in 0 .. MaxAlerts
      /\ \A y \in reached \cup {w.pos} : y <= pos
  <2> DEFINE T == reached \cup {w.pos}
  <2>1. T \in SUBSET (0 .. MaxAlerts) /\ T # {}
    BY <1>4, <1>8
  <2>2. pos = Max(T)
    BY <1>7
  <2> HIDE DEF T
  <2>3. pos \in T /\ \A y \in T : y <= pos
    BY <1>8, <2>1, <2>2, MaxOfBounded
  <2> QED
    BY <2>1, <2>3 DEF T
<1>10. /\ seen \in [AlertIds -> {0, 1}]
       /\ \A a \in AlertIds : seen[a] = IF a \in reached THEN 1 ELSE w.seen[a]
  <2>1. \A a \in reached : a \in AlertIds /\ a > w.pos /\ w.seen[a] = 0
    BY <1>3, <1>4 DEF Halfway
  <2> QED
    BY <1>7, <1>8, <2>1
<1>11. consumer' \in Work({"calling", "end", "thrown"})
       /\ consumer'.at = at /\ consumer'.pos = pos /\ consumer'.seen = seen
       /\ consumer'.due = w.due /\ consumer'.endpoint = e
  <2>1. consumer' = [w EXCEPT !.at = at, !.pos = pos, !.seen = seen]
    BY <1>2, <1>7 DEF Work
  <2>2. at \in {"calling", "end", "thrown"}
    BY <1>3
  <2> QED
    BY <1>9, <1>10, <2>1, <2>2 DEF Work
<1>12. ASSUME at = "calling", NEW a \in AlertIds
       PROVE  /\ a > pos => seen[a] = 0
              /\ a \in w.due /\ a <= pos => seen[a] = 1
  <2>1. a \in 0 .. MaxAlerts /\ e \in known
    BY <1>3, <1>8, <1>12
  <2>2. a > pos => a \notin reached /\ a > w.pos
    BY <1>8, <1>9, <2>1
  <2>3. ASSUME a \in w.due, a <= pos, a > w.pos PROVE a \in reached
    <3>1. a \in ahead
      BY <1>3, <2>3
    <3>2. pos \in reached
      BY <1>8, <1>9, <2>1, <2>3
    <3>3. ASSUME NEW s \in stops PROVE a < s \/ a = s
      <4>1. s \in 0 .. MaxAlerts /\ (pos < s \/ pos = s)
        BY <1>3, <1>4, <1>8, <3>2
      <4> QED
        BY <1>8, <1>9, <2>1, <2>3, <4>1
    <3> QED
      BY <1>3, <2>1, <3>1, <3>3
  <2>4. a \in w.due /\ a <= w.pos => w.seen[a] = 1
    BY DEF Halfway
  <2>5. a > w.pos => w.seen[a] = 0
    BY DEF Halfway
  <2>6. a <= w.pos \/ a > w.pos
    BY <1>8, <2>1
  <2> QED
    BY <1>10, <2>2, <2>3, <2>4, <2>5, <2>6
<1>13. ASSUME at = "end", NEW a \in w.due
       PROVE  seen[a] = 1
  <2>1. reached = ahead /\ a \in AlertIds /\ a \in 0 .. MaxAlerts
    BY <1>3, <1>8, <1>13
  <2>2. a > w.pos => a \in ahead
    BY <1>3
  <2>3. a <= w.pos => w.seen[a] = 1
    BY <2>1 DEF Halfway
  <2>4. a <= w.pos \/ a > w.pos
    BY <1>8, <2>1
  <2> QED
    BY <1>10, <2>1, <2>2, <2>3, <2>4
<1>14. IterationInv'
  BY <1>6, <1>11, <1>12, <1>13 DEF IterationInv, Halfway
<1> QED
  BY <1>5, <1>14
-----------------------------------------------------------------------------
(* The other actions.                                                       *)
LEMMA ConsumerUnchanged ==
  ASSUME IterationInv, UNCHANGED consumer,
         \A d : InDomain(alerts, d) \subseteq InDomain(alerts', d)
  PROVE  IterationInv'
<1>1. consumer.at # "idle" => consumer.due \subseteq InDomain(alerts', consumer.endpoint.domain)
  BY DEF IterationInv
<1> QED
  BY <1>1 DEF IterationInv, Halfway

LEMMA SetAlertKeeps ==
  ASSUME AlertsInv, IterationInv, NEW c \in Configs, set_alert(c)
  PROVE  AlertsInv' /\ IterationInv'
<1> DEFINE new == [config |-> c, timeout_age |-> 0, trigger_age |-> 0]
<1>1. /\ next_id \in Nat /\ next_id <= MaxAlerts /\ next_id' = next_id + 1 /\ MaxAlerts \in Nat
      /\ DOMAIN alerts' = DOMAIN alerts \cup {next_id} /\ next_id \notin DOMAIN alerts
      /\ UNCHANGED <<consumer, known>>
  BY AlertsAssumption DEF set_alert, AlertsInv
<1>2. /\ alerts'[next_id] = new
      /\ \A a \in DOMAIN alerts : alerts'[a] = alerts[a]
  BY <1>1 DEF set_alert
<1>3. new \in Info /\ new.timeout_age <= new.trigger_age
  BY AlertsAssumption DEF Info
<1> HIDE DEF new
<1>4. AlertsInv'
  <2>1. next_id' \in 1 .. MaxAlerts + 1 /\ DOMAIN alerts' \subseteq 1 .. next_id' - 1
    BY <1>1 DEF AlertsInv
  <2>2. \A a \in DOMAIN alerts' :
          alerts'[a] \in Info /\ alerts'[a].timeout_age <= alerts'[a].trigger_age
    BY <1>1, <1>2, <1>3 DEF AlertsInv
  <2> QED
    BY <1>1, <2>1, <2>2 DEF AlertsInv
<1>5. \A d : InDomain(alerts, d) \subseteq InDomain(alerts', d)
  BY <1>1, <1>2 DEF InDomain
<1> QED
  BY <1>1, <1>4, <1>5, ConsumerUnchanged

LEMMA RemoveAlertKeeps ==
  ASSUME ~ConcurrentRemove, AlertsInv, IterationInv, NEW a \in AlertIds, remove_alert(a)
  PROVE  AlertsInv' /\ IterationInv'
<1>1. /\ DOMAIN alerts' = DOMAIN alerts \ {a} /\ UNCHANGED <<next_id, known>>
      /\ \A b \in DOMAIN alerts \ {a} : alerts'[b] = alerts[b]
  BY DEF remove_alert
<1>2. AlertsInv'
  BY <1>1 DEF AlertsInv
<1>3. CASE consumer.at = "idle"
  <2>1. consumer' = NoWork
    BY <1>3 DEF remove_alert, IterationInv, Work
  <2> QED
    BY <1>2, <2>1 DEF IterationInv, NoWork
<1>4. CASE consumer.at # "idle"
  <2>1. PICK w \in Work({"calling", "end", "thrown"}) : w = consumer
    BY <1>4 DEF IterationInv, NoWork
  <2>2. consumer' = [w EXCEPT !.due = @ \ {a}]
    BY <1>4, <2>1 DEF remove_alert
  <2>3. /\ consumer' \in Work({"calling", "end", "thrown"})
        /\ consumer'.at = w.at /\ consumer'.pos = w.pos /\ consumer'.seen = w.seen
        /\ consumer'.endpoint = w.endpoint /\ consumer'.due = w.due \ {a}
    BY <2>1, <2>2 DEF Work
  <2>4. w.due \subseteq InDomain(alerts, w.endpoint.domain)
    BY <1>4, <2>1 DEF IterationInv
  <2>5. w.due \ {a} \subseteq InDomain(alerts', w.endpoint.domain)
    BY <1>1, <2>4 DEF InDomain
  <2>6. /\ w.at = "calling" => Halfway(w)
        /\ w.at = "end" => \A b \in w.due : w.seen[b] = 1
    BY <2>1 DEF IterationInv
  <2> QED
    BY <1>2, <2>3, <2>5, <2>6 DEF IterationInv, Halfway
<1> QED
  BY <1>3, <1>4

LEMMA InsertKeeps ==
  ASSUME AlertsInv, NEW e \in Endpoints, NEW value \in Values, insert(e, value)
  PROVE  AlertsInv' /\ IterationInv'
<1>1. PICK w : w = [at |-> "iterating", endpoint |-> e, value |-> value, pos |-> 0,
                    seen |-> [a \in AlertIds |-> 0], due |-> InDomain(alerts, e.domain)]
  OBVIOUS
<1>2. Iterate(w) /\ UNCHANGED <<next_id, known>>
  BY <1>1 DEF insert
<1>3. InDomain(alerts, e.domain) \subseteq AlertIds /\ 0 \in 0 .. MaxAlerts
  BY AlertsAssumption DEF AlertsInv, InDomain, AlertIds
<1>4. w \in Work({"iterating"})
  BY <1>1, <1>3 DEF Work
<1>5. w.due = InDomain(alerts, w.endpoint.domain) /\ w.pos = 0
      /\ \A a \in AlertIds : w.seen[a] = 0 /\ ~(a <= w.pos)
  BY <1>1 DEF AlertIds
<1>6. Halfway(w)
  BY <1>5 DEF Halfway
<1> QED
  BY <1>2, <1>4, <1>5, <1>6, IterateKeeps

LEMMA ResumeKeeps ==
  ASSUME AlertsInv, IterationInv, Resume
  PROVE  AlertsInv' /\ IterationInv'
<1>1. PICK v \in Work({"calling", "end", "thrown"}) : v = consumer /\ v.at = "calling"
  BY DEF Resume, IterationInv, NoWork
<1>2. PICK w : w = [v EXCEPT !.at = "iterating"]
  OBVIOUS
<1>3. Iterate(w) /\ UNCHANGED <<next_id, known>>
  BY <1>1, <1>2 DEF Resume
<1>4. /\ w \in Work({"iterating"}) /\ w.due = v.due /\ w.endpoint = v.endpoint
      /\ w.pos = v.pos /\ w.seen = v.seen
  BY <1>1, <1>2 DEF Work
<1>5. Halfway(w) /\ w.due \subseteq InDomain(alerts, w.endpoint.domain)
  BY <1>1, <1>4 DEF IterationInv, Halfway
<1> QED
  BY <1>3, <1>4, <1>5, IterateKeeps

(* Time and timeouts change the ages alone.                                 *)
LEMMA AgesKeep ==
  ASSUME AlertsInv, IterationInv, UNCHANGED <<next_id, consumer, known>>,
         check_alerts_timeouts \/ Tick
  PROVE  AlertsInv' /\ IterationInv'
<1>1. DOMAIN alerts' = DOMAIN alerts
  BY DEF check_alerts_timeouts, Tick
<1>2. ASSUME NEW a \in DOMAIN alerts
      PROVE  /\ alerts'[a] \in Info /\ alerts'[a].timeout_age <= alerts'[a].trigger_age
             /\ alerts'[a].config = alerts[a].config
  <2>1. PICK info \in Info : info = alerts[a] /\ info.timeout_age <= info.trigger_age
    BY DEF AlertsInv
  <2>2. /\ info.timeout_age \in 0 .. MaxAge /\ info.trigger_age \in 0 .. MaxAge
        /\ info.config \in Configs /\ 0 \in 0 .. MaxAge
    BY <2>1, AlertsAssumption DEF Info
  <2>3. CASE check_alerts_timeouts
    <3>1. alerts'[a] = info \/ alerts'[a] = [info EXCEPT !.timeout_age = 0]
      BY <2>1, <2>3 DEF check_alerts_timeouts
    <3>2. alerts'[a] = info \/ alerts'[a] = [config |-> info.config, timeout_age |-> 0,
                                             trigger_age |-> info.trigger_age]
      BY <3>1 DEF Info
    <3> QED
      BY <2>1, <2>2, <3>2 DEF Info
  <2>4. CASE Tick
    <3>1. PICK x, y : x = Older(info.timeout_age) /\ y = Older(info.trigger_age)
      OBVIOUS
    <3>2. x \in 0 .. MaxAge /\ y \in 0 .. MaxAge /\ x <= y
      BY <2>1, <2>2, <3>1, OlderType
    <3>3. alerts'[a] = [alerts[a] EXCEPT !.timeout_age = Older(@), !.trigger_age = Older(@)]
      BY <2>4 DEF Tick
    <3>4. alerts'[a] = [config |-> info.config, timeout_age |-> x, trigger_age |-> y]
      BY <2>1, <3>1, <3>3 DEF Info
    <3> QED
      BY <2>1, <2>2, <3>2, <3>4 DEF Info
  <2> QED
    BY <2>3, <2>4
<1>3. AlertsInv'
  BY <1>1, <1>2 DEF AlertsInv
<1>4. \A d : InDomain(alerts, d) \subseteq InDomain(alerts', d)
  BY <1>1, <1>2 DEF InDomain
<1> QED
  BY <1>3, <1>4, ConsumerUnchanged

LEMMA AlertsStep ==
  ASSUME ~ConcurrentRemove, AlertsInv, IterationInv, [Next]_vars
  PROVE  AlertsInv' /\ IterationInv'
<1>1. ASSUME UNCHANGED <<alerts, next_id, consumer, known>> PROVE AlertsInv' /\ IterationInv'
  <2>1. AlertsInv'
    BY <1>1 DEF AlertsInv
  <2> QED
    BY <1>1, <2>1, ConsumerUnchanged
<1>2. ASSUME NEW c \in Configs, set_alert(c) PROVE AlertsInv' /\ IterationInv'
  BY <1>2, SetAlertKeeps
<1>3. ASSUME NEW a \in AlertIds, remove_alert(a) PROVE AlertsInv' /\ IterationInv'
  BY <1>3, RemoveAlertKeeps
<1>4. ASSUME NEW e \in Endpoints, ClearEndpoint(e) PROVE AlertsInv' /\ IterationInv'
  <2>1. AlertsInv' /\ UNCHANGED <<alerts, consumer>>
    BY <1>4 DEF ClearEndpoint, AlertsInv
  <2> QED
    BY <2>1, ConsumerUnchanged
<1>5. ASSUME NEW e \in Endpoints, NEW value \in Values, insert(e, value)
      PROVE  AlertsInv' /\ IterationInv'
  BY <1>5, InsertKeeps
<1>6. CASE Resume
  BY <1>6, ResumeKeeps
<1>7. CASE InsertReturns
  <2>1. consumer' = NoWork /\ UNCHANGED <<alerts, next_id, known>>
    BY <1>7 DEF InsertReturns
  <2>2. NoWork.at = "idle"
    BY DEF NoWork
  <2> QED
    BY <2>1, <2>2 DEF AlertsInv, IterationInv
<1>8. CASE check_alerts_timeouts
  <2>1. UNCHANGED <<next_id, consumer, known>>
    BY <1>8 DEF check_alerts_timeouts
  <2> QED
    BY <1>8, <2>1, AgesKeep
<1>9. CASE Tick
  <2>1. UNCHANGED <<next_id, consumer, known>>
    BY <1>9 DEF Tick
  <2> QED
    BY <1>9, <2>1, AgesKeep
<1>10. CASE on_alert_timeout \/ WatcherLoop \/ StopFlag \/ Stopper
  BY <1>1, <1>10 DEF on_alert_timeout, WatcherLoop, StopFlag, Stopper, StopNotify, StopJoin
<1>11. CASE UNCHANGED vars
  BY <1>1, <1>11 DEF vars
<1> QED
  BY <1>2, <1>3, <1>4, <1>5, <1>6, <1>7, <1>8, <1>9, <1>10, <1>11 DEF Next, Consumer, Watcher

LEMMA AlertsStart == Init => AlertsInv /\ IterationInv
<1> SUFFICES ASSUME Init PROVE AlertsInv /\ IterationInv
  OBVIOUS
<1>1. DOMAIN alerts = {}
  BY DEF Init
<1>2. AlertsInv
  BY <1>1, AlertsAssumption DEF Init, AlertsInv
<1>3. NoWork.at = "idle"
  BY DEF NoWork
<1> QED
  BY <1>2, <1>3 DEF Init, IterationInv

(* Each alert of the domain that is not removed is evaluated for a sample,  *)
(* and none twice, whatever other alerts are added or removed while         *)
(* trigger_alerts_of_kind_nts() has released the mutex for a callback; only *)
(* the alert of that callback may not be removed.                           *)
THEOREM EachAlertOnce ==
  ASSUME ~ConcurrentRemove
  PROVE  Spec => []EveryAlertEvaluated
<1>1. AlertsInv /\ IterationInv /\ [Next]_vars => AlertsInv' /\ IterationInv'
  BY AlertsStep
<1>2. IterationInv => EveryAlertEvaluated
  <2> SUFFICES ASSUME IterationInv, consumer.at # "idle", NEW a \in AlertIds
               PROVE  /\ consumer.seen[a] <= 1
                      /\ consumer.at = "end" /\ a \in consumer.due => consumer.seen[a] = 1
    BY DEF EveryAlertEvaluated
  <2>1. consumer.seen \in [AlertIds -> {0, 1}]
    BY DEF IterationInv, NoWork, Work
  <2> QED
    BY <2>1 DEF IterationInv
<1> QED
  BY <1>1, <1>2, AlertsStart, PTL DEF Spec

(* Types; in particular identifiers are below next_alert_id_, and no        *)
(* timeout is measured from before the last trigger.                        *)
THEOREM AlertsTypeCorrect ==
  ASSUME ~ConcurrentRemove
  PROVE  Spec => []AlertsTypeOK
<1>1. AlertsInv /\ IterationInv /\ [Next]_vars => AlertsInv' /\ IterationInv'
  BY AlertsStep
<1>2. Init => ThreadsInv
  BY DEF Init, ThreadsInv
<1>3. ThreadsInv /\ [Next]_vars => ThreadsInv'
  <2> SUFFICES ASSUME ThreadsInv, [Next]_vars PROVE ThreadsInv'
    OBVIOUS
  <2>1. ASSUME UNCHANGED <<watcher, stopper>> PROVE ThreadsInv'
    BY <2>1 DEF ThreadsInv
  <2>2. CASE check_alerts_timeouts
    BY <2>2 DEF check_alerts_timeouts, ThreadsInv
  <2>3. CASE on_alert_timeout
    BY <2>3 DEF on_alert_timeout, ThreadsInv
  <2>4. CASE WatcherLoop
    BY <2>4 DEF WatcherLoop, ThreadsInv
  <2>5. CASE StopFlag \/ StopJoin
    BY <2>5 DEF StopFlag, StopJoin, ThreadsInv
  <2>6. CASE StopNotify
    BY <2>6 DEF StopNotify, ThreadsInv
  <2>7. \A c, a, e, v : set_alert(c) \/ remove_alert(a) \/ ClearEndpoint(e) \/ insert(e, v)
                          => UNCHANGED <<watcher, stopper>>
    BY DEF set_alert, remove_alert, ClearEndpoint, insert
  <2>8. Resume \/ InsertReturns \/ Tick \/ UNCHANGED vars => UNCHANGED <<watcher, stopper>>
    BY DEF Resume, InsertReturns, Tick, vars
  <2> QED
    BY <2>1, <2>2, <2>3, <2>4, <2>5, <2>6, <2>7, <2>8 DEF Next, Consumer, Watcher, Stopper
<1>4. AlertsInv /\ IterationInv /\ ThreadsInv => AlertsTypeOK
  <2> SUFFICES ASSUME AlertsInv, IterationInv, ThreadsInv PROVE AlertsTypeOK
    OBVIOUS
  <2>1. ASSUME NEW a \in DOMAIN alerts
        PROVE  /\ alerts[a].config \in Configs
               /\ alerts[a].timeout_age \in 0 .. alerts[a].trigger_age
               /\ alerts[a].trigger_age \in 0 .. MaxAge
    BY AlertsAssumption DEF AlertsInv, Info
  <2>2. consumer.at \in {"idle", "calling", "end", "thrown"}
    BY DEF IterationInv, NoWork, Work
  <2>3. consumer.at # "idle" => consumer.due \subseteq AlertIds /\ consumer.pos \in 0 .. MaxAlerts
    BY DEF IterationInv, NoWork, Work
  <2> QED
    BY <2>1, <2>2, <2>3 DEF AlertsInv, ThreadsInv, AlertsTypeOK
<1> QED
  BY <1>1, <1>2, <1>3, <1>4, AlertsStart, PTL DEF Spec
=============================================================================
