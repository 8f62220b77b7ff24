----------------------- MODULE DatabaseActivityProofs -----------------------
(***************************************************************************)
(* Proofs about what EntityDatabase shows as active and what it tells the  *)
(* listeners, for every network.  The first part holds with the            *)
(* application clearing at any time; the second is about an application    *)
(* that clears while no sample is being processed.                         *)
(***************************************************************************)
EXTENDS EntityDatabaseProofs

(* The entities a change of status is notified for through `tell'.          *)
Announced == Physical \cup Topics

Due(x) == \E i \in 1 .. Len(tell) : tell[i].entity = x

(* No notification of an entity that turned active is followed by that of   *)
(* what it is in.                                                           *)
TopDown(s) ==
  \A i \in 1 .. Len(s) :
    s[i] \in Users \cup Processes =>
      \A j \in i .. Len(s) : s[j] # Parent[s[i]]

(* A notification that is due says what is the case, parents come before    *)
(* their children, and of any other entity the listeners know the status.   *)
TellInv ==
  /\ \A i \in 1 .. Len(tell) :
       /\ tell[i].entity \in Announced
       /\ tell[i].on <=> tell[i].entity \in active
       /\ tell[i].on /\ tell[i].entity \in Users \cup Processes =>
            \A j \in i .. Len(tell) : tell[j].entity # Parent[tell[i].entity]
  /\ \A x \in Announced : Due(x) \/ (x \in told <=> x \in active)

(* A host, user or process that is active has something active in it.       *)
PhysicalInv ==
  \A x \in active \cap Physical :
    \E y \in active \cap (Users \cup Processes \cup linked) : Parent[y] = x
-----------------------------------------------------------------------------
LEMMA KindsApart ==
  /\ DDSEntities \cap Announced = {}
  /\ Physical \cap Topics = {}
  /\ Participants \cap Endpoints = {}
  /\ Physical \subseteq Entities /\ Topics \subseteq Entities
  /\ DDSEntities \subseteq Entities
BY KindsAssumption DEF DDSEntities, Announced, Physical, Entities, Tree

(* What rises or falls is physical, and it rises from the top.              *)
LEMMA RiseTopDown ==
  ASSUME NEW x \in Processes
  PROVE  Rise(x) \in Seq(Announced) /\ TopDown(Rise(x))
<1> DEFINE u == Parent[x]
           h == Parent[u]
<1>1. /\ x \in Announced /\ u \in Announced /\ h \in Announced
      /\ u \in Users /\ h \in Hosts /\ h \notin Users \cup Processes
      /\ x # u /\ x # h /\ u # h
  BY Chain, KindsAssumption DEF Announced, Physical
<1> HIDE DEF u, h
<1>2. <<>> \in Seq(Announced) /\ TopDown(<<>>)
  BY DEF TopDown
<1>3. <<x>> \in Seq(Announced) /\ TopDown(<<x>>)
  BY <1>1 DEF TopDown, u
<1>4. <<u, x>> \in Seq(Announced) /\ TopDown(<<u, x>>)
  <2>1. <<u, x>> \in Seq(Announced) /\ Len(<<u, x>>) = 2 /\ <<u, x>>[1] = u /\ <<u, x>>[2] = x
    BY <1>1
  <2>2. Parent[x] = u /\ Parent[u] = h
    BY DEF u, h
  <2> QED
    BY <1>1, <2>1, <2>2 DEF TopDown
<1>5. <<h, u, x>> \in Seq(Announced) /\ TopDown(<<h, u, x>>)
  <2>1. /\ <<h, u, x>> \in Seq(Announced) /\ Len(<<h, u, x>>) = 3
        /\ <<h, u, x>>[1] = h /\ <<h, u, x>>[2] = u /\ <<h, u, x>>[3] = x
    BY <1>1
  <2>2. Parent[x] = u /\ Parent[u] = h
    BY DEF u, h
  <2> QED
    BY <1>1, <2>1, <2>2 DEF TopDown
<1> QED
  BY <1>2, <1>3, <1>4, <1>5 DEF Rise, u, h

LEMMA FallType ==
  ASSUME NEW p \in Participants
  PROVE  Fall(p) \in Seq(Announced)
<1> DEFINE x == Parent[p]
           u == Parent[x]
           h == Parent[u]
<1>1. x \in Announced /\ u \in Announced /\ h \in Announced
  BY Chain DEF Announced, Physical
<1>2. /\ <<>> \in Seq(Announced) /\ <<x>> \in Seq(Announced)
      /\ <<u, x>> \in Seq(Announced) /\ <<h, u, x>> \in Seq(Announced)
  BY <1>1
<1> QED
  BY <1>2 DEF Fall

(* The four ways in which a step may touch what listeners are told.         *)
(* It changes nothing about physical entities and topics.                   *)
LEMMA TellKept ==
  ASSUME TellInv, UNCHANGED tell,
         \A x \in Announced : /\ x \in told' <=> x \in told
                              /\ x \in active' <=> x \in active
  PROVE  TellInv'
BY DEF TellInv, Due

(* It changes the status of those it is about to tell.                      *)
LEMMA TellStarts ==
  ASSUME TellInv, tell = <<>>, NEW s \in Seq(Announced), NEW on \in BOOLEAN,
         tell' = Tells(s, on), on => TopDown(s),
         \A x \in Announced :
           /\ x \in told' <=> x \in told
           /\ x \in active' <=> IF x \in Range(s) THEN on ELSE x \in active
  PROVE  TellInv'
<1>1. /\ Len(s) \in Nat /\ Len(tell') = Len(s)
      /\ \A i \in 1 .. Len(s) : /\ tell'[i].entity = s[i] /\ tell'[i].on = on
                                /\ s[i] \in Announced /\ s[i] \in Range(s)
  <2>1. Len(s) \in Nat /\ DOMAIN s = 1 .. Len(s)
    OBVIOUS
  <2>2. Len(Tells(s, on)) = Len(s)
    BY <2>1 DEF Tells
  <2>3. ASSUME NEW i \in 1 .. Len(s)
        PROVE  /\ Tells(s, on)[i].entity = s[i] /\ Tells(s, on)[i].on = on
               /\ s[i] \in Announced /\ s[i] \in Range(s)
    BY <2>1 DEF Tells, Range
  <2> QED
    BY <2>1, <2>2, <2>3
<1>2. ASSUME NEW i \in 1 .. Len(tell')
      PROVE  /\ tell'[i].entity \in Announced
             /\ tell'[i].on <=> tell'[i].entity \in active'
             /\ tell'[i].on /\ tell'[i].entity \in Users \cup Processes =>
                  \A j \in i .. Len(tell') : tell'[j].entity # Parent[tell'[i].entity]
  <2>1. i \in 1 .. Len(s) /\ \A j \in i .. Len(s) : j \in 1 .. Len(s)
    BY <1>1
  <2>2. tell'[i].on <=> tell'[i].entity \in active'
    BY <1>1, <2>1
  <2>3. ASSUME on, s[i] \in Users \cup Processes, NEW j \in i .. Len(s)
        PROVE  s[j] # Parent[s[i]]
    BY <2>1, <2>3 DEF TopDown
  <2> QED
    BY <1>1, <2>1, <2>2, <2>3
<1>3. ASSUME NEW x \in Announced, x \in Range(s)
      PROVE  \E i \in 1 .. Len(tell') : tell'[i].entity = x
  <2>1. PICK i \in 1 .. Len(s) : s[i] = x
    BY <1>3 DEF Range
  <2> QED
    BY <1>1, <2>1
<1>4. ASSUME NEW x \in Announced, x \notin Range(s)
      PROVE  x \in told' <=> x \in active'
  <2>1. ~Due(x)
    BY DEF Due
  <2> QED
    BY <1>4, <2>1 DEF TellInv
<1> QED
  BY <1>2, <1>3, <1>4 DEF TellInv, Due

(* It calls a listener.                                                     *)
LEMMA TellCalls ==
  ASSUME DBInv, TellInv, execute_without_lock
  PROVE  TellInv'
<1> DEFINE n == Head(tell)
<1>1. /\ tell # <<>> /\ tell' = Tail(tell) /\ UNCHANGED active
      /\ told' = IF n.on THEN told \cup {n.entity} ELSE told \ {n.entity}
  BY DEF execute_without_lock, entities
<1>2. tell \in Seq([entity : Entities, on : BOOLEAN])
  BY DEF DBInv, DBTypeOK
<1>3. /\ Len(tell) \in Nat /\ Len(tell) # 0 /\ Len(tell') = Len(tell) - 1
      /\ \A i \in 1 .. Len(tell') : tell'[i] = tell[i + 1]
      /\ n = tell[1]
  BY <1>1, <1>2
<1>4. ASSUME NEW i \in 1 .. Len(tell')
      PROVE  /\ tell'[i].entity \in Announced
             /\ tell'[i].on <=> tell'[i].entity \in active'
             /\ tell'[i].on /\ tell'[i].entity \in Users \cup Processes =>
                  \A j \in i .. Len(tell') : tell'[j].entity # Parent[tell'[i].entity]
  <2>1. i + 1 \in 1 .. Len(tell) /\ \A j \in i .. Len(tell') : /\ j \in 1 .. Len(tell')
                                                              /\ j + 1 \in (i + 1) .. Len(tell)
    BY <1>3
  <2> QED
    BY <1>1, <1>3, <2>1 DEF TellInv
<1>5. ASSUME NEW x \in Announced, \A i \in 1 .. Len(tell') : tell'[i].entity # x
      PROVE  x \in told' <=> x \in active'
  <2>1. CASE x = n.entity
    <3>1. n.on <=> x \in active
      BY <1>3, <2>1 DEF TellInv
    <3> QED
      BY <1>1, <2>1, <3>1
  <2>2. CASE x # n.entity
    <3>1. ASSUME NEW i \in 1 .. Len(tell) PROVE tell[i].entity # x
      <4>1. i = 1 \/ (i - 1 \in 1 .. Len(tell') /\ i = (i - 1) + 1)
        BY <1>3
      <4> QED
        BY <1>3, <1>5, <2>2, <4>1
    <3>2. x \in told <=> x \in active
      BY <3>1 DEF TellInv, Due
    <3> QED
      BY <1>1, <2>2, <3>2
  <2> QED
    BY <2>1, <2>2
<1> QED
  BY <1>4, <1>5 DEF TellInv, Due

LEMMA NothingTold ==
  ASSUME NEW on
  PROVE  /\ <<>> \in Seq(Announced) /\ TopDown(<<>>) /\ Range(<<>>) = {}
         /\ Tells(<<>>, on) = <<>>
BY DEF TopDown, Range, Tells

(* Setting the status of an endpoint tells of its topic, if that changes.   *)
LEMMA EndpointTells ==
  ASSUME NEW e \in Endpoints, NEW on \in BOOLEAN, NEW held \in BOOLEAN, DBInv,
         tell = <<>>, change_endpoint_status(e, on, held)
  PROVE  \E s \in Seq(Announced) :
           /\ tell' = Tells(s, on) /\ TopDown(s)
           /\ \A x \in Announced :
                x \in active' <=> IF x \in Range(s) THEN on ELSE x \in active
<1> DEFINE t == TopicOf[e]
<1>1. t \in Announced /\ t \in Topics /\ e \notin Announced /\ t \notin Users \cup Processes
  BY Chain, KindsAssumption DEF Announced, Physical
<1>2. <<t>> \in Seq(Announced) /\ TopDown(<<t>>) /\ Range(<<t>>) = {t}
  BY <1>1 DEF TopDown, Range
<1>3. CASE UNCHANGED <<active, tell>>
  BY <1>3, NothingTold
<1>4. CASE ~UNCHANGED <<active, tell>>
  <2> DEFINE changes == EndpointChanges(e, on)
             change_status == changes /\ IF on THEN t \notin active ELSE Unused(t, e)
             topic_changes == change_status /\ (t \in active) # on
             changed == (IF changes THEN {e} ELSE {})
                        \cup (IF topic_changes THEN {t} ELSE {})
  <2>1. /\ active' = (IF on THEN active \cup changed ELSE active \ changed)
        /\ tell' = IF topic_changes THEN Tells(<<t>>, on) ELSE <<>>
    BY <1>4 DEF change_endpoint_status
  <2>2. CASE topic_changes
    BY <1>1, <1>2, <2>1, <2>2
  <2>3. CASE ~topic_changes
    <3>1. tell' = Tells(<<>>, on) /\ \A x \in Announced : x \in active' <=> x \in active
      BY <1>1, <2>1, <2>3, NothingTold
    <3> QED
      BY <3>1, NothingTold
  <2> QED
    BY <2>2, <2>3
<1> QED
  BY <1>3, <1>4

(* A step tells of what it raises or makes fall.                            *)
LEMMA TellRise ==
  ASSUME DBInv, TellInv, tell = <<>>, NEW p \in Participants, NEW rising,
         rising = Rise(Parent[p]) \/ rising = <<>>,
         active' = active \cup Range(rising) \/ active' = active \cup {p} \cup Range(rising),
         tell' = Tells(rising, TRUE), UNCHANGED told
  PROVE  TellInv'
<1>1. rising \in Seq(Announced) /\ TopDown(rising)
  BY Chain, RiseTopDown, NothingTold
<1>2. p \notin Announced
  BY KindsApart DEF DDSEntities
<1> QED
  BY <1>1, <1>2, TellStarts

LEMMA TellFall ==
  ASSUME DBInv, TellInv, tell = <<>>, NEW p \in Participants, NEW falling,
         falling = Fall(p) \/ falling = <<>>,
         active' = active \ ({p} \cup Range(falling)),
         tell' = Tells(falling, FALSE), UNCHANGED told
  PROVE  TellInv'
<1>1. falling \in Seq(Announced)
  BY FallType, NothingTold
<1>2. p \notin Announced
  BY KindsApart DEF DDSEntities
<1> QED
  BY <1>1, <1>2, TellStarts

LEMMA TellNext ==
  ASSUME DBInv, TellInv, [DBNext]_dbvars
  PROVE  TellInv'
<1>0. task \in TaskType
  BY DEF DBInv, DBTypeOK, TaskType
<1>1. ASSUME UNCHANGED <<active, tell>>,
             \/ UNCHANGED told
             \/ \E x \in DDSEntities : told' = told \cup {x} \/ told' = told \ {x}
      PROVE  TellInv'
  BY <1>1, TellKept, KindsApart
<1>2. CASE UNCHANGED dbvars
  BY <1>1, <1>2 DEF dbvars, entities
<1>3. CASE \/ \E x \in DDSEntities, status \in Statuses : process_sample(x, status)
           \/ get_entity_kind \/ LookupTopic \/ FindTopic \/ UpdateInfoGraph
           \/ \E d \in Domains : clear_inactive_entities(d) \/ regenerate_domain_graph(d)
  BY <1>1, <1>3 DEF process_sample, get_entity_kind, LookupTopic, FindTopic,
     UpdateInfoGraph, clear_inactive_entities, regenerate_domain_graph, entities
<1>4. CASE update_participant_in_graph \/ update_endpoint_in_graph
  <2>1. UNCHANGED <<active, tell>> /\ task.entity \in DDSEntities
    BY <1>4 DEF update_participant_in_graph, update_endpoint_in_graph, entities, At,
       DBInv, TaskInv, DDSEntities
  <2>2. UNCHANGED told \/ Notify
    BY <1>4 DEF update_participant_in_graph, update_endpoint_in_graph
  <2> QED
    BY <1>1, <2>1, <2>2 DEF Notify
<1>5. CASE execute_without_lock
  BY <1>5, TellCalls
<1>6. CASE insert_new_participant \/ insert_new_endpoint
  <2>1. /\ UNCHANGED <<told, tell>> /\ task.entity \in DDSEntities
        /\ active' = active \/ active' = active \cup {task.entity}
    BY <1>6 DEF insert_new_participant, insert_new_endpoint, At, DBInv, TaskInv, DDSEntities
  <2> QED
    BY <2>1, TellKept, KindsApart
<1>7. CASE insert_new_topic
  <2> DEFINE t == TopicOf[task.entity]
  <2>1. UNCHANGED tell /\ tell = <<>> /\ active' = active \cup {t} /\ told' = told \cup {t}
    BY <1>7 DEF insert_new_topic, At
  <2>2. \A x : ~Due(x)
    BY <2>1 DEF Due
  <2> QED
    BY <2>1, <2>2 DEF TellInv, Due
<1>8. CASE ChangeParticipant
  <2> DEFINE p == task.entity
  <2>1. p \in Participants /\ tell = <<>> /\ UNCHANGED told
    BY <1>8 DEF ChangeParticipant, At
  <2>2. CASE ParticipantActive(p)
    <3> DEFINE rising == IF p \in linked THEN Rise(Parent[p]) ELSE <<>>
    <3>1. active' = active \cup {p} \cup Range(rising) /\ tell' = Tells(rising, TRUE)
      BY <2>2 DEF ParticipantActive
    <3>2. rising = Rise(Parent[p]) \/ rising = <<>>
      OBVIOUS
    <3> HIDE DEF rising
    <3> QED
      BY <2>1, <3>1, <3>2, TellRise
  <2>3. CASE ParticipantInactive(p)
    <3> DEFINE falling == IF p \in linked THEN Fall(p) ELSE <<>>
    <3>1. active' = active \ ({p} \cup Range(falling)) /\ tell' = Tells(falling, FALSE)
      BY <2>3 DEF ParticipantInactive
    <3>2. falling = Fall(p) \/ falling = <<>>
      OBVIOUS
    <3> HIDE DEF falling
    <3> QED
      BY <2>1, <3>1, <3>2, TellFall
  <2> QED
    BY <1>1, <1>8, <2>1, <2>2, <2>3 DEF ChangeParticipant
<1>9. CASE ChangeEndpoint \/ \E e \in Endpoints : EndpointInactive(e)
  <2>1. tell = <<>> /\ UNCHANGED told
    BY <1>9 DEF ChangeEndpoint, EndpointInactive, At
  <2>2. PICK e \in Endpoints, on \in BOOLEAN, held \in BOOLEAN :
          change_endpoint_status(e, on, held)
    <3>1. (task.status # "UNDISCOVERY") \in BOOLEAN
      OBVIOUS
    <3> QED
      BY <1>9, <3>1 DEF ChangeEndpoint, EndpointInactive
  <2> QED
    BY <2>1, <2>2, EndpointTells, TellStarts
<1>10. CASE update_participant_discovery_info \/ process_physical_entities
  <2> DEFINE p == task.entity
  <2>1. p \in Participants /\ tell = <<>> /\ UNCHANGED told
    BY <1>10 DEF update_participant_discovery_info, process_physical_entities, At,
       DBInv, TaskInv
  <2>2. \/ UNCHANGED <<active, tell>>
        \/ \E rising \in {Rise(Parent[p]), <<>>} :
             active' = active \cup Range(rising) /\ tell' = Tells(rising, TRUE)
    BY <1>10 DEF update_participant_discovery_info, process_physical_entities, LinkRises
  <2> QED
    BY <1>1, <2>1, <2>2, TellRise
<1> QED
  BY <1>2, <1>3, <1>4, <1>5, <1>6, <1>7, <1>8, <1>9, <1>10 DEF DBNext

LEMMA TellInvariance == DBSpec => []TellInv
<1>1. DBInit => TellInv
  BY DEF DBInit, TellInv, Due
<1>2. DBInv /\ TellInv /\ [DBNext]_dbvars => TellInv'
  BY TellNext
<1> QED
  BY <1>1, <1>2, Invariance, PTL DEF DBSpec

(* A listener learns of a user after its host and of a process after its    *)
(* user, whatever the application clears meanwhile.                         *)
THEOREM HostsToldFirst == DBSpec => ParentToldFirst
<1>1. ASSUME DBInv, TellInv, [DBNext]_dbvars,
             NEW x \in (told' \ told) \cap (Users \cup Processes)
      PROVE  Parent[x] \in told
  <2>0. task \in TaskType /\ x \in Announced /\ x \notin DDSEntities /\ x \notin Topics
    BY <1>1, KindsAssumption DEF DBInv, DBTypeOK, TaskType, Announced, Physical, DDSEntities
  <2>1. CASE Notify
    <3>1. x = task.entity
      BY <1>1, <2>1 DEF Notify
    <3>2. NoEntity \notin Users \cup Processes
      BY KindsAssumption DEF Entities, Tree, Physical
    <3> QED
      BY <2>0, <3>1, <3>2 DEF TaskType
  <2>2. CASE insert_new_topic
    <3>1. x = TopicOf[task.entity] /\ task.entity \in Endpoints
      BY <1>1, <2>2 DEF insert_new_topic, At, DBInv, TaskInv
    <3> QED
      BY <2>0, <3>1, Chain
  <2>3. CASE execute_without_lock
    <3>1. Head(tell).on /\ x = Head(tell).entity /\ tell # <<>>
      BY <1>1, <2>3 DEF execute_without_lock
    <3>2. 1 \in 1 .. Len(tell) /\ tell[1].on /\ tell[1].entity = x
      BY <3>1 DEF DBInv, DBTypeOK
    <3>3. x \in active /\ \A j \in 1 .. Len(tell) : tell[j].entity # Parent[x]
      BY <1>1, <3>2 DEF TellInv
    <3>4. Parent[x] \in active /\ Parent[x] \in Announced
      BY <1>1, <3>3, Chain DEF DBInv, ActiveInv, Announced, Physical
    <3> QED
      BY <1>1, <3>3, <3>4 DEF TellInv, Due
  <2>4. told' = told \/ Notify \/ insert_new_topic \/ execute_without_lock
    BY <1>1 DEF DBNext, dbvars, process_sample, get_entity_kind, ChangeParticipant,
       ChangeEndpoint, EndpointInactive, insert_new_participant,
       update_participant_discovery_info, UpdateInfoGraph, process_physical_entities,
       update_participant_in_graph, update_endpoint_in_graph, LookupTopic, FindTopic,
       insert_new_endpoint, clear_inactive_entities, regenerate_domain_graph
  <2> QED
    BY <1>1, <2>1, <2>2, <2>3, <2>4
<1>2. DBInv /\ TellInv /\ [DBNext]_dbvars =>
        [\A x \in (told' \ told) \cap (Users \cup Processes) : Parent[x] \in told]_dbvars
  BY <1>1
<1> QED
  BY <1>2, Invariance, TellInvariance, PTL DEF DBSpec, ParentToldFirst
-----------------------------------------------------------------------------
(* What a host, user or process refers to.                                  *)
LEMMA PhysicalMembers ==
  ASSUME DBInv, NEW x \in Physical, NEW y
  PROVE  y \in Members(x) /\ y \in active <=>
           y \in active \cap (Users \cup Processes \cup linked) /\ Parent[y] = x
<1>1. x \notin Topics /\ x \notin Participants
  BY KindsAssumption DEF Physical
<1>2. /\ active \subseteq stored /\ stored \subseteq Entities
      /\ linked \subseteq Participants /\ orphans \subseteq Endpoints
  BY DEF DBInv, DBTypeOK
<1>3. y \in Endpoints => Parent[y] # x
  BY <1>1, Chain
<1>4. y \in Users \cup Processes \cup linked => y \in Tree \ Hosts /\ y \notin Endpoints
  BY <1>2, KindsAssumption DEF Tree, Physical
<1>5. y \in Tree \ Hosts => y \in Users \cup Processes \cup Participants \cup Endpoints
  BY DEF Tree, Physical
<1>6. y \in Participants => y \notin Users \cup Processes
  BY KindsAssumption
<1> QED
  BY <1>1, <1>2, <1>3, <1>4, <1>5, <1>6 DEF Members

(* What is active and does not fall with what is below it is in use.        *)
LEMMA FallExact ==
  ASSUME NEW p \in Participants
  PROVE  LET x == Parent[p]
             u == Parent[x]
             h == Parent[u]
             S == Range(Fall(p))
         IN  /\ x \in active /\ x \notin S => ~Unused(x, p)
             /\ x \in S /\ u \in active /\ u \notin S => ~Unused(u, x)
             /\ u \in S /\ h \in active /\ h \notin S => ~Unused(h, u)
<1> DEFINE x == Parent[p]
           u == Parent[x]
           h == Parent[u]
<1>1. x # u /\ u # h /\ x # h
  BY Chain, KindsAssumption
<1>2. /\ Range(<<>>) = {} /\ Range(<<x>>) = {x} /\ Range(<<u, x>>) = {u, x}
      /\ Range(<<h, u, x>>) = {h, u, x}
  BY DEF Range
<1> HIDE DEF x, u, h
<1>3. CASE ~Falls(x, p)
  <2>1. Fall(p) = <<>>
    BY <1>3 DEF Fall, x
  <2> QED
    BY <1>2, <1>3, <2>1 DEF Falls, x
<1>4. CASE Falls(x, p) /\ ~Falls(u, x)
  <2>1. Fall(p) = <<x>>
    BY <1>4 DEF Fall, x, u
  <2> QED
    BY <1>1, <1>2, <1>4, <2>1 DEF Falls, x, u, h
<1>5. CASE Falls(x, p) /\ Falls(u, x) /\ ~Falls(h, u)
  <2>1. Fall(p) = <<u, x>>
    BY <1>5 DEF Fall, x, u, h
  <2> QED
    BY <1>1, <1>2, <1>5, <2>1 DEF Falls, x, u, h
<1>6. CASE Falls(x, p) /\ Falls(u, x) /\ Falls(h, u)
  <2>1. Fall(p) = <<h, u, x>>
    BY <1>6 DEF Fall, x, u, h
  <2> QED
    BY <1>1, <1>2, <1>6, <2>1 DEF x, u, h
<1> QED
  BY <1>3, <1>4, <1>5, <1>6

LEMMA PhysicalRise ==
  ASSUME DBInv, PhysicalInv, NEW p \in Participants, p \in linked',
         active' = active \cup {p} \cup Range(Rise(Parent[p])),
         linked \subseteq linked'
  PROVE  PhysicalInv'
<1> DEFINE x == Parent[p]
           u == Parent[x]
           h == Parent[u]
<1>1. x \in Processes /\ u \in Users /\ h \in Hosts
  BY Chain
<1>2. Range(Rise(x)) \subseteq {x, u, h} /\ {x, u, h} \subseteq active'
  BY <1>1, RiseFacts DEF DBInv
<1>3. p \notin Physical
  BY KindsAssumption DEF Physical
<1>4. ASSUME NEW z \in active' \cap Physical
      PROVE  \E y \in active' \cap (Users \cup Processes \cup linked') : Parent[y] = z
  <2>1. CASE z \in active
    BY <2>1, <1>4 DEF PhysicalInv
  <2>2. CASE z \in {x, u, h}
    BY <1>1, <1>2, <2>2
  <2> QED
    BY <1>2, <1>3, <1>4, <2>1, <2>2
<1> QED
  BY <1>4 DEF PhysicalInv

LEMMA PhysicalFall ==
  ASSUME DBInv, PhysicalInv, NEW p \in linked,
         active' = active \ ({p} \cup Range(Fall(p))), UNCHANGED linked
  PROVE  PhysicalInv'
<1> DEFINE x == Parent[p]
           u == Parent[x]
           h == Parent[u]
           S == Range(Fall(p))
           Holders == Users \cup Processes \cup linked
<1>0. p \in Participants /\ linked \subseteq Participants
  BY DEF DBInv, DBTypeOK
<1>1. /\ x \in Processes /\ u \in Users /\ h \in Hosts
      /\ x \in Physical /\ u \in Physical /\ h \in Physical
      /\ h \notin Holders /\ p \notin Physical
  BY <1>0, Chain, KindsAssumption DEF Physical
<1>2. S \subseteq {x, u, h}
  BY <1>0, FallFacts
<1>3. /\ x \in active /\ x \notin S => ~Unused(x, p)
      /\ x \in S /\ u \in active /\ u \notin S => ~Unused(u, x)
      /\ u \in S /\ h \in active /\ h \notin S => ~Unused(h, u)
  BY <1>0, FallExact
<1> HIDE DEF S
(* Another member keeps it active, and that one does not fall.              *)
<1>4. ASSUME NEW z \in Physical, NEW left, ~Unused(z, left), z \notin S,
             \/ z = x /\ left = p
             \/ z = u /\ left = x
             \/ z = h /\ left = u
      PROVE  \E y \in active' \cap Holders : Parent[y] = z
  <2>1. PICK y \in Members(z) : y # left /\ y \in active
    BY <1>4 DEF Unused
  <2>2. y \in active \cap Holders /\ Parent[y] = z
    BY <2>1, PhysicalMembers
  <2>3. y \in Processes \/ y \in Users \/ y \in Participants
    BY <1>0, <2>2
  <2>4. Parent[p] = x /\ Parent[x] = u /\ Parent[u] = h
    OBVIOUS
  <2>5. x # u /\ u # h /\ x # h /\ p # x /\ p # u /\ p # h
    BY <1>0, <1>1, KindsAssumption
  <2> HIDE DEF x, u, h
  <2>6. y # p /\ y # x /\ y # u /\ y # h
    BY <1>1, <1>4, <2>1, <2>2, <2>4, <2>5
  <2> QED
    BY <1>2, <2>2, <2>6 DEF S, x, u, h
<1>5. ASSUME NEW z \in active' \cap Physical
      PROVE  \E y \in active' \cap Holders : Parent[y] = z
  <2>1. z \in active /\ z \notin S
    BY <1>5 DEF S
  <2>2. PICK y \in active \cap Holders : Parent[y] = z
    BY <1>5, <2>1 DEF PhysicalInv
  <2>3. CASE y \in active'
    BY <2>2, <2>3
  <2>4. CASE y \notin active'
    <3>1. y = p \/ (y = x /\ x \in S) \/ (y = u /\ u \in S)
      BY <1>1, <1>2, <2>2, <2>4 DEF S
    <3> QED
      BY <1>1, <1>3, <1>4, <2>1, <2>2, <3>1
  <2> QED
    BY <2>3, <2>4
<1> QED
  BY <1>5 DEF PhysicalInv

LEMMA PhysicalKept ==
  ASSUME DBInv, PhysicalInv,
         \A x \in Physical : x \in active' <=> x \in active,
         \A p \in active \cap linked : p \in active' /\ p \in linked'
  PROVE  PhysicalInv'
<1>1. Users \cup Processes \subseteq Physical
  BY DEF Physical
<1> QED
  BY <1>1 DEF PhysicalInv

LEMMA PhysicalNext ==
  ASSUME DBInv, PhysicalInv, [DBNext]_dbvars
  PROVE  PhysicalInv'
<1>0. /\ linked \subseteq Participants /\ active \subseteq stored
      /\ Participants \cap Physical = {} /\ Endpoints \cap Physical = {}
      /\ Topics \cap Physical = {} /\ Endpoints \cap Participants = {}
      /\ Topics \cap Participants = {}
  BY KindsAssumption DEF DBInv, DBTypeOK, Physical
<1>1. CASE UNCHANGED <<active, linked>>
  BY <1>1, PhysicalKept
<1>2. CASE UNCHANGED dbvars
  BY <1>1, <1>2 DEF dbvars, entities
<1>3. CASE \/ \E x \in DDSEntities, status \in Statuses : process_sample(x, status)
           \/ get_entity_kind \/ LookupTopic \/ FindTopic \/ UpdateInfoGraph
           \/ update_participant_in_graph \/ update_endpoint_in_graph
           \/ execute_without_lock
           \/ \E d \in Domains : regenerate_domain_graph(d)
  BY <1>1, <1>3 DEF process_sample, get_entity_kind, LookupTopic, FindTopic,
     UpdateInfoGraph, update_participant_in_graph, update_endpoint_in_graph,
     execute_without_lock, regenerate_domain_graph, entities
<1>4. CASE \E d \in Domains : clear_inactive_entities(d)
  <2>1. active' = active /\ linked' = linked \cap stored \cap active
    BY <1>4 DEF clear_inactive_entities, Kept
  <2> QED
    BY <1>0, <2>1, PhysicalKept
<1>5. CASE insert_new_participant \/ insert_new_topic \/ insert_new_endpoint
  <2>1. /\ UNCHANGED linked
        /\ \E y \in Participants \cup Topics \cup Endpoints :
             active' = active \/ active' = active \cup {y}
    BY <1>5, Chain DEF insert_new_participant, insert_new_topic, insert_new_endpoint,
       At, DBInv, TaskInv
  <2> QED
    BY <1>0, <2>1, PhysicalKept
<1>6. CASE ChangeEndpoint \/ \E e \in Endpoints : EndpointInactive(e)
  <2>1. PICK e \in Endpoints, on \in BOOLEAN, held \in BOOLEAN :
          change_endpoint_status(e, on, held)
    <3>1. (task.status # "UNDISCOVERY") \in BOOLEAN
      OBVIOUS
    <3> QED
      BY <1>6, <3>1 DEF ChangeEndpoint, EndpointInactive
  <2>2. \A y : y \notin {e, TopicOf[e]} => (y \in active' <=> y \in active)
    BY <2>1, EndpointStatus
  <2>3. UNCHANGED linked /\ TopicOf[e] \in Topics
    BY <1>6, Chain DEF ChangeEndpoint, EndpointInactive
  <2> QED
    BY <1>0, <2>2, <2>3, PhysicalKept
<1>7. CASE ChangeParticipant
  <2> DEFINE p == task.entity
  <2>1. p \in Participants /\ UNCHANGED linked
    BY <1>7 DEF ChangeParticipant
  <2>2. CASE p \in linked /\ ParticipantActive(p)
    BY <2>1, <2>2, PhysicalRise DEF ParticipantActive
  <2>3. CASE p \in linked /\ ParticipantInactive(p)
    BY <2>1, <2>3, PhysicalFall DEF ParticipantInactive
  <2>4. CASE p \notin linked /\ (ParticipantActive(p) \/ ParticipantInactive(p))
    <3>1. active' = active \cup {p} \/ active' = active \ {p}
      BY <2>4, NothingTold DEF ParticipantActive, ParticipantInactive
    <3> QED
      BY <1>0, <2>1, <2>4, <3>1, PhysicalKept
  <2> QED
    BY <1>1, <1>7, <2>1, <2>2, <2>3, <2>4 DEF ChangeParticipant
<1>8. CASE update_participant_discovery_info \/ process_physical_entities
  <2> DEFINE p == task.entity
  <2>1. p \in Participants
    BY <1>8 DEF update_participant_discovery_info, process_physical_entities, At,
       DBInv, TaskInv
  <2>2. /\ linked \subseteq linked'
        /\ \/ active' = active
           \/ /\ p \in linked' /\ p \in active
              /\ active' = active \cup Range(Rise(Parent[p]))
    BY <1>8, NothingTold
       DEF update_participant_discovery_info, process_physical_entities, LinkRises
  <2>3. CASE active' = active
    BY <2>2, <2>3, PhysicalKept
  <2>4. CASE active' # active
    <3>1. p \in linked' /\ active' = active \cup {p} \cup Range(Rise(Parent[p]))
      BY <2>2, <2>4
    <3> QED
      BY <2>1, <2>2, <3>1, PhysicalRise
  <2> QED
    BY <2>3, <2>4
<1> QED
  BY <1>2, <1>3, <1>4, <1>5, <1>6, <1>7, <1>8 DEF DBNext

LEMMA PhysicalInvariance == DBSpec => []PhysicalInv
<1>1. DBInit => PhysicalInv
  BY DEF DBInit, PhysicalInv
<1>2. DBInv /\ PhysicalInv /\ [DBNext]_dbvars => PhysicalInv'
  BY PhysicalNext
<1> QED
  BY <1>1, <1>2, Invariance, PTL DEF DBSpec
-----------------------------------------------------------------------------
(***************************************************************************)
(* An application that clears while no sample is being processed.          *)
(***************************************************************************)
(* The steps of a handler whose entity is not stored yet, and those whose   *)
(* status is not set yet.                                                   *)
Creating == {"insert", "find", "insert_topic", "insert_endpoint"}
Deciding == {"kind", "change"}
InFlight(x) == task.entity = x /\ task.step \in Creating \cup Deciding

(* No reference has expired.                                                *)
NoneExpired ==
  /\ orphans = {} /\ topicless = {} /\ ~terminated
  /\ \A e \in stored \cap Endpoints : Parent[e] \in stored

(* A topic is active exactly when an endpoint on it is, except while the    *)
(* handler creates one or the other.                                        *)
TopicInv ==
  /\ \A t \in active \cap Topics :
       \/ \E e \in active \cap Endpoints : TopicOf[e] = t
       \/ task.step = "insert_endpoint" /\ TopicOf[task.entity] = t
  /\ \A e \in active \cap Endpoints :
       TopicOf[e] \in active \/ (task.step = "refresh" /\ task.entity = e)

(* What the sample in work says of its entity: every branch that drops it   *)
(* is excluded.                                                             *)
SampleInv ==
  /\ IF task.step = "idle" THEN task = NoTask
     ELSE /\ task.entity \in DDSEntities
          /\ task.entity \in network <=> task.status # "UNDISCOVERY"
          /\ task.entity \in Endpoints /\ task.status # "UNDISCOVERY" =>
               Parent[task.entity] \in network
          /\ task.entity \in stored <=> task.step \notin Creating
  /\ task.step \in Creating \cup {"refresh"} => task.status = "DISCOVERY"
  /\ task.step = "insert_endpoint" => TopicOf[task.entity] \in stored
  /\ /\ task.step \in Deciding /\ task.entity \in Participants
     /\ task.status = "UNDISCOVERY"
     => task.entity \in active
  /\ task.ends # {} => task.status = "UNDISCOVERY" /\ task.step = "physical"
  /\ \A e \in task.ends : Parent[e] = task.entity /\ e \in stored
  /\ task.step = "info_graph" => task.entity \in linked
  /\ task.step = "graph" =>
       /\ Parent[Parent[task.entity]] \in stored
       /\ task.found => Parent[task.entity] \in stored

(* What is active is what exists on the network, except the entity whose    *)
(* sample is in work and the endpoints that fall with it.                   *)
MirrorInv ==
  /\ \A x \in network : InFlight(x) \/ x \in stored
  /\ \A p \in Participants : InFlight(p) \/ (p \in active <=> p \in network)
  /\ \A e \in Endpoints :
       \/ InFlight(e)
       \/ InFlight(Parent[e]) /\ task.status = "UNDISCOVERY"
       \/ e \in task.ends
       \/ e \in active <=> e \in network /\ Parent[e] \in network

(* Every sample is notified before the next one is processed.               *)
ToldInv ==
  \A x \in DDSEntities : task.entity = x \/ (x \in told <=> x \in network)

SequentialInv == NoneExpired /\ TopicInv /\ SampleInv /\ MirrorInv /\ ToldInv
-----------------------------------------------------------------------------
LEMMA NoTaskFields ==
  /\ NoTask.step = "idle" /\ NoTask.ends = {} /\ NoTask.entity = NoEntity
  /\ NoTask.status = "UPDATE" /\ NoEntity \notin DDSEntities
BY KindsAssumption DEF NoTask, Entities, Tree, DDSEntities

(* A step that leaves participants, endpoints and topics alone and moves    *)
(* the handler within a phase.                                              *)
LEMMA PhaseKept ==
  ASSUME DBInv, SequentialInv,
         UNCHANGED <<network, orphans, topicless, terminated>>,
         \A x \in DDSEntities \cup Topics :
           (x \in active' <=> x \in active) /\ (x \in stored' <=> x \in stored),
         \A x \in DDSEntities : x \in told' <=> x \in told,
         task'.entity = task.entity, task'.status = task.status,
         task'.ends = task.ends,
         task.step \in Creating \cup Deciding <=> task'.step \in Creating \cup Deciding,
         task.step \in {"insert_endpoint", "refresh"} => task'.step = task.step
  PROVE  NoneExpired' /\ TopicInv' /\ MirrorInv' /\ ToldInv'
<1> USE DEF SequentialInv
<1>1. /\ Participants \subseteq DDSEntities /\ Endpoints \subseteq DDSEntities
      /\ \A e \in Endpoints : Parent[e] \in DDSEntities /\ TopicOf[e] \in Topics
  BY Chain DEF DDSEntities
<1>2. NoneExpired'
  BY <1>1 DEF NoneExpired
<1>3. TopicInv'
  BY <1>1 DEF TopicInv
<1>4. \A x : InFlight(x)' <=> InFlight(x)
  BY DEF InFlight
<1>5. network \subseteq DDSEntities
  BY DEF DBInv, DBTypeOK
<1>6. MirrorInv'
  BY <1>1, <1>4, <1>5 DEF MirrorInv
<1>7. ToldInv'
  BY DEF ToldInv
<1> QED
  BY <1>2, <1>3, <1>6, <1>7

(* The end of a handler.                                                    *)
LEMMA Notified ==
  ASSUME DBInv, SequentialInv, task.step \in {"graph", "endpoint_graph"},
         task.ends = {}, Notify, UNCHANGED <<network, entities, terminated>>
  PROVE  SequentialInv'
<1> USE DEF SequentialInv
<1>1. /\ task' = NoTask /\ UNCHANGED <<stored, active, linked, orphans, topicless>>
      /\ told' = IF task.status = "UNDISCOVERY" THEN told \ {task.entity}
                 ELSE told \cup {task.entity}
  BY DEF Notify, entities
<1>2. /\ task'.step = "idle" /\ task'.ends = {} /\ task'.entity = NoEntity
      /\ NoEntity \notin DDSEntities
  BY <1>1, NoTaskFields
<1>3. NoneExpired'
  BY <1>1 DEF NoneExpired
<1>4. TopicInv'
  BY <1>1 DEF TopicInv
<1>5. SampleInv'
  BY <1>1, <1>2 DEF SampleInv, Creating, Deciding
<1>6. \A x : ~InFlight(x)
  BY DEF InFlight, Creating, Deciding
<1>7. MirrorInv'
  BY <1>1, <1>6 DEF MirrorInv
<1>8. ToldInv'
  <2>1. task.entity \in network <=> task.status # "UNDISCOVERY"
    BY DEF SampleInv
  <2> QED
    BY <1>1, <2>1 DEF ToldInv
<1> QED
  BY <1>3, <1>4, <1>5, <1>7, <1>8

(* A sample begins: the database mirrors the network.                       *)
LEMMA SampleStep ==
  ASSUME DBInv, SequentialInv, NEW x \in DDSEntities, NEW status \in Statuses,
         process_sample(x, status)
  PROVE  SequentialInv'
<1> USE DEF SequentialInv
<1>1. /\ task = NoTask /\ Happens(x, status)
      /\ network' = (IF status = "UNDISCOVERY" THEN network \ {x} ELSE network \cup {x})
      /\ task' = (IF x \in stored THEN Known(x, status) ELSE Unknown(x, status))
      /\ UNCHANGED <<stored, active, linked, orphans, topicless, told, terminated>>
  BY DEF process_sample, At, SampleInv, entities
<1>2. /\ task.step = "idle" /\ task.ends = {} /\ task.entity = NoEntity
      /\ NoEntity \notin DDSEntities
  BY <1>1, NoTaskFields
<1>3. \A y : ~InFlight(y)
  BY <1>2 DEF InFlight, Creating, Deciding
<1>4. /\ network \subseteq stored
      /\ \A p \in Participants : p \in active <=> p \in network
      /\ \A e \in Endpoints : e \in active <=> e \in network /\ Parent[e] \in network
      /\ \A y \in DDSEntities : y \in told <=> y \in network
  BY <1>2, <1>3 DEF MirrorInv, ToldInv
<1>5. /\ status = "DISCOVERY" =>
           /\ x \notin network
           /\ x \in Endpoints => Parent[x] \in network
           /\ \A e \in network \cap Endpoints : Parent[e] # x
      /\ status = "UPDATE" => x \in network /\ (x \in Endpoints => Parent[x] \in network)
      /\ status = "UNDISCOVERY" => x \in network
  BY <1>1 DEF Happens, Statuses
<1>6. x \in stored \/ status = "DISCOVERY"
  BY <1>4, <1>5 DEF Statuses
<1>7. /\ task'.entity = x /\ task'.status = status /\ task'.ends = {}
      /\ x \in stored => task'.step = "kind"
      /\ x \notin stored => task'.step \in {"insert", "find"}
  BY <1>1, <1>6 DEF Known, Unknown, NoTask
<1>8. NoneExpired'
  BY <1>1 DEF NoneExpired
<1>9. TopicInv'
  BY <1>1, <1>2 DEF TopicInv
<1>10. \A y : InFlight(y)' <=> y = x
  BY <1>7 DEF InFlight, Creating, Deciding
<1>11. SampleInv'
  <2>1. task'.step \in {"kind", "insert", "find"}
    BY <1>7
  <2>2. x \in network' <=> status # "UNDISCOVERY"
    BY <1>1
  <2>3. x \in Endpoints /\ status # "UNDISCOVERY" => Parent[x] \in network'
    BY <1>1, <1>5 DEF Statuses
  <2>4. x \in Participants /\ status = "UNDISCOVERY" => x \in active'
    BY <1>1, <1>4, <1>5
  <2>5. x \in stored' <=> task'.step \notin Creating
    BY <1>1, <1>7 DEF Creating
  <2> QED
    BY <1>6, <1>7, <2>1, <2>2, <2>3, <2>4, <2>5, <1>1 DEF SampleInv, Creating, Deciding
<1>12. MirrorInv'
  <2>1. \A y \in network' : y = x \/ y \in stored'
    BY <1>1, <1>4
  <2>2. \A p \in Participants : p = x \/ (p \in active' <=> p \in network')
    BY <1>1, <1>4
  <2>3. ASSUME NEW e \in Endpoints, e # x, Parent[e] # x \/ status # "UNDISCOVERY"
        PROVE  e \in active' <=> e \in network' /\ Parent[e] \in network'
    <3>1. e \in network' <=> e \in network
      BY <1>1, <2>3
    <3>2. CASE Parent[e] # x
      BY <1>1, <1>4, <2>3, <3>1, <3>2
    <3>3. CASE Parent[e] = x /\ status = "UPDATE"
      BY <1>1, <1>4, <1>5, <3>1, <3>3
    <3>4. CASE Parent[e] = x /\ status = "DISCOVERY"
      BY <1>1, <1>4, <1>5, <2>3, <3>1, <3>4
    <3> QED
      BY <2>3, <3>2, <3>3, <3>4 DEF Statuses
  <2> QED
    BY <1>7, <1>10, <2>1, <2>2, <2>3 DEF MirrorInv
<1>13. ToldInv'
  BY <1>1, <1>4, <1>7 DEF ToldInv
<1> QED
  BY <1>8, <1>9, <1>11, <1>12, <1>13

(* The steps that look something up: nothing is missing.                    *)
LEMMA LookupSteps ==
  ASSUME DBInv, SequentialInv, get_entity_kind \/ LookupTopic \/ FindTopic
  PROVE  SequentialInv'
<1> USE DEF SequentialInv
<1>0. task \in TaskType
  BY DEF DBInv, DBTypeOK, TaskType
<1>1. UNCHANGED <<network, stored, active, linked, orphans, topicless, told, terminated>>
  BY DEF get_entity_kind, LookupTopic, FindTopic, entities
<1>2. task.ends = {} /\ task.step \in {"kind", "lookup", "find"}
  BY DEF get_entity_kind, LookupTopic, FindTopic, At
<1> DEFINE e == task.entity
<1>3. /\ e \in network <=> task.status # "UNDISCOVERY"
      /\ e \in Endpoints /\ task.status # "UNDISCOVERY" => Parent[e] \in network
      /\ e \in stored <=> task.step # "find"
      /\ task.step = "find" => task.status = "DISCOVERY"
      /\ e \in DDSEntities
  BY <1>2 DEF SampleInv, Creating
<1>4. ASSUME NEW step \in Steps, task'.step = step,
             task'.entity = task.entity, task'.status = task.status, task'.ends = {},
             \/ task.step = "kind" /\ step = "change"
             \/ task.step = "lookup" /\ step = "endpoint_graph"
             \/ task.step = "find" /\ step = "insert_topic"
             \/ task.step = "find" /\ step = "insert_endpoint" /\ TopicOf[e] \in stored
      PROVE  SequentialInv'
  <2>1. SampleInv'
    BY <1>1, <1>4 DEF SampleInv, Creating, Deciding
  <2> QED
    BY <1>1, <1>2, <1>4, <2>1, PhaseKept DEF Creating, Deciding
<1>5. CASE get_entity_kind
  <2>1. Goto("change") /\ task.step = "kind"
    BY <1>3, <1>5 DEF get_entity_kind, At
  <2> QED
    BY <1>0, <1>2, <1>4, <2>1 DEF Goto, TaskType, Steps
<1>6. CASE LookupTopic
  <2>1. task.step = "lookup" /\ e \in Endpoints
    BY <1>6 DEF LookupTopic, At, DBInv, TaskInv
  <2>2. Parent[e] \in stored
    BY <1>3, <2>1 DEF NoneExpired
  <2>3. task' = [task EXCEPT !.step = "endpoint_graph", !.found = TopicKnown(e)]
    BY <1>6, <2>2 DEF LookupTopic
  <2> QED
    BY <1>0, <1>2, <1>4, <2>1, <2>3 DEF TaskType, Steps
<1>7. CASE FindTopic
  <2>1. task.step = "find" /\ e \in Endpoints
    BY <1>7 DEF FindTopic, At, DBInv, TaskInv
  <2>2. Parent[e] \in stored
    <3>1. Parent[e] \in network /\ Parent[e] # e
      BY <1>3, <2>1, Chain, KindsAssumption
    <3> QED
      BY <3>1 DEF MirrorInv, InFlight
  <2>3. task' = [task EXCEPT !.found = TRUE,
                   !.step = IF TopicOf[e] \in stored THEN "insert_endpoint" ELSE "insert_topic"]
    BY <1>7, <2>2 DEF FindTopic, TopicKnown
  <2>4. /\ task'.entity = task.entity /\ task'.status = task.status /\ task'.ends = {}
        /\ task'.step = IF TopicOf[e] \in stored THEN "insert_endpoint" ELSE "insert_topic"
    BY <1>0, <1>2, <2>3 DEF TaskType
  <2> QED
    BY <1>4, <2>1, <2>4 DEF Steps
<1> QED
  BY <1>5, <1>6, <1>7

(* Calling a listener and regenerating a graph.                             *)
LEMMA OutsideSteps ==
  ASSUME DBInv, TellInv, SequentialInv,
         execute_without_lock \/ \E d \in Domains : regenerate_domain_graph(d)
  PROVE  SequentialInv'
<1> USE DEF SequentialInv
<1>1. UNCHANGED <<network, stored, active, linked, orphans, topicless, task, terminated>>
  BY DEF execute_without_lock, regenerate_domain_graph, entities
<1>2. \A x \in DDSEntities : x \in told' <=> x \in told
  <2>1. CASE execute_without_lock
    <3>1. Head(tell) = tell[1] /\ 1 \in 1 .. Len(tell)
      BY <2>1 DEF execute_without_lock, DBInv, DBTypeOK
    <3>2. Head(tell).entity \in Announced
      BY <3>1 DEF TellInv
    <3>3. \A x \in DDSEntities : x # Head(tell).entity
      BY <3>2, KindsApart
    <3>4. told' = told \cup {Head(tell).entity} \/ told' = told \ {Head(tell).entity}
      BY <2>1 DEF execute_without_lock
    <3> QED
      BY <3>3, <3>4
  <2>2. CASE \E d \in Domains : regenerate_domain_graph(d)
    BY <2>2 DEF regenerate_domain_graph
  <2> QED
    BY <2>1, <2>2
<1>3. SampleInv'
  BY <1>1 DEF SampleInv
<1> QED
  BY <1>1, <1>2, <1>3, PhaseKept

(* The rest of process_participant(): host, user and process are stored     *)
(* when the graph is updated, so no sample is dropped there.                *)
LEMMA ParticipantSteps ==
  ASSUME DBInv, SequentialInv,
         update_participant_discovery_info \/ UpdateInfoGraph \/ process_physical_entities
  PROVE  SequentialInv'
<1> USE DEF SequentialInv
<1> DEFINE p == task.entity
           x == Parent[p]
           u == Parent[x]
           h == Parent[u]
<1>0. task \in TaskType
  BY DEF DBInv, DBTypeOK, TaskType
<1>1. /\ UNCHANGED <<network, orphans, topicless, told, terminated>>
      /\ p \in Participants /\ task.ends = {}
      /\ task.step \in {"info", "info_graph", "physical"}
  BY DEF update_participant_discovery_info, UpdateInfoGraph, process_physical_entities,
         entities, At, DBInv, TaskInv
<1>2. /\ x \in Processes /\ u \in Users /\ h \in Hosts
      /\ p \in stored /\ p \in DDSEntities
      /\ p \in network <=> task.status # "UNDISCOVERY"
      /\ \A y \in DDSEntities \cup Topics : y \notin {x, u, h}
      /\ p \notin Endpoints
  BY <1>1, Chain, KindsAssumption DEF SampleInv, Creating, DDSEntities
<1>3. Range(Rise(x)) \subseteq {x, u, h}
  BY <1>2, RiseFacts DEF DBInv
<1> HIDE DEF x, u, h
<1>4. ASSUME NEW step \in {"info_graph", "physical", "graph"}, task'.step = step,
             task'.entity = p, task'.status = task.status, task'.ends = {},
             stored \subseteq stored', stored' \subseteq stored \cup {x, u, h},
             active' = active \/ active' = active \cup Range(Rise(x)),
             step = "info_graph" => p \in linked',
             step = "graph" => u \in stored' /\ (task'.found => x \in stored')
      PROVE  SequentialInv'
  <2>1. \A y \in DDSEntities \cup Topics :
          (y \in active' <=> y \in active) /\ (y \in stored' <=> y \in stored)
    BY <1>2, <1>3, <1>4
  <2>2. SampleInv'
    BY <1>1, <1>2, <1>4 DEF SampleInv, Creating, Deciding, x, u
  <2> QED
    BY <1>1, <1>4, <2>1, <2>2, PhaseKept DEF Creating, Deciding
<1>5. CASE update_participant_discovery_info
  <2>1. PICK step \in {"info_graph", "physical"} :
          /\ Goto(step) /\ UNCHANGED stored
          /\ active' = active \/ active' = active \cup Range(Rise(x))
          /\ step = "info_graph" => p \in linked'
    BY <1>2, <1>5, NothingTold DEF update_participant_discovery_info, LinkRises, x
  <2>2. /\ task'.entity = p /\ task'.status = task.status /\ task'.ends = {}
        /\ task'.step = step
    BY <1>0, <1>1, <2>1 DEF Goto, TaskType
  <2> QED
    BY <1>4, <2>1, <2>2
<1>6. CASE UpdateInfoGraph
  <2>1. p \in linked /\ UNCHANGED <<stored, active, linked>>
    BY <1>6 DEF UpdateInfoGraph, At, SampleInv, entities
  <2>2. {p, x, u, h} \subseteq stored
    BY <1>2, <2>1 DEF DBInv, RefInv, x, u, h
  <2>3. Path(p) = <<h, u, x, p>>
    BY DEF Path, x, u, h
  <2>4. ~GraphThrows(Path(p))
    BY <2>2, <2>3 DEF GraphThrows, Cut
  <2>5. Goto("physical")
    BY <1>6, <2>4 DEF UpdateInfoGraph, NoneExpired
  <2>6. /\ task'.entity = p /\ task'.status = task.status /\ task'.ends = {}
        /\ task'.step = "physical"
    BY <1>0, <1>1, <2>5 DEF Goto, TaskType
  <2> QED
    BY <1>4, <2>1, <2>6
<1>7. CASE process_physical_entities
  <2>1. Up(x) = {x, u, h} /\ Up(u) = {u, h}
    BY <1>2, UpOfProcess, UpOfUser DEF u, h
  <2>2. PICK refused \in BOOLEAN :
          /\ stored' = stored \cup (IF refused THEN {u, h} ELSE {x, u, h})
          /\ task' = [task EXCEPT !.step = "graph", !.found = ~refused]
          /\ active' = active \/ active' = active \cup Range(Rise(x))
    <3> DEFINE refused == x \notin stored /\ PidTaken(x)
    <3>1. /\ stored' = stored \cup (IF refused THEN Up(u) ELSE Up(x))
          /\ task' = [task EXCEPT !.step = "graph", !.found = ~refused]
          /\ active' = active \/ active' = active \cup Range(Rise(x))
      BY <1>7, NothingTold DEF process_physical_entities, LinkRises, x, u
    <3>2. refused \in BOOLEAN
      OBVIOUS
    <3> HIDE DEF refused
    <3> QED
      BY <2>1, <3>1, <3>2
  <2>3. /\ task'.entity = p /\ task'.status = task.status /\ task'.ends = {}
        /\ task'.step = "graph" /\ (task'.found <=> ~refused)
    BY <1>0, <1>1, <2>2 DEF TaskType
  <2> QED
    BY <1>4, <2>2, <2>3
<1> QED
  BY <1>5, <1>6, <1>7

(* Nothing is missing when the graph is updated for a participant or for an *)
(* endpoint: the sample is notified.                                        *)
LEMMA ParticipantNotified ==
  ASSUME DBInv, SequentialInv, update_participant_in_graph
  PROVE  LET p == task.entity IN
         /\ p \in Participants /\ p \in stored /\ Parent[Parent[p]] \in stored
         /\ Parent[Parent[Parent[p]]] \in stored /\ (task.found => Parent[p] \in stored)
         /\ task.step = "graph" /\ task.ends = {} /\ Notify
         /\ UNCHANGED <<network, entities, terminated>>
<1> USE DEF SequentialInv
<1> DEFINE p == task.entity
           x == Parent[p]
           u == Parent[x]
           h == Parent[u]
           path == IF task.found THEN Path(p) ELSE <<h, u>>
<1>1. /\ UNCHANGED <<network, entities, terminated>> /\ task.ends = {}
      /\ task.step = "graph"
  BY DEF update_participant_in_graph, At
<1>2. /\ p \in Participants /\ u \in stored /\ (task.found => x \in stored) /\ p \in stored
  BY <1>1 DEF SampleInv, DBInv, TaskInv, Creating
<1>3. h \in stored
  BY <1>2, Chain DEF DBInv, RefInv
<1>4. Path(p) = <<h, u, x, p>>
  BY DEF Path
<1> HIDE DEF x, u, h
<1>5. ~GraphThrows(path)
  <2>1. CASE task.found
    BY <1>2, <1>3, <1>4, <2>1 DEF GraphThrows, Cut
  <2>2. CASE ~task.found
    BY <1>2, <1>3, <2>2 DEF GraphThrows, Cut
  <2> QED
    BY <2>1, <2>2
<1>6. Notify
  BY <1>5 DEF update_participant_in_graph, x, u, h
<1> QED
  BY <1>1, <1>2, <1>3, <1>6 DEF x, u, h

LEMMA EndpointNotified ==
  ASSUME DBInv, SequentialInv, update_endpoint_in_graph
  PROVE  LET e == task.entity IN
         /\ e \in Endpoints /\ e \in stored /\ Parent[e] \in stored /\ TopicOf[e] \in stored
         /\ task.step = "endpoint_graph" /\ task.ends = {} /\ Notify
         /\ UNCHANGED <<network, entities, terminated>>
<1> USE DEF SequentialInv
<1> DEFINE e == task.entity
<1>1. task.step = "endpoint_graph" /\ task.ends = {}
  BY DEF update_endpoint_in_graph, At
<1>2. UNCHANGED <<network, entities, terminated>>
  BY DEF update_endpoint_in_graph
<1>3. e \in Endpoints /\ e \in stored
  BY <1>1 DEF DBInv, TaskInv, SampleInv, Creating
<1>4. Parent[e] \in stored /\ TopicOf[e] \in stored
  BY <1>3 DEF NoneExpired, DBInv, RefInv
<1>5. Notify
  BY <1>3, <1>4 DEF update_endpoint_in_graph
<1> QED
  BY <1>1, <1>2, <1>3, <1>4, <1>5

LEMMA NotifySteps ==
  ASSUME DBInv, SequentialInv, update_participant_in_graph \/ update_endpoint_in_graph
  PROVE  SequentialInv'
<1>1. CASE update_participant_in_graph
  BY <1>1, ParticipantNotified, Notified
<1>2. CASE update_endpoint_in_graph
  BY <1>2, EndpointNotified, Notified
<1> QED
  BY <1>1, <1>2

(* What setting the status of a participant does: the endpoints of one that *)
(* falls are due.                                                           *)
LEMMA ParticipantEffect ==
  ASSUME DBInv, SequentialInv, ChangeParticipant
  PROVE  LET p == task.entity IN
         /\ p \in Participants /\ task.step = "change" /\ task.ends = {}
         /\ UNCHANGED <<network, stored, linked, orphans, topicless, told, terminated>>
         /\ p \in stored /\ (p \in network <=> task.status # "UNDISCOVERY")
         /\ task.status = "UNDISCOVERY" => p \in active
         /\ p \in DDSEntities /\ p \notin Endpoints
         /\ \A y \in Endpoints \cup Topics \cup Participants :
              y # p => (y \in active' <=> y \in active)
         /\ p \in active' <=> task.status # "UNDISCOVERY"
         /\ Members(p) = {e \in stored \cap Endpoints : Parent[e] = p}
         /\ task'.entity = p /\ task'.status = task.status
         /\ task'.step \in {"info", "physical"}
         /\ task.status # "UNDISCOVERY" => task'.ends = {}
         /\ task.status = "UNDISCOVERY" => task'.ends = Members(p) /\ task'.step = "physical"
<1> USE DEF SequentialInv
<1> DEFINE p == task.entity
<1>0. task \in TaskType
  BY DEF DBInv, DBTypeOK, TaskType
<1>1. /\ p \in Participants /\ task.step = "change" /\ task.ends = {}
      /\ UNCHANGED <<network, stored, linked, orphans, topicless, told, terminated>>
  BY DEF ChangeParticipant, At
<1>2. /\ p \in stored /\ (p \in network <=> task.status # "UNDISCOVERY")
      /\ task.status = "UNDISCOVERY" => p \in active
      /\ p \in DDSEntities /\ p \notin Endpoints
  BY <1>1, KindsAssumption DEF SampleInv, Creating, Deciding
<1>3. ASSUME NEW y \in Endpoints \cup Topics \cup Participants, y # p
      PROVE  y \in active' <=> y \in active
  <2>1. /\ Range(Rise(Parent[p])) \subseteq Physical /\ Range(Fall(p)) \subseteq Physical
        /\ Range(<<>>) = {}
    <3>1. {Parent[p], Parent[Parent[p]], Parent[Parent[Parent[p]]]} \subseteq Physical
          /\ Parent[p] \in Processes
      BY <1>1, Chain DEF Physical
    <3>2. Range(Rise(Parent[p])) \subseteq Physical
      BY <3>1, RiseFacts DEF DBInv
    <3>3. Range(Fall(p)) \subseteq Physical
      BY <1>1, <3>1, FallFacts
    <3> QED
      BY <3>2, <3>3, NothingTold
  <2>2. y \notin Physical
    BY KindsAssumption DEF Physical
  <2> QED
    BY <1>3, <2>1, <2>2 DEF ChangeParticipant, ParticipantActive, ParticipantInactive
<1>4. p \in active' <=> task.status # "UNDISCOVERY"
  <2>1. p \notin Physical /\ Range(Fall(p)) \subseteq Physical
    BY <1>1, Chain, FallFacts, KindsAssumption DEF Physical
  <2> QED
    BY <1>2, <2>1 DEF ChangeParticipant, ParticipantActive, ParticipantInactive
<1>5. Members(p) = {e \in stored \cap Endpoints : Parent[e] = p}
  <2>1. p \notin Topics /\ orphans = {}
    BY <1>1, KindsAssumption DEF NoneExpired
  <2>2. \A y \in Tree \ Hosts : Parent[y] = p => y \in Endpoints
    BY <1>1, Chain, KindsAssumption DEF Tree, Physical
  <2>3. Endpoints \subseteq Tree \ Hosts /\ Endpoints \cap Participants = {}
    BY KindsAssumption DEF Tree
  <2> QED
    BY <2>1, <2>2, <2>3 DEF Members
<1>6. /\ task'.entity = p /\ task'.status = task.status
      /\ task'.step \in {"info", "physical"}
      /\ task.status # "UNDISCOVERY" => task'.ends = {}
      /\ task.status = "UNDISCOVERY" => task'.ends = Members(p) /\ task'.step = "physical"
  <2>1. AfterStatus \in {"info", "physical"}
        /\ (task.status = "UNDISCOVERY" => AfterStatus = "physical")
    BY DEF AfterStatus
  <2>2. CASE task.status # "UNDISCOVERY"
    <3>1. Goto(AfterStatus)
      BY <2>2 DEF ChangeParticipant, ParticipantActive
    <3> QED
      BY <1>0, <1>1, <2>1, <2>2, <3>1 DEF Goto, TaskType
  <2>3. CASE task.status = "UNDISCOVERY"
    <3>1. task' = [task EXCEPT !.step = AfterStatus, !.ends = Members(p)]
      BY <1>2, <2>3 DEF ChangeParticipant, ParticipantInactive
    <3> QED
      BY <1>0, <2>1, <2>3, <3>1 DEF TaskType
  <2> QED
    BY <2>2, <2>3
<1> HIDE DEF p
<1> QED
  BY <1>1, <1>2, <1>3, <1>4, <1>5, <1>6 DEF p

(* The status of a participant is set; if it falls, its endpoints are due.  *)
LEMMA ParticipantFalls ==
  ASSUME DBInv, SequentialInv, ChangeParticipant
  PROVE  SequentialInv'
<1> USE DEF SequentialInv
<1> DEFINE p == task.entity
<1>1. /\ p \in Participants /\ task.step = "change" /\ task.ends = {}
      /\ UNCHANGED <<network, stored, linked, orphans, topicless, told, terminated>>
  BY ParticipantEffect
<1>2. /\ p \in stored /\ (p \in network <=> task.status # "UNDISCOVERY")
      /\ task.status = "UNDISCOVERY" => p \in active
      /\ p \in DDSEntities /\ p \notin Endpoints
  BY ParticipantEffect
<1>3. ASSUME NEW y \in Endpoints \cup Topics \cup Participants, y # p
      PROVE  y \in active' <=> y \in active
  BY <1>3, ParticipantEffect
<1>4. p \in active' <=> task.status # "UNDISCOVERY"
  BY ParticipantEffect
<1>5. Members(p) = {e \in stored \cap Endpoints : Parent[e] = p}
  BY ParticipantEffect
<1>6. /\ task'.entity = p /\ task'.status = task.status
      /\ task'.step \in {"info", "physical"}
      /\ task.status # "UNDISCOVERY" => task'.ends = {}
      /\ task.status = "UNDISCOVERY" => task'.ends = Members(p) /\ task'.step = "physical"
  BY ParticipantEffect
<1>7. NoneExpired'
  BY <1>1 DEF NoneExpired
<1>8. TopicInv'
  <2>1. p \notin Topics
    BY <1>1, KindsAssumption
  <2> QED
    BY <1>1, <1>2, <1>3, <2>1, Chain DEF TopicInv
<1>9. SampleInv'
  BY <1>1, <1>2, <1>5, <1>6 DEF SampleInv, Creating, Deciding
<1>10. MirrorInv'
  <2>1. \A y : InFlight(y) <=> y = p
    BY <1>1 DEF InFlight, Deciding
  <2>2. \A y \in network' : y \in stored'
    BY <1>1, <1>2, <2>1 DEF MirrorInv
  <2>3. \A q \in Participants : q \in active' <=> q \in network'
    BY <1>1, <1>2, <1>3, <1>4, <2>1 DEF MirrorInv
  <2>4. ASSUME NEW e \in Endpoints, e \notin task'.ends
        PROVE  e \in active' <=> e \in network' /\ Parent[e] \in network'
    <3>1. (e \in active' <=> e \in active) /\ e # p
      BY <1>2, <1>3
    <3>2. CASE Parent[e] = p /\ task.status = "UNDISCOVERY"
      <4>1. e \notin stored
        BY <1>5, <1>6, <2>4, <3>2
      <4> QED
        BY <1>1, <1>2, <3>1, <3>2, <4>1 DEF DBInv, DBTypeOK
    <3>3. CASE ~(Parent[e] = p /\ task.status = "UNDISCOVERY")
      BY <1>1, <2>1, <3>1, <3>3 DEF MirrorInv
    <3> QED
      BY <3>2, <3>3
  <2> QED
    BY <2>2, <2>3, <2>4 DEF MirrorInv
<1>11. ToldInv'
  BY <1>1, <1>6 DEF ToldInv
<1> QED
  BY <1>7, <1>8, <1>9, <1>10, <1>11

(* What change_entity_status_of_kind() does to an endpoint and its topic    *)
(* when no reference has expired.                                           *)
LEMMA EndpointEffect ==
  ASSUME NEW e \in Endpoints, NEW on \in BOOLEAN, NEW held, DBInv, NoneExpired,
         e \in stored, change_endpoint_status(e, on, held)
  PROVE  LET t == TopicOf[e] IN
         /\ UNCHANGED terminated
         /\ e \in active' <=> on
         /\ on => t \in active'
         /\ ~on => (t \in active' <=> /\ t \in active
                                      /\ \E f \in active \cap Endpoints :
                                           f # e /\ TopicOf[f] = t)
<1> DEFINE t == TopicOf[e]
           changes == EndpointChanges(e, on)
           change_status == changes /\ IF on THEN t \notin active ELSE Unused(t, e)
           topic_changes == change_status /\ (t \in active) # on
           changed == (IF changes THEN {e} ELSE {})
                      \cup (IF topic_changes THEN {t} ELSE {})
<1>1. t \in Topics /\ t # e
  BY Chain, KindsAssumption
<1>2. /\ active' = (IF on THEN active \cup changed ELSE active \ changed)
      /\ UNCHANGED terminated
  BY DEF change_endpoint_status, NoneExpired
<1>3. Unused(t, e) <=> \A f \in active \cap Endpoints : TopicOf[f] = t => f = e
  <2>1. Members(t) = {f \in stored \cap Endpoints : TopicOf[f] = t}
    BY <1>1 DEF Members, NoneExpired
  <2>2. active \subseteq stored
    BY DEF DBInv, DBTypeOK
  <2> QED
    BY <2>1, <2>2 DEF Unused
<1>4. CASE on
  BY <1>1, <1>2, <1>4 DEF EndpointChanges
<1>5. CASE ~on
  <2>1. changes <=> e \in active \/ t \in active
    BY <1>5 DEF EndpointChanges
  <2>2. e \notin active'
    BY <1>1, <1>2, <1>5, <2>1
  <2>3. t \in active' <=> t \in active /\ ~Unused(t, e)
    BY <1>1, <1>2, <1>5, <2>1
  <2> QED
    BY <1>2, <1>3, <1>5, <2>2, <2>3
<1> QED
  BY <1>4, <1>5

LEMMA EndpointTopic ==
  ASSUME NEW e \in Endpoints, NEW on \in BOOLEAN, NEW held \in BOOLEAN, DBInv,
         NoneExpired, TopicInv,
         e \in stored, change_endpoint_status(e, on, held),
         task.step # "insert_endpoint", task.step = "refresh" => task.entity = e
  PROVE  TopicInv'
<1> DEFINE t == TopicOf[e]
<1>1. \A y : y \notin {e, t} => (y \in active' <=> y \in active)
  BY EndpointStatus
<1>2. /\ e \in active' <=> on
      /\ on => t \in active'
      /\ ~on => (t \in active' <=> /\ t \in active
                                   /\ \E f \in active \cap Endpoints :
                                        f # e /\ TopicOf[f] = t)
  BY EndpointEffect
<1>3. t \in Topics /\ t \notin Endpoints /\ e \notin Topics
  BY Chain, KindsAssumption
<1>4. ASSUME NEW s \in active' \cap Topics
      PROVE  \E f \in active' \cap Endpoints : TopicOf[f] = s
  <2>1. CASE s = t /\ on
    BY <1>2, <2>1
  <2>2. CASE s = t /\ ~on
    BY <1>1, <1>2, <1>3, <1>4, <2>2
  <2>3. CASE s # t
    <3>1. s \in active
      BY <1>1, <1>3, <1>4, <2>3
    <3>2. PICK f \in active \cap Endpoints : TopicOf[f] = s
      BY <1>4, <3>1 DEF TopicInv
    <3> QED
      BY <1>1, <1>3, <2>3, <3>2
  <2> QED
    BY <2>1, <2>2, <2>3
<1>5. ASSUME NEW f \in active' \cap Endpoints
      PROVE  TopicOf[f] \in active'
  <2>1. CASE f = e
    BY <1>2, <1>5, <2>1
  <2>2. CASE f # e
    <3>1. f \in active /\ TopicOf[f] \in active
      BY <1>1, <1>3, <1>5, <2>2 DEF TopicInv
    <3>2. CASE TopicOf[f] = t
      BY <1>2, <1>5, <2>2, <3>1, <3>2
    <3>3. CASE TopicOf[f] # t
      <4>1. TopicOf[f] # e
        BY <1>3, <1>5, Chain
      <4> QED
        BY <1>1, <3>1, <3>3, <4>1
    <3> QED
      BY <3>2, <3>3
  <2> QED
    BY <2>1, <2>2
<1> QED
  BY <1>4, <1>5 DEF TopicInv

(* The status of an endpoint is set, for its own sample or because its      *)
(* participant fell.                                                        *)
LEMMA EndpointSteps ==
  ASSUME DBInv, SequentialInv, ChangeEndpoint \/ \E e \in Endpoints : EndpointInactive(e)
  PROVE  SequentialInv'
<1> USE DEF SequentialInv
<1>0. task \in TaskType
  BY DEF DBInv, DBTypeOK, TaskType
<1>1. UNCHANGED <<network, stored, linked, orphans, topicless, told>>
  BY DEF ChangeEndpoint, EndpointInactive
<1>2. ASSUME NEW e \in Endpoints, NEW on \in BOOLEAN, NEW held \in BOOLEAN,
             change_endpoint_status(e, on, held), e \in stored,
             on <=> e \in network /\ Parent[e] \in network,
             task.step # "insert_endpoint",
             task.step = "refresh" => task.entity = e,
             task'.entity = task.entity, task'.status = task.status,
             task.ends \ {e} \subseteq task'.ends,
             task'.step \notin Creating \cup Deciding,
             task.step \in Creating \cup Deciding => task.entity = e,
             SampleInv'
      PROVE  SequentialInv'
  <2>1. \A y : y \notin {e, TopicOf[e]} => (y \in active' <=> y \in active)
    BY <1>2, EndpointStatus
  <2>2. UNCHANGED terminated /\ (e \in active' <=> on)
    BY <1>2, EndpointEffect
  <2>3. NoneExpired'
    BY <1>1, <2>2 DEF NoneExpired
  <2>4. TopicInv'
    BY <1>2, EndpointTopic
  <2>5. \A y : InFlight(y) => y = e
    BY <1>2 DEF InFlight
  <2>6. TopicOf[e] \notin DDSEntities /\ e \notin Participants
    BY Chain, KindsAssumption DEF DDSEntities
  <2>7. MirrorInv'
    <3>1. \A y \in network' : y \in stored'
      BY <1>1, <1>2, <2>5 DEF MirrorInv
    <3>2. \A p \in Participants : p \in active' <=> p \in network'
      BY <1>1, <2>1, <2>5, <2>6 DEF MirrorInv, DDSEntities
    <3>3. ASSUME NEW f \in Endpoints, f \notin task'.ends
          PROVE  f \in active' <=> f \in network' /\ Parent[f] \in network'
      <4>1. CASE f = e
        BY <1>1, <1>2, <2>2, <4>1
      <4>2. CASE f # e
        <5>1. f \in active' <=> f \in active
          BY <2>1, <2>6, <4>2 DEF DDSEntities
        <5>2. ~InFlight(f) /\ ~InFlight(Parent[f]) /\ f \notin task.ends
          BY <1>2, <2>5, <2>6, <3>3, <4>2, Chain
        <5> QED
          BY <1>1, <5>1, <5>2 DEF MirrorInv
      <4> QED
        BY <4>1, <4>2
    <3> QED
      BY <3>1, <3>2, <3>3 DEF MirrorInv
  <2>8. ToldInv'
    BY <1>1, <1>2 DEF ToldInv
  <2> QED
    BY <1>2, <2>3, <2>4, <2>7, <2>8
<1>3. CASE ChangeEndpoint
  <2> DEFINE e == task.entity
             on == task.status # "UNDISCOVERY"
  <2>1. /\ e \in Endpoints /\ task.step \in {"refresh", "change"} /\ task.ends = {}
        /\ change_endpoint_status(e, on, FALSE)
    BY <1>3 DEF ChangeEndpoint, At
  <2>2. PICK step \in {"endpoint_graph", "lookup"} : Goto(step)
    BY <1>3 DEF ChangeEndpoint
  <2>3. /\ task'.entity = task.entity /\ task'.status = task.status
        /\ task'.step = step /\ task'.ends = {}
    BY <1>0, <2>1, <2>2 DEF Goto, TaskType
  <2>4. /\ e \in stored /\ e \in DDSEntities /\ (e \in network <=> on)
        /\ on => Parent[e] \in network
    BY <2>1 DEF SampleInv, Creating
  <2>5. SampleInv'
    BY <1>1, <2>1, <2>3, <2>4 DEF SampleInv, Creating, Deciding
  <2>6. on \in BOOLEAN /\ FALSE \in BOOLEAN
    OBVIOUS
  <2>7. /\ task.step # "insert_endpoint" /\ task'.step \notin Creating \cup Deciding
        /\ task.ends \ {e} \subseteq task'.ends
        /\ on <=> e \in network /\ Parent[e] \in network
    BY <2>1, <2>3, <2>4 DEF Creating, Deciding
  <2> HIDE DEF on
  <2> QED
    BY <1>2, <2>1, <2>3, <2>4, <2>5, <2>6, <2>7
<1>4. ASSUME NEW e \in Endpoints, EndpointInactive(e)
      PROVE  SequentialInv'
  <2>1. /\ e \in task.ends /\ change_endpoint_status(e, FALSE, TRUE)
        /\ task' = [task EXCEPT !.ends = task.ends \ {e}]
    BY <1>4 DEF EndpointInactive
  <2>2. /\ task'.entity = task.entity /\ task'.status = task.status
        /\ task'.step = task.step /\ task'.ends = task.ends \ {e}
    BY <1>0, <2>1 DEF TaskType
  <2>3. /\ task.step = "physical" /\ task.status = "UNDISCOVERY"
        /\ Parent[e] = task.entity /\ e \in stored
        /\ Parent[e] \notin network
    BY <2>1 DEF SampleInv
  <2>4. SampleInv'
    BY <1>1, <2>2, <2>3 DEF SampleInv, Creating, Deciding
  <2>5. FALSE \in BOOLEAN /\ TRUE \in BOOLEAN
        /\ task'.step \notin Creating \cup Deciding
        /\ task.step \notin Creating \cup Deciding
    BY <2>2, <2>3 DEF Creating, Deciding
  <2> QED
    BY <1>2, <2>1, <2>2, <2>3, <2>4, <2>5
<1> QED
  BY <1>3, <1>4

(* A participant, a topic or an endpoint is created.                        *)
LEMMA CreateSteps ==
  ASSUME DBInv, SequentialInv,
         insert_new_participant \/ insert_new_topic \/ insert_new_endpoint
  PROVE  SequentialInv'
<1> USE DEF SequentialInv
<1> DEFINE y == task.entity
<1>0. task \in TaskType
  BY DEF DBInv, DBTypeOK, TaskType
<1>1. /\ UNCHANGED <<network, linked, orphans, topicless, terminated>>
      /\ task.ends = {} /\ task.step \in {"insert", "insert_topic", "insert_endpoint"}
  BY DEF insert_new_participant, insert_new_topic, insert_new_endpoint, At
<1>2. /\ task.status = "DISCOVERY" /\ y \in network /\ y \in DDSEntities
      /\ y \notin stored /\ y \notin active
      /\ y \in Endpoints => Parent[y] \in network
      /\ \A z : InFlight(z) <=> z = y
  BY <1>1 DEF SampleInv, InFlight, Creating, DBInv, DBTypeOK
(* Something new, and nothing else, is stored and active.                   *)
<1>3. ASSUME NEW z \in DDSEntities, z = y, stored' = stored \cup {z},
             active' = active \cup {z}, UNCHANGED told,
             task'.entity = y, task'.step \in {"physical", "refresh"}
      PROVE  MirrorInv' /\ ToldInv'
  <2>1. \A x : ~InFlight(x)'
    BY <1>3 DEF InFlight, Creating, Deciding
  <2>2. z \notin Participants \/ z \notin Endpoints
    BY KindsAssumption
  <2>3. \A x \in network' : x \in stored'
    BY <1>1, <1>2, <1>3 DEF MirrorInv
  <2>4. \A p \in Participants : p \in active' <=> p \in network'
    BY <1>1, <1>2, <1>3 DEF MirrorInv
  <2>5. \A e \in Endpoints : e \in active' <=> e \in network' /\ Parent[e] \in network'
    BY <1>1, <1>2, <1>3, Chain DEF MirrorInv
  <2> QED
    BY <1>1, <1>3, <2>3, <2>4, <2>5 DEF MirrorInv, ToldInv
<1>4. CASE insert_new_participant
  <2>1. y \in Participants /\ task.step = "insert" /\ y \notin Endpoints \cup Topics
    BY <1>4, KindsAssumption DEF insert_new_participant, At, DBInv, TaskInv
  <2>2. /\ stored' = stored \cup {y} /\ active' = active \cup {y} /\ UNCHANGED told
        /\ task' = [task EXCEPT !.step = "physical", !.link = TRUE]
    BY <1>4 DEF insert_new_participant
  <2>3. /\ task'.entity = y /\ task'.step = "physical" /\ task'.ends = {}
        /\ task'.status = task.status
    BY <1>0, <1>1, <2>2 DEF TaskType
  <2>4. NoneExpired'
    BY <1>1, <2>1, <2>2 DEF NoneExpired
  <2>5. TopicInv'
    BY <2>1, <2>2, Chain DEF TopicInv
  <2>6. SampleInv'
    BY <1>1, <1>2, <2>1, <2>2, <2>3 DEF SampleInv, Creating, Deciding
  <2> QED
    BY <1>2, <1>3, <2>2, <2>3, <2>4, <2>5, <2>6
<1>5. CASE insert_new_topic
  <2> DEFINE t == TopicOf[y]
  <2>1. y \in Endpoints /\ task.step = "insert_topic" /\ t \in Topics /\ t \notin DDSEntities
    BY <1>5, Chain, KindsAssumption
       DEF insert_new_topic, At, DBInv, TaskInv, DDSEntities
  <2>2. /\ stored' = stored \cup {t} /\ active' = active \cup {t} /\ told' = told \cup {t}
        /\ task' = [task EXCEPT !.step = "insert_endpoint"]
    BY <1>5 DEF insert_new_topic, Goto
  <2>3. /\ task'.entity = y /\ task'.step = "insert_endpoint" /\ task'.ends = {}
        /\ task'.status = task.status
    BY <1>0, <1>1, <2>2 DEF TaskType
  <2>4. NoneExpired'
    BY <1>1, <2>1, <2>2 DEF NoneExpired, DDSEntities
  <2>5. TopicInv'
    BY <2>1, <2>2, <2>3 DEF TopicInv, DDSEntities
  <2>6. SampleInv'
    BY <1>1, <1>2, <2>1, <2>2, <2>3 DEF SampleInv, Creating, Deciding
  <2>7. \A x : InFlight(x)' <=> InFlight(x)
    BY <1>2, <2>3 DEF InFlight, Creating
  <2>8. MirrorInv'
    BY <1>1, <2>1, <2>2, <2>3, <2>7 DEF MirrorInv, DDSEntities
  <2>9. ToldInv'
    BY <1>1, <2>1, <2>2, <2>3 DEF ToldInv
  <2> QED
    BY <2>4, <2>5, <2>6, <2>8, <2>9
<1>6. CASE insert_new_endpoint
  <2>1. /\ y \in Endpoints /\ task.step = "insert_endpoint" /\ TopicOf[y] \in stored
        /\ y \notin Participants \cup Topics
    BY <1>6, KindsAssumption DEF insert_new_endpoint, At, DBInv, TaskInv, SampleInv
  <2>2. Parent[y] \in stored /\ Parent[y] # y
    <3>1. Parent[y] # y
      BY <2>1, Chain
    <3> QED
      BY <1>2, <2>1, <3>1 DEF MirrorInv
  <2>3. /\ stored' = stored \cup {y} /\ active' = active \cup {y} /\ UNCHANGED told
        /\ task' = [task EXCEPT !.step = "refresh"]
    BY <1>2, <1>6, <2>1, <2>2 DEF insert_new_endpoint, Accepts, Goto
  <2>4. /\ task'.entity = y /\ task'.step = "refresh" /\ task'.ends = {}
        /\ task'.status = task.status
    BY <1>0, <1>1, <2>3 DEF TaskType
  <2>5. NoneExpired'
    BY <1>1, <2>2, <2>3 DEF NoneExpired
  <2>6. TopicInv'
    BY <2>1, <2>3, <2>4 DEF TopicInv
  <2>7. SampleInv'
    BY <1>1, <1>2, <2>1, <2>3, <2>4 DEF SampleInv, Creating, Deciding
  <2> QED
    BY <1>2, <1>3, <2>3, <2>4, <2>5, <2>6, <2>7
<1> QED
  BY <1>4, <1>5, <1>6

(* Clearing between samples expires no reference.                           *)
LEMMA SettledClear ==
  ASSUME DBInv, SequentialInv, ~ConcurrentClear,
         NEW d \in Domains, clear_inactive_entities(d)
  PROVE  SequentialInv'
<1> USE DEF SequentialInv
<1>1. /\ task = NoTask /\ \A e \in network \cap Endpoints : Parent[e] \in network
      /\ UNCHANGED <<network, active, told, task, terminated>>
  BY DEF clear_inactive_entities, Settled
<1>2. /\ task.step = "idle" /\ task.ends = {} /\ task.entity = NoEntity
      /\ \A x : ~InFlight(x)
  BY <1>1, NoTaskFields DEF InFlight, Creating, Deciding
<1>3. /\ stored' = active
      /\ orphans' = {e \in active \cap Endpoints : Parent[e] \notin active}
      /\ topicless' = {e \in active \cap Endpoints : TopicOf[e] \notin active}
  <2>1. stored \cap active = active
    BY DEF DBInv, DBTypeOK
  <2> QED
    BY <2>1 DEF clear_inactive_entities, NoneExpired
<1>4. \A e \in active \cap Endpoints : Parent[e] \in active /\ TopicOf[e] \in active
  BY <1>2, Chain DEF MirrorInv, TopicInv
<1>5. NoneExpired'
  BY <1>1, <1>3, <1>4 DEF NoneExpired
<1>6. TopicInv'
  BY <1>1 DEF TopicInv
<1>7. SampleInv'
  BY <1>1, <1>2 DEF SampleInv, Creating, Deciding
<1>8. MirrorInv'
  <2>1. \A x \in network : x \in active
    BY <1>1, <1>2 DEF MirrorInv, DBInv, DBTypeOK, DDSEntities
  <2> QED
    BY <1>1, <1>2, <1>3, <2>1 DEF MirrorInv, InFlight
<1>9. ToldInv'
  BY <1>1 DEF ToldInv
<1> QED
  BY <1>5, <1>6, <1>7, <1>8, <1>9
-----------------------------------------------------------------------------
LEMMA SequentialNext ==
  ASSUME ~ConcurrentClear, DBInv, TellInv, SequentialInv, [DBNext]_dbvars
  PROVE  SequentialInv'
<1>1. CASE UNCHANGED dbvars
  <2>1. UNCHANGED <<network, stored, active, linked, orphans, topicless, told, task,
                    terminated>>
    BY <1>1 DEF dbvars, entities
  <2> QED
    BY <2>1 DEF SequentialInv, NoneExpired, TopicInv, SampleInv, MirrorInv, ToldInv,
                InFlight
<1> QED
  BY <1>1, SampleStep, LookupSteps, OutsideSteps, ParticipantSteps, NotifySteps,
     ParticipantFalls, EndpointSteps, CreateSteps, SettledClear DEF DBNext

LEMMA SequentialInvariance ==
  ASSUME ~ConcurrentClear
  PROVE  DBSpec => []SequentialInv
<1>1. DBInit => SequentialInv
  <2> SUFFICES ASSUME DBInit PROVE SequentialInv
    OBVIOUS
  <2>1. task = NoTask /\ task.step = "idle" /\ task.ends = {}
    BY NoTaskFields DEF DBInit
  <2> QED
    BY <2>1 DEF DBInit, SequentialInv, NoneExpired, TopicInv, SampleInv, MirrorInv,
                ToldInv, InFlight, Creating, Deciding
<1>2. DBInv /\ TellInv /\ SequentialInv /\ [DBNext]_dbvars => SequentialInv'
  BY SequentialNext
<1> QED
  BY <1>1, <1>2, Invariance, TellInvariance, PTL DEF DBSpec

(* If the application clears while no sample is being processed, then no    *)
(* reference a stored entity keeps expires, and nothing throws where an     *)
(* exception ends the program.                                              *)
THEOREM ReferencesKept ==
  ASSUME ~ConcurrentClear
  PROVE  DBSpec => []ReferencesAlive
<1>1. DBInv /\ SequentialInv => ReferencesAlive
  BY DEF DBInv, RefInv, SequentialInv, NoneExpired, ReferencesAlive
<1> QED
  BY <1>1, Invariance, SequentialInvariance, PTL

(* Between samples the participants and endpoints shown as active are those *)
(* on the network, whatever was discovered, undiscovered and cleared.       *)
THEOREM NetworkMirrored ==
  ASSUME ~ConcurrentClear
  PROVE  DBSpec => []MirrorsNetwork
<1>1. DBInv /\ SequentialInv => MirrorsNetwork
  <2> SUFFICES ASSUME DBInv, SequentialInv, Settled
               PROVE  active \cap DDSEntities = network
    BY DEF MirrorsNetwork
  <2>1. task.ends = {} /\ \A x : ~InFlight(x)
    BY NoTaskFields DEF Settled, InFlight, Creating, Deciding
  <2>2. \A p \in Participants : p \in active <=> p \in network
    BY <2>1 DEF SequentialInv, MirrorInv
  <2>3. \A e \in Endpoints : e \in active <=> e \in network
    BY <2>1 DEF SequentialInv, MirrorInv, Settled
  <2>4. network \subseteq DDSEntities
    BY DEF DBInv, DBTypeOK
  <2> QED
    BY <2>2, <2>3, <2>4 DEF DDSEntities
<1> QED
  BY <1>1, Invariance, SequentialInvariance, PTL

(* Between samples a host, user, process or topic is active exactly when    *)
(* something in it, or on it, is.                                           *)
THEOREM ActivityCarried ==
  ASSUME ~ConcurrentClear
  PROVE  DBSpec => []ActiveAsMembers
<1>1. DBInv /\ PhysicalInv /\ SequentialInv => ActiveAsMembers
  <2> SUFFICES ASSUME DBInv, PhysicalInv, SequentialInv, Settled,
                      NEW x \in stored \cap (Physical \cup Topics)
               PROVE  x \in active <=> Members(x) \cap active # {}
    BY DEF ActiveAsMembers
  <2>1. CASE x \in Physical
    <3>1. \A y : y \in Members(x) /\ y \in active <=>
                   y \in active \cap (Users \cup Processes \cup linked) /\ Parent[y] = x
      BY <2>1, PhysicalMembers
    <3> QED
      BY <2>1, <3>1 DEF PhysicalInv, DBInv, ActiveInv
  <2>2. CASE x \in Topics
    <3>1. Members(x) = {e \in stored \cap Endpoints : TopicOf[e] = x}
      BY <2>2 DEF Members, SequentialInv, NoneExpired
    <3>2. active \subseteq stored
      BY DEF DBInv, DBTypeOK
    <3>3. task.step = "idle"
      BY NoTaskFields DEF Settled
    <3> QED
      BY <2>2, <3>1, <3>2, <3>3 DEF SequentialInv, TopicInv
  <2> QED
    BY <2>1, <2>2
<1> QED
  BY <1>1, Invariance, PhysicalInvariance, SequentialInvariance, PTL

(* Between samples the listeners know which participants and endpoints are  *)
(* active, and of every other entity that is.  (What is proved on the way   *)
(* is that they know of no other: in this code topics and physical entities *)
(* are undiscovered as well.)                                               *)
THEOREM ListenersUpToDate ==
  ASSUME ~ConcurrentClear
  PROVE  DBSpec => []ToldWhatIs
<1>1. DBInv /\ TellInv /\ SequentialInv => ToldWhatIs
  <2> SUFFICES ASSUME DBInv, TellInv, SequentialInv, Settled
               PROVE  told = active
    BY DEF ToldWhatIs
  <2>1. /\ task.ends = {} /\ task.entity = NoEntity /\ NoEntity \notin DDSEntities
        /\ \A x : ~InFlight(x) /\ ~Due(x)
    BY NoTaskFields DEF Settled, InFlight, Creating, Deciding, Due
  <2>2. \A x \in Announced : x \in told <=> x \in active
    BY <2>1 DEF TellInv
  <2>3. \A p \in Participants : p \in active <=> p \in network
    BY <2>1 DEF SequentialInv, MirrorInv
  <2>4. \A e \in Endpoints : e \in active <=> e \in network
    BY <2>1 DEF SequentialInv, MirrorInv, Settled
  <2>5. \A x \in DDSEntities : x \in told <=> x \in network
    BY <2>1 DEF SequentialInv, ToldInv
  <2>6. told \subseteq Entities /\ active \subseteq Entities
    BY DEF DBInv, DBTypeOK
  <2>7. Entities = Announced \cup DDSEntities
    BY DEF Entities, Tree, Announced, DDSEntities
  <2> QED
    BY <2>2, <2>3, <2>4, <2>5, <2>6, <2>7 DEF DDSEntities
<1> QED
  BY <1>1, Invariance, TellInvariance, SequentialInvariance, PTL
-----------------------------------------------------------------------------
(***************************************************************************)
(* The domain view graphs, for an application that clears while no sample  *)
(* is being processed, and processes of a host with PIDs of their own.     *)
(***************************************************************************)
(* No two processes of a host are given the same PID.                       *)
PidsDistinct == \A x, y \in Processes : ~SamePid(x, y)

(* There is one domain.                                                     *)
SingleDomain == \A c, d \in Domains : c = d

(* A stored participant has its process, except the one being created, and  *)
(* an endpoint its participant, active and on the network like it; the      *)
(* handlers find what they look up.                                         *)
OwnedInv ==
  /\ \A p \in stored \cap Participants :
       p \in linked \/ (task.entity = p /\ task.step = "physical" /\ task.link)
  /\ \A e \in stored \cap Endpoints : Parent[e] \in linked
  /\ \A e \in active \cap Endpoints :
       /\ Parent[e] \in active \/ e \in task.ends
       /\ e \in network \/ InFlight(e)
  /\ task.step \in {"graph", "insert_topic", "insert_endpoint", "refresh",
                    "endpoint_graph"} => task.found

(* The graph of a domain shows what is active in it, except for the entity  *)
(* whose sample is in work, its topic, and the endpoints that are falling.  *)
ShownInv ==
  /\ \A p \in active \cap Participants :
       task.entity = p \/ Up(p) \subseteq graph[DomainOf[p]]
  /\ \A e \in active \cap Endpoints :
       task.entity = e \/ e \in task.ends \/ e \in graph[DomainOf[Parent[e]]]
  /\ \A t \in active \cap Topics :
       \/ task.entity \in Endpoints /\ TopicOf[task.entity] = t
       \/ t \in graph[DomainOf[t]]

(* What the sample in work takes away: all that may fall with a participant.*)
Leaves(x) ==
  /\ task.entity \in Participants /\ task.status = "UNDISCOVERY"
  /\ x \in Up(task.entity) \/ task.entity \in Up(x)

(* An endpoint on the topic is yet to be undiscovered, or is in work.       *)
Owed(t) ==
  \E e \in Endpoints :
    /\ TopicOf[e] = t
    /\ task.entity = e \/ (e \in network /\ Parent[e] \notin network)

(* In a single domain the graph shows nothing else, and an endpoint only    *)
(* below its participant.                                                   *)
OnlyShownInv ==
  \A d \in Domains : \A x \in graph[d] :
    /\ x \in Tree => x \in active \/ task.entity = x \/ Leaves(x)
    /\ x \in Topics => x \in active \/ Owed(x)
    /\ x \in Endpoints => Up(Parent[x]) \subseteq graph[d]
-----------------------------------------------------------------------------
LEMMA UpOfHost ==
  ASSUME NEW h \in Hosts
  PROVE  Up(h) = {h}
<1>1. WithParents({h}) = {h}
  BY DEF WithParents
<1> QED
  BY <1>1 DEF Up

LEMMA UpOfParticipant ==
  ASSUME NEW p \in Participants
  PROVE  /\ Up(p) = {p, Parent[p], Parent[Parent[p]], Parent[Parent[Parent[p]]]}
         /\ Up(p) = {p} \cup Up(Parent[p])
         /\ Range(Path(p)) = Up(p)
<1> DEFINE x == Parent[p]
           u == Parent[x]
           h == Parent[u]
<1>1. /\ p \notin Hosts /\ x \notin Hosts /\ u \notin Hosts /\ h \in Hosts
      /\ x \in Processes
  BY Chain, KindsAssumption
<1>2. WithParents({p}) = {p, x}
  BY <1>1 DEF WithParents
<1>3. WithParents({p, x}) = {p, x, u}
  BY <1>1 DEF WithParents
<1>4. WithParents({p, x, u}) = {p, x, u, h}
  BY <1>1 DEF WithParents
<1>5. WithParents({p, x, u, h}) = {p, x, u, h}
  BY <1>1 DEF WithParents
<1>6. Up(p) = {p, x, u, h}
  BY <1>2, <1>3, <1>4, <1>5 DEF Up
<1>7. Up(x) = {x, u, h}
  BY <1>1, UpOfProcess
<1>8. Range(Path(p)) = {p, x, u, h}
  BY DEF Range, Path
<1> QED
  BY <1>6, <1>7, <1>8

LEMMA UpOfEndpoint ==
  ASSUME NEW e \in Endpoints
  PROVE  Up(e) = {e} \cup Up(Parent[e])
<1> DEFINE p == Parent[e]
           x == Parent[p]
           u == Parent[x]
           h == Parent[u]
<1>1. /\ e \notin Hosts /\ p \notin Hosts /\ x \notin Hosts /\ u \notin Hosts
      /\ h \in Hosts /\ p \in Participants
  BY Chain, KindsAssumption
<1>2. WithParents({e}) = {e, p}
  BY <1>1 DEF WithParents
<1>3. WithParents({e, p}) = {e, p, x}
  BY <1>1 DEF WithParents
<1>4. WithParents({e, p, x}) = {e, p, x, u}
  BY <1>1 DEF WithParents
<1>5. WithParents({e, p, x, u}) = {e, p, x, u, h}
  BY <1>1 DEF WithParents
<1>6. Up(e) = {e, p, x, u, h}
  BY <1>2, <1>3, <1>4, <1>5 DEF Up
<1>7. Up(p) = {p, x, u, h}
  BY <1>1, UpOfParticipant
<1> QED
  BY <1>6, <1>7

(* What is above an entity: itself, no other endpoint, and one host; being  *)
(* above is transitive.                                                     *)
LEMMA UpAbove ==
  ASSUME NEW y \in Tree, NEW z \in Up(y)
  PROVE  /\ y \in Up(y) /\ z \in Up(z) /\ z \in Tree /\ Up(z) \subseteq Up(y)
         /\ \A h \in Hosts : h \in Up(y) => h \in Up(z)
         /\ z \in Endpoints => z = y
         /\ y \in Endpoints /\ z # y => z \in Up(Parent[y])
<1>1. ASSUME NEW w \in Users
      PROVE  Up(w) = {w, Parent[w]} /\ Up(Parent[w]) = {Parent[w]} /\ Parent[w] \in Hosts
  BY Chain, UpOfUser, UpOfHost
<1>2. ASSUME NEW w \in Processes
      PROVE  Up(w) = {w, Parent[w], Parent[Parent[w]]} /\ Parent[w] \in Users
  BY Chain, UpOfProcess
<1>3. ASSUME NEW w \in Participants
      PROVE  /\ Up(w) = {w, Parent[w], Parent[Parent[w]], Parent[Parent[Parent[w]]]}
             /\ Parent[w] \in Processes
  BY Chain, UpOfParticipant
<1>4. y \in Tree <=> y \in Hosts \/ y \in Users \/ y \in Processes \/ y \in Participants
                     \/ y \in Endpoints
  BY DEF Tree, Physical
<1>5. Hosts \subseteq Tree /\ Users \subseteq Tree /\ Processes \subseteq Tree
      /\ Participants \subseteq Tree /\ Endpoints \subseteq Tree
  BY DEF Tree, Physical
<1>6. CASE y \in Hosts
  BY <1>5, <1>6, UpOfHost, KindsAssumption
<1>7. CASE y \in Users
  BY <1>1, <1>5, <1>7, KindsAssumption
<1>8. CASE y \in Processes
  <2>1. z = y \/ z \in Up(Parent[y])
    BY <1>1, <1>2, <1>8
  <2> QED
    BY <1>1, <1>2, <1>5, <1>8, <2>1, KindsAssumption
<1>9. ASSUME NEW q \in Participants, NEW v \in Up(q)
      PROVE  /\ q \in Up(q) /\ v \in Up(v) /\ v \in Tree /\ Up(v) \subseteq Up(q)
             /\ \A h \in Hosts : h \in Up(q) => h \in Up(v)
             /\ v \notin Endpoints
  <2> DEFINE x == Parent[q]
             u == Parent[x]
             h == Parent[u]
  <2>1. /\ Up(q) = {q, x, u, h} /\ Up(x) = {x, u, h} /\ Up(u) = {u, h} /\ Up(h) = {h}
        /\ x \in Processes /\ u \in Users /\ h \in Hosts
    BY <1>1, <1>2, <1>3
  <2>2. q \notin Hosts /\ x \notin Hosts /\ u \notin Hosts
    BY <2>1, KindsAssumption
  <2>3. q \notin Endpoints /\ x \notin Endpoints /\ u \notin Endpoints /\ h \notin Endpoints
    BY <2>1, KindsAssumption
  <2> HIDE DEF x, u, h
  <2> QED
    BY <1>5, <1>9, <2>1, <2>2, <2>3
<1>10. CASE y \in Participants
  BY <1>9, <1>10, KindsAssumption
<1>11. CASE y \in Endpoints
  <2> DEFINE p == Parent[y]
  <2>1. Up(y) = {y} \cup Up(p) /\ p \in Participants /\ y \notin Hosts
    BY <1>11, Chain, UpOfEndpoint, KindsAssumption
  <2>2. CASE z = y
    BY <1>5, <1>11, <2>1, <2>2
  <2>3. CASE z \in Up(p)
    <3>1. /\ z \in Up(z) /\ z \in Tree /\ Up(z) \subseteq Up(p) /\ z \notin Endpoints
          /\ \A h \in Hosts : h \in Up(p) => h \in Up(z)
      BY <1>9, <2>1, <2>3
    <3> QED
      BY <2>1, <2>3, <3>1
  <2> QED
    BY <2>1, <2>2, <2>3
<1> QED
  BY <1>4, <1>6, <1>7, <1>8, <1>10, <1>11

(* Everything above an active participant, and above its active endpoints,  *)
(* is active.                                                               *)
LEMMA ActiveAbove ==
  ASSUME DBInv, NEW p \in active \cap linked
  PROVE  Up(p) \subseteq active
<1>1. p \in Participants
  BY DEF DBInv, DBTypeOK
<1>2. Up(p) = {p, Parent[p], Parent[Parent[p]], Parent[Parent[Parent[p]]]}
  BY <1>1, UpOfParticipant
<1>3. Parent[p] \in active /\ Parent[p] \in Processes /\ Parent[Parent[p]] \in Users
  BY <1>1, Chain DEF DBInv, ActiveInv
<1>4. Parent[Parent[p]] \in active
  BY <1>3 DEF DBInv, ActiveInv
<1>5. Parent[Parent[Parent[p]]] \in active
  BY <1>3, <1>4 DEF DBInv, ActiveInv
<1> QED
  BY <1>2, <1>3, <1>4, <1>5
-----------------------------------------------------------------------------
(* How the handler of a sample begins.                                      *)
LEMMA SampleBegins ==
  ASSUME DBInv, SequentialInv, NEW x \in DDSEntities, NEW status \in Statuses,
         process_sample(x, status)
  PROVE  /\ task.step = "idle" /\ task.ends = {} /\ task.entity = NoEntity
         /\ NoEntity \notin DDSEntities
         /\ network' = (IF status = "UNDISCOVERY" THEN network \ {x} ELSE network \cup {x})
         /\ UNCHANGED <<stored, active, linked, orphans, topicless, graph, told, terminated>>
         /\ network \subseteq stored
         /\ status = "DISCOVERY" => \A e \in network \cap Endpoints : Parent[e] # x
         /\ status = "UPDATE" => x \in network
         /\ task'.entity = x /\ task'.status = status /\ task'.ends = {}
         /\ x \in stored => task'.step = "kind"
         /\ x \notin stored => task'.step \in {"insert", "find"}
<1>1. /\ task = NoTask /\ Happens(x, status)
      /\ task' = (IF x \in stored THEN Known(x, status) ELSE Unknown(x, status))
      /\ UNCHANGED <<stored, active, linked, orphans, topicless, graph, told, terminated>>
  BY DEF process_sample, At, SequentialInv, SampleInv, entities
<1>2. /\ task.step = "idle" /\ task.ends = {} /\ task.entity = NoEntity
      /\ NoEntity \notin DDSEntities
  BY <1>1, NoTaskFields
<1>3. network \subseteq stored
  BY <1>2 DEF SequentialInv, MirrorInv, InFlight, Creating, Deciding
<1>4. /\ status = "DISCOVERY" => \A e \in network \cap Endpoints : Parent[e] # x
      /\ status # "DISCOVERY" => x \in network
  BY <1>1 DEF Happens, Statuses
<1>5. x \in stored \/ status = "DISCOVERY"
  BY <1>3, <1>4
<1>6. /\ task'.entity = x /\ task'.status = status /\ task'.ends = {}
      /\ x \in stored => task'.step = "kind"
      /\ x \notin stored => task'.step \in {"insert", "find"}
  BY <1>1, <1>5 DEF Known, Unknown, NoTask
<1> QED
  BY <1>1, <1>2, <1>3, <1>4, <1>6 DEF process_sample

(* A step that leaves participants and endpoints alone.                     *)
LEMMA OwnedKept ==
  ASSUME DBInv, OwnedInv, UNCHANGED network,
         \A x \in DDSEntities : (x \in active' <=> x \in active) /\ (x \in stored' <=> x \in stored),
         linked \subseteq linked', task.ends \subseteq task'.ends,
         \A e \in Endpoints : InFlight(e) => InFlight(e)',
         /\ task.step = "physical" /\ task.link /\ task.entity \in stored =>
              \/ task.entity \in linked'
              \/ task'.entity = task.entity /\ task'.step = "physical" /\ task'.link,
         task'.step \in {"graph", "insert_topic", "insert_endpoint", "refresh",
                         "endpoint_graph"} => task'.found
  PROVE  OwnedInv'
<1>1. /\ Participants \subseteq DDSEntities /\ Endpoints \subseteq DDSEntities
      /\ \A e \in Endpoints : Parent[e] \in DDSEntities
  BY Chain DEF DDSEntities
<1>2. \A p \in stored' \cap Participants :
        p \in linked' \/ (task'.entity = p /\ task'.step = "physical" /\ task'.link)
  BY <1>1 DEF OwnedInv
<1>3. \A e \in stored' \cap Endpoints : Parent[e] \in linked'
  BY <1>1 DEF OwnedInv
<1>4. \A e \in active' \cap Endpoints :
        /\ Parent[e] \in active' \/ e \in task'.ends
        /\ e \in network' \/ InFlight(e)'
  BY <1>1 DEF OwnedInv
<1> QED
  BY <1>2, <1>3, <1>4 DEF OwnedInv

LEMMA OwnedSample ==
  ASSUME DBInv, SequentialInv, OwnedInv, NEW x \in DDSEntities, NEW status \in Statuses,
         process_sample(x, status)
  PROVE  OwnedInv'
<1>1. /\ task.step = "idle" /\ task.ends = {}
      /\ network' = (IF status = "UNDISCOVERY" THEN network \ {x} ELSE network \cup {x})
      /\ UNCHANGED <<stored, active, linked>> /\ task'.entity = x
      /\ x \in stored => task'.step = "kind"
      /\ x \notin stored => task'.step \in {"insert", "find"}
  BY SampleBegins
<1>2. ASSUME NEW e \in active \cap Endpoints
      PROVE  Parent[e] \in active /\ (e \in network' \/ InFlight(e)')
  <2>1. Parent[e] \in active /\ e \in network
    BY <1>1 DEF OwnedInv, InFlight, Creating, Deciding
  <2> QED
    BY <1>1, <2>1 DEF InFlight, Creating, Deciding
<1>3. /\ \A p \in stored \cap Participants : p \in linked
      /\ \A e \in stored \cap Endpoints : Parent[e] \in linked
  BY <1>1 DEF OwnedInv
<1>4. task'.step \notin {"graph", "insert_topic", "insert_endpoint", "refresh",
                         "endpoint_graph"}
  BY <1>1
<1> QED
  BY <1>1, <1>2, <1>3, <1>4 DEF OwnedInv

LEMMA OwnedLookup ==
  ASSUME DBInv, SequentialInv, OwnedInv,
         get_entity_kind \/ LookupTopic \/ FindTopic \/ execute_without_lock
         \/ \E d \in Domains : regenerate_domain_graph(d)
  PROVE  OwnedInv'
<1>0. task \in TaskType
  BY DEF DBInv, DBTypeOK, TaskType
<1> DEFINE e == task.entity
<1>1. UNCHANGED <<network, stored, active, linked>>
  BY DEF get_entity_kind, LookupTopic, FindTopic, execute_without_lock,
         regenerate_domain_graph, entities
<1>2. CASE execute_without_lock \/ \E d \in Domains : regenerate_domain_graph(d)
  <2>1. UNCHANGED task
    BY <1>2 DEF execute_without_lock, regenerate_domain_graph
  <2> QED
    BY <1>1, <2>1 DEF OwnedInv, InFlight
<1>3. CASE get_entity_kind
  <2>1. Goto("change") /\ task.step = "kind"
    BY <1>3 DEF get_entity_kind, At, SequentialInv, SampleInv, Creating
  <2>2. /\ task'.entity = e /\ task'.ends = task.ends /\ task'.step = "change"
    BY <1>0, <2>1 DEF Goto, TaskType
  <2>3. \A f \in Endpoints : InFlight(f) => InFlight(f)'
    BY <2>2 DEF InFlight, Deciding
  <2> QED
    BY <1>1, <2>1, <2>2, <2>3, OwnedKept
<1>4. CASE LookupTopic
  <2>1. task.step = "lookup" /\ e \in Endpoints /\ e \in stored
    BY <1>4 DEF LookupTopic, At, DBInv, TaskInv, SequentialInv, SampleInv, Creating
  <2>2. Parent[e] \in stored /\ TopicOf[e] \in stored
    BY <2>1 DEF SequentialInv, NoneExpired, DBInv, RefInv
  <2>3. task' = [task EXCEPT !.step = "endpoint_graph", !.found = TRUE]
    BY <1>4, <2>2 DEF LookupTopic, TopicKnown
  <2>4. task'.entity = e /\ task'.ends = task.ends /\ task'.step = "endpoint_graph" /\ task'.found
    BY <1>0, <2>3 DEF TaskType
  <2>5. \A f \in Endpoints : InFlight(f) => InFlight(f)'
    BY <2>1 DEF InFlight, Creating, Deciding
  <2> QED
    BY <1>1, <2>1, <2>4, <2>5, OwnedKept
<1>5. CASE FindTopic
  <2>1. task.step = "find" /\ e \in Endpoints /\ e \in DDSEntities
        /\ Parent[e] \in network /\ Parent[e] # e
    BY <1>5, Chain, KindsAssumption
       DEF FindTopic, At, DBInv, TaskInv, SequentialInv, SampleInv, Creating, DDSEntities
  <2>2. Parent[e] \in stored
    BY <2>1 DEF SequentialInv, MirrorInv, InFlight
  <2>3. task' = [task EXCEPT !.found = TRUE,
                   !.step = IF TopicOf[e] \in stored THEN "insert_endpoint" ELSE "insert_topic"]
    BY <1>5, <2>2 DEF FindTopic, TopicKnown
  <2>4. /\ task'.entity = e /\ task'.ends = task.ends /\ task'.found
        /\ task'.step \in {"insert_endpoint", "insert_topic"}
    BY <1>0, <2>3 DEF TaskType
  <2>5. \A f \in Endpoints : InFlight(f) => InFlight(f)'
    BY <2>4 DEF InFlight, Creating
  <2> QED
    BY <1>1, <2>1, <2>4, <2>5, OwnedKept
<1> QED
  BY <1>2, <1>3, <1>4, <1>5

(* The status of a participant or of an endpoint is set.                    *)
LEMMA OwnedStatus ==
  ASSUME DBInv, SequentialInv, OwnedInv,
         ChangeParticipant \/ ChangeEndpoint \/ \E e \in Endpoints : EndpointInactive(e)
  PROVE  OwnedInv'
<1>0. task \in TaskType
  BY DEF DBInv, DBTypeOK, TaskType
<1>1. CASE ChangeParticipant
  <2> DEFINE p == task.entity
  <2>1. /\ p \in Participants /\ task.step = "change" /\ task.ends = {} /\ p \notin Endpoints
        /\ UNCHANGED <<network, stored, linked>>
        /\ \A y \in Endpoints \cup Topics \cup Participants :
             y # p => (y \in active' <=> y \in active)
        /\ p \in active' <=> task.status # "UNDISCOVERY"
        /\ Members(p) = {e \in stored \cap Endpoints : Parent[e] = p}
        /\ task'.step \in {"info", "physical"}
        /\ task.status = "UNDISCOVERY" => task'.ends = Members(p)
    BY <1>1, ParticipantEffect
  <2>2. /\ \A q \in stored \cap Participants : q \in linked
        /\ \A e \in stored \cap Endpoints : Parent[e] \in linked
    BY <2>1 DEF OwnedInv
  <2>3. ASSUME NEW e \in active' \cap Endpoints
        PROVE  (Parent[e] \in active' \/ e \in task'.ends) /\ e \in network'
    <3>1. e \in active /\ e \in stored /\ Parent[e] \in Participants /\ e # p
      BY <2>1, Chain DEF DBInv, DBTypeOK
    <3>2. Parent[e] \in active /\ e \in network
      BY <2>1, <3>1 DEF OwnedInv, InFlight
    <3>3. CASE Parent[e] = p
      BY <2>1, <3>1, <3>2, <3>3
    <3>4. CASE Parent[e] # p
      BY <2>1, <3>1, <3>2, <3>4
    <3> QED
      BY <3>3, <3>4
  <2> QED
    BY <2>1, <2>2, <2>3 DEF OwnedInv
<1>2. ASSUME NEW e \in Endpoints, NEW on \in BOOLEAN, NEW held \in BOOLEAN,
             change_endpoint_status(e, on, held), e \in stored,
             UNCHANGED <<network, stored, linked>>,
             on => e \in network /\ Parent[e] \in active,
             task.ends \ {e} \subseteq task'.ends, task.step # "physical" \/ ~task.link
             \/ (task'.step = task.step /\ task'.entity = task.entity /\ task'.link = task.link),
             \A f : InFlight(f) => f = e,
             task'.step \in {"graph", "insert_topic", "insert_endpoint", "refresh",
                             "endpoint_graph"} => task'.found
      PROVE  OwnedInv'
  <2>1. \A y : y \notin {e, TopicOf[e]} => (y \in active' <=> y \in active)
    BY <1>2, EndpointStatus
  <2>2. e \in active' <=> on
    BY <1>2, EndpointEffect DEF SequentialInv
  <2>3. TopicOf[e] \notin DDSEntities /\ e \notin Participants
    BY Chain, KindsAssumption DEF DDSEntities
  <2>4. ASSUME NEW f \in active' \cap Endpoints
        PROVE  (Parent[f] \in active' \/ f \in task'.ends) /\ f \in network'
    <3>1. Parent[f] \in Participants /\ (Parent[f] \in active' <=> Parent[f] \in active)
      BY <2>1, <2>3, Chain DEF DDSEntities
    <3>2. CASE f = e
      BY <1>2, <2>2, <2>4, <3>1, <3>2
    <3>3. CASE f # e
      <4>1. f \in active
        BY <2>1, <2>3, <2>4, <3>3 DEF DDSEntities
      <4> QED
        BY <1>2, <2>4, <3>1, <3>3, <4>1 DEF OwnedInv
    <3> QED
      BY <3>2, <3>3
  <2> QED
    BY <1>2, <2>4 DEF OwnedInv
<1>3. CASE ChangeEndpoint
  <2> DEFINE e == task.entity
             on == task.status # "UNDISCOVERY"
  <2>1. /\ e \in Endpoints /\ task.ends = {} /\ change_endpoint_status(e, on, FALSE)
        /\ task.step = (IF task.fresh THEN "refresh" ELSE "change")
        /\ Goto(IF task.fresh THEN "endpoint_graph" ELSE "lookup")
        /\ UNCHANGED <<network, stored, linked>>
    BY <1>3 DEF ChangeEndpoint, At
  <2>2. /\ task'.step = (IF task.fresh THEN "endpoint_graph" ELSE "lookup")
        /\ task'.ends = {} /\ task'.found = task.found
    BY <1>0, <2>1 DEF Goto, TaskType
  <2>3. /\ e \in stored /\ (e \in network <=> on) /\ (on => Parent[e] \in network)
        /\ Parent[e] \in Participants /\ Parent[e] # e
    BY <2>1, Chain, KindsAssumption DEF SequentialInv, SampleInv, Creating
  <2>4. on => Parent[e] \in active
    BY <2>3 DEF SequentialInv, MirrorInv, InFlight
  <2>5. task'.step \in {"graph", "insert_topic", "insert_endpoint", "refresh",
                        "endpoint_graph"} => task'.found
    BY <2>1, <2>2 DEF OwnedInv
  <2>6. on \in BOOLEAN /\ FALSE \in BOOLEAN /\ \A f : InFlight(f) => f = e
    BY DEF InFlight
  <2>7. task.step # "physical" /\ task.ends \ {e} \subseteq task'.ends
    BY <2>1
  <2> HIDE DEF on
  <2> QED
    BY <1>2, <2>1, <2>3, <2>4, <2>5, <2>6, <2>7
<1>4. ASSUME NEW e \in Endpoints, EndpointInactive(e)
      PROVE  OwnedInv'
  <2>1. /\ e \in task.ends /\ change_endpoint_status(e, FALSE, TRUE)
        /\ task' = [task EXCEPT !.ends = task.ends \ {e}]
        /\ UNCHANGED <<network, stored, linked>>
    BY <1>4 DEF EndpointInactive
  <2>2. /\ task'.entity = task.entity /\ task'.link = task.link
        /\ task'.step = task.step /\ task'.ends = task.ends \ {e}
    BY <1>0, <2>1 DEF TaskType
  <2>3. task.step = "physical" /\ e \in stored
    BY <2>1 DEF SequentialInv, SampleInv
  <2>4. \A f : ~InFlight(f)
    BY <2>3 DEF InFlight, Creating, Deciding
  <2>5. FALSE \in BOOLEAN /\ TRUE \in BOOLEAN
    OBVIOUS
  <2> QED
    BY <1>2, <2>1, <2>2, <2>3, <2>4, <2>5
<1> QED
  BY <1>1, <1>3, <1>4

(* A participant, a topic or an endpoint is created.                        *)
LEMMA OwnedCreate ==
  ASSUME DBInv, SequentialInv, OwnedInv,
         insert_new_participant \/ insert_new_topic \/ insert_new_endpoint
  PROVE  OwnedInv'
<1>0. task \in TaskType
  BY DEF DBInv, DBTypeOK, TaskType
<1> DEFINE y == task.entity
<1>1. UNCHANGED <<network, linked>> /\ task.ends = {}
      /\ task.step \in {"insert", "insert_topic", "insert_endpoint"}
  BY DEF insert_new_participant, insert_new_topic, insert_new_endpoint, At
<1>2. /\ y \in DDSEntities /\ y \notin stored /\ y \in network
      /\ y \in Endpoints => Parent[y] \in network
      /\ \A z : InFlight(z) <=> z = y
  BY <1>1 DEF SequentialInv, SampleInv, InFlight, Creating
<1>3. CASE insert_new_participant
  <2>1. y \in Participants /\ y \notin Endpoints
    BY <1>3, KindsAssumption DEF insert_new_participant, At, DBInv, TaskInv
  <2>2. /\ stored' = stored \cup {y} /\ active' = active \cup {y}
        /\ task' = [task EXCEPT !.step = "physical", !.link = TRUE]
    BY <1>3 DEF insert_new_participant
  <2>3. task'.entity = y /\ task'.step = "physical" /\ task'.link
    BY <1>0, <2>2 DEF TaskType
  <2>4. ASSUME NEW e \in active' \cap Endpoints
        PROVE  Parent[e] \in active' /\ e \in network'
    BY <1>1, <1>2, <2>1, <2>2 DEF OwnedInv
  <2>5. \A p \in stored' \cap Participants : p \in linked' \/ p = y
    BY <1>1, <2>2 DEF OwnedInv
  <2>6. \A e \in stored' \cap Endpoints : Parent[e] \in linked'
    BY <1>1, <2>1, <2>2 DEF OwnedInv
  <2> QED
    BY <2>3, <2>4, <2>5, <2>6 DEF OwnedInv
<1>4. CASE insert_new_topic
  <2> DEFINE t == TopicOf[y]
  <2>1. y \in Endpoints /\ task.step = "insert_topic" /\ t \notin DDSEntities
    BY <1>4, Chain, KindsAssumption DEF insert_new_topic, At, DBInv, TaskInv, DDSEntities
  <2>2. /\ stored' = stored \cup {t} /\ active' = active \cup {t}
        /\ task' = [task EXCEPT !.step = "insert_endpoint"]
    BY <1>4 DEF insert_new_topic, Goto
  <2>3. task'.entity = y /\ task'.step = "insert_endpoint" /\ task'.found = task.found
        /\ task'.ends = task.ends
    BY <1>0, <2>2 DEF TaskType
  <2>4. \A e \in Endpoints : InFlight(e) => InFlight(e)'
    BY <2>3 DEF InFlight, Creating
  <2>5. task.found
    BY <2>1 DEF OwnedInv
  <2>6. \A x \in DDSEntities : (x \in active' <=> x \in active) /\ (x \in stored' <=> x \in stored)
    BY <2>1, <2>2
  <2> QED
    BY <1>1, <2>1, <2>3, <2>4, <2>5, <2>6, OwnedKept
<1>5. CASE insert_new_endpoint
  <2>1. /\ y \in Endpoints /\ task.step = "insert_endpoint" /\ TopicOf[y] \in stored
        /\ y \notin Participants /\ Parent[y] \in Participants /\ Parent[y] # y
    BY <1>5, Chain, KindsAssumption
       DEF insert_new_endpoint, At, DBInv, TaskInv, SequentialInv, SampleInv
  <2>2. Parent[y] \in stored /\ Parent[y] \in active
    BY <1>2, <2>1 DEF SequentialInv, MirrorInv
  <2>3. /\ stored' = stored \cup {y} /\ active' = active \cup {y}
        /\ task' = [task EXCEPT !.step = "refresh"]
    BY <1>2, <1>5, <2>1, <2>2 DEF insert_new_endpoint, Accepts, Goto
  <2>4. task'.step = "refresh" /\ task'.found = task.found
    BY <1>0, <2>3 DEF TaskType
  <2>5. task.found /\ \A p \in stored \cap Participants : p \in linked
    BY <2>1 DEF OwnedInv
  <2>6. ASSUME NEW e \in active' \cap Endpoints
        PROVE  Parent[e] \in active' /\ e \in network'
    BY <1>1, <1>2, <2>2, <2>3 DEF OwnedInv
  <2>7. \A e \in stored' \cap Endpoints : Parent[e] \in linked'
    BY <1>1, <2>1, <2>2, <2>3, <2>5 DEF OwnedInv
  <2>8. \A p \in stored' \cap Participants : p \in linked'
    BY <1>1, <2>1, <2>3, <2>5
  <2> QED
    BY <2>4, <2>5, <2>6, <2>7, <2>8 DEF OwnedInv
<1> QED
  BY <1>3, <1>4, <1>5

(* With PIDs of their own, no process is refused.                           *)
LEMMA ProcessCreated ==
  ASSUME PidsDistinct, DBInv, process_physical_entities
  PROVE  LET p == task.entity
             x == Parent[p]
         IN  /\ stored' = stored \cup Up(x)
             /\ linked' = IF (task.link \/ x \notin stored) /\ p \in stored \ linked
                          THEN linked \cup {p} ELSE linked
             /\ active' = active \/ active' = active \cup Range(Rise(x))
             /\ task' = [task EXCEPT !.step = "graph", !.found = TRUE]
<1> DEFINE p == task.entity
           x == Parent[p]
<1>1. x \in Processes
  BY Chain DEF process_physical_entities, At, DBInv, TaskInv
<1>2. ~PidTaken(x)
  BY <1>1 DEF PidTaken, PidsDistinct
<1> DEFINE links == (task.link \/ x \notin stored) /\ p \in stored \ linked
           rising == IF links THEN LinkRises(p) ELSE <<>>
<1>3. /\ stored' = stored \cup Up(x)
      /\ linked' = IF links THEN linked \cup {p} ELSE linked
      /\ active' = active \cup Range(rising)
      /\ task' = [task EXCEPT !.step = "graph", !.found = TRUE]
  BY <1>2 DEF process_physical_entities
<1>4. rising = <<>> \/ rising = Rise(x)
  BY DEF LinkRises
<1> QED
  BY <1>3, <1>4, NothingTold

(* The rest of process_participant(): the process is found or created.      *)
LEMMA OwnedLink ==
  ASSUME PidsDistinct, DBInv, SequentialInv, OwnedInv,
         update_participant_discovery_info \/ UpdateInfoGraph \/ process_physical_entities
  PROVE  OwnedInv'
<1>0. task \in TaskType
  BY DEF DBInv, DBTypeOK, TaskType
<1> DEFINE p == task.entity
           x == Parent[p]
           u == Parent[x]
           h == Parent[u]
<1>1. /\ UNCHANGED network /\ p \in Participants /\ task.ends = {}
      /\ task.step \in {"info", "info_graph", "physical"}
  BY DEF update_participant_discovery_info, UpdateInfoGraph, process_physical_entities,
         At, DBInv, TaskInv
<1>2. /\ x \in Processes /\ u \in Users /\ h \in Hosts /\ p \in stored
      /\ \A y \in DDSEntities : y \notin {x, u, h}
  BY <1>1, Chain, KindsAssumption DEF SequentialInv, SampleInv, Creating, DDSEntities
<1>3. Range(Rise(x)) \subseteq {x, u, h}
  BY <1>2, RiseFacts DEF DBInv
<1>4. \A e : ~InFlight(e)
  BY <1>1 DEF InFlight, Creating, Deciding
<1> HIDE DEF x, u, h
<1>5. ASSUME NEW step \in {"info_graph", "physical", "graph"}, task'.step = step,
             stored \subseteq stored', stored' \subseteq stored \cup {x, u, h},
             active' = active \/ active' = active \cup Range(Rise(x)),
             linked \subseteq linked', task.step = "physical" => p \in linked',
             step = "graph" => task'.found
      PROVE  OwnedInv'
  <2>1. \A y \in DDSEntities : (y \in active' <=> y \in active) /\ (y \in stored' <=> y \in stored)
    BY <1>2, <1>3, <1>5
  <2> QED
    BY <1>1, <1>4, <1>5, <2>1, OwnedKept
<1>6. CASE update_participant_discovery_info
  <2>1. PICK step \in {"info_graph", "physical"} :
          /\ Goto(step) /\ UNCHANGED stored /\ linked \subseteq linked'
          /\ active' = active \/ active' = active \cup Range(Rise(x))
          /\ task.step = "info"
    BY <1>2, <1>6, NothingTold DEF update_participant_discovery_info, LinkRises, At, x
  <2>2. task'.step = step
    BY <1>0, <2>1 DEF Goto, TaskType
  <2> QED
    BY <1>5, <2>1, <2>2
<1>7. CASE UpdateInfoGraph
  <2>1. p \in linked /\ UNCHANGED <<stored, active, linked>> /\ task.step = "info_graph"
    BY <1>7 DEF UpdateInfoGraph, At, SequentialInv, SampleInv, entities
  <2>2. {p, x, u, h} \subseteq stored
    BY <1>2, <2>1 DEF DBInv, RefInv, x, u, h
  <2>3. Path(p) = <<h, u, x, p>>
    BY DEF Path, x, u, h
  <2>4. ~GraphThrows(Path(p))
    BY <2>2, <2>3 DEF GraphThrows, Cut
  <2>5. Goto("physical")
    BY <1>7, <2>4 DEF UpdateInfoGraph, SequentialInv, NoneExpired
  <2>6. task'.step = "physical"
    BY <1>0, <2>5 DEF Goto, TaskType
  <2> QED
    BY <1>5, <2>1, <2>6
<1>8. CASE process_physical_entities
  <2>1. Up(x) = {x, u, h}
    BY <1>2, UpOfProcess DEF u, h
  <2> DEFINE links == (task.link \/ x \notin stored) /\ p \in stored \ linked
  <2>2. task.step = "physical"
    BY <1>8 DEF process_physical_entities, At
  <2>3. /\ stored' = stored \cup {x, u, h}
        /\ linked' = (IF links THEN linked \cup {p} ELSE linked)
        /\ task' = [task EXCEPT !.step = "graph", !.found = TRUE]
        /\ active' = active \/ active' = active \cup Range(Rise(x))
    BY <1>8, <2>1, ProcessCreated DEF x
  <2>4. task'.step = "graph" /\ task'.found
    BY <1>0, <2>3 DEF TaskType
  <2>5. p \in linked'
    BY <1>1, <1>2, <2>2, <2>3 DEF OwnedInv
  <2> QED
    BY <1>5, <2>3, <2>4, <2>5
<1> QED
  BY <1>6, <1>7, <1>8

(* The end of a handler, and clearing between samples.                      *)
LEMMA OwnedEnd ==
  ASSUME ~ConcurrentClear, DBInv, SequentialInv, OwnedInv,
         \/ update_participant_in_graph \/ update_endpoint_in_graph
         \/ \E d \in Domains : clear_inactive_entities(d)
  PROVE  OwnedInv'
<1>1. CASE update_participant_in_graph \/ update_endpoint_in_graph
  <2>1. /\ UNCHANGED <<network, entities>> /\ task.ends = {} /\ Notify
        /\ task.step \in {"graph", "endpoint_graph"}
    BY <1>1, ParticipantNotified, EndpointNotified
  <2>2. UNCHANGED <<network, stored, active, linked>>
    BY <2>1 DEF entities
  <2>3. task'.step = "idle" /\ task'.ends = {}
    BY <2>1, NoTaskFields DEF Notify
  <2>4. \A e : ~InFlight(e)
    BY <2>1 DEF InFlight, Creating, Deciding
  <2> QED
    BY <2>1, <2>2, <2>3, <2>4, OwnedKept
<1>2. ASSUME NEW d \in Domains, clear_inactive_entities(d)
      PROVE  OwnedInv'
  <2>1. /\ task = NoTask /\ UNCHANGED <<network, active, task>>
        /\ stored' = active /\ linked' = linked \cap active
    <3>1. stored \cap active = active
      BY DEF DBInv, DBTypeOK
    <3> QED
      BY <1>2, <3>1 DEF clear_inactive_entities, Settled, Kept
  <2>2. task.step = "idle" /\ task.ends = {} /\ active \subseteq stored
    BY <2>1, NoTaskFields DEF DBInv, DBTypeOK
  <2>3. \A p \in stored \cap Participants : p \in linked
    BY <2>2 DEF OwnedInv
  <2>4. \A e \in active \cap Endpoints : Parent[e] \in active /\ Parent[e] \in linked
    BY <2>2 DEF OwnedInv
  <2>5. \A e : InFlight(e)' <=> InFlight(e)
    BY <2>1 DEF InFlight
  <2> QED
    BY <2>1, <2>2, <2>3, <2>4, <2>5 DEF OwnedInv
<1> QED
  BY <1>1, <1>2

LEMMA OwnedNext ==
  ASSUME ~ConcurrentClear, PidsDistinct, DBInv, SequentialInv, OwnedInv, [DBNext]_dbvars
  PROVE  OwnedInv'
<1>1. CASE UNCHANGED dbvars
  BY <1>1 DEF dbvars, entities, OwnedInv, InFlight
<1> QED
  BY <1>1, OwnedSample, OwnedLookup, OwnedStatus, OwnedCreate, OwnedLink, OwnedEnd DEF DBNext

LEMMA OwnedInvariance ==
  ASSUME ~ConcurrentClear, PidsDistinct
  PROVE  DBSpec => []OwnedInv
<1>1. DBInit => OwnedInv
  <2> SUFFICES ASSUME DBInit PROVE OwnedInv
    OBVIOUS
  <2>1. task.step = "idle"
    BY NoTaskFields DEF DBInit
  <2> QED
    BY <2>1 DEF DBInit, OwnedInv
<1>2. DBInv /\ SequentialInv /\ OwnedInv /\ [DBNext]_dbvars => OwnedInv'
  BY OwnedNext
<1> QED
  BY <1>1, <1>2, Invariance, SequentialInvariance, PTL DEF DBSpec
-----------------------------------------------------------------------------
(* What a regenerated graph shows: of its domain, all that is active.       *)
LEMMA RegeneratedShows ==
  ASSUME DBInv, NoneExpired, NEW d \in Domains, NEW kept, active \subseteq kept
  PROVE  LET G == Regenerated(d, kept) IN
         /\ \A p \in active \cap linked : DomainOf[p] = d => Up(p) \subseteq G
         /\ \A e \in active \cap Endpoints :
              Parent[e] \in active \cap linked /\ DomainOf[Parent[e]] = d => e \in G
         /\ \A t \in active \cap Topics : DomainOf[t] = d => t \in G
<1> DEFINE shown == kept \cap active
           of_domain == {p \in linked \cap kept : DomainOf[p] = d}
           hosts == {h \in Hosts \cap shown : \E p \in of_domain : h \in Up(p)}
           Branch == {x \in Tree \cap shown :
                        /\ Up(x) \subseteq shown
                        /\ Up(x) \cap hosts # {}
                        /\ Up(x) \cap Participants \subseteq linked
                        /\ x \notin orphans}
<1>1. Regenerated(d, kept) = {t \in Topics \cap shown : DomainOf[t] = d} \cup Branch
  BY DEF Regenerated
<1>2. shown = active /\ orphans = {} /\ linked \subseteq Participants
  BY DEF NoneExpired, DBInv, DBTypeOK
<1>3. ASSUME NEW p \in active \cap linked, DomainOf[p] = d
      PROVE  /\ Up(p) \subseteq Branch /\ Up(p) \subseteq active
             /\ Up(p) \cap hosts # {} /\ Up(p) \cap Participants \subseteq linked
  <2> DEFINE h == Parent[Parent[Parent[p]]]
  <2>1. Up(p) \subseteq active /\ p \in Participants /\ p \in Tree
    BY <1>2, ActiveAbove DEF Tree
  <2>2. h \in Hosts /\ h \in Up(p)
    BY <2>1, Chain, UpOfParticipant
  <2>3. h \in hosts
    BY <1>2, <1>3, <2>1, <2>2
  <2>4. Up(p) \cap Participants = {p}
    <3>1. Up(p) = {p, Parent[p], Parent[Parent[p]], Parent[Parent[Parent[p]]]}
      BY <2>1, UpOfParticipant
    <3>2. /\ Parent[p] \notin Participants /\ Parent[Parent[p]] \notin Participants
          /\ Parent[Parent[Parent[p]]] \notin Participants
      BY <2>1, Chain, KindsAssumption
    <3> QED
      BY <2>1, <3>1, <3>2
  <2> HIDE DEF h, hosts, shown
  <2>5. ASSUME NEW z \in Up(p) PROVE z \in Branch
    <3>1. z \in Tree /\ Up(z) \subseteq Up(p) /\ h \in Up(z) /\ z \in active
      BY <2>1, <2>2, UpAbove
    <3> QED
      BY <1>2, <1>3, <2>1, <2>3, <2>4, <3>1
  <2> QED
    BY <1>3, <2>1, <2>2, <2>3, <2>4, <2>5
<1>4. ASSUME NEW e \in active \cap Endpoints, Parent[e] \in active \cap linked,
             DomainOf[Parent[e]] = d
      PROVE  e \in Branch
  <2>1. Up(e) = {e} \cup Up(Parent[e]) /\ e \notin Participants /\ e \in Tree
    BY UpOfEndpoint, KindsAssumption DEF Tree
  <2>2. /\ Up(Parent[e]) \subseteq active /\ Up(Parent[e]) \cap hosts # {}
        /\ Up(Parent[e]) \cap Participants \subseteq linked
    BY <1>3, <1>4
  <2> HIDE DEF hosts, shown
  <2> QED
    BY <1>2, <2>1, <2>2
<1> QED
  BY <1>1, <1>2, <1>3, <1>4

(* And nothing else, an endpoint only below its participant.                *)
LEMMA OnlyRegenerated ==
  ASSUME DBInv, NoneExpired, NEW d \in Domains, NEW kept, NEW x \in Regenerated(d, kept)
  PROVE  /\ x \in active
         /\ x \in Endpoints => Up(Parent[x]) \subseteq Regenerated(d, kept)
<1> DEFINE shown == kept \cap active
           of_domain == {p \in linked \cap kept : DomainOf[p] = d}
           hosts == {h \in Hosts \cap shown : \E p \in of_domain : h \in Up(p)}
           Branch == {z \in Tree \cap shown :
                        /\ Up(z) \subseteq shown
                        /\ Up(z) \cap hosts # {}
                        /\ Up(z) \cap Participants \subseteq linked
                        /\ z \notin orphans}
<1>1. Regenerated(d, kept) = {t \in Topics \cap shown : DomainOf[t] = d} \cup Branch
  BY DEF Regenerated
<1>2. orphans = {} /\ hosts \subseteq Hosts
  BY DEF NoneExpired
<1>3. ASSUME x \in Endpoints, NEW z \in Up(Parent[x])
      PROVE  z \in Branch
  <2>1. x \in Branch /\ x \in Tree
    BY <1>1, <1>3, KindsAssumption DEF Tree
  <2>2. z \in Up(x)
    BY <1>3, UpOfEndpoint
  <2>3. z \in Tree /\ z \in Up(z) /\ Up(z) \subseteq Up(x)
        /\ \A h \in Hosts : h \in Up(x) => h \in Up(z)
    BY <2>1, <2>2, UpAbove
  <2> HIDE DEF hosts, shown
  <2>4. Up(z) \subseteq shown /\ Up(z) \cap Participants \subseteq linked
    BY <2>1, <2>3
  <2>5. Up(z) \cap hosts # {}
    BY <1>2, <2>1, <2>3
  <2> QED
    BY <1>2, <2>3, <2>4, <2>5
<1> QED
  BY <1>1, <1>3

(* The graphs after each of the steps that regenerate one.                  *)
LEMMA WrittenWhole ==
  ASSUME NEW shown
  PROVE  Written(shown, {}) = {shown}
BY DEF Written

LEMMA InfoGraphStep ==
  ASSUME DBInv, SequentialInv, UpdateInfoGraph
  PROVE  LET d == DomainOf[task.entity] IN
         /\ UNCHANGED <<network, stored, active, linked>> /\ d \in Domains
         /\ task'.entity = task.entity /\ task'.status = task.status
         /\ task'.ends = task.ends
         /\ UNCHANGED graph \/ graph' = [graph EXCEPT ![d] = Regenerated(d, stored)]
<1> DEFINE p == task.entity
           d == DomainOf[p]
           x == Parent[p]
           u == Parent[x]
           h == Parent[u]
           shown == Regenerated(d, stored)
<1>0. task \in TaskType
  BY DEF DBInv, DBTypeOK, TaskType
<1>1. /\ p \in linked /\ UNCHANGED <<network, stored, active, linked>>
      /\ p \in Participants /\ p \in stored
  BY DEF UpdateInfoGraph, At, SequentialInv, SampleInv, entities, DBInv, DBTypeOK
<1>2. {p, x, u, h} \subseteq stored
  BY <1>1, Chain DEF DBInv, RefInv
<1>3. Path(p) = <<h, u, x, p>>
  BY DEF Path
<1> HIDE DEF x, u, h
<1>4. ~GraphThrows(Path(p))
  BY <1>2, <1>3 DEF GraphThrows, Cut
<1>5. topicless = {}
  BY DEF SequentialInv, NoneExpired
<1>6. Written(shown, topicless) = {shown} /\ shown \cap topicless = {}
  BY <1>5, WrittenWhole
<1> HIDE DEF shown
<1>7. Goto("physical")
  BY <1>4, <1>6 DEF UpdateInfoGraph, shown
<1>8. UNCHANGED graph \/ graph' = [graph EXCEPT ![d] = shown]
  BY <1>4, <1>6 DEF UpdateInfoGraph, shown
<1>9. task'.entity = task.entity /\ task'.status = task.status /\ task'.ends = task.ends
  BY <1>0, <1>7 DEF Goto, TaskType
<1> QED
  BY <1>1, <1>8, <1>9, Chain DEF shown

LEMMA RegenerateStep ==
  ASSUME DBInv, SequentialInv, NEW d \in Domains, regenerate_domain_graph(d)
  PROVE  /\ UNCHANGED <<network, stored, active, linked, task>>
         /\ graph' = [graph EXCEPT ![d] = Regenerated(d, stored)]
<1> DEFINE shown == Regenerated(d, stored)
<1>1. Written(shown, topicless) = {shown}
  BY WrittenWhole DEF SequentialInv, NoneExpired
<1> HIDE DEF shown
<1>2. UNCHANGED <<network, stored, active, linked, task>>
  BY DEF regenerate_domain_graph, entities
<1>3. graph' = [graph EXCEPT ![d] = shown]
  BY <1>1 DEF regenerate_domain_graph, shown
<1> QED
  BY <1>2, <1>3 DEF shown

LEMMA ClearGraphStep ==
  ASSUME ~ConcurrentClear, DBInv, SequentialInv, NEW d \in Domains,
         clear_inactive_entities(d)
  PROVE  /\ UNCHANGED <<network, active, task>>
         /\ graph' = [graph EXCEPT ![d] = Regenerated(d, active)]
<1> DEFINE shown == Regenerated(d, active)
<1>1. task = NoTask /\ UNCHANGED <<network, active, task>>
  BY DEF clear_inactive_entities, Settled
<1>2. task.step = "idle"
  BY <1>1, NoTaskFields
<1>3. stored \cap active = active
  BY DEF DBInv, DBTypeOK
<1>4. {e \in active \cap Endpoints : e \in topicless \/ TopicOf[e] \notin active} = {}
  BY <1>2 DEF SequentialInv, NoneExpired, TopicInv
<1>5. Written(shown, {}) = {shown}
  BY WrittenWhole
<1> HIDE DEF shown
<1>6. graph' = [graph EXCEPT ![d] = shown]
  BY <1>3, <1>4, <1>5 DEF clear_inactive_entities, shown
<1> QED
  BY <1>1, <1>6 DEF shown
-----------------------------------------------------------------------------
(* The graphs stay as they are, and what becomes active is in work.         *)
LEMMA ShownKept ==
  ASSUME ShownInv, UNCHANGED graph,
         \A x \in DDSEntities : task.entity = x => task'.entity = x,
         \A x \in DDSEntities : x \in active' => x \in active \/ task'.entity = x,
         \A e \in task.ends : e \in active' => e \in task'.ends,
         \A t \in Topics : t \in active' =>
           t \in active \/ (task'.entity \in Endpoints /\ TopicOf[task'.entity] = t)
  PROVE  ShownInv'
<1>1. Participants \subseteq DDSEntities /\ Endpoints \subseteq DDSEntities
  BY DEF DDSEntities
<1>2. \A p \in active' \cap Participants :
        task'.entity = p \/ Up(p) \subseteq graph'[DomainOf[p]]
  BY <1>1 DEF ShownInv
<1>3. \A e \in active' \cap Endpoints :
        task'.entity = e \/ e \in task'.ends \/ e \in graph'[DomainOf[Parent[e]]]
  BY <1>1 DEF ShownInv
<1>4. \A t \in active' \cap Topics :
        \/ task'.entity \in Endpoints /\ TopicOf[task'.entity] = t
        \/ t \in graph'[DomainOf[t]]
  BY <1>1 DEF ShownInv
<1> QED
  BY <1>2, <1>3, <1>4 DEF ShownInv, Up, WithParents

(* A graph is regenerated.                                                  *)
LEMMA ShownRegenerated ==
  ASSUME DBInv, SequentialInv, OwnedInv, ShownInv, NEW d \in Domains, NEW kept,
         active \subseteq kept, UNCHANGED active,
         task'.entity = task.entity, task'.ends = task.ends,
         graph' = [graph EXCEPT ![d] = Regenerated(d, kept)]
  PROVE  ShownInv'
<1> DEFINE G == Regenerated(d, kept)
<1>1. /\ \A p \in active \cap linked : DomainOf[p] = d => Up(p) \subseteq G
      /\ \A e \in active \cap Endpoints :
           Parent[e] \in active \cap linked /\ DomainOf[Parent[e]] = d => e \in G
      /\ \A t \in active \cap Topics : DomainOf[t] = d => t \in G
  BY RegeneratedShows DEF SequentialInv
<1> HIDE DEF G
<1>2. /\ graph'[d] = G /\ \A c \in Domains : c # d => graph'[c] = graph[c]
      /\ active \subseteq stored
  BY DEF G, DBInv, DBTypeOK
<1>3. \A p \in active \cap Participants :
        task.entity = p \/ Up(p) \subseteq graph'[DomainOf[p]]
  BY <1>1, <1>2, Chain DEF ShownInv, OwnedInv
<1>4. \A e \in active \cap Endpoints :
        task.entity = e \/ e \in task.ends \/ e \in graph'[DomainOf[Parent[e]]]
  BY <1>1, <1>2, Chain DEF ShownInv, OwnedInv
<1>5. \A t \in active \cap Topics :
        \/ task.entity \in Endpoints /\ TopicOf[task.entity] = t
        \/ t \in graph'[DomainOf[t]]
  BY <1>1, <1>2, DatabaseAssumption DEF ShownInv
<1> QED
  BY <1>3, <1>4, <1>5 DEF ShownInv

(* The way down to a participant: what is added to the graph is active, and *)
(* what is erased lies below the first entity that is not.                  *)
LEMMA PathFacts ==
  ASSUME NEW p \in Participants
  PROVE  /\ Reached(Path(p)) \subseteq Up(p) \cap active
         /\ Up(p) \subseteq active => Reached(Path(p)) = Up(p)
         /\ Cut(Path(p)) \subseteq Up(p) \ active
         /\ p \notin active =>
              \E c \in Cut(Path(p)) : \A x \in Up(p) \ active : c \in Up(x)
<1> DEFINE x == Parent[p]
           u == Parent[x]
           h == Parent[u]
           s == Path(p)
<1>1. /\ Up(p) = {p, x, u, h} /\ Up(x) = {x, u, h} /\ Up(u) = {u, h} /\ Up(h) = {h}
  BY Chain, UpOfParticipant, UpOfProcess, UpOfUser, UpOfHost
<1>2. s = <<h, u, x, p>>
  BY DEF Path
<1> HIDE DEF x, u, h, s
<1>3. /\ DOMAIN s = 1 .. 4 /\ s[1] = h /\ s[2] = u /\ s[3] = x /\ s[4] = p
  BY <1>2
<1>4. Reached(s) \subseteq Up(p) \cap active
  BY <1>1, <1>3 DEF Reached
<1>5. Up(p) \subseteq active => Reached(s) = Up(p)
  <2> SUFFICES ASSUME Up(p) \subseteq active PROVE Up(p) \subseteq Reached(s)
    BY <1>4
  <2>1. \A i \in 1 .. 4 : s[i] \in active
    BY <1>1, <1>3
  <2>2. \A k \in 1 .. 4 : \A j \in 1 .. k : s[j] \in active
    BY <2>1
  <2>3. \A k \in 1 .. 4 : s[k] \in Reached(s)
    BY <1>3, <2>2 DEF Reached
  <2>4. 1 \in 1 .. 4 /\ 2 \in 1 .. 4 /\ 3 \in 1 .. 4 /\ 4 \in 1 .. 4
    OBVIOUS
  <2> QED
    BY <1>1, <1>3, <2>3, <2>4
<1>6. Cut(s) \subseteq Up(p) \ active
  BY <1>1, <1>3 DEF Cut
<1>7. ASSUME NEW k \in 1 .. 4, s[k] \notin active, \A j \in 1 .. k - 1 : s[j] \in active
      PROVE  s[k] \in Cut(s)
  BY <1>3, <1>7 DEF Cut
<1>8. ASSUME p \notin active
      PROVE  \E c \in Cut(s) : \A y \in Up(p) \ active : c \in Up(y)
  <2>1. CASE h \notin active
    <3>1. h \in Cut(s)
      BY <1>3, <1>7, <2>1
    <3> QED
      BY <1>1, <3>1
  <2>2. CASE h \in active /\ u \notin active
    <3>1. \A j \in 1 .. 2 - 1 : s[j] \in active
      BY <1>3, <2>2
    <3>2. u \in Cut(s)
      BY <1>3, <1>7, <2>2, <3>1
    <3> QED
      BY <1>1, <2>2, <3>2
  <2>3. CASE h \in active /\ u \in active /\ x \notin active
    <3>1. \A j \in 1 .. 3 - 1 : s[j] \in active
      BY <1>3, <2>3
    <3>2. x \in Cut(s)
      BY <1>3, <1>7, <2>3, <3>1
    <3> QED
      BY <1>1, <2>3, <3>2
  <2>4. CASE h \in active /\ u \in active /\ x \in active
    <3>1. \A j \in 1 .. 4 - 1 : s[j] \in active
      BY <1>3, <2>4
    <3>2. p \in Cut(s)
      BY <1>3, <1>7, <1>8, <3>1
    <3> QED
      BY <1>1, <2>4, <3>2
  <2> QED
    BY <2>1, <2>2, <2>3, <2>4
<1> QED
  BY <1>4, <1>5, <1>6, <1>8 DEF s

(* The graph of the domain after update_participant_in_graph_nts().         *)
LEMMA ParticipantGraphStep ==
  ASSUME DBInv, SequentialInv, OwnedInv, update_participant_in_graph
  PROVE  LET p == task.entity
             d == DomainOf[p]
         IN  /\ UNCHANGED <<network, stored, active, linked>>
             /\ p \in Participants /\ d \in Domains /\ Up(p) \subseteq stored
             /\ task.step = "graph" /\ task.ends = {}
             /\ task'.entity = NoEntity /\ task'.ends = {}
             /\ graph' = [graph EXCEPT ![d] = ParticipantGraph(d, Path(p))]
<1> DEFINE p == task.entity
           d == DomainOf[p]
<1>1. /\ p \in Participants /\ p \in stored /\ Parent[Parent[p]] \in stored
      /\ Parent[Parent[Parent[p]]] \in stored /\ (task.found => Parent[p] \in stored)
      /\ task.step = "graph" /\ task.ends = {} /\ Notify
      /\ UNCHANGED <<network, entities>>
  BY ParticipantNotified
<1>2. task.found
  BY <1>1 DEF OwnedInv
<1>3. Up(p) \subseteq stored
  BY <1>1, <1>2, UpOfParticipant
<1>4. graph' = [graph EXCEPT ![d] = ParticipantGraph(d, Path(p))]
  BY <1>2 DEF update_participant_in_graph
<1>5. task'.entity = NoEntity /\ task'.ends = {}
  BY <1>1, NoTaskFields DEF Notify
<1> QED
  BY <1>1, <1>3, <1>4, <1>5, Chain DEF entities

(* ... and after update_endpoint_in_graph_nts().                            *)
LEMMA EndpointGraphStep ==
  ASSUME DBInv, SequentialInv, OwnedInv, update_endpoint_in_graph
  PROVE  LET e == task.entity
             p == Parent[e]
             t == TopicOf[e]
             d == DomainOf[p]
             topic_done == IF t \in active THEN graph[d] \cup {t} ELSE graph[d] \ {t}
             present == Up(p) \subseteq graph[d]
         IN  /\ UNCHANGED <<network, stored, active, linked>>
             /\ e \in Endpoints /\ p \in Participants /\ t \in Topics /\ d \in Domains
             /\ DomainOf[t] = d
             /\ task.step = "endpoint_graph" /\ task.ends = {}
             /\ task'.entity = NoEntity /\ task'.ends = {}
             /\ graph' = [graph EXCEPT ![d] =
                  IF ~present THEN topic_done
                  ELSE IF e \in active THEN topic_done \cup {e} ELSE topic_done \ {e}]
<1> DEFINE e == task.entity
           p == Parent[e]
           t == TopicOf[e]
           d == DomainOf[p]
           topic_done == IF t \in active THEN graph[d] \cup {t} ELSE graph[d] \ {t}
           present == Up(p) \subseteq graph[d]
<1>1. /\ e \in Endpoints /\ e \in stored /\ p \in stored /\ t \in stored
      /\ task.step = "endpoint_graph" /\ task.ends = {} /\ Notify
      /\ UNCHANGED <<network, entities>>
  BY EndpointNotified
<1>2. task.found /\ p \in linked
  BY <1>1 DEF OwnedInv
<1>3. p \in Participants /\ t \in Topics /\ d \in Domains /\ DomainOf[t] = d
  BY <1>1, Chain, DatabaseAssumption
<1>4. Range(Path(p)) = Up(p)
  BY <1>3, UpOfParticipant
<1>5. graph' = [graph EXCEPT ![d] =
         IF ~present THEN topic_done
         ELSE IF e \in active THEN topic_done \cup {e} ELSE topic_done \ {e}]
  BY <1>1, <1>2, <1>4 DEF update_endpoint_in_graph
<1>6. task'.entity = NoEntity /\ task'.ends = {}
  BY <1>1, NoTaskFields DEF Notify
<1>7. UNCHANGED <<network, stored, active, linked>>
  BY <1>1 DEF entities
<1> QED
  BY <1>1, <1>3, <1>5, <1>6, <1>7

(* A participant is updated in the graph: what is active stays, or comes.   *)
LEMMA ShownParticipant ==
  ASSUME DBInv, SequentialInv, OwnedInv, ShownInv, update_participant_in_graph
  PROVE  ShownInv'
<1> DEFINE p == task.entity
           d == DomainOf[p]
           G == ParticipantGraph(d, Path(p))
<1>1. /\ UNCHANGED <<network, stored, active, linked>>
      /\ p \in Participants /\ d \in Domains
      /\ task.step = "graph" /\ task.ends = {}
      /\ graph' = [graph EXCEPT ![d] = ParticipantGraph(d, Path(p))]
  BY ParticipantGraphStep
<1>2. /\ Reached(Path(p)) \subseteq Up(p) \cap active
      /\ Up(p) \subseteq active => Reached(Path(p)) = Up(p)
      /\ Cut(Path(p)) \subseteq Up(p) \ active
  BY <1>1, PathFacts
<1>3. ASSUME NEW x \in graph[d] \cup Reached(Path(p)),
             x \in Tree => Up(x) \subseteq active
      PROVE  x \in G
  <2>1. \A c \in Cut(Path(p)) : x \notin Below(c)
    BY <1>2, <1>3 DEF Below
  <2> QED
    BY <1>3, <2>1 DEF ParticipantGraph
<1> HIDE DEF G
<1>4. graph'[d] = G /\ \A c \in Domains : c # d => graph'[c] = graph[c]
  BY <1>1 DEF G, DBInv, DBTypeOK
<1>5. active \subseteq stored /\ \A q \in stored \cap Participants : q \in linked
  BY <1>1 DEF OwnedInv, DBInv, DBTypeOK
<1>6. ASSUME NEW q \in active \cap Participants
      PROVE  Up(q) \subseteq graph'[DomainOf[q]]
  <2>1. Up(q) \subseteq active /\ q \in Tree
    BY <1>5, ActiveAbove DEF Tree
  <2>2. Up(q) \subseteq graph[DomainOf[q]] \/ (q = p /\ Up(q) = Reached(Path(p)))
    BY <1>2, <2>1 DEF ShownInv
  <2>3. CASE DomainOf[q] = d
    <3>1. ASSUME NEW z \in Up(q) PROVE z \in G
      <4>1. Up(z) \subseteq active
        BY <2>1, UpAbove
      <4>2. z \in graph[d] \cup Reached(Path(p))
        BY <2>2, <2>3
      <4> QED
        BY <1>3, <4>1, <4>2
    <3> QED
      BY <1>4, <2>3, <3>1
  <2>4. CASE DomainOf[q] # d
    BY <1>4, <2>2, <2>4, Chain
  <2> QED
    BY <2>3, <2>4
<1>7. ASSUME NEW e \in active \cap Endpoints
      PROVE  e \in graph'[DomainOf[Parent[e]]]
  <2>1. e # p
    BY <1>1, KindsAssumption
  <2>2. e \in graph[DomainOf[Parent[e]]]
    BY <1>1, <2>1 DEF ShownInv
  <2>3. Parent[e] \in active /\ Parent[e] \in linked
    BY <1>1, <1>5 DEF OwnedInv
  <2>4. Up(e) \subseteq active
    BY <2>3, ActiveAbove, UpOfEndpoint
  <2>5. DomainOf[Parent[e]] \in Domains
    BY Chain
  <2> QED
    BY <1>3, <1>4, <2>2, <2>4, <2>5
<1>8. ASSUME NEW t \in active \cap Topics
      PROVE  t \in graph'[DomainOf[t]]
  <2>1. p \notin Endpoints /\ t \notin Tree /\ DomainOf[t] \in Domains
    BY <1>1, KindsAssumption, DatabaseAssumption DEF Tree, Physical
  <2>2. t \in graph[DomainOf[t]]
    BY <2>1 DEF ShownInv
  <2> QED
    BY <1>3, <1>4, <2>1, <2>2
<1> QED
  BY <1>1, <1>6, <1>7, <1>8 DEF ShownInv

(* An endpoint is updated in the graph, and its topic.                      *)
LEMMA ShownEndpoint ==
  ASSUME DBInv, SequentialInv, OwnedInv, ShownInv, update_endpoint_in_graph
  PROVE  ShownInv'
<1> DEFINE e == task.entity
           p == Parent[e]
           t == TopicOf[e]
           d == DomainOf[p]
           topic_done == IF t \in active THEN graph[d] \cup {t} ELSE graph[d] \ {t}
           present == Up(p) \subseteq graph[d]
           G == IF ~present THEN topic_done
                ELSE IF e \in active THEN topic_done \cup {e} ELSE topic_done \ {e}
<1>1. /\ UNCHANGED <<network, stored, active, linked>>
      /\ e \in Endpoints /\ p \in Participants /\ t \in Topics /\ d \in Domains
      /\ DomainOf[t] = d /\ task.ends = {} /\ task.step = "endpoint_graph"
      /\ graph' = [graph EXCEPT ![d] = G]
  BY EndpointGraphStep
<1>2. \A x \in graph[d] : x \notin {e, t} => x \in G
  OBVIOUS
<1>3. t \in active => t \in G
  BY <1>1, KindsAssumption
<1>4. e \in active => e \in G
  <2> SUFFICES ASSUME e \in active PROVE e \in G
    OBVIOUS
  <2>1. p \in active /\ p # e
    BY <1>1, KindsAssumption DEF OwnedInv
  <2>2. present
    BY <1>1, <2>1 DEF ShownInv
  <2> QED
    BY <2>2
<1> HIDE DEF G
<1>5. graph'[d] = G /\ \A c \in Domains : c # d => graph'[c] = graph[c]
  BY <1>1 DEF DBInv, DBTypeOK
<1> HIDE DEF e, p, t, d
<1>6. ASSUME NEW q \in active \cap Participants
      PROVE  Up(q) \subseteq graph'[DomainOf[q]]
  <2>1. Up(q) \subseteq graph[DomainOf[q]] /\ DomainOf[q] \in Domains
    BY <1>1, Chain, KindsAssumption DEF ShownInv, e
  <2>2. \A z \in Up(q) : z # e /\ z # t
    <3>1. q \in Tree /\ q \notin Endpoints
      BY KindsAssumption DEF Tree
    <3>2. \A z \in Up(q) : z \in Tree /\ z \notin Endpoints
      BY <3>1, UpAbove
    <3> QED
      BY <1>1, <3>2, KindsAssumption DEF Tree, Physical
  <2> QED
    BY <1>2, <1>5, <2>1, <2>2
<1>7. ASSUME NEW f \in active \cap Endpoints
      PROVE  f \in graph'[DomainOf[Parent[f]]]
  <2>1. f # t /\ DomainOf[Parent[f]] \in Domains
    BY <1>1, Chain, KindsAssumption
  <2>2. CASE f = e
    BY <1>4, <1>5, <1>7, <2>2 DEF d, p
  <2>3. CASE f # e
    <3>1. f \in graph[DomainOf[Parent[f]]]
      BY <1>1, <2>3 DEF ShownInv, e
    <3> QED
      BY <1>2, <1>5, <2>1, <2>3, <3>1
  <2> QED
    BY <2>2, <2>3
<1>8. ASSUME NEW s \in active \cap Topics
      PROVE  s \in graph'[DomainOf[s]]
  <2>1. s # e /\ DomainOf[s] \in Domains
    BY <1>1, KindsAssumption, DatabaseAssumption
  <2>2. CASE s = t
    BY <1>1, <1>3, <1>5, <1>8, <2>2
  <2>3. CASE s # t
    <3>1. s \in graph[DomainOf[s]]
      BY <1>1, <2>3 DEF ShownInv, e, t
    <3> QED
      BY <1>2, <1>5, <2>1, <2>3, <3>1
  <2> QED
    BY <2>2, <2>3
<1> QED
  BY <1>1, <1>6, <1>7, <1>8 DEF ShownInv
-----------------------------------------------------------------------------
(* A step within a handler, or a call of a listener, leaves the graphs for  *)
(* the end of the handler: what becomes active is in work, and what stops   *)
(* being active leaves with the sample.                                     *)
Works ==
  /\ UNCHANGED <<network, graph>>
  /\ task'.entity = task.entity /\ task'.status = task.status
  /\ \A x \in DDSEntities : x \in active' => x \in active \/ task.entity = x
  /\ \A e \in task.ends : e \in active' => e \in task'.ends
  /\ \A t \in Topics : t \in active' =>
       t \in active \/ (task.entity \in Endpoints /\ TopicOf[task.entity] = t)
  /\ \A x \in Tree \cap active : x \in active' \/ task.entity = x \/ Leaves(x)
  /\ \A t \in Topics \cap active : t \in active' \/ Owed(t)

LEMMA LookupWorks ==
  ASSUME DBInv, SequentialInv, OwnedInv,
         get_entity_kind \/ LookupTopic \/ FindTopic \/ execute_without_lock
  PROVE  Works
<1>0. task \in TaskType
  BY DEF DBInv, DBTypeOK, TaskType
<1>1. UNCHANGED <<network, graph, active>>
  BY DEF get_entity_kind, LookupTopic, FindTopic, execute_without_lock, entities
<1>2. /\ task'.entity = task.entity /\ task'.status = task.status
      /\ task'.ends = task.ends
  <2>1. CASE get_entity_kind
    <3>1. Goto("change")
      BY <2>1 DEF get_entity_kind, At, SequentialInv, SampleInv, Creating
    <3> QED
      BY <1>0, <3>1 DEF Goto, TaskType
  <2>2. CASE LookupTopic
    <3>1. task.entity \in Endpoints /\ task.entity \in stored
      BY <2>2 DEF LookupTopic, At, DBInv, TaskInv, SequentialInv, SampleInv, Creating
    <3>2. Parent[task.entity] \in stored
      BY <3>1 DEF SequentialInv, NoneExpired
    <3> QED
      BY <1>0, <2>2, <3>2 DEF LookupTopic, TaskType
  <2>3. CASE FindTopic
    <3> DEFINE e == task.entity
    <3>1. e \in Endpoints /\ Parent[e] \in network /\ Parent[e] # e
      BY <2>3, Chain, KindsAssumption
         DEF FindTopic, At, DBInv, TaskInv, SequentialInv, SampleInv, Creating
    <3>2. Parent[e] \in stored
      BY <3>1 DEF SequentialInv, MirrorInv, InFlight
    <3> QED
      BY <1>0, <2>3, <3>2 DEF FindTopic, TaskType
  <2>4. CASE execute_without_lock
    BY <2>4 DEF execute_without_lock
  <2> QED
    BY <2>1, <2>2, <2>3, <2>4
<1> QED
  BY <1>1, <1>2 DEF Works

(* What falls with a participant is above it.                               *)
LEMMA ParticipantWorks ==
  ASSUME DBInv, SequentialInv, OwnedInv, ChangeParticipant
  PROVE  Works
<1> DEFINE p == task.entity
<1>1. /\ p \in Participants /\ task.ends = {} /\ UNCHANGED network
      /\ \A y \in Endpoints \cup Topics \cup Participants :
           y # p => (y \in active' <=> y \in active)
      /\ task'.entity = p /\ task'.status = task.status
  BY ParticipantEffect
<1>2. UNCHANGED graph
  BY DEF ChangeParticipant
<1>3. ASSUME NEW x \in Tree \cap active, x \notin active'
      PROVE  Leaves(x)
  <2>1. ParticipantInactive(p) /\ task.status = "UNDISCOVERY"
    BY <1>3 DEF ChangeParticipant, ParticipantActive
  <2>2. x = p \/ x \in Range(Fall(p))
    BY <1>3, <2>1, NothingTold DEF ParticipantInactive
  <2>3. x \in Up(p)
    BY <1>1, <2>2, FallFacts, UpOfParticipant
  <2> QED
    BY <1>1, <2>1, <2>3 DEF Leaves
<1>4. DDSEntities = Participants \cup Endpoints /\ p \notin Topics
  BY <1>1, KindsAssumption DEF DDSEntities
<1> QED
  BY <1>1, <1>2, <1>3, <1>4 DEF Works

(* An endpoint falls with its participant: its topic is owed an update of   *)
(* the graph, when the endpoint is undiscovered.                            *)
LEMMA EndpointWorks ==
  ASSUME DBInv, SequentialInv, OwnedInv,
         ChangeEndpoint \/ \E e \in Endpoints : EndpointInactive(e)
  PROVE  Works
<1>0. task \in TaskType
  BY DEF DBInv, DBTypeOK, TaskType
<1>1. UNCHANGED <<network, graph>>
  BY DEF ChangeEndpoint, EndpointInactive
<1>2. CASE ChangeEndpoint
  <2> DEFINE e == task.entity
             on == task.status # "UNDISCOVERY"
  <2>1. /\ e \in Endpoints /\ task.ends = {} /\ change_endpoint_status(e, on, FALSE)
    BY <1>2 DEF ChangeEndpoint, At
  <2>2. PICK step : Goto(step)
    BY <1>2 DEF ChangeEndpoint
  <2>3. task'.entity = e /\ task'.status = task.status
    BY <1>0, <2>2 DEF Goto, TaskType
  <2>4. \A y : y \notin {e, TopicOf[e]} => (y \in active' <=> y \in active)
    <3>1. on \in BOOLEAN /\ FALSE \in BOOLEAN
      OBVIOUS
    <3> HIDE DEF on
    <3> QED
      BY <2>1, <3>1, EndpointStatus
  <2>5. TopicOf[e] \in Topics /\ TopicOf[e] \notin Tree /\ TopicOf[e] \notin DDSEntities
        /\ e \notin Topics
    BY <2>1, Chain, KindsAssumption DEF Tree, Physical, DDSEntities
  <2>6. Owed(TopicOf[e])
    BY <2>1 DEF Owed
  <2> QED
    BY <1>1, <2>1, <2>3, <2>4, <2>5, <2>6 DEF Works
<1>3. ASSUME NEW e \in Endpoints, EndpointInactive(e)
      PROVE  Works
  <2> DEFINE t == TopicOf[e]
  <2>1. /\ e \in task.ends /\ change_endpoint_status(e, FALSE, TRUE)
        /\ task' = [task EXCEPT !.ends = task.ends \ {e}]
    BY <1>3 DEF EndpointInactive
  <2>2. /\ task'.entity = task.entity /\ task'.status = task.status
        /\ task'.ends = task.ends \ {e}
    BY <1>0, <2>1 DEF TaskType
  <2>3. /\ task.step = "physical" /\ task.status = "UNDISCOVERY"
        /\ Parent[e] = task.entity /\ e \in stored /\ Parent[e] \notin network
        /\ task.entity \in Participants /\ e # task.entity
    BY <2>1, KindsAssumption DEF SequentialInv, SampleInv, DBInv, TaskInv
  <2>4. \A y : y \notin {e, t} => (y \in active' <=> y \in active)
    <3>1. FALSE \in BOOLEAN /\ TRUE \in BOOLEAN
      OBVIOUS
    <3> QED
      BY <2>1, <3>1, EndpointStatus
  <2>5. /\ e \notin active'
        /\ t \in active' <=> /\ t \in active
                             /\ \E f \in active \cap Endpoints : f # e /\ TopicOf[f] = t
    <3>1. FALSE \in BOOLEAN /\ TRUE \in BOOLEAN
      OBVIOUS
    <3> QED
      BY <2>1, <2>3, <3>1, EndpointEffect DEF SequentialInv
  <2>6. t \in Topics /\ t \notin Tree /\ t \notin DDSEntities /\ e \notin Topics
    BY Chain, KindsAssumption DEF Tree, Physical, DDSEntities
  <2>7. Leaves(e)
    <3>1. task.entity \in Up(e)
      BY <2>3, UpOfEndpoint, UpOfParticipant
    <3> QED
      BY <2>3, <3>1 DEF Leaves
  <2>8. ASSUME t \in active, t \notin active'
        PROVE  Owed(t)
    <3>1. e \in active
      BY <2>3, <2>5, <2>6, <2>8 DEF SequentialInv, TopicInv
    <3>2. e \in network
      BY <2>3, <3>1 DEF OwnedInv, InFlight
    <3> QED
      BY <2>3, <3>2 DEF Owed
  <2>9. \A x \in DDSEntities : x \in active' => x \in active
    BY <2>4, <2>5, <2>6
  <2>10. \A x \in Topics : x \in active' => x \in active
    BY <2>4, <2>5, <2>6
  <2>11. \A x \in Tree \cap active : x \in active' \/ Leaves(x)
    BY <2>4, <2>6, <2>7
  <2>12. \A x \in Topics \cap active : x \in active' \/ Owed(x)
    BY <2>4, <2>6, <2>8
  <2>13. \A f \in task.ends : f \in active' => f \in task'.ends
    BY <2>2, <2>5
  <2> QED
    BY <1>1, <2>2, <2>9, <2>10, <2>11, <2>12, <2>13 DEF Works
<1> QED
  BY <1>2, <1>3

(* The steps that make entities active and none inactive.                   *)
LEMMA CreateWorks ==
  ASSUME DBInv, SequentialInv, OwnedInv,
         insert_new_participant \/ insert_new_topic \/ insert_new_endpoint
  PROVE  Works
<1> DEFINE y == task.entity
<1>0. task \in TaskType
  BY DEF DBInv, DBTypeOK, TaskType
<1>1. UNCHANGED <<network, graph>> /\ task.ends = {}
  BY DEF insert_new_participant, insert_new_topic, insert_new_endpoint, At
<1>2. CASE insert_new_participant
  <2>1. /\ y \in Participants /\ active' = active \cup {y}
        /\ task' = [task EXCEPT !.step = "physical", !.link = TRUE]
    BY <1>2 DEF insert_new_participant, At, DBInv, TaskInv
  <2>2. task'.entity = y /\ task'.status = task.status /\ y \notin Topics
    BY <1>0, <2>1, KindsAssumption DEF TaskType
  <2> QED
    BY <1>1, <2>1, <2>2 DEF Works
<1>3. CASE insert_new_topic
  <2>1. /\ y \in Endpoints /\ active' = active \cup {TopicOf[y]}
        /\ task' = [task EXCEPT !.step = "insert_endpoint"]
    BY <1>3 DEF insert_new_topic, At, DBInv, TaskInv, Goto
  <2>2. task'.entity = y /\ task'.status = task.status /\ TopicOf[y] \notin DDSEntities
    BY <1>0, <2>1, Chain, KindsAssumption DEF TaskType, DDSEntities
  <2> QED
    BY <1>1, <2>1, <2>2 DEF Works
<1>4. CASE insert_new_endpoint
  <2>1. /\ y \in Endpoints /\ task.step = "insert_endpoint" /\ TopicOf[y] \in stored
        /\ y \notin stored /\ Parent[y] \in network /\ Parent[y] # y
    BY <1>4, Chain, KindsAssumption
       DEF insert_new_endpoint, At, DBInv, TaskInv, SequentialInv, SampleInv, Creating
  <2>2. Parent[y] \in stored
    BY <2>1 DEF SequentialInv, MirrorInv, InFlight
  <2>3. active' = active \cup {y} /\ task' = [task EXCEPT !.step = "refresh"]
    BY <1>4, <2>1, <2>2 DEF insert_new_endpoint, Accepts, Goto
  <2>4. task'.entity = y /\ task'.status = task.status /\ y \notin Topics
    BY <1>0, <2>1, <2>3, KindsAssumption DEF TaskType
  <2> QED
    BY <1>1, <2>3, <2>4 DEF Works
<1> QED
  BY <1>2, <1>3, <1>4

LEMMA LinkWorks ==
  ASSUME PidsDistinct, DBInv, SequentialInv, OwnedInv,
         update_participant_discovery_info \/ process_physical_entities
  PROVE  Works
<1> DEFINE p == task.entity
           x == Parent[p]
<1>0. task \in TaskType
  BY DEF DBInv, DBTypeOK, TaskType
<1>1. /\ UNCHANGED <<network, graph>> /\ task.ends = {} /\ p \in Participants
      /\ p \in stored
  BY DEF update_participant_discovery_info, process_physical_entities, At, DBInv, TaskInv,
     SequentialInv, SampleInv, Creating
<1>2. Range(Rise(x)) \cap (DDSEntities \cup Topics) = {}
  <2>1. Range(Rise(x)) \subseteq {x, Parent[x], Parent[Parent[x]]} /\ x \in Processes
        /\ Parent[x] \in Users /\ Parent[Parent[x]] \in Hosts
    BY <1>1, Chain, RiseFacts DEF DBInv
  <2>2. Processes \cap (DDSEntities \cup Topics) = {} /\ Users \cap (DDSEntities \cup Topics) = {}
        /\ Hosts \cap (DDSEntities \cup Topics) = {}
    BY KindsAssumption DEF DDSEntities
  <2> HIDE DEF x
  <2> QED
    BY <2>1, <2>2
<1>3. active' = active \/ active' = active \cup Range(Rise(x))
  <2>1. CASE update_participant_discovery_info
    BY <1>1, <2>1, NothingTold DEF update_participant_discovery_info, LinkRises
  <2>2. CASE process_physical_entities
    BY <2>2, ProcessCreated
  <2> QED
    BY <2>1, <2>2
<1>4. task'.entity = p /\ task'.status = task.status
  <2>1. CASE update_participant_discovery_info
    <3>1. PICK step : Goto(step)
      BY <1>1, <2>1 DEF update_participant_discovery_info
    <3> QED
      BY <1>0, <3>1 DEF Goto, TaskType
  <2>2. CASE process_physical_entities
    <3>1. task' = [task EXCEPT !.step = "graph", !.found = TRUE]
      BY <2>2, ProcessCreated
    <3> QED
      BY <1>0, <3>1 DEF TaskType
  <2> QED
    BY <2>1, <2>2
<1> HIDE DEF x
<1> QED
  BY <1>1, <1>2, <1>3, <1>4 DEF Works

(* Every step is the start of a handler, one within it, or one that writes  *)
(* a graph.                                                                 *)
LEMMA GraphCases ==
  ASSUME PidsDistinct, DBInv, SequentialInv, OwnedInv, [DBNext]_dbvars
  PROVE  \/ Works
         \/ \E x \in DDSEntities, status \in Statuses : process_sample(x, status)
         \/ UpdateInfoGraph \/ update_participant_in_graph \/ update_endpoint_in_graph
         \/ \E d \in Domains : clear_inactive_entities(d) \/ regenerate_domain_graph(d)
<1>1. CASE UNCHANGED dbvars
  BY <1>1 DEF dbvars, entities, Works
<1> QED
  BY <1>1, LookupWorks, ParticipantWorks, EndpointWorks, CreateWorks, LinkWorks DEF DBNext

LEMMA ShownNext ==
  ASSUME ~ConcurrentClear, PidsDistinct, DBInv, SequentialInv, OwnedInv, ShownInv,
         [DBNext]_dbvars
  PROVE  ShownInv'
<1>0. active \subseteq stored
  BY DEF DBInv, DBTypeOK
<1>1. CASE Works
  BY <1>1, ShownKept DEF Works
<1>2. ASSUME NEW x \in DDSEntities, NEW status \in Statuses, process_sample(x, status)
      PROVE  ShownInv'
  BY <1>2, SampleBegins, ShownKept
<1>3. CASE UpdateInfoGraph
  <2> DEFINE d == DomainOf[task.entity]
  <2>1. /\ UNCHANGED active /\ d \in Domains
        /\ task'.entity = task.entity /\ task'.ends = task.ends
        /\ UNCHANGED graph \/ graph' = [graph EXCEPT ![d] = Regenerated(d, stored)]
    BY <1>3, InfoGraphStep
  <2>2. CASE UNCHANGED graph
    BY <2>1, <2>2, ShownKept
  <2>3. CASE graph' = [graph EXCEPT ![d] = Regenerated(d, stored)]
    BY <1>0, <2>1, <2>3, ShownRegenerated
  <2> QED
    BY <2>1, <2>2, <2>3
<1>4. ASSUME NEW d \in Domains, regenerate_domain_graph(d)
      PROVE  ShownInv'
  BY <1>0, <1>4, RegenerateStep, ShownRegenerated
<1>5. ASSUME NEW d \in Domains, clear_inactive_entities(d)
      PROVE  ShownInv'
  <2>1. UNCHANGED <<active, task>> /\ graph' = [graph EXCEPT ![d] = Regenerated(d, active)]
    BY <1>5, ClearGraphStep
  <2> QED
    BY <2>1, ShownRegenerated
<1> QED
  BY <1>1, <1>2, <1>3, <1>4, <1>5, GraphCases, ShownParticipant, ShownEndpoint

LEMMA ShownInvariance ==
  ASSUME ~ConcurrentClear, PidsDistinct
  PROVE  DBSpec => []ShownInv
<1>1. DBInit => ShownInv
  BY DEF DBInit, ShownInv
<1>2. DBInv /\ SequentialInv /\ OwnedInv /\ ShownInv /\ [DBNext]_dbvars => ShownInv'
  BY ShownNext
<1> QED
  BY <1>1, <1>2, Invariance, SequentialInvariance, OwnedInvariance, PTL DEF DBSpec

(* Between samples the view graph of every domain shows the participants,   *)
(* endpoints and topics that are active in it, and all that is above them:  *)
(* no sample, clear or regeneration loses one, whatever other domains do.   *)
THEOREM ActiveIsShown ==
  ASSUME ~ConcurrentClear, PidsDistinct
  PROVE  DBSpec => []GraphAllActive
<1>1. DBInv /\ ShownInv => GraphAllActive
  <2> SUFFICES ASSUME DBInv, ShownInv, Settled, NEW x \in active \cap (Participants \cup Topics)
               PROVE  /\ x \in graph[DomainOf[x]]
                      /\ x \in Participants =>
                           Up(x) \cup {e \in Endpoints \cap active : Parent[e] = x}
                             \subseteq graph[DomainOf[x]]
    BY DEF GraphAllActive
  <2>1. /\ task.entity = NoEntity /\ task.ends = {} /\ NoEntity \notin DDSEntities
        /\ Participants \subseteq DDSEntities /\ Endpoints \subseteq DDSEntities
    BY NoTaskFields DEF Settled, DDSEntities
  <2>2. CASE x \in Topics
    <3>1. x \notin Participants
      BY <2>2, KindsAssumption
    <3> QED
      BY <2>1, <2>2, <3>1 DEF ShownInv
  <2>3. CASE x \in Participants
    <3>1. Up(x) \subseteq graph[DomainOf[x]] /\ x \in Up(x)
      BY <2>1, <2>3, UpOfParticipant DEF ShownInv
    <3>2. \A e \in Endpoints \cap active : Parent[e] = x => e \in graph[DomainOf[x]]
      BY <2>1 DEF ShownInv
    <3> QED
      BY <3>1, <3>2
  <2> QED
    BY <2>2, <2>3
<1> QED
  BY <1>1, Invariance, ShownInvariance, PTL
-----------------------------------------------------------------------------
(* In a single domain, what the steps that write the graph leave in it.     *)
LEMMA OnlyParticipant ==
  ASSUME SingleDomain, DBInv, SequentialInv, OwnedInv, OnlyShownInv,
         update_participant_in_graph
  PROVE  OnlyShownInv'
<1> DEFINE p == task.entity
           d == DomainOf[p]
           G == ParticipantGraph(d, Path(p))
<1>1. /\ UNCHANGED <<network, stored, active, linked>>
      /\ p \in Participants /\ d \in Domains /\ Up(p) \subseteq stored
      /\ task.step = "graph" /\ task.ends = {} /\ task'.entity = NoEntity
      /\ graph' = [graph EXCEPT ![d] = ParticipantGraph(d, Path(p))]
  BY ParticipantGraphStep
<1>2. /\ Reached(Path(p)) \subseteq Up(p) \cap active
      /\ Cut(Path(p)) \subseteq Up(p) \ active
      /\ p \notin active =>
           \E c \in Cut(Path(p)) : \A x \in Up(p) \ active : c \in Up(x)
  BY <1>1, PathFacts
<1>3. p \in active <=> task.status # "UNDISCOVERY"
  <2>1. ~InFlight(p)
    BY <1>1 DEF InFlight, Creating, Deciding
  <2> QED
    BY <1>1, <2>1 DEF SequentialInv, MirrorInv, SampleInv
<1>4. p \in Tree /\ p \notin Endpoints /\ p \in Up(p) /\ Tree \cap Topics = {}
  BY <1>1, KindsAssumption, UpOfParticipant DEF Tree, Physical
<1>5. graph'[d] = G /\ \A c \in Domains : c = d
  BY <1>1 DEF SingleDomain, DBInv, DBTypeOK
<1>6. ASSUME NEW x \in G
      PROVE  /\ x \in graph[d] \cup Reached(Path(p))
             /\ \A c \in Cut(Path(p)) : x \in Tree => c \notin Up(x)
  <2>1. Cut(Path(p)) \cap stored = Cut(Path(p))
    BY <1>1, <1>2
  <2> QED
    BY <1>6, <2>1 DEF ParticipantGraph, Below
<1> HIDE DEF G
<1>7. ASSUME NEW x \in G
      PROVE  /\ x \in Tree => x \in active
             /\ x \in Topics => x \in active \/ Owed(x)'
             /\ x \in Endpoints => Up(Parent[x]) \subseteq G
  <2>1. CASE x \in Reached(Path(p))
    <3>1. x \in Up(p) /\ x \in active
      BY <1>2, <2>1
    <3>2. x \in Tree /\ x \notin Endpoints
      BY <1>4, <3>1, UpAbove
    <3> QED
      BY <1>4, <3>1, <3>2
  <2>2. CASE x \in graph[d]
    <3>1. ASSUME x \in Tree, x \notin active PROVE FALSE
      <4>1. x = p \/ Leaves(x)
        BY <1>1, <2>2, <3>1 DEF OnlyShownInv
      <4>2. p \notin active /\ (x \in Up(p) \/ p \in Up(x))
        BY <1>3, <1>4, <3>1, <4>1 DEF Leaves
      <4>3. PICK c \in Cut(Path(p)) : \A y \in Up(p) \ active : c \in Up(y)
        BY <1>2, <4>2
      <4>4. c \in Up(p)
        BY <1>4, <4>2, <4>3
      <4>5. c \in Up(x)
        <5>1. CASE x \in Up(p)
          BY <3>1, <4>3, <5>1
        <5>2. CASE p \in Up(x)
          BY <3>1, <4>4, <5>2, UpAbove
        <5> QED
          BY <4>2, <5>1, <5>2
      <4> QED
        BY <1>6, <1>7, <3>1, <4>5
    <3>2. ASSUME x \in Topics PROVE x \in active \/ Owed(x)'
      <4>1. x \in active \/ Owed(x)
        BY <1>1, <2>2, <3>2 DEF OnlyShownInv
      <4> QED
        BY <1>1, <1>4, <4>1 DEF Owed
    <3>3. ASSUME x \in Endpoints, NEW z \in Up(Parent[x]) PROVE z \in G
      <4>1. x \in Tree /\ z \in Up(x)
        BY <3>3, UpOfEndpoint DEF Tree
      <4>2. z \in Tree /\ Up(z) \subseteq Up(x) /\ z \in graph[d]
        BY <1>1, <2>2, <3>3, <4>1, UpAbove DEF OnlyShownInv
      <4>3. \A c \in Cut(Path(p)) : z \notin Below(c)
        BY <1>6, <1>7, <4>1, <4>2 DEF Below
      <4> QED
        BY <4>2, <4>3 DEF G, ParticipantGraph
    <3> QED
      BY <3>1, <3>2, <3>3
  <2> QED
    BY <1>6, <1>7, <2>1, <2>2
<1>8. ASSUME NEW c \in Domains, NEW x \in graph'[c]
      PROVE  /\ x \in Tree => x \in active'
             /\ x \in Topics => x \in active' \/ Owed(x)'
             /\ x \in Endpoints => Up(Parent[x]) \subseteq graph'[c]
  BY <1>1, <1>5, <1>7, <1>8
<1> QED
  BY <1>8 DEF OnlyShownInv

LEMMA OnlyEndpoint ==
  ASSUME SingleDomain, DBInv, SequentialInv, OwnedInv, OnlyShownInv,
         update_endpoint_in_graph
  PROVE  OnlyShownInv'
<1> DEFINE e == task.entity
           p == Parent[e]
           t == TopicOf[e]
           d == DomainOf[p]
           topic_done == IF t \in active THEN graph[d] \cup {t} ELSE graph[d] \ {t}
           present == Up(p) \subseteq graph[d]
           G == IF ~present THEN topic_done
                ELSE IF e \in active THEN topic_done \cup {e} ELSE topic_done \ {e}
<1>1. /\ UNCHANGED <<network, stored, active, linked>>
      /\ e \in Endpoints /\ p \in Participants /\ t \in Topics /\ d \in Domains
      /\ task'.entity = NoEntity
      /\ graph' = [graph EXCEPT ![d] = G]
  BY EndpointGraphStep
<1>2. Tree \cap Topics = {} /\ e \notin Participants /\ e \in Tree /\ e # t
  BY <1>1, KindsAssumption DEF Tree, Physical
<1>3. graph'[d] = G /\ \A c \in Domains : c = d
  BY <1>1 DEF SingleDomain, DBInv, DBTypeOK
<1>4. e \in graph[d] => present
  BY <1>1 DEF OnlyShownInv
<1>5. ASSUME NEW x \in G
      PROVE  /\ x = e => x \in active
             /\ x = t => x \in active
             /\ x \in graph[d] \/ x = t \/ (x = e /\ present)
  BY <1>2, <1>4, <1>5
<1>6. \A x \in graph[d] : x # e /\ x # t => x \in G
  OBVIOUS
<1> HIDE DEF G, topic_done
<1>7. ASSUME NEW x \in G
      PROVE  /\ x \in Tree => x \in active
             /\ x \in Topics => x \in active \/ Owed(x)'
             /\ x \in Endpoints => Up(Parent[x]) \subseteq G
  <2>1. ASSUME x \in Tree PROVE x \in active
    <3>1. CASE x = e
      BY <1>5, <1>7, <3>1
    <3>2. CASE x # e
      <4>1. x \in graph[d]
        BY <1>1, <1>2, <1>5, <1>7, <2>1, <3>2
      <4>2. ~Leaves(x)
        BY <1>2 DEF Leaves
      <4> QED
        BY <1>1, <2>1, <3>2, <4>1, <4>2 DEF OnlyShownInv
    <3> QED
      BY <3>1, <3>2
  <2>2. ASSUME x \in Topics PROVE x \in active \/ Owed(x)'
    <3>1. CASE x = t
      BY <1>5, <1>7, <3>1
    <3>2. CASE x # t
      <4>1. x \in graph[d]
        BY <1>2, <1>5, <1>7, <2>2, <3>2
      <4>2. x \in active \/ Owed(x)
        BY <1>1, <2>2, <4>1 DEF OnlyShownInv
      <4> QED
        BY <1>1, <3>2, <4>2 DEF Owed
    <3> QED
      BY <3>1, <3>2
  <2>3. ASSUME x \in Endpoints, NEW z \in Up(Parent[x]) PROVE z \in G
    <3>1. Up(Parent[x]) \subseteq graph[d]
      <4>1. x # t
        BY <1>1, <2>3, KindsAssumption
      <4>2. CASE x = e /\ present
        BY <4>2
      <4>3. CASE x \in graph[d]
        BY <1>1, <2>3, <4>3 DEF OnlyShownInv
      <4> QED
        BY <1>5, <1>7, <4>1, <4>2, <4>3
    <3>2. Parent[x] \in Tree /\ Parent[x] \notin Endpoints
      BY <2>3, Chain, KindsAssumption DEF Tree
    <3>3. z \in Tree /\ z \notin Endpoints
      BY <2>3, <3>2, UpAbove
    <3> QED
      BY <1>1, <1>2, <1>6, <2>3, <3>1, <3>3
  <2> QED
    BY <2>1, <2>2, <2>3
<1>8. ASSUME NEW c \in Domains, NEW x \in graph'[c]
      PROVE  /\ x \in Tree => x \in active'
             /\ x \in Topics => x \in active' \/ Owed(x)'
             /\ x \in Endpoints => Up(Parent[x]) \subseteq graph'[c]
  BY <1>1, <1>3, <1>7, <1>8
<1> QED
  BY <1>8 DEF OnlyShownInv

LEMMA OnlyGraphRegenerated ==
  ASSUME SingleDomain, DBInv, SequentialInv, NEW d \in Domains, NEW kept,
         UNCHANGED active, graph' = [graph EXCEPT ![d] = Regenerated(d, kept)]
  PROVE  OnlyShownInv'
<1> DEFINE G == Regenerated(d, kept)
<1>1. \A x \in G : x \in active /\ (x \in Endpoints => Up(Parent[x]) \subseteq G)
  BY OnlyRegenerated DEF SequentialInv
<1> HIDE DEF G
<1>2. \A c \in Domains : graph'[c] = G
  BY DEF G, SingleDomain, DBInv, DBTypeOK
<1> QED
  BY <1>1, <1>2 DEF OnlyShownInv

LEMMA OnlyKept ==
  ASSUME OnlyShownInv, Works
  PROVE  OnlyShownInv'
<1>1. \A x : (Leaves(x) => Leaves(x)') /\ (Owed(x) => Owed(x)')
  BY DEF Works, Leaves, Owed
<1>2. ASSUME NEW d \in Domains, NEW x \in graph[d]
      PROVE  /\ x \in Tree => x \in active' \/ task'.entity = x \/ Leaves(x)'
             /\ x \in Topics => x \in active' \/ Owed(x)'
             /\ x \in Endpoints => Up(Parent[x]) \subseteq graph[d]
  BY <1>1 DEF Works, OnlyShownInv
<1>3. UNCHANGED graph
  BY DEF Works
<1> QED
  BY <1>2, <1>3 DEF OnlyShownInv

(* A sample begins.  An endpoint that outlived its participant is still to  *)
(* be undiscovered before the participant is discovered again.              *)
LEMMA OnlySample ==
  ASSUME DBInv, SequentialInv, OnlyShownInv,
         NEW x \in DDSEntities, NEW status \in Statuses, process_sample(x, status)
  PROVE  OnlyShownInv'
<1>1. /\ task.entity = NoEntity /\ NoEntity \notin DDSEntities
      /\ network' = (IF status = "UNDISCOVERY" THEN network \ {x} ELSE network \cup {x})
      /\ UNCHANGED <<active, graph>> /\ task'.entity = x
      /\ status = "DISCOVERY" => \A e \in network \cap Endpoints : Parent[e] # x
      /\ status = "UPDATE" => x \in network
  BY SampleBegins
<1>2. \A y : ~Leaves(y)
  BY <1>1 DEF Leaves, DDSEntities
<1>3. ASSUME NEW t, Owed(t)
      PROVE  Owed(t)'
  <2>1. PICK e \in Endpoints : TopicOf[e] = t /\ e \in network /\ Parent[e] \notin network
    BY <1>1, <1>3 DEF Owed, DDSEntities
  <2>2. CASE e = x
    BY <1>1, <2>1, <2>2 DEF Owed
  <2>3. CASE e # x
    <3>1. e \in network' /\ Parent[e] \notin network'
      BY <1>1, <2>1, <2>3 DEF Statuses
    <3> QED
      BY <2>1, <3>1 DEF Owed
  <2> QED
    BY <2>2, <2>3
<1>4. ASSUME NEW d \in Domains, NEW y \in graph[d]
      PROVE  /\ y \in Tree => y \in active
             /\ y \in Topics => y \in active \/ Owed(y)'
             /\ y \in Endpoints => Up(Parent[y]) \subseteq graph[d]
  <2>1. ~(y \in Tree /\ task.entity = y)
    BY <1>1, KindsAssumption DEF Entities
  <2> QED
    BY <1>2, <1>3, <2>1 DEF OnlyShownInv
<1> QED
  BY <1>1, <1>4 DEF OnlyShownInv

LEMMA OnlyNext ==
  ASSUME ~ConcurrentClear, PidsDistinct, SingleDomain, DBInv, SequentialInv, OwnedInv,
         OnlyShownInv, [DBNext]_dbvars
  PROVE  OnlyShownInv'
<1>1. CASE Works
  BY <1>1, OnlyKept
<1>2. CASE UpdateInfoGraph
  <2> DEFINE d == DomainOf[task.entity]
  <2>1. /\ UNCHANGED <<network, active>> /\ d \in Domains
        /\ task'.entity = task.entity /\ task'.status = task.status
        /\ task'.ends = task.ends
        /\ UNCHANGED graph \/ graph' = [graph EXCEPT ![d] = Regenerated(d, stored)]
    BY <1>2, InfoGraphStep
  <2>2. CASE UNCHANGED graph
    BY <2>1, <2>2, OnlyKept DEF Works
  <2>3. CASE graph' = [graph EXCEPT ![d] = Regenerated(d, stored)]
    BY <2>1, <2>3, OnlyGraphRegenerated
  <2> QED
    BY <2>1, <2>2, <2>3
<1>3. ASSUME NEW d \in Domains, regenerate_domain_graph(d)
      PROVE  OnlyShownInv'
  BY <1>3, RegenerateStep, OnlyGraphRegenerated
<1>4. ASSUME NEW d \in Domains, clear_inactive_entities(d)
      PROVE  OnlyShownInv'
  BY <1>4, ClearGraphStep, OnlyGraphRegenerated
<1> QED
  BY <1>1, <1>2, <1>3, <1>4, GraphCases, OnlySample, OnlyParticipant, OnlyEndpoint

LEMMA OnlyInvariance ==
  ASSUME ~ConcurrentClear, PidsDistinct, SingleDomain
  PROVE  DBSpec => []OnlyShownInv
<1>1. DBInit => OnlyShownInv
  BY DEF DBInit, OnlyShownInv
<1>2. DBInv /\ SequentialInv /\ OwnedInv /\ OnlyShownInv /\ [DBNext]_dbvars => OnlyShownInv'
  BY OnlyNext
<1> QED
  BY <1>1, <1>2, Invariance, SequentialInvariance, OwnedInvariance, PTL DEF DBSpec

(* In a single domain the view graph is "the entire graph of active         *)
(* entities" between samples: it shows every active entity, and none that   *)
(* is not active.  In particular no node is stale.                          *)
THEOREM GraphIsWhatIsActive ==
  ASSUME ~ConcurrentClear, PidsDistinct, SingleDomain
  PROVE  DBSpec => [](GraphIsActive /\ NoStaleNodes)
<1>1. DBInv /\ OnlyShownInv => GraphOnlyActive
  <2> SUFFICES ASSUME DBInv, OnlyShownInv, Settled, NEW d \in Domains, NEW x \in graph[d]
               PROVE  x \in active
    BY DEF GraphOnlyActive
  <2>1. /\ task.entity = NoEntity /\ NoEntity \notin Entities
        /\ \A e \in network \cap Endpoints : Parent[e] \in network
    BY NoTaskFields, KindsAssumption DEF Settled
  <2>2. Tree \subseteq Entities /\ Participants \subseteq Entities /\ Endpoints \subseteq Entities
    BY DEF Entities, Tree
  <2>3. x \in Tree \/ x \in Topics
    BY DEF DBInv, DBTypeOK, Entities
  <2>4. ~Leaves(x) /\ ~Owed(x)
    BY <2>1, <2>2 DEF Leaves, Owed
  <2> QED
    BY <2>1, <2>2, <2>3, <2>4 DEF OnlyShownInv
<1>2. GraphOnlyActive /\ GraphAllActive => GraphIsActive /\ NoStaleNodes
  BY DEF GraphIsActive, GraphOnlyActive, NoStaleNodes
<1> QED
  BY <1>1, <1>2, Invariance, OnlyInvariance, ActiveIsShown, PTL
=============================================================================
