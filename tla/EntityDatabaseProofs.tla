------------------------ MODULE EntityDatabaseProofs ------------------------
(***************************************************************************)
(* Proofs about EntityDatabase, for every network and with the application *)
(* clearing at any time.                                                   *)
(***************************************************************************)
EXTENDS EntityDatabase, TLAPS

(* An expired reference is marked: any other leads to a stored entity.      *)
RefInv ==
  /\ \A x \in stored \cap (Users \cup Processes) : Parent[x] \in stored
  /\ \A p \in linked : Parent[p] \in stored
  /\ \A e \in stored \cap Endpoints : e \notin topicless => TopicOf[e] \in stored

(* Activity is carried upwards within a critical section.                   *)
ActiveInv ==
  /\ \A x \in active \cap (Users \cup Processes) : Parent[x] \in active
  /\ \A p \in active \cap linked : Parent[p] \in active

(* What the handler knows of its sample at each step.                       *)
TaskInv ==
  /\ task.step \in {"insert", "info", "info_graph", "physical", "graph"}
       => task.entity \in Participants
  /\ task.step \in {"lookup", "endpoint_graph", "find", "insert_topic",
                    "insert_endpoint", "refresh"}
       => task.entity \in Endpoints
  /\ task.step \in {"kind", "change"} => task.entity \in DDSEntities
  /\ task.step = "insert" => task.entity \notin stored
  /\ task.step \in {"info", "info_graph"} => task.status = "UPDATE"

DBInv == DBTypeOK /\ RefInv /\ ActiveInv /\ TaskInv
-----------------------------------------------------------------------------
(* The chain above a process, a participant or an endpoint.                 *)
LEMMA Chain ==
  /\ \A u \in Users : Parent[u] \in Hosts
  /\ \A x \in Processes : Parent[x] \in Users /\ Parent[Parent[x]] \in Hosts
  /\ \A p \in Participants : /\ Parent[p] \in Processes
                              /\ Parent[Parent[p]] \in Users
                              /\ Parent[Parent[Parent[p]]] \in Hosts
                              /\ DomainOf[p] \in Domains
  /\ \A e \in Endpoints : /\ Parent[e] \in Participants
                           /\ TopicOf[e] \in Topics
                           /\ DomainOf[Parent[e]] \in Domains
BY DatabaseAssumption

(* WithParents() reaches the host in two steps from a process, in one from  *)
(* a user.                                                                  *)
LEMMA UpOfProcess ==
  ASSUME NEW x \in Processes
  PROVE  Up(x) = {x, Parent[x], Parent[Parent[x]]}
<1> DEFINE u == Parent[x]
           h == Parent[u]
<1>1. x \notin Hosts /\ u \in Users /\ u \notin Hosts /\ h \in Hosts
  BY Chain, KindsAssumption
<1>2. WithParents({x}) = {x, u}
  BY <1>1 DEF WithParents
<1>3. WithParents({x, u}) = {x, u, h}
  BY <1>1 DEF WithParents
<1>4. WithParents({x, u, h}) = {x, u, h}
  BY <1>1 DEF WithParents
<1> QED
  BY <1>2, <1>3, <1>4 DEF Up

LEMMA UpOfUser ==
  ASSUME NEW u \in Users
  PROVE  Up(u) = {u, Parent[u]}
<1> DEFINE h == Parent[u]
<1>1. u \notin Hosts /\ h \in Hosts
  BY Chain, KindsAssumption
<1>2. WithParents({u}) = {u, h}
  BY <1>1 DEF WithParents
<1>3. WithParents({u, h}) = {u, h}
  BY <1>1 DEF WithParents
<1> QED
  BY <1>2, <1>3 DEF Up

(* What rises with a process: at most the process, its user and its host,   *)
(* and afterwards all three are active.                                     *)
LEMMA RiseFacts ==
  ASSUME NEW x \in Processes, ActiveInv
  PROVE  /\ Rise(x) \in Seq(Entities)
         /\ Range(Rise(x)) \subseteq {x, Parent[x], Parent[Parent[x]]}
         /\ {x, Parent[x], Parent[Parent[x]]} \subseteq active \cup Range(Rise(x))
<1> DEFINE u == Parent[x]
           h == Parent[u]
<1>1. x \in Entities /\ u \in Entities /\ h \in Entities /\ u \in Users
  BY Chain DEF Entities, Tree, Physical
<1>2. CASE x \in active
  <2>1. Rise(x) = <<>>
    BY <1>2 DEF Rise
  <2>2. u \in active /\ h \in active
    BY <1>1, <1>2 DEF ActiveInv
  <2> QED
    BY <1>2, <2>1, <2>2 DEF Range
<1>3. CASE x \notin active /\ u \in active
  <2>1. Rise(x) = <<x>>
    BY <1>3 DEF Rise
  <2>2. h \in active
    BY <1>1, <1>3 DEF ActiveInv
  <2>3. Range(<<x>>) = {x}
    BY DEF Range
  <2> QED
    BY <1>1, <1>3, <2>1, <2>2, <2>3
<1>4. CASE x \notin active /\ u \notin active /\ h \in active
  <2>1. Rise(x) = <<u, x>>
    BY <1>4 DEF Rise
  <2>2. Range(<<u, x>>) = {u, x}
    BY DEF Range
  <2> QED
    BY <1>1, <1>4, <2>1, <2>2
<1>5. CASE x \notin active /\ u \notin active /\ h \notin active
  <2>1. Rise(x) = <<h, u, x>>
    BY <1>5 DEF Rise
  <2>2. Range(<<h, u, x>>) = {h, u, x}
    BY DEF Range
  <2> QED
    BY <1>1, <1>5, <2>1, <2>2
<1> QED
  BY <1>2, <1>3, <1>4, <1>5

(* What falls with a participant: each one only if nothing else in it is    *)
(* active, and only if what is below it falls.                              *)
LEMMA FallFacts ==
  ASSUME NEW p \in Participants
  PROVE  LET x == Parent[p]
             u == Parent[x]
             h == Parent[u]
             S == Range(Fall(p))
         IN  /\ Fall(p) \in Seq(Entities)
             /\ S \subseteq {x, u, h}
             /\ x \in S => Unused(x, p)
             /\ u \in S => Unused(u, x) /\ x \in S
             /\ h \in S => Unused(h, u) /\ u \in S
<1> DEFINE x == Parent[p]
           u == Parent[x]
           h == Parent[u]
<1>1. /\ x \in Entities /\ u \in Entities /\ h \in Entities
      /\ x # u /\ u # h /\ x # h
  BY Chain, KindsAssumption DEF Entities, Tree, Physical
<1>2. CASE ~Falls(x, p)
  <2>1. Fall(p) = <<>>
    BY <1>2 DEF Fall
  <2> QED
    BY <2>1 DEF Range
<1>3. CASE Falls(x, p) /\ ~Falls(u, x)
  <2>1. Fall(p) = <<x>>
    BY <1>3 DEF Fall
  <2>2. Range(<<x>>) = {x}
    BY DEF Range
  <2> QED
    BY <1>1, <1>3, <2>1, <2>2 DEF Falls
<1>4. CASE Falls(x, p) /\ Falls(u, x) /\ ~Falls(h, u)
  <2>1. Fall(p) = <<u, x>>
    BY <1>4 DEF Fall
  <2>2. Range(<<u, x>>) = {u, x}
    BY DEF Range
  <2> QED
    BY <1>1, <1>4, <2>1, <2>2 DEF Falls
<1>5. CASE Falls(x, p) /\ Falls(u, x) /\ Falls(h, u)
  <2>1. Fall(p) = <<h, u, x>>
    BY <1>5 DEF Fall
  <2>2. Range(<<h, u, x>>) = {h, u, x}
    BY DEF Range
  <2> QED
    BY <1>1, <1>5, <2>1, <2>2 DEF Falls
<1> QED
  BY <1>2, <1>3, <1>4, <1>5

LEMMA TellsType ==
  ASSUME NEW s \in Seq(Entities), NEW on \in BOOLEAN
  PROVE  Tells(s, on) \in Seq([entity : Entities, on : BOOLEAN])
BY DEF Tells
-----------------------------------------------------------------------------
TaskType == [entity : DDSEntities \cup {NoEntity}, status : Statuses,
             step : Steps, link : BOOLEAN, found : BOOLEAN,
             fresh : BOOLEAN, ends : SUBSET Endpoints]

LEMMA NoTaskType == NoTask \in TaskType /\ NoTask.step = "idle"
BY DEF NoTask, TaskType, Statuses, Steps

LEMMA InitInv == DBInit => DBInv
<1> SUFFICES ASSUME DBInit PROVE DBInv
  OBVIOUS
<1>1. task = NoTask /\ task.step = "idle"
  BY NoTaskType DEF DBInit
<1>2. TaskInv
  BY <1>1 DEF TaskInv
<1>3. RefInv /\ ActiveInv
  BY DEF DBInit, RefInv, ActiveInv
<1>4. tell \in Seq([entity : Entities, on : BOOLEAN])
  BY DEF DBInit
<1>5. DBTypeOK
  BY <1>1, <1>4, NoTaskType DEF DBInit, DBTypeOK, TaskType
<1> QED
  BY <1>2, <1>3, <1>5 DEF DBInv

(* The tasks the handlers start or fall back to.                            *)
LEMMA UnknownTask ==
  ASSUME NEW x \in DDSEntities, NEW status \in Statuses
  PROVE  /\ Unknown(x, status) \in TaskType
         /\ Unknown(x, status).step \in {"idle", "insert", "find"}
         /\ Unknown(x, status).step = "insert" =>
              /\ Unknown(x, status).entity = x /\ x \in Participants
              /\ status = "DISCOVERY"
         /\ Unknown(x, status).step = "find" =>
              Unknown(x, status).entity = x /\ x \in Endpoints
BY DEF Unknown, NoTask, TaskType, Statuses, Steps, DDSEntities

LEMMA KnownTask ==
  ASSUME NEW x \in DDSEntities, NEW status \in Statuses
  PROVE  /\ Known(x, status) \in TaskType
         /\ Known(x, status).step = "kind" /\ Known(x, status).entity = x
BY DEF Known, NoTask, TaskType, Statuses, Steps, DDSEntities

(* The graphs only hold entities.                                           *)
LEMMA RegeneratedType ==
  ASSUME DBTypeOK, NEW d \in Domains, NEW kept \in SUBSET stored
  PROVE  Regenerated(d, kept) \subseteq Entities
BY DEF DBTypeOK, Regenerated, Entities

LEMMA WrittenType ==
  ASSUME DBTypeOK, NEW d \in Domains, NEW kept \in SUBSET stored, NEW gone,
         NEW T \in Written(Regenerated(d, kept), gone)
  PROVE  T \in SUBSET Entities
<1>1. T \subseteq Regenerated(d, kept)
  BY DEF Written
<1> QED
  BY <1>1, RegeneratedType

LEMMA ParticipantGraphType ==
  ASSUME DBTypeOK, NEW d \in Domains, NEW path \in Seq(Entities)
  PROVE  ParticipantGraph(d, path) \subseteq Entities
<1>1. Reached(path) \subseteq Entities
  BY DEF Reached
<1> QED
  BY <1>1 DEF ParticipantGraph, DBTypeOK

LEMMA PathType ==
  ASSUME NEW p \in Participants
  PROVE  /\ Path(p) \in Seq(Entities)
         /\ <<Parent[Parent[Parent[p]]], Parent[Parent[p]]>> \in Seq(Entities)
<1>1. /\ p \in Entities /\ Parent[p] \in Entities
      /\ Parent[Parent[p]] \in Entities /\ Parent[Parent[Parent[p]]] \in Entities
  BY Chain DEF Entities, Tree, Physical
<1> QED
  BY <1>1 DEF Path

(* Setting the status of an endpoint touches nothing but the endpoint and   *)
(* its topic.                                                               *)
LEMMA EndpointStatus ==
  ASSUME NEW e \in Endpoints, NEW on \in BOOLEAN, NEW held \in BOOLEAN, DBInv,
         change_endpoint_status(e, on, held)
  PROVE  /\ active' \subseteq stored
         /\ \A y : y \notin {e, TopicOf[e]} => (y \in active' <=> y \in active)
         /\ tell' \in Seq([entity : Entities, on : BOOLEAN])
         /\ terminated' \in BOOLEAN
<1> DEFINE t == TopicOf[e]
<1>1. t \in Entities /\ <<t>> \in Seq(Entities) /\ <<>> \in Seq([entity : Entities, on : BOOLEAN])
  BY Chain DEF Entities
<1>2. Tells(<<t>>, on) \in Seq([entity : Entities, on : BOOLEAN])
  BY <1>1, TellsType
<1>3. active \subseteq stored /\ tell \in Seq([entity : Entities, on : BOOLEAN])
      /\ terminated \in BOOLEAN
  BY DEF DBInv, DBTypeOK
<1>4. CASE UNCHANGED <<active, tell>> /\ terminated' \in BOOLEAN
  BY <1>3, <1>4
<1>5. CASE /\ e \in stored /\ e \notin topicless
           /\ \E C \in SUBSET {e, t} : active' = active \cup C \/ active' = active \ C
           /\ tell' = Tells(<<t>>, on) \/ tell' = <<>>
           /\ UNCHANGED terminated
  <2>1. t \in stored
    BY <1>5 DEF DBInv, RefInv
  <2> QED
    BY <1>1, <1>2, <1>3, <1>5, <2>1
<1> QED
  BY <1>3, <1>4, <1>5 DEF change_endpoint_status
-----------------------------------------------------------------------------
(* The steps that only move the handler.                                    *)
LEMMA ControlSteps ==
  ASSUME DBInv,
         \/ \E x \in DDSEntities, status \in Statuses : process_sample(x, status)
         \/ get_entity_kind \/ LookupTopic \/ FindTopic
  PROVE  DBInv'
<1> USE DEF DBInv
<1>0. task \in TaskType
  BY DEF DBTypeOK, TaskType
<1>1. ASSUME NEW x \in DDSEntities, NEW status \in Statuses, process_sample(x, status)
      PROVE  DBInv'
  <2>1. UNCHANGED <<entities, graph, told, tell, regen, terminated>>
        /\ network' \subseteq DDSEntities
    BY <1>1 DEF process_sample, DBTypeOK
  <2>2. task' = Known(x, status) \/ (x \notin stored /\ task' = Unknown(x, status))
    BY <1>1 DEF process_sample
  <2>3. task' \in TaskType /\ TaskInv'
    BY <2>1, <2>2, KnownTask, UnknownTask DEF TaskInv, entities
  <2>4. DBTypeOK'
    BY <2>1, <2>3 DEF DBTypeOK, TaskType, entities
  <2>5. RefInv' /\ ActiveInv'
    BY <2>1 DEF RefInv, ActiveInv, entities
  <2> QED
    BY <2>3, <2>4, <2>5
<1>2. ASSUME get_entity_kind \/ LookupTopic \/ FindTopic
      PROVE  DBInv'
  <2>1. UNCHANGED <<network, entities, graph, told, tell, regen, terminated>>
    BY <1>2 DEF get_entity_kind, LookupTopic, FindTopic
  <2>2. task' \in TaskType /\ TaskInv'
    <3>1. CASE get_entity_kind
      <4>1. task.step = "kind" /\ task.entity \in DDSEntities /\ task.status \in Statuses
        BY <1>0, <3>1 DEF get_entity_kind, At, TaskInv, TaskType
      <4>2. CASE task.entity \in stored
        <5>1. task' = [task EXCEPT !.step = "change"]
          BY <3>1, <4>2 DEF get_entity_kind, Goto
        <5>2. task'.step = "change" /\ task'.entity = task.entity /\ task' \in TaskType
          BY <1>0, <5>1 DEF TaskType, Steps
        <5> QED
          BY <4>1, <5>2 DEF TaskInv
      <4>3. CASE task.entity \notin stored
        <5>1. task' = Unknown(task.entity, task.status)
          BY <3>1, <4>3 DEF get_entity_kind, Caught
        <5> QED
          BY <2>1, <4>1, <4>3, <5>1, UnknownTask DEF TaskInv, entities
      <4> QED
        BY <4>2, <4>3
    <3>2. CASE LookupTopic
      <4>1. task.step = "lookup" /\ task.entity \in Endpoints /\ task.status \in Statuses
            /\ task.entity \in DDSEntities
        BY <1>0, <3>2 DEF LookupTopic, At, TaskInv, TaskType, DDSEntities
      <4>2. CASE task' = Unknown(task.entity, task.status)
        BY <4>1, <4>2, UnknownTask, KindsAssumption DEF TaskInv
      <4>3. CASE task' = [task EXCEPT !.step = "endpoint_graph",
                                      !.found = TopicKnown(task.entity)]
        <5> DEFINE b == TopicKnown(task.entity)
        <5>1. b \in BOOLEAN /\ task' = [task EXCEPT !.step = "endpoint_graph", !.found = b]
          BY <4>3 DEF TopicKnown
        <5> HIDE DEF b
        <5>2. task'.step = "endpoint_graph" /\ task'.entity = task.entity /\ task' \in TaskType
          BY <1>0, <5>1 DEF TaskType, Steps
        <5> QED
          BY <4>1, <5>2 DEF TaskInv
      <4> QED
        BY <3>2, <4>2, <4>3 DEF LookupTopic, Caught
    <3>3. CASE FindTopic
      <4>1. task.step = "find" /\ task.entity \in Endpoints
        BY <3>3 DEF FindTopic, At, TaskInv
      <4>2. CASE task' = NoTask
        BY <4>2, NoTaskType DEF TaskInv
      <4>3. CASE task' # NoTask
        <5>1. PICK step \in {"insert_endpoint", "insert_topic"} :
                task' = [task EXCEPT !.found = TRUE, !.step = step]
          BY <3>3, <4>3 DEF FindTopic
        <5>2. task'.step = step /\ task'.entity = task.entity /\ task' \in TaskType
          BY <1>0, <5>1 DEF TaskType, Steps
        <5> QED
          BY <4>1, <5>2 DEF TaskInv
      <4> QED
        BY <4>2, <4>3
    <3> QED
      BY <1>2, <3>1, <3>2, <3>3
  <2>3. DBTypeOK'
    BY <2>1, <2>2 DEF DBTypeOK, TaskType, entities
  <2>4. RefInv' /\ ActiveInv'
    BY <2>1 DEF RefInv, ActiveInv, entities
  <2> QED
    BY <2>2, <2>3, <2>4
<1> QED
  BY <1>1, <1>2

(* The steps that end a handler or call a listener, or change only graphs.  *)
LEMMA GotoTask ==
  ASSUME task \in TaskType, NEW step \in Steps, Goto(step)
  PROVE  /\ task' \in TaskType /\ task'.step = step
         /\ task'.entity = task.entity /\ task'.status = task.status
BY DEF Goto, TaskType

LEMMA GraphSteps ==
  ASSUME DBInv,
         \/ UpdateInfoGraph \/ update_participant_in_graph \/ update_endpoint_in_graph
         \/ execute_without_lock \/ \E d \in Domains : regenerate_domain_graph(d)
  PROVE  DBInv'
<1> USE DEF DBInv
<1>0. task \in TaskType
  BY DEF DBTypeOK, TaskType
<1>1. ASSUME UNCHANGED <<network, entities, terminated>>,
             graph' \in [Domains -> SUBSET Entities],
             told' \subseteq Entities, regen' \subseteq Domains,
             tell' \in Seq([entity : Entities, on : BOOLEAN]),
             task' \in TaskType, TaskInv'
      PROVE  DBInv'
  <2>1. DBTypeOK'
    BY <1>1 DEF DBTypeOK, TaskType, entities
  <2>2. RefInv' /\ ActiveInv'
    BY <1>1 DEF RefInv, ActiveInv, entities
  <2> QED
    BY <1>1, <2>1, <2>2
<1>2. ASSUME UNCHANGED <<entities, task>> PROVE task' \in TaskType /\ TaskInv'
  BY <1>0, <1>2 DEF TaskInv, entities
<1>3. ASSUME task' = NoTask PROVE task' \in TaskType /\ TaskInv'
  BY <1>3, NoTaskType DEF TaskInv
<1>4. ASSUME Notify, task.entity \in DDSEntities
      PROVE  task' \in TaskType /\ TaskInv' /\ told' \subseteq Entities
  BY <1>3, <1>4 DEF Notify, DBTypeOK, DDSEntities, Entities, Tree
<1>5. CASE UpdateInfoGraph
  <2> DEFINE p == task.entity
             d == DomainOf[p]
  <2>1. /\ p \in Participants /\ d \in Domains /\ task.status = "UPDATE"
        /\ UNCHANGED <<network, entities, told, tell, regen, terminated>>
    BY <1>5, Chain DEF UpdateInfoGraph, At, TaskInv
  <2>2. ParticipantGraph(d, Path(p)) \in SUBSET Entities /\ graph = [graph EXCEPT ![d] = @]
        /\ graph[d] \in SUBSET Entities
    BY <2>1, PathType, ParticipantGraphType DEF DBTypeOK
  <2>3. PICK S \in SUBSET Entities : graph' = [graph EXCEPT ![d] = S]
    <3>1. CASE graph' = [graph EXCEPT ![d] = ParticipantGraph(d, Path(p))]
      BY <2>2, <3>1
    <3>2. CASE UNCHANGED graph
      BY <2>2, <3>2
    <3>3. CASE \E T \in Written(Regenerated(d, stored), topicless) :
                 graph' = [graph EXCEPT ![d] = T]
      BY <2>1, <3>3, WrittenType
    <3> QED
      BY <1>5, <3>1, <3>2, <3>3 DEF UpdateInfoGraph
  <2>4. graph' \in [Domains -> SUBSET Entities]
    BY <2>3 DEF DBTypeOK
  <2>5. task' \in TaskType /\ TaskInv'
    <3>1. CASE task' = Caught
      <4>1. Caught = NoTask
        BY <2>1 DEF Caught, Unknown
      <4> QED
        BY <1>3, <3>1, <4>1
    <3>2. CASE Goto("physical")
      <4>1. task' \in TaskType /\ task'.step = "physical" /\ task'.entity = p
        BY <1>0, <3>2, GotoTask DEF Steps
      <4> QED
        BY <2>1, <4>1 DEF TaskInv
    <3> QED
      BY <1>3, <1>5, <3>1, <3>2 DEF UpdateInfoGraph
  <2> QED
    BY <1>1, <2>1, <2>4, <2>5 DEF DBTypeOK
<1>6. CASE update_participant_in_graph
  <2> DEFINE p == task.entity
             d == DomainOf[p]
  <2>1. /\ p \in Participants /\ d \in Domains /\ p \in DDSEntities
        /\ UNCHANGED <<network, entities, tell, regen, terminated>>
    BY <1>6, Chain DEF update_participant_in_graph, At, TaskInv, DDSEntities
  <2>2. PICK path \in Seq(Entities) :
          graph' = [graph EXCEPT ![d] = ParticipantGraph(d, path)]
    BY <1>6, <2>1, PathType DEF update_participant_in_graph
  <2>3. graph' \in [Domains -> SUBSET Entities]
    BY <2>1, <2>2, ParticipantGraphType DEF DBTypeOK
  <2>4. Notify \/ (task' = NoTask /\ UNCHANGED told)
    BY <1>6 DEF update_participant_in_graph
  <2> QED
    BY <1>1, <1>3, <1>4, <2>1, <2>3, <2>4 DEF DBTypeOK
<1>7. CASE update_endpoint_in_graph
  <2> DEFINE e == task.entity
             t == TopicOf[e]
             d == DomainOf[Parent[e]]
  <2>1. /\ e \in Endpoints /\ e \in Entities /\ t \in Entities /\ d \in Domains
        /\ e \in DDSEntities /\ e \notin Participants /\ task.status \in Statuses
        /\ UNCHANGED <<network, entities, tell, regen, terminated>>
    BY <1>0, <1>7, Chain, KindsAssumption
       DEF update_endpoint_in_graph, At, TaskInv, DDSEntities, Entities, Tree, TaskType
  <2>2. PICK S : S \subseteq graph[d] \cup {e, t} /\ graph' = [graph EXCEPT ![d] = S]
    BY <1>7 DEF update_endpoint_in_graph
  <2>3. graph' \in [Domains -> SUBSET Entities]
    BY <2>1, <2>2 DEF DBTypeOK
  <2>4. Notify \/ (task' \in {NoTask, Unknown(e, task.status)} /\ UNCHANGED told)
    BY <1>7 DEF update_endpoint_in_graph, Caught
  <2>5. ASSUME task' = Unknown(e, task.status) PROVE task' \in TaskType /\ TaskInv'
    BY <2>1, <2>5, UnknownTask DEF TaskInv
  <2> QED
    BY <1>1, <1>3, <1>4, <2>1, <2>3, <2>4, <2>5 DEF DBTypeOK
<1>8. CASE execute_without_lock
  <2>1. /\ UNCHANGED <<network, entities, graph, task, regen, terminated>>
        /\ tell # <<>> /\ tell \in Seq([entity : Entities, on : BOOLEAN])
    BY <1>8 DEF execute_without_lock, DBTypeOK
  <2>2. Head(tell).entity \in Entities
        /\ Tail(tell) \in Seq([entity : Entities, on : BOOLEAN])
    <3> DEFINE Notification == [entity : Entities, on : BOOLEAN]
    <3>1. ASSUME NEW n \in Notification PROVE n.entity \in Entities
      OBVIOUS
    <3>2. tell \in Seq(Notification)
      BY <2>1
    <3> HIDE DEF Notification
    <3>3. Head(tell) \in Notification /\ Tail(tell) \in Seq(Notification)
      BY <2>1, <3>2
    <3> QED
      BY <3>1, <3>3 DEF Notification
  <2>3. told' \subseteq Entities /\ tell' = Tail(tell)
    BY <1>8, <2>2 DEF execute_without_lock, DBTypeOK
  <2> QED
    BY <1>1, <1>2, <2>1, <2>2, <2>3 DEF DBTypeOK
<1>9. ASSUME NEW d \in Domains, regenerate_domain_graph(d) PROVE DBInv'
  <2>1. graph' \in [Domains -> SUBSET Entities] /\ regen' \subseteq Domains
    BY <1>9, WrittenType DEF regenerate_domain_graph, DBTypeOK
  <2> QED
    BY <1>1, <1>2, <1>9, <2>1 DEF regenerate_domain_graph, DBTypeOK
<1> QED
  BY <1>5, <1>6, <1>7, <1>8, <1>9
-----------------------------------------------------------------------------
(* A process that is stored, its user and its host: what rises is stored.   *)
LEMMA RiseStored ==
  ASSUME NEW x \in Processes, DBInv, x \in stored
  PROVE  Range(Rise(x)) \subseteq stored \cap Physical
<1>1. Parent[x] \in Users /\ Parent[Parent[x]] \in Hosts
  BY Chain
<1>2. Parent[x] \in stored /\ Parent[Parent[x]] \in stored
  BY <1>1 DEF DBInv, RefInv
<1> QED
  BY <1>1, <1>2, RiseFacts DEF DBInv, Physical

(* Once what rises with a process is active, activity is carried upwards.   *)
LEMMA RiseActive ==
  ASSUME NEW p \in Participants, DBInv, NEW S,
         S = Range(Rise(Parent[p]))
  PROVE  /\ \A y \in (active \cup {p} \cup S) \cap (Users \cup Processes) :
              Parent[y] \in active \cup S
         /\ \A q \in (active \cup S \cup {p}) \cap (linked \cup {p}) :
              Parent[q] \in active \cup S
<1> DEFINE x == Parent[p]
           u == Parent[x]
           h == Parent[u]
<1>1. x \in Processes /\ u \in Users /\ h \in Hosts
  BY Chain
<1>2. S \subseteq {x, u, h} /\ {x, u, h} \subseteq active \cup S
  BY <1>1, RiseFacts DEF DBInv
<1>3. linked \subseteq Participants
  BY DEF DBInv, DBTypeOK
<1>4. ASSUME NEW y \in (active \cup {p} \cup S) \cap (Users \cup Processes)
      PROVE  Parent[y] \in active \cup S
  <2>1. y # p /\ y # h
    BY <1>1, KindsAssumption
  <2>2. CASE y \in active
    BY <2>2 DEF DBInv, ActiveInv
  <2>3. CASE y = x \/ y = u
    BY <1>2, <2>3
  <2> QED
    BY <1>2, <2>1, <2>2, <2>3
<1>5. ASSUME NEW q \in (active \cup S \cup {p}) \cap (linked \cup {p})
      PROVE  Parent[q] \in active \cup S
  <2>1. q \notin S
    BY <1>1, <1>2, <1>3, KindsAssumption
  <2>2. CASE q \in active \cap linked
    BY <2>2 DEF DBInv, ActiveInv
  <2>3. CASE q = p
    BY <1>2, <2>3
  <2> QED
    BY <2>1, <2>2, <2>3
<1> QED
  BY <1>4, <1>5

(* What falls leaves nothing active in it.                                  *)
LEMMA FallActive ==
  ASSUME NEW p \in linked, DBInv, NEW A,
         A = active \ ({p} \cup Range(Fall(p)))
  PROVE  /\ \A y \in A \cap (Users \cup Processes) : Parent[y] \in A
         /\ \A q \in A \cap linked : Parent[q] \in A
<1> DEFINE x == Parent[p]
           u == Parent[x]
           h == Parent[u]
           S == Range(Fall(p))
<1>0. p \in Participants /\ linked \subseteq Participants
  BY DEF DBInv, DBTypeOK
<1>1. x \in Processes /\ u \in Users /\ h \in Hosts
  BY <1>0, Chain
<1>2. /\ S \subseteq {x, u, h}
      /\ x \in S => Unused(x, p)
      /\ u \in S => Unused(u, x) /\ x \in S
      /\ h \in S => Unused(h, u) /\ u \in S
  BY <1>0, FallFacts
<1>3. /\ orphans \subseteq Endpoints /\ active \subseteq stored
      /\ linked \subseteq stored
  BY DEF DBInv, DBTypeOK
<1> HIDE DEF S
<1>4. ASSUME NEW y \in A \cap (Users \cup Processes) PROVE Parent[y] \in A
  <2>1. Parent[y] \in active /\ y \in active /\ y \notin S
    BY <1>4 DEF DBInv, ActiveInv, S
  <2>2. Parent[y] \in Users \cup Hosts
    BY <1>4, Chain
  <2>3. Parent[y] # p /\ Parent[y] # x
    BY <1>0, <1>1, <2>2, KindsAssumption
  <2>4. y \in Members(Parent[y])
    <3>1. y \in stored \cap (Tree \ Hosts) /\ y \notin Participants /\ y \notin orphans
      BY <1>3, <1>4, <2>1, KindsAssumption DEF Tree, Physical
    <3>2. Parent[y] \notin Topics
      BY <2>2, KindsAssumption
    <3> QED
      BY <3>1, <3>2 DEF Members
  <2>5. Parent[y] # u \/ u \notin S
    BY <1>2, <2>1, <2>4 DEF Unused
  <2>6. Parent[y] # h \/ h \notin S
    BY <1>2, <2>1, <2>4 DEF Unused
  <2> QED
    BY <1>2, <2>1, <2>3, <2>5, <2>6 DEF S
<1>5. ASSUME NEW q \in A \cap linked PROVE Parent[q] \in A
  <2>1. Parent[q] \in active /\ q \in active /\ q # p /\ q \in Participants
    BY <1>0, <1>5 DEF DBInv, ActiveInv
  <2>2. Parent[q] \in Processes
    BY <2>1, Chain
  <2>3. Parent[q] # p /\ Parent[q] # u /\ Parent[q] # h
    BY <1>0, <1>1, <2>2, KindsAssumption
  <2>4. q \in Members(Parent[q])
    <3>1. q \in stored \cap (Tree \ Hosts) /\ q \notin orphans /\ Parent[q] \notin Topics
      BY <1>3, <2>1, <2>2, KindsAssumption DEF Tree
    <3> QED
      BY <1>5, <3>1 DEF Members
  <2>5. Parent[q] # x \/ x \notin S
    BY <1>2, <2>1, <2>4 DEF Unused
  <2> QED
    BY <1>2, <2>1, <2>3, <2>5 DEF S
<1> QED
  BY <1>4, <1>5
-----------------------------------------------------------------------------
(* change_entity_status() of a participant.                                 *)
LEMMA ParticipantStatusStep ==
  ASSUME DBInv, ChangeParticipant
  PROVE  DBInv'
<1> USE DEF DBInv
<1> DEFINE p == task.entity
           Notifications == Seq([entity : Entities, on : BOOLEAN])
<1>0. task \in TaskType /\ AfterStatus \in {"info", "physical"}
      /\ (AfterStatus = "info" => task.status = "UPDATE")
  BY DEF DBTypeOK, TaskType, AfterStatus
<1>1. /\ p \in Participants /\ p \in Entities
      /\ UNCHANGED <<network, stored, linked, orphans, topicless, graph, told,
                     regen, terminated>>
  BY DEF ChangeParticipant, Entities, Tree
<1>2. Parent[p] \in Processes /\ (p \in linked => Parent[p] \in stored)
  BY <1>1, Chain DEF RefInv
<1>3. ASSUME active' \subseteq stored, tell' \in Notifications,
             task' \in TaskType, task'.step = AfterStatus, task'.entity = p,
             task'.status = task.status,
             \A y \in active' \cap (Users \cup Processes) : Parent[y] \in active',
             \A q \in active' \cap linked : Parent[q] \in active'
      PROVE  DBInv'
  <2>1. DBTypeOK'
    BY <1>1, <1>3 DEF DBTypeOK, TaskType
  <2>2. RefInv'
    BY <1>1 DEF RefInv
  <2>3. ActiveInv'
    BY <1>1, <1>3 DEF ActiveInv
  <2>4. TaskInv'
    BY <1>0, <1>1, <1>3 DEF TaskInv
  <2> QED
    BY <2>1, <2>2, <2>3, <2>4
<1>4. ASSUME Goto(AfterStatus)
      PROVE  /\ task' \in TaskType /\ task'.step = AfterStatus
             /\ task'.entity = p /\ task'.status = task.status
  BY <1>0, <1>4, GotoTask DEF Steps
<1>5. active \subseteq stored /\ tell \in Notifications /\ <<>> \in Seq(Entities)
      /\ Range(<<>>) = {}
  BY DEF DBTypeOK, Range
<1>6. CASE p \in stored /\ p \notin active /\ ParticipantActive(p)
  <2>1. CASE p \in linked
    <3> DEFINE S == Range(Rise(Parent[p]))
    <3>1. /\ active' = active \cup {p} \cup S /\ Goto(AfterStatus)
          /\ tell' = Tells(Rise(Parent[p]), TRUE)
      BY <1>6, <2>1 DEF ParticipantActive
    <3>2. S \subseteq stored /\ tell' \in Notifications
      BY <1>2, <2>1, <3>1, RiseStored, RiseFacts, TellsType
    <3>3. /\ \A y \in active' \cap (Users \cup Processes) : Parent[y] \in active'
          /\ \A q \in active' \cap linked : Parent[q] \in active'
      BY <1>1, <3>1, RiseActive
    <3> QED
      BY <1>3, <1>4, <1>5, <1>6, <3>1, <3>2, <3>3
  <2>2. CASE p \notin linked
    <3>1. active' = active \cup {p} /\ tell' = Tells(<<>>, TRUE) /\ Goto(AfterStatus)
      BY <1>5, <1>6, <2>2 DEF ParticipantActive
    <3>2. p \notin Users \cup Processes
      BY <1>1, KindsAssumption
    <3>3. /\ \A y \in active' \cap (Users \cup Processes) : Parent[y] \in active'
          /\ \A q \in active' \cap linked : Parent[q] \in active'
      BY <2>2, <3>1, <3>2 DEF ActiveInv
    <3>4. tell' \in Notifications
      BY <1>5, <3>1, TellsType
    <3> QED
      BY <1>3, <1>4, <1>5, <1>6, <3>1, <3>3, <3>4
  <2> QED
    BY <2>1, <2>2
<1>7. CASE ParticipantInactive(p)
  <2>1. /\ task' = [task EXCEPT !.step = AfterStatus, !.ends = Members(p)]
        /\ Members(p) \subseteq Endpoints
    <3>1. p \notin Topics
      BY <1>1, KindsAssumption
    <3>2. \A y \in Tree \ Hosts : Parent[y] \in Participants => y \in Endpoints
      BY Chain, KindsAssumption DEF Tree, Physical
    <3> QED
      BY <1>1, <1>7, <3>1, <3>2 DEF ParticipantInactive, Members
  <2>2. /\ task' \in TaskType /\ task'.step = AfterStatus
        /\ task'.entity = p /\ task'.status = task.status
    BY <1>0, <2>1 DEF TaskType, Steps
  <2>3. CASE p \in linked
    <3>1. active' = active \ ({p} \cup Range(Fall(p))) /\ tell' = Tells(Fall(p), FALSE)
      BY <1>7, <2>3 DEF ParticipantInactive
    <3>2. tell' \in Notifications
      BY <1>1, <3>1, FallFacts, TellsType
    <3>3. /\ \A y \in active' \cap (Users \cup Processes) : Parent[y] \in active'
          /\ \A q \in active' \cap linked : Parent[q] \in active'
      BY <2>3, <3>1, FallActive
    <3> QED
      BY <1>3, <1>5, <2>2, <3>1, <3>2, <3>3
  <2>4. CASE p \notin linked
    <3>1. active' = active \ {p} /\ tell' = Tells(<<>>, FALSE)
      BY <1>5, <1>7, <2>4 DEF ParticipantInactive
    <3>2. \A y \in (Users \cup Processes) \cup linked : y \in active' => Parent[y] # p
      <4>1. linked \subseteq Participants
        BY DEF DBTypeOK
      <4> QED
        BY <1>1, <4>1, Chain, KindsAssumption
    <3>3. /\ \A y \in active' \cap (Users \cup Processes) : Parent[y] \in active'
          /\ \A q \in active' \cap linked : Parent[q] \in active'
      BY <3>1, <3>2 DEF ActiveInv
    <3>4. tell' \in Notifications
      BY <1>5, <3>1, TellsType
    <3> QED
      BY <1>3, <1>5, <2>2, <3>1, <3>3, <3>4
  <2> QED
    BY <2>3, <2>4
<1>8. CASE Goto(AfterStatus) /\ UNCHANGED <<active, tell>>
  BY <1>3, <1>4, <1>5, <1>8 DEF ActiveInv
<1> QED
  BY <1>6, <1>7, <1>8 DEF ChangeParticipant

(* change_entity_status() of an endpoint, called by its own sample or for   *)
(* its participant.                                                         *)
LEMMA EndpointStatusStep ==
  ASSUME DBInv, ChangeEndpoint \/ \E e \in Endpoints : EndpointInactive(e)
  PROVE  DBInv'
<1> USE DEF DBInv
<1>0. task \in TaskType
  BY DEF DBTypeOK, TaskType
<1>1. PICK e \in Endpoints, on \in BOOLEAN, held \in BOOLEAN :
        change_endpoint_status(e, on, held)
  <2>1. (task.status # "UNDISCOVERY") \in BOOLEAN
    OBVIOUS
  <2> QED
    BY <2>1 DEF ChangeEndpoint, EndpointInactive
<1>2. UNCHANGED <<network, stored, linked, orphans, topicless, graph, told, regen>>
  BY DEF ChangeEndpoint, EndpointInactive
<1>3. /\ active' \subseteq stored
      /\ \A y : y \notin {e, TopicOf[e]} => (y \in active' <=> y \in active)
      /\ tell' \in Seq([entity : Entities, on : BOOLEAN])
      /\ terminated' \in BOOLEAN
  BY <1>1, EndpointStatus
<1>4. task' \in TaskType /\ TaskInv'
  <2>1. CASE ChangeEndpoint
    <3>1. PICK step \in {"endpoint_graph", "lookup"} : Goto(step)
      BY <2>1 DEF ChangeEndpoint
    <3>2. task' \in TaskType /\ task'.step = step /\ task'.entity = task.entity
      BY <1>0, <3>1, GotoTask DEF Steps
    <3> QED
      BY <2>1, <3>2 DEF TaskInv, ChangeEndpoint
  <2>2. CASE \E f \in Endpoints : EndpointInactive(f)
    <3>1. PICK f : task' = [task EXCEPT !.ends = @ \ {f}]
      BY <2>2 DEF EndpointInactive
    <3>2. /\ task' \in TaskType /\ task'.step = task.step
          /\ task'.entity = task.entity /\ task'.status = task.status
      BY <1>0, <3>1 DEF TaskType
    <3> QED
      BY <1>2, <3>2 DEF TaskInv
  <2> QED
    BY <2>1, <2>2
<1>5. DBTypeOK'
  BY <1>2, <1>3, <1>4 DEF DBTypeOK, TaskType
<1>6. RefInv'
  BY <1>2 DEF RefInv
<1>7. ActiveInv'
  <2>1. TopicOf[e] \in Topics /\ linked \subseteq Participants
    BY Chain DEF DBTypeOK
  <2>2. ASSUME NEW y \in Users \cup Processes \cup linked
        PROVE  y \notin {e, TopicOf[e]} /\ Parent[y] \notin {e, TopicOf[e]}
    BY <2>1, Chain, KindsAssumption
  <2> QED
    BY <1>2, <1>3, <2>2 DEF ActiveInv
<1> QED
  BY <1>4, <1>5, <1>6, <1>7

(* What a handler creates is stored with what it refers to.                 *)
LEMMA InsertSteps ==
  ASSUME DBInv, insert_new_participant \/ insert_new_topic \/ insert_new_endpoint
  PROVE  DBInv'
<1> USE DEF DBInv
<1> DEFINE y == task.entity
<1>0. task \in TaskType
  BY DEF DBTypeOK, TaskType
<1>1. ASSUME NEW z \in Participants \cup Endpoints \cup Topics,
             stored' = stored \cup {z}, active' = active \cup {z},
             z \in Participants => z \notin stored,
             z \in Endpoints => TopicOf[z] \in stored,
             told' \subseteq Entities,
             UNCHANGED <<network, linked, orphans, topicless, graph, tell, regen,
                         terminated>>,
             task' \in TaskType, TaskInv'
      PROVE  DBInv'
  <2>1. DBTypeOK'
    BY <1>1 DEF DBTypeOK, TaskType, Entities, Tree
  <2>2. RefInv'
    <3>1. z \notin Users \cup Processes
      BY <1>1, KindsAssumption
    <3> QED
      BY <1>1, <3>1 DEF RefInv
  <2>3. ActiveInv'
    <3>1. z \notin Users \cup Processes /\ z \notin linked
      BY <1>1, KindsAssumption DEF DBTypeOK
    <3> QED
      BY <1>1, <3>1 DEF ActiveInv
  <2> QED
    BY <1>1, <2>1, <2>2, <2>3
<1>2. ASSUME NEW step \in {"insert_endpoint", "refresh"}, Goto(step), y \in Endpoints
      PROVE  task' \in TaskType /\ TaskInv'
  <2>1. task' \in TaskType /\ task'.step = step /\ task'.entity = y
    BY <1>0, <1>2, GotoTask DEF Steps
  <2> QED
    BY <1>2, <2>1 DEF TaskInv
<1>3. CASE insert_new_participant
  <2>1. y \in Participants /\ y \notin stored
    BY <1>3 DEF insert_new_participant, At, TaskInv
  <2>2. task' = [task EXCEPT !.step = "physical", !.link = TRUE]
    BY <1>3 DEF insert_new_participant
  <2>3. task' \in TaskType /\ task'.step = "physical" /\ task'.entity = y
    BY <1>0, <2>2 DEF TaskType, Steps
  <2>4. TaskInv'
    BY <2>1, <2>3 DEF TaskInv
  <2>5. y \notin Endpoints
    BY <2>1, KindsAssumption
  <2> QED
    BY <1>1, <1>3, <2>1, <2>3, <2>4, <2>5 DEF insert_new_participant, DBTypeOK
<1>4. CASE insert_new_topic
  <2>1. y \in Endpoints
    BY <1>4 DEF insert_new_topic, At, TaskInv
  <2>2. TopicOf[y] \in Topics /\ TopicOf[y] \notin Participants \cup Endpoints
    BY <2>1, Chain, KindsAssumption
  <2>3. told' \subseteq Entities
    BY <1>4, <2>2 DEF insert_new_topic, DBTypeOK, Entities
  <2> QED
    BY <1>1, <1>2, <1>4, <2>1, <2>2, <2>3 DEF insert_new_topic
<1>5. CASE insert_new_endpoint
  <2>1. y \in Endpoints /\ y \notin Participants
    BY <1>5, KindsAssumption DEF insert_new_endpoint, At, TaskInv
  <2>2. CASE {Parent[y], TopicOf[y]} \subseteq stored /\ y \notin stored
    <3>1. stored' = stored \cup {y} /\ active' = active \cup {y} /\ Goto("refresh")
      BY <1>5, <2>2 DEF insert_new_endpoint, Accepts
    <3> QED
      BY <1>1, <1>2, <1>5, <2>1, <2>2, <3>1 DEF insert_new_endpoint, DBTypeOK
  <2>3. CASE ~({Parent[y], TopicOf[y]} \subseteq stored /\ y \notin stored)
    <3>1. /\ task' = NoTask
          /\ UNCHANGED <<network, stored, active, linked, orphans, topicless, graph,
                         told, tell, regen, terminated>>
      BY <1>5, <2>3 DEF insert_new_endpoint, Accepts
    <3>2. TaskInv' /\ task' \in TaskType
      BY <3>1, NoTaskType DEF TaskInv
    <3>3. DBTypeOK'
      BY <3>1, <3>2 DEF DBTypeOK, TaskType
    <3>4. RefInv' /\ ActiveInv'
      BY <3>1 DEF RefInv, ActiveInv
    <3> QED
      BY <3>2, <3>3, <3>4
  <2> QED
    BY <2>2, <2>3
<1> QED
  BY <1>3, <1>4, <1>5

(* A participant that is linked to its process raises it if it is active.   *)
LEMMA LinkSteps ==
  ASSUME DBInv, update_participant_discovery_info \/ process_physical_entities
  PROVE  DBInv'
<1> USE DEF DBInv
<1> DEFINE p == task.entity
           x == Parent[p]
           u == Parent[x]
           h == Parent[u]
           Notifications == Seq([entity : Entities, on : BOOLEAN])
<1>0. task \in TaskType /\ p \in Participants
  BY DEF DBTypeOK, TaskType, TaskInv, At, update_participant_discovery_info,
         process_physical_entities
<1>1. x \in Processes /\ u \in Users /\ h \in Hosts
  BY <1>0, Chain
<1>2. UNCHANGED <<network, orphans, topicless, graph, told, regen, terminated>>
  BY DEF update_participant_discovery_info, process_physical_entities
<1>3. /\ Range(<<>>) = {} /\ <<>> \in Seq(Entities)
      /\ Range(Rise(x)) \subseteq {x, u, h} /\ Rise(x) \in Seq(Entities)
  <2>1. Range(<<>>) = {} /\ <<>> \in Seq(Entities)
    BY DEF Range
  <2>2. Range(Rise(x)) \subseteq {x, u, h} /\ Rise(x) \in Seq(Entities)
    BY <1>1, RiseFacts
  <2> QED
    BY <2>1, <2>2
(* Linking keeps the invariant if what is stored is closed upwards.         *)
<1>4. ASSUME NEW raised \in BOOLEAN, NEW rising,
             rising = IF raised THEN Rise(x) ELSE <<>>,
             NEW new \in SUBSET {x, u, h},
             stored' = stored \cup new,
             u \in new => h \in new, x \in new => u \in new,
             active' = active \cup Range(rising), tell' = Tells(rising, TRUE),
             \/ linked' = linked
             \/ linked' = linked \cup {p} /\ x \in stored' /\ p \in stored,
             raised => x \in stored' /\ p \in active,
             linked' # linked /\ p \in active => raised,
             task' \in TaskType, TaskInv'
      PROVE  DBInv'
  <2>1. x \in stored' => {x, u, h} \subseteq stored'
    <3>1. CASE x \in new
      BY <1>4, <3>1
    <3>2. CASE x \in stored
      BY <1>1, <1>4, <3>2 DEF RefInv
    <3> QED
      BY <1>4, <3>1, <3>2
  <2>2. Range(rising) \subseteq stored'
    BY <1>3, <1>4, <2>1
  <2>3. tell' \in Notifications
    BY <1>3, <1>4, TellsType
  <2>4. DBTypeOK'
    <3>1. {x, u, h} \subseteq Entities
      BY <1>1 DEF Entities, Tree, Physical
    <3> QED
      BY <1>0, <1>2, <1>4, <2>2, <2>3, <3>1 DEF DBTypeOK, TaskType
  <2>5. RefInv'
    <3>1. {x, u, h} \cap Endpoints = {}
      BY <1>1, KindsAssumption
    <3>2. \A y \in stored' \cap Endpoints : y \in stored
      BY <1>4, <3>1
    <3>3. h \notin Users \cup Processes
      BY <1>1, KindsAssumption
    <3>4. \A y \in stored' \cap (Users \cup Processes) : Parent[y] \in stored'
      BY <1>4, <3>3 DEF RefInv
    <3>5. \A q \in linked' : Parent[q] \in stored'
      BY <1>4 DEF RefInv
    <3> QED
      BY <1>2, <1>4, <3>2, <3>4, <3>5 DEF RefInv
  <2>6. ActiveInv'
    <3>1. CASE raised
      <4>1. p \in active /\ active' = active \cup {p} \cup Range(Rise(x))
        BY <1>4, <3>1
      <4>2. linked' \subseteq linked \cup {p}
        BY <1>4
      <4> QED
        BY <1>0, <4>1, <4>2, RiseActive DEF ActiveInv
    <3>2. CASE ~raised
      <4>1. active' = active
        BY <1>3, <1>4, <3>2
      <4>2. \A q \in linked' \cap active : q \in linked
        BY <1>4, <3>2
      <4> QED
        BY <4>1, <4>2 DEF ActiveInv
    <3> QED
      BY <3>1, <3>2
  <2> QED
    BY <1>4, <2>4, <2>5, <2>6
<1>5. CASE update_participant_discovery_info
  <2>1. task.status = "UPDATE" /\ UNCHANGED stored
    BY <1>5 DEF update_participant_discovery_info, At, TaskInv
  <2>2. CASE p \notin stored
    <3>1. task' = NoTask /\ UNCHANGED <<linked, active, tell>>
      BY <1>5, <2>1, <2>2 DEF update_participant_discovery_info, Caught, Unknown
    <3>2. TaskInv' /\ task' \in TaskType
      BY <3>1, NoTaskType DEF TaskInv
    <3>3. DBTypeOK'
      BY <1>2, <2>1, <3>1, <3>2 DEF DBTypeOK, TaskType
    <3>4. RefInv' /\ ActiveInv'
      BY <1>2, <2>1, <3>1 DEF RefInv, ActiveInv
    <3> QED
      BY <3>2, <3>3, <3>4
  <2>3. CASE p \in stored
    <3>1. PICK step \in {"info_graph", "physical"} : Goto(step)
      BY <1>5, <2>3 DEF update_participant_discovery_info
    <3>2. /\ task' \in TaskType /\ task'.step = step /\ task'.entity = p
          /\ task'.status = task.status
      BY <1>0, <3>1, GotoTask DEF Steps
    <3>3. TaskInv'
      BY <1>0, <2>1, <3>2 DEF TaskInv
    <3> DEFINE found == x \in stored
               raised == found /\ p \in active
               rising == IF raised THEN Rise(x) ELSE <<>>
    <3>4. /\ linked' = (IF found THEN linked \cup {p} ELSE linked)
          /\ active' = active \cup Range(rising) /\ tell' = Tells(rising, TRUE)
      BY <1>5, <2>3 DEF update_participant_discovery_info, LinkRises
    <3>5. stored' = stored \cup {} /\ raised \in BOOLEAN /\ {} \in SUBSET {x, u, h}
      BY <2>1
    <3>6. raised => x \in stored' /\ p \in active
      BY <2>1
    <3>7. /\ \/ linked' = linked
             \/ linked' = linked \cup {p} /\ x \in stored' /\ p \in stored
          /\ linked' # linked /\ p \in active => raised
      BY <2>1, <2>3, <3>4
    <3> HIDE DEF x, u, h, raised
    <3> QED
      BY <1>4, <3>2, <3>3, <3>4, <3>5, <3>6, <3>7
  <2> QED
    BY <2>2, <2>3
<1>6. CASE process_physical_entities
  <2> DEFINE refused == x \notin stored /\ PidTaken(x)
             should_link == task.link \/ x \notin stored
             links == ~refused /\ should_link /\ p \in stored \ linked
             raised == links /\ p \in active
             rising == IF raised THEN Rise(x) ELSE <<>>
             new == IF refused THEN {u, h} ELSE {x, u, h}
  <2>1. Up(x) = {x, u, h} /\ Up(Parent[x]) = {u, h}
    BY <1>1, UpOfProcess, UpOfUser
  <2>2. /\ stored' = stored \cup new
        /\ linked' = (IF links THEN linked \cup {p} ELSE linked)
        /\ active' = active \cup Range(rising) /\ tell' = Tells(rising, TRUE)
        /\ task' = [task EXCEPT !.step = "graph", !.found = ~refused]
    BY <1>6, <2>1 DEF process_physical_entities, LinkRises
  <2>3. /\ new \in SUBSET {x, u, h} /\ raised \in BOOLEAN
        /\ u \in new => h \in new
        /\ x \in new => u \in new
    OBVIOUS
  <2>4. /\ raised => x \in stored' /\ p \in active
        /\ \/ linked' = linked
           \/ linked' = linked \cup {p} /\ x \in stored' /\ p \in stored
        /\ linked' # linked /\ p \in active => raised
    BY <2>2
  <2>5. refused \in BOOLEAN
    OBVIOUS
  <2> HIDE DEF x, u, h, new, raised, refused, links
  <2>6. task' \in TaskType /\ task'.step = "graph" /\ task'.entity = p
    BY <1>0, <2>2, <2>5 DEF TaskType, Steps
  <2>7. TaskInv'
    BY <1>0, <2>6 DEF TaskInv
  <2> QED
    BY <1>4, <2>2, <2>3, <2>4, <2>6, <2>7
<1> QED
  BY <1>5, <1>6

(* clear_inactive_entities() keeps what is active, and so all above it.     *)
LEMMA ClearStep ==
  ASSUME DBInv, NEW d \in Domains, clear_inactive_entities(d)
  PROVE  DBInv'
<1> USE DEF DBInv
<1>1. /\ stored' = active /\ active' = active
      /\ linked' = linked \cap active
      /\ topicless' = {e \in active \cap Endpoints : e \in topicless \/ TopicOf[e] \notin active}
      /\ orphans' \subseteq active \cap Endpoints
      /\ \E T \in Written(Regenerated(d, active), topicless') :
           graph' = [graph EXCEPT ![d] = T]
      /\ regen' \subseteq Domains
      /\ UNCHANGED <<network, told, task, tell, terminated>>
  <2>1. stored \cap active = active
    BY DEF DBTypeOK
  <2> QED
    BY <2>1 DEF clear_inactive_entities, Kept
<1>2. active \subseteq stored /\ linked \subseteq Participants
  BY DEF DBTypeOK
<1>3. DBTypeOK'
  <2>1. graph' \in [Domains -> SUBSET Entities]
    BY <1>1, <1>2, WrittenType DEF DBTypeOK
  <2> QED
    BY <1>1, <1>2, <2>1 DEF DBTypeOK
<1>4. RefInv'
  BY <1>1, <1>2 DEF RefInv, ActiveInv
<1>5. ActiveInv'
  BY <1>1 DEF ActiveInv
<1>6. TaskInv'
  BY <1>1, <1>2 DEF TaskInv
<1> QED
  BY <1>3, <1>4, <1>5, <1>6
-----------------------------------------------------------------------------
LEMMA NextInv ==
  ASSUME DBInv, [DBNext]_dbvars
  PROVE  DBInv'
<1>1. CASE UNCHANGED dbvars
  <2>1. UNCHANGED <<network, stored, active, linked, orphans, topicless, graph,
                    told, task, tell, regen, terminated>>
    BY <1>1 DEF dbvars, entities
  <2> QED
    BY <2>1 DEF DBInv, DBTypeOK, RefInv, ActiveInv, TaskInv
<1>2. ASSUME NEW d \in Domains, clear_inactive_entities(d) PROVE DBInv'
  BY <1>2, ClearStep
<1> QED
  BY <1>1, <1>2, ControlSteps, GraphSteps, ParticipantStatusStep, EndpointStatusStep,
     InsertSteps, LinkSteps DEF DBNext

LEMMA Invariance == DBSpec => []DBInv
<1>1. DBInv /\ [DBNext]_dbvars => DBInv'
  BY NextInv
<1> QED
  BY <1>1, InitInv, PTL DEF DBSpec

(* Every variable keeps its type on every network.                          *)
THEOREM DBTypeCorrect == DBSpec => []DBTypeOK
<1>1. DBInv => DBTypeOK
  BY DEF DBInv
<1> QED
  BY <1>1, Invariance, PTL

(* Whatever is discovered, undiscovered and cleared, between which critical *)
(* sections: a user, process or linked participant keeps what it refers to, *)
(* and an active one keeps it active.                                       *)
THEOREM InUseIsKept == DBSpec => []NeverClearedInUse
<1>1. DBInv => NeverClearedInUse
  <2> SUFFICES ASSUME DBInv PROVE NeverClearedInUse
    OBVIOUS
  <2>1. ASSUME NEW p \in linked \cap active PROVE Up(Parent[p]) \subseteq active
    <3>1. p \in Participants
      BY <2>1 DEF DBInv, DBTypeOK
    <3>2. Parent[p] \in Processes /\ Parent[Parent[p]] \in Users
      BY <3>1, Chain
    <3>3. {Parent[p], Parent[Parent[p]], Parent[Parent[Parent[p]]]} \subseteq active
      BY <2>1, <3>2 DEF DBInv, ActiveInv
    <3> QED
      BY <3>2, <3>3, UpOfProcess
  <2> QED
    BY <2>1 DEF NeverClearedInUse, DBInv, RefInv
<1> QED
  BY <1>1, Invariance, PTL
=============================================================================
