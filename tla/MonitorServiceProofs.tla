------------------------ MODULE MonitorServiceProofs ------------------------
(***************************************************************************)
(* Proofs about MonitorService, for any participants, endpoints and kinds  *)
(* of status, any number of samples and any interleaving of the consumers, *)
(* the discovery callbacks, clear_inactive_entities() and                  *)
(* clear_statistics_data().                                                *)
(***************************************************************************)
EXTENDS MonitorService, SequenceTheorems, TLAPS

----------------------------------------------------------------------------
(* Types. *)

(* The sample in work: a PROXY sample, a disposal, or another status. *)
ProxyTask ==
  [at : {"insert_proxy", "info", "enqueue", "enqueue_endpoint"}, entity : Entities,
   guid : Entities \cup {NoGuid}, id : Nat]
DisposalTask ==
  [at : {"undiscover", "graph"}, entity : Entities, guid : Entities, id : Nat]
StatusTask ==
  [at : {"insert", "graph"}, entity : Endpoints, id : Nat,
   kind : StatusKinds, ts : 1 .. MaxTime, bad : BOOLEAN]

Item ==
  [entity : Entities \cup {NoGuid}, kind : {"PARTICIPANT", "ENDPOINT", "INVALID"},
   status : Statuses, source : Sources]
Sample == [ts : Nat, bad : BOOLEAN]
ReportType == [kind : StatusKinds, ts : 1 .. MaxTime, bad : BOOLEAN]

DatabaseType ==
  /\ stored \subseteq Entities /\ active \subseteq stored
  /\ orphans \subseteq stored \cap Endpoints
  /\ born \in [Entities -> Nat]
  /\ source \in [Entities -> Sources] /\ level \in [Entities -> Levels]
  /\ last \in [Endpoints -> [StatusKinds -> Sample]]

(* An endpoint is in the graph only below its participant. *)
GoodGraph(g, S) ==
  /\ DOMAIN g \subseteq S /\ g \in [DOMAIN g -> Levels]
  /\ \A e \in DOMAIN g \cap Endpoints : Owner[e] \in DOMAIN g
GraphType == GoodGraph(nodes, stored)

ConsumerType ==
  /\ DOMAIN handles \subseteq Entities /\ handles \in [DOMAIN handles -> Entities \cup {NoGuid}]
  /\ enqueued \subseteq Participants \cup {NoGuid}
  /\ task \in {NoTask} \cup ProxyTask \cup DisposalTask \cup StatusTask
  /\ task \in ProxyTask => task.guid \in {task.entity, NoGuid}
  /\ task \in ProxyTask /\ task.at = "info" => task.guid \in Participants
  /\ task \in ProxyTask /\ task.at = "enqueue_endpoint" =>
       task.guid \notin Participants /\ ParticipantOf(task.guid) \in enqueued

(* The item whose graph update is due is still at the front. *)
QueueType ==
  /\ queue \in Seq(Item)
  /\ \A i \in 1 .. Len(queue) : queue[i].kind = "ENDPOINT" => queue[i].entity \in Endpoints
  /\ due \in Entities \cup {NoGuid}
  /\ due # NoGuid => queue # <<>> /\ queue[1].entity = due /\ due \in stored \cup erased

OtherType ==
  /\ net \subseteq Entities /\ terminated \in BOOLEAN /\ arrivals \in Nat
  /\ direct \subseteq Entities /\ erased \subseteq Entities
  /\ said \in [Entities -> {"nothing", "alive", "gone"}]
  /\ reports \in [Endpoints -> SUBSET ReportType]
  /\ overtaken \subseteq Entities /\ cleared \subseteq Endpoints

MSType == DatabaseType /\ GraphType /\ ConsumerType /\ QueueType /\ OtherType

----------------------------------------------------------------------------
(* The inductive invariants. *)

(* A status that is not shown yet is that of an entity which still has the  *)
(* id the consumer holds.                                                   *)
ShownInv ==
  \A x \in DOMAIN nodes \ orphans :
    nodes[x] = level[x] \/ (task.at = "graph" /\ task.entity = x /\ ~Gone)

(* The sample kept of a kind is the newest that was reported and not        *)
(* cleared; what is not stored has none.                                    *)
KeepsNewest(e, k) ==
  \/ last[e][k] = NoSample /\ \A r \in reports[e] : r.kind # k
  \/ \E r \in reports[e] :
       /\ r = [kind |-> k, ts |-> last[e][k].ts, bad |-> last[e][k].bad]
       /\ \A q \in reports[e] : q.kind = k => q.ts <= r.ts
NewestInv ==
  \A e \in Endpoints :
    /\ \A k \in StatusKinds : KeepsNewest(e, k)
    /\ \A q, r \in reports[e] : q.kind = r.kind /\ q.ts = r.ts => q = r
    /\ e \notin stored => reports[e] = {} /\ last[e] = [k \in StatusKinds |-> NoSample]
    /\ e \in stored \ cleared => level[e] = update_entity_status(last[e])

(* A participant that was enqueued or announced was stored, or its first    *)
(* sample is in the queue.                                                  *)
Awaited(p, n) ==
  \E i \in 1 .. n : queue[i].entity = p /\ queue[i].status = "DISCOVERY"
EnqueuedInv ==
  \A p \in (enqueued \cup net) \cap Participants :
    p \in stored \cup erased \/ Awaited(p, Len(queue))

(* Only discovery makes its information. *)
SourceInv ==
  /\ \A x \in Entities : source[x] = "DISCOVERY" => x \in direct
  /\ \A i \in 1 .. Len(queue) : queue[i].source = "DISCOVERY" => queue[i].entity \in direct

(* A participant that discovery never saw came by a PROXY sample or by a    *)
(* placeholder.                                                             *)
FirstInv ==
  \A p \in Participants \ (direct \cup enqueued) :
    /\ said[p] = "nothing" /\ p \notin stored /\ ~Pending(p)
    /\ task.at \in {"insert_proxy", "info"} => task.entity # p

HandleInv ==
  \A x \in DOMAIN handles :
    handles[x] \in {x, NoGuid} \/ (task.at = "enqueue_endpoint" /\ task.entity = x)

(* The entities of which a disposal may come to nothing: plain discovery    *)
(* announced them, or the disposal overtook what was in the entity queue.   *)
Excused == direct \cup overtaken

(* While a disposal or an empty sample is in work, nothing creates its      *)
(* entity anew.                                                             *)
QuietInv ==
  /\ \A x \in Entities \ Excused :
       task \in ProxyTask /\ task.entity = x /\ task.guid = NoGuid =>
         /\ ~Pending(x)
         /\ task.at = "insert_proxy" => born[x] = task.id
         /\ task.at \in {"enqueue", "enqueue_endpoint"} => x \notin stored
  /\ task.at = "undiscover" => task.guid = task.entity
  /\ task.at = "undiscover" /\ task.entity \notin Excused =>
       ~Pending(task.entity) /\ born[task.entity] = task.id

(* A proxy that is active or about to be has a handle by which it can be    *)
(* disposed of.                                                             *)
Disposable(x) ==
  \/ x \in Participants /\ said[x] = "nothing"
  \/ x \in DOMAIN handles /\ handles[x] = x /\ said[x] # "gone"
  \/ task.at = "undiscover" /\ task.entity = x
  \/ task.at = "enqueue_endpoint" /\ task.entity = x /\ task.guid = x
  \/ terminated
DisposableInv ==
  \A x \in Entities \ Excused : x \in active \/ Pending(x) => Disposable(x)

----------------------------------------------------------------------------
(* The graph. *)

LEMMA WithoutType ==
  ASSUME NEW f, NEW S, NEW T, f \in [DOMAIN f -> T]
  PROVE  Without(f, S) \in [DOMAIN Without(f, S) -> T]
BY DEF Without, Restrict

LEMMA RegeneratedGraph ==
  ASSUME DatabaseType, NEW kept \in SUBSET Entities, NEW on, NEW levels \in [Entities -> Levels]
  PROVE  LET g == Regenerated(kept, on, levels)
         IN  /\ GoodGraph(g, kept)
             /\ \A x \in DOMAIN g : g[x] = levels[x]
<1>. DEFINE g == Regenerated(kept, on, levels)
            shown == {x \in kept \cap on :
                        x \in Participants \/ (x \notin orphans /\ Owner[x] \in kept \cap on)}
<1>1. g = [x \in shown |-> levels[x]]
  BY DEF Regenerated
<1>2. shown \subseteq kept /\ DOMAIN g = shown /\ \A x \in shown : g[x] = levels[x] /\ levels[x] \in Levels
  BY <1>1
<1>3. \A e \in shown \cap Endpoints : Owner[e] \in shown
  BY MonitorServiceAssumption DEF Endpoints, Entities
<1>4. g \in [DOMAIN g -> Levels]
  BY <1>1, <1>2
<1>. QED BY <1>2, <1>3, <1>4 DEF GoodGraph

(* What the two functions that update the graph leave of it. *)
LEMMA ParticipantGraph ==
  ASSUME MSType, NEW p \in stored \cap Participants
  PROVE  LET g == ParticipantInGraph(p)
         IN  /\ GoodGraph(g, stored)
             /\ \A x \in DOMAIN g : \/ x # p /\ x \in DOMAIN nodes /\ g[x] = nodes[x]
                                    \/ x = p /\ g[x] = level[p]
<1>. DEFINE g == ParticipantInGraph(p)
            mine == {e \in Endpoints : Owner[e] = p}
<1>0. /\ GoodGraph(nodes, stored) /\ level[p] \in Levels
      /\ p \notin Endpoints
  BY MonitorServiceAssumption DEF MSType, GraphType, DatabaseType, Entities
<1>1. CASE active \cap Participants = {}
  BY <1>1 DEF ParticipantInGraph, GoodGraph
<1>2. CASE active \cap Participants # {} /\ p \in active
  <2>1. g = With(nodes, p, level[p])
    BY <1>2 DEF ParticipantInGraph
  <2>2. /\ DOMAIN g = {p} \cup DOMAIN nodes /\ g[p] = level[p]
        /\ \A y \in DOMAIN nodes \ {p} : g[y] = nodes[y]
        /\ g \in [DOMAIN g -> Levels]
    BY <1>0, <2>1 DEF GoodGraph, With
  <2>. HIDE DEF g
  <2>. QED BY <1>0, <2>2 DEF GoodGraph, g
<1>3. CASE active \cap Participants # {} /\ p \notin active
  <2>1. g = Without(nodes, {p} \cup mine)
    BY <1>3 DEF ParticipantInGraph
  <2>2. /\ DOMAIN g = DOMAIN nodes \ ({p} \cup mine)
        /\ \A y \in DOMAIN g : g[y] = nodes[y]
    BY <2>1 DEF Without, Restrict
  <2>3. g \in [DOMAIN g -> Levels]
    BY <1>0, <2>1, WithoutType DEF GoodGraph
  <2>4. \A e \in DOMAIN g \cap Endpoints : Owner[e] \in DOMAIN g
    BY <1>0, <2>2, MonitorServiceAssumption DEF GoodGraph
  <2>. QED BY <1>0, <2>2, <2>3, <2>4 DEF GoodGraph
<1>. QED BY <1>1, <1>2, <1>3

LEMMA EndpointGraph ==
  ASSUME MSType, NEW e \in stored \cap Endpoints
  PROVE  LET g == EndpointInGraph(e)
         IN  /\ GoodGraph(g, stored)
             /\ \A x \in DOMAIN g : \/ x # e /\ x \in DOMAIN nodes /\ g[x] = nodes[x]
                                    \/ x = e /\ g[x] = level[e]
<1>. DEFINE g == EndpointInGraph(e)
<1>0. /\ GoodGraph(nodes, stored) /\ level[e] \in Levels
      /\ \A f \in Endpoints : Owner[f] # e
  BY MonitorServiceAssumption DEF MSType, GraphType, DatabaseType, Entities
<1>1. CASE Owner[e] \notin DOMAIN nodes
  BY <1>0, <1>1 DEF EndpointInGraph, GoodGraph
<1>2. CASE Owner[e] \in DOMAIN nodes /\ e \in active
  <2>1. g = With(nodes, e, level[e])
    BY <1>2 DEF EndpointInGraph
  <2>2. /\ DOMAIN g = {e} \cup DOMAIN nodes /\ g[e] = level[e]
        /\ \A y \in DOMAIN nodes \ {e} : g[y] = nodes[y]
        /\ g \in [DOMAIN g -> Levels]
    BY <1>0, <2>1 DEF GoodGraph, With
  <2>. HIDE DEF g
  <2>. QED BY <1>0, <1>2, <2>2 DEF GoodGraph, g
<1>3. CASE Owner[e] \in DOMAIN nodes /\ e \notin active
  <2>1. g = Without(nodes, {e})
    BY <1>3 DEF EndpointInGraph
  <2>2. /\ DOMAIN g = DOMAIN nodes \ {e}
        /\ \A y \in DOMAIN g : g[y] = nodes[y]
    BY <2>1 DEF Without, Restrict
  <2>3. g \in [DOMAIN g -> Levels]
    BY <1>0, <2>1, WithoutType DEF GoodGraph
  <2>4. \A f \in DOMAIN g \cap Endpoints : Owner[f] \in DOMAIN g
    BY <1>0, <2>2 DEF GoodGraph
  <2>. QED BY <1>0, <2>2, <2>3, <2>4 DEF GoodGraph
<1>. QED BY <1>1, <1>2, <1>3

----------------------------------------------------------------------------
(* The sample in work. *)

LEMMA TaskShape ==
  ASSUME ConsumerType
  PROVE  /\ task.at \in {"insert_proxy", "info", "enqueue", "enqueue_endpoint"} => task \in ProxyTask
         /\ task.at = "undiscover" => task \in DisposalTask
         /\ task.at = "insert" => task \in StatusTask
         /\ task.at = "graph" => task.entity \in Entities /\ task.id \in Nat
         /\ task.at = "idle" <=> task = NoTask
BY DEF ConsumerType, NoTask, ProxyTask, DisposalTask, StatusTask, Entities

LEMMA ProxyGoto ==
  ASSUME task \in ProxyTask, NEW at \in {"insert_proxy", "info", "enqueue", "enqueue_endpoint"}
  PROVE  /\ [task EXCEPT !.at = at] \in ProxyTask
         /\ [task EXCEPT !.at = at].at = at
         /\ [task EXCEPT !.at = at].entity = task.entity
         /\ [task EXCEPT !.at = at].guid = task.guid
         /\ [task EXCEPT !.at = at].id = task.id
BY DEF ProxyTask

LEMMA DisposalGraph ==
  ASSUME task \in DisposalTask
  PROVE  /\ [task EXCEPT !.at = "graph"] \in DisposalTask
         /\ [task EXCEPT !.at = "graph"].at = "graph"
         /\ [task EXCEPT !.at = "graph"].entity = task.entity
         /\ [task EXCEPT !.at = "graph"].id = task.id
BY DEF DisposalTask

LEMMA StatusGraph ==
  ASSUME task \in StatusTask
  PROVE  /\ [task EXCEPT !.at = "graph"] \in StatusTask
         /\ [task EXCEPT !.at = "graph"].at = "graph"
         /\ [task EXCEPT !.at = "graph"].entity = task.entity
         /\ [task EXCEPT !.at = "graph"].id = task.id
BY DEF StatusTask

LEMMA NoTaskIdle ==
  /\ NoTask.at = "idle"
  /\ NoTask \notin ProxyTask /\ NoTask \notin DisposalTask /\ NoTask \notin StatusTask
BY DEF NoTask, ProxyTask, DisposalTask, StatusTask

(* A task is of one shape. *)
LEMMA OneShape ==
  /\ \A t \in ProxyTask : t.at \in {"insert_proxy", "info", "enqueue", "enqueue_endpoint"}
  /\ \A t \in DisposalTask \cup StatusTask : t \notin ProxyTask
BY DEF ProxyTask, DisposalTask, StatusTask

----------------------------------------------------------------------------
(* Which actions change what. *)

LEMMA DatabaseChanges ==
  ASSUME [MSNext]_msvars
  PROVE  \/ UNCHANGED database
         \/ UpdateInfo \/ Undiscover \/ insert
         \/ process_participant \/ process_endpoint \/ clear_inactive_entities
         \/ \E t \in 1 .. MaxTime + 1 : clear_statistics_data(t)
<1>1. CASE UNCHANGED msvars
  BY <1>1 DEF msvars
<1>2. CASE MSNext
  BY <1>2 DEF MSNext, Announce, Dispose, Report, InsertProxy, EnqueueParticipant, EnqueuePlaceholder,
              EnqueueEndpoint, update_graph_on_updated_entity, process_invalid, Drop, ProcessGraph,
              Discovered
<1>. QED BY <1>1, <1>2

LEMMA GraphChanges ==
  ASSUME [MSNext]_msvars
  PROVE  \/ UNCHANGED nodes
         \/ UpdateInfo \/ update_graph_on_updated_entity
         \/ process_participant \/ ProcessGraph \/ clear_inactive_entities
<1>1. CASE UNCHANGED msvars
  BY <1>1 DEF msvars
<1>2. CASE MSNext
  BY <1>2 DEF MSNext, Announce, Dispose, Report, InsertProxy, EnqueueParticipant, EnqueuePlaceholder,
              EnqueueEndpoint, Undiscover, insert, process_endpoint, process_invalid, Drop,
              Discovered, clear_statistics_data
<1>. QED BY <1>1, <1>2

LEMMA ConsumerChanges ==
  ASSUME [MSNext]_msvars
  PROVE  \/ UNCHANGED consumer
         \/ \E x \in Entities : Announce(x, x) \/ Announce(x, NoGuid) \/ Dispose(x)
         \/ \E e \in Endpoints, k \in StatusKinds, ts \in 1 .. MaxTime, bad \in BOOLEAN :
              Report(e, k, ts, bad)
         \/ InsertProxy \/ UpdateInfo
         \/ EnqueueParticipant \/ EnqueuePlaceholder \/ EnqueueEndpoint
         \/ Undiscover \/ insert \/ update_graph_on_updated_entity
<1>1. CASE UNCHANGED msvars
  BY <1>1 DEF msvars
<1>2. CASE MSNext
  BY <1>2 DEF MSNext, process_participant, process_endpoint, process_invalid, ProcessGraph,
              Discovered, clear_inactive_entities, clear_statistics_data
<1>. QED BY <1>1, <1>2

LEMMA QueueChanges ==
  ASSUME [MSNext]_msvars
  PROVE  \/ UNCHANGED <<queue, due, enqueued, net>>
         \/ EnqueueParticipant \/ EnqueuePlaceholder \/ EnqueueEndpoint
         \/ process_participant \/ process_endpoint \/ process_invalid \/ ProcessGraph
         \/ \E x \in Entities, status \in Statuses : Discovered(x, status)
<1>1. CASE UNCHANGED msvars
  BY <1>1 DEF msvars, consumer
<1>2. CASE MSNext
  BY <1>2 DEF MSNext, Announce, Dispose, Report, InsertProxy, UpdateInfo, Undiscover, insert,
              update_graph_on_updated_entity, clear_inactive_entities, clear_statistics_data,
              consumer
<1>. QED BY <1>1, <1>2

----------------------------------------------------------------------------
(* The types. *)

LEMMA TypeInit == MSInit => MSType
<1>. SUFFICES ASSUME MSInit PROVE MSType
  OBVIOUS
<1>. USE DEF MSInit
<1>1. DatabaseType
  BY DEF DatabaseType, Sources, Levels, Sample, NoSample
<1>2. GraphType
  BY DEF GraphType, GoodGraph
<1>3. ConsumerType
  BY NoTaskIdle DEF ConsumerType
<1>4. QueueType
  BY DEF QueueType
<1>5. OtherType
  BY DEF OtherType
<1>. QED BY <1>1, <1>2, <1>3, <1>4, <1>5 DEF MSType

LEMMA StatusChange ==
  ASSUME DatabaseType, NEW x \in stored, NEW on \in BOOLEAN, change_entity_status(x, on)
  PROVE  active' \subseteq stored /\ active' \subseteq active \cup {x} /\ terminated' \in BOOLEAN
BY DEF DatabaseType, change_entity_status

LEMMA InfoUpdate ==
  ASSUME DatabaseType, NEW p \in Participants, NEW new \in Sources, NEW on,
         update_participant_discovery_info(p, new, on)
  PROVE  /\ source' \in [Entities -> Sources] /\ level' \in [Entities -> Levels]
         /\ source'[p] \in {source[p], new}
         /\ \A x \in Entities \ {p} : source'[x] = source[x] /\ level'[x] = level[x]
         /\ \/ UNCHANGED <<level, nodes>>
            \/ nodes' = Regenerated(stored, on, level')
            \/ UNCHANGED nodes /\ DOMAIN nodes = {}
BY DEF DatabaseType, update_participant_discovery_info, Entities, Levels

(* The head of the queue. *)
LEMMA HeadItem ==
  ASSUME QueueType, queue # <<>>
  PROVE  Head(queue) \in Item /\ Head(queue) = queue[1] /\ Len(queue) >= 1
BY HeadTailProperties, EmptySeq, LenProperties DEF QueueType

LEMMA DatabaseTypeStep ==
  ASSUME MSType, [MSNext]_msvars
  PROVE  DatabaseType'
<1>. USE DEF MSType
<1>1. CASE UNCHANGED database
  BY <1>1 DEF DatabaseType, database
<1>2. CASE UpdateInfo
  <2>1. task \in ProxyTask /\ task.guid = task.entity /\ task.guid \in Participants
    BY <1>2, TaskShape, MonitorServiceAssumption DEF UpdateInfo, At, ConsumerType, Entities
  <2>2. source' \in [Entities -> Sources] /\ level' \in [Entities -> Levels]
    BY <1>2, <2>1, InfoUpdate DEF UpdateInfo, DatabaseType, Sources
  <2>. QED BY <1>2, <2>2 DEF UpdateInfo, DatabaseType
<1>3. CASE Undiscover
  <2>1. UNCHANGED active \/ (task.entity \in stored /\ change_entity_status(task.entity, FALSE))
    BY <1>3 DEF Undiscover, Gone
  <2>2. active' \subseteq stored
    BY <2>1, StatusChange DEF DatabaseType
  <2>. QED BY <1>3, <2>2 DEF Undiscover, DatabaseType
<1>4. CASE insert
  <2>1. task \in StatusTask
    BY <1>4, TaskShape DEF insert, At
  <2>. DEFINE e == task.entity
              k == task.kind
              newest == [last[e] EXCEPT ![k] = [ts |-> task.ts, bad |-> task.bad]]
  <2>2. e \in Endpoints /\ e \in Entities /\ k \in StatusKinds
        /\ [ts |-> task.ts, bad |-> task.bad] \in Sample
    BY <2>1 DEF StatusTask, Sample, Entities
  <2>3. newest \in [StatusKinds -> Sample] /\ update_entity_status(newest) \in Levels
    BY <2>2 DEF DatabaseType, update_entity_status, Levels
  <2>4. /\ last' \in {last, [last EXCEPT ![e] = newest]}
        /\ level' \in {level, [level EXCEPT ![e] = update_entity_status(newest)]}
        /\ UNCHANGED <<stored, active, orphans, born, source>>
    BY <1>4 DEF insert
  <2>. HIDE DEF newest, e
  <2>. QED BY <2>2, <2>3, <2>4 DEF DatabaseType
<1>5. CASE process_participant
  <2>. DEFINE info == Head(queue)
              p == info.entity
  <2>1. info \in Item /\ p \in Participants /\ p \in Entities /\ info.source \in Sources
    BY <1>5, HeadItem DEF process_participant, Consumes, Item, Entities
  <2>2. CASE /\ p \in stored /\ change_entity_status(p, info.status # "UNDISCOVERY")
             /\ IF info.status = "UPDATE"
                THEN update_participant_discovery_info(p, info.source, active')
                ELSE UNCHANGED <<source, level, nodes>>
             /\ UNCHANGED <<stored, orphans, born, last, queue>>
    <3>1. active' \subseteq stored
      BY <2>2, StatusChange
    <3>2. source' \in [Entities -> Sources] /\ level' \in [Entities -> Levels]
      BY <2>1, <2>2, InfoUpdate DEF DatabaseType
    <3>. QED BY <2>2, <3>1, <3>2 DEF DatabaseType
  <2>3. CASE Create(p, info.source) /\ UNCHANGED <<orphans, last>>
    BY <2>1, <2>3 DEF Create, DatabaseType, Levels
  <2>4. CASE Drop
    BY <2>4 DEF Drop, DatabaseType, database
  <2>. QED BY <1>5, <2>2, <2>3, <2>4 DEF process_participant
<1>6. CASE process_endpoint
  <2>. DEFINE info == Head(queue)
              e == info.entity
  <2>1. info \in Item /\ e \in Endpoints /\ e \in Entities /\ info.source \in Sources
    BY <1>6, HeadItem DEF process_endpoint, Consumes, Item, Entities
  <2>2. CASE /\ e \in stored /\ change_entity_status(e, info.status # "UNDISCOVERY")
             /\ UNCHANGED <<stored, orphans, born, source, level, last, nodes>>
    <3>1. active' \subseteq stored
      BY <2>2, StatusChange
    <3>. QED BY <2>2, <3>1 DEF DatabaseType
  <2>3. CASE Create(e, info.source) /\ UNCHANGED <<orphans, last>>
    BY <2>1, <2>3 DEF Create, DatabaseType, Levels
  <2>4. CASE Drop
    BY <2>4 DEF Drop, DatabaseType, database
  <2>. QED BY <1>6, <2>2, <2>3, <2>4 DEF process_endpoint
<1>7. CASE clear_inactive_entities
  <2>1. last' \in [Endpoints -> [StatusKinds -> Sample]]
    BY <1>7 DEF clear_inactive_entities, DatabaseType, NoSample, Sample
  <2>. QED BY <1>7, <2>1 DEF clear_inactive_entities, DatabaseType
<1>8. ASSUME NEW t \in 1 .. MaxTime + 1, clear_statistics_data(t) PROVE DatabaseType'
  <2>1. last' \in [Endpoints -> [StatusKinds -> Sample]]
    BY <1>8 DEF clear_statistics_data, DatabaseType, NoSample, Sample
  <2>. QED BY <1>8, <2>1 DEF clear_statistics_data, DatabaseType
<1>. QED BY <1>1, <1>2, <1>3, <1>4, <1>5, <1>6, <1>7, <1>8, DatabaseChanges

LEMMA GraphGrows ==
  ASSUME GoodGraph(nodes, stored), UNCHANGED nodes, stored \subseteq stored'
  PROVE  GraphType'
BY DEF GraphType, GoodGraph

LEMMA GraphTypeStep ==
  ASSUME MSType, [MSNext]_msvars
  PROVE  GraphType'
<1>0. DatabaseType' /\ DatabaseType /\ GoodGraph(nodes, stored) /\ stored \subseteq Entities
      /\ level \in [Entities -> Levels]
  BY DatabaseTypeStep DEF MSType, GraphType, DatabaseType
<1>1. CASE UNCHANGED nodes /\ stored \subseteq stored'
  BY <1>0, <1>1, GraphGrows
<1>2. CASE UpdateInfo
  <2>1. task \in ProxyTask /\ task.guid = task.entity /\ task.guid \in Participants
    BY <1>2, TaskShape, MonitorServiceAssumption DEF UpdateInfo, At, MSType, ConsumerType, Entities
  <2>2. CASE UNCHANGED nodes
    BY <1>0, <1>2, <2>2, GraphGrows DEF UpdateInfo
  <2>3. CASE nodes' = Regenerated(stored, active, level')
    <3>1. level' \in [Entities -> Levels]
      BY <1>0 DEF DatabaseType
    <3>2. GoodGraph(nodes', stored)
      BY <1>0, <2>3, <3>1, RegeneratedGraph
    <3>. QED BY <1>2, <3>2 DEF GraphType, GoodGraph, UpdateInfo
  <2>. QED BY <1>0, <1>2, <2>1, <2>2, <2>3, InfoUpdate DEF UpdateInfo, Sources
<1>3. CASE update_graph_on_updated_entity
  <2>1. GoodGraph(nodes', stored)
    <3>1. task.entity \in Entities
      BY <1>3, TaskShape DEF update_graph_on_updated_entity, At, MSType
    <3>. QED BY <1>0, <1>3, <3>1, ParticipantGraph, EndpointGraph
         DEF update_graph_on_updated_entity, Gone, Entities
  <2>. QED BY <1>3, <2>1 DEF GraphType, GoodGraph, update_graph_on_updated_entity, database
<1>4. CASE process_participant
  <2>. DEFINE info == Head(queue)
              p == info.entity
  <2>1. info \in Item /\ p \in Participants /\ info.source \in Sources
    BY <1>4, HeadItem DEF process_participant, Consumes, Item, MSType
  <2>2. CASE UNCHANGED nodes /\ stored \subseteq stored'
    BY <1>1, <2>2
  <2>3. CASE UNCHANGED stored /\ update_participant_discovery_info(p, info.source, active')
    <3>1. CASE UNCHANGED nodes
      BY <1>1, <2>3, <3>1
    <3>2. CASE nodes' = Regenerated(stored, active', level')
      <4>1. level' \in [Entities -> Levels]
        BY <1>0 DEF DatabaseType
      <4>2. GoodGraph(nodes', stored)
        BY <1>0, <3>2, <4>1, RegeneratedGraph
      <4>. QED BY <2>3, <4>2 DEF GraphType, GoodGraph
    <3>. QED BY <1>0, <2>1, <2>3, <3>1, <3>2, InfoUpdate
  <2>. QED BY <1>4, <2>2, <2>3 DEF process_participant, Create, Drop, database
<1>5. CASE ProcessGraph
  <2>1. GoodGraph(nodes', stored)
    BY <1>0, <1>5, ParticipantGraph, EndpointGraph DEF ProcessGraph, Entities, MSType, QueueType
  <2>. QED BY <1>5, <2>1 DEF GraphType, GoodGraph, ProcessGraph, database
<1>6. CASE clear_inactive_entities
  <2>1. stored' \in SUBSET Entities /\ nodes' = Regenerated(stored', active, level)
    BY <1>0, <1>6 DEF clear_inactive_entities
  <2>2. GoodGraph(nodes', stored')
    BY <1>0, <2>1, RegeneratedGraph
  <2>. QED BY <2>2 DEF GraphType, GoodGraph
<1>7. \/ stored \subseteq stored' \/ clear_inactive_entities
  BY DatabaseChanges DEF database, UpdateInfo, Undiscover, insert, process_participant,
                         process_endpoint, clear_statistics_data, Create, Drop
<1>. QED BY <1>1, <1>2, <1>3, <1>4, <1>5, <1>6, <1>7, GraphChanges

(* The status that the graph shows. *)
LEMMA ShownStep ==
  ASSUME MSType, ShownInv, [MSNext]_msvars
  PROVE  ShownInv'
<1>0. /\ DatabaseType' /\ DatabaseType /\ ConsumerType /\ GoodGraph(nodes, stored)
      /\ stored \subseteq Entities /\ level \in [Entities -> Levels]
      /\ level' \in [Entities -> Levels]
  BY DatabaseTypeStep DEF MSType, GraphType, DatabaseType
<1>1. ASSUME UNCHANGED <<nodes, orphans, task>>, stored \subseteq stored',
             \A x \in DOMAIN nodes : level'[x] = level[x] /\ born'[x] = born[x]
      PROVE  ShownInv'
  BY <1>0, <1>1 DEF ShownInv, Gone, GoodGraph
<1>2. ASSUME UNCHANGED <<nodes, orphans, level>>, task.at # "graph"
      PROVE  ShownInv'
  BY <1>2 DEF ShownInv
<1>3. ASSUME \A x \in DOMAIN nodes' : nodes'[x] = level'[x]
      PROVE  ShownInv'
  BY <1>3 DEF ShownInv
<1>4. CASE UNCHANGED msvars
  BY <1>1, <1>4 DEF msvars, database, consumer
<1>5. ASSUME NEW x \in Entities, Announce(x, x) \/ Announce(x, NoGuid) \/ Dispose(x)
      PROVE  ShownInv'
  BY <1>2, <1>5 DEF Announce, Dispose, At, database
<1>6. ASSUME NEW e, NEW k, NEW ts, NEW bad, Report(e, k, ts, bad) PROVE ShownInv'
  BY <1>2, <1>6 DEF Report, At, database
<1>7. CASE InsertProxy \/ EnqueueParticipant \/ EnqueuePlaceholder \/ EnqueueEndpoint \/ Undiscover
  BY <1>2, <1>7 DEF InsertProxy, EnqueueParticipant, EnqueuePlaceholder, EnqueueEndpoint, Undiscover,
                    At, database
<1>8. CASE UpdateInfo
  <2>1. task \in ProxyTask /\ task.guid = task.entity /\ task.guid \in Participants
    BY <1>0, <1>8, TaskShape, MonitorServiceAssumption DEF UpdateInfo, At, ConsumerType, Entities
  <2>2. CASE UNCHANGED <<level, nodes>>
    BY <1>2, <1>8, <2>2 DEF UpdateInfo, At
  <2>3. CASE nodes' = Regenerated(stored, active, level')
    BY <1>0, <1>3, <2>3, RegeneratedGraph
  <2>4. CASE UNCHANGED nodes /\ DOMAIN nodes = {}
    BY <1>3, <2>4
  <2>. QED BY <1>0, <1>8, <2>1, <2>2, <2>3, <2>4, InfoUpdate DEF UpdateInfo, Sources
<1>9. CASE insert
  <2>1. task \in StatusTask /\ task.at = "insert"
    BY <1>0, <1>9, TaskShape DEF insert, At
  <2>. DEFINE e == task.entity
  <2>2. CASE UNCHANGED level
    BY <1>2, <1>9, <2>1, <2>2 DEF insert
  <2>3. CASE /\ ~Gone /\ task' = [task EXCEPT !.at = "graph"]
             /\ \A x \in Entities \ {e} : level'[x] = level[x]
    <3>1. task'.at = "graph" /\ task'.entity = e /\ ~Gone'
      BY <1>9, <2>1, <2>3, StatusGraph DEF insert, Gone
    <3>2. \A x \in DOMAIN nodes \ orphans : nodes[x] = level[x]
      BY <2>1 DEF ShownInv
    <3>3. UNCHANGED <<nodes, orphans>>
      BY <1>9 DEF insert
    <3>. QED BY <1>0, <2>3, <3>1, <3>2, <3>3 DEF ShownInv, GoodGraph
  <2>. DEFINE status == update_entity_status([last[e] EXCEPT ![task.kind] =
                                                [ts |-> task.ts, bad |-> task.bad]])
  <2>4. \/ UNCHANGED level
        \/ /\ ~Gone /\ level' = [level EXCEPT ![e] = status]
           /\ task' = IF level[e] # status THEN [task EXCEPT !.at = "graph"] ELSE NoTask
    BY <1>9 DEF insert, Updated
  <2>. HIDE DEF status
  <2>5. ASSUME level' = [level EXCEPT ![e] = status], level[e] = status PROVE level' = level
    BY <1>0, <2>5
  <2>. QED BY <1>0, <2>2, <2>3, <2>4, <2>5
<1>10. CASE update_graph_on_updated_entity
  <2>. DEFINE x == task.entity
  <2>1. x \in Entities /\ UNCHANGED <<level, orphans>>
    BY <1>0, <1>10, TaskShape DEF update_graph_on_updated_entity, At, database
  <2>2. CASE Gone \/ x \in orphans
    BY <1>10, <2>1, <2>2 DEF update_graph_on_updated_entity, ShownInv
  <2>3. CASE ~Gone /\ x \notin orphans
    <3>1. \A y \in DOMAIN nodes' : \/ y # x /\ y \in DOMAIN nodes /\ nodes'[y] = nodes[y]
                                   \/ y = x /\ nodes'[y] = level[x]
      BY <1>10, <2>1, <2>3, ParticipantGraph, EndpointGraph
         DEF update_graph_on_updated_entity, Gone, Entities
    <3>. QED BY <2>1, <3>1 DEF ShownInv
  <2>. QED BY <2>2, <2>3
<1>11. CASE process_participant
  <2>. DEFINE info == Head(queue)
              p == info.entity
  <2>1. /\ info \in Item /\ p \in Participants /\ p \in Entities /\ info.source \in Sources
        /\ UNCHANGED task
    BY <1>11, HeadItem DEF process_participant, Consumes, Item, MSType, Entities, consumer
  <2>2. CASE UNCHANGED <<stored, orphans, born, source, level, nodes>>
    BY <1>1, <2>1, <2>2
  <2>3. CASE /\ UNCHANGED <<stored, orphans, born>>
             /\ update_participant_discovery_info(p, info.source, active')
    <3>1. CASE UNCHANGED <<level, nodes>>
      BY <1>1, <2>1, <2>3, <3>1
    <3>2. CASE nodes' = Regenerated(stored, active', level')
      BY <1>0, <1>3, <3>2, RegeneratedGraph
    <3>3. CASE UNCHANGED nodes /\ DOMAIN nodes = {}
      BY <1>3, <3>3
    <3>. QED BY <1>0, <2>1, <2>3, <3>1, <3>2, <3>3, InfoUpdate
  <2>4. CASE p \notin stored /\ Create(p, info.source) /\ UNCHANGED <<orphans, nodes>>
    BY <1>0, <1>1, <2>1, <2>4 DEF Create, GoodGraph, DatabaseType
  <2>. QED BY <1>11, <2>2, <2>3, <2>4 DEF process_participant, Drop, database
<1>12. CASE process_endpoint
  <2>. DEFINE info == Head(queue)
              e == info.entity
  <2>1. info \in Item /\ e \in Entities /\ UNCHANGED task
    BY <1>12, HeadItem DEF process_endpoint, Consumes, Item, MSType, Entities, consumer
  <2>2. CASE UNCHANGED <<stored, orphans, born, level, nodes>>
    BY <1>1, <2>1, <2>2
  <2>3. CASE e \notin stored /\ Create(e, info.source) /\ UNCHANGED <<orphans, nodes>>
    BY <1>0, <1>1, <2>1, <2>3 DEF Create, GoodGraph, DatabaseType
  <2>. QED BY <1>12, <2>2, <2>3 DEF process_endpoint, Drop, database
<1>13. CASE process_invalid
  BY <1>1, <1>13 DEF process_invalid, Drop, database, consumer
<1>14. CASE ProcessGraph
  <2>1. UNCHANGED <<level, orphans, task, stored, born>>
    BY <1>14 DEF ProcessGraph, database, consumer
  <2>2. CASE UNCHANGED nodes
    BY <1>1, <2>1, <2>2
  <2>3. CASE nodes' # nodes
    <3>1. \A y \in DOMAIN nodes' : \/ y # due /\ y \in DOMAIN nodes /\ nodes'[y] = nodes[y]
                                   \/ y = due /\ nodes'[y] = level[due]
      BY <1>14, <2>3, ParticipantGraph, EndpointGraph DEF ProcessGraph, Entities, MSType, QueueType
    <3>. QED BY <2>1, <3>1 DEF ShownInv, Gone
  <2>. QED BY <2>2, <2>3
<1>15. ASSUME NEW x, NEW status, Discovered(x, status) PROVE ShownInv'
  BY <1>1, <1>15 DEF Discovered, database, consumer
<1>16. CASE clear_inactive_entities
  <2>1. /\ stored' \in SUBSET Entities /\ nodes' = Regenerated(stored', active, level)
        /\ UNCHANGED level
    BY <1>0, <1>16 DEF clear_inactive_entities
  <2>. QED BY <1>0, <1>3, <2>1, RegeneratedGraph
<1>17. ASSUME NEW t, clear_statistics_data(t) PROVE ShownInv'
  BY <1>1, <1>17 DEF clear_statistics_data, consumer
<1>. QED BY <1>4, <1>5, <1>6, <1>7, <1>8, <1>9, <1>10, <1>11, <1>12, <1>13, <1>14, <1>15, <1>16, <1>17
     DEF MSNext

LEMMA ConsumerTypeStep ==
  ASSUME MSType, [MSNext]_msvars
  PROVE  ConsumerType'
<1>0. ConsumerType /\ DatabaseType
  BY DEF MSType
<1>. DEFINE HandleType == /\ DOMAIN handles \subseteq Entities
                          /\ handles \in [DOMAIN handles -> Entities \cup {NoGuid}]
<1>1. ASSUME NEW x \in Entities, NEW v \in Entities \cup {NoGuid}, handles' = With(handles, x, v)
      PROVE  HandleType'
  BY <1>0, <1>1 DEF ConsumerType, With
<1>2. ASSUME NEW S, handles' = Without(handles, S)
      PROVE  HandleType'
  BY <1>0, <1>2 DEF ConsumerType, Without, Restrict
<1>3. ASSUME HandleType', enqueued' \subseteq Participants \cup {NoGuid}, task' = NoTask
      PROVE  ConsumerType'
  BY <1>3, NoTaskIdle DEF ConsumerType
<1>4. ASSUME HandleType', enqueued' \subseteq Participants \cup {NoGuid},
             task' \in DisposalTask \cup StatusTask
      PROVE  ConsumerType'
  BY <1>4, OneShape DEF ConsumerType
<1>5. ASSUME HandleType', enqueued' \subseteq Participants \cup {NoGuid}, task' \in ProxyTask,
             task'.guid \in {task'.entity, NoGuid},
             task'.at = "info" => task'.guid \in Participants,
             task'.at = "enqueue_endpoint" =>
               task'.guid \notin Participants /\ ParticipantOf(task'.guid) \in enqueued'
      PROVE  ConsumerType'
  BY <1>5 DEF ConsumerType, ParticipantOf
<1>6. UNCHANGED handles => HandleType'
  BY <1>0 DEF ConsumerType
<1>7. enqueued \subseteq Participants \cup {NoGuid}
  BY <1>0 DEF ConsumerType
<1>. HIDE DEF HandleType
<1>8. CASE UNCHANGED consumer
  BY <1>0, <1>8 DEF ConsumerType, consumer, ParticipantOf
<1>9. ASSUME NEW x \in Entities, NEW guid \in {x, NoGuid}, Announce(x, guid) PROVE ConsumerType'
  <2>1. task' \in ProxyTask /\ task'.entity = x /\ task'.guid = guid /\ task'.at \in {"insert_proxy", "enqueue"}
    BY <1>0, <1>9 DEF Announce, ProxyTask, DatabaseType
  <2>2. UNCHANGED <<handles, enqueued>>
    BY <1>9 DEF Announce
  <2>. QED BY <1>5, <1>6, <1>7, <2>1, <2>2
<1>10. ASSUME NEW x \in Entities, Dispose(x) PROVE ConsumerType'
  <2>1. CASE x \in DOMAIN handles /\ handles[x] \in stored
    <3>1. task' \in DisposalTask /\ UNCHANGED <<handles, enqueued>>
      BY <1>0, <1>10, <2>1 DEF Dispose, DisposalTask, DatabaseType
    <3>. QED BY <1>4, <1>6, <1>7, <3>1
  <2>2. CASE ~(x \in DOMAIN handles /\ handles[x] \in stored)
    <3>1. handles' = Without(handles, {x}) /\ UNCHANGED <<enqueued, task>> /\ task = NoTask
      BY <1>0, <1>10, <2>2, TaskShape DEF Dispose, At
    <3>. QED BY <1>2, <1>3, <1>7, <3>1
  <2>. QED BY <2>1, <2>2
<1>11. ASSUME NEW e \in Endpoints, NEW k \in StatusKinds, NEW ts \in 1 .. MaxTime, NEW bad \in BOOLEAN,
              Report(e, k, ts, bad)
       PROVE  ConsumerType'
  <2>1. task' \in StatusTask /\ UNCHANGED <<handles, enqueued>>
    BY <1>0, <1>11 DEF Report, StatusTask, DatabaseType, Entities
  <2>. QED BY <1>4, <1>6, <1>7, <2>1
<1>12. CASE InsertProxy
  <2>1. task \in ProxyTask /\ UNCHANGED <<handles, enqueued>>
    BY <1>0, <1>12, TaskShape DEF InsertProxy, At
  <2>2. CASE task' = NoTask
    BY <1>3, <1>6, <1>7, <2>1, <2>2
  <2>3. CASE task' = [task EXCEPT !.at = "enqueue"]
    BY <1>0, <1>5, <1>6, <1>7, <2>1, <2>3, ProxyGoto DEF ConsumerType
  <2>4. CASE task' = [task EXCEPT !.at = "info"] /\ task.guid \in Participants
    BY <1>0, <1>5, <1>6, <1>7, <2>1, <2>4, ProxyGoto DEF ConsumerType
  <2>. QED BY <1>12, <2>2, <2>3, <2>4 DEF InsertProxy
<1>13. CASE UpdateInfo
  <2>1. task \in ProxyTask /\ UNCHANGED enqueued /\ task.entity \in Entities
        /\ task.guid \in Entities \cup {NoGuid}
    BY <1>0, <1>13, TaskShape DEF UpdateInfo, At, ProxyTask
  <2>2. CASE task' = [task EXCEPT !.at = "enqueue"] /\ UNCHANGED handles
    BY <1>0, <1>5, <1>6, <1>7, <2>1, <2>2, ProxyGoto DEF ConsumerType
  <2>3. CASE task' = NoTask /\ handles' = With(handles, task.entity, task.guid)
    BY <1>1, <1>3, <1>7, <2>1, <2>3
  <2>. QED BY <1>13, <2>2, <2>3 DEF UpdateInfo
<1>14. CASE EnqueueParticipant \/ EnqueueEndpoint
  <2>1. task \in ProxyTask /\ task.entity \in Entities /\ task.guid \in Entities \cup {NoGuid}
    BY <1>0, <1>14, TaskShape DEF EnqueueParticipant, EnqueueEndpoint, At, ProxyTask
  <2>2. /\ handles' = With(handles, task.entity, task.guid) /\ task' = NoTask
        /\ enqueued' \subseteq Participants \cup {NoGuid}
    BY <1>7, <1>14 DEF EnqueueParticipant, EnqueueEndpoint, Handle
  <2>. QED BY <1>1, <1>3, <2>1, <2>2
<1>15. CASE EnqueuePlaceholder
  <2>1. task \in ProxyTask /\ task.entity \in Entities /\ task.guid \in {task.entity, NoGuid}
        /\ task.guid \notin Participants
    BY <1>0, <1>15, TaskShape DEF EnqueuePlaceholder, At, ProxyTask, ConsumerType
  <2>2. ParticipantOf(task.guid) \in Participants \cup {NoGuid}
    BY <2>1, MonitorServiceAssumption DEF ParticipantOf, Entities
  <2>3. /\ handles' = With(handles, task.entity, ParticipantOf(task.guid))
        /\ enqueued' = enqueued \cup {ParticipantOf(task.guid)}
        /\ task' = [task EXCEPT !.at = "enqueue_endpoint"]
    BY <1>15 DEF EnqueuePlaceholder, Handle
  <2>4. /\ task' \in ProxyTask /\ task'.entity = task.entity /\ task'.guid = task.guid
        /\ task'.at = "enqueue_endpoint"
    BY <2>1, <2>3, ProxyGoto
  <2>5. HandleType'
    BY <1>1, <2>1, <2>2, <2>3 DEF Entities
  <2>6. enqueued' \subseteq Participants \cup {NoGuid}
    BY <1>7, <2>2, <2>3
  <2>. QED BY <1>5, <2>1, <2>3, <2>4, <2>5, <2>6
<1>16. CASE Undiscover
  <2>1. task \in DisposalTask /\ UNCHANGED enqueued /\ handles' = Without(handles, {task.guid})
    BY <1>0, <1>16, TaskShape DEF Undiscover, At
  <2>2. task' = NoTask \/ task' \in DisposalTask
    BY <1>16, <2>1, DisposalGraph DEF Undiscover
  <2>. QED BY <1>2, <1>3, <1>4, <1>7, <2>1, <2>2
<1>17. CASE insert
  <2>1. task \in StatusTask /\ UNCHANGED <<handles, enqueued>>
    BY <1>0, <1>17, TaskShape DEF insert, At
  <2>2. task' = NoTask \/ task' \in StatusTask
    BY <1>17, <2>1, StatusGraph DEF insert
  <2>. QED BY <1>3, <1>4, <1>6, <1>7, <2>1, <2>2
<1>18. CASE update_graph_on_updated_entity
  BY <1>3, <1>6, <1>7, <1>18 DEF update_graph_on_updated_entity
<1>. QED BY <1>8, <1>9, <1>10, <1>11, <1>12, <1>13, <1>14, <1>15, <1>16, <1>17, <1>18, ConsumerChanges

(* The entity queue. *)
LEMMA Pushed ==
  ASSUME queue \in Seq(Item), NEW item \in Item, queue' = Append(queue, item)
  PROVE  /\ queue' \in Seq(Item) /\ Len(queue') = Len(queue) + 1 /\ Len(queue) \in Nat
         /\ queue'[Len(queue) + 1] = item
         /\ \A i \in 1 .. Len(queue) : queue'[i] = queue[i]
         /\ queue' # <<>>
BY AppendProperties, LenProperties

LEMMA Popped ==
  ASSUME queue \in Seq(Item), queue # <<>>, queue' = Tail(queue)
  PROVE  /\ queue' \in Seq(Item) /\ Len(queue') = Len(queue) - 1 /\ Len(queue) \in Nat
         /\ \A i \in 1 .. Len(queue') : queue'[i] = queue[i + 1]
BY HeadTailProperties, LenProperties

LEMMA ItemType ==
  ASSUME NEW x \in Entities \cup {NoGuid}, NEW kind \in {"PARTICIPANT", "ENDPOINT", "INVALID"},
         NEW status \in Statuses, NEW from \in Sources
  PROVE  Info(x, kind, status, from) \in Item
BY DEF Info, Item

(* Every push of an item, whose discovery says what its source says. *)
LEMMA Pushes ==
  ASSUME MSType,
         \/ EnqueueParticipant \/ EnqueuePlaceholder \/ EnqueueEndpoint
         \/ \E x \in Entities, status \in Statuses : Discovered(x, status)
  PROVE  /\ UNCHANGED <<due, stored, erased>>
         /\ \E item \in Item :
              /\ queue' = Append(queue, item)
              /\ item.kind = "ENDPOINT" => item.entity \in Endpoints
<1>. USE DEF MSType
<1>1. CASE EnqueueParticipant
  <2>1. task.guid \in Participants /\ task.guid \in Entities
    BY <1>1 DEF EnqueueParticipant, Entities
  <2>. DEFINE it == Info(task.guid, "PARTICIPANT",
                         IF task.guid \in enqueued THEN "UPDATE" ELSE "DISCOVERY", "PROXY")
  <2>2. it \in Item /\ it.kind = "PARTICIPANT"
    BY <2>1, ItemType DEF Statuses, Sources, Info
  <2>3. queue' = Append(queue, it)
    BY <1>1 DEF EnqueueParticipant
  <2>. QED BY <1>1, <2>2, <2>3 DEF EnqueueParticipant, database
<1>2. CASE EnqueuePlaceholder
  <2>1. ParticipantOf(task.guid) \in Entities \cup {NoGuid}
    BY <1>2, TaskShape, MonitorServiceAssumption
       DEF EnqueuePlaceholder, At, ProxyTask, ParticipantOf, Entities
  <2>. DEFINE it == Placeholder(ParticipantOf(task.guid))
  <2>2. it \in Item /\ it.kind = "PARTICIPANT"
    BY <2>1, ItemType DEF Statuses, Sources, Info, Placeholder
  <2>3. queue' = Append(queue, it)
    BY <1>2 DEF EnqueuePlaceholder
  <2>. QED BY <1>2, <2>2, <2>3 DEF EnqueuePlaceholder, database, history
<1>3. CASE EnqueueEndpoint
  <2>1. task.guid \in Entities \cup {NoGuid}
    BY <1>3, TaskShape DEF EnqueueEndpoint, At, ProxyTask
  <2>. DEFINE it == Info(task.guid, KindOf(task.guid), "DISCOVERY",
                         IF task.guid = NoGuid THEN "UNKNOWN" ELSE "PROXY")
  <2>2. it \in Item /\ (it.kind = "ENDPOINT" => it.entity \in Endpoints)
    BY <2>1, ItemType DEF Statuses, Sources, Info, KindOf
  <2>3. queue' = Append(queue, it)
    BY <1>3 DEF EnqueueEndpoint
  <2>. QED BY <1>3, <2>2, <2>3 DEF EnqueueEndpoint, database
<1>4. ASSUME NEW x \in Entities, NEW status \in Statuses, Discovered(x, status)
      PROVE  /\ UNCHANGED <<due, stored, erased>>
             /\ \E item \in Item :
                  /\ queue' = Append(queue, item)
                  /\ item.kind = "ENDPOINT" => item.entity \in Endpoints
  <2>. DEFINE it == Info(x, KindOf(x), status, "DISCOVERY")
  <2>2. it \in Item /\ (it.kind = "ENDPOINT" => it.entity \in Endpoints)
    BY <1>4, ItemType DEF Statuses, Sources, Info, KindOf
  <2>3. queue' = Append(queue, it)
    BY <1>4 DEF Discovered
  <2>. QED BY <1>4, <2>2, <2>3 DEF Discovered, database
<1>. QED BY <1>1, <1>2, <1>3, <1>4

(* Nothing that was stored is unknown. *)
LEMMA KnownGrows ==
  ASSUME [MSNext]_msvars
  PROVE  stored \cup erased \subseteq stored' \cup erased'
<1>1. CASE UNCHANGED <<stored, erased>>
  BY <1>1
<1>2. CASE process_participant \/ process_endpoint
  BY <1>2 DEF process_participant, process_endpoint, Create, Drop, database, history
<1>3. CASE clear_inactive_entities
  BY <1>3 DEF clear_inactive_entities
<1>4. CASE UNCHANGED msvars
  BY <1>1, <1>4 DEF msvars, database, history
<1>5. CASE MSNext
  BY <1>1, <1>2, <1>3, <1>5
     DEF MSNext, Announce, Dispose, Report, InsertProxy, UpdateInfo, EnqueueParticipant,
         EnqueuePlaceholder, EnqueueEndpoint, Undiscover, insert, update_graph_on_updated_entity,
         process_invalid, ProcessGraph, Discovered, clear_statistics_data, Drop, database, history
<1>. QED BY <1>4, <1>5

LEMMA QueueTypeStep ==
  ASSUME MSType, [MSNext]_msvars
  PROVE  QueueType'
<1>0. QueueType /\ queue \in Seq(Item) /\ Len(queue) \in Nat
  BY LenProperties DEF MSType, QueueType
<1>1. CASE UNCHANGED <<queue, due>>
  BY <1>0, <1>1, KnownGrows DEF QueueType
<1>2. CASE \/ EnqueueParticipant \/ EnqueuePlaceholder \/ EnqueueEndpoint
           \/ \E x \in Entities, status \in Statuses : Discovered(x, status)
  <2>1. PICK item \in Item : /\ queue' = Append(queue, item)
                             /\ item.kind = "ENDPOINT" => item.entity \in Endpoints
    BY <1>2, Pushes
  <2>2. /\ queue' \in Seq(Item) /\ Len(queue') = Len(queue) + 1
        /\ queue'[Len(queue) + 1] = item /\ queue' # <<>>
        /\ \A i \in 1 .. Len(queue) : queue'[i] = queue[i]
    BY <1>0, <2>1, Pushed
  <2>3. UNCHANGED <<due, stored, erased>>
    BY <1>2, Pushes
  <2>4. \A i \in 1 .. Len(queue') : queue'[i].kind = "ENDPOINT" => queue'[i].entity \in Endpoints
    BY <1>0, <2>1, <2>2 DEF QueueType
  <2>5. due # NoGuid => Len(queue) >= 1
    BY <1>0, EmptySeq DEF QueueType
  <2>. QED BY <1>0, <2>2, <2>3, <2>4, <2>5 DEF QueueType
<1>3. ASSUME queue # <<>>, queue' = Tail(queue), due' = NoGuid
      PROVE  QueueType'
  <2>1. /\ queue' \in Seq(Item) /\ Len(queue') = Len(queue) - 1
        /\ \A i \in 1 .. Len(queue') : queue'[i] = queue[i + 1]
    BY <1>0, <1>3, Popped
  <2>. QED BY <1>0, <1>3, <2>1 DEF QueueType
<1>4. CASE process_participant
  <2>1. /\ queue # <<>> /\ due = NoGuid
        /\ Head(queue) \in Item /\ Head(queue) = queue[1] /\ Head(queue).entity \in Entities
    BY <1>0, <1>4, HeadItem DEF process_participant, Consumes, Entities
  <2>2. CASE UNCHANGED queue /\ due' = Head(queue).entity /\ due' \in stored'
    BY <1>0, <2>1, <2>2 DEF QueueType
  <2>3. CASE queue' = Tail(queue) /\ UNCHANGED due
    BY <1>3, <2>1, <2>3
  <2>. QED BY <1>4, <2>2, <2>3 DEF process_participant, Create, Drop
<1>5. CASE process_endpoint
  <2>1. /\ queue # <<>> /\ due = NoGuid
        /\ Head(queue) \in Item /\ Head(queue) = queue[1] /\ Head(queue).entity \in Entities
    BY <1>0, <1>5, HeadItem DEF process_endpoint, Consumes, Entities
  <2>2. CASE UNCHANGED queue /\ due' = Head(queue).entity /\ due' \in stored'
    BY <1>0, <2>1, <2>2 DEF QueueType
  <2>3. CASE queue' = Tail(queue) /\ UNCHANGED due
    BY <1>3, <2>1, <2>3
  <2>. QED BY <1>5, <2>2, <2>3 DEF process_endpoint, Create, Drop
<1>6. CASE process_invalid
  BY <1>3, <1>6 DEF process_invalid, Consumes, Drop
<1>7. CASE ProcessGraph
  BY <1>0, <1>3, <1>7 DEF ProcessGraph, QueueType
<1>. QED BY <1>1, <1>2, <1>4, <1>5, <1>6, <1>7, QueueChanges

LEMMA OtherTypeStep ==
  ASSUME MSType, [MSNext]_msvars
  PROVE  OtherType'
<1>0. OtherType /\ DatabaseType /\ ConsumerType /\ QueueType
  BY DEF MSType
<1>. DEFINE Said == {"nothing", "alive", "gone"}
<1>1. CASE UNCHANGED msvars
  BY <1>0, <1>1 DEF msvars, history, OtherType
<1>2. ASSUME UNCHANGED <<net, terminated, direct, erased, said, reports, overtaken, cleared>>,
             arrivals' \in {arrivals, arrivals + 1}
      PROVE  OtherType'
  BY <1>0, <1>2 DEF OtherType
<1>3. ASSUME UNCHANGED <<net, terminated, direct, erased, reports, cleared>>,
             arrivals' \in {arrivals, arrivals + 1}, NEW x \in Entities, NEW what \in Said,
             said' \in {said, [said EXCEPT ![x] = what]}, overtaken' \in {overtaken, overtaken \cup {x}}
      PROVE  OtherType'
  BY <1>0, <1>3 DEF OtherType
<1>4. ASSUME NEW x \in Entities, NEW guid, Announce(x, guid) PROVE OtherType'
  BY <1>3, <1>4 DEF Announce, Arrives
<1>5. ASSUME NEW x \in Entities, Dispose(x) PROVE OtherType'
  <2>1. said' \in {said, [said EXCEPT ![x] = "gone"]}
    BY <1>5 DEF Dispose, Say
  <2>. QED BY <1>3, <1>5, <2>1 DEF Dispose, Arrives
<1>6. ASSUME NEW e, NEW k, NEW ts, NEW bad, Report(e, k, ts, bad) PROVE OtherType'
  BY <1>2, <1>6 DEF Report, Arrives, history
<1>7. CASE InsertProxy \/ UpdateInfo \/ EnqueueParticipant \/ EnqueueEndpoint
  <2>1. task.entity \in Entities
    BY <1>0, <1>7, TaskShape
       DEF InsertProxy, UpdateInfo, EnqueueParticipant, EnqueueEndpoint, At, ProxyTask
  <2>2. said' \in {said, [said EXCEPT ![task.entity] = "alive"]}
    BY <1>7 DEF InsertProxy, UpdateInfo, EnqueueParticipant, EnqueueEndpoint, Say
  <2>3. UNCHANGED <<net, terminated, direct, erased, reports, arrivals, overtaken, cleared>>
    BY <1>7 DEF InsertProxy, UpdateInfo, EnqueueParticipant, EnqueueEndpoint
  <2>. QED BY <1>3, <2>1, <2>2, <2>3
<1>8. CASE EnqueuePlaceholder
  BY <1>2, <1>8 DEF EnqueuePlaceholder, history
<1>9. ASSUME terminated' \in BOOLEAN,
             UNCHANGED <<net, arrivals, direct, erased, said, reports, overtaken, cleared>>
      PROVE  OtherType'
  BY <1>0, <1>9 DEF OtherType
<1>10. CASE Undiscover
  BY <1>0, <1>9, <1>10 DEF Undiscover, change_entity_status, history, OtherType
<1>11. CASE update_graph_on_updated_entity
  BY <1>9, <1>11 DEF update_graph_on_updated_entity, Gone, history
<1>12. CASE insert
  <2>1. task \in StatusTask
    BY <1>0, <1>12, TaskShape DEF insert, At
  <2>. DEFINE r == [kind |-> task.kind, ts |-> task.ts, bad |-> task.bad]
  <2>2. r \in ReportType /\ task.entity \in Endpoints
    BY <2>1 DEF StatusTask, ReportType
  <2>3. reports' \in {reports, [reports EXCEPT ![task.entity] = @ \cup {r}]}
    BY <1>12 DEF insert
  <2>. HIDE DEF r
  <2>4. reports' \in [Endpoints -> SUBSET ReportType]
    BY <1>0, <2>2, <2>3 DEF OtherType
  <2>. QED BY <1>0, <1>12, <2>4 DEF insert, OtherType
<1>13. CASE process_participant
  <2>1. terminated' \in BOOLEAN
    BY <1>0, <1>13 DEF process_participant, change_entity_status, Drop, OtherType
  <2>. QED BY <1>9, <1>13, <2>1 DEF process_participant, history
<1>14. CASE process_endpoint
  <2>1. terminated' \in BOOLEAN
    BY <1>0, <1>14 DEF process_endpoint, change_entity_status, Drop, OtherType
  <2>. QED BY <1>9, <1>14, <2>1 DEF process_endpoint, history
<1>15. CASE process_invalid \/ ProcessGraph
  BY <1>2, <1>15 DEF process_invalid, ProcessGraph, Drop, history
<1>16. ASSUME NEW x \in Entities, NEW status \in Statuses, Discovered(x, status) PROVE OtherType'
  BY <1>0, <1>16 DEF Discovered, Arrives, OtherType
<1>17. CASE clear_inactive_entities
  <2>1. reports' \in [Endpoints -> SUBSET ReportType]
    BY <1>0, <1>17 DEF clear_inactive_entities, OtherType
  <2>. QED BY <1>0, <1>17, <2>1 DEF clear_inactive_entities, OtherType, DatabaseType
<1>18. ASSUME NEW t, clear_statistics_data(t) PROVE OtherType'
  <2>1. reports' \in [Endpoints -> SUBSET ReportType]
    BY <1>0, <1>18 DEF clear_statistics_data, OtherType
  <2>. QED BY <1>0, <1>18, <2>1 DEF clear_statistics_data, OtherType
<1>. QED BY <1>1, <1>4, <1>5, <1>6, <1>7, <1>8, <1>10, <1>11, <1>12, <1>13, <1>14, <1>15, <1>16, <1>17,
            <1>18
     DEF MSNext

LEMMA TypeStep == MSType /\ [MSNext]_msvars => MSType'
BY DatabaseTypeStep, GraphTypeStep, ConsumerTypeStep, QueueTypeStep, OtherTypeStep DEF MSType

LEMMA TypeInvariant == MSSpec => []MSType
BY TypeInit, TypeStep, PTL DEF MSSpec

(* Types, and: what is active, an orphan or in the graph is stored. *)
THEOREM MonitorServiceTypeCorrect == MSSpec => []MonitorServiceTypeOK
<1>1. MSType => MonitorServiceTypeOK
  BY DEF MSType, DatabaseType, GraphType, GoodGraph, ConsumerType, QueueType, OtherType,
         MonitorServiceTypeOK, Range
<1>. QED BY <1>1, TypeInvariant, PTL

(* The graph shows the status of every entity in it, once the consumer has  *)
(* made its graph update: also when the entity is cleared and announced     *)
(* anew between the two.                                                    *)
THEOREM StatusShown == MSSpec => []GraphShowsStatus
<1>1. MSInit => ShownInv
  BY DEF MSInit, ShownInv
<1>2. MSType /\ ShownInv /\ [MSNext]_msvars => ShownInv'
  BY ShownStep
<1>3. MSType /\ ShownInv => GraphShowsStatus
  BY DEF MSType, GraphType, GoodGraph, ShownInv, GraphShowsStatus
<1>. QED BY <1>1, <1>2, <1>3, TypeInvariant, PTL DEF MSSpec

----------------------------------------------------------------------------
(* The source of what is known of a participant. *)

LEMMA EnabledTrust ==
  ASSUME NEW current \in Sources, NEW new \in Sources, update_enabled(current, new)
  PROVE  Trust(new) >= Trust(current)
BY DEF Sources, update_enabled, Trust

LEMMA TrustSame == \A s \in Sources : Trust(s) >= Trust(s)
BY DEF Sources, Trust

(* Whichever consumer writes, and whatever the other did since it read:     *)
(* what a better source told of a participant is never replaced.            *)
THEOREM DiscoveryPrevails == MSSpec => TrustNeverFalls
<1>. DEFINE A == \A p \in Participants :
                   (p \in stored /\ p \in stored' /\ born'[p] = born[p])
                     => Trust(source'[p]) >= Trust(source[p])
<1>1. ASSUME MSType, [MSNext]_msvars PROVE A
  <2>0. DatabaseType /\ ConsumerType /\ QueueType /\ Participants \subseteq Entities
    BY <1>1 DEF MSType, Entities
  <2>1. CASE UNCHANGED source
    BY <2>0, <2>1, TrustSame DEF DatabaseType
  <2>2. ASSUME NEW q \in Participants, NEW new \in Sources, NEW on,
               update_participant_discovery_info(q, new, on)
        PROVE  A
    <3>1. CASE ~update_enabled(source[q], new)
      BY <2>1, <2>2, <3>1 DEF update_participant_discovery_info
    <3>2. CASE update_enabled(source[q], new)
      <4>1. source' = [source EXCEPT ![q] = new]
        BY <2>2, <3>2 DEF update_participant_discovery_info
      <4>2. ASSUME NEW p \in Participants PROVE Trust(source'[p]) >= Trust(source[p])
        <5>1. source[p] \in Sources /\ source[q] \in Sources
          BY <2>0, <2>2 DEF DatabaseType
        <5>2. CASE p = q
          <6>1. source'[p] = new
            BY <2>0, <4>1, <5>2 DEF DatabaseType
          <6>. QED BY <3>2, <5>1, <5>2, <6>1, EnabledTrust
        <5>3. CASE p # q
          <6>1. source'[p] = source[p]
            BY <2>0, <4>1, <5>3 DEF DatabaseType
          <6>. QED BY <5>1, <6>1, TrustSame
        <5>. QED BY <5>2, <5>3
      <4>. QED BY <4>2
    <3>. QED BY <3>1, <3>2
  <2>3. ASSUME NEW x \in Entities, NEW from, Create(x, from), x \notin stored PROVE A
    <3>1. \A p \in stored : source'[p] = source[p] /\ source[p] \in Sources
      BY <2>0, <2>3 DEF Create, DatabaseType
    <3>. QED BY <3>1, TrustSame
  <2>4. CASE UpdateInfo
    <3>1. task.entity \in Participants
      BY <2>0, <2>4, TaskShape, MonitorServiceAssumption DEF UpdateInfo, At, ConsumerType, Entities
    <3>. QED BY <2>1, <2>2, <2>4, <3>1 DEF UpdateInfo, Sources
  <2>5. CASE process_participant
    <3>1. /\ Head(queue).entity \in Participants /\ Head(queue).entity \in Entities
          /\ Head(queue).source \in Sources
      BY <2>0, <2>5, HeadItem DEF process_participant, Consumes, Item, Entities
    <3>. HIDE DEF A
    <3>. QED BY <2>1, <2>2, <2>3, <2>5, <3>1 DEF process_participant, Drop, database
  <2>6. CASE process_endpoint
    <3>1. Head(queue).entity \in Entities
      BY <2>0, <2>6, HeadItem DEF process_endpoint, Consumes, Item, Entities
    <3>. HIDE DEF A
    <3>. QED BY <2>1, <2>3, <2>6, <3>1 DEF process_endpoint, Drop, database
  <2>7. CASE \/ Undiscover \/ insert \/ clear_inactive_entities
             \/ \E t \in 1 .. MaxTime + 1 : clear_statistics_data(t)
    BY <2>1, <2>7 DEF Undiscover, insert, clear_inactive_entities, clear_statistics_data
  <2>. HIDE DEF A
  <2>. QED BY <1>1, <2>1, <2>4, <2>5, <2>6, <2>7, DatabaseChanges DEF database
<1>2. MSType /\ [MSNext]_msvars => [A]_msvars
  BY <1>1
<1>. QED BY <1>2, TypeInvariant, PTL DEF MSSpec, TrustNeverFalls

----------------------------------------------------------------------------
(* The status levels. *)

LEMMA StatusOfNoSample ==
  update_entity_status([k \in StatusKinds |-> NoSample]) = "OK_STATUS"
BY DEF update_entity_status, NoSample

(* A sample that is accepted or rejected keeps the newest. *)
LEMMA NewestInsert ==
  ASSUME MSType, NewestInv, insert
  PROVE  NewestInv'
<1>0. DatabaseType /\ ConsumerType /\ OtherType
  BY DEF MSType
<1>1. task \in StatusTask
  BY <1>0, TaskShape DEF insert, At
<1>. PICK e \in Endpoints : e = task.entity
  BY <1>1 DEF StatusTask
<1>. PICK k \in StatusKinds : k = task.kind
  BY <1>1 DEF StatusTask
<1>. PICK t \in Nat : t = task.ts /\ t >= 1
  BY <1>1, MonitorServiceAssumption DEF StatusTask
<1>. PICK r : r = [kind |-> k, ts |-> t, bad |-> task.bad]
  OBVIOUS
<1>. PICK newest : newest = [last[e] EXCEPT ![k] = [ts |-> t, bad |-> task.bad]]
  OBVIOUS
<1>2. e \in Entities
  BY DEF Entities
<1>3. /\ last[e] \in [StatusKinds -> Sample] /\ last[e][k].ts \in Nat
      /\ reports[e] \subseteq ReportType /\ \A q \in reports[e] : q.ts \in Nat
  BY <1>0, <1>2, MonitorServiceAssumption DEF DatabaseType, OtherType, Sample, ReportType
<1>4. r.kind = k /\ r.ts = t /\ r.bad = task.bad
  OBVIOUS
<1>5. UNCHANGED stored
  BY DEF insert
<1>6. CASE Gone \/ ~Supported(e, k)
  BY <1>6 DEF insert, NewestInv, KeepsNewest
<1>7. CASE ~Gone /\ Supported(e, k) /\ IsOld(e, k, t)
  <2>1. UNCHANGED <<last, level, cleared>> /\ t <= last[e][k].ts
    BY <1>7 DEF insert, IsOld
  <2>2. CASE UNCHANGED reports
    BY <1>5, <2>1, <2>2 DEF NewestInv, KeepsNewest
  <2>3. CASE /\ ~\E q \in reports[e] : q.kind = k /\ q.ts = t
             /\ reports' = [reports EXCEPT ![e] = @ \cup {r}]
    <3>1. reports'[e] = reports[e] \cup {r} /\ \A f \in Endpoints \ {e} : reports'[f] = reports[f]
      BY <1>0, <1>2, <2>3 DEF OtherType
    <3>2. ASSUME NEW j \in StatusKinds PROVE KeepsNewest(e, j)'
      <4>1. KeepsNewest(e, j)
        BY <1>2 DEF NewestInv
      <4>2. CASE j # k
        BY <1>4, <2>1, <3>1, <4>1, <4>2 DEF KeepsNewest
      <4>3. CASE j = k
        <5>1. last[e][k] # NoSample
          BY <1>2, <2>1 DEF NoSample
        <5>2. PICK q \in reports[e] :
                /\ q = [kind |-> k, ts |-> last[e][k].ts, bad |-> last[e][k].bad]
                /\ \A z \in reports[e] : z.kind = k => z.ts <= q.ts
          BY <4>1, <4>3, <5>1 DEF KeepsNewest
        <5>3. r.ts <= q.ts
          BY <1>4, <2>1, <5>2
        <5>. QED BY <2>1, <3>1, <4>3, <5>2, <5>3 DEF KeepsNewest
      <4>. QED BY <4>2, <4>3
    <3>3. \A q, z \in reports'[e] : q.kind = z.kind /\ q.ts = z.ts => q = z
      BY <1>2, <1>4, <2>3, <3>1 DEF NewestInv
    <3>4. e \in stored
      BY <1>7 DEF Gone
    <3>5. ASSUME NEW f \in Endpoints \ {e}, NEW j \in StatusKinds PROVE KeepsNewest(f, j)'
      BY <2>1, <3>1, <3>5 DEF NewestInv, KeepsNewest
    <3>. QED BY <1>5, <2>1, <3>1, <3>2, <3>3, <3>4, <3>5 DEF NewestInv
  <2>. QED BY <1>7, <2>2, <2>3 DEF insert
<1>8. CASE ~Gone /\ Supported(e, k) /\ ~IsOld(e, k, t)
  <2>1. t > last[e][k].ts
    BY <1>2, <1>3, <1>8 DEF IsOld
  <2>2. \A q \in reports[e] : q.kind = k => q.ts < t
    <3>1. KeepsNewest(e, k)
      BY <1>2 DEF NewestInv
    <3>2. CASE \A q \in reports[e] : q.kind # k
      BY <3>2
    <3>3. ASSUME NEW z \in reports[e],
                 z = [kind |-> k, ts |-> last[e][k].ts, bad |-> last[e][k].bad],
                 \A q \in reports[e] : q.kind = k => q.ts <= z.ts
          PROVE  \A q \in reports[e] : q.kind = k => q.ts < t
      <4>1. z.ts = last[e][k].ts
        BY <3>3
      <4>. QED BY <1>2, <1>3, <2>1, <3>3, <4>1
    <3>. QED BY <3>1, <3>2, <3>3 DEF KeepsNewest
  <2>3. ~\E q \in reports[e] : q.kind = k /\ q.ts = t
    BY <1>2, <1>3, <2>2
  <2>4. /\ last' = [last EXCEPT ![e] = newest]
        /\ level' = [level EXCEPT ![e] = update_entity_status(newest)]
        /\ reports' = [reports EXCEPT ![e] = @ \cup {r}]
        /\ cleared' = cleared \ {e}
    BY <1>8, <2>3 DEF insert
  <2>5. e \in stored
    BY <1>8 DEF Gone
  <2>6. /\ newest[k] = [ts |-> t, bad |-> task.bad]
        /\ \A j \in StatusKinds \ {k} : newest[j] = last[e][j]
    BY <1>2, <1>3
  <2>7. /\ last'[e] = newest /\ level'[e] = update_entity_status(newest)
        /\ reports'[e] = reports[e] \cup {r}
        /\ \A f \in Endpoints \ {e} :
             reports'[f] = reports[f] /\ last'[f] = last[f] /\ level'[f] = level[f]
    BY <1>0, <1>2, <2>4 DEF DatabaseType, OtherType, Entities
  <2>8. ASSUME NEW j \in StatusKinds PROVE KeepsNewest(e, j)'
    <3>1. CASE j # k
      <4>1. KeepsNewest(e, j) /\ last'[e][j] = last[e][j]
        BY <1>2, <2>6, <2>7, <3>1 DEF NewestInv
      <4>. QED BY <1>4, <2>7, <3>1, <4>1 DEF KeepsNewest
    <3>2. CASE j = k
      <4>1. last'[e][k].ts = t /\ last'[e][k].bad = task.bad
        BY <2>6, <2>7
      <4>2. r = [kind |-> k, ts |-> last'[e][k].ts, bad |-> last'[e][k].bad]
        BY <4>1
      <4>3. \A q \in reports'[e] : q.kind = k => q.ts <= r.ts
        BY <1>2, <1>3, <1>4, <2>2, <2>7
      <4>. QED BY <2>7, <3>2, <4>2, <4>3 DEF KeepsNewest
    <3>. QED BY <3>1, <3>2
  <2>9. \A q, z \in reports'[e] : q.kind = z.kind /\ q.ts = z.ts => q = z
    BY <1>2, <1>4, <2>3, <2>7 DEF NewestInv
  <2>10. ASSUME NEW f \in Endpoints \ {e}, NEW j \in StatusKinds PROVE KeepsNewest(f, j)'
    BY <2>7, <2>10 DEF NewestInv, KeepsNewest
  <2>. QED BY <1>5, <2>4, <2>5, <2>7, <2>8, <2>9, <2>10 DEF NewestInv
<1>. QED BY <1>6, <1>7, <1>8

(* Clearing samples leaves the newest of a kind, or none of that kind. *)
LEMMA NewestCleared ==
  ASSUME MSType, NewestInv, NEW t \in Nat, clear_statistics_data(t)
  PROVE  NewestInv'
<1>1. ASSUME NEW e \in Endpoints
      PROVE  /\ reports'[e] = {r \in reports[e] : r.ts >= t}
             /\ \A q : q \in reports'[e] <=> q \in reports[e] /\ q.ts >= t
             /\ last'[e] = [k \in StatusKinds |-> IF last[e][k].ts < t THEN NoSample ELSE last[e][k]]
             /\ e \notin cleared' => e \notin cleared /\ reports'[e] = reports[e]
  BY <1>1 DEF clear_statistics_data
<1>2. ASSUME NEW e \in Endpoints
      PROVE  /\ last[e] \in [StatusKinds -> Sample] /\ \A k \in StatusKinds : last[e][k].ts \in Nat
             /\ \A q \in reports[e] : q.ts \in Nat
  BY <1>2, MonitorServiceAssumption DEF MSType, DatabaseType, OtherType, Sample, ReportType
<1>3. UNCHANGED <<stored, level>>
  BY DEF clear_statistics_data
<1>4. ASSUME NEW e \in Endpoints, NEW k \in StatusKinds
      PROVE  KeepsNewest(e, k)' /\ (reports'[e] = reports[e] => last'[e][k] = last[e][k])
  <2>1. KeepsNewest(e, k)
    BY DEF NewestInv
  <2>2. /\ last'[e][k] = IF last[e][k].ts < t THEN NoSample ELSE last[e][k]
        /\ \A q : q \in reports'[e] <=> q \in reports[e] /\ q.ts >= t
    BY <1>1
  <2>3. CASE last[e][k] = NoSample /\ \A r \in reports[e] : r.kind # k
    BY <1>1, <2>2, <2>3 DEF KeepsNewest
  <2>4. ASSUME NEW r \in reports[e],
               r = [kind |-> k, ts |-> last[e][k].ts, bad |-> last[e][k].bad],
               \A q \in reports[e] : q.kind = k => q.ts <= r.ts
        PROVE  KeepsNewest(e, k)' /\ (reports'[e] = reports[e] => last'[e][k] = last[e][k])
    <3>1. r.ts = last[e][k].ts /\ r.ts \in Nat
      BY <1>2, <2>4
    <3>2. CASE r.ts < t
      <4>1. \A q \in reports'[e] : q.kind # k
        BY <1>2, <2>2, <2>4, <3>1, <3>2
      <4>2. last'[e][k] = NoSample
        BY <2>2, <3>1, <3>2
      <4>3. r.kind = k
        BY <2>4
      <4>. QED BY <4>1, <4>2, <4>3 DEF KeepsNewest
    <3>3. CASE r.ts >= t
      <4>1. last'[e][k] = last[e][k] /\ r \in reports'[e] /\ reports'[e] \subseteq reports[e]
        BY <2>2, <3>1, <3>3
      <4>. QED BY <2>4, <4>1 DEF KeepsNewest
    <3>. QED BY <3>1, <3>2, <3>3
  <2>. QED BY <2>1, <2>3, <2>4 DEF KeepsNewest
<1>5. ASSUME NEW e \in Endpoints
      PROVE  /\ \A q, r \in reports'[e] : q.kind = r.kind /\ q.ts = r.ts => q = r
             /\ e \notin stored' => reports'[e] = {} /\ last'[e] = [k \in StatusKinds |-> NoSample]
             /\ e \in stored' \ cleared' => level'[e] = update_entity_status(last'[e])
  <2>1. \A q, r \in reports'[e] : q.kind = r.kind /\ q.ts = r.ts => q = r
    BY <1>1 DEF NewestInv
  <2>2. ASSUME e \notin stored PROVE reports'[e] = {} /\ last'[e] = [k \in StatusKinds |-> NoSample]
    <3>1. reports[e] = {} /\ \A k \in StatusKinds : last[e][k] = NoSample
      BY <2>2 DEF NewestInv
    <3>. QED BY <1>1, <3>1
  <2>3. ASSUME e \in stored, e \notin cleared' PROVE level'[e] = update_entity_status(last'[e])
    <3>1. e \notin cleared /\ reports'[e] = reports[e]
      BY <1>1, <2>3
    <3>2. \A k \in StatusKinds : last'[e][k] = last[e][k]
      BY <1>4, <3>1
    <3>3. last[e] = [k \in StatusKinds |-> last[e][k]]
      BY <1>2
    <3>4. last'[e] = [k \in StatusKinds |-> last'[e][k]]
      BY <1>1
    <3>5. last'[e] = last[e]
      BY <3>2, <3>3, <3>4
    <3>. QED BY <1>3, <2>3, <3>1, <3>5 DEF NewestInv
  <2>. QED BY <1>3, <2>1, <2>2, <2>3
<1>. QED BY <1>4, <1>5 DEF NewestInv

LEMMA NewestStep ==
  ASSUME MSType, NewestInv, [MSNext]_msvars
  PROVE  NewestInv'
<1>0. DatabaseType /\ ConsumerType /\ QueueType
  BY DEF MSType
<1>1. ASSUME UNCHANGED <<stored, last, reports, cleared>>, \A e \in Endpoints : level'[e] = level[e]
      PROVE  NewestInv'
  BY <1>1 DEF NewestInv, KeepsNewest
<1>2. ASSUME NEW x \in Entities, NEW from, x \notin stored, Create(x, from),
             UNCHANGED <<last, reports, cleared>>
      PROVE  NewestInv'
  <2>1. /\ stored' = stored \cup {x} /\ level'[x] = "OK_STATUS"
        /\ \A e \in Endpoints \ {x} : level'[e] = level[e]
    BY <1>0, <1>2 DEF Create, DatabaseType, Entities
  <2>2. x \in Endpoints => level'[x] = update_entity_status(last[x])
    BY <1>2, <2>1, StatusOfNoSample DEF NewestInv
  <2>. QED BY <1>2, <2>1, <2>2 DEF NewestInv, KeepsNewest
<1>3. CASE UNCHANGED msvars
  BY <1>1, <1>3 DEF msvars, database, history
<1>4. ASSUME NEW q \in Participants, NEW new \in Sources, NEW on,
             update_participant_discovery_info(q, new, on),
             UNCHANGED <<stored, last, reports, cleared>>
      PROVE  NewestInv'
  <2>1. \A e \in Endpoints : e \in Entities /\ e # q
    BY MonitorServiceAssumption DEF Entities
  <2>. QED BY <1>0, <1>1, <1>4, <2>1, InfoUpdate
<1>5. CASE UpdateInfo
  <2>1. task.entity \in Participants
    BY <1>0, <1>5, TaskShape, MonitorServiceAssumption DEF UpdateInfo, At, ConsumerType, Entities
  <2>. QED BY <1>1, <1>4, <1>5, <2>1 DEF UpdateInfo, Sources
<1>6. CASE insert
  BY <1>6, NewestInsert
<1>7. CASE process_participant
  <2>1. /\ Head(queue).entity \in Participants /\ Head(queue).entity \in Entities
        /\ Head(queue).source \in Sources
    BY <1>0, <1>7, HeadItem DEF process_participant, Consumes, Item, Entities
  <2>. QED BY <1>1, <1>2, <1>4, <1>7, <2>1 DEF process_participant, Drop, database, history
<1>8. CASE process_endpoint
  <2>1. Head(queue).entity \in Entities
    BY <1>0, <1>8, HeadItem DEF process_endpoint, Consumes, Item, Entities
  <2>. QED BY <1>1, <1>2, <1>8, <2>1 DEF process_endpoint, Drop, database, history
<1>9. CASE clear_inactive_entities
  <2>1. /\ stored' \subseteq stored /\ UNCHANGED level /\ cleared' = cleared \cap stored'
        /\ \A e \in Endpoints : e \in stored' => last'[e] = last[e] /\ reports'[e] = reports[e]
        /\ \A e \in Endpoints : e \notin stored' =>
             last'[e] = [k \in StatusKinds |-> NoSample] /\ reports'[e] = {}
    BY <1>9 DEF clear_inactive_entities
  <2>2. ASSUME NEW e \in Endpoints, e \in stored', NEW k \in StatusKinds PROVE KeepsNewest(e, k)'
    BY <2>1, <2>2 DEF NewestInv, KeepsNewest
  <2>3. ASSUME NEW e \in Endpoints, e \notin stored', NEW k \in StatusKinds PROVE KeepsNewest(e, k)'
    BY <2>1, <2>3 DEF KeepsNewest
  <2>. QED BY <2>1, <2>2, <2>3 DEF NewestInv
<1>10. ASSUME MSNext,
              ~(UpdateInfo \/ insert \/ process_participant \/ process_endpoint \/ clear_inactive_entities),
              ~\E t \in 1 .. MaxTime + 1 : clear_statistics_data(t)
       PROVE  UNCHANGED <<stored, last, reports, level, cleared>>
  BY <1>10 DEF MSNext, Announce, Dispose, Report, InsertProxy, EnqueueParticipant,
         EnqueuePlaceholder, EnqueueEndpoint, Undiscover, update_graph_on_updated_entity,
         process_invalid, ProcessGraph, Discovered, Drop, database, history
<1>11. ASSUME NEW t \in 1 .. MaxTime + 1, clear_statistics_data(t) PROVE NewestInv'
  BY <1>11, NewestCleared, MonitorServiceAssumption
<1>. QED BY <1>1, <1>3, <1>5, <1>6, <1>7, <1>8, <1>9, <1>10, <1>11

LEMMA NewestBad ==
  ASSUME MSType, NewestInv, NEW e \in Endpoints, NEW k \in StatusKinds
  PROVE  NewestIsBad(e, k) <=> last[e][k].bad
<1>1. KeepsNewest(e, k) /\ \A q, r \in reports[e] : q.kind = r.kind /\ q.ts = r.ts => q = r
  BY DEF NewestInv
<1>2. \A q \in reports[e] : q.ts \in Nat
  BY MonitorServiceAssumption DEF MSType, OtherType, ReportType
<1>3. CASE last[e][k] = NoSample /\ \A r \in reports[e] : r.kind # k
  BY <1>3 DEF NewestIsBad, NoSample
<1>4. ASSUME NEW r \in reports[e], r = [kind |-> k, ts |-> last[e][k].ts, bad |-> last[e][k].bad],
             \A q \in reports[e] : q.kind = k => q.ts <= r.ts
      PROVE  NewestIsBad(e, k) <=> last[e][k].bad
  <2>1. r.kind = k /\ r.bad = last[e][k].bad
    BY <1>4
  <2>2. ASSUME NEW q \in reports[e], q.kind = k, \A z \in reports[e] : z.kind = k => z.ts <= q.ts
        PROVE  q = r
    <3>1. q.ts <= r.ts /\ r.ts <= q.ts
      BY <1>4, <2>1, <2>2
    <3>2. q.ts = r.ts
      BY <1>2, <3>1
    <3>. QED BY <1>1, <2>1, <2>2, <3>2
  <2>. QED BY <1>4, <2>1, <2>2 DEF NewestIsBad
<1>. QED BY <1>1, <1>3, <1>4 DEF KeepsNewest

(* In whatever order the samples of an endpoint arrive, however often it is *)
(* cleared and created anew, and whenever its samples are cleared: from the *)
(* next sample that is taken on, its status is the worst among the newest   *)
(* of each kind.  (The error that is proved is the extended one alone; the  *)
(* property also allows for the one that the documents name.)               *)
THEOREM StatusByTimestamp == MSSpec => []StatusIsWorstOfNewest
<1>1. MSInit => NewestInv
  BY DEF MSInit, NewestInv, KeepsNewest
<1>2. MSType /\ NewestInv /\ [MSNext]_msvars => NewestInv'
  BY NewestStep
<1>3. ASSUME MSType, NewestInv, NEW e \in (stored \cap Endpoints) \ cleared
      PROVE  level[e] = WorstIs(e, {"EXTENDED_INCOMPATIBLE_QOS"})
  <2>1. level[e] = update_entity_status(last[e])
    BY <1>3 DEF NewestInv
  <2>2. \A k : NewestIsBad(e, k) => k \in StatusKinds
    BY <1>3 DEF NewestIsBad, MSType, OtherType, ReportType
  <2>3. \A k \in StatusKinds : NewestIsBad(e, k) <=> last[e][k].bad
    BY <1>3, NewestBad
  <2>. QED BY <2>1, <2>2, <2>3 DEF WorstIs, update_entity_status
<1>4. MSType /\ NewestInv => StatusIsWorstOfNewest
  BY <1>3 DEF StatusIsWorstOfNewest
<1>. QED BY <1>1, <1>2, <1>4, TypeInvariant, PTL DEF MSSpec

----------------------------------------------------------------------------
(* The order of the entity queue. *)

(* A participant was stored, or is among the first n items of the queue. *)
Met(p, n) == p \in stored \cup erased \/ Awaited(p, n)

LEMMA MetPushed ==
  ASSUME [MSNext]_msvars, queue \in Seq(Item), NEW item \in Item, queue' = Append(queue, item),
         NEW p, NEW n \in Nat
  PROVE  /\ n <= Len(queue) /\ Met(p, n) => Met(p, n)'
         /\ n = Len(queue) + 1 /\ item.entity = p /\ item.status = "DISCOVERY" => Met(p, n)'
<1>1. /\ Len(queue) \in Nat /\ queue'[Len(queue) + 1] = item
      /\ \A i \in 1 .. Len(queue) : queue'[i] = queue[i]
  BY Pushed
<1>2. ASSUME n <= Len(queue), Met(p, n) PROVE Met(p, n)'
  BY <1>1, <1>2, KnownGrows DEF Met, Awaited
<1>3. ASSUME n = Len(queue) + 1, item.entity = p, item.status = "DISCOVERY" PROVE Met(p, n)'
  BY <1>1, <1>3 DEF Met, Awaited
<1>. QED BY <1>2, <1>3

(* The item that is taken off has been stored, if it was a first one. *)
LEMMA MetPopped ==
  ASSUME [MSNext]_msvars, queue \in Seq(Item), queue # <<>>, queue' = Tail(queue),
         NEW p, NEW n \in 1 .. Len(queue), Met(p, n),
         queue[1].entity = p /\ queue[1].status = "DISCOVERY" => p \in stored' \cup erased'
  PROVE  Met(p, n - 1)'
<1>1. /\ Len(queue) \in Nat /\ Len(queue') = Len(queue) - 1
      /\ \A i \in 1 .. Len(queue') : queue'[i] = queue[i + 1]
  BY Popped
<1>2. CASE p \in stored' \cup erased'
  BY <1>2 DEF Met
<1>3. CASE p \notin stored' \cup erased'
  <2>1. PICK i \in 1 .. n : queue[i].entity = p /\ queue[i].status = "DISCOVERY"
    BY <1>3, KnownGrows DEF Met, Awaited
  <2>2. i # 1
    BY <1>3, <2>1
  <2>3. /\ i - 1 \in 1 .. n - 1 /\ i - 1 \in 1 .. Len(queue')
        /\ queue'[i - 1] = queue[i - 1 + 1] /\ i - 1 + 1 = i
    BY <1>1, <2>2
  <2>4. queue'[i - 1].entity = p /\ queue'[i - 1].status = "DISCOVERY"
    BY <2>1, <2>3
  <2>. QED BY <2>3, <2>4 DEF Met, Awaited
<1>. QED BY <1>2, <1>3

FirstIn(i) ==
  queue[i].kind = "ENDPOINT" /\ queue[i].status = "DISCOVERY" => Met(Owner[queue[i].entity], i - 1)

LEMMA FirstForm ==
  ASSUME queue \in Seq(Item)
  PROVE  ParticipantFirst <=> \A i \in 1 .. Len(queue) : FirstIn(i)
BY LenProperties DEF ParticipantFirst, FirstIn, Met, Awaited

LEMMA OrderPush ==
  ASSUME MSType, EnqueuedInv, ParticipantFirst, [MSNext]_msvars,
         NEW item \in Item, queue' = Append(queue, item),
         item.kind = "ENDPOINT" /\ item.status = "DISCOVERY" =>
           Owner[item.entity] \in (enqueued \cup net) \cap Participants,
         \A p \in Participants \cap ((enqueued' \cup net') \ (enqueued \cup net)) :
           item.entity = p /\ item.status = "DISCOVERY"
  PROVE  EnqueuedInv' /\ ParticipantFirst'
<1>0. queue \in Seq(Item) /\ Len(queue) \in Nat
  BY LenProperties DEF MSType, QueueType
<1>. PICK n \in Nat : n = Len(queue)
  BY <1>0
<1>1. /\ queue' \in Seq(Item) /\ Len(queue') = n + 1 /\ queue'[n + 1] = item
      /\ \A i \in 1 .. n : queue'[i] = queue[i]
  BY <1>0, Pushed
<1>2. ASSUME NEW p \in (enqueued \cup net) \cap Participants PROVE Met(p, n)'
  BY <1>0, <1>2, MetPushed DEF EnqueuedInv, Met
<1>3. ASSUME NEW p \in (enqueued' \cup net') \cap Participants PROVE Met(p, n + 1)'
  <2>1. CASE p \in enqueued \cup net
    <3>1. Met(p, n)'
      BY <1>2, <1>3, <2>1
    <3>. QED BY <3>1 DEF Met, Awaited
  <2>2. CASE p \notin enqueued \cup net
    <3>1. item.entity = p /\ item.status = "DISCOVERY"
      BY <1>3, <2>2
    <3>. QED BY <1>0, <3>1, MetPushed
  <2>. QED BY <2>1, <2>2
<1>4. EnqueuedInv'
  BY <1>1, <1>3 DEF EnqueuedInv, Met
<1>5. ASSUME NEW i \in 1 .. n + 1 PROVE FirstIn(i)'
  <2>1. CASE i \in 1 .. n
    <3>1. FirstIn(i) /\ queue'[i] = queue[i] /\ i - 1 \in Nat /\ i - 1 <= Len(queue)
      BY <1>0, <1>1, <2>1, FirstForm
    <3>2. CASE queue[i].kind = "ENDPOINT" /\ queue[i].status = "DISCOVERY"
      <4>. PICK p : p = Owner[queue[i].entity]
        OBVIOUS
      <4>1. Met(p, i - 1)'
        BY <1>0, <3>1, <3>2, MetPushed DEF FirstIn
      <4>. QED BY <3>1, <4>1 DEF FirstIn
    <3>. QED BY <3>1, <3>2 DEF FirstIn
  <2>2. CASE i = n + 1
    <3>1. queue'[i] = item /\ i - 1 = n
      BY <1>0, <1>1, <2>2
    <3>. QED BY <1>2, <3>1 DEF FirstIn
  <2>. QED BY <2>1, <2>2
<1>. QED BY <1>1, <1>4, <1>5, LenProperties DEF ParticipantFirst, FirstIn, Met, Awaited

LEMMA OrderPop ==
  ASSUME MSType, EnqueuedInv, ParticipantFirst, [MSNext]_msvars, queue # <<>>, queue' = Tail(queue),
         UNCHANGED <<enqueued, net>>,
         queue[1].entity \in Participants /\ queue[1].status = "DISCOVERY" =>
           queue[1].entity \in stored' \cup erased'
  PROVE  EnqueuedInv' /\ ParticipantFirst'
<1>0. queue \in Seq(Item) /\ Len(queue) \in Nat /\ Len(queue) >= 1
  BY LenProperties, EmptySeq DEF MSType, QueueType
<1>1. /\ queue' \in Seq(Item) /\ Len(queue') = Len(queue) - 1
      /\ \A i \in 1 .. Len(queue') : queue'[i] = queue[i + 1]
  BY <1>0, Popped
<1>2. ASSUME NEW p \in Participants, NEW n \in 1 .. Len(queue), Met(p, n) PROVE Met(p, n - 1)'
  BY <1>0, <1>2, MetPopped
<1>3. EnqueuedInv'
  BY <1>0, <1>1, <1>2 DEF EnqueuedInv, Met
<1>4. ASSUME NEW i \in 1 .. Len(queue') PROVE FirstIn(i)'
  <2>1. /\ i + 1 \in 1 .. Len(queue) /\ queue'[i] = queue[i + 1] /\ i \in 1 .. Len(queue)
        /\ (i + 1) - 1 = i
    BY <1>0, <1>1
  <2>2. FirstIn(i + 1)
    BY <1>0, <2>1, FirstForm
  <2>3. queue[i + 1].kind = "ENDPOINT" => Owner[queue[i + 1].entity] \in Participants
    BY <2>1, MonitorServiceAssumption DEF MSType, QueueType
  <2>. QED BY <1>2, <2>1, <2>2, <2>3 DEF FirstIn
<1>. QED BY <1>1, <1>3, <1>4, LenProperties DEF ParticipantFirst, FirstIn, Met, Awaited

LEMMA OrderStep ==
  ASSUME MSType, EnqueuedInv, ParticipantFirst, [MSNext]_msvars
  PROVE  EnqueuedInv' /\ ParticipantFirst'
<1>0. DatabaseType /\ ConsumerType /\ QueueType /\ queue \in Seq(Item)
  BY DEF MSType, QueueType
<1>1. ASSUME UNCHANGED <<queue, enqueued, net>> PROVE EnqueuedInv' /\ ParticipantFirst'
  BY <1>1, KnownGrows DEF EnqueuedInv, ParticipantFirst, Awaited
<1>2. CASE EnqueueParticipant
  <2>. PICK p \in Participants : p = task.guid
    BY <1>2 DEF EnqueueParticipant
  <2>. PICK item : item = Info(p, "PARTICIPANT", IF p \in enqueued THEN "UPDATE" ELSE "DISCOVERY", "PROXY")
    OBVIOUS
  <2>1. /\ item.kind = "PARTICIPANT" /\ item.entity = p /\ (p \notin enqueued => item.status = "DISCOVERY")
        /\ item \in Item
    BY ItemType DEF Info, Statuses, Sources, Entities
  <2>2. queue' = Append(queue, item) /\ enqueued' = enqueued \cup {p} /\ net' = net
    BY <1>2 DEF EnqueueParticipant
  <2>. QED BY <2>1, <2>2, OrderPush
<1>3. CASE EnqueuePlaceholder
  <2>. PICK p : p = ParticipantOf(task.guid)
    OBVIOUS
  <2>. PICK item : item = Placeholder(p)
    OBVIOUS
  <2>0. p \in Entities \cup {NoGuid}
    BY <1>0, <1>3, TaskShape, MonitorServiceAssumption
       DEF EnqueuePlaceholder, At, ProxyTask, ParticipantOf, Entities
  <2>1. item.kind = "PARTICIPANT" /\ item.entity = p /\ item.status = "DISCOVERY" /\ item \in Item
    BY <2>0, ItemType DEF Info, Statuses, Sources, Placeholder
  <2>2. queue' = Append(queue, item) /\ enqueued' = enqueued \cup {p} /\ net' = net
    BY <1>3 DEF EnqueuePlaceholder
  <2>. QED BY <2>1, <2>2, OrderPush
<1>4. CASE EnqueueEndpoint
  <2>. PICK e : e = task.guid
    OBVIOUS
  <2>. PICK item : item = Info(e, KindOf(e), "DISCOVERY", IF e = NoGuid THEN "UNKNOWN" ELSE "PROXY")
    OBVIOUS
  <2>0. e \in Entities \cup {NoGuid} /\ ParticipantOf(e) \in enqueued
    BY <1>0, <1>4, TaskShape DEF EnqueueEndpoint, At, ProxyTask, ConsumerType
  <2>1. item.kind = KindOf(e) /\ item.entity = e /\ item \in Item
    BY <2>0, ItemType DEF Info, Statuses, Sources, KindOf
  <2>2. item.kind = "ENDPOINT" => Owner[e] \in enqueued \cap Participants
    BY <2>0, <2>1, MonitorServiceAssumption DEF KindOf, ParticipantOf
  <2>3. queue' = Append(queue, item) /\ enqueued' = enqueued /\ net' = net
    BY <1>4 DEF EnqueueEndpoint
  <2>. QED BY <2>1, <2>2, <2>3, OrderPush
<1>5. ASSUME NEW x \in Entities, NEW status \in Statuses, Discovered(x, status)
      PROVE  EnqueuedInv' /\ ParticipantFirst'
  <2>. PICK item : item = Info(x, KindOf(x), status, "DISCOVERY")
    OBVIOUS
  <2>1. item.kind = KindOf(x) /\ item.entity = x /\ item.status = status /\ item \in Item
    BY ItemType DEF Info, Sources, KindOf
  <2>2. item.kind = "ENDPOINT" /\ item.status = "DISCOVERY" => Owner[x] \in net \cap Participants
    BY <1>5, <2>1, MonitorServiceAssumption DEF Discovered, KindOf
  <2>3. queue' = Append(queue, item) /\ enqueued' = enqueued
    BY <1>5 DEF Discovered, consumer
  <2>4. net' \subseteq net \cup {x} /\ (status # "DISCOVERY" => net' \subseteq net)
    BY <1>5 DEF Discovered
  <2>. QED BY <2>1, <2>2, <2>3, <2>4, OrderPush
<1>6. CASE process_participant
  <2>1. queue # <<>> /\ Head(queue) = queue[1] /\ UNCHANGED <<enqueued, net>>
    BY <1>0, <1>6, HeadItem DEF process_participant, Consumes, consumer
  <2>2. \/ UNCHANGED queue
        \/ queue' = Tail(queue) /\ Head(queue).status # "DISCOVERY"
    BY <1>6 DEF process_participant, Drop
  <2>. QED BY <1>1, <2>1, <2>2, OrderPop
<1>7. CASE process_endpoint
  <2>1. /\ queue # <<>> /\ Head(queue) = queue[1] /\ UNCHANGED <<enqueued, net>>
        /\ Head(queue).entity \notin Participants
    BY <1>0, <1>7, HeadItem, MonitorServiceAssumption DEF process_endpoint, Consumes, consumer
  <2>2. UNCHANGED queue \/ queue' = Tail(queue)
    BY <1>7 DEF process_endpoint, Drop
  <2>. QED BY <1>1, <2>1, <2>2, OrderPop
<1>8. CASE process_invalid
  <2>1. /\ queue # <<>> /\ Head(queue) = queue[1] /\ UNCHANGED <<enqueued, net>>
        /\ Head(queue).entity \notin Participants /\ queue' = Tail(queue)
    BY <1>0, <1>8, HeadItem, MonitorServiceAssumption
       DEF process_invalid, Consumes, consumer, Drop, Entities
  <2>. QED BY <2>1, OrderPop
<1>9. CASE ProcessGraph
  <2>1. /\ queue # <<>> /\ queue' = Tail(queue) /\ UNCHANGED <<enqueued, net>>
        /\ queue[1].entity \in stored \cup erased
    BY <1>0, <1>9 DEF ProcessGraph, QueueType, consumer
  <2>. QED BY <2>1, OrderPop, KnownGrows
<1>. QED BY <1>1, <1>2, <1>3, <1>4, <1>5, <1>6, <1>7, <1>8, <1>9, QueueChanges

(* A discovered endpoint finds its participant in the database or behind an *)
(* earlier sample, whichever of the two consumers and the callbacks pushed  *)
(* the one and the other.                                                   *)
THEOREM ParticipantsQueuedFirst == MSSpec => []ParticipantFirst
<1>1. MSInit => EnqueuedInv /\ ParticipantFirst
  BY DEF MSInit, EnqueuedInv, ParticipantFirst
<1>2. MSType /\ (EnqueuedInv /\ ParticipantFirst) /\ [MSNext]_msvars =>
        (EnqueuedInv /\ ParticipantFirst)'
  BY OrderStep
<1>. QED BY <1>1, <1>2, TypeInvariant, PTL DEF MSSpec

----------------------------------------------------------------------------
(* What is in the entity queue, and what its consumer does of it. *)

LEMMA PendingIs ==
  ASSUME queue \in Seq(Item), NEW x
  PROVE  Pending(x) <=> \E i \in 1 .. Len(queue) : queue[i].entity = x
BY LenProperties DEF Pending

LEMMA PendingPushed ==
  ASSUME queue \in Seq(Item), NEW item \in Item, queue' = Append(queue, item), NEW x
  PROVE  Pending(x)' <=> Pending(x) \/ item.entity = x
<1>1. /\ queue' \in Seq(Item) /\ Len(queue') = Len(queue) + 1 /\ Len(queue) \in Nat
      /\ queue'[Len(queue) + 1] = item
      /\ \A i \in 1 .. Len(queue) : queue'[i] = queue[i]
  BY Pushed
<1>2. DOMAIN queue' = 1 .. Len(queue) + 1 /\ DOMAIN queue = 1 .. Len(queue)
  BY <1>1, LenProperties
<1>3. 1 .. Len(queue) + 1 = (1 .. Len(queue)) \cup {Len(queue) + 1}
  BY <1>1
<1>. QED BY <1>1, <1>2, <1>3 DEF Pending

(* Every action of the consumer of the entity queue. *)
EntityConsumer == process_participant \/ process_endpoint \/ process_invalid \/ ProcessGraph

LEMMA EntityConsumerEffect ==
  ASSUME MSType, EntityConsumer
  PROVE  /\ ~terminated /\ UNCHANGED <<handles, enqueued, task, direct, said, Excused>>
         /\ \A i \in 1 .. Len(queue') : \E j \in 1 .. Len(queue) : queue'[i] = queue[j]
         /\ \A x : Pending(x)' => Pending(x)
         /\ \A x \in Entities : ~Pending(x) =>
              /\ x \in stored' <=> x \in stored
              /\ x \in active' => x \in active
              /\ born'[x] = born[x]
         /\ \A x \in Entities : source'[x] # source[x] =>
              \E j \in 1 .. Len(queue) : queue[j].entity = x /\ queue[j].source = source'[x]
<1>0. DatabaseType /\ QueueType /\ queue \in Seq(Item) /\ Len(queue) \in Nat
  BY LenProperties DEF MSType, QueueType
<1>1. ~terminated /\ UNCHANGED <<handles, enqueued, task, direct, said, Excused>> /\ queue # <<>>
  BY <1>0 DEF EntityConsumer, process_participant, process_endpoint, process_invalid, ProcessGraph,
              Consumes, consumer, history, QueueType, Excused
<1>2. PICK h \in Item : h = Head(queue) /\ h = queue[1] /\ Len(queue) >= 1
  BY <1>0, <1>1, HeadItem
<1>3. Pending(h.entity) /\ 1 \in 1 .. Len(queue)
  BY <1>0, <1>2, PendingIs
<1>4. UNCHANGED queue \/ queue' = Tail(queue)
  BY DEF EntityConsumer, process_participant, process_endpoint, process_invalid, ProcessGraph, Drop
<1>5. /\ queue' \in Seq(Item) /\ Len(queue') \in Nat
      /\ \A i \in 1 .. Len(queue') : \E j \in 1 .. Len(queue) : queue'[i] = queue[j]
  <2>1. CASE UNCHANGED queue
    BY <1>0, <2>1
  <2>2. CASE queue' = Tail(queue)
    <3>1. /\ queue' \in Seq(Item) /\ Len(queue') = Len(queue) - 1
          /\ \A i \in 1 .. Len(queue') : queue'[i] = queue[i + 1]
      BY <1>0, <1>1, <2>2, Popped
    <3>2. \A i \in 1 .. Len(queue') : i + 1 \in 1 .. Len(queue)
      BY <1>0, <3>1
    <3>. QED BY <1>0, <1>2, <3>1, <3>2
  <2>. QED BY <1>4, <2>1, <2>2
<1>6. \A x : Pending(x)' => Pending(x)
  BY <1>0, <1>5, LenProperties DEF Pending
<1>7. /\ stored \subseteq stored' /\ stored' \subseteq stored \cup {h.entity}
      /\ active' \subseteq active \cup {h.entity}
      /\ \A x \in Entities \ {h.entity} : born'[x] = born[x] /\ source'[x] = source[x]
      /\ source'[h.entity] \in {source[h.entity], h.source}
  <2>1. CASE UNCHANGED database
    BY <2>1 DEF database
  <2>2. CASE process_participant
    <3>1. h.entity \in Participants /\ h.entity \in Entities /\ h.source \in Sources
      BY <1>2, <2>2 DEF process_participant, Item, Entities
    <3>2. CASE /\ h.entity \in stored
               /\ change_entity_status(h.entity, h.status # "UNDISCOVERY")
               /\ IF h.status = "UPDATE"
                  THEN update_participant_discovery_info(h.entity, h.source, active')
                  ELSE UNCHANGED <<source, level, nodes>>
               /\ UNCHANGED <<stored, born>>
      BY <1>0, <3>1, <3>2, StatusChange, InfoUpdate DEF DatabaseType
    <3>3. CASE Create(h.entity, h.source)
      BY <1>0, <3>1, <3>3 DEF Create, DatabaseType
    <3>. QED BY <1>2, <2>1, <2>2, <3>2, <3>3 DEF process_participant, Drop
  <2>3. CASE process_endpoint
    <3>1. h.entity \in Entities
      BY <1>2, <2>3 DEF process_endpoint, Entities
    <3>2. CASE /\ h.entity \in stored
               /\ change_entity_status(h.entity, h.status # "UNDISCOVERY")
               /\ UNCHANGED <<stored, born, source>>
      BY <1>0, <3>1, <3>2, StatusChange
    <3>3. CASE Create(h.entity, h.source)
      BY <1>0, <3>1, <3>3 DEF Create, DatabaseType
    <3>. QED BY <1>2, <2>1, <2>3, <3>2, <3>3 DEF process_endpoint, Drop
  <2>. QED BY <2>1, <2>2, <2>3 DEF EntityConsumer, process_invalid, ProcessGraph, Drop
<1>. QED BY <1>1, <1>2, <1>3, <1>5, <1>6, <1>7

(* The actions of the consumer of the monitor service data. *)
MonitorConsumer ==
  \/ \E x \in Entities : Announce(x, x) \/ Announce(x, NoGuid) \/ Dispose(x)
  \/ \E e \in Endpoints, k \in StatusKinds, ts \in 1 .. MaxTime, bad \in BOOLEAN :
       Report(e, k, ts, bad)
  \/ InsertProxy \/ UpdateInfo
  \/ EnqueueParticipant \/ EnqueuePlaceholder \/ EnqueueEndpoint
  \/ Undiscover \/ insert \/ update_graph_on_updated_entity

LEMMA MonitorConsumerEffect ==
  ASSUME MSType, MonitorConsumer
  PROVE  /\ ~terminated /\ UNCHANGED <<stored, born, direct>> /\ active' \subseteq active
         /\ Excused \subseteq Excused'
         /\ \A x \in Entities : source'[x] \in {source[x], "PROXY"}
<1>0. DatabaseType /\ ConsumerType
  BY DEF MSType
<1>1. ~terminated /\ UNCHANGED <<stored, born, direct>> /\ overtaken \subseteq overtaken'
  BY DEF MonitorConsumer, Announce, Dispose, Report, InsertProxy, UpdateInfo, EnqueueParticipant,
         EnqueuePlaceholder, EnqueueEndpoint, Undiscover, insert, update_graph_on_updated_entity,
         At, database, history
<1>2. Excused \subseteq Excused'
  BY <1>1 DEF Excused
<1>3. CASE UpdateInfo
  <2>1. task.entity \in Participants
    BY <1>0, <1>3, TaskShape, MonitorServiceAssumption DEF UpdateInfo, At, ConsumerType, Entities
  <2>2. \A x \in Entities : source'[x] \in {source[x], "PROXY"}
    BY <1>0, <1>3, <2>1, InfoUpdate DEF UpdateInfo, Sources
  <2>. QED BY <1>1, <1>3, <1>2, <2>2 DEF UpdateInfo
<1>4. CASE Undiscover
  BY <1>1, <1>4, <1>2 DEF Undiscover, change_entity_status
<1>5. CASE UNCHANGED <<active, source>>
  BY <1>1, <1>5, <1>2
<1>. QED BY <1>3, <1>4, <1>5
     DEF MonitorConsumer, Announce, Dispose, Report, InsertProxy, EnqueueParticipant,
         EnqueuePlaceholder, EnqueueEndpoint, insert, update_graph_on_updated_entity, database

(* What the application clears. *)
Clear == clear_inactive_entities \/ \E t \in 1 .. MaxTime + 1 : clear_statistics_data(t)

LEMMA NextGroups ==
  ASSUME [MSNext]_msvars
  PROVE  \/ UNCHANGED msvars \/ MonitorConsumer \/ EntityConsumer
         \/ \E x \in Entities, status \in Statuses : Discovered(x, status)
         \/ Clear
BY DEF MSNext, MonitorConsumer, EntityConsumer, Clear

LEMMA ClearEffect ==
  ASSUME Clear
  PROVE  /\ stored' \subseteq stored
         /\ UNCHANGED <<active, born, source, handles, enqueued, task, queue, direct, said, terminated,
                        Excused>>
BY DEF Clear, clear_inactive_entities, clear_statistics_data, consumer, Excused

LEMMA DiscoveredEffect ==
  ASSUME MSType, NEW x \in Entities, NEW status \in Statuses, Discovered(x, status)
  PROVE  /\ UNCHANGED <<stored, active, born, source, handles, enqueued, task, said, terminated>>
         /\ direct' = direct \cup {x} /\ Excused' = Excused \cup {x}
         /\ \A y : Pending(y)' <=> Pending(y) \/ y = x
         /\ \E item \in Item : queue' = Append(queue, item) /\ item.entity = x
<1>. PICK item : item = Info(x, KindOf(x), status, "DISCOVERY")
  OBVIOUS
<1>1. item.entity = x /\ item \in Item
  BY ItemType DEF Info, Sources, KindOf
<1>2. queue' = Append(queue, item) /\ queue \in Seq(Item)
  BY DEF Discovered, MSType, QueueType
<1>3. \A y : Pending(y)' <=> Pending(y) \/ y = x
  BY <1>1, <1>2, PendingPushed
<1>. QED BY <1>1, <1>2, <1>3 DEF Discovered, database, consumer, Excused

(* What the consumer of the monitor service data pushes. *)
LEMMA EnqueueEffect ==
  ASSUME MSType
  PROVE  /\ EnqueueParticipant =>
              /\ task \in ProxyTask /\ task.guid = task.entity /\ task.entity \in Participants
              /\ \A y : Pending(y)' <=> Pending(y) \/ y = task.entity
              /\ \E item \in Item : queue' = Append(queue, item) /\ item.source = "PROXY"
         /\ EnqueuePlaceholder =>
              /\ task \in ProxyTask /\ task.guid \in (Endpoints \cap {task.entity}) \cup {NoGuid}
              /\ \A y : Pending(y)' <=> Pending(y) \/ y = ParticipantOf(task.guid)
              /\ \E item \in Item : queue' = Append(queue, item) /\ item.source = "INFERRED"
         /\ EnqueueEndpoint =>
              /\ task \in ProxyTask /\ task.guid \in (Endpoints \cap {task.entity}) \cup {NoGuid}
              /\ \A y : Pending(y)' <=> Pending(y) \/ y = task.guid
              /\ \E item \in Item : queue' = Append(queue, item) /\ item.source # "DISCOVERY"
<1>0. DatabaseType /\ ConsumerType /\ QueueType /\ queue \in Seq(Item)
  BY DEF MSType, QueueType
<1>1. CASE EnqueueParticipant
  <2>1. task \in ProxyTask /\ task.guid = task.entity /\ task.entity \in Participants
    BY <1>0, <1>1, TaskShape, MonitorServiceAssumption DEF EnqueueParticipant, At, ConsumerType, Entities
  <2>. PICK p \in Participants : p = task.guid
    BY <2>1
  <2>. PICK item : item = Info(p, "PARTICIPANT", IF p \in enqueued THEN "UPDATE" ELSE "DISCOVERY", "PROXY")
    OBVIOUS
  <2>2. item.entity = p /\ item.source = "PROXY" /\ item \in Item
    BY ItemType DEF Info, Statuses, Sources, Entities
  <2>3. queue' = Append(queue, item)
    BY <1>1 DEF EnqueueParticipant
  <2>. QED BY <1>0, <1>1, <2>1, <2>2, <2>3, PendingPushed DEF EnqueueParticipant, EnqueuePlaceholder, EnqueueEndpoint, At, ConsumerType
<1>2. CASE EnqueuePlaceholder
  <2>1. task \in ProxyTask /\ task.guid \in (Endpoints \cap {task.entity}) \cup {NoGuid}
    BY <1>0, <1>2, TaskShape DEF EnqueuePlaceholder, At, ConsumerType, ProxyTask, Entities
  <2>. PICK p : p = ParticipantOf(task.guid)
    OBVIOUS
  <2>. PICK item : item = Placeholder(p)
    OBVIOUS
  <2>2. p \in Entities \cup {NoGuid}
    BY <2>1, MonitorServiceAssumption DEF ParticipantOf, Entities
  <2>3. item.entity = p /\ item.source = "INFERRED" /\ item \in Item
    BY <2>2, ItemType DEF Info, Statuses, Sources, Placeholder
  <2>4. queue' = Append(queue, item)
    BY <1>2 DEF EnqueuePlaceholder
  <2>. QED BY <1>0, <1>2, <2>1, <2>3, <2>4, PendingPushed DEF EnqueueParticipant, EnqueuePlaceholder, EnqueueEndpoint, At
<1>3. CASE EnqueueEndpoint
  <2>1. task \in ProxyTask /\ task.guid \in (Endpoints \cap {task.entity}) \cup {NoGuid}
    BY <1>0, <1>3, TaskShape DEF EnqueueEndpoint, At, ConsumerType, ProxyTask, Entities
  <2>. PICK e : e = task.guid
    OBVIOUS
  <2>. PICK item : item = Info(e, KindOf(e), "DISCOVERY", IF e = NoGuid THEN "UNKNOWN" ELSE "PROXY")
    OBVIOUS
  <2>2. e \in Entities \cup {NoGuid}
    BY <2>1 DEF Entities
  <2>3. item.entity = e /\ item.source # "DISCOVERY" /\ item \in Item
    BY <2>2, ItemType DEF Info, Statuses, Sources, KindOf
  <2>4. queue' = Append(queue, item)
    BY <1>3 DEF EnqueueEndpoint
  <2>. QED BY <1>0, <1>3, <2>1, <2>3, <2>4, PendingPushed DEF EnqueueParticipant, EnqueuePlaceholder, EnqueueEndpoint, At, ConsumerType
<1>. QED BY <1>1, <1>2, <1>3

----------------------------------------------------------------------------
(* A proxy that was disposed of is inactive. *)

LEMMA SourceStep ==
  ASSUME MSType, SourceInv, [MSNext]_msvars
  PROVE  SourceInv'
<1>0. DatabaseType /\ queue \in Seq(Item)
  BY DEF MSType, QueueType
<1>1. ASSUME direct \subseteq direct', UNCHANGED queue,
             \A x \in Entities : source'[x] \in {source[x], "PROXY"}
      PROVE  SourceInv'
  BY <1>1 DEF SourceInv
<1>2. ASSUME direct \subseteq direct', \A x \in Entities : source'[x] = source[x],
             NEW item \in Item, queue' = Append(queue, item),
             item.source = "DISCOVERY" => item.entity \in direct'
      PROVE  SourceInv'
  <2>1. /\ Len(queue') = Len(queue) + 1 /\ Len(queue) \in Nat /\ queue'[Len(queue) + 1] = item
        /\ \A i \in 1 .. Len(queue) : queue'[i] = queue[i]
    BY <1>0, <1>2, Pushed
  <2>. QED BY <1>2, <2>1 DEF SourceInv
<1>3. CASE UNCHANGED msvars
  BY <1>1, <1>3 DEF msvars, database, history
<1>4. CASE EnqueueParticipant \/ EnqueuePlaceholder \/ EnqueueEndpoint
  <2>1. UNCHANGED <<source, direct>>
    BY <1>4 DEF EnqueueParticipant, EnqueuePlaceholder, EnqueueEndpoint, database, history
  <2>. QED BY <1>2, <1>4, <2>1, EnqueueEffect
<1>5. CASE MonitorConsumer /\ UNCHANGED queue
  BY <1>1, <1>5, MonitorConsumerEffect
<1>6. CASE EntityConsumer
  BY <1>6, EntityConsumerEffect DEF SourceInv
<1>7. ASSUME NEW x \in Entities, NEW status \in Statuses, Discovered(x, status) PROVE SourceInv'
  BY <1>2, <1>7, DiscoveredEffect
<1>8. CASE Clear
  BY <1>1, <1>8, ClearEffect
<1>9. MonitorConsumer => UNCHANGED queue \/ EnqueueParticipant \/ EnqueuePlaceholder \/ EnqueueEndpoint
  BY DEF MonitorConsumer, Announce, Dispose, Report, InsertProxy, UpdateInfo, Undiscover, insert,
         update_graph_on_updated_entity
<1>. QED BY <1>3, <1>4, <1>5, <1>6, <1>7, <1>8, <1>9, NextGroups

LEMMA HandleStep ==
  ASSUME MSType, HandleInv, [MSNext]_msvars
  PROVE  HandleInv'
<1>0. ConsumerType
  BY DEF MSType
<1>1. ASSUME UNCHANGED <<handles, task>> PROVE HandleInv'
  BY <1>1 DEF HandleInv
<1>2. ASSUME task.at # "enqueue_endpoint", NEW S, handles' = handles \/ handles' = Without(handles, S)
      PROVE  HandleInv'
  BY <1>2 DEF HandleInv, Without, Restrict
<1>3. ASSUME task.at = "enqueue_endpoint" => handles' = With(handles, task.entity, task.guid),
             NEW v, handles' = With(handles, task.entity, v), task.entity \in Entities,
             v \in {task.entity, NoGuid} \/ (task'.at = "enqueue_endpoint" /\ task'.entity = task.entity)
      PROVE  HandleInv'
  BY <1>3 DEF HandleInv, With
<1>4. CASE UNCHANGED consumer
  BY <1>1, <1>4 DEF consumer
<1>5. ASSUME NEW x \in Entities, Announce(x, x) \/ Announce(x, NoGuid) \/ Dispose(x)
      PROVE  HandleInv'
  BY <1>2, <1>5 DEF Announce, Dispose, At
<1>6. ASSUME NEW e, NEW k, NEW ts, NEW bad, Report(e, k, ts, bad) PROVE HandleInv'
  BY <1>2, <1>6 DEF Report, At
<1>7. CASE InsertProxy \/ Undiscover \/ insert \/ update_graph_on_updated_entity
  BY <1>2, <1>7 DEF InsertProxy, Undiscover, insert, update_graph_on_updated_entity, At
<1>8. CASE UpdateInfo
  <2>1. task \in ProxyTask /\ task.at # "enqueue_endpoint"
    BY <1>0, <1>8, TaskShape DEF UpdateInfo, At
  <2>2. task.entity \in Entities /\ task.guid \in {task.entity, NoGuid}
    BY <1>0, <2>1 DEF ConsumerType, ProxyTask
  <2>3. handles' = handles \/ handles' = With(handles, task.entity, task.guid)
    BY <1>8 DEF UpdateInfo
  <2>. QED BY <1>2, <1>3, <2>1, <2>2, <2>3
<1>9. CASE EnqueueParticipant \/ EnqueueEndpoint
  <2>1. task.entity \in Entities /\ task.guid \in {task.entity, NoGuid}
    BY <1>0, <1>9, EnqueueEffect DEF ProxyTask
  <2>2. handles' = With(handles, task.entity, task.guid)
    BY <1>9 DEF EnqueueParticipant, EnqueueEndpoint, Handle
  <2>. QED BY <1>3, <2>1, <2>2
<1>10. CASE EnqueuePlaceholder
  <2>1. task \in ProxyTask /\ task.at # "enqueue_endpoint"
    BY <1>10, EnqueueEffect DEF EnqueuePlaceholder, At
  <2>2. task'.at = "enqueue_endpoint" /\ task'.entity = task.entity /\ task.entity \in Entities
    BY <1>10, <2>1, ProxyGoto DEF EnqueuePlaceholder, ProxyTask
  <2>3. handles' = With(handles, task.entity, ParticipantOf(task.guid))
    BY <1>10 DEF EnqueuePlaceholder, Handle
  <2>. QED BY <1>3, <2>1, <2>2, <2>3
<1>. QED BY <1>4, <1>5, <1>6, <1>7, <1>8, <1>9, <1>10, ConsumerChanges

LEMMA FirstStep ==
  ASSUME MSType, FirstInv, [MSNext]_msvars
  PROVE  FirstInv'
<1>0. /\ DatabaseType /\ ConsumerType /\ OtherType /\ queue \in Seq(Item)
      /\ \A p \in Participants : p \in Entities /\ p \notin Endpoints /\ p # NoGuid
  BY MonitorServiceAssumption DEF MSType, QueueType, Entities
<1>1. ASSUME direct \subseteq direct', enqueued \subseteq enqueued',
             NEW p \in Participants \ (direct' \cup enqueued'),
             said'[p] = said[p], p \in stored' => p \in stored, Pending(p)' => Pending(p),
             task'.at \in {"insert_proxy", "info"} =>
               \/ task'.entity \in stored
               \/ task.at \in {"insert_proxy", "info"} /\ task'.entity = task.entity
      PROVE  /\ said'[p] = "nothing" /\ p \notin stored' /\ ~Pending(p)'
             /\ task'.at \in {"insert_proxy", "info"} => task'.entity # p
  BY <1>1 DEF FirstInv
<1>2. ASSUME direct \subseteq direct', enqueued \subseteq enqueued',
             \A p \in Participants \ (direct' \cup enqueued') :
               /\ p \notin direct \cup enqueued => said'[p] = said[p]
               /\ p \in stored' => p \in stored
               /\ Pending(p)' => Pending(p),
             task'.at \in {"insert_proxy", "info"} =>
               \/ task'.entity \in stored
               \/ task.at \in {"insert_proxy", "info"} /\ task'.entity = task.entity
      PROVE  FirstInv'
  <2>1. ASSUME NEW p \in Participants \ (direct' \cup enqueued')
        PROVE  /\ said'[p] = "nothing" /\ p \notin stored' /\ ~Pending(p)'
               /\ task'.at \in {"insert_proxy", "info"} => task'.entity # p
    BY <1>1, <1>2, <2>1
  <2>. QED BY <2>1 DEF FirstInv
<1>3. UNCHANGED queue => \A p : Pending(p)' <=> Pending(p)
  BY DEF Pending
<1>4. CASE UNCHANGED msvars
  BY <1>2, <1>3, <1>4 DEF msvars, database, consumer, history
<1>5. CASE EntityConsumer
  <2>1. ASSUME NEW p \in Participants \ (direct' \cup enqueued'), p \in stored' PROVE p \in stored
    <3>1. ~Pending(p)
      BY <1>5, <2>1, EntityConsumerEffect DEF FirstInv
    <3>. QED BY <1>0, <1>5, <2>1, <3>1, EntityConsumerEffect
  <2>. QED BY <1>2, <1>5, <2>1, EntityConsumerEffect
<1>6. ASSUME NEW x \in Entities, NEW status \in Statuses, Discovered(x, status) PROVE FirstInv'
  BY <1>2, <1>6, DiscoveredEffect
<1>7. CASE Clear
  BY <1>2, <1>3, <1>7, ClearEffect
<1>8. ASSUME NEW x \in Entities, NEW guid, Announce(x, guid) PROVE FirstInv'
  <2>1. task'.at = "insert_proxy" => x \in stored
    BY <1>8 DEF Announce
  <2>2. task'.entity = x /\ task'.at \in {"insert_proxy", "enqueue"}
    BY <1>8 DEF Announce
  <2>3. UNCHANGED <<direct, enqueued, said, stored, queue>>
    BY <1>8 DEF Announce, database, history
  <2>. QED BY <1>2, <1>3, <2>1, <2>2, <2>3
<1>9. ASSUME NEW x \in Entities, Dispose(x) PROVE FirstInv'
  <2>1. \A p \in Participants \ (direct \cup enqueued) : said'[p] = said[p]
    BY <1>0, <1>9 DEF Dispose, Say, FirstInv, OtherType
  <2>2. task'.at \notin {"insert_proxy", "info"}
    BY <1>9 DEF Dispose, At
  <2>3. UNCHANGED <<direct, enqueued, stored, queue>>
    BY <1>9 DEF Dispose, database
  <2>. QED BY <1>2, <1>3, <2>1, <2>2, <2>3
<1>10. ASSUME NEW e, NEW k, NEW ts, NEW bad, Report(e, k, ts, bad) PROVE FirstInv'
  <2>1. task'.at \notin {"insert_proxy", "info"}
    BY <1>10 DEF Report
  <2>2. UNCHANGED <<direct, enqueued, said, stored, queue>>
    BY <1>10 DEF Report, database, history
  <2>. QED BY <1>2, <1>3, <2>1, <2>2
<1>11. CASE InsertProxy \/ UpdateInfo
  <2>1. task \in ProxyTask /\ task.at \in {"insert_proxy", "info"} /\ task.entity \in Entities
    BY <1>0, <1>11, TaskShape DEF InsertProxy, UpdateInfo, At, ProxyTask
  <2>2. \A p \in Participants \ (direct \cup enqueued) : p # task.entity
    BY <2>1 DEF FirstInv
  <2>3. said' \in {said, [said EXCEPT ![task.entity] = "alive"]}
    BY <1>11 DEF InsertProxy, UpdateInfo, Say
  <2>4. \A p \in Participants \ (direct \cup enqueued) : said'[p] = said[p]
    BY <1>0, <2>1, <2>2, <2>3 DEF OtherType
  <2>5. \/ task' = NoTask
        \/ task' = [task EXCEPT !.at = "enqueue"] \/ task' = [task EXCEPT !.at = "info"]
    BY <1>11 DEF InsertProxy, UpdateInfo
  <2>6. task'.at \in {"insert_proxy", "info"} => task'.entity = task.entity
    BY <2>1, <2>5, NoTaskIdle, ProxyGoto
  <2>7. UNCHANGED <<direct, enqueued, stored, queue>>
    BY <1>11 DEF InsertProxy, UpdateInfo, database
  <2>. QED BY <1>2, <1>3, <2>1, <2>4, <2>6, <2>7
<1>12. CASE EnqueueParticipant
  <2>1. /\ task.entity = task.guid /\ task.entity \in Entities
        /\ \A y : Pending(y)' <=> Pending(y) \/ y = task.entity
    BY <1>0, <1>12, EnqueueEffect
  <2>2. /\ enqueued' = enqueued \cup {task.entity} /\ said' = [said EXCEPT ![task.entity] = "alive"]
        /\ UNCHANGED <<direct, stored>> /\ task' = NoTask
    BY <1>12, <2>1 DEF EnqueueParticipant, Say, database
  <2>3. \A p \in Participants \ enqueued' : said'[p] = said[p]
    BY <1>0, <2>1, <2>2 DEF OtherType
  <2>. QED BY <1>2, <2>1, <2>2, <2>3, NoTaskIdle
<1>13. CASE EnqueuePlaceholder
  <2>1. task \in ProxyTask /\ \A y : Pending(y)' <=> Pending(y) \/ y = ParticipantOf(task.guid)
    BY <1>13, EnqueueEffect
  <2>2. /\ enqueued' = enqueued \cup {ParticipantOf(task.guid)}
        /\ UNCHANGED <<direct, stored, said>> /\ task' = [task EXCEPT !.at = "enqueue_endpoint"]
    BY <1>13 DEF EnqueuePlaceholder, database, history
  <2>3. task'.at = "enqueue_endpoint"
    BY <2>1, <2>2, ProxyGoto
  <2>. QED BY <1>2, <2>1, <2>2, <2>3
<1>14. CASE EnqueueEndpoint
  <2>1. /\ task \in ProxyTask /\ task.guid \in Endpoints \cup {NoGuid}
        /\ \A y : Pending(y)' <=> Pending(y) \/ y = task.guid
    BY <1>14, EnqueueEffect
  <2>2. /\ said' \in {said, [said EXCEPT ![task.guid] = "alive"]}
        /\ UNCHANGED <<direct, enqueued, stored>> /\ task' = NoTask
    BY <1>14 DEF EnqueueEndpoint, Say, database
  <2>3. \A p \in Participants : said'[p] = said[p] /\ p # task.guid
    BY <1>0, <2>1, <2>2 DEF OtherType
  <2>. QED BY <1>2, <2>1, <2>2, <2>3, NoTaskIdle
<1>15. CASE Undiscover \/ insert \/ update_graph_on_updated_entity
  <2>1. task'.at \notin {"insert_proxy", "info"}
    BY <1>0, <1>15, TaskShape, NoTaskIdle, DisposalGraph, StatusGraph
       DEF Undiscover, insert, update_graph_on_updated_entity, At
  <2>2. UNCHANGED <<direct, enqueued, said, stored, queue>>
    BY <1>15 DEF Undiscover, insert, update_graph_on_updated_entity, database, history
  <2>. QED BY <1>2, <1>3, <2>1, <2>2
<1>. QED BY <1>4, <1>5, <1>6, <1>7, <1>8, <1>9, <1>10, <1>11, <1>12, <1>13, <1>14, <1>15, NextGroups
     DEF MonitorConsumer

LEMMA QuietStep ==
  ASSUME MSType, HandleInv, QuietInv, [MSNext]_msvars
  PROVE  QuietInv'
<1>0. DatabaseType /\ ConsumerType /\ NoGuid \notin Entities
  BY MonitorServiceAssumption DEF MSType
<1>1. ASSUME UNCHANGED task, Excused \subseteq Excused',
             \A x \in Entities \ Excused' : ~Pending(x) =>
               ~Pending(x)' /\ (x \in stored' => x \in stored) /\ born'[x] = born[x]
      PROVE  QuietInv'
  <2>1. task.at = "undiscover" => task.entity \in Entities
    BY <1>0, TaskShape DEF DisposalTask
  <2>2. task.at = "undiscover" /\ task.entity \notin Excused' =>
          /\ ~Pending(task.entity)' /\ born'[task.entity] = task.id
    BY <1>1, <2>1 DEF QuietInv
  <2>. QED BY <1>1, <2>2 DEF QuietInv
<1>2. ASSUME task' \notin ProxyTask, task'.at # "undiscover" PROVE QuietInv'
  BY <1>2 DEF QuietInv
<1>3. ASSUME task' \in ProxyTask, task'.guid # NoGuid PROVE QuietInv'
  BY <1>3, OneShape DEF QuietInv
<1>4. UNCHANGED queue => \A x : Pending(x)' <=> Pending(x)
  BY DEF Pending
<1>5. CASE UNCHANGED msvars
  BY <1>1, <1>4, <1>5 DEF msvars, database, consumer, history, Excused
<1>6. CASE EntityConsumer
  BY <1>1, <1>6, EntityConsumerEffect
<1>7. ASSUME NEW x \in Entities, NEW status \in Statuses, Discovered(x, status) PROVE QuietInv'
  BY <1>1, <1>7, DiscoveredEffect
<1>8. CASE Clear
  BY <1>1, <1>4, <1>8, ClearEffect
<1>9. ASSUME NEW x \in Entities, NEW guid \in {x, NoGuid}, Announce(x, guid) PROVE QuietInv'
  <2>1. /\ task' \in ProxyTask /\ task'.entity = x /\ task'.guid = guid /\ task'.id = born[x]
        /\ task'.at = (IF x \in stored THEN "insert_proxy" ELSE "enqueue")
    BY <1>0, <1>9 DEF Announce, ProxyTask, DatabaseType
  <2>2. /\ UNCHANGED <<born, stored, queue>>
        /\ guid # x => x \in Excused' \/ ~Pending(x)
    BY <1>9 DEF Announce, database, Excused
  <2>3. CASE guid = x
    BY <1>0, <1>3, <2>1, <2>3
  <2>4. CASE guid = NoGuid
    <3>1. x \in Excused' \/ ~Pending(x)
      BY <1>0, <2>2, <2>4
    <3>2. task'.at # "undiscover"
      BY <2>1, OneShape
    <3>. QED BY <1>4, <2>1, <2>2, <3>1, <3>2 DEF QuietInv
  <2>. QED BY <2>3, <2>4
<1>10. ASSUME NEW x \in Entities, Dispose(x) PROVE QuietInv'
  <2>1. UNCHANGED <<born, stored, queue>> /\ (x \in Excused' \/ ~Pending(x)) /\ task = NoTask
    BY <1>0, <1>10, TaskShape DEF Dispose, At, database, Excused
  <2>2. CASE x \in DOMAIN handles /\ handles[x] \in stored
    <3>1. handles[x] = x
      BY <1>0, <2>1, <2>2, NoTaskIdle DEF HandleInv, DatabaseType
    <3>2. /\ task' = [at |-> "undiscover", entity |-> x, guid |-> x, id |-> born[x]]
      BY <1>10, <2>2, <3>1 DEF Dispose
    <3>3. task'.at = "undiscover" /\ task'.entity = x /\ task'.guid = x /\ task'.id = born[x]
      BY <3>2
    <3>4. task' \notin ProxyTask
      BY <3>3, OneShape
    <3>. QED BY <1>4, <2>1, <3>3, <3>4 DEF QuietInv
  <2>3. CASE ~(x \in DOMAIN handles /\ handles[x] \in stored)
    BY <1>2, <1>10, <2>1, <2>3, NoTaskIdle DEF Dispose
  <2>. QED BY <2>2, <2>3
<1>11. ASSUME NEW e \in Endpoints, NEW k \in StatusKinds, NEW ts \in 1 .. MaxTime, NEW bad \in BOOLEAN,
              Report(e, k, ts, bad)
       PROVE  QuietInv'
  <2>1. task'.at = "insert"
    BY <1>11 DEF Report
  <2>. QED BY <1>2, <2>1, OneShape
<1>12. CASE InsertProxy
  <2>1. task \in ProxyTask /\ task.at = "insert_proxy" /\ task.entity \in Entities
    BY <1>0, <1>12, TaskShape DEF InsertProxy, At, ProxyTask
  <2>2. UNCHANGED <<Excused, born, stored, queue>>
    BY <1>12 DEF InsertProxy, database, Excused
  <2>3. CASE Gone /\ task' = [task EXCEPT !.at = "enqueue"]
    <3>1. /\ task' \in ProxyTask /\ task'.at = "enqueue" /\ task'.entity = task.entity
          /\ task'.guid = task.guid
      BY <2>1, <2>3, ProxyGoto
    <3>2. \A x \in Entities \ Excused : task.entity = x /\ task.guid = NoGuid =>
            ~Pending(x) /\ x \notin stored
      BY <2>1, <2>3 DEF QuietInv, Gone
    <3>. QED BY <1>4, <2>2, <3>1, <3>2 DEF QuietInv
  <2>4. CASE task' = [task EXCEPT !.at = "info"] /\ task.guid \in Participants
    BY <1>0, <1>3, <2>1, <2>4, ProxyGoto DEF Entities
  <2>5. CASE task' = NoTask
    BY <1>2, <2>5, NoTaskIdle
  <2>. QED BY <1>12, <2>3, <2>4, <2>5 DEF InsertProxy
<1>13. CASE UpdateInfo
  <2>1. task \in ProxyTask /\ task.guid \in Participants /\ task.guid # NoGuid
    BY <1>0, <1>13, TaskShape DEF UpdateInfo, At, ConsumerType, Entities
  <2>2. task' = NoTask \/ task' = [task EXCEPT !.at = "enqueue"]
    BY <1>13 DEF UpdateInfo
  <2>. QED BY <1>2, <1>3, <2>1, <2>2, NoTaskIdle, ProxyGoto
<1>14. CASE EnqueueParticipant \/ EnqueueEndpoint \/ update_graph_on_updated_entity
  BY <1>2, <1>14, NoTaskIdle DEF EnqueueParticipant, EnqueueEndpoint, update_graph_on_updated_entity
<1>15. CASE EnqueuePlaceholder
  <2>1. /\ task \in ProxyTask /\ task.at = "enqueue"
        /\ \A y : Pending(y)' <=> Pending(y) \/ y = ParticipantOf(task.guid)
    BY <1>15, EnqueueEffect DEF EnqueuePlaceholder, At
  <2>2. UNCHANGED <<Excused, born, stored>> /\ task' = [task EXCEPT !.at = "enqueue_endpoint"]
    BY <1>15 DEF EnqueuePlaceholder, database, history, Excused
  <2>3. /\ task' \in ProxyTask /\ task'.at = "enqueue_endpoint" /\ task'.entity = task.entity
        /\ task'.guid = task.guid
    BY <2>1, <2>2, ProxyGoto
  <2>4. task.guid = NoGuid => ParticipantOf(task.guid) = NoGuid
    BY <1>0 DEF ParticipantOf, Entities
  <2>5. \A x \in Entities \ Excused : task.entity = x /\ task.guid = NoGuid =>
          ~Pending(x) /\ x \notin stored
    BY <2>1 DEF QuietInv
  <2>6. CASE task.guid # NoGuid
    BY <1>3, <2>3, <2>6
  <2>7. CASE task.guid = NoGuid
    BY <1>0, <2>1, <2>2, <2>3, <2>4, <2>5, <2>7 DEF QuietInv
  <2>. QED BY <2>6, <2>7
<1>16. CASE Undiscover \/ insert
  <2>1. task' = NoTask \/ (task'.at = "graph" /\ task' \notin ProxyTask)
    BY <1>0, <1>16, TaskShape, DisposalGraph, StatusGraph, OneShape DEF Undiscover, insert, At
  <2>. QED BY <1>2, <2>1, NoTaskIdle
<1>. QED BY <1>5, <1>6, <1>7, <1>8, <1>9, <1>10, <1>11, <1>12, <1>13, <1>14, <1>15, <1>16, NextGroups
     DEF MonitorConsumer

LEMMA DisposableStep ==
  ASSUME MSType, SourceInv, FirstInv, HandleInv, QuietInv, DisposableInv, [MSNext]_msvars
  PROVE  DisposableInv'
<1>0. /\ DatabaseType /\ ConsumerType /\ OtherType /\ NoGuid \notin Entities
      /\ DOMAIN handles \subseteq Entities /\ said \in [Entities -> {"nothing", "alive", "gone"}]
      /\ active \subseteq stored
  BY MonitorServiceAssumption DEF MSType, OtherType, ConsumerType, DatabaseType
<1>1. ASSUME Excused \subseteq Excused',
             \A x \in Entities \ Excused' :
               /\ x \in active' \/ Pending(x)' => x \in active \/ Pending(x) \/ Disposable(x)'
               /\ (x \in active' \/ Pending(x)') /\ Disposable(x) => Disposable(x)'
      PROVE  DisposableInv'
  BY <1>1 DEF DisposableInv
<1>2. UNCHANGED queue => \A x : Pending(x)' <=> Pending(x)
  BY DEF Pending
<1>3. CASE UNCHANGED msvars
  BY <1>1, <1>2, <1>3 DEF msvars, database, consumer, history, Disposable, Excused
<1>4. CASE EntityConsumer
  <2>1. ~terminated /\ UNCHANGED <<handles, task, Excused, said>>
    BY <1>4, EntityConsumerEffect
  <2>2. \A x : Disposable(x) => Disposable(x)'
    BY <2>1 DEF Disposable
  <2>. QED BY <1>1, <1>4, <2>1, <2>2, EntityConsumerEffect
<1>5. ASSUME NEW x \in Entities, NEW status \in Statuses, Discovered(x, status) PROVE DisposableInv'
  <2>1. \A y : Disposable(y) => Disposable(y)'
    BY <1>5, DiscoveredEffect DEF Disposable
  <2>. QED BY <1>1, <1>5, <2>1, DiscoveredEffect
<1>6. CASE Clear
  <2>1. \A y : Disposable(y) => Disposable(y)'
    BY <1>6, ClearEffect DEF Disposable
  <2>. QED BY <1>1, <1>2, <1>6, <2>1, ClearEffect
<1>7. CASE MonitorConsumer
  <2>0. UNCHANGED stored /\ Excused \subseteq Excused' /\ active' \subseteq active /\ ~terminated
    BY <1>7, MonitorConsumerEffect
  <2>1. ASSUME UNCHANGED queue,
               \A x \in Entities \ Excused' :
                 (x \in active' \/ Pending(x)) /\ Disposable(x) => Disposable(x)'
        PROVE  DisposableInv'
    BY <1>1, <1>2, <2>0, <2>1
  <2>2. ASSUME task.at \notin {"undiscover", "enqueue_endpoint"}, UNCHANGED <<queue, handles, said>>
        PROVE  DisposableInv'
    <3>1. \A x \in Entities \ Excused : Disposable(x) => Disposable(x)'
      BY <2>0, <2>2 DEF Disposable
    <3>. QED BY <2>0, <2>1, <2>2, <3>1
  <2>3. ASSUME NEW x \in Entities, NEW guid, Announce(x, guid) PROVE DisposableInv'
    BY <2>2, <2>3 DEF Announce, At
  <2>4. ASSUME NEW e, NEW k, NEW ts, NEW bad, Report(e, k, ts, bad) PROVE DisposableInv'
    BY <2>2, <2>4 DEF Report, At, history
  <2>5. ASSUME NEW y \in Entities, Dispose(y) PROVE DisposableInv'
    <3>1. UNCHANGED queue /\ task = NoTask /\ (y \in Excused' \/ ~Pending(y)) /\ UNCHANGED active
      BY <1>0, <2>5, TaskShape DEF Dispose, At, database, Excused
    <3>2. ASSUME NEW x \in Entities \ Excused', x \in active' \/ Pending(x), Disposable(x)
          PROVE  Disposable(x)'
      <4>1. \/ x \in Participants /\ said[x] = "nothing"
            \/ x \in DOMAIN handles /\ handles[x] = x /\ said[x] # "gone"
        BY <2>0, <3>1, <3>2, NoTaskIdle DEF Disposable
      <4>2. said[x] = "nothing" => said'[x] = "nothing"
        BY <1>0, <2>5 DEF Dispose, Say
      <4>3. CASE x = y
        <5>1. x \in stored
          BY <1>0, <2>0, <3>1, <3>2, <4>3
        <5>2. x \in DOMAIN handles /\ handles[x] = x => task'.at = "undiscover" /\ task'.entity = x
          BY <2>5, <4>3, <5>1 DEF Dispose
        <5>. QED BY <4>1, <4>2, <5>2 DEF Disposable
      <4>4. CASE x # y
        <5>1. said'[x] = said[x]
          BY <1>0, <2>5, <4>4 DEF Dispose, Say
        <5>2. x \in DOMAIN handles => x \in DOMAIN handles' /\ handles'[x] = handles[x]
          BY <2>5, <4>4 DEF Dispose, Without, Restrict
        <5>. QED BY <4>1, <5>1, <5>2 DEF Disposable
      <4>. QED BY <4>3, <4>4
    <3>. QED BY <2>1, <3>1, <3>2
  <2>6. CASE InsertProxy
    <3>1. task \in ProxyTask /\ task.at = "insert_proxy" /\ UNCHANGED <<queue, handles>>
          /\ task.entity \in Entities
      BY <1>0, <2>6, TaskShape DEF InsertProxy, At, ProxyTask
    <3>2. CASE UNCHANGED said
      BY <2>2, <3>1, <3>2
    <3>3. CASE /\ said' = [said EXCEPT ![task.entity] = "alive"] /\ task.guid = task.entity
               /\ ~(task.guid \in Participants /\ source[task.entity] # "DISCOVERY")
      <4>1. \A x \in Entities \ Excused : x = task.entity => x \notin Participants
        BY <3>3 DEF SourceInv, Excused
      <4>2. \A x \in Entities \ Excused : Disposable(x) => Disposable(x)'
        BY <1>0, <2>0, <3>1, <3>3, <4>1 DEF Disposable
      <4>. QED BY <2>0, <2>1, <3>1, <4>2
    <3>. QED BY <2>6, <3>2, <3>3 DEF InsertProxy, Say
  <2>7. CASE UpdateInfo
    <3>1. /\ task \in ProxyTask /\ task.at = "info" /\ UNCHANGED queue /\ task.entity \in Entities
          /\ task.guid = task.entity
      BY <1>0, <2>7, TaskShape DEF UpdateInfo, At, ProxyTask, ConsumerType, Entities
    <3>2. CASE UNCHANGED <<handles, said>>
      BY <2>2, <3>1, <3>2
    <3>3. CASE /\ handles' = With(handles, task.entity, task.entity)
               /\ said' = [said EXCEPT ![task.entity] = "alive"]
      <4>1. \A x \in Entities \ Excused : Disposable(x) => Disposable(x)'
        BY <1>0, <2>0, <3>1, <3>3 DEF Disposable, With
      <4>. QED BY <2>0, <2>1, <3>1, <4>1
    <3>. QED BY <2>7, <3>1, <3>2, <3>3 DEF UpdateInfo, Say
  <2>8. ASSUME task.entity \in Entities, task.at # "undiscover",
               handles' = With(handles, task.entity, task.entity),
               said' = [said EXCEPT ![task.entity] = "alive"],
               \A x : Pending(x)' <=> Pending(x) \/ x = task.entity
        PROVE  DisposableInv'
    <3>1. \A x \in Entities \ Excused : x = task.entity => Disposable(x)'
      BY <1>0, <2>8 DEF Disposable, With
    <3>2. \A x \in Entities \ Excused : x # task.entity /\ Disposable(x) => Disposable(x)'
      BY <1>0, <2>0, <2>8 DEF Disposable, With
    <3>. QED BY <1>1, <2>0, <2>8, <3>1, <3>2
  <2>9. CASE EnqueueParticipant
    <3>1. /\ task \in ProxyTask /\ task.guid = task.entity
          /\ \A y : Pending(y)' <=> Pending(y) \/ y = task.entity
      BY <2>9, EnqueueEffect
    <3>2. /\ handles' = With(handles, task.entity, task.entity) /\ task.at = "enqueue"
          /\ said' = [said EXCEPT ![task.entity] = "alive"]
      BY <2>9, <3>1 DEF EnqueueParticipant, Handle, At, Say
    <3>. QED BY <2>8, <3>1, <3>2 DEF ProxyTask
  <2>10. ASSUME task \in ProxyTask, task.guid = NoGuid, task.at \in {"enqueue", "enqueue_endpoint"},
                NEW v, handles' = With(handles, task.entity, v), UNCHANGED said,
                \A y : Pending(y)' <=> Pending(y) \/ y = NoGuid
         PROVE  DisposableInv'
    <3>1. \A x \in Entities \ Excused : x = task.entity => x \notin active /\ ~Pending(x)
      BY <1>0, <2>10 DEF QuietInv
    <3>2. \A x \in Entities \ Excused : x # task.entity /\ Disposable(x) => Disposable(x)'
      BY <2>0, <2>10 DEF Disposable, With
    <3>. QED BY <1>0, <1>1, <2>0, <2>10, <3>1, <3>2
  <2>11. CASE EnqueueEndpoint
    <3>1. /\ task \in ProxyTask /\ task.guid \in (Endpoints \cap {task.entity}) \cup {NoGuid}
          /\ \A y : Pending(y)' <=> Pending(y) \/ y = task.guid
      BY <2>11, EnqueueEffect
    <3>2. /\ handles' = With(handles, task.entity, task.guid)
          /\ task.at \in {"enqueue", "enqueue_endpoint"}
      BY <2>11 DEF EnqueueEndpoint, Handle, At
    <3>3. task.entity \in Entities
      BY <3>1 DEF ProxyTask
    <3>4. CASE task.guid = task.entity
      BY <2>8, <2>11, <3>1, <3>2, <3>3, <3>4 DEF EnqueueEndpoint, Say
    <3>5. CASE task.guid = NoGuid
      BY <1>0, <2>10, <2>11, <3>1, <3>2, <3>3, <3>5 DEF EnqueueEndpoint
    <3>. QED BY <3>1, <3>4, <3>5
  <2>12. CASE EnqueuePlaceholder
    <3>1. /\ task \in ProxyTask /\ task.guid \in (Endpoints \cap {task.entity}) \cup {NoGuid}
          /\ \A y : Pending(y)' <=> Pending(y) \/ y = ParticipantOf(task.guid)
      BY <2>12, EnqueueEffect
    <3>2. /\ handles' = With(handles, task.entity, ParticipantOf(task.guid)) /\ UNCHANGED said
          /\ task.at = "enqueue" /\ task' = [task EXCEPT !.at = "enqueue_endpoint"]
          /\ ParticipantOf(task.guid) \notin enqueued
      BY <2>12 DEF EnqueuePlaceholder, Handle, At, history
    <3>3. CASE task.guid = NoGuid
      BY <1>0, <2>10, <3>1, <3>2, <3>3 DEF ParticipantOf, Entities
    <3>4. CASE task.guid = task.entity /\ task.guid \in Endpoints
      <4>1. task'.at = "enqueue_endpoint" /\ task'.entity = task.entity /\ task'.guid = task.entity
        BY <3>1, <3>2, <3>4, ProxyGoto
      <4>. PICK p \in Participants : p = Owner[task.guid] /\ p = ParticipantOf(task.guid)
        BY <3>4, MonitorServiceAssumption DEF ParticipantOf
      <4>2. p \notin Excused => Disposable(p)'
        BY <3>2 DEF FirstInv, Disposable, Excused
      <4>3. \A x \in Entities \ Excused : x = task.entity => Disposable(x)'
        BY <4>1 DEF Disposable
      <4>4. \A x \in Entities \ Excused : x # task.entity /\ Disposable(x) => Disposable(x)'
        BY <2>0, <3>2 DEF Disposable, With
      <4>. QED BY <1>1, <2>0, <3>1, <4>2, <4>3, <4>4
    <3>. QED BY <3>1, <3>3, <3>4
  <2>13. CASE Undiscover
    <3>1. /\ task \in DisposalTask /\ task.at = "undiscover" /\ task.guid = task.entity
          /\ UNCHANGED <<queue, said>> /\ handles' = Without(handles, {task.entity})
      BY <1>0, <2>13, TaskShape DEF Undiscover, At, QuietInv, history
    <3>2. ASSUME NEW x \in Entities \ Excused, x \in active' \/ Pending(x), Disposable(x)
          PROVE  Disposable(x)'
      <4>1. CASE x = task.entity
        <5>1. ~Pending(x) /\ born[x] = task.id
          BY <3>1, <4>1 DEF QuietInv
        <5>2. x \in active' /\ x \in active /\ x \in stored /\ ~Gone
          BY <1>0, <2>0, <3>2, <4>1, <5>1 DEF Gone
        <5>3. change_entity_status(x, FALSE)
          BY <2>13, <4>1, <5>2 DEF Undiscover
        <5>4. terminated'
          BY <5>2, <5>3 DEF change_entity_status
        <5>. QED BY <5>4 DEF Disposable
      <4>2. CASE x # task.entity
        <5>1. x \in DOMAIN handles => x \in DOMAIN handles' /\ handles'[x] = handles[x]
          BY <3>1, <4>2 DEF Without, Restrict
        <5>. QED BY <2>0, <3>1, <3>2, <4>2, <5>1 DEF Disposable
      <4>. QED BY <4>1, <4>2
    <3>. QED BY <2>0, <2>1, <3>1, <3>2
  <2>14. CASE insert \/ update_graph_on_updated_entity
    BY <2>2, <2>14 DEF insert, update_graph_on_updated_entity, At, history
  <2>. QED BY <1>7, <2>3, <2>4, <2>5, <2>6, <2>7, <2>9, <2>11, <2>12, <2>13, <2>14 DEF MonitorConsumer
<1>. QED BY <1>3, <1>4, <1>5, <1>6, <1>7, NextGroups

(* A proxy that was announced and then disposed of is inactive once both    *)
(* queues are empty, unless plain discovery announced it too or a disposal  *)
(* of it overtook something in the entity queue: no other interleaving of   *)
(* the consumers, plain discovery and the clearing leaves it active.        *)
THEOREM DisposalTakesEffect == MSSpec => []DisposedInactive
<1>. DEFINE Inv == SourceInv /\ FirstInv /\ HandleInv /\ QuietInv /\ DisposableInv
<1>1. MSInit => Inv
  BY NoTaskIdle, OneShape
     DEF MSInit, SourceInv, FirstInv, HandleInv, QuietInv, DisposableInv, Pending, Entities
<1>2. MSType /\ Inv /\ [MSNext]_msvars => Inv'
  BY SourceStep, FirstStep, HandleStep, QuietStep, DisposableStep
<1>3. MSType /\ Inv => DisposedInactive
  BY DEF MSType, DatabaseType, DisposableInv, Disposable, DisposedInactive, QueuesEmpty, Pending,
         Excused
<1>. HIDE DEF Inv
<1>. QED BY <1>1, <1>2, <1>3, TypeInvariant, PTL DEF MSSpec

=============================================================================
