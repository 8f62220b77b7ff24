--------------------------- MODULE MonitorService ---------------------------
(***************************************************************************)
(* The monitor service: the consumer of DatabaseDataQueue                  *)
(* <ExtendedMonitorServiceStatusData>, which turns what participants       *)
(* publish about their entities into status levels, and into entities that *)
(* plain discovery does not see (proxies, known through a router).         *)
(*                                                                         *)
(* A proxy that the database does not know goes to the entity queue, where *)
(* discovery callbacks push too.  The consumers of the two queues share    *)
(* the database and run at the same time: every action is one critical     *)
(* section of Database::mutex_, or one push.  The application may call     *)
(* clear_inactive_entities() and clear_statistics_data() between any two.  *)
(*                                                                         *)
(* The interleavings inside a discovery handler are those of               *)
(* EntityDatabase; here it takes two sections, the entities and the graph. *)
(* All participants run in one process, and each endpoint is alone on its  *)
(* topic.                                                                  *)
(***************************************************************************)
EXTENDS Naturals, Sequences, Functions

CONSTANTS
  Participants, Readers, Writers,
  Owner,         (* participant of each endpoint                           *)
  NoGuid,        (* the GUID of a sample without discovery data            *)
  StatusKinds,   (* the kinds of status that are reported                  *)
  MaxArrivals,   (* bound on samples and discovery announcements           *)
  MaxTime        (* bound on source timestamps                             *)

Endpoints == Readers \cup Writers
Entities == Participants \cup Endpoints

ASSUME MonitorServiceAssumption ==
  /\ Participants \cap Endpoints = {} /\ Readers \cap Writers = {}
  /\ Owner \in [Endpoints -> Participants]
  /\ NoGuid \notin Entities
  /\ MaxArrivals \in Nat /\ MaxTime \in Nat

VARIABLES
  stored,     (* participants and endpoints of the database               *)
  active,     (* those whose `active' is set                              *)
  orphans,    (* endpoints whose `participant' has expired                *)
  born,       (* how often an entity was created: its id changes each time *)
  source,     (* discovery_source                                         *)
  level,      (* status                                                   *)
  last,       (* the newest sample of each kind of an endpoint            *)
  nodes,      (* domain_view_graph: the status shown for each entity in it *)
  handles,    (* proxy_entity_handles_to_guid; a handle is its entity     *)
  enqueued,   (* participant_enqueued                                     *)
  queue,      (* the entity queue                                         *)
  due,        (* the entity whose graph update the entity consumer owes   *)
  task,       (* the sample in work and where the monitor consumer is     *)
  net,        (* entities that plain discovery announces as alive         *)
  terminated, (* an exception left a noexcept function or the thread      *)
  arrivals,
  direct,     (* history: entities that plain discovery ever announced    *)
  erased,     (* history: entities that were ever erased                  *)
  said,       (* history: the last PROXY sample processed of each entity  *)
  reports,    (* history: the status samples of each stored endpoint      *)
  overtaken,  (* history: entities whose disposal overtook something      *)
              (* about them in the entity queue                           *)
  cleared     (* history: endpoints that lost status samples since their  *)
              (* status was computed                                      *)

database == <<stored, active, orphans, born, source, level, last>>
consumer == <<handles, enqueued, task>>
history == <<direct, erased, said, reports, overtaken, cleared>>
msvars == <<database, nodes, consumer, queue, due, net, terminated, arrivals, history>>

Sources == {"UNKNOWN", "INFERRED", "PROXY", "DISCOVERY"}
Levels == {"OK_STATUS", "WARNING_STATUS", "ERROR_STATUS"}
Statuses == {"DISCOVERY", "UPDATE", "UNDISCOVERY"}
NoSample == [ts |-> 0, bad |-> FALSE]
NoTask == [at |-> "idle"]

MSInit ==
  /\ stored = {} /\ active = {} /\ orphans = {}
  /\ born = [x \in Entities |-> 0]
  /\ source = [x \in Entities |-> "UNKNOWN"]
  /\ level = [x \in Entities |-> "OK_STATUS"]
  /\ last = [e \in Endpoints |-> [k \in StatusKinds |-> NoSample]]
  /\ nodes = <<>> /\ handles = <<>> /\ enqueued = {}
  /\ queue = <<>> /\ due = NoGuid /\ task = NoTask
  /\ net = {} /\ terminated = FALSE /\ arrivals = 0
  /\ direct = {} /\ erased = {}
  /\ said = [x \in Entities |-> "nothing"]
  /\ reports = [e \in Endpoints |-> {}]
  /\ overtaken = {} /\ cleared = {}

With(f, x, v) == [y \in DOMAIN f \cup {x} |-> IF y = x THEN v ELSE f[y]]
Without(f, S) == Restrict(f, DOMAIN f \ S)

(***************************************************************************)
(* The database.                                                           *)
(***************************************************************************)
Members(p) == {e \in (stored \cap Endpoints) \ orphans : Owner[e] = p}

(* change_entity_status(): a participant that turns inactive takes its      *)
(* endpoints along.  The status of a topic follows its endpoint, and asks   *)
(* for the participant of the endpoint in a noexcept function.              *)
change_entity_status(x, on) ==
  LET changes == (x \in active) # on IN
  /\ terminated' = (changes /\ x \in orphans)
  /\ active' = IF ~changes \/ x \in orphans THEN active
               ELSE IF on THEN active \cup {x}
               ELSE active \ ({x} \cup (IF x \in Participants THEN Members(x) ELSE {}))

(* update_participant_in_graph_nts() and update_endpoint_in_graph_nts().    *)
ParticipantInGraph(p) ==
  IF active \cap Participants = {} THEN <<>>
  ELSE IF p \in active THEN With(nodes, p, level[p])
  ELSE Without(nodes, {p} \cup {e \in Endpoints : Owner[e] = p})

EndpointInGraph(e) ==
  IF Owner[e] \notin DOMAIN nodes THEN nodes
  ELSE IF e \in active THEN With(nodes, e, level[e])
  ELSE Without(nodes, {e})

(* regenerate_domain_graph_nts(): the active entities below active ones.    *)
Regenerated(kept, on, levels) ==
  LET shown == {x \in kept \cap on :
                  x \in Participants \/ (x \notin orphans /\ Owner[x] \in kept \cap on)}
  IN  [x \in shown |-> levels[x]]

(* MUTANT: a source may replace any other.                                  *)
update_enabled_Always(current, new) == TRUE

(* Which source of discovery information may replace which.                 *)
update_enabled(current, new) ==
  CASE current = "DISCOVERY" -> new = "DISCOVERY"
    [] current = "PROXY" -> new \in {"DISCOVERY", "PROXY"}
    [] current = "INFERRED" -> new # "UNKNOWN"
    [] OTHER -> TRUE

(* update_participant_discovery_info_nts(): the status is replaced too, and *)
(* a graph that changed is regenerated.                                     *)
update_participant_discovery_info(p, new, on) ==
  LET levels == [level EXCEPT ![p] = "OK_STATUS"]
      graph_updated == on \cap Participants # {} \/ DOMAIN nodes # {}
  IN  IF ~update_enabled(source[p], new) THEN UNCHANGED <<source, level, nodes>>
      ELSE /\ source' = [source EXCEPT ![p] = new]
           /\ level' = levels
           /\ nodes' = IF graph_updated THEN Regenerated(stored, on, levels) ELSE nodes

(* A new participant or endpoint; it is active, and its status is OK.       *)
Create(x, from) ==
  /\ stored' = stored \cup {x}
  /\ active' = active \cup {x}
  /\ born' = [born EXCEPT ![x] = @ + 1]
  /\ source' = [source EXCEPT ![x] = from]
  /\ level' = [level EXCEPT ![x] = "OK_STATUS"]

(* MUTANT: only samples with the timestamp of the newest are rejected.      *)
IsOld_Equal(e, k, ts) == ts = last[e][k].ts

(* Samples with old timestamps are rejected.                                *)
IsOld(e, k, ts) == ts <= last[e][k].ts

(* The kinds of status that insert_nts() takes for an endpoint.             *)
Supported(e, k) ==
  /\ k = "LIVELINESS_LOST" => e \in Writers
  /\ k \in {"LIVELINESS_CHANGED", "SAMPLE_LOST"} => e \in Readers

(* update_entity_status_nts() and entity_status_logic_nts(), on the newest  *)
(* sample of each kind.  Only DEADLINE_MISSED, SAMPLE_LOST and              *)
(* LIVELINESS_LOST warn, and only EXTENDED_INCOMPATIBLE_QOS is an error.    *)
Warnings == {"DEADLINE_MISSED", "SAMPLE_LOST", "LIVELINESS_LOST"}
update_entity_status(newest) ==
  IF "EXTENDED_INCOMPATIBLE_QOS" \in StatusKinds /\ newest["EXTENDED_INCOMPATIBLE_QOS"].bad
  THEN "ERROR_STATUS"
  ELSE IF \E k \in StatusKinds \cap Warnings : newest[k].bad THEN "WARNING_STATUS"
  ELSE "OK_STATUS"

(***************************************************************************)
(* The consumer of the monitor service data: process_sample().  A sample   *)
(* goes through the queue to the consumer in the order of arrival.         *)
(***************************************************************************)
At(step) == ~terminated /\ task.at = step

(* The id that the sample was resolved to is no longer in the database.     *)
Gone == task.entity \notin stored \/ born[task.entity] # task.id

Arrives == ~terminated /\ arrivals < MaxArrivals /\ arrivals' = arrivals + 1

Pending(x) == \E i \in DOMAIN queue : queue[i].entity = x

(* A PROXY sample of x arrives and its entity is looked up.  `guid' is what *)
(* deserialize_proxy_data() found in it: an empty sample, which an entity   *)
(* sends when it is deleted, leaves the discovery data unset.               *)
Announce(x, guid) ==
  /\ At("idle") /\ Arrives
  /\ overtaken' = IF guid # x /\ Pending(x) THEN overtaken \cup {x} ELSE overtaken
  /\ task' = [at |-> IF x \in stored THEN "insert_proxy" ELSE "enqueue",
              entity |-> x, guid |-> guid, id |-> born[x]]
  /\ UNCHANGED <<database, nodes, handles, enqueued, queue, due, net, terminated, direct,
                 erased, said, reports, cleared>>

Say(x, what) == said' = [said EXCEPT ![x] = what]

(* insert(), update_entity_qos() and the test of the discovery source: the  *)
(* last of three sections.  The first two can only fail when the entity is  *)
(* gone, which it then is in the last one too.                              *)
InsertProxy ==
  LET x == task.entity
      known_source == task.guid \in Participants /\ source[x] # "DISCOVERY"
  IN  /\ At("insert_proxy")
      /\ \/ /\ Gone
            /\ task' = [task EXCEPT !.at = "enqueue"]
            /\ UNCHANGED said
         \/ /\ ~Gone /\ known_source
            /\ task' = [task EXCEPT !.at = "info"]
            /\ UNCHANGED said
         \/ /\ ~Gone /\ ~known_source
            /\ task' = NoTask
            /\ IF task.guid = x THEN Say(x, "alive") ELSE UNCHANGED said
      /\ UNCHANGED <<database, nodes, handles, enqueued, queue, due, net, terminated,
                     arrivals, direct, erased, reports, overtaken, cleared>>

(* A participant that discovery did not announce is updated.                *)
UpdateInfo ==
  LET p == task.entity IN
  /\ At("info")
  /\ \/ /\ Gone
        /\ task' = [task EXCEPT !.at = "enqueue"]
        /\ UNCHANGED <<source, level, nodes, handles, said>>
     \/ /\ ~Gone
        /\ update_participant_discovery_info(p, "PROXY", active)
        /\ handles' = With(handles, p, task.guid)
        /\ task' = NoTask
        /\ Say(p, "alive")
  /\ UNCHANGED <<stored, active, orphans, born, last, enqueued, queue, due, net,
                 terminated, arrivals, direct, erased, reports, overtaken, cleared>>

Info(x, kind, status, from) ==
  [entity |-> x, kind |-> kind, status |-> status, source |-> from]

KindOf(guid) ==
  IF guid \in Participants THEN "PARTICIPANT"
  ELSE IF guid \in Endpoints THEN "ENDPOINT" ELSE "INVALID"

ParticipantOf(guid) == IF guid \in Endpoints THEN Owner[guid] ELSE guid

(* MUTANT: the placeholder is pushed as an update.                          *)
Placeholder_Update(p) == Info(p, "PARTICIPANT", "UPDATE", "INFERRED")

Placeholder(p) == Info(p, "PARTICIPANT", "DISCOVERY", "INFERRED")

(* MUTANT: the handle of an endpoint is not kept.                           *)
Handle_ParticipantsOnly(guid) ==
  IF guid \in Endpoints THEN handles ELSE With(handles, task.entity, guid)

Handle(guid) == With(handles, task.entity, guid)

(* The catch of the PROXY case: what is unknown is pushed to the entity     *)
(* queue, after a placeholder for its participant if that never was.        *)
EnqueueParticipant ==
  LET p == task.guid IN
  /\ At("enqueue") /\ p \in Participants
  /\ queue' = Append(queue, Info(p, "PARTICIPANT",
                                 IF p \in enqueued THEN "UPDATE" ELSE "DISCOVERY", "PROXY"))
  /\ enqueued' = enqueued \cup {p}
  /\ handles' = Handle(p)
  /\ task' = NoTask
  /\ Say(task.entity, "alive")
  /\ UNCHANGED <<database, nodes, due, net, terminated, arrivals, direct, erased, reports,
                 overtaken, cleared>>

EnqueuePlaceholder ==
  LET p == ParticipantOf(task.guid) IN
  /\ At("enqueue") /\ task.guid \notin Participants /\ p \notin enqueued
  /\ queue' = Append(queue, Placeholder(p))
  /\ enqueued' = enqueued \cup {p}
  /\ handles' = Handle(p)
  /\ task' = [task EXCEPT !.at = "enqueue_endpoint"]
  /\ UNCHANGED <<database, nodes, due, net, terminated, arrivals, history>>

EnqueueEndpoint ==
  LET e == task.guid IN
  /\ \/ At("enqueue_endpoint")
     \/ At("enqueue") /\ e \notin Participants /\ ParticipantOf(e) \in enqueued
  /\ queue' = Append(queue, Info(e, KindOf(e), "DISCOVERY",
                                 IF e = NoGuid THEN "UNKNOWN" ELSE "PROXY"))
  /\ handles' = Handle(e)
  /\ task' = NoTask
  /\ IF e = task.entity THEN Say(e, "alive") ELSE UNCHANGED said
  /\ UNCHANGED <<database, nodes, enqueued, due, net, terminated, arrivals, direct,
                 erased, reports, overtaken, cleared>>

(* A PROXY instance is disposed or has lost its writers: the entity that    *)
(* its handle stands for is looked up, whatever is in the entity queue.     *)
Dispose(x) ==
  /\ At("idle") /\ Arrives
  /\ overtaken' = IF Pending(x) THEN overtaken \cup {x} ELSE overtaken
  /\ IF said[x] = "alive" THEN Say(x, "gone") ELSE UNCHANGED said
  /\ IF x \in DOMAIN handles /\ handles[x] \in stored
     THEN /\ task' = [at |-> "undiscover", entity |-> handles[x], guid |-> x,
                      id |-> born[handles[x]]]
          /\ UNCHANGED handles
     ELSE handles' = Without(handles, {x}) /\ UNCHANGED task
  /\ UNCHANGED <<database, nodes, enqueued, queue, due, net, terminated, direct, erased,
                 reports, cleared>>

Undiscover ==
  /\ At("undiscover")
  /\ handles' = Without(handles, {task.guid})
  /\ IF Gone THEN task' = NoTask /\ UNCHANGED <<active, terminated>>
     ELSE /\ change_entity_status(task.entity, FALSE)
          /\ task' = [task EXCEPT !.at = "graph"]
  /\ UNCHANGED <<stored, orphans, born, source, level, last, nodes, enqueued, queue, due,
                 net, arrivals, history>>

(* A sample of another kind of status arrives, and its entity is looked up. *)
Report(e, k, ts, bad) ==
  /\ At("idle") /\ Arrives
  /\ e \in stored
  /\ task' = [at |-> "insert", entity |-> e, id |-> born[e],
              kind |-> k, ts |-> ts, bad |-> bad]
  /\ UNCHANGED <<database, nodes, handles, enqueued, queue, due, net, terminated, history>>

(* MUTANT: the graph is only updated when the status gets worse.            *)
Updated_Worse(old, new) == old # new /\ new # "OK_STATUS"

(* entity_status_logic_nts() says whether the status changed.               *)
Updated(old, new) == old # new

insert ==
  LET e == task.entity
      k == task.kind
      taken == ~Gone /\ Supported(e, k) /\ ~IsOld(e, k, task.ts)
      newest == [last[e] EXCEPT ![k] = [ts |-> task.ts, bad |-> task.bad]]
      status == update_entity_status(newest)
  IN  /\ At("insert")
      /\ IF ~taken THEN task' = NoTask /\ UNCHANGED <<last, level>>
         ELSE /\ last' = [last EXCEPT ![e] = newest]
              /\ level' = [level EXCEPT ![e] = status]
              /\ task' = IF Updated(level[e], status) THEN [task EXCEPT !.at = "graph"]
                         ELSE NoTask
      /\ reports' = IF Gone \/ ~Supported(e, k)
                       \/ \E r \in reports[e] : r.kind = k /\ r.ts = task.ts
                    THEN reports
                    ELSE [reports EXCEPT ![e] =
                            @ \cup {[kind |-> k, ts |-> task.ts, bad |-> task.bad]}]
      /\ cleared' = IF taken THEN cleared \ {e} ELSE cleared
      /\ UNCHANGED <<stored, active, orphans, born, source, nodes, handles, enqueued, queue,
                     due, net, terminated, arrivals, direct, erased, said, overtaken>>

(* update_graph_on_updated_entity(), outside of every try block: an entity  *)
(* that is gone ends the program.                                           *)
update_graph_on_updated_entity ==
  LET x == task.entity IN
  /\ At("graph")
  /\ task' = NoTask
  /\ terminated' = Gone
  /\ nodes' = IF Gone \/ x \in orphans THEN nodes
              ELSE IF x \in Participants THEN ParticipantInGraph(x)
              ELSE EndpointInGraph(x)
  /\ UNCHANGED <<database, handles, enqueued, queue, due, net, arrivals, history>>

(***************************************************************************)
(* The consumer of the entity queue.                                       *)
(***************************************************************************)
Consumes == ~terminated /\ due = NoGuid /\ queue # <<>>

Drop == queue' = Tail(queue) /\ UNCHANGED <<due, database, nodes, terminated>>

(* process_participant() up to its last critical section.                   *)
process_participant ==
  LET info == Head(queue)
      p == info.entity
      on == info.status # "UNDISCOVERY"
  IN  /\ Consumes /\ p \in Participants
      /\ \/ /\ p \in stored
            /\ change_entity_status(p, on)
            /\ IF info.status = "UPDATE"
               THEN update_participant_discovery_info(p, info.source, active')
               ELSE UNCHANGED <<source, level, nodes>>
            /\ due' = p
            /\ UNCHANGED <<stored, orphans, born, last, queue>>
         \/ /\ p \notin stored /\ info.status = "DISCOVERY"
            /\ Create(p, info.source)
            /\ due' = p
            /\ UNCHANGED <<orphans, last, nodes, queue, terminated>>
         \/ p \notin stored /\ info.status # "DISCOVERY" /\ Drop
      /\ UNCHANGED <<consumer, net, arrivals, history>>

(* process_datareader() and process_datawriter().  A known endpoint whose   *)
(* participant is gone changes its status and is then dropped.              *)
process_endpoint ==
  LET info == Head(queue)
      e == info.entity
      on == info.status # "UNDISCOVERY"
  IN  /\ Consumes /\ e \in Endpoints
      /\ \/ /\ e \in stored
            /\ change_entity_status(e, on)
            /\ IF Owner[e] \in stored THEN due' = e /\ UNCHANGED queue
               ELSE queue' = Tail(queue) /\ UNCHANGED due
            /\ UNCHANGED <<stored, orphans, born, source, level, last, nodes>>
         \/ /\ e \notin stored /\ info.status = "DISCOVERY" /\ Owner[e] \in stored
            /\ Create(e, info.source)
            /\ due' = e
            /\ UNCHANGED <<orphans, last, nodes, queue, terminated>>
         \/ /\ e \notin stored /\ (info.status = "DISCOVERY" => Owner[e] \notin stored)
            /\ Drop
      /\ UNCHANGED <<consumer, net, arrivals, history>>

(* A placeholder without GUID belongs to no domain, and what is of no kind  *)
(* is ignored where assert() is compiled out.                               *)
process_invalid ==
  /\ Consumes /\ Head(queue).entity = NoGuid
  /\ Drop
  /\ UNCHANGED <<consumer, net, arrivals, history>>

(* The graph update at the end of the handlers, and pop().  It throws at an *)
(* entity that was cleared meanwhile.                                       *)
ProcessGraph ==
  /\ ~terminated /\ due # NoGuid
  /\ nodes' = IF due \notin stored THEN nodes
              ELSE IF due \in Participants THEN ParticipantInGraph(due)
              ELSE EndpointInGraph(due)
  /\ due' = NoGuid
  /\ queue' = Tail(queue)
  /\ UNCHANGED <<database, consumer, net, terminated, arrivals, history>>

(***************************************************************************)
(* Other threads.                                                          *)
(***************************************************************************)
(* A discovery callback pushes what DDS announces.                          *)
Discovered(x, status) ==
  /\ Arrives
  /\ CASE status = "DISCOVERY" ->
             /\ x \notin net
             /\ x \in Endpoints => Owner[x] \in net
             /\ \A e \in net \cap Endpoints : Owner[e] # x
       [] OTHER -> x \in net
  /\ net' = IF status = "UNDISCOVERY" THEN net \ {x} ELSE net \cup {x}
  /\ direct' = direct \cup {x}
  /\ queue' = Append(queue, Info(x, KindOf(x), status, "DISCOVERY"))
  /\ UNCHANGED <<database, nodes, consumer, due, terminated, erased, said, reports,
                 overtaken, cleared>>

clear_inactive_entities ==
  LET left == stored \cap active IN
  /\ ~terminated /\ left # stored
  /\ stored' = left
  /\ orphans' = {e \in left \cap Endpoints : e \in orphans \/ Owner[e] \notin left}
  /\ last' = [e \in Endpoints |-> IF e \in left THEN last[e]
                                 ELSE [k \in StatusKinds |-> NoSample]]
  /\ nodes' = Regenerated(left, active, level)
  /\ erased' = erased \cup (stored \ left)
  /\ reports' = [e \in Endpoints |-> IF e \in left THEN reports[e] ELSE {}]
  /\ cleared' = cleared \cap left
  /\ UNCHANGED <<active, born, source, level, consumer, queue, due, net, terminated,
                 arrivals, direct, said, overtaken>>

(* clear_statistics_data(t) erases the samples older than t of every        *)
(* endpoint, and dump_database() with `clear' all of them.  The status is   *)
(* not computed again.                                                      *)
clear_statistics_data(t) ==
  LET left(e) == {r \in reports[e] : r.ts >= t}
      changed == {e \in Endpoints : left(e) # reports[e]}
  IN  /\ ~terminated /\ changed # {}
      /\ last' = [e \in Endpoints |-> [k \in StatusKinds |->
                    IF last[e][k].ts < t THEN NoSample ELSE last[e][k]]]
      /\ reports' = [e \in Endpoints |-> left(e)]
      /\ cleared' = cleared \cup changed
      /\ UNCHANGED <<stored, active, orphans, born, source, level, nodes, consumer, queue,
                     due, net, terminated, arrivals, direct, erased, said, overtaken>>

MSNext ==
  \/ \E x \in Entities : Announce(x, x) \/ Announce(x, NoGuid) \/ Dispose(x)
  \/ \E e \in Endpoints, k \in StatusKinds, ts \in 1 .. MaxTime, bad \in BOOLEAN :
       Report(e, k, ts, bad)
  \/ InsertProxy \/ UpdateInfo
  \/ EnqueueParticipant \/ EnqueuePlaceholder \/ EnqueueEndpoint
  \/ Undiscover \/ insert \/ update_graph_on_updated_entity
  \/ process_participant \/ process_endpoint \/ process_invalid \/ ProcessGraph
  \/ \E x \in Entities, status \in Statuses : Discovered(x, status)
  \/ clear_inactive_entities
  \/ \E t \in 1 .. MaxTime + 1 : clear_statistics_data(t)

MSSpec == MSInit /\ [][MSNext]_msvars

(***************************************************************************)
(* Properties.                                                             *)
(***************************************************************************)
(* Types, and: what is active, an orphan or in the graph is stored; an      *)
(* endpoint is in the graph only below its participant.                     *)
MonitorServiceTypeOK ==
  /\ stored \subseteq Entities /\ active \subseteq stored
  /\ orphans \subseteq stored \cap Endpoints
  /\ born \in [Entities -> Nat]
  /\ source \in [Entities -> Sources] /\ level \in [Entities -> Levels]
  /\ DOMAIN nodes \subseteq stored /\ Range(nodes) \subseteq Levels
  /\ DOMAIN handles \subseteq Entities /\ Range(handles) \subseteq Entities \cup {NoGuid}
  /\ enqueued \subseteq Participants \cup {NoGuid}
  /\ due \in Entities \cup {NoGuid} /\ net \subseteq Entities

(* What plain discovery told of a participant is never replaced by what a   *)
(* proxy or a placeholder says, and what a proxy told never by a            *)
(* placeholder, whichever consumer writes and whatever it read before.      *)
Trust(s) ==
  CASE s = "DISCOVERY" -> 3 [] s = "PROXY" -> 2 [] s = "INFERRED" -> 1 [] OTHER -> 0
TrustNeverFalls ==
  [][\A p \in Participants :
       (p \in stored /\ p \in stored' /\ born'[p] = born[p])
         => Trust(source'[p]) >= Trust(source[p])]_msvars

(* "it is enough to enqueue the endpoint as it will always be dequeued      *)
(* after the participant" (process_sample(), the last PROXY branch): a      *)
(* discovered endpoint in the queue finds its participant in the database   *)
(* or behind an earlier sample, unless the participant was cleared.         *)
ParticipantFirst ==
  \A i \in DOMAIN queue :
    (queue[i].kind = "ENDPOINT" /\ queue[i].status = "DISCOVERY") =>
      LET p == Owner[queue[i].entity] IN
      \/ p \in stored \cup erased
      \/ \E j \in 1 .. i - 1 : queue[j].entity = p /\ queue[j].status = "DISCOVERY"

(* The status of an endpoint is the worst among the newest samples of each  *)
(* kind, by timestamp and in whatever order they came: an error for         *)
(* extended incompatible QoS, a warning for a missed deadline, lost samples *)
(* or lost liveliness.  Whether INCOMPATIBLE_QOS alone is an error is left  *)
(* open, as documents and code differ (StatusIsWorstOfAll); and when        *)
(* samples are cleared the status stays as it was until the next one that   *)
(* is taken, of whatever kind.                                              *)
NewestIsBad(e, k) ==
  \E r \in reports[e] :
    r.kind = k /\ r.bad /\ \A q \in reports[e] : q.kind = k => q.ts <= r.ts
WorstIs(e, errors) ==
  IF \E k \in errors : NewestIsBad(e, k) THEN "ERROR_STATUS"
  ELSE IF \E k \in Warnings : NewestIsBad(e, k) THEN "WARNING_STATUS"
  ELSE "OK_STATUS"
StatusIsWorstOfNewest ==
  \A e \in (stored \cap Endpoints) \ cleared :
    level[e] \in {WorstIs(e, {"EXTENDED_INCOMPATIBLE_QOS"}),
                  WorstIs(e, {"EXTENDED_INCOMPATIBLE_QOS", "INCOMPATIBLE_QOS"})}

(* The graph shows the status of every entity in it, once the consumer that *)
(* changed it has made its graph update, and an endpoint only below its     *)
(* participant.                                                             *)
GraphShowsStatus ==
  /\ \A x \in DOMAIN nodes \ orphans :
       nodes[x] = level[x] \/ (task.at = "graph" /\ task.entity = x)
  /\ \A e \in DOMAIN nodes \cap Endpoints : Owner[e] \in DOMAIN nodes

(* A proxy that was announced, and then disposed of or lost its writers, is *)
(* not active once both queues are empty.  Two kinds of entities are        *)
(* excepted: those that plain discovery announced as well, and those whose  *)
(* disposal, or empty PROXY sample, was ever processed while something      *)
(* about them waited in the entity queue (see EveryDisposalTakesEffect).    *)
QueuesEmpty == task.at = "idle" /\ queue = <<>> /\ ~terminated
DisposedInactive ==
  QueuesEmpty => \A x \in active \ (direct \cup overtaken) : said[x] # "gone"

(* The same of every proxy, as the test of an undiscovery "immediately      *)
(* after the PROXY discovery" in DatabaseQueueTests.cpp says.  This fails:  *)
(* process_sample() handles the disposal while the announcement is in the   *)
(* queue of the other consumer, finds no entity and forgets the handle.     *)
EveryDisposalTakesEffect == QueuesEmpty => \A x \in active \ direct : said[x] # "gone"

(* A proxy whose last sample announced it is active.  This fails: a known   *)
(* entity that is inactive is updated and not activated, and participants   *)
(* stay in `enqueued' when they are cleared, so that the next announcement  *)
(* is pushed as an update of something unknown.                             *)
AnnouncedActive ==
  QueuesEmpty => \A x \in Entities : said[x] = "alive" => x \in active

(* The assertion in DatabaseEntityQueue::process_sample(): what is in the   *)
(* entity queue is a participant or an endpoint.  This fails: the empty     *)
(* PROXY sample of an entity that is unknown is pushed, with no kind.       *)
KnownKinds == \A i \in DOMAIN queue : queue[i].kind # "INVALID"

(* No sample ends the program.  This fails: an entity may be cleared        *)
(* between the change of its status and update_graph_on_updated_entity().   *)
NeverTerminated == ~terminated

(* Incompatible QoS alone is an error too, as the table of                  *)
(* docs/rst/types/status_kind.rst says.  This fails: only the extended      *)
(* status counts in update_entity_status_nts().                             *)
StatusIsWorstOfAll ==
  \A e \in (stored \cap Endpoints) \ cleared :
    level[e] = WorstIs(e, {"EXTENDED_INCOMPATIBLE_QOS", "INCOMPATIBLE_QOS"})
=============================================================================
