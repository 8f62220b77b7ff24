--------------------------- MODULE EntityDatabase ---------------------------
(***************************************************************************)
(* The entities of Database: which are stored, which are active, what they *)
(* refer to, the view graph of each domain, and what the listeners were    *)
(* told.  One thread, the consumer of the entity queue, applies discovery  *)
(* samples (DatabaseEntityQueue::process_sample()); the application may    *)
(* call clear_inactive_entities() and regenerate_domain_graph().           *)
(*                                                                         *)
(* Every action is one critical section of Database::mutex_.  A handler    *)
(* takes several: between two of them, and while a listener is called      *)
(* through execute_without_lock(), the application's calls may run.        *)
(*                                                                         *)
(* An entity is named by what makes it unique: a host by its name, a user  *)
(* by name and host, a process by name and user, a topic by domain, name   *)
(* and type, a participant or an endpoint by its GUID.  insert_nts()       *)
(* refuses a second entity with the same name, and only the consumer       *)
(* inserts.  Locators, QoS, aliases and metatraffic marks are left out,    *)
(* and all samples have discovery source DISCOVERY.                        *)
(***************************************************************************)
EXTENDS Sequences, Functions

CONSTANTS
  Domains, Hosts, Users, Processes, Participants, Topics, Endpoints,
  Parent,     (* host of a user, user of a process, process of a participant *)
              (* and participant of an endpoint                            *)
  TopicOf,    (* topic of each endpoint                                    *)
  DomainOf,   (* domain of each participant and each topic                 *)
  Pid,        (* PID of each process                                       *)
  NoEntity,   (* the entity of no sample                                   *)
  ConcurrentClear  (* whether the application clears while samples arrive  *)

Physical == Hosts \cup Users \cup Processes
Tree == Physical \cup Participants \cup Endpoints
DDSEntities == Participants \cup Endpoints
Entities == Tree \cup Topics

ASSUME KindsAssumption ==
  /\ Hosts \cap (Users \cup Processes \cup Participants \cup Endpoints \cup Topics) = {}
  /\ Users \cap (Processes \cup Participants \cup Endpoints \cup Topics) = {}
  /\ Processes \cap (Participants \cup Endpoints \cup Topics) = {}
  /\ Participants \cap (Endpoints \cup Topics) = {}
  /\ Endpoints \cap Topics = {}
  /\ NoEntity \notin Entities

ASSUME DatabaseAssumption ==
  /\ Parent \in [Tree \ Hosts -> Tree]
  /\ \A u \in Users : Parent[u] \in Hosts
  /\ \A x \in Processes : Parent[x] \in Users
  /\ \A p \in Participants : Parent[p] \in Processes
  /\ \A e \in Endpoints : Parent[e] \in Participants
  /\ TopicOf \in [Endpoints -> Topics]
  /\ DomainOf \in [Participants \cup Topics -> Domains]
  /\ \A e \in Endpoints : DomainOf[TopicOf[e]] = DomainOf[Parent[e]]
  /\ Processes \subseteq DOMAIN Pid
  /\ ConcurrentClear \in BOOLEAN

VARIABLES
  network,     (* participants and endpoints that exist, as last announced *)
  stored,      (* entities in the maps of the database                     *)
  active,      (* stored entities whose `active' is set                    *)
  linked,      (* participants whose `process' is set                      *)
  orphans,     (* endpoints whose `participant' has expired                *)
  topicless,   (* endpoints whose `topic' has expired                      *)
  graph,       (* entities in domain_view_graph, per domain                *)
  told,        (* entities whose last notification was not UNDISCOVERY     *)
  task,        (* the sample being processed and where its handler is      *)
  tell,        (* notifications due, each made with the mutex released     *)
  regen,       (* domains whose graph clear_inactive_entities() still owes *)
  terminated   (* an exception left a noexcept function                    *)

entities == <<stored, active, linked, orphans, topicless>>
dbvars == <<network, entities, graph, told, task, tell, regen, terminated>>

Statuses == {"DISCOVERY", "UPDATE", "UNDISCOVERY"}
Steps == {"idle", "kind", "change", "insert", "info", "info_graph", "physical",
          "graph", "lookup", "endpoint_graph", "find", "insert_topic",
          "insert_endpoint", "refresh"}

NoTask == [entity |-> NoEntity, status |-> "UPDATE", step |-> "idle",
           link |-> FALSE, found |-> FALSE, fresh |-> FALSE, ends |-> {}]

(* An entity with everything above it, and one with everything below it:    *)
(* four levels lie above an endpoint.                                       *)
WithParents(S) == S \cup {Parent[y] : y \in S \ Hosts}
Up(x) == WithParents(WithParents(WithParents(WithParents({x}))))
Below(x) == {y \in Tree : x \in Up(y)}

(* Host, user, process and participant of a participant, from the top.      *)
Path(p) == <<Parent[Parent[Parent[p]]], Parent[Parent[p]], Parent[p], p>>

(* The stored entities that an entity or a topic keeps a reference to.      *)
Members(x) ==
  IF x \in Topics
  THEN {e \in stored \cap Endpoints : TopicOf[e] = x /\ e \notin topicless}
  ELSE {y \in stored \cap (Tree \ Hosts) :
          /\ Parent[y] = x
          /\ y \in Participants => y \in linked
          /\ y \notin orphans}

DBInit ==
  /\ network = {} /\ stored = {} /\ active = {} /\ linked = {}
  /\ orphans = {} /\ topicless = {} /\ told = {}
  /\ graph = [d \in Domains |-> {}]
  /\ task = NoTask /\ tell = <<>> /\ regen = {} /\ terminated = FALSE

(***************************************************************************)
(* The consumer's control.                                                 *)
(***************************************************************************)
(* The mutex is free while a listener is being called and between two      *)
(* critical sections of a handler.                                         *)
Unlocked ==
  /\ ~terminated
  /\ tell # <<>> \/ (task.ends = {} /\ task.step # "info_graph")

At(step) ==
  /\ ~terminated /\ tell = <<>> /\ task.ends = {} /\ task.step = step

Goto(step) == task' = [task EXCEPT !.step = step]

(* The catch (BadParameter&) of process_participant(), process_datareader() *)
(* and process_datawriter(): what is unknown and discovered is created;     *)
(* anything else is thrown again, logged and dropped.                       *)
Unknown(x, status) ==
  IF status # "DISCOVERY" THEN NoTask
  ELSE [NoTask EXCEPT !.entity = x, !.status = status, !.fresh = TRUE,
                      !.step = IF x \in Participants THEN "insert" ELSE "find"]

Caught == Unknown(task.entity, task.status)

Known(x, status) ==
  [NoTask EXCEPT !.entity = x, !.status = status, !.step = "kind"]

(* on_domain_entity_discovery() at the end of process_sample().             *)
Notify ==
  /\ told' = IF task.status = "UNDISCOVERY" THEN told \ {task.entity}
             ELSE told \cup {task.entity}
  /\ task' = NoTask

SamePid(x, y) ==
  x # y /\ Parent[Parent[x]] = Parent[Parent[y]] /\ Pid[x] = Pid[y]

(* What DDS announces.  An endpoint is discovered after its participant; it *)
(* may be undiscovered after it, as the metatraffic writer of a participant *)
(* always is, but before that participant is discovered again.  Two live    *)
(* processes of a host have different PIDs.                                 *)
Happens(x, status) ==
  CASE status = "DISCOVERY" ->
         /\ x \notin network
         /\ x \in Endpoints => Parent[x] \in network
         /\ \A e \in network \cap Endpoints : Parent[e] # x
         /\ x \in Participants =>
              \A p \in network \cap Participants : ~SamePid(Parent[p], Parent[x])
    [] status = "UPDATE" ->
         x \in network /\ (x \in Endpoints => Parent[x] \in network)
    [] OTHER -> x \in network

process_sample(x, status) ==
  /\ At("idle")
  /\ Happens(x, status)
  /\ network' = IF status = "UNDISCOVERY" THEN network \ {x}
                ELSE network \cup {x}
  /\ task' = IF x \in stored THEN Known(x, status) ELSE Unknown(x, status)
  /\ UNCHANGED <<entities, graph, told, tell, regen, terminated>>

(***************************************************************************)
(* change_entity_status().                                                 *)
(***************************************************************************)
(* The physical entities that become active with a process, in the order in *)
(* which they are notified: host, user, process.                            *)
Rise(x) ==
  LET u == Parent[x]
      h == Parent[u]
  IN  IF x \in active THEN <<>>
      ELSE IF u \in active THEN <<x>>
      ELSE IF h \in active THEN <<u, x>>
      ELSE <<h, u, x>>

(* MUTANT: the first notification is that of the process.                   *)
Tells_Reversed(s, on) ==
  [i \in 1 .. Len(s) |-> [entity |-> s[Len(s) + 1 - i], on |-> on]]

(* MUTANT: the other members are not looked at.                             *)
Unused_Unchecked(x, left) == TRUE

(* Nothing but the member that left keeps an entity or a topic active.      *)
Unused(x, left) == \A y \in Members(x) \ {left} : y \notin active
Falls(x, left) == x \in active /\ Unused(x, left)

(* Those that become inactive with a participant, in the same order.        *)
Fall(p) ==
  LET x == Parent[p]
      u == Parent[x]
      h == Parent[u]
  IN  IF ~Falls(x, p) THEN <<>>
      ELSE IF ~Falls(u, x) THEN <<x>>
      ELSE IF ~Falls(h, u) THEN <<u, x>>
      ELSE <<h, u, x>>

Tells(s, on) == [i \in 1 .. Len(s) |-> [entity |-> s[i], on |-> on]]

(* get_entity_kind(), which throws if the entity is gone.                   *)
get_entity_kind ==
  /\ At("kind")
  /\ IF task.entity \in stored THEN Goto("change") ELSE task' = Caught
  /\ UNCHANGED <<network, entities, graph, told, tell, regen, terminated>>

(* Where process_participant() continues once the status is set.            *)
AfterStatus == IF task.status = "UPDATE" THEN "info" ELSE "physical"

(* A participant turns active: so do its process, user and host.            *)
ParticipantActive(p) ==
  LET rising == IF p \in linked THEN Rise(Parent[p]) ELSE <<>>
  IN  /\ active' = active \cup {p} \cup Range(rising)
      /\ tell' = Tells(rising, TRUE)
      /\ Goto(AfterStatus)

(* A participant turns inactive: its process, user and host do if nothing   *)
(* else keeps them active, and then its endpoints, one by one.              *)
ParticipantInactive(p) ==
  LET falling == IF p \in linked THEN Fall(p) ELSE <<>>
  IN  /\ active' = active \ ({p} \cup Range(falling))
      /\ tell' = Tells(falling, FALSE)
      /\ task' = [task EXCEPT !.step = AfterStatus,
                              !.ends = Members(p)]

ChangeParticipant ==
  LET p == task.entity IN
  /\ At("change") /\ p \in Participants
  /\ \/ /\ p \in stored /\ p \notin active /\ task.status # "UNDISCOVERY"
        /\ ParticipantActive(p)
     \/ /\ p \in active /\ task.status = "UNDISCOVERY"
        /\ ParticipantInactive(p)
     \/ /\ p \notin stored \/ (p \in active <=> task.status # "UNDISCOVERY")
        /\ Goto(AfterStatus)
        /\ UNCHANGED <<active, tell>>
  /\ UNCHANGED <<network, stored, linked, orphans, topicless, graph, told,
                 regen, terminated>>

(* MUTANT: only the topic is looked at.                                     *)
EndpointChanges_TopicOnly(e, on) == (TopicOf[e] \in active) # on

EndpointChanges(e, on) == (e \in active) # on \/ (TopicOf[e] \in active) # on

(* The branches for DATAWRITER and DATAREADER.  `held' says that the caller *)
(* keeps the participant of the endpoint alive.                             *)
change_endpoint_status(e, on, held) ==
  LET t == TopicOf[e]
      changes == EndpointChanges(e, on)
      change_status ==
        /\ changes
        /\ IF on THEN t \notin active
           ELSE Unused(t, e)
      topic_changes == change_status /\ (t \in active) # on
      changed == (IF changes THEN {e} ELSE {})
                 \cup (IF topic_changes THEN {t} ELSE {})
  IN  IF e \notin stored THEN UNCHANGED <<active, tell, terminated>>
      ELSE IF e \in topicless \/ (change_status /\ e \in orphans /\ ~held)
      THEN terminated' = TRUE /\ UNCHANGED <<active, tell>>
      ELSE /\ active' = IF on THEN active \cup changed ELSE active \ changed
           /\ tell' = IF topic_changes THEN Tells(<<t>>, on) ELSE <<>>
           /\ UNCHANGED terminated

(* An endpoint of the participant that turned inactive.                     *)
EndpointInactive(e) ==
  /\ ~terminated /\ tell = <<>> /\ e \in task.ends
  /\ change_endpoint_status(e, FALSE, TRUE)
  /\ task' = [task EXCEPT !.ends = @ \ {e}]
  /\ UNCHANGED <<network, stored, linked, orphans, topicless, graph, told, regen>>

(* The status of a known endpoint, or of one just created.                  *)
ChangeEndpoint ==
  LET e == task.entity IN
  /\ At(IF task.fresh THEN "refresh" ELSE "change") /\ e \in Endpoints
  /\ change_endpoint_status(e, task.status # "UNDISCOVERY", FALSE)
  /\ Goto(IF task.fresh THEN "endpoint_graph" ELSE "lookup")
  /\ UNCHANGED <<network, stored, linked, orphans, topicless, graph, told, regen>>

(* One call of a listener with the mutex released.                          *)
execute_without_lock ==
  /\ ~terminated /\ tell # <<>>
  /\ told' = IF Head(tell).on THEN told \cup {Head(tell).entity}
             ELSE told \ {Head(tell).entity}
  /\ tell' = Tail(tell)
  /\ UNCHANGED <<network, entities, graph, task, regen, terminated>>

(***************************************************************************)
(* The domain view graphs.                                                 *)
(***************************************************************************)
(* update_participant_in_graph_nts() on the valid ids `path', host first:   *)
(* active entities are added down to the first one that is not active,      *)
(* which is erased with everything below it.  get_entity_nts() throws at an *)
(* entity that is no longer stored.                                         *)
Reached(path) ==
  {path[i] : i \in {k \in DOMAIN path : \A j \in 1 .. k : path[j] \in active}}
Cut(path) ==
  {path[i] : i \in {k \in DOMAIN path : /\ path[k] \notin active
                                       /\ \A j \in 1 .. k - 1 : path[j] \in active}}

GraphThrows(path) == ~(Cut(path) \subseteq stored)

(* MUTANT: what is no longer active is not erased.                          *)
ParticipantGraph_NoErase(d, path) == graph[d] \cup Reached(path)

ParticipantGraph(d, path) ==
  (graph[d] \cup Reached(path)) \ UNION {Below(x) : x \in Cut(path) \cap stored}

update_participant_in_graph ==
  LET p == task.entity
      d == DomainOf[p]
      path == IF task.found THEN Path(p)
              ELSE <<Parent[Parent[Parent[p]]], Parent[Parent[p]]>>
  IN  /\ At("graph")
      /\ graph' = [graph EXCEPT ![d] = ParticipantGraph(d, path)]
      /\ IF GraphThrows(path) THEN task' = NoTask /\ UNCHANGED told ELSE Notify
      /\ UNCHANGED <<network, entities, tell, regen, terminated>>

(* update_endpoint_in_graph_nts(): the topic if its id is known, then the   *)
(* endpoint if the way down to its participant is in the graph.             *)
update_endpoint_in_graph ==
  LET e == task.entity
      p == Parent[e]
      t == TopicOf[e]
      d == DomainOf[p]
      no_topic == task.found /\ t \notin stored
      topic_done == IF ~task.found \/ no_topic THEN graph[d]
                    ELSE IF t \in active THEN graph[d] \cup {t} ELSE graph[d] \ {t}
      present == p \in linked /\ Range(Path(p)) \subseteq graph[d]
      throws == no_topic \/ p \notin stored \/ (present /\ e \notin stored)
  IN  /\ At("endpoint_graph")
      /\ graph' = [graph EXCEPT ![d] =
            IF throws \/ ~present THEN topic_done
            ELSE IF e \in active THEN topic_done \cup {e} ELSE topic_done \ {e}]
      /\ IF ~throws THEN Notify
         ELSE task' = (IF task.fresh THEN NoTask ELSE Caught) /\ UNCHANGED told
      /\ UNCHANGED <<network, entities, tell, regen, terminated>>

(* MUTANT: the topics are forgotten.                                        *)
Regenerated_NoTopics(d, kept) ==
  LET shown == kept \cap active
      of_domain == {p \in linked \cap kept : DomainOf[p] = d}
      hosts == {h \in Hosts \cap shown : \E p \in of_domain : h \in Up(p)}
  IN  {x \in Tree \cap shown :
         /\ Up(x) \subseteq shown
         /\ Up(x) \cap hosts # {}
         /\ Up(x) \cap Participants \subseteq linked
         /\ x \notin orphans}

(* regenerate_domain_graph_nts(): the active topics of the domain, its      *)
(* active hosts, and every active entity below these.                       *)
Regenerated(d, kept) ==
  LET shown == kept \cap active
      of_domain == {p \in linked \cap kept : DomainOf[p] = d}
      hosts == {h \in Hosts \cap shown : \E p \in of_domain : h \in Up(p)}
  IN  {t \in Topics \cap shown : DomainOf[t] = d}
      \cup {x \in Tree \cap shown :
              /\ Up(x) \subseteq shown
              /\ Up(x) \cap hosts # {}
              /\ Up(x) \cap Participants \subseteq linked
              /\ x \notin orphans}

(* What regenerating a graph may write, entities above others first.  The   *)
(* node of an endpoint names its topic: an endpoint whose topic is gone     *)
(* ends the regeneration with an exception (Inconsistency).                 *)
Written(shown, gone) ==
  IF shown \cap gone = {} THEN {shown}
  ELSE {T \in SUBSET shown :
          /\ shown \cap Topics \subseteq T
          /\ T \cap gone # {}
          /\ \A x \in T \cap (Tree \ Hosts) : Parent[x] \in T}

(***************************************************************************)
(* The rest of process_participant().                                      *)
(***************************************************************************)
insert_new_participant ==
  LET p == task.entity IN
  /\ At("insert")
  /\ stored' = stored \cup {p}
  /\ active' = active \cup {p}
  /\ task' = [task EXCEPT !.step = "physical", !.link = TRUE]
  /\ UNCHANGED <<network, linked, orphans, topicless, graph, told, tell, regen,
                 terminated>>

(* link_participant_with_process_nts(): an active participant raises the    *)
(* process it is linked to.                                                 *)
LinkRises(p) == IF p \in active THEN Rise(Parent[p]) ELSE <<>>

(* update_participant_discovery_info_nts() up to the graph.  The process is *)
(* found by name: a participant without one is linked now, if it exists.    *)
(* Otherwise the null `process' throws, which is logged.                    *)
update_participant_discovery_info ==
  LET p == task.entity
      found == Parent[p] \in stored
      rising == IF found THEN LinkRises(p) ELSE <<>>
  IN  /\ At("info")
      /\ IF p \notin stored
         THEN task' = Caught /\ UNCHANGED <<linked, active, tell>>
         ELSE /\ linked' = IF found THEN linked \cup {p} ELSE linked
              /\ active' = active \cup Range(rising)
              /\ tell' = Tells(rising, TRUE)
              /\ Goto(IF found THEN "info_graph" ELSE "physical")
      /\ UNCHANGED <<network, stored, orphans, topicless, graph, told, regen,
                     terminated>>

(* Its end: the participant is updated in the graph, and a graph that       *)
(* changed is regenerated.                                                  *)
UpdateInfoGraph ==
  LET p == task.entity
      d == DomainOf[p]
      path == Path(p)
      updated == path[1] \in active \/ path[1] \in graph[d]
      shown == Regenerated(d, stored)
  IN  /\ At("info_graph")
      /\ \/ /\ GraphThrows(path)
            /\ graph' = [graph EXCEPT ![d] = ParticipantGraph(d, path)]
            /\ task' = Caught
         \/ /\ ~GraphThrows(path) /\ ~updated
            /\ Goto("physical")
            /\ UNCHANGED graph
         \/ /\ ~GraphThrows(path) /\ updated
            /\ \E T \in Written(shown, topicless) : graph' = [graph EXCEPT ![d] = T]
            /\ IF shown \cap topicless = {} THEN Goto("physical") ELSE task' = NoTask
      /\ UNCHANGED <<network, entities, told, tell, regen, terminated>>

(* insert_nts() refuses a process if its host has another with its PID.     *)
PidTaken(x) == \E y \in Processes \cap stored : SamePid(y, x)

(* process_physical_entities(): host, user and process are found or created *)
(* and the participant is linked if it, or the process, is new.             *)
process_physical_entities ==
  LET p == task.entity
      x == Parent[p]
      refused == x \notin stored /\ PidTaken(x)
      should_link == task.link \/ x \notin stored
      links == ~refused /\ should_link /\ p \in stored \ linked
      rising == IF links THEN LinkRises(p) ELSE <<>>
  IN  /\ At("physical")
      /\ stored' = stored \cup (IF refused THEN Up(Parent[x]) ELSE Up(x))
      /\ linked' = IF links THEN linked \cup {p} ELSE linked
      /\ active' = active \cup Range(rising)
      /\ tell' = Tells(rising, TRUE)
      /\ task' = [task EXCEPT !.step = "graph", !.found = ~refused]
      /\ UNCHANGED <<network, orphans, topicless, graph, told, regen, terminated>>

(***************************************************************************)
(* The rest of process_datareader(), process_datawriter() and              *)
(* process_endpoint_discovery().                                           *)
(***************************************************************************)
(* get_entities_by_name() and is_topic_in_database().                       *)
TopicKnown(e) == TopicOf[e] \in stored

(* The participant and the topic of a known endpoint are looked up.         *)
LookupTopic ==
  LET e == task.entity IN
  /\ At("lookup")
  /\ task' = IF Parent[e] \notin stored THEN Caught
             ELSE [task EXCEPT !.step = "endpoint_graph",
                               !.found = TopicKnown(e)]
  /\ UNCHANGED <<network, entities, graph, told, tell, regen, terminated>>

FindTopic ==
  LET e == task.entity IN
  /\ At("find")
  /\ task' = IF Parent[e] \notin stored THEN NoTask
             ELSE [task EXCEPT !.found = TRUE,
                     !.step = IF TopicKnown(e) THEN "insert_endpoint"
                              ELSE "insert_topic"]
  /\ UNCHANGED <<network, entities, graph, told, tell, regen, terminated>>

(* MUTANT: the new topic is not notified.                                   *)
insert_new_topic_Silent ==
  LET t == TopicOf[task.entity] IN
  /\ At("insert_topic")
  /\ stored' = stored \cup {t}
  /\ active' = active \cup {t}
  /\ Goto("insert_endpoint")
  /\ UNCHANGED <<network, linked, orphans, topicless, graph, told, tell, regen,
                 terminated>>

insert_new_topic ==
  LET t == TopicOf[task.entity] IN
  /\ At("insert_topic")
  /\ stored' = stored \cup {t}
  /\ active' = active \cup {t}
  /\ told' = told \cup {t}
  /\ Goto("insert_endpoint")
  /\ UNCHANGED <<network, linked, orphans, topicless, graph, tell, regen,
                 terminated>>

(* insert_ddsendpoint_nts() throws if the participant or the topic found is *)
(* gone, or if the GUID is taken; the sample is dropped.                    *)
Accepts(e) == {Parent[e], TopicOf[e]} \subseteq stored /\ e \notin stored

insert_new_endpoint ==
  LET e == task.entity
  IN  /\ At("insert_endpoint")
      /\ IF Accepts(e)
         THEN /\ stored' = stored \cup {e}
              /\ active' = active \cup {e}
              /\ Goto("refresh")
         ELSE task' = NoTask /\ UNCHANGED <<stored, active>>
      /\ UNCHANGED <<network, linked, orphans, topicless, graph, told, tell,
                     regen, terminated>>

(***************************************************************************)
(* The application.                                                        *)
(***************************************************************************)
(* No sample is being processed or owed by a discovery callback.            *)
Settled ==
  /\ task = NoTask /\ tell = <<>> /\ regen = {}
  /\ \A e \in network \cap Endpoints : Parent[e] \in network

(* MUTANT: clear_internal_references_nts_() is forgotten for participants.  *)
Kept_All(S) == S

(* The references that remain after clear_internal_references_nts_().       *)
Kept(S) == S \cap stored \cap active

(* clear_inactive_entities() up to the first graph, in one critical         *)
(* section.  What refers to an erased entity from below expires.  An        *)
(* exception leaves the remaining graphs as they are.                       *)
clear_inactive_entities(d) ==
  LET kept == stored \cap active
      gone == {e \in kept \cap Endpoints : e \in topicless \/ TopicOf[e] \notin kept}
      shown == Regenerated(d, kept)
  IN
  /\ Unlocked /\ regen = {}
  /\ ConcurrentClear \/ Settled
  /\ stored' = kept
  /\ linked' = Kept(linked)
  /\ orphans' = {e \in kept \cap Endpoints : e \in orphans \/ Parent[e] \notin kept}
  /\ topicless' = gone
  /\ \E T \in Written(shown, gone) : graph' = [graph EXCEPT ![d] = T]
  /\ regen' = IF shown \cap gone = {} THEN Domains \ {d} ELSE {}
  /\ UNCHANGED <<network, active, told, task, tell, terminated>>

(* A graph, in a critical section of its own: one that                      *)
(* clear_inactive_entities() owes, or a call of                             *)
(* StatisticsBackend::regenerate_domain_graph().                            *)
regenerate_domain_graph(d) ==
  LET shown == Regenerated(d, stored) IN
  /\ Unlocked
  /\ \E T \in Written(shown, topicless) : graph' = [graph EXCEPT ![d] = T]
  /\ \/ /\ d \in regen
        /\ regen' = IF shown \cap topicless = {} THEN regen \ {d} ELSE {}
     \/ UNCHANGED regen
  /\ UNCHANGED <<network, entities, told, task, tell, terminated>>

DBNext ==
  \/ \E x \in DDSEntities, status \in Statuses : process_sample(x, status)
  \/ get_entity_kind \/ ChangeParticipant \/ ChangeEndpoint
  \/ \E e \in Endpoints : EndpointInactive(e)
  \/ execute_without_lock
  \/ insert_new_participant \/ update_participant_discovery_info
  \/ UpdateInfoGraph \/ process_physical_entities
  \/ update_participant_in_graph \/ update_endpoint_in_graph
  \/ LookupTopic \/ FindTopic \/ insert_new_topic \/ insert_new_endpoint
  \/ \E d \in Domains : clear_inactive_entities(d) \/ regenerate_domain_graph(d)

DBSpec == DBInit /\ [][DBNext]_dbvars

(***************************************************************************)
(* Properties.                                                             *)
(***************************************************************************)
DBTypeOK ==
  /\ network \subseteq DDSEntities
  /\ stored \subseteq Entities
  /\ active \subseteq stored
  /\ linked \subseteq Participants \cap stored
  /\ orphans \subseteq Endpoints \cap stored
  /\ topicless \subseteq Endpoints \cap stored
  /\ graph \in [Domains -> SUBSET Entities]
  /\ told \subseteq Entities
  /\ task \in [entity : DDSEntities \cup {NoEntity}, status : Statuses,
                step : Steps, link : BOOLEAN, found : BOOLEAN,
                fresh : BOOLEAN, ends : SUBSET Endpoints]
  /\ tell \in Seq([entity : Entities, on : BOOLEAN])
  /\ regen \subseteq Domains
  /\ terminated \in BOOLEAN

(* A physical entity is active exactly when something in it is, and so is a *)
(* topic: change_entity_status_of_kind() carries every change upwards.      *)
ActiveAsMembers ==
  Settled => \A x \in stored \cap (Physical \cup Topics) :
               x \in active <=> Members(x) \cap active # {}

(* The participants and endpoints shown as active are those that exist on   *)
(* the network, whatever the order of discoveries and clearings.            *)
MirrorsNetwork == Settled => active \cap DDSEntities = network

(* What the listeners were last told of a participant or an endpoint is     *)
(* what the database says of it, and they were told of every other entity   *)
(* that is active.  Whether they are told that a topic or a physical entity *)
(* is gone is left open, as documents and code differ (see                  *)
(* TopicsNeverUndiscovered and PhysicalNeverUndiscovered).                  *)
ToldWhatIs ==
  Settled => /\ told \cap DDSEntities = active \cap DDSEntities
             /\ active \subseteq told

(* A reference that a stored entity keeps to its parent or its topic is not *)
(* expired; fragile_ptr relies on it, and change_entity_status_of_kind() is *)
(* noexcept.  (While a participant falls, its handler keeps it alive.)      *)
ReferencesAlive ==
  /\ tell = <<>> => orphans \subseteq task.ends
  /\ topicless = {} /\ ~terminated
  /\ \A x \in stored \cap (Users \cup Processes) : Parent[x] \in stored
  /\ \A p \in linked : Parent[p] \in stored

(* The graph of a domain holds no entity that is not active.                *)
GraphOnlyActive == Settled => \A d \in Domains : graph[d] \subseteq active

(* The graph of a domain holds no participant of another domain.            *)
GraphOfDomain ==
  Settled => \A d \in Domains, p \in Participants : p \in graph[d] => DomainOf[p] = d

(* The graph of a domain holds its active participants, endpoints and       *)
(* topics, and what is above them.                                          *)
GraphAllActive ==
  Settled =>
    \A x \in active \cap (Participants \cup Topics) :
      /\ x \in graph[DomainOf[x]]
      /\ x \in Participants =>
           Up(x) \cup {e \in Endpoints \cap active : Parent[e] = x}
             \subseteq graph[DomainOf[x]]

(* In a single domain the graph is "the entire graph of active entities":   *)
(* after any sample and any clear it shows what is active, and only that.   *)
GraphIsActive == GraphOnlyActive /\ GraphAllActive

(* With several domains a node that is not active is, or is above or below, *)
(* a participant of another domain: of what is in its own domain alone a    *)
(* graph shows nothing that is gone, after any sample and any clear.        *)
Foreign(d) ==
  UNION {Up(p) \cup Below(p) : p \in {q \in Participants : DomainOf[q] # d}}
NoStaleNodes == Settled => \A d \in Domains : graph[d] \subseteq active \cup Foreign(d)

(* "The topics are never undiscovered" (docs/rst/listeners/                 *)
(* domain_listener.rst): the topics that a listener was told of stay known  *)
(* to it for as long as they are stored.  This fails: the last endpoint     *)
(* that turns inactive takes its topic along, and listeners are told.       *)
TopicsNeverUndiscovered == Settled => Topics \cap stored \subseteq told

(* "Hosts are never undiscovered", nor users nor processes                  *)
(* (docs/rst/listeners/physical_listener.rst).  This fails: the last        *)
(* participant that turns inactive takes its process along, and so on up.   *)
PhysicalNeverUndiscovered == Settled => Physical \cap stored \subseteq told

(* A listener learns of a user after its host and of a process after its    *)
(* user ("Discovering user after discovering host").                        *)
ParentToldFirst ==
  [][\A x \in (told' \ told) \cap (Users \cup Processes) : Parent[x] \in told]_dbvars

(* Whatever the application clears, between which critical sections: what a *)
(* user, a process or a linked participant refers to stays stored, and the  *)
(* host, user and process of an active participant stay active.             *)
NeverClearedInUse ==
  /\ \A x \in (stored \cap (Users \cup Processes)) \cup linked : Parent[x] \in stored
  /\ \A p \in linked \cap active : Up(Parent[p]) \subseteq active
=============================================================================
