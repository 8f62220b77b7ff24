------------------------------ MODULE DataQueue ------------------------------
(***************************************************************************)
(* The consumer of the statistics data queue, DatabaseDataQueue<Data>: how *)
(* an event that a DDS participant publishes becomes samples of the        *)
(* database of StatisticsData.  An event names its entities by GUID and    *)
(* its locator by name; they are looked up in critical sections of their   *)
(* own, and other threads change the database between them.                *)
(***************************************************************************)
EXTENDS StatisticsData

CONSTANT Events    (* [kind |-> EventKind, source |-> entity, remote |-> entity or NoKey] *)

VARIABLES
  task,    (* the event in work, the data kinds still to do and the next step *)
  told     (* the data the listener was told of: <<data kind, entity>>        *)

qvars == <<dvars, task, told>>

NoTask == [at |-> "idle"]

(* The samples that an event holds. *)
DataOf(event) ==
  CASE event.kind = "HISTORY2HISTORY_LATENCY" -> <<"FASTDDS_LATENCY">>
    [] event.kind = "RTPS_SENT" -> <<"RTPS_PACKETS_SENT", "RTPS_BYTES_SENT">>
    [] event.kind = "RTPS_LOST" -> <<"RTPS_PACKETS_LOST", "RTPS_BYTES_LOST">>
    [] event.kind = "RESENT_DATAS" -> <<"RESENT_DATA">>
    [] event.kind = "DISCOVERED_ENTITY" -> <<"DISCOVERY_TIME">>
    [] OTHER -> <<event.kind>>

(* The EntityKind that process_sample() looks the source up with. *)
LookupKind(event) ==
  CASE event.kind \in {"NETWORK_LATENCY", "PDP_PACKETS", "EDP_PACKETS", "DISCOVERED_ENTITY"}
         -> "PARTICIPANT"
    [] event.kind \in {"SUBSCRIPTION_THROUGHPUT", "ACKNACK_COUNT", "NACKFRAG_COUNT"}
         -> "DATAREADER"
    [] OTHER -> "DATAWRITER"

(* The one it looks the remote entity up with. *)
RemoteKind(event) ==
  IF event.kind = "HISTORY2HISTORY_LATENCY" THEN "DATAREADER" ELSE LookupKind(event)

(* get_entity_by_guid(). *)
Found(kind, e) == e \in known /\ KindOf[e] = kind

(* process_sample_type() begins with the locator or the remote entity. *)
FirstLookup(event) ==
  CASE event.kind \in {"NETWORK_LATENCY", "RTPS_SENT", "RTPS_LOST"} -> "locator"
    [] event.kind \in {"HISTORY2HISTORY_LATENCY", "DISCOVERED_ENTITY"} -> "remote"
    [] OTHER -> "source"

(* The database when the consumer starts: a locator is known if an endpoint *)
(* has it.                                                                  *)
QueueInit ==
  /\ \E some \in SUBSET Locators : known = (Entities \ Locators) \cup some
  /\ data = Nothing /\ last = NoReport /\ phase = "live"
  /\ file = [known |-> {}, data |-> Nothing, last |-> NoReport] /\ pending = Nothing
  /\ query = Idle /\ reported = [l \in Lists |-> 0] /\ received = 0 /\ calls = 0
  /\ gone = [l \in Lists |-> 0]
  /\ task = NoTask
  /\ told = {}

rest == <<phase, file, pending, reported, calls, gone>>

(* The front of the queue.  steady is a history: the entities of the event  *)
(* are in the database, and stay there.                                     *)
Take(event, ts, value) ==
  /\ task.at = "idle" /\ received < MaxSamples
  /\ received' = received + 1
  /\ task' = [at |-> FirstLookup(event), event |-> event, todo |-> DataOf(event),
              ts |-> ts, value |-> value, dropped |-> FALSE,
              steady |-> {event.source, event.remote} \subseteq known \cup Locators \cup {NoKey}]
  /\ UNCHANGED <<known, data, last, query, told, rest>>

(* An exception: this sample is dropped with a warning.  RTPS_SENT and      *)
(* RTPS_LOST go on with their second sample.                                *)
Drop ==
  IF Len(task.todo) > 1
  THEN [task EXCEPT !.at = FirstLookup(task.event), !.todo = Tail(@), !.dropped = TRUE]
  ELSE [task EXCEPT !.at = "done", !.dropped = TRUE]

(* get_or_create_locator(): the lookup, and the insertion, which throws     *)
(* when the name was inserted meanwhile.                                    *)
LookupLocator ==
  /\ task.at = "locator"
  /\ task' = [task EXCEPT !.at = IF task.event.remote \in known THEN "source" ELSE "create"]
  /\ UNCHANGED <<known, data, last, query, received, told, rest>>

CreateLocator ==
  /\ task.at = "create"
  /\ IF task.event.remote \in known THEN task' = Drop /\ UNCHANGED known
     ELSE /\ known' = known \cup {task.event.remote}
          /\ task' = [task EXCEPT !.at = "source"]
  /\ UNCHANGED <<data, last, query, received, told, rest>>

LookupRemote ==
  /\ task.at = "remote"
  /\ task' = IF Found(RemoteKind(task.event), task.event.remote)
             THEN [task EXCEPT !.at = "source"] ELSE Drop
  /\ UNCHANGED <<known, data, last, query, received, told, rest>>

LookupSource ==
  /\ task.at = "source"
  /\ task' = IF Found(LookupKind(task.event), task.event.source)
             THEN [task EXCEPT !.at = "insert"] ELSE Drop
  /\ UNCHANGED <<known, data, last, query, received, told, rest>>

(* Database::insert() looks the entity up among those of the kind the data  *)
(* is about.  The listener is told after the last sample.                   *)
Insert ==
  /\ task.at = "insert"
  /\ LET kind == Head(task.todo)
         l == <<kind, task.event.source, task.event.remote>>
         sample == IF kind \in ByteCounters
                   THEN Sample(task.ts, task.value % Base, task.value \div Base)
                   ELSE Sample(task.ts, task.value, 0)
     IN  IF Found(SourceKind(kind), task.event.source)
         THEN /\ insert(l, sample)
              /\ IF Len(task.todo) > 1
                 THEN /\ task' = [task EXCEPT !.at = FirstLookup(task.event), !.todo = Tail(@)]
                      /\ UNCHANGED told
                 ELSE /\ task' = [task EXCEPT !.at = "done"]
                      /\ told' = told \cup {<<k, task.event.source>> : k \in Range(DataOf(task.event))}
         ELSE task' = Drop /\ UNCHANGED <<data, last, query, told>>
  /\ UNCHANGED <<known, received, rest>>

Done ==
  /\ task.at = "done"
  /\ task' = NoTask
  /\ UNCHANGED <<known, data, last, query, received, told, rest>>

(* Other threads: the entity queue inserts an endpoint with its locators;   *)
(* the application clears an entity.                                        *)
NewEndpoint(locator) ==
  /\ known' = known \cup {locator}
  /\ UNCHANGED <<data, last, query, received, task, told, rest>>

ClearEntity(e) ==
  /\ Erase(e)
  /\ task' = IF task.at = "idle" THEN task
             ELSE [task EXCEPT !.steady = @ /\ e \notin {task.event.source, task.event.remote}]
  /\ UNCHANGED told

QueueNext ==
  \/ \E event \in Events, ts \in 1 .. MaxTime, value \in 1 .. MaxCount : Take(event, ts, value)
  \/ LookupLocator \/ CreateLocator \/ LookupRemote \/ LookupSource \/ Insert \/ Done
  \/ \E locator \in Locators : NewEndpoint(locator)
  \/ \E e \in Entities \ Locators : ClearEntity(e)

QueueSpec == QueueInit /\ [][QueueNext]_qvars

----------------------------------------------------------------------------
(* An event about entities that the database knows, of the kinds that its   *)
(* data is about, is not dropped: "Amount of packets sent from a            *)
(* participant to a locator" is there to be queried.                        *)
KnownNotDropped ==
  (task.at # "idle" /\ task.steady /\ KindOf[task.event.source] = SourceKind(DataOf(task.event)[1]))
  => ~task.dropped
============================================================================
